------------------------------ MODULE Proposer ------------------------------
(* A proposing node: the pool (Mempool) over the ledger (Transactions, as in *)
(* AtomicLedger), with Engine.ProposeBlock and Engine.HandleProposal of      *)
(* pkg/consensus/hotstuff.go as far as they decide what is committed.        *)
(*                                                                           *)
(* Every validator's clock shows the same time.  A block that is proposed    *)
(* with a valid timestamp and that the ledger accepts is voted for and       *)
(* applied in one step: votes and rounds are HotStuff's, the steps of        *)
(* applying Ledger's.  A block the ledger refuses changes nothing.           *)
EXTENDS Transactions

CONSTANTS
  Client,          \* goroutines that call AddTx
  PoolTx,          \* transactions that clients submit to this node
  OtherTx,         \* transactions in the blocks of other proposers
  HashBelow(_, _), \* the order of transaction hashes
  BlockMaxTxs, GenesisTime, MaxSkewSec, WindowN,
  MaxNonce,        \* bound on nonces
  MaxClock         \* bound on the clock

ASSUME ProposerAssumption ==
  /\ PoolTx \subseteq Tx /\ OtherTx \subseteq Tx
  /\ ValidateGenesis(WindowN, MaxSkewSec)
  /\ GenesisTime \in Int /\ MaxClock \in Int
  /\ {BlockMaxTxs, MaxNonce} \subseteq Nat
  /\ \A tx \in PoolTx \union OtherTx : tx.nonce < MaxNonce
  /\ \A t, u \in PoolTx : HashBelow(t, u) => ~HashBelow(u, t)
  /\ \A t, u \in PoolTx : t # u => HashBelow(t, u) \/ HashBelow(u, t)
  /\ \A t, u, v \in PoolTx : HashBelow(t, u) /\ HashBelow(u, v) => HashBelow(t, v)

VARIABLES
  accounts, lastTimestamps,  \* the store
  clock,                     \* time.Now().Unix() of every validator
  pool, adding               \* Mempool's

vars == << accounts, lastTimestamps, clock, pool, adding >>

\* What the pool sees of the accounts (State.GetAccount).
Nonces == [a \in Addr |-> accounts[a].nonce]
Credits == [a \in Addr |-> accounts[a].rc]

\* The contract engine is empty: deployments that end in an error or a panic
\* are Ledger's.
CostOf(tx) == CosterCost(tx, {})

Pool == INSTANCE Mempool WITH
  Sender <- Addr, Tx <- PoolTx, CostOf <- CostOf, MaxRC <- MaxUint,
  nonce <- Nonces, rc <- Credits

-----------------------------------------------------------------------------

Now == EffectiveTime(clock, lastTimestamps, MaxSkewSec)

\* Mutant: HandleProposal clamps the timestamp and does not compare it.
AnyTimestamp == TRUE

\* Mutant: a block must be later than the median.
LaterTimestamp == Now = clock /\ clock > Median(lastTimestamps)

\* HandleProposal's timestamp check; the proposer does not clamp its clock.
ValidTimestamp == Now = clock

\* A block with these transactions is proposed, voted for and applied.
CommitBlock(txs) ==
  /\ ValidTimestamp
  /\ accounts' \in ExecuteAll(accounts, txs, Now, FALSE, {})
  /\ lastTimestamps' = Slide(lastTimestamps, clock, WindowN)
  /\ UNCHANGED << clock, pool, adding >>

Selected == Pool!SelectForBlock

\* ProposeBlock selects once.
Propose == \E txs \in {Selected} : CommitBlock(txs)

OtherProposes == \E tx \in OtherTx : CommitBlock(<< tx >>)

AddTx ==
  /\ UNCHANGED << accounts, lastTimestamps, clock >>
  /\ \E c \in Client : (\E tx \in PoolTx : Pool!CheckTx(c, tx)) \/ Pool!InsertTx(c)

Tick ==
  /\ clock < MaxClock
  /\ clock' = clock + 1
  /\ UNCHANGED << accounts, lastTimestamps, pool, adding >>

Init ==
  /\ accounts = FreshAccounts
  /\ lastTimestamps = << GenesisTime >>
  /\ clock = GenesisTime
  /\ pool = [a \in Addr |-> << >>]
  /\ adding = [c \in Client |-> {}]

Next == AddTx \/ Propose \/ OtherProposes \/ Tick

\* A driver that keeps asking this node to propose; clients need not submit.
Spec == Init /\ [][Next]_vars /\ WF_vars(Propose)

-----------------------------------------------------------------------------
(* Properties.                                                               *)

\* The ledger is an environment the pool was checked in: every step of the
\* composed node is a step of Mempool, so that what holds there holds here
\* (State.GetAccount, AddTx, SelectForBlock).
PoolImplemented == Pool!Init /\ [][Pool!Next]_(Pool!vars)

\* AddTx compares the stored credit, which is 0 at genesis and regenerated only
\* when a transaction of the account is applied: no account's first transaction
\* ever gets into the pool, so a network whose proposers all use their pools
\* never commits a transaction.
NoFirstTxPooled ==
  \A a \in Addr : accounts[a].nonce = 0 =>
    pool[a] = << >> /\ \A c \in Client : \A tx \in adding[c] : tx.from # a

\* The accounts after the first k selected transactions, if they all apply.
Reached(k) == ExecuteAll(accounts, SubSeq(Selected, 1, k), Now, FALSE, {})

\* Before the k-th, the ceiling of the sender's credit has once been below the
\* credit the pool counted on.
CeilingSank(k, s) ==
  \E j \in 0 .. k - 1 : \E accts \in Reached(j) :
    accounts[s].rc > RCMax(accts[s].stake)

\* What the pool checked is enough for the ledger, although the two price
\* transactions differently and the ledger regenerates credit in between: of
\* the selected transactions none is refused for its key or nonce, and one is
\* refused for its credit only if an undelegation has sunk its sender's ceiling
\* below the credit the pool counted on, in this block or before it, be it that
\* a delegation has raised it again (SelectForBlock, Coster.Cost,
\* applyTransactionWithKV).
SelectionFitsLedger ==
  \A k \in DOMAIN Selected : \A accts \in Reached(k - 1) :
    LET tx == Selected[k] IN
    /\ Admissible(accts, tx)
    /\ Regenerated(accts, tx, Now).rc < LedgerCost(tx, {}) => CeilingSank(k, tx.from)

\* The clock has left the window that HandleProposal accepts.
Late == clock > Median(lastTimestamps) + MaxSkewSec

\* Lateness is for ever: proposals carry the clock, a late one is refused by
\* every validator, and without blocks the median stays where it is.  A network
\* that pauses for longer than MaxSkewSec never commits a block again.
LateForEver == [][Late => Late' /\ UNCHANGED << accounts, lastTimestamps >>]_vars

\* The ledger refuses the block this node would propose.
Refused == ExecuteAll(accounts, Selected, Now, FALSE, {}) = {}

\* A node that is asked to propose again and again ends with nothing selectable,
\* unless it is late or one of the selected transactions is refused: that one
\* stays in the pool, is selected again and keeps the others from being
\* committed (ProposeBlock returns the preview's error and changes nothing).
PoolDrains == <>[](Selected = << >> \/ Late \/ Refused)

=============================================================================
