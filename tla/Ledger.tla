------------------------------- MODULE Ledger -------------------------------
(* The account ledger of one node: State.PreviewBlock and State.ApplyBlock   *)
(* (pkg/state/state.go) with the resource credits (pkg/rc) and the in-memory *)
(* contract engine (pkg/contracts/engine.go) they use, and what a restart of *)
(* the node leaves of them (pkg/node/node.go).                               *)
(*                                                                           *)
(* ApplyBlock runs the block's transactions twice, each time on a fresh      *)
(* batch over the stored accounts: a preview, then the real pass, which is   *)
(* committed.  A transaction is one step here.  The version DAG, to which    *)
(* ApplyBlock adds a node after the commit and which nothing reads, is left  *)
(* out.                                                                      *)
EXTENDS Transactions, Sums

CONSTANTS
  TxLists,         \* the transaction lists of the blocks that arrive
  Times,           \* their timestamps
  GenesisTime, MaxSkewSec, WindowN,
  MaxBlocks,       \* bound on the committed blocks
  MaxRestarts      \* bound on the restarts

ASSUME LedgerAssumption ==
  /\ TxLists \subseteq Seq(Tx)
  /\ Times \subseteq Int
  /\ {MaxBlocks, MaxRestarts} \subseteq Nat
  /\ ValidateGenesis(WindowN, MaxSkewSec)
  /\ GenesisTime \in Int

VARIABLES
  accounts,        \* the stored accounts
  lastTimestamps,  \* the stored timestamp window
  chain,           \* the committed blocks
  engine,          \* contracts the engine's maps know, lost with the process
  phase,           \* idle, or the pass under way: preview or apply
  block,           \* the block being executed
  pos,             \* its next transaction
  batch,           \* the accounts as the pass sees them
  expected,        \* the preview's accounts (their Merkle root: StateRoot)
  restarts

stored == << accounts, lastTimestamps, chain >>
pass == << phase, block, pos, batch, expected >>
vars == << stored, engine, pass, restarts >>

Block == [txs : Seq(Tx), timestamp : Int]

\* No balance, stake or credit leaves the machine word, in the store or in a pass.
TypeOK ==
  /\ accounts \in [Addr -> Account] /\ InWords(accounts)
  /\ lastTimestamps \in Seq(Int)
  /\ chain \in Seq(Block)
  /\ engine \subseteq Addr
  /\ phase \in {"idle", "preview", "apply"}
  /\ block \in Block
  /\ pos \in Nat \ {0}
  /\ batch \in [Addr -> Account] /\ InWords(batch)
  /\ expected \in [Addr -> Account] /\ InWords(expected)
  /\ restarts \in Nat

-----------------------------------------------------------------------------
(* The pass.                                                                 *)

\* Mutant: the real pass takes the block's own timestamp.
EffectiveNowRaw ==
  IF phase = "apply" THEN block.timestamp
  ELSE EffectiveTime(block.timestamp, lastTimestamps, MaxSkewSec)

EffectiveNow == EffectiveTime(block.timestamp, lastTimestamps, MaxSkewSec)

Results(tx) == Execute(batch, tx, EffectiveNow, phase = "preview", engine)

-----------------------------------------------------------------------------
(* A block.                                                                  *)

Current == block.txs[pos]
InPass == phase # "idle" /\ pos <= Len(block.txs)
PassDone == phase # "idle" /\ pos > Len(block.txs)

\* DeployContract is reached in the real pass.
Deploying == InPass /\ phase = "apply" /\ Current.kind = "deploy"
             /\ Admissible(batch, Current)

\* PreviewBlock starts: for a vote, a proposal or the application of a block.
Begin(txs, timestamp) ==
  /\ phase = "idle"
  /\ Len(chain) < MaxBlocks
  /\ phase' = "preview"
  /\ block' = [txs |-> txs, timestamp |-> timestamp]
  /\ pos' = 1
  /\ batch' = accounts
  /\ UNCHANGED << stored, engine, expected, restarts >>

ExecuteTx ==
  /\ InPass
  /\ batch' \in Results(Current)
  /\ pos' = pos + 1
  /\ UNCHANGED << stored, engine, phase, block, expected, restarts >>

\* The call returns, and what it kept for itself is gone.
Return(accts) ==
  /\ phase' = "idle"
  /\ block' = [txs |-> << >>, timestamp |-> GenesisTime]
  /\ pos' = 1
  /\ batch' = accts
  /\ expected' = accts

\* The pass is over and its batch dropped.
Abandon == Return(accounts) /\ UNCHANGED << stored, restarts >>

\* Mutant: the transaction is left out of the block.
TxFailsSkips ==
  /\ InPass /\ ~Deploying
  /\ Results(Current) = {}
  /\ pos' = pos + 1
  /\ UNCHANGED << stored, engine, phase, block, batch, expected, restarts >>

\* A transaction fails and the block with it.
TxFails ==
  /\ InPass /\ ~Deploying
  /\ Results(Current) = {}
  /\ Abandon
  /\ UNCHANGED engine

\* DeployContract reports an error: the address is taken, or the code does not
\* compile, which is found after the contract has been entered in the maps.
DeployFails ==
  /\ Deploying
  /\ \/ Current.to \in engine /\ UNCHANGED engine
     \/ Current.to \notin engine /\ Current.code # "good"
        /\ engine' = engine \union {Current.to}
  /\ Abandon

\* PreviewBlock returns a root and the caller (HandleProposal, ProposeBlock)
\* does not apply the block.
PreviewOnly ==
  /\ PassDone /\ phase = "preview"
  /\ Abandon
  /\ UNCHANGED engine

\* ApplyBlock's second pass starts from the stored accounts again.
StartApply ==
  /\ PassDone /\ phase = "preview"
  /\ phase' = "apply"
  /\ expected' = batch
  /\ batch' = accounts
  /\ pos' = 1
  /\ UNCHANGED << stored, engine, block, restarts >>

\* The real pass is over: the accounts, the timestamp window and the block are
\* committed together, unless the root is not the block's ("state root mismatch
\* after apply").
EndApply ==
  /\ PassDone /\ phase = "apply"
  /\ Return(IF batch = expected THEN batch ELSE accounts)
  /\ IF batch = expected
       THEN /\ accounts' = batch
            /\ lastTimestamps' = Slide(lastTimestamps, block.timestamp, WindowN)
            /\ chain' = Append(chain, block)
       ELSE UNCHANGED stored
  /\ UNCHANGED << engine, restarts >>

-----------------------------------------------------------------------------
(* The node.                                                                 *)

\* The process dies and Node.Start runs again, with an empty engine.
Reboot ==
  /\ accounts' = ApplyGenesis(accounts)
  /\ engine' = {}
  /\ Return(ApplyGenesis(accounts))
  /\ restarts' = restarts + 1
  /\ UNCHANGED << lastTimestamps, chain >>

Restart == restarts < MaxRestarts /\ Reboot

\* The code compiles and DeployContract writes to the missing map: a panic.
DeployPanics ==
  /\ restarts < MaxRestarts
  /\ Deploying
  /\ Current.to \notin engine /\ Current.code = "good"
  /\ Reboot

Init ==
  /\ accounts = FreshAccounts
  /\ lastTimestamps = << GenesisTime >>
  /\ chain = << >>
  /\ engine = {}
  /\ phase = "idle"
  /\ block = [txs |-> << >>, timestamp |-> GenesisTime]
  /\ pos = 1
  /\ batch = accounts
  /\ expected = accounts
  /\ restarts = 0

Next ==
  \/ \E txs \in TxLists, t \in Times : Begin(txs, t)
  \/ ExecuteTx
  \/ TxFails
  \/ DeployFails
  \/ DeployPanics
  \/ PreviewOnly
  \/ StartApply
  \/ EndApply
  \/ Restart

Spec == Init /\ [][Next]_vars

-----------------------------------------------------------------------------
(* Properties.                                                               *)

\* The places of the committed transactions, and the transaction at a place.
Committed ==
  UNION { { << h, i >> : i \in DOMAIN chain[h].txs } : h \in DOMAIN chain }
TxAt(p) == chain[p[1]].txs[p[2]]
SentBy(a) == { p \in Committed : TxAt(p).from = a }
Before(p, q) == p[1] < q[1] \/ (p[1] = q[1] /\ p[2] < q[2])

\* As long as the node does not restart, an account's nonce counts its committed
\* transactions and these use the nonces 0, 1, 2, ... in order: whatever mix of
\* failed blocks, previews and commits ran, nothing is replayed or skipped.
NoncesInOrder ==
  restarts = 0 => \A a \in Addr :
    /\ accounts[a].nonce = Cardinality(SentBy(a))
    /\ \A p \in SentBy(a) :
         TxAt(p).nonce = Cardinality({ q \in SentBy(a) : Before(q, p) })

Supply(accts) ==
  Total([a \in Addr |-> accts[a].balance + accts[a].stake], Addr)

GenesisSupply == Supply(FreshAccounts)

\* What the transactions at these places of blocks pay to their own senders.
Burned(blocks, places) ==
  LET at(p) == blocks[p[1]].txs[p[2]]
      own == { p \in places : at(p).kind = "transfer" /\ at(p).from = at(p).to }
  IN  Total([p \in own |-> at(p).amount], own)

\* As long as the node does not restart every token is accounted for, in the
\* store and in the middle of a pass: no sequence of transfers, delegations and
\* undelegations mints, and the only tokens that vanish are those an account
\* pays to itself, because applyTransactionWithKV credits a copy of the
\* sender and then writes the debited sender over it.  (It also means that no
\* balance and no stake wraps.)
SupplyAccounted ==
  LET done == { << Len(chain) + 1, i >> : i \in 1 .. (pos - 1) }
  IN  restarts = 0 =>
        /\ Supply(accounts) + Burned(chain, Committed) = GenesisSupply
        /\ Supply(batch) + Burned(Append(chain, block), Committed \union done)
             = GenesisSupply

\* The timestamps of genesis and of blocks, and the last w elements of a sequence.
Stamps(blocks) ==
  << GenesisTime >> \o [h \in DOMAIN blocks |-> blocks[h].timestamp]
LastOf(all, w) ==
  SubSeq(all, IF Len(all) > w THEN Len(all) - w + 1 ELSE 1, Len(all))

\* The window holds the raw timestamps of the last WindowN blocks, genesis
\* counted as the first, across failed blocks and restarts.
WindowIsTail == lastTimestamps = LastOf(Stamps(chain), WindowN)

\* The effective time of the block at h, and how far the effective clock has gone
\* forward since the first block, not counting how far it has gone back.
Clock(blocks, h) ==
  EffectiveTime(blocks[h].timestamp,
                LastOf(SubSeq(Stamps(blocks), 1, h), WindowN), MaxSkewSec)
Forward(from, to) == IF to > from THEN to - from ELSE 0
Climb(blocks) ==
  LET later == 2 .. Len(blocks)
  IN  Total([h \in later |-> Forward(Clock(blocks, h - 1), Clock(blocks, h))], later)

\* What an account has paid, and a bound on the stake it has ever had.
Charged(a) == Total([p \in SentBy(a) |-> LedgerCost(TxAt(p), {})], SentBy(a))
EverStaked(a) ==
  FreshAccounts[a].stake
    + Total([p \in SentBy(a) |->
               IF TxAt(p).kind = "delegate" THEN TxAt(p).amount ELSE 0], SentBy(a))

\* As long as the node does not restart, what an account has paid and what it has
\* left was earned: the ceiling of the credit once, and Beta for each second the
\* effective clock has gone forward, per token ever staked.  Regen stores the time
\* also when it has gone back, so that an interval is credited again when the
\* clock passes it again; never more often than that.
CreditEarned ==
  restarts = 0 => \A a \in Addr :
    accounts[a].rc + Charged(a) <= (Alpha + Beta * Climb(chain)) * EverStaked(a)

\* A preview decides for the real pass except about contracts: a block whose
\* preview returned a root is then committed, unless the process dies or the
\* real pass stops at a deployment or a call, which a preview only estimates.  In
\* particular "state root mismatch after apply" never happens.
PreviewDecides ==
  [][(phase = "apply" /\ phase' = "idle")
       => \/ chain' # chain
          \/ restarts' # restarts
          \/ InPass /\ Current.kind \in {"deploy", "call"}]_vars

\* The blocks are atomic: whatever the order of previews, failed passes,
\* commits and restarts, the stored accounts, window and chain change together,
\* by all the transactions of one block (AtomicLedger).
Atomic == INSTANCE AtomicLedger
ImplementsAtomicLedger == Atomic!Spec

\* What the documentation says and the code does not do.

\* state.go: "invalid nonce: expected %d, got %d"; DEVELOPMENT.md: "Nonce checking
\* to prevent replay attacks": no sender's nonce is used twice in the chain.
NoReplay ==
  \A p, q \in Committed :
    (TxAt(p).from = TxAt(q).from /\ TxAt(p).nonce = TxAt(q).nonce) => p = q

=============================================================================
