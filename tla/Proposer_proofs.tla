--------------------------- MODULE Proposer_proofs ---------------------------
(* Theorems about the proposing node for every genesis, pool and clock.      *)
EXTENDS Proposer, TransactionsTheorems

\* The window of a node that has applied its genesis is never empty, so that
\* there is a median and the clock is clamped.
WindowOK ==
  /\ lastTimestamps \in Seq(Int) /\ lastTimestamps # << >>
  /\ clock \in Int

\* The parameters that Params.ValidateGenesis lets through.
LEMMA Parameters ==
  /\ WindowN \in Nat \ {0} /\ MaxSkewSec \in Nat
  /\ GenesisTime \in Int /\ MaxClock \in Int
<1>1. ValidateGenesis(WindowN, MaxSkewSec)
  BY ProposerAssumption
<1>2. WindowN \in Nat \ {0} /\ MaxSkewSec \in Nat
  BY <1>1 DEF ValidateGenesis
<1> QED BY <1>2, ProposerAssumption

\* There is the genesis time to begin with.
LEMMA InitWindow == Init => WindowOK
<1> SUFFICES ASSUME Init PROVE WindowOK
  OBVIOUS
<1>1. << GenesisTime >> \in Seq(Int) /\ << GenesisTime >> # << >>
  BY Parameters
<1> QED BY <1>1, Parameters DEF Init, WindowOK

\* The window is kept by every step.
LEMMA WindowStep == WindowOK /\ [Next]_vars => WindowOK'
<1> SUFFICES ASSUME WindowOK, [Next]_vars PROVE WindowOK'
  OBVIOUS
<1>1. ASSUME NEW txs, CommitBlock(txs) PROVE WindowOK'
  <2>1. lastTimestamps' = Slide(lastTimestamps, clock, WindowN) /\ clock' = clock
    BY <1>1 DEF CommitBlock
  <2> QED BY <2>1, SlideKeeps, Parameters DEF WindowOK
<1>2. CASE AddTx
  BY <1>2 DEF AddTx, WindowOK
<1>3. CASE Propose
  BY <1>1, <1>3 DEF Propose
<1>4. CASE OtherProposes
  BY <1>1, <1>4 DEF OtherProposes
<1>5. CASE Tick
  BY <1>5 DEF Tick, WindowOK
<1>6. CASE UNCHANGED vars
  BY <1>6 DEF vars, WindowOK
<1> QED BY <1>2, <1>3, <1>4, <1>5, <1>6 DEF Next

\* A late proposal is refused: its timestamp is not its effective time.
LEMMA LateRefused ==
  ASSUME WindowOK, Late
  PROVE  ~ValidTimestamp
<1>1. /\ Median(lastTimestamps) \in Int
      /\ EffectiveTime(clock, lastTimestamps, MaxSkewSec)
           <= Median(lastTimestamps) + MaxSkewSec
      /\ EffectiveTime(clock, lastTimestamps, MaxSkewSec) = clock =>
           clock <= Median(lastTimestamps) + MaxSkewSec
  BY EffectiveTimeClamps, Parameters DEF WindowOK
<1> QED BY <1>1, Parameters DEF WindowOK, Late, ValidTimestamp, Now

\* A node whose clock has left the window commits no block again, whoever
\* proposes (HandleProposal, ProposeBlock).
THEOREM LateAlways == Spec => LateForEver
<1>1. WindowOK /\ [Next]_vars =>
        [Late => Late' /\ UNCHANGED << accounts, lastTimestamps >>]_vars
  <2> SUFFICES ASSUME WindowOK, Next, Late
               PROVE  Late' /\ UNCHANGED << accounts, lastTimestamps >>
    OBVIOUS
  <2>1. ~ValidTimestamp
    BY LateRefused
  <2>2. ~Propose /\ ~OtherProposes
    BY <2>1 DEF Propose, OtherProposes, CommitBlock
  <2>3. CASE AddTx
    BY <2>3 DEF AddTx, Late
  <2>4. CASE Tick
    <3>1. Median(lastTimestamps) \in Int
      BY MedianIsMedian DEF WindowOK
    <3> QED BY <2>4, <3>1, Parameters DEF Tick, Late, WindowOK
  <2> QED BY <2>2, <2>3, <2>4 DEF Next
<1> QED BY <1>1, InitWindow, WindowStep, PTL DEF Spec, LateForEver

-----------------------------------------------------------------------------
(* The pool over the ledger.                                                 *)

\* What is proved of the pool, with the accounts for its environment.
Proved == INSTANCE Mempool_proofs WITH
  Sender <- Addr, Tx <- PoolTx, CostOf <- CostOf, MaxRC <- MaxUint,
  nonce <- Nonces, rc <- Credits

\* The rates and prices are natural numbers.
LEMMA Rates == RatesNat /\ CSize # 0
<1>1. ValidateGenesis(WindowN, MaxSkewSec)
  BY ProposerAssumption
<1> QED BY <1>1 DEF ValidateGenesis, RatesNat

\* The pool's price of a transaction is within a machine word, is not nothing
\* and covers what the ledger charges.
LEMMA PriceCovers ==
  ASSUME NEW tx
  PROVE  /\ CostOf(tx) \in 1 .. MaxUint
         /\ LedgerCost(tx, {}) <= CostOf(tx)
<1>1. PICK e : e = {}
  OBVIOUS
<1>2. /\ CosterCost(tx, e) \in 0 .. MaxUint /\ CosterCost(tx, e) > 0
      /\ LedgerCost(tx, e) <= CosterCost(tx, e)
  BY Rates, CosterCovers, CosterPositive
<1> QED BY <1>1, <1>2, RCAssumption DEF CostOf

\* The pool's constants are what Mempool assumes.
LEMMA PoolConstants ==
  /\ \A t \in PoolTx : t.from \in Addr /\ t.nonce \in Nat /\ CostOf(t) \in Nat
  /\ \A t, u \in PoolTx : HashBelow(t, u) => ~HashBelow(u, t)
  /\ \A t, u \in PoolTx : t # u => HashBelow(t, u) \/ HashBelow(u, t)
  /\ \A t, u, v \in PoolTx : HashBelow(t, u) /\ HashBelow(u, v) => HashBelow(t, v)
  /\ {BlockMaxTxs, MaxNonce, MaxUint} \subseteq Nat
<1>1. \A t \in PoolTx : t \in Tx /\ CostOf(t) \in Nat
  BY ProposerAssumption, PriceCovers
<1> QED BY <1>1, ProposerAssumption, RCAssumption DEF Tx

\* Both instances of the pool count alike.
LEMMA SameCardinality == \A S : Pool!Cardinality(S) = Proved!Cardinality(S)
BY DEF Pool!Cardinality, Proved!Cardinality

\* They take the same steps.
LEMMA SameInit == Pool!Init <=> Proved!Init
BY DEF Pool!Init, Proved!Init

\* Both instances of the pool take the same steps.
LEMMA SameNext == [Pool!Next]_(Pool!vars) <=> [Proved!Next]_(Proved!vars)
<1>1. \A queue, t : Pool!InsertByNonce(queue, t) = Proved!InsertByNonce(queue, t)
  BY SameCardinality DEF Pool!InsertByNonce, Proved!InsertByNonce
<1>2. ASSUME NEW c, NEW t PROVE Pool!CheckTx(c, t) <=> Proved!CheckTx(c, t)
  BY DEF Pool!CheckTx, Proved!CheckTx
<1>3. ASSUME NEW c PROVE Pool!InsertTx(c) <=> Proved!InsertTx(c)
  BY <1>1 DEF Pool!InsertTx, Proved!InsertTx
<1>4. Pool!CommitBlock <=> Proved!CommitBlock
  BY DEF Pool!CommitBlock, Proved!CommitBlock
<1>5. Pool!Next <=> Proved!Next
  BY <1>2, <1>3, <1>4 DEF Pool!Next, Proved!Next
<1>6. Pool!vars' = Pool!vars <=> Proved!vars' = Proved!vars
  BY DEF Pool!vars, Proved!vars
<1> QED BY <1>5, <1>6

\* And select the same.
LEMMA SameSelection == Selected = Proved!SelectForBlock
<1>1. \A txs, s : Pool!CountOf(txs, s) = Proved!CountOf(txs, s)
  BY SameCardinality DEF Pool!CountOf, Proved!CountOf
<1>2. \A txs, s : Pool!Spent(txs, s) = Proved!Spent(txs, s)
  BY DEF Pool!Spent, Proved!Spent
<1>3. \A txs, s : Pool!AtCursor(txs, s) = Proved!AtCursor(txs, s)
  BY <1>1 DEF Pool!AtCursor, Proved!AtCursor
<1>4. \A txs, s : Pool!Pushed(txs, s) <=> Proved!Pushed(txs, s)
  BY <1>1, <1>2, <1>3
  DEF Pool!Pushed, Proved!Pushed, Pool!HasNext, Proved!HasNext
<1>5. \A txs : Pool!HeapAfter(txs) = Proved!HeapAfter(txs)
  BY <1>3, <1>4 DEF Pool!HeapAfter, Proved!HeapAfter
<1>6. \A t, u : Pool!Less(t, u) <=> Proved!Less(t, u)
  BY DEF Pool!Less, Proved!Less
<1>7. \A txs : Pool!Popped(txs) = Proved!Popped(txs)
  BY <1>5, <1>6 DEF Pool!Popped, Proved!Popped
<1> DEFINE n == BlockMaxTxs
           extend(X) == UNION { Pool!Popped(txs) : txs \in X }
           extend2(X) == UNION { Proved!Popped(txs) : txs \in X }
           Is(f) == f = [k \in 0 .. n |-> IF k = 0 THEN {<< >>} ELSE extend(f[k - 1])]
           Is2(f) == f = [k \in 0 .. n |-> IF k = 0 THEN {<< >>} ELSE extend2(f[k - 1])]
           pick == CHOOSE f : Is(f)
           pick2 == CHOOSE f : Is2(f)
<1>8. Selected = CHOOSE txs \in pick[n] : TRUE
  BY DEF Selected, Pool!SelectForBlock
<1>9. Proved!SelectForBlock = CHOOSE txs \in pick2[n] : TRUE
  BY DEF Proved!SelectForBlock
<1>10. \A X : extend(X) = extend2(X)
  BY <1>7
<1> HIDE DEF extend, extend2
<1>11. \A f : Is(f) <=> Is2(f)
  BY <1>10
<1> HIDE DEF Is, Is2
<1>12. pick = pick2
  BY <1>11
<1> QED BY <1>8, <1>9, <1>12

-----------------------------------------------------------------------------
(* The accounts.                                                             *)

\* What the transactions of a node can make of an account b.
Later(b, c) ==
  /\ c.nonce \in 0 .. MaxNonce /\ c.rc \in 0 .. MaxUint
  /\ b.nonce <= c.nonce
  /\ c.nonce = b.nonce => c.rc = b.rc /\ c.key = b.key
  /\ c.nonce > b.nonce => Registered(c)

\* An account that has sent nothing has no credit, one that has sent something
\* has its key registered.
AccountsOK ==
  /\ accounts \in [Addr -> Account]
  /\ \A a \in Addr : /\ accounts[a].nonce \in 0 .. MaxNonce
                     /\ accounts[a].rc \in 0 .. MaxUint
                     /\ accounts[a].nonce = 0 => accounts[a].rc = 0
                     /\ accounts[a].nonce > 0 => Registered(accounts[a])

\* No queue of an account that has sent nothing, and nothing of it on its way.
NothingFirst ==
  \A a \in Addr : accounts[a].nonce = 0 =>
    pool[a] = << >> /\ \A c \in Client : \A tx \in adding[c] : tx.from # a

\* What steps preserve.
IInv == WindowOK /\ AccountsOK /\ Proved!Inv /\ NothingFirst

\* The transactions of blocks are transactions below the bound on nonces.
LEMMA BlockTxType ==
  /\ \A tx \in PoolTx \union OtherTx : tx \in Tx /\ tx.nonce < MaxNonce
  /\ MaxNonce \in Nat
BY ProposerAssumption

\* A transaction takes accounts to later ones.
LEMMA ExecuteLater ==
  ASSUME NEW accts \in [Addr -> Account], NEW now \in Int,
         NEW tx \in PoolTx \union OtherTx, NEW preview, NEW engine,
         NEW out \in Execute(accts, tx, now, preview, engine),
         \A a \in Addr : /\ accts[a].nonce \in 0 .. MaxNonce
                         /\ accts[a].rc \in 0 .. MaxUint
  PROVE  out \in [Addr -> Account] /\ \A a \in Addr : Later(accts[a], out[a])
<1>1. tx \in Tx /\ tx.nonce < MaxNonce /\ tx.nonce \in Nat /\ MaxNonce \in Nat
  BY BlockTxType DEF Tx
<1>2. /\ out \in [Addr -> Account]
      /\ accts[tx.from].nonce = tx.nonce
      /\ out[tx.from].nonce = tx.nonce + 1
      /\ out[tx.from].rc \in 0 .. MaxUint
      /\ Registered(out[tx.from])
      /\ \A b \in Addr \ {tx.from} :
           /\ out[b].nonce = accts[b].nonce /\ out[b].rc = accts[b].rc
           /\ out[b].key = accts[b].key
  <2>1. RatesNat
    BY Rates
  <2>2. tx \in Tx
    BY <1>1
  <2> QED BY <2>1, <2>2, ExecuteEffect
<1>3. ASSUME NEW a \in Addr PROVE Later(accts[a], out[a])
  <2>1. CASE a = tx.from
    <3>1. out[a].nonce = accts[a].nonce + 1 /\ out[a].nonce <= MaxNonce
      BY <1>1, <1>2, <2>1
    <3>2. accts[a].nonce \in Nat
      OBVIOUS
    <3>3. out[a].rc \in 0 .. MaxUint /\ Registered(out[a])
      BY <1>2, <2>1
    <3> QED BY <1>1, <3>1, <3>2, <3>3 DEF Later
  <2>2. CASE a # tx.from
    <3>1. accts[a].nonce \in 0 .. MaxNonce /\ accts[a].rc \in 0 .. MaxUint
      OBVIOUS
    <3>2. out[a].nonce = accts[a].nonce /\ out[a].rc = accts[a].rc
      BY <1>2, <2>2
    <3>3. out[a].key = accts[a].key
      BY <1>2, <2>2
    <3> QED BY <3>1, <3>2, <3>3 DEF Later
  <2> QED BY <2>1, <2>2
<1> QED BY <1>2, <1>3

\* Later is transitive.
LEMMA LaterTrans ==
  ASSUME NEW b, b.nonce \in 0 .. MaxNonce, NEW c, NEW d, Later(b, c), Later(c, d)
  PROVE  Later(b, d)
BY BlockTxType DEF Later, Registered

\* A block takes accounts to later ones.
LEMMA BlockLater ==
  ASSUME AccountsOK, WindowOK, NEW txs \in Seq(PoolTx \union OtherTx), NEW now \in Int,
         NEW out \in ExecuteAll(accounts, txs, now, FALSE, {})
  PROVE  out \in [Addr -> Account] /\ \A a \in Addr : Later(accounts[a], out[a])
<1> DEFINE G == { x \in [Addr -> Account] : \A a \in Addr : Later(accounts[a], x[a]) }
<1>1. PICK p, e : p = FALSE /\ e = {}
  OBVIOUS
<1>2. accounts \in [Addr -> Account]
  BY DEF AccountsOK
<1>3. txs \in Seq(Tx) /\ \A k \in 1 .. Len(txs) : txs[k] \in PoolTx \union OtherTx
  <2>1. PoolTx \union OtherTx \subseteq Tx
    BY BlockTxType
  <2> QED BY <2>1
<1>4. accounts \in G
  <2>1. \A a \in Addr : Later(accounts[a], accounts[a])
    BY BlockTxType DEF AccountsOK, Later
  <2> QED BY <1>2, <2>1
<1>5. ASSUME NEW x \in G, NEW k \in 1 .. Len(txs)
      PROVE  Execute(x, txs[k], now, p, e) \subseteq G
  <2> SUFFICES ASSUME NEW y \in Execute(x, txs[k], now, p, e) PROVE y \in G
    OBVIOUS
  <2>1. /\ x \in [Addr -> Account] /\ \A a \in Addr : Later(accounts[a], x[a])
        /\ \A a \in Addr : x[a].nonce \in 0 .. MaxNonce /\ x[a].rc \in 0 .. MaxUint
    BY DEF Later
  <2> HIDE DEF G
  <2>2. y \in [Addr -> Account] /\ \A a \in Addr : Later(x[a], y[a])
    BY <1>3, <2>1, ExecuteLater
  <2>3. \A a \in Addr : Later(accounts[a], y[a])
    BY <2>1, <2>2, LaterTrans DEF AccountsOK
  <2> QED BY <2>2, <2>3 DEF G
<1>6. out \in ExecuteAll(accounts, txs, now, p, e)
  BY <1>1
<1>7. out \in G
  <2> HIDE DEF G
  <2>1. ExecuteAll(accounts, txs, now, p, e) \subseteq G
    BY <1>2, <1>3, <1>4, <1>5, Rates, ExecuteAllWithin
  <2> QED BY <1>6, <2>1
<1> QED BY <1>7

\* The time at which a block is executed is a time.
LEMMA NowType == WindowOK => Now \in Int
BY EffectiveTimeType, Parameters DEF WindowOK, Now

\* To the pool a committed block is a block: nonces advance, and an account that
\* sends nothing keeps its credit.
LEMMA CommitStep ==
  ASSUME AccountsOK, WindowOK, NEW txs \in Seq(PoolTx \union OtherTx), CommitBlock(txs)
  PROVE  /\ AccountsOK'
         /\ \A a \in Addr : accounts[a].nonce <= accounts'[a].nonce
         /\ pool' = pool /\ adding' = adding
         /\ Proved!CommitBlock
<1>1. accounts' \in ExecuteAll(accounts, txs, Now, FALSE, {})
  BY DEF CommitBlock
<1>2. pool' = pool /\ adding' = adding
  BY DEF CommitBlock
<1>3. /\ accounts' \in [Addr -> Account]
      /\ \A a \in Addr : Later(accounts[a], accounts'[a])
  BY <1>1, NowType, BlockLater
<1>4. AccountsOK'
  <2> SUFFICES ASSUME NEW a \in Addr
               PROVE  /\ accounts'[a].nonce \in 0 .. MaxNonce
                      /\ accounts'[a].rc \in 0 .. MaxUint
                      /\ accounts'[a].nonce = 0 => accounts'[a].rc = 0
                      /\ accounts'[a].nonce > 0 => Registered(accounts'[a])
    BY <1>3 DEF AccountsOK
  <2>1. /\ accounts[a].nonce \in 0 .. MaxNonce
        /\ accounts[a].nonce = 0 => accounts[a].rc = 0
        /\ accounts[a].nonce > 0 => Registered(accounts[a])
    BY DEF AccountsOK
  <2>2. Later(accounts[a], accounts'[a])
    BY <1>3
  <2>3. CASE accounts'[a].nonce = accounts[a].nonce
    <3>1. accounts'[a].rc = accounts[a].rc /\ accounts'[a].key = accounts[a].key
      BY <2>2, <2>3 DEF Later
    <3> QED BY <2>1, <2>2, <2>3, <3>1 DEF Later, Registered
  <2>4. CASE accounts'[a].nonce > accounts[a].nonce
    BY <2>1, <2>2, <2>4, BlockTxType DEF Later
  <2> QED BY <2>1, <2>2, <2>3, <2>4, BlockTxType DEF Later
<1>5. Proved!CommitBlock
  <2>1. ASSUME NEW a \in Addr
        PROVE  /\ accounts'[a].nonce \in 0 .. MaxNonce
               /\ accounts'[a].rc \in 0 .. MaxUint
               /\ accounts'[a].nonce >= accounts[a].nonce
               /\ accounts'[a].nonce = accounts[a].nonce =>
                    accounts'[a].rc = accounts[a].rc
    BY <1>3, BlockTxType DEF Later, AccountsOK
  <2>2. Nonces' \in [Addr -> 0 .. MaxNonce] /\ Credits' \in [Addr -> 0 .. MaxUint]
    BY <2>1 DEF Nonces, Credits
  <2>3. \A a \in Addr : Nonces'[a] >= Nonces[a]
    BY <2>1 DEF Nonces
  <2>4. \A a \in Addr : Nonces'[a] = Nonces[a] => Credits'[a] = Credits[a]
    BY <2>1 DEF Nonces, Credits
  <2> QED BY <1>2, <2>2, <2>3, <2>4 DEF Proved!CommitBlock
<1>6. \A a \in Addr : accounts[a].nonce <= accounts'[a].nonce
  BY <1>3 DEF Later
<1> QED BY <1>2, <1>4, <1>5, <1>6

\* The blocks that are committed are made of transactions.
LEMMA SelectedType ==
  ASSUME Proved!Inv
  PROVE  Selected \in Seq(PoolTx)
BY PoolConstants, Proved!SelectionServes, SameSelection

\* What either proposer commits is a sequence of transactions.
LEMMA CommittedTypes ==
  ASSUME Proved!Inv, Propose \/ OtherProposes
  PROVE  \E txs \in Seq(PoolTx \union OtherTx) : CommitBlock(txs)
<1>1. CASE Propose
  <2>1. Selected \in Seq(PoolTx \union OtherTx)
    BY SelectedType
  <2> QED BY <1>1, <2>1 DEF Propose
<1>2. CASE OtherProposes
  <2>1. PICK tx \in OtherTx : CommitBlock(<< tx >>)
    BY <1>2 DEF OtherProposes
  <2>2. << tx >> \in Seq(PoolTx \union OtherTx)
    OBVIOUS
  <2> QED BY <2>1, <2>2
<1> QED BY <1>1, <1>2

\* AddTx's check lets no transaction of an account pass that has sent nothing.
LEMMA CheckedSent ==
  ASSUME AccountsOK, NEW c \in Client, NEW tx \in PoolTx, Pool!CheckTx(c, tx)
  PROVE  accounts[tx.from].nonce # 0
<1>1. tx.from \in Addr
  BY PoolConstants
<1>2. Credits[tx.from] >= CostOf(tx) /\ Credits[tx.from] = accounts[tx.from].rc
  BY <1>1 DEF Pool!CheckTx, Credits
<1>3. CostOf(tx) \in 1 .. MaxUint
  BY PriceCovers
<1>4. accounts[tx.from].rc # 0
  BY <1>2, <1>3
<1> QED BY <1>1, <1>4 DEF AccountsOK

\* The node's steps are the pool's.
LEMMA PoolStep ==
  ASSUME WindowOK, AccountsOK, Proved!Inv, [Next]_vars
  PROVE  [Proved!Next]_(Proved!vars)
<1>1. CASE AddTx
  <2>1. PICK c \in Client : (\E tx \in PoolTx : Pool!CheckTx(c, tx)) \/ Pool!InsertTx(c)
    BY <1>1 DEF AddTx
  <2>2. Pool!Next
    BY <2>1 DEF Pool!Next
  <2> QED BY <2>2, SameNext
<1>2. CASE Propose \/ OtherProposes
  <2>1. Proved!CommitBlock
    BY <1>2, CommittedTypes, CommitStep
  <2> QED BY <2>1 DEF Proved!Next
<1>3. CASE Tick
  BY <1>3 DEF Tick, Proved!vars, Nonces, Credits
<1>4. CASE UNCHANGED vars
  BY <1>4 DEF vars, Proved!vars, Nonces, Credits
<1> QED BY <1>1, <1>2, <1>3, <1>4 DEF Next

\* At genesis nobody has sent anything or has credit.
LEMMA InitAccounts ==
  ASSUME Init
  PROVE  /\ accounts \in [Addr -> Account]
         /\ \A a \in Addr : accounts[a].nonce = 0 /\ accounts[a].rc = 0
<1>1. accounts = FreshAccounts
  BY DEF Init
<1>2. FreshAccounts \in [Addr -> Account]
  BY Rates, FreshType
<1>3. \A a \in Addr : FreshAccounts[a].nonce = 0 /\ FreshAccounts[a].rc = 0
  BY DEF FreshAccounts, ApplyGenesis, ZeroAccount
<1> QED BY <1>1, <1>2, <1>3

\* The pool begins empty.
LEMMA InitPool == Init => Proved!Init
<1> SUFFICES ASSUME Init PROVE Proved!Init
  OBVIOUS
<1>1. Nonces = [a \in Addr |-> 0]
  BY InitAccounts DEF Nonces
<1>2. Credits \in [Addr -> {0, MaxUint}]
  BY InitAccounts DEF Credits
<1> QED BY <1>1, <1>2 DEF Init, Proved!Init

\* The invariant is inductive.
LEMMA InitIInv == Init => IInv
<1> SUFFICES ASSUME Init PROVE IInv
  OBVIOUS
<1>1. WindowOK
  BY InitWindow
<1>2. AccountsOK
  BY InitAccounts, RCAssumption, BlockTxType DEF AccountsOK
<1>3. Proved!Inv
  BY InitPool, PoolConstants, Proved!InitInv
<1>4. NothingFirst
  BY DEF Init, NothingFirst
<1> QED BY <1>1, <1>2, <1>3, <1>4 DEF IInv

\* Every step keeps the inductive invariant.
LEMMA IInvStep == IInv /\ [Next]_vars => IInv'
<1> SUFFICES ASSUME IInv, [Next]_vars PROVE IInv'
  OBVIOUS
<1>1. WindowOK /\ AccountsOK /\ Proved!Inv /\ NothingFirst
  BY DEF IInv
<1>2. WindowOK'
  BY <1>1, WindowStep
<1>3. Proved!Inv'
  BY <1>1, PoolStep, PoolConstants, Proved!InvStep
<1>4. CASE AddTx
  <2>1. accounts' = accounts
    BY <1>4 DEF AddTx
  <2>2. AccountsOK'
    BY <1>1, <2>1 DEF AccountsOK
  <2>3. PICK c \in Client : (\E tx \in PoolTx : Pool!CheckTx(c, tx)) \/ Pool!InsertTx(c)
    BY <1>4 DEF AddTx
  <2>4. adding \in [Client -> {{}} \union { {t} : t \in PoolTx }]
        /\ pool \in [Addr -> Seq(PoolTx)]
    BY <1>1 DEF Proved!Inv, Proved!TypeOK
  <2>5. ASSUME NEW tx \in PoolTx, Pool!CheckTx(c, tx) PROVE NothingFirst'
    <3>1. accounts[tx.from].nonce # 0
      BY <1>1, <2>5, CheckedSent
    <3>2. pool' = pool /\ adding' = [adding EXCEPT ![c] = {tx}]
      BY <2>5 DEF Pool!CheckTx
    <3> QED BY <1>1, <2>1, <2>4, <3>1, <3>2 DEF NothingFirst
  <2>6. ASSUME Pool!InsertTx(c) PROVE NothingFirst'
    <3>1. PICK tx \in adding[c] :
            pool' = [pool EXCEPT ![tx.from] = Pool!InsertByNonce(@, tx)]
      BY <2>6 DEF Pool!InsertTx
    <3>2. adding' = [adding EXCEPT ![c] = {}]
      BY <2>6 DEF Pool!InsertTx
    <3>3. tx \in PoolTx /\ tx.from \in Addr
      BY <2>4, PoolConstants
    <3>4. accounts[tx.from].nonce # 0
      BY <1>1, <3>3 DEF NothingFirst
    <3> QED BY <1>1, <2>1, <2>4, <3>1, <3>2, <3>4 DEF NothingFirst
  <2> QED BY <1>2, <1>3, <2>2, <2>3, <2>5, <2>6 DEF IInv
<1>5. CASE Propose \/ OtherProposes
  <2>1. PICK txs \in Seq(PoolTx \union OtherTx) : CommitBlock(txs)
    BY <1>1, <1>5, CommittedTypes
  <2>2. /\ AccountsOK' /\ pool' = pool /\ adding' = adding
        /\ \A a \in Addr : accounts[a].nonce <= accounts'[a].nonce
    BY <1>1, <2>1, CommitStep
  <2>3. NothingFirst'
    <3> SUFFICES ASSUME NEW a \in Addr, accounts'[a].nonce = 0
                 PROVE  accounts[a].nonce = 0
      BY <1>1, <2>2 DEF NothingFirst
    <3>1. accounts[a].nonce \in Nat
      BY <1>1, BlockTxType DEF AccountsOK
    <3> QED BY <2>2, <3>1
  <2> QED BY <1>2, <1>3, <2>2, <2>3 DEF IInv
<1>6. CASE Tick \/ UNCHANGED vars
  <2>1. accounts' = accounts /\ pool' = pool /\ adding' = adding
    BY <1>6 DEF Tick, vars
  <2> QED BY <1>1, <1>2, <1>3, <2>1 DEF IInv, AccountsOK, NothingFirst
<1> QED BY <1>4, <1>5, <1>6 DEF Next

\* The inductive invariant of the pool and the chain together.
LEMMA IInvAlways == Spec => []IInv
BY InitIInv, IInvStep, PTL DEF Spec

\* No account's first transaction ever gets into the pool, since AddTx compares
\* the stored credit and that is 0 until a transaction of the account has been
\* applied (AddTx, applyGenesis, Regen).
THEOREM NoFirstTxAlways == Spec => []NoFirstTxPooled
<1>1. IInv => NoFirstTxPooled
  BY DEF IInv, NothingFirst, NoFirstTxPooled
<1> QED BY <1>1, IInvAlways, PTL

\* Every step of the node is a step of the pool that Mempool describes: what is
\* proved there of any environment holds over the ledger.
THEOREM PoolImplementedAlways == Spec => PoolImplemented
<1>1. Init => Pool!Init
  BY InitPool, SameInit
<1>2. IInv /\ [Next]_vars => [Pool!Next]_(Pool!vars)
  BY PoolStep, SameNext DEF IInv
<1> QED BY <1>1, <1>2, IInvAlways, PTL DEF Spec, PoolImplemented

-----------------------------------------------------------------------------
(* The selection and the ledger.                                             *)

\* The selected transactions up to a position.
Prefix(k) == SubSeq(Selected, 1, k)

\* What the pool promises of the selection.
LEMMA SelectionPromise ==
  ASSUME IInv
  PROVE  /\ Selected \in Seq(PoolTx)
         /\ \A k \in 1 .. Len(Selected) :
              LET tx == Selected[k]
                  s == tx.from
              IN  /\ tx \in PoolTx /\ tx \in Tx /\ s \in Addr
                  /\ accounts[s].nonce > 0
                  /\ tx.nonce = accounts[s].nonce + Proved!CountOf(Prefix(k - 1), s)
                  /\ Proved!Spent(Prefix(k - 1), s) + CostOf(tx) <= accounts[s].rc
                  /\ Prefix(k - 1) \in Seq(PoolTx)
                  /\ Prefix(k) = Append(Prefix(k - 1), tx)
<1>1. Proved!Inv
  BY DEF IInv
<1>2. Selected \in Seq(PoolTx)
  BY <1>1, SelectedType
<1> SUFFICES ASSUME NEW k \in 1 .. Len(Selected)
             PROVE  LET tx == Selected[k]
                        s == tx.from
                    IN  /\ tx \in PoolTx /\ tx \in Tx /\ s \in Addr
                        /\ accounts[s].nonce > 0
                        /\ tx.nonce = accounts[s].nonce + Proved!CountOf(Prefix(k - 1), s)
                        /\ Proved!Spent(Prefix(k - 1), s) + CostOf(tx) <= accounts[s].rc
                        /\ Prefix(k - 1) \in Seq(PoolTx)
                        /\ Prefix(k) = Append(Prefix(k - 1), tx)
  BY <1>2
<1> DEFINE tx == Selected[k]
           s == tx.from
<1>3. /\ s \in Addr /\ pool[s] # << >>
      /\ tx.nonce = Nonces[s] + Proved!CountOf(Prefix(k - 1), s)
      /\ Proved!Spent(Prefix(k - 1), s) + CostOf(tx) <= Credits[s]
  BY <1>1, PoolConstants, Proved!SelectionServes, SameSelection DEF Prefix
<1>4. Prefix(k) = Append(Prefix(k - 1), tx) /\ tx \in PoolTx
      /\ Prefix(k - 1) \in Seq(PoolTx)
  BY <1>2, Proved!PrefixStep DEF Prefix
<1>5. tx \in Tx
  BY <1>4, BlockTxType
<1>6. accounts[s].nonce > 0
  <2>1. accounts[s].nonce \in Nat /\ accounts[s].nonce # 0
    BY <1>3, BlockTxType DEF IInv, AccountsOK, NothingFirst
  <2> QED BY <2>1
<1>7. Nonces[s] = accounts[s].nonce /\ Credits[s] = accounts[s].rc
  BY <1>3 DEF Nonces, Credits
<1> HIDE DEF tx
<1> QED BY <1>3, <1>4, <1>5, <1>6, <1>7 DEF tx

\* What the selected transactions lead to, one by one.
LEMMA ReachedStep ==
  ASSUME IInv
  PROVE  /\ Reached(0) = {accounts}
         /\ \A k \in 1 .. Len(Selected) :
              Reached(k) = UNION { Execute(a, Selected[k], Now, FALSE, {}) :
                                     a \in Reached(k - 1) }
<1>1. accounts \in [Addr -> Account] /\ Now \in Int
  BY NowType DEF IInv, AccountsOK
<1>2. PICK p, e : p = FALSE /\ e = {}
  OBVIOUS
<1> DEFINE R(k) == ExecuteAll(accounts, Prefix(k), Now, p, e)
<1>3. \A k : Reached(k) = R(k)
  BY <1>2 DEF Reached, Prefix
<1>4. Selected \in Seq(PoolTx)
  BY SelectionPromise
<1>5. PoolTx \subseteq Tx
  BY BlockTxType
<1>6. R(0) = {accounts}
  <2>1. Prefix(0) = << >>
    BY <1>4 DEF Prefix
  <2>2. accounts \in [Addr -> Account]
    BY <1>1
  <2>3. Now \in Int
    BY <1>1
  <2>4. ExecuteAll(accounts, << >>, Now, p, e) = {accounts}
    BY <2>2, <2>3, ExecuteAllEmpty, Rates
  <2> QED BY <2>1, <2>4
<1>7. ASSUME NEW k \in 1 .. Len(Selected)
      PROVE  R(k) = UNION { Execute(a, Selected[k], Now, p, e) : a \in R(k - 1) }
  <2>1. /\ Selected[k] \in Tx /\ Prefix(k) = Append(Prefix(k - 1), Selected[k])
        /\ Prefix(k - 1) \in Seq(PoolTx)
    BY SelectionPromise
  <2>2. Prefix(k - 1) \in Seq(Tx)
    BY <1>5, <2>1
  <2>3. ExecuteAll(accounts, Append(Prefix(k - 1), Selected[k]), Now, p, e) =
          UNION { Execute(a, Selected[k], Now, p, e) :
                    a \in ExecuteAll(accounts, Prefix(k - 1), Now, p, e) }
    BY <1>1, <2>1, <2>2, Rates, ExecuteAllAppend
  <2> QED BY <2>1, <2>3
<1> HIDE DEF R
<1>8. Reached(0) = {accounts}
  BY <1>3, <1>6
<1>9. ASSUME NEW k \in 1 .. Len(Selected)
      PROVE  Reached(k) = UNION { Execute(a, Selected[k], Now, FALSE, {}) :
                                    a \in Reached(k - 1) }
  <2>1. UNION { Execute(a, Selected[k], Now, p, e) : a \in R(k - 1) } =
          UNION { Execute(a, Selected[k], Now, FALSE, {}) : a \in R(k - 1) }
    BY <1>2
  <2>2. Reached(k) = R(k) /\ Reached(k - 1) = R(k - 1)
    BY <1>3
  <2> QED BY <1>7, <2>1, <2>2
<1> QED BY <1>8, <1>9

\* What the first k of the selected transactions leave of s: the nonce that the
\* pool counts on and, unless the ceiling has sunk, at least the credit that it
\* takes to be left.
Left(accts, k, s) ==
  /\ accts \in [Addr -> Account]
  /\ accts[s].nonce = accounts[s].nonce + Proved!CountOf(Prefix(k), s)
  /\ accounts[s].nonce > 0 => Registered(accts[s])
  /\ accts[s].rc \in 0 .. MaxUint
  /\ ~CeilingSank(k, s) => accounts[s].rc <= accts[s].rc + Proved!Spent(Prefix(k), s)

\* The ceiling stays sunk, and was below the credit in no account before.
LEMMA SankStays ==
  ASSUME NEW k \in Nat \ {0}, NEW s, ~CeilingSank(k, s)
  PROVE  /\ ~CeilingSank(k - 1, s)
         /\ \A accts \in Reached(k - 1) : ~(accounts[s].rc > RCMax(accts[s].stake))
<1>1. 0 .. (k - 1) - 1 \subseteq 0 .. k - 1 /\ k - 1 \in 0 .. k - 1
  OBVIOUS
<1> QED BY <1>1 DEF CeilingSank

\* Before each selected transaction its sender has the nonce, its key and, the
\* credit regenerated, what the pool takes to be left.
LEMMA FitsHere ==
  ASSUME IInv, NEW k \in 1 .. Len(Selected), NEW accts,
         Left(accts, k - 1, Selected[k].from),
         accts \in Reached(k - 1)
  PROVE  LET tx == Selected[k]
             s == tx.from
         IN  /\ accts[s].nonce = tx.nonce /\ Registered(accts[s])
             /\ Regenerated(accts, tx, Now).rc \in 0 .. MaxUint
             /\ ~CeilingSank(k, s) =>
                  accounts[s].rc <= Regenerated(accts, tx, Now).rc
                                      + Proved!Spent(Prefix(k - 1), s)
<1> DEFINE tx == Selected[k]
           s == tx.from
           R == accounts[s].rc
           spent == Proved!Spent(Prefix(k - 1), s)
           credit == Regenerated(accts, tx, Now).rc
<1>1. /\ tx \in PoolTx /\ tx \in Tx /\ s \in Addr /\ accounts[s].nonce > 0
      /\ tx.nonce = accounts[s].nonce + Proved!CountOf(Prefix(k - 1), s)
      /\ spent + CostOf(tx) <= R
      /\ Prefix(k - 1) \in Seq(PoolTx)
  BY SelectionPromise
<1>2. /\ accts \in [Addr -> Account] /\ Registered(accts[s])
      /\ accts[s].nonce = tx.nonce /\ accts[s].rc \in 0 .. MaxUint
      /\ ~CeilingSank(k - 1, s) => R <= accts[s].rc + spent
  BY <1>1 DEF Left
<1>3. spent \in Nat /\ CostOf(tx) \in Nat /\ R \in 0 .. MaxUint /\ MaxUint \in Nat
  <2>1. spent \in Nat
    BY <1>1, PoolConstants, Proved!SpentAppend
  <2>2. CostOf(tx) \in Nat /\ MaxUint \in Nat
    BY PriceCovers, RCAssumption
  <2>3. R \in 0 .. MaxUint
    BY <1>1 DEF IInv, AccountsOK
  <2> QED BY <2>1, <2>2, <2>3
<1>4. Now \in Int
  BY NowType DEF IInv
<1>5. /\ credit \in 0 .. MaxUint
      /\ credit = Regen(accts[s].rc, accts[s].stake, accts[s].time, Now)
  BY <1>1, <1>2, <1>4, Rates, RegeneratedType
<1>6. ASSUME ~CeilingSank(k, s)
      PROVE  R <= credit + spent
  <2>1. ~CeilingSank(k - 1, s) /\ ~(R > RCMax(accts[s].stake))
    <3>1. k \in Nat \ {0}
      OBVIOUS
    <3> QED BY <1>6, <3>1, SankStays
  <2>2. R <= accts[s].rc + spent
    BY <1>2, <2>1
  <2>3. /\ accts[s].stake \in Nat /\ accts[s].time \in Int
        /\ accts[s].rc \in 0 .. MaxUint
    BY <1>1, <1>2 DEF Account
  <2>4. RCMax(accts[s].stake) \in 0 .. MaxUint
    BY <2>3, Rates, RCMaxType
  <2> DEFINE x == R - spent
  <2>5. R <= RCMax(accts[s].stake)
    BY <1>3, <2>1, <2>4
  <2>6. x \in Nat /\ x <= accts[s].rc /\ x <= RCMax(accts[s].stake)
    <3>1. /\ R \in Nat /\ spent \in Nat /\ accts[s].rc \in Nat
          /\ RCMax(accts[s].stake) \in Nat /\ spent <= R
      BY <1>1, <1>3, <2>3, <2>4
    <3> HIDE DEF R, spent
    <3>2. x \in Nat /\ x <= R
      BY <3>1
    <3>3. x <= accts[s].rc
      BY <2>2, <3>1
    <3>4. x <= RCMax(accts[s].stake)
      BY <2>5, <3>1, <3>2
    <3> QED BY <3>2, <3>3, <3>4
  <2> HIDE DEF x
  <2>7. x <= credit
    BY <1>4, <1>5, <2>3, <2>6, Rates, RegenAtLeast
  <2> QED BY <1>3, <1>5, <2>6, <2>7 DEF x
<1> HIDE DEF tx
<1> QED BY <1>1, <1>2, <1>5, <1>6 DEF tx

\* So it is before and after each of them, for every account.
LEMMA LeftAlways ==
  ASSUME IInv
  PROVE  \A k \in 0 .. Len(Selected) : \A s \in Addr :
           \A accts \in Reached(k) : Left(accts, k, s)
<1> DEFINE Fine(k) == \A s \in Addr : \A accts \in Reached(k) : Left(accts, k, s)
           S == { k \in 0 .. Len(Selected) : Fine(k) }
<1>1. Selected \in Seq(PoolTx) /\ Len(Selected) \in Nat
  BY SelectionPromise
<1>2. Fine(0)
  <2> SUFFICES ASSUME NEW s \in Addr PROVE Left(accounts, 0, s)
    BY ReachedStep
  <2>1. Prefix(0) = << >>
    BY <1>1 DEF Prefix
  <2>2. Proved!Spent(Prefix(0), s) = 0 /\ Proved!CountOf(Prefix(0), s) = 0
    BY <2>1, PoolConstants, Proved!SpentEmpty
  <2>3. /\ accounts \in [Addr -> Account] /\ accounts[s].nonce \in Nat
        /\ accounts[s].rc \in 0 .. MaxUint
        /\ accounts[s].nonce > 0 => Registered(accounts[s])
    BY DEF IInv, AccountsOK
  <2> QED BY <2>2, <2>3 DEF Left
<1>3. ASSUME NEW k \in 1 .. Len(Selected), Fine(k - 1)
      PROVE  Fine(k)
  <2> SUFFICES ASSUME NEW s \in Addr, NEW accts \in Reached(k)
               PROVE  Left(accts, k, s)
    OBVIOUS
  <2> DEFINE tx == Selected[k]
             count == Proved!CountOf(Prefix(k - 1), s)
             spent == Proved!Spent(Prefix(k - 1), s)
  <2>1. /\ tx \in PoolTx /\ tx \in Tx /\ tx.from \in Addr
        /\ tx.nonce = accounts[tx.from].nonce + Proved!CountOf(Prefix(k - 1), tx.from)
        /\ Prefix(k - 1) \in Seq(PoolTx)
        /\ Prefix(k) = Append(Prefix(k - 1), tx)
    BY SelectionPromise
  <2>2. PICK p, e : p = FALSE /\ e = {}
    OBVIOUS
  <2>3. PICK before \in Reached(k - 1) : accts \in Execute(before, tx, Now, p, e)
    <3>1. Reached(k) = UNION { Execute(a, Selected[k], Now, FALSE, {}) :
                                 a \in Reached(k - 1) }
      BY ReachedStep
    <3> QED BY <2>2, <3>1
  <2>4. Left(before, k - 1, s) /\ Left(before, k - 1, tx.from)
    BY <1>3, <2>1
  <2>5. before \in [Addr -> Account]
    BY <2>4 DEF Left
  <2>6. Now \in Int
    BY NowType DEF IInv
  <2>7. /\ accts \in [Addr -> Account]
        /\ accts[tx.from].nonce = tx.nonce + 1
        /\ accts[tx.from].rc \in 0 .. MaxUint
        /\ accts[tx.from].rc = Regenerated(before, tx, Now).rc - LedgerCost(tx, e)
        /\ Registered(accts[tx.from])
        /\ \A b \in Addr \ {tx.from} :
             /\ accts[b].nonce = before[b].nonce /\ accts[b].rc = before[b].rc
             /\ accts[b].key = before[b].key
    BY <2>1, <2>3, <2>5, <2>6, Rates, ExecuteEffect
  <2>8. /\ count \in Nat /\ spent \in Nat
        /\ Proved!CountOf(Prefix(k), s) = count + (IF tx.from = s THEN 1 ELSE 0)
        /\ Proved!Spent(Prefix(k), s) = spent + (IF tx.from = s THEN CostOf(tx) ELSE 0)
    BY <2>1, PoolConstants, Proved!CountType, Proved!CountAppend, Proved!SpentAppend
  <2>9. /\ accounts[s].nonce \in Nat /\ accounts[s].rc \in Nat /\ MaxUint \in Nat
    BY RCAssumption DEF IInv, AccountsOK
  <2>10. ~CeilingSank(k, s) => ~CeilingSank(k - 1, s)
    <3>1. k \in Nat \ {0}
      OBVIOUS
    <3> QED BY <3>1, SankStays
  <2>11. CASE s = tx.from
    <3>1. LedgerCost(tx, e) <= CostOf(tx) /\ LedgerCost(tx, e) \in Nat
          /\ CostOf(tx) \in Nat
      BY <2>2, PriceCovers, Rates, LedgerCostType, RCAssumption
    <3>2. /\ before[s].nonce = tx.nonce
          /\ Regenerated(before, tx, Now).rc \in Nat
          /\ ~CeilingSank(k, s) =>
               accounts[s].rc <= Regenerated(before, tx, Now).rc + spent
      BY <2>3, <2>4, <2>9, <2>11, FitsHere
    <3>3. accts[s].nonce = accounts[s].nonce + Proved!CountOf(Prefix(k), s)
      <4> DEFINE sum == Proved!CountOf(Prefix(k), s)
                 now == accts[s].nonce
                 then == accounts[s].nonce
      <4>1. now = tx.nonce + 1 /\ tx.nonce = then + count
        BY <2>1, <2>7, <2>11
      <4>2. sum = count + 1
        BY <2>8, <2>11
      <4>3. count \in Nat /\ then \in Nat
        BY <2>8, <2>9
      <4> HIDE DEF sum, now, then, count
      <4>4. now = then + sum
        BY <4>1, <4>2, <4>3
      <4> QED BY <4>4 DEF sum, now, then
    <3>4. accts[s].rc \in 0 .. MaxUint /\ Registered(accts[s])
      BY <2>7, <2>11
    <3>5. ~CeilingSank(k, s) => accounts[s].rc <= accts[s].rc + Proved!Spent(Prefix(k), s)
      <4> DEFINE credit == Regenerated(before, tx, Now).rc
                 cost == LedgerCost(tx, e)
                 price == CostOf(tx)
                 sum == Proved!Spent(Prefix(k), s)
                 now == accts[s].rc
                 then == accounts[s].rc
      <4>1. now = credit - cost
        BY <2>7, <2>11
      <4>2. sum = spent + price
        BY <2>8, <2>11
      <4>3. /\ credit \in Nat /\ cost \in Nat /\ price \in Nat /\ cost <= price
            /\ spent \in Nat /\ then \in Nat
        BY <2>8, <2>9, <3>1, <3>2
      <4>4. ~CeilingSank(k, s) => then <= credit + spent
        BY <3>2
      <4> HIDE DEF credit, cost, price, sum, now, then, spent
      <4>5. ~CeilingSank(k, s) => then <= now + sum
        BY <4>1, <4>2, <4>3, <4>4
      <4> QED BY <4>5 DEF now, then, sum
    <3> QED BY <2>7, <3>3, <3>4, <3>5 DEF Left
  <2>12. CASE s # tx.from
    <3>1. /\ accts[s].nonce = before[s].nonce /\ accts[s].rc = before[s].rc
          /\ accts[s].key = before[s].key
      BY <2>7, <2>12
    <3>2. /\ Proved!CountOf(Prefix(k), s) = count
          /\ Proved!Spent(Prefix(k), s) = spent
      BY <2>8, <2>12
    <3> QED BY <2>4, <2>7, <2>10, <3>1, <3>2 DEF Left, Registered
  <2> QED BY <2>11, <2>12
<1>4. 0 \in S /\ \A k \in 1 .. Len(Selected) : k - 1 \in S => k \in S
  <2>1. 0 \in S
    BY <1>1, <1>2
  <2>2. ASSUME NEW k \in 1 .. Len(Selected), k - 1 \in S
        PROVE  k \in S
    BY <1>1, <1>3, <2>2
  <2> QED BY <2>1, <2>2
<1> HIDE DEF S
<1>5. 0 .. Len(Selected) \subseteq S
  BY <1>1, <1>4, BoundedInduction
<1> QED BY <1>5 DEF S

\* What the pool checked is enough for the ledger, although the two price
\* transactions differently and credit is regenerated in between (SelectForBlock,
\* Coster.Cost, applyTransactionWithKV).
THEOREM SelectionFitsAlways == Spec => []SelectionFitsLedger
<1>1. ASSUME IInv
      PROVE  SelectionFitsLedger
  <2>1. Selected \in Seq(PoolTx)
    BY <1>1, SelectionPromise
  <2> SUFFICES ASSUME NEW k \in 1 .. Len(Selected), NEW accts \in Reached(k - 1)
               PROVE  LET tx == Selected[k] IN
                      /\ Admissible(accts, tx)
                      /\ Regenerated(accts, tx, Now).rc < LedgerCost(tx, {}) =>
                           CeilingSank(k, tx.from)
    BY <2>1 DEF SelectionFitsLedger
  <2> DEFINE tx == Selected[k]
             s == tx.from
             spent == Proved!Spent(Prefix(k - 1), s)
             credit == Regenerated(accts, tx, Now).rc
  <2>2. /\ tx \in PoolTx /\ s \in Addr
        /\ spent + CostOf(tx) <= accounts[s].rc
        /\ Prefix(k - 1) \in Seq(PoolTx)
    BY <1>1, SelectionPromise
  <2>3. Left(accts, k - 1, s)
    <3>1. k - 1 \in 0 .. Len(Selected)
      BY <2>1
    <3> QED BY <1>1, <2>2, <3>1, LeftAlways
  <2>4. /\ accts[s].nonce = tx.nonce /\ Registered(accts[s])
        /\ credit \in 0 .. MaxUint
        /\ ~CeilingSank(k, s) => accounts[s].rc <= credit + spent
    BY <1>1, <2>3, FitsHere
  <2>5. Admissible(accts, tx)
    BY <2>4 DEF Admissible, KeyKnown, Registered
  <2>6. PICK e : e = {}
    OBVIOUS
  <2>7. /\ LedgerCost(tx, e) <= CostOf(tx) /\ LedgerCost(tx, e) \in Nat
        /\ CostOf(tx) \in Nat
    BY <2>6, PriceCovers, Rates, LedgerCostType, RCAssumption
  <2>8. spent \in Nat /\ accounts[s].rc \in Nat /\ credit \in Nat
    <3>1. spent \in Nat
      BY <2>2, PoolConstants, Proved!SpentAppend
    <3>2. accounts[s].rc \in Nat /\ credit \in Nat
      BY <1>1, <2>2, <2>4, RCAssumption DEF IInv, AccountsOK
    <3> QED BY <3>1, <3>2
  <2>9. credit < LedgerCost(tx, e) => CeilingSank(k, s)
    BY <2>2, <2>4, <2>7, <2>8
  <2> HIDE DEF tx
  <2> QED BY <2>5, <2>6, <2>9 DEF tx
<1> QED BY <1>1, IInvAlways, PTL

=============================================================================
