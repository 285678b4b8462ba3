--------------------------- MODULE Ledger_proofs ----------------------------
(* Theorems about the ledger for every genesis, every list of blocks and     *)
(* every number of restarts.                                                 *)
EXTENDS Ledger, TransactionsTheorems

\* What the constants' assumptions say of the parameters.
LEMMA Parameters ==
  /\ RatesNat /\ WindowN \in Nat \ {0} /\ MaxSkewSec \in Nat
  /\ GenesisTime \in Int /\ TxLists \subseteq Seq(Tx) /\ Times \subseteq Int
<1>1. ValidateGenesis(WindowN, MaxSkewSec)
  BY LedgerAssumption
<1>2. 1 .. MaxRate \subseteq Nat
  OBVIOUS
<1>3. RatesNat /\ WindowN \in Nat \ {0} /\ MaxSkewSec \in Nat
  BY <1>1, <1>2 DEF ValidateGenesis, RatesNat
<1> QED BY <1>3, LedgerAssumption

-----------------------------------------------------------------------------
(* Types.                                                                    *)

\* A pass sees the time of its block clamped around the window's median.
LEMMA EffectiveNowType == TypeOK => EffectiveNow \in Int
BY EffectiveTimeType, Parameters DEF TypeOK, Block, EffectiveNow

\* The transaction under way.
LEMMA CurrentType == TypeOK /\ InPass => Current \in Tx
<1> SUFFICES ASSUME TypeOK, InPass PROVE Current \in Tx
  OBVIOUS
<1>1. block.txs \in Seq(Tx) /\ pos \in 1 .. Len(block.txs)
  BY DEF TypeOK, Block, InPass
<1> QED BY <1>1 DEF Current

\* A transaction leaves accounts whose amounts are machine words.
LEMMA ResultType ==
  ASSUME TypeOK, InPass, NEW out \in Results(Current)
  PROVE  out \in [Addr -> Account] /\ InWords(out)
<1>1. /\ Current \in Tx /\ EffectiveNow \in Int /\ RatesNat
      /\ batch \in [Addr -> Account] /\ InWords(batch)
  BY CurrentType, EffectiveNowType, Parameters DEF TypeOK
<1>2. PICK preview : preview = (phase = "preview")
  OBVIOUS
<1>3. out \in Execute(batch, Current, EffectiveNow, preview, engine)
  BY <1>2 DEF Results
<1>4. out \in [Addr -> Account]
  BY <1>1, <1>3, ExecuteEffect
<1>5. InWords(out)
  BY <1>1, <1>3, ExecuteWords
<1> QED BY <1>4, <1>5

\* The state between two calls.
LEMMA ReturnType ==
  ASSUME NEW accts \in [Addr -> Account], InWords(accts), Return(accts)
  PROVE  /\ phase' = "idle" /\ block' \in Block /\ pos' = 1
         /\ batch' \in [Addr -> Account] /\ expected' \in [Addr -> Account]
         /\ InWords(batch') /\ InWords(expected')
<1>1. [txs |-> << >>, timestamp |-> GenesisTime] \in Block
  BY Parameters DEF Block
<1> QED BY <1>1 DEF Return

\* Every step keeps the types.
LEMMA TypeStep == TypeOK /\ [Next]_vars => TypeOK'
<1> SUFFICES ASSUME TypeOK, [Next]_vars PROVE TypeOK'
  OBVIOUS
<1> USE DEF stored
<1>1. ASSUME NEW txs \in TxLists, NEW t \in Times, Begin(txs, t) PROVE TypeOK'
  <2>1. [txs |-> txs, timestamp |-> t] \in Block
    BY Parameters DEF Block
  <2> QED BY <1>1, <2>1 DEF Begin, TypeOK
<1>2. CASE ExecuteTx
  <2>1. batch' \in [Addr -> Account] /\ InWords(batch')
    BY <1>2, ResultType DEF ExecuteTx
  <2> QED BY <1>2, <2>1 DEF ExecuteTx, TypeOK
<1>3. ASSUME Abandon, engine' \subseteq Addr PROVE TypeOK'
  <2>1. accounts \in [Addr -> Account] /\ InWords(accounts) /\ Return(accounts)
    BY <1>3 DEF Abandon, TypeOK
  <2> QED BY <1>3, <2>1, ReturnType DEF Abandon, TypeOK
<1>4. CASE TxFails
  BY <1>3, <1>4 DEF TxFails, TypeOK
<1>5. CASE DeployFails
  <2>1. Current.to \in Addr
    BY <1>5, CurrentType DEF DeployFails, Deploying, Tx
  <2> QED BY <1>3, <1>5, <2>1 DEF DeployFails, TypeOK
<1>6. ASSUME Reboot PROVE TypeOK'
  <2>1. ApplyGenesis(accounts) \in [Addr -> Account] /\ InWords(ApplyGenesis(accounts))
    BY GenesisType, GenesisWords, Parameters DEF TypeOK
  <2> QED BY <1>6, <2>1, ReturnType DEF Reboot, TypeOK
<1>7. CASE DeployPanics \/ Restart
  BY <1>6, <1>7 DEF DeployPanics, Restart
<1>8. CASE PreviewOnly
  BY <1>3, <1>8 DEF PreviewOnly, TypeOK
<1>9. CASE StartApply
  BY <1>9 DEF StartApply, TypeOK
<1>10. CASE EndApply
  <2>1. /\ (IF batch = expected THEN batch ELSE accounts) \in [Addr -> Account]
        /\ InWords(IF batch = expected THEN batch ELSE accounts)
    BY DEF TypeOK
  <2>2. Return(IF batch = expected THEN batch ELSE accounts)
    BY <1>10 DEF EndApply
  <2>3. /\ phase' = "idle" /\ block' \in Block /\ pos' = 1
        /\ batch' \in [Addr -> Account] /\ expected' \in [Addr -> Account]
        /\ InWords(batch') /\ InWords(expected')
    BY <2>1, <2>2, ReturnType
  <2>4. Slide(lastTimestamps, block.timestamp, WindowN) \in Seq(Int)
    BY SlideKeeps, Parameters DEF TypeOK, Block
  <2>5. Append(chain, block) \in Seq(Block)
    BY DEF TypeOK
  <2>6. /\ accounts' \in [Addr -> Account] /\ InWords(accounts')
        /\ lastTimestamps' \in Seq(Int) /\ chain' \in Seq(Block)
    <3>1. CASE batch = expected
      BY <1>10, <2>4, <2>5, <3>1 DEF EndApply, TypeOK
    <3>2. CASE batch # expected
      BY <1>10, <3>2 DEF EndApply, TypeOK
    <3> QED BY <3>1, <3>2
  <2>7. UNCHANGED << engine, restarts >>
    BY <1>10 DEF EndApply
  <2> QED BY <2>3, <2>6, <2>7 DEF TypeOK
<1>11. CASE UNCHANGED vars
  BY <1>11 DEF vars, pass, TypeOK
<1> QED BY <1>1, <1>2, <1>4, <1>5, <1>7, <1>8, <1>9, <1>10, <1>11 DEF Next

\* The types hold at genesis.
LEMMA InitType == Init => TypeOK
<1> SUFFICES ASSUME Init PROVE TypeOK
  OBVIOUS
<1>1. FreshAccounts \in [Addr -> Account] /\ InWords(FreshAccounts)
  BY FreshType, Parameters
<1>2. [txs |-> << >>, timestamp |-> GenesisTime] \in Block
  BY Parameters DEF Block
<1> QED BY <1>1, <1>2, Parameters DEF Init, TypeOK

\* Whatever is previewed, applied, refused or lost with the process, the ledger
\* keeps accounts, a window of times and a chain of blocks (State).
THEOREM TypeCorrect == Spec => []TypeOK
BY InitType, TypeStep, PTL DEF Spec

-----------------------------------------------------------------------------
(* The passes.                                                               *)

\* f is the previewed accounts after each of the first n transactions, and the
\* real pass, with whatever contracts known, has the same outcomes.
Previewed(f, n) == Runs(f, n, accounts, block.txs, EffectiveNow, TRUE, engine)
Applied(f, n) == Runs(f, n, accounts, block.txs, EffectiveNow, FALSE, {})

\* A preview is on its way to its outcome; a real pass repeats, transaction by
\* transaction, the preview whose outcome it will be compared with.
PassOK ==
  /\ pos - 1 \in 0 .. Len(block.txs)
  /\ phase # "idle" => block.txs \in TxLists /\ block.timestamp \in Times
  /\ phase = "preview" =>
       \E f : Previewed(f, pos - 1) /\ f[pos - 1] = batch
  /\ phase = "apply" =>
       \E f, g : /\ Previewed(f, Len(block.txs)) /\ f[Len(block.txs)] = expected
                /\ Applied(g, pos - 1) /\ g[pos - 1] = batch /\ f[pos - 1] = batch

\* An idle node is in no pass.
LEMMA IdleOK ==
  ASSUME phase' = "idle", pos' = 1, Len(block'.txs) \in Nat
  PROVE  PassOK'
BY DEF PassOK

\* The first accounts of a pass are the stored ones.
LEMMA RunsStart ==
  ASSUME NEW accts \in [Addr -> Account], NEW txs, NEW now, NEW preview, NEW e
  PROVE  \E f : Runs(f, 0, accts, txs, now, preview, e) /\ f[0] = accts
<1> DEFINE f == [k \in 0 .. 0 |-> accts]
<1>1. Runs(f, 0, accts, txs, now, preview, e) /\ f[0] = accts
  BY DEF Runs
<1> HIDE DEF f
<1> QED BY <1>1

\* One more transaction of a preview or of a real pass.
LEMMA PreviewExtends ==
  ASSUME NEW n \in Nat, NEW f, Previewed(f, n), NEW out \in [Addr -> Account],
         out \in Execute(f[n], block.txs[n + 1], EffectiveNow, TRUE, engine)
  PROVE  \E g : Previewed(g, n + 1) /\ g[n + 1] = out
<1>1. PICK p : p = TRUE
  OBVIOUS
<1>2. /\ Runs(f, n, accounts, block.txs, EffectiveNow, p, engine)
      /\ out \in Execute(f[n], block.txs[n + 1], EffectiveNow, p, engine)
  BY <1>1 DEF Previewed
<1>3. \E g : /\ Runs(g, n + 1, accounts, block.txs, EffectiveNow, p, engine)
            /\ g[n + 1] = out
  BY <1>2, RunsExtend
<1> QED BY <1>1, <1>3 DEF Previewed

\* A run over the first n transactions of a real pass, with one more step.
LEMMA AppliedExtends ==
  ASSUME NEW n \in Nat, NEW f, Applied(f, n), NEW out \in [Addr -> Account],
         out \in Execute(f[n], block.txs[n + 1], EffectiveNow, FALSE, {})
  PROVE  \E g : Applied(g, n + 1) /\ g[n + 1] = out
<1>1. PICK p, e : p = FALSE /\ e = {}
  OBVIOUS
<1>2. /\ Runs(f, n, accounts, block.txs, EffectiveNow, p, e)
      /\ out \in Execute(f[n], block.txs[n + 1], EffectiveNow, p, e)
  BY <1>1 DEF Applied
<1>3. \E g : /\ Runs(g, n + 1, accounts, block.txs, EffectiveNow, p, e)
            /\ g[n + 1] = out
  BY <1>2, RunsExtend
<1> QED BY <1>1, <1>3 DEF Applied

\* A step of the preview.
LEMMA PreviewStep ==
  ASSUME TypeOK, PassOK, ExecuteTx, phase = "preview"
  PROVE  PassOK'
<1>1. /\ InPass /\ batch' \in Results(Current) /\ pos' = pos + 1
      /\ UNCHANGED << accounts, lastTimestamps, engine, phase, block, expected >>
  BY DEF ExecuteTx, stored
<1>2. PICK n \in Nat : n = pos - 1
  BY DEF TypeOK
<1>3. /\ pos = n + 1 /\ pos' - 1 = n + 1
      /\ n + 1 \in 0 .. Len(block.txs) /\ n + 1 \in Nat
  BY <1>1, <1>2 DEF InPass, TypeOK, Block
<1>4. PICK f : Previewed(f, n) /\ f[n] = batch
  BY <1>2 DEF PassOK
<1>5. /\ batch' \in Execute(f[n], block.txs[n + 1], EffectiveNow, TRUE, engine)
      /\ batch' \in [Addr -> Account]
  BY <1>1, <1>3, <1>4, ResultType DEF Results, Current
<1>6. PICK g : Previewed(g, n + 1) /\ g[n + 1] = batch'
  BY <1>4, <1>5, PreviewExtends
<1>7. Previewed(g, n + 1)'
  <2>1. EffectiveNow' = EffectiveNow
    BY <1>1 DEF EffectiveNow
  <2> QED BY <1>1, <1>6, <2>1 DEF Previewed
<1>8. Previewed(g, pos - 1)' /\ g[pos' - 1] = batch'
  BY <1>3, <1>6, <1>7 DEF Previewed
<1>9. block'.txs \in TxLists /\ block'.timestamp \in Times
  BY <1>1 DEF PassOK
<1> QED BY <1>1, <1>3, <1>8, <1>9 DEF PassOK

\* A step of the real pass.
LEMMA ApplyStep ==
  ASSUME TypeOK, PassOK, ExecuteTx, phase = "apply"
  PROVE  PassOK' /\ Current.kind \notin Contractual
<1>1. /\ InPass /\ batch' \in Results(Current) /\ pos' = pos + 1
      /\ UNCHANGED << accounts, lastTimestamps, engine, phase, block, expected >>
  BY DEF ExecuteTx, stored
<1>2. PICK n \in Nat : n = pos - 1
  BY DEF TypeOK
<1>3. /\ pos = n + 1 /\ pos' - 1 = n + 1
      /\ n + 1 \in 1 .. Len(block.txs) /\ n + 1 \in Nat /\ (n + 1) - 1 = n
  BY <1>1, <1>2 DEF InPass, TypeOK, Block
<1>4. PICK f, g : /\ Previewed(f, Len(block.txs)) /\ f[Len(block.txs)] = expected
                  /\ Applied(g, n) /\ g[n] = batch /\ f[n] = batch
  BY <1>2 DEF PassOK
<1>5. /\ batch' \in Execute(batch, Current, EffectiveNow, FALSE, engine)
      /\ batch' \in [Addr -> Account]
  BY <1>1, ResultType DEF Results
<1>6. Current \in Tx /\ Current = block.txs[n + 1]
  BY <1>1, <1>3, CurrentType DEF Current
<1>7. Current.kind \notin Contractual
  BY <1>5, ContractsFail
<1>8. batch' \in Execute(batch, Current, EffectiveNow, FALSE, {})
  BY <1>5, <1>6, <1>7, PreviewAgrees
<1>9. f[n + 1] = batch'
  <2>1. f[n + 1] \in Execute(f[n], block.txs[n + 1], EffectiveNow, TRUE, engine)
    BY <1>3, <1>4 DEF Previewed, Runs
  <2>2. f[n + 1] \in Execute(batch, Current, EffectiveNow, TRUE, engine)
    BY <1>4, <1>6, <2>1
  <2>3. f[n + 1] \in Execute(batch, Current, EffectiveNow, FALSE, {})
    BY <1>6, <1>7, <2>2, PreviewAgrees
  <2> QED BY <1>6, <1>8, <2>3, RealDeterministic
<1>10. PICK h : Applied(h, n + 1) /\ h[n + 1] = batch'
  BY <1>4, <1>5, <1>6, <1>8, AppliedExtends
<1>11. EffectiveNow' = EffectiveNow
  BY <1>1 DEF EffectiveNow
<1>12. Previewed(f, Len(block.txs))' /\ f[Len(block'.txs)] = expected'
  BY <1>1, <1>4, <1>11 DEF Previewed
<1>13. Applied(h, n + 1)'
  BY <1>1, <1>10, <1>11 DEF Applied
<1>14. Applied(h, pos - 1)' /\ h[pos' - 1] = batch' /\ f[pos' - 1] = batch'
  BY <1>3, <1>9, <1>10, <1>13 DEF Applied
<1>15. block'.txs \in TxLists /\ block'.timestamp \in Times
  BY <1>1 DEF PassOK
<1>16. pos' - 1 \in 0 .. Len(block'.txs)
  BY <1>1, <1>3
<1>17. PassOK'
  BY <1>1, <1>12, <1>14, <1>15, <1>16 DEF PassOK
<1> QED BY <1>7, <1>17

\* Every step keeps the passes over a block reproducible.
LEMMA PassStep == TypeOK /\ PassOK /\ [Next]_vars => PassOK'
<1> SUFFICES ASSUME TypeOK, PassOK, [Next]_vars PROVE PassOK'
  OBVIOUS
<1>1. ASSUME NEW txs \in TxLists, NEW t \in Times, Begin(txs, t) PROVE PassOK'
  <2>1. /\ phase' = "preview" /\ block' = [txs |-> txs, timestamp |-> t]
        /\ pos' = 1 /\ batch' = accounts
        /\ UNCHANGED << accounts, lastTimestamps, engine >>
    BY <1>1 DEF Begin, stored
  <2>2. Len(txs) \in Nat /\ block'.txs = txs /\ block'.timestamp = t
    BY <2>1, Parameters
  <2>3. accounts \in [Addr -> Account]
    BY DEF TypeOK
  <2>4. \E f : Previewed(f, 0)' /\ f[0] = batch'
    <3>1. \A p : \E f : Runs(f, 0, accounts, txs, EffectiveNow', p, engine) /\ f[0] = accounts
      BY <2>3, RunsStart
    <3>2. PICK p : p = TRUE
      OBVIOUS
    <3>3. \E f : Runs(f, 0, accounts, txs, EffectiveNow', TRUE, engine) /\ f[0] = accounts
      BY <3>1, <3>2
    <3> QED BY <2>1, <2>2, <3>3 DEF Previewed
  <2>5. pos' - 1 = 0
    BY <2>1
  <2>6. \E f : Previewed(f, pos - 1)' /\ f[pos' - 1] = batch'
    BY <2>4, <2>5 DEF Previewed
  <2> QED BY <2>1, <2>2, <2>5, <2>6 DEF PassOK
<1>2. CASE ExecuteTx
  <2>1. phase \in {"preview", "apply"}
    BY <1>2 DEF ExecuteTx, InPass, TypeOK
  <2> QED BY <1>2, <2>1, PreviewStep, ApplyStep
<1>3. ASSUME NEW accts, Return(accts) PROVE PassOK'
  <2>1. phase' = "idle" /\ pos' = 1 /\ block'.txs = << >>
    BY <1>3 DEF Return
  <2>2. Len(block'.txs) \in Nat
    BY <2>1
  <2> QED BY <2>1, <2>2, IdleOK
<1>4. CASE TxFails \/ DeployFails \/ PreviewOnly
  BY <1>3, <1>4 DEF TxFails, DeployFails, PreviewOnly, Abandon
<1>5. CASE DeployPanics \/ Restart
  BY <1>3, <1>5 DEF DeployPanics, Restart, Reboot
<1>6. CASE EndApply
  BY <1>3, <1>6 DEF EndApply
<1>7. CASE StartApply
  <2>1. /\ PassDone /\ phase = "preview" /\ phase' = "apply"
        /\ expected' = batch /\ batch' = accounts /\ pos' = 1
        /\ UNCHANGED << accounts, lastTimestamps, engine, block >>
    BY <1>7 DEF StartApply, stored
  <2>2. PICK n \in Nat : n = Len(block.txs) /\ n = pos - 1
    BY <2>1 DEF PassDone, PassOK, TypeOK, Block
  <2>3. PICK f : Previewed(f, n) /\ f[n] = batch
    BY <2>1, <2>2 DEF PassOK
  <2>4. EffectiveNow' = EffectiveNow
    BY <2>1 DEF EffectiveNow
  <2>5. Previewed(f, Len(block.txs))' /\ f[Len(block'.txs)] = expected'
    BY <2>1, <2>2, <2>3, <2>4 DEF Previewed
  <2>6. \E g : Applied(g, 0)' /\ g[0] = batch'
    <3>1. accounts \in [Addr -> Account]
      BY DEF TypeOK
    <3>2. \A p, e : \E g : Runs(g, 0, accounts, block.txs, EffectiveNow, p, e)
                         /\ g[0] = accounts
      BY <3>1, RunsStart
    <3>3. PICK p, e : p = FALSE /\ e = {}
      OBVIOUS
    <3>4. \E g : Runs(g, 0, accounts, block.txs, EffectiveNow, FALSE, {})
                /\ g[0] = accounts
      BY <3>2, <3>3
    <3> QED BY <2>1, <2>4, <3>4 DEF Applied
  <2>7. pos' - 1 = 0 /\ f[0] = batch'
    BY <2>1, <2>3 DEF Previewed, Runs
  <2>8. \E g : Applied(g, pos - 1)' /\ g[pos' - 1] = batch' /\ f[pos' - 1] = batch'
    BY <2>6, <2>7 DEF Applied
  <2>9. Len(block'.txs) \in Nat /\ block'.txs \in TxLists /\ block'.timestamp \in Times
    BY <2>1, <2>2 DEF PassOK
  <2> QED BY <2>1, <2>5, <2>7, <2>8, <2>9 DEF PassOK
<1>8. CASE UNCHANGED vars
  <2>1. UNCHANGED << accounts, lastTimestamps, engine, phase, block, pos, batch, expected >>
    BY <1>8 DEF vars, pass, stored
  <2>2. EffectiveNow' = EffectiveNow
    BY <2>1 DEF EffectiveNow
  <2> QED BY <2>1, <2>2 DEF PassOK, Previewed, Applied
<1> QED BY <1>1, <1>2, <1>4, <1>5, <1>6, <1>7, <1>8 DEF Next

-----------------------------------------------------------------------------
(* The blocks are atomic.                                                    *)

\* The abstract ledger executes transactions as the ledger does.
LEMMA SameExecute ==
  ASSUME NEW accts, NEW tx \in Tx, NEW now
  PROVE  Atomic!Execute(accts, tx, now, FALSE, {}) = Execute(accts, tx, now, FALSE, {})
<1>1. \A x : Atomic!Sat(x) = Sat(x)
  BY DEF Atomic!Sat, Sat
<1>2. \A x : Atomic!RCMax(x) = RCMax(x)
  BY <1>1 DEF Atomic!RCMax, RCMax
<1>3. \A a, b, c, d : Atomic!Regen(a, b, c, d) = Regen(a, b, c, d)
  BY <1>1, <1>2 DEF Atomic!Regen, Regen
<1>4. \A a, b, c : Atomic!Cost(a, b, c) = Cost(a, b, c)
  BY <1>1 DEF Atomic!Cost, Cost
<1>5. \A a, b : Atomic!LedgerCost(a, b) = LedgerCost(a, b)
  BY <1>4 DEF Atomic!LedgerCost, LedgerCost
<1>6. \A a, b, c : Atomic!Regenerated(a, b, c) = Regenerated(a, b, c)
  BY <1>2, <1>3 DEF Atomic!Regenerated, Regenerated
<1>7. \A a, b, c, d : Atomic!Settle(a, b, c, d) = Settle(a, b, c, d)
  BY <1>2 DEF Atomic!Settle, Settle
<1>8. \A a, b, c, d : Atomic!Transfer(a, b, c, d) = Transfer(a, b, c, d)
  BY <1>7 DEF Atomic!Transfer, Transfer
<1>9. \A a, b, c, d : Atomic!StakeDelegate(a, b, c, d) = StakeDelegate(a, b, c, d)
  BY <1>7 DEF Atomic!StakeDelegate, StakeDelegate
<1>10. \A a, b, c, d : Atomic!StakeUndelegate(a, b, c, d) = StakeUndelegate(a, b, c, d)
  BY <1>7 DEF Atomic!StakeUndelegate, StakeUndelegate
<1>11. \A a, b : Atomic!Admissible(a, b) = Admissible(a, b)
  BY DEF Atomic!Admissible, Admissible, Atomic!KeyKnown, KeyKnown
<1>12. tx.kind \in Kind
  BY DEF Tx
<1>13. CASE ~Admissible(accts, tx)
  BY <1>11, <1>13 DEF Atomic!Execute, Execute
<1>14. CASE Admissible(accts, tx) /\ tx.kind = "transfer"
  BY <1>5, <1>6, <1>8, <1>11, <1>14 DEF Atomic!Execute, Execute
<1>15. CASE Admissible(accts, tx) /\ tx.kind = "delegate"
  BY <1>5, <1>6, <1>9, <1>11, <1>15 DEF Atomic!Execute, Execute
<1>16. CASE Admissible(accts, tx) /\ tx.kind = "undelegate"
  BY <1>5, <1>6, <1>10, <1>11, <1>16 DEF Atomic!Execute, Execute
<1>17. CASE Admissible(accts, tx) /\ tx.kind \in {"deploy", "call"}
  BY <1>11, <1>17 DEF Atomic!Execute, Execute, Atomic!Deploy, Deploy, Atomic!Call, Call
<1>18. CASE Admissible(accts, tx) /\ tx.kind = "governance"
  BY <1>5, <1>6, <1>7, <1>11, <1>18 DEF Atomic!Execute, Execute
<1> QED BY <1>12, <1>13, <1>14, <1>15, <1>16, <1>17, <1>18 DEF Kind

\* The outcome of a real pass.
LEMMA RealType ==
  ASSUME NEW accts \in [Addr -> Account], NEW tx \in Tx, NEW now \in Int,
         NEW out \in Execute(accts, tx, now, FALSE, {})
  PROVE  out \in [Addr -> Account]
<1>1. PICK p, e : p = FALSE /\ e = {}
  OBVIOUS
<1>2. out \in Execute(accts, tx, now, p, e)
  BY <1>1
<1> QED BY <1>2, ExecuteEffect, Parameters

\* What a real pass reaches one transaction at a time is an outcome of the
\* abstract block.
LEMMA RunsInExecuteAll ==
  ASSUME NEW accts \in [Addr -> Account], NEW txs \in Seq(Tx), NEW now \in Int,
         NEW f, Runs(f, Len(txs), accts, txs, now, FALSE, {})
  PROVE  f[Len(txs)] \in Atomic!ExecuteAll(accts, txs, now, FALSE, {})
<1> DEFINE n == Len(txs)
           S == SUBSET [Addr -> Account]
           Out(k, X) == UNION { Atomic!Execute(a, txs[k], now, FALSE, {}) : a \in X }
           step == [k \in 1 .. n |-> [X \in S |-> Out(k, X)]]
           Is(g) == g = [i \in 0 .. n |-> IF i = 0 THEN {accts} ELSE Out(i, g[i - 1])]
           after == CHOOSE g : Is(g)
<1>1. n \in Nat /\ \A k \in 1 .. n : txs[k] \in Tx
  OBVIOUS
<1>2. ASSUME NEW k \in 1 .. n, NEW X \in S PROVE Out(k, X) \in S
  <2> SUFFICES ASSUME NEW a \in X, NEW out \in Atomic!Execute(a, txs[k], now, FALSE, {})
               PROVE  out \in [Addr -> Account]
    OBVIOUS
  <2>1. out \in Execute(a, txs[k], now, FALSE, {}) /\ a \in [Addr -> Account]
    BY <1>1, SameExecute
  <2> QED BY <1>1, <2>1, RealType
<1>3. step \in [1 .. n -> [S -> S]] /\ \A k \in 1 .. n, X \in S : step[k][X] = Out(k, X)
  <2> HIDE DEF Out, S
  <2> QED BY <1>2
<1>4. {accts} \in S
  OBVIOUS
<1> HIDE DEF S, step, Out, n
<1>5. PICK h : Iterates(h, n, {accts}, S, step)
  BY <1>1, <1>3, <1>4, RecursionExists
<1>6. /\ h \in [0 .. n -> S] /\ h[0] = {accts}
      /\ \A k \in 1 .. n : h[k] = Out(k, h[k - 1])
  <2>1. ASSUME NEW k \in 1 .. n PROVE h[k] = Out(k, h[k - 1])
    <3>1. k - 1 \in 0 .. n
      BY <1>1
    <3>2. h[k] = step[k][h[k - 1]] /\ h[k - 1] \in S
      BY <1>5, <3>1 DEF Iterates
    <3> QED BY <1>3, <3>2
  <2> QED BY <1>5, <2>1 DEF Iterates
<1>7. Is(h)
  <2> DEFINE g == [i \in 0 .. n |-> IF i = 0 THEN {accts} ELSE Out(i, h[i - 1])]
  <2>1. DOMAIN g = DOMAIN h /\ g = [i \in DOMAIN g |-> g[i]]
    BY <1>6
  <2>2. ASSUME NEW i \in 0 .. n PROVE g[i] = h[i]
    <3>1. CASE i = 0
      BY <1>6, <3>1
    <3>2. CASE i # 0
      <4>1. i \in 1 .. n
        BY <1>1, <3>2
      <4> QED BY <1>6, <3>2, <4>1
    <3> QED BY <3>1, <3>2
  <2>3. h = g
    BY <1>6, <2>2
  <2> QED BY <2>3
<1>8. Is(after)
  <2> HIDE DEF Is
  <2> QED BY <1>7
<1>9. after[0] = {accts} /\ \A k \in 1 .. n : after[k] = Out(k, after[k - 1])
  <2> HIDE DEF after
  <2>1. 0 \in 0 .. n
    BY <1>1
  <2>2. ASSUME NEW k \in 1 .. n PROVE k \in 0 .. n /\ k # 0
    BY <1>1
  <2> QED BY <1>8, <2>1, <2>2
<1>10. Atomic!ExecuteAll(accts, txs, now, FALSE, {}) = after[n]
  BY DEF Atomic!ExecuteAll, Out, n
<1> HIDE DEF after, Is
<1> DEFINE Good == { k \in 0 .. n : f[k] \in after[k] }
<1>11. 0 \in Good
  BY <1>1, <1>9 DEF Runs
<1>12. ASSUME NEW k \in 1 .. n, k - 1 \in Good PROVE k \in Good
  <2>1. f[k] \in Execute(f[k - 1], txs[k], now, FALSE, {})
    BY DEF Runs, n
  <2>2. f[k - 1] \in after[k - 1] /\ k \in 0 .. n
    BY <1>1, <1>12
  <2>3. f[k] \in Out(k, after[k - 1])
    BY <1>1, <2>1, <2>2, SameExecute DEF Out
  <2> QED BY <1>9, <2>2, <2>3
<1>13. n \in Good
  <2> HIDE DEF Good
  <2>1. 0 .. n \subseteq Good
    BY <1>1, <1>11, <1>12, BoundedInduction
  <2> QED BY <1>1, <2>1
<1> QED BY <1>10, <1>13 DEF n

\* And at the same time, with the same window, from the same genesis.
LEMMA SameClock ==
  /\ \A t, last, skew : Atomic!EffectiveTime(t, last, skew) = EffectiveTime(t, last, skew)
  /\ \A last, t, w : Atomic!Slide(last, t, w) = Slide(last, t, w)
<1>1. ASSUME NEW ts PROVE Atomic!Median(ts) = Median(ts)
  <2> DEFINE M(v) ==
         /\ v \in { ts[i] : i \in DOMAIN ts }
         /\ 2 * Cardinality({ i \in DOMAIN ts : ts[i] <= v }) >= Len(ts)
         /\ 2 * Cardinality({ i \in DOMAIN ts : ts[i] < v }) < Len(ts)
  <2>1. Median(ts) = IF ts = << >> THEN 0 ELSE CHOOSE v : M(v)
    BY DEF Median
  <2>2. Atomic!Median(ts) = IF ts = << >> THEN 0 ELSE CHOOSE v : M(v)
    <3>1. \A S : Atomic!Cardinality(S) = Cardinality(S)
      BY DEF Atomic!Cardinality, Cardinality
    <3> DEFINE N(v) ==
           /\ v \in { ts[i] : i \in DOMAIN ts }
           /\ 2 * Atomic!Cardinality({ i \in DOMAIN ts : ts[i] <= v }) >= Len(ts)
           /\ 2 * Atomic!Cardinality({ i \in DOMAIN ts : ts[i] < v }) < Len(ts)
    <3>2. \A v : M(v) <=> N(v)
      BY <3>1
    <3>3. Atomic!Median(ts) = IF ts = << >> THEN 0 ELSE CHOOSE v : N(v)
      BY DEF Atomic!Median
    <3> HIDE DEF M, N
    <3>4. (CHOOSE v : M(v)) = (CHOOSE v : N(v))
      BY <3>2
    <3> QED BY <3>3, <3>4
  <2> HIDE DEF M
  <2> QED BY <2>1, <2>2
<1> QED BY <1>1 DEF Atomic!EffectiveTime, EffectiveTime, Atomic!Slide, Slide

\* Both ledgers begin with the accounts of the same genesis.
LEMMA SameGenesis ==
  /\ \A accts : Atomic!ApplyGenesis(accts) = ApplyGenesis(accts)
  /\ Atomic!FreshAccounts = FreshAccounts
<1>1. \A accts : Atomic!ApplyGenesis(accts) = ApplyGenesis(accts)
  BY DEF Atomic!ApplyGenesis, ApplyGenesis, Atomic!ZeroAccount, ZeroAccount,
         Atomic!RCMax, RCMax, Atomic!Sat, Sat
<1> QED BY <1>1 DEF Atomic!FreshAccounts, FreshAccounts, Atomic!ZeroAccount, ZeroAccount

\* A real pass that is over repeated its preview to the end.
LEMMA PassEnds ==
  ASSUME TypeOK, PassOK, PassDone, phase = "apply"
  PROVE  /\ batch = expected
         /\ batch \in Atomic!ExecuteAll(accounts, block.txs, EffectiveNow, FALSE, {})
<1>1. PICK n \in Nat : n = Len(block.txs) /\ n = pos - 1
  BY DEF PassDone, PassOK, TypeOK, Block
<1>2. PICK f, g : /\ Previewed(f, n) /\ f[n] = expected
                  /\ Applied(g, n) /\ g[n] = batch /\ f[n] = batch
  BY <1>1 DEF PassOK
<1>3. /\ accounts \in [Addr -> Account] /\ block.txs \in Seq(Tx)
      /\ EffectiveNow \in Int
  BY EffectiveNowType DEF TypeOK, Block
<1>4. Runs(g, Len(block.txs), accounts, block.txs, EffectiveNow, FALSE, {})
  BY <1>1, <1>2 DEF Applied
<1>5. g[Len(block.txs)] \in Atomic!ExecuteAll(accounts, block.txs, EffectiveNow, FALSE, {})
  BY <1>3, <1>4, RunsInExecuteAll
<1> QED BY <1>1, <1>2, <1>5

\* The end of the real pass is the abstract commit.
LEMMA CommitStep ==
  ASSUME TypeOK, PassOK, EndApply
  PROVE  Atomic!Commit
<1>1. PassDone /\ phase = "apply"
  BY DEF EndApply
<1>2. /\ batch = expected
      /\ batch \in Atomic!ExecuteAll(accounts, block.txs, EffectiveNow, FALSE, {})
  BY <1>1, PassEnds
<1>3. /\ accounts' = batch /\ chain' = Append(chain, block)
      /\ lastTimestamps' = Slide(lastTimestamps, block.timestamp, WindowN)
  BY <1>2 DEF EndApply
<1>4. /\ Len(chain') = Len(chain) + 1 /\ chain'[Len(chain')] = block
  BY <1>3 DEF TypeOK
<1>5. block.txs \in TxLists /\ block.timestamp \in Times
  BY <1>1 DEF PassOK
<1>6. /\ accounts' \in Atomic!ExecuteAll(accounts, block.txs,
             Atomic!EffectiveTime(block.timestamp, lastTimestamps, MaxSkewSec), FALSE, {})
      /\ lastTimestamps' = Atomic!Slide(lastTimestamps, block.timestamp, WindowN)
  BY <1>2, <1>3, SameClock DEF EffectiveNow
<1> QED BY <1>3, <1>4, <1>5, <1>6 DEF Atomic!Commit

\* No pass is under way at genesis.
LEMMA InitPass == Init => PassOK
<1> SUFFICES ASSUME Init PROVE PassOK
  OBVIOUS
<1>1. pos = 1 /\ phase = "idle" /\ Len(block.txs) = 0
  BY DEF Init
<1> QED BY <1>1 DEF PassOK

\* Blocks are applied as a whole or not at all, whatever the order of previews,
\* failed passes, commits and restarts (State.PreviewBlock, State.ApplyBlock).
THEOREM AtomicAlways == Spec => ImplementsAtomicLedger
<1>1. Init => Atomic!Init
  BY SameGenesis DEF Init, Atomic!Init
<1>2. TypeOK /\ PassOK /\ [Next]_vars => [Atomic!Next]_(Atomic!stored)
  <2> SUFFICES ASSUME TypeOK, PassOK, [Next]_vars
               PROVE  [Atomic!Next]_(Atomic!stored)
    OBVIOUS
  <2> USE DEF stored, Atomic!stored
  <2>1. ASSUME NEW txs \in TxLists, NEW t \in Times, Begin(txs, t)
        PROVE  UNCHANGED Atomic!stored
    BY <2>1 DEF Begin
  <2>2. CASE ExecuteTx \/ StartApply
    BY <2>2 DEF ExecuteTx, StartApply
  <2>3. CASE TxFails \/ DeployFails \/ PreviewOnly
    BY <2>3 DEF TxFails, DeployFails, PreviewOnly, Abandon
  <2>4. CASE DeployPanics \/ Restart
    <3>1. Atomic!Restart
      BY <2>4, SameGenesis DEF DeployPanics, Restart, Reboot, Atomic!Restart
    <3> QED BY <3>1 DEF Atomic!Next
  <2>5. CASE EndApply
    BY <2>5, CommitStep DEF Atomic!Next
  <2>6. CASE UNCHANGED vars
    BY <2>6 DEF vars
  <2> QED BY <2>1, <2>2, <2>3, <2>4, <2>5, <2>6 DEF Next
<1> QED BY <1>1, <1>2, InitType, TypeStep, InitPass, PassStep,
           PTL DEF Spec, ImplementsAtomicLedger, Atomic!Spec

\* A block that passed its preview is committed, unless a contract transaction
\* or the end of the process stops the real pass: the state root mismatch of
\* ApplyBlock never happens.
THEOREM PreviewDecidesAlways == Spec => PreviewDecides
<1> DEFINE Decided == (phase = "apply" /\ phase' = "idle")
                        => \/ chain' # chain
                           \/ restarts' # restarts
                           \/ InPass /\ Current.kind \in {"deploy", "call"}
<1>1. TypeOK /\ PassOK /\ [Next]_vars => [Decided]_vars
  <2> SUFFICES ASSUME TypeOK, PassOK, Next, phase = "apply", phase' = "idle"
               PROVE  \/ chain' # chain
                      \/ restarts' # restarts
                      \/ InPass /\ Current.kind \in {"deploy", "call"}
    OBVIOUS
  <2>1. ~(\E txs \in TxLists, t \in Times : Begin(txs, t)) /\ ~ExecuteTx
        /\ ~PreviewOnly /\ ~StartApply
    BY DEF Begin, ExecuteTx, PreviewOnly, StartApply
  <2>2. CASE TxFails
    <3>1. InPass /\ Results(Current) = {}
      BY <2>2 DEF TxFails
    <3> SUFFICES ASSUME Current.kind \notin Contractual PROVE FALSE
      BY <3>1 DEF Contractual
    <3>2. PICK n \in Nat : n = pos - 1
      BY DEF TypeOK
    <3>3. PICK f : /\ Previewed(f, Len(block.txs)) /\ f[n] = batch
      BY <3>2 DEF PassOK
    <3>4. n + 1 \in 1 .. Len(block.txs) /\ (n + 1) - 1 = n /\ pos = n + 1
      BY <3>1, <3>2 DEF InPass, TypeOK, Block
    <3>5. f[n + 1] \in Execute(f[n], block.txs[n + 1], EffectiveNow, TRUE, engine)
      BY <3>3, <3>4 DEF Previewed, Runs
    <3>6. f[n + 1] \in Execute(batch, Current, EffectiveNow, TRUE, engine)
      BY <3>3, <3>4, <3>5 DEF Current
    <3>7. Current \in Tx
      BY <3>1, CurrentType
    <3>8. f[n + 1] \in Execute(batch, Current, EffectiveNow, FALSE, engine)
      <4>1. Execute(batch, Current, EffectiveNow, TRUE, engine)
              = Execute(batch, Current, EffectiveNow, FALSE, {})
        BY <3>7, PreviewAgrees
      <4>2. Execute(batch, Current, EffectiveNow, FALSE, engine)
              = Execute(batch, Current, EffectiveNow, FALSE, {})
        BY <3>7, PreviewAgrees
      <4> QED BY <3>6, <4>1, <4>2
    <3>9. Results(Current) = Execute(batch, Current, EffectiveNow, FALSE, engine)
      BY DEF Results
    <3> QED BY <3>1, <3>8, <3>9
  <2>3. CASE DeployFails
    BY <2>3 DEF DeployFails, Deploying
  <2>4. CASE DeployPanics \/ Restart
    <3>1. restarts' = restarts + 1 /\ restarts \in Nat
      BY <2>4 DEF DeployPanics, Restart, Reboot, TypeOK
    <3> QED BY <3>1
  <2>5. CASE EndApply
    <3>1. batch = expected
      BY <2>5, PassEnds DEF EndApply
    <3>2. chain' = Append(chain, block) /\ chain \in Seq(Block) /\ block \in Block
      BY <2>5, <3>1 DEF EndApply, TypeOK
    <3>3. Len(chain') = Len(chain) + 1 /\ Len(chain) \in Nat
      BY <3>2
    <3> QED BY <3>3
  <2> QED BY <2>1, <2>2, <2>3, <2>4, <2>5 DEF Next
<1> QED BY <1>1, InitType, TypeStep, InitPass, PassStep, PTL DEF Spec, PreviewDecides

-----------------------------------------------------------------------------
(* The window.                                                               *)

\* Sliding the window of the last w elements gives that of the longer sequence.
LEMMA WindowSlides ==
  ASSUME NEW all \in Seq(Int), NEW t \in Int, NEW w \in Nat \ {0}
  PROVE  Slide(LastOf(all, w), t, w) = LastOf(Append(all, t), w)
<1> DEFINE n == Len(all)
           first == IF n > w THEN n - w + 1 ELSE 1
           window == LastOf(all, w)
           more == Append(all, t)
           longer == Append(window, t)
<1>1. /\ n \in Nat /\ first \in 1 .. n + 1
      /\ \A i \in first .. n : all[i] \in Int
  OBVIOUS
<1>2. /\ more \in Seq(Int) /\ Len(more) = n + 1 /\ more[n + 1] = t
      /\ \A i \in 1 .. n : more[i] = all[i]
  OBVIOUS
<1>3. window = SubSeq(all, first, n)
  BY DEF LastOf
<1> HIDE DEF n, first, window, more
<1>4. /\ window \in Seq(Int)
      /\ Len(window) = IF first <= n THEN n - first + 1 ELSE 0
      /\ \A i \in 1 .. n - first + 1 : window[i] = all[first + i - 1]
  BY <1>1, <1>3, SubSeqProperties
<1>5. Len(window) = n - first + 1 /\ Len(window) \in Nat
  BY <1>1, <1>4
<1> DEFINE m == Len(window)
<1>6. /\ longer \in Seq(Int) /\ Len(longer) = m + 1 /\ longer[m + 1] = t
      /\ \A i \in 1 .. m : longer[i] = window[i]
  BY <1>4
<1> HIDE DEF longer
<1>7. ASSUME NEW i \in 1 .. m + 1 PROVE longer[i] = more[first + i - 1]
  <2>1. CASE i = m + 1
    <3>1. first + i - 1 = n + 1
      BY <1>1, <1>5, <2>1
    <3> QED BY <1>2, <1>6, <2>1, <3>1
  <2>2. CASE i # m + 1
    <3>1. i \in 1 .. m /\ i \in 1 .. n - first + 1 /\ first + i - 1 \in 1 .. n
      BY <1>1, <1>5, <2>2
    <3> QED BY <1>2, <1>4, <1>6, <3>1
  <2> QED BY <2>1, <2>2
<1>8. CASE n >= w
  <2>1. m = w /\ first = n - w + 1 /\ (n + 1) - w + 1 = first + 1
    BY <1>1, <1>5, <1>8 DEF first
  <2>2. /\ Slide(window, t, w) = SubSeq(longer, 2, m + 1)
        /\ LastOf(more, w) = SubSeq(more, first + 1, n + 1)
    <3>1. Len(longer) > w /\ Len(longer) - w + 1 = 2
      BY <1>5, <1>6, <2>1
    <3>2. Len(more) > w /\ Len(more) - w + 1 = first + 1
      BY <1>1, <1>2, <1>8, <2>1
    <3>3. Slide(window, t, w) = SubSeq(longer, 2, m + 1)
      BY <1>6, <3>1 DEF Slide, longer
    <3> QED BY <1>2, <3>2, <3>3 DEF LastOf
  <2> DEFINE x == SubSeq(longer, 2, m + 1)
             y == SubSeq(more, first + 1, n + 1)
  <2>3. /\ x \in Seq(Int) /\ Len(x) = m
        /\ \A i \in 1 .. m : x[i] = longer[i + 1]
    <3>1. \A i \in 2 .. m + 1 : longer[i] \in Int
      BY <1>5, <1>6
    <3>2. /\ SubSeq(longer, 2, m + 1) \in Seq(Int)
          /\ Len(SubSeq(longer, 2, m + 1)) = IF 2 <= m + 1 THEN (m + 1) - 2 + 1 ELSE 0
          /\ \A i \in 1 .. (m + 1) - 2 + 1 : SubSeq(longer, 2, m + 1)[i] = longer[2 + i - 1]
      BY <1>5, <3>1, SubSeqProperties
    <3>3. m \in Nat \ {0} /\ (m + 1) - 2 + 1 = m /\ \A i \in 1 .. m : 2 + i - 1 = i + 1
      BY <1>5, <2>1
    <3> QED BY <3>2, <3>3
  <2>4. /\ y \in Seq(Int) /\ Len(y) = m
        /\ \A i \in 1 .. m : y[i] = more[first + (i + 1) - 1]
    <3>1. \A i \in first + 1 .. n + 1 : more[i] \in Int
      BY <1>1, <1>2
    <3>2. first + 1 \in Int /\ n + 1 \in Int
      BY <1>1
    <3>3. /\ y \in Seq(Int)
          /\ Len(y) = IF first + 1 <= n + 1 THEN (n + 1) - (first + 1) + 1 ELSE 0
          /\ \A i \in 1 .. (n + 1) - (first + 1) + 1 : y[i] = more[(first + 1) + i - 1]
      BY <3>1, <3>2, SubSeqProperties
    <3>4. /\ m \in Nat \ {0} /\ (n + 1) - (first + 1) + 1 = m /\ first + 1 <= n + 1
          /\ \A i \in 1 .. m : (first + 1) + i - 1 = first + (i + 1) - 1
      BY <1>1, <1>5, <2>1
    <3> HIDE DEF y
    <3> QED BY <3>3, <3>4
  <2> HIDE DEF x, y
  <2>5. \A i \in 1 .. m : x[i] = y[i]
    <3>1. \A i \in 1 .. m : i + 1 \in 1 .. m + 1
      BY <1>5
    <3> QED BY <1>7, <2>3, <2>4, <3>1
  <2>6. x = y
    BY <2>3, <2>4, <2>5, SeqEqual
  <2> QED BY <2>2, <2>6 DEF x, y, window, more
<1>9. CASE n < w
  <2>1. first = 1 /\ m = n
    BY <1>1, <1>5, <1>9 DEF first
  <2>2. Slide(window, t, w) = longer
    BY <1>6, <1>9, <2>1 DEF Slide, longer
  <2>3. LastOf(more, w) = more
    <3>1. LastOf(more, w) = SubSeq(more, 1, Len(more))
      BY <1>1, <1>2, <1>9 DEF LastOf
    <3> QED BY <1>2, <3>1, SubSeqFull
  <2>4. longer = more
    <3>1. \A i \in 1 .. m + 1 : longer[i] = more[i]
      BY <1>7, <2>1, <1>5
    <3> QED BY <1>2, <1>6, <2>1, <3>1, SeqEqual
  <2> QED BY <2>2, <2>3, <2>4 DEF window, more
<1> QED BY <1>1, <1>8, <1>9

\* One more block appends its timestamp.
LEMMA StampsAppend ==
  ASSUME NEW blocks \in Seq(Block), NEW b \in Block
  PROVE  /\ Stamps(blocks) \in Seq(Int)
         /\ Stamps(Append(blocks, b)) = Append(Stamps(blocks), b.timestamp)
<1> DEFINE ts(c) == [h \in DOMAIN c |-> c[h].timestamp]
           more == Append(blocks, b)
           n == Len(blocks)
<1>1. /\ n \in Nat /\ DOMAIN blocks = 1 .. n /\ \A h \in 1 .. n : blocks[h] \in Block
      /\ more \in Seq(Block) /\ Len(more) = n + 1 /\ DOMAIN more = 1 .. n + 1
      /\ more[n + 1] = b /\ \A h \in 1 .. n : more[h] = blocks[h]
  OBVIOUS
<1>2. \A x \in Block : x.timestamp \in Int
  BY DEF Block
<1> HIDE DEF more, n
<1>3. ts(blocks) \in Seq(Int) /\ Len(ts(blocks)) = n
  BY <1>1, <1>2
<1>4. ts(more) \in Seq(Int) /\ Len(ts(more)) = n + 1
  BY <1>1, <1>2
<1>5. /\ \A h \in 1 .. n : ts(more)[h] = ts(blocks)[h]
      /\ ts(more)[n + 1] = b.timestamp /\ b.timestamp \in Int
  BY <1>1, <1>2
<1>6. << GenesisTime >> \in Seq(Int) /\ Len(<< GenesisTime >>) = 1
  BY Parameters
<1> DEFINE old == << GenesisTime >> \o ts(blocks)
           new == << GenesisTime >> \o ts(more)
<1>7. Stamps(blocks) = old /\ Stamps(more) = new
  BY DEF Stamps
<1> HIDE DEF ts
<1>8. /\ old \in Seq(Int) /\ Len(old) = n + 1
      /\ \A i \in 1 .. n + 1 : old[i] = IF i <= 1 THEN << GenesisTime >>[i] ELSE ts(blocks)[i - 1]
  <2>1. Len(<< GenesisTime >>) + Len(ts(blocks)) = n + 1
    BY <1>1, <1>3, <1>6
  <2> QED BY <1>3, <1>6, <2>1, ConcatProperties
<1>9. /\ new \in Seq(Int) /\ Len(new) = n + 2
      /\ \A i \in 1 .. n + 2 : new[i] = IF i <= 1 THEN << GenesisTime >>[i] ELSE ts(more)[i - 1]
  <2>1. Len(<< GenesisTime >>) + Len(ts(more)) = n + 2
    BY <1>1, <1>4, <1>6
  <2> QED BY <1>4, <1>6, <2>1, ConcatProperties
<1> HIDE DEF old, new
<1> DEFINE s == Append(old, b.timestamp)
<1>10. /\ s \in Seq(Int) /\ Len(s) = n + 2 /\ s[n + 2] = b.timestamp
       /\ \A i \in 1 .. n + 1 : s[i] = old[i]
  <2>1. /\ s \in Seq(Int) /\ Len(s) = Len(old) + 1 /\ s[Len(old) + 1] = b.timestamp
        /\ \A i \in 1 .. Len(old) : s[i] = old[i]
    BY <1>5, <1>8
  <2>2. Len(old) + 1 = n + 2
    BY <1>1, <1>8
  <2> HIDE DEF s
  <2> QED BY <1>8, <2>1, <2>2
<1> HIDE DEF s
<1>11. ASSUME NEW i \in 1 .. n + 2 PROVE new[i] = s[i]
  <2>1. CASE i = n + 2
    <3>1. ~(i <= 1) /\ i - 1 = n + 1
      BY <1>1, <2>1
    <3> QED BY <1>5, <1>9, <1>10, <2>1, <3>1
  <2>2. CASE i # n + 2
    <3>1. i \in 1 .. n + 1 /\ (~(i <= 1) => i - 1 \in 1 .. n)
      BY <1>1, <2>2
    <3> QED BY <1>5, <1>8, <1>9, <1>10, <3>1
  <2> QED BY <2>1, <2>2
<1>12. new = s
  BY <1>9, <1>10, <1>11, SeqEqual
<1> QED BY <1>7, <1>8, <1>12 DEF s, more

\* Only a commit moves the chain and the window.
LEMMA ChainStep ==
  ASSUME TypeOK, [Next]_vars
  PROVE  \/ UNCHANGED << lastTimestamps, chain >>
         \/ /\ EndApply /\ chain' = Append(chain, block) /\ accounts' = batch
            /\ lastTimestamps' = Slide(lastTimestamps, block.timestamp, WindowN)
<1> USE DEF stored
<1>1. ASSUME NEW txs \in TxLists, NEW t \in Times, Begin(txs, t)
      PROVE  UNCHANGED << lastTimestamps, chain >>
  BY <1>1 DEF Begin
<1>2. CASE ExecuteTx \/ StartApply
  BY <1>2 DEF ExecuteTx, StartApply
<1>3. CASE TxFails \/ DeployFails \/ PreviewOnly
  BY <1>3 DEF TxFails, DeployFails, PreviewOnly, Abandon
<1>4. CASE DeployPanics \/ Restart
  BY <1>4 DEF DeployPanics, Restart, Reboot
<1>5. CASE EndApply
  <2>1. CASE batch = expected
    BY <1>5, <2>1 DEF EndApply
  <2>2. CASE batch # expected
    BY <1>5, <2>2 DEF EndApply
  <2> QED BY <2>1, <2>2
<1>6. CASE UNCHANGED vars
  BY <1>6 DEF vars
<1> QED BY <1>1, <1>2, <1>3, <1>4, <1>5, <1>6 DEF Next

\* The window holds the timestamps of the last WindowN blocks, whatever failed
\* and whenever the node restarted (ApplyBlock's timestamp window).
THEOREM WindowAlways == Spec => []WindowIsTail
<1> DEFINE Window == lastTimestamps = LastOf(Stamps(chain), WindowN)
<1>1. WindowIsTail <=> Window
  BY DEF WindowIsTail
<1>2. Init => Window
  <2> SUFFICES ASSUME Init PROVE Window
    OBVIOUS
  <2>1. chain = << >> /\ lastTimestamps = << GenesisTime >>
    BY DEF Init
  <2>2. [h \in DOMAIN << >> |-> << >>[h].timestamp] = << >>
    OBVIOUS
  <2>3. << GenesisTime >> \in Seq(Int) /\ Len(<< GenesisTime >>) = 1
    BY Parameters
  <2>4. << GenesisTime >> \o << >> = << GenesisTime >>
    BY <2>3, ConcatEmptySeq
  <2>5. Stamps(chain) = << GenesisTime >>
    BY <2>1, <2>2, <2>4 DEF Stamps
  <2>6. ~(1 > WindowN)
    BY Parameters
  <2>7. LastOf(<< GenesisTime >>, WindowN) = SubSeq(<< GenesisTime >>, 1, 1)
    BY <2>3, <2>6 DEF LastOf
  <2>8. SubSeq(<< GenesisTime >>, 1, 1) = << GenesisTime >>
    BY <2>3, SubSeqFull
  <2> QED BY <2>1, <2>5, <2>7, <2>8
<1>3. TypeOK /\ Window /\ [Next]_vars => Window'
  <2> SUFFICES ASSUME TypeOK, Window, [Next]_vars PROVE Window'
    OBVIOUS
  <2>1. CASE UNCHANGED << lastTimestamps, chain >>
    BY <2>1
  <2>2. CASE /\ chain' = Append(chain, block)
             /\ lastTimestamps' = Slide(lastTimestamps, block.timestamp, WindowN)
    <3>1. chain \in Seq(Block) /\ block \in Block /\ block.timestamp \in Int
      BY DEF TypeOK, Block
    <3>2. /\ Stamps(chain) \in Seq(Int)
          /\ Stamps(chain') = Append(Stamps(chain), block.timestamp)
      BY <2>2, <3>1, StampsAppend
    <3>3. Slide(LastOf(Stamps(chain), WindowN), block.timestamp, WindowN)
            = LastOf(Append(Stamps(chain), block.timestamp), WindowN)
      BY <3>1, <3>2, WindowSlides, Parameters
    <3> QED BY <2>2, <3>2, <3>3
  <2> QED BY <2>1, <2>2, ChainStep
<1> QED BY <1>1, <1>2, <1>3, InitType, TypeStep, PTL DEF Spec

-----------------------------------------------------------------------------
(* The places of transactions.                                               *)

PlacesOf(blocks) ==
  UNION { { << h, i >> : i \in DOMAIN blocks[h].txs } : h \in DOMAIN blocks }

\* The places of the first n transactions of a block at height h.
FirstOf(h, n) == { << h, i >> : i \in 1 .. n }

\* A place is a height and an index.
LEMMA PlacesType ==
  ASSUME NEW blocks \in Seq(Block), NEW p \in PlacesOf(blocks)
  PROVE  p[1] \in 1 .. Len(blocks) /\ p[2] \in Nat
<1>1. PICK h \in DOMAIN blocks : p \in { << h, i >> : i \in DOMAIN blocks[h].txs }
  BY DEF PlacesOf
<1>2. PICK i \in DOMAIN blocks[h].txs : p = << h, i >>
  BY <1>1
<1>3. h \in 1 .. Len(blocks) /\ blocks[h] \in Block
  OBVIOUS
<1>4. blocks[h].txs \in Seq(Tx)
  BY <1>3 DEF Block
<1>5. i \in Nat
  BY <1>4
<1> QED BY <1>2, <1>3, <1>5

\* A block more.
LEMMA PlacesAppend ==
  ASSUME NEW blocks \in Seq(Block), NEW b \in Block
  PROVE  PlacesOf(Append(blocks, b))
           = PlacesOf(blocks) \union FirstOf(Len(blocks) + 1, Len(b.txs))
<1> DEFINE more == Append(blocks, b)
           n == Len(blocks)
<1>1. /\ n \in Nat /\ DOMAIN blocks = 1 .. n /\ DOMAIN more = (1 .. n) \union {n + 1}
      /\ more[n + 1] = b /\ \A h \in 1 .. n : more[h] = blocks[h]
  OBVIOUS
<1>2. DOMAIN b.txs = 1 .. Len(b.txs)
  BY DEF Block
<1> HIDE DEF more, n
<1>3. PlacesOf(more) = (UNION { { << h, i >> : i \in DOMAIN more[h].txs } : h \in 1 .. n })
                         \union { << n + 1, i >> : i \in DOMAIN more[n + 1].txs }
  BY <1>1 DEF PlacesOf
<1>4. UNION { { << h, i >> : i \in DOMAIN more[h].txs } : h \in 1 .. n } = PlacesOf(blocks)
  BY <1>1 DEF PlacesOf
<1>5. { << n + 1, i >> : i \in DOMAIN more[n + 1].txs } = FirstOf(n + 1, Len(b.txs))
  BY <1>1, <1>2 DEF FirstOf
<1> QED BY <1>3, <1>4, <1>5 DEF more, n

\* The next transaction's place.
LEMMA FirstOfNext ==
  ASSUME NEW h, NEW n \in Nat
  PROVE  /\ FirstOf(h, 0) = {}
         /\ FirstOf(h, n + 1) = FirstOf(h, n) \union {<< h, n + 1 >>}
<1>1. 1 .. n + 1 = (1 .. n) \union {n + 1} /\ 1 .. 0 = {}
  OBVIOUS
<1> QED BY <1>1 DEF FirstOf

\* The places of a pass come after those of the chain.
LEMMA NextPlace ==
  ASSUME NEW blocks \in Seq(Block), NEW n \in Nat
  PROVE  LET P == PlacesOf(blocks) \union FirstOf(Len(blocks) + 1, n)
             p == << Len(blocks) + 1, n + 1 >>
         IN  /\ p \notin P /\ ~Before(p, p)
             /\ \A q \in P : Before(q, p) /\ ~Before(p, q)
<1> DEFINE l == Len(blocks)
           p == << l + 1, n + 1 >>
<1>1. l \in Nat /\ p[1] = l + 1 /\ p[2] = n + 1
  OBVIOUS
<1>2. ~Before(p, p)
  BY <1>1 DEF Before
<1>3. ASSUME NEW q \in PlacesOf(blocks) PROVE Before(q, p) /\ ~Before(p, q)
  <2>1. q[1] \in 1 .. l
    BY PlacesType
  <2> HIDE DEF p, l
  <2> QED BY <1>1, <2>1 DEF Before
<1>4. ASSUME NEW q \in FirstOf(l + 1, n) PROVE Before(q, p) /\ ~Before(p, q)
  <2>1. PICK i \in 1 .. n : q = << l + 1, i >>
    BY DEF FirstOf
  <2>2. q[1] = l + 1 /\ q[2] = i /\ i < n + 1
    BY <2>1
  <2> HIDE DEF p, l
  <2> QED BY <1>1, <2>2 DEF Before
<1>5. \A q \in PlacesOf(blocks) \union FirstOf(l + 1, n) : Before(q, p) /\ ~Before(p, q)
  BY <1>3, <1>4
<1> HIDE DEF p, l
<1>6. p \notin PlacesOf(blocks) \union FirstOf(l + 1, n)
  BY <1>2, <1>5
<1> QED BY <1>2, <1>5, <1>6 DEF p, l

-----------------------------------------------------------------------------
(* The nonces.                                                               *)

\* What the transaction under way does to nonces.
LEMMA ResultNonces ==
  ASSUME TypeOK, InPass, NEW out \in Results(Current)
  PROVE  /\ Current \in Tx
         /\ batch[Current.from].nonce = Current.nonce
         /\ out[Current.from].nonce = Current.nonce + 1
         /\ \A b \in Addr \ {Current.from} : out[b].nonce = batch[b].nonce
<1>1. /\ Current \in Tx /\ EffectiveNow \in Int /\ RatesNat
      /\ batch \in [Addr -> Account]
  BY CurrentType, EffectiveNowType, Parameters DEF TypeOK
<1>2. out \in Execute(batch, Current, EffectiveNow, phase = "preview", engine)
  BY DEF Results
<1> QED BY <1>1, <1>2, ExecuteEffect

\* The transaction at a place, and the places of a sender.
At(blocks, p) == blocks[p[1]].txs[p[2]]
Sent(blocks, P, a) == { p \in P : At(blocks, p).from = a }

\* The nonces of the accounts count the transactions at these places, which use
\* them in order.
InOrder(blocks, P, accts) ==
  /\ IsFiniteSet(P)
  /\ \A a \in Addr :
       /\ accts[a].nonce = Cardinality(Sent(blocks, P, a))
       /\ \A p \in Sent(blocks, P, a) :
            At(blocks, p).nonce = Cardinality({ q \in Sent(blocks, P, a) : Before(q, p) })

\* It depends on the transactions at these places only.
LEMMA InOrderSame ==
  ASSUME NEW blocks, NEW others, NEW P, NEW accts,
         \A p \in P : At(blocks, p) = At(others, p)
  PROVE  InOrder(blocks, P, accts) <=> InOrder(others, P, accts)
<1>1. \A a : Sent(blocks, P, a) = Sent(others, P, a)
  BY DEF Sent
<1>2. \A a : \A p \in Sent(blocks, P, a) : At(blocks, p) = At(others, p)
  BY DEF Sent
<1> QED BY <1>1, <1>2 DEF InOrder

\* One more transaction, after all others, that uses its sender's nonce.
LEMMA InOrderExtends ==
  ASSUME NEW blocks, NEW P, NEW accts, NEW out, InOrder(blocks, P, accts),
         NEW p, p \notin P, ~Before(p, p),
         \A q \in P : Before(q, p) /\ ~Before(p, q),
         At(blocks, p).from \in Addr,
         accts[At(blocks, p).from].nonce = At(blocks, p).nonce,
         out[At(blocks, p).from].nonce = At(blocks, p).nonce + 1,
         \A b \in Addr \ {At(blocks, p).from} : out[b].nonce = accts[b].nonce
  PROVE  InOrder(blocks, P \union {p}, out)
<1> DEFINE Q == P \union {p}
           tx == At(blocks, p)
<1>1. IsFiniteSet(P) /\ IsFiniteSet(Q)
  BY FS_AddElement DEF InOrder
<1>2. ASSUME NEW a \in Addr
      PROVE  /\ Sent(blocks, Q, a) = Sent(blocks, P, a) \union (IF tx.from = a THEN {p} ELSE {})
             /\ p \notin Sent(blocks, P, a)
             /\ IsFiniteSet(Sent(blocks, P, a))
  <2>1. Sent(blocks, P, a) \in SUBSET P
    BY DEF Sent
  <2>2. IsFiniteSet(Sent(blocks, P, a))
    BY <1>1, <2>1, FS_Subset
  <2> QED BY <2>2 DEF Sent
<1>3. ASSUME NEW a \in Addr
      PROVE  out[a].nonce = Cardinality(Sent(blocks, Q, a))
  <2>1. accts[a].nonce = Cardinality(Sent(blocks, P, a))
    BY DEF InOrder
  <2>2. CASE tx.from = a
    <3>1. Sent(blocks, Q, a) = Sent(blocks, P, a) \union {p}
      BY <1>2, <2>2
    <3>2. Cardinality(Sent(blocks, P, a) \union {p}) = Cardinality(Sent(blocks, P, a)) + 1
      BY <1>2, FS_AddElement
    <3> QED BY <2>1, <2>2, <3>1, <3>2
  <2>3. CASE tx.from # a
    <3>1. Sent(blocks, Q, a) = Sent(blocks, P, a)
      BY <1>2, <2>3
    <3> QED BY <2>1, <2>3, <3>1
  <2> QED BY <2>2, <2>3
<1>4. ASSUME NEW a \in Addr, NEW r \in Sent(blocks, Q, a)
      PROVE  At(blocks, r).nonce = Cardinality({ q \in Sent(blocks, Q, a) : Before(q, r) })
  <2>1. CASE r = p
    <3>1. tx.from = a
      BY <2>1 DEF Sent
    <3>2. { q \in Sent(blocks, Q, a) : Before(q, r) } = Sent(blocks, P, a)
      <4>1. Sent(blocks, Q, a) = Sent(blocks, P, a) \union {p}
        BY <1>2, <3>1
      <4>2. \A q \in Sent(blocks, P, a) : Before(q, p)
        BY DEF Sent
      <4> HIDE DEF Q
      <4> QED BY <2>1, <4>1, <4>2
    <3>3. accts[a].nonce = Cardinality(Sent(blocks, P, a))
      BY DEF InOrder
    <3> QED BY <2>1, <3>1, <3>2, <3>3
  <2>2. CASE r # p
    <3>1. r \in Sent(blocks, P, a)
      BY <2>2 DEF Sent
    <3>2. { q \in Sent(blocks, Q, a) : Before(q, r) }
            = { q \in Sent(blocks, P, a) : Before(q, r) }
      <4>1. r \in P /\ ~Before(p, r)
        BY <3>1 DEF Sent
      <4>2. \A q \in Sent(blocks, Q, a) : q = p \/ q \in Sent(blocks, P, a)
        BY <1>2
      <4>3. \A q \in Sent(blocks, P, a) : q \in Sent(blocks, Q, a)
        BY <1>2
      <4> HIDE DEF Q
      <4> QED BY <4>1, <4>2, <4>3
    <3>3. At(blocks, r).nonce = Cardinality({ q \in Sent(blocks, P, a) : Before(q, r) })
      BY <3>1 DEF InOrder
    <3> QED BY <3>2, <3>3
  <2> QED BY <2>1, <2>2
<1> QED BY <1>1, <1>3, <1>4 DEF InOrder

\* The places of a pass: those of the chain and those already executed.
PassPlaces == PlacesOf(chain) \union FirstOf(Len(chain) + 1, pos - 1)

\* As long as the node has not restarted, the nonces count the transactions, in
\* the store and in the middle of a pass.
Counted ==
  restarts = 0 =>
    /\ InOrder(chain, PlacesOf(chain), accounts)
    /\ InOrder(Append(chain, block), PassPlaces, batch)

\* A longer chain has the same transactions at its old places, and the block
\* under way at the new ones.
LEMMA AtAppend ==
  ASSUME NEW blocks \in Seq(Block), NEW b \in Block
  PROVE  /\ \A p \in PlacesOf(blocks) : At(blocks, p) = At(Append(blocks, b), p)
         /\ \A i : At(Append(blocks, b), << Len(blocks) + 1, i >>) = b.txs[i]
<1> DEFINE n == Len(blocks)
           more == Append(blocks, b)
<1>1. more[n + 1] = b /\ \A h \in 1 .. n : more[h] = blocks[h]
  OBVIOUS
<1>2. \A p \in PlacesOf(blocks) : p[1] \in 1 .. n
  BY PlacesType
<1> HIDE DEF n, more
<1>3. \A p \in PlacesOf(blocks) : At(blocks, p) = At(more, p)
  BY <1>1, <1>2 DEF At
<1>4. ASSUME NEW i PROVE At(more, << n + 1, i >>) = b.txs[i]
  BY <1>1 DEF At
<1> QED BY <1>3, <1>4 DEF n, more

\* A pass that starts, and the idle state, see the stored accounts.
LEMMA CountedAnew ==
  ASSUME TypeOK', InOrder(chain, PlacesOf(chain), accounts)',
         batch' = accounts', pos' = 1
  PROVE  Counted'
<1>1. chain' \in Seq(Block) /\ block' \in Block
  BY DEF TypeOK
<1>2. PassPlaces' = PlacesOf(chain')
  <2>1. pos' - 1 = 0
    OBVIOUS
  <2>2. FirstOf(Len(chain') + 1, 0) = {}
    BY FirstOfNext
  <2> QED BY <2>1, <2>2 DEF PassPlaces
<1>3. \A p \in PlacesOf(chain') : At(chain', p) = At(Append(chain', block'), p)
  BY <1>1, AtAppend
<1>4. InOrder(chain', PlacesOf(chain'), accounts')
        <=> InOrder(Append(chain', block'), PlacesOf(chain'), accounts')
  BY <1>3, InOrderSame
<1> QED BY <1>2, <1>4 DEF Counted

\* A transaction of a pass.
LEMMA CountedTx ==
  ASSUME TypeOK, Counted, ExecuteTx
  PROVE  Counted'
<1>1. /\ InPass /\ batch' \in Results(Current) /\ pos' = pos + 1
      /\ UNCHANGED << accounts, chain, block, restarts >>
  BY DEF ExecuteTx, stored
<1> SUFFICES ASSUME restarts = 0 PROVE InOrder(Append(chain, block), PassPlaces, batch)'
  BY <1>1 DEF Counted
<1>2. chain \in Seq(Block) /\ block \in Block
  BY DEF TypeOK
<1>3. PICK n \in Nat : n = pos - 1
  BY DEF TypeOK
<1>4. pos = n + 1 /\ pos' - 1 = n + 1
  BY <1>1, <1>3 DEF TypeOK
<1> DEFINE blocks == Append(chain, block)
           h == Len(chain) + 1
           p == << h, n + 1 >>
           P == PlacesOf(chain) \union FirstOf(h, n)
<1>5. InOrder(blocks, P, batch)
  BY <1>3 DEF Counted, PassPlaces
<1>6. At(blocks, p) = Current
  BY <1>2, <1>4, AtAppend DEF Current
<1>7. /\ p \notin P /\ ~Before(p, p)
      /\ \A q \in P : Before(q, p) /\ ~Before(p, q)
  BY <1>2, NextPlace
<1>8. /\ Current.from \in Addr /\ batch[Current.from].nonce = Current.nonce
      /\ batch'[Current.from].nonce = Current.nonce + 1
      /\ \A b \in Addr \ {Current.from} : batch'[b].nonce = batch[b].nonce
  BY <1>1, ResultNonces DEF Tx
<1>9. InOrder(blocks, P \union {p}, batch')
  <2> HIDE DEF blocks, P, p
  <2> QED BY <1>5, <1>6, <1>7, <1>8, InOrderExtends
<1>10. PassPlaces' = P \union {p}
  <2>1. FirstOf(h, n + 1) = FirstOf(h, n) \union {p}
    BY FirstOfNext
  <2> HIDE DEF p
  <2> QED BY <1>1, <1>4, <2>1 DEF PassPlaces
<1> QED BY <1>1, <1>9, <1>10

\* Every step keeps the count of the transactions of each sender.
LEMMA CountedStep == TypeOK /\ PassOK /\ Counted /\ [Next]_vars => Counted'
<1> SUFFICES ASSUME TypeOK, PassOK, Counted, [Next]_vars, restarts' = 0 PROVE Counted'
  BY DEF Counted
<1>1. TypeOK'
  BY TypeStep
<1>2. ASSUME UNCHANGED << accounts, chain, restarts >>, batch' = accounts', pos' = 1
      PROVE  Counted'
  <2>1. InOrder(chain, PlacesOf(chain), accounts)'
    BY <1>2 DEF Counted
  <2> QED BY <1>1, <1>2, <2>1, CountedAnew
<1>3. ASSUME NEW txs \in TxLists, NEW t \in Times, Begin(txs, t) PROVE Counted'
  BY <1>2, <1>3 DEF Begin, stored
<1>4. CASE ExecuteTx
  BY <1>4, CountedTx
<1>5. CASE TxFails \/ DeployFails \/ PreviewOnly
  BY <1>2, <1>5 DEF TxFails, DeployFails, PreviewOnly, Abandon, Return, stored
<1>6. CASE DeployPanics \/ Restart
  <2>1. restarts' = restarts + 1 /\ restarts \in Nat
    BY <1>6 DEF DeployPanics, Restart, Reboot, TypeOK
  <2> QED BY <2>1
<1>7. CASE StartApply
  BY <1>2, <1>7 DEF StartApply, stored
<1>8. CASE EndApply
  <2>1. /\ PassDone /\ phase = "apply" /\ batch = expected
        /\ restarts = 0
    BY <1>8, PassEnds DEF EndApply
  <2>2. /\ accounts' = batch /\ chain' = Append(chain, block)
        /\ batch' = accounts' /\ pos' = 1
    BY <1>8, <2>1 DEF EndApply, Return
  <2>3. pos - 1 = Len(block.txs)
    BY <2>1 DEF PassDone, PassOK, TypeOK, Block
  <2>4. chain \in Seq(Block) /\ block \in Block
    BY DEF TypeOK
  <2>5. PlacesOf(chain') = PassPlaces
    BY <2>2, <2>3, <2>4, PlacesAppend DEF PassPlaces
  <2>6. InOrder(chain, PlacesOf(chain), accounts)'
    BY <2>1, <2>2, <2>5 DEF Counted
  <2> QED BY <1>1, <2>2, <2>6, CountedAnew
<1>9. CASE UNCHANGED vars
  BY <1>9 DEF vars, pass, stored, Counted, PassPlaces
<1> QED BY <1>3, <1>4, <1>5, <1>6, <1>7, <1>8, <1>9 DEF Next

\* No transaction is counted at genesis.
LEMMA InitCounted == Init => Counted
<1> SUFFICES ASSUME Init PROVE Counted
  OBVIOUS
<1>1. /\ chain = << >> /\ accounts = FreshAccounts /\ batch = accounts /\ pos = 1
      /\ TypeOK
  BY InitType DEF Init
<1>2. PlacesOf(chain) = {}
  BY <1>1 DEF PlacesOf
<1>3. PassPlaces = {}
  <2>1. pos - 1 = 0 /\ FirstOf(Len(chain) + 1, 0) = {}
    BY <1>1, FirstOfNext
  <2> QED BY <1>2, <2>1 DEF PassPlaces
<1>4. \A a \in Addr : FreshAccounts[a].nonce = 0
  BY DEF FreshAccounts, ApplyGenesis, ZeroAccount
<1>5. ASSUME NEW blocks PROVE InOrder(blocks, {}, FreshAccounts)
  <2>1. \A a : Sent(blocks, {}, a) = {}
    BY DEF Sent
  <2> QED BY <1>4, <2>1, FS_EmptySet DEF InOrder
<1> QED BY <1>1, <1>2, <1>3, <1>5 DEF Counted

\* Nothing is replayed or skipped before a restart: nonces are used once and in
\* order, whatever mix of previews, failed blocks and commits ran (the nonce
\* check of applyTransactionWithKV).
THEOREM NoncesAlways == Spec => []NoncesInOrder
<1>1. Counted => NoncesInOrder
  <2> SUFFICES ASSUME Counted, restarts = 0, NEW a \in Addr
               PROVE  /\ accounts[a].nonce = Cardinality(SentBy(a))
                      /\ \A p \in SentBy(a) :
                           TxAt(p).nonce
                             = Cardinality({ q \in SentBy(a) : Before(q, p) })
    BY DEF NoncesInOrder
  <2>1. Committed = PlacesOf(chain) /\ \A p : TxAt(p) = At(chain, p)
    BY DEF Committed, PlacesOf, TxAt, At
  <2>2. SentBy(a) = Sent(chain, PlacesOf(chain), a)
    BY <2>1 DEF SentBy, Sent
  <2> QED BY <2>1, <2>2 DEF Counted, InOrder
<1> QED BY <1>1, InitType, TypeStep, InitPass, PassStep, InitCounted, CountedStep,
           PTL DEF Spec

-----------------------------------------------------------------------------
(* The tokens.                                                               *)

\* What each account holds.
Holdings(accts) == [a \in Addr |-> accts[a].balance + accts[a].stake]

\* The places where an account pays itself, and what it pays there.
OwnTransfer(tx) == tx.kind = "transfer" /\ tx.from = tx.to
Own(blocks, P) == { p \in P : OwnTransfer(At(blocks, p)) }
Paid(blocks, S) == [p \in S |-> At(blocks, p).amount]

\* The supply burned is the sum of what accounts sent to themselves.
LEMMA BurnedIsPaid ==
  ASSUME NEW blocks, NEW P
  PROVE  Burned(blocks, P) = Total(Paid(blocks, Own(blocks, P)), Own(blocks, P))
BY DEF Burned, Paid, Own, OwnTransfer, At

\* What is held is a natural number, and no two accounts hold more than there is.
LEMMA HoldingsBound ==
  ASSUME IsFiniteSet(Addr), NEW accts \in [Addr -> Account]
  PROVE  /\ \A a \in Addr : Holdings(accts)[a] = Worth(accts[a])
                            /\ Holdings(accts)[a] \in Nat
         /\ Supply(accts) \in Nat
         /\ \A a \in Addr : Worth(accts[a]) <= Supply(accts)
         /\ \A a, b \in Addr : a # b =>
              Worth(accts[a]) + Worth(accts[b]) <= Supply(accts)
<1> DEFINE f == Holdings(accts)
<1>1. \A a \in Addr : f[a] = Worth(accts[a]) /\ f[a] \in Nat
  BY WorthType DEF Holdings, Worth
<1>2. Supply(accts) = Total(f, Addr)
  BY DEF Supply, Holdings
<1> HIDE DEF f
<1>3. Supply(accts) \in Nat
  BY <1>1, <1>2, TotalNat
<1>4. ASSUME NEW a \in Addr
      PROVE  /\ Supply(accts) = Total(f, Addr \ {a}) + f[a]
             /\ Total(f, Addr \ {a}) \in Nat
  BY <1>1, <1>2, TotalWithout
<1>5. ASSUME NEW a \in Addr PROVE Worth(accts[a]) <= Supply(accts)
  <2>1. f[a] = Worth(accts[a]) /\ f[a] \in Nat
    BY <1>1
  <2>2. Supply(accts) = Total(f, Addr \ {a}) + f[a] /\ Total(f, Addr \ {a}) \in Nat
    BY <1>4
  <2> QED BY <2>1, <2>2
<1>6. ASSUME NEW a \in Addr, NEW b \in Addr, a # b
      PROVE  Worth(accts[a]) + Worth(accts[b]) <= Supply(accts)
  <2> DEFINE R == Addr \ {a}
  <2>1. IsFiniteSet(R) /\ b \in R /\ \A c \in R : f[c] \in Nat
    BY <1>1, <1>6, FS_Subset
  <2>2. Supply(accts) = Total(f, R) + f[a]
    BY <1>4
  <2> HIDE DEF R
  <2>3. Total(f, R) = Total(f, R \ {b}) + f[b] /\ Total(f, R \ {b}) \in Nat
    BY <2>1, TotalWithout
  <2>4. f[a] = Worth(accts[a]) /\ f[b] = Worth(accts[b])
        /\ f[a] \in Nat /\ f[b] \in Nat
    BY <1>1
  <2> QED BY <2>2, <2>3, <2>4
<1> QED BY <1>1, <1>3, <1>5, <1>6 DEF f

\* A transaction keeps the supply, unless its sender pays itself.
LEMMA ExecuteSupply ==
  ASSUME RatesNat, IsFiniteSet(Addr), NEW accts \in [Addr -> Account], NEW tx \in Tx,
         NEW now \in Int, NEW preview, NEW engines,
         NEW out \in Execute(accts, tx, now, preview, engines), Supply(accts) < U64
  PROVE  Supply(out) = Supply(accts) - (IF OwnTransfer(tx) THEN tx.amount ELSE 0)
<1> DEFINE f == Holdings(accts)
           g == Holdings(out)
<1>1. tx.from \in Addr /\ tx.to \in Addr /\ tx.amount \in Nat
  BY DEF Tx
<1>2. out \in [Addr -> Account]
  BY ExecuteEffect
<1>3. /\ \A a \in Addr : f[a] = Worth(accts[a]) /\ f[a] \in Nat
      /\ \A a \in Addr : g[a] = Worth(out[a]) /\ g[a] \in Nat
      /\ Supply(accts) \in Nat /\ Supply(out) \in Nat
  BY <1>2, HoldingsBound
<1>4. Supply(accts) = Total(f, Addr) /\ Supply(out) = Total(g, Addr)
  BY DEF Supply, Holdings
<1>5. U64 \in Nat
  BY TransactionsAssumption
<1>6. \A a \in Addr : Worth(accts[a]) < U64
  <2> TAKE a \in Addr
  <2>1. Worth(accts[a]) <= Supply(accts) /\ Worth(accts[a]) \in Nat
    BY <1>3, HoldingsBound
  <2> QED BY <1>3, <1>5, <2>1
<1>7. tx.to # tx.from => Worth(accts[tx.from]) + Worth(accts[tx.to]) < U64
  <2> SUFFICES ASSUME tx.to # tx.from
               PROVE  Worth(accts[tx.from]) + Worth(accts[tx.to]) < U64
    OBVIOUS
  <2>1. Worth(accts[tx.from]) + Worth(accts[tx.to]) <= Supply(accts)
    BY <1>1, HoldingsBound
  <2>2. Worth(accts[tx.from]) \in Nat /\ Worth(accts[tx.to]) \in Nat
    BY <1>1, <1>3
  <2> QED BY <1>3, <1>5, <2>1, <2>2
<1>8. /\ tx.kind # "transfer" => \A b \in Addr : Worth(out[b]) = Worth(accts[b])
      /\ tx.kind = "transfer" =>
           /\ Worth(out[tx.from]) = Worth(accts[tx.from]) - tx.amount
           /\ tx.to # tx.from => Worth(out[tx.to]) = Worth(accts[tx.to]) + tx.amount
           /\ \A b \in Addr \ {tx.from, tx.to} : Worth(out[b]) = Worth(accts[b])
  BY <1>6, <1>7, ExecuteWorth
<1> HIDE DEF f, g
<1>9. CASE tx.kind # "transfer"
  <2>1. \A b \in Addr : g[b] = f[b]
    BY <1>3, <1>8, <1>9
  <2>2. Total(g, Addr) = Total(f, Addr)
    BY <2>1, TotalSame
  <2> QED BY <1>3, <1>4, <1>9, <2>2 DEF OwnTransfer
<1>10. CASE tx.kind = "transfer" /\ tx.to = tx.from
  <2>1. g[tx.from] = f[tx.from] - tx.amount /\ \A b \in Addr \ {tx.from} : g[b] = f[b]
    BY <1>1, <1>3, <1>8, <1>10
  <2>2. Total(g, Addr) = Total(f, Addr) - f[tx.from] + g[tx.from]
    BY <1>1, <1>3, <2>1, TotalPoint
  <2>3. f[tx.from] \in Nat /\ g[tx.from] \in Nat
    BY <1>1, <1>3
  <2>4. Supply(out) = Supply(accts) - tx.amount
    BY <1>1, <1>3, <1>4, <2>1, <2>2, <2>3
  <2> QED BY <1>10, <2>4 DEF OwnTransfer
<1>11. CASE tx.kind = "transfer" /\ tx.to # tx.from
  <2> DEFINE h == [a \in Addr |-> IF a = tx.from THEN g[a] ELSE f[a]]
  <2>1. /\ g[tx.from] = f[tx.from] - tx.amount /\ g[tx.to] = f[tx.to] + tx.amount
        /\ \A b \in Addr \ {tx.from, tx.to} : g[b] = f[b]
    BY <1>1, <1>3, <1>8, <1>11
  <2>2. /\ \A a \in Addr : h[a] \in Nat
        /\ h[tx.from] = g[tx.from] /\ h[tx.to] = f[tx.to]
        /\ \A b \in Addr \ {tx.from} : h[b] = f[b]
        /\ \A b \in Addr \ {tx.to} : g[b] = h[b]
    BY <1>1, <1>3, <1>11, <2>1
  <2> HIDE DEF h
  <2>3. Total(h, Addr) = Total(f, Addr) - f[tx.from] + h[tx.from]
    BY <1>1, <1>3, <2>2, TotalPoint
  <2>4. Total(g, Addr) = Total(h, Addr) - h[tx.to] + g[tx.to]
    BY <1>1, <1>3, <2>2, TotalPoint
  <2>5. f[tx.from] \in Nat /\ f[tx.to] \in Nat
    BY <1>1, <1>3
  <2>6. Supply(out) = Supply(accts)
    BY <1>1, <1>3, <1>4, <2>1, <2>2, <2>3, <2>4, <2>5
  <2> QED BY <1>3, <1>11, <2>6 DEF OwnTransfer
<1> QED BY <1>9, <1>10, <1>11

\* Every token of genesis is held by an account or was paid by one to itself at
\* these places.
Balanced(blocks, P, accts) ==
  /\ IsFiniteSet(P)
  /\ \A p \in P : At(blocks, p).amount \in Nat
  /\ Supply(accts) + Burned(blocks, P) = GenesisSupply

\* It depends on the transactions at these places only.
LEMMA BalancedSame ==
  ASSUME NEW blocks, NEW others, NEW P, NEW accts,
         \A p \in P : At(blocks, p) = At(others, p)
  PROVE  Balanced(blocks, P, accts) <=> Balanced(others, P, accts)
<1>1. Own(blocks, P) = Own(others, P)
  BY DEF Own
<1>2. Paid(blocks, Own(blocks, P)) = Paid(others, Own(others, P))
  BY <1>1 DEF Paid, Own
<1>3. Burned(blocks, P) = Burned(others, P)
  BY <1>1, <1>2, BurnedIsPaid
<1> QED BY <1>3 DEF Balanced

\* One more transaction.
LEMMA BurnedMore ==
  ASSUME NEW blocks, NEW P, IsFiniteSet(P), NEW p, p \notin P,
         \A q \in P \union {p} : At(blocks, q).amount \in Nat
  PROVE  /\ Burned(blocks, P) \in Nat
         /\ Burned(blocks, P \union {p})
              = Burned(blocks, P)
                + (IF OwnTransfer(At(blocks, p)) THEN At(blocks, p).amount ELSE 0)
<1> DEFINE Q == P \union {p}
           O == Own(blocks, P)
           R == Own(blocks, Q)
           f == Paid(blocks, O)
           g == Paid(blocks, R)
<1>1. IsFiniteSet(O) /\ O \subseteq P /\ p \notin O
  <2>1. O \in SUBSET P
    BY DEF Own
  <2> HIDE DEF O
  <2> QED BY <2>1, FS_Subset
<1>2. R = O \union (IF OwnTransfer(At(blocks, p)) THEN {p} ELSE {})
  BY DEF Own
<1>3. /\ \A q \in O : f[q] = At(blocks, q).amount /\ f[q] \in Nat
      /\ \A q \in R : g[q] = At(blocks, q).amount /\ g[q] \in Nat
  BY DEF Paid, Own
<1>4. Burned(blocks, P) = Total(f, O) /\ Burned(blocks, Q) = Total(g, R)
  BY BurnedIsPaid
<1> HIDE DEF O, R, f, g, Q
<1>5. Total(f, O) \in Nat
  BY <1>1, <1>3, TotalNat
<1>6. Total(g, O) = Total(f, O)
  <2>1. \A q \in O : g[q] = f[q]
    BY <1>2, <1>3
  <2> QED BY <2>1, TotalSame
<1>7. CASE OwnTransfer(At(blocks, p))
  <2>1. R = O \union {p} /\ g[p] = At(blocks, p).amount
    BY <1>2, <1>3, <1>7
  <2>2. \A q \in O \union {p} : g[q] \in Nat
    BY <1>3, <2>1
  <2>3. Total(g, O \union {p}) = Total(g, O) + g[p]
    BY <1>1, <2>2, TotalAdd
  <2> QED BY <1>4, <1>5, <1>6, <1>7, <2>1, <2>3 DEF Q
<1>8. CASE ~OwnTransfer(At(blocks, p))
  <2>1. R = O
    BY <1>2, <1>8
  <2> QED BY <1>4, <1>5, <1>6, <1>8, <2>1 DEF Q
<1> QED BY <1>7, <1>8

\* One more executed transaction keeps supply and burned amounts in balance.
LEMMA BalancedExtends ==
  ASSUME RatesNat, IsFiniteSet(Addr), GenesisSupply < U64,
         NEW blocks, NEW P, NEW accts \in [Addr -> Account], Balanced(blocks, P, accts),
         NEW p, p \notin P, At(blocks, p) \in Tx,
         NEW now \in Int, NEW preview, NEW engines,
         NEW out \in Execute(accts, At(blocks, p), now, preview, engines)
  PROVE  Balanced(blocks, P \union {p}, out)
<1> DEFINE tx == At(blocks, p)
           Q == P \union {p}
           lost == IF OwnTransfer(tx) THEN tx.amount ELSE 0
<1>1. tx.amount \in Nat /\ lost \in Nat
  BY DEF Tx
<1>2. IsFiniteSet(P) /\ IsFiniteSet(Q) /\ \A q \in Q : At(blocks, q).amount \in Nat
  BY <1>1, FS_AddElement DEF Balanced
<1>3. Burned(blocks, P) \in Nat /\ Burned(blocks, Q) = Burned(blocks, P) + lost
  BY <1>2, BurnedMore
<1>4. Supply(accts) \in Nat /\ U64 \in Nat
  BY HoldingsBound, TransactionsAssumption
<1>5. Supply(accts) + Burned(blocks, P) = GenesisSupply
  BY DEF Balanced
<1>6. Supply(accts) < U64
  BY <1>3, <1>4, <1>5
<1>7. Supply(out) = Supply(accts) - lost
  <2> HIDE DEF tx
  <2>1. tx \in Tx /\ out \in Execute(accts, tx, now, preview, engines)
    BY DEF tx
  <2> QED BY <1>6, <2>1, ExecuteSupply
<1> HIDE DEF lost, Q
<1>8. Supply(out) + Burned(blocks, Q) = GenesisSupply
  BY <1>1, <1>3, <1>4, <1>5, <1>7
<1>9. Balanced(blocks, Q, out)
  BY <1>2, <1>8 DEF Balanced
<1> QED BY <1>9 DEF Q

\* As long as the node has not restarted, the tokens are accounted for, in the
\* store and in the middle of a pass.
Solvent ==
  restarts = 0 =>
    /\ Balanced(chain, PlacesOf(chain), accounts)
    /\ Balanced(Append(chain, block), PassPlaces, batch)

\* The balance when a pass starts from the committed accounts.
LEMMA SolventAnew ==
  ASSUME TypeOK', Balanced(chain, PlacesOf(chain), accounts)',
         batch' = accounts', pos' = 1
  PROVE  Solvent'
<1>1. chain' \in Seq(Block) /\ block' \in Block
  BY DEF TypeOK
<1>2. PassPlaces' = PlacesOf(chain')
  <2>1. pos' - 1 = 0
    OBVIOUS
  <2>2. FirstOf(Len(chain') + 1, 0) = {}
    BY FirstOfNext
  <2> QED BY <2>1, <2>2 DEF PassPlaces
<1>3. \A p \in PlacesOf(chain') : At(chain', p) = At(Append(chain', block'), p)
  BY <1>1, AtAppend
<1>4. Balanced(chain', PlacesOf(chain'), accounts')
        <=> Balanced(Append(chain', block'), PlacesOf(chain'), accounts')
  BY <1>3, BalancedSame
<1> QED BY <1>2, <1>4 DEF Solvent

\* The balance after a transaction of a pass.
LEMMA SolventTx ==
  ASSUME IsFiniteSet(Addr), GenesisSupply < U64, TypeOK, Solvent, ExecuteTx
  PROVE  Solvent'
<1>1. /\ InPass /\ batch' \in Results(Current) /\ pos' = pos + 1
      /\ UNCHANGED << accounts, chain, block, restarts >>
  BY DEF ExecuteTx, stored
<1> SUFFICES ASSUME restarts = 0 PROVE Balanced(Append(chain, block), PassPlaces, batch)'
  BY <1>1 DEF Solvent
<1>2. chain \in Seq(Block) /\ block \in Block
  BY DEF TypeOK
<1>3. PICK n \in Nat : n = pos - 1
  BY DEF TypeOK
<1>4. pos = n + 1 /\ pos' - 1 = n + 1
  BY <1>1, <1>3 DEF TypeOK
<1> DEFINE blocks == Append(chain, block)
           h == Len(chain) + 1
           p == << h, n + 1 >>
           P == PlacesOf(chain) \union FirstOf(h, n)
<1>5. Balanced(blocks, P, batch)
  BY <1>3 DEF Solvent, PassPlaces
<1>6. At(blocks, p) = Current
  BY <1>2, <1>4, AtAppend DEF Current
<1>7. p \notin P
  BY <1>2, NextPlace
<1>8. /\ Current \in Tx /\ EffectiveNow \in Int /\ RatesNat
      /\ batch \in [Addr -> Account]
  BY <1>1, CurrentType, EffectiveNowType, Parameters DEF TypeOK
<1>9. PICK preview : preview = (phase = "preview")
  OBVIOUS
<1>10. batch' \in Execute(batch, Current, EffectiveNow, preview, engine)
  BY <1>1, <1>9 DEF Results
<1>11. Balanced(blocks, P \union {p}, batch')
  <2> HIDE DEF blocks, P, p
  <2>1. At(blocks, p) \in Tx
        /\ batch' \in Execute(batch, At(blocks, p), EffectiveNow, preview, engine)
    BY <1>6, <1>8, <1>10
  <2> QED BY <1>5, <1>7, <1>8, <2>1, BalancedExtends
<1>12. PassPlaces' = P \union {p}
  <2>1. FirstOf(h, n + 1) = FirstOf(h, n) \union {p}
    BY FirstOfNext
  <2> HIDE DEF p
  <2> QED BY <1>1, <1>4, <2>1 DEF PassPlaces
<1> QED BY <1>1, <1>11, <1>12

\* Every step keeps the balance.
LEMMA SolventStep ==
  ASSUME IsFiniteSet(Addr), GenesisSupply < U64
  PROVE  TypeOK /\ PassOK /\ Solvent /\ [Next]_vars => Solvent'
<1> SUFFICES ASSUME TypeOK, PassOK, Solvent, [Next]_vars, restarts' = 0 PROVE Solvent'
  BY DEF Solvent
<1>1. TypeOK'
  BY TypeStep
<1>2. ASSUME UNCHANGED << accounts, chain, restarts >>, batch' = accounts', pos' = 1
      PROVE  Solvent'
  <2>1. Balanced(chain, PlacesOf(chain), accounts)'
    BY <1>2 DEF Solvent
  <2> QED BY <1>1, <1>2, <2>1, SolventAnew
<1>3. ASSUME NEW txs \in TxLists, NEW t \in Times, Begin(txs, t) PROVE Solvent'
  BY <1>2, <1>3 DEF Begin, stored
<1>4. CASE ExecuteTx
  BY <1>4, SolventTx
<1>5. CASE TxFails \/ DeployFails \/ PreviewOnly
  BY <1>2, <1>5 DEF TxFails, DeployFails, PreviewOnly, Abandon, Return, stored
<1>6. CASE DeployPanics \/ Restart
  <2>1. restarts' = restarts + 1 /\ restarts \in Nat
    BY <1>6 DEF DeployPanics, Restart, Reboot, TypeOK
  <2> QED BY <2>1
<1>7. CASE StartApply
  BY <1>2, <1>7 DEF StartApply, stored
<1>8. CASE EndApply
  <2>1. /\ PassDone /\ phase = "apply" /\ batch = expected
        /\ restarts = 0
    BY <1>8, PassEnds DEF EndApply
  <2>2. /\ accounts' = batch /\ chain' = Append(chain, block)
        /\ batch' = accounts' /\ pos' = 1
    BY <1>8, <2>1 DEF EndApply, Return
  <2>3. pos - 1 = Len(block.txs)
    BY <2>1 DEF PassDone, PassOK, TypeOK, Block
  <2>4. chain \in Seq(Block) /\ block \in Block
    BY DEF TypeOK
  <2>5. PlacesOf(chain') = PassPlaces
    BY <2>2, <2>3, <2>4, PlacesAppend DEF PassPlaces
  <2>6. Balanced(chain, PlacesOf(chain), accounts)'
    BY <2>1, <2>2, <2>5 DEF Solvent
  <2> QED BY <1>1, <2>2, <2>6, SolventAnew
<1>9. CASE UNCHANGED vars
  BY <1>9 DEF vars, pass, stored, Solvent, PassPlaces
<1> QED BY <1>3, <1>4, <1>5, <1>6, <1>7, <1>8, <1>9 DEF Next

\* The balance at genesis, where no transfer was made.
LEMMA InitSolvent == IsFiniteSet(Addr) /\ Init => Solvent
<1> SUFFICES ASSUME IsFiniteSet(Addr), Init PROVE Solvent
  OBVIOUS
<1>1. /\ chain = << >> /\ accounts = FreshAccounts /\ batch = accounts /\ pos = 1
      /\ TypeOK
  BY InitType DEF Init
<1>2. PlacesOf(chain) = {}
  BY <1>1 DEF PlacesOf
<1>3. PassPlaces = {}
  <2>1. pos - 1 = 0 /\ FirstOf(Len(chain) + 1, 0) = {}
    BY <1>1, FirstOfNext
  <2> QED BY <1>2, <2>1 DEF PassPlaces
<1>4. Supply(FreshAccounts) \in Nat
  BY FreshType, Parameters, HoldingsBound
<1>5. ASSUME NEW blocks PROVE Balanced(blocks, {}, FreshAccounts)
  <2>1. Own(blocks, {}) = {}
    BY DEF Own
  <2>2. Burned(blocks, {}) = 0
    BY <2>1, BurnedIsPaid, TotalEmpty
  <2> QED BY <1>4, <2>2, FS_EmptySet DEF Balanced, GenesisSupply
<1> QED BY <1>1, <1>2, <1>3, <1>5 DEF Solvent

\* No sequence of blocks mints, and what vanishes is what accounts paid to
\* themselves (applyTransactionWithKV), provided the tokens of genesis fit the
\* machine word; then no balance and no stake ever wraps.
THEOREM SupplyAlways ==
  ASSUME IsFiniteSet(Addr), GenesisSupply < U64
  PROVE  Spec => []SupplyAccounted
<1>1. TypeOK /\ Solvent => SupplyAccounted
  <2> SUFFICES ASSUME TypeOK, Solvent, restarts = 0
               PROVE  /\ Supply(accounts) + Burned(chain, Committed) = GenesisSupply
                      /\ Supply(batch)
                           + Burned(Append(chain, block),
                                    Committed \union { << Len(chain) + 1, i >> :
                                                         i \in 1 .. (pos - 1) })
                           = GenesisSupply
    BY DEF SupplyAccounted
  <2>1. Committed = PlacesOf(chain)
    BY DEF Committed, PlacesOf
  <2>2. PassPlaces = Committed \union { << Len(chain) + 1, i >> : i \in 1 .. (pos - 1) }
    BY <2>1 DEF PassPlaces, FirstOf
  <2> QED BY <2>1, <2>2 DEF Solvent, Balanced
<1>2. Init => Solvent
  BY InitSolvent
<1>3. TypeOK /\ PassOK /\ Solvent /\ [Next]_vars => Solvent'
  BY SolventStep
<1> QED BY <1>1, <1>2, <1>3, InitType, TypeStep, InitPass, PassStep, PTL DEF Spec

-----------------------------------------------------------------------------
(* The effective clock.                                                      *)

\* The last elements of a sequence are a sequence.
LEMMA LastOfType ==
  ASSUME NEW all \in Seq(Int), NEW w \in Nat \ {0}
  PROVE  LastOf(all, w) \in Seq(Int)
<1> DEFINE n == Len(all)
           first == IF n > w THEN n - w + 1 ELSE 1
<1>1. n \in Nat /\ first \in 1 .. n + 1 /\ \A i \in first .. n : all[i] \in Int
  OBVIOUS
<1>2. LastOf(all, w) = SubSeq(all, first, n)
  BY DEF LastOf
<1> HIDE DEF n, first
<1> QED BY <1>1, <1>2, SubSeqProperties

\* The start of a sequence, also of a longer one.
LEMMA PrefixAppend ==
  ASSUME NEW s \in Seq(Int), NEW t \in Int, NEW h \in 1 .. Len(s)
  PROVE  /\ SubSeq(s, 1, h) \in Seq(Int)
         /\ SubSeq(Append(s, t), 1, h) = SubSeq(s, 1, h)
         /\ SubSeq(Append(s, t), 1, Len(s)) = s
<1> DEFINE more == Append(s, t)
           n == Len(s)
<1>1. n \in Nat /\ h \in Nat /\ h <= n /\ \A i \in 1 .. n : s[i] \in Int
  OBVIOUS
<1>2. /\ more \in Seq(Int) /\ Len(more) = n + 1
      /\ \A i \in 1 .. n : more[i] = s[i]
  OBVIOUS
<1> HIDE DEF more, n
<1>3. ASSUME NEW k \in 1 .. n
      PROVE  /\ SubSeq(s, 1, k) \in Seq(Int)
             /\ SubSeq(more, 1, k) = SubSeq(s, 1, k)
  <2> DEFINE x == SubSeq(s, 1, k)
             y == SubSeq(more, 1, k)
  <2>1. k \in Int /\ 1 <= k /\ \A i \in 1 .. k : s[i] \in Int /\ more[i] = s[i]
    BY <1>1, <1>2
  <2>2. x \in Seq(Int) /\ Len(x) = k /\ \A i \in 1 .. k : x[i] = s[i]
    <3>1. /\ x \in Seq(Int) /\ Len(x) = IF 1 <= k THEN k - 1 + 1 ELSE 0
          /\ \A i \in 1 .. k - 1 + 1 : x[i] = s[1 + i - 1]
      BY <2>1, SubSeqProperties
    <3>2. k - 1 + 1 = k /\ \A i \in 1 .. k : 1 + i - 1 = i
      OBVIOUS
    <3> HIDE DEF x
    <3> QED BY <2>1, <3>1, <3>2
  <2>3. y \in Seq(Int) /\ Len(y) = k /\ \A i \in 1 .. k : y[i] = more[i]
    <3>1. \A i \in 1 .. k : more[i] \in Int
      BY <2>1
    <3>2. /\ y \in Seq(Int) /\ Len(y) = IF 1 <= k THEN k - 1 + 1 ELSE 0
          /\ \A i \in 1 .. k - 1 + 1 : y[i] = more[1 + i - 1]
      BY <2>1, <3>1, SubSeqProperties
    <3>3. k - 1 + 1 = k /\ \A i \in 1 .. k : 1 + i - 1 = i
      OBVIOUS
    <3> HIDE DEF y
    <3> QED BY <2>1, <3>2, <3>3
  <2> HIDE DEF x, y
  <2>4. x = y
    BY <2>1, <2>2, <2>3, SeqEqual
  <2> QED BY <2>2, <2>4 DEF x, y
<1>4. n \in 1 .. n /\ SubSeq(s, 1, n) = s
  BY <1>1, SubSeqFull DEF n
<1> QED BY <1>3, <1>4 DEF more, n

\* A block appended is dated by the window before it and leaves the dates of the
\* others as they are.
LEMMA ClockAppend ==
  ASSUME NEW blocks \in Seq(Block), NEW b \in Block
  PROVE  LET more == Append(blocks, b)
             n == Len(blocks)
         IN  /\ \A h \in 1 .. n : Clock(more, h) = Clock(blocks, h)
                                  /\ Clock(blocks, h) \in Int
             /\ Clock(more, n + 1) \in Int
             /\ Clock(more, n + 1)
                  = EffectiveTime(b.timestamp, LastOf(Stamps(blocks), WindowN), MaxSkewSec)
<1> DEFINE more == Append(blocks, b)
           n == Len(blocks)
           s == Stamps(blocks)
<1>1. /\ n \in Nat /\ \A h \in 1 .. n : blocks[h] \in Block /\ more[h] = blocks[h]
      /\ more[n + 1] = b
  OBVIOUS
<1>2. s \in Seq(Int) /\ Stamps(more) = Append(s, b.timestamp) /\ b.timestamp \in Int
  BY StampsAppend DEF Block
<1>3. Len(s) = n + 1
  <2> DEFINE ts == [h \in DOMAIN blocks |-> blocks[h].timestamp]
  <2>1. DOMAIN blocks = 1 .. n /\ \A h \in 1 .. n : blocks[h].timestamp \in Int
    BY <1>1 DEF Block
  <2>2. ts \in Seq(Int) /\ Len(ts) = n
    BY <1>1, <2>1
  <2>3. << GenesisTime >> \in Seq(Int) /\ Len(<< GenesisTime >>) = 1
    BY Parameters
  <2>4. s = << GenesisTime >> \o ts
    BY DEF Stamps
  <2> HIDE DEF ts, s
  <2>5. Len(s) = 1 + n
    BY <2>2, <2>3, <2>4, ConcatProperties
  <2> QED BY <1>1, <2>5
<1>4. WindowN \in Nat \ {0} /\ MaxSkewSec \in Nat
  BY Parameters
<1> HIDE DEF more, n, s
<1>5. ASSUME NEW h \in 1 .. n PROVE Clock(more, h) = Clock(blocks, h) /\ Clock(blocks, h) \in Int
  <2>1. h \in 1 .. Len(s)
    BY <1>1, <1>3
  <2>2. /\ SubSeq(s, 1, h) \in Seq(Int)
        /\ SubSeq(Stamps(more), 1, h) = SubSeq(s, 1, h)
    BY <1>2, <2>1, PrefixAppend
  <2>3. Clock(more, h) = Clock(blocks, h)
    BY <1>1, <2>2 DEF Clock, s
  <2> DEFINE window == LastOf(SubSeq(s, 1, h), WindowN)
  <2>4. window \in Seq(Int)
    BY <1>4, <2>2, LastOfType
  <2>5. blocks[h].timestamp \in Int
    BY <1>1 DEF Block
  <2>6. Clock(blocks, h) = EffectiveTime(blocks[h].timestamp, window, MaxSkewSec)
    BY DEF Clock, s
  <2> HIDE DEF window
  <2> QED BY <1>4, <2>3, <2>4, <2>5, <2>6, EffectiveTimeType
<1>6. Clock(more, n + 1) = EffectiveTime(b.timestamp, LastOf(s, WindowN), MaxSkewSec)
  <2>1. n + 1 \in 1 .. Len(s)
    BY <1>1, <1>3
  <2>2. SubSeq(Append(s, b.timestamp), 1, Len(s)) = s
    BY <1>2, <2>1, PrefixAppend
  <2>3. SubSeq(Stamps(more), 1, n + 1) = s
    BY <1>2, <1>3, <2>2
  <2> QED BY <1>1, <2>3 DEF Clock
<1>7. Clock(more, n + 1) \in Int
  <2>1. LastOf(s, WindowN) \in Seq(Int)
    BY <1>2, <1>4, LastOfType
  <2> QED BY <1>2, <1>4, <1>6, <2>1, EffectiveTimeType
<1> QED BY <1>5, <1>6, <1>7 DEF more, n, s

\* A step forward of the clock is a natural number, and the steps between three
\* times are not shorter than the one from the first to the last.
LEMMA ForwardSteps ==
  /\ \A x, y \in Int : Forward(x, y) \in Nat
  /\ \A x, y, z \in Int : Forward(x, z) <= Forward(x, y) + Forward(y, z)
  /\ \A x \in Int : Forward(x, x) = 0
BY DEF Forward

\* What the clock has gone forward, with one more block.
LEMMA ClimbAppend ==
  ASSUME NEW blocks \in Seq(Block), NEW b \in Block
  PROVE  LET more == Append(blocks, b)
             n == Len(blocks)
         IN  /\ Climb(blocks) \in Nat /\ Climb(more) \in Nat
             /\ n # 0 => Climb(more)
                          = Climb(blocks) + Forward(Clock(blocks, n), Clock(more, n + 1))
<1> DEFINE more == Append(blocks, b)
           n == Len(blocks)
           S == 2 .. n
           T == 2 .. n + 1
           f == [h \in S |-> Forward(Clock(blocks, h - 1), Clock(blocks, h))]
           g == [h \in T |-> Forward(Clock(more, h - 1), Clock(more, h))]
<1>1. n \in Nat /\ Len(more) = n + 1
  OBVIOUS
<1>2. Climb(blocks) = Total(f, S) /\ Climb(more) = Total(g, T)
  BY <1>1 DEF Climb
<1>3. /\ \A h \in 1 .. n : Clock(more, h) = Clock(blocks, h) /\ Clock(blocks, h) \in Int
      /\ Clock(more, n + 1) \in Int
  BY ClockAppend
<1> HIDE DEF more, n
<1>4. \A h \in S : h - 1 \in 1 .. n /\ h \in 1 .. n /\ h \in T
  BY <1>1
<1>5. \A h \in S : f[h] \in Nat /\ g[h] = f[h]
  <2> TAKE h \in S
  <2>1. h - 1 \in 1 .. n /\ h \in 1 .. n /\ h \in T
    BY <1>4
  <2>2. f[h] = Forward(Clock(blocks, h - 1), Clock(blocks, h))
    OBVIOUS
  <2>3. g[h] = Forward(Clock(more, h - 1), Clock(more, h))
    BY <2>1
  <2> QED BY <1>3, <2>1, <2>2, <2>3, ForwardSteps
<1>6. IsFiniteSet(S)
  BY <1>1, FS_Interval
<1>7. Total(f, S) \in Nat
  <2> HIDE DEF f, S
  <2> QED BY <1>5, <1>6, TotalNat
<1>8. CASE n = 0
  <2>1. T = {}
    BY <1>8
  <2>2. Climb(more) = 0
    BY <1>2, <2>1, TotalEmpty
  <2> QED BY <1>2, <1>7, <1>8, <2>2 DEF more, n
<1>9. CASE n # 0
  <2>1. T = S \union {n + 1} /\ n + 1 \notin S /\ n \in 1 .. n /\ (n + 1) - 1 = n
    BY <1>1, <1>9
  <2>2. g[n + 1] = Forward(Clock(blocks, n), Clock(more, n + 1))
    <3>1. n + 1 \in T
      BY <2>1
    <3>2. g[n + 1] = Forward(Clock(more, (n + 1) - 1), Clock(more, n + 1))
      BY <3>1
    <3> HIDE DEF g
    <3> QED BY <1>3, <2>1, <3>2
  <2>3. g[n + 1] \in Nat
    BY <1>3, <2>1, <2>2, ForwardSteps
  <2> HIDE DEF f, g, S, T
  <2>4. Total(g, S \union {n + 1}) = Total(g, S) + g[n + 1]
    <3>1. PICK l : l = n + 1
      OBVIOUS
    <3>2. l \notin S /\ \A h \in S \union {l} : g[h] \in Nat
      BY <1>5, <2>1, <2>3, <3>1
    <3>3. Total(g, S \union {l}) = Total(g, S) + g[l]
      BY <1>6, <3>2, TotalAdd
    <3> QED BY <3>1, <3>3
  <2>5. Total(g, S) = Total(f, S)
    BY <1>5, TotalSame
  <2>6. Climb(more) = Climb(blocks) + g[n + 1]
    BY <1>2, <2>1, <2>4, <2>5
  <2>7. Climb(more) \in Nat /\ Climb(blocks) \in Nat
    BY <1>2, <1>7, <2>3, <2>6
  <2> QED BY <2>2, <2>6, <2>7 DEF more, n
<1> QED BY <1>8, <1>9

-----------------------------------------------------------------------------
(* The credits.                                                              *)

\* What the transactions at these places cost, and what they delegate.
Prices(blocks, S) == [p \in S |-> LedgerCost(At(blocks, p), {})]
Grants(blocks, S) == [p \in S |-> Delegation(At(blocks, p))]
Spending(blocks, P, a) == Total(Prices(blocks, Sent(blocks, P, a)), Sent(blocks, P, a))
Stakes(blocks, P, a) ==
  FreshAccounts[a].stake + Total(Grants(blocks, Sent(blocks, P, a)), Sent(blocks, P, a))

\* One more addend.
LEMMA TotalMore ==
  ASSUME NEW S, IsFiniteSet(S), NEW p, p \notin S, NEW f, NEW g,
         \A q \in S : f[q] \in Nat /\ g[q] = f[q], g[p] \in Nat
  PROVE  /\ Total(f, S) \in Nat
         /\ Total(g, S \union {p}) = Total(f, S) + g[p]
<1>1. Total(f, S) \in Nat
  BY TotalNat
<1>2. Total(g, S) = Total(f, S)
  BY TotalSame
<1>3. \A q \in S \union {p} : g[q] \in Nat
  OBVIOUS
<1>4. Total(g, S \union {p}) = Total(g, S) + g[p]
  BY <1>3, TotalAdd
<1> QED BY <1>1, <1>2, <1>4

\* What one more transaction adds for its sender, and for the others.
LEMMA SpendingMore ==
  ASSUME RatesNat, NEW blocks, NEW P, IsFiniteSet(P), NEW p, p \notin P,
         \A q \in P \union {p} : At(blocks, q) \in Tx, NEW a \in Addr
  PROVE  /\ Spending(blocks, P, a) \in Nat /\ Stakes(blocks, P, a) \in Nat
         /\ At(blocks, p).from = a =>
              /\ Sent(blocks, P \union {p}, a) # {}
              /\ Spending(blocks, P \union {p}, a)
                   = Spending(blocks, P, a) + LedgerCost(At(blocks, p), {})
              /\ Stakes(blocks, P \union {p}, a)
                   = Stakes(blocks, P, a) + Delegation(At(blocks, p))
         /\ At(blocks, p).from # a =>
              Sent(blocks, P \union {p}, a) = Sent(blocks, P, a)
<1> DEFINE Q == P \union {p}
           S == Sent(blocks, P, a)
           R == Sent(blocks, Q, a)
           tx == At(blocks, p)
           c == Prices(blocks, S)
           d == Prices(blocks, R)
           f == Grants(blocks, S)
           g == Grants(blocks, R)
           base == FreshAccounts[a].stake
<1>1. IsFiniteSet(S) /\ p \notin S /\ S \subseteq P
  <2>1. S \in SUBSET P
    BY DEF Sent
  <2> HIDE DEF S
  <2> QED BY <2>1, FS_Subset
<1>2. R = S \union (IF tx.from = a THEN {p} ELSE {})
  BY DEF Sent
<1>3. \A q \in Q : /\ LedgerCost(At(blocks, q), {}) \in Nat
                   /\ Delegation(At(blocks, q)) \in Nat
  <2> TAKE q \in Q
  <2>1. At(blocks, q) \in Tx
    OBVIOUS
  <2>2. Delegation(At(blocks, q)) \in Nat
    BY <2>1 DEF Delegation, Tx
  <2>3. LedgerCost(At(blocks, q), {}) \in 0 .. MaxUint /\ MaxUint \in Nat
    BY LedgerCostType, RCAssumption
  <2> QED BY <2>2, <2>3
<1>4. /\ \A q \in S : c[q] = LedgerCost(At(blocks, q), {}) /\ f[q] = Delegation(At(blocks, q))
      /\ \A q \in R : d[q] = LedgerCost(At(blocks, q), {}) /\ g[q] = Delegation(At(blocks, q))
  BY DEF Prices, Grants
<1>5. base \in Nat
  BY FreshType, Parameters DEF Account
<1>6. /\ Spending(blocks, P, a) = Total(c, S) /\ Stakes(blocks, P, a) = base + Total(f, S)
      /\ Spending(blocks, Q, a) = Total(d, R) /\ Stakes(blocks, Q, a) = base + Total(g, R)
  BY DEF Spending, Stakes
<1> HIDE DEF Q, S, R, c, d, f, g, base
<1>7. /\ \A q \in S : c[q] \in Nat /\ f[q] \in Nat /\ d[q] = c[q] /\ g[q] = f[q]
  BY <1>1, <1>2, <1>3, <1>4 DEF Q
<1>8. Total(c, S) \in Nat /\ Total(f, S) \in Nat
  BY <1>1, <1>7, TotalNat
<1>9. ASSUME tx.from = a
      PROVE  /\ R # {} /\ Total(d, R) = Total(c, S) + LedgerCost(tx, {})
             /\ Total(g, R) = Total(f, S) + Delegation(tx)
  <2>1. R = S \union {p} /\ p \in R /\ p \in Q
    BY <1>2, <1>9 DEF Q
  <2>2. /\ d[p] = LedgerCost(tx, {}) /\ d[p] \in Nat
        /\ g[p] = Delegation(tx) /\ g[p] \in Nat
    BY <1>3, <1>4, <2>1
  <2>3. IsFiniteSet(S) /\ p \notin S /\ d[p] \in Nat /\ g[p] \in Nat
    BY <1>1, <2>2
  <2>4. \A q \in S : c[q] \in Nat /\ d[q] = c[q]
    BY <1>7
  <2>5. \A q \in S : f[q] \in Nat /\ g[q] = f[q]
    BY <1>7
  <2>6. Total(d, S \union {p}) = Total(c, S) + d[p]
    BY ONLY <2>3, <2>4, TotalMore
  <2>7. Total(g, S \union {p}) = Total(f, S) + g[p]
    BY ONLY <2>3, <2>5, TotalMore
  <2> QED BY <2>1, <2>2, <2>6, <2>7
<1>10. tx.from # a => R = S
  BY <1>2
<1>11. Delegation(tx) \in Nat
  BY <1>3 DEF Q
<1>12. tx.from = a => Stakes(blocks, Q, a) = Stakes(blocks, P, a) + Delegation(tx)
  BY <1>5, <1>6, <1>8, <1>9, <1>11
<1>13. Spending(blocks, P, a) \in Nat /\ Stakes(blocks, P, a) \in Nat
  BY <1>5, <1>6, <1>8
<1> QED BY <1>6, <1>9, <1>10, <1>12, <1>13 DEF Q, R, S

\* Products of sums.
LEMMA Distributes ==
  ASSUME NEW b \in Nat, NEW x \in Nat, NEW y \in Nat, NEW st \in Nat, NEW k \in Nat
  PROVE  /\ (b * (x + y)) * st = (b * x) * st + (b * y) * st
         /\ (k + b * (x + y)) * st = (k + b * x) * st + (b * y) * st
         /\ (k + b * x) * st = k * st + (b * x) * st
<1>1. b * (x + y) = b * x + b * y
  OBVIOUS
<1>2. b * x \in Nat /\ b * y \in Nat
  BY ProductNat
<1>3. PICK m, n \in Nat : m = b * x /\ n = b * y
  BY <1>2
<1>4. /\ (m + n) * st = m * st + n * st
      /\ (k + (m + n)) * st = (k + m) * st + n * st
      /\ (k + m) * st = k * st + m * st
  BY <1>3
<1> QED BY <1>1, <1>3, <1>4

\* The bound grows with the clock by at least what the credit may still regain.
LEMMA BoundLater ==
  ASSUME RatesNat, NEW climb \in Nat, NEW st \in Nat, NEW c \in Nat,
         NEW owed \in Nat, NEW more \in Nat, NEW after \in Nat, after <= owed + more,
         c + (Beta * owed) * st <= (Alpha + Beta * climb) * st
  PROVE  c + (Beta * after) * st <= (Alpha + Beta * (climb + more)) * st
<1>1. Alpha \in Nat /\ Beta \in Nat
  BY DEF RatesNat
<1>2. /\ (Beta * (owed + more)) * st = (Beta * owed) * st + (Beta * more) * st
      /\ (Alpha + Beta * (climb + more)) * st
           = (Alpha + Beta * climb) * st + (Beta * more) * st
  BY <1>1, Distributes
<1>3. (Beta * after) * st <= (Beta * (owed + more)) * st
  <2>1. Beta * after <= Beta * (owed + more)
        /\ Beta * after \in Nat /\ Beta * (owed + more) \in Nat
    BY <1>1, ProductMonotone, ProductNat
  <2> QED BY <2>1, ProductMonotone
<1>4. PICK u, v, w, x, y :
         /\ u = (Beta * after) * st /\ v = (Beta * owed) * st /\ w = (Beta * more) * st
         /\ x = (Alpha + Beta * climb) * st
         /\ y = (Alpha + Beta * (climb + more)) * st
  OBVIOUS
<1>5. u \in Nat /\ v \in Nat /\ w \in Nat /\ x \in Nat /\ y \in Nat
  <2>1. Beta * after \in Nat /\ Beta * owed \in Nat /\ Beta * more \in Nat
        /\ Beta * climb \in Nat /\ Beta * (climb + more) \in Nat
    BY <1>1, ProductNat
  <2>2. Alpha + Beta * climb \in Nat /\ Alpha + Beta * (climb + more) \in Nat
    BY <1>1, <2>1
  <2> QED BY <1>4, <2>1, <2>2, ProductNat
<1>6. c + v <= x /\ y = x + w /\ u <= v + w
  BY <1>2, <1>3, <1>4
<1>7. c + u <= y
  BY <1>5, <1>6
<1> QED BY <1>4, <1>7

\* Regenerated and charged, the credit is within the bound.
LEMMA BoundSpent ==
  ASSUME RatesNat, NEW climb \in Nat, NEW st \in Nat, NEW more \in Nat, st <= more,
         NEW stake \in Nat, stake <= st, NEW rc \in Nat, NEW spent \in Nat,
         NEW owed \in Nat, NEW credit \in Nat,
         credit <= Alpha * stake, credit <= rc + (Beta * owed) * stake,
         \/ spent = 0
         \/ rc + spent + (Beta * owed) * st <= (Alpha + Beta * climb) * st
  PROVE  credit + spent <= (Alpha + Beta * climb) * more
<1>1. Alpha \in Nat /\ Beta \in Nat /\ Beta * owed \in Nat /\ Beta * climb \in Nat
  BY ProductNat DEF RatesNat
<1>2. PICK k \in Nat : k = Alpha + Beta * climb
  BY <1>1
<1>3. PICK m \in Nat : m = Beta * owed
  BY <1>1
<1>4. k * st <= k * more /\ k * st \in Nat /\ k * more \in Nat
  BY ProductMonotone, ProductNat
<1>5. Alpha * stake <= k * st
  <2>1. Alpha * stake <= Alpha * st
    BY <1>1, ProductMonotone
  <2>2. Alpha <= k
    BY <1>1, <1>2
  <2>3. Alpha * st <= k * st
    BY <1>1, <2>2, ProductMonotone
  <2>4. Alpha * stake \in Nat /\ Alpha * st \in Nat
    BY <1>1, ProductNat
  <2> QED BY <1>4, <2>1, <2>3, <2>4
<1>6. m * stake <= m * st /\ m * stake \in Nat /\ m * st \in Nat
  BY ProductMonotone, ProductNat
<1>7. Alpha * stake \in Nat
  BY <1>1, ProductNat
<1>8. PICK u, v, w, x, y \in Nat :
         u = Alpha * stake /\ v = m * stake /\ w = m * st /\ x = k * st /\ y = k * more
  BY <1>4, <1>6, <1>7
<1>9. /\ x <= y /\ u <= x /\ v <= w /\ credit <= u /\ credit <= rc + v
      /\ spent = 0 \/ rc + spent + w <= x
  BY <1>2, <1>3, <1>4, <1>5, <1>6, <1>8
<1>10. credit + spent <= y
  BY <1>8, <1>9
<1> QED BY <1>2, <1>8, <1>10

\* What an account that has sent something has paid, has left and would regain if it
\* were used now was earned by its stake; an account that has sent nothing has no
\* credit.
EarnedBy(blocks, P, a, account, now, climb) ==
  LET st == Stakes(blocks, P, a)
  IN  /\ account.stake <= st
      /\ IF Sent(blocks, P, a) = {}
           THEN account.rc = 0
           ELSE account.rc + Spending(blocks, P, a)
                  + (Beta * Forward(account.time, now)) * st
                  <= (Alpha + Beta * climb) * st

Earned(blocks, P, accts, now, climb) ==
  /\ IsFiniteSet(P)
  /\ \A p \in P : At(blocks, p) \in Tx
  /\ \A a \in Addr : EarnedBy(blocks, P, a, accts[a], now, climb)

\* It depends on the transactions at these places only.
LEMMA EarnedSame ==
  ASSUME NEW blocks, NEW others, NEW P, NEW accts, NEW now, NEW climb,
         \A p \in P : At(blocks, p) = At(others, p), Earned(blocks, P, accts, now, climb)
  PROVE  Earned(others, P, accts, now, climb)
<1>1. \A a : Sent(blocks, P, a) = Sent(others, P, a)
  BY DEF Sent
<1>2. \A a : \A p \in Sent(blocks, P, a) : At(blocks, p) = At(others, p)
  BY DEF Sent
<1>3. ASSUME NEW a
      PROVE  /\ Spending(blocks, P, a) = Spending(others, P, a)
             /\ Stakes(blocks, P, a) = Stakes(others, P, a)
  <2>1. /\ Prices(blocks, Sent(blocks, P, a)) = Prices(others, Sent(others, P, a))
        /\ Grants(blocks, Sent(blocks, P, a)) = Grants(others, Sent(others, P, a))
    BY <1>1, <1>2 DEF Prices, Grants
  <2> QED BY <1>1, <2>1 DEF Spending, Stakes
<1>4. \A a \in Addr : EarnedBy(others, P, a, accts[a], now, climb)
  BY <1>1, <1>3 DEF Earned, EarnedBy
<1> QED BY <1>4 DEF Earned

\* Before the first transaction it does not depend on the clock.
LEMMA EarnedEmpty ==
  ASSUME NEW blocks, NEW others, NEW accts, NEW now, NEW climb, NEW then, NEW more,
         Earned(blocks, {}, accts, now, climb)
  PROVE  Earned(others, {}, accts, then, more)
<1>1. \A a : Sent(blocks, {}, a) = {} /\ Sent(others, {}, a) = {}
  BY DEF Sent
<1>2. \A a : Stakes(blocks, {}, a) = Stakes(others, {}, a)
  BY <1>1, TotalEmpty DEF Stakes
<1>3. \A a \in Addr : EarnedBy(others, {}, a, accts[a], then, more)
  BY <1>1, <1>2 DEF Earned, EarnedBy
<1> QED BY <1>3 DEF Earned

\* The sums of an account are natural numbers.
LEMMA SumsNat ==
  ASSUME RatesNat, NEW blocks, NEW P, IsFiniteSet(P), \A p \in P : At(blocks, p) \in Tx,
         NEW a \in Addr
  PROVE  /\ Spending(blocks, P, a) \in Nat /\ Stakes(blocks, P, a) \in Nat
         /\ Sent(blocks, P, a) = {} => Spending(blocks, P, a) = 0
<1> DEFINE S == Sent(blocks, P, a)
           c == Prices(blocks, S)
           f == Grants(blocks, S)
           base == FreshAccounts[a].stake
<1>1. S \in SUBSET P /\ \A q \in S : At(blocks, q) \in Tx
  BY DEF Sent
<1>2. Spending(blocks, P, a) = Total(c, S) /\ Stakes(blocks, P, a) = base + Total(f, S)
  BY DEF Spending, Stakes
<1>3. base \in Nat
  BY FreshType, Parameters DEF Account
<1> HIDE DEF S, base
<1>4. \A q \in S : c[q] \in Nat
  <2> TAKE q \in S
  <2>1. LedgerCost(At(blocks, q), {}) \in 0 .. MaxUint /\ MaxUint \in Nat
    BY LedgerCostType, RCAssumption
  <2> QED BY <2>1 DEF Prices
<1>5. \A q \in S : f[q] \in Nat
  <2> TAKE q \in S
  <2>1. At(blocks, q) \in Tx
    BY <1>1
  <2> QED BY <2>1 DEF Grants, Delegation, Tx
<1>6. IsFiniteSet(S)
  BY <1>1, FS_Subset
<1> HIDE DEF c, f
<1>7. Total(c, S) \in Nat /\ Total(f, S) \in Nat
  BY <1>4, <1>5, <1>6, TotalNat
<1>8. S = {} => Total(c, S) = 0
  BY TotalEmpty
<1> QED BY <1>2, <1>3, <1>7, <1>8 DEF S

\* The clock moves on, forward or back.
LEMMA EarnedLater ==
  ASSUME RatesNat, NEW blocks, NEW P, NEW accts \in [Addr -> Account],
         NEW now \in Int, NEW then \in Int, NEW climb \in Nat,
         Earned(blocks, P, accts, now, climb)
  PROVE  Earned(blocks, P, accts, then, climb + Forward(now, then))
<1> SUFFICES ASSUME NEW a \in Addr, Sent(blocks, P, a) # {}
             PROVE  accts[a].rc + Spending(blocks, P, a)
                      + (Beta * Forward(accts[a].time, then)) * Stakes(blocks, P, a)
                      <= (Alpha + Beta * (climb + Forward(now, then))) * Stakes(blocks, P, a)
  BY DEF Earned, EarnedBy
<1>1. PICK st, spent, rc, time :
         /\ st = Stakes(blocks, P, a) /\ spent = Spending(blocks, P, a)
         /\ rc = accts[a].rc /\ time = accts[a].time
  OBVIOUS
<1>2. rc \in Nat /\ time \in Int
  BY <1>1 DEF Account
<1>3. st \in Nat /\ spent \in Nat
  BY <1>1, SumsNat DEF Earned
<1>4. PICK owed, more, after \in Nat :
         /\ owed = Forward(time, now) /\ more = Forward(now, then)
         /\ after = Forward(time, then)
  BY <1>2, ForwardSteps
<1>5. after <= owed + more
  BY <1>2, <1>4, ForwardSteps
<1>6. PICK c \in Nat : c = rc + spent
  BY <1>2, <1>3
<1>7. c + (Beta * owed) * st <= (Alpha + Beta * climb) * st
  BY <1>1, <1>4, <1>6 DEF Earned, EarnedBy
<1>8. c + (Beta * after) * st <= (Alpha + Beta * (climb + more)) * st
  BY <1>3, <1>5, <1>7, BoundLater
<1> QED BY <1>1, <1>4, <1>6, <1>8

\* One more transaction of the real pass.
LEMMA EarnedExtends ==
  ASSUME RatesNat, NEW blocks, NEW P, NEW accts \in [Addr -> Account],
         NEW now \in Int, NEW climb \in Nat, Earned(blocks, P, accts, now, climb),
         NEW p, p \notin P, At(blocks, p) \in Tx, NEW engines,
         NEW out \in Execute(accts, At(blocks, p), now, FALSE, engines)
  PROVE  Earned(blocks, P \union {p}, out, now, climb)
<1> DEFINE tx == At(blocks, p)
           Q == P \union {p}
<1>1. IsFiniteSet(P) /\ IsFiniteSet(Q) /\ \A q \in Q : At(blocks, q) \in Tx
  BY FS_AddElement DEF Earned
<1>2. PICK preview : preview = FALSE
  OBVIOUS
<1>3. tx \in Tx /\ out \in Execute(accts, tx, now, preview, engines)
      /\ tx.from \in Addr /\ accts[tx.from] \in Account
  BY <1>2 DEF Tx
<1>4. LedgerCost(tx, engines) = LedgerCost(tx, {})
  BY RealCost
<1>5. LedgerCost(tx, {}) \in Nat /\ Delegation(tx) \in Nat
  <2>1. LedgerCost(tx, {}) \in 0 .. MaxUint /\ MaxUint \in Nat
    BY LedgerCostType, RCAssumption
  <2> QED BY <2>1 DEF Delegation, Tx
<1>6. ASSUME NEW a \in Addr
      PROVE  /\ Spending(blocks, P, a) \in Nat /\ Stakes(blocks, P, a) \in Nat
             /\ tx.from = a =>
                  /\ Sent(blocks, Q, a) # {}
                  /\ Spending(blocks, Q, a) = Spending(blocks, P, a) + LedgerCost(tx, {})
                  /\ Stakes(blocks, Q, a) = Stakes(blocks, P, a) + Delegation(tx)
             /\ tx.from # a => Sent(blocks, Q, a) = Sent(blocks, P, a)
  BY <1>1, SpendingMore
<1> HIDE DEF tx, Q
<1>7. /\ out \in [Addr -> Account]
      /\ out[tx.from].rc = Regenerated(accts, tx, now).rc - LedgerCost(tx, engines)
      /\ out[tx.from].time = now
      /\ \A b \in Addr \ {tx.from} : out[b].rc = accts[b].rc /\ out[b].time = accts[b].time
  BY <1>3, ExecuteEffect
<1>8. /\ out[tx.from].stake <= accts[tx.from].stake + Delegation(tx)
      /\ \A b \in Addr \ {tx.from} : out[b].stake = accts[b].stake
  BY <1>3, ExecuteStake
<1>9. ASSUME NEW a \in Addr, a # tx.from
      PROVE  EarnedBy(blocks, Q, a, out[a], now, climb)
  <2>1. Sent(blocks, Q, a) = Sent(blocks, P, a)
    BY <1>6, <1>9
  <2>2. /\ Spending(blocks, Q, a) = Spending(blocks, P, a)
        /\ Stakes(blocks, Q, a) = Stakes(blocks, P, a)
    BY <2>1 DEF Spending, Stakes
  <2>3. EarnedBy(blocks, P, a, accts[a], now, climb)
    BY DEF Earned
  <2> QED BY <1>7, <1>8, <1>9, <2>1, <2>2, <2>3 DEF EarnedBy
<1>10. EarnedBy(blocks, Q, tx.from, out[tx.from], now, climb)
  <2>1. PICK a \in Addr : a = tx.from
    BY <1>3
  <2>2. PICK old : old = accts[a]
    OBVIOUS
  <2>3. old \in Account /\ EarnedBy(blocks, P, a, old, now, climb)
    BY <2>1, <2>2 DEF Earned
  <2>4. PICK rc, stake \in Nat, time \in Int :
           rc = old.rc /\ stake = old.stake /\ time = old.time
    BY <2>3 DEF Account
  <2>5. PICK st, spent \in Nat :
           st = Stakes(blocks, P, a) /\ spent = Spending(blocks, P, a)
    BY <1>6
  <2>6. PICK cost, more \in Nat : cost = LedgerCost(tx, {}) /\ more = Delegation(tx)
    BY <1>5
  <2>7. PICK owed \in Nat : owed = Forward(time, now)
    BY ForwardSteps
  <2>8. PICK credit : credit = Regen(rc, stake, time, now)
    OBVIOUS
  <2>9. /\ credit \in Nat /\ credit <= Alpha * stake
        /\ credit <= rc + (Beta * owed) * stake
    <3>1. owed = IF now < time THEN 0 ELSE now - time
      BY <2>7 DEF Forward
    <3>2. RCMax(stake) \in 0 .. MaxUint /\ MaxUint \in Nat
      BY RCMaxType, RCAssumption
    <3>3. credit \in 0 .. RCMax(stake)
      BY <2>8, RegenType
    <3>4. /\ credit <= Alpha * stake
          /\ credit <= rc + (Beta * owed) * stake
      BY <2>8, <3>1, RegenAtMost
    <3> QED BY <3>2, <3>3, <3>4
  <2>10. /\ out[a].rc = credit - cost /\ out[a].time = now /\ out[a].stake <= stake + more
    <3>1. Regenerated(accts, tx, now).rc = credit
      <4>1. Regenerated(accts, tx, now).rc
              = Regen(accts[tx.from].rc, accts[tx.from].stake, accts[tx.from].time, now)
        BY <1>3, RegeneratedType
      <4> QED BY <2>1, <2>2, <2>4, <2>8, <4>1
    <3> QED BY <1>4, <1>7, <1>8, <2>1, <2>2, <2>4, <2>6, <3>1
  <2>11. /\ stake <= st
         /\ spent = 0 \/ rc + spent + (Beta * owed) * st <= (Alpha + Beta * climb) * st
    <3>1. Sent(blocks, P, a) = {} => spent = 0
      BY <2>5, SumsNat DEF Earned
    <3> QED BY <2>3, <2>4, <2>5, <2>7, <3>1 DEF EarnedBy
  <2>12. PICK total \in Nat : total = st + more /\ st <= total
    OBVIOUS
  <2>13. credit + spent <= (Alpha + Beta * climb) * total
    BY <2>9, <2>11, <2>12, BoundSpent
  <2>14. /\ Sent(blocks, Q, a) # {}
         /\ Spending(blocks, Q, a) = spent + cost /\ Stakes(blocks, Q, a) = total
    BY <1>6, <2>1, <2>5, <2>6, <2>12
  <2>15. out[a].stake <= total
    <3>1. out[a].stake \in Nat
      BY <1>7 DEF Account
    <3> QED BY <2>10, <2>11, <2>12, <3>1
  <2>16. (Beta * Forward(now, now)) * total = 0
    <3>1. Forward(now, now) = 0
      BY ForwardSteps
    <3>2. Beta * Forward(now, now) = 0
      BY <3>1 DEF RatesNat
    <3> QED BY <3>2
  <2>17. out[a].rc + (spent + cost) + (Beta * Forward(now, now)) * total
           = credit + spent
    BY <2>9, <2>10, <2>16
  <2> QED BY <2>1, <2>10, <2>13, <2>14, <2>15, <2>17 DEF EarnedBy
<1>11. Earned(blocks, Q, out, now, climb)
  BY <1>1, <1>9, <1>10 DEF Earned
<1> QED BY <1>11 DEF Q

\* As long as the node has not restarted, the credits of the store were earned, and
\* those of a real pass, whose block dates the transactions.
Creditworthy ==
  restarts = 0 =>
    /\ Earned(chain, PlacesOf(chain), accounts, Clock(chain, Len(chain)), Climb(chain))
    /\ phase = "apply" =>
         Earned(Append(chain, block), PassPlaces, batch, EffectiveNow,
                Climb(Append(chain, block)))

\* A pass dates its transactions as the block will be dated in the chain.
LEMMA PassClock ==
  ASSUME TypeOK, WindowIsTail
  PROVE  /\ EffectiveNow = Clock(Append(chain, block), Len(chain) + 1)
         /\ EffectiveNow \in Int
         /\ Climb(Append(chain, block)) \in Nat
         /\ Len(chain) # 0 =>
              /\ Clock(chain, Len(chain)) \in Int /\ Climb(chain) \in Nat
              /\ Climb(Append(chain, block))
                   = Climb(chain) + Forward(Clock(chain, Len(chain)), EffectiveNow)
<1>1. chain \in Seq(Block) /\ block \in Block /\ Len(chain) \in Nat
  BY DEF TypeOK
<1>2. EffectiveNow
        = EffectiveTime(block.timestamp, LastOf(Stamps(chain), WindowN), MaxSkewSec)
  BY DEF EffectiveNow, WindowIsTail
<1>3. /\ EffectiveNow = Clock(Append(chain, block), Len(chain) + 1)
      /\ EffectiveNow \in Int
  BY <1>1, <1>2, ClockAppend
<1>4. /\ Climb(chain) \in Nat /\ Climb(Append(chain, block)) \in Nat
      /\ Len(chain) # 0 =>
           Climb(Append(chain, block))
             = Climb(chain) + Forward(Clock(chain, Len(chain)),
                                      Clock(Append(chain, block), Len(chain) + 1))
  BY <1>1, ClimbAppend
<1>5. Len(chain) # 0 => Clock(chain, Len(chain)) \in Int
  <2>1. Len(chain) # 0 => Len(chain) \in 1 .. Len(chain)
    BY <1>1
  <2> QED BY <1>1, <2>1, ClockAppend
<1> QED BY <1>3, <1>4, <1>5

\* The credits when a real pass starts from the committed accounts.
LEMMA EarnedStart ==
  ASSUME TypeOK, WindowIsTail,
         Earned(chain, PlacesOf(chain), accounts, Clock(chain, Len(chain)), Climb(chain))
  PROVE  Earned(Append(chain, block), PlacesOf(chain), accounts, EffectiveNow,
                Climb(Append(chain, block)))
<1> DEFINE more == Append(chain, block)
           P == PlacesOf(chain)
<1>1. chain \in Seq(Block) /\ block \in Block /\ Len(chain) \in Nat
      /\ accounts \in [Addr -> Account]
  BY DEF TypeOK
<1>2. \A p \in P : At(chain, p) = At(more, p)
  BY <1>1, AtAppend
<1> HIDE DEF more
<1>3. CASE Len(chain) = 0
  <2>1. DOMAIN chain = {}
    BY <1>1, <1>3
  <2>2. P = {}
    BY <2>1 DEF PlacesOf
  <2> QED BY <2>2, EarnedEmpty DEF more
<1>4. CASE Len(chain) # 0
  <2>1. /\ Clock(chain, Len(chain)) \in Int /\ Climb(chain) \in Nat
        /\ EffectiveNow \in Int
        /\ Climb(more) = Climb(chain) + Forward(Clock(chain, Len(chain)), EffectiveNow)
    BY <1>4, PassClock DEF more
  <2>2. PICK now \in Int, climb \in Nat, then \in Int :
           now = Clock(chain, Len(chain)) /\ climb = Climb(chain) /\ then = EffectiveNow
    BY <2>1
  <2> HIDE DEF P
  <2>3. Earned(chain, P, accounts, now, climb)
    BY <2>2 DEF P
  <2>4. Earned(chain, P, accounts, then, climb + Forward(now, then))
    BY <1>1, <2>3, EarnedLater, Parameters
  <2>5. Earned(more, P, accounts, then, climb + Forward(now, then))
    BY <1>2, <2>4, EarnedSame
  <2> QED BY <2>1, <2>2, <2>5 DEF P, more
<1> QED BY <1>3, <1>4

\* The credits after a transaction of a real pass.
LEMMA EarnedTx ==
  ASSUME TypeOK, WindowIsTail, ExecuteTx, phase = "apply",
         Earned(Append(chain, block), PassPlaces, batch, EffectiveNow,
                Climb(Append(chain, block)))
  PROVE  Earned(Append(chain, block), PassPlaces', batch', EffectiveNow,
                Climb(Append(chain, block)))
<1>1. /\ InPass /\ batch' \in Results(Current) /\ pos' = pos + 1 /\ UNCHANGED chain
  BY DEF ExecuteTx, stored
<1>2. chain \in Seq(Block) /\ block \in Block
  BY DEF TypeOK
<1>3. PICK n \in Nat : n = pos - 1
  BY DEF TypeOK
<1>4. pos = n + 1 /\ pos' - 1 = n + 1
  BY <1>1, <1>3 DEF TypeOK
<1> DEFINE blocks == Append(chain, block)
           h == Len(chain) + 1
           p == << h, n + 1 >>
           P == PlacesOf(chain) \union FirstOf(h, n)
<1>5. PassPlaces = P
  BY <1>3 DEF PassPlaces
<1>6. At(blocks, p) = Current
  BY <1>2, <1>4, AtAppend DEF Current
<1>7. p \notin P
  BY <1>2, NextPlace
<1>8. /\ Current \in Tx /\ EffectiveNow \in Int /\ RatesNat
      /\ batch \in [Addr -> Account] /\ Climb(blocks) \in Nat
  BY <1>1, CurrentType, PassClock, Parameters DEF TypeOK
<1>9. batch' \in Execute(batch, Current, EffectiveNow, FALSE, engine)
  <2>1. (phase = "preview") = FALSE
    OBVIOUS
  <2> QED BY <1>1, <2>1 DEF Results
<1>10. PICK climb \in Nat, now \in Int : climb = Climb(blocks) /\ now = EffectiveNow
  BY <1>8
<1>11. Earned(blocks, P \union {p}, batch', now, climb)
  <2> HIDE DEF blocks, P, p
  <2>1. Earned(blocks, P, batch, now, climb)
    BY <1>5, <1>10 DEF blocks
  <2>2. At(blocks, p) \in Tx
        /\ batch' \in Execute(batch, At(blocks, p), now, FALSE, engine)
    BY <1>6, <1>8, <1>9, <1>10
  <2> QED BY <1>7, <1>8, <2>1, <2>2, EarnedExtends
<1>12. PassPlaces' = P \union {p}
  <2>1. FirstOf(h, n + 1) = FirstOf(h, n) \union {p}
    BY FirstOfNext
  <2> HIDE DEF p
  <2> QED BY <1>1, <1>4, <2>1 DEF PassPlaces
<1> QED BY <1>10, <1>11, <1>12

\* Every step keeps the credits earned.
LEMMA CreditStep ==
  TypeOK /\ PassOK /\ WindowIsTail /\ Creditworthy /\ [Next]_vars => Creditworthy'
<1> SUFFICES ASSUME TypeOK, PassOK, WindowIsTail, Creditworthy, [Next]_vars, restarts' = 0
             PROVE  Creditworthy'
  BY DEF Creditworthy
<1> DEFINE Store == Earned(chain, PlacesOf(chain), accounts, Clock(chain, Len(chain)),
                           Climb(chain))
           Pass == Earned(Append(chain, block), PassPlaces, batch, EffectiveNow,
                          Climb(Append(chain, block)))
<1>1. restarts = 0 => Store /\ (phase = "apply" => Pass)
  BY DEF Creditworthy
<1>2. Store' /\ (phase' = "apply" => Pass') => Creditworthy'
  BY DEF Creditworthy
<1>3. ASSUME UNCHANGED << accounts, chain >> PROVE Store => Store'
  BY <1>3
<1>4. chain \in Seq(Block) /\ block \in Block
  BY DEF TypeOK
<1> HIDE DEF Store, Pass
<1>5. ASSUME UNCHANGED << accounts, chain, restarts >>, phase' # "apply"
      PROVE  Creditworthy'
  BY <1>1, <1>2, <1>3, <1>5
<1>6. ASSUME NEW txs \in TxLists, NEW t \in Times, Begin(txs, t) PROVE Creditworthy'
  BY <1>5, <1>6 DEF Begin, stored
<1>7. CASE ExecuteTx
  <2>1. UNCHANGED << accounts, chain, restarts, phase, block, lastTimestamps >>
    BY <1>7 DEF ExecuteTx, stored
  <2>2. ASSUME phase = "apply" PROVE Pass'
    <3>1. Pass
      BY <1>1, <2>1, <2>2
    <3>2. Earned(Append(chain, block), PassPlaces', batch', EffectiveNow,
                 Climb(Append(chain, block)))
      BY <1>7, <2>2, <3>1, EarnedTx DEF Pass
    <3>3. EffectiveNow' = EffectiveNow
          /\ Climb(Append(chain, block))' = Climb(Append(chain, block))
          /\ Append(chain, block)' = Append(chain, block)
      BY <2>1 DEF EffectiveNow
    <3> QED BY <3>2, <3>3 DEF Pass
  <2> QED BY <1>1, <1>2, <1>3, <2>1, <2>2
<1>8. CASE TxFails \/ DeployFails \/ PreviewOnly
  BY <1>5, <1>8 DEF TxFails, DeployFails, PreviewOnly, Abandon, Return, stored
<1>9. CASE DeployPanics \/ Restart
  <2>1. restarts' = restarts + 1 /\ restarts \in Nat
    BY <1>9 DEF DeployPanics, Restart, Reboot, TypeOK
  <2> QED BY <2>1
<1>10. CASE StartApply
  <2>1. /\ UNCHANGED << accounts, chain, restarts, block, lastTimestamps >>
        /\ batch' = accounts /\ pos' = 1
    BY <1>10 DEF StartApply, stored
  <2>2. PassPlaces' = PlacesOf(chain)
    <3>1. pos' - 1 = 0
      BY <2>1
    <3>2. FirstOf(Len(chain') + 1, 0) = {}
      BY FirstOfNext
    <3> QED BY <2>1, <3>1, <3>2 DEF PassPlaces
  <2>3. Store
    BY <1>1, <2>1
  <2>4. Earned(Append(chain, block), PlacesOf(chain), accounts, EffectiveNow,
               Climb(Append(chain, block)))
    BY <2>3, EarnedStart DEF Store
  <2>5. EffectiveNow' = EffectiveNow
        /\ Climb(Append(chain, block))' = Climb(Append(chain, block))
        /\ Append(chain, block)' = Append(chain, block)
    BY <2>1 DEF EffectiveNow
  <2>6. Pass'
    BY <2>1, <2>2, <2>4, <2>5 DEF Pass
  <2> QED BY <1>2, <1>3, <2>1, <2>3, <2>6
<1>11. CASE EndApply
  <2>1. /\ PassDone /\ phase = "apply" /\ batch = expected
        /\ restarts = 0
    BY <1>11, PassEnds DEF EndApply
  <2>2. /\ accounts' = batch /\ chain' = Append(chain, block) /\ phase' = "idle"
    BY <1>11, <2>1 DEF EndApply, Return
  <2>3. pos - 1 = Len(block.txs)
    BY <2>1 DEF PassDone, PassOK, TypeOK, Block
  <2>4. PlacesOf(chain') = PassPlaces
    BY <1>4, <2>2, <2>3, PlacesAppend DEF PassPlaces
  <2>5. Len(chain') = Len(chain) + 1
    BY <1>4, <2>2
  <2>6. Clock(chain', Len(chain')) = EffectiveNow
    BY <2>2, <2>5, PassClock
  <2>7. Pass
    BY <1>1, <2>1
  <2>8. Earned(chain', PlacesOf(chain'), accounts', Clock(chain', Len(chain')),
               Climb(chain'))
    BY <2>2, <2>4, <2>6, <2>7 DEF Pass
  <2> QED BY <1>2, <2>2, <2>8 DEF Store
<1>12. CASE UNCHANGED vars
  <2>1. UNCHANGED << accounts, chain, restarts, phase, block, lastTimestamps, batch, pos >>
    BY <1>12 DEF vars, pass, stored
  <2>2. Pass => Pass'
    BY <2>1 DEF Pass, PassPlaces, EffectiveNow
  <2> QED BY <1>1, <1>2, <1>3, <2>1, <2>2
<1> QED BY <1>6, <1>7, <1>8, <1>9, <1>10, <1>11, <1>12 DEF Next

\* The credits at genesis, where nothing was paid.
LEMMA InitCredit == Init => Creditworthy
<1> SUFFICES ASSUME Init PROVE Creditworthy
  OBVIOUS
<1>1. /\ chain = << >> /\ accounts = FreshAccounts /\ phase # "apply" /\ TypeOK
  BY InitType DEF Init
<1>2. PlacesOf(chain) = {}
  BY <1>1 DEF PlacesOf
<1>3. FreshAccounts \in [Addr -> Account]
  BY <1>1 DEF TypeOK
<1>4. ASSUME NEW a \in Addr PROVE FreshAccounts[a].rc = 0
  BY DEF FreshAccounts, ApplyGenesis, ZeroAccount
<1>5. ASSUME NEW blocks, NEW now, NEW climb
      PROVE  Earned(blocks, {}, FreshAccounts, now, climb)
  <2>1. ASSUME NEW a \in Addr
        PROVE  EarnedBy(blocks, {}, a, FreshAccounts[a], now, climb)
    <3>1. Sent(blocks, {}, a) = {}
      BY DEF Sent
    <3>2. Stakes(blocks, {}, a) = FreshAccounts[a].stake + 0
      BY <3>1, TotalEmpty DEF Stakes
    <3>3. FreshAccounts[a].stake \in Nat
      BY <1>3 DEF Account
    <3> QED BY <1>4, <3>1, <3>2, <3>3 DEF EarnedBy
  <2> QED BY <2>1, FS_EmptySet DEF Earned
<1> QED BY <1>1, <1>2, <1>5 DEF Creditworthy

\* Whatever mix of blocks ran and however their timestamps went back and forth, no
\* account pays more than its stake has earned by the forward moves of the
\* effective clock (Regen, EffectiveTime and the charge of applyTransactionWithKV).
THEOREM CreditAlways == Spec => []CreditEarned
<1>1. TypeOK /\ WindowIsTail /\ Creditworthy => CreditEarned
  <2> SUFFICES ASSUME TypeOK, WindowIsTail, Creditworthy, restarts = 0, NEW a \in Addr
               PROVE  accounts[a].rc + Charged(a)
                        <= (Alpha + Beta * Climb(chain)) * EverStaked(a)
    BY DEF CreditEarned
  <2> DEFINE P == PlacesOf(chain)
  <2>1. Committed = P /\ \A p : TxAt(p) = At(chain, p)
    BY DEF Committed, PlacesOf, TxAt, At
  <2>2. SentBy(a) = Sent(chain, P, a)
    BY <2>1 DEF SentBy, Sent
  <2>3. Charged(a) = Spending(chain, P, a)
    BY <2>1, <2>2 DEF Charged, Spending, Prices
  <2>4. EverStaked(a) = Stakes(chain, P, a)
    BY <2>1, <2>2 DEF EverStaked, Stakes, Grants, Delegation
  <2>5. Earned(chain, P, accounts, Clock(chain, Len(chain)), Climb(chain))
    BY DEF Creditworthy
  <2> HIDE DEF P
  <2>6. PICK st, spent, climb \in Nat :
           /\ st = Stakes(chain, P, a) /\ spent = Spending(chain, P, a)
           /\ climb = Climb(chain)
    <3>1. Stakes(chain, P, a) \in Nat /\ Spending(chain, P, a) \in Nat
      BY <2>5, SumsNat, Parameters DEF Earned
    <3>2. Climb(chain) \in Nat
      BY ClimbAppend DEF TypeOK
    <3> QED BY <3>1, <3>2
  <2>7. PICK rc \in Nat, time \in Int : rc = accounts[a].rc /\ time = accounts[a].time
    BY DEF TypeOK, Account
  <2>8. Alpha \in Nat /\ Beta \in Nat
    BY Parameters DEF RatesNat
  <2>9. PICK bound \in Nat : bound = (Alpha + Beta * climb) * st
    <3>1. Alpha + Beta * climb \in Nat
      BY <2>8, ProductNat
    <3> QED BY <3>1, ProductNat
  <2>10. EarnedBy(chain, P, a, accounts[a], Clock(chain, Len(chain)), climb)
    BY <2>5, <2>6 DEF Earned
  <2>11. CASE Sent(chain, P, a) = {}
    <3>1. rc = 0
      BY <2>7, <2>10, <2>11 DEF EarnedBy
    <3>2. spent = 0
      BY <2>5, <2>6, <2>11, SumsNat, Parameters DEF Earned
    <3> QED BY <2>3, <2>4, <2>6, <2>7, <2>9, <3>1, <3>2
  <2>12. CASE Sent(chain, P, a) # {}
    <3>1. Len(chain) # 0
      <4>1. Len(chain) = 0 => DOMAIN chain = {}
        BY DEF TypeOK
      <4>2. DOMAIN chain = {} => P = {}
        BY DEF P, PlacesOf
      <4>3. P = {} => Sent(chain, P, a) = {}
        BY DEF Sent
      <4> QED BY <2>12, <4>1, <4>2, <4>3
    <3>2. PICK owed \in Nat : owed = Forward(time, Clock(chain, Len(chain)))
      BY <2>7, <3>1, PassClock, ForwardSteps
    <3>3. PICK more \in Nat : more = (Beta * owed) * st
      <4>1. Beta * owed \in Nat
        BY <2>8, ProductNat
      <4> QED BY <4>1, ProductNat
    <3>4. rc + spent + more <= bound
      BY <2>6, <2>7, <2>9, <2>10, <2>12, <3>2, <3>3 DEF EarnedBy
    <3>5. rc + spent <= bound
      BY <3>4
    <3> QED BY <2>3, <2>4, <2>6, <2>7, <2>9, <3>5
  <2> QED BY <2>11, <2>12
<1>2. Init => Creditworthy
  BY InitCredit
<1>3. TypeOK /\ PassOK /\ WindowIsTail /\ Creditworthy /\ [Next]_vars => Creditworthy'
  BY CreditStep
<1> QED BY <1>1, <1>2, <1>3, WindowAlways, InitType, TypeStep, InitPass, PassStep,
           PTL DEF Spec

=============================================================================
