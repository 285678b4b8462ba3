---------------------------- MODULE Transactions ----------------------------
(* What a transaction does to the accounts: applyTransactionWithKV           *)
(* (pkg/state/state.go) with the key rule of pkg/tx/verify.go, the resource  *)
(* credits (pkg/rc) and the outcomes of the contract engine                  *)
(* (pkg/contracts/engine.go) as it meets them; and what the pool thinks a    *)
(* transaction costs (pkg/tx/coster.go).                                     *)
(*                                                                           *)
(* The operators take the accounts and give the set of the accounts they may *)
(* lead to, which is empty when the transaction fails.                       *)
EXTENDS RC

CONSTANTS
  Addr,            \* account addresses
  GenesisAccounts, \* [address |-> [balance, stake]] of the genesis file
  TxSize,          \* encoded size of a transaction
  CodeSize,        \* length of a contract's code
  U64              \* modulus of balances and stakes

Kind == {"transfer", "delegate", "undelegate", "deploy", "call", "governance"}

\* What a contract's code is good for: rejected by ValidateWasmCode, accepted
\* but not compilable, or fine.
Code == {"invalid", "broken", "good"}

\* "to" is the receiver of a transfer and the contract of a deployment or call;
\* "key" says whether the payload carries the sender's public key.
Tx == [from : Addr, to : Addr, nonce : Nat, kind : Kind, amount : Nat,
       key : BOOLEAN, code : Code]

\* types.Account; "key" says whether the public key is registered, "code"
\* whether contract code is stored.
Account == [balance : Nat, stake : Nat, nonce : Nat, rc : Nat, rcMax : Nat,
            time : Int, key : BOOLEAN, code : BOOLEAN]

\* No amount of an account leaves the machine word.
InWord(a) ==
  /\ a.balance < U64 /\ a.stake < U64
  /\ a.rc <= MaxUint /\ a.rcMax <= MaxUint
InWords(accts) == \A a \in Addr : InWord(accts[a])

ASSUME TransactionsAssumption ==
  /\ DOMAIN GenesisAccounts \subseteq Addr
  /\ \A a \in DOMAIN GenesisAccounts :
       {GenesisAccounts[a].balance, GenesisAccounts[a].stake} \subseteq 0 .. U64 - 1
  /\ TxSize \in Nat \ {0} /\ CodeSize \in Nat
  /\ U64 \in Nat \ {0}

ZeroAccount == [balance |-> 0, stake |-> 0, nonce |-> 0, rc |-> 0, rcMax |-> 0,
                time |-> 0, key |-> FALSE, code |-> FALSE]

\* Mutant: the credit is full at genesis.
ApplyGenesisFull(accts) ==
  [a \in Addr |->
     IF a \in DOMAIN GenesisAccounts
       THEN [ZeroAccount EXCEPT !.balance = GenesisAccounts[a].balance,
                                !.stake = GenesisAccounts[a].stake,
                                !.rc = RCMax(GenesisAccounts[a].stake),
                                !.rcMax = RCMax(GenesisAccounts[a].stake)]
       ELSE accts[a]]

\* Node.applyGenesis writes the genesis accounts over whatever is stored.
ApplyGenesis(accts) ==
  [a \in Addr |->
     IF a \in DOMAIN GenesisAccounts
       THEN [ZeroAccount EXCEPT !.balance = GenesisAccounts[a].balance,
                                !.stake = GenesisAccounts[a].stake,
                                !.rcMax = RCMax(GenesisAccounts[a].stake)]
       ELSE accts[a]]

FreshAccounts == ApplyGenesis([a \in Addr |-> ZeroAccount])

-----------------------------------------------------------------------------
(* Checks and charges.                                                       *)

\* The sender with its key registered and its credit regenerated.
Regenerated(accts, tx, now) ==
  LET a == accts[tx.from] IN
  [a EXCEPT !.key = TRUE,
            !.rc = Regen(@, a.stake, a.time, now),
            !.rcMax = RCMax(a.stake),
            !.time = now]

\* A first spend needs the key in the payload (ResolveSenderPubKey).
KeyKnown(accts, tx) == accts[tx.from].key \/ tx.key

\* Mutant: a nonce may be skipped.
AdmissibleWithGaps(accts, tx) ==
  KeyKnown(accts, tx) /\ accts[tx.from].nonce <= tx.nonce

\* The checks before the payload: the key, and nonces are used in order.
Admissible(accts, tx) ==
  KeyKnown(accts, tx) /\ accts[tx.from].nonce = tx.nonce

\* Mutant: the credit is not compared with the cost.
SettleUnchecked(accts, tx, sender, cost) ==
  {[accts EXCEPT ![tx.from] =
      [sender EXCEPT !.rc = @ - cost,
                     !.nonce = @ + 1,
                     !.rcMax = RCMax(sender.stake)]]}

\* The end of every transaction: charge the credit, count the nonce and write
\* the sender back, over whatever the payload wrote under its address.
Settle(accts, tx, sender, cost) ==
  IF sender.rc < cost THEN {}
  ELSE {[accts EXCEPT ![tx.from] =
           [sender EXCEPT !.rc = @ - cost,
                          !.nonce = @ + 1,
                          !.rcMax = RCMax(sender.stake)]]}

\* What the ledger charges for a transaction when the contract engine knows the
\* contracts in "engine": nothing for the code of a deployment, and nothing
\* but the size for a call of a contract it does not know.
LedgerCost(tx, engine) ==
  CASE tx.kind = "transfer" -> Cost(TxSize, 0, 2)
    [] tx.kind = "call" /\ tx.to \in engine -> Cost(TxSize, CodeSize, 1)
    [] tx.kind = "call" /\ tx.to \notin engine -> Cost(TxSize, 0, 0)
    [] OTHER -> Cost(TxSize, 0, 1)

-----------------------------------------------------------------------------
(* The payloads.                                                             *)

\* Mutant: the receiver's credit is filled up too.
TransferFills(accts, tx, sender, cost) ==
  IF sender.balance < tx.amount THEN {}
  ELSE Settle([accts EXCEPT ![tx.to].balance = (@ + tx.amount) % U64,
                            ![tx.to].rc = RCMax(accts[tx.to].stake)], tx,
              [sender EXCEPT !.balance = @ - tx.amount], cost)

\* The receiver is read from the accounts, so a transfer to oneself is credited
\* on a copy that Settle overwrites.
Transfer(accts, tx, sender, cost) ==
  IF sender.balance < tx.amount THEN {}
  ELSE Settle([accts EXCEPT ![tx.to].balance = (@ + tx.amount) % U64], tx,
              [sender EXCEPT !.balance = @ - tx.amount], cost)

StakeDelegate(accts, tx, sender, cost) ==
  IF sender.balance < tx.amount THEN {}
  ELSE Settle(accts, tx,
              [sender EXCEPT !.balance = @ - tx.amount,
                             !.stake = (@ + tx.amount) % U64], cost)

\* Mutant: the stake stays.
StakeUndelegateKeeps(accts, tx, sender, cost) ==
  IF sender.stake < tx.amount THEN {}
  ELSE Settle(accts, tx,
              [sender EXCEPT !.balance = (@ + tx.amount) % U64], cost)

StakeUndelegate(accts, tx, sender, cost) ==
  IF sender.stake < tx.amount THEN {}
  ELSE Settle(accts, tx,
              [sender EXCEPT !.stake = @ - tx.amount,
                             !.balance = (@ + tx.amount) % U64], cost)

\* The preview validates the code and stores it.  In the real pass DeployContract
\* ends in an error or in a write to ContractEngine.compiled, a map that nothing
\* ever creates.
Deploy(accts, tx, sender, cost, preview) ==
  IF ~preview \/ tx.code = "invalid" THEN {}
  ELSE Settle([accts EXCEPT ![tx.to].code = TRUE], tx, sender, cost)

\* The preview charges the engine's estimates.  In the real pass ExecuteContract
\* never succeeds: an unknown contract is an error, and the engine knows only
\* contracts whose code did not compile, which it tries to compile again.
Call(accts, tx, sender, cost, preview) ==
  IF preview THEN Settle(accts, tx, sender, cost) ELSE {}

\* applyTransactionWithKV at effective time "now".
Execute(accts, tx, now, preview, engine) ==
  LET sender == Regenerated(accts, tx, now)
      cost == LedgerCost(tx, engine)
  IN  IF ~Admissible(accts, tx) THEN {}
      ELSE CASE tx.kind = "transfer" -> Transfer(accts, tx, sender, cost)
             [] tx.kind = "delegate" -> StakeDelegate(accts, tx, sender, cost)
             [] tx.kind = "undelegate" -> StakeUndelegate(accts, tx, sender, cost)
             [] tx.kind = "deploy" -> Deploy(accts, tx, sender, cost, preview)
             [] tx.kind = "call" -> Call(accts, tx, sender, cost, preview)
             [] tx.kind = "governance" -> Settle(accts, tx, sender, cost)

\* The accounts after all of txs (the loops of PreviewBlock and ApplyBlock).
ExecuteAll(accts, txs, now, preview, engine) ==
  LET after[i \in 0 .. Len(txs)] ==
        IF i = 0 THEN {accts}
        ELSE UNION { Execute(a, txs[i], now, preview, engine) : a \in after[i - 1] }
  IN  after[Len(txs)]

-----------------------------------------------------------------------------
(* The pool's price (Coster.Cost).                                           *)

\* Mutant: the code of a deployment and its write are both free.
CosterCheapDeploy(tx, engine) ==
  IF tx.kind = "deploy" THEN Cost(TxSize, 0, 0) ELSE LedgerCost(tx, engine)

\* Coster.Cost counts the length of a deployment's code, which the ledger does
\* not charge.
CosterCost(tx, engine) ==
  IF tx.kind = "deploy" THEN Cost(TxSize, CodeSize, 1)
                        ELSE LedgerCost(tx, engine)

=============================================================================
