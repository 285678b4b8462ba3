------------------------------ MODULE MCLedger ------------------------------
(* Small instances of Ledger: two genesis accounts, one of them staked, and  *)
(* a third address that only receives.                                       *)
EXTENDS Ledger, TLC

CONSTANTS alice, bob, carol,  \* the addresses
          MCKinds,            \* kinds of the transactions alice sends
          MCCodes,            \* code of her deployments
          MCNonces            \* nonces in use

MCGenesis == alice :> [balance |-> 3, stake |-> 2]
             @@ bob :> [balance |-> 1, stake |-> 1]

\* Alice sends every kind to carol and pays herself; bob pays carol.
MCAlice ==
  { t \in [from : {alice}, to : {alice, carol}, nonce : MCNonces, kind : MCKinds,
           amount : {1, 2}, key : {TRUE}, code : MCCodes] :
      /\ t.amount = 2 => t.kind = "undelegate" /\ t.nonce = 0
      /\ t.kind # "transfer" => t.to = carol
      /\ t.kind # "deploy" => t.code = CHOOSE c \in MCCodes : TRUE
      /\ t.kind \in {"deploy", "call"} => t.nonce = 0 }
MCBob ==
  [from : {bob}, to : {carol}, nonce : {0}, kind : {"transfer"}, amount : {1},
   key : BOOLEAN, code : {"good"}]
MCTx == MCAlice \union MCBob

\* Empty blocks, single transactions, and two of one sender or of both: first alice
\* moves tokens, then she does so again or bob pays.
MCFirst ==
  { t \in MCAlice : t.nonce = 0 /\ t.kind \in {"transfer", "delegate", "undelegate"} }
MCSecond ==
  { t \in MCAlice : t.nonce = 1 /\ t.kind \in {"transfer", "undelegate"} } \union MCBob
MCTxLists ==
  {<< >>} \union { << t >> : t \in MCTx }
    \union { << t, u >> : t \in MCFirst, u \in MCSecond }
=============================================================================
