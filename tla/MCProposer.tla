----------------------------- MODULE MCProposer -----------------------------
(* A small instance of Proposer: alice and bob are staked; alice submits to  *)
(* this node what can go wrong in different ways, other proposers commit the *)
(* first transactions.                                                       *)
EXTENDS Proposer, TLC

CONSTANTS alice, bob

MCGenesis == alice :> [balance |-> 2, stake |-> 3]
             @@ bob :> [balance |-> 1, stake |-> 2]

MCSend(from, to, nonce, kind, amount) ==
  [from |-> from, to |-> to, nonce |-> nonce, kind |-> kind, amount |-> amount,
   key |-> TRUE, code |-> "good"]

\* Alice: a transfer, one she may not be able to pay, an undelegation and the
\* delegation that makes up for it, a deployment, a transfer after them.  Bob: a
\* delegation after his first transaction, and a first one.
MCPoolTx ==
  { MCSend(alice, bob, 1, "transfer", 1), MCSend(alice, bob, 1, "transfer", 4),
    MCSend(alice, alice, 1, "undelegate", 2), MCSend(alice, bob, 2, "transfer", 1),
    MCSend(alice, alice, 2, "deploy", 0), MCSend(alice, alice, 2, "delegate", 2),
    MCSend(alice, bob, 3, "transfer", 1),
    MCSend(bob, alice, 0, "transfer", 1), MCSend(bob, bob, 1, "delegate", 1) }

MCOtherTx ==
  { MCSend(alice, bob, 0, "transfer", 1), MCSend(alice, alice, 0, "undelegate", 2),
    MCSend(alice, bob, 1, "transfer", 1), MCSend(bob, alice, 0, "transfer", 1) }

MCRank(t) == (IF t.from = alice THEN 0 ELSE 100) + 10 * t.nonce + t.amount
MCHashBelow(t, u) ==
  \/ MCRank(t) < MCRank(u)
  \/ MCRank(t) = MCRank(u) /\ t.kind = "undelegate" /\ u.kind # "undelegate"
=============================================================================
