----------------------------- MODULE MCMempool ------------------------------
(* Small instances of Mempool: two senders; hashes ordered by sender, then   *)
(* against the nonce.                                                        *)
EXTENDS Mempool, TLC

CONSTANTS a, b, MCCosts

MCTx == [from : Sender, nonce : 0 .. (MaxNonce - 1), cost : MCCosts]
MCCostOf(t) == t.cost

MCRank(t) == (IF t.from = a THEN 0 ELSE 100) + 10 * (MaxNonce - t.nonce) + t.cost
MCHashBelow(t, u) == MCRank(t) < MCRank(u)
=============================================================================
