------------------------------ MODULE BlockLog ------------------------------
(* What the store of BlockStore promises: a log of blocks, each the child of *)
(* the one before it, and the accounts that executing the blocks, as they    *)
(* are read from the log, leads to since the node's last start.              *)
EXTENDS Integers, Sequences

CONSTANTS
  ZeroHash,
  HashBlock(_),
  StateRoot(_),    \* of a set of accounts
  Outcomes(_, _),  \* the accounts that a transaction may lead to from others
  Genesis,         \* the accounts of the genesis file
  MaxTxs           \* bound on the transactions of a block

VARIABLES
  chain,    \* the blocks that can be read, by height
  accounts  \* the accounts that can be read

vars == << chain, accounts >>

\* The accounts after all of txs.
Execute(txs, accts) ==
  LET after[i \in 0 .. Len(txs)] ==
        IF i = 0 THEN {accts}
        ELSE UNION { Outcomes(before, txs[i]) : before \in after[i - 1] }
  IN  after[Len(txs)]

\* The log grows by a block of at most MaxTxs transactions that extends the last
\* one and names the state it leads to.
Append1 ==
  /\ Len(chain') = Len(chain) + 1
  /\ SubSeq(chain', 1, Len(chain)) = chain
  /\ LET b == chain'[Len(chain')] IN
     /\ b.height = Len(chain')
     /\ b.prev = IF chain = << >> THEN ZeroHash ELSE HashBlock(chain[Len(chain)])
     /\ Len(b.txs) <= MaxTxs
     /\ accounts' \in Execute(b.txs, accounts)
     /\ b.root = StateRoot(accounts')

\* The node starts again: the genesis accounts are as they were, whatever the log
\* says of them.
Restart ==
  /\ accounts' = { a \in accounts : \A g \in Genesis : a.address # g.address } \union Genesis
  /\ chain' = chain

Init == chain = << >> /\ accounts = Genesis

Next == Append1 \/ Restart

Spec == Init /\ [][Next]_vars

=============================================================================
