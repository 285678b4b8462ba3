----------------------------- MODULE MCHotStuff -----------------------------
(* Small instances of HotStuff: three validators with powers 2, 1, 1, of     *)
(* which two can be a quorum or fall short of it, or two, with powers 1, 1   *)
(* (the proposer changes with every round) or 2, 1 (it keeps its turn).      *)
(* The ledger is a set of one-shot transactions: executing one again is      *)
(* rejected, as a repeated nonce is.                                         *)
EXTENDS HotStuff

CONSTANTS v1, v2, v3,  \* the nodes
          MCLead,      \* power of v1; the others have 1
          MaxHeight,   \* bound on the height of a block
          MCTxList,    \* sets of transactions a block may carry
          MCTimes      \* block timestamps

MCThree == << v1, v2, v3 >>
MCTwo == << v1, v2 >>
MCPower == [n \in Node |-> IF n = v1 THEN MCLead ELSE 1]

MCRoot == SUBSET UNION MCTxList
MCReject == {"reject"}
MCExec(r, txs, t) == IF txs \intersect r = {} THEN r \union txs ELSE MCReject
MCApplyGenesis(r) == {}

\* The hash of the block with the c-th of K contents on the block hashed p is
\* p * K + c, and genesis is 0: hashes number the tree of all chains.
MCContents ==
  [txs : MCTxList, root : MCRoot, timestamp : MCTimes, proposer : Node]
MCContent ==
  LET listed[S \in SUBSET MCContents] ==
        IF S = {} THEN << >>
        ELSE LET c == CHOOSE c \in S : TRUE IN Append(listed[S \ {c}], c)
  IN  listed[MCContents]
MCBranches == Len(MCContent)
MCPrev(h) == (h - 1) \div MCBranches
MCHeight(h) == IF h <= MCBranches THEN 1 ELSE 2
Hashes ==
  1 .. (IF MaxHeight = 1 THEN MCBranches ELSE MCBranches * (MCBranches + 1))
Blocks ==
  [h \in Hashes |->
     LET c == MCContent[h - MCPrev(h) * MCBranches] IN
     [height |-> MCHeight(h), prev |-> MCPrev(h), root |-> c.root,
      timestamp |-> c.timestamp, proposer |-> c.proposer, txs |-> c.txs]]

\* TLC evaluates a definition once, but one that a cfg substitutes at each use.
MCBlockHash == Hashes
MCBlockOf == Blocks
=============================================================================
