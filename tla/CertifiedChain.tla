--------------------------- MODULE CertifiedChain ---------------------------
(* What consensus promises, without engines, rounds, messages, timeouts,     *)
(* restarts or failed writes: nodes vote for blocks whose parent is          *)
(* certified, a quorum of validators that voted for a block certifies it,    *)
(* and a node's chain index takes certified blocks only, one per height.     *)
(* It does not promise agreement: a node may vote for two blocks of one      *)
(* height, as it may in HotStuff.                                            *)
EXTENDS Integers

CONSTANTS
  Node,
  Quorum,     \* the sets of validators that can certify a block together
  BlockHash, BlockOf, ZeroHash

VARIABLES
  cast,       \* the votes: which validator for which block
  certified,  \* the blocks a quorum has voted for
  index       \* each node's blocks, at most one per height

vars == << cast, certified, index >>

\* The block continues a certified chain, or is the first of one.
Continues(h) ==
  IF BlockOf[h].prev = ZeroHash
    THEN BlockOf[h].height = 1
    ELSE /\ BlockOf[h].prev \in certified
         /\ BlockOf[h].height = BlockOf[BlockOf[h].prev].height + 1

CastVote(n, h) ==
  /\ Continues(h)
  /\ cast' = cast \union {[hash |-> h, validator |-> n]}
  /\ UNCHANGED << certified, index >>

Certify(h) ==
  /\ \E Q \in Quorum : \A v \in Q : [hash |-> h, validator |-> v] \in cast
  /\ certified' = certified \union {h}
  /\ UNCHANGED << cast, index >>

\* A block of the same height is replaced: chains may fork.
Finalize(n, h) ==
  /\ h \in certified
  /\ index' = [index EXCEPT ![n] =
       { g \in @ : BlockOf[g].height # BlockOf[h].height } \union {h}]
  /\ UNCHANGED << cast, certified >>

Init ==
  /\ cast = {}
  /\ certified = {}
  /\ index = [n \in Node |-> {}]

Next ==
  \E h \in BlockHash :
    \/ Certify(h)
    \/ \E n \in Node : CastVote(n, h) \/ Finalize(n, h)

Spec == Init /\ [][Next]_vars
=============================================================================
