------------------------------ MODULE HotStuff ------------------------------
(* The consensus engine of pkg/consensus/hotstuff.go, one Engine per node,   *)
(* with the part of the store (pkg/state) that its handlers write.           *)
(*                                                                           *)
(* Every exported handler runs under Engine.mu, so it is one action.  The    *)
(* network is a set of sent messages: a message may be delivered late, twice,*)
(* out of order or never.  Nothing under src/ calls the engine: the driver   *)
(* that delivers messages, fires timeouts and hands QCs to FinalizeBlock is  *)
(* external, and its two obligations are the constant DriverInOrder and the  *)
(* pairing of a QC with the block it names.                                  *)
EXTENDS Integers, Sequences, FiniteSets, Sums, RCTime

CONSTANTS
  Node,            \* operator addresses of the nodes that run an engine
  ValidatorSeq,    \* the validator set, in the order of DPoS.ValidatorSet
  Power,           \* voting power of each node (0 for a non-validator)
  U64,             \* modulus of the machine's unsigned arithmetic (2^64)
  BlockHash,       \* hashes of blocks; hashing is collision free, so a block
  BlockOf,         \*   is named by its hash: BlockOf[h] is its content
  ZeroHash,        \* types.Hash{}, the parent of the first block
  TxList,          \* the transaction lists a block may carry
  Time,            \* block timestamps
  Root,            \* state roots (an account state, by its Merkle root)
  GenesisRoot,     \* the root of the genesis accounts
  Exec(_, _, _),   \* PreviewBlock: root, transactions, effective time |-> root
  Reject,          \* what Exec returns when a transaction fails
  ApplyGenesis(_), \* Node.applyGenesis on an account state
  GenesisTime, MaxSkewSec, WindowN,   \* RC clock parameters
  DriverInOrder,   \* does the driver finalize heights one after the other?
  Collectors,      \* bound: the nodes that votes are delivered to
  Timers,          \* bound: the nodes whose timeout may fire
  MaxRound,        \* bound on the rounds a timeout may reach
  MaxProposals,    \* bound on the number of proposals
  MaxRestarts,     \* bound on the number of crashes and restarts
  MaxIOFailures    \* bound on the failed writes of consensus metadata

Block == [height : Nat \ {0}, prev : BlockHash \union {ZeroHash}, root : Root,
          timestamp : Time, proposer : Node, txs : TxList]

Validator == { ValidatorSeq[i] : i \in DOMAIN ValidatorSeq }

ASSUME NodeAssumption ==
  /\ IsFiniteSet(Node)
  /\ ValidatorSeq \in Seq(Node)
  /\ \A i, j \in DOMAIN ValidatorSeq :
       ValidatorSeq[i] = ValidatorSeq[j] => i = j
  /\ Power \in [Node -> Nat]
  /\ U64 \in Nat \ {0}

ASSUME BlockAssumption ==
  /\ ZeroHash \notin BlockHash
  /\ BlockOf \in [BlockHash -> Block]

ASSUME LedgerAssumption ==
  /\ Time \subseteq Int
  /\ GenesisRoot \in Root
  /\ \A r \in Root : ApplyGenesis(r) \in Root
  /\ GenesisTime \in Int
  /\ MaxSkewSec \in Nat
  /\ WindowN \in Nat \ {0}

ASSUME BoundAssumption ==
  /\ DriverInOrder \in BOOLEAN
  /\ Collectors \subseteq Node /\ Timers \subseteq Node
  /\ {MaxRound, MaxProposals, MaxRestarts, MaxIOFailures} \subseteq Nat

VARIABLES
  height,         \* Engine.height: the last finalized height
  round,          \* Engine.round
  lastFinalized,  \* Engine.lastFinalized
  votes,          \* Engine.votes: at most one vote per block and validator
  disk,           \* consensus metadata in the store
  root,           \* the account state in the store
  lastTimestamps, \* the timestamp window in the store
  stored,         \* blocks in the store's height index, with their signatures
  proposals, precommits, qcs, viewChanges,  \* messages sent so far
  restarts, ioFailures                      \* how often each has happened

memory == << height, round, lastFinalized, votes >>
ledger == << root, lastTimestamps, stored >>
sent == << proposals, precommits, qcs, viewChanges >>
faults == << restarts, ioFailures >>
vars == << memory, disk, ledger, sent, faults >>

Proposal == [hash : BlockHash, round : Nat]

\* A vote stands for its signature as well: the signature covers all four
\* fields (PrecommitSignBytes) and only the validator can make it.
Vote == [hash : BlockHash, height : Nat, round : Nat, validator : Node]

\* SigBitmap and Signatures together are the set of the votes collected.
QC == [hash : BlockHash, height : Nat, round : Nat, sigs : SUBSET Vote]

ViewChange == [height : Nat, round : Nat, validator : Node]

Metadata == [height : Nat, round : Nat, last : BlockHash \union {ZeroHash}]

TypeOK ==
  /\ height \in [Node -> Nat]
  /\ round \in [Node -> Nat]
  /\ lastFinalized \in [Node -> BlockHash \union {ZeroHash}]
  /\ votes \in [Node -> SUBSET Vote]
  /\ disk \in [Node -> Metadata]
  /\ root \in [Node -> Root]
  /\ lastTimestamps \in [Node -> Seq(Int)]
  /\ stored \in [Node -> SUBSET [hash : BlockHash, sigs : SUBSET Vote]]
  /\ proposals \subseteq Proposal
  /\ precommits \subseteq Vote
  /\ qcs \subseteq QC
  /\ viewChanges \subseteq ViewChange
  /\ restarts \in Nat
  /\ ioFailures \in Nat

-----------------------------------------------------------------------------
(* Voting power and the proposer schedule.                                   *)

TotalPower == Total(Power, Validator)

\* Mutant: half of the power is enough.
HalfIsQuorum(signers) ==
  (Total(Power, signers) * 2) % U64 >= TotalPower % U64

\* tryBuildQC's test, in machine arithmetic.
HasQuorum(signers) ==
  (Total(Power, signers) * 3) % U64 > (TotalPower * 2) % U64

\* isExpectedProposerLocked: the validator in whose slice of the cumulative
\* power the seed falls.
IsExpectedProposer(n, addr) ==
  /\ TotalPower # 0
  /\ \E i \in DOMAIN ValidatorSeq :
       LET seed == (height[n] + round[n]) % TotalPower
           upto(k) == Total(Power, { ValidatorSeq[j] : j \in 1 .. k })
       IN  upto(i - 1) <= seed /\ seed < upto(i) /\ ValidatorSeq[i] = addr

\* State.PreviewBlock at node n.
PreviewBlock(n, b) ==
  Exec(root[n], b.txs,
       EffectiveTime(b.timestamp, lastTimestamps[n], MaxSkewSec))

-----------------------------------------------------------------------------
(* The handlers.                                                             *)

\* ProposeBlock: the transactions (the mempool's) and the timestamp (the
\* clock's, never clamped) are inputs.
ProposeBlock(n) ==
  /\ Cardinality(proposals) < MaxProposals
  /\ IsExpectedProposer(n, n)
  /\ \E h \in BlockHash :
       /\ BlockOf[h].height = height[n] + 1
       /\ BlockOf[h].prev = lastFinalized[n]
       /\ BlockOf[h].proposer = n
       /\ PreviewBlock(n, BlockOf[h]) = BlockOf[h].root
       /\ proposals' = proposals \union {[hash |-> h, round |-> round[n]]}
  /\ UNCHANGED << memory, disk, ledger, precommits, qcs, viewChanges, faults >>

\* Mutant: the timestamp enters the window with the vote.
HandleProposalSlides(n, p) ==
  LET b == BlockOf[p.hash] IN
  /\ b.height = height[n] + 1
  /\ b.prev = lastFinalized[n]
  /\ IsExpectedProposer(n, b.proposer)
  /\ lastTimestamps[n] # << >> =>
       EffectiveTime(b.timestamp, lastTimestamps[n], MaxSkewSec) = b.timestamp
  /\ PreviewBlock(n, b) = b.root
  /\ precommits' = precommits \union
       {[hash |-> p.hash, height |-> b.height, round |-> p.round,
         validator |-> n]}
  /\ lastTimestamps' =
       [lastTimestamps EXCEPT ![n] = Slide(@, b.timestamp, WindowN)]
  /\ UNCHANGED << memory, disk, root, stored, proposals, qcs, viewChanges, faults >>

\* HandleProposal: neither the proposal's round nor the votes this node has
\* already cast are looked at, and the vote takes the proposal's round.
HandleProposal(n, p) ==
  LET b == BlockOf[p.hash] IN
  /\ b.height = height[n] + 1
  /\ b.prev = lastFinalized[n]
  /\ IsExpectedProposer(n, b.proposer)
  /\ lastTimestamps[n] # << >> =>
       EffectiveTime(b.timestamp, lastTimestamps[n], MaxSkewSec) = b.timestamp
  /\ PreviewBlock(n, b) = b.root
  /\ precommits' = precommits \union
       {[hash |-> p.hash, height |-> b.height, round |-> p.round,
         validator |-> n]}
  /\ UNCHANGED << memory, disk, ledger, proposals, qcs, viewChanges, faults >>

\* Mutant: the QC carries the round before the engine's.
TryBuildQCLastRound(n, hash, held) ==
  LET sigs == { v \in held : v.hash = hash /\ v.validator \in Validator } IN
  IF HasQuorum({ v.validator : v \in sigs })
    THEN {[hash |-> hash, height |-> height[n] + 1, round |-> round[n] - 1,
           sigs |-> sigs]}
    ELSE {}

\* tryBuildQC: the QC, if the collected votes carry a quorum.  It is stamped
\* with the engine's height and round, not with the votes'.
TryBuildQC(n, hash, held) ==
  LET sigs == { v \in held : v.hash = hash /\ v.validator \in Validator } IN
  IF HasQuorum({ v.validator : v \in sigs })
    THEN {[hash |-> hash, height |-> height[n] + 1, round |-> round[n],
           sigs |-> sigs]}
    ELSE {}

\* The vote map after a vote: a later vote of the same validator for the same
\* block replaces the earlier one.
Collect(held, v) ==
  { w \in held : w.hash # v.hash \/ w.validator # v.validator } \union {v}

\* Mutant: the vote's height is not compared with the engine's.
HandlePrecommitVoteAnyHeight(n, v) ==
  /\ v.validator \in Validator
  /\ votes' = [votes EXCEPT ![n] = Collect(@, v)]
  /\ qcs' = qcs \union TryBuildQC(n, v.hash, Collect(votes[n], v))
  /\ UNCHANGED << height, round, lastFinalized, disk, ledger, proposals,
                  precommits, viewChanges, faults >>

HandlePrecommitVote(n, v) ==
  /\ v.height = height[n] + 1
  /\ v.validator \in Validator
  /\ votes' = [votes EXCEPT ![n] = Collect(@, v)]
  /\ qcs' = qcs \union TryBuildQC(n, v.hash, Collect(votes[n], v))
  /\ UNCHANGED << height, round, lastFinalized, disk, ledger, proposals,
                  precommits, viewChanges, faults >>

\* SetConsensusState, and the write failing.
Persist(n, h, r, last) ==
  /\ disk' = [disk EXCEPT ![n] = [height |-> h, round |-> r, last |-> last]]
  /\ UNCHANGED ioFailures

PersistFails ==
  /\ ioFailures < MaxIOFailures
  /\ ioFailures' = ioFailures + 1
  /\ UNCHANGED disk

\* Mutant: the round is not written.
EnterRoundInMemory(n, r) ==
  /\ round' = [round EXCEPT ![n] = r]
  /\ UNCHANGED << height, lastFinalized, votes, disk, ledger, sent, faults >>

\* The round changes in memory whether or not it could be written.
EnterRound(n, r) ==
  /\ round' = [round EXCEPT ![n] = r]
  /\ Persist(n, height[n], r, lastFinalized[n]) \/ PersistFails
  /\ UNCHANGED << height, lastFinalized, votes, ledger, sent, restarts >>

\* Mutant: the height is compared with the finalized one.
HandleViewChangeLate(n, vc) ==
  /\ vc.height = height[n]
  /\ vc.validator \in Validator
  /\ vc.round > round[n]
  /\ EnterRound(n, vc.round)

\* HandleViewChange: one validator's message is enough to jump to its round.
HandleViewChange(n, vc) ==
  /\ vc.height = height[n] + 1
  /\ vc.validator \in Validator
  /\ vc.round > round[n]
  /\ EnterRound(n, vc.round)

OnTimeout(n) ==
  /\ round[n] < MaxRound
  /\ EnterRound(n, round[n] + 1)

\* Mutant: the index is keyed by the block's hash.
SetBlockByHash(index, qc) ==
  { s \in index : s.hash # qc.hash } \union {[hash |-> qc.hash, sigs |-> qc.sigs]}

\* setBlockWithWriter: the height index holds one block per height, the last one
\* written, here with the signatures FinalizeBlock put into it.
SetBlock(index, qc) ==
  { s \in index : BlockOf[s.hash].height # BlockOf[qc.hash].height }
    \union {[hash |-> qc.hash, sigs |-> qc.sigs]}

\* State.ApplyBlock's batch: accounts, timestamp window and block are committed
\* together.  Neither the parent nor the height of the block is checked.
ApplyBlock(n, qc) ==
  LET b == BlockOf[qc.hash] IN
  /\ PreviewBlock(n, b) = b.root
  /\ lastTimestamps' =
       [lastTimestamps EXCEPT ![n] = Slide(@, b.timestamp, WindowN)]
  /\ stored' = [stored EXCEPT ![n] = SetBlock(@, qc)]

\* What the driver hands to FinalizeBlock: a QC and the block it names.
Delivered(n, qc) ==
  DriverInOrder => BlockOf[qc.hash].height = height[n] + 1

\* Mutant: the metadata is written before the engine's height is updated.
FinalizeBlockStale(n, qc) ==
  LET b == BlockOf[qc.hash] IN
  /\ Delivered(n, qc)
  /\ ApplyBlock(n, qc)
  /\ root' = [root EXCEPT ![n] = b.root]
  /\ height' = [height EXCEPT ![n] = b.height]
  /\ lastFinalized' = [lastFinalized EXCEPT ![n] = qc.hash]
  /\ round' = [round EXCEPT ![n] = 0]
  /\ Persist(n, height[n], 0, lastFinalized[n])
  /\ votes' = [votes EXCEPT ![n] = { v \in @ : v.hash # qc.hash }]
  /\ UNCHANGED << sent, restarts >>

\* FinalizeBlock; the votes are dropped only if the metadata was written.
FinalizeBlock(n, qc) ==
  LET b == BlockOf[qc.hash] IN
  /\ Delivered(n, qc)
  /\ ApplyBlock(n, qc)
  /\ root' = [root EXCEPT ![n] = b.root]
  /\ height' = [height EXCEPT ![n] = b.height]
  /\ lastFinalized' = [lastFinalized EXCEPT ![n] = qc.hash]
  /\ round' = [round EXCEPT ![n] = 0]
  /\ \/ /\ Persist(n, b.height, 0, qc.hash)
        /\ votes' = [votes EXCEPT ![n] = { v \in @ : v.hash # qc.hash }]
     \/ PersistFails /\ UNCHANGED votes
  /\ UNCHANGED << sent, restarts >>

-----------------------------------------------------------------------------
(* Restarts, and the parts outside src/.                                     *)

\* NewEngine with loadConsensusState: the votes are gone, the rest comes from
\* the metadata on disk.
Load(n) ==
  /\ restarts < MaxRestarts
  /\ restarts' = restarts + 1
  /\ votes' = [votes EXCEPT ![n] = {}]
  /\ height' = [height EXCEPT ![n] = disk[n].height]
  /\ round' = [round EXCEPT ![n] = disk[n].round]
  /\ lastFinalized' = [lastFinalized EXCEPT ![n] = disk[n].last]
  /\ UNCHANGED << disk, sent, ioFailures >>

\* A crash between handlers and the next Node.Start, which applies the genesis
\* accounts to the store again.
Restart(n) ==
  /\ Load(n)
  /\ root' = [root EXCEPT ![n] = ApplyGenesis(@)]
  /\ UNCHANGED << lastTimestamps, stored >>

\* A crash inside FinalizeBlock, after ApplyBlock's commit and before the
\* consensus metadata is written, and the next start.
CrashInFinalize(n, qc) ==
  /\ Delivered(n, qc)
  /\ ApplyBlock(n, qc)
  /\ root' = [root EXCEPT ![n] = ApplyGenesis(BlockOf[qc.hash].root)]
  /\ Load(n)

\* No code under src/ makes a ViewChange; a node announces the round it is in.
SendViewChange(n) ==
  /\ round[n] > 0
  /\ viewChanges' = viewChanges \union
       {[height |-> height[n] + 1, round |-> round[n], validator |-> n]}
  /\ UNCHANGED << memory, disk, ledger, proposals, precommits, qcs, faults >>

-----------------------------------------------------------------------------

Init ==
  /\ height = [n \in Node |-> 0]
  /\ round = [n \in Node |-> 0]
  /\ lastFinalized = [n \in Node |-> ZeroHash]
  /\ votes = [n \in Node |-> {}]
  /\ disk = [n \in Node |-> [height |-> 0, round |-> 0, last |-> ZeroHash]]
  /\ root = [n \in Node |-> GenesisRoot]
  /\ lastTimestamps = [n \in Node |-> << GenesisTime >>]
  /\ stored = [n \in Node |-> {}]
  /\ proposals = {}
  /\ precommits = {}
  /\ qcs = {}
  /\ viewChanges = {}
  /\ restarts = 0
  /\ ioFailures = 0

Next ==
  \E n \in Node :
    \/ ProposeBlock(n)
    \/ \E p \in proposals : HandleProposal(n, p)
    \/ n \in Collectors /\ \E v \in precommits : HandlePrecommitVote(n, v)
    \/ \E vc \in viewChanges : HandleViewChange(n, vc)
    \/ n \in Timers /\ OnTimeout(n)
    \/ \E qc \in qcs : FinalizeBlock(n, qc)
    \/ \E qc \in qcs : CrashInFinalize(n, qc)
    \/ Restart(n)
    \/ SendViewChange(n)

Spec == Init /\ [][Next]_vars

\* What a driver that never gives up provides: a scheduled proposer is asked to
\* propose, sent messages are delivered, QCs are handed to FinalizeBlock
\* and a node announces the round it is in.  Timeouts and restarts may happen
\* but need not.
Fairness ==
  \A n \in Node :
    /\ WF_vars(ProposeBlock(n))
    /\ WF_vars(\E p \in proposals : HandleProposal(n, p))
    /\ n \in Collectors => \A m \in Node, h \in BlockHash :
         WF_vars(\E v \in precommits :
                   /\ v.validator = m /\ v.hash = h
                   /\ HandlePrecommitVote(n, v))
    /\ WF_vars(\E vc \in viewChanges : HandleViewChange(n, vc))
    /\ WF_vars(\E qc \in qcs : FinalizeBlock(n, qc))
    /\ WF_vars(SendViewChange(n))

FairSpec == Spec /\ Fairness

-----------------------------------------------------------------------------
(* Properties.                                                               *)

Signers(sigs) == { v.validator : v \in sigs }

\* The arithmetic of the quorum test does not wrap.
PowerFits == 3 * TotalPower < U64

\* A QC is backed by its votes: whatever was replaced, dropped or delivered
\* twice in the collector's vote map (HandlePrecommitVote, tryBuildQC), its
\* signatures are votes really cast for that block at that height, and they
\* carry more than two thirds of the power.
QCBacked ==
  \A qc \in qcs :
    /\ qc.sigs \subseteq precommits
    /\ \A v \in qc.sigs : v.hash = qc.hash /\ v.height = qc.height
    /\ 3 * Total(Power, Signers(qc.sigs)) > 2 * TotalPower

\* The validators that voted for both blocks.
VotedBoth(h1, h2) ==
  { v \in Validator : /\ \E p \in precommits : p.hash = h1 /\ p.validator = v
                     /\ \E q \in precommits : q.hash = h2 /\ q.validator = v }

\* Forks are accountable: when two nodes have finalized different blocks of one
\* height (HandleProposal keeps no record of votes, so they can), validators
\* with more than a third of the power have voted for both.
ForkAccountability ==
  \A n, m \in Node : \A s \in stored[n], t \in stored[m] :
    (/\ BlockOf[s.hash].height = BlockOf[t.hash].height
     /\ s.hash # t.hash)
      => 3 * Total(Power, VotedBoth(s.hash, t.hash)) > TotalPower

\* There is a QC for this block, at this height.
Certified(hash, h) == \E qc \in qcs : qc.hash = hash /\ qc.height = h

\* Certified blocks form chains back to genesis: HandleProposal lets a node vote
\* only for a child of its last finalized block, so the parent of a certified
\* block is certified one height below, on every fork and after any restart.
CertifiedParent ==
  \A qc \in qcs :
    LET b == BlockOf[qc.hash] IN
    /\ qc.height = b.height
    /\ IF b.prev = ZeroHash THEN b.height = 1
                            ELSE Certified(b.prev, b.height - 1)

\* The certified chain a state stands for: votes and QCs without their rounds,
\* and the height index without the signatures.
ChainCast == { [hash |-> v.hash, validator |-> v.validator] : v \in precommits }
ChainCertified == { qc.hash : qc \in qcs }
ChainIndex == [n \in Node |-> { s.hash : s \in stored[n] }]

TwoThirds ==
  { S \in SUBSET Validator : 3 * Total(Power, S) > 2 * TotalPower }

Chain == INSTANCE CertifiedChain WITH
  Quorum <- TwoThirds,
  cast <- ChainCast, certified <- ChainCertified, index <- ChainIndex

\* The engines implement the certified chain: whatever votes were collected late,
\* twice or replaced, whatever round a QC is stamped with, and wherever
\* FinalizeBlock failed or crashed, each step casts one vote on a certified
\* chain, certifies one block with votes already cast by more than two thirds of
\* the power, puts one certified block in a node's index, or changes none of
\* these (HandleProposal, tryBuildQC, setBlockWithWriter).
ImplementsChain == Chain!Spec

\* The store is never behind the consensus metadata, and ahead of it only by the
\* blocks whose metadata could not be written and by the one a crash came between
\* ApplyBlock's commit and SetConsensusState for: the height index has no gap and
\* holds the block the metadata names (an in-order driver).
StoreFollowsMetadata ==
  \A n \in Node :
    /\ \E k \in 0 .. (ioFailures + 1) :
         /\ { BlockOf[s.hash].height : s \in stored[n] }
              = 1 .. (disk[n].height + k)
         /\ restarts = 0 => k <= ioFailures
    /\ disk[n].height > 0 => \E s \in stored[n] : s.hash = disk[n].last

\* No step takes a node's view (height, then round) back but a restart after a
\* failed metadata write, and that by no more heights than writes have failed (an
\* in-order driver): each handler that changes the view has written it before it
\* returns, or has dropped the write's error.
ViewNeverRegresses ==
  [][\A n \in Node :
       \/ height'[n] > height[n]
       \/ height'[n] = height[n] /\ round'[n] >= round[n]
       \/ /\ restarts' > restarts
          /\ ioFailures > 0
          /\ height'[n] + ioFailures >= height[n]]_vars

\* Two nodes have finalized different blocks at one height.
Forked ==
  \E n, m \in Node : \E s \in stored[n], t \in stored[m] :
    BlockOf[s.hash].height = BlockOf[t.hash].height /\ s.hash # t.hash

\* Replicas are deterministic: as long as the chain has not forked, nodes that
\* stand on the same finalized block have the same accounts and the same
\* timestamp window, so that they validate what comes next alike, whatever
\* proposals, rounds and failed writes each has seen (an in-order driver, no
\* restart: a block applied again after a crash in FinalizeBlock slides the
\* window twice).
ReplicasAgree ==
  (restarts = 0 /\ ~Forked) =>
    \A n, m \in Node : lastFinalized[n] = lastFinalized[m] =>
      root[n] = root[m] /\ lastTimestamps[n] = lastTimestamps[m]

\* With a driver that never gives up every node finalizes every height, however
\* the (finitely many) timeouts and view changes have spread the rounds; only a
\* fork, on which no quorum may share a parent any more, can stop the chain.
Progress ==
  <>(Forked \/ \A n \in Node, h \in BlockHash : BlockOf[h].height <= height[n])

\* What the documentation says and the code does not do.

\* hotstuff.go: "FinalizeBlock finalizes the block once QC achieved", README.md:
\* "block finality": two nodes never finalize different blocks at one height.
Agreement == ~Forked

\* VerifyQC: every signature must verify over the QC's own block, height, round.
VerifyQC(qc) ==
  \A v \in qc.sigs :
    v.hash = qc.hash /\ v.height = qc.height /\ v.round = qc.round

\* types.go: "QuorumCertificate represents a QC for a round": a QC the engine
\* builds passes VerifyQC.
QCVerifies == \A qc \in qcs : VerifyQC(qc)

=============================================================================
