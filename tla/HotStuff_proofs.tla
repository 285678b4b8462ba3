--------------------------- MODULE HotStuff_proofs ---------------------------
(* Theorems about HotStuff for every set of nodes, voting powers and blocks, *)
(* every driver, and any number of restarts and failed writes.               *)
EXTENDS HotStuff, SumsTheorems, SequenceTheorems

\* A block is the last finalized one at a height: genesis, or certified there.
FinalizedAt(hash, h) ==
  IF hash = ZeroHash THEN h = 0 ELSE Certified(hash, h)

\* A block with a vote or a QC extends a finalized block.
ExtendsFinalized(hash) ==
  FinalizedAt(BlockOf[hash].prev, BlockOf[hash].height - 1)

\* The strengthening of QCBacked and CertifiedParent that steps preserve.
HeldVotesSent == \A n \in Node : votes[n] \subseteq precommits

VotesExtendFinalized ==
  \A v \in precommits :
    BlockOf[v.hash].height = v.height /\ ExtendsFinalized(v.hash)

QCSound ==
  \A qc \in qcs :
    /\ qc.sigs \subseteq precommits
    /\ \A v \in qc.sigs : v.hash = qc.hash /\ v.height = qc.height
    /\ Signers(qc.sigs) \subseteq Validator
    /\ HasQuorum(Signers(qc.sigs))
    /\ qc.height = BlockOf[qc.hash].height
    /\ ExtendsFinalized(qc.hash)

ViewsFinalized ==
  \A n \in Node : /\ FinalizedAt(lastFinalized[n], height[n])
                  /\ FinalizedAt(disk[n].last, disk[n].height)

StoredHasQC ==
  \A n \in Node : \A s \in stored[n] :
    \E qc \in qcs : qc.hash = s.hash /\ qc.sigs = s.sigs

Sound ==
  /\ HeldVotesSent
  /\ VotesExtendFinalized
  /\ QCSound
  /\ ViewsFinalized
  /\ StoredHasQC

-----------------------------------------------------------------------------
(* Types.                                                                    *)

\* What a hash names is a block: the fields the handlers read of a proposal's
\* block (types.Block) have their types.
LEMMA BlockType ==
  ASSUME NEW h \in BlockHash
  PROVE  /\ BlockOf[h].height \in Nat /\ BlockOf[h].height > 0
         /\ BlockOf[h].prev \in BlockHash \union {ZeroHash}
         /\ BlockOf[h].root \in Root
         /\ BlockOf[h].timestamp \in Int
<1>1. BlockOf[h] \in Block
  BY BlockAssumption
<1>2. /\ BlockOf[h].height \in Nat \ {0}
      /\ BlockOf[h].prev \in BlockHash \union {ZeroHash}
      /\ BlockOf[h].root \in Root
      /\ BlockOf[h].timestamp \in Time
  BY <1>1 DEF Block
<1>3. Time \subseteq Int
  BY LedgerAssumption
<1>4. BlockOf[h].height \in Nat /\ BlockOf[h].height > 0
  BY <1>2
<1> QED BY <1>2, <1>3, <1>4

\* The timestamp window stays a sequence of timestamps.
LEMMA SlideType ==
  ASSUME NEW last \in Seq(Int), NEW t \in Int, NEW w \in Nat \ {0}
  PROVE  Slide(last, t, w) \in Seq(Int)
<1> DEFINE longer == Append(last, t)
<1>1. longer \in Seq(Int) /\ Len(longer) \in Nat
  OBVIOUS
<1>2. CASE Len(longer) > w
  <2>1. Len(longer) - w + 1 \in 1 .. Len(longer) + 1
    BY <1>1, <1>2
  <2>2. SubSeq(longer, Len(longer) - w + 1, Len(longer)) \in Seq(Int)
    <3>1. \A i \in Len(longer) - w + 1 .. Len(longer) : longer[i] \in Int
      BY <1>1, <2>1
    <3> HIDE DEF longer
    <3> QED BY <1>1, <3>1, SubSeqProperties
  <2> QED BY <1>2, <2>2 DEF Slide
<1>3. CASE ~(Len(longer) > w)
  BY <1>1, <1>3 DEF Slide
<1> QED BY <1>2, <1>3

\* SetConsensusState, done or failed, leaves well-formed metadata on disk.
LEMMA PersistType ==
  ASSUME disk \in [Node -> Metadata], ioFailures \in Nat,
         NEW n \in Node, NEW h \in Nat, NEW r \in Nat,
         NEW last \in BlockHash \union {ZeroHash},
         Persist(n, h, r, last) \/ PersistFails
  PROVE  disk' \in [Node -> Metadata] /\ ioFailures' \in Nat
BY DEF Persist, PersistFails, Metadata

\* OnTimeout and HandleViewChange, which enter a round and write it, keep the
\* shape of the state.
LEMMA EnterRoundType ==
  ASSUME TypeOK, NEW n \in Node, NEW r \in Nat, EnterRound(n, r)
  PROVE  TypeOK'
<1>1. disk' \in [Node -> Metadata] /\ ioFailures' \in Nat
  BY PersistType DEF TypeOK, EnterRound
<1> QED BY <1>1 DEF TypeOK, EnterRound, ledger, sent

\* ApplyBlock's commit leaves a well-formed window and height index.
LEMMA ApplyBlockType ==
  ASSUME TypeOK, NEW n \in Node, NEW qc \in qcs, ApplyBlock(n, qc)
  PROVE  /\ lastTimestamps' \in [Node -> Seq(Int)]
         /\ stored' \in [Node -> SUBSET [hash : BlockHash, sigs : SUBSET Vote]]
<1>1. qc.hash \in BlockHash /\ qc.sigs \in SUBSET Vote
  BY DEF TypeOK, QC
<1>2. Slide(lastTimestamps[n], BlockOf[qc.hash].timestamp, WindowN) \in Seq(Int)
  BY <1>1, BlockType, SlideType, LedgerAssumption DEF TypeOK
<1>3. SetBlock(stored[n], qc) \subseteq [hash : BlockHash, sigs : SUBSET Vote]
  BY <1>1 DEF TypeOK, SetBlock
<1> QED BY <1>2, <1>3 DEF TypeOK, ApplyBlock

\* loadConsensusState gives the engine a well-formed view.
LEMMA LoadType ==
  ASSUME TypeOK, NEW n \in Node, Load(n)
  PROVE  /\ height' \in [Node -> Nat]
         /\ round' \in [Node -> Nat]
         /\ lastFinalized' \in [Node -> BlockHash \union {ZeroHash}]
         /\ votes' \in [Node -> SUBSET Vote]
         /\ disk' \in [Node -> Metadata]
         /\ proposals' \subseteq Proposal
         /\ precommits' \subseteq Vote
         /\ qcs' \subseteq QC
         /\ viewChanges' \subseteq ViewChange
         /\ restarts' \in Nat
         /\ ioFailures' \in Nat
<1>1. disk[n] \in Metadata
  BY DEF TypeOK
<1>2. disk[n].height \in Nat /\ disk[n].round \in Nat
      /\ disk[n].last \in BlockHash \union {ZeroHash}
  BY <1>1 DEF Metadata
<1> QED BY <1>2 DEF TypeOK, Load, sent

\* A QC built from votes is a QC.
LEMMA BuiltQCType ==
  ASSUME TypeOK, NEW n \in Node, NEW v \in precommits
  PROVE  TryBuildQC(n, v.hash, Collect(votes[n], v)) \subseteq QC
<1>1. v \in Vote /\ v.hash \in BlockHash
  BY DEF TypeOK, Vote
<1>2. Collect(votes[n], v) \subseteq Vote
  BY <1>1 DEF TypeOK, Collect
<1>3. height[n] + 1 \in Nat /\ round[n] \in Nat
  BY DEF TypeOK
<1> QED BY <1>1, <1>2, <1>3 DEF TryBuildQC, QC

\* The state of every reachable configuration of the engines, the stores and
\* the network has its declared shape.
THEOREM TypeCorrect == Spec => []TypeOK
<1>1. Init => TypeOK
  BY LedgerAssumption DEF Init, TypeOK, Metadata
<1>2. TypeOK /\ [Next]_vars => TypeOK'
  <2> SUFFICES ASSUME TypeOK, [Next]_vars PROVE TypeOK'
    OBVIOUS
  <2>0. CASE UNCHANGED vars
    BY <2>0 DEF TypeOK, vars, memory, ledger, sent, faults
  <2>1. ASSUME NEW n \in Node, ProposeBlock(n) PROVE TypeOK'
    <3>1. \A h \in BlockHash : [hash |-> h, round |-> round[n]] \in Proposal
      BY DEF TypeOK, Proposal
    <3>2. proposals' \subseteq Proposal
      BY <2>1, <3>1 DEF TypeOK, ProposeBlock
    <3> QED BY <2>1, <3>2 DEF TypeOK, ProposeBlock, memory, ledger, faults
  <2>2. ASSUME NEW n \in Node, NEW p \in proposals, HandleProposal(n, p)
        PROVE TypeOK'
    <3>1. p.hash \in BlockHash /\ p.round \in Nat
      BY DEF TypeOK, Proposal
    <3>2. [hash |-> p.hash, height |-> BlockOf[p.hash].height,
           round |-> p.round, validator |-> n] \in Vote
      BY <3>1, BlockType DEF Vote
    <3>3. precommits' \subseteq Vote
      BY <2>2, <3>2 DEF TypeOK, HandleProposal
    <3> QED BY <2>2, <3>3 DEF TypeOK, HandleProposal, memory, ledger, faults
  <2>3. ASSUME NEW n \in Node, NEW v \in precommits, HandlePrecommitVote(n, v)
        PROVE TypeOK'
    <3>1. qcs' \subseteq QC
      BY <2>3, BuiltQCType DEF TypeOK, HandlePrecommitVote
    <3>2. votes' \in [Node -> SUBSET Vote]
      BY <2>3 DEF TypeOK, HandlePrecommitVote, Collect
    <3> QED BY <2>3, <3>1, <3>2
            DEF TypeOK, HandlePrecommitVote, ledger, faults
  <2>4. ASSUME NEW n \in Node, NEW vc \in viewChanges, HandleViewChange(n, vc)
        PROVE TypeOK'
    <3>1. vc.round \in Nat
      BY DEF TypeOK, ViewChange
    <3> QED BY <2>4, <3>1, EnterRoundType DEF HandleViewChange
  <2>5. ASSUME NEW n \in Node, OnTimeout(n) PROVE TypeOK'
    <3>1. round[n] + 1 \in Nat
      BY DEF TypeOK
    <3> QED BY <2>5, <3>1, EnterRoundType DEF OnTimeout
  <2>6. ASSUME NEW n \in Node, NEW qc \in qcs, FinalizeBlock(n, qc)
        PROVE TypeOK'
    <3>1. qc.hash \in BlockHash
      BY DEF TypeOK, QC
    <3>2. BlockOf[qc.hash].height \in Nat /\ BlockOf[qc.hash].root \in Root
      BY <3>1, BlockType
    <3>3. /\ lastTimestamps' \in [Node -> Seq(Int)]
          /\ stored' \in [Node -> SUBSET [hash : BlockHash, sigs : SUBSET Vote]]
      BY <2>6, ApplyBlockType DEF FinalizeBlock
    <3>4. disk' \in [Node -> Metadata] /\ ioFailures' \in Nat
      BY <2>6, <3>1, <3>2, PersistType DEF TypeOK, FinalizeBlock
    <3>5. votes' \in [Node -> SUBSET Vote]
      BY <2>6 DEF TypeOK, FinalizeBlock
    <3> QED BY <2>6, <3>1, <3>2, <3>3, <3>4, <3>5
            DEF TypeOK, FinalizeBlock, sent
  <2>7. ASSUME NEW n \in Node, NEW qc \in qcs, CrashInFinalize(n, qc)
        PROVE TypeOK'
    <3>1. BlockOf[qc.hash].root \in Root
      BY BlockType DEF TypeOK, QC
    <3>2. root' \in [Node -> Root]
      BY <2>7, <3>1, LedgerAssumption DEF TypeOK, CrashInFinalize
    <3>3. /\ lastTimestamps' \in [Node -> Seq(Int)]
          /\ stored' \in [Node -> SUBSET [hash : BlockHash, sigs : SUBSET Vote]]
      BY <2>7, ApplyBlockType DEF CrashInFinalize
    <3> QED BY <2>7, <3>2, <3>3, LoadType DEF TypeOK, CrashInFinalize
  <2>8. ASSUME NEW n \in Node, Restart(n) PROVE TypeOK'
    <3>1. root' \in [Node -> Root]
      BY <2>8, LedgerAssumption DEF TypeOK, Restart
    <3>2. lastTimestamps' \in [Node -> Seq(Int)]
          /\ stored' \in [Node -> SUBSET [hash : BlockHash, sigs : SUBSET Vote]]
      BY <2>8 DEF TypeOK, Restart
    <3> QED BY <2>8, <3>1, <3>2, LoadType DEF TypeOK, Restart
  <2>9. ASSUME NEW n \in Node, SendViewChange(n) PROVE TypeOK'
    <3>1. [height |-> height[n] + 1, round |-> round[n], validator |-> n]
            \in ViewChange
      BY DEF TypeOK, ViewChange
    <3> QED BY <2>9, <3>1
            DEF TypeOK, SendViewChange, memory, ledger, faults
  <2> QED BY <2>0, <2>1, <2>2, <2>3, <2>4, <2>5, <2>6, <2>7, <2>8, <2>9 DEF Next
<1> QED BY <1>1, <1>2, PTL DEF Spec

-----------------------------------------------------------------------------
(* Sound is preserved.                                                       *)

\* QCs are never withdrawn, so what is finalized stays so.
LEMMA FinalizedKept ==
  ASSUME NEW hash, NEW h, FinalizedAt(hash, h), qcs \subseteq qcs'
  PROVE  FinalizedAt(hash, h)'
BY DEF FinalizedAt, Certified

\* A block whose parent is finalized keeps a finalized parent: no handler
\* withdraws a QC.
LEMMA ExtendsKept ==
  ASSUME NEW hash, ExtendsFinalized(hash), qcs \subseteq qcs'
  PROVE  ExtendsFinalized(hash)'
BY FinalizedKept DEF ExtendsFinalized

\* Votes stay sound when votes are not added: HandleProposal alone casts them.
LEMMA VotesKept ==
  ASSUME VotesExtendFinalized, precommits' = precommits, qcs \subseteq qcs'
  PROVE  VotesExtendFinalized'
<1> SUFFICES ASSUME NEW v \in precommits
             PROVE  BlockOf[v.hash].height = v.height /\ ExtendsFinalized(v.hash)'
  BY DEF VotesExtendFinalized
<1>1. BlockOf[v.hash].height = v.height /\ ExtendsFinalized(v.hash)
  BY DEF VotesExtendFinalized
<1> QED BY <1>1, ExtendsKept

\* QCs stay sound while votes and QCs are only added to: HandlePrecommitVote
\* alone makes them.
LEMMA QCsKept ==
  ASSUME QCSound, precommits \subseteq precommits', qcs' = qcs
  PROVE  QCSound'
<1> SUFFICES ASSUME NEW qc \in qcs
             PROVE  /\ qc.sigs \subseteq precommits'
                    /\ \A v \in qc.sigs : v.hash = qc.hash /\ v.height = qc.height
                    /\ Signers(qc.sigs) \subseteq Validator
                    /\ HasQuorum(Signers(qc.sigs))
                    /\ qc.height = BlockOf[qc.hash].height
                    /\ ExtendsFinalized(qc.hash)'
  BY DEF QCSound
<1>1. ExtendsFinalized(qc.hash)'
  <2>1. ExtendsFinalized(qc.hash)
    BY DEF QCSound
  <2> QED BY <2>1, ExtendsKept
<1> QED BY <1>1 DEF QCSound

\* The views in memory and on disk stay on finalized blocks in the steps that
\* leave them alone (ProposeBlock, HandleProposal, HandlePrecommitVote).
LEMMA ViewsKept ==
  ASSUME ViewsFinalized, qcs \subseteq qcs',
         UNCHANGED << height, lastFinalized, disk >>
  PROVE  ViewsFinalized'
<1> SUFFICES ASSUME NEW n \in Node
             PROVE  /\ FinalizedAt(lastFinalized[n], height[n])'
                    /\ FinalizedAt(disk[n].last, disk[n].height)'
  BY DEF ViewsFinalized
<1>1. /\ FinalizedAt(lastFinalized[n], height[n])
      /\ FinalizedAt(disk[n].last, disk[n].height)
  BY DEF ViewsFinalized
<1> QED BY <1>1 DEF FinalizedAt, Certified

\* Writing the metadata of a finalized block keeps the metadata finalized.
LEMMA PersistKept ==
  ASSUME TypeOK, ViewsFinalized, qcs' = qcs,
         NEW n \in Node, NEW h, NEW r, NEW last, FinalizedAt(last, h),
         Persist(n, h, r, last) \/ PersistFails
  PROVE  \A m \in Node : FinalizedAt(disk[m].last, disk[m].height)'
<1> SUFFICES ASSUME NEW m \in Node
             PROVE  FinalizedAt(disk[m].last, disk[m].height)'
  OBVIOUS
<1>1. FinalizedAt(disk[m].last, disk[m].height)
  BY DEF ViewsFinalized
<1>2. CASE disk'[m] = disk[m]
  BY <1>1, <1>2 DEF FinalizedAt, Certified
<1>3. CASE disk'[m] # disk[m]
  <2>1. disk'[m].last = last /\ disk'[m].height = h
    BY <1>3 DEF TypeOK, Persist, PersistFails
  <2> QED BY <2>1 DEF FinalizedAt, Certified
<1> QED BY <1>2, <1>3

\* OnTimeout and HandleViewChange, whether their write fails or not, keep the
\* invariant.
LEMMA EnterRoundSound ==
  ASSUME TypeOK, Sound, NEW n \in Node, NEW r, EnterRound(n, r)
  PROVE  Sound'
<1>1. /\ qcs' = qcs /\ precommits' = precommits
      /\ UNCHANGED << height, lastFinalized, votes, stored >>
  BY DEF EnterRound, ledger, sent
<1>2. FinalizedAt(lastFinalized[n], height[n])
  BY DEF Sound, ViewsFinalized
<1>3. Persist(n, height[n], r, lastFinalized[n]) \/ PersistFails
  BY DEF EnterRound
<1>4. \A m \in Node : FinalizedAt(disk[m].last, disk[m].height)'
  BY <1>1, <1>2, <1>3, PersistKept DEF Sound
<1>5. ViewsFinalized'
  BY <1>1, <1>4 DEF Sound, ViewsFinalized, FinalizedAt, Certified
<1>6. VotesExtendFinalized' /\ QCSound'
  BY <1>1, VotesKept, QCsKept DEF Sound
<1>7. HeldVotesSent' /\ StoredHasQC'
  BY <1>1 DEF Sound, HeldVotesSent, StoredHasQC
<1> QED BY <1>5, <1>6, <1>7 DEF Sound

\* The block a QC names is finalized at its height.
LEMMA QCFinalizes ==
  ASSUME TypeOK, QCSound, NEW qc \in qcs
  PROVE  FinalizedAt(qc.hash, BlockOf[qc.hash].height)
<1>1. qc.hash \in BlockHash /\ qc.hash # ZeroHash
  BY BlockAssumption DEF TypeOK, QC
<1>2. qc.height = BlockOf[qc.hash].height
  BY DEF QCSound
<1> QED BY <1>1, <1>2 DEF FinalizedAt, Certified

\* ApplyBlock stores a block that has a QC, with votes from that QC.
LEMMA ApplyBlockSound ==
  ASSUME TypeOK, StoredHasQC, NEW n \in Node, NEW qc \in qcs,
         ApplyBlock(n, qc), qcs' = qcs
  PROVE  StoredHasQC'
<1> SUFFICES ASSUME NEW m \in Node, NEW s \in stored'[m]
             PROVE  \E q \in qcs : q.hash = s.hash /\ q.sigs = s.sigs
  BY DEF StoredHasQC
<1>1. \/ s \in stored[m]
      \/ s = [hash |-> qc.hash, sigs |-> qc.sigs]
  <2>1. \/ stored'[m] = stored[m]
        \/ stored'[m] = SetBlock(stored[n], qc) /\ m = n
    BY DEF TypeOK, ApplyBlock
  <2>2. CASE stored'[m] = stored[m]
    BY <2>2
  <2>3. CASE stored'[m] = SetBlock(stored[n], qc) /\ m = n
    <3>1. s \in SetBlock(stored[m], qc)
      BY <2>3
    <3> QED BY <3>1 DEF SetBlock
  <2> QED BY <2>1, <2>2, <2>3
<1> QED BY <1>1 DEF StoredHasQC

\* A restart resumes from a finalized block: NewEngine reads what
\* persistConsensusState wrote.
LEMMA LoadSound ==
  ASSUME TypeOK, Sound, NEW n \in Node, Load(n)
  PROVE  HeldVotesSent' /\ VotesExtendFinalized' /\ QCSound' /\ ViewsFinalized'
<1>1. qcs' = qcs /\ precommits' = precommits /\ disk' = disk
  BY DEF Load, sent
<1>2. HeldVotesSent'
  BY <1>1 DEF TypeOK, Sound, HeldVotesSent, Load
<1>3. VotesExtendFinalized' /\ QCSound'
  BY <1>1, VotesKept, QCsKept DEF Sound
<1>4. ViewsFinalized'
  <2> SUFFICES ASSUME NEW m \in Node
               PROVE  /\ FinalizedAt(lastFinalized[m], height[m])'
                      /\ FinalizedAt(disk[m].last, disk[m].height)'
    BY DEF ViewsFinalized
  <2>1. /\ FinalizedAt(lastFinalized[m], height[m])
        /\ FinalizedAt(disk[m].last, disk[m].height)
    BY DEF Sound, ViewsFinalized
  <2>2. \/ lastFinalized'[m] = lastFinalized[m] /\ height'[m] = height[m]
        \/ lastFinalized'[m] = disk[m].last /\ height'[m] = disk[m].height
    BY DEF TypeOK, Load
  <2> QED BY <1>1, <2>1, <2>2 DEF FinalizedAt, Certified
<1> QED BY <1>2, <1>3, <1>4

\* A QC is built from votes for its own block only, all of its height.
LEMMA BuiltQCSound ==
  ASSUME TypeOK, Sound, NEW n \in Node, NEW v \in precommits,
         v.height = height[n] + 1,
         NEW qc \in TryBuildQC(n, v.hash, Collect(votes[n], v))
  PROVE  /\ qc.sigs \subseteq precommits
         /\ \A w \in qc.sigs : w.hash = qc.hash /\ w.height = qc.height
         /\ Signers(qc.sigs) \subseteq Validator
         /\ HasQuorum(Signers(qc.sigs))
         /\ qc.height = BlockOf[qc.hash].height
         /\ ExtendsFinalized(qc.hash)
<1> DEFINE sigs == { w \in Collect(votes[n], v) :
                       w.hash = v.hash /\ w.validator \in Validator }
<1>1. /\ qc = [hash |-> v.hash, height |-> height[n] + 1, round |-> round[n],
               sigs |-> sigs]
      /\ HasQuorum({ w.validator : w \in sigs })
  BY DEF TryBuildQC
<1>2. sigs \subseteq precommits
  BY DEF Collect, Sound, HeldVotesSent
<1>3. BlockOf[v.hash].height = v.height /\ ExtendsFinalized(v.hash)
  BY DEF Sound, VotesExtendFinalized
<1>4. \A w \in sigs : w.hash = v.hash /\ w.height = v.height
  BY <1>2, <1>3 DEF Sound, VotesExtendFinalized
<1>5. qc.hash = v.hash /\ qc.height = v.height /\ qc.sigs = sigs
  BY <1>1
<1>6. Signers(qc.sigs) \subseteq Validator /\ HasQuorum(Signers(qc.sigs))
  BY <1>1, <1>5 DEF Signers
<1> HIDE DEF sigs
<1> QED BY <1>2, <1>3, <1>4, <1>5, <1>6

\* Every handler, restart and crash keeps the invariant.
LEMMA SoundStep == TypeOK /\ Sound /\ [Next]_vars => Sound'
<1> SUFFICES ASSUME TypeOK, Sound, [Next]_vars PROVE Sound'
  OBVIOUS
<1>0. CASE UNCHANGED vars
  <2>1. /\ qcs' = qcs /\ precommits' = precommits
        /\ UNCHANGED << height, lastFinalized, disk, votes, stored >>
    BY <1>0 DEF vars, memory, ledger, sent, faults
  <2>2. VotesExtendFinalized' /\ QCSound' /\ ViewsFinalized'
    BY <2>1, VotesKept, QCsKept, ViewsKept DEF Sound
  <2>3. HeldVotesSent' /\ StoredHasQC'
    BY <2>1 DEF Sound, HeldVotesSent, StoredHasQC
  <2> QED BY <2>2, <2>3 DEF Sound
<1>1. ASSUME NEW n \in Node, ProposeBlock(n) \/ SendViewChange(n) PROVE Sound'
  <2>1. /\ qcs' = qcs /\ precommits' = precommits
        /\ UNCHANGED << height, lastFinalized, disk, votes, stored >>
    BY <1>1 DEF ProposeBlock, SendViewChange, memory, ledger
  <2>2. VotesExtendFinalized' /\ QCSound' /\ ViewsFinalized'
    BY <2>1, VotesKept, QCsKept, ViewsKept DEF Sound
  <2>3. HeldVotesSent' /\ StoredHasQC'
    BY <2>1 DEF Sound, HeldVotesSent, StoredHasQC
  <2> QED BY <2>2, <2>3 DEF Sound
<1>2. ASSUME NEW n \in Node, NEW p \in proposals, HandleProposal(n, p)
      PROVE Sound'
  <2> DEFINE b == BlockOf[p.hash]
             vote == [hash |-> p.hash, height |-> b.height, round |-> p.round,
                      validator |-> n]
  <2>1. /\ qcs' = qcs /\ precommits' = precommits \union {vote}
        /\ UNCHANGED << height, lastFinalized, disk, votes, stored >>
    BY <1>2 DEF HandleProposal, memory, ledger
  <2>2. QCSound' /\ ViewsFinalized' /\ HeldVotesSent' /\ StoredHasQC'
    <3> HIDE DEF vote
    <3> QED BY <2>1, QCsKept, ViewsKept
            DEF Sound, HeldVotesSent, StoredHasQC
  <2>3. ExtendsFinalized(p.hash)
    <3>1. b.height = height[n] + 1 /\ b.prev = lastFinalized[n]
      BY <1>2 DEF HandleProposal
    <3>2. b.height - 1 = height[n]
      BY <3>1 DEF TypeOK
    <3> QED BY <3>1, <3>2 DEF Sound, ViewsFinalized, ExtendsFinalized
  <2>4. VotesExtendFinalized'
    <3> SUFFICES ASSUME NEW v \in precommits'
                 PROVE  BlockOf[v.hash].height = v.height
                        /\ ExtendsFinalized(v.hash)'
      BY DEF VotesExtendFinalized
    <3>1. BlockOf[v.hash].height = v.height /\ ExtendsFinalized(v.hash)
      BY <2>1, <2>3 DEF Sound, VotesExtendFinalized
    <3> QED BY <2>1, <3>1, ExtendsKept
  <2> QED BY <2>2, <2>4 DEF Sound
<1>3. ASSUME NEW n \in Node, NEW v \in precommits, HandlePrecommitVote(n, v)
      PROVE Sound'
  <2> DEFINE new == TryBuildQC(n, v.hash, Collect(votes[n], v))
  <2>1. /\ precommits' = precommits /\ qcs' = qcs \union new
        /\ UNCHANGED << height, lastFinalized, disk, stored >>
        /\ votes' = [votes EXCEPT ![n] = Collect(@, v)]
        /\ v.height = height[n] + 1
    BY <1>3 DEF HandlePrecommitVote, ledger
  <2> HIDE DEF new
  <2>2. HeldVotesSent'
    BY <2>1 DEF TypeOK, Sound, HeldVotesSent, Collect
  <2>3. VotesExtendFinalized' /\ ViewsFinalized' /\ StoredHasQC'
    BY <2>1, VotesKept, ViewsKept DEF Sound, StoredHasQC
  <2>4. QCSound'
    <3> SUFFICES ASSUME NEW qc \in qcs'
                 PROVE  /\ qc.sigs \subseteq precommits
                        /\ \A w \in qc.sigs :
                             w.hash = qc.hash /\ w.height = qc.height
                        /\ Signers(qc.sigs) \subseteq Validator
                        /\ HasQuorum(Signers(qc.sigs))
                        /\ qc.height = BlockOf[qc.hash].height
                        /\ ExtendsFinalized(qc.hash)'
      BY <2>1 DEF QCSound
    <3>1. CASE qc \in qcs
      BY <2>1, <3>1, ExtendsKept DEF Sound, QCSound
    <3>2. CASE qc \in new
      <4>1. qc \in TryBuildQC(n, v.hash, Collect(votes[n], v))
        BY <3>2 DEF new
      <4>2. ExtendsFinalized(qc.hash)
        BY <2>1, <4>1, BuiltQCSound
      <4>3. ExtendsFinalized(qc.hash)'
        BY <2>1, <4>2, ExtendsKept
      <4> QED BY <2>1, <4>1, <4>3, BuiltQCSound
    <3> QED BY <2>1, <3>1, <3>2
  <2> QED BY <2>2, <2>3, <2>4 DEF Sound
<1>4. ASSUME NEW n \in Node, NEW vc \in viewChanges, HandleViewChange(n, vc)
      PROVE Sound'
  BY <1>4, EnterRoundSound DEF HandleViewChange
<1>5. ASSUME NEW n \in Node, OnTimeout(n) PROVE Sound'
  BY <1>5, EnterRoundSound DEF OnTimeout
<1>6. ASSUME NEW n \in Node, NEW qc \in qcs, FinalizeBlock(n, qc) PROVE Sound'
  <2> DEFINE b == BlockOf[qc.hash]
  <2>1. /\ qcs' = qcs /\ precommits' = precommits
        /\ height' = [height EXCEPT ![n] = b.height]
        /\ lastFinalized' = [lastFinalized EXCEPT ![n] = qc.hash]
        /\ ApplyBlock(n, qc)
    BY <1>6 DEF FinalizeBlock, sent
  <2>2. FinalizedAt(qc.hash, b.height)
    BY QCFinalizes DEF Sound
  <2>3. HeldVotesSent'
    <3>1. \/ votes' = [votes EXCEPT ![n] = { v \in @ : v.hash # qc.hash }]
          \/ votes' = votes
      BY <1>6 DEF FinalizeBlock
    <3>2. \A m \in Node : votes'[m] \subseteq votes[m]
      BY <3>1 DEF TypeOK
    <3> QED BY <2>1, <3>2 DEF Sound, HeldVotesSent
  <2>4. VotesExtendFinalized' /\ QCSound' /\ StoredHasQC'
    BY <2>1, VotesKept, QCsKept, ApplyBlockSound DEF Sound
  <2>5. \A m \in Node : FinalizedAt(disk[m].last, disk[m].height)'
    BY <1>6, <2>1, <2>2, PersistKept DEF Sound, FinalizeBlock
  <2>6. \A m \in Node : FinalizedAt(lastFinalized[m], height[m])'
    <3> SUFFICES ASSUME NEW m \in Node
                 PROVE  FinalizedAt(lastFinalized[m], height[m])'
      OBVIOUS
    <3>1. FinalizedAt(lastFinalized'[m], height'[m])
      BY <2>1, <2>2 DEF TypeOK, Sound, ViewsFinalized
    <3> QED BY <2>1, <3>1 DEF FinalizedAt, Certified
  <2> QED BY <2>3, <2>4, <2>5, <2>6 DEF Sound, ViewsFinalized
<1>7. ASSUME NEW n \in Node, NEW qc \in qcs, CrashInFinalize(n, qc)
      PROVE Sound'
  <2>1. qcs' = qcs /\ ApplyBlock(n, qc) /\ Load(n)
    BY <1>7 DEF CrashInFinalize, Load, sent
  <2> QED BY <2>1, LoadSound, ApplyBlockSound DEF Sound
<1>8. ASSUME NEW n \in Node, Restart(n) PROVE Sound'
  <2>1. Load(n) /\ stored' = stored /\ qcs' = qcs
    BY <1>8 DEF Restart, Load, sent
  <2> QED BY <2>1, LoadSound DEF Sound, StoredHasQC
<1> QED BY <1>0, <1>1, <1>2, <1>3, <1>4, <1>5, <1>6, <1>7, <1>8 DEF Next

\* The inductive invariant behind the safety theorems: every vote was cast for a
\* child of a finalized block (HandleProposal), every QC holds such votes
\* (tryBuildQC), and every view and stored block is backed by a QC
\* (FinalizeBlock, persistConsensusState).
THEOREM SoundAlways == Spec => [](TypeOK /\ Sound)
<1>1. Init => Sound
  BY DEF Init, Sound, HeldVotesSent, VotesExtendFinalized, QCSound,
         ViewsFinalized, StoredHasQC, FinalizedAt
<1> QED BY <1>1, TypeCorrect, SoundStep, PTL DEF Spec

-----------------------------------------------------------------------------
(* What the invariant means for quorums.                                     *)

\* The validators are finitely many and each has a power: what ValidatorSet sums.
LEMMA ValidatorPower ==
  /\ IsFiniteSet(Validator)
  /\ \A v \in Validator : Power[v] \in Nat
<1>1. Validator \subseteq Node
  BY NodeAssumption DEF Validator
<1>2. IsFiniteSet(Validator)
  BY <1>1, NodeAssumption, FS_Subset
<1> QED BY <1>1, <1>2, NodeAssumption

\* tryBuildQC's test is the two-thirds rule as long as 3 * TotalPower fits.
LEMMA QuorumIsTwoThirds ==
  ASSUME PowerFits, NEW S \in SUBSET Validator, HasQuorum(S)
  PROVE  3 * Total(Power, S) > 2 * TotalPower
<1>1. IsFiniteSet(S)
  BY ValidatorPower, FS_Subset
<1>2. Total(Power, S) \in Nat /\ TotalPower \in Nat
  BY <1>1, ValidatorPower, TotalNat DEF TotalPower
<1>3. Total(Power, S) <= TotalPower
  BY ValidatorPower, TotalMonotone DEF TotalPower
<1>4. U64 \in Nat \ {0}
  BY NodeAssumption
<1>5. \A a \in Nat : a < U64 => a % U64 = a
  BY <1>4
<1>6. Total(Power, S) * 3 < U64 /\ TotalPower * 2 < U64
  BY <1>2, <1>3, <1>4 DEF PowerFits
<1>7. /\ (Total(Power, S) * 3) % U64 = Total(Power, S) * 3
      /\ (TotalPower * 2) % U64 = TotalPower * 2
  <2>1. Total(Power, S) * 3 \in Nat /\ TotalPower * 2 \in Nat
    BY <1>2
  <2> QED BY <1>5, <1>6, <2>1
<1> QED BY <1>2, <1>7 DEF HasQuorum

\* Every QC is backed by votes for its block from more than two thirds of the
\* power: HandlePrecommitVote and tryBuildQC.
THEOREM QCBackedAlways ==
  ASSUME PowerFits
  PROVE  Spec => []QCBacked
<1>1. TypeOK /\ Sound => QCBacked
  BY QuorumIsTwoThirds DEF Sound, QCSound, QCBacked
<1> QED BY <1>1, SoundAlways, PTL

\* Certified blocks form chains back to genesis: HandleProposal's parent check.
THEOREM CertifiedParentAlways == Spec => []CertifiedParent
<1>1. TypeOK /\ Sound => CertifiedParent
  <2> SUFFICES ASSUME TypeOK, Sound, NEW qc \in qcs
               PROVE  /\ qc.height = BlockOf[qc.hash].height
                      /\ IF BlockOf[qc.hash].prev = ZeroHash
                           THEN BlockOf[qc.hash].height = 1
                           ELSE Certified(BlockOf[qc.hash].prev,
                                          BlockOf[qc.hash].height - 1)
    BY DEF CertifiedParent
  <2>1. qc.height = BlockOf[qc.hash].height /\ ExtendsFinalized(qc.hash)
    BY DEF Sound, QCSound
  <2>2. BlockOf[qc.hash].height \in Nat
    BY BlockType DEF TypeOK, QC
  <2> QED BY <2>1, <2>2 DEF ExtendsFinalized, FinalizedAt
<1> QED BY <1>1, SoundAlways, PTL

\* Whenever two nodes have finalized different blocks of one height, validators
\* with more than a third of the power voted for both: tryBuildQC's quorums
\* intersect, and FinalizeBlock stores only blocks with a QC.
THEOREM ForkAccountable ==
  ASSUME PowerFits
  PROVE  Spec => []ForkAccountability
<1>1. TypeOK /\ Sound => ForkAccountability
  <2> SUFFICES ASSUME TypeOK, Sound, NEW n \in Node, NEW m \in Node,
                      NEW s \in stored[n], NEW t \in stored[m]
               PROVE  3 * Total(Power, VotedBoth(s.hash, t.hash)) > TotalPower
    BY DEF ForkAccountability
  <2>1. PICK qs \in qcs : qs.hash = s.hash /\ qs.sigs = s.sigs
    BY DEF Sound, StoredHasQC
  <2>2. PICK qt \in qcs : qt.hash = t.hash /\ qt.sigs = t.sigs
    BY DEF Sound, StoredHasQC
  <2> DEFINE A == Signers(qs.sigs)
             B == Signers(qt.sigs)
             both == VotedBoth(s.hash, t.hash)
  <2>3. A \subseteq Validator /\ B \subseteq Validator
    BY DEF Sound, QCSound
  <2>4. 3 * Total(Power, A) > 2 * TotalPower /\ 3 * Total(Power, B) > 2 * TotalPower
    BY <2>3, QuorumIsTwoThirds DEF Sound, QCSound
  <2>5. A \intersect B \subseteq both
    <3> SUFFICES ASSUME NEW v \in A \intersect B PROVE v \in both
      OBVIOUS
    <3>1. PICK p \in qs.sigs : p.validator = v
      BY DEF Signers
    <3>2. PICK q \in qt.sigs : q.validator = v
      BY DEF Signers
    <3>3. p \in precommits /\ p.hash = s.hash
      BY <2>1, <3>1 DEF Sound, QCSound
    <3>4. q \in precommits /\ q.hash = t.hash
      BY <2>2, <3>2 DEF Sound, QCSound
    <3> QED BY <2>3, <3>1, <3>2, <3>3, <3>4 DEF VotedBoth
  <2>6. both \subseteq Validator
    BY DEF VotedBoth
  <2> HIDE DEF A, B, both
  <2>7. 3 * Total(Power, A \intersect B) > TotalPower
    BY <2>3, <2>4, ValidatorPower, QuorumsShare DEF TotalPower
  <2>8. IsFiniteSet(both) /\ \A v \in both : Power[v] \in Nat
    BY <2>6, ValidatorPower, FS_Subset
  <2>9. Total(Power, A \intersect B) <= Total(Power, both)
    BY <2>5, <2>8, TotalMonotone
  <2>10. /\ Total(Power, both) \in Nat
         /\ Total(Power, A \intersect B) \in Nat
         /\ TotalPower \in Nat
    <3>1. IsFiniteSet(A \intersect B)
      BY <2>5, <2>8, FS_Subset
    <3>2. \A v \in A \intersect B : Power[v] \in Nat
      BY <2>5, <2>8
    <3> QED BY <2>8, <3>1, <3>2, ValidatorPower, TotalNat DEF TotalPower
  <2>11. 3 * Total(Power, both) > TotalPower
    BY <2>7, <2>9, <2>10
  <2> QED BY <2>11 DEF both
<1> QED BY <1>1, SoundAlways, PTL

-----------------------------------------------------------------------------
(* The engines implement the certified chain.                                *)

\* What a vote needs of its block's parent (HandleProposal) is what the chain
\* asks for.
LEMMA ExtendsContinues ==
  ASSUME TypeOK, QCSound, NEW h \in BlockHash, ExtendsFinalized(h)
  PROVE  Chain!Continues(h)
<1>1. BlockOf[h].height \in Nat
  BY BlockType
<1>2. CASE BlockOf[h].prev = ZeroHash
  BY <1>1, <1>2 DEF ExtendsFinalized, FinalizedAt, Chain!Continues
<1>3. CASE BlockOf[h].prev # ZeroHash
  <2>1. PICK qc \in qcs : /\ qc.hash = BlockOf[h].prev
                          /\ qc.height = BlockOf[h].height - 1
    BY <1>3 DEF ExtendsFinalized, FinalizedAt, Certified
  <2>2. BlockOf[BlockOf[h].prev].height = BlockOf[h].height - 1
    BY <2>1 DEF QCSound
  <2>3. BlockOf[h].prev \in ChainCertified
    BY <2>1 DEF ChainCertified
  <2> QED BY <1>1, <1>3, <2>2, <2>3 DEF Chain!Continues
<1> QED BY <1>2, <1>3

\* A handler that sends no vote, makes no QC and stores no block is invisible.
LEMMA QuietStep ==
  ASSUME UNCHANGED << precommits, qcs, stored >>
  PROVE  UNCHANGED Chain!vars
BY DEF Chain!vars, ChainCast, ChainCertified, ChainIndex

\* HandleProposal casts one vote.
LEMMA VoteStep ==
  ASSUME TypeOK, Sound, NEW n \in Node, NEW p \in proposals, HandleProposal(n, p)
  PROVE  Chain!CastVote(n, p.hash)
<1> DEFINE vote == [hash |-> p.hash, height |-> BlockOf[p.hash].height,
                    round |-> p.round, validator |-> n]
<1>1. p.hash \in BlockHash
  BY DEF TypeOK, Proposal
<1>2. Chain!Continues(p.hash)
  <2>1. /\ BlockOf[p.hash].height = height[n] + 1
        /\ BlockOf[p.hash].prev = lastFinalized[n]
    BY DEF HandleProposal
  <2>2. BlockOf[p.hash].height - 1 = height[n]
    BY <2>1 DEF TypeOK
  <2>3. ExtendsFinalized(p.hash)
    BY <2>1, <2>2 DEF Sound, ViewsFinalized, ExtendsFinalized
  <2> QED BY <1>1, <2>3, ExtendsContinues DEF Sound
<1>3. precommits' = precommits \union {vote} /\ qcs' = qcs /\ stored' = stored
  BY DEF HandleProposal, ledger
<1>4. ChainCast' = ChainCast \union {[hash |-> p.hash, validator |-> n]}
  <2>1. vote.hash = p.hash /\ vote.validator = n
    OBVIOUS
  <2> HIDE DEF vote
  <2> QED BY <1>3, <2>1 DEF ChainCast
<1>5. UNCHANGED << ChainCertified, ChainIndex >>
  BY <1>3 DEF ChainCertified, ChainIndex
<1> QED BY <1>2, <1>4, <1>5 DEF Chain!CastVote

\* HandlePrecommitVote certifies the vote's block when tryBuildQC finds a quorum
\* for it.
LEMMA CertifyStep ==
  ASSUME PowerFits, TypeOK, Sound, NEW n \in Node, NEW v \in precommits,
         HandlePrecommitVote(n, v)
  PROVE  Chain!Certify(v.hash) \/ UNCHANGED Chain!vars
<1> DEFINE new == TryBuildQC(n, v.hash, Collect(votes[n], v))
<1>1. /\ precommits' = precommits /\ stored' = stored /\ qcs' = qcs \union new
      /\ v.height = height[n] + 1
  BY DEF HandlePrecommitVote, ledger
<1>2. UNCHANGED << ChainCast, ChainIndex >>
  BY <1>1 DEF ChainCast, ChainIndex
<1>3. \A qc \in new : qc.hash = v.hash
  BY DEF TryBuildQC
<1>4. CASE new = {}
  <2>1. ChainCertified' = ChainCertified
    <3> HIDE DEF new
    <3> QED BY <1>1, <1>3, <1>4 DEF ChainCertified
  <2> QED BY <1>2, <2>1 DEF Chain!vars
<1>5. CASE new # {}
  <2>1. PICK qc \in new : TRUE
    BY <1>5
  <2>2. /\ qc.sigs \subseteq precommits
        /\ \A w \in qc.sigs : w.hash = qc.hash
        /\ Signers(qc.sigs) \subseteq Validator
        /\ HasQuorum(Signers(qc.sigs))
    BY <1>1, <2>1, BuiltQCSound
  <2> HIDE DEF new
  <2>3. ChainCertified' = ChainCertified \union {v.hash}
    BY <1>1, <1>3, <2>1 DEF ChainCertified
  <2>4. Signers(qc.sigs) \in TwoThirds
    BY <2>2, QuorumIsTwoThirds DEF TwoThirds
  <2>5. \A a \in Signers(qc.sigs) : [hash |-> v.hash, validator |-> a] \in ChainCast
    <3> SUFFICES ASSUME NEW w \in qc.sigs
                 PROVE  [hash |-> v.hash, validator |-> w.validator] \in ChainCast
      BY DEF Signers
    <3>1. w \in precommits /\ w.hash = v.hash
      BY <1>3, <2>1, <2>2
    <3> QED BY <3>1 DEF ChainCast
  <2> QED BY <1>2, <2>3, <2>4, <2>5 DEF Chain!Certify
<1> QED BY <1>4, <1>5

\* ApplyBlock, in FinalizeBlock and in a crash inside it, puts the certified
\* block into the node's index in place of the one of its height.
LEMMA FinalizeStep ==
  ASSUME TypeOK, NEW n \in Node, NEW qc \in qcs, ApplyBlock(n, qc),
         UNCHANGED << precommits, qcs >>
  PROVE  Chain!Finalize(n, qc.hash)
<1>1. qc.hash \in ChainCertified
  BY DEF ChainCertified
<1>2. stored' = [stored EXCEPT ![n] = SetBlock(stored[n], qc)]
  BY DEF ApplyBlock
<1> DEFINE kept == { g \in ChainIndex[n] :
                       BlockOf[g].height # BlockOf[qc.hash].height }
<1>3. { s.hash : s \in SetBlock(stored[n], qc) } = kept \union {qc.hash}
  <2> DEFINE others == { s \in stored[n] :
                           BlockOf[s.hash].height # BlockOf[qc.hash].height }
             added == [hash |-> qc.hash, sigs |-> qc.sigs]
  <2>1. SetBlock(stored[n], qc) = others \union {added} /\ added.hash = qc.hash
    BY DEF SetBlock
  <2>2. ChainIndex[n] = { s.hash : s \in stored[n] }
    BY DEF ChainIndex
  <2>3. kept = { s.hash : s \in others }
    BY <2>2
  <2> HIDE DEF others, added, kept
  <2> QED BY <2>1, <2>3
<1>4. ChainIndex' = [ChainIndex EXCEPT ![n] = kept \union {qc.hash}]
  BY <1>2, <1>3 DEF TypeOK, ChainIndex
<1>5. UNCHANGED << ChainCast, ChainCertified >>
  BY DEF ChainCast, ChainCertified
<1> QED BY <1>1, <1>4, <1>5 DEF Chain!Finalize

\* Every step of the engines is a step of the certified chain or changes none of
\* it, for every driver, every schedule of messages, timeouts and restarts, and
\* whichever writes fail.
THEOREM EnginesImplementChain ==
  ASSUME PowerFits
  PROVE  Spec => ImplementsChain
<1>1. Init => Chain!Init
  BY DEF Init, Chain!Init, ChainCast, ChainCertified, ChainIndex
<1>2. TypeOK /\ Sound /\ [Next]_vars => [Chain!Next]_(Chain!vars)
  <2> SUFFICES ASSUME TypeOK, Sound, [Next]_vars
               PROVE  Chain!Next \/ UNCHANGED Chain!vars
    OBVIOUS
  <2>1. CASE UNCHANGED vars
    BY <2>1, QuietStep DEF vars, ledger, sent
  <2>2. ASSUME NEW n \in Node,
               \/ ProposeBlock(n) \/ SendViewChange(n) \/ OnTimeout(n)
               \/ Restart(n) \/ \E vc \in viewChanges : HandleViewChange(n, vc)
        PROVE  UNCHANGED Chain!vars
    BY <2>2, QuietStep
       DEF ProposeBlock, SendViewChange, OnTimeout, HandleViewChange, EnterRound,
           Restart, Load, ledger, sent
  <2>3. ASSUME NEW n \in Node, NEW p \in proposals, HandleProposal(n, p)
        PROVE  Chain!Next
    <3>1. p.hash \in BlockHash
      BY DEF TypeOK, Proposal
    <3> QED BY <2>3, <3>1, VoteStep DEF Chain!Next
  <2>4. ASSUME NEW n \in Node, NEW v \in precommits, HandlePrecommitVote(n, v)
        PROVE  Chain!Next \/ UNCHANGED Chain!vars
    <3>1. v.hash \in BlockHash
      BY DEF TypeOK, Vote
    <3> QED BY <2>4, <3>1, CertifyStep DEF Chain!Next
  <2>5. ASSUME NEW n \in Node, NEW qc \in qcs,
               FinalizeBlock(n, qc) \/ CrashInFinalize(n, qc)
        PROVE  Chain!Next
    <3>1. qc.hash \in BlockHash
      BY DEF TypeOK, QC
    <3>2. ApplyBlock(n, qc) /\ UNCHANGED << precommits, qcs >>
      BY <2>5 DEF FinalizeBlock, CrashInFinalize, Load, sent
    <3> QED BY <3>1, <3>2, FinalizeStep DEF Chain!Next
  <2> QED BY <2>1, <2>2, <2>3, <2>4, <2>5 DEF Next
<1> QED BY <1>1, <1>2, SoundAlways, PTL DEF Spec, ImplementsChain, Chain!Spec

-----------------------------------------------------------------------------
(* Memory, metadata and index, under a driver that finalizes heights one     *)
(* after the other.                                                          *)

\* Unless a write has failed a node's memory is its metadata.
ViewOnDisk ==
  ioFailures = 0 => \A n \in Node :
    /\ height[n] = disk[n].height
    /\ round[n] = disk[n].round
    /\ lastFinalized[n] = disk[n].last

\* A handler that changes the view has written it when it returns
\* (persistConsensusState), and a start reads what was written.
LEMMA ViewStep == TypeOK /\ ViewOnDisk /\ [Next]_vars => ViewOnDisk'
<1> SUFFICES ASSUME TypeOK, ViewOnDisk, [Next]_vars, ioFailures' = 0,
                    NEW m \in Node
             PROVE  /\ height'[m] = disk'[m].height
                    /\ round'[m] = disk'[m].round
                    /\ lastFinalized'[m] = disk'[m].last
  BY DEF ViewOnDisk
<1>1. CASE UNCHANGED << height, round, lastFinalized, disk, ioFailures >>
  BY <1>1 DEF ViewOnDisk
<1>2. ASSUME NEW n \in Node, NEW r, EnterRound(n, r)
      PROVE  /\ height'[m] = disk'[m].height
             /\ round'[m] = disk'[m].round
             /\ lastFinalized'[m] = disk'[m].last
  <2>1. Persist(n, height[n], r, lastFinalized[n])
    BY <1>2 DEF EnterRound, PersistFails, TypeOK
  <2>2. /\ disk' = [disk EXCEPT ![n] = [height |-> height[n], round |-> r,
                                        last |-> lastFinalized[n]]]
        /\ round' = [round EXCEPT ![n] = r]
        /\ UNCHANGED << height, lastFinalized, ioFailures >>
    BY <1>2, <2>1 DEF EnterRound, Persist
  <2> QED BY <2>2 DEF ViewOnDisk, TypeOK
<1>3. ASSUME NEW n \in Node, NEW qc \in qcs, FinalizeBlock(n, qc)
      PROVE  /\ height'[m] = disk'[m].height
             /\ round'[m] = disk'[m].round
             /\ lastFinalized'[m] = disk'[m].last
  <2>1. Persist(n, BlockOf[qc.hash].height, 0, qc.hash)
    BY <1>3 DEF FinalizeBlock, PersistFails, TypeOK
  <2>2. /\ disk' = [disk EXCEPT ![n] = [height |-> BlockOf[qc.hash].height,
                                        round |-> 0, last |-> qc.hash]]
        /\ height' = [height EXCEPT ![n] = BlockOf[qc.hash].height]
        /\ round' = [round EXCEPT ![n] = 0]
        /\ lastFinalized' = [lastFinalized EXCEPT ![n] = qc.hash]
        /\ ioFailures' = ioFailures
    BY <1>3, <2>1 DEF FinalizeBlock, Persist
  <2> QED BY <2>2 DEF ViewOnDisk, TypeOK
<1>4. ASSUME NEW n \in Node, Load(n)
      PROVE  /\ height'[m] = disk'[m].height
             /\ round'[m] = disk'[m].round
             /\ lastFinalized'[m] = disk'[m].last
  BY <1>4 DEF Load, ViewOnDisk, TypeOK
<1>5. CASE UNCHANGED vars
  BY <1>1, <1>5 DEF vars, memory, faults
<1>6. CASE Next
  <2>1. PICK n \in Node :
          \/ ProposeBlock(n) \/ SendViewChange(n)
          \/ \E p \in proposals : HandleProposal(n, p)
          \/ \E v \in precommits : HandlePrecommitVote(n, v)
          \/ \E vc \in viewChanges : HandleViewChange(n, vc)
          \/ OnTimeout(n)
          \/ \E qc \in qcs : FinalizeBlock(n, qc)
          \/ \E qc \in qcs : CrashInFinalize(n, qc)
          \/ Restart(n)
    BY <1>6 DEF Next
  <2>2. CASE \/ ProposeBlock(n) \/ SendViewChange(n)
             \/ \E p \in proposals : HandleProposal(n, p)
             \/ \E v \in precommits : HandlePrecommitVote(n, v)
    BY <1>1, <2>2 DEF ProposeBlock, SendViewChange, HandleProposal,
                      HandlePrecommitVote, memory, faults
  <2>3. CASE (\E vc \in viewChanges : HandleViewChange(n, vc)) \/ OnTimeout(n)
    BY <1>2, <2>3 DEF HandleViewChange, OnTimeout
  <2>4. CASE (\E qc \in qcs : CrashInFinalize(n, qc)) \/ Restart(n)
    BY <1>4, <2>4 DEF CrashInFinalize, Restart
  <2> QED BY <1>3, <2>1, <2>2, <2>3, <2>4
<1> QED BY <1>5, <1>6

\* Memory and metadata agree in every reachable state.
LEMMA ViewAlways == Spec => []ViewOnDisk
<1>1. Init => ViewOnDisk
  BY DEF Init, ViewOnDisk
<1> QED BY <1>1, ViewStep, TypeCorrect, PTL DEF Spec

\* The heights in a node's index.
Heights(index) == { BlockOf[s.hash].height : s \in index }

\* An index, the heights in memory and in the metadata, the failed writes and the
\* restarts: no height is missing, the metadata is behind the memory by one block
\* for each failed write at most, and behind the index by one more after a crash.
Follows(index, h, d, f, r) ==
  \E top \in Nat : /\ Heights(index) = 1 .. top
                   /\ d <= h /\ h <= top
                   /\ h <= d + f /\ top <= d + f + 1
                   /\ r = 0 => top = h

\* The block that a height stands for is in the index.
Named(index, h, last) == h > 0 => \E s \in index : s.hash = last

IndexOnDisk ==
  \A n \in Node :
    /\ Follows(stored[n], height[n], disk[n].height, ioFailures, restarts)
    /\ Named(stored[n], height[n], lastFinalized[n])
    /\ Named(stored[n], disk[n].height, disk[n].last)

\* A write that succeeds brings the metadata to the memory, one that fails counts
\* as a failure, and a restart brings the memory to the metadata.
LEMMA FollowsLater ==
  ASSUME NEW index, NEW h \in Nat, NEW d \in Nat, NEW f \in Nat, NEW r \in Nat,
         Follows(index, h, d, f, r)
  PROVE  /\ d <= h /\ h <= d + f
         /\ Follows(index, h, h, f, r)
         /\ Follows(index, h, d, f + 1, r)
         /\ Follows(index, h, d, f, r + 1)
         /\ Follows(index, d, d, f, r + 1)
<1>1. PICK top \in Nat : /\ Heights(index) = 1 .. top
                         /\ d <= h /\ h <= top
                         /\ h <= d + f /\ top <= d + f + 1
                         /\ r = 0 => top = h
  BY DEF Follows
<1>2. r + 1 # 0
  OBVIOUS
<1>3. Follows(index, h, h, f, r)
  BY <1>1 DEF Follows
<1>4. Follows(index, h, d, f + 1, r)
  BY <1>1 DEF Follows
<1>5. Follows(index, h, d, f, r + 1)
  BY <1>1, <1>2 DEF Follows
<1>6. Follows(index, d, d, f, r + 1)
  BY <1>1, <1>2 DEF Follows
<1> QED BY <1>1, <1>3, <1>4, <1>5, <1>6

\* ApplyBlock writes the block of the next height, for the first time or, after
\* a restart that lost metadata, once more.
LEMMA IndexGrows ==
  ASSUME NEW index, NEW qc, NEW h \in Nat, NEW top \in Nat, h <= top,
         Heights(index) = 1 .. top, BlockOf[qc.hash].height = h + 1
  PROVE  Heights(SetBlock(index, qc)) = 1 .. (IF top = h THEN h + 1 ELSE top)
<1> DEFINE new == [hash |-> qc.hash, sigs |-> qc.sigs]
           kept == { s \in index : BlockOf[s.hash].height # h + 1 }
<1>1. SetBlock(index, qc) = kept \union {new} /\ new.hash = qc.hash
  BY DEF SetBlock
<1>2. Heights(kept) = Heights(index) \ {h + 1}
  BY DEF Heights
<1> HIDE DEF new, kept
<1>3. Heights(kept \union {new}) = Heights(kept) \union {h + 1}
  BY <1>1 DEF Heights
<1>4. Heights(SetBlock(index, qc)) = (1 .. top) \union {h + 1}
  BY <1>1, <1>2, <1>3
<1>5. (1 .. top) \union {h + 1} = 1 .. (IF top = h THEN h + 1 ELSE top)
  OBVIOUS
<1> QED BY <1>4, <1>5

\* The three ways a finalization ends: with its metadata written, with the write
\* failed, and with a crash before it.
LEMMA FollowsApplied ==
  ASSUME NEW index, NEW qc, NEW h \in Nat, NEW d \in Nat, NEW f \in Nat,
         NEW r \in Nat, Follows(index, h, d, f, r),
         BlockOf[qc.hash].height = h + 1
  PROVE  /\ Follows(SetBlock(index, qc), h + 1, h + 1, f, r)
         /\ Follows(SetBlock(index, qc), h + 1, d, f + 1, r)
         /\ Follows(SetBlock(index, qc), d, d, f, r + 1)
<1>1. PICK top \in Nat : /\ Heights(index) = 1 .. top
                         /\ d <= h /\ h <= top
                         /\ h <= d + f /\ top <= d + f + 1
                         /\ r = 0 => top = h
  BY DEF Follows
<1> DEFINE t == IF top = h THEN h + 1 ELSE top
<1>2. Heights(index) = 1 .. top /\ h <= top
  BY <1>1
<1>3. Heights(SetBlock(index, qc)) = 1 .. t
  BY ONLY <1>2, IndexGrows, h \in Nat, top \in Nat, BlockOf[qc.hash].height = h + 1
<1>4. /\ t \in Nat /\ h + 1 <= t /\ t <= d + f + 1
      /\ r = 0 => t = h + 1
  BY <1>1
<1>5. r + 1 # 0
  OBVIOUS
<1> HIDE DEF t
<1>6. Follows(SetBlock(index, qc), h + 1, h + 1, f, r)
  BY <1>1, <1>3, <1>4 DEF Follows
<1>7. Follows(SetBlock(index, qc), h + 1, d, f + 1, r)
  BY <1>1, <1>3, <1>4 DEF Follows
<1>8. Follows(SetBlock(index, qc), d, d, f, r + 1)
  BY <1>1, <1>3, <1>4, <1>5 DEF Follows
<1> QED BY <1>6, <1>7, <1>8

\* A block that stands for a lower height stays in the index, the new one enters.
LEMMA NamedKept ==
  ASSUME NEW index, NEW qc, NEW h, NEW last, Named(index, h, last),
         h > 0 => BlockOf[last].height = h, BlockOf[qc.hash].height # h
  PROVE  Named(SetBlock(index, qc), h, last)
<1> SUFFICES ASSUME h > 0 PROVE \E s \in SetBlock(index, qc) : s.hash = last
  BY DEF Named
<1>1. PICK s \in index : s.hash = last
  BY DEF Named
<1>2. s \in SetBlock(index, qc)
  BY <1>1 DEF SetBlock
<1> QED BY <1>1, <1>2

\* The finalized block that a view names has the view's height.
LEMMA FinalizedHeight ==
  ASSUME TypeOK, Sound, NEW last, NEW h \in Nat, FinalizedAt(last, h), h > 0
  PROVE  BlockOf[last].height = h
<1>1. Certified(last, h)
  BY DEF FinalizedAt
<1>2. PICK c \in qcs : c.hash = last /\ c.height = h
  BY <1>1 DEF Certified
<1>3. c.height = BlockOf[c.hash].height
  BY <1>2 DEF Sound, QCSound
<1> QED BY <1>2, <1>3

\* Every step keeps the index where the memory and the metadata say it is.
LEMMA IndexStep ==
  ASSUME DriverInOrder
  PROVE  TypeOK /\ Sound /\ IndexOnDisk /\ [Next]_vars => IndexOnDisk'
<1> SUFFICES ASSUME TypeOK, Sound, IndexOnDisk, [Next]_vars, NEW m \in Node
             PROVE  /\ Follows(stored'[m], height'[m], disk'[m].height,
                               ioFailures', restarts')
                    /\ Named(stored'[m], height'[m], lastFinalized'[m])
                    /\ Named(stored'[m], disk'[m].height, disk'[m].last)
  BY DEF IndexOnDisk, Follows, Named, Heights
<1> DEFINE Goal == /\ Follows(stored'[m], height'[m], disk'[m].height,
                              ioFailures', restarts')
                   /\ Named(stored'[m], height'[m], lastFinalized'[m])
                   /\ Named(stored'[m], disk'[m].height, disk'[m].last)
<1>1. /\ Follows(stored[m], height[m], disk[m].height, ioFailures, restarts)
      /\ Named(stored[m], height[m], lastFinalized[m])
      /\ Named(stored[m], disk[m].height, disk[m].last)
  BY DEF IndexOnDisk
<1>2. /\ height[m] \in Nat /\ disk[m].height \in Nat
      /\ ioFailures \in Nat /\ restarts \in Nat
  BY DEF TypeOK, Metadata
<1>3. /\ Follows(stored[m], height[m], height[m], ioFailures, restarts)
      /\ Follows(stored[m], height[m], disk[m].height, ioFailures + 1, restarts)
      /\ Follows(stored[m], height[m], disk[m].height, ioFailures, restarts + 1)
      /\ Follows(stored[m], disk[m].height, disk[m].height, ioFailures, restarts + 1)
  BY <1>1, <1>2, FollowsLater
<1>4. ASSUME stored'[m] = stored[m], height'[m] = height[m],
             lastFinalized'[m] = lastFinalized[m], disk'[m] = disk[m],
             \/ ioFailures' = ioFailures /\ restarts' = restarts
             \/ ioFailures' = ioFailures + 1 /\ restarts' = restarts
             \/ ioFailures' = ioFailures /\ restarts' = restarts + 1
      PROVE  Goal
  BY <1>1, <1>3, <1>4
<1>5. ASSUME NEW n \in Node, NEW r, EnterRound(n, r) PROVE Goal
  <2>1. /\ UNCHANGED << stored, height, lastFinalized >> /\ restarts' = restarts
        /\ \/ /\ disk' = [disk EXCEPT ![n] = [height |-> height[n], round |-> r,
                                              last |-> lastFinalized[n]]]
              /\ ioFailures' = ioFailures
           \/ disk' = disk /\ ioFailures' = ioFailures + 1
    BY <1>5 DEF EnterRound, Persist, PersistFails, ledger
  <2>2. CASE disk'[m] = disk[m]
    BY <1>4, <2>1, <2>2
  <2>3. CASE disk'[m] # disk[m]
    <3>1. /\ disk'[m] = [height |-> height[m], round |-> r, last |-> lastFinalized[m]]
          /\ ioFailures' = ioFailures
      BY <2>1, <2>3 DEF TypeOK
    <3>2. disk'[m].height = height[m] /\ disk'[m].last = lastFinalized[m]
      BY <3>1
    <3> QED BY <1>1, <1>3, <2>1, <3>1, <3>2
  <2> QED BY <2>2, <2>3
<1>6. ASSUME NEW n \in Node, NEW qc \in qcs, Delivered(n, qc), ApplyBlock(n, qc)
      PROVE  /\ BlockOf[qc.hash].height = height[n] + 1
             /\ m # n => stored'[m] = stored[m]
             /\ m = n =>
                  /\ Follows(stored'[m], height[m] + 1, height[m] + 1,
                             ioFailures, restarts)
                  /\ Follows(stored'[m], height[m] + 1, disk[m].height,
                             ioFailures + 1, restarts)
                  /\ Follows(stored'[m], disk[m].height, disk[m].height,
                             ioFailures, restarts + 1)
                  /\ Named(stored'[m], disk[m].height, disk[m].last)
                  /\ Named(stored'[m], height[m] + 1, qc.hash)
  <2>1. BlockOf[qc.hash].height = height[n] + 1
    BY <1>6 DEF Delivered
  <2>2. stored' = [stored EXCEPT ![n] = SetBlock(stored[n], qc)]
    BY <1>6 DEF ApplyBlock
  <2>3. /\ stored'[n] = SetBlock(stored[n], qc)
        /\ m # n => stored'[m] = stored[m]
    BY <2>2 DEF TypeOK
  <2>4. ASSUME m = n
        PROVE  /\ Follows(stored'[m], height[m] + 1, height[m] + 1,
                          ioFailures, restarts)
               /\ Follows(stored'[m], height[m] + 1, disk[m].height,
                          ioFailures + 1, restarts)
               /\ Follows(stored'[m], disk[m].height, disk[m].height,
                          ioFailures, restarts + 1)
               /\ Named(stored'[m], disk[m].height, disk[m].last)
               /\ Named(stored'[m], height[m] + 1, qc.hash)
    <3>1. stored'[m] = SetBlock(stored[m], qc) /\ BlockOf[qc.hash].height = height[m] + 1
      BY <2>1, <2>3, <2>4
    <3>2. /\ Follows(stored'[m], height[m] + 1, height[m] + 1, ioFailures, restarts)
          /\ Follows(stored'[m], height[m] + 1, disk[m].height, ioFailures + 1, restarts)
          /\ Follows(stored'[m], disk[m].height, disk[m].height, ioFailures, restarts + 1)
      BY <1>1, <1>2, <3>1, FollowsApplied
    <3>3. disk[m].height > 0 => BlockOf[disk[m].last].height = disk[m].height
      BY <1>2, FinalizedHeight DEF Sound, ViewsFinalized
    <3>4. disk[m].height <= height[m]
      BY <1>1, <1>2, FollowsLater
    <3>5. BlockOf[qc.hash].height # disk[m].height
      BY <1>2, <3>1, <3>4
    <3>6. Named(stored'[m], disk[m].height, disk[m].last)
      BY <1>1, <3>1, <3>3, <3>5, NamedKept
    <3>7. [hash |-> qc.hash, sigs |-> qc.sigs] \in stored'[m]
      BY <3>1 DEF SetBlock
    <3>8. Named(stored'[m], height[m] + 1, qc.hash)
      BY <3>7 DEF Named
    <3> QED BY <3>2, <3>6, <3>8
  <2> QED BY <2>1, <2>3, <2>4
<1>7. ASSUME NEW n \in Node, NEW qc \in qcs, FinalizeBlock(n, qc) PROVE Goal
  <2>1. /\ Delivered(n, qc) /\ ApplyBlock(n, qc) /\ restarts' = restarts
        /\ height' = [height EXCEPT ![n] = BlockOf[qc.hash].height]
        /\ lastFinalized' = [lastFinalized EXCEPT ![n] = qc.hash]
        /\ \/ /\ disk' = [disk EXCEPT ![n] =
                            [height |-> BlockOf[qc.hash].height, round |-> 0,
                             last |-> qc.hash]]
              /\ ioFailures' = ioFailures
           \/ disk' = disk /\ ioFailures' = ioFailures + 1
    BY <1>7 DEF FinalizeBlock, Persist, PersistFails
  <2>2. CASE m # n
    <3>1. /\ disk'[m] = disk[m] /\ stored'[m] = stored[m]
          /\ height'[m] = height[m] /\ lastFinalized'[m] = lastFinalized[m]
      BY <1>6, <2>1, <2>2 DEF TypeOK
    <3> QED BY <1>4, <2>1, <3>1
  <2>3. CASE m = n
    <3>1. height'[m] = height[m] + 1 /\ lastFinalized'[m] = qc.hash
      BY <1>6, <2>1, <2>3 DEF TypeOK
    <3>2. Named(stored'[m], height'[m], lastFinalized'[m])
      BY <1>6, <2>1, <2>3, <3>1
    <3>3. CASE disk'[m] = disk[m] /\ ioFailures' = ioFailures + 1
      BY <1>6, <2>1, <2>3, <3>1, <3>2, <3>3
    <3>4. CASE /\ disk' = [disk EXCEPT ![n] =
                             [height |-> BlockOf[qc.hash].height, round |-> 0,
                              last |-> qc.hash]]
               /\ ioFailures' = ioFailures
      <4>1. disk'[m].height = height[m] + 1 /\ disk'[m].last = qc.hash
        BY <1>6, <2>1, <2>3, <3>4 DEF TypeOK
      <4> QED BY <1>6, <2>1, <2>3, <3>1, <3>2, <3>4, <4>1
    <3> QED BY <2>1, <3>3, <3>4
  <2> QED BY <2>2, <2>3
<1>8. ASSUME NEW n \in Node, Load(n)
      PROVE  /\ disk' = disk /\ ioFailures' = ioFailures /\ restarts' = restarts + 1
             /\ m # n => height'[m] = height[m] /\ lastFinalized'[m] = lastFinalized[m]
             /\ m = n => height'[m] = disk[m].height /\ lastFinalized'[m] = disk[m].last
  BY <1>8 DEF Load, TypeOK
<1>9. ASSUME NEW n \in Node, NEW qc \in qcs, CrashInFinalize(n, qc) PROVE Goal
  <2>1. Delivered(n, qc) /\ ApplyBlock(n, qc) /\ Load(n)
    BY <1>9 DEF CrashInFinalize
  <2>2. CASE m # n
    BY <1>4, <1>6, <1>8, <2>1, <2>2
  <2>3. CASE m = n
    BY <1>6, <1>8, <2>1, <2>3
  <2> QED BY <2>2, <2>3
<1>10. ASSUME NEW n \in Node, Restart(n) PROVE Goal
  <2>1. Load(n) /\ stored' = stored
    BY <1>10 DEF Restart
  <2>2. CASE m # n
    BY <1>4, <1>8, <2>1, <2>2
  <2>3. CASE m = n
    BY <1>1, <1>3, <1>8, <2>1, <2>3
  <2> QED BY <2>2, <2>3
<1>11. ASSUME UNCHANGED << stored, height, lastFinalized, disk, ioFailures, restarts >>
       PROVE  Goal
  BY <1>4, <1>11
<1>12. CASE UNCHANGED vars
  BY <1>11, <1>12 DEF vars, memory, ledger, faults
<1>13. CASE Next
  <2>1. PICK n \in Node :
          \/ ProposeBlock(n) \/ SendViewChange(n)
          \/ \E p \in proposals : HandleProposal(n, p)
          \/ \E v \in precommits : HandlePrecommitVote(n, v)
          \/ \E vc \in viewChanges : HandleViewChange(n, vc)
          \/ OnTimeout(n)
          \/ \E qc \in qcs : FinalizeBlock(n, qc)
          \/ \E qc \in qcs : CrashInFinalize(n, qc)
          \/ Restart(n)
    BY <1>13 DEF Next
  <2>2. CASE \/ ProposeBlock(n) \/ SendViewChange(n)
             \/ \E p \in proposals : HandleProposal(n, p)
             \/ \E v \in precommits : HandlePrecommitVote(n, v)
    BY <1>11, <2>2 DEF ProposeBlock, SendViewChange, HandleProposal,
                       HandlePrecommitVote, memory, ledger, faults
  <2>3. CASE (\E vc \in viewChanges : HandleViewChange(n, vc)) \/ OnTimeout(n)
    BY <1>5, <2>3 DEF HandleViewChange, OnTimeout
  <2> QED BY <1>7, <1>9, <1>10, <2>1, <2>2, <2>3
<1> QED BY <1>12, <1>13

\* The index is where memory and metadata say in every reachable state.
LEMMA IndexAlways ==
  ASSUME DriverInOrder
  PROVE  Spec => []IndexOnDisk
<1>1. Init => IndexOnDisk
  <2> SUFFICES ASSUME Init, NEW n \in Node
               PROVE  /\ Follows(stored[n], height[n], disk[n].height, ioFailures, restarts)
                      /\ Named(stored[n], height[n], lastFinalized[n])
                      /\ Named(stored[n], disk[n].height, disk[n].last)
    BY DEF IndexOnDisk
  <2>1. /\ Heights(stored[n]) = {} /\ disk[n].height = 0 /\ height[n] = 0
        /\ ioFailures = 0 /\ restarts = 0
    BY DEF Init, Heights
  <2>2. 1 .. 0 = {}
    OBVIOUS
  <2>3. Follows(stored[n], 0, 0, 0, 0)
    BY <2>1, <2>2 DEF Follows
  <2> QED BY <2>1, <2>3 DEF Named
<1>2. TypeOK /\ Sound /\ IndexOnDisk /\ [Next]_vars => IndexOnDisk'
  BY IndexStep
<1> QED BY <1>1, <1>2, SoundAlways, PTL DEF Spec

\* What a restart finds: the store is ahead of the metadata by the blocks whose
\* metadata was not written and by the one FinalizeBlock committed before it
\* crashed, and never behind it.
THEOREM StoreFollows ==
  ASSUME DriverInOrder
  PROVE  Spec => []StoreFollowsMetadata
<1>1. TypeOK /\ IndexOnDisk => StoreFollowsMetadata
  <2> SUFFICES ASSUME TypeOK, IndexOnDisk, NEW n \in Node
               PROVE  /\ \E k \in 0 .. (ioFailures + 1) :
                           /\ Heights(stored[n]) = 1 .. (disk[n].height + k)
                           /\ restarts = 0 => k <= ioFailures
                      /\ disk[n].height > 0 => \E s \in stored[n] : s.hash = disk[n].last
    BY DEF StoreFollowsMetadata, Heights
  <2>1. /\ height[n] \in Nat /\ disk[n].height \in Nat /\ ioFailures \in Nat
    BY DEF TypeOK, Metadata
  <2>2. /\ Follows(stored[n], height[n], disk[n].height, ioFailures, restarts)
        /\ Named(stored[n], disk[n].height, disk[n].last)
    BY DEF IndexOnDisk
  <2>3. PICK top \in Nat :
          /\ Heights(stored[n]) = 1 .. top
          /\ disk[n].height <= height[n] /\ height[n] <= top
          /\ height[n] <= disk[n].height + ioFailures
          /\ top <= disk[n].height + ioFailures + 1
          /\ restarts = 0 => top = height[n]
    BY <2>2 DEF Follows
  <2>4. /\ top - disk[n].height \in 0 .. (ioFailures + 1)
        /\ top = disk[n].height + (top - disk[n].height)
        /\ restarts = 0 => top - disk[n].height <= ioFailures
    BY <2>1, <2>3
  <2> QED BY <2>2, <2>3, <2>4 DEF Named
<1> QED BY <1>1, TypeCorrect, IndexAlways, PTL

\* Views move forward only, through restarts too, unless a metadata write failed,
\* and then a restart goes back by no more heights than writes have failed: what a
\* handler changed has been written before it returns.
THEOREM ViewForward ==
  ASSUME DriverInOrder
  PROVE  Spec => ViewNeverRegresses
<1> DEFINE A == \A n \in Node :
                  \/ height'[n] > height[n]
                  \/ height'[n] = height[n] /\ round'[n] >= round[n]
                  \/ /\ restarts' > restarts
                     /\ ioFailures > 0
                     /\ height'[n] + ioFailures >= height[n]
<1>1. TypeOK /\ ViewOnDisk /\ IndexOnDisk /\ [Next]_vars => A
  <2> SUFFICES ASSUME TypeOK, ViewOnDisk, IndexOnDisk, [Next]_vars, NEW m \in Node
               PROVE  \/ height'[m] > height[m]
                      \/ height'[m] = height[m] /\ round'[m] >= round[m]
                      \/ /\ restarts' > restarts
                         /\ ioFailures > 0
                         /\ height'[m] + ioFailures >= height[m]
    OBVIOUS
  <2>1. /\ height \in [Node -> Nat] /\ round \in [Node -> Nat]
        /\ height[m] \in Nat /\ round[m] \in Nat
    BY DEF TypeOK
  <2>2. CASE UNCHANGED << height, round >>
    BY <2>1, <2>2
  <2>3. ASSUME NEW n \in Node, NEW r \in Nat, r > round[n], EnterRound(n, r)
        PROVE  height'[m] = height[m] /\ round'[m] >= round[m]
    BY <2>1, <2>3 DEF EnterRound
  <2>4. ASSUME NEW n \in Node, NEW qc \in qcs, FinalizeBlock(n, qc)
        PROVE  \/ height'[m] > height[m]
               \/ height'[m] = height[m] /\ round'[m] >= round[m]
    <3>1. /\ BlockOf[qc.hash].height = height[n] + 1
          /\ height' = [height EXCEPT ![n] = BlockOf[qc.hash].height]
          /\ round' = [round EXCEPT ![n] = 0]
      BY <2>4 DEF FinalizeBlock, Delivered
    <3> QED BY <2>1, <3>1
  <2>5. ASSUME NEW n \in Node, Load(n)
        PROVE  \/ height'[m] = height[m] /\ round'[m] >= round[m]
               \/ /\ restarts' > restarts
                  /\ ioFailures > 0
                  /\ height'[m] + ioFailures >= height[m]
    <3>1. CASE m # n
      <4>1. height'[m] = height[m] /\ round'[m] = round[m]
        BY <2>1, <2>5, <3>1 DEF Load
      <4> QED BY <2>1, <4>1
    <3>2. CASE m = n /\ ioFailures = 0
      <4>1. height'[m] = height[m] /\ round'[m] = round[m]
        BY <2>1, <2>5, <3>2 DEF Load, ViewOnDisk
      <4> QED BY <2>1, <4>1
    <3>3. CASE m = n /\ ioFailures # 0
      <4>1. height'[m] = disk[m].height /\ restarts' = restarts + 1
        BY <2>1, <2>5, <3>3 DEF Load
      <4>2. /\ disk[m].height \in Nat /\ ioFailures \in Nat /\ restarts \in Nat
        BY DEF TypeOK, Metadata
      <4>3. height[m] <= disk[m].height + ioFailures
        BY <2>1, <4>2, FollowsLater DEF IndexOnDisk
      <4> QED BY <3>3, <4>1, <4>2, <4>3
    <3> QED BY <3>1, <3>2, <3>3
  <2>6. CASE UNCHANGED vars
    BY <2>2, <2>6 DEF vars, memory
  <2>7. CASE Next
    <3>1. PICK n \in Node :
            \/ ProposeBlock(n) \/ SendViewChange(n)
            \/ \E p \in proposals : HandleProposal(n, p)
            \/ \E v \in precommits : HandlePrecommitVote(n, v)
            \/ \E vc \in viewChanges : HandleViewChange(n, vc)
            \/ OnTimeout(n)
            \/ \E qc \in qcs : FinalizeBlock(n, qc)
            \/ \E qc \in qcs : CrashInFinalize(n, qc)
            \/ Restart(n)
      BY <2>7 DEF Next
    <3>2. CASE \/ ProposeBlock(n) \/ SendViewChange(n)
               \/ \E p \in proposals : HandleProposal(n, p)
               \/ \E v \in precommits : HandlePrecommitVote(n, v)
      BY <2>2, <3>2 DEF ProposeBlock, SendViewChange, HandleProposal,
                        HandlePrecommitVote, memory
    <3>3. CASE \E vc \in viewChanges : HandleViewChange(n, vc)
      <4>1. PICK vc \in viewChanges : HandleViewChange(n, vc)
        BY <3>3
      <4>2. vc.round \in Nat /\ vc.round > round[n] /\ EnterRound(n, vc.round)
        BY <4>1 DEF HandleViewChange, TypeOK, ViewChange
      <4> QED BY <2>3, <4>2
    <3>4. CASE OnTimeout(n)
      <4>1. EnterRound(n, round[n] + 1) /\ round[n] + 1 \in Nat
            /\ round[n] + 1 > round[n]
        BY <2>1, <3>4 DEF OnTimeout
      <4> QED BY <2>3, <4>1
    <3>5. CASE (\E qc \in qcs : CrashInFinalize(n, qc)) \/ Restart(n)
      BY <2>5, <3>5 DEF CrashInFinalize, Restart
    <3> QED BY <2>4, <3>1, <3>2, <3>3, <3>4, <3>5
  <2> QED BY <2>6, <2>7
<1> QED BY <1>1, TypeCorrect, ViewAlways, IndexAlways, PTL DEF Spec, ViewNeverRegresses

-----------------------------------------------------------------------------
(* Replicas.                                                                 *)

\* w is the timestamp windows after each of the first h blocks of an index.
Windows(index, h, w) ==
  /\ DOMAIN w = 0 .. h
  /\ w[0] = << GenesisTime >>
  /\ \A k \in 1 .. h : \E s \in index :
       /\ BlockOf[s.hash].height = k
       /\ w[k] = Slide(w[k - 1], BlockOf[s.hash].timestamp, WindowN)

\* Until a restart a node's accounts are those of the block it stands on, and its
\* window is what the blocks in its index lead to.
Replayed ==
  restarts = 0 => \A n \in Node :
    /\ \A s \in stored[n] : BlockOf[s.hash].height <= height[n]
    /\ \E w : Windows(stored[n], height[n], w) /\ lastTimestamps[n] = w[height[n]]
    /\ IF height[n] = 0
         THEN lastFinalized[n] = ZeroHash /\ root[n] = GenesisRoot
         ELSE /\ lastFinalized[n] \in BlockHash
              /\ BlockOf[lastFinalized[n]].height = height[n]
              /\ root[n] = BlockOf[lastFinalized[n]].root

\* The next block adds a window.
LEMMA WindowsGrow ==
  ASSUME NEW index, NEW qc, NEW h \in Nat, NEW w, Windows(index, h, w),
         BlockOf[qc.hash].height = h + 1,
         \A s \in index : BlockOf[s.hash].height \in Nat /\ BlockOf[s.hash].height <= h
  PROVE  /\ \A s \in SetBlock(index, qc) : BlockOf[s.hash].height <= h + 1
         /\ \E v : /\ Windows(SetBlock(index, qc), h + 1, v)
                   /\ v[h + 1] = Slide(w[h], BlockOf[qc.hash].timestamp, WindowN)
<1> DEFINE t == Slide(w[h], BlockOf[qc.hash].timestamp, WindowN)
           v == [k \in 0 .. h + 1 |-> IF k = h + 1 THEN t ELSE w[k]]
           new == [hash |-> qc.hash, sigs |-> qc.sigs]
<1>1. /\ new \in SetBlock(index, qc) /\ new.hash = qc.hash
      /\ \A s \in SetBlock(index, qc) : s \in index \/ s = new
      /\ \A s \in index : BlockOf[s.hash].height # h + 1 => s \in SetBlock(index, qc)
  BY DEF SetBlock
<1>2. /\ DOMAIN v = 0 .. h + 1 /\ v[h + 1] = t
      /\ \A k \in 0 .. h : v[k] = w[k]
  OBVIOUS
<1> HIDE DEF v, t, new
<1>3. v[0] = << GenesisTime >>
  BY <1>2 DEF Windows
<1>4. ASSUME NEW k \in 1 .. h + 1
      PROVE  \E s \in SetBlock(index, qc) :
               /\ BlockOf[s.hash].height = k
               /\ v[k] = Slide(v[k - 1], BlockOf[s.hash].timestamp, WindowN)
  <2>1. CASE k = h + 1
    <3>1. v[k - 1] = w[h] /\ v[k] = t
      BY <1>2, <2>1
    <3> QED BY <1>1, <2>1, <3>1 DEF t
  <2>2. CASE k \in 1 .. h
    <3>1. PICK s \in index :
            /\ BlockOf[s.hash].height = k
            /\ w[k] = Slide(w[k - 1], BlockOf[s.hash].timestamp, WindowN)
      BY <2>2 DEF Windows
    <3>2. v[k] = w[k] /\ v[k - 1] = w[k - 1]
      BY <1>2, <2>2
    <3>3. s \in SetBlock(index, qc)
      BY <1>1, <2>2, <3>1
    <3> QED BY <3>1, <3>2, <3>3
  <2> QED BY <2>1, <2>2
<1>5. Windows(SetBlock(index, qc), h + 1, v)
  BY <1>2, <1>3, <1>4 DEF Windows
<1>6. ASSUME NEW s \in SetBlock(index, qc) PROVE BlockOf[s.hash].height <= h + 1
  <2>1. CASE s \in index
    <3>1. BlockOf[s.hash].height \in Nat /\ BlockOf[s.hash].height <= h
      BY <2>1
    <3> QED BY <3>1
  <2>2. CASE s = new
    BY <1>1, <2>2
  <2> QED BY <1>1, <2>1, <2>2
<1> QED BY <1>2, <1>5, <1>6 DEF t

\* Every step keeps the accounts and the window those of the stored blocks.
LEMMA ReplayStep ==
  ASSUME DriverInOrder
  PROVE  TypeOK /\ Replayed /\ [Next]_vars => Replayed'
<1> SUFFICES ASSUME TypeOK, Replayed, [Next]_vars, restarts' = 0, NEW m \in Node
             PROVE  /\ \A s \in stored'[m] : BlockOf[s.hash].height <= height'[m]
                    /\ \E w : /\ Windows(stored'[m], height'[m], w)
                              /\ lastTimestamps'[m] = w[height'[m]]
                    /\ IF height'[m] = 0
                         THEN lastFinalized'[m] = ZeroHash /\ root'[m] = GenesisRoot
                         ELSE /\ lastFinalized'[m] \in BlockHash
                              /\ BlockOf[lastFinalized'[m]].height = height'[m]
                              /\ root'[m] = BlockOf[lastFinalized'[m]].root
  BY DEF Replayed
<1> DEFINE Goal ==
      /\ \A s \in stored'[m] : BlockOf[s.hash].height <= height'[m]
      /\ \E w : /\ Windows(stored'[m], height'[m], w)
                /\ lastTimestamps'[m] = w[height'[m]]
      /\ IF height'[m] = 0
           THEN lastFinalized'[m] = ZeroHash /\ root'[m] = GenesisRoot
           ELSE /\ lastFinalized'[m] \in BlockHash
                /\ BlockOf[lastFinalized'[m]].height = height'[m]
                /\ root'[m] = BlockOf[lastFinalized'[m]].root
<1>1. restarts \in Nat /\ height[m] \in Nat
  BY DEF TypeOK
<1>2. ASSUME restarts = 0, stored'[m] = stored[m], height'[m] = height[m],
             lastTimestamps'[m] = lastTimestamps[m], root'[m] = root[m],
             lastFinalized'[m] = lastFinalized[m]
      PROVE  Goal
  <2>1. /\ \A s \in stored[m] : BlockOf[s.hash].height <= height[m]
        /\ \E w : Windows(stored[m], height[m], w) /\ lastTimestamps[m] = w[height[m]]
        /\ IF height[m] = 0
             THEN lastFinalized[m] = ZeroHash /\ root[m] = GenesisRoot
             ELSE /\ lastFinalized[m] \in BlockHash
                  /\ BlockOf[lastFinalized[m]].height = height[m]
                  /\ root[m] = BlockOf[lastFinalized[m]].root
    BY <1>2 DEF Replayed
  <2> QED BY <1>2, <2>1
<1>3. ASSUME NEW n \in Node, NEW qc \in qcs, FinalizeBlock(n, qc) PROVE Goal
  <2>1. /\ restarts = 0
        /\ BlockOf[qc.hash].height = height[n] + 1
        /\ stored' = [stored EXCEPT ![n] = SetBlock(stored[n], qc)]
        /\ height' = [height EXCEPT ![n] = BlockOf[qc.hash].height]
        /\ lastFinalized' = [lastFinalized EXCEPT ![n] = qc.hash]
        /\ root' = [root EXCEPT ![n] = BlockOf[qc.hash].root]
        /\ lastTimestamps' = [lastTimestamps EXCEPT ![n] =
                                Slide(lastTimestamps[n], BlockOf[qc.hash].timestamp, WindowN)]
    BY <1>3 DEF FinalizeBlock, Delivered, ApplyBlock
  <2>2. CASE m # n
    <3>1. /\ stored'[m] = stored[m] /\ height'[m] = height[m]
          /\ lastTimestamps'[m] = lastTimestamps[m] /\ root'[m] = root[m]
          /\ lastFinalized'[m] = lastFinalized[m]
      BY <2>1, <2>2 DEF TypeOK
    <3> QED BY <1>2, <2>1, <3>1
  <2>3. CASE m = n
    <3>1. /\ stored'[m] = SetBlock(stored[m], qc) /\ height'[m] = height[m] + 1
          /\ lastTimestamps'[m] =
               Slide(lastTimestamps[m], BlockOf[qc.hash].timestamp, WindowN)
          /\ lastFinalized'[m] = qc.hash
          /\ root'[m] = BlockOf[qc.hash].root
      BY <2>1, <2>3 DEF TypeOK
    <3>2. PICK w : Windows(stored[m], height[m], w) /\ lastTimestamps[m] = w[height[m]]
      BY <2>1 DEF Replayed
    <3>3. ASSUME NEW s \in stored[m]
          PROVE  BlockOf[s.hash].height \in Nat /\ BlockOf[s.hash].height <= height[m]
      <4>1. s.hash \in BlockHash
        BY DEF TypeOK
      <4>2. BlockOf[s.hash].height \in Nat
        BY <4>1, BlockAssumption DEF Block
      <4> QED BY <2>1, <4>2 DEF Replayed
    <3>4. BlockOf[qc.hash].height = height[m] + 1
      BY <2>1, <2>3
    <3>5. /\ \A s \in SetBlock(stored[m], qc) : BlockOf[s.hash].height <= height[m] + 1
          /\ \E v : /\ Windows(SetBlock(stored[m], qc), height[m] + 1, v)
                    /\ v[height[m] + 1] = Slide(w[height[m]], BlockOf[qc.hash].timestamp, WindowN)
      BY <1>1, <3>2, <3>3, <3>4, WindowsGrow
    <3>6. \A s \in stored'[m] : BlockOf[s.hash].height <= height'[m]
      BY <3>1, <3>5
    <3>7. \E v : Windows(stored'[m], height'[m], v) /\ lastTimestamps'[m] = v[height'[m]]
      BY <3>1, <3>2, <3>5
    <3>8. qc.hash \in BlockHash /\ height[m] + 1 # 0
      BY <1>1 DEF TypeOK, QC
    <3> QED BY <3>1, <3>4, <3>6, <3>7, <3>8
  <2> QED BY <2>2, <2>3
<1>4. ASSUME NEW n \in Node, Load(n) PROVE FALSE
  BY <1>1, <1>4 DEF Load
<1>5. CASE UNCHANGED vars
  BY <1>2, <1>5 DEF vars, memory, ledger, faults
<1>6. CASE Next
  <2>1. PICK n \in Node :
          \/ ProposeBlock(n) \/ SendViewChange(n)
          \/ \E p \in proposals : HandleProposal(n, p)
          \/ \E v \in precommits : HandlePrecommitVote(n, v)
          \/ \E vc \in viewChanges : HandleViewChange(n, vc)
          \/ OnTimeout(n)
          \/ \E qc \in qcs : FinalizeBlock(n, qc)
          \/ \E qc \in qcs : CrashInFinalize(n, qc)
          \/ Restart(n)
    BY <1>6 DEF Next
  <2>2. CASE \/ ProposeBlock(n) \/ SendViewChange(n)
             \/ \E p \in proposals : HandleProposal(n, p)
             \/ \E v \in precommits : HandlePrecommitVote(n, v)
    BY <1>2, <2>2 DEF ProposeBlock, SendViewChange, HandleProposal,
                      HandlePrecommitVote, memory, ledger, faults
  <2>3. CASE (\E vc \in viewChanges : HandleViewChange(n, vc)) \/ OnTimeout(n)
    BY <1>2, <2>3 DEF HandleViewChange, OnTimeout, EnterRound, ledger
  <2>4. CASE (\E qc \in qcs : CrashInFinalize(n, qc)) \/ Restart(n)
    BY <1>4, <2>4 DEF CrashInFinalize, Restart
  <2> QED BY <1>3, <2>1, <2>2, <2>3, <2>4
<1> QED BY <1>5, <1>6

\* Without a fork two nodes that stand on one block have seen the same blocks,
\* and so the same windows.
LEMMA SameWindows ==
  ASSUME ~Forked, NEW n \in Node, NEW m \in Node, NEW h \in Nat, NEW v, NEW w,
         Windows(stored[n], h, v), Windows(stored[m], h, w)
  PROVE  v[h] = w[h]
<1> DEFINE S == { k \in 0 .. h : v[k] = w[k] }
<1>1. 0 \in S
  BY DEF Windows
<1>2. ASSUME NEW k \in 1 .. h, k - 1 \in S PROVE k \in S
  <2>1. PICK s \in stored[n] :
          /\ BlockOf[s.hash].height = k
          /\ v[k] = Slide(v[k - 1], BlockOf[s.hash].timestamp, WindowN)
    BY DEF Windows
  <2>2. PICK t \in stored[m] :
          /\ BlockOf[t.hash].height = k
          /\ w[k] = Slide(w[k - 1], BlockOf[t.hash].timestamp, WindowN)
    BY DEF Windows
  <2>3. s.hash = t.hash
    BY <2>1, <2>2 DEF Forked
  <2>4. v[k - 1] = w[k - 1]
    BY <1>2
  <2> QED BY <2>1, <2>2, <2>3, <2>4
<1>3. 0 .. h \subseteq S
  <2> HIDE DEF S
  <2> QED BY <1>1, <1>2, BoundedInduction
<1> QED BY <1>3

\* Replicas that have finalized the same block hold the same accounts and the
\* same window, until a restart or a fork (ApplyBlock, FinalizeBlock).
THEOREM ReplicasAlways ==
  ASSUME DriverInOrder
  PROVE  Spec => []ReplicasAgree
<1>1. Init => Replayed
  <2> SUFFICES ASSUME Init, NEW n \in Node
               PROVE  /\ \A s \in stored[n] : BlockOf[s.hash].height <= height[n]
                      /\ \E w : /\ Windows(stored[n], height[n], w)
                                /\ lastTimestamps[n] = w[height[n]]
                      /\ height[n] = 0 /\ lastFinalized[n] = ZeroHash /\ root[n] = GenesisRoot
    BY DEF Replayed
  <2> DEFINE w == [k \in 0 .. 0 |-> << GenesisTime >>]
  <2>1. /\ stored[n] = {} /\ height[n] = 0 /\ lastTimestamps[n] = << GenesisTime >>
        /\ lastFinalized[n] = ZeroHash /\ root[n] = GenesisRoot
    BY DEF Init
  <2>2. Windows(stored[n], height[n], w) /\ lastTimestamps[n] = w[height[n]]
    BY <2>1 DEF Windows
  <2> QED BY <2>1, <2>2
<1>2. TypeOK /\ Replayed => ReplicasAgree
  <2> SUFFICES ASSUME TypeOK, Replayed, restarts = 0, ~Forked, NEW n \in Node, NEW m \in Node,
                      lastFinalized[n] = lastFinalized[m]
               PROVE  root[n] = root[m] /\ lastTimestamps[n] = lastTimestamps[m]
    BY DEF ReplicasAgree
  <2>1. /\ IF height[n] = 0
             THEN lastFinalized[n] = ZeroHash /\ root[n] = GenesisRoot
             ELSE /\ lastFinalized[n] \in BlockHash
                  /\ BlockOf[lastFinalized[n]].height = height[n]
                  /\ root[n] = BlockOf[lastFinalized[n]].root
        /\ IF height[m] = 0
             THEN lastFinalized[m] = ZeroHash /\ root[m] = GenesisRoot
             ELSE /\ lastFinalized[m] \in BlockHash
                  /\ BlockOf[lastFinalized[m]].height = height[m]
                  /\ root[m] = BlockOf[lastFinalized[m]].root
    BY DEF Replayed
  <2>2. PICK v : Windows(stored[n], height[n], v) /\ lastTimestamps[n] = v[height[n]]
    BY DEF Replayed
  <2>3. PICK w : Windows(stored[m], height[m], w) /\ lastTimestamps[m] = w[height[m]]
    BY DEF Replayed
  <2>4. height[n] = height[m] /\ root[n] = root[m]
    BY <2>1, BlockAssumption
  <2>5. height[n] \in Nat
    BY DEF TypeOK
  <2>6. v[height[n]] = w[height[n]]
    BY <2>2, <2>3, <2>4, <2>5, SameWindows
  <2> QED BY <2>2, <2>3, <2>4, <2>6
<1>3. TypeOK /\ Replayed /\ [Next]_vars => Replayed'
  BY ReplayStep
<1> QED BY <1>1, <1>2, <1>3, TypeCorrect, PTL DEF Spec

=============================================================================
