# A verification of opencoin in TLA+

This directory models the node of opencoin (`src/`, Go): its consensus engine,
its ledger, its mempool, its validator registry, the bytes all of these are
signed, hashed and stored as, and its peer sessions. The models are translated
from the code; where a document and the code differ, the model follows the code
and the difference is stated as a property that a run refutes.

## 1. The system

| Component | State | Operations | Used by |
|---|---|---|---|
| Consensus engine, `pkg/consensus/hotstuff.go` | height, round, lastFinalized, votes per block, validator set | ProposeBlock, HandleProposal, HandlePrecommitVote, HandleViewChange, OnTimeout, FinalizeBlock, NewEngine | an external driver |
| QC verification, `pkg/consensus/qc.go` | none | VerifyQC | nothing under `src/` |
| Validator registry, `pkg/consensus/dpos.go` | validators: stake, power, delegations, jail | RegisterValidator, Delegate, Undelegate, SlashDoubleSign, SlashOffline, ValidatorSet | engine, node |
| Ledger, `pkg/state/state.go` | none of its own | PreviewBlock, ApplyBlock | engine |
| Store, `pkg/state/store.go` | accounts, timestamp window, height index of blocks, consensus metadata | getters, setters, batches | ledger, engine, node |
| Version DAG, `pkg/state/dag.go` | nodes, children, tips | AddNode, PruneNonFinal | ledger (AddNode) |
| Resource credits, `pkg/rc/rc.go` | none | Median, EffectiveTime, RCMax, Regen, Cost | ledger, engine, coster |
| Mempool, `pkg/mempool/mempool.go` | a queue per sender | AddTx, SelectForBlock | engine |
| Contract engine, `pkg/contracts/engine.go` | contracts, code, modules, metrics | DeployContract, ExecuteContract, storage and balances | ledger |
| Node, `pkg/node/node.go` | the components | Start, Stop, applyGenesis | command line |
| Governance, `pkg/governance/governance.go` | proposals, votes, next id | SubmitProposal, Vote | nothing |
| P2P, `pkg/p2p/p2p.go` | a session key per peer | Kyber handshake, encrypt, decrypt | node |
| Payloads, encoding, crypto, ABCI, config, cmd | little | conversions, wrappers | all |

How they interact. The engine holds its mutex through every handler. Within it,
ProposeBlock asks the mempool for transactions and the ledger for the state
root they lead to (PreviewBlock); HandleProposal repeats the preview and votes;
HandlePrecommitVote collects votes into a quorum certificate (QC);
FinalizeBlock applies the block (ledger, one store batch), then changes the
engine's memory, then writes the consensus metadata. The ledger, the mempool
and the registry have locks (or none) of their own, so their calls interleave.
Nothing under `src/` calls the engine's handlers or calls FinalizeBlock with a
QC, and the node passes the engine a nil network: the code that delivers
messages is outside, and is modelled only as far as the interfaces force it.

What is hard: messages delivered late, twice, reordered or never; timeouts
against late votes; a crash between the ledger's commit and the metadata; a
failed metadata write whose error is dropped; genesis applied again at every
start; a preview and a real pass of one block that must agree; a pool whose
checks are made outside its lock; unsigned arithmetic. The `hazards` list in
`PROJECT.json` names each at its line.

What makes each part correct: forks need misbehaving or double-voting
validators, certificates are what they claim, certified blocks form chains,
the chain grows, a restart loses nothing that was acted on (engine); nonces are
used once and in order, no tokens are created or destroyed, a block that
previews applies, replicas compute the same (ledger); a block's transactions
are executable and in the documented order, and accepted by the ledger
(mempool); power is what backs it and every node orders validators alike
(registry); bytes mean one thing to everyone who signs, hashes, stores or reads
them (encodings).

## 2. The modules

| Module | What it is |
|---|---|
| `Sums` | sums over finite sets, by counting (no recursion, so that they can be proved about) |
| `SumsTheorems` | induction over the natural numbers as facts about sets and what a function defined by recursion over `0 .. n` is; facts about sums: finiteness, monotonicity, unions, one addend changed or added, and that two quorums share more than a third |
| `RCTime` | `rc.Median`, `rc.EffectiveTime` and the window update of `ApplyBlock` |
| `RC` | `RCMax`, `Regen`, `Cost`, with saturation |
| `HotStuff` | the consensus engines of all nodes, the network and the part of the stores they write |
| `CertifiedChain` | the abstract specification of consensus: votes, certified blocks, each node's index; `HotStuff` implements it |
| `HotStuff_proofs` | the theorems about `HotStuff` |
| `Transactions` | what a transaction does to the accounts, as operators; what the ledger and the pool charge for it |
| `TransactionsTheorems` | what the clock, the credits and a transaction compute, for all parameters; used by the proofs about `Ledger` and `Proposer` |
| `Ledger` | the ledger of one node with credits, the contract engine and restarts |
| `AtomicLedger` | the abstract ledger: a block takes effect in one step; `Ledger` implements it |
| `Ledger_proofs` | the theorems about `Ledger` |
| `Mempool` | the pool of one node, its clients, and commits seen through the accounts |
| `Mempool_proofs` | the theorems about `Mempool` |
| `Proposer` | a proposing node: `Mempool` composed with `Transactions`, the timestamp window and a clock |
| `Proposer_proofs` | the theorems about `Proposer`; it uses those about `Mempool` through an instance |
| `Wire` | the wire format: payload encoders and decoders |
| `Records` | transactions, blocks, messages and accounts as bytes; what is signed and hashed; the state root |
| `BlockStore` | from a client's payload bytes to accounts and blocks read back from the store |
| `BlockLog` | the abstract store: a log of linked blocks and the accounts they lead to; `BlockStore` implements it |
| `BlockStore_proofs` | the theorems about `BlockStore` and the encodings it stores |
| `DPoS` | the validator registry |
| `Sessions` | the Kyber handshakes and session keys of the peers |
| `Peers_proofs` | the theorems about `DPoS` and `Sessions` |
| `MC*` | small instances of these for TLC |

### HotStuff

`height`, `round`, `lastFinalized`, `votes` are the fields of `Engine`, one per
node; `disk` is the metadata of `SetConsensusState`; `root`, `lastTimestamps`,
`stored` are the accounts (as their Merkle root), the timestamp window and the
height index in the store; `proposals`, `precommits`, `qcs`, `viewChanges` are
the messages ever sent. Each exported handler is one action of the same name,
since each runs under `Engine.mu`. A message may be handled any number of times
at any later moment, or never. A block is named by its hash (`BlockOf[h]` is its
content, so hashing is collision free), a vote stands for its signature, and the
execution of transactions is the constant operator `Exec` on state roots (the
`Ledger` module says what it is).

Faults: `Restart` is a crash between handlers and the next `Node.Start`, with
`loadConsensusState` and `applyGenesis`; `CrashInFinalize` is a crash after
`ApplyBlock`'s commit and before the metadata is written; `PersistFails` is a
failed metadata write, whose error HandleViewChange and OnTimeout drop.
`SetConsensusState` writes its three keys in one step here.

The driver. It is external and has two obligations: it pairs a QC with the block
the QC names, and (`DriverInOrder`) it finalizes heights one after the other.
FinalizeBlock checks neither. The safety runs state which they assume:
`hs_safety` takes the driver out of order, the others in order, because out of
order FinalizeBlock moves the height back, which leaves nothing to say about the
store. That the engines implement `CertifiedChain` out of order too is proved only. `SendViewChange` is the driver announcing a node's round; no code under
`src/` creates a `types.ViewChange`.

All modelled nodes are honest: they sign only what their handlers sign. This is
enough for a fork, and it makes the accountability theorem the strongest
statement the code supports.

`CertifiedChain` says what remains when engines, rounds, messages and failures are
left out: a node votes for a block whose parent is certified, a quorum's votes
certify a block, a certified block enters a node's index in place of the one of
its height. `HotStuff` maps to it (`Chain`) by dropping rounds and signatures from
votes, QCs and index. Of the handlers, HandleProposal is `CastVote`,
HandlePrecommitVote is `Certify` when it builds a QC, FinalizeBlock and a crash
inside it are `Finalize`, all else is a stutter. It does not promise agreement,
because the code does not keep it.

Powers and their total are naturals that fit the machine word, as in
`isExpectedProposerLocked`; the two products of the quorum test are taken modulo
`U64`.

### Ledger

A pass over a block is a sequence of steps, one per transaction, on `batch`, a
copy of the stored accounts; `phase` says whether it is the preview or the real
pass. `Results(tx)` is `applyTransactionWithKV` (`Execute` of `Transactions`): the set
of batches the transaction may lead to, empty if it fails. `EndApply` commits accounts, window
and block together. `engine` is the set of addresses that the contract engine's
maps hold. `Restart` loses the engine and applies genesis again, at any point of
a pass too.

Contract transactions never succeed in the real pass. `NewContractEngine` does
not create the map `compiled`, so DeployContract either returns an error (address
taken, code that does not compile) or panics on the write to that map
(`DeployPanics`), and ExecuteContract fails for every address. The preview
accepts both, so a block with a contract transaction that every validator votes for
can never be applied. `PreviewDecides` says that this is the only way in which the
two passes may differ.

`AtomicLedger` has two steps, committing a block and restarting. `Ledger` maps to it
by the stored accounts, window and chain; previews and failed passes are stutters.

`CreditEarned` bounds what `rc.Regen` gives. The effective time of a block may be earlier
than that of the block before, because the timestamp window moves on; Regen then stores
the earlier time, and when the clock passes the interval again credits it again. What an
account has paid and has left is bounded by the ceiling for the tokens it ever staked,
and by Beta per such token and second by which the clock went *forward* (`Climb`), every
forward movement counted. With the net movement of the clock instead the property fails,
also with the bounds of the run: the second crediting really happens. A restart is excepted, because
`applyGenesis` writes the genesis accounts anew.

The version DAG is left out: `ApplyBlock` adds a node after the commit, ignores
the error, and nothing reads it.

### Mempool

`AddTx` is `CheckTx` (the account is read and compared without the lock) and
`InsertTx` (under the lock), per client. `SelectForBlock` is a function of the
pool and the accounts; it runs under the engine's lock, which keeps out
FinalizeBlock. Its heap is `HeapAfter(txs)`: what can be popped when `txs` were.
`CommitBlock` is any commit, of any block: it changes accounts only, since no code
ever removes a transaction from the pool. Nonces only grow; the credit of an account
that sends is chosen freely within bounds, since the ledger may regenerate it.

### Proposer

The pool over a real ledger. `Pool` is an instance of `Mempool` on the nonces and
credits of `accounts`; `PoolImplemented` shows that every step of the composition is a
step of `Mempool`, so that its arbitrary commits include the real ones. `Propose` is
ProposeBlock with the selection, HandleProposal's timestamp check and preview, and
the application of the block, in one step; a block the ledger refuses changes nothing,
so `Propose` is then not enabled. `OtherProposes` commits blocks of other validators.
All clocks show the same time, and `Tick` advances it.

What the run makes visible. AddTx compares the *stored* credit, which genesis sets to 0
and only an applied transaction regenerates: nobody's first transaction is ever pooled
(`NoFirstTxPooled`), so in a network whose proposers all use their pools nothing is ever
committed. The run therefore has blocks of other proposers with first transactions. A
clock that is later than the median by more than MaxSkewSec stops the network for ever
(`LateForEver`). A selected transaction that the ledger refuses, such as one that cannot
be paid, stays in the pool and stops this node's proposals (`Refused` in `PoolDrains`).
An undelegation costs its sender the credit above the new ceiling, which the pool does
not know. If a later transaction of the same block raises the ceiling again the credit
is lost all the same, so a refusal for lack of credit is explained by the ceiling at any
point of the block so far (`CeilingSank`), not by the one before the refused transaction.

### Wire, Records and BlockStore

A byte string is a sequence of fields (number, wire type, value); bytes that are no
message, a truncated varint or length among them, are a field with number 0, which every
decoder refuses. Hashes, addresses and signatures are free: they
hold what they were made from, so two are equal only if made from the same bytes. An
int64 is written as its residue modulo `U64`. The code has one loop per decoder, all alike;
here they are the loop `Decode` over a table that says how the field of each number is
read and which part of the value it sets (`SetField`). The envelope of a payload, which
refuses a second payload and a second key, has a loop of its own (`DecodeEnvelope`). The
result is a set, empty when the bytes are refused.

In `BlockStore` a client writes payload fields one by one, in any order and number
(`Write`), and signs and submits (`Submit`, the checks of AddTx). `Commit` executes the
pending transactions on the store, puts the state root into a block with the
signatures FinalizeBlock adds, and writes block and height index. Execution goes as far
as keys, nonces and tokens; credit is left to `Transactions`, contract transactions
fail; the credit fields of stored accounts therefore stay as genesis wrote them. Each of
the pool, consensus and the batch is one step here, because `Mempool`,
`HotStuff` and `Ledger` take them apart. `Restart` is a start of the node at any
point between blocks: the pool is lost and `applyGenesis` writes the genesis accounts over the
stored ones, with nonce 0 and no key, so stored transactions of genesis accounts can no longer be
audited and their nonces are used again. `started`, the height at the last start, is a history
variable by which `TransactionsAudited` says which transactions it speaks of.

`BlockLog` is what the bytes stand for: a list of blocks, each naming the hash of the one
before and the root of the accounts it leads to when the transactions *read from the
list* are executed; and a restart, which takes the genesis accounts back and leaves the list
as it is. `BlockStore` maps to it by decoding its whole store.

`BlockStoreAssumption` says what the code's types and genesis give. `U64` is even, times
are int64s, hashes and lists of signatures have the form they have in Go. `AddrOrder` lists every
address that occurs once, in the order in which pebble orders them. Nothing checks the
receiver of a transfer, so addresses are byte strings of any length and content, of which
a payload of the instance names finitely many. `UpperBound` is how many of them
`iterateAccounts` gets to: its bound is the prefix and byte 0xFF, so an account whose
address begins with this byte can be read and spent from, but is in no state root. The bytes of a payload are lists of fields whose numbers are
naturals. Genesis accounts have
different addresses, nonce and credit 0, no key and no code (`applyGenesis`).

### DPoS

`validators` is the map of the registry. Every amount is an unsigned machine
integer. `ValidatorSeq` is the order of `ValidatorSet`. The epoch is an argument
of the calls, as in the code.

### Sessions

`handshakes` is the sequence of the handshakes started, each with the state of the
goroutine at either end (`initiateKyber` and `handleKyberStream`); a key is the
number of the handshake it comes from. The server sends the ciphertext and stores
the key in two steps, between which the client may store its own. A stream
delivers or breaks; an end that returns early closes it, which the other end sees.
`New` dials the bootstrap peers before it registers for notifications, so each end
of a connection is told of it only if it was `up`. libp2p and Kyber are external.

## 3. The runs

Passing runs:

| Run | Question | Bounds, and why they are enough |
|---|---|---|
| `hs_safety` | Do certified blocks chain back to genesis, are forks accountable, with finalizations in any order? | 3 validators with powers 2, 1, 1 (two may or may not be a quorum), heights 1 and 2, two transactions, 3 proposals: competing blocks at both heights. Votes go to one collector; it holds any subset of the votes in any order. |
| `hs_faults` | What do crashes, failed writes, timeouts and view changes leave? Are QCs backed, with votes of two rounds and none kept through a restart? Do the engines implement `CertifiedChain`? | 2 validators with equal power (the proposer changes with the round), heights 1 and 2, timestamps that differ from the window, a window of 1, one restart, one failed write, one timeout, 2 proposals. |
| `hs_live` | Does the chain grow? | As above without faults, with one node timing out once; enough proposals that the bound is never what stops it. |
| `ledger` | Nonces, supply, earned credit, agreement of the two passes, the window, atomic blocks | two genesis accounts and a receiver; all six payload kinds; three kinds of contract code; empty blocks, single transactions and pairs; repeated and skipped nonces; two timestamps, one outside the allowed skew; 3 committed blocks, so that the effective clock can go back and forward again; one restart. Amounts modulo 16. To pay for the third block, the larger amount is left to undelegations, contract transactions to the first nonce, and pairs to the kinds that move tokens. |
| `mempool` | Are the queues sorted, selections executable and in order? What does a stale transaction do? | 2 senders, 2 clients, nonces 0 and 1, costs 1 and 2, credit up to 3, blocks of up to 3. |
| `proposer` | Does the ledger take what the pool selects? When does a node stop committing? | two staked accounts; 9 transactions for the pool: payable and unpayable transfers, an undelegation that lowers the ceiling of the credit, a delegation that raises it again and a transfer after both, a deployment; 4 transactions of others; blocks of 3, so that the three fit into one; a clock that can leave the window (skew 1) by one; one client. |
| `blockstore` | Do bytes mean what they were written for, from the client to the disk and back? | 2 clients and an account without a key; payloads of up to 2 of 16 fields, among them each of the seven kinds, inner fields repeated, reordered, unknown, missing and out of range, keys present, empty and repeated, wrong wire types, bytes that cannot be parsed; 2 transactions in 1 or 2 blocks, and a restart at any point; a negative timestamp; even and odd numbers of accounts, one of them at an address that begins with byte 0xFF. |
| `sessions` | Do handshakes end, and with which keys? | 2 peers (pairs do not influence each other), 2 connections, so up to 4 handshakes in both directions, and one broken stream. |
| `dpos` | Is power backed, is the set canonical? | 3 addresses of which 2 may register, amounts up to 3, one slashing. Deadlock is checked here; in the other models the bounds stop the system. |

Runs that refute what the documentation says (each is a finding in
`PROJECT.json`, with the quotation):

| Run | What happens |
|---|---|
| `hs_agreement` | Validator 1 proposes and both vote; a timeout; validator 2 proposes another block of the height and both vote again. Both blocks get a QC; each node finalizes another one. No node misbehaves and no message is lost: HandleProposal has no lock and no memory of its votes. |
| `hs_qc_round` | A round passes between vote and QC; the QC carries the engine's round, the signatures cover the votes' round; VerifyQC rejects it. |
| `ledger_replay` | A transfer commits, the node restarts, `applyGenesis` resets the sender's nonce, the same transfer commits again. |

Behaviours that one would rather not have, and that no document forbids, are stated by
or inside passing properties: those of `Proposer` above;
`SupplyAccounted` says that a transfer to oneself destroys the amount (the credited
copy of the account is overwritten by the debited one) and that nothing else
creates or destroys tokens; `StaleHides` says that a transaction whose nonce was used,
and so every one that this node's own blocks commit, is never removed from its queue and
keeps the valid ones behind it out of every block, for which `SelectionInOrder` exempts
its sender; `PreviewDecides` exempts contract transactions; `RootCoversState` says that an account
at an address that begins with byte 0xFF is in no state root, so that validators agree on
a block whatever they hold there; `TransactionsAudited` that after a restart earlier
transactions can no longer be audited; `ViewNeverRegresses` that a restart after a failed metadata
write goes back. Two are left to the models:
a deployment that compiles panics, and crossing handshakes, one from each end of a
connection, may leave two peers with different keys, which is why `SoloHandshakeAgrees`
asks for a handshake that no other overlaps.

### Fairness

`hs_live` assumes weak fairness of: proposing, for a scheduled proposer; handling
some proposal that can be voted for; delivering, to a collector, a vote of each
validator for each block; handling a view change that raises the round;
finalizing a QC that can be applied; announcing one's round. These are
obligations of the external driver: in `src/` nobody calls the handlers. No
fairness is assumed for timeouts and restarts. Handlers stay enabled until they
have had their effect, so weak fairness is what a driver that retries gives.
`proposer` assumes weak fairness of `Propose`: somebody keeps asking the node to propose,
and a proposal that is valid gets its votes. Clients and the clock are not fair.
`sessions` assumes that goroutines run and that a stream delivers what was written
or breaks: Go's scheduler and libp2p.

In `hs_live` one timeout only is possible per run of the system, so that rounds stop moving;
with timeouts at both nodes the property holds as well (a longer run).

`Progress` has the disjunct `Forked`. Without it the property fails: after a fork
the two nodes stand on different blocks, neither block's children can get two
votes, and the chain halts. The fork is that of `hs_agreement`.

### Mutants

Each property of a passing run is shown to be able to fail: `PROJECT.json` lists,
for each, a plausible bug (the operators commented "Mutant") under which TLC
finds it violated.

## 4. What is proved

Every theorem holds for all values of the constants that the modules' named assumptions
allow; further assumptions are given with the theorem. `PROJECT.json` lists the
theorems with the properties they establish.

### HotStuff_proofs

- `TypeCorrect`: `Spec => []TypeOK`.
- `SoundAlways`: `Spec => [](TypeOK /\ Sound)`, the inductive invariant.
- `QCBackedAlways`, `ForkAccountable`: `Spec => []QCBacked` and
  `Spec => []ForkAccountability`, assuming `PowerFits` (three times the total
  power is below `U64`). Without it the quorum test of the code wraps and the
  statements are false.
- `CertifiedParentAlways`: `Spec => []CertifiedParent`.
- `EnginesImplementChain`: `Spec => ImplementsChain`, under `PowerFits`.
- `ViewForward`, `StoreFollows`: `Spec => ViewNeverRegresses` and
  `Spec => []StoreFollowsMetadata`, assuming `DriverInOrder`.
- `ReplicasAlways`: `Spec => []ReplicasAgree`, assuming `DriverInOrder`.

`Sound` has five parts. `HeldVotesSent`: what is in a vote map was sent.
`VotesExtendFinalized`: a vote is for a block whose height is the vote's and
whose parent is genesis or certified just below. `QCSound`: a QC's signatures are
such votes, for its block and height, by validators that pass the quorum test.
`ViewsFinalized`: the block a node stands on, in memory and on disk, is genesis or
certified at its height. `StoredHasQC`: a stored block was certified. The
properties themselves are not inductive: that a new QC's parent is certified
depends on what its voters stood on when they voted, which is gone by then; the
votes keep it (`VotesExtendFinalized`), and the views give it to the votes
(`ViewsFinalized`), through a restart because the metadata on disk satisfies it
too. Messages are never taken back, so "certified" is stable, which the lemmas
named `...Kept` say once.

`ForkAccountable` then combines `QCSound` with `QuorumsShare` (`SumsTheorems`): two
sets with more than two thirds of a total share more than a third of it, by
counting units (`TotalUnion`).

The refinement maps the initial states to initial states, and under `TypeOK /\ Sound`
every action to one abstract action or a stutter, one lemma per visible action
(`VoteStep`, `CertifyStep`, `FinalizeStep`). `ViewsFinalized` gives the guard of
`CastVote`, `QCSound` those of `Certify` and `Finalize`.

`ViewForward` and `StoreFollows` add two invariants. `ViewOnDisk`: unless a write has
failed the metadata after every handler is what the engine has in memory, which is
what a restart loads. `IndexOnDisk`: the height index is `1 .. top` (`Follows`), the metadata's
height is at most the memory's and that at most `top`, the first is behind the second by at
most one block for each failed write, and behind `top` by one more, which a crash inside
FinalizeBlock may have left; and the blocks that memory and metadata name are in the index
(`Named`). The three ways in which a finalization ends keep it (`FollowsApplied`). That
a block goes to the height above the memory's and not over another one is `DriverInOrder`;
that the index still holds the metadata's block when a block above it is written a second time
needs its height, which comes from `QCSound`.

`ReplicasAlways` needs a history that the engine does not keep, the windows after each
block. `Replayed` says that there is one: a list `w` of windows (`Windows`) that starts with the
genesis one, in which each follows from the one before by a stored block of its height, and
that ends with the window in memory. Without a fork the stored blocks of two nodes agree
height by height, so the lists do (`SameWindows`, by induction), and the block a node stands
on determines its root.

### Ledger_proofs

- `TypeCorrect`: no balance, stake, ceiling or credit leaves the machine word, upwards or
  downwards, in the middle of a pass too. Of genesis it is assumed that its amounts are
  machine words (`TransactionsAssumption`).
- `AtomicAlways`: `Spec => ImplementsAtomicLedger`.
- `PreviewDecidesAlways`: `Spec => PreviewDecides`.
- `WindowAlways`: `Spec => []WindowIsTail`.
- `NoncesAlways`: `Spec => []NoncesInOrder`, for any length of the chain.
- `SupplyAlways`: `Spec => []SupplyAccounted`, assuming finitely many addresses and that
  the tokens of genesis fit the machine word. Otherwise additions wrap.
- `CreditAlways`: `Spec => []CreditEarned`, for any chain, window, skew and rates.

The invariant behind the first three is `PassOK`. It says that `batch` is the end of a *run*
(`Runs(f, n, ...)` of `Transactions`): a list of accounts that starts at the store
and in which each entry is what a transaction may lead to. During a real pass there is
also the preview's run, and the two agree as far as the pass has come. From it follow the refinement (at a
commit the run is complete, and so one of those `AtomicLedger` chooses from) and the
agreement of the passes: `PreviewAgrees` and `ExecuteDeterministic` say that only
a deployment or a call may lead elsewhere, so the mismatch of state roots in `ApplyBlock` does not
happen. The definitions reached through the instance `Atomic` are the ones of `Transactions`
under other names; the lemmas named `Same...` say so.

`Counted` and `Solvent` extend a statement about the chain to the middle of a pass: they speak of the
*places* of the chain followed by those the pass has executed, so that a commit
changes nothing but the names of places. `Counted` is `InOrder`: the place of a transaction among its
sender's is its nonce. `Solvent` is `Balanced`: what all accounts are worth and what was
paid to oneself add up to the tokens of genesis (`ExecuteWorth` for one transaction), so
no sum wraps. Both hold until the first restart, which applies genesis again.

`CreditEarned` alone is not inductive: it does not say what an account would regain if it
were used now. `Creditworthy` adds that (`EarnedBy`): credit, payments and Beta times stake
times the seconds from the account's stored time to the clock are within the bound, and no
stake is larger than genesis and all delegations of the account together, so the stake by
which Regen multiplies is one the bound counts. A transaction moves the third part to the
first and then the charge to the second (`EarnedExtends`); a new block moves clock and
bound by the same amount (`EarnedLater`). A clock that goes back only lowers the third part.
`PassClock` says that a pass dates its transactions as the chain will date the block,
which takes `WindowIsTail`. Saturation of `rc.Regen` only lowers what it returns (`RegenAtMost`).

### Mempool_proofs

- `TypeCorrect`, `QueuesSortedAlways`, `SelectionExecutableAlways`,
  `SelectionInOrderAlways`, `StaleHidesAlways`, for any senders, clients, transactions
  and block size. `TypeOK` of the pool is proved and not among the properties of a run. Of the hashes it is assumed that their order is a strict total one.

`Inv` is `TypeOK`, `QueuesSorted` and that finitely many queues are in use, which is what makes a
heap nonempty with a first element. What `SelectForBlock` returns is not stored, so the other
theorems are about one state: by induction over the pops (`Chosen`) every prefix of a
selection has taken a prefix of each queue, beginning at the account's nonce (`HeadsServed`), and each
pop is the first of a heap that holds the next transaction of every sender that can still
be served (`NextOnHeap`). `StaleHides` adds that nonces only grow and that an
insertion below a stale head is itself stale (`StaleStays`).

### Proposer_proofs

- `NoFirstTxAlways`, `SelectionFitsAlways`: `Spec => []NoFirstTxPooled` and
  `Spec => []SelectionFitsLedger`, for any accounts, transactions, block size and genesis.
- `PoolImplementedAlways`: `Spec => PoolImplemented`.
- `LateAlways` (`Spec => LateForEver`): the window is never empty once genesis is applied, so
  a timestamp is always clamped to the median, and a clock past it only moves further away.

They assume what genesis validation enforces (positive rates and prices), that a
transaction has at least one byte, that nonces are below the bound `MaxNonce`, and that
`HashBelow` is a strict total order on the pool's transactions.

The inductive invariant `IInv` has four parts: the window is not empty (`WindowOK`);
credits are machine words, an account without nonce has no credit, and one with a nonce
has its key registered (`AccountsOK`); the invariant of the pool; and that nothing of an
account without a nonce is in the pool or on its way into it (`NothingFirst`). The last
needs all the others: CheckTx turns a first transaction away because no credit is stored
and no transaction is free. The pool's invariant is not proved again. `Proved` is an
instance of `Mempool_proofs` on the accounts, so that every lemma about the pool is one
about the node; what it takes is `PoolStep`, that a commit of any block, with any
transactions of anybody, changes nonces and credits only as `Mempool!CommitBlock` may. That
is also the theorem `PoolImplementedAlways`.

For `SelectionFitsLedger` the pool's account of the selection and the ledger's are laid side by
side. `SelectionServes` (`Mempool_proofs`) says that the k-th selected transaction has the
nonce after those its sender already has in the selection, and a price within what those
leave of the credit. `Left` says what the ledger has after k of them: the same nonce, the
key, and at least that credit unless the ceiling has sunk. It is kept by each
transaction (`LeftAlways`, by induction over the block): the credit regenerates to at least
what it was or the ceiling (`RegenAtLeast`) and the ledger charges at most the pool's price
(`CosterCovers`).

### BlockStore_proofs

- `TypeCorrect`: every block and every genesis account can be read and is read as one
  value.
- `StoredUnderVotedHashAlways`, `TransactionsAuditedAlways`, `RootCoversStateAlways`,
  `SignBytesSeparateAlways`: `Spec => []...` of the properties of the run. What is said
  about transactions is said of those stored since the last start.
- `StoreImplementsLog`: `Spec => ImplementsBlockLog`.
- `DecodesAsMeantAlways`, `NormalFormAlways`: payloads of any fields, in any order and
  number, are accepted exactly when the protobuf rules and the checks of the code allow
  it, and read as those rules say; and what was read can be written and read back.
- `RootDetermines`: two sets of accounts with equal roots hold the same of the accounts that
  are iterated, which is more than the run can ask of the neighbours of a store.

All are for any addresses, keys, payload fields, blocks and bounds under
`BlockStoreAssumption`, with free hashes and signatures (their definitions, not an
assumption).

*Reading back.* `TransactionReadBack`, `AccountReadBack` and `BlockReadBack` say that
unmarshalling what was marshalled gives the value, optional fields and int64s included. The
loop `Decode` is first shown to be what its definition says (`DecodeDefined`); then each field
is one step of it, by the rule of its number. The definitions by recursion are not proved
by induction over data but by the functions they define, whose existence `BoundedInduction`
gives (see below).

*The invariant.* `IInv` says that under an account's key are the bytes of an account of
that address (`AccountsHeld`), and that genesis accounts stay; that under the height's key is a block's
hash without signatures and under that hash the bytes of the block (`BlocksHeld`); that
the drafts and the pool hold what may be sent; and that every transaction stored since the
last start can be audited, its nonce below its sender's (`AuditedAll`). The properties are not inductive
without it: a new block may only be said not to overwrite an old one because the hash
of each contains its height, and a nonce may only be said not to be used twice because
every used one is below the account's. `CommitEffect` says what a commit does, once, in terms of
what is read; `ExecutedStep` carries the audit through the transactions of a block, where a
key may be brought by one and used by the next. A restart (`RestartEffect`) leaves the
blocks and every account that is not of genesis, and nothing that the audit speaks of.

*The root.* `LevelInjective`: a level over distinct nodes determines the one below,
though an odd one doubles its last node. That needs the nodes to be distinct, since
`a b` doubles nothing and `a b b` looks like `a b b b`. Going down two towers of levels at
the same time (`RootInjective`) trees of different heights differ, because a leaf is
tagged and is no pair. So equal roots have equal leaves, and leaves are read back. An account
that is not iterated has no leaf, which is the other half of `RootCoversState`.

*Signed bytes.* A proposal has 3 fields, a vote 5 and a view change 4; within a kind the
fields are the hash, block or round.

*The refinement.* `LogStep`: writing and submitting are stutters, and a commit appends a
block whose execution on the accounts read before (`Log!Execute`) has the accounts read
after as an outcome, and a restart is one of the log.

*Payloads.* `DecodeMeans` says once, for all tables, what the loop `Decode` returns: nothing
exactly when a field is refused, and otherwise a value of which each part means what the fields
say. Its invariant is `MeansTo`, the same for the first `m` fields: a field of the part's
number becomes its last one (`MeansLast`) or grows its list (`MeansGrown`), and any other
field leaves it (`MeansStays`). `ShapeMeant` takes this to a kind of payload, and
`TransferMeant` to `BallotMeant` check the seven tables against the shapes the property names.
`EnvelopesMeant` is the same argument for the envelope's loop, with the payload and the
key met so far. For the normal form each kind has three lemmas: what its decoder
returns has its type (`TransferShape`), decoding its encoding gives it back
(`TransferReadBack`), so that `PayloadBack` and `EnvelopeBack` hold for every kind.

### Peers_proofs, TransactionsTheorems

- `Peers_proofs!TypeCorrect`; `PowerBackedAlways` (`Spec => []PowerBacked`), with sums that wrap: addition and
  subtraction modulo `U64` commute with the sum of the delegations (`ModularSum`).
  `CanonicalAlways` (`Spec => []SetIsCanonical`): `Precedes` is a strict total order, so
  the number of predecessors of an operator is its place, and places are `1 .. n` without
  repetition.
- `SessionsTypeCorrect`, `SoloHandshakeAgreesAlways` (`SessionsSpec => []SessionsTypeOK`,
  `SessionsSpec => []SoloHandshakeAgrees`), for any peers under `SessionsAssumption`. The
  definitions of `Sessions` carry its name because `Peers_proofs` extends it together
  with `DPoS`. `SessionsInv` adds that an
  undisturbed handshake and any other of its peers do not run at once (`Apart`). Hence
  while it is the last one, no end but its own moves, and none of them overwrites a key
  that was stored (`Kept`); `MoveKeeps` shows this for every action of an end, and
  `OpenKeeps` for a handshake that begins.
- `MedianIsMedian`: the median exists for every nonempty list of times, and at most half of them are on
  either side.

Induction. The induction theorems of the library are about operators, which these
provers do not instantiate. `SumsTheorems` restates what is needed as facts about sets:
a nonempty set of naturals has a least element, a set that holds 0 and is closed
under successors up to `n` holds `0 .. n`, and a function with a given step exists on `0 .. n`.
The runs of a block, the pops of a selection and the sums of costs are such functions.

### Only model-checked

The liveness properties (`Progress`, `PoolDrains`, `HandshakesEnd`, `Established`), since
fairness and ENABLED are out of the prover's reach.

## 5. What is not modelled

The version DAG: `ApplyBlock` adds a node to it after the commit and ignores the error,
and nothing reads, prunes or restores it. Governance: a counter and two maps that no
other component calls. Contract storage, balances and call depth: no call ever gets to
them, because no contract is ever compiled. `MarshalStateNode`,
`MarshalQuorumCertificate` and the hashes of messages: nothing calls them. A restart of a
peer, which loses its session keys while the other end keeps its own, is left to the next
handshake. Cryptography is ideal. The ABCI application is behind a build tag and not
started by the node. Configuration, command line, HTTP and pebble's internals hold no
logic of the system's own.

## 6. Plan

1. Recovery: what a node does with the block it applied just before a crash, when the
   block is handed in again, with `Ledger` and the metadata of `HotStuff` together.
2. `HotStuff` with `DPoS`: what a validator set that changes between finalizations would
   do, once something calls the registry after genesis; nothing under `src/` does yet.
3. Several ledgers with different contract engines: do they agree on roots?

Next theorems: those about what 1 to 3 add. Liveness and ENABLED stay with TLC.
