------------------------------ MODULE Mempool -------------------------------
(* The transaction pool (pkg/mempool/mempool.go): one queue per sender.      *)
(* AddTx reads the sender's account before it takes the pool's lock, so it   *)
(* is two steps, between which other clients add and blocks are committed.   *)
(* SelectForBlock runs inside Engine.ProposeBlock, under the engine's lock,  *)
(* which also keeps blocks from being committed: it is one step.             *)
(* Nothing ever removes a transaction from the pool.                         *)
EXTENDS Integers, Sequences, FiniteSets

CONSTANTS
  Sender,          \* account addresses
  Client,          \* goroutines that call AddTx
  Tx,              \* transactions: records with a sender "from" and a "nonce"
  CostOf(_),       \* their RC cost (the Coster)
  HashBelow(_, _), \* the order of their hashes
  BlockMaxTxs,     \* Config.BlockMaxTxs
  MaxNonce,        \* bound on an account's nonce
  MaxRC            \* bound on an account's credit

ASSUME MempoolAssumption ==
  /\ \A t \in Tx : t.from \in Sender /\ t.nonce \in Nat /\ CostOf(t) \in Nat
  /\ \A t, u \in Tx : HashBelow(t, u) => ~HashBelow(u, t)
  /\ \A t, u \in Tx : t # u => HashBelow(t, u) \/ HashBelow(u, t)
  /\ \A t, u, v \in Tx : HashBelow(t, u) /\ HashBelow(u, v) => HashBelow(t, v)
  /\ {BlockMaxTxs, MaxNonce, MaxRC} \subseteq Nat

VARIABLES
  nonce, rc,  \* the stored accounts, as GetAccount returns them
  pool,       \* Mempool.pool
  adding      \* the transaction an AddTx has checked but not inserted, if any

vars == << nonce, rc, pool, adding >>

TypeOK ==
  /\ nonce \in [Sender -> 0 .. MaxNonce]
  /\ rc \in [Sender -> 0 .. MaxRC]
  /\ pool \in [Sender -> Seq(Tx)]
  /\ \A s \in Sender : \A i \in DOMAIN pool[s] : pool[s][i].from = s
  /\ adding \in [Client -> {{}} \union { {t} : t \in Tx }]

-----------------------------------------------------------------------------
(* AddTx.                                                                    *)

\* The checks against the account as stored: the credit is not regenerated.
CheckTx(c, t) ==
  /\ adding[c] = {}
  /\ t.nonce >= nonce[t.from]
  /\ rc[t.from] >= CostOf(t)
  /\ adding' = [adding EXCEPT ![c] = {t}]
  /\ UNCHANGED << nonce, rc, pool >>

\* Mutant: the check for a queued transaction of the same nonce is missing.
InsertByNonceDup(queue, t) ==
  LET below == Cardinality({ i \in DOMAIN queue : queue[i].nonce < t.nonce })
  IN  SubSeq(queue, 1, below) \o << t >> \o SubSeq(queue, below + 1, Len(queue))

\* The queue with t at its place, or unchanged ("duplicate nonce").
InsertByNonce(queue, t) ==
  IF \E i \in DOMAIN queue : queue[i].nonce = t.nonce THEN queue
  ELSE LET below == Cardinality({ i \in DOMAIN queue : queue[i].nonce < t.nonce })
       IN  SubSeq(queue, 1, below) \o << t >>
             \o SubSeq(queue, below + 1, Len(queue))

\* Mutant: the queue is cleared of the transactions the ledger has passed.
InsertTxPrunes(c) ==
  /\ \E t \in adding[c] :
       pool' = [pool EXCEPT ![t.from] =
                  SelectSeq(InsertByNonce(@, t), LAMBDA u : u.nonce >= nonce[t.from])]
  /\ adding' = [adding EXCEPT ![c] = {}]
  /\ UNCHANGED << nonce, rc >>

\* The rest of AddTx, under the pool's lock.
InsertTx(c) ==
  /\ \E t \in adding[c] :
       pool' = [pool EXCEPT ![t.from] = InsertByNonce(@, t)]
  /\ adding' = [adding EXCEPT ![c] = {}]
  /\ UNCHANGED << nonce, rc >>

-----------------------------------------------------------------------------
(* SelectForBlock.                                                           *)

\* Mutant: the cheaper transaction first.
LessCheapFirst(t, u) ==
  \/ CostOf(t) < CostOf(u)
  \/ CostOf(t) = CostOf(u) /\ HashBelow(t, u)

\* txHeap.Less: the dearer transaction first, then the smaller hash.
Less(t, u) ==
  \/ CostOf(t) > CostOf(u)
  \/ CostOf(t) = CostOf(u) /\ HashBelow(t, u)

\* How many of these transactions a sender has, and what they cost it.
CountOf(txs, s) == Cardinality({ i \in DOMAIN txs : txs[i].from = s })

Spent(txs, s) ==
  LET sum[i \in 0 .. Len(txs)] ==
        IF i = 0 THEN 0
        ELSE sum[i - 1] + (IF txs[i].from = s THEN CostOf(txs[i]) ELSE 0)
  IN  sum[Len(txs)]

\* The sender's transaction at the cursor, when txs have been popped.
HasNext(txs, s) == CountOf(txs, s) < Len(pool[s])
AtCursor(txs, s) == pool[s][CountOf(txs, s) + 1]

\* Mutant: the credit already used is not counted.
PushedFullCredit(txs, s) ==
  /\ HasNext(txs, s)
  /\ AtCursor(txs, s).nonce = nonce[s] + CountOf(txs, s)
  /\ CostOf(AtCursor(txs, s)) <= rc[s]

\* It is pushed on the heap if its nonce is the account's, counting what has
\* been popped, and the credit left pays for it.
Pushed(txs, s) ==
  /\ HasNext(txs, s)
  /\ AtCursor(txs, s).nonce = nonce[s] + CountOf(txs, s)
  /\ CostOf(AtCursor(txs, s)) + Spent(txs, s) <= rc[s]

HeapAfter(txs) == { AtCursor(txs, s) : s \in { s \in Sender : Pushed(txs, s) } }

\* One more transaction, the least of the heap, if there is one.
Popped(txs) ==
  LET heap == HeapAfter(txs) IN
  IF heap = {} THEN {txs}
  ELSE { Append(txs, t) : t \in { x \in heap : \A u \in heap \ {x} : Less(x, u) } }

\* The block: BlockMaxTxs times the next of the heap; pick[k] is a singleton.
SelectForBlock ==
  LET pick[k \in 0 .. BlockMaxTxs] ==
        IF k = 0 THEN {<< >>} ELSE UNION { Popped(txs) : txs \in pick[k - 1] }
  IN  CHOOSE txs \in pick[BlockMaxTxs] : TRUE

-----------------------------------------------------------------------------
(* Committed blocks (State.ApplyBlock), seen through the accounts.           *)

\* A block of this node or of another, with transactions that are in this pool
\* or not: its senders' nonces advance, their credit is regenerated and paid;
\* an account that sends nothing keeps both.
CommitBlock ==
  /\ nonce' \in { later \in [Sender -> 0 .. MaxNonce] :
                   \A s \in Sender : later[s] >= nonce[s] }
  /\ rc' \in { left \in [Sender -> 0 .. MaxRC] :
                \A s \in Sender : nonce'[s] = nonce[s] => left[s] = rc[s] }
  /\ UNCHANGED << pool, adding >>

Init ==
  /\ nonce = [s \in Sender |-> 0]
  /\ rc \in [Sender -> {0, MaxRC}]
  /\ pool = [s \in Sender |-> << >>]
  /\ adding = [c \in Client |-> {}]

Next ==
  \/ \E c \in Client : (\E t \in Tx : CheckTx(c, t)) \/ InsertTx(c)
  \/ CommitBlock

Spec == Init /\ [][Next]_vars

-----------------------------------------------------------------------------
(* Properties.                                                               *)

\* Whatever clients interleave between AddTx's check and its insertion, a queue
\* is strictly ordered by nonce.
QueuesSorted ==
  \A s \in Sender : \A i, j \in DOMAIN pool[s] :
    i < j => pool[s][i].nonce < pool[s][j].nonce

\* Every prefix of the selected block is executable by the ledger's nonce and
\* credit checks: each transaction has its sender's next nonce, and what its
\* sender has to pay up to there is within the stored credit.
SelectionExecutable ==
  LET out == SelectForBlock IN
  \A k \in DOMAIN out :
    LET s == out[k].from IN
    /\ out[k].nonce = nonce[s] + CountOf(SubSeq(out, 1, k - 1), s)
    /\ Spent(SubSeq(out, 1, k), s) <= rc[s]

\* A pooled transaction that could be next, wherever it is in its queue.
CouldBeNext(t, txs) ==
  /\ \E i \in DOMAIN pool[t.from] : pool[t.from][i] = t
  /\ t.nonce = nonce[t.from] + CountOf(txs, t.from)
  /\ Spent(txs, t.from) + CostOf(t) <= rc[t.from]

\* mempool.go: "RC_cost descending, tie-break by tx hash".
Precedes(t, u) ==
  CostOf(t) > CostOf(u) \/ (CostOf(t) = CostOf(u) /\ HashBelow(t, u))

HasStale(s) == \E i \in DOMAIN pool[s] : pool[s][i].nonce < nonce[s]

\* A stale transaction is for ever: nothing removes it, nothing can get ahead of
\* it, and the cursor that starts at it never finds the account's nonce, so its
\* sender is not served again.  As a committed transaction turns stale in the
\* pool it was selected from, a pool serves a sender in one block only.
StaleHides ==
  [][\A s \in Sender : HasStale(s) =>
       /\ HasStale(s)'
       /\ \A k \in DOMAIN SelectForBlock : SelectForBlock[k].from # s]_vars

\* Among senders without stale transactions the selection is the documented
\* order: nothing selected was preceded by a transaction that could have come
\* next and is dearer, or as dear with a smaller hash; and a block that is not
\* full leaves nothing out that could come next.  (A stale transaction is never
\* removed, and at the head of its queue it hides the valid ones behind it.)
SelectionInOrder ==
  LET out == SelectForBlock IN
  /\ \A k \in DOMAIN out : \A t \in Tx :
       (~HasStale(t.from) /\ CouldBeNext(t, SubSeq(out, 1, k - 1)))
         => ~Precedes(t, out[k])
  /\ Len(out) < BlockMaxTxs =>
       \A t \in Tx : ~HasStale(t.from) => ~CouldBeNext(t, out)

=============================================================================
