--------------------------- MODULE Mempool_proofs ----------------------------
(* Theorems about the pool for every set of senders, clients and             *)
(* transactions, whatever their costs and hashes, and whatever blocks are    *)
(* committed between the two steps of AddTx.                                 *)
EXTENDS Mempool, SumsTheorems, SequenceTheorems

\* One queue, as TypeOK and QueuesSorted speak of it.
QueueOf(queue, s) ==
  queue \in Seq(Tx) /\ \A i \in DOMAIN queue : queue[i].from = s

Sorted(queue) ==
  \A i, j \in DOMAIN queue : i < j => queue[i].nonce < queue[j].nonce

-----------------------------------------------------------------------------
(* Insertion.                                                                *)

\* A set of positions that is closed downwards is the positions up to its size.
LEMMA InitialSegment ==
  ASSUME NEW n \in Nat, NEW S \in SUBSET (1 .. n),
         \A i \in S : \A j \in 1 .. n : j < i => j \in S
  PROVE  Cardinality(S) \in 0 .. n /\ S = 1 .. Cardinality(S)
<1> DEFINE c == Cardinality(S)
<1>1. IsFiniteSet(1 .. n) /\ Cardinality(1 .. n) = n
  BY FS_Interval
<1>2. IsFiniteSet(S) /\ c <= n
  BY <1>1, FS_Subset
<1>3. c \in Nat
  BY <1>2, FS_CardinalityType
<1>4. S \subseteq 1 .. c
  <2> SUFFICES ASSUME NEW i \in S PROVE i <= c
    BY <1>3
  <2>1. 1 .. i \subseteq S
    OBVIOUS
  <2>2. Cardinality(1 .. i) = i
    BY FS_Interval
  <2>3. Cardinality(1 .. i) <= c
    BY <1>2, <2>1, FS_Subset
  <2> QED BY <2>2, <2>3
<1>5. IsFiniteSet(1 .. c) /\ Cardinality(1 .. c) = c
  BY <1>3, FS_Interval
<1>6. S = 1 .. c
  BY <1>4, <1>5, FS_Subset
<1> QED BY <1>2, <1>3, <1>6

\* insertByNonce keeps a queue a sorted queue of its sender, and what is in it.
LEMMA InsertByNonceKeeps ==
  ASSUME NEW queue, NEW t \in Tx, QueueOf(queue, t.from), Sorted(queue)
  PROVE  /\ QueueOf(InsertByNonce(queue, t), t.from)
         /\ Sorted(InsertByNonce(queue, t))
         /\ \A i \in DOMAIN queue : \E j \in DOMAIN InsertByNonce(queue, t) :
              InsertByNonce(queue, t)[j] = queue[i]
<1> DEFINE S == { i \in DOMAIN queue : queue[i].nonce < t.nonce }
           below == Cardinality(S)
           left == SubSeq(queue, 1, below)
           right == SubSeq(queue, below + 1, Len(queue))
           result == left \o << t >> \o right
<1>1. CASE \E i \in DOMAIN queue : queue[i].nonce = t.nonce
  BY <1>1 DEF InsertByNonce
<1>2. CASE ~\E i \in DOMAIN queue : queue[i].nonce = t.nonce
  <2>1. /\ queue \in Seq(Tx) /\ Len(queue) \in Nat
        /\ DOMAIN queue = 1 .. Len(queue)
        /\ \A i \in 1 .. Len(queue) : queue[i] \in Tx /\ queue[i].from = t.from
    BY DEF QueueOf
  <2>2. t.nonce \in Nat /\ \A i \in 1 .. Len(queue) : queue[i].nonce \in Nat
    BY <2>1, MempoolAssumption
  <2>3. below \in 0 .. Len(queue) /\ S = 1 .. below
    <3>1. S \in SUBSET (1 .. Len(queue))
      BY <2>1
    <3>2. \A i \in S : \A j \in 1 .. Len(queue) : j < i => j \in S
      BY <2>1, <2>2 DEF Sorted
    <3> QED BY <2>1, <3>1, <3>2, InitialSegment
  <2>4. /\ \A i \in 1 .. below : queue[i].nonce < t.nonce
        /\ \A i \in below + 1 .. Len(queue) : t.nonce < queue[i].nonce
    <3>1. \A i \in 1 .. Len(queue) : i \in 1 .. below <=> queue[i].nonce < t.nonce
      BY <2>1, <2>3
    <3> HIDE DEF S, below
    <3> QED BY <1>2, <2>1, <2>2, <2>3, <3>1
  <2> HIDE DEF S, below
  <2>5. /\ left \in Seq(Tx) /\ Len(left) = below
        /\ \A i \in 1 .. below : left[i] = queue[i]
    BY <2>1, <2>3, SubSeqProperties
  <2>6. /\ right \in Seq(Tx) /\ Len(right) = Len(queue) - below
        /\ \A i \in 1 .. Len(queue) - below : right[i] = queue[below + i]
    <3> DEFINE first == below + 1
    <3>1. first \in 1 .. Len(queue) + 1
      BY <2>1, <2>3
    <3> HIDE DEF first
    <3>2. \A i \in first .. Len(queue) : queue[i] \in Tx
      BY <2>1, <3>1
    <3>3. /\ SubSeq(queue, first, Len(queue)) \in Seq(Tx)
          /\ Len(SubSeq(queue, first, Len(queue))) =
               IF first <= Len(queue) THEN Len(queue) - first + 1 ELSE 0
          /\ \A i \in 1 .. Len(queue) - first + 1 :
               SubSeq(queue, first, Len(queue))[i] = queue[first + i - 1]
      BY <2>1, <3>1, <3>2, SubSeqProperties
    <3>4. \A i \in 1 .. Len(queue) - below : first + i - 1 = below + i
      BY <2>1, <2>3 DEF first
    <3>5. right = SubSeq(queue, first, Len(queue))
      BY DEF first
    <3>6. /\ Len(queue) - first + 1 = Len(queue) - below
          /\ ~(first <= Len(queue)) => Len(queue) - below = 0
      <4>1. below \in Int /\ Len(queue) \in Int /\ below <= Len(queue)
        BY <2>1, <2>3
      <4>2. first = below + 1
        BY DEF first
      <4> QED BY <4>1, <4>2
    <3> HIDE DEF right
    <3>7. Len(right) = Len(queue) - below
      BY <3>3, <3>5, <3>6
    <3>8. \A i \in 1 .. Len(queue) - below : right[i] = queue[first + i - 1]
      BY <3>3, <3>5, <3>6
    <3> QED BY <3>3, <3>4, <3>5, <3>7, <3>8
  <2> HIDE DEF left, right
  <2>7. /\ left \o << t >> \in Seq(Tx)
        /\ Len(left \o << t >>) = below + 1
        /\ \A i \in 1 .. below : (left \o << t >>)[i] = queue[i]
        /\ (left \o << t >>)[below + 1] = t
    BY <2>3, <2>5, ConcatProperties
  <2>8. /\ result \in Seq(Tx) /\ Len(result) = Len(queue) + 1
        /\ \A i \in 1 .. below : result[i] = queue[i]
        /\ result[below + 1] = t
        /\ \A i \in below + 2 .. Len(queue) + 1 : result[i] = queue[i - 1]
    <3> DEFINE front == left \o << t >>
    <3>1. /\ front \in Seq(Tx) /\ Len(front) = below + 1
          /\ \A i \in 1 .. below : front[i] = queue[i]
          /\ front[below + 1] = t
      BY <2>7
    <3> HIDE DEF front
    <3>2. /\ front \o right \in Seq(Tx)
          /\ Len(front \o right) = Len(queue) + 1
          /\ \A i \in 1 .. Len(queue) + 1 : (front \o right)[i] =
               IF i <= below + 1 THEN front[i] ELSE right[i - (below + 1)]
      BY <2>1, <2>3, <2>6, <3>1, ConcatProperties
    <3>3. /\ \A i \in 1 .. below : (front \o right)[i] = queue[i]
          /\ (front \o right)[below + 1] = t
      BY <2>1, <2>3, <3>1, <3>2
    <3>4. \A i \in below + 2 .. Len(queue) + 1 :
            (front \o right)[i] = queue[i - 1]
      BY <2>1, <2>3, <2>6, <3>2
    <3> QED BY <3>2, <3>3, <3>4 DEF front
  <2>9. InsertByNonce(queue, t) = result
    BY <1>2 DEF InsertByNonce, result, left, right, below, S
  <2> HIDE DEF result
  <2>10. QueueOf(result, t.from)
    <3> SUFFICES ASSUME NEW i \in 1 .. Len(queue) + 1 PROVE result[i].from = t.from
      BY <2>8 DEF QueueOf
    <3> QED BY <2>1, <2>3, <2>8
  <2>11. Sorted(result)
    <3> SUFFICES ASSUME NEW i \in 1 .. Len(queue) + 1,
                        NEW j \in 1 .. Len(queue) + 1, i < j
                 PROVE  result[i].nonce < result[j].nonce
      BY <2>8 DEF Sorted
    <3>1. \A k, l \in 1 .. Len(queue) : k < l => queue[k].nonce < queue[l].nonce
      BY <2>1 DEF Sorted
    <3>2. CASE j <= below
      BY <2>1, <2>3, <2>8, <3>1, <3>2
    <3>3. CASE j = below + 1
      BY <2>1, <2>3, <2>4, <2>8, <3>3
    <3>4. CASE j > below + 1
      <4>1. result[j] = queue[j - 1] /\ j - 1 \in below + 1 .. Len(queue)
        <5>1. j \in below + 2 .. Len(queue) + 1
          BY <2>1, <2>3, <3>4
        <5>2. j - 1 \in below + 1 .. Len(queue)
          BY <2>1, <2>3, <5>1
        <5> QED BY <2>8, <5>1, <5>2
      <4>2. CASE i <= below
        BY <2>1, <2>3, <2>8, <3>1, <4>1, <4>2
      <4>3. CASE i = below + 1
        BY <2>3, <2>4, <2>8, <4>1, <4>3
      <4>4. CASE i > below + 1
        <5>1. result[i] = queue[i - 1] /\ i - 1 \in below + 1 .. Len(queue)
          BY <2>1, <2>3, <2>8, <4>4
        <5> QED BY <2>1, <2>3, <3>1, <4>1, <5>1
      <4> QED BY <2>3, <4>2, <4>3, <4>4
    <3> QED BY <2>3, <3>2, <3>3, <3>4
  <2>12. ASSUME NEW i \in DOMAIN queue
         PROVE  \E j \in DOMAIN result : result[j] = queue[i]
    <3>1. DOMAIN result = 1 .. Len(queue) + 1 /\ i \in 1 .. Len(queue)
      BY <2>1, <2>8
    <3>2. CASE i <= below
      BY <2>3, <2>8, <3>1, <3>2
    <3>3. CASE i > below
      <4>1. i + 1 \in below + 2 .. Len(queue) + 1 /\ (i + 1) - 1 = i
        BY <2>1, <2>3, <3>1, <3>3
      <4>2. result[i + 1] = queue[i]
        BY <2>8, <4>1
      <4>3. i + 1 \in DOMAIN result
        BY <2>1, <3>1
      <4> QED BY <4>2, <4>3
    <3> QED BY <2>1, <2>3, <3>1, <3>2, <3>3
  <2> QED BY <2>9, <2>10, <2>11, <2>12
<1> QED BY <1>1, <1>2

-----------------------------------------------------------------------------
(* Counting and adding up the transactions of a sender.                      *)

\* How many transactions of a sender a sequence has is at most its length.
LEMMA CountType ==
  ASSUME NEW txs \in Seq(Tx), NEW s
  PROVE  CountOf(txs, s) \in Nat
<1>1. IsFiniteSet(1 .. Len(txs))
  BY FS_Interval
<1>2. { i \in DOMAIN txs : txs[i].from = s } \in SUBSET (1 .. Len(txs))
  OBVIOUS
<1> QED BY <1>1, <1>2, FS_Subset, FS_CardinalityType DEF CountOf

\* One more transaction counts for its sender.
LEMMA CountAppend ==
  ASSUME NEW txs \in Seq(Tx), NEW t \in Tx, NEW s
  PROVE  CountOf(Append(txs, t), s) =
           IF t.from = s THEN CountOf(txs, s) + 1 ELSE CountOf(txs, s)
<1> DEFINE longer == Append(txs, t)
           n == Len(txs) + 1
           before == { i \in DOMAIN txs : txs[i].from = s }
           after == { i \in DOMAIN longer : longer[i].from = s }
<1>1. /\ DOMAIN txs = 1 .. Len(txs) /\ DOMAIN longer = 1 .. n
      /\ \A i \in 1 .. Len(txs) : longer[i] = txs[i]
      /\ longer[n] = t /\ n \in Nat /\ n \notin 1 .. Len(txs)
      /\ 1 .. n = (1 .. Len(txs)) \union {n}
  OBVIOUS
<1> HIDE DEF n, longer
<1>2. after = IF t.from = s THEN before \union {n} ELSE before
  BY <1>1
<1>3. IsFiniteSet(before)
  <2>1. IsFiniteSet(1 .. Len(txs))
    BY FS_Interval
  <2>2. before \in SUBSET (1 .. Len(txs))
    BY <1>1
  <2> QED BY <2>1, <2>2, FS_Subset
<1>4. n \notin before
  BY <1>1
<1>5. Cardinality(before \union {n}) = Cardinality(before) + 1
  <2> HIDE DEF before
  <2> QED BY <1>3, <1>4, FS_AddElement
<1> QED BY <1>2, <1>5 DEF CountOf, longer

\* The sums of what the transactions up to each position cost a sender.
SumsOf(sum, txs, s) ==
  /\ sum \in [0 .. Len(txs) -> Nat]
  /\ sum[0] = 0
  /\ \A i \in 1 .. Len(txs) :
       sum[i] = sum[i - 1] + (IF txs[i].from = s THEN CostOf(txs[i]) ELSE 0)

\* What a sequence costs a sender is the last of these sums.
LEMMA SpentDefined ==
  ASSUME NEW txs \in Seq(Tx), NEW s
  PROVE  \E sum : SumsOf(sum, txs, s) /\ Spent(txs, s) = sum[Len(txs)]
<1> DEFINE n == Len(txs)
           add(i) == IF txs[i].from = s THEN CostOf(txs[i]) ELSE 0
           Is(f) == f = [i \in 0 .. n |-> IF i = 0 THEN 0 ELSE f[i - 1] + add(i)]
           step == [i \in 1 .. n |-> [x \in Nat |-> x + add(i)]]
<1>1. n \in Nat /\ \A i \in 1 .. n : add(i) \in Nat
  BY MempoolAssumption
<1> HIDE DEF add
<1>2. \E f : Is(f)
  <2>1. step \in [1 .. n -> [Nat -> Nat]]
    BY <1>1
  <2>2. \A i \in 1 .. n : \A x \in Nat : step[i][x] = x + add(i)
    OBVIOUS
  <2> HIDE DEF step
  <2>3. PICK f : Iterates(f, n, 0, Nat, step)
    <3>1. 0 \in Nat
      OBVIOUS
    <3> HIDE DEF n
    <3> QED BY <1>1, <2>1, <3>1, RecursionExists
  <2>4. \A i \in 0 .. n : f[i] = IF i = 0 THEN 0 ELSE f[i - 1] + add(i)
    <3> SUFFICES ASSUME NEW i \in 0 .. n, i # 0 PROVE f[i] = f[i - 1] + add(i)
      BY <2>3 DEF Iterates
    <3>1. i \in 1 .. n /\ f[i - 1] \in Nat
      BY <1>1, <2>3 DEF Iterates
    <3>2. f[i] = step[i][f[i - 1]]
      BY <2>3, <3>1 DEF Iterates
    <3> QED BY <2>2, <3>1, <3>2
  <2>5. DOMAIN f = 0 .. n
    BY <2>3 DEF Iterates
  <2>6. Is(f)
    <3> DEFINE g == [i \in 0 .. n |-> IF i = 0 THEN 0 ELSE f[i - 1] + add(i)]
    <3>1. \A i \in 0 .. n : g[i] = f[i]
      BY <2>4
    <3>2. g \in [0 .. n -> Nat] /\ f \in [0 .. n -> Nat]
      BY <2>3, <3>1 DEF Iterates
    <3>3. f = g
      <4> HIDE DEF g
      <4> QED BY <3>1, <3>2
    <3> QED BY <3>3
  <2> QED BY <2>6
<1> DEFINE sum == CHOOSE f : Is(f)
<1>3. Is(sum)
  <2> HIDE DEF Is
  <2> QED BY <1>2
<1>4. Spent(txs, s) = sum[n]
  BY DEF Spent, add
<1> HIDE DEF sum
<1>5. sum[0] = 0 /\ \A i \in 1 .. n : sum[i] = sum[i - 1] + add(i)
  BY <1>1, <1>3
<1>6. \A i \in 0 .. n : sum[i] \in Nat
  <2> DEFINE D == { i \in 0 .. n : sum[i] \in Nat }
  <2>1. 0 \in D
    BY <1>1, <1>5
  <2>2. \A i \in 1 .. n : i - 1 \in D => i \in D
    BY <1>1, <1>5
  <2>3. 0 .. n \subseteq D
    <3> HIDE DEF D, n
    <3> QED BY <1>1, <2>1, <2>2, BoundedInduction
  <2> QED BY <2>3
<1>7. sum \in [0 .. n -> Nat]
  BY <1>3, <1>6
<1> QED BY <1>4, <1>5, <1>7 DEF add, SumsOf

\* Nothing selected costs nothing.
LEMMA SpentEmpty ==
  ASSUME NEW s
  PROVE  Spent(<< >>, s) = 0 /\ CountOf(<< >>, s) = 0
<1>1. << >> \in Seq(Tx) /\ Len(<< >>) = 0
  OBVIOUS
<1>2. Spent(<< >>, s) = 0
  BY <1>1, SpentDefined DEF SumsOf
<1>3. { i \in DOMAIN << >> : << >>[i].from = s } = {}
  OBVIOUS
<1> QED BY <1>2, <1>3, FS_EmptySet DEF CountOf

\* One more transaction costs its sender its price.
LEMMA SpentAppend ==
  ASSUME NEW txs \in Seq(Tx), NEW t \in Tx, NEW s
  PROVE  /\ Spent(txs, s) \in Nat
         /\ Spent(Append(txs, t), s) =
              Spent(txs, s) + (IF t.from = s THEN CostOf(t) ELSE 0)
<1> DEFINE longer == Append(txs, t)
           n == Len(txs)
<1>1. /\ longer \in Seq(Tx) /\ Len(longer) = n + 1 /\ n \in Nat
      /\ longer[n + 1] = t /\ \A i \in 1 .. n : longer[i] = txs[i]
  OBVIOUS
<1> HIDE DEF longer
<1>2. PICK sum : SumsOf(sum, txs, s) /\ Spent(txs, s) = sum[n]
  BY SpentDefined
<1>3. PICK more : SumsOf(more, longer, s) /\ Spent(longer, s) = more[n + 1]
  BY <1>1, SpentDefined
<1> HIDE DEF n
<1>4. 0 .. n \subseteq { i \in 0 .. n : more[i] = sum[i] }
  <2> DEFINE D == { i \in 0 .. n : more[i] = sum[i] }
  <2>1. 0 \in D
    BY <1>1, <1>2, <1>3 DEF SumsOf
  <2>2. ASSUME NEW i \in 1 .. n, i - 1 \in D PROVE i \in D
    <3>1. more[i - 1] = sum[i - 1]
      BY <2>2
    <3>2. longer[i] = txs[i] /\ i \in 1 .. n + 1
      BY <1>1
    <3>3. sum[i] = sum[i - 1] + (IF txs[i].from = s THEN CostOf(txs[i]) ELSE 0)
      BY <1>2 DEF SumsOf, n
    <3>4. more[i] = more[i - 1] + (IF txs[i].from = s THEN CostOf(txs[i]) ELSE 0)
      BY <1>1, <1>3, <3>2 DEF SumsOf
    <3> QED BY <3>1, <3>3, <3>4
  <2> HIDE DEF D
  <2>3. 0 .. n \subseteq D
    BY <1>1, <2>1, <2>2, BoundedInduction
  <2> QED BY <2>3 DEF D
<1>5. more[n] = sum[n] /\ sum[n] \in Nat
  BY <1>1, <1>2, <1>4 DEF SumsOf, n
<1>6. more[n + 1] = more[n] + (IF t.from = s THEN CostOf(t) ELSE 0)
  <2>1. n + 1 \in 1 .. n + 1 /\ (n + 1) - 1 = n
    BY <1>1
  <2> QED BY <1>1, <1>3, <2>1 DEF SumsOf
<1> QED BY <1>2, <1>3, <1>5, <1>6 DEF longer

-----------------------------------------------------------------------------
(* The heap.                                                                 *)

\* txHeap.Less is a strict order of all transactions.
LEMMA LessIsStrictOrder ==
  /\ \A t, u \in Tx : Less(t, u) => ~Less(u, t)
  /\ \A t, u \in Tx : t # u => Less(t, u) \/ Less(u, t)
  /\ \A t, u, v \in Tx : Less(t, u) /\ Less(u, v) => Less(t, v)
<1>1. \A t \in Tx : CostOf(t) \in Nat
  BY MempoolAssumption
<1>2. ASSUME NEW t \in Tx, NEW u \in Tx
      PROVE  /\ Less(t, u) => ~Less(u, t)
             /\ t # u => Less(t, u) \/ Less(u, t)
  <2>1. /\ HashBelow(t, u) => ~HashBelow(u, t)
        /\ t # u => HashBelow(t, u) \/ HashBelow(u, t)
    BY MempoolAssumption
  <2> QED BY <1>1, <2>1 DEF Less
<1>3. ASSUME NEW t \in Tx, NEW u \in Tx, NEW v \in Tx, Less(t, u), Less(u, v)
      PROVE  Less(t, v)
  <2>1. HashBelow(t, u) /\ HashBelow(u, v) => HashBelow(t, v)
    BY MempoolAssumption
  <2> QED BY <1>1, <1>3, <2>1 DEF Less
<1> QED BY <1>2, <1>3

\* A finite heap that is not empty has a first element, which is what Pop
\* returns: the one that the fewest others precede.
LEMMA FirstOfHeap ==
  ASSUME NEW heap \in SUBSET Tx, IsFiniteSet(heap), heap # {}
  PROVE  \E t \in heap : \A u \in heap \ {t} : Less(t, u)
<1> DEFINE Ahead(t) == { u \in heap : Less(u, t) }
           Ranks == { Cardinality(Ahead(t)) : t \in heap }
<1>1. \A t \in heap : IsFiniteSet(Ahead(t)) /\ Cardinality(Ahead(t)) \in Nat
  <2> SUFFICES ASSUME NEW t \in heap
               PROVE  IsFiniteSet(Ahead(t)) /\ Cardinality(Ahead(t)) \in Nat
    OBVIOUS
  <2>1. Ahead(t) \in SUBSET heap
    OBVIOUS
  <2>2. IsFiniteSet(Ahead(t))
    <3> HIDE DEF Ahead
    <3> QED BY <2>1, FS_Subset
  <2> QED BY <2>2, FS_CardinalityType
<1>2. PICK t \in heap : \A u \in heap : Cardinality(Ahead(t)) <= Cardinality(Ahead(u))
  <2>1. Ranks \in SUBSET Nat /\ Ranks # {}
    <3> HIDE DEF Ahead
    <3> QED BY <1>1
  <2>2. \E x \in Ranks : \A y \in Ranks : x <= y
    <3> HIDE DEF Ranks
    <3> QED BY <2>1, LeastNatural
  <2> HIDE DEF Ahead
  <2> QED BY <2>2
<1>3. ASSUME NEW u \in heap \ {t} PROVE Less(t, u)
  <2> SUFFICES ASSUME ~Less(t, u) PROVE FALSE
    OBVIOUS
  <2>1. Less(u, t)
    BY LessIsStrictOrder
  <2>2. Ahead(u) \subseteq Ahead(t) /\ u \in Ahead(t) /\ u \notin Ahead(u)
    BY <2>1, LessIsStrictOrder
  <2>3. Cardinality(Ahead(u)) < Cardinality(Ahead(t))
    <3>1. IsFiniteSet(Ahead(t)) /\ Cardinality(Ahead(t)) \in Nat
          /\ Cardinality(Ahead(u)) \in Nat
      <4> HIDE DEF Ahead
      <4> QED BY <1>1
    <3> HIDE DEF Ahead
    <3>2. Cardinality(Ahead(u)) <= Cardinality(Ahead(t))
      BY <2>2, <3>1, FS_Subset
    <3>3. Cardinality(Ahead(u)) # Cardinality(Ahead(t))
      BY <2>2, <3>1, FS_Subset
    <3> QED BY <3>1, <3>2, <3>3
  <2>4. Cardinality(Ahead(t)) <= Cardinality(Ahead(u))
    <3> HIDE DEF Ahead
    <3> QED BY <1>2
  <2>5. Cardinality(Ahead(t)) \in Nat /\ Cardinality(Ahead(u)) \in Nat
    <3> HIDE DEF Ahead
    <3> QED BY <1>1
  <2> HIDE DEF Ahead
  <2> QED BY <2>3, <2>4, <2>5
<1> QED BY <1>3

-----------------------------------------------------------------------------
(* The invariant.                                                            *)

\* The senders that have a queue.
Queued == { s \in Sender : pool[s] # << >> }

\* What steps preserve: the queues are typed and sorted, and finitely many, so
\* that the heap is finite.
Inv ==
  /\ TypeOK
  /\ QueuesSorted
  /\ IsFiniteSet(Queued)

\* The pool starts empty.
LEMMA InitInv == Init => Inv
<1> SUFFICES ASSUME Init PROVE Inv
  OBVIOUS
<1>1. TypeOK /\ QueuesSorted
  BY MempoolAssumption DEF Init, TypeOK, QueuesSorted
<1>2. Queued = {}
  BY DEF Init, Queued
<1> QED BY <1>1, <1>2, FS_EmptySet DEF Inv

\* AddTx's checks leave the queues alone.
LEMMA CheckTxInv ==
  ASSUME Inv, NEW c \in Client, NEW t \in Tx, CheckTx(c, t)
  PROVE  Inv'
BY DEF Inv, TypeOK, QueuesSorted, Queued, CheckTx

\* AddTx's insertion.
LEMMA InsertTxInv ==
  ASSUME Inv, NEW c \in Client, InsertTx(c)
  PROVE  Inv'
<1>1. PICK t \in adding[c] :
        pool' = [pool EXCEPT ![t.from] = InsertByNonce(@, t)]
  BY DEF InsertTx
<1>2. t \in Tx /\ t.from \in Sender
  BY MempoolAssumption DEF Inv, TypeOK
<1>3. QueueOf(pool[t.from], t.from) /\ Sorted(pool[t.from])
  BY <1>2 DEF Inv, TypeOK, QueuesSorted, QueueOf, Sorted
<1>4. /\ QueueOf(InsertByNonce(pool[t.from], t), t.from)
      /\ Sorted(InsertByNonce(pool[t.from], t))
  BY <1>2, <1>3, InsertByNonceKeeps
<1>5. /\ pool' \in [Sender -> Seq(Tx)]
      /\ \A s \in Sender : QueueOf(pool'[s], s) /\ Sorted(pool'[s])
  BY <1>1, <1>2, <1>4 DEF Inv, TypeOK, QueuesSorted, QueueOf, Sorted
<1>6. TypeOK'
  BY <1>5 DEF Inv, TypeOK, QueueOf, InsertTx
<1>7. QueuesSorted'
  BY <1>5 DEF QueuesSorted, Sorted
<1>8. IsFiniteSet(Queued')
  <2>1. Queued' \subseteq Queued \union {t.from}
    BY <1>1, <1>2 DEF Inv, TypeOK, Queued
  <2>2. IsFiniteSet(Queued \union {t.from})
    BY FS_AddElement DEF Inv
  <2> QED BY <2>1, <2>2, FS_Subset
<1> QED BY <1>6, <1>7, <1>8 DEF Inv

\* A committed block leaves the pool alone.
LEMMA CommitBlockInv == Inv /\ CommitBlock => Inv'
BY DEF Inv, TypeOK, QueuesSorted, Queued, CommitBlock

\* Every step preserves Inv.
LEMMA InvStep == Inv /\ [Next]_vars => Inv'
<1> SUFFICES ASSUME Inv, [Next]_vars PROVE Inv'
  OBVIOUS
<1>1. ASSUME NEW c \in Client, NEW t \in Tx, CheckTx(c, t) PROVE Inv'
  BY <1>1, CheckTxInv
<1>2. ASSUME NEW c \in Client, InsertTx(c) PROVE Inv'
  BY <1>2, InsertTxInv
<1>3. CASE CommitBlock
  BY <1>3, CommitBlockInv
<1>4. CASE UNCHANGED vars
  BY <1>4 DEF Inv, TypeOK, QueuesSorted, Queued, vars
<1> QED BY <1>1, <1>2, <1>3, <1>4 DEF Next

\* Inv holds in every state.
LEMMA InvAlways == Spec => []Inv
BY InitInv, InvStep, PTL DEF Spec

\* Every state of the pool is well typed.
THEOREM TypeCorrect == Spec => []TypeOK
<1>1. Inv => TypeOK
  BY DEF Inv
<1> QED BY <1>1, InvAlways, PTL

\* Whatever clients do between the check and the insertion of AddTx, and
\* whatever is committed meanwhile, a queue is strictly ordered by nonce
\* (insertByNonce).
THEOREM QueuesSortedAlways == Spec => []QueuesSorted
<1>1. Inv => QueuesSorted
  BY DEF Inv
<1> QED BY <1>1, InvAlways, PTL

-----------------------------------------------------------------------------
(* The selection.                                                            *)

\* What is at a sender's cursor is a transaction of the sender.
LEMMA CursorType ==
  ASSUME Inv, NEW txs \in Seq(Tx), NEW s \in Sender, HasNext(txs, s)
  PROVE  /\ CountOf(txs, s) + 1 \in 1 .. Len(pool[s])
         /\ AtCursor(txs, s) \in Tx
         /\ AtCursor(txs, s).from = s
<1>1. CountOf(txs, s) \in Nat
  BY CountType
<1>2. pool[s] \in Seq(Tx) /\ \A i \in 1 .. Len(pool[s]) : pool[s][i].from = s
  BY DEF Inv, TypeOK
<1>3. CountOf(txs, s) + 1 \in 1 .. Len(pool[s])
  BY <1>1, <1>2 DEF HasNext
<1> QED BY <1>2, <1>3 DEF AtCursor

\* The heap has finitely many transactions, at most one for each queue.
LEMMA HeapType ==
  ASSUME Inv, NEW txs \in Seq(Tx)
  PROVE  HeapAfter(txs) \in SUBSET Tx /\ IsFiniteSet(HeapAfter(txs))
<1> DEFINE S == { s \in Sender : Pushed(txs, s) }
           cursor == [s \in S |-> AtCursor(txs, s)]
<1>1. HeapAfter(txs) \in SUBSET Tx
  BY CursorType DEF HeapAfter, Pushed
<1>2. S \subseteq Queued
  <2> SUFFICES ASSUME NEW s \in S PROVE pool[s] # << >>
    BY DEF Queued
  <2>1. CountOf(txs, s) + 1 \in 1 .. Len(pool[s])
    BY CursorType DEF Pushed
  <2>2. pool[s] \in Seq(Tx)
    BY DEF Inv, TypeOK
  <2> QED BY <2>1, <2>2
<1>3. IsFiniteSet(S)
  BY <1>2, FS_Subset DEF Inv
<1>4. cursor \in Surjection(S, HeapAfter(txs))
  BY DEF Surjection, HeapAfter
<1> HIDE DEF S, cursor
<1> QED BY <1>1, <1>3, <1>4, FS_Surjection

\* The first of a heap.
First(t, heap) == t \in heap /\ \A u \in heap \ {t} : Less(t, u)

\* There is always a next selection: the heap's first is taken, or nothing when
\* the heap is empty.
LEMMA PoppedType ==
  ASSUME Inv, NEW txs \in Seq(Tx)
  PROVE  /\ Popped(txs) # {}
         /\ Popped(txs) \subseteq Seq(Tx)
         /\ \A out \in Popped(txs) :
              \/ HeapAfter(txs) = {} /\ out = txs
              \/ \E t \in Tx : First(t, HeapAfter(txs)) /\ out = Append(txs, t)
<1> DEFINE heap == HeapAfter(txs)
<1>1. heap \in SUBSET Tx /\ IsFiniteSet(heap)
  BY HeapType
<1>2. Popped(txs) =
        IF heap = {} THEN {txs}
        ELSE { Append(txs, t) : t \in { x \in heap : \A u \in heap \ {x} : Less(x, u) } }
  BY DEF Popped
<1> HIDE DEF heap
<1>3. CASE heap = {}
  BY <1>2, <1>3 DEF heap
<1>4. CASE heap # {}
  <2>1. PICK t \in heap : \A u \in heap \ {t} : Less(t, u)
    BY <1>1, <1>4, FirstOfHeap
  <2>2. Append(txs, t) \in Popped(txs)
    BY <1>2, <1>4, <2>1
  <2>3. ASSUME NEW out \in Popped(txs)
        PROVE  \E u \in Tx : First(u, heap) /\ out = Append(txs, u)
    BY <1>1, <1>2, <1>4 DEF First
  <2>4. Popped(txs) \subseteq Seq(Tx)
    BY <2>3
  <2> QED BY <2>2, <2>3, <2>4 DEF heap
<1> QED BY <1>3, <1>4

\* Each transaction is the heap's first when the ones before it are popped.
Chosen(txs) ==
  /\ txs \in Seq(Tx)
  /\ \A k \in 1 .. Len(txs) : First(txs[k], HeapAfter(SubSeq(txs, 1, k - 1)))

\* The prefixes of an extended sequence.
LEMMA PrefixOfAppend ==
  ASSUME NEW S, NEW q \in Seq(S), NEW e \in S, NEW k \in 0 .. Len(q)
  PROVE  /\ SubSeq(Append(q, e), 1, k) = SubSeq(q, 1, k)
         /\ SubSeq(q, 1, Len(q)) = q
OBVIOUS

\* A prefix is one element longer than the prefix before it.
LEMMA PrefixStep ==
  ASSUME NEW S, NEW q \in Seq(S), NEW k \in 1 .. Len(q)
  PROVE  /\ SubSeq(q, 1, k) = Append(SubSeq(q, 1, k - 1), q[k])
         /\ SubSeq(q, 1, k - 1) \in Seq(S)
         /\ q[k] \in S
OBVIOUS

\* The heap's first extends what has been chosen.
LEMMA ChosenAppend ==
  ASSUME NEW txs, Chosen(txs), NEW t \in Tx, First(t, HeapAfter(txs))
  PROVE  Chosen(Append(txs, t))
<1> DEFINE longer == Append(txs, t)
<1>1. /\ txs \in Seq(Tx) /\ Len(txs) \in Nat
      /\ longer \in Seq(Tx) /\ Len(longer) = Len(txs) + 1
      /\ longer[Len(txs) + 1] = t /\ \A i \in 1 .. Len(txs) : longer[i] = txs[i]
  BY DEF Chosen
<1>2. \A k \in 0 .. Len(txs) : SubSeq(longer, 1, k) = SubSeq(txs, 1, k)
  BY <1>1, PrefixOfAppend
<1>3. SubSeq(txs, 1, Len(txs)) = txs
  BY <1>1
<1> HIDE DEF longer
<1>4. ASSUME NEW k \in 1 .. Len(longer)
      PROVE  First(longer[k], HeapAfter(SubSeq(longer, 1, k - 1)))
  <2>1. SubSeq(longer, 1, k - 1) = SubSeq(txs, 1, k - 1)
    BY <1>1, <1>2
  <2>2. CASE k <= Len(txs)
    <3>1. k \in 1 .. Len(txs) /\ longer[k] = txs[k]
      BY <1>1, <2>2
    <3>2. First(txs[k], HeapAfter(SubSeq(txs, 1, k - 1)))
      BY <3>1 DEF Chosen
    <3> QED BY <2>1, <3>1, <3>2
  <2>3. CASE k = Len(txs) + 1
    <3>1. k - 1 = Len(txs) /\ longer[k] = t
      BY <1>1, <2>3
    <3>2. SubSeq(longer, 1, k - 1) = txs
      BY <1>3, <2>1, <3>1
    <3> QED BY <3>1, <3>2
  <2> QED BY <1>1, <2>2, <2>3
<1>5. Chosen(longer)
  BY <1>1, <1>4 DEF Chosen
<1> QED BY <1>5 DEF longer

\* What a selection of up to k transactions is.
SelectedUpTo(txs, k) ==
  /\ Chosen(txs)
  /\ Len(txs) <= k
  /\ Len(txs) < k => HeapAfter(txs) = {}

\* One more iteration of the loop of SelectForBlock.
LEMMA PoppedSelects ==
  ASSUME Inv, NEW k \in Nat \ {0}, NEW txs, SelectedUpTo(txs, k - 1),
         NEW out \in Popped(txs)
  PROVE  SelectedUpTo(out, k)
<1>1. txs \in Seq(Tx) /\ Len(txs) \in Nat /\ Chosen(txs)
  BY DEF SelectedUpTo, Chosen
<1>2. CASE HeapAfter(txs) = {} /\ out = txs
  BY <1>1, <1>2 DEF SelectedUpTo
<1>3. ASSUME NEW t \in Tx, First(t, HeapAfter(txs)), out = Append(txs, t)
      PROVE  SelectedUpTo(out, k)
  <2>1. Chosen(out)
    BY <1>1, <1>3, ChosenAppend
  <2>2. Len(out) = Len(txs) + 1
    BY <1>1, <1>3
  <2>3. HeapAfter(txs) # {}
    BY <1>3 DEF First
  <2>4. Len(txs) = k - 1
    BY <1>1, <2>3 DEF SelectedUpTo
  <2> QED BY <1>1, <2>1, <2>2, <2>4 DEF SelectedUpTo
<1> QED BY <1>1, <1>2, <1>3, PoppedType

\* Nothing is selected to begin with.
LEMMA NothingSelected == SelectedUpTo(<< >>, 0)
BY DEF SelectedUpTo, Chosen

\* SelectForBlock returns BlockMaxTxs transactions, or as many as there were:
\* each was the heap's first.
LEMMA SelectForBlockSelects ==
  ASSUME Inv
  PROVE  SelectedUpTo(SelectForBlock, BlockMaxTxs)
<1> DEFINE n == BlockMaxTxs
           Txs == SUBSET Seq(Tx)
           start == {<< >>}
           extend(X) == UNION { Popped(txs) : txs \in X }
           Is(f) == f = [k \in 0 .. n |-> IF k = 0 THEN start ELSE extend(f[k - 1])]
           step == [k \in 1 .. n |-> [X \in Txs |-> extend(X)]]
           pick == CHOOSE f : Is(f)
<1>1. n \in Nat
  BY MempoolAssumption
<1>2. start \in Txs /\ \A X \in Txs : extend(X) \in Txs
  BY PoppedType
<1>3. SelectForBlock = CHOOSE txs \in pick[n] : TRUE
  BY DEF SelectForBlock
<1> HIDE DEF n, Txs, start, extend
<1>4. \E f : Is(f)
  <2>1. step \in [1 .. n -> [Txs -> Txs]]
    BY <1>2
  <2>2. \A k \in 1 .. n : \A X \in Txs : step[k][X] = extend(X)
    OBVIOUS
  <2> HIDE DEF step
  <2>3. PICK f : Iterates(f, n, start, Txs, step)
    BY <1>1, <1>2, <2>1, RecursionExists
  <2> DEFINE g == [k \in 0 .. n |-> IF k = 0 THEN start ELSE extend(f[k - 1])]
  <2>4. f \in [0 .. n -> Txs]
    BY <2>3 DEF Iterates
  <2>5. ASSUME NEW k \in 0 .. n PROVE f[k] = g[k]
    <3>1. CASE k = 0
      BY <2>3, <3>1 DEF Iterates
    <3>2. CASE k # 0
      <4>1. k \in 1 .. n /\ k - 1 \in 0 .. n
        BY <1>1, <3>2
      <4>2. f[k] = step[k][f[k - 1]] /\ f[k - 1] \in Txs
        BY <2>3, <2>4, <4>1 DEF Iterates
      <4> QED BY <2>2, <3>2, <4>1, <4>2
    <3> QED BY <3>1, <3>2
  <2>6. f = g
    <3>1. DOMAIN g = 0 .. n /\ g = [k \in 0 .. n |-> g[k]]
      OBVIOUS
    <3> HIDE DEF g
    <3> QED BY <2>4, <2>5, <3>1
  <2> QED BY <2>6
<1>5. Is(pick)
  <2> HIDE DEF Is
  <2> QED BY <1>4
<1>6. pick[0] = start /\ \A k \in 1 .. n : pick[k] = extend(pick[k - 1])
  <2> HIDE DEF pick
  <2> QED BY <1>1, <1>5
<1> HIDE DEF pick, Is
<1> DEFINE Good(k) == pick[k] # {} /\ \A txs \in pick[k] : SelectedUpTo(txs, k)
           D == { k \in 0 .. n : Good(k) }
<1>7. 0 \in D
  BY <1>1, <1>6, NothingSelected DEF start
<1>8. ASSUME NEW k \in 1 .. n, k - 1 \in D PROVE k \in D
  <2>1. pick[k - 1] # {} /\ \A txs \in pick[k - 1] : SelectedUpTo(txs, k - 1)
    BY <1>8
  <2>2. pick[k] = UNION { Popped(txs) : txs \in pick[k - 1] }
    BY <1>6 DEF extend
  <2>3. \A txs \in pick[k - 1] : Popped(txs) # {}
    BY <2>1, PoppedType DEF SelectedUpTo, Chosen
  <2>4. k \in Nat \ {0}
    BY <1>1
  <2>5. ASSUME NEW out \in pick[k] PROVE SelectedUpTo(out, k)
    <3>1. PICK txs \in pick[k - 1] : out \in Popped(txs)
      BY <2>2
    <3>2. SelectedUpTo(txs, k - 1)
      BY <2>1
    <3> QED BY <2>4, <3>1, <3>2, PoppedSelects
  <2>6. Good(k)
    BY <2>1, <2>2, <2>3, <2>5
  <2> HIDE DEF Good
  <2> QED BY <2>6
<1>9. n \in D
  <2> HIDE DEF D
  <2>1. 0 .. n \subseteq D
    BY <1>1, <1>7, <1>8, BoundedInduction
  <2> QED BY <1>1, <2>1
<1>10. SelectForBlock \in pick[n]
  BY <1>3, <1>9
<1>11. SelectedUpTo(SelectForBlock, n)
  BY <1>9, <1>10
<1> QED BY <1>11 DEF n

-----------------------------------------------------------------------------
(* The properties of the selection.                                          *)

\* What the loop of SelectForBlock has popped: each sender's transactions are
\* the head of its queue, have its next nonces, and are within its credit.
HeadsServed(txs) ==
  \A s \in Sender :
    /\ Spent(txs, s) <= rc[s]
    /\ CountOf(txs, s) <= Len(pool[s])
    /\ \A j \in 1 .. CountOf(txs, s) : pool[s][j].nonce = nonce[s] + j - 1

\* Popping the heap's first serves another head.
LEMMA HeadsServedStep ==
  ASSUME Inv, NEW txs \in Seq(Tx), HeadsServed(txs), NEW t \in HeapAfter(txs)
  PROVE  HeadsServed(Append(txs, t))
<1>1. PICK r \in Sender : Pushed(txs, r) /\ t = AtCursor(txs, r)
  BY DEF HeapAfter
<1>2. /\ CountOf(txs, r) + 1 \in 1 .. Len(pool[r])
      /\ t \in Tx /\ t.from = r
      /\ t = pool[r][CountOf(txs, r) + 1]
      /\ t.nonce = nonce[r] + CountOf(txs, r)
      /\ CostOf(t) + Spent(txs, r) <= rc[r]
  BY <1>1, CursorType DEF Pushed, AtCursor
<1> SUFFICES ASSUME NEW s \in Sender
             PROVE  /\ Spent(Append(txs, t), s) <= rc[s]
                    /\ CountOf(Append(txs, t), s) <= Len(pool[s])
                    /\ \A j \in 1 .. CountOf(Append(txs, t), s) :
                         pool[s][j].nonce = nonce[s] + j - 1
  BY DEF HeadsServed
<1>3. /\ Spent(txs, s) <= rc[s]
      /\ CountOf(txs, s) <= Len(pool[s])
      /\ \A j \in 1 .. CountOf(txs, s) : pool[s][j].nonce = nonce[s] + j - 1
  BY DEF HeadsServed
<1>4. /\ CountOf(Append(txs, t), s) =
           IF r = s THEN CountOf(txs, s) + 1 ELSE CountOf(txs, s)
      /\ Spent(Append(txs, t), s) =
           Spent(txs, s) + (IF r = s THEN CostOf(t) ELSE 0)
      /\ CountOf(txs, s) \in Nat /\ Spent(txs, s) \in Nat
  BY <1>2, CountAppend, SpentAppend, CountType
<1>5. nonce[s] \in Int /\ rc[s] \in Int /\ CostOf(t) \in Nat
  BY <1>2, MempoolAssumption DEF Inv, TypeOK
<1>6. CASE r # s
  BY <1>3, <1>4, <1>6
<1>7. CASE r = s
  <2>1. /\ CountOf(Append(txs, t), s) = CountOf(txs, s) + 1
        /\ Spent(Append(txs, t), s) = Spent(txs, s) + CostOf(t)
    BY <1>4, <1>7
  <2>2. CountOf(txs, s) + 1 <= Len(pool[s])
    BY <1>2, <1>7
  <2>3. pool[s][CountOf(txs, s) + 1].nonce = nonce[s] + CountOf(txs, s)
    BY <1>2, <1>7
  <2>4. Spent(txs, s) + CostOf(t) <= rc[s]
    BY <1>2, <1>4, <1>5, <1>7
  <2>5. ASSUME NEW j \in 1 .. CountOf(txs, s) + 1
        PROVE  pool[s][j].nonce = nonce[s] + j - 1
    <3>1. CASE j <= CountOf(txs, s)
      BY <1>3, <1>4, <3>1
    <3>2. CASE j = CountOf(txs, s) + 1
      BY <1>4, <1>5, <2>3, <3>2
    <3> QED BY <1>4, <3>1, <3>2
  <2> QED BY <2>1, <2>2, <2>4, <2>5
<1> QED BY <1>6, <1>7

\* Every prefix of what has been chosen serves the heads of the queues.
LEMMA PrefixesServe ==
  ASSUME Inv, NEW txs, Chosen(txs), NEW k \in 0 .. Len(txs)
  PROVE  SubSeq(txs, 1, k) \in Seq(Tx) /\ HeadsServed(SubSeq(txs, 1, k))
<1> DEFINE n == Len(txs)
           D == { i \in 0 .. n : /\ SubSeq(txs, 1, i) \in Seq(Tx)
                                 /\ HeadsServed(SubSeq(txs, 1, i)) }
<1>1. txs \in Seq(Tx) /\ n \in Nat
  BY DEF Chosen
<1>2. 0 \in D
  <2>1. SubSeq(txs, 1, 0) = << >>
    BY <1>1
  <2>2. << >> \in Seq(Tx)
    OBVIOUS
  <2>3. HeadsServed(<< >>)
    <3>1. \A s \in Sender : rc[s] >= 0 /\ Len(pool[s]) >= 0
      BY MempoolAssumption DEF Inv, TypeOK
    <3>2. \A s \in Sender : Spent(<< >>, s) = 0 /\ CountOf(<< >>, s) = 0
      BY SpentEmpty
    <3> QED BY <3>1, <3>2 DEF HeadsServed
  <2>4. HeadsServed(SubSeq(txs, 1, 0)) /\ SubSeq(txs, 1, 0) \in Seq(Tx)
    BY <2>1, <2>2, <2>3
  <2> QED BY <1>1, <2>4
<1>3. ASSUME NEW i \in 1 .. n, i - 1 \in D PROVE i \in D
  <2> DEFINE before == SubSeq(txs, 1, i - 1)
  <2>1. before \in Seq(Tx) /\ HeadsServed(before)
    BY <1>3
  <2>2. txs[i] \in HeapAfter(before)
    BY DEF Chosen, First
  <2>3. SubSeq(txs, 1, i) = Append(before, txs[i]) /\ txs[i] \in Tx
    BY <1>1, PrefixStep
  <2> HIDE DEF before
  <2>4. HeadsServed(Append(before, txs[i])) /\ Append(before, txs[i]) \in Seq(Tx)
    BY <2>1, <2>2, <2>3, HeadsServedStep
  <2>5. HeadsServed(SubSeq(txs, 1, i)) /\ SubSeq(txs, 1, i) \in Seq(Tx)
    BY <2>3, <2>4
  <2> QED BY <1>1, <2>5
<1>4. k \in D
  <2> HIDE DEF D, n
  <2>1. 0 .. n \subseteq D
    BY <1>1, <1>2, <1>3, BoundedInduction
  <2> QED BY <2>1 DEF n
<1> QED BY <1>4

\* What has been selected when the k-th transaction is, and that transaction.
LEMMA SelectionStep ==
  ASSUME Inv, NEW k \in DOMAIN SelectForBlock
  PROVE  LET out == SelectForBlock
             before == SubSeq(out, 1, k - 1)
         IN  /\ out[k] \in Tx /\ out[k].from \in Sender
             /\ before \in Seq(Tx) /\ HeadsServed(before)
             /\ First(out[k], HeapAfter(before))
             /\ out[k].nonce = nonce[out[k].from] + CountOf(before, out[k].from)
             /\ SubSeq(out, 1, k) = Append(before, out[k])
             /\ HeadsServed(SubSeq(out, 1, k))
<1> DEFINE out == SelectForBlock
           before == SubSeq(out, 1, k - 1)
<1>1. Chosen(out) /\ out \in Seq(Tx) /\ k \in 1 .. Len(out)
  BY SelectForBlockSelects DEF SelectedUpTo, Chosen
<1> HIDE DEF out
<1>2. out[k] \in Tx /\ SubSeq(out, 1, k) = Append(before, out[k])
  BY <1>1, PrefixStep
<1>3. HeadsServed(SubSeq(out, 1, k))
  BY <1>1, PrefixesServe
<1>4. before \in Seq(Tx) /\ HeadsServed(before)
  <2>1. k - 1 \in 0 .. Len(out)
    BY <1>1
  <2> QED BY <1>1, <2>1, PrefixesServe
<1>5. First(out[k], HeapAfter(before))
  BY <1>1 DEF Chosen
<1> HIDE DEF before
<1>6. PICK s \in Sender : Pushed(before, s) /\ out[k] = AtCursor(before, s)
  BY <1>5 DEF First, HeapAfter
<1>7. out[k].from = s /\ out[k].nonce = nonce[s] + CountOf(before, s)
  BY <1>4, <1>6, CursorType DEF Pushed
<1> QED BY <1>2, <1>3, <1>4, <1>5, <1>7 DEF before, out

\* What the selection promises: a block of pooled transactions, each with its
\* sender's next nonce and within its credit.
LEMMA SelectionServes ==
  ASSUME Inv
  PROVE  LET out == SelectForBlock
         IN  /\ out \in Seq(Tx)
             /\ \A k \in 1 .. Len(out) :
                  LET s == out[k].from
                      before == SubSeq(out, 1, k - 1)
                  IN  /\ s \in Sender
                      /\ pool[s] # << >>
                      /\ out[k].nonce = nonce[s] + CountOf(before, s)
                      /\ Spent(before, s) + CostOf(out[k]) <= rc[s]
<1> DEFINE out == SelectForBlock
<1>1. out \in Seq(Tx)
  BY SelectForBlockSelects DEF SelectedUpTo, Chosen
<1> SUFFICES ASSUME NEW k \in 1 .. Len(out)
             PROVE  LET s == out[k].from
                        before == SubSeq(out, 1, k - 1)
                    IN  /\ s \in Sender
                        /\ pool[s] # << >>
                        /\ out[k].nonce = nonce[s] + CountOf(before, s)
                        /\ Spent(before, s) + CostOf(out[k]) <= rc[s]
  BY <1>1
<1> DEFINE t == out[k]
           s == t.from
           before == SubSeq(out, 1, k - 1)
<1>2. k \in DOMAIN out
  BY <1>1
<1>3. /\ t \in Tx /\ s \in Sender /\ before \in Seq(Tx)
      /\ t.nonce = nonce[s] + CountOf(before, s)
      /\ SubSeq(out, 1, k) = Append(before, t)
      /\ HeadsServed(SubSeq(out, 1, k))
  BY <1>2, SelectionStep
<1> HIDE DEF before, t
<1>4. /\ CountOf(Append(before, t), s) = CountOf(before, s) + 1
      /\ CountOf(before, s) \in Nat
      /\ Spent(Append(before, t), s) = Spent(before, s) + CostOf(t)
  BY <1>3, CountAppend, CountType, SpentAppend
<1>5. HeadsServed(Append(before, t))
  BY <1>3
<1>6. Spent(before, s) + CostOf(t) <= rc[s]
  BY <1>3, <1>4, <1>5 DEF HeadsServed
<1>7. pool[s] # << >>
  <2>1. CountOf(before, s) + 1 <= Len(pool[s])
    BY <1>3, <1>4, <1>5 DEF HeadsServed
  <2>2. Len(<< >>) = 0
    OBVIOUS
  <2> QED BY <1>4, <2>1, <2>2
<1> QED BY <1>3, <1>6, <1>7 DEF before, t

\* Without a stale transaction, what could come next is at the cursor.
LEMMA NextOnHeap ==
  ASSUME Inv, NEW txs \in Seq(Tx), HeadsServed(txs),
         NEW t \in Tx, ~HasStale(t.from), CouldBeNext(t, txs)
  PROVE  t \in HeapAfter(txs)
<1> DEFINE s == t.from
           c == CountOf(txs, s)
<1>1. s \in Sender /\ t.nonce \in Nat
  BY MempoolAssumption
<1>2. PICK i \in DOMAIN pool[s] : pool[s][i] = t
  BY DEF CouldBeNext
<1>3. /\ pool[s] \in Seq(Tx) /\ Len(pool[s]) \in Nat /\ i \in 1 .. Len(pool[s])
      /\ \A j \in 1 .. Len(pool[s]) : pool[s][j].nonce \in Nat
      /\ nonce[s] \in Nat /\ c \in Nat /\ rc[s] \in Nat /\ CostOf(t) \in Nat
  <2>1. pool[s] \in Seq(Tx) /\ nonce[s] \in Nat /\ rc[s] \in Nat
    BY <1>1 DEF Inv, TypeOK
  <2>2. \A x \in Tx : x.nonce \in Nat /\ CostOf(x) \in Nat
    BY MempoolAssumption
  <2>3. c \in Nat
    BY <1>1, CountType
  <2>4. Len(pool[s]) \in Nat /\ i \in 1 .. Len(pool[s])
    BY <1>2, <2>1
  <2>5. \A j \in 1 .. Len(pool[s]) : pool[s][j] \in Tx
    BY <2>1
  <2> QED BY <2>1, <2>2, <2>3, <2>4, <2>5
<1>4. /\ c <= Len(pool[s])
      /\ \A j \in 1 .. c : pool[s][j].nonce = nonce[s] + j - 1
  BY <1>1 DEF HeadsServed
<1>5. t.nonce = nonce[s] + c /\ Spent(txs, s) + CostOf(t) <= rc[s]
  BY DEF CouldBeNext
<1>6. \A j \in 1 .. Len(pool[s]) : pool[s][j].nonce >= nonce[s]
  BY <1>3 DEF HasStale
<1>7. \A j, l \in 1 .. Len(pool[s]) : j < l => pool[s][j].nonce < pool[s][l].nonce
  <2>1. DOMAIN pool[s] = 1 .. Len(pool[s])
    BY <1>3
  <2>2. QueuesSorted
    BY DEF Inv
  <2> QED BY <1>1, <2>1, <2>2 DEF QueuesSorted
<1>8. Spent(txs, s) \in Nat
  BY SpentAppend
<1> HIDE DEF s, c
<1>9. i = c + 1
  <2>1. ~(i <= c)
    <3> SUFFICES ASSUME i <= c PROVE FALSE
      OBVIOUS
    <3>1. t.nonce = nonce[s] + i - 1
      BY <1>2, <1>3, <1>4
    <3> QED BY <1>3, <1>5, <3>1
  <2>2. ~(i > c + 1)
    <3> SUFFICES ASSUME i > c + 1 PROVE FALSE
      OBVIOUS
    <3>1. c + 1 \in 1 .. Len(pool[s])
      BY <1>3
    <3>2. pool[s][c + 1].nonce < nonce[s] + c
      BY <1>2, <1>3, <1>5, <1>7, <3>1
    <3>3. CASE c = 0
      BY <1>3, <1>6, <3>1, <3>2, <3>3
    <3>4. CASE c # 0
      <4>1. c \in 1 .. Len(pool[s]) /\ c \in 1 .. c
        BY <1>3, <1>4, <3>4
      <4>2. pool[s][c].nonce = nonce[s] + c - 1
        BY <1>4, <4>1
      <4>3. pool[s][c].nonce < pool[s][c + 1].nonce
        BY <1>3, <1>7, <3>1, <4>1
      <4>4. pool[s][c + 1].nonce \in Nat
        BY <1>3, <3>1
      <4> DEFINE here == pool[s][c].nonce
                 above == pool[s][c + 1].nonce
      <4>5. /\ here = nonce[s] + c - 1 /\ here < above /\ above < nonce[s] + c
            /\ above \in Nat /\ c \in Nat /\ nonce[s] \in Nat
        BY <1>3, <3>2, <4>2, <4>3, <4>4
      <4> HIDE DEF here, above
      <4> QED BY <4>5
    <3> QED BY <3>3, <3>4
  <2> QED BY <1>3, <2>1, <2>2
<1>10. HasNext(txs, s) /\ AtCursor(txs, s) = t
  BY <1>2, <1>3, <1>9 DEF HasNext, AtCursor, c
<1>11. Pushed(txs, s)
  BY <1>3, <1>5, <1>8, <1>10 DEF Pushed, c
<1> QED BY <1>1, <1>10, <1>11 DEF HeapAfter

\* Every transaction SelectForBlock returns has its sender's next nonce, and
\* what its sender has to pay up to there is within the stored credit.
LEMMA SelectionExecutableInv == Inv => SelectionExecutable
<1> DEFINE out == SelectForBlock
<1> SUFFICES ASSUME Inv, NEW k \in DOMAIN out
             PROVE  /\ out[k].nonce = nonce[out[k].from]
                         + CountOf(SubSeq(out, 1, k - 1), out[k].from)
                    /\ Spent(SubSeq(out, 1, k), out[k].from) <= rc[out[k].from]
  BY DEF SelectionExecutable
<1>1. /\ out[k].nonce = nonce[out[k].from]
              + CountOf(SubSeq(out, 1, k - 1), out[k].from)
      /\ out[k].from \in Sender /\ HeadsServed(SubSeq(out, 1, k))
  BY SelectionStep
<1> QED BY <1>1 DEF HeadsServed

\* The documented order is txHeap.Less.
LEMMA SelectionInOrderInv == Inv => SelectionInOrder
<1> DEFINE out == SelectForBlock
<1> SUFFICES ASSUME Inv PROVE SelectionInOrder
  OBVIOUS
<1>1. \A t, u \in Tx : Precedes(t, u) <=> Less(t, u)
  BY DEF Precedes, Less
<1>2. ASSUME NEW k \in DOMAIN out, NEW t \in Tx,
             ~HasStale(t.from), CouldBeNext(t, SubSeq(out, 1, k - 1))
      PROVE  ~Precedes(t, out[k])
  <2> DEFINE before == SubSeq(out, 1, k - 1)
  <2>1. /\ out[k] \in Tx /\ before \in Seq(Tx) /\ HeadsServed(before)
        /\ First(out[k], HeapAfter(before))
    BY SelectionStep
  <2>2. t \in HeapAfter(before)
    <3> HIDE DEF out
    <3> QED BY <1>2, <2>1, NextOnHeap
  <2>3. t = out[k] \/ Less(out[k], t)
    BY <2>1, <2>2 DEF First
  <2>4. ~Less(t, out[k])
    BY <2>1, <2>3, LessIsStrictOrder
  <2> QED BY <1>1, <2>1, <2>4
<1>3. ASSUME Len(out) < BlockMaxTxs, NEW t \in Tx, ~HasStale(t.from)
      PROVE  ~CouldBeNext(t, out)
  <2>1. Chosen(out) /\ out \in Seq(Tx) /\ HeapAfter(out) = {}
    BY <1>3, SelectForBlockSelects DEF SelectedUpTo, Chosen
  <2> HIDE DEF out
  <2>2. HeadsServed(out)
    <3>1. Len(out) \in 0 .. Len(out) /\ SubSeq(out, 1, Len(out)) = out
      BY <2>1
    <3>2. HeadsServed(SubSeq(out, 1, Len(out)))
      BY <2>1, <3>1, PrefixesServe
    <3> QED BY <3>1, <3>2
  <2> QED BY <1>3, <2>1, <2>2, NextOnHeap
<1> QED BY <1>2, <1>3 DEF SelectionInOrder

\* A sender with a stale transaction is not served.
LEMMA StaleNotServed ==
  ASSUME Inv, NEW s \in Sender, HasStale(s), NEW k \in DOMAIN SelectForBlock
  PROVE  SelectForBlock[k].from # s
<1> DEFINE t == SelectForBlock[k]
           before == SubSeq(SelectForBlock, 1, k - 1)
<1> SUFFICES ASSUME t.from = s PROVE FALSE
  OBVIOUS
<1>1. /\ t \in Tx /\ before \in Seq(Tx)
      /\ SubSeq(SelectForBlock, 1, k) = Append(before, t)
      /\ HeadsServed(SubSeq(SelectForBlock, 1, k))
  BY SelectionStep
<1> HIDE DEF t, before
<1>2. HeadsServed(Append(before, t))
  BY <1>1
<1>3. CountOf(Append(before, t), s) = CountOf(before, s) + 1
      /\ CountOf(before, s) \in Nat
  BY <1>1, CountAppend, CountType
<1>4. CountOf(before, s) + 1 <= Len(pool[s]) /\ pool[s][1].nonce = nonce[s] + 1 - 1
  BY <1>2, <1>3 DEF HeadsServed
<1>5. PICK i \in DOMAIN pool[s] : pool[s][i].nonce < nonce[s]
  BY DEF HasStale
<1>6. /\ i \in 1 .. Len(pool[s]) /\ 1 \in 1 .. Len(pool[s])
      /\ pool[s][i].nonce \in Nat /\ pool[s][1].nonce \in Nat /\ nonce[s] \in Nat
  BY <1>3, <1>4, <1>5, MempoolAssumption DEF Inv, TypeOK
<1>7. 1 < i => pool[s][1].nonce < pool[s][i].nonce
  BY <1>6 DEF Inv, QueuesSorted
<1> QED BY <1>4, <1>5, <1>6, <1>7

\* Nothing makes a stale transaction fresh or removes it.
LEMMA StaleStays ==
  ASSUME Inv, [Next]_vars, NEW s \in Sender, HasStale(s)
  PROVE  HasStale(s)'
<1>1. PICK i \in DOMAIN pool[s] : pool[s][i].nonce < nonce[s]
  BY DEF HasStale
<1>2. pool[s] \in Seq(Tx) /\ pool[s][i].nonce \in Nat /\ nonce[s] \in Nat
  BY <1>1, MempoolAssumption DEF Inv, TypeOK
<1>3. ASSUME NEW c \in Client, NEW t \in Tx, CheckTx(c, t) PROVE HasStale(s)'
  BY <1>1, <1>3 DEF CheckTx, HasStale
<1>4. ASSUME NEW c \in Client, InsertTx(c) PROVE HasStale(s)'
  <2>1. PICK t \in adding[c] :
          pool' = [pool EXCEPT ![t.from] = InsertByNonce(@, t)]
    BY <1>4 DEF InsertTx
  <2>2. t \in Tx /\ t.from \in Sender /\ nonce' = nonce
    <3>1. t \in Tx
      BY DEF Inv, TypeOK
    <3> QED BY <1>4, <3>1, MempoolAssumption DEF InsertTx
  <2>3. CASE t.from # s
    BY <1>1, <2>1, <2>2, <2>3 DEF Inv, TypeOK, HasStale
  <2>4. CASE t.from = s
    <3>1. QueueOf(pool[s], t.from) /\ Sorted(pool[s])
      BY <2>4 DEF Inv, TypeOK, QueuesSorted, QueueOf, Sorted
    <3>2. PICK j \in DOMAIN InsertByNonce(pool[s], t) :
            InsertByNonce(pool[s], t)[j] = pool[s][i]
      BY <1>1, <2>2, <3>1, InsertByNonceKeeps
    <3>3. pool'[s] = InsertByNonce(pool[s], t)
      BY <2>1, <2>2, <2>4 DEF Inv, TypeOK
    <3> QED BY <1>1, <2>2, <3>2, <3>3 DEF HasStale
  <2> QED BY <2>3, <2>4
<1>5. CASE CommitBlock
  <2>1. pool' = pool /\ nonce'[s] >= nonce[s] /\ nonce'[s] \in 0 .. MaxNonce
    BY <1>5 DEF CommitBlock
  <2>2. pool[s][i].nonce < nonce'[s]
    BY <1>1, <1>2, <2>1, MempoolAssumption
  <2> QED BY <1>1, <2>1, <2>2 DEF HasStale
<1>6. CASE UNCHANGED vars
  BY <1>1, <1>6 DEF HasStale, vars
<1> QED BY <1>3, <1>4, <1>5, <1>6 DEF Next

\* SelectForBlock returns only blocks that the ledger's nonce and credit checks
\* let through, whatever the queues hold.
THEOREM SelectionExecutableAlways == Spec => []SelectionExecutable
BY InvAlways, SelectionExecutableInv, PTL

\* SelectForBlock takes the dearest transaction that could come next, the
\* smallest hash among equals, and as many as fit (txHeap, mempool.go).
THEOREM SelectionInOrderAlways == Spec => []SelectionInOrder
BY InvAlways, SelectionInOrderInv, PTL

\* A sender with a stale transaction is never served again: AddTx and ApplyBlock
\* leave the transaction where it is, and the cursor starts at it.
THEOREM StaleHidesAlways == Spec => StaleHides
<1>1. Inv /\ [Next]_vars =>
        [\A s \in Sender : HasStale(s) =>
           /\ HasStale(s)'
           /\ \A k \in DOMAIN SelectForBlock : SelectForBlock[k].from # s]_vars
  BY StaleStays, StaleNotServed
<1> QED BY <1>1, InvAlways, PTL DEF Spec, StaleHides

=============================================================================
