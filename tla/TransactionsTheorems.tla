------------------------ MODULE TransactionsTheorems ------------------------
(* What the clock (RCTime), the credits (RC) and the transactions            *)
(* (Transactions) compute, for all parameters, windows and accounts.         *)
EXTENDS Transactions, SumsTheorems, SequenceTheorems

-----------------------------------------------------------------------------
(* The clock.                                                                *)

\* How many timestamps are at most v, and below v.
UpTo(ts, v) == { i \in DOMAIN ts : ts[i] <= v }
Below(ts, v) == { i \in DOMAIN ts : ts[i] < v }

\* v is the lower middle element.
IsMedian(ts, v) ==
  /\ \E i \in DOMAIN ts : v = ts[i]
  /\ 2 * Cardinality(UpTo(ts, v)) >= Len(ts)
  /\ 2 * Cardinality(Below(ts, v)) < Len(ts)

\* A window that is not empty has a median: the least timestamp that at least
\* half of the timestamps do not exceed.
LEMMA MedianExists ==
  ASSUME NEW ts \in Seq(Int), ts # << >>
  PROVE  \E v \in Int : IsMedian(ts, v)
<1> DEFINE n == Len(ts)
           Stamps == { ts[i] : i \in 1 .. n }
           G == { v \in Stamps : 2 * Cardinality(UpTo(ts, v)) >= n }
<1>1. n \in Nat \ {0} /\ DOMAIN ts = 1 .. n /\ \A i \in 1 .. n : ts[i] \in Int
  OBVIOUS
<1>2. IsFiniteSet(1 .. n) /\ Cardinality(1 .. n) = n
  BY <1>1, FS_Interval
<1>3. Stamps \in SUBSET Int /\ IsFiniteSet(Stamps) /\ Stamps # {}
  <2>1. ts \in Surjection(1 .. n, Stamps)
    BY <1>1 DEF Surjection
  <2>2. IsFiniteSet(Stamps)
    <3> HIDE DEF Stamps, n
    <3> QED BY <1>2, <2>1, FS_Surjection
  <2>3. 1 \in 1 .. n
    BY <1>1
  <2> QED BY <1>1, <2>2, <2>3
<1>4. G # {}
  <2>1. PICK v \in Stamps : \A w \in Stamps : w <= v
    <3> HIDE DEF Stamps
    <3> QED BY <1>3, GreatestInteger
  <2>2. UpTo(ts, v) = 1 .. n
    BY <1>1, <2>1 DEF UpTo
  <2>3. 2 * Cardinality(UpTo(ts, v)) >= n
    BY <1>1, <1>2, <2>2
  <2> QED BY <2>3
<1>5. PICK v \in G : \A w \in G : v <= w
  <2>1. G \in SUBSET Int /\ IsFiniteSet(G)
    <3>1. G \in SUBSET Stamps
      OBVIOUS
    <3> HIDE DEF G, Stamps
    <3> QED BY <1>3, <3>1, FS_Subset
  <2> HIDE DEF G
  <2> QED BY <1>4, <2>1, LeastInteger
<1>6. v \in Int /\ v \in Stamps /\ 2 * Cardinality(UpTo(ts, v)) >= n
  BY <1>3
<1>7. 2 * Cardinality(Below(ts, v)) < n
  <2> SUFFICES ASSUME ~(2 * Cardinality(Below(ts, v)) < n) PROVE FALSE
    OBVIOUS
  <2> DEFINE B == { ts[i] : i \in Below(ts, v) }
  <2>1. Below(ts, v) # {}
    <3>1. Below(ts, v) = {} => Cardinality(Below(ts, v)) = 0
      BY FS_EmptySet
    <3> QED BY <1>1, <3>1
  <2>2. B \in SUBSET Stamps
    BY <1>1 DEF Below
  <2>3. B # {}
    BY <2>1
  <2>4. B \in SUBSET Int /\ IsFiniteSet(B)
    <3> HIDE DEF B, Stamps
    <3> QED BY <1>3, <2>2, FS_Subset
  <2>5. PICK w \in B : \A u \in B : u <= w
    <3> HIDE DEF B
    <3> QED BY <2>3, <2>4, GreatestInteger
  <2>6. w \in Int /\ w \in Stamps /\ w < v
    <3>1. w < v
      BY DEF Below
    <3> HIDE DEF B, Stamps
    <3> QED BY <2>2, <2>4, <3>1
  <2>7. UpTo(ts, w) = Below(ts, v)
    <3>1. \A i \in Below(ts, v) : ts[i] <= w
      BY <2>5
    <3>2. \A i \in UpTo(ts, w) : ts[i] < v
      BY <1>1, <1>6, <2>6 DEF UpTo
    <3> QED BY <3>1, <3>2 DEF UpTo, Below
  <2>8. Cardinality(Below(ts, v)) \in Nat
    <3>1. Below(ts, v) \in SUBSET (1 .. n)
      BY <1>1 DEF Below
    <3> QED BY <1>2, <3>1, FS_Subset, FS_CardinalityType
  <2>9. w \in G
    BY <1>1, <2>6, <2>7, <2>8
  <2> QED BY <1>5, <1>6, <2>6, <2>9
<1>8. \E i \in DOMAIN ts : v = ts[i]
  BY <1>1, <1>6
<1> QED BY <1>6, <1>7, <1>8 DEF IsMedian

\* rc.Median returns one of the timestamps, a middle one.
THEOREM MedianIsMedian ==
  ASSUME NEW ts \in Seq(Int), ts # << >>
  PROVE  Median(ts) \in Int /\ IsMedian(ts, Median(ts))
<1> DEFINE M(v) ==
       /\ v \in { ts[i] : i \in DOMAIN ts }
       /\ 2 * Cardinality({ i \in DOMAIN ts : ts[i] <= v }) >= Len(ts)
       /\ 2 * Cardinality({ i \in DOMAIN ts : ts[i] < v }) < Len(ts)
<1>1. PICK v \in Int : IsMedian(ts, v)
  BY MedianExists
<1>2. \A x : M(x) <=> IsMedian(ts, x)
  BY DEF IsMedian, UpTo, Below
<1>3. Median(ts) = CHOOSE x : M(x)
  BY DEF Median
<1> HIDE DEF M
<1>4. IsMedian(ts, Median(ts))
  BY <1>1, <1>2, <1>3
<1>5. Median(ts) \in Int
  BY <1>4 DEF IsMedian
<1> QED BY <1>4, <1>5

\* The clamp of rc.EffectiveTime.
LEMMA EffectiveTimeClamps ==
  ASSUME NEW ts \in Seq(Int), ts # << >>, NEW t \in Int, NEW skew \in Nat
  PROVE  /\ Median(ts) \in Int
         /\ EffectiveTime(t, ts, skew) = t <=>
              t >= Median(ts) - skew /\ t <= Median(ts) + skew
         /\ EffectiveTime(t, ts, skew) >= Median(ts) - skew
         /\ EffectiveTime(t, ts, skew) <= Median(ts) + skew
<1>1. Median(ts) \in Int
  BY MedianIsMedian
<1> QED BY <1>1 DEF EffectiveTime

\* The effective time is a time, also before the first block.
LEMMA EffectiveTimeType ==
  ASSUME NEW ts \in Seq(Int), NEW t \in Int, NEW skew \in Nat
  PROVE  EffectiveTime(t, ts, skew) \in Int
<1>1. CASE ts = << >>
  BY <1>1 DEF EffectiveTime
<1>2. CASE ts # << >>
  <2>1. Median(ts) \in Int
    BY <1>2, MedianIsMedian
  <2> QED BY <1>2, <2>1 DEF EffectiveTime
<1> QED BY <1>1, <1>2

\* A window stays a window when a block is appended and the oldest timestamps
\* are cut off.
LEMMA SlideKeeps ==
  ASSUME NEW last \in Seq(Int), NEW t \in Int, NEW w \in Nat \ {0}
  PROVE  Slide(last, t, w) \in Seq(Int) /\ Slide(last, t, w) # << >>
<1> DEFINE longer == Append(last, t)
           first == Len(longer) - w + 1
<1>1. longer \in Seq(Int) /\ Len(longer) \in Nat \ {0}
  OBVIOUS
<1>2. CASE Len(longer) > w
  <2>1. first \in 1 .. Len(longer)
    BY <1>1, <1>2
  <2>2. \A i \in first .. Len(longer) : longer[i] \in Int
    BY <1>1, <2>1
  <2> HIDE DEF longer, first
  <2>3. /\ SubSeq(longer, first, Len(longer)) \in Seq(Int)
        /\ Len(SubSeq(longer, first, Len(longer))) =
             IF first <= Len(longer) THEN Len(longer) - first + 1 ELSE 0
    BY <1>1, <2>1, <2>2, SubSeqProperties
  <2>4. Len(SubSeq(longer, first, Len(longer))) # 0
    BY <1>1, <2>1, <2>3
  <2>5. SubSeq(longer, first, Len(longer)) # << >>
    <3>1. Len(<< >>) = 0
      OBVIOUS
    <3> QED BY <2>4, <3>1
  <2> QED BY <1>2, <2>3, <2>5 DEF Slide, longer, first
<1>3. CASE ~(Len(longer) > w)
  BY <1>1, <1>3 DEF Slide
<1> QED BY <1>2, <1>3

-----------------------------------------------------------------------------
(* The credits.                                                              *)

\* What Params.ValidateGenesis makes of the rates and prices.
RatesNat == {Alpha, Beta, CSize, CCompute, CStorage} \subseteq Nat

\* The product of natural numbers.
LEMMA ProductNat == \A m, n \in Nat : m * n \in Nat
OBVIOUS

\* Saturating arithmetic stays within a machine word.
LEMMA SatType ==
  ASSUME NEW x \in Nat
  PROVE  Sat(x) \in 0 .. MaxUint
BY RCAssumption DEF Sat

\* A credit ceiling is within a machine word.
LEMMA RCMaxType ==
  ASSUME RatesNat, NEW stake \in Nat
  PROVE  RCMax(stake) \in 0 .. MaxUint
<1>1. Alpha * stake \in Nat
  BY ProductNat DEF RatesNat
<1> QED BY <1>1, SatType DEF RCMax

\* A regenerated credit is within a machine word, and below the ceiling.
LEMMA RegenType ==
  ASSUME RatesNat, NEW rc \in Nat, NEW stake \in Nat,
         NEW last \in Int, NEW now \in Int
  PROVE  Regen(rc, stake, last, now) \in 0 .. RCMax(stake)
<1> DEFINE dt == IF now < last THEN 0 ELSE now - last
           grown == Sat(rc + Sat(Sat(dt * Beta) * stake))
<1>1. dt \in Nat /\ Beta \in Nat
  BY DEF RatesNat
<1>2. RCMax(stake) \in 0 .. MaxUint /\ MaxUint \in Nat
  BY RCMaxType, RCAssumption
<1>3. grown \in Nat
  <2> HIDE DEF dt
  <2>1. dt * Beta \in Nat
    BY <1>1, ProductNat
  <2>2. Sat(dt * Beta) \in Nat
    BY <1>2, <2>1, SatType
  <2>3. Sat(dt * Beta) * stake \in Nat
    BY <2>2, ProductNat
  <2>4. Sat(Sat(dt * Beta) * stake) \in Nat
    BY <1>2, <2>3, SatType
  <2>5. rc + Sat(Sat(dt * Beta) * stake) \in Nat
    BY <2>4
  <2> QED BY <1>2, <2>5, SatType
<1>4. Regen(rc, stake, last, now) =
        IF stake = 0 THEN 0 ELSE IF grown > RCMax(stake) THEN RCMax(stake) ELSE grown
  BY DEF Regen
<1> HIDE DEF grown
<1> QED BY <1>2, <1>3, <1>4

\* A credit regenerates to what it was or to the ceiling, or to more.
LEMMA RegenAtLeast ==
  ASSUME RatesNat, NEW rc \in 0 .. MaxUint, NEW stake \in Nat,
         NEW last \in Int, NEW now \in Int,
         NEW x \in Nat, x <= rc, x <= RCMax(stake)
  PROVE  x <= Regen(rc, stake, last, now)
<1> DEFINE dt == IF now < last THEN 0 ELSE now - last
           more == Sat(Sat(dt * Beta) * stake)
           grown == Sat(rc + more)
<1>1. dt \in Nat /\ Beta \in Nat /\ MaxUint \in Nat
  BY RCAssumption DEF RatesNat
<1>2. more \in Nat
  <2> HIDE DEF dt
  <2>1. dt * Beta \in Nat
    BY <1>1, ProductNat
  <2>2. Sat(dt * Beta) \in Nat
    BY <1>1, <2>1, SatType
  <2>3. Sat(dt * Beta) * stake \in Nat
    BY <2>2, ProductNat
  <2> QED BY <1>1, <2>3, SatType
<1>3. Regen(rc, stake, last, now) =
        IF stake = 0 THEN 0 ELSE IF grown > RCMax(stake) THEN RCMax(stake) ELSE grown
  BY DEF Regen
<1> HIDE DEF more
<1>4. x <= grown
  BY <1>1, <1>2 DEF Sat
<1>5. stake = 0 => x = 0
  <2> SUFFICES ASSUME stake = 0 PROVE RCMax(stake) = 0
    OBVIOUS
  <2>1. Alpha * stake = 0
    BY DEF RatesNat
  <2> QED BY <1>1, <2>1 DEF RCMax, Sat
<1> HIDE DEF grown
<1> QED BY <1>3, <1>4, <1>5

\* A product grows with either factor.
LEMMA ProductMonotone ==
  ASSUME NEW k \in Nat, NEW m \in Nat, NEW n \in Nat, m <= n
  PROVE  k * m <= k * n /\ m * k <= n * k
<1>1. PICK d \in Nat : n = m + d
  <2>1. n - m \in Nat /\ n = m + (n - m)
    OBVIOUS
  <2> QED BY <2>1
<1>2. k * m \in Nat /\ k * d \in Nat
  BY ProductNat
<1>3. k * n = k * m + k * d
  BY <1>1
<1>4. k * m <= k * n
  BY <1>2, <1>3
<1>5. m * k = k * m /\ n * k = k * n
  OBVIOUS
<1> QED BY <1>4, <1>5

\* A saturated number is not larger.
LEMMA SatAtMost == ASSUME NEW x \in Nat PROVE Sat(x) \in Nat /\ Sat(x) <= x
BY RCAssumption DEF Sat

\* A regenerated credit is at most the ceiling, and at most what it was and what
\* the time gone by yields.
LEMMA RegenAtMost ==
  ASSUME RatesNat, NEW rc \in Nat, NEW stake \in Nat,
         NEW last \in Int, NEW now \in Int,
         NEW dt, dt = IF now < last THEN 0 ELSE now - last
  PROVE  /\ Regen(rc, stake, last, now) <= Alpha * stake
         /\ Regen(rc, stake, last, now) <= rc + (Beta * dt) * stake
<1> DEFINE yield == Sat(dt * Beta)
           more == Sat(yield * stake)
           grown == Sat(rc + more)
           r == Regen(rc, stake, last, now)
<1>1. dt \in Nat /\ Alpha \in Nat /\ Beta \in Nat
  BY DEF RatesNat
<1>2. /\ dt * Beta \in Nat /\ Beta * dt \in Nat /\ dt * Beta = Beta * dt
      /\ Alpha * stake \in Nat
  BY <1>1, ProductNat
<1>3. yield \in Nat /\ yield <= Beta * dt
  BY <1>2, SatAtMost
<1>4. r = IF stake = 0 THEN 0 ELSE IF grown > RCMax(stake) THEN RCMax(stake) ELSE grown
  BY DEF Regen
<1> HIDE DEF yield, r
<1>5. /\ yield * stake \in Nat /\ (Beta * dt) * stake \in Nat
      /\ yield * stake <= (Beta * dt) * stake
  BY <1>2, <1>3, ProductNat, ProductMonotone
<1>6. more \in Nat /\ more <= yield * stake
  BY <1>5, SatAtMost
<1> HIDE DEF more
<1>7. grown \in Nat /\ grown <= rc + more
  <2>1. rc + more \in Nat
    BY <1>6
  <2> QED BY <2>1, SatAtMost
<1>8. RCMax(stake) \in Nat /\ RCMax(stake) <= Alpha * stake
  BY <1>2, SatAtMost DEF RCMax
<1> HIDE DEF grown
<1>9. r <= Alpha * stake
  BY <1>2, <1>4, <1>7, <1>8
<1>10. r <= grown \/ r = 0
  BY <1>4, <1>7, <1>8
<1>11. r \in Nat
  BY <1>4, <1>7, <1>8
<1> DEFINE product == (Beta * dt) * stake
           smaller == yield * stake
<1>12. /\ product \in Nat /\ smaller \in Nat /\ smaller <= product
       /\ more <= smaller
  BY <1>5, <1>6
<1> HIDE DEF product, smaller
<1>13. r <= rc + product
  BY <1>6, <1>7, <1>10, <1>11, <1>12
<1> QED BY <1>9, <1>13 DEF r, product

\* Costs are within a machine word.
LEMMA LedgerCostType ==
  ASSUME RatesNat, NEW tx, NEW engine
  PROVE  LedgerCost(tx, engine) \in 0 .. MaxUint
<1>1. TxSize \in Nat /\ CodeSize \in Nat /\ 0 \in Nat /\ 1 \in Nat /\ 2 \in Nat
  BY TransactionsAssumption
<1>2. ASSUME NEW size \in Nat, NEW instructions \in Nat, NEW writes \in Nat
      PROVE  Cost(size, instructions, writes) \in 0 .. MaxUint
  <2>1. /\ CSize * size \in Nat
        /\ CCompute * instructions \in Nat
        /\ CStorage * writes \in Nat
    BY ProductNat DEF RatesNat
  <2>2. CSize * size + CCompute * instructions + CStorage * writes \in Nat
    BY <2>1
  <2> QED BY <2>2, SatType DEF Cost
<1>3. /\ Cost(TxSize, 0, 2) \in 0 .. MaxUint
      /\ Cost(TxSize, CodeSize, 1) \in 0 .. MaxUint
      /\ Cost(TxSize, 0, 0) \in 0 .. MaxUint
      /\ Cost(TxSize, 0, 1) \in 0 .. MaxUint
  BY <1>1, <1>2
<1> QED BY <1>3 DEF LedgerCost

\* A cost is more with a larger transaction, contract or write.
LEMMA CostMonotone ==
  ASSUME RatesNat, NEW size \in Nat, NEW m \in Nat, NEW n \in Nat, m <= n,
         NEW writes \in Nat
  PROVE  /\ Cost(size, m, writes) \in 0 .. MaxUint
         /\ Cost(size, m, writes) <= Cost(size, n, writes)
<1> DEFINE x == CSize * size + CCompute * m + CStorage * writes
           y == CSize * size + CCompute * n + CStorage * writes
<1>1. /\ CSize * size \in Nat /\ CStorage * writes \in Nat
      /\ CCompute * m \in Nat /\ CCompute * n \in Nat
  BY ProductNat DEF RatesNat
<1>2. CCompute * m <= CCompute * n
  <2>1. CCompute \in Nat
    BY DEF RatesNat
  <2>2. n - m \in Nat /\ CCompute * (n - m) \in Nat
    BY <2>1, ProductNat
  <2>3. CCompute * n = CCompute * m + CCompute * (n - m)
    BY <2>1, <2>2
  <2> QED BY <1>1, <2>2, <2>3
<1>3. x \in Nat /\ y \in Nat /\ x <= y
  BY <1>1, <1>2
<1>4. Cost(size, m, writes) = Sat(x) /\ Cost(size, n, writes) = Sat(y)
  BY DEF Cost
<1> HIDE DEF x, y
<1>5. Sat(x) <= Sat(y)
  BY <1>3, RCAssumption DEF Sat
<1> QED BY <1>3, <1>4, <1>5, SatType

\* The pool's price is at least the ledger's, in a machine word.
LEMMA CosterCovers ==
  ASSUME RatesNat, NEW tx, NEW engine
  PROVE  /\ CosterCost(tx, engine) \in 0 .. MaxUint
         /\ LedgerCost(tx, engine) <= CosterCost(tx, engine)
<1>1. LedgerCost(tx, engine) \in 0 .. MaxUint /\ MaxUint \in Nat
  BY LedgerCostType, RCAssumption
<1>2. CASE tx.kind = "deploy"
  <2>1. LedgerCost(tx, engine) = Cost(TxSize, 0, 1)
    BY <1>2 DEF LedgerCost
  <2>2. TxSize \in Nat /\ CodeSize \in Nat /\ 0 <= CodeSize
    BY TransactionsAssumption
  <2>3. /\ Cost(TxSize, 0, 1) <= Cost(TxSize, CodeSize, 1)
        /\ Cost(TxSize, CodeSize, 1) \in 0 .. MaxUint
    BY <2>2, CostMonotone
  <2> QED BY <1>2, <2>1, <2>3 DEF CosterCost
<1>3. CASE tx.kind # "deploy"
  BY <1>1, <1>3 DEF CosterCost
<1> QED BY <1>2, <1>3

\* No transaction is free where bytes have a price.
LEMMA CosterPositive ==
  ASSUME RatesNat, CSize # 0, NEW tx, NEW engine
  PROVE  CosterCost(tx, engine) > 0
<1>1. TxSize \in Nat \ {0} /\ CodeSize \in Nat /\ MaxUint \in Nat \ {0}
  BY TransactionsAssumption, RCAssumption
<1>2. ASSUME NEW m \in Nat, NEW w \in Nat PROVE Cost(TxSize, m, w) > 0
  <2>1. CSize * TxSize \in Nat /\ CCompute * m \in Nat /\ CStorage * w \in Nat
    BY <1>1, ProductNat DEF RatesNat
  <2>2. CSize * TxSize > 0
    <3>1. CSize \in Nat \ {0}
      BY DEF RatesNat
    <3> QED BY <1>1, <3>1
  <2> QED BY <1>1, <2>1, <2>2 DEF Cost, Sat
<1>3. /\ Cost(TxSize, 0, 2) > 0 /\ Cost(TxSize, CodeSize, 1) > 0
      /\ Cost(TxSize, 0, 0) > 0 /\ Cost(TxSize, 0, 1) > 0
  BY <1>1, <1>2
<1> QED BY <1>3 DEF CosterCost, LedgerCost

-----------------------------------------------------------------------------
(* One transaction.                                                          *)

\* Sums modulo the machine word are natural numbers.
LEMMA WrapType == \A m, n \in Nat : (m + n) % U64 \in Nat
<1>1. U64 \in Nat \ {0}
  BY TransactionsAssumption
<1> QED BY <1>1

\* Updates of several fields of an account are made one field at a time.
Delegated(a, b, st) == [a EXCEPT !.balance = b, !.stake = st]
Undelegated(a, b, st) == [a EXCEPT !.stake = st, !.balance = b]
Spent(a, c, n, m) == [a EXCEPT !.rc = c, !.nonce = n, !.rcMax = m]
Regained(a, c, m, t) == [a EXCEPT !.key = TRUE, !.rc = c, !.rcMax = m, !.time = t]

\* The key of an account is known.
Registered(a) == a.key = TRUE

\* A move between balance and stake leaves nonce, credit, time and key alone.
LEMMA StakeMoved ==
  ASSUME NEW a \in Account, NEW b \in Nat, NEW st \in Nat, NEW s,
         s = Delegated(a, b, st) \/ s = Undelegated(a, b, st)
  PROVE  /\ s \in Account /\ s.nonce = a.nonce /\ s.rc = a.rc /\ s.key = a.key
         /\ s.time = a.time
<1> DEFINE paid == [a EXCEPT !.balance = b]
           staked == [a EXCEPT !.stake = st]
<1>1. /\ paid \in Account /\ paid.nonce = a.nonce /\ paid.rc = a.rc
      /\ paid.key = a.key /\ paid.time = a.time
      /\ staked \in Account /\ staked.nonce = a.nonce /\ staked.rc = a.rc
      /\ staked.key = a.key /\ staked.time = a.time
  BY DEF Account
<1>2. s = [paid EXCEPT !.stake = st] \/ s = [staked EXCEPT !.balance = b]
  BY DEF Delegated, Undelegated
<1> HIDE DEF paid, staked
<1>3. CASE s = [paid EXCEPT !.stake = st]
  BY <1>1, <1>3 DEF Account
<1>4. CASE s = [staked EXCEPT !.balance = b]
  BY <1>1, <1>4 DEF Account
<1> QED BY <1>2, <1>3, <1>4

\* Paying the cost sets credit and nonce and nothing the funds depend on.
LEMMA CreditSpent ==
  ASSUME NEW a \in Account, NEW c \in Nat, NEW n \in Nat, NEW m \in Nat
  PROVE  /\ Spent(a, c, n, m) \in Account
         /\ Spent(a, c, n, m).rc = c
         /\ Spent(a, c, n, m).nonce = n
         /\ Spent(a, c, n, m).balance = a.balance
         /\ Spent(a, c, n, m).stake = a.stake
         /\ Spent(a, c, n, m).key = a.key
         /\ Spent(a, c, n, m).time = a.time
         /\ Spent(a, c, n, m).rcMax = m
<1> DEFINE s == Spent(a, c, n, m)
           spent == [a EXCEPT !.rc = c]
           used == [spent EXCEPT !.nonce = n]
<1>1. /\ spent \in Account /\ spent.rc = c
      /\ spent.balance = a.balance /\ spent.stake = a.stake /\ spent.key = a.key
      /\ spent.time = a.time
  BY DEF Account
<1>2. s = [used EXCEPT !.rcMax = m]
  BY DEF Spent
<1> HIDE DEF s, spent
<1>3. /\ used \in Account /\ used.rc = c /\ used.nonce = n
      /\ used.balance = a.balance /\ used.stake = a.stake /\ used.key = a.key
      /\ used.time = a.time
  BY <1>1 DEF Account
<1> HIDE DEF used
<1>4. /\ s \in Account /\ s.rc = c /\ s.nonce = n
      /\ s.balance = a.balance /\ s.stake = a.stake /\ s.key = a.key
      /\ s.time = a.time /\ s.rcMax = m
  BY <1>2, <1>3 DEF Account
<1> QED BY <1>4 DEF s

\* Regeneration sets the credit and leaves nonce and funds alone.
LEMMA CreditRegained ==
  ASSUME NEW a \in Account, NEW c \in Nat, NEW m \in Nat, NEW t \in Int
  PROVE  /\ Regained(a, c, m, t) \in Account
         /\ Regained(a, c, m, t).rc = c
         /\ Regained(a, c, m, t).nonce = a.nonce
         /\ Regained(a, c, m, t).balance = a.balance
         /\ Regained(a, c, m, t).stake = a.stake
         /\ Regained(a, c, m, t).time = t
<1> DEFINE s == Regained(a, c, m, t)
           known == [a EXCEPT !.key = TRUE]
           regained == [known EXCEPT !.rc = c]
           limited == [regained EXCEPT !.rcMax = m]
<1>1. /\ known \in Account /\ known.nonce = a.nonce
      /\ known.balance = a.balance /\ known.stake = a.stake
  BY DEF Account
<1>2. s = [limited EXCEPT !.time = t]
  BY DEF Regained
<1> HIDE DEF s, known
<1>3. /\ regained \in Account /\ regained.rc = c /\ regained.nonce = a.nonce
      /\ regained.balance = a.balance /\ regained.stake = a.stake
  BY <1>1 DEF Account
<1> HIDE DEF regained
<1>4. /\ limited \in Account /\ limited.rc = c /\ limited.nonce = a.nonce
      /\ limited.balance = a.balance /\ limited.stake = a.stake
  BY <1>3 DEF Account
<1> HIDE DEF limited
<1>5. /\ s \in Account /\ s.rc = c /\ s.nonce = a.nonce
      /\ s.balance = a.balance /\ s.stake = a.stake /\ s.time = t
  BY <1>2, <1>4 DEF Account
<1> QED BY <1>5 DEF s

\* Regeneration follows the check that stores the key.
LEMMA KeyRegained ==
  ASSUME NEW a \in Account, NEW c, NEW m, NEW t
  PROVE  Registered(Regained(a, c, m, t))
BY DEF Regained, Account, Registered

\* The sender whose credit has been regenerated.
LEMMA RegeneratedType ==
  ASSUME RatesNat, NEW accts \in [Addr -> Account], NEW tx \in Tx, NEW now \in Int
  PROVE  LET s == Regenerated(accts, tx, now)
         IN  /\ s \in Account
             /\ s.rc \in 0 .. MaxUint
             /\ s.rc = Regen(accts[tx.from].rc, accts[tx.from].stake,
                             accts[tx.from].time, now)
             /\ Registered(s)
             /\ s.nonce = accts[tx.from].nonce
             /\ s.balance = accts[tx.from].balance
             /\ s.stake = accts[tx.from].stake
             /\ s.time = now
<1>1. tx.from \in Addr /\ accts[tx.from] \in Account
  BY DEF Tx
<1> DEFINE a == accts[tx.from]
<1>2. Regen(a.rc, a.stake, a.time, now) \in 0 .. RCMax(a.stake)
  BY <1>1, RegenType DEF Account
<1>3. RCMax(a.stake) \in 0 .. MaxUint
  BY <1>1, RCMaxType DEF Account
<1>4. MaxUint \in Nat
  BY RCAssumption
<1> DEFINE credit == Regen(a.rc, a.stake, a.time, now)
           limit == RCMax(a.stake)
<1>5. Regenerated(accts, tx, now)
        = [a EXCEPT !.key = TRUE, !.rc = credit, !.rcMax = limit, !.time = now]
  BY <1>1 DEF Regenerated, Account
<1>6. credit \in Nat /\ limit \in Nat /\ credit \in 0 .. MaxUint
  BY <1>2, <1>3, <1>4
<1>7. a \in Account /\ a.nonce \in Nat
  BY <1>1 DEF Account
<1> HIDE DEF a, credit, limit
<1> DEFINE s == Regenerated(accts, tx, now)
<1>8. s = Regained(a, credit, limit, now)
  BY <1>5 DEF Regained
<1> HIDE DEF s
<1>9. now \in Int
  OBVIOUS
<1>10. /\ s \in Account /\ s.rc = credit /\ s.nonce = a.nonce
       /\ s.balance = a.balance /\ s.stake = a.stake /\ s.time = now
  <2> DEFINE r == Regained(a, credit, limit, now)
  <2>1. /\ r \in Account /\ r.rc = credit /\ r.nonce = a.nonce
        /\ r.balance = a.balance /\ r.stake = a.stake /\ r.time = now
    BY <1>6, <1>7, <1>9, CreditRegained, Z3
  <2> HIDE DEF r
  <2> QED BY <1>8, <2>1 DEF r
<1>11. Registered(s)
  BY <1>7, <1>8, KeyRegained
<1>12. credit = Regen(accts[tx.from].rc, accts[tx.from].stake,
                      accts[tx.from].time, now)
  BY DEF credit, a
<1>13. s.rc = Regen(accts[tx.from].rc, accts[tx.from].stake, accts[tx.from].time, now)
  BY <1>10, <1>12
<1>14. /\ s \in Account /\ s.rc \in 0 .. MaxUint /\ s.nonce = accts[tx.from].nonce
       /\ s.balance = accts[tx.from].balance /\ s.stake = accts[tx.from].stake
       /\ Registered(s) /\ s.time = now
  BY <1>6, <1>10, <1>11 DEF a
<1> QED BY <1>13, <1>14 DEF s

\* A transaction ends, if it does, in the settlement with its sender: over
\* accounts on which the payload has left nonces, credits and times alone.
SettlesFrom(accts, tx, sender, mid, s) ==
  /\ mid \in [Addr -> Account] /\ s \in Account
  /\ \A b \in Addr : /\ mid[b].nonce = accts[b].nonce /\ mid[b].rc = accts[b].rc
                      /\ mid[b].key = accts[b].key /\ mid[b].time = accts[b].time
                      /\ mid[b].rcMax = accts[b].rcMax
  /\ s.nonce = sender.nonce /\ s.rc = sender.rc /\ s.key = sender.key
  /\ s.time = sender.time

\* The payloads do so.
LEMMA PayloadSettles ==
  ASSUME NEW accts \in [Addr -> Account], NEW tx \in Tx, NEW sender \in Account,
         NEW cost, NEW preview, NEW out,
         \/ out \in Transfer(accts, tx, sender, cost)
         \/ out \in StakeDelegate(accts, tx, sender, cost)
         \/ out \in StakeUndelegate(accts, tx, sender, cost)
         \/ out \in Deploy(accts, tx, sender, cost, preview)
         \/ out \in Call(accts, tx, sender, cost, preview)
         \/ out \in Settle(accts, tx, sender, cost)
  PROVE  \E mid, s : /\ SettlesFrom(accts, tx, sender, mid, s)
                     /\ out \in Settle(mid, tx, s, cost)
<1>1. /\ tx.from \in Addr /\ tx.to \in Addr /\ tx.amount \in Nat
      /\ sender.balance \in Nat /\ sender.stake \in Nat
  BY DEF Tx, Account
<1>2. SettlesFrom(accts, tx, sender, accts, sender)
  BY DEF SettlesFrom
<1>3. CASE out \in Transfer(accts, tx, sender, cost)
  <2> DEFINE mid == [accts EXCEPT ![tx.to].balance = (@ + tx.amount) % U64]
             s == [sender EXCEPT !.balance = @ - tx.amount]
  <2>1. sender.balance >= tx.amount /\ out \in Settle(mid, tx, s, cost)
    BY <1>1, <1>3 DEF Transfer
  <2>2. /\ s \in Account /\ s.nonce = sender.nonce /\ s.rc = sender.rc /\ s.key = sender.key
        /\ s.time = sender.time
    BY <1>1, <2>1 DEF Account
  <2>3. accts[tx.to] \in Account /\ accts[tx.to].balance \in Nat
    BY <1>1 DEF Account
  <2>4. (accts[tx.to].balance + tx.amount) % U64 \in Nat
    BY <1>1, <2>3, WrapType
  <2>5. /\ mid \in [Addr -> Account]
        /\ \A b \in Addr : /\ mid[b].nonce = accts[b].nonce /\ mid[b].rc = accts[b].rc
                            /\ mid[b].key = accts[b].key /\ mid[b].time = accts[b].time
                            /\ mid[b].rcMax = accts[b].rcMax
    <3> DEFINE credited == [accts[tx.to] EXCEPT
                              !.balance = (accts[tx.to].balance + tx.amount) % U64]
    <3>1. /\ credited \in Account
          /\ credited.nonce = accts[tx.to].nonce /\ credited.rc = accts[tx.to].rc
          /\ credited.key = accts[tx.to].key /\ credited.time = accts[tx.to].time
          /\ credited.rcMax = accts[tx.to].rcMax
      BY <2>3, <2>4 DEF Account
    <3>2. mid = [accts EXCEPT ![tx.to] = credited]
      OBVIOUS
    <3> HIDE DEF credited, mid
    <3> QED BY <1>1, <3>1, <3>2
  <2> HIDE DEF mid, s
  <2> QED BY <2>1, <2>2, <2>5 DEF SettlesFrom
<1>4. CASE out \in StakeDelegate(accts, tx, sender, cost)
  <2> DEFINE s == [sender EXCEPT !.balance = @ - tx.amount,
                                 !.stake = (@ + tx.amount) % U64]
  <2>1. sender.balance >= tx.amount /\ out \in Settle(accts, tx, s, cost)
    BY <1>1, <1>4 DEF StakeDelegate
  <2>2. (sender.stake + tx.amount) % U64 \in Nat /\ sender.balance - tx.amount \in Nat
    BY <1>1, <2>1, WrapType
  <2> DEFINE less == sender.balance - tx.amount
             more == (sender.stake + tx.amount) % U64
  <2>3. s = Delegated(sender, less, more)
    BY DEF Delegated, Account
  <2> HIDE DEF s, less, more
  <2>4. /\ s \in Account /\ s.nonce = sender.nonce /\ s.rc = sender.rc /\ s.key = sender.key
        /\ s.time = sender.time
    <3>1. less \in Nat /\ more \in Nat
      BY <2>2 DEF less, more
    <3> QED BY <2>3, <3>1, StakeMoved
  <2> QED BY <1>2, <2>1, <2>4 DEF SettlesFrom
<1>5. CASE out \in StakeUndelegate(accts, tx, sender, cost)
  <2> DEFINE s == [sender EXCEPT !.stake = @ - tx.amount,
                                 !.balance = (@ + tx.amount) % U64]
  <2>1. sender.stake >= tx.amount /\ out \in Settle(accts, tx, s, cost)
    BY <1>1, <1>5 DEF StakeUndelegate
  <2>2. (sender.balance + tx.amount) % U64 \in Nat /\ sender.stake - tx.amount \in Nat
    BY <1>1, <2>1, WrapType
  <2> DEFINE less == sender.stake - tx.amount
             more == (sender.balance + tx.amount) % U64
  <2>3. s = Undelegated(sender, more, less)
    BY DEF Undelegated, Account
  <2> HIDE DEF s, less, more
  <2>4. /\ s \in Account /\ s.nonce = sender.nonce /\ s.rc = sender.rc /\ s.key = sender.key
        /\ s.time = sender.time
    <3>1. less \in Nat /\ more \in Nat
      BY <2>2 DEF less, more
    <3> QED BY <2>3, <3>1, StakeMoved
  <2> QED BY <1>2, <2>1, <2>4 DEF SettlesFrom
<1>6. CASE out \in Deploy(accts, tx, sender, cost, preview)
  <2> DEFINE mid == [accts EXCEPT ![tx.to].code = TRUE]
  <2>1. out \in Settle(mid, tx, sender, cost)
    BY <1>6 DEF Deploy
  <2>2. /\ mid \in [Addr -> Account]
        /\ \A b \in Addr : /\ mid[b].nonce = accts[b].nonce /\ mid[b].rc = accts[b].rc
                            /\ mid[b].key = accts[b].key /\ mid[b].time = accts[b].time
                            /\ mid[b].rcMax = accts[b].rcMax
    <3> DEFINE coded == [accts[tx.to] EXCEPT !.code = TRUE]
    <3>1. /\ coded \in Account
          /\ coded.nonce = accts[tx.to].nonce /\ coded.rc = accts[tx.to].rc
          /\ coded.key = accts[tx.to].key /\ coded.time = accts[tx.to].time
          /\ coded.rcMax = accts[tx.to].rcMax
      BY <1>1 DEF Account
    <3>2. mid = [accts EXCEPT ![tx.to] = coded]
      OBVIOUS
    <3> HIDE DEF coded, mid
    <3> QED BY <1>1, <3>1, <3>2
  <2> HIDE DEF mid
  <2> QED BY <2>1, <2>2 DEF SettlesFrom
<1>7. CASE out \in Call(accts, tx, sender, cost, preview)
  BY <1>2, <1>7 DEF Call
<1>8. CASE out \in Settle(accts, tx, sender, cost)
  BY <1>2, <1>8
<1> QED BY <1>3, <1>4, <1>5, <1>6, <1>7, <1>8

\* What a settlement does.
LEMMA SettleEffect ==
  ASSUME RatesNat, NEW mid \in [Addr -> Account], NEW tx \in Tx, NEW s \in Account,
         s.rc \in 0 .. MaxUint, NEW cost \in Nat, NEW out \in Settle(mid, tx, s, cost)
  PROVE  /\ cost <= s.rc
         /\ out \in [Addr -> Account]
         /\ out[tx.from].nonce = s.nonce + 1
         /\ out[tx.from].rc = s.rc - cost
         /\ out[tx.from].balance = s.balance /\ out[tx.from].stake = s.stake
         /\ out[tx.from].key = s.key /\ out[tx.from].time = s.time
         /\ out[tx.from].rcMax = RCMax(s.stake)
         /\ \A b \in Addr \ {tx.from} : out[b] = mid[b]
<1>1. tx.from \in Addr
  BY DEF Tx
<1>2. s.rc \in Nat /\ s.nonce \in Nat /\ RCMax(s.stake) \in Nat
  BY RCMaxType, RCAssumption DEF Account
<1> DEFINE settled == [s EXCEPT !.rc = @ - cost, !.nonce = @ + 1,
                                !.rcMax = RCMax(s.stake)]
<1>3. cost <= s.rc /\ out = [mid EXCEPT ![tx.from] = settled]
  BY <1>2 DEF Settle
<1>4. s.rc - cost \in Nat /\ s.nonce + 1 \in Nat /\ s.time \in Int
  BY <1>2, <1>3 DEF Account
<1> DEFINE left == s.rc - cost
           next == s.nonce + 1
           limit == RCMax(s.stake)
<1>5. settled = Spent(s, left, next, limit)
  BY DEF Spent, Account
<1>6. left \in Nat /\ next \in Nat /\ limit \in Nat
  BY <1>2, <1>4
<1> HIDE DEF settled, left, next, limit
<1>7. ASSUME NEW c \in Nat, NEW n \in Nat, NEW m \in Nat
      PROVE  /\ Spent(s, c, n, m) \in Account
             /\ Spent(s, c, n, m).rc = c
             /\ Spent(s, c, n, m).nonce = n
             /\ Spent(s, c, n, m).balance = s.balance
             /\ Spent(s, c, n, m).stake = s.stake
             /\ Spent(s, c, n, m).key = s.key
             /\ Spent(s, c, n, m).time = s.time
             /\ Spent(s, c, n, m).rcMax = m
  <2>1. Spent(s, c, n, m) \in Account
    BY CreditSpent
  <2>2. Spent(s, c, n, m).rc = c
    BY CreditSpent
  <2>3. Spent(s, c, n, m).nonce = n
    BY CreditSpent
  <2>4. Spent(s, c, n, m).balance = s.balance
    BY CreditSpent
  <2>5. Spent(s, c, n, m).stake = s.stake
    BY CreditSpent
  <2>6. Spent(s, c, n, m).key = s.key
    BY CreditSpent
  <2>7. Spent(s, c, n, m).time = s.time
    BY CreditSpent
  <2>8. Spent(s, c, n, m).rcMax = m
    BY CreditSpent
  <2> QED BY <2>1, <2>2, <2>3, <2>4, <2>5, <2>6, <2>7, <2>8
<1>8. /\ Spent(s, left, next, limit) \in Account
      /\ Spent(s, left, next, limit).nonce = next
      /\ Spent(s, left, next, limit).rc = left
      /\ Spent(s, left, next, limit).balance = s.balance
      /\ Spent(s, left, next, limit).stake = s.stake
      /\ Spent(s, left, next, limit).key = s.key
      /\ Spent(s, left, next, limit).time = s.time
      /\ Spent(s, left, next, limit).rcMax = limit
  BY ONLY <1>6, <1>7
<1>9. /\ settled \in Account
      /\ settled.nonce = next /\ settled.rc = left
      /\ settled.balance = s.balance /\ settled.stake = s.stake
      /\ settled.key = s.key /\ settled.time = s.time
      /\ settled.rcMax = limit
  BY ONLY <1>5, <1>8
<1> QED BY <1>1, <1>3, <1>9 DEF left, next, limit

\* A transaction that does not fail uses its sender's nonce, charges the
\* regenerated credit, registers the key, and leaves the other accounts' nonces,
\* credits, times and keys alone.
LEMMA ExecuteEffect ==
  ASSUME RatesNat, NEW accts \in [Addr -> Account], NEW tx \in Tx, NEW now \in Int,
         NEW preview, NEW engine, NEW out \in Execute(accts, tx, now, preview, engine)
  PROVE  /\ out \in [Addr -> Account]
         /\ accts[tx.from].nonce = tx.nonce
         /\ out[tx.from].nonce = tx.nonce + 1
         /\ out[tx.from].rc \in 0 .. MaxUint
         /\ out[tx.from].rc = Regenerated(accts, tx, now).rc - LedgerCost(tx, engine)
         /\ Registered(out[tx.from])
         /\ out[tx.from].time = now
         /\ out[tx.from].rcMax <= MaxUint
         /\ \A b \in Addr \ {tx.from} :
              /\ out[b].nonce = accts[b].nonce /\ out[b].rc = accts[b].rc
              /\ out[b].key = accts[b].key /\ out[b].time = accts[b].time
              /\ out[b].rcMax = accts[b].rcMax
<1> DEFINE sender == Regenerated(accts, tx, now)
           cost == LedgerCost(tx, engine)
<1>1. /\ sender \in Account /\ sender.rc \in 0 .. MaxUint
      /\ sender.nonce = accts[tx.from].nonce /\ Registered(sender)
      /\ sender.time = now
  BY RegeneratedType
<1>2. cost \in 0 .. MaxUint /\ MaxUint \in Nat
  BY LedgerCostType, RCAssumption
<1>3. Admissible(accts, tx)
  BY DEF Execute
<1>4. tx.kind \in Kind
  BY DEF Tx
<1>5. \/ out \in Transfer(accts, tx, sender, cost)
      \/ out \in StakeDelegate(accts, tx, sender, cost)
      \/ out \in StakeUndelegate(accts, tx, sender, cost)
      \/ out \in Deploy(accts, tx, sender, cost, preview)
      \/ out \in Call(accts, tx, sender, cost, preview)
      \/ out \in Settle(accts, tx, sender, cost)
  <2> HIDE DEF sender, cost
  <2> QED BY <1>3, <1>4 DEF Execute, Kind, sender, cost
<1> HIDE DEF sender, cost
<1>6. PICK mid, s : /\ SettlesFrom(accts, tx, sender, mid, s)
                    /\ out \in Settle(mid, tx, s, cost)
  BY <1>1, <1>5, PayloadSettles
<1>7. /\ mid \in [Addr -> Account] /\ s \in Account
      /\ s.rc \in 0 .. MaxUint /\ s.nonce = accts[tx.from].nonce
      /\ s.rc = sender.rc /\ Registered(s) /\ s.time = now
      /\ \A b \in Addr : /\ mid[b].nonce = accts[b].nonce /\ mid[b].rc = accts[b].rc
                          /\ mid[b].key = accts[b].key /\ mid[b].time = accts[b].time
                          /\ mid[b].rcMax = accts[b].rcMax
  BY <1>1, <1>6 DEF SettlesFrom, Registered
<1>8. cost \in Nat
  BY <1>2
<1>9. /\ cost <= s.rc
      /\ out \in [Addr -> Account]
      /\ out[tx.from].nonce = s.nonce + 1
      /\ out[tx.from].rc = s.rc - cost
      /\ Registered(out[tx.from]) /\ out[tx.from].time = now
      /\ out[tx.from].rcMax = RCMax(s.stake)
      /\ \A b \in Addr \ {tx.from} : out[b] = mid[b]
  BY <1>6, <1>7, <1>8, SettleEffect DEF Registered
<1>10. accts[tx.from].nonce = tx.nonce
  BY <1>3 DEF Admissible
<1>11. RCMax(s.stake) \in 0 .. MaxUint
  BY <1>7, RCMaxType DEF Account
<1> QED BY <1>2, <1>7, <1>8, <1>9, <1>10, <1>11 DEF sender, cost

\* The outcome is determined by what the transaction finds.
LEMMA SettleDeterministic ==
  ASSUME NEW accts, NEW tx, NEW s, NEW cost,
         NEW x \in Settle(accts, tx, s, cost), NEW y \in Settle(accts, tx, s, cost)
  PROVE  x = y
BY DEF Settle

\* A transaction that is executed has one outcome.
LEMMA ExecuteDeterministic ==
  ASSUME NEW accts, NEW tx \in Tx, NEW now, NEW preview, NEW engine,
         NEW x \in Execute(accts, tx, now, preview, engine),
         NEW y \in Execute(accts, tx, now, preview, engine)
  PROVE  x = y
<1> DEFINE sender == Regenerated(accts, tx, now)
           cost == LedgerCost(tx, engine)
<1>1. tx.kind \in Kind
  BY DEF Tx
<1>2. Admissible(accts, tx)
  BY DEF Execute
<1>3. \E mid, s : x \in Settle(mid, tx, s, cost) /\ y \in Settle(mid, tx, s, cost)
  <2>1. CASE tx.kind = "transfer"
    <3>1. x \in Transfer(accts, tx, sender, cost) /\ y \in Transfer(accts, tx, sender, cost)
      BY <1>2, <2>1 DEF Execute
    <3> HIDE DEF sender, cost
    <3> QED BY <3>1 DEF Transfer
  <2>2. CASE tx.kind = "delegate"
    <3>1. /\ x \in StakeDelegate(accts, tx, sender, cost)
          /\ y \in StakeDelegate(accts, tx, sender, cost)
      BY <1>2, <2>2 DEF Execute
    <3> HIDE DEF sender, cost
    <3> QED BY <3>1 DEF StakeDelegate
  <2>3. CASE tx.kind = "undelegate"
    <3>1. /\ x \in StakeUndelegate(accts, tx, sender, cost)
          /\ y \in StakeUndelegate(accts, tx, sender, cost)
      BY <1>2, <2>3 DEF Execute
    <3> HIDE DEF sender, cost
    <3> QED BY <3>1 DEF StakeUndelegate
  <2>4. CASE tx.kind = "deploy"
    <3>1. /\ x \in Deploy(accts, tx, sender, cost, preview)
          /\ y \in Deploy(accts, tx, sender, cost, preview)
      BY <1>2, <2>4 DEF Execute
    <3> HIDE DEF sender, cost
    <3> QED BY <3>1 DEF Deploy
  <2>5. CASE tx.kind = "call"
    <3>1. /\ x \in Call(accts, tx, sender, cost, preview)
          /\ y \in Call(accts, tx, sender, cost, preview)
      BY <1>2, <2>5 DEF Execute
    <3> HIDE DEF sender, cost
    <3> QED BY <3>1 DEF Call
  <2>6. CASE tx.kind = "governance"
    <3>1. x \in Settle(accts, tx, sender, cost) /\ y \in Settle(accts, tx, sender, cost)
      BY <1>2, <2>6 DEF Execute
    <3> HIDE DEF sender, cost
    <3> QED BY <3>1
  <2> QED BY <1>1, <2>1, <2>2, <2>3, <2>4, <2>5, <2>6 DEF Kind
<1> HIDE DEF cost
<1> QED BY <1>3, SettleDeterministic

Contractual == {"deploy", "call"}

\* The preview and the real pass agree about every transaction but those of the
\* contract engine, whatever contracts either knows.
LEMMA PreviewAgrees ==
  ASSUME NEW accts, NEW tx \in Tx, NEW now, NEW engine, tx.kind \notin Contractual
  PROVE  /\ Execute(accts, tx, now, TRUE, engine) = Execute(accts, tx, now, FALSE, {})
         /\ Execute(accts, tx, now, FALSE, engine) = Execute(accts, tx, now, FALSE, {})
<1>1. tx.kind \in {"transfer", "delegate", "undelegate", "governance"}
  BY DEF Tx, Kind, Contractual
<1>2. LedgerCost(tx, engine) = LedgerCost(tx, {})
  BY <1>1 DEF LedgerCost
<1> QED BY <1>1, <1>2 DEF Execute

\* And a real pass has one outcome.
LEMMA RealDeterministic ==
  ASSUME NEW accts, NEW tx \in Tx, NEW now,
         NEW x \in Execute(accts, tx, now, FALSE, {}),
         NEW y \in Execute(accts, tx, now, FALSE, {})
  PROVE  x = y
<1>1. PICK p, e : p = FALSE /\ e = {}
  OBVIOUS
<1>2. x \in Execute(accts, tx, now, p, e) /\ y \in Execute(accts, tx, now, p, e)
  BY <1>1
<1> QED BY <1>2, ExecuteDeterministic

\* In the real pass these always fail.
LEMMA ContractsFail ==
  ASSUME NEW accts, NEW tx, NEW now, NEW engine, tx.kind \in Contractual
  PROVE  Execute(accts, tx, now, FALSE, engine) = {}
BY DEF Execute, Contractual, Deploy, Call

-----------------------------------------------------------------------------
(* The tokens a transaction moves.                                           *)

\* A settlement writes the sender's tokens back and touches no others.
Funds(a, b) == a.balance = b.balance /\ a.stake = b.stake

\* A transfer takes the amount from the sender; a receiver other than the sender
\* gets it.
LEMMA TransferMoves ==
  ASSUME RatesNat, NEW accts \in [Addr -> Account], NEW tx \in Tx,
         NEW sender \in Account, sender.rc \in 0 .. MaxUint,
         Funds(sender, accts[tx.from]), NEW cost \in Nat,
         NEW out \in Transfer(accts, tx, sender, cost)
  PROVE  /\ tx.amount <= accts[tx.from].balance
         /\ out[tx.from].balance = accts[tx.from].balance - tx.amount
         /\ out[tx.from].stake = accts[tx.from].stake
         /\ tx.to # tx.from =>
              /\ out[tx.to].balance = (accts[tx.to].balance + tx.amount) % U64
              /\ out[tx.to].stake = accts[tx.to].stake
         /\ \A b \in Addr \ {tx.from, tx.to} : Funds(out[b], accts[b])
<1>1. tx.from \in Addr /\ tx.to \in Addr /\ tx.amount \in Nat
  BY DEF Tx
<1> DEFINE more == (accts[tx.to].balance + tx.amount) % U64
           credited == [accts[tx.to] EXCEPT !.balance = more]
           mid == [accts EXCEPT ![tx.to].balance = (@ + tx.amount) % U64]
           s == [sender EXCEPT !.balance = @ - tx.amount]
<1>2. sender.balance >= tx.amount /\ out \in Settle(mid, tx, s, cost)
  BY <1>1 DEF Transfer, Account
<1>3. /\ s \in Account /\ s.rc = sender.rc /\ s.stake = sender.stake
      /\ s.balance = sender.balance - tx.amount
  BY <1>1, <1>2 DEF Account
<1>4. accts[tx.to] \in Account /\ accts[tx.to].balance \in Nat
  BY <1>1 DEF Account
<1>5. more \in Nat
  BY <1>1, <1>4, WrapType
<1> HIDE DEF more
<1>6. /\ credited \in Account /\ credited.balance = more
      /\ credited.stake = accts[tx.to].stake
  BY <1>4, <1>5 DEF Account
<1>7. mid = [accts EXCEPT ![tx.to] = credited]
  BY DEF more
<1> HIDE DEF credited, mid, s
<1>8. /\ mid \in [Addr -> Account] /\ mid[tx.to] = credited
      /\ \A b \in Addr \ {tx.to} : mid[b] = accts[b]
  BY <1>1, <1>6, <1>7
<1>9. /\ out[tx.from].balance = s.balance /\ out[tx.from].stake = s.stake
      /\ \A b \in Addr \ {tx.from} : out[b] = mid[b]
  BY <1>2, <1>3, <1>8, SettleEffect
<1>10. tx.to # tx.from => out[tx.to] = credited
  BY <1>1, <1>8, <1>9
<1>11. \A b \in Addr \ {tx.from, tx.to} : out[b] = accts[b]
  BY <1>8, <1>9
<1> QED BY <1>2, <1>3, <1>6, <1>9, <1>10, <1>11 DEF Funds, more

\* Staking moves the amount within the sender's account.
LEMMA StakeDelegateMoves ==
  ASSUME RatesNat, NEW accts \in [Addr -> Account], NEW tx \in Tx,
         NEW sender \in Account, sender.rc \in 0 .. MaxUint,
         Funds(sender, accts[tx.from]), NEW cost \in Nat,
         NEW out \in StakeDelegate(accts, tx, sender, cost)
  PROVE  /\ tx.amount <= accts[tx.from].balance
         /\ out[tx.from].balance = accts[tx.from].balance - tx.amount
         /\ out[tx.from].stake = (accts[tx.from].stake + tx.amount) % U64
         /\ \A b \in Addr \ {tx.from} : Funds(out[b], accts[b])
<1>1. tx.from \in Addr /\ tx.amount \in Nat /\ sender.balance \in Nat
      /\ sender.stake \in Nat
  BY DEF Tx, Account
<1> DEFINE s == [sender EXCEPT !.balance = @ - tx.amount,
                               !.stake = (@ + tx.amount) % U64]
           less == sender.balance - tx.amount
           more == (sender.stake + tx.amount) % U64
           paid == [sender EXCEPT !.balance = less]
<1>2. sender.balance >= tx.amount /\ out \in Settle(accts, tx, s, cost)
  BY <1>1 DEF StakeDelegate
<1>3. less \in Nat /\ more \in Nat
  BY <1>1, <1>2, WrapType
<1>4. s = [paid EXCEPT !.stake = more]
  BY DEF Account
<1> HIDE DEF less, more, s
<1>5. /\ paid \in Account /\ paid.balance = less /\ paid.rc = sender.rc
  BY <1>3 DEF Account
<1> HIDE DEF paid
<1>6. /\ s \in Account /\ s.balance = less /\ s.stake = more /\ s.rc = sender.rc
  BY <1>3, <1>4, <1>5 DEF Account
<1>7. /\ out[tx.from].balance = s.balance /\ out[tx.from].stake = s.stake
      /\ \A b \in Addr \ {tx.from} : out[b] = accts[b]
  BY <1>2, <1>6, SettleEffect
<1> QED BY <1>2, <1>6, <1>7 DEF Funds, less, more

\* A withdrawal moves its amount from the stake to the balance.
LEMMA StakeUndelegateMoves ==
  ASSUME RatesNat, NEW accts \in [Addr -> Account], NEW tx \in Tx,
         NEW sender \in Account, sender.rc \in 0 .. MaxUint,
         Funds(sender, accts[tx.from]), NEW cost \in Nat,
         NEW out \in StakeUndelegate(accts, tx, sender, cost)
  PROVE  /\ tx.amount <= accts[tx.from].stake
         /\ out[tx.from].stake = accts[tx.from].stake - tx.amount
         /\ out[tx.from].balance = (accts[tx.from].balance + tx.amount) % U64
         /\ \A b \in Addr \ {tx.from} : Funds(out[b], accts[b])
<1>1. tx.from \in Addr /\ tx.amount \in Nat /\ sender.balance \in Nat
      /\ sender.stake \in Nat
  BY DEF Tx, Account
<1> DEFINE s == [sender EXCEPT !.stake = @ - tx.amount,
                               !.balance = (@ + tx.amount) % U64]
           less == sender.stake - tx.amount
           more == (sender.balance + tx.amount) % U64
           freed == [sender EXCEPT !.stake = less]
<1>2. sender.stake >= tx.amount /\ out \in Settle(accts, tx, s, cost)
  BY <1>1 DEF StakeUndelegate
<1>3. less \in Nat /\ more \in Nat
  BY <1>1, <1>2, WrapType
<1>4. s = [freed EXCEPT !.balance = more]
  BY DEF Account
<1> HIDE DEF less, more, s
<1>5. /\ freed \in Account /\ freed.stake = less /\ freed.rc = sender.rc
  BY <1>3 DEF Account
<1> HIDE DEF freed
<1>6. /\ s \in Account /\ s.balance = more /\ s.stake = less /\ s.rc = sender.rc
  BY <1>3, <1>4, <1>5 DEF Account
<1>7. /\ out[tx.from].balance = s.balance /\ out[tx.from].stake = s.stake
      /\ \A b \in Addr \ {tx.from} : out[b] = accts[b]
  BY <1>2, <1>6, SettleEffect
<1> QED BY <1>2, <1>6, <1>7 DEF Funds, less, more

\* A deployment stores code, everything else that settles moves nothing.
LEMMA SettleMoves ==
  ASSUME RatesNat, NEW accts \in [Addr -> Account], NEW tx \in Tx,
         NEW sender \in Account, sender.rc \in 0 .. MaxUint,
         Funds(sender, accts[tx.from]), NEW cost \in Nat, NEW preview, NEW out,
         \/ out \in Settle(accts, tx, sender, cost)
         \/ out \in Deploy(accts, tx, sender, cost, preview)
         \/ out \in Call(accts, tx, sender, cost, preview)
  PROVE  \A b \in Addr : Funds(out[b], accts[b])
<1>1. tx.from \in Addr /\ tx.to \in Addr
  BY DEF Tx
<1>2. PICK mid \in [Addr -> Account] :
        /\ out \in Settle(mid, tx, sender, cost)
        /\ \A b \in Addr : Funds(mid[b], accts[b])
  <2>1. CASE out \in Deploy(accts, tx, sender, cost, preview)
    <3> DEFINE coded == [accts[tx.to] EXCEPT !.code = TRUE]
               mid == [accts EXCEPT ![tx.to].code = TRUE]
    <3>1. out \in Settle(mid, tx, sender, cost)
      BY <2>1 DEF Deploy
    <3>2. coded \in Account /\ Funds(coded, accts[tx.to])
      BY <1>1 DEF Account, Funds
    <3>3. mid = [accts EXCEPT ![tx.to] = coded]
      OBVIOUS
    <3> HIDE DEF coded, mid
    <3>4. mid \in [Addr -> Account]
      BY <1>1, <3>2, <3>3
    <3>5. \A b \in Addr : (mid[b] = coded /\ b = tx.to) \/ mid[b] = accts[b]
      BY <1>1, <3>3
    <3>6. \A b \in Addr : Funds(mid[b], accts[b])
      BY <3>2, <3>5 DEF Funds
    <3> QED BY <3>1, <3>4, <3>6
  <2>2. CASE out \in Settle(accts, tx, sender, cost)
    BY <2>2 DEF Funds
  <2>3. CASE out \in Call(accts, tx, sender, cost, preview)
    BY <2>3 DEF Call, Funds
  <2> QED BY <2>1, <2>2, <2>3
<1>3. /\ out[tx.from].balance = sender.balance /\ out[tx.from].stake = sender.stake
      /\ \A b \in Addr \ {tx.from} : out[b] = mid[b]
  BY <1>2, SettleEffect
<1> QED BY <1>2, <1>3 DEF Funds

\* What an account holds.
Worth(a) == a.balance + a.stake

\* The worth of an account is a natural number.
LEMMA WorthType == \A a \in Account : Worth(a) \in Nat
BY DEF Worth, Account

\* A sum that fits the width does not wrap.
LEMMA SmallSum == \A m, n \in Nat : m + n < U64 => (m + n) % U64 = m + n
<1>1. U64 \in Nat \ {0}
  BY TransactionsAssumption
<1>2. \A x \in Nat : x < U64 => x % U64 = x
  BY <1>1
<1> QED BY <1>2

\* If nothing wraps, a transfer moves the amount from the sender to the receiver,
\* or destroys it when they are the same account, and nothing else changes what
\* any account holds.
LEMMA ExecuteWorth ==
  ASSUME RatesNat, NEW accts \in [Addr -> Account], NEW tx \in Tx, NEW now \in Int,
         NEW preview, NEW engine, NEW out \in Execute(accts, tx, now, preview, engine),
         \A a \in Addr : Worth(accts[a]) < U64,
         tx.to # tx.from => Worth(accts[tx.from]) + Worth(accts[tx.to]) < U64
  PROVE  /\ tx.kind # "transfer" => \A b \in Addr : Worth(out[b]) = Worth(accts[b])
         /\ tx.kind = "transfer" =>
              /\ Worth(out[tx.from]) = Worth(accts[tx.from]) - tx.amount
              /\ tx.to # tx.from => Worth(out[tx.to]) = Worth(accts[tx.to]) + tx.amount
              /\ \A b \in Addr \ {tx.from, tx.to} : Worth(out[b]) = Worth(accts[b])
<1> DEFINE sender == Regenerated(accts, tx, now)
           cost == LedgerCost(tx, engine)
<1>1. /\ sender \in Account /\ sender.rc \in 0 .. MaxUint
      /\ Funds(sender, accts[tx.from])
  BY RegeneratedType DEF Funds
<1>2. cost \in Nat
  BY LedgerCostType, RCAssumption
<1>3. Admissible(accts, tx) /\ tx.kind \in Kind
  BY DEF Execute, Tx
<1>4. /\ tx.from \in Addr /\ tx.to \in Addr /\ tx.amount \in Nat
      /\ accts[tx.from] \in Account /\ accts[tx.to] \in Account
  BY DEF Tx
<1>5. /\ accts[tx.from].balance \in Nat /\ accts[tx.from].stake \in Nat
      /\ accts[tx.to].balance \in Nat /\ accts[tx.to].stake \in Nat
  BY <1>4 DEF Account
<1>6. Worth(accts[tx.from]) < U64 /\ U64 \in Nat
  BY <1>4, TransactionsAssumption
<1>7. CASE tx.kind = "transfer"
  <2>1. out \in Transfer(accts, tx, sender, cost)
    BY <1>3, <1>7 DEF Execute
  <2> HIDE DEF sender, cost
  <2>2. /\ tx.amount <= accts[tx.from].balance
        /\ out[tx.from].balance = accts[tx.from].balance - tx.amount
        /\ out[tx.from].stake = accts[tx.from].stake
        /\ tx.to # tx.from =>
             /\ out[tx.to].balance = (accts[tx.to].balance + tx.amount) % U64
             /\ out[tx.to].stake = accts[tx.to].stake
        /\ \A b \in Addr \ {tx.from, tx.to} : Funds(out[b], accts[b])
    BY <1>1, <1>2, <2>1, TransferMoves
  <2>3. Worth(out[tx.from]) = Worth(accts[tx.from]) - tx.amount
    BY <1>4, <1>5, <2>2 DEF Worth
  <2>4. ASSUME tx.to # tx.from
        PROVE  Worth(out[tx.to]) = Worth(accts[tx.to]) + tx.amount
    <3>1. accts[tx.to].balance + tx.amount < U64
      BY <1>4, <1>5, <1>6, <2>2, <2>4 DEF Worth
    <3>2. (accts[tx.to].balance + tx.amount) % U64 = accts[tx.to].balance + tx.amount
      BY <1>4, <1>5, <3>1, SmallSum
    <3> QED BY <1>4, <1>5, <2>2, <2>4, <3>2 DEF Worth
  <2>5. \A b \in Addr \ {tx.from, tx.to} : Worth(out[b]) = Worth(accts[b])
    BY <2>2 DEF Funds, Worth
  <2> QED BY <1>7, <2>3, <2>4, <2>5
<1>8. ASSUME \A b \in Addr : Funds(out[b], accts[b])
      PROVE  \A b \in Addr : Worth(out[b]) = Worth(accts[b])
  BY <1>8 DEF Funds, Worth
<1>9. CASE tx.kind = "delegate"
  <2>1. out \in StakeDelegate(accts, tx, sender, cost)
    BY <1>3, <1>9 DEF Execute
  <2> HIDE DEF sender, cost
  <2>2. /\ tx.amount <= accts[tx.from].balance
        /\ out[tx.from].balance = accts[tx.from].balance - tx.amount
        /\ out[tx.from].stake = (accts[tx.from].stake + tx.amount) % U64
        /\ \A b \in Addr \ {tx.from} : Funds(out[b], accts[b])
    BY <1>1, <1>2, <2>1, StakeDelegateMoves
  <2>3. accts[tx.from].stake + tx.amount < U64
    BY <1>4, <1>5, <1>6, <2>2 DEF Worth
  <2>4. (accts[tx.from].stake + tx.amount) % U64 = accts[tx.from].stake + tx.amount
    BY <1>4, <1>5, <2>3, SmallSum
  <2>5. Worth(out[tx.from]) = Worth(accts[tx.from])
    BY <1>4, <1>5, <2>2, <2>4 DEF Worth
  <2>6. \A b \in Addr \ {tx.from} : Worth(out[b]) = Worth(accts[b])
    BY <2>2 DEF Funds, Worth
  <2>7. \A b \in Addr : Worth(out[b]) = Worth(accts[b])
    BY <2>5, <2>6
  <2> QED BY <1>9, <2>7
<1>10. CASE tx.kind = "undelegate"
  <2>1. out \in StakeUndelegate(accts, tx, sender, cost)
    BY <1>3, <1>10 DEF Execute
  <2> HIDE DEF sender, cost
  <2>2. /\ tx.amount <= accts[tx.from].stake
        /\ out[tx.from].stake = accts[tx.from].stake - tx.amount
        /\ out[tx.from].balance = (accts[tx.from].balance + tx.amount) % U64
        /\ \A b \in Addr \ {tx.from} : Funds(out[b], accts[b])
    BY <1>1, <1>2, <2>1, StakeUndelegateMoves
  <2>3. accts[tx.from].balance + tx.amount < U64
    BY <1>4, <1>5, <1>6, <2>2 DEF Worth
  <2>4. (accts[tx.from].balance + tx.amount) % U64 = accts[tx.from].balance + tx.amount
    BY <1>4, <1>5, <2>3, SmallSum
  <2>5. Worth(out[tx.from]) = Worth(accts[tx.from])
    BY <1>4, <1>5, <2>2, <2>4 DEF Worth
  <2>6. \A b \in Addr \ {tx.from} : Worth(out[b]) = Worth(accts[b])
    BY <2>2 DEF Funds, Worth
  <2>7. \A b \in Addr : Worth(out[b]) = Worth(accts[b])
    BY <2>5, <2>6
  <2> QED BY <1>10, <2>7
<1>11. CASE tx.kind \in {"deploy", "call", "governance"}
  <2>1. \/ out \in Settle(accts, tx, sender, cost)
        \/ out \in Deploy(accts, tx, sender, cost, preview)
        \/ out \in Call(accts, tx, sender, cost, preview)
    BY <1>3, <1>11 DEF Execute
  <2> HIDE DEF sender, cost
  <2>2. \A b \in Addr : Funds(out[b], accts[b])
    BY <1>1, <1>2, <2>1, SettleMoves
  <2> QED BY <1>8, <1>11, <2>2
<1> QED BY <1>3, <1>7, <1>9, <1>10, <1>11 DEF Kind

\* What a transaction adds to its sender's stake, at most.
Delegation(tx) == IF tx.kind = "delegate" THEN tx.amount ELSE 0

\* The stake of an account grows by what it delegates, at most, and no other
\* account's stake changes.
LEMMA ExecuteStake ==
  ASSUME RatesNat, NEW accts \in [Addr -> Account], NEW tx \in Tx, NEW now \in Int,
         NEW preview, NEW engine, NEW out \in Execute(accts, tx, now, preview, engine)
  PROVE  /\ out[tx.from].stake <= accts[tx.from].stake + Delegation(tx)
         /\ \A b \in Addr \ {tx.from} : out[b].stake = accts[b].stake
<1> DEFINE sender == Regenerated(accts, tx, now)
           cost == LedgerCost(tx, engine)
<1>1. /\ sender \in Account /\ sender.rc \in 0 .. MaxUint
      /\ Funds(sender, accts[tx.from])
  BY RegeneratedType DEF Funds
<1>2. cost \in Nat
  BY LedgerCostType, RCAssumption
<1>3. Admissible(accts, tx) /\ tx.kind \in Kind
  BY DEF Execute, Tx
<1>4. /\ tx.from \in Addr /\ tx.to \in Addr /\ tx.amount \in Nat
      /\ accts[tx.from] \in Account
  BY DEF Tx
<1>5. accts[tx.from].stake \in Nat
  BY <1>4 DEF Account
<1>6. CASE tx.kind = "transfer"
  <2>1. out \in Transfer(accts, tx, sender, cost)
    BY <1>3, <1>6 DEF Execute
  <2> HIDE DEF sender, cost
  <2>2. /\ out[tx.from].stake = accts[tx.from].stake
        /\ tx.to # tx.from => out[tx.to].stake = accts[tx.to].stake
        /\ \A b \in Addr \ {tx.from, tx.to} : Funds(out[b], accts[b])
    BY <1>1, <1>2, <2>1, TransferMoves
  <2> QED BY <1>5, <1>6, <2>2 DEF Funds, Delegation
<1>7. CASE tx.kind = "delegate"
  <2>1. out \in StakeDelegate(accts, tx, sender, cost)
    BY <1>3, <1>7 DEF Execute
  <2> HIDE DEF sender, cost
  <2>2. /\ out[tx.from].stake = (accts[tx.from].stake + tx.amount) % U64
        /\ \A b \in Addr \ {tx.from} : Funds(out[b], accts[b])
    BY <1>1, <1>2, <2>1, StakeDelegateMoves
  <2>3. out[tx.from].stake <= accts[tx.from].stake + tx.amount
    <3>1. \A x \in Nat : x % U64 <= x
      BY TransactionsAssumption
    <3>2. accts[tx.from].stake + tx.amount \in Nat
      BY <1>4, <1>5
    <3> QED BY <2>2, <3>1, <3>2
  <2> QED BY <1>7, <2>2, <2>3 DEF Funds, Delegation
<1>8. CASE tx.kind = "undelegate"
  <2>1. out \in StakeUndelegate(accts, tx, sender, cost)
    BY <1>3, <1>8 DEF Execute
  <2> HIDE DEF sender, cost
  <2>2. /\ out[tx.from].stake = accts[tx.from].stake - tx.amount
        /\ \A b \in Addr \ {tx.from} : Funds(out[b], accts[b])
    BY <1>1, <1>2, <2>1, StakeUndelegateMoves
  <2> QED BY <1>4, <1>5, <1>8, <2>2 DEF Funds, Delegation
<1>9. CASE tx.kind \in {"deploy", "call", "governance"}
  <2>1. \/ out \in Settle(accts, tx, sender, cost)
        \/ out \in Deploy(accts, tx, sender, cost, preview)
        \/ out \in Call(accts, tx, sender, cost, preview)
    BY <1>3, <1>9 DEF Execute
  <2> HIDE DEF sender, cost
  <2>2. \A b \in Addr : Funds(out[b], accts[b])
    BY <1>1, <1>2, <2>1, SettleMoves
  <2> QED BY <1>4, <1>5, <1>9, <2>2 DEF Funds, Delegation
<1> QED BY <1>3, <1>6, <1>7, <1>8, <1>9 DEF Kind

\* A wrapped sum is in the machine word.
LEMMA WrapBelow == \A m, n \in Nat : (m + n) % U64 < U64
<1>1. U64 \in Nat \ {0}
  BY TransactionsAssumption
<1> QED BY <1>1

\* A transaction keeps every amount in the machine word.
LEMMA ExecuteWords ==
  ASSUME RatesNat, NEW accts \in [Addr -> Account], InWords(accts), NEW tx \in Tx,
         NEW now \in Int, NEW preview, NEW engine,
         NEW out \in Execute(accts, tx, now, preview, engine)
  PROVE  InWords(out)
<1> DEFINE sender == Regenerated(accts, tx, now)
           cost == LedgerCost(tx, engine)
           Low(a) == a.balance < U64 /\ a.stake < U64
<1>1. /\ sender \in Account /\ sender.rc \in 0 .. MaxUint
      /\ Funds(sender, accts[tx.from])
  BY RegeneratedType DEF Funds
<1>2. cost \in Nat
  BY LedgerCostType, RCAssumption
<1>3. Admissible(accts, tx) /\ tx.kind \in Kind
  BY DEF Execute, Tx
<1>4. /\ tx.from \in Addr /\ tx.to \in Addr /\ tx.amount \in Nat
      /\ accts[tx.from] \in Account /\ accts[tx.to] \in Account
  BY DEF Tx
<1>5. /\ accts[tx.from].balance \in Nat /\ accts[tx.from].stake \in Nat
      /\ accts[tx.to].balance \in Nat
      /\ U64 \in Nat
  BY <1>4, TransactionsAssumption DEF Account
<1>6. /\ \A b \in Addr : Low(accts[b])
      /\ \A b \in Addr : accts[b].rc <= MaxUint /\ accts[b].rcMax <= MaxUint
  BY DEF InWords, InWord
<1>7. \A b \in Addr : Funds(out[b], accts[b]) => Low(out[b])
  BY <1>6 DEF Funds
<1>8. ASSUME tx.kind = "transfer" PROVE \A b \in Addr : Low(out[b])
  <2>1. out \in Transfer(accts, tx, sender, cost)
    BY <1>3, <1>8 DEF Execute
  <2> HIDE DEF sender, cost
  <2>2. /\ tx.amount <= accts[tx.from].balance
        /\ out[tx.from].balance = accts[tx.from].balance - tx.amount
        /\ out[tx.from].stake = accts[tx.from].stake
        /\ tx.to # tx.from =>
             /\ out[tx.to].balance = (accts[tx.to].balance + tx.amount) % U64
             /\ out[tx.to].stake = accts[tx.to].stake
        /\ \A b \in Addr \ {tx.from, tx.to} : Funds(out[b], accts[b])
    BY <1>1, <1>2, <2>1, TransferMoves
  <2>3. Low(out[tx.from])
    BY <1>4, <1>5, <1>6, <2>2
  <2>4. (accts[tx.to].balance + tx.amount) % U64 < U64
    BY <1>4, <1>5, WrapBelow
  <2>5. tx.to # tx.from => Low(out[tx.to])
    BY <1>4, <1>6, <2>2, <2>4
  <2> QED BY <1>7, <2>2, <2>3, <2>5
<1>9. ASSUME tx.kind = "delegate" PROVE \A b \in Addr : Low(out[b])
  <2>1. out \in StakeDelegate(accts, tx, sender, cost)
    BY <1>3, <1>9 DEF Execute
  <2> HIDE DEF sender, cost
  <2>2. /\ tx.amount <= accts[tx.from].balance
        /\ out[tx.from].balance = accts[tx.from].balance - tx.amount
        /\ out[tx.from].stake = (accts[tx.from].stake + tx.amount) % U64
        /\ \A b \in Addr \ {tx.from} : Funds(out[b], accts[b])
    BY <1>1, <1>2, <2>1, StakeDelegateMoves
  <2>3. (accts[tx.from].stake + tx.amount) % U64 < U64
    BY <1>4, <1>5, WrapBelow
  <2>4. Low(out[tx.from])
    BY <1>4, <1>5, <1>6, <2>2, <2>3
  <2> QED BY <1>7, <2>2, <2>4
<1>10. ASSUME tx.kind = "undelegate" PROVE \A b \in Addr : Low(out[b])
  <2>1. out \in StakeUndelegate(accts, tx, sender, cost)
    BY <1>3, <1>10 DEF Execute
  <2> HIDE DEF sender, cost
  <2>2. /\ tx.amount <= accts[tx.from].stake
        /\ out[tx.from].stake = accts[tx.from].stake - tx.amount
        /\ out[tx.from].balance = (accts[tx.from].balance + tx.amount) % U64
        /\ \A b \in Addr \ {tx.from} : Funds(out[b], accts[b])
    BY <1>1, <1>2, <2>1, StakeUndelegateMoves
  <2>3. (accts[tx.from].balance + tx.amount) % U64 < U64
    BY <1>4, <1>5, WrapBelow
  <2>4. Low(out[tx.from])
    BY <1>4, <1>5, <1>6, <2>2, <2>3
  <2> QED BY <1>7, <2>2, <2>4
<1>11. ASSUME tx.kind \in {"deploy", "call", "governance"} PROVE \A b \in Addr : Low(out[b])
  <2>1. \/ out \in Settle(accts, tx, sender, cost)
        \/ out \in Deploy(accts, tx, sender, cost, preview)
        \/ out \in Call(accts, tx, sender, cost, preview)
    BY <1>3, <1>11 DEF Execute
  <2> HIDE DEF sender, cost
  <2>2. \A b \in Addr : Funds(out[b], accts[b])
    BY <1>1, <1>2, <2>1, SettleMoves
  <2> QED BY <1>7, <2>2
<1>12. \A b \in Addr : Low(out[b])
  BY <1>3, <1>8, <1>9, <1>10, <1>11 DEF Kind
<1>13. /\ out[tx.from].rc \in 0 .. MaxUint /\ out[tx.from].rcMax <= MaxUint
       /\ \A b \in Addr \ {tx.from} : /\ out[b].rc = accts[b].rc
                                       /\ out[b].rcMax = accts[b].rcMax
  BY ExecuteEffect
<1>14. \A b \in Addr : out[b].rc <= MaxUint /\ out[b].rcMax <= MaxUint
  BY <1>6, <1>13
<1> QED BY <1>12, <1>14 DEF InWords, InWord

\* The price of what the real pass executes does not depend on the engine.
LEMMA RealCost ==
  ASSUME NEW accts, NEW tx \in Tx, NEW now, NEW engine,
         NEW out \in Execute(accts, tx, now, FALSE, engine)
  PROVE  LedgerCost(tx, engine) = LedgerCost(tx, {})
<1>1. tx.kind \notin Contractual
  BY ContractsFail
<1> QED BY <1>1 DEF LedgerCost, Contractual

-----------------------------------------------------------------------------
(* A block of transactions.                                                  *)

\* f holds the accounts after each of the first n transactions.
Runs(f, n, accts, txs, now, preview, engine) ==
  /\ f \in [0 .. n -> [Addr -> Account]]
  /\ f[0] = accts
  /\ \A k \in 1 .. n : f[k] \in Execute(f[k - 1], txs[k], now, preview, engine)

\* One more transaction.
LEMMA RunsExtend ==
  ASSUME NEW n \in Nat, NEW accts, NEW txs, NEW now, NEW preview, NEW engine, NEW f,
         Runs(f, n, accts, txs, now, preview, engine),
         NEW out \in Execute(f[n], txs[n + 1], now, preview, engine),
         out \in [Addr -> Account]
  PROVE  \E g : Runs(g, n + 1, accts, txs, now, preview, engine) /\ g[n + 1] = out
<1> DEFINE g == [k \in 0 .. n + 1 |-> IF k = n + 1 THEN out ELSE f[k]]
<1>1. f \in [0 .. n -> [Addr -> Account]]
  BY DEF Runs
<1>2. /\ g \in [0 .. n + 1 -> [Addr -> Account]] /\ g[n + 1] = out
      /\ \A k \in 0 .. n : g[k] = f[k]
  <2> HIDE DEF Account
  <2> QED BY <1>1
<1> HIDE DEF g
<1>3. g[0] = accts
  BY <1>2 DEF Runs
<1>4. ASSUME NEW k \in 1 .. n + 1
      PROVE  g[k] \in Execute(g[k - 1], txs[k], now, preview, engine)
  <2>1. CASE k = n + 1
    <3>1. g[k - 1] = f[n] /\ g[k] = out
      BY <1>2, <2>1
    <3> QED BY <2>1, <3>1
  <2>2. CASE k # n + 1
    <3>1. k \in 1 .. n /\ g[k - 1] = f[k - 1] /\ g[k] = f[k]
      BY <1>2, <2>2
    <3> QED BY <3>1 DEF Runs
  <2> QED BY <2>1, <2>2
<1> QED BY <1>2, <1>3, <1>4 DEF Runs

\* The accounts that the transactions up to each position can lead to.
Reach(after, accts, txs, now, preview, engine) ==
  /\ after \in [0 .. Len(txs) -> SUBSET [Addr -> Account]]
  /\ after[0] = {accts}
  /\ \A k \in 1 .. Len(txs) :
       after[k] = UNION { Execute(a, txs[k], now, preview, engine) : a \in after[k - 1] }

\* What a block leads to is the last of these.
LEMMA ExecuteAllDefined ==
  ASSUME RatesNat, NEW accts \in [Addr -> Account], NEW txs \in Seq(Tx),
         NEW now \in Int, NEW preview, NEW engine
  PROVE  \E after : /\ Reach(after, accts, txs, now, preview, engine)
                    /\ ExecuteAll(accts, txs, now, preview, engine) = after[Len(txs)]
<1> DEFINE n == Len(txs)
           S == SUBSET [Addr -> Account]
           Out(k, X) == UNION { Execute(a, txs[k], now, preview, engine) : a \in X }
           step == [k \in 1 .. n |-> [X \in S |-> Out(k, X)]]
           Is(g) == g = [i \in 0 .. n |-> IF i = 0 THEN {accts} ELSE Out(i, g[i - 1])]
           after == CHOOSE g : Is(g)
<1>1. n \in Nat /\ \A k \in 1 .. n : txs[k] \in Tx
  OBVIOUS
<1>2. ASSUME NEW k \in 1 .. n, NEW X \in S PROVE Out(k, X) \in S
  <2> SUFFICES ASSUME NEW a \in X, NEW out \in Execute(a, txs[k], now, preview, engine)
               PROVE  out \in [Addr -> Account]
    OBVIOUS
  <2> QED BY <1>1, ExecuteEffect
<1>3. step \in [1 .. n -> [S -> S]] /\ \A k \in 1 .. n, X \in S : step[k][X] = Out(k, X)
  <2> HIDE DEF Out, S
  <2> QED BY <1>2
<1>4. {accts} \in S
  OBVIOUS
<1> HIDE DEF step, Out, n
<1> HIDE DEF S
<1>5. PICK h : Iterates(h, n, {accts}, S, step)
  BY <1>1, <1>3, <1>4, RecursionExists
<1>6. /\ h \in [0 .. n -> S] /\ h[0] = {accts}
      /\ \A k \in 1 .. n : h[k] = Out(k, h[k - 1])
  <2>1. ASSUME NEW k \in 1 .. n PROVE h[k] = Out(k, h[k - 1])
    <3>1. k - 1 \in 0 .. n
      BY <1>1
    <3>2. h[k] = step[k][h[k - 1]] /\ h[k - 1] \in S
      BY <1>5, <3>1 DEF Iterates
    <3> QED BY <1>3, <3>2
  <2> QED BY <1>5, <2>1 DEF Iterates
<1>7. Is(h)
  <2> DEFINE g == [i \in 0 .. n |-> IF i = 0 THEN {accts} ELSE Out(i, h[i - 1])]
  <2>1. DOMAIN g = DOMAIN h /\ g = [i \in DOMAIN g |-> g[i]]
    BY <1>6
  <2>2. ASSUME NEW i \in 0 .. n PROVE g[i] = h[i]
    <3>1. CASE i = 0
      BY <1>6, <3>1
    <3>2. CASE i # 0
      <4>1. i \in 1 .. n
        BY <1>1, <3>2
      <4> QED BY <1>6, <3>2, <4>1
    <3> QED BY <3>1, <3>2
  <2>3. h = g
    BY <1>6, <2>2
  <2> QED BY <2>3
<1>8. Is(after)
  <2> HIDE DEF Is
  <2> QED BY <1>7
<1>9. after[0] = {accts} /\ \A k \in 1 .. n : after[k] = Out(k, after[k - 1])
  <2> HIDE DEF after
  <2>1. 0 \in 0 .. n
    BY <1>1
  <2>2. ASSUME NEW k \in 1 .. n PROVE k \in 0 .. n /\ k # 0
    BY <1>1
  <2> QED BY <1>8, <2>1, <2>2
<1>10. ExecuteAll(accts, txs, now, preview, engine) = after[n]
  BY DEF ExecuteAll, Out, n
<1>11. DOMAIN after = 0 .. n /\ after = [i \in 0 .. n |-> after[i]]
  <2> HIDE DEF after
  <2> QED BY <1>8
<1> HIDE DEF after, Is
<1>12. \A i \in 0 .. n : after[i] \in S
  <2> DEFINE Good == { i \in 0 .. n : after[i] \in S }
  <2>1. 0 \in Good
    <3>1. after[0] \in S
      BY <1>4, <1>9
    <3> QED BY <1>1, <3>1
  <2>2. ASSUME NEW k \in 1 .. n, k - 1 \in Good PROVE k \in Good
    BY <1>1, <1>2, <1>9, <2>2
  <2>3. 0 .. n \subseteq Good
    <3> HIDE DEF Good
    <3> QED BY <1>1, <2>1, <2>2, BoundedInduction
  <2> QED BY <2>3
<1>13. after \in [0 .. n -> S]
  BY <1>11, <1>12
<1> QED BY <1>9, <1>10, <1>13 DEF Reach, S, n, Out

\* A block leads to accounts.
LEMMA ExecuteAllType ==
  ASSUME RatesNat, NEW accts \in [Addr -> Account], NEW txs \in Seq(Tx),
         NEW now \in Int, NEW preview, NEW engine
  PROVE  ExecuteAll(accts, txs, now, preview, engine) \subseteq [Addr -> Account]
<1>1. PICK after : /\ Reach(after, accts, txs, now, preview, engine)
                   /\ ExecuteAll(accts, txs, now, preview, engine) = after[Len(txs)]
  BY ExecuteAllDefined
<1>2. Len(txs) \in 0 .. Len(txs)
  OBVIOUS
<1> QED BY <1>1, <1>2 DEF Reach

\* What holds of the accounts and is kept by each of its transactions holds of
\* whatever a block leads to.
LEMMA ExecuteAllWithin ==
  ASSUME RatesNat, NEW accts \in [Addr -> Account], NEW txs \in Seq(Tx),
         NEW now \in Int, NEW preview, NEW engine,
         NEW G, accts \in G,
         \A a \in G : \A k \in 1 .. Len(txs) :
           Execute(a, txs[k], now, preview, engine) \subseteq G
  PROVE  ExecuteAll(accts, txs, now, preview, engine) \subseteq G
<1>1. PICK after : /\ Reach(after, accts, txs, now, preview, engine)
                   /\ ExecuteAll(accts, txs, now, preview, engine) = after[Len(txs)]
  BY ExecuteAllDefined
<1> DEFINE n == Len(txs)
           D == { k \in 0 .. n : after[k] \subseteq G }
<1>2. n \in Nat
  OBVIOUS
<1>3. 0 \in D
  BY <1>1, <1>2 DEF Reach
<1>4. ASSUME NEW k \in 1 .. n, k - 1 \in D PROVE k \in D
  <2>1. after[k] = UNION { Execute(a, txs[k], now, preview, engine) : a \in after[k - 1] }
    BY <1>1 DEF Reach
  <2>2. after[k - 1] \subseteq G
    BY <1>4
  <2>3. after[k] \subseteq G
    BY <2>1, <2>2
  <2> QED BY <1>2, <2>3
<1>5. n \in D
  <2> HIDE DEF D, n
  <2>1. 0 .. n \subseteq D
    BY <1>2, <1>3, <1>4, BoundedInduction
  <2> QED BY <1>2, <2>1
<1> QED BY <1>1, <1>5

\* An empty block leads to the accounts it finds.
LEMMA ExecuteAllEmpty ==
  ASSUME RatesNat, NEW accts \in [Addr -> Account], NEW now \in Int, NEW preview,
         NEW engine
  PROVE  ExecuteAll(accts, << >>, now, preview, engine) = {accts}
<1>1. PICK empty : empty = << >> /\ empty \in Seq(Tx) /\ Len(empty) = 0
  <2>1. << >> \in Seq(Tx)
    OBVIOUS
  <2>2. Len(<< >>) = 0
    OBVIOUS
  <2> QED BY <2>1, <2>2
<1>2. empty \in Seq(Tx)
  BY <1>1
<1>3. PICK after : /\ Reach(after, accts, empty, now, preview, engine)
                   /\ ExecuteAll(accts, empty, now, preview, engine) = after[Len(empty)]
  BY <1>2, ExecuteAllDefined
<1>4. ExecuteAll(accts, empty, now, preview, engine) = {accts}
  BY <1>1, <1>3 DEF Reach
<1> QED BY <1>1, <1>4

\* A block of one transaction more.
LEMMA ExecuteAllAppend ==
  ASSUME RatesNat, NEW accts \in [Addr -> Account], NEW txs \in Seq(Tx),
         NEW tx \in Tx, NEW now \in Int, NEW preview, NEW engine
  PROVE  ExecuteAll(accts, Append(txs, tx), now, preview, engine) =
           UNION { Execute(a, tx, now, preview, engine) :
                     a \in ExecuteAll(accts, txs, now, preview, engine) }
<1> DEFINE longer == Append(txs, tx)
           n == Len(txs)
<1>1. /\ longer \in Seq(Tx) /\ Len(longer) = n + 1 /\ n \in Nat
      /\ longer[n + 1] = tx /\ \A i \in 1 .. n : longer[i] = txs[i]
  OBVIOUS
<1> HIDE DEF longer
<1>2. PICK after : /\ Reach(after, accts, txs, now, preview, engine)
                   /\ ExecuteAll(accts, txs, now, preview, engine) = after[n]
  BY ExecuteAllDefined
<1>3. PICK more : /\ Reach(more, accts, longer, now, preview, engine)
                  /\ ExecuteAll(accts, longer, now, preview, engine) = more[n + 1]
  BY <1>1, ExecuteAllDefined
<1>4. \A i \in 1 .. n :
        after[i] = UNION { Execute(a, txs[i], now, preview, engine) : a \in after[i - 1] }
  BY <1>2 DEF Reach
<1>5. \A i \in 1 .. n + 1 :
        more[i] = UNION { Execute(a, longer[i], now, preview, engine) : a \in more[i - 1] }
  BY <1>1, <1>3 DEF Reach
<1> HIDE DEF n
<1>6. 0 .. n \subseteq { i \in 0 .. n : more[i] = after[i] }
  <2> DEFINE D == { i \in 0 .. n : more[i] = after[i] }
  <2>1. 0 \in D
    <3>1. after[0] = {accts}
      BY <1>2 DEF Reach
    <3>2. more[0] = {accts}
      BY <1>3 DEF Reach
    <3>3. more[0] = after[0]
      BY <3>1, <3>2
    <3> QED BY <1>1, <3>3
  <2>2. ASSUME NEW i \in 1 .. n, i - 1 \in D PROVE i \in D
    <3>1. more[i - 1] = after[i - 1] /\ longer[i] = txs[i] /\ i \in 1 .. n + 1
      BY <1>1, <2>2
    <3> DEFINE Out(t, X) == UNION { Execute(a, t, now, preview, engine) : a \in X }
    <3>2. after[i] = Out(txs[i], after[i - 1]) /\ more[i] = Out(longer[i], more[i - 1])
      BY <1>4, <1>5, <3>1
    <3> HIDE DEF Out
    <3>3. more[i] = after[i]
      BY <3>1, <3>2
    <3> QED BY <1>1, <3>3
  <2> HIDE DEF D
  <2>3. 0 .. n \subseteq D
    BY <1>1, <2>1, <2>2, BoundedInduction
  <2> QED BY <2>3 DEF D
<1>7. more[n] = after[n]
  BY <1>1, <1>6
<1>8. more[n + 1] = UNION { Execute(a, tx, now, preview, engine) : a \in more[n] }
  <2>1. n + 1 \in 1 .. n + 1 /\ (n + 1) - 1 = n
    BY <1>1
  <2> QED BY <1>1, <1>5, <2>1
<1> QED BY <1>2, <1>3, <1>7, <1>8 DEF longer

\* Genesis leaves accounts accounts.
LEMMA GenesisType ==
  ASSUME RatesNat, NEW accts \in [Addr -> Account]
  PROVE  ApplyGenesis(accts) \in [Addr -> Account]
<1>1. ASSUME NEW a \in Addr, a \in DOMAIN GenesisAccounts
      PROVE  [ZeroAccount EXCEPT !.balance = GenesisAccounts[a].balance,
                                 !.stake = GenesisAccounts[a].stake,
                                 !.rcMax = RCMax(GenesisAccounts[a].stake)] \in Account
  <2>1. GenesisAccounts[a].balance \in Nat /\ GenesisAccounts[a].stake \in Nat
    BY <1>1, TransactionsAssumption
  <2>2. RCMax(GenesisAccounts[a].stake) \in Nat
    BY <2>1, RCMaxType, RCAssumption
  <2> DEFINE b == GenesisAccounts[a].balance
             st == GenesisAccounts[a].stake
             m == RCMax(GenesisAccounts[a].stake)
  <2>3. b \in Nat /\ st \in Nat /\ m \in Nat
    BY <2>1, <2>2
  <2> HIDE DEF b, st, m
  <2> DEFINE funded == [ZeroAccount EXCEPT !.balance = b]
             staked == [funded EXCEPT !.stake = st]
  <2>4. funded \in Account
    <3>1. ZeroAccount \in Account
      BY DEF ZeroAccount, Account
    <3> QED BY <2>3, <3>1 DEF Account
  <2>5. [ZeroAccount EXCEPT !.balance = b, !.stake = st, !.rcMax = m]
          = [staked EXCEPT !.rcMax = m]
    OBVIOUS
  <2> HIDE DEF funded
  <2>6. staked \in Account
    BY <2>3, <2>4 DEF Account
  <2> HIDE DEF staked
  <2>7. [staked EXCEPT !.rcMax = m] \in Account
    BY <2>3, <2>6 DEF Account
  <2> QED BY <2>5, <2>7 DEF b, st, m
<1> QED BY <1>1 DEF ApplyGenesis

\* Genesis keeps every amount in the machine word.
LEMMA GenesisWords ==
  ASSUME RatesNat, NEW accts, InWords(accts)
  PROVE  InWords(ApplyGenesis(accts))
<1>1. ASSUME NEW a \in Addr, a \in DOMAIN GenesisAccounts
      PROVE  InWord(ApplyGenesis(accts)[a])
  <2> DEFINE b == GenesisAccounts[a].balance
             st == GenesisAccounts[a].stake
             m == RCMax(GenesisAccounts[a].stake)
             x == [ZeroAccount EXCEPT !.balance = b, !.stake = st, !.rcMax = m]
  <2>1. b \in 0 .. U64 - 1 /\ st \in 0 .. U64 - 1 /\ U64 \in Nat
    BY <1>1, TransactionsAssumption
  <2>2. m \in 0 .. MaxUint /\ MaxUint \in Nat
    BY <2>1, RCMaxType, RCAssumption
  <2>3. ApplyGenesis(accts)[a] = x
    BY <1>1 DEF ApplyGenesis
  <2> HIDE DEF b, st, m
  <2>4. x.balance = b /\ x.stake = st /\ x.rcMax = m /\ x.rc = 0
    BY DEF ZeroAccount
  <2> HIDE DEF x
  <2> QED BY <2>1, <2>2, <2>3, <2>4 DEF InWord
<1>2. ASSUME NEW a \in Addr, a \notin DOMAIN GenesisAccounts
      PROVE  InWord(ApplyGenesis(accts)[a])
  BY <1>2 DEF ApplyGenesis, InWords
<1> QED BY <1>1, <1>2 DEF InWords

\* The accounts of the genesis have the right type.
LEMMA FreshType ==
  ASSUME RatesNat
  PROVE  FreshAccounts \in [Addr -> Account] /\ InWords(FreshAccounts)
<1>1. ZeroAccount \in Account
  BY DEF ZeroAccount, Account
<1>2. [a \in Addr |-> ZeroAccount] \in [Addr -> Account]
  BY <1>1
<1>3. InWords([a \in Addr |-> ZeroAccount])
  BY TransactionsAssumption, RCAssumption DEF InWords, InWord, ZeroAccount
<1>4. InWords(FreshAccounts)
  BY <1>3, GenesisWords DEF FreshAccounts
<1> QED BY <1>2, <1>4, GenesisType DEF FreshAccounts

=============================================================================
