---------------------------- MODULE SumsTheorems ----------------------------
(* Induction over the natural numbers as facts about sets and functions,     *)
(* which first-order provers can apply, what a function defined by recursion *)
(* over 0 .. n is, and facts about sums over finite sets.                    *)
EXTENDS Sums, Integers, FiniteSetTheorems, WellFoundedInduction, TLAPS

-----------------------------------------------------------------------------
(* Induction.                                                                *)

\* A nonempty set of natural numbers has a least element.
LEMMA LeastNatural ==
  ASSUME NEW S \in SUBSET Nat, S # {}
  PROVE  \E x \in S : \A y \in S : x <= y
<1> DEFINE R == OpToRel(<, Nat)
<1>1. \E x \in S : \A y \in S : << y, x >> \notin R
  <2>1. IsWellFoundedOn(R, Nat)
    BY NatLessThanWellFounded
  <2> HIDE DEF R
  <2> QED BY <2>1, WFMin
<1>2. R = { ss \in Nat \X Nat : ss[1] < ss[2] }
  BY DEF OpToRel
<1> HIDE DEF R
<1>3. \A x, y \in Nat : << y, x >> \in R <=> y < x
  BY <1>2
<1>4. PICK x \in S : \A y \in S : << y, x >> \notin R
  BY <1>1
<1>5. ASSUME NEW y \in S PROVE x <= y
  <2>1. x \in Nat /\ y \in Nat
    OBVIOUS
  <2>2. ~(y < x)
    BY <1>3, <1>4, <2>1
  <2> QED BY <2>1, <2>2
<1> QED BY <1>5

\* A finite set of integers that is not empty has a greatest element: the one
\* that the fewest are above.
LEMMA GreatestInteger ==
  ASSUME NEW S \in SUBSET Int, IsFiniteSet(S), S # {}
  PROVE  \E x \in S : \A y \in S : y <= x
<1> DEFINE Above(x) == { y \in S : y > x }
           Ranks == { Cardinality(Above(x)) : x \in S }
<1>1. ASSUME NEW x \in S
      PROVE  IsFiniteSet(Above(x)) /\ Cardinality(Above(x)) \in Nat
  <2>1. Above(x) \in SUBSET S
    OBVIOUS
  <2> HIDE DEF Above
  <2> QED BY <2>1, FS_Subset, FS_CardinalityType
<1> HIDE DEF Above
<1>2. PICK x \in S : \A y \in S : Cardinality(Above(x)) <= Cardinality(Above(y))
  <2>1. Ranks \in SUBSET Nat /\ Ranks # {}
    BY <1>1
  <2>2. \E r \in Ranks : \A q \in Ranks : r <= q
    <3> HIDE DEF Ranks
    <3> QED BY <2>1, LeastNatural
  <2> QED BY <2>2
<1>3. ASSUME NEW y \in S PROVE y <= x
  <2> SUFFICES ASSUME y > x PROVE FALSE
    OBVIOUS
  <2>1. Above(y) \subseteq Above(x) /\ y \in Above(x) /\ y \notin Above(y)
    <3>1. x \in Int /\ \A z \in S : z \in Int
      OBVIOUS
    <3>2. \A z \in S : z > y => z > x
      BY <3>1
    <3>3. Above(y) \subseteq Above(x)
      BY <3>2 DEF Above
    <3>4. y \in Above(x)
      BY DEF Above
    <3>5. y \notin Above(y)
      BY <3>1 DEF Above
    <3> QED BY <3>3, <3>4, <3>5
  <2>2. /\ Cardinality(Above(y)) <= Cardinality(Above(x))
        /\ Cardinality(Above(y)) # Cardinality(Above(x))
    BY <1>1, <2>1, FS_Subset
  <2>3. Cardinality(Above(x)) <= Cardinality(Above(y))
    BY <1>2
  <2> QED BY <1>1, <2>2, <2>3
<1> QED BY <1>3

\* And a least one.
LEMMA LeastInteger ==
  ASSUME NEW S \in SUBSET Int, IsFiniteSet(S), S # {}
  PROVE  \E x \in S : \A y \in S : x <= y
<1> DEFINE T == { -x : x \in S }
           f == [x \in S |-> -x]
<1>1. T \in SUBSET Int /\ T # {}
  <2>1. \A x \in S : -x \in Int
    OBVIOUS
  <2> QED BY <2>1
<1>2. IsFiniteSet(T)
  <2>1. f \in Surjection(S, T)
    BY DEF Surjection
  <2> HIDE DEF f, T
  <2> QED BY <2>1, FS_Surjection
<1>3. \E z \in T : \A y \in T : y <= z
  <2> HIDE DEF T
  <2> QED BY <1>1, <1>2, GreatestInteger
<1>4. PICK x \in S : \A y \in S : -y <= -x
  BY <1>3
<1>5. ASSUME NEW y \in S PROVE x <= y
  <2>1. -y <= -x /\ x \in Int /\ y \in Int
    BY <1>4
  <2> QED BY <2>1
<1> QED BY <1>5

\* A set that holds 0 and, with each number below n, its successor, holds the
\* numbers up to n.
LEMMA BoundedInduction ==
  ASSUME NEW n \in Nat, NEW S, 0 \in S,
         \A k \in 1 .. n : k - 1 \in S => k \in S
  PROVE  0 .. n \subseteq S
<1> DEFINE T == (0 .. n) \ S
<1> SUFFICES ASSUME T # {} PROVE FALSE
  OBVIOUS
<1>1. T \in SUBSET Nat
  OBVIOUS
<1> HIDE DEF T
<1>2. PICK x \in T : \A y \in T : x <= y
  BY <1>1, LeastNatural
<1>3. x \in 1 .. n /\ x \notin S
  BY DEF T
<1>4. x - 1 \in T
  BY <1>3 DEF T
<1> QED BY <1>1, <1>2, <1>3, <1>4

\* f takes the values that start with a and follow the steps.
Iterates(f, n, a, S, step) ==
  /\ f \in [0 .. n -> S]
  /\ f[0] = a
  /\ \A k \in 1 .. n : f[k] = step[k][f[k - 1]]

\* For every start and all steps there is a function that follows them over
\* 0 .. n: a function that is defined so is what its definition says.
LEMMA RecursionExists ==
  ASSUME NEW n \in Nat, NEW S, NEW a \in S, NEW step \in [1 .. n -> [S -> S]]
  PROVE  \E f : Iterates(f, n, a, S, step)
<1> DEFINE D == { m \in 0 .. n : \E f : Iterates(f, m, a, S, step) }
<1>1. 0 \in D
  <2> DEFINE f == [k \in 0 .. 0 |-> a]
  <2>1. Iterates(f, 0, a, S, step)
    BY DEF Iterates
  <2> HIDE DEF f
  <2>2. 0 \in 0 .. n
    OBVIOUS
  <2> QED BY <2>1, <2>2
<1>2. ASSUME NEW m \in 1 .. n, m - 1 \in D PROVE m \in D
  <2>1. PICK f : Iterates(f, m - 1, a, S, step)
    BY <1>2
  <2> DEFINE g == [k \in 0 .. m |-> IF k = m THEN step[m][f[m - 1]] ELSE f[k]]
  <2>2. step[m] \in [S -> S] /\ f[m - 1] \in S
    BY <2>1 DEF Iterates
  <2>3. /\ DOMAIN g = 0 .. m /\ g[m] = step[m][f[m - 1]]
        /\ \A k \in 0 .. m - 1 : g[k] = f[k]
    OBVIOUS
  <2>4. g \in [0 .. m -> S]
    BY <2>1, <2>2 DEF Iterates
  <2> HIDE DEF g
  <2>5. ASSUME NEW k \in 1 .. m PROVE g[k] = step[k][g[k - 1]]
    <3>1. g[k - 1] = f[k - 1]
      BY <2>3
    <3>2. CASE k = m
      BY <2>3, <3>1, <3>2
    <3>3. CASE k # m
      BY <2>1, <2>3, <3>1, <3>3 DEF Iterates
    <3> QED BY <3>2, <3>3
  <2>6. Iterates(g, m, a, S, step)
    BY <2>1, <2>3, <2>4, <2>5 DEF Iterates
  <2>7. m \in 0 .. n
    OBVIOUS
  <2> QED BY <2>6, <2>7
<1>3. n \in D
  <2> HIDE DEF D
  <2>1. 0 .. n \subseteq D
    BY <1>1, <1>2, BoundedInduction
  <2> QED BY <2>1
<1> QED BY <1>3

-----------------------------------------------------------------------------
(* Sums.                                                                     *)

\* The units of finitely many natural numbers are finitely many.
LEMMA UnitsFinite ==
  ASSUME NEW S, IsFiniteSet(S), NEW f, \A a \in S : f[a] \in Nat
  PROVE  IsFiniteSet(Units(f, S))
<1> DEFINE g == [a \in S |-> {a} \X (1 .. f[a])]
           R == { {a} \X (1 .. f[a]) : a \in S }
<1>1. g \in Surjection(S, R)
  BY DEF Surjection
<1>2. IsFiniteSet(R)
  <2> HIDE DEF g, R
  <2> QED BY <1>1, FS_Surjection
<1>3. ASSUME NEW T \in R PROVE IsFiniteSet(T)
  <2>1. PICK a \in S : T = {a} \X (1 .. f[a])
    OBVIOUS
  <2>2. IsFiniteSet({a})
    BY FS_Singleton
  <2>3. IsFiniteSet(1 .. f[a])
    BY FS_Interval
  <2> QED BY <2>1, <2>2, <2>3, FS_Product
<1>4. IsFiniteSet(UNION R)
  <2> HIDE DEF R
  <2> QED BY <1>2, <1>3, FS_UNION
<1> QED BY <1>4 DEF Units

\* A sum of natural numbers is a natural number.
LEMMA TotalNat ==
  ASSUME NEW S, IsFiniteSet(S), NEW f, \A a \in S : f[a] \in Nat
  PROVE  Total(f, S) \in Nat
BY UnitsFinite, FS_CardinalityType DEF Total

\* A sum over fewer addends is not larger.
LEMMA TotalMonotone ==
  ASSUME NEW S, IsFiniteSet(S), NEW f, \A a \in S : f[a] \in Nat,
         NEW T \in SUBSET S
  PROVE  Total(f, T) <= Total(f, S)
<1>1. Units(f, T) \subseteq Units(f, S)
  BY DEF Units
<1>2. IsFiniteSet(Units(f, S))
  BY UnitsFinite
<1> QED BY <1>1, <1>2, FS_Subset DEF Total

\* Inclusion and exclusion.
LEMMA TotalUnion ==
  ASSUME NEW S, IsFiniteSet(S), NEW f, \A a \in S : f[a] \in Nat,
         NEW A \in SUBSET S, NEW B \in SUBSET S
  PROVE  Total(f, A \union B) =
           Total(f, A) + Total(f, B) - Total(f, A \intersect B)
<1>1. Units(f, A \union B) = Units(f, A) \union Units(f, B)
  BY DEF Units
<1>2. Units(f, A \intersect B) = Units(f, A) \intersect Units(f, B)
  BY DEF Units
<1>3. IsFiniteSet(A) /\ IsFiniteSet(B)
  BY FS_Subset
<1>4. IsFiniteSet(Units(f, A)) /\ IsFiniteSet(Units(f, B))
  BY <1>3, UnitsFinite
<1>5. Cardinality(Units(f, A) \union Units(f, B)) =
        Cardinality(Units(f, A)) + Cardinality(Units(f, B))
          - Cardinality(Units(f, A) \intersect Units(f, B))
  BY <1>4, FS_Union
<1> QED BY <1>1, <1>2, <1>5 DEF Total

\* Only the addends matter.
LEMMA TotalSame ==
  ASSUME NEW S, NEW f, NEW g, \A a \in S : f[a] = g[a]
  PROVE  Total(f, S) = Total(g, S)
<1>1. Units(f, S) = Units(g, S)
  BY DEF Units
<1> QED BY <1>1 DEF Total

\* A sum of nothing.
LEMMA TotalEmpty == ASSUME NEW f PROVE Total(f, {}) = 0
<1>1. Units(f, {}) = {}
  BY DEF Units
<1> QED BY <1>1, FS_EmptySet DEF Total

\* A sum of a single addend.
LEMMA TotalSingle ==
  ASSUME NEW f, NEW a, f[a] \in Nat
  PROVE  Total(f, {a}) = f[a]
<1>1. Units(f, {a}) = {a} \X (1 .. f[a])
  BY DEF Units
<1>2. IsFiniteSet({a}) /\ Cardinality({a}) = 1
  BY FS_Singleton
<1>3. IsFiniteSet(1 .. f[a]) /\ Cardinality(1 .. f[a]) = f[a]
  <2> DEFINE n == f[a]
  <2>1. n \in Nat
    OBVIOUS
  <2> HIDE DEF n
  <2>2. IsFiniteSet(1 .. n) /\ Cardinality(1 .. n) = n
    BY <2>1, FS_Interval
  <2> QED BY <2>2 DEF n
<1>4. Cardinality({a} \X (1 .. f[a])) = 1 * f[a]
  <2> DEFINE A == {a}
             B == 1 .. f[a]
  <2>1. IsFiniteSet(A) /\ IsFiniteSet(B) /\ Cardinality(A) = 1
        /\ Cardinality(B) = f[a]
    BY <1>2, <1>3
  <2> HIDE DEF A, B
  <2>2. Cardinality(A \X B) = Cardinality(A) * Cardinality(B)
    BY <2>1, FS_Product
  <2>3. Cardinality(A \X B) = 1 * f[a]
    BY <2>1, <2>2
  <2> QED BY <2>3 DEF A, B
<1>5. 1 * f[a] = f[a]
  OBVIOUS
<1>6. Total(f, {a}) = Cardinality(Units(f, {a}))
  BY DEF Total
<1>7. Cardinality(Units(f, {a})) = 1 * f[a]
  BY <1>1, <1>4
<1> QED BY <1>5, <1>6, <1>7

\* One addend more.
LEMMA TotalAdd ==
  ASSUME NEW S, IsFiniteSet(S), NEW f, NEW a, a \notin S,
         \A b \in S \union {a} : f[b] \in Nat
  PROVE  Total(f, S \union {a}) = Total(f, S) + f[a]
<1> DEFINE T == S \union {a}
<1>1. IsFiniteSet(T)
  BY FS_AddElement
<1>2. S \in SUBSET T /\ {a} \in SUBSET T
  OBVIOUS
<1>3. S \intersect {a} = {}
  OBVIOUS
<1>4. Total(f, S \union {a}) =
        Total(f, S) + Total(f, {a}) - Total(f, S \intersect {a})
  <2> HIDE DEF T
  <2>1. \A b \in T : f[b] \in Nat
    BY DEF T
  <2> QED BY <1>1, <1>2, <2>1, TotalUnion
<1>5. Total(f, S \intersect {a}) = 0
  BY <1>3, TotalEmpty
<1>6. Total(f, {a}) = f[a] /\ f[a] \in Nat
  BY TotalSingle
<1>7. Total(f, S) \in Nat
  BY TotalNat
<1> QED BY <1>4, <1>5, <1>6, <1>7

\* One addend taken out.
LEMMA TotalWithout ==
  ASSUME NEW S, IsFiniteSet(S), NEW a \in S, NEW f,
         \A b \in S : f[b] \in Nat
  PROVE  /\ Total(f, S) = Total(f, S \ {a}) + f[a]
         /\ Total(f, S \ {a}) \in Nat
<1> DEFINE R == S \ {a}
<1>1. IsFiniteSet(R)
  BY FS_Subset
<1>2. a \notin R /\ S = R \union {a}
  OBVIOUS
<1>3. \A b \in R \union {a} : f[b] \in Nat
  BY <1>2
<1> HIDE DEF R
<1>4. Total(f, R \union {a}) = Total(f, R) + f[a]
  BY <1>1, <1>2, <1>3, TotalAdd
<1>5. Total(f, R) \in Nat
  BY <1>1, <1>3, TotalNat
<1> QED BY <1>2, <1>4, <1>5 DEF R

\* One addend changed.
LEMMA TotalPoint ==
  ASSUME NEW S, IsFiniteSet(S), NEW a \in S, NEW f, NEW g,
         \A b \in S : f[b] \in Nat, \A b \in S : g[b] \in Nat,
         \A b \in S \ {a} : g[b] = f[b]
  PROVE  Total(g, S) = Total(f, S) - f[a] + g[a]
<1>1. /\ Total(f, S) = Total(f, S \ {a}) + f[a]
      /\ Total(f, S \ {a}) \in Nat
  BY TotalWithout
<1>2. Total(g, S) = Total(g, S \ {a}) + g[a]
  BY TotalWithout
<1>3. Total(g, S \ {a}) = Total(f, S \ {a})
  BY TotalSame
<1> QED BY <1>1, <1>2, <1>3

\* Two sets that each carry more than two thirds of a total share more than a
\* third of it.
THEOREM QuorumsShare ==
  ASSUME NEW S, IsFiniteSet(S), NEW f, \A a \in S : f[a] \in Nat,
         NEW A \in SUBSET S, NEW B \in SUBSET S,
         3 * Total(f, A) > 2 * Total(f, S),
         3 * Total(f, B) > 2 * Total(f, S)
  PROVE  3 * Total(f, A \intersect B) > Total(f, S)
<1>1. IsFiniteSet(A) /\ IsFiniteSet(B) /\ IsFiniteSet(A \intersect B)
  BY FS_Subset
<1>2. /\ Total(f, S) \in Nat /\ Total(f, A) \in Nat /\ Total(f, B) \in Nat
      /\ Total(f, A \intersect B) \in Nat /\ Total(f, A \union B) \in Nat
  <2>1. IsFiniteSet(A \union B)
    BY FS_Subset
  <2> QED BY <1>1, <2>1, TotalNat
<1>3. Total(f, A \union B) <= Total(f, S)
  BY TotalMonotone
<1>4. Total(f, A \union B) =
        Total(f, A) + Total(f, B) - Total(f, A \intersect B)
  BY TotalUnion
<1> QED BY <1>2, <1>3, <1>4

=============================================================================
