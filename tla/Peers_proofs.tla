---------------------------- MODULE Peers_proofs ----------------------------
(* Theorems about the peers a node knows.  Their registry, DPoS.tla: types,  *)
(* the backing of power, and the order of the validator set, for any         *)
(* addresses, stakes and arithmetic.  The keys it shares with them,          *)
(* Sessions.tla: types and the agreement of the ends, for any peers,         *)
(* connections and failures.                                                 *)
EXTENDS DPoS, Sessions, SumsTheorems

-----------------------------------------------------------------------------
(* Arithmetic modulo U64.                                                    *)

\* Quotient and remainder.
LEMMA Division ==
  ASSUME NEW U \in Nat \ {0}, NEW x \in Int
  PROVE  /\ x \div U \in Int
         /\ x % U \in 0 .. (U - 1)
         /\ x = U * (x \div U) + (x % U)
BY SMT

\* The remainder is unique.
LEMMA RemainderUnique ==
  ASSUME NEW U \in Nat \ {0}, NEW p \in Int, NEW q \in Int,
         NEW r \in 0 .. (U - 1), NEW s \in 0 .. (U - 1),
         U * q + r = U * p + s
  PROVE  r = s
<1>1. U * (q - p) = s - r
  <2>1. U * (q - p) = U * q - U * p
    BY SMT
  <2> QED BY <2>1
<1>2. CASE q - p >= 1
  <2>1. U * (q - p) >= U
    <3>1. \A k \in Int : k >= 1 => U * k >= U
      BY SMT
    <3> QED BY <1>2, <3>1
  <2> QED BY <1>1, <2>1
<1>3. CASE q - p <= -1
  <2>1. U * (q - p) <= -U
    <3>1. \A k \in Int : k <= -1 => U * k <= -U
      BY SMT
    <3> QED BY <1>3, <3>1
  <2> QED BY <1>1, <2>1
<1>4. CASE q = p
  BY <1>4
<1> QED BY <1>2, <1>3, <1>4

\* Multiples of the modulus vanish.
LEMMA MultipleVanishes ==
  ASSUME NEW U \in Nat \ {0}, NEW x \in Int, NEW k \in Int
  PROVE  (x + U * k) % U = x % U
<1> DEFINE y == x + U * k
<1>1. y \in Int
  OBVIOUS
<1>2. PICK p \in Int, r \in 0 .. (U - 1) :
        y = U * p + r /\ y % U = r
  <2> HIDE DEF y
  <2>1. /\ y \div U \in Int
        /\ y % U \in 0 .. (U - 1)
        /\ y = U * (y \div U) + (y % U)
    BY <1>1, Division
  <2> QED BY <2>1
<1>3. PICK q \in Int, s \in 0 .. (U - 1) :
        x = U * q + s /\ x % U = s
  <2>1. /\ x \div U \in Int
        /\ x % U \in 0 .. (U - 1)
        /\ x = U * (x \div U) + (x % U)
    BY Division
  <2> QED BY <2>1
<1>4. U * (q + k) = U * q + U * k
  BY SMT
<1>5. U * p + r = U * (q + k) + s
  BY <1>2, <1>3, <1>4
<1>6. q + k \in Int
  OBVIOUS
<1>7. r = s
  BY <1>5, <1>6, RemainderUnique
<1> QED BY <1>2, <1>3, <1>7

\* A sum may be reduced before or after an addend.
LEMMA ModularSum ==
  ASSUME NEW U \in Nat \ {0}, NEW x \in Int, NEW y \in Int
  PROVE  ((x % U) + y) % U = (x + y) % U
<1>1. PICK q \in Int, s \in 0 .. (U - 1) :
        x = U * q + s /\ x % U = s
  <2>1. /\ x \div U \in Int
        /\ x % U \in 0 .. (U - 1)
        /\ x = U * (x \div U) + (x % U)
    BY Division
  <2> QED BY <2>1
<1>2. x + y = (s + y) + U * q
  BY <1>1
<1>3. ((s + y) + U * q) % U = (s + y) % U
  <2>1. s + y \in Int
    OBVIOUS
  <2> QED BY <2>1, MultipleVanishes
<1> QED BY <1>1, <1>2, <1>3

-----------------------------------------------------------------------------
(* Types.                                                                    *)

\* Arithmetic on machine integers stays among them.
LEMMA UintType ==
  /\ U64 \in Nat \ {0}
  /\ 0 \in Uint
  /\ \A x \in Int : x % U64 \in Uint
<1>1. U64 \in Nat \ {0}
  BY DPoSAssumption
<1>2. ASSUME NEW x \in Int PROVE x % U64 \in Uint
  BY <1>1, Division DEF Uint
<1> QED BY <1>1, <1>2 DEF Uint

\* The registry after a change to one entry.
LEMMA EntryChanged ==
  ASSUME TypeOK, NEW op \in Registered, NEW v \in Validator,
         validators' = [validators EXCEPT ![op] = v],
         slashes' \in Nat
  PROVE  TypeOK'
BY DEF TypeOK, Registered

\* What Delegate and Undelegate leave of an entry.
LEMMA MovedType ==
  ASSUME NEW v \in Validator, NEW from \in Addr,
         NEW d \in Uint, NEW p \in Uint
  PROVE  [v EXCEPT !.delegations[from] = d, !.power = p] \in Validator
<1>1. [v.delegations EXCEPT ![from] = d] \in [Addr -> Uint]
  BY DEF Validator
<1> QED BY <1>1 DEF Validator

\* The types hold for the empty registry.
LEMMA InitType == Init => TypeOK
BY DEF Init, TypeOK, Registered

\* A registration keeps the types.
LEMMA RegisterType ==
  ASSUME TypeOK, NEW op \in Addr, NEW stake \in Amounts,
         RegisterValidator(op, stake)
  PROVE  TypeOK'
<1> DEFINE new == [stake |-> stake, power |-> stake,
                   delegations |-> [d \in Addr |-> 0], jailedUntil |-> 0]
           R == Registered \union {op}
<1>1. new \in Validator
  <2>1. stake \in Uint
    BY DPoSAssumption DEF Uint
  <2> QED BY <2>1, UintType DEF Validator
<1>2. validators' = [a \in R |-> IF a = op THEN new ELSE validators[a]]
      /\ slashes' = slashes
  BY DEF RegisterValidator
<1>3. R \subseteq Addr
  BY DEF TypeOK
<1> HIDE DEF new
<1>4. DOMAIN validators' = R
  <2> HIDE DEF R
  <2> QED BY <1>2
<1>5. \A a \in R : validators'[a] \in Validator
  BY <1>1, <1>2 DEF TypeOK, Registered
<1> HIDE DEF R
<1>6. validators' \in [R -> Validator]
  BY <1>2, <1>4, <1>5
<1> QED BY <1>2, <1>3, <1>4, <1>6 DEF TypeOK, Registered

\* A delegation keeps the types.
LEMMA DelegateType ==
  ASSUME TypeOK, NEW op \in Addr, NEW from \in Addr, NEW amount \in Amounts,
         Delegate(from, op, amount)
  PROVE  TypeOK'
<1> DEFINE v == validators[op]
           d == (v.delegations[from] + amount) % U64
           p == (v.power + amount) % U64
           w == [v EXCEPT !.delegations[from] = d, !.power = p]
<1>1. op \in Registered /\ v \in Validator
  BY DEF Delegate, TypeOK
<1>2. amount \in Uint
  BY DPoSAssumption DEF Uint
<1>3. d \in Uint /\ p \in Uint
  <2>1. v.delegations[from] \in Uint /\ v.power \in Uint
    BY <1>1 DEF Validator
  <2>2. v.delegations[from] + amount \in Int /\ v.power + amount \in Int
    BY <2>1, <1>2 DEF Uint
  <2> QED BY <2>2, UintType
<1>4. validators' = [validators EXCEPT ![op] = w] /\ slashes' = slashes
  BY <1>1 DEF Delegate, TypeOK, Registered
<1>5. w \in Validator
  <2> HIDE DEF v, d, p
  <2> QED BY <1>1, <1>3, MovedType
<1>6. slashes' \in Nat
  BY <1>4 DEF TypeOK
<1> HIDE DEF w
<1> QED BY <1>1, <1>4, <1>5, <1>6, EntryChanged

\* The withdrawal of a delegation keeps the types.
LEMMA UndelegateType ==
  ASSUME TypeOK, NEW op \in Addr, NEW from \in Addr, NEW amount \in Amounts,
         Undelegate(from, op, amount)
  PROVE  TypeOK'
<1> DEFINE v == validators[op]
           d == v.delegations[from] - amount
           p == (v.power - amount) % U64
           w == [v EXCEPT !.delegations[from] = d, !.power = p]
<1>1. op \in Registered /\ v \in Validator
  BY DEF Undelegate, TypeOK
<1>2. amount \in Uint
  BY DPoSAssumption DEF Uint
<1>3. d \in Uint /\ p \in Uint
  <2>1. v.delegations[from] \in Uint /\ v.power \in Uint
    BY <1>1 DEF Validator
  <2>2. v.delegations[from] >= amount
    BY DEF Undelegate
  <2>3. v.power - amount \in Int
    BY <2>1, <1>2 DEF Uint
  <2>4. d \in Uint
    BY <2>1, <2>2, <1>2, UintType DEF Uint
  <2> QED BY <2>3, <2>4, UintType
<1>4. validators' = [validators EXCEPT ![op] = w] /\ slashes' = slashes
  BY <1>1 DEF Undelegate, TypeOK, Registered
<1>5. w \in Validator
  <2> HIDE DEF v, d, p
  <2> QED BY <1>1, <1>3, MovedType
<1>6. slashes' \in Nat
  BY <1>4 DEF TypeOK
<1> HIDE DEF w
<1> QED BY <1>1, <1>4, <1>5, <1>6, EntryChanged

\* A slashing keeps the types.
LEMMA SlashType ==
  ASSUME TypeOK, NEW op \in Addr, NEW bps \in SlashBps, NEW jail \in JailEpochs,
         NEW epoch \in 0 .. MaxEpoch, Slash(op, bps, jail, epoch)
  PROVE  TypeOK'
<1> DEFINE v == validators[op]
           cut == ((v.stake * bps) % U64) \div 10000
           left == IF v.stake >= cut THEN v.stake - cut ELSE v.stake
           until == epoch + jail
           w == [v EXCEPT !.stake = left, !.power = left, !.jailedUntil = until]
<1>1. op \in Registered /\ v \in Validator
  BY DEF Slash, TypeOK
<1>2. validators' = [validators EXCEPT ![op] = w] /\ slashes' = slashes + 1
  BY DEF Slash
<1>3. v.stake \in Uint
  BY <1>1 DEF Validator
<1>4. cut \in Nat
  <2>1. v.stake * bps \in Int
    <3>1. v.stake \in Int /\ bps \in Int
      BY <1>3, DPoSAssumption DEF Uint
    <3> QED BY <3>1
  <2>2. (v.stake * bps) % U64 \in Nat
    BY <2>1, UintType DEF Uint
  <2> QED BY <2>2
<1>5. left \in Uint
  <2> HIDE DEF cut
  <2> QED BY <1>3, <1>4, UintType DEF Uint
<1>6. until \in Nat
  BY DPoSAssumption
<1>7. w \in Validator
  <2> HIDE DEF left, until, v
  <2> QED BY <1>1, <1>5, <1>6 DEF Validator
<1>8. slashes' \in Nat
  BY <1>2 DEF TypeOK
<1> HIDE DEF w
<1> QED BY <1>1, <1>2, <1>7, <1>8, EntryChanged

\* Stakes, power and delegations stay machine words, through every sequence of
\* calls of the registry.
THEOREM TypeCorrect == Spec => []TypeOK
<1>1. TypeOK /\ [Next]_vars => TypeOK'
  <2> SUFFICES ASSUME TypeOK, [Next]_vars PROVE TypeOK'
    OBVIOUS
  <2>1. CASE UNCHANGED vars
    BY <2>1 DEF TypeOK, Registered, vars
  <2>2. CASE Next
    <3>1. PICK op \in Addr :
            \/ \E stake \in Amounts : RegisterValidator(op, stake)
            \/ \E from \in Addr, amount \in Amounts :
                 Delegate(from, op, amount) \/ Undelegate(from, op, amount)
            \/ \E bps \in SlashBps, jail \in JailEpochs, epoch \in 0 .. MaxEpoch :
                 Slash(op, bps, jail, epoch)
      BY <2>2 DEF Next
    <3> QED BY <3>1, RegisterType, DelegateType, UndelegateType, SlashType
  <2> QED BY <2>1, <2>2
<1> QED BY <1>1, InitType, PTL DEF Spec

-----------------------------------------------------------------------------
(* Power and what backs it.                                                  *)

Backed(v) == v.power = (v.stake + Total(v.delegations, Addr)) % U64

\* What is delegated to an operator, and the sum of it, are natural numbers.
LEMMA DelegationsNat ==
  ASSUME NEW v \in Validator
  PROVE  /\ \A a \in Addr : v.delegations[a] \in Nat
         /\ Total(v.delegations, Addr) \in Nat
         /\ v.stake \in Nat
         /\ v.power \in Nat
<1>1. \A a \in Addr : v.delegations[a] \in Uint
  BY DEF Validator
<1>2. \A a \in Addr : v.delegations[a] \in Nat
  BY <1>1 DEF Uint
<1>3. Total(v.delegations, Addr) \in Nat
  BY <1>2, TotalNat, DPoSAssumption
<1>4. v.stake \in Nat /\ v.power \in Nat
  BY DEF Validator, Uint
<1> QED BY <1>2, <1>3, <1>4

\* A delegation that changes by an amount, modulo the machine word, changes what
\* backs the power by it.
LEMMA MovedBacked ==
  ASSUME NEW v \in Validator, Backed(v), NEW from \in Addr, NEW m \in Int,
         NEW k \in Int, v.delegations[from] + m + U64 * k \in Uint
  PROVE  Backed([v EXCEPT !.delegations[from] = v.delegations[from] + m + U64 * k,
                          !.power = (v.power + m) % U64])
<1> DEFINE d == v.delegations[from] + m + U64 * k
           p == (v.power + m) % U64
           f == v.delegations
           g == [f EXCEPT ![from] = d]
           w == [v EXCEPT !.delegations[from] = d, !.power = p]
<1>1. w.stake = v.stake /\ w.power = p /\ w.delegations = g
  BY DEF Validator
<1>2. /\ \A a \in Addr : f[a] \in Nat
      /\ Total(f, Addr) \in Nat /\ v.stake \in Nat /\ v.power \in Nat
  BY DelegationsNat
<1>3. f \in [Addr -> Uint] /\ d \in Uint
  BY DEF Validator
<1>4. Total(g, Addr) = Total(f, Addr) + m + U64 * k
  <2>1. g[from] = d /\ d \in Nat /\ \A b \in Addr \ {from} : g[b] = f[b]
    BY <1>3 DEF Uint
  <2>2. \A b \in Addr : g[b] \in Nat
    BY <1>2, <2>1
  <2> HIDE DEF g, f, d
  <2>3. Total(g, Addr) = Total(f, Addr) - f[from] + g[from]
    BY <1>2, <2>1, <2>2, TotalPoint, DPoSAssumption
  <2>4. g[from] = f[from] + m + U64 * k /\ f[from] \in Nat
    BY <1>2, <2>1 DEF d, f
  <2>5. U64 * k \in Int
    BY UintType
  <2> QED BY <1>2, <2>3, <2>4, <2>5
<1> DEFINE b == v.stake + Total(f, Addr)
<1>5. p = (b + m) % U64
  <2>1. v.power = b % U64 /\ b \in Int
    BY <1>2 DEF Backed
  <2> HIDE DEF b
  <2> QED BY <2>1, ModularSum, UintType
<1>6. (v.stake + Total(g, Addr)) % U64 = (b + m) % U64
  <2>1. v.stake + Total(g, Addr) = (b + m) + U64 * k
    <3>1. U64 * k \in Int
      BY UintType
    <3> HIDE DEF g, f
    <3> QED BY <1>2, <1>4, <3>1
  <2>2. b + m \in Int
    BY <1>2
  <2> HIDE DEF b, g
  <2> QED BY <2>1, <2>2, MultipleVanishes, UintType
<1> HIDE DEF w, g, p, b, f
<1>7. Backed(w)
  BY <1>1, <1>5, <1>6 DEF Backed
<1> QED BY <1>7 DEF w, p, d

\* Every call keeps the powers backed.
LEMMA BackedStep ==
  ASSUME TypeOK, PowerBacked, [Next]_vars
  PROVE  PowerBacked'
<1> SUFFICES ASSUME slashes' = 0, NEW o \in Registered'
             PROVE  Backed(validators'[o])
  BY DEF PowerBacked, Backed, Delegated
<1>1. CASE UNCHANGED vars
  BY <1>1 DEF vars, PowerBacked, Backed, Delegated, Registered
<1>2. ASSUME NEW op \in Addr, NEW stake \in Amounts, RegisterValidator(op, stake)
      PROVE  Backed(validators'[o])
  <2> DEFINE zero == [d \in Addr |-> 0]
             new == [stake |-> stake, power |-> stake,
                     delegations |-> zero, jailedUntil |-> 0]
             R == Registered \union {op}
  <2>1. validators' = [a \in R |-> IF a = op THEN new ELSE validators[a]]
        /\ slashes' = slashes
    BY <1>2 DEF RegisterValidator
  <2>2. o \in R
    <3> HIDE DEF R
    <3> QED BY <2>1 DEF Registered
  <2>3. CASE o # op
    <3>1. validators'[o] = validators[o] /\ o \in Registered
      BY <2>1, <2>2, <2>3
    <3> QED BY <3>1, <2>1 DEF PowerBacked, Backed, Delegated
  <2>4. CASE o = op
    <3>1. validators'[o] = new
      BY <2>1, <2>2, <2>4
    <3>2. Total(zero, Addr) = 0
      <4>1. Units(zero, Addr) = {}
        BY DEF Units
      <4> QED BY <4>1, FS_EmptySet DEF Total
    <3>3. stake \in 0 .. (U64 - 1)
      BY DPoSAssumption
    <3>4. (stake + 0) % U64 = stake
      BY <3>3, UintType
    <3> HIDE DEF zero
    <3> QED BY <3>1, <3>2, <3>4 DEF Backed
  <2> QED BY <2>3, <2>4
<1>3. ASSUME NEW op \in Addr, NEW from \in Addr, NEW amount \in Amounts,
             Delegate(from, op, amount)
      PROVE  Backed(validators'[o])
  <2> DEFINE v == validators[op]
             d == (v.delegations[from] + amount) % U64
             p == (v.power + amount) % U64
             w == [v EXCEPT !.delegations[from] = d, !.power = p]
  <2>1. op \in Registered /\ v \in Validator /\ o \in Registered
    BY <1>3 DEF Delegate, TypeOK, Registered
  <2>2. validators' = [validators EXCEPT ![op] = w] /\ slashes' = slashes
    BY <1>3, <2>1 DEF Delegate, TypeOK, Registered
  <2>3. Backed(v) /\ Backed(validators[o])
    BY <2>1, <2>2 DEF PowerBacked, Backed, Delegated
  <2>4. amount \in Int
    BY DPoSAssumption
  <2>5. v.delegations[from] \in Nat
    BY <2>1, DelegationsNat
  <2>6. PICK k \in Int : d = v.delegations[from] + amount + U64 * k
    <3> DEFINE x == v.delegations[from] + amount
    <3>1. x \in Int
      BY <2>4, <2>5
    <3> HIDE DEF x
    <3>2. x \div U64 \in Int /\ x = U64 * (x \div U64) + (x % U64)
          /\ x % U64 \in Int
      BY <3>1, Division, UintType DEF Uint
    <3>3. PICK q \in Int : q = x \div U64
      BY <3>2
    <3>4. U64 * (-q) = -(U64 * q) /\ U64 * q \in Int
      BY UintType
    <3>5. x % U64 = x + U64 * (-q)
      BY <3>1, <3>2, <3>3, <3>4
    <3> QED BY <3>5 DEF x
  <2>7. d \in Uint
    <3>1. v.delegations[from] + amount \in Int
      BY <2>4, <2>5
    <3> QED BY <3>1, UintType
  <2>8. Backed(w)
    <3> DEFINE e == v.delegations[from] + amount + U64 * k
    <3>1. d = e
      BY <2>6
    <3>2. e \in Uint
      BY <2>7, <3>1
    <3>3. Backed([v EXCEPT !.delegations[from] = e, !.power = p])
      <4> HIDE DEF v
      <4> QED BY <2>1, <2>3, <2>4, <3>2, MovedBacked
    <3> HIDE DEF v, d, p, e
    <3> QED BY <3>1, <3>3
  <2> HIDE DEF w
  <2>9. validators'[o] = IF o = op THEN w ELSE validators[o]
    BY <2>1, <2>2 DEF TypeOK, Registered
  <2> QED BY <2>3, <2>8, <2>9
<1>4. ASSUME NEW op \in Addr, NEW from \in Addr, NEW amount \in Amounts,
             Undelegate(from, op, amount)
      PROVE  Backed(validators'[o])
  <2> DEFINE v == validators[op]
             d == v.delegations[from] - amount
             p == (v.power - amount) % U64
             w == [v EXCEPT !.delegations[from] = d, !.power = p]
             m == -amount
             e == v.delegations[from] + m + U64 * 0
  <2>1. op \in Registered /\ v \in Validator /\ o \in Registered
    BY <1>4 DEF Undelegate, TypeOK, Registered
  <2>2. validators' = [validators EXCEPT ![op] = w] /\ slashes' = slashes
    BY <1>4, <2>1 DEF Undelegate, TypeOK, Registered
  <2>3. Backed(v) /\ Backed(validators[o])
    BY <2>1, <2>2 DEF PowerBacked, Backed, Delegated
  <2>4. amount \in Nat
    BY DPoSAssumption
  <2>5. v.delegations[from] \in Uint /\ v.power \in Nat
    BY <2>1, DelegationsNat DEF Validator
  <2>6. v.delegations[from] >= amount
    BY <1>4 DEF Undelegate
  <2>7. d = e /\ d \in Uint
    <3>1. U64 * 0 = 0
      BY UintType
    <3>2. v.delegations[from] \in 0 .. (U64 - 1)
      BY <2>5 DEF Uint
    <3>3. d = e
      BY <2>4, <3>1, <3>2
    <3>4. d \in Uint
      BY <2>4, <2>6, <3>2, UintType DEF Uint
    <3> QED BY <3>3, <3>4
  <2>8. Backed(w)
    <3>1. v.power - amount = v.power + m /\ m \in Int
      BY <2>4, <2>5
    <3>2. Backed([v EXCEPT !.delegations[from] = e, !.power = (v.power + m) % U64])
      <4>1. PICK k \in Int : k = 0
        OBVIOUS
      <4>2. v.delegations[from] + m + U64 * k \in Uint
        BY <2>7, <4>1
      <4> HIDE DEF v, m
      <4>3. Backed([v EXCEPT !.delegations[from] = v.delegations[from] + m + U64 * k,
                             !.power = (v.power + m) % U64])
        BY <2>1, <2>3, <3>1, <4>2, MovedBacked
      <4> QED BY <4>1, <4>3
    <3>3. (v.power - amount) % U64 = (v.power + m) % U64
      BY <3>1
    <3> HIDE DEF v, d, e, m
    <3> QED BY <2>7, <3>2, <3>3
  <2> HIDE DEF w
  <2>9. validators'[o] = IF o = op THEN w ELSE validators[o]
    BY <2>1, <2>2 DEF TypeOK, Registered
  <2> QED BY <2>3, <2>8, <2>9
<1>5. ASSUME NEW op \in Addr, NEW bps \in SlashBps, NEW jail \in JailEpochs,
             NEW epoch \in 0 .. MaxEpoch, Slash(op, bps, jail, epoch)
      PROVE  Backed(validators'[o])
  BY <1>5 DEF Slash, TypeOK
<1>6. CASE Next
  <2>1. PICK op \in Addr :
          \/ \E stake \in Amounts : RegisterValidator(op, stake)
          \/ \E from \in Addr, amount \in Amounts :
               Delegate(from, op, amount) \/ Undelegate(from, op, amount)
          \/ \E bps \in SlashBps, jail \in JailEpochs, epoch \in 0 .. MaxEpoch :
               Slash(op, bps, jail, epoch)
    BY <1>6 DEF Next
  <2> QED BY <2>1, <1>2, <1>3, <1>4, <1>5
<1> QED BY <1>1, <1>6

\* Until a slashing, power is what backs it, modulo the machine word.
THEOREM PowerBackedAlways == Spec => []PowerBacked
<1>1. Init => PowerBacked
  BY DEF Init, PowerBacked, Registered
<1>2. TypeOK /\ PowerBacked /\ [Next]_vars => PowerBacked'
  BY BackedStep
<1> QED BY <1>1, <1>2, TypeCorrect, PTL DEF Spec

-----------------------------------------------------------------------------
(* The order of the validator set.                                           *)

Ahead(a) == { b \in Registered \ {a} : Precedes(b, a) }
Place(a) == 1 + Cardinality(Ahead(a))

\* The order of the validator set is strict and total.
LEMMA PrecedesOrders ==
  ASSUME TypeOK
  PROVE  /\ \A a, b \in Registered : a # b => Precedes(a, b) \/ Precedes(b, a)
         /\ \A a, b \in Registered : ~(Precedes(a, b) /\ Precedes(b, a))
         /\ \A a, b, c \in Registered :
              Precedes(a, b) /\ Precedes(b, c) => Precedes(a, c)
<1>1. \A a \in Registered : AddrRank[a] \in Int /\ validators[a].power \in Int
  <2> TAKE a \in Registered
  <2>1. a \in Addr /\ validators[a] \in Validator
    BY DEF TypeOK
  <2> QED BY <2>1, DPoSAssumption DEF Validator, Uint
<1>2. \A a, b \in Registered : AddrRank[a] = AddrRank[b] => a = b
  BY DPoSAssumption DEF TypeOK
<1>3. \A a, b \in Registered : a # b => Precedes(a, b) \/ Precedes(b, a)
  BY <1>1, <1>2 DEF Precedes
<1>4. \A a, b \in Registered : ~(Precedes(a, b) /\ Precedes(b, a))
  BY <1>1 DEF Precedes
<1>5. \A a, b, c \in Registered :
        Precedes(a, b) /\ Precedes(b, c) => Precedes(a, c)
  BY <1>1 DEF Precedes
<1> QED BY <1>3, <1>4, <1>5

\* The places are 1 .. n, each taken once, in the order of Precedes.
LEMMA Places ==
  ASSUME TypeOK
  PROVE  /\ IsFiniteSet(Registered)
         /\ \A a \in Registered : Place(a) \in 1 .. Cardinality(Registered)
         /\ \A a, b \in Registered : Precedes(a, b) => Place(a) < Place(b)
<1>1. IsFiniteSet(Registered) /\ Cardinality(Registered) \in Nat
  BY FS_Subset, FS_CardinalityType, DPoSAssumption DEF TypeOK
<1>2. ASSUME NEW a \in Registered
      PROVE  /\ IsFiniteSet(Ahead(a)) /\ Cardinality(Ahead(a)) \in Nat
             /\ Cardinality(Ahead(a)) <= Cardinality(Registered) - 1
  <2> DEFINE R == Registered \ {a}
  <2>1. IsFiniteSet(R) /\ Cardinality(R) = Cardinality(Registered) - 1
    BY <1>1, FS_RemoveElement
  <2>2. Ahead(a) \in SUBSET R
    BY DEF Ahead
  <2> HIDE DEF R
  <2> QED BY <2>1, <2>2, FS_Subset, FS_CardinalityType
<1>3. ASSUME NEW a \in Registered
      PROVE  Place(a) \in 1 .. Cardinality(Registered)
  BY <1>1, <1>2 DEF Place
<1>4. ASSUME NEW a \in Registered, NEW b \in Registered, Precedes(a, b)
      PROVE  Place(a) < Place(b)
  <2>1. Ahead(a) \in SUBSET Ahead(b)
    <3> SUFFICES ASSUME NEW c \in Ahead(a) PROVE c \in Ahead(b)
      OBVIOUS
    <3>1. c \in Registered /\ Precedes(c, a)
      BY DEF Ahead
    <3>2. Precedes(c, b) /\ c # b
      BY <1>4, <3>1, PrecedesOrders
    <3> QED BY <3>1, <3>2 DEF Ahead
  <2>2. a \in Ahead(b) /\ a \notin Ahead(a)
    BY <1>4, PrecedesOrders DEF Ahead
  <2>3. Ahead(a) # Ahead(b)
    BY <2>2
  <2>4. /\ Cardinality(Ahead(a)) <= Cardinality(Ahead(b))
        /\ Cardinality(Ahead(a)) # Cardinality(Ahead(b))
    BY <1>2, <2>1, <2>3, FS_Subset
  <2> QED BY <1>2, <2>4 DEF Place
<1> QED BY <1>1, <1>3, <1>4

\* ValidatorSeq has each registered operator at its place.
LEMMA SeqIsPlaces ==
  ASSUME TypeOK
  PROVE  /\ DOMAIN ValidatorSeq = 1 .. Cardinality(Registered)
         /\ \A i \in DOMAIN ValidatorSeq :
              ValidatorSeq[i] \in Registered /\ Place(ValidatorSeq[i]) = i
         /\ \A a \in Registered :
              Place(a) \in DOMAIN ValidatorSeq /\ ValidatorSeq[Place(a)] = a
<1> DEFINE n == Cardinality(Registered)
           place == [a \in Registered |-> Place(a)]
           T == 1 .. n
<1>1. \A a, b \in Registered : Place(a) = Place(b) => a = b
  <2> SUFFICES ASSUME NEW a \in Registered, NEW b \in Registered, a # b
               PROVE  Place(a) # Place(b)
    OBVIOUS
  <2>1. Place(a) \in Int /\ Place(b) \in Int
    BY Places
  <2>2. Place(a) < Place(b) \/ Place(b) < Place(a)
    BY Places, PrecedesOrders
  <2> QED BY <2>1, <2>2
<1>2. n \in Nat
  BY Places, FS_CardinalityType
<1>3. IsFiniteSet(T) /\ Cardinality(T) = n
  BY <1>2, FS_Interval
<1>4. place \in Injection(Registered, T)
  BY <1>1, Places DEF Injection, IsInjective
<1>5. place \in Surjection(Registered, T)
  <2> HIDE DEF T, place
  <2> QED BY <1>3, <1>4, FS_Injection
<1>6. \A i \in T : \E a \in Registered : Place(a) = i
  BY <1>5 DEF Surjection
<1>7. ValidatorSeq = [i \in T |-> CHOOSE a \in Registered : Place(a) = i]
  BY DEF ValidatorSeq, Place, Ahead
<1> HIDE DEF T
<1>8. DOMAIN ValidatorSeq = T
  BY <1>7
<1>9. ASSUME NEW i \in T
      PROVE  ValidatorSeq[i] \in Registered /\ Place(ValidatorSeq[i]) = i
  BY <1>6, <1>7
<1>10. ASSUME NEW a \in Registered
       PROVE  Place(a) \in T /\ ValidatorSeq[Place(a)] = a
  <2>1. Place(a) \in T
    BY Places DEF T
  <2> QED BY <2>1, <1>1, <1>9
<1> QED BY <1>8, <1>9, <1>10 DEF T

\* The validator set is canonical in every registry of the right type.
LEMMA Canonical == TypeOK => SetIsCanonical
<1> SUFFICES ASSUME TypeOK PROVE SetIsCanonical
  OBVIOUS
<1>1. { ValidatorSeq[i] : i \in DOMAIN ValidatorSeq } = Registered
  BY SeqIsPlaces
<1>2. ASSUME NEW i \in DOMAIN ValidatorSeq, NEW j \in DOMAIN ValidatorSeq, i < j
      PROVE  Precedes(ValidatorSeq[i], ValidatorSeq[j])
  <2> DEFINE a == ValidatorSeq[i]
             b == ValidatorSeq[j]
  <2>1. a \in Registered /\ b \in Registered /\ Place(a) = i /\ Place(b) = j
    BY SeqIsPlaces
  <2>2. i \in Int /\ j \in Int
    BY SeqIsPlaces
  <2> HIDE DEF a, b
  <2>3. a # b /\ ~(Place(b) < Place(a))
    BY <1>2, <2>1, <2>2
  <2>4. Precedes(a, b)
    BY <2>1, <2>3, Places, PrecedesOrders
  <2> QED BY <2>4 DEF a, b
<1> QED BY <1>1, <1>2 DEF SetIsCanonical, Precedes

\* Every node puts every registry in the same order: by power, ties by address,
\* each operator once.
THEOREM CanonicalAlways == Spec => []SetIsCanonical
BY TypeCorrect, Canonical, PTL

-----------------------------------------------------------------------------
(* The keys of sessions.                                                     *)

\* No more handshakes wait to start than connections were made.
Counted == \A p, q \in Peer : starting[p][q] <= connections

\* No peer shakes hands with itself.
WithOthers == \A k \in DOMAIN handshakes : handshakes[k].from # handshakes[k].to

\* All handshakes between the ends of an undisturbed one ended before it began, or
\* began after it ended.
Apart(k) ==
  handshakes[k].alone =>
    \A j \in DOMAIN handshakes :
      Between(j, handshakes[k].from, handshakes[k].to) =>
        /\ j < k => Ended(j)
        /\ j > k => Ended(k)

\* No handshake of the same two peers began after k.
Last(k) ==
  \A j \in DOMAIN handshakes :
    Between(j, handshakes[k].from, handshakes[k].to) => j <= k

\* An end that is done with an undisturbed handshake still has its key.
Kept(k) ==
  handshakes[k].alone /\ Last(k) =>
    /\ handshakes[k].client = "done" => sessions[handshakes[k].from][handshakes[k].to] = k
    /\ handshakes[k].server = "done" => sessions[handshakes[k].to][handshakes[k].from] = k

SessionsInv ==
  /\ SessionsTypeOK
  /\ Counted
  /\ WithOthers
  /\ \A k \in DOMAIN handshakes : Apart(k)
  /\ \A k \in DOMAIN handshakes : Kept(k)

\* An end of handshake k moves on.
Moves(k) ==
  /\ k \in DOMAIN handshakes
  /\ handshakes' \in Seq(Handshake)
  /\ DOMAIN handshakes' = DOMAIN handshakes
  /\ \A j \in DOMAIN handshakes : /\ handshakes'[j].from = handshakes[j].from
                                  /\ handshakes'[j].to = handshakes[j].to
                                  /\ handshakes'[j].alone = handshakes[j].alone
                                  /\ j # k => handshakes'[j] = handshakes[j]
  /\ ~ Ended(k)

\* Of an end that moves without storing a key.
Gives(k) ==
  /\ handshakes'[k].client = "done" => handshakes[k].client = "done"
  /\ handshakes'[k].server = "done" => handshakes[k].server = "done"
  /\ sessions' = sessions

\* Of a client that stores its key.
ClientKeeps(k) ==
  /\ handshakes'[k].server = handshakes[k].server
  /\ StoreSession(handshakes[k].from, handshakes[k].to, k)

\* Of a server that stores its key.
ServerKeeps(k) ==
  /\ handshakes'[k].client = handshakes[k].client
  /\ StoreSession(handshakes[k].to, handshakes[k].from, k)

\* The ends of a handshake are peers.
LEMMA EndsTyped ==
  ASSUME SessionsTypeOK, NEW k \in DOMAIN handshakes
  PROVE  handshakes[k].from \in Peer /\ handshakes[k].to \in Peer
<1>1. handshakes[k] \in Handshake
  BY DEF SessionsTypeOK
<1> QED BY <1>1 DEF Handshake

\* One goroutine less.
LEMMA OneLess ==
  ASSUME MaxConnections \in Nat, NEW f \in [Peer -> 0 .. MaxConnections], NEW q \in Peer, f[q] > 0
  PROVE  /\ [f EXCEPT ![q] = f[q] - 1] \in [Peer -> 0 .. MaxConnections]
         /\ \A y \in Peer : [f EXCEPT ![q] = f[q] - 1][y] <= f[y]
<1>1. \A y \in Peer : f[y] \in 0 .. MaxConnections
  OBVIOUS
<1>2. f[q] - 1 \in 0 .. MaxConnections /\ f[q] - 1 <= f[q]
  BY <1>1
<1>3. \A y \in Peer : f[y] <= f[y]
  BY <1>1
<1> QED BY <1>2, <1>3

\* Handshakes of two peers stay apart when one of them moves on.
LEMMA MoveApart ==
  ASSUME SessionsInv, NEW k, Moves(k)
  PROVE  WithOthers' /\ \A j \in DOMAIN handshakes' : Apart(j)'
<1>1. WithOthers'
  BY DEF SessionsInv, WithOthers, Moves
<1>2. ASSUME NEW j \in DOMAIN handshakes, Ended(j)
      PROVE  Ended(j)'
  <2>1. j # k
    BY <1>2 DEF Moves
  <2>2. handshakes'[j] = handshakes[j]
    BY <2>1 DEF Moves
  <2> QED BY <1>2, <2>2 DEF Ended
<1>3. ASSUME NEW i \in DOMAIN handshakes, handshakes'[i].alone,
             NEW j \in DOMAIN handshakes,
             Between(j, handshakes[i].from, handshakes[i].to)'
      PROVE  /\ j < i => Ended(j)'
             /\ j > i => Ended(i)'
  <2>1. handshakes[i].alone /\ Between(j, handshakes[i].from, handshakes[i].to)
    BY <1>3 DEF Moves, Between
  <2>2. (j < i => Ended(j)) /\ (j > i => Ended(i))
    BY <2>1 DEF SessionsInv, Apart
  <2> QED BY <1>2, <2>2
<1>4. DOMAIN handshakes' = DOMAIN handshakes
  BY DEF Moves
<1> QED BY <1>1, <1>3, <1>4 DEF Apart

\* The cell of another pair of peers.
LEMMA CellApart ==
  ASSUME SessionsTypeOK, NEW p \in Peer, NEW q \in Peer, NEW x \in Peer, NEW y \in Peer, NEW k,
         StoreSession(p, q, k)
  PROVE  /\ sessions'[p][q] = k
         /\ << x, y >> # << p, q >> => sessions'[x][y] = sessions[x][y]
BY DEF SessionsTypeOK, StoreSession

\* The last undisturbed handshake of two peers is the only one that can move, so
\* nothing but its own ends writes their keys.
LEMMA MoveKeeps ==
  ASSUME SessionsInv, NEW k, Moves(k), Gives(k) \/ ClientKeeps(k) \/ ServerKeeps(k)
  PROVE  \A i \in DOMAIN handshakes' : Kept(i)'
<1> SUFFICES ASSUME NEW i \in DOMAIN handshakes, handshakes'[i].alone, Last(i)'
             PROVE  /\ handshakes'[i].client = "done" =>
                         sessions'[handshakes'[i].from][handshakes'[i].to] = i
                    /\ handshakes'[i].server = "done" =>
                         sessions'[handshakes'[i].to][handshakes'[i].from] = i
  BY DEF Kept, Moves
<1> DEFINE p == handshakes[i].from
           q == handshakes[i].to
<1>1. handshakes'[i].from = p /\ handshakes'[i].to = q /\ handshakes[i].alone
  BY DEF Moves
<1>2. Last(i)
  BY DEF Last, Moves, Between
<1>3. /\ handshakes[i].client = "done" => sessions[p][q] = i
      /\ handshakes[i].server = "done" => sessions[q][p] = i
  BY <1>1, <1>2 DEF SessionsInv, Kept
<1>4. p \in Peer /\ q \in Peer /\ p # q
  BY EndsTyped DEF SessionsInv, WithOthers
<1>5. k \in DOMAIN handshakes /\ ~ Ended(k)
  BY DEF Moves
<1>6. handshakes[k].from \in Peer /\ handshakes[k].to \in Peer
  BY <1>5, EndsTyped DEF SessionsInv
<1>7. SessionsTypeOK /\ i \in Nat /\ k \in Nat
  BY <1>5 DEF SessionsInv, SessionsTypeOK
<1>8. CASE k = i
  <2>1. CASE Gives(k)
    BY <1>1, <1>3, <1>8, <2>1 DEF Gives
  <2>2. CASE ClientKeeps(k)
    <3>1. sessions'[p][q] = i /\ sessions'[q][p] = sessions[q][p]
      BY <1>4, <1>7, <1>8, <2>2, CellApart DEF ClientKeeps
    <3> QED BY <1>1, <1>3, <1>8, <2>2, <3>1 DEF ClientKeeps
  <2>3. CASE ServerKeeps(k)
    <3>1. sessions'[q][p] = i /\ sessions'[p][q] = sessions[p][q]
      BY <1>4, <1>7, <1>8, <2>3, CellApart DEF ServerKeeps
    <3> QED BY <1>1, <1>3, <1>8, <2>3, <3>1 DEF ServerKeeps
  <2> QED BY <2>1, <2>2, <2>3
<1>9. CASE k # i
  <2>1. ~ Between(k, p, q)
    <3>1. SUFFICES ASSUME Between(k, p, q) PROVE FALSE
      OBVIOUS
    <3>2. k < i
      BY <1>2, <1>5, <1>7, <1>9, <3>1 DEF Last
    <3>3. Ended(k)
      BY <1>1, <1>5, <3>1, <3>2 DEF SessionsInv, Apart
    <3> QED BY <1>5, <3>3
  <2>2. handshakes'[i] = handshakes[i]
    BY <1>9 DEF Moves
  <2>3. /\ << p, q >> # << handshakes[k].from, handshakes[k].to >>
        /\ << q, p >> # << handshakes[k].from, handshakes[k].to >>
        /\ << p, q >> # << handshakes[k].to, handshakes[k].from >>
        /\ << q, p >> # << handshakes[k].to, handshakes[k].from >>
    BY <2>1 DEF Between
  <2>4. sessions'[p][q] = sessions[p][q] /\ sessions'[q][p] = sessions[q][p]
    <3>1. CASE Gives(k)
      BY <3>1 DEF Gives
    <3>2. CASE ClientKeeps(k)
      BY <1>4, <1>6, <1>7, <2>3, <3>2, CellApart DEF ClientKeeps
    <3>3. CASE ServerKeeps(k)
      BY <1>4, <1>6, <1>7, <2>3, <3>3, CellApart DEF ServerKeeps
    <3> QED BY <3>1, <3>2, <3>3
  <2> QED BY <1>1, <1>3, <2>2, <2>4
<1> QED BY <1>8, <1>9

\* The actions of an end of a handshake move it on, and store its key or none.
LEMMA EndsMove ==
  ASSUME SessionsInv, NEW k \in DOMAIN handshakes,
         \/ ServerAnswers(k) \/ ServerStores(k) \/ ServerFails(k)
         \/ ClientStores(k) \/ ClientFails(k)
  PROVE  /\ Moves(k)
         /\ Gives(k) \/ ClientKeeps(k) \/ ServerKeeps(k)
<1>1. handshakes \in Seq(Handshake) /\ handshakes[k] \in Handshake
  BY DEF SessionsInv, SessionsTypeOK
<1>2. ASSUME NEW x \in {"done", "failed"}, handshakes[k].client = "waiting",
             handshakes' = [handshakes EXCEPT ![k].client = x]
      PROVE  /\ Moves(k) /\ handshakes'[k].client = x
             /\ handshakes'[k].server = handshakes[k].server
  <2>1. handshakes'[k] = [handshakes[k] EXCEPT !.client = x]
    BY <1>1, <1>2
  <2>2. handshakes'[k] \in Handshake
    BY <1>1, <2>1 DEF Handshake
  <2>3. DOMAIN handshakes' = DOMAIN handshakes /\ handshakes' \in Seq(Handshake)
    BY <1>1, <1>2, <2>1, <2>2
  <2>4. \A j \in DOMAIN handshakes : j # k => handshakes'[j] = handshakes[j]
    BY <1>2
  <2>5. /\ handshakes'[k].from = handshakes[k].from
        /\ handshakes'[k].to = handshakes[k].to
        /\ handshakes'[k].alone = handshakes[k].alone
        /\ handshakes'[k].server = handshakes[k].server
        /\ handshakes'[k].client = x
    BY <1>1, <2>1 DEF Handshake
  <2>6. ~ Ended(k)
    BY <1>2 DEF Ended
  <2> QED BY <2>3, <2>4, <2>5, <2>6 DEF Moves
<1>3. ASSUME NEW x \in {"sent", "done", "failed"}, handshakes[k].server \in {"waiting", "sent"},
             handshakes' = [handshakes EXCEPT ![k].server = x]
      PROVE  /\ Moves(k) /\ handshakes'[k].server = x
             /\ handshakes'[k].client = handshakes[k].client
  <2>1. handshakes'[k] = [handshakes[k] EXCEPT !.server = x]
    BY <1>1, <1>3
  <2>2. handshakes'[k] \in Handshake
    BY <1>1, <2>1 DEF Handshake
  <2>3. DOMAIN handshakes' = DOMAIN handshakes /\ handshakes' \in Seq(Handshake)
    BY <1>1, <1>3, <2>1, <2>2
  <2>4. \A j \in DOMAIN handshakes : j # k => handshakes'[j] = handshakes[j]
    BY <1>3
  <2>5. /\ handshakes'[k].from = handshakes[k].from
        /\ handshakes'[k].to = handshakes[k].to
        /\ handshakes'[k].alone = handshakes[k].alone
        /\ handshakes'[k].client = handshakes[k].client
        /\ handshakes'[k].server = x
    BY <1>1, <2>1 DEF Handshake
  <2>6. ~ Ended(k)
    BY <1>3 DEF Ended
  <2> QED BY <2>3, <2>4, <2>5, <2>6 DEF Moves
<1>4. CASE ServerAnswers(k)
  BY <1>3, <1>4 DEF ServerAnswers, Gives
<1>5. CASE ServerStores(k)
  BY <1>3, <1>5 DEF ServerStores, ServerKeeps
<1>6. CASE ServerFails(k)
  BY <1>3, <1>6 DEF ServerFails, Gives
<1>7. CASE ClientStores(k)
  BY <1>2, <1>7 DEF ClientStores, ClientKeeps
<1>8. CASE ClientFails(k)
  BY <1>2, <1>8 DEF ClientFails, Gives
<1> QED BY <1>4, <1>5, <1>6, <1>7, <1>8

\* A session may hold any key.
LEMMA StoreType ==
  ASSUME sessions \in [Peer -> [Peer -> Key]], NEW p \in Peer, NEW q \in Peer,
         NEW k \in DOMAIN handshakes, DOMAIN handshakes' = DOMAIN handshakes,
         StoreSession(p, q, k)
  PROVE  sessions' \in [Peer -> [Peer -> Key']]
<1>1. Key' = Key /\ k \in Key
  BY DEF Key
<1> HIDE DEF Key
<1>2. [sessions[p] EXCEPT ![q] = k] \in [Peer -> Key]
  BY <1>1
<1>3. sessions' = [sessions EXCEPT ![p] = [sessions[p] EXCEPT ![q] = k]]
  BY DEF StoreSession
<1> QED BY <1>1, <1>2, <1>3

\* What an end does leaves the types and the bookkeeping intact.
LEMMA EndsKeep ==
  ASSUME SessionsInv, NEW k \in DOMAIN handshakes,
         \/ ServerAnswers(k) \/ ServerStores(k) \/ ServerFails(k)
         \/ ClientStores(k) \/ ClientFails(k)
  PROVE  SessionsInv'
<1>1. /\ Moves(k)
      /\ Gives(k) \/ ClientKeeps(k) \/ ServerKeeps(k)
  BY EndsMove
<1>2. /\ WithOthers'
      /\ \A j \in DOMAIN handshakes' : Apart(j)'
      /\ \A i \in DOMAIN handshakes' : Kept(i)'
  BY <1>1, MoveApart, MoveKeeps
<1>3. UNCHANGED << up, connections, starting >>
  BY DEF ServerAnswers, ServerStores, ServerFails, ClientStores, ClientFails
<1>4. failures' \in Nat
  BY DEF SessionsInv, SessionsTypeOK, Breaks,
         ServerAnswers, ServerStores, ServerFails, ClientStores, ClientFails
<1>5. sessions' \in [Peer -> [Peer -> Key']]
  <2>1. sessions \in [Peer -> [Peer -> Key]] /\ DOMAIN handshakes' = DOMAIN handshakes
    BY <1>1 DEF SessionsInv, SessionsTypeOK, Moves
  <2>2. handshakes[k].from \in Peer /\ handshakes[k].to \in Peer
    BY EndsTyped DEF SessionsInv
  <2>3. CASE Gives(k)
    BY <2>1, <2>3 DEF Gives, Key
  <2>4. CASE ClientKeeps(k)
    BY <2>1, <2>2, <2>4, StoreType DEF ClientKeeps
  <2>5. CASE ServerKeeps(k)
    BY <2>1, <2>2, <2>5, StoreType DEF ServerKeeps
  <2> QED BY <1>1, <2>3, <2>4, <2>5
<1>6. handshakes' \in Seq(Handshake)
  BY <1>1 DEF Moves
<1>7. SessionsTypeOK' /\ Counted'
  BY <1>3, <1>4, <1>5, <1>6 DEF SessionsInv, SessionsTypeOK, Counted
<1> QED BY <1>2, <1>7 DEF SessionsInv

\* A new handshake comes last, and disturbs those of its peers that still run.
LEMMA OpenKeeps ==
  ASSUME MaxConnections \in Nat, SessionsInv, NEW p \in Peer, NEW q \in Peer \ {p}, OpenStream(p, q)
  PROVE  SessionsInv'
<1> DEFINE n == Len(handshakes)
           f == [k \in DOMAIN handshakes |->
                   IF k \in Running(p, q) THEN [handshakes[k] EXCEPT !.alone = FALSE]
                                              ELSE handshakes[k]]
           new == [from |-> p, to |-> q, client |-> "waiting", server |-> "waiting",
                   alone |-> Running(p, q) = {}]
<1>1. handshakes' = Append(f, new)
  BY DEF OpenStream
<1>2. n \in Nat /\ DOMAIN handshakes = 1 .. n /\ \A k \in 1 .. n : handshakes[k] \in Handshake
  BY DEF SessionsInv, SessionsTypeOK
<1>3. \A k \in 1 .. n : /\ f[k] \in Handshake
                        /\ f[k].from = handshakes[k].from /\ f[k].to = handshakes[k].to
                        /\ f[k].client = handshakes[k].client
                        /\ f[k].server = handshakes[k].server
                        /\ f[k].alone => handshakes[k].alone /\ k \notin Running(p, q)
  BY <1>2 DEF Handshake
<1>4. f \in Seq(Handshake) /\ Len(f) = n
  <2>1. f \in [1 .. n -> Handshake]
    BY <1>2, <1>3
  <2> QED BY <1>2, <2>1
<1>5. new \in Handshake
  BY DEF Handshake
<1> HIDE DEF f
<1>6. /\ handshakes' \in Seq(Handshake)
      /\ DOMAIN handshakes' = 1 .. (n + 1)
      /\ handshakes'[n + 1] = new
      /\ \A k \in 1 .. n : handshakes'[k] = f[k]
  <2> HIDE DEF new
  <2> QED BY <1>1, <1>2, <1>4, <1>5
<1> HIDE DEF n
<1>7. /\ \A k \in 1 .. n : /\ handshakes'[k].from = handshakes[k].from
                           /\ handshakes'[k].to = handshakes[k].to
                           /\ handshakes'[k].client = handshakes[k].client
                           /\ handshakes'[k].server = handshakes[k].server
                           /\ handshakes'[k].alone =>
                                handshakes[k].alone /\ k \notin Running(p, q)
      /\ handshakes'[n + 1].from = p /\ handshakes'[n + 1].to = q
      /\ handshakes'[n + 1].client = "waiting" /\ handshakes'[n + 1].server = "waiting"
      /\ handshakes'[n + 1].alone => Running(p, q) = {}
  <2>1. ASSUME NEW k \in 1 .. n
        PROVE  /\ handshakes'[k].from = handshakes[k].from
               /\ handshakes'[k].to = handshakes[k].to
               /\ handshakes'[k].client = handshakes[k].client
               /\ handshakes'[k].server = handshakes[k].server
               /\ handshakes'[k].alone => handshakes[k].alone /\ k \notin Running(p, q)
    <3>1. handshakes'[k] = f[k]
      BY <1>6
    <3> QED BY <1>3, <3>1
  <2>2. handshakes'[n + 1] = new
    BY <1>6
  <2>3. /\ new.from = p /\ new.to = q /\ new.client = "waiting" /\ new.server = "waiting"
        /\ new.alone = (Running(p, q) = {})
    OBVIOUS
  <2> HIDE DEF new
  <2> QED BY <2>1, <2>2, <2>3
<1>8. sessions' = sessions /\ connections' = connections /\ failures' = failures /\ up' = up
  BY DEF OpenStream
<1>9. \A k \in 1 .. n : Ended(k)' <=> Ended(k)
  BY <1>7 DEF Ended
<1>10. \A k \in 1 .. n : Between(k, p, q) => k \in Running(p, q) \/ Ended(k)
  BY <1>2 DEF Running
<1>11. WithOthers'
  <2>1. ASSUME NEW k \in 1 .. (n + 1) PROVE handshakes'[k].from # handshakes'[k].to
    <3>1. CASE k = n + 1
      BY <1>7, <3>1
    <3>2. CASE k \in 1 .. n
      BY <1>2, <1>7, <3>2 DEF SessionsInv, WithOthers
    <3> QED BY <1>2, <3>1, <3>2 DEF n
  <2> QED BY <1>6, <2>1 DEF WithOthers
<1>12. ASSUME NEW k \in 1 .. (n + 1) PROVE Apart(k)'
  <2> SUFFICES ASSUME handshakes'[k].alone, NEW j \in 1 .. (n + 1),
                      Between(j, handshakes[k].from, handshakes[k].to)'
               PROVE  (j < k => Ended(j)') /\ (j > k => Ended(k)')
    BY <1>6 DEF Apart
  <2>1. n \in Nat
    BY <1>2
  <2>2. CASE k = n + 1
    <3>1. ASSUME j < k PROVE j \in 1 .. n
      BY <2>1, <2>2, <3>1
    <3>2. ASSUME j \in 1 .. n PROVE Ended(j)'
      <4>1. Between(j, p, q)
        BY <1>7, <2>2, <3>2 DEF Between
      <4> QED BY <1>7, <1>9, <1>10, <2>2, <3>2, <4>1
    <3>3. ~ (j > k)
      BY <2>1, <2>2
    <3> QED BY <3>1, <3>2, <3>3
  <2>3. CASE k \in 1 .. n /\ j = n + 1
    <3>1. Between(k, p, q)
      BY <1>7, <2>3 DEF Between
    <3>2. Ended(k)'
      BY <1>7, <1>9, <1>10, <2>3, <3>1
    <3>3. ~ (j < k)
      BY <2>1, <2>3
    <3> QED BY <3>2, <3>3
  <2>4. CASE k \in 1 .. n /\ j \in 1 .. n
    <3>1. handshakes[k].alone /\ Between(j, handshakes[k].from, handshakes[k].to)
      BY <1>7, <2>4 DEF Between
    <3> QED BY <1>2, <1>9, <2>4, <3>1 DEF SessionsInv, Apart
  <2>5. (k = n + 1 \/ k \in 1 .. n) /\ (j = n + 1 \/ j \in 1 .. n)
    BY <2>1
  <2> QED BY <2>2, <2>3, <2>4, <2>5
<1>13. ASSUME NEW k \in 1 .. (n + 1) PROVE Kept(k)'
  <2>1. CASE k = n + 1
    BY <1>7, <2>1 DEF Kept
  <2>2. CASE k \in 1 .. n
    <3>1. ASSUME Last(k)' PROVE Last(k)
      <4>1. ASSUME NEW j \in 1 .. n, Between(j, handshakes[k].from, handshakes[k].to)
            PROVE  j <= k
        <5>1. Between(j, handshakes[k].from, handshakes[k].to)'
          BY <1>7, <2>2, <4>1 DEF Between
        <5>2. j \in DOMAIN handshakes'
          BY <1>2, <1>6
        <5> QED BY <3>1, <5>1, <5>2 DEF Last
      <4> QED BY <1>2, <4>1 DEF Last
    <3>2. Kept(k)
      BY <1>2, <2>2 DEF SessionsInv
    <3> QED BY <1>7, <1>8, <2>2, <3>1, <3>2 DEF Kept
  <2>3. k = n + 1 \/ k \in 1 .. n
    BY <1>2
  <2> QED BY <2>1, <2>2, <2>3
<1>14. sessions' \in [Peer -> [Peer -> Key']]
  <2>1. Key \subseteq Key'
    BY <1>2, <1>6 DEF Key
  <2>2. sessions \in [Peer -> [Peer -> Key]]
    BY DEF SessionsInv, SessionsTypeOK
  <2> HIDE DEF Key
  <2> QED BY <1>8, <2>1, <2>2
<1>15. /\ starting' \in [Peer -> [Peer -> 0 .. MaxConnections]]
       /\ Counted'
  <2> DEFINE less == [starting[p] EXCEPT ![q] = starting[p][q] - 1]
  <2>1. starting' = [starting EXCEPT ![p] = less] /\ starting[p][q] > 0
    BY DEF OpenStream
  <2>2. starting \in [Peer -> [Peer -> 0 .. MaxConnections]] /\ connections \in 0 .. MaxConnections
    BY DEF SessionsInv, SessionsTypeOK
  <2>3. less \in [Peer -> 0 .. MaxConnections] /\ \A y \in Peer : less[y] <= starting[p][y]
    <3>1. starting[p] \in [Peer -> 0 .. MaxConnections]
      BY <2>2
    <3> QED BY <2>1, <3>1, OneLess
  <2>4. starting' \in [Peer -> [Peer -> 0 .. MaxConnections]]
    BY <2>1, <2>2, <2>3
  <2>5. \A x, y \in Peer : starting'[x][y] <= starting[x][y]
    BY <2>1, <2>2, <2>3
  <2>6. \A x, y \in Peer : starting[x][y] <= connections
    BY DEF SessionsInv, Counted
  <2>7. \A x, y \in Peer : starting'[x][y] \in Int /\ starting[x][y] \in Int
    BY <2>2, <2>4
  <2>8. connections \in Int
    BY <2>2
  <2> QED BY <1>8, <2>4, <2>5, <2>6, <2>7, <2>8 DEF Counted
<1>16. SessionsTypeOK'
  BY <1>6, <1>8, <1>14, <1>15 DEF SessionsInv, SessionsTypeOK
<1> QED BY <1>6, <1>11, <1>12, <1>13, <1>15, <1>16 DEF SessionsInv

\* A step that touches no handshake and no session.
LEMMA OthersKeep ==
  ASSUME SessionsInv, UNCHANGED << handshakes, sessions >>, SessionsTypeOK', Counted'
  PROVE  SessionsInv'
<1>1. \A k : Apart(k)' <=> Apart(k)
  BY DEF Apart, Between, Ended
<1>2. \A k : Kept(k)' <=> Kept(k)
  BY DEF Kept, Last, Between
<1> QED BY <1>1, <1>2 DEF SessionsInv, WithOthers

\* A stream that cannot be opened starts no handshake.
LEMMA OpenFailsKeeps ==
  ASSUME MaxConnections \in Nat, SessionsInv, NEW p \in Peer, NEW q \in Peer, OpenFails(p, q)
  PROVE  SessionsInv'
<1> DEFINE less == [starting[p] EXCEPT ![q] = starting[p][q] - 1]
<1>1. starting' = [starting EXCEPT ![p] = less] /\ starting[p][q] > 0
  BY DEF OpenFails
<1>2. starting \in [Peer -> [Peer -> 0 .. MaxConnections]] /\ connections \in 0 .. MaxConnections
  BY DEF SessionsInv, SessionsTypeOK
<1>3. less \in [Peer -> 0 .. MaxConnections] /\ \A y \in Peer : less[y] <= starting[p][y]
  <2>1. starting[p] \in [Peer -> 0 .. MaxConnections]
    BY <1>2
  <2> QED BY <1>1, <2>1, OneLess
<1>4. starting' \in [Peer -> [Peer -> 0 .. MaxConnections]]
  BY <1>1, <1>2, <1>3
<1>5. \A x, y \in Peer : starting'[x][y] <= starting[x][y]
  BY <1>1, <1>2, <1>3
<1>6. \A x, y \in Peer : starting[x][y] <= connections
  BY DEF SessionsInv, Counted
<1>7. \A x, y \in Peer : starting'[x][y] \in Int /\ starting[x][y] \in Int
  BY <1>2, <1>4
<1>8. UNCHANGED << up, connections, handshakes, sessions >>
  BY DEF OpenFails
<1>9. Counted'
  BY <1>2, <1>5, <1>6, <1>7, <1>8 DEF Counted
<1>10. failures' \in Nat
  BY DEF SessionsInv, SessionsTypeOK, OpenFails, Breaks
<1>11. SessionsTypeOK'
  BY <1>4, <1>8, <1>10 DEF SessionsInv, SessionsTypeOK, Key
<1> QED BY <1>8, <1>9, <1>11, OthersKeep

\* A connection is told to each end once.
LEMMA ConnectKeeps ==
  ASSUME MaxConnections \in Nat, SessionsInv, NEW p \in Peer, NEW q \in Peer, Connect(p, q)
  PROVE  SessionsInv'
<1>1. UNCHANGED << up, handshakes, sessions, failures >>
  BY DEF Connect
<1>2. connections \in 0 .. MaxConnections /\ connections < MaxConnections /\ connections' = connections + 1
  BY DEF SessionsInv, SessionsTypeOK, Connect
<1>3. \A x, y \in Peer : starting[x][y] \in 0 .. MaxConnections /\ starting[x][y] <= connections
  BY DEF SessionsInv, SessionsTypeOK, Counted
<1>4. starting' = [x \in Peer |-> [y \in Peer |->
        IF {x, y} = {p, q} /\ x \in up THEN starting[x][y] + 1 ELSE starting[x][y]]]
  BY DEF Connect
<1>5. \A x, y \in Peer : starting'[x][y] = starting[x][y] + 1 \/ starting'[x][y] = starting[x][y]
  BY <1>4
<1>6. \A x, y \in Peer : starting'[x][y] \in 0 .. MaxConnections /\ starting'[x][y] <= connections'
  BY <1>2, <1>3, <1>5
<1>7. starting' \in [Peer -> [Peer -> 0 .. MaxConnections]]
  <2>1. starting' = [x \in Peer |-> [y \in Peer |-> starting'[x][y]]]
    BY <1>4
  <2> QED BY <1>6, <2>1
<1>8. connections' \in 0 .. MaxConnections
  BY <1>2
<1>9. SessionsTypeOK' /\ Counted'
  BY <1>1, <1>6, <1>7, <1>8 DEF SessionsInv, SessionsTypeOK, Key, Counted
<1> QED BY <1>1, <1>9, OthersKeep

\* The invariant, of a run of handshakes between any peers.
LEMMA SessionsInvAlways == SessionsSpec => []SessionsInv
<1>0. MaxConnections \in Nat
  BY SessionsAssumption
<1>1. ASSUME SessionsInit PROVE SessionsInv
  <2>1. handshakes \in Seq(Handshake) /\ DOMAIN handshakes = {}
    BY <1>1 DEF SessionsInit
  <2>2. sessions \in [Peer -> [Peer -> Key]]
    BY <1>1 DEF SessionsInit, Key
  <2>3. starting \in [Peer -> [Peer -> 0 .. MaxConnections]] /\ \A p, q \in Peer : starting[p][q] = 0
    BY <1>0, <1>1 DEF SessionsInit
  <2>4. up \subseteq Peer /\ connections = 0 /\ failures = 0
    BY <1>1 DEF SessionsInit
  <2>5. SessionsTypeOK
    BY <1>0, <2>1, <2>2, <2>3, <2>4 DEF SessionsTypeOK
  <2> QED BY <2>1, <2>3, <2>4, <2>5 DEF SessionsInv, Counted, WithOthers
<1>2. ASSUME SessionsInv, [SessionsNext]_sessionsVars PROVE SessionsInv'
  <2>1. ASSUME NEW p \in Peer, Register(p) PROVE SessionsInv'
    BY <1>2, <2>1, OthersKeep DEF Register, SessionsInv, SessionsTypeOK, Key, Counted
  <2>2. ASSUME NEW p \in Peer, NEW q \in Peer \ {p},
               Connect(p, q) \/ OpenStream(p, q) \/ OpenFails(p, q)
        PROVE  SessionsInv'
    BY <1>0, <1>2, <2>2, ConnectKeeps, OpenKeeps, OpenFailsKeeps
  <2>3. ASSUME NEW k \in DOMAIN handshakes,
               \/ ServerAnswers(k) \/ ServerStores(k) \/ ServerFails(k)
               \/ ClientStores(k) \/ ClientFails(k)
        PROVE  SessionsInv'
    BY <1>2, <2>3, EndsKeep
  <2>4. CASE UNCHANGED sessionsVars
    BY <1>2, <2>4, OthersKeep DEF sessionsVars, SessionsInv, SessionsTypeOK, Key, Counted
  <2> QED BY <1>2, <2>1, <2>2, <2>3, <2>4 DEF SessionsNext
<1> QED BY <1>1, <1>2, PTL DEF SessionsSpec

\* Peers, sessions and handshakes have their types (p2p.go), for any peers and any
\* number of connections and failures.
THEOREM SessionsTypeCorrect == SessionsSpec => []SessionsTypeOK
<1>1. SessionsInv => SessionsTypeOK
  BY DEF SessionsInv
<1> QED BY <1>1, SessionsInvAlways, PTL

\* After an undisturbed handshake (initiateKyber, handleKyberStream) each end opens
\* what the other encrypts, between any peers, after any number of others that failed or
\* overlapped.
THEOREM SoloHandshakeAgreesAlways == SessionsSpec => []SoloHandshakeAgrees
<1>1. ASSUME SessionsInv PROVE SoloHandshakeAgrees
  <2> SUFFICES ASSUME NEW k \in DOMAIN handshakes, handshakes[k].alone,
                      handshakes[k].client = "done", handshakes[k].server = "done",
                      \A j \in DOMAIN handshakes :
                        Between(j, handshakes[k].from, handshakes[k].to) => j <= k
               PROVE  LET p == handshakes[k].from
                          q == handshakes[k].to
                      IN  /\ sessions[p][q] = k
                          /\ DecryptFromPeer(q, p, EncryptForPeer(p, q))
                          /\ DecryptFromPeer(p, q, EncryptForPeer(q, p))
    BY DEF SoloHandshakeAgrees
  <2>1. Kept(k) /\ Last(k)
    BY <1>1 DEF SessionsInv, Last
  <2>2. k \in Nat
    BY <1>1 DEF SessionsInv, SessionsTypeOK
  <2>3. NoKey \notin Nat
    BY SessionsAssumption
  <2> QED BY <2>1, <2>2, <2>3 DEF Kept, DecryptFromPeer, EncryptForPeer
<1> QED BY <1>1, SessionsInvAlways, PTL

=============================================================================
