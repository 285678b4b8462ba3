-------------------------------- MODULE DPoS --------------------------------
(* The validator registry (pkg/consensus/dpos.go): registration, delegation, *)
(* slashing, and the validator set the consensus engine works with.  Stakes, *)
(* delegations and power are unsigned machine integers.                      *)
EXTENDS Integers, Sequences, FiniteSets, Sums

CONSTANTS
  Addr,            \* operator and delegator addresses
  AddrRank,        \* their order (string comparison)
  U64,             \* modulus of the machine's unsigned arithmetic
  MinStake, MaxValidators,
  Amounts,         \* stakes and delegated amounts in the calls
  SlashBps,        \* penalties in the calls, in ten-thousandths
  JailEpochs,      \* jail terms in the calls
  MaxEpoch,        \* bound on the current epoch
  MaxDelegated,    \* bound on a delegation
  MaxSlashes       \* bound on the number of slashings

ASSUME DPoSAssumption ==
  /\ IsFiniteSet(Addr)
  /\ AddrRank \in [Addr -> Int]
  /\ \A a, b \in Addr : AddrRank[a] = AddrRank[b] => a = b
  /\ U64 \in Nat \ {0}
  /\ {MinStake, MaxValidators, MaxEpoch, MaxDelegated, MaxSlashes} \subseteq Nat
  /\ Amounts \subseteq 0 .. (U64 - 1)
  /\ SlashBps \subseteq 0 .. (U64 - 1)
  /\ JailEpochs \subseteq Nat

VARIABLES
  validators,  \* DPoS.validators: a function on the registered operators
  slashes      \* how many slashings there were

vars == << validators, slashes >>

Uint == 0 .. (U64 - 1)

Validator == [stake : Uint, power : Uint, delegations : [Addr -> Uint],
              jailedUntil : Nat]

Registered == DOMAIN validators

TypeOK ==
  /\ Registered \subseteq Addr
  /\ validators \in [Registered -> Validator]
  /\ slashes \in Nat

-----------------------------------------------------------------------------

RegisterValidator(op, stake) ==
  /\ stake >= MinStake
  /\ op \notin Registered
  /\ Cardinality(Registered) < MaxValidators
  /\ validators' = [a \in Registered \union {op} |->
       IF a = op THEN [stake |-> stake, power |-> stake,
                       delegations |-> [d \in Addr |-> 0], jailedUntil |-> 0]
       ELSE validators[a]]
  /\ UNCHANGED slashes

Delegate(from, op, amount) ==
  /\ op \in Registered
  /\ amount # 0
  /\ validators[op].delegations[from] + amount <= MaxDelegated
  /\ validators' = [validators EXCEPT
       ![op].delegations[from] = (@ + amount) % U64,
       ![op].power = (@ + amount) % U64]
  /\ UNCHANGED slashes

\* Mutants: the delegation is not compared with the amount; the delegated power
\* stays.
UndelegateUnchecked(from, op, amount) ==
  /\ op \in Registered
  /\ validators' = [validators EXCEPT
       ![op].delegations[from] = @ - amount,
       ![op].power = (@ - amount) % U64]
  /\ UNCHANGED slashes

UndelegateKeepsPower(from, op, amount) ==
  /\ op \in Registered
  /\ validators[op].delegations[from] >= amount
  /\ validators' = [validators EXCEPT ![op].delegations[from] = @ - amount]
  /\ UNCHANGED slashes

Undelegate(from, op, amount) ==
  /\ op \in Registered
  /\ validators[op].delegations[from] >= amount
  /\ validators' = [validators EXCEPT
       ![op].delegations[from] = @ - amount,
       ![op].power = (@ - amount) % U64]
  /\ UNCHANGED slashes

\* SlashDoubleSign, and SlashOffline, which calls it.  The power becomes the
\* remaining stake: delegations no longer count, but are still recorded.
Slash(op, bps, jail, epoch) ==
  /\ slashes < MaxSlashes
  /\ op \in Registered
  /\ LET v == validators[op]
         cut == ((v.stake * bps) % U64) \div 10000
         left == IF v.stake >= cut THEN v.stake - cut ELSE v.stake
     IN  validators' = [validators EXCEPT
           ![op] = [v EXCEPT !.stake = left, !.power = left,
                             !.jailedUntil = epoch + jail]]
  /\ slashes' = slashes + 1

\* Mutant: equal powers are ordered by descending address.
PrecedesDescending(a, b) ==
  \/ validators[a].power > validators[b].power
  \/ validators[a].power = validators[b].power /\ AddrRank[a] > AddrRank[b]

\* The order of ValidatorSet: by power, then by address.
Precedes(a, b) ==
  \/ validators[a].power > validators[b].power
  \/ validators[a].power = validators[b].power /\ AddrRank[a] < AddrRank[b]

\* ValidatorSet: the operators in order.  Jailed validators are among them.
ValidatorSeq ==
  LET place(a) == 1 + Cardinality({ b \in Registered \ {a} : Precedes(b, a) })
  IN  [i \in 1 .. Cardinality(Registered) |->
         CHOOSE a \in Registered : place(a) = i]

-----------------------------------------------------------------------------

Init ==
  /\ validators = [a \in {} |-> 0]
  /\ slashes = 0

Next ==
  \E op \in Addr :
    \/ \E stake \in Amounts : RegisterValidator(op, stake)
    \/ \E from \in Addr, amount \in Amounts :
         Delegate(from, op, amount) \/ Undelegate(from, op, amount)
    \/ \E bps \in SlashBps, jail \in JailEpochs, epoch \in 0 .. MaxEpoch :
         Slash(op, bps, jail, epoch)

Spec == Init /\ [][Next]_vars

-----------------------------------------------------------------------------
(* Properties.                                                               *)

Delegated(op) == Total(validators[op].delegations, Addr)

\* Without slashing the voting power the engine counts is what backs it: through
\* any sequence of registrations, delegations and undelegations, a validator's
\* power is its stake and the delegations it holds (modulo the machine word).
PowerBacked ==
  slashes = 0 =>
    \A op \in Registered :
      validators[op].power = (validators[op].stake + Delegated(op)) % U64

\* ValidatorSet gives every node the same sequence: each registered operator
\* once, and consecutive ones in the order of power and address, ties included.
SetIsCanonical ==
  /\ { ValidatorSeq[i] : i \in DOMAIN ValidatorSeq } = Registered
  /\ \A i, j \in DOMAIN ValidatorSeq : i < j =>
       LET v == validators[ValidatorSeq[i]]
           w == validators[ValidatorSeq[j]]
       IN  \/ v.power > w.power
           \/ /\ v.power = w.power
              /\ AddrRank[ValidatorSeq[i]] < AddrRank[ValidatorSeq[j]]

=============================================================================
