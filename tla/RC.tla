--------------------------------- MODULE RC ---------------------------------
(* Resource credits (pkg/rc/rc.go): what an account may hold, how it grows   *)
(* with time and what a transaction costs.  Every product and sum of the     *)
(* source saturates at the largest machine integer, by a division before     *)
(* each multiplication; here that is Sat.                                    *)
EXTENDS RCTime

CONSTANTS
  Alpha, Beta,                \* credit ceiling and growth per unit of stake
  CSize, CCompute, CStorage,  \* prices of a byte, an instruction, a write
  MaxUint                     \* the largest machine integer (2^64 - 1)

\* The largest rate or price a genesis may set.
MaxRate == 1000000

\* Params.ValidateGenesis, which also looks at the clock's parameters.
ValidateGenesis(windowN, maxSkewSec) ==
  /\ {Alpha, Beta, CSize, CCompute, CStorage} \subseteq 1 .. MaxRate
  /\ windowN \in Nat \ {0}
  /\ maxSkewSec \in Nat

ASSUME RCAssumption == MaxUint \in Nat \ {0}

Sat(x) == IF x > MaxUint THEN MaxUint ELSE x

RCMax(stake) == Sat(Alpha * stake)

\* Mutant: the difference of the times is not guarded and wraps.
RegenWraps(rc, stake, lastTime, newTime) ==
  LET dt == (newTime - lastTime) % (MaxUint + 1)
      grown == Sat(rc + Sat(Sat(dt * Beta) * stake))
  IN  IF stake = 0 THEN 0
      ELSE IF grown > RCMax(stake) THEN RCMax(stake) ELSE grown

\* Regen, the credit alone: the second result is always the new time, also
\* when time has gone back.
Regen(rc, stake, lastTime, newTime) ==
  LET dt == IF newTime < lastTime THEN 0 ELSE newTime - lastTime
      grown == Sat(rc + Sat(Sat(dt * Beta) * stake))
  IN  IF stake = 0 THEN 0
      ELSE IF grown > RCMax(stake) THEN RCMax(stake) ELSE grown

Cost(sizeBytes, instructions, stateWrites) ==
  Sat(CSize * sizeBytes + CCompute * instructions + CStorage * stateWrites)

=============================================================================
