SPECIFICATION Spec
CONSTANTS
  a = a
  b = b
  c = c
  Addr = {a, b, c}
  AddrRank <- MCAddrRank
  U64 = 1048576
  MinStake = 2
  MaxValidators = 2
  Amounts = {0, 1, 2, 3}
  SlashBps = {5000}
  JailEpochs = {2}
  MaxEpoch = 1
  MaxDelegated = 2
  MaxSlashes = 1
INVARIANTS TypeOK PowerBacked SetIsCanonical
