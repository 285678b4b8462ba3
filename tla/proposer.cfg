SPECIFICATION Spec
CONSTANTS
  alice = alice
  bob = bob
  Addr = {alice, bob}
  GenesisAccounts <- MCGenesis
  Client = {c1}
  PoolTx <- MCPoolTx
  OtherTx <- MCOtherTx
  HashBelow <- MCHashBelow
  BlockMaxTxs = 3
  GenesisTime = 10
  MaxSkewSec = 1
  WindowN = 2
  MaxNonce = 4
  MaxClock = 12
  TxSize = 1
  CodeSize = 2
  U64 = 16
  Alpha = 4
  Beta = 1
  CSize = 1
  CCompute = 1
  CStorage = 1
  MaxUint = 15
CHECK_DEADLOCK FALSE
INVARIANTS NoFirstTxPooled SelectionFitsLedger
PROPERTIES PoolImplemented LateForEver PoolDrains
