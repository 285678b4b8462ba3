SPECIFICATION Spec
CONSTANTS
  alice = alice
  bob = bob
  carol = carol
  MCKinds = {"transfer", "delegate", "undelegate", "governance", "deploy", "call"}
  MCCodes = {"invalid", "broken", "good"}
  MCNonces = {0, 1, 2}
  Addr = {alice, bob, carol}
  GenesisAccounts <- MCGenesis
  TxLists <- MCTxLists
  Times = {11, 14}
  TxSize = 1
  CodeSize = 2
  U64 = 16
  GenesisTime = 10
  MaxSkewSec = 2
  WindowN = 2
  Alpha = 3
  Beta = 1
  CSize = 1
  CCompute = 1
  CStorage = 1
  MaxUint = 15
  MaxBlocks = 3
  MaxRestarts = 1
CHECK_DEADLOCK FALSE
INVARIANTS TypeOK NoncesInOrder SupplyAccounted WindowIsTail CreditEarned
PROPERTIES PreviewDecides ImplementsAtomicLedger
