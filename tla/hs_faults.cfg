SPECIFICATION Spec
CONSTANTS
  v1 = v1
  v2 = v2
  v3 = v3
  MCLead = 1
  MaxHeight = 2
  MCTxList = {{}}
  MCTimes = {12, 13}
  Node = {v1, v2}
  ValidatorSeq <- MCTwo
  Power <- MCPower
  U64 = 64
  BlockHash <- MCBlockHash
  BlockOf <- MCBlockOf
  ZeroHash = 0
  TxList <- MCTxList
  Time <- MCTimes
  Root <- MCRoot
  GenesisRoot = {}
  Exec <- MCExec
  Reject <- MCReject
  ApplyGenesis <- MCApplyGenesis
  GenesisTime = 10
  MaxSkewSec = 2
  WindowN = 1
  DriverInOrder = TRUE
  Collectors = {v1}
  Timers = {v1, v2}
  MaxRound = 1
  MaxProposals = 2
  MaxRestarts = 1
  MaxIOFailures = 1
CHECK_DEADLOCK FALSE
INVARIANTS QCBacked StoreFollowsMetadata ReplicasAgree
PROPERTIES ViewNeverRegresses ImplementsChain
