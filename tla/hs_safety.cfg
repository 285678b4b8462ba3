SPECIFICATION Spec
CONSTANTS
  v1 = v1
  v2 = v2
  v3 = v3
  MCLead = 2
  MaxHeight = 2
  MCTxList = {{"a"}, {"b"}}
  MCTimes = {11}
  Node = {v1, v2, v3}
  ValidatorSeq <- MCThree
  Power <- MCPower
  U64 = 64
  BlockHash <- MCBlockHash
  BlockOf <- MCBlockOf
  ZeroHash = 0
  TxList <- MCTxList
  Time <- MCTimes
  Root <- MCRoot
  GenesisRoot = {}
  Exec <- MCExec
  Reject <- MCReject
  ApplyGenesis <- MCApplyGenesis
  GenesisTime = 10
  MaxSkewSec = 2
  WindowN = 2
  DriverInOrder = FALSE
  Collectors = {v1}
  Timers = {v1, v2}
  MaxRound = 0
  MaxProposals = 3
  MaxRestarts = 0
  MaxIOFailures = 0
CHECK_DEADLOCK FALSE
INVARIANTS TypeOK ForkAccountability CertifiedParent
