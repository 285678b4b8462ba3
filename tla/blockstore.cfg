SPECIFICATION Spec
CONSTANTS
  U64 = 16
  U8 = 8
  AddrOrder <- MCAddrOrder
  UpperBound = 3
  Genesis <- MCGenesis
  Keys <- MCKeys
  PayloadField <- MCPayloadField
  Timestamps <- MCTimestamps
  Proposer <- MCProposer
  SigLists <- MCSigLists
  MaxFields = 2
  Recipients <- MCRecipients
  MaxTxs = 2
  MaxBlocks = 2
CHECK_DEADLOCK FALSE
INVARIANTS TypeOK DecodesAsMeant NormalForm StoredUnderVotedHash TransactionsAudited SignBytesSeparate RootCoversState
PROPERTY ImplementsBlockLog
