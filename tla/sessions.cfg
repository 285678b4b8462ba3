SPECIFICATION FairSpec
CONSTANTS
  Peer = {p1, p2}
  NoKey = NoKey
  MaxConnections = 2
  MaxFailures = 1
CHECK_DEADLOCK FALSE
INVARIANTS SessionsTypeOK SoloHandshakeAgrees
PROPERTIES HandshakesEnd Established
