SPECIFICATION Spec
CONSTANTS
  a = a
  b = b
  MCCosts = {1, 2}
  Sender = {a, b}
  Client = {c1, c2}
  Tx <- MCTx
  CostOf <- MCCostOf
  HashBelow <- MCHashBelow
  BlockMaxTxs = 3
  MaxNonce = 2
  MaxRC = 3
CHECK_DEADLOCK FALSE
INVARIANTS QueuesSorted SelectionExecutable SelectionInOrder
PROPERTY StaleHides
