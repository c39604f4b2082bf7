SPECIFICATION FairSpec
CONSTANTS
  o1 = o1
  o2 = o2
  Order <- TwoOrders
  Subtotal <- Subtotals
  Fee <- Fees3And5
  SplitBps = 0
  RefundedAtColumn = FALSE
  Pass = {"c1"}
  Faults <- TransferFault
  Closable = {o1}
  MaxMishaps = 1
PROPERTIES
  FailedTransferSettled
CHECK_DEADLOCK FALSE
