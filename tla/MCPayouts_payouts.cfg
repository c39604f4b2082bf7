SPECIFICATION FairSpec
CONSTANTS
  o1 = o1
  o2 = o2
  Order <- TwoOrders
  Subtotal <- Subtotals
  Fee <- Fees3And5
  SplitBps = 0
  RefundedAtColumn = TRUE
  Pass = {"c1", "c2"}
  Faults <- TransferFault
  Closable = {o1}
  MaxMishaps = 1
INVARIANTS
  PayoutsTypeOK
  PaidAtMostOnce
  RetriesBounded
  PageAgrees
  EachAccountedFor
PROPERTIES
  FailedTransferSettled
CHECK_DEADLOCK FALSE
