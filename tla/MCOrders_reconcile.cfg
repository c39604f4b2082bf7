SPECIFICATION FairSpec
CONSTANTS
  o1 = o1
  o2 = o2
  o3 = o3
  f1 = f1
  NoIntent = NoIntent
  Order <- Three
  Offering <- OneOffering
  Stock <- StockTwo
  Qty <- PairLast
  SubOrder = {o1, o2}
  SetupCheckout = {}
  Closable = {}
  SameCheckout <- DoubleSubmit
  Total <- TotalFive
  Deposit <- NoDeposit
  NoShowFeeCents = 2
  Limit = 1
  Pass = {}
  Faults = {"expiry"}
INVARIANTS
  CanceledHoldsNothing
PROPERTIES
  DeadHoldReconciled
  KeepsPromise
CHECK_DEADLOCK FALSE
