SPECIFICATION Spec
CONSTANTS
  o1 = o1
  o2 = o2
  o3 = o3
  f1 = f1
  NoIntent = NoIntent
  Order <- Three
  Offering <- OneOffering
  Stock <- StockTwo
  Qty <- UnitEach
  SubOrder = {o1}
  SetupCheckout = {}
  Closable = {o1}
  SameCheckout <- OwnCheckout
  Total <- TotalFive
  Deposit <- NoDeposit
  NoShowFeeCents = 2
  Limit = 1
  Pass = {}
  Faults = {}
INVARIANTS
  NoOversell
CHECK_DEADLOCK FALSE
