SPECIFICATION Spec
CONSTANTS
  o1 = o1
  o2 = o2
  o3 = o3
  f1 = f1
  NoIntent = NoIntent
  Order <- Three
  Offering <- OneOffering
  Stock <- StockTwo
  Qty <- PairLast
  SubOrder = {o1, o2}
  SetupCheckout = {o1}
  Closable = {o1}
  SameCheckout <- OwnCheckout
  Total <- TotalFive
  Deposit <- NoDeposit
  NoShowFeeCents = 2
  Limit = 2
  Pass = {"c1"}
  Faults = {"decline", "late_decline"}
INVARIANTS
  TypeOK
  ReservedWithinStock
  CountersExact
PROPERTIES
  OnlyLateCancelOverwrites
CHECK_DEADLOCK FALSE
