SPECIFICATION Spec
CONSTANTS
  o1 = o1
  o2 = o2
  s1 = s1
  s2 = s2
  h1 = h1
  h2 = h2
  NoOrder = NoOrder
  Order <- TwoOrders
  Script <- TwoScripts
  Subscribed = 1
  Clicks = 3
  DeskFaults <- AllDeskFaults
  Saver <- TwoScripts
  SavePresses = 4
  SetupFaults <- AllSetupFaults
  Handler <- TwoHandlers
  Edits = 2
  Adds = 1
  SettingsFaults <- AllSettingsFaults
SYMMETRY Interchangeable
INVARIANTS
  TypeOK
  SaidSo
  ListCurrent
  BusyIsWaiting
  Settles
  OneBox
  LaunchedIsLive
PROPERTY NothingReverts
CHECK_DEADLOCK FALSE
