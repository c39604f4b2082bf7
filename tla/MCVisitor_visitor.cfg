SPECIFICATION FairSpec
CONSTANTS
  t1 = t1
  r1 = r1
  r2 = r2
  s1 = s1
  s2 = s2
  Tab <- OneTab
  Request <- TwoRequests
  Pairs = 3
  SignIns = 2
  NetFaults <- AllNetFaults
  Script <- TwoScripts
  Stock = 2
  Intents = 3
  Mishaps <- AllMishaps
  Presses = 2
  Cards = 1
  PageFaults <- AllPageFaults
INVARIANTS
  TypeOK
  SpentTokenLeaves
  LinkOpensOnce
  PlacesWhatIsHeld
  OneOrder
  HoldsRemembered
  ShowsTheTruth
  DisabledIsWaiting
PROPERTIES
  CallsEnd
  ButtonsReturn
  ChoicesInOrder
CHECK_DEADLOCK FALSE
