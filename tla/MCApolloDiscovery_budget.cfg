SPECIFICATION Spec
CONSTANTS
  Operations = {o1, o2}
  NoOperation = NoOperation
  People = {p1, p2}
  NoPerson = NoPerson
  MaximumPerBatch = 2
  MaximumPerDay = 4
  ExternalSpend = 1
  MaxCost = 1
  HastyOperator = FALSE
  MaxCrashes = 1
CHECK_DEADLOCK FALSE
INVARIANTS
  OneLookupAtATime
  SpendIsHeld
  WithinDailyAllowance
PROPERTIES
  DiscoveriesEnd
