SPECIFICATION Spec
CONSTANTS
  Operations = {o1, o2}
  PlanCount = 3
  Filters = {f1}
  MaximumSearchCalls = 3
  PageLimit = 2
  MaxTotal = 2
  MaxCrashes = 1
CHECK_DEADLOCK FALSE
INVARIANTS
  EveryPlanHasItsTurn
PROPERTIES
  DispensesPagesOnce
  SearchesEnd
