SPECIFICATION Spec
CONSTANTS
  Ranked <- TwoRanked
  Groups = {"peers", "managers"}
  GroupOf <- GroupOfEach
  Known <- OneKnown
  Requests = {q1, q2}
  NoRequest = noRequest
  Settings <- TwoSettings
  FirstLimits <- Loose
  FirstHeld = 1
  LargestPerDay = 2
  LargestPerRun = 2
  MaxCost = 1
  Sizes = {2}
  MaxTries = 0
  MaxDecisions = 1
  MaxElsewhere = 2
CHECK_DEADLOCK FALSE
INVARIANTS
  AvailableIsReady
