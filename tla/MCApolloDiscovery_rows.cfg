SPECIFICATION Spec
CONSTANTS
  Operations = {o1, o2}
  NoOperation = NoOperation
  People = {p1, p2}
  NoPerson = NoPerson
  MaximumPerBatch = 2
  MaximumPerDay = 4
  ExternalSpend = 1
  MaxCost = 2
  HastyOperator = TRUE
  MaxCrashes = 1
CHECK_DEADLOCK FALSE
SYMMETRY Interchangeable
INVARIANTS
  CompletedIsImported
  AccountingIsConservative
PROPERTIES
  KeepsLookupPromise
