CONSTANTS
  Routes = {r1, r2}
  Capacities <- TwoCapacities
  Ids = {1, 2}
  Budget = 2
  BudgetKnown = TRUE
  HostBudget = 3
  MaxGrowth = 1
  MaxRequests = 2
  MaxDrains = 1
  Closer = Closer
  Nobody = Nobody
SPECIFICATION Spec
INVARIANTS
  LeasesExclusive
  BytesAccounted
  DrainedMeansQuiet
PROPERTIES
  RequestsAnswered
  ClosersReturn
