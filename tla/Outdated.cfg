CONSTANTS
  id1 = id1
  id2 = id2
  Absent = Absent
  Scalars <- SmallScalars
  Fields = {"n", "s"}
  Ids = {id1, id2}
  Plans <- SmallPlans
  Queries <- SmallQueries
  Policies <- SmallPolicies
  Stores <- SmallStores
  RivalRows <- SmallRivalRows
  Upserts = FALSE
  InOrder = FALSE
  MaxPlans = 3
  MaxRivals = 0
SPECIFICATION Spec
INVARIANTS CompleteAtRest
