CONSTANTS
  id1 = id1
  id2 = id2
  Absent = Absent
  Scalars <- SmallScalars
  Fields = {"n", "s"}
  Ids = {id1, id2}
  Plans <- NullPlans
  Queries <- SmallQueries
  Policies <- NullPolicies
  Stores <- NullStores
  RivalRows <- SmallRivalRows
  Upserts = FALSE
  InOrder = TRUE
  MaxPlans = 3
  MaxRivals = 0
SPECIFICATION Spec
INVARIANTS AnswersExact
