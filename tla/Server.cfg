CONSTANTS
  id1 = id1
  id2 = id2
  m1 = m1
  m2 = m2
  Absent = Absent
  Scalars <- SmallScalars
  Fields = {"n", "b"}
  Ids = {id1, id2}
  Msgs = {m1, m2}
  Batches <- SmallBatches
  Worlds <- SmallWorlds
  Stores <- SmallStores
  Schema <- SmallSchema
  Lowering <- Lowerings
  Impls <- SmallImpls
SPECIFICATION Spec
INVARIANTS ServerTypeOK AcknowledgedLanded AnnouncedIsCurrent AnswersInScope
PROPERTIES KeepsRegister FoundIsMeant
