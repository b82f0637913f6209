---------------------- MODULE ResourceServerProperties ----------------------
(***************************************************************************)
(* What must hold of the server whatever its requests do to each other.    *)
(***************************************************************************)
EXTENDS ResourceServer

Phases == {"waiting", "context", "plan", "access", "find", "scan", "named", "current",
           "write", "merge", "impl", "impl_wrote", "written", "done"}
IsRows(rows) == DOMAIN rows \subseteq Ids /\ \A id \in DOMAIN rows : rows[id] \in Row
IsResult(result) ==
  /\ result.ok \in BOOLEAN /\ IsRows(result.rows)
  /\ IF result.ok THEN result.code = "ok" ELSE result.code \in Codes
IsWrite(write) ==
  CASE write.op = "none" -> write = NoWrite
    [] write.op = "create" -> write.id \in Ids /\ write.row \in Row
    [] write.op = "patch" -> /\ write.id \in Ids /\ IsPatch(write.change)
                             /\ write.version \in {Absent} \cup Int
                             /\ write.base \in {Absent} \cup Int
    [] OTHER -> write.op = "delete" /\ write.id \in Ids

\* Every handler is in a phase its plan has, with a write exactly where one is
\* under way, and every answer carries a code of the protocol or rows.
ServerTypeOK ==
  /\ world \in Worlds /\ store \in [Ids -> Stored] /\ announced \in [Ids -> Stored]
  /\ silent \in BOOLEAN
  /\ \A id \in Ids : won[id] \subseteq [base: Int, by: Msgs \X Nat]
  /\ raced \subseteq Ids /\ torn \subseteq Ids
  /\ \A m \in Msgs :
       LET req == requests[m]
       IN /\ req.phase \in Phases
          /\ req.phase \notin {"waiting", "context", "done"} => req.at \in DOMAIN req.plans
          /\ IsWrite(req.write) /\ IsRows(req.rows)
          /\ req.phase \in {"write", "merge"} => req.write.op # "none"
          /\ req.phase = "merge" => req.current \in Row /\ req.write.op = "patch"
          /\ req.late \in BOOLEAN /\ req.torn \in BOOLEAN
          /\ \A i \in DOMAIN req.results : IsResult(req.results[i])

----------------------------------------------------------------------------
(* The optimistic check.                                                   *)

\* What creates and updates of the instance may write.
AllPlans == UNION {{plans[i] : i \in DOMAIN plans} : plans \in Batches}
Created == {plan.row : plan \in {p \in AllPlans : p.op = "create"}}
FreshRows ==
  Created \cup {[row EXCEPT !.data = [fd \in Fields |-> Column(@[fd])]] : row \in Created}
ByUpdates == {Known(plan.patch) : plan \in {p \in AllPlans : p.op = "patch"}}
ByLowerings ==
  UNION {{Known(Lowering[action][data]) : data \in DOMAIN Lowering[action]} :
           action \in DOMAIN Lowering}
ByImpls == {Impls[action] : action \in DOMAIN Impls} \ {Absent}
Changing == ByUpdates \cup ByLowerings \cup ByImpls

Register == INSTANCE VersionedRegister WITH
  Records <- Ids, Nothing <- Absent, Fresh <- FreshRows, Changes <- Changing,
  register <- store, raced <- IF world.versioned THEN raced ELSE Ids

\* The server keeps the promise of a versioned register ("It checks and bumps
\* the field on every accepted write"; of two saves based on one version the
\* second is rejected, "Nothing was overwritten") about every record for which
\* no two requests raced between their look at it and their write: no two of
\* its patches, of one message or of two, ever win at one base.  Where they
\* raced both may win, which the guide denies; a write still changes only the
\* fields it names then, except when a Redis patch was overtaken between its
\* get and its set.
KeepsRegister == Register!RSpec

\* An update that is answered as done is in the record it is answered with;
\* it is answered null only if a racing request deleted the record.
AcknowledgedLanded ==
  \A m \in Msgs : \A i \in DOMAIN requests[m].results :
    LET plan == requests[m].plans[i]
        result == requests[m].results[i]
    IN plan.op = "patch" /\ result.ok =>
         IF plan.id \in DOMAIN result.rows
         THEN \A fd \in DOMAIN Known(plan.patch) : result.rows[plan.id].data[fd] = plan.patch[fd]
         ELSE plan.id \in raced

----------------------------------------------------------------------------
(* Announcements.                                                          *)

Landing == {m \in Msgs : requests[m].phase \in {"written", "impl_wrote"}}

\* When no write is between the source and its announcement, the last
\* announcement came after every change: a subscriber that refetched then has
\* it.  A batch that fails later on takes no announcement back, and an answer
\* is out only after its change is announced.  An implementation that throws
\* halfway is announced only by the next write.
AnnouncedIsCurrent == Landing = {} /\ ~silent => announced = store

----------------------------------------------------------------------------
(* Access and answers.                                                     *)

\* A column holds one type, and filters are of their column's type.
HoldsAll(type, data) == \A fd \in Fields : data[fd] # Absent => data[fd] \in ColumnOf(type[fd])
NamesOnly(type, filter) == \A fd \in DOMAIN filter : NamesWithin(ColumnOf(type[fd]), filter[fd])
ColumnsAre(type) ==
  /\ \A rows \in Stores, id \in Ids : rows[id] # Absent => HoldsAll(type, rows[id].data)
  /\ \A row \in Created : HoldsAll(type, row.data)
  /\ \A change \in Changing : \A fd \in DOMAIN change \cap Fields :
       change[fd] \in ColumnOf(type[fd])
  /\ \A plan \in AllPlans : plan.op = "where" => NamesOnly(type, plan.filter)
  /\ \A w \in Worlds, m \in Msgs : w.scopes[m] # Absent => NamesOnly(type, w.scopes[m])

\* The scopes mean what they plainly say: no field has two bounds of one side
\* and of two types, and where a database decides, no scope names null; and
\* SQLite, which knows booleans for numbers, has columns of one type.
ScopesAreReadable ==
  /\ \A w \in Worlds, m \in Msgs : w.scopes[m] # Absent =>
       \A fd \in DOMAIN w.scopes[m] :
         /\ Plain(w.scopes[m][fd])
         /\ w.source \in Databases => NamesNoNull(w.scopes[m][fd])
  /\ (\E w \in Worlds : w.source = "sqlite") => \E type \in [Fields -> Types] : ColumnsAre(type)

\* Queries mean what they plainly say too, and a scope narrows them without
\* loss: no equality with null and no bounds of two types on one side.
QueriesAreReadable ==
  \A plan \in AllPlans, w \in Worlds : plan.op = "where" =>
    /\ \A fd \in DOMAIN plan.filter :
         /\ Plain(plan.filter[fd])
         /\ w.source \in Databases => NamesNoNull(plan.filter[fd])
    /\ \A m \in Msgs : w.scopes[m] # Absent => Combinable(plan.filter, w.scopes[m])

\* No answer holds a row outside the scope of its caller, whoever writes in
\* between; the answer of a patch may, when it raced.
AnswersInScope ==
  \A m \in Msgs : \A i \in DOMAIN requests[m].results :
    LET plan == requests[m].plans[i]
        rows == requests[m].results[i].rows
    IN \A id \in DOMAIN rows :
         \/ Scope(m) = Absent \/ MeetsAll(rows[id].data, Scope(m))
         \/ plan.op = "patch" /\ id \in raced
         \/ plan.op = "action"

\* One record comes before another in the order asked for.
Due(plan, a, b) ==
  LET x == store[a].data[plan.order.field]
      y == store[b].data[plan.order.field]
  IN ~Nullish(x) /\ ~Nullish(y) /\ ComesBefore(plan.order.direction, x, y)

\* The records a query and its scope describe.
Meant(m) ==
  {id \in Ids : /\ store[id] # Absent
                /\ MeetsAll(store[id].data, Plan(m).filter)
                /\ Scope(m) = Absent \/ MeetsAll(store[id].data, Scope(m))}

\* What the plan of m is answered from the source, if it is in this step.
FindsMeant(m) ==
  LET plan == Plan(m)
      result == requests'[m].results[Len(requests'[m].results)]
  IN /\ requests[m].phase = "find" /\ requests'[m].phase \in {"plan", "done"}
     /\ plan.op = "where" /\ result.ok
     => /\ DOMAIN result.rows \subseteq Meant(m)
        /\ \A id \in DOMAIN result.rows : result.rows[id] = store[id]
        /\ plan.limit = Absent => DOMAIN result.rows = Meant(m)
        /\ plan.order # Absent =>
             \A a \in Meant(m) \ DOMAIN result.rows, b \in DOMAIN result.rows : ~Due(plan, a, b)

\* A set answered from the source is the set that was asked for, in the plain
\* meaning of the query and the scope, whatever the source made of them: all
\* of it, or as many as asked for with none of the others due before them.
\* Redis answers rows that each were there, not necessarily at one time.
FoundIsMeant == [][\A m \in Msgs : FindsMeant(m)]_vars
=============================================================================
