--------------------------- MODULE ResourceServer ---------------------------
(***************************************************************************)
(* server/index.ts over one source backbone: sync messages under way at    *)
(* once, each a batch of plans executed one after the other, and every     *)
(* plan a chain of awaits: the access rule, the current record, the source *)
(* and the announcement of the change.  Requests interleave between them.  *)
(* A session's query and mutate are messages of one plan.                  *)
(*                                                                         *)
(* One resource is modelled.  A row is its fields and its version; a patch *)
(* names some fields; what the source answers and what the handler does    *)
(* with it is one step when it only reads.  Ghosts: `announced` is the     *)
(* store when the last change was announced, `won` (the plans, by message  *)
(* and place, whose patches won at a base) and the two flags of records    *)
(* belong to VersionedRegister.                                            *)
(***************************************************************************)
EXTENDS SourceFilters, FiniteSets, Sequences

CONSTANTS
  Ids,         \* identities of records
  Msgs,        \* sync messages
  Batches,     \* the plans a message may carry
  Worlds,      \* ways the server may be set up
  Stores,      \* the rows of the source at the start
  Schema,      \* the values the resource's schema admits in each field
  Lowering,    \* the declared actions' lowering: action, data -> patch; it
               \* throws for data outside its domain
  Impls        \* the other actions: action -> what their implementation on
               \* the server writes, Absent if there is none

Row == [data: [Fields -> Values], version: Int]
Stored == {Absent} \cup Row
Operations == {"one", "where", "create", "update", "delete"}

\* A patch names fields; one the schema does not know is called "unknown".
IsPatch(patch) ==
  /\ DOMAIN patch \subseteq Fields \cup {"unknown"}
  /\ patch \in [DOMAIN patch -> Scalars]

IsReadPlan(plan) ==
  \/ /\ plan.op = "where" /\ IsWhereFilter(plan.filter)
     /\ plan.limit \in {Absent} \cup (Nat \ {0})
     /\ plan.order \in {Absent} \cup [field: Fields, direction: {"asc", "desc"}]
  \/ plan.op = "one" /\ plan.id \in Ids
  \/ plan.op = "named" /\ plan.known \in BOOLEAN /\ plan.valid \in BOOLEAN

IsWritePlan(plan) ==
  /\ plan.op \in {"create", "patch", "delete", "action"} /\ plan.id \in Ids
  /\ plan.op = "create" => plan.row \in Row
  /\ plan.op = "patch" => IsPatch(plan.patch)
  /\ plan.op \in {"patch", "action"} => plan.base \in {Absent} \cup Int

IsPlan(plan) == IsReadPlan(plan) \/ IsWritePlan(plan)

\* access is the rule: none, or one granting each message its scope (Absent:
\* "public").  offers are the calls a Stripe namespace may lack and has.
IsWorld(w) ==
  /\ w.source \in Sources /\ w.supports \subseteq Operations
  /\ w.offers \subseteq {"create", "delete"}
  /\ w.registered \in BOOLEAN /\ w.served \in BOOLEAN /\ w.ruled \in BOOLEAN
  /\ w.versioned \in BOOLEAN
  /\ w.maxRows \in Nat
  /\ \A m \in Msgs : w.scopes[m] = Absent \/ IsWhereFilter(w.scopes[m])

ASSUME ServerAssumption ==
  /\ \A plans \in Batches : /\ plans \in Seq({plans[i] : i \in DOMAIN plans})
                            /\ \A i \in DOMAIN plans : IsPlan(plans[i])
  /\ \A w \in Worlds : IsWorld(w)
  /\ Stores \subseteq [Ids -> Stored]
  /\ Absent \notin Row /\ Absent \notin Int
  /\ \A action \in DOMAIN Lowering :
       /\ DOMAIN Lowering[action] \subseteq [Fields -> Values]
       /\ \A data \in DOMAIN Lowering[action] : IsPatch(Lowering[action][data])
  /\ \A action \in DOMAIN Impls : Impls[action] = Absent \/ IsPatch(Impls[action])

VARIABLES
  world,       \* the server's set-up, one of Worlds
  store,       \* the source's rows
  requests,    \* the handler of each message
  announced,   \* ghost: the store at the last changes.emit
  silent,      \* ghost: an implementation failed after it had written
  won, raced, torn   \* ghosts, see VersionedRegister

vars == <<world, store, requests, announced, silent, won, raced, torn>>
ghosts == <<announced, silent, won, raced, torn>>

----------------------------------------------------------------------------
(* Results, as PlanResult: the rows, or a code.                            *)

\* ERROR_CODES, as far as the server gives them.
Codes == {"unknown_resource", "no_backbone", "unsupported", "access_denied", "not_found",
          "invalid_input", "conflict", "result_limit", "rejected", "internal"}

NoRows == [id \in {} |-> Absent]
Only(id, row) == [i \in {id} |-> row]
Data(rows) == [ok |-> TRUE, code |-> "ok", rows |-> rows]
Failure(code) == [ok |-> FALSE, code |-> code, rows |-> NoRows]

NoWrite == [op |-> "none", id |-> Absent, row |-> Absent, change |-> NoRows,
            version |-> Absent, base |-> Absent]

\* The handler between two plans.
Cleared(req) ==
  [req EXCEPT !.current = Absent, !.write = NoWrite, !.keys = {}, !.rows = NoRows,
              !.late = FALSE, !.torn = FALSE]
Idle == [plans |-> <<>>, at |-> 1, phase |-> "waiting", current |-> Absent,
         write |-> NoWrite, keys |-> {}, rows |-> NoRows, late |-> FALSE, torn |-> FALSE,
         results |-> <<>>]

Plan(m) == requests[m].plans[requests[m].at]
Phase(m, phase) == requests[m].phase = phase
Goes(m, phase) == requests' = [requests EXCEPT ![m].phase = phase]

\* Mutant: the last plan is handled like any other.
Bug_NeverDone(req, result) ==
  [Cleared(req) EXCEPT !.results = Append(@, result), !.at = @ + 1, !.phase = "plan"]

\* POST: the outcome of a plan is pushed and the next plan handled.
Answered(req, result) ==
  [Cleared(req) EXCEPT !.results = Append(@, result), !.at = @ + 1,
                     !.phase = IF req.at = Len(req.plans) THEN "done" ELSE "plan"]
Answer(m, result) == requests' = [requests EXCEPT ![m] = Answered(@, result)]

----------------------------------------------------------------------------
(* Validation, scope and the version check.                                *)

\* validate of a whole record; validatePatch checks and keeps the fields the
\* schema knows, and only those that were sent.
ValidRecord(data) == \A fd \in Fields : data[fd] \in Schema[fd]
ValidPatch(patch) == \A fd \in DOMAIN patch \cap Fields : patch[fd] \in Schema[fd]
Known(patch) == [fd \in DOMAIN patch \cap Fields |-> patch[fd]]

\* Mutant: a field set to null is left alone (patch[fd] ?? data[fd]).
Bug_NullLeftAlone(data, change) ==
  [fd \in Fields |-> IF fd \in DOMAIN change /\ change[fd] # Null THEN change[fd] ELSE data[fd]]

Merge(data, change) ==
  [fd \in Fields |-> IF fd \in DOMAIN change THEN change[fd] ELSE data[fd]]

Scope(m) == world.scopes[m]
InScope(m, data) == Scope(m) = Absent \/ MatchesFilter(data, Scope(m))
ScopedFilter(m, filter) ==
  IF Scope(m) = Absent THEN filter ELSE IntersectFilters(filter, Scope(m))

\* operationOf: named queries and actions have their own declarations.
OperationOf(plan) == IF plan.op = "patch" THEN "update" ELSE plan.op
Supported(plan) ==
  OperationOf(plan) \in Operations => OperationOf(plan) \in world.supports

\* Mutant: any base version will do.
Bug_NoCheck(m, row, change, base) ==
  IF InScope(m, row.data) /\ InScope(m, Merge(row.data, change)) THEN "ok"
  ELSE "access_denied"

\* Mutant: only the record is checked, not what becomes of it.
Bug_MovesOut(m, row, change, base) ==
  CASE world.versioned /\ base # Absent /\ row.version # base -> "conflict"
    [] world.versioned /\ base # Absent /\ row.version = base -> "ok"
    [] OTHER -> IF InScope(m, row.data) THEN "ok" ELSE "access_denied"

\* applyPatch before it writes: the version first, then the scope of the
\* record as it is and as it would be.
PatchVerdict(m, row, change, base) ==
  CASE world.versioned /\ base # Absent /\ row.version # base -> "conflict"
    [] OTHER -> IF InScope(m, row.data) /\ InScope(m, Merge(row.data, change))
                THEN "ok" ELSE "access_denied"

----------------------------------------------------------------------------
(* The source backbones.                                                   *)

\* The record as it is kept and read back: SQL has a column for every field.
Kept(row) ==
  LET RoundTrip(v) == CoerceField(v.type, ToStored(v))
  IN IF world.source \notin Sql THEN row
     ELSE [row EXCEPT !.data = [fd \in Fields |-> RoundTrip(Column(row.data[fd]))]]

\* What a source may make of the rows it found: all, or as many as asked for,
\* none of the others sorting before them.
Windows(plan, rows) ==
  LET found == DOMAIN rows
      size == IF plan.limit = Absent \/ Cardinality(found) < plan.limit
              THEN Cardinality(found) ELSE plan.limit
      Before(a, b) == SortedBefore(world.source, plan.order.direction,
                                   rows[a].data[plan.order.field],
                                   rows[b].data[plan.order.field])
  IN {S \in SUBSET found :
        /\ Cardinality(S) = size
        /\ plan.order # Absent => \A a \in found \ S, b \in S : ~Before(a, b)}

Finds(rows, filter) ==
  LET found == {id \in DOMAIN rows : SourceFinds(world.source, rows[id].data, filter)}
  IN [id \in found |-> rows[id]]
Existing == [id \in {i \in Ids : store[i] # Absent} |-> store[id]]

\* Stripe has no query language, and some objects no create or del.
Declined(op) ==
  world.source = "stripe" /\ op \in {"create", "delete", "where"} \ world.offers

\* The code a write fails with at the source.  A create of an existing record
\* replaces it where rows are kept by key.  Stripe refuses it, and so does a
\* table whose identity is unique: the application's tables are taken to have
\* such an index, which no backbone makes.  Drizzle has no update of nothing;
\* Stripe fails for what it does not know.
SourceVerdict(write) ==
  LET missing == store[write.id] = Absent
  IN CASE Declined(write.op) -> "unsupported"
       [] write.op = "create" /\ world.source \in Databases \cup {"stripe"} /\ ~missing -> "internal"
       [] write.op = "patch" /\ world.source = "drizzle"
            /\ DOMAIN write.change = {} /\ write.version = Absent -> "internal"
       [] write.op # "create" /\ world.source = "stripe" /\ missing -> "internal"
       [] OTHER -> "ok"

\* The record a patch leaves of `row`.
Patched(row, write) ==
  IF row = Absent THEN Absent
  ELSE [data |-> Merge(row.data, write.change),
        version |-> IF write.version = Absent THEN row.version ELSE write.version]

\* What a write that succeeds leaves of its record.
After(write) ==
  CASE write.op = "create" -> Kept(write.row)
    [] write.op = "delete" -> Absent
    [] OTHER -> Patched(store[write.id], write)

----------------------------------------------------------------------------
(* The handler.  Phases: waiting (for the message), context, plan, access, *)
(* find, scan, named, current, write, merge, impl, written, done.          *)

Init ==
  /\ world \in Worlds
  /\ store \in Stores
  /\ requests = [m \in Msgs |-> Idle]
  /\ announced = store /\ silent = FALSE
  /\ won = [id \in Ids |-> {}] /\ raced = {} /\ torn = {}

\* POST: the message arrives and the context is asked for.
Post(m) ==
  /\ Phase(m, "waiting")
  /\ \E plans \in Batches :
       requests' = [requests EXCEPT ![m] = [Idle EXCEPT !.plans = plans, !.phase = "context"]]
  /\ UNCHANGED <<world, store, ghosts>>

\* Not JSON or not a message (400), or config.ctx throws: no plan is handled.
Turned(m) ==
  /\ Phase(m, "waiting") \/ Phase(m, "context")
  /\ Goes(m, "done")
  /\ UNCHANGED <<world, store, ghosts>>

Context(m) ==
  /\ Phase(m, "context")
  /\ Goes(m, IF requests[m].plans = <<>> THEN "done" ELSE "plan")
  /\ UNCHANGED <<world, store, ghosts>>

\* What a plan is refused for before its access rule is asked, in this order:
\* the registry's get, assertSupported, serveFor, scopeFor.
Refusal(plan) ==
  IF ~world.registered THEN "unknown_resource"
  ELSE IF ~Supported(plan) THEN "unsupported"
  ELSE IF ~world.served THEN "no_backbone"
  ELSE IF ~world.ruled THEN "access_denied" ELSE "none"

\* handlePlan up to the access rule.
Begin(m) ==
  /\ Phase(m, "plan")
  /\ IF Refusal(Plan(m)) = "none" THEN Goes(m, "access")
     ELSE Answer(m, Failure(Refusal(Plan(m))))
  /\ UNCHANGED <<world, store, ghosts>>

\* The access rule itself fails.
AccessFails(m) ==
  /\ Phase(m, "access") /\ Scope(m) # Absent
  /\ Answer(m, Failure("internal"))
  /\ UNCHANGED <<world, store, ghosts>>

\* handleRead up to the source.
StartRead(m) ==
  /\ Phase(m, "access") /\ Plan(m).op \in {"where", "one"}
  /\ LET plan == Plan(m)
     IN CASE plan.op = "one" -> Goes(m, "find")
          [] plan.op = "where" ->
               CASE ScopedFilter(m, plan.filter) = Absent -> Answer(m, Data(NoRows))
                 [] ScopedFilter(m, plan.filter) # Absent
                      /\ plan.limit # Absent /\ plan.limit > world.maxRows ->
                      Answer(m, Failure("invalid_input"))
                 [] OTHER -> Goes(m, "find")
  /\ UNCHANGED <<world, store, ghosts>>

\* handleNamedQuery up to the implementation: a query the resource does not
\* declare, or input its schema does not admit.
StartNamed(m) ==
  /\ Phase(m, "access") /\ Plan(m).op = "named"
  /\ IF Plan(m).known /\ Plan(m).valid THEN Goes(m, "named")
     ELSE Answer(m, Failure("invalid_input"))
  /\ UNCHANGED <<world, store, ghosts>>

\* handleWrite, create: validated and in scope, the record goes to the source.
StartCreate(m) ==
  /\ Phase(m, "access") /\ Plan(m).op = "create"
  /\ LET plan == Plan(m)
     IN CASE ~ValidRecord(plan.row.data) -> Answer(m, Failure("invalid_input"))
          [] ValidRecord(plan.row.data) /\ ~InScope(m, plan.row.data) ->
               Answer(m, Failure("access_denied"))
          [] OTHER ->
               requests' = [requests EXCEPT ![m].phase = "write", ![m].write =
                              [NoWrite EXCEPT !.op = "create", !.id = plan.id, !.row = plan.row]]
  /\ UNCHANGED <<world, store, ghosts>>

\* handleWrite, patch and delete, and handleAction, up to the current record.
StartUpdate(m) ==
  /\ Phase(m, "access") /\ Plan(m).op \in {"patch", "delete", "action"}
  /\ LET plan == Plan(m)
         valid == CASE plan.op = "patch" -> ValidPatch(plan.patch)
                    [] plan.op = "action" -> plan.action \in DOMAIN Lowering \cup DOMAIN Impls
                    [] OTHER -> TRUE
     IN IF valid THEN Goes(m, "current") ELSE Answer(m, Failure("invalid_input"))
  /\ UNCHANGED <<world, store, ghosts>>

----------------------------------------------------------------------------
(* Reads.                                                                  *)

\* handleRead with what the source returned: a set beyond the cap is refused,
\* one record outside the scope is null.
ReadResult(m, rows) ==
  LET plan == Plan(m)
  IN CASE plan.op = "one" ->
            Data([id \in {i \in DOMAIN rows : InScope(m, rows[i].data)} |-> rows[id]])
       [] plan.op = "where" /\ plan.limit = Absent /\ Cardinality(DOMAIN rows) > world.maxRows ->
            Failure("result_limit")
       [] OTHER -> Data(rows)

WhereAnswered(m, rows) ==
  LET found == Finds(rows, ScopedFilter(m, Plan(m).filter))
  IN \E ids \in Windows(Plan(m), found) :
       Answer(m, ReadResult(m, [id \in ids |-> found[id]]))

\* The source reads: one record, or the rows of a filter as they are at one
\* moment.
Find(m) ==
  /\ Phase(m, "find")
  /\ LET plan == Plan(m)
     IN CASE plan.op = "one" ->
               IF store[plan.id] = Absent
               THEN Answer(m, IF world.source = "stripe" THEN Failure("internal")
                              ELSE Data(NoRows))
               ELSE Answer(m, ReadResult(m, Only(plan.id, store[plan.id])))
          [] plan.op = "where" /\ Declined("where") -> Answer(m, Failure("unsupported"))
          [] plan.op = "where" /\ world.source = "redis" ->
               requests' = [requests EXCEPT ![m].phase = "scan",
                              ![m].keys = {id \in Ids : store[id] # Absent}]
          [] OTHER -> WhereAnswered(m, Existing)
  /\ UNCHANGED <<world, store, ghosts>>

\* Redis reads the keys it listed one by one, then filters and sorts.
Scan(m) ==
  /\ Phase(m, "scan")
  /\ IF requests[m].keys = {} THEN WhereAnswered(m, requests[m].rows)
     ELSE \E id \in requests[m].keys :
            requests' = [requests EXCEPT ![m].keys = @ \ {id},
                           ![m].rows = IF store[id] = Absent THEN @
                                       ELSE [i \in DOMAIN @ \cup {id} |-> IF i = id THEN store[id] ELSE @[i]]]
  /\ UNCHANGED <<world, store, ghosts>>

\* The implementation of a named query is missing or throws, or its result is
\* checked against the declared output.
Named(m) ==
  /\ Phase(m, "named")
  /\ \E result \in {Data(NoRows), Failure("invalid_input"), Failure("internal")} :
       Answer(m, result)
  /\ UNCHANGED <<world, store, ghosts>>

----------------------------------------------------------------------------
(* Writes.                                                                 *)

\* applyPatch of a validated patch to the current record.
ApplyPatch(m, row, patch) ==
  LET verdict == PatchVerdict(m, row, Known(patch), Plan(m).base)
  IN IF verdict # "ok" THEN Answer(m, Failure(verdict))
     ELSE requests' =
            [requests EXCEPT ![m].phase = "write", ![m].current = row, ![m].write =
               [NoWrite EXCEPT !.op = "patch", !.id = Plan(m).id, !.change = Known(patch),
                  !.version = IF world.versioned THEN row.version + 1 ELSE Absent,
                  !.base = IF world.versioned THEN Plan(m).base ELSE Absent]]

\* handleWrite, delete: a record that is gone is answered null.
ApplyDelete(m, row) ==
  CASE row = Absent -> Goes(m, "written")
    [] row # Absent /\ ~InScope(m, row.data) -> Answer(m, Failure("access_denied"))
    [] OTHER -> requests' = [requests EXCEPT ![m].phase = "write", ![m].current = row,
                               ![m].write = [NoWrite EXCEPT !.op = "delete", !.id = Plan(m).id]]

\* def.run, a declared lowering, makes a patch of the current record.
Lower(m, row, run) ==
  CASE row.data \notin DOMAIN run -> Answer(m, Failure("internal"))
    [] row.data \in DOMAIN run /\ ~ValidPatch(run[row.data]) -> Answer(m, Failure("invalid_input"))
    [] OTHER -> ApplyPatch(m, row, run[row.data])

\* handleAction on the current record: an action is lowered if it declares how,
\* and left to its implementation otherwise.
ApplyAction(m, row) ==
  LET action == Plan(m).action
  IN CASE ~InScope(m, row.data) -> Answer(m, Failure("access_denied"))
       [] InScope(m, row.data) /\ action \in DOMAIN Lowering -> Lower(m, row, Lowering[action])
       [] OTHER -> IF Impls[action] = Absent THEN Answer(m, Failure("internal"))
                   ELSE Goes(m, "impl")

\* currentRecord and what is decided on it.
Current(m) ==
  /\ Phase(m, "current")
  /\ LET plan == Plan(m)
         row == store[plan.id]
     IN CASE row = Absent /\ world.source = "stripe" -> Answer(m, Failure("internal"))
          [] row = Absent /\ world.source # "stripe" /\ plan.op # "delete" ->
               Answer(m, Failure("not_found"))
          [] OTHER -> CASE plan.op = "patch" -> ApplyPatch(m, row, plan.patch)
                        [] plan.op = "delete" -> ApplyDelete(m, row)
                        [] OTHER -> ApplyAction(m, row)
  /\ UNCHANGED <<world, store, ghosts>>

\* A write of m to a record lands: the handlers between their look at it and
\* their own write are late.
Landed(m, id) ==
  [k \in Msgs |->
     IF k # m /\ requests[k].write.id = id
     THEN [requests[k] EXCEPT !.late = TRUE, !.torn = Phase(k, "merge")]
     ELSE requests[k]]

\* The store and the ghosts of VersionedRegister once `row` is the record.
Lands(m, row) ==
  LET req == requests[m]
      id == req.write.id
  IN /\ store' = [store EXCEPT ![id] = row]
     /\ won' = [won EXCEPT ![id] =
                  CASE req.write.op # "patch" -> {}
                    [] req.write.op = "patch" /\ req.write.base # Absent ->
                         @ \cup {[base |-> req.write.base, by |-> <<m, req.at>>]}
                    [] OTHER -> @]
     /\ raced' = IF req.write.op = "patch" /\ req.late THEN raced \cup {id} ELSE raced
     /\ torn' = IF req.torn THEN torn \cup {id} ELSE torn
     /\ requests' = [Landed(m, id) EXCEPT ![m].phase = "written",
                       ![m].rows = IF row = Absent THEN NoRows ELSE Only(id, row)]
     /\ UNCHANGED <<world, announced, silent>>

\* The source executes a write; Redis reads the record it will patch.
Write(m) ==
  /\ Phase(m, "write")
  /\ LET write == requests[m].write
         row == store[write.id]
     IN CASE SourceVerdict(write) # "ok" ->
               /\ Answer(m, Failure(SourceVerdict(write)))
               /\ UNCHANGED <<world, store, ghosts>>
          [] SourceVerdict(write) = "ok" /\ write.op = "patch" /\ row = Absent ->
               /\ requests' = [requests EXCEPT ![m].phase = "written"]
               /\ raced' = IF requests[m].late THEN raced \cup {write.id} ELSE raced
               /\ UNCHANGED <<world, store, announced, silent, won, torn>>
          [] SourceVerdict(write) = "ok" /\ write.op = "patch" /\ row # Absent
               /\ world.source = "redis" ->
               /\ requests' = [requests EXCEPT ![m].phase = "merge", ![m].current = row]
               /\ UNCHANGED <<world, store, ghosts>>
          [] OTHER -> Lands(m, After(write))

\* Redis stores the record it read with the patch on it.
Set(m) ==
  /\ Phase(m, "merge")
  /\ Lands(m, Patched(requests[m].current, requests[m].write))

\* Mutant: only a write that returned a record is announced.
Bug_OnlyRecords(m) ==
  /\ Phase(m, "written")
  /\ Answer(m, Data(requests[m].rows))
  /\ announced' = IF requests[m].rows = NoRows THEN announced ELSE store
  /\ silent' = FALSE
  /\ UNCHANGED <<world, store, won, raced, torn>>

\* handlePlan: changes.emit, then the outcome.
Written(m) ==
  /\ Phase(m, "written")
  /\ Answer(m, Data(requests[m].rows))
  /\ announced' = store /\ silent' = FALSE
  /\ UNCHANGED <<world, store, won, raced, torn>>

\* An action's implementation writes what it likes to its record: here some
\* fields and the next version.
ImplWrites(m) ==
  /\ Phase(m, "impl")
  /\ LET id == Plan(m).id
         row == store[id]
     IN /\ row # Absent
        /\ store' = [store EXCEPT ![id] =
                       [data |-> Merge(row.data, Impls[Plan(m).action]), version |-> row.version + 1]]
        /\ requests' = [Landed(m, id) EXCEPT ![m].phase = "impl_wrote"]
  /\ UNCHANGED <<world, ghosts>>

ImplReturns(m) ==
  /\ Phase(m, "impl") \/ Phase(m, "impl_wrote")
  /\ Goes(m, "written")
  /\ UNCHANGED <<world, store, ghosts>>

\* It throws, perhaps halfway, an error with a code or a plain one: nothing is
\* announced.
ImplFails(m) ==
  /\ Phase(m, "impl") \/ Phase(m, "impl_wrote")
  /\ \E code \in {"rejected", "internal"} : Answer(m, Failure(code))
  /\ silent' = (silent \/ Phase(m, "impl_wrote"))
  /\ UNCHANGED <<world, store, announced, won, raced, torn>>

\* Every message is answered.
AllDone == (\A m \in Msgs : Phase(m, "done")) /\ UNCHANGED vars

Next ==
  \/ \E m \in Msgs :
       \/ Post(m) \/ Turned(m) \/ Context(m) \/ Begin(m) \/ AccessFails(m)
       \/ StartRead(m) \/ StartNamed(m) \/ StartCreate(m) \/ StartUpdate(m)
       \/ Find(m) \/ Scan(m) \/ Named(m)
       \/ Current(m) \/ Write(m) \/ Set(m) \/ Written(m)
       \/ ImplWrites(m) \/ ImplReturns(m) \/ ImplFails(m)
  \/ AllDone

Spec == Init /\ [][Next]_vars
=============================================================================
