----------------------------- MODULE ReadCache -----------------------------
(***************************************************************************)
(* The read side of one client: the canonical rows of one collection in    *)
(* MemoryCacheBackbone, CoverageIndex, and the plans on their way to a     *)
(* ResourceServer that answers within the session's access scope.  The     *)
(* optimistic overlay is the subject of WritePath; here a write reaches    *)
(* the rows when its answer is settled.                                    *)
(*                                                                         *)
(* Rows of the server change by this client's writes and by edits of       *)
(* rivals.  Ghosts: `synced` is the server's rows as of the last plan      *)
(* heard of, and `touched` holds the pairs of a record and a query about   *)
(* which the client has not heard since a rival edited the record.         *)
(***************************************************************************)
EXTENDS FilterAlgebra, FiniteSets, Sequences

CONSTANTS
  Ids,           \* identities of the collection's records
  Plans,         \* the plans the application may issue
  Queries,       \* the filters it may ask the cache about
  Policies,      \* what the server may grant a session: its access scope (Absent:
                 \* "public") and the row cap of the collection
  Stores,        \* the server's rows at the start, one of these
  RivalRows,     \* what a rival may store (Absent: it deletes)
  Upserts,       \* a create over an existing record replaces it
  InOrder,       \* plans are executed and answered in the order of issue
  MaxPlans,      \* bound on plans issued
  MaxRivals      \* bound on rival edits

Rows == [Fields -> Values]
Stored == {Absent} \cup Rows

IsReadPlan(plan) ==
  \/ plan.op = "where" /\ IsWhereFilter(plan.filter) /\ plan.limit \in {Absent} \cup (Nat \ {0})
  \/ plan.op = "one" /\ plan.id \in Ids
IsWritePlan(plan) ==
  /\ plan.op \in {"create", "patch", "delete"} /\ plan.id \in Ids
  /\ plan.op = "create" => plan.row \in Rows
  /\ plan.op = "patch" => /\ DOMAIN plan.patch \subseteq Fields
                          /\ plan.patch \in [DOMAIN plan.patch -> Values]

ASSUME PlansAssumption ==
  /\ \A plan \in Plans : IsReadPlan(plan) \/ IsWritePlan(plan)
  /\ \A filter \in Queries : IsWhereFilter(filter)

ASSUME CollectionAssumption ==
  /\ \A granted \in Policies : /\ granted.scope = Absent \/ IsWhereFilter(granted.scope)
                               /\ granted.maxRows \in Nat
  /\ Stores \subseteq [Ids -> Stored]
  /\ RivalRows \subseteq Stored
  /\ Absent \notin Rows
  /\ Upserts \in BOOLEAN /\ InOrder \in BOOLEAN
  /\ MaxPlans \in Nat /\ MaxRivals \in Nat

VARIABLES
  policy,        \* the one of Policies the server's access rule grants
  server,        \* the server's rows
  table,         \* the cache's canonical rows
  covered,       \* CoverageIndex.covered
  calls,         \* plans issued and not yet heard of, in order of issue, with
                 \* their answer and, as ghosts, the server's rows then (seen)
                 \* and the records rivals edited since (late)
  issued, rivals,
  synced, touched   \* ghosts

vars == <<policy, server, table, covered, calls, issued, rivals, synced, touched>>

----------------------------------------------------------------------------
(* CoverageIndex.                                                          *)

Covers(filter) == \E entry \in covered : FilterSubsumes(entry, filter)

\* Mutant: the new set replaces every entry.
Bug_OnlyLatest(filter) == IF Covers(filter) THEN covered ELSE {filter}

\* markCovered: drop the entries the new, wider set makes redundant.
MarkCovered(filter) ==
  IF Covers(filter) THEN covered
  ELSE {entry \in covered : ~FilterSubsumes(filter, entry)} \cup {filter}

----------------------------------------------------------------------------
(* The server: handleRead and handleWrite within the scope.  An answer is  *)
(* a failure, or the rows it returned.                                     *)

NoRows == [id \in {} |-> Absent]
Refused == [ok |-> FALSE, rows |-> NoRows]
Returned(ids, rows) == [ok |-> TRUE, rows |-> [id \in ids |-> rows[id]]]

scope == policy.scope
MaxRows == policy.maxRows

InScope(row) == scope = Absent \/ MatchesFilter(row, scope)
ScopedFilter(filter) == IF scope = Absent THEN filter ELSE IntersectFilters(filter, scope)
Found(filter) == {id \in Ids : server[id] # Absent /\ MatchesFilter(server[id], filter)}

\* Mutant: the scope is not looked at.
Bug_Unscoped(plan) ==
  IF Cardinality(Found(plan.filter)) > MaxRows /\ plan.limit = Absent THEN {Refused}
  ELSE {Returned(Found(plan.filter), server)}

\* A where plan: any window of its size when it is windowed (the order is
\* left out), else the whole set, unless that exceeds the cap.
WhereAnswers(plan) ==
  LET filter == ScopedFilter(plan.filter)
      found == Found(filter)
      Window(S) == Cardinality(S) = IF Cardinality(found) < plan.limit
                                    THEN Cardinality(found) ELSE plan.limit
  IN CASE filter = Absent -> {Returned({}, server)}
       [] filter # Absent /\ plan.limit # Absent ->
            IF plan.limit > MaxRows THEN {Refused}
            ELSE {Returned(ids, server) : ids \in {S \in SUBSET found : Window(S)}}
       [] OTHER -> IF Cardinality(found) > MaxRows THEN {Refused}
                   ELSE {Returned(found, server)}

Patched(row, patch) ==
  [fd \in Fields |-> IF fd \in DOMAIN patch THEN patch[fd] ELSE row[fd]]

\* The row a write leaves, and whether it is refused.
RowAfter(plan) ==
  CASE plan.op = "create" -> plan.row
    [] plan.op = "patch" -> Patched(server[plan.id], plan.patch)
    [] plan.op = "delete" -> Absent

WriteRefused(plan) ==
  LET row == server[plan.id]
  IN CASE plan.op = "create" -> ~InScope(plan.row) \/ (row # Absent /\ ~Upserts)
       [] plan.op = "patch" -> \/ row = Absent
                               \/ ~InScope(row) \/ ~InScope(Patched(row, plan.patch))
       [] plan.op = "delete" -> row # Absent /\ ~InScope(row)

\* handlePlan: the server's rows afterwards, and what it may answer.
ServerAfter(plan) ==
  IF plan.op \in {"where", "one"} \/ WriteRefused(plan) THEN server
  ELSE [server EXCEPT ![plan.id] = RowAfter(plan)]

PlanAnswers(plan) ==
  CASE plan.op = "where" -> WhereAnswers(plan)
    [] plan.op = "one" ->
         {Returned({id \in {plan.id} : server[id] # Absent /\ InScope(server[id])}, server)}
    [] OTHER ->
         IF WriteRefused(plan) THEN {Refused}
         ELSE {Returned({plan.id} \ {id \in Ids : plan.op = "delete"}, ServerAfter(plan))}

----------------------------------------------------------------------------
(* The cache: ingest of a read, settle of a confirmed write.               *)

\* Mutant: rows that left the set are kept.
Bug_KeepsAbsentees(plan, rows) ==
  [id \in Ids |-> IF id \in DOMAIN rows THEN rows[id]
                  ELSE IF plan.op # "where" /\ plan.id = id THEN Absent ELSE table[id]]

\* Mutant: a null answer about one record is kept as a row.
Bug_KeepsNull(plan, rows) ==
  [id \in Ids |->
     CASE id \in DOMAIN rows -> rows[id]
       [] id \notin DOMAIN rows /\ plan.op # "where" /\ plan.id = id -> Null
       [] OTHER -> table[id]]

\* The rows an answer leaves in the cache.  An unwindowed set is
\* authoritative: records that match it locally and are not in it are gone.
\* An answer about one record replaces it or, when it is null, removes it.
Ingested(plan, rows) ==
  [id \in Ids |->
     CASE id \in DOMAIN rows -> rows[id]
       [] id \notin DOMAIN rows /\ plan.op = "where" ->
            IF plan.limit = Absent /\ table[id] # Absent /\ MatchesFilter(table[id], plan.filter)
            THEN Absent ELSE table[id]
       [] OTHER -> IF plan.id = id THEN Absent ELSE table[id]]

----------------------------------------------------------------------------
Init ==
  /\ policy \in Policies
  /\ server \in Stores
  /\ table = [id \in Ids |-> Absent]
  /\ covered = {}
  /\ calls = <<>>
  /\ issued = 0 /\ rivals = 0
  /\ synced = server
  /\ touched = {}

\* source.execute(plan): a query not answered locally, a refresh of a live
\* query, a write.
Issue(plan) ==
  /\ issued < MaxPlans
  /\ issued' = issued + 1
  /\ calls' = Append(calls, [plan |-> plan, done |-> FALSE, answer |-> Refused,
                             seen |-> [id \in Ids |-> Absent], late |-> {}])
  /\ UNCHANGED <<policy, server, table, covered, rivals, synced, touched>>

\* The server handles the i-th plan under way.
Execute(i) ==
  /\ ~calls[i].done
  /\ InOrder => \A j \in 1..(i - 1) : calls[j].done
  /\ server' = ServerAfter(calls[i].plan)
  /\ \E answer \in PlanAnswers(calls[i].plan) :
       calls' = [calls EXCEPT ![i] = [plan |-> calls[i].plan, done |-> TRUE,
                                      answer |-> answer, seen |-> server', late |-> {}]]
  /\ UNCHANGED <<policy, table, covered, issued, rivals, synced, touched>>

\* What an answer tells about: one record and every query, or every record
\* and the queries the set contains; but nothing of what changed since.
Tells(plan, late) ==
  IF plan.op = "where"
  THEN IF plan.limit # Absent THEN {}
       ELSE (Ids \ late) \X {q \in Queries : FilterSubsumes(plan.filter, q)}
  ELSE ({plan.id} \ late) \X Queries

\* The answer to the i-th plan arrives: ingest it or settle the write; a
\* failure leaves the rows alone.
Receive(i) ==
  /\ calls[i].done
  /\ InOrder => i = 1
  /\ calls' = SubSeq(calls, 1, i - 1) \o SubSeq(calls, i + 1, Len(calls))
  /\ synced' = calls[i].seen
  /\ LET plan == calls[i].plan
         answer == calls[i].answer
     IN IF answer.ok
        THEN /\ table' = Ingested(plan, answer.rows)
             /\ touched' = touched \ Tells(plan, calls[i].late)
             /\ covered' = IF plan.op = "where" /\ plan.limit = Absent
                           THEN MarkCovered(plan.filter) ELSE covered
        ELSE UNCHANGED <<table, covered, touched>>
  /\ UNCHANGED <<policy, server, issued, rivals>>

\* Another client writes or deletes a record.
RivalEdit(id, row) ==
  /\ rivals < MaxRivals /\ server[id] # row
  /\ rivals' = rivals + 1
  /\ server' = [server EXCEPT ![id] = row]
  /\ touched' = touched \cup ({id} \X Queries)
  /\ calls' = [i \in DOMAIN calls |-> 
               [calls[i] EXCEPT !.late = IF calls[i].done THEN @ \cup {id} ELSE @]]
  /\ UNCHANGED <<policy, table, covered, issued, synced>>

\* Everything that was asked has been answered.
AtRest == issued = MaxPlans /\ calls = <<>> /\ UNCHANGED vars

Next ==
  \/ \E plan \in Plans : Issue(plan)
  \/ \E i \in DOMAIN calls : Execute(i) \/ Receive(i)
  \/ \E id \in Ids, row \in RivalRows : RivalEdit(id, row)
  \/ AtRest

Spec == Init /\ [][Next]_vars
=============================================================================
