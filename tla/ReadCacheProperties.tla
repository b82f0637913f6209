------------------------ MODULE ReadCacheProperties ------------------------
(***************************************************************************)
(* What must hold of the read cache, against the plain meaning of a filter *)
(* where the algebra is concerned.                                         *)
(***************************************************************************)
EXTENDS ReadCache

IsAnswer(answer) ==
  /\ answer.ok \in BOOLEAN
  /\ DOMAIN answer.rows \subseteq Ids
  /\ \A id \in DOMAIN answer.rows : answer.rows[id] \in Rows

\* The state is well typed; in particular only filters that were asked for
\* are covered and only rows, never nulls, are kept.
CacheTypeOK ==
  /\ policy \in Policies
  /\ server \in [Ids -> Stored] /\ synced \in [Ids -> Stored]
  /\ table \in [Ids -> Stored] /\ Len(calls) <= issued
  /\ covered \subseteq {plan.filter : plan \in {p \in Plans : p.op = "where"}}
  /\ \A i \in DOMAIN calls :
       /\ calls[i].plan \in Plans /\ calls[i].done \in BOOLEAN
       /\ calls[i].seen \in [Ids -> Stored] /\ calls[i].late \subseteq Ids
       /\ IsAnswer(calls[i].answer)
  /\ touched \subseteq Ids \X Queries
  /\ issued \in 0..MaxPlans /\ rivals \in 0..MaxRivals

----------------------------------------------------------------------------
(* The session's view, in the plain meaning of filters.                     *)

MeetsScope(row) == scope = Absent \/ MeetsAll(row, scope)

\* A set the server answered is the set that was asked for: its rows are
\* exactly the stored rows that meet the query and the scope, or, windowed,
\* some of them ("the scope is AND-ed into the query").
AnswersExact ==
  \A i \in DOMAIN calls :
    LET plan == calls[i].plan
        seen == calls[i].seen
        rows == calls[i].answer.rows
        meant == {id \in Ids : /\ seen[id] # Absent /\ MeetsScope(seen[id])
                               /\ MeetsAll(seen[id], plan.filter)}
    IN plan.op = "where" /\ calls[i].done /\ calls[i].answer.ok =>
         /\ DOMAIN rows \subseteq meant
         /\ plan.limit = Absent => DOMAIN rows = meant

\* The cache holds no row outside the session's scope, whatever rivals and
\* the client itself do to the rows.
OnlyInScope == \A id \in Ids : table[id] # Absent => MeetsScope(table[id])

\* What the session may see of a record the server stores.
View(rows, id) == IF rows[id] # Absent /\ MeetsScope(rows[id]) THEN rows[id] ELSE Absent

\* A query the cache calls complete is complete: the cache and the server (as
\* of the last answer) agree which records match it, and on their rows, except
\* for a record a rival edited and the client has not heard of since.  So
\* Engine.query may answer it locally.
Belongs(row, filter) == row # Absent /\ MeetsAll(row, filter)
CoverageExact ==
  \A filter \in Queries : Covers(filter) =>
    \A id \in {i \in Ids : <<i, filter>> \notin touched} :
      Belongs(table[id], filter) \/ Belongs(View(synced, id), filter)
        => table[id] = View(synced, id)

\* The same once every answer has arrived: complete is complete.
CompleteAtRest ==
  calls = <<>> =>
    \A filter \in Queries : Covers(filter) =>
      \A id \in {i \in Ids : <<i, filter>> \notin touched} :
        Belongs(View(server, id), filter) => table[id] = View(server, id)

\* Coverage is only ever gained: an entry is dropped only when what is left
\* answers every query it answered.
CoverageGrows == [][\A filter \in Queries : Covers(filter) => Covers(filter)']_vars

----------------------------------------------------------------------------
(* Filters the algebra treats exactly.                                     *)

Asked == {plan.filter : plan \in {p \in Plans : p.op = "where"}}
PlainFilter(filter) == \A fd \in DOMAIN filter : Plain(filter[fd])

\* The filters the algebra treats exactly: every range has comparable ends,
\* and the scopes and the queries are combined without loss.
ExactFilters ==
  /\ \A granted \in Policies : granted.scope # Absent =>
       /\ PlainFilter(granted.scope)
       /\ \A filter \in Asked : Combinable(filter, granted.scope)
  /\ \A filter \in Asked \cup Queries : PlainFilter(filter)
=============================================================================
