---------------------------- MODULE MCReadCache ----------------------------
(***************************************************************************)
(* Small instances of the read cache: two records with a number and a      *)
(* string field.                                                           *)
(***************************************************************************)
EXTENDS ReadCacheProperties

CONSTANTS id1, id2

N(i) == [type |-> "number", at |-> i]
S(i) == [type |-> "string", at |-> i]
SmallScalars == {N(i) : i \in 1..3} \cup {S(1), S(2), Null}

Row(n, s) == [n |-> n, s |-> s]
Eq(v) == [NoFieldFilter EXCEPT !.eq = v]
In(vs) == [NoFieldFilter EXCEPT !.in = vs]
Gt(v) == [NoFieldFilter EXCEPT !.gt = v]
Gte(v) == [NoFieldFilter EXCEPT !.gte = v]
Lt(v) == [NoFieldFilter EXCEPT !.lt = v]

All == [fd \in {} |-> NoFieldFilter]
ByN(f) == [n |-> f]

\* Everything, an interval and a list beside it with a second field; and
\* queries inside one of them or just wider.
SetFilters == {All, ByN([Gt(N(1)) EXCEPT !.lte = N(3)]),
               [n |-> In({N(1), N(3)}), s |-> Eq(S(1))]}
SmallQueries == SetFilters \cup {ByN(Gt(N(1))), ByN(Eq(N(3)))}
Set(filter) == [op |-> "where", filter |-> filter, limit |-> Absent]
Window(filter, k) == [op |-> "where", filter |-> filter, limit |-> k]
One(id) == [op |-> "one", id |-> id]

SmallPlans ==
  {Set(filter) : filter \in SetFilters}
  \cup {Window(All, 1), One(id1),
        [op |-> "create", id |-> id2, row |-> Row(N(2), S(2))],
        [op |-> "patch", id |-> id1, patch |-> [n |-> N(3)]],
        [op |-> "delete", id |-> id1]}
\* Public with room for both records, or a scope that shares an end with the
\* sets and room for one.
SmallPolicies ==
  {[scope |-> Absent, maxRows |-> 2],
   [scope |-> [n |-> [Gte(N(1)) EXCEPT !.lt = N(3)], s |-> In({S(1), S(2)})], maxRows |-> 1]}
SmallStores == {[id \in Ids |-> IF id = id1 THEN Row(N(1), S(1)) ELSE Absent]}
SmallRivalRows == {Row(N(3), S(1)), Absent}

\* A query for null within a scope that lists null, or gives a range.
NullPolicies == {[scope |-> filter, maxRows |-> 2] :
                   filter \in {ByN(In({Null, N(1)})), ByN(Gte(N(1)))}}
NullPlans == {Set(ByN(Eq(Null))), Set(ByN(In({Null, N(1)})))}
NullStores == {[id \in Ids |-> IF id = id1 THEN Row(N(1), S(1)) ELSE Row(Null, S(1))]}

\* The usual instance is one the algebra is exact on, the other is not.
ASSUME ExactAssumption == Policies = SmallPolicies => ExactFilters
=============================================================================
