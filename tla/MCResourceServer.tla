-------------------------- MODULE MCResourceServer --------------------------
(***************************************************************************)
(* Two messages at once at a server of two records, over every source.     *)
(***************************************************************************)
EXTENDS ResourceServerProperties

CONSTANTS id1, id2, m1, m2

N(i) == [type |-> "number", at |-> i]
Yes == [type |-> "boolean", at |-> 1]
SmallScalars == {N(1), N(2), N(3), Yes, Null}
SmallSchema == [n |-> {N(1), N(2), Null}, b |-> {Yes, Null, Absent}]

Rec(n, b) == [n |-> n, b |-> b]
Eq(v) == [NoFieldFilter EXCEPT !.eq = v]
In(vs) == [NoFieldFilter EXCEPT !.in = vs]
Gt(v) == [NoFieldFilter EXCEPT !.gt = v]
Lte(v) == [NoFieldFilter EXCEPT !.lte = v]
All == [fd \in {} |-> NoFieldFilter]

\* One record at the start, or both with a null among them.
SmallStores ==
  {[id \in Ids |-> IF id = id1 THEN [data |-> Rec(N(1), Yes), version |-> 1]
                   ELSE Absent],
   [id \in Ids |-> IF id = id1 THEN [data |-> Rec(N(2), Yes), version |-> 1]
                   ELSE [data |-> Rec(Null, Yes), version |-> 1]]}

Where(filter, limit, order) == [op |-> "where", filter |-> filter, limit |-> limit, order |-> order]
ByN(direction) == [field |-> "n", direction |-> direction]
Update(patch, base) == [op |-> "patch", id |-> id1, patch |-> patch, base |-> base]
Act(action, base) == [op |-> "action", id |-> id1, action |-> action, base |-> base]
Make(id, data) == [op |-> "create", id |-> id, row |-> [data |-> data, version |-> 1]]
Gone(id) == [op |-> "delete", id |-> id]
One(id) == [op |-> "one", id |-> id]
Query(known, valid) == [op |-> "named", known |-> known, valid |-> valid]

UsualBatches ==
  {<<Update([n |-> N(2)], 1), Update([n |-> N(1)], 2)>>,
   <<Update([b |-> Null], 1)>>,
   <<Gone(id1), Make(id1, Rec(N(2), Absent))>>,
   <<Act("advance", 1), One(id1)>>,
   <<Act("archive", Absent)>>,
   <<Where([n |-> Gt(N(1)), b |-> Eq(Yes)], Absent, Absent), Where(All, 1, ByN("desc"))>>,
   <<Where([n |-> In({N(1), N(2)})], Absent, Absent), Where(All, 3, Absent), Query(TRUE, TRUE)>>}

\* Plans that are refused, each in its way, and one that changes no field.
OddBatches ==
  {<<>>,
   <<Update([n |-> N(3)], 1), Update([unknown |-> N(1)], Absent)>>,
   <<Act("missing", 1), Act("retired", Absent), Query(FALSE, TRUE), Query(TRUE, FALSE)>>,
   <<Make(id2, Rec(N(3), Yes)), Make(id2, Rec(Null, Yes)), Gone(id2)>>}

SmallBatches == UsualBatches \cup OddBatches

\* advance throws for a record without its flag; nobody implements retired.
Lowerings == [advance |-> [data \in {d \in [Fields -> Values] : d["b"] # Null} |->
                             IF data["n"] = N(1) THEN [n |-> N(2)] ELSE [n |-> N(3)]]]
SmallImpls == [archive |-> [b |-> Null], retired |-> Absent]

Open == [source |-> "memory", supports |-> Operations, offers |-> {}, registered |-> TRUE,
         served |-> TRUE, ruled |-> TRUE, versioned |-> TRUE, maxRows |-> 1, scopes |-> [m \in Msgs |-> Absent]]
\* m1 sees a part of the rows only.
Partial == [m \in Msgs |-> IF m = m1 THEN [n |-> Lte(N(1))] ELSE Absent]
UsualWorlds ==
  {[Open EXCEPT !.source = source, !.scopes = Partial, !.maxRows = 2] :
     source \in {"redis", "sqlite", "mongo"}}
  \cup {[Open EXCEPT !.source = source, !.versioned = FALSE] : source \in {"memory", "drizzle"}}
  \cup {[Open EXCEPT !.source = "stripe", !.offers = offers] : offers \in {{}, {"create", "delete"}}}
  \cup {Open, [Open EXCEPT !.source = "prisma"]}
OddWorlds ==
  {[Open EXCEPT !.supports = {"one", "update"}], [Open EXCEPT !.served = FALSE],
   [Open EXCEPT !.registered = FALSE, !.served = FALSE],
   [Open EXCEPT !.ruled = FALSE]}
SmallWorlds == UsualWorlds \cup OddWorlds

ASSUME ReadableAssumption == ScopesAreReadable /\ QueriesAreReadable
=============================================================================
