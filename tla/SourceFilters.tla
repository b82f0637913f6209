--------------------------- MODULE SourceFilters ---------------------------
(***************************************************************************)
(* How each source backbone (adapters/) reads a filter and an order.  The  *)
(* memory and Redis adapters evaluate the algebra itself; the others       *)
(* translate it, and the database decides: SQL where a comparison with a   *)
(* null is never true, Mongo where null also means a missing field.        *)
(* Columns hold one type, and filters are of their column's type.          *)
(***************************************************************************)
EXTENDS FilterAlgebra

Local == {"memory", "redis"}
Sql == {"sqlite", "drizzle", "prisma"}
Databases == Sql \cup {"mongo"}
Sources == Local \cup Databases \cup {"stripe"}

----------------------------------------------------------------------------
(* Storage.                                                                *)

\* toStored: SQLite has no booleans.
ToStored(v) == IF v # Absent /\ v.type = "boolean" THEN [v EXCEPT !.type = "number"] ELSE v

\* A column may hold null, and what is stored is not undefined.
ASSUME StorageAssumption ==
  /\ Null \in Scalars
  /\ \A v \in Scalars : ToStored(v) # Absent
  /\ \A S \in SUBSET Scalars : {ToStored(v) : v \in S} # Absent

\* coerceField: the schema's field type brings them back; null stays null.
CoerceField(type, v) ==
  IF v.type = "number" /\ type = "boolean" THEN [v EXCEPT !.type = "boolean"] ELSE v

\* A column a record says nothing of is null.
Column(v) == IF v = Absent THEN Null ELSE v

----------------------------------------------------------------------------
(* Conditions on one column.                                               *)

\* SQL's comparisons: of or with a null, not true.
SqlEqual(v, x) == v # Null /\ x # Null /\ v = x
SqlLess(a, b) == a # Null /\ b # Null /\ Less(a, b)

\* Mutant: >= is written for both bounds from below.
Bug_OneLower(v, f) ==
  /\ f.eq # Absent => IF f.eq = Null THEN v = Null ELSE SqlEqual(v, f.eq)
  /\ f.in # Absent => \E x \in f.in : SqlEqual(v, x)
  /\ f.gt # Absent => SqlLess(f.gt, v) \/ SqlEqual(v, f.gt)
  /\ f.gte # Absent => SqlLess(f.gte, v) \/ SqlEqual(v, f.gte)
  /\ f.lt # Absent => SqlLess(v, f.lt)
  /\ f.lte # Absent => SqlLess(v, f.lte) \/ SqlEqual(v, f.lte)

\* fieldClauses (sqlite, drizzle) and fieldCondition (prisma): an equality
\* with null is IS NULL; a list is IN, and an empty one never true.
SqlMatches(v, f) ==
  /\ f.eq # Absent => IF f.eq = Null THEN v = Null ELSE SqlEqual(v, f.eq)
  /\ f.in # Absent => \E x \in f.in : SqlEqual(v, x)
  /\ f.gt # Absent => SqlLess(f.gt, v)
  /\ f.gte # Absent => SqlLess(f.gte, v) \/ SqlEqual(v, f.gte)
  /\ f.lt # Absent => SqlLess(v, f.lt)
  /\ f.lte # Absent => SqlLess(v, f.lte) \/ SqlEqual(v, f.lte)

\* The same with SQLite's storage classes.
SqliteMatches(v, f) ==
  SqlMatches(ToStored(v),
             [f EXCEPT !.eq = ToStored(@),
                       !.in = IF @ = Absent THEN Absent ELSE {ToStored(x) : x \in @}])

\* fieldCondition (mongo): $eq and $in find a missing field under null, and
\* ranges compare within a type.
MongoMatches(v, f) ==
  LET Is(x) == v = x \/ (v = Absent /\ x = Null)
  IN /\ f.eq # Absent => Is(f.eq)
     /\ f.in # Absent => \E x \in f.in : Is(x)
     /\ f.gt # Absent => v # Absent /\ Less(f.gt, v)
     /\ f.gte # Absent => v # Absent /\ (Less(f.gte, v) \/ v = f.gte)
     /\ f.lt # Absent => v # Absent /\ Less(v, f.lt)
     /\ f.lte # Absent => v # Absent /\ (Less(v, f.lte) \/ v = f.lte)

\* The condition `f` on a field that holds v, as the source decides it.
SourceMatches(source, v, f) ==
  CASE source = "sqlite" -> SqliteMatches(Column(v), f)
    [] source \in {"drizzle", "prisma"} -> SqlMatches(Column(v), f)
    [] source = "mongo" -> MongoMatches(v, f)
    [] OTHER -> Matches(v, Normalize(f))

\* buildWhere, buildCondition, buildFilter: the conditions are conjoined.
SourceFinds(source, row, filter) ==
  \A fd \in DOMAIN filter : SourceMatches(source, row[fd], filter[fd])

----------------------------------------------------------------------------
(* Order.                                                                  *)

Nullish(v) == v \in {Absent, Null}

\* wireOrderComparator: a before b; null comes last, or first descending.
ComesBefore(direction, a, b) ==
  /\ a # b
  /\ CASE Nullish(a) -> direction = "desc"
       [] ~Nullish(a) /\ Nullish(b) -> direction = "asc"
       [] OTHER -> IF Less(a, b) THEN direction = "asc" ELSE direction = "desc"

\* ORDER BY of SQLite and Mongo's sort: null before everything, or last
\* descending.  Where Drizzle's and Prisma's databases put it is open.
SortedBefore(source, direction, a, b) ==
  CASE source \in Local -> ComesBefore(direction, a, b)
    [] source \in {"sqlite", "mongo"} /\ (Nullish(a) \/ Nullish(b)) ->
         /\ Nullish(a) # Nullish(b)
         /\ IF Nullish(a) THEN direction = "asc" ELSE direction = "desc"
    [] OTHER -> ~Nullish(a) /\ ~Nullish(b) /\ ComesBefore(direction, a, b)

----------------------------------------------------------------------------
(* Filters every source reads alike.                                       *)

NullNotListed(f) == f.in # Absent => Null \notin f.in

\* No null is asked for.
NamesNoNull(f) == f.eq # Null /\ NullNotListed(f)

\* The scalars of one column.
ColumnOf(type) == {x \in Scalars : x.type \in {type, "null"}}
=============================================================================
