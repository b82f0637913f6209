------------------------ MODULE ResourceServerProofs ------------------------
(***************************************************************************)
(* The server implements a versioned register about every record its       *)
(* requests do not race for, whatever the plans, the sources and the       *)
(* number of messages.                                                     *)
(*                                                                         *)
(* First, its sources: the adapters' translations of a filter mean what    *)
(* the algebra means, for every typed filter that does not list null.      *)
(*                                                                         *)
(* The invariant says what a handler may rely on across its awaits: as     *)
(* long as no other write has landed (~late), the record it looked at is   *)
(* the one in the source; Redis has the record it read (~torn).            *)
(***************************************************************************)
EXTENDS ResourceServerProperties, FilterAlgebraProofs, FiniteSetTheorems, TLAPS

\* A filter of a column that holds v: what it names is of v's type, or null.
\* A null may stand in a column of any type.
Alike(v, x) == x.type \in {v.type, "null"} \/ v.type = "null"
Fits(v, f) ==
  /\ \A x \in {f.eq, f.gt, f.gte, f.lt, f.lte} : x # Absent => Alike(v, x)
  /\ f.in # Absent => \A x \in f.in : Alike(v, x)

LEMMA NullScalar ==
  ASSUME NEW v \in Scalars
  PROVE  /\ v # Absent /\ v = [type |-> v.type, at |-> v.at]
         /\ Null.type = "null"
         /\ v \in Comparable => v # Null
BY ScalarsAssumption DEF Null, Comparable

LEMMA SqlExact ==
  ASSUME NEW v \in Scalars, NEW f \in FieldFilters, NullNotListed(f)
  PROVE  SqlMatches(v, f) <=> Meets(v, f)
<1>1. v # Absent
  BY NullScalar
<1>2. ASSUME NEW x \in Comparable
      PROVE  /\ SqlLess(x, v) <=> Less(x, v)
             /\ SqlLess(v, x) <=> Less(v, x)
             /\ SqlEqual(v, x) <=> v = x
  BY <1>2, NullScalar DEF SqlLess, SqlEqual, Less, Comparable
<1>3. /\ f.gt \in {Absent} \cup Comparable /\ f.gte \in {Absent} \cup Comparable
      /\ f.lt \in {Absent} \cup Comparable /\ f.lte \in {Absent} \cup Comparable
  BY DEF FieldFilters
<1>4. ASSUME f.eq # Absent
      PROVE  (IF f.eq = Null THEN v = Null ELSE SqlEqual(v, f.eq)) <=> v = f.eq
  BY DEF SqlEqual
<1>5. ASSUME f.in # Absent
      PROVE  (\E x \in f.in : SqlEqual(v, x)) <=> v \in f.in
  BY <1>5 DEF SqlEqual, NullNotListed
<1>6. /\ f.gt # Absent => (SqlLess(f.gt, v) <=> Less(f.gt, v))
      /\ f.gte # Absent => (SqlLess(f.gte, v) \/ SqlEqual(v, f.gte)
                              <=> Less(f.gte, v) \/ v = f.gte)
      /\ f.lt # Absent => (SqlLess(v, f.lt) <=> Less(v, f.lt))
      /\ f.lte # Absent => (SqlLess(v, f.lte) \/ SqlEqual(v, f.lte)
                              <=> Less(v, f.lte) \/ v = f.lte)
  BY <1>2, <1>3
<1> QED  BY <1>1, <1>4, <1>5, <1>6 DEF SqlMatches, Meets

\* Stored as a number, a boolean keeps apart from the values it is compared
\* with: they are booleans too, or null.
LEMMA StoredApart ==
  ASSUME NEW v \in Scalars, NEW x \in Scalars, Alike(v, x)
  PROVE  /\ ToStored(v) = Null <=> v = Null
         /\ ToStored(x) = Null <=> x = Null
         /\ ToStored(v) = ToStored(x) <=> v = x
<1>1. /\ v = [type |-> v.type, at |-> v.at] /\ x = [type |-> x.type, at |-> x.at]
      /\ v # Absent /\ x # Absent
  BY NullScalar
<1>2. ASSUME NEW y \in Scalars
      PROVE  ToStored(y) = [type |-> IF y.type = "boolean" THEN "number" ELSE y.type,
                            at |-> y.at]
  <2>1. y = [type |-> y.type, at |-> y.at] /\ y # Absent
    BY NullScalar
  <2> QED  BY <2>1 DEF ToStored
<1>3. /\ ToStored(v).type = IF v.type = "boolean" THEN "number" ELSE v.type
      /\ ToStored(v).at = v.at
      /\ ToStored(x).type = IF x.type = "boolean" THEN "number" ELSE x.type
      /\ ToStored(x).at = x.at
  BY <1>2
<1>4. Null.type = "null" /\ Null.at = 0
  BY DEF Null
<1>5. /\ ToStored(v) = [type |-> ToStored(v).type, at |-> ToStored(v).at]
      /\ ToStored(x) = [type |-> ToStored(x).type, at |-> ToStored(x).at]
  BY <1>2
<1>6. /\ v = Null <=> v.type = "null" /\ v.at = 0
      /\ x = Null <=> x.type = "null" /\ x.at = 0
      /\ ToStored(v) = Null <=> ToStored(v).type = "null" /\ ToStored(v).at = 0
      /\ ToStored(x) = Null <=> ToStored(x).type = "null" /\ ToStored(x).at = 0
  BY <1>1, <1>5 DEF Null
<1>7. v = x <=> v.type = x.type /\ v.at = x.at
  BY <1>1
<1>8. ToStored(v) = ToStored(x) <=> ToStored(v).type = ToStored(x).type /\ v.at = x.at
  BY <1>3, <1>5
<1> QED  BY <1>3, <1>6, <1>7, <1>8 DEF Alike

LEMMA SqliteExact ==
  ASSUME NEW v \in Scalars, NEW f \in FieldFilters, NullNotListed(f), Fits(v, f)
  PROVE  SqliteMatches(v, f) <=> Meets(v, f)
<1> DEFINE g == [f EXCEPT !.eq = ToStored(@),
                          !.in = IF @ = Absent THEN Absent ELSE {ToStored(x) : x \in @}]
<1>1. /\ f.gt \in {Absent} \cup Comparable /\ f.gte \in {Absent} \cup Comparable
      /\ f.lt \in {Absent} \cup Comparable /\ f.lte \in {Absent} \cup Comparable
      /\ f.eq \in Values /\ f.in \in {Absent} \cup SUBSET Scalars
  BY DEF FieldFilters
<1>2. /\ g.eq = ToStored(f.eq)
      /\ g.in = IF f.in = Absent THEN Absent ELSE {ToStored(x) : x \in f.in}
      /\ g.gt = f.gt /\ g.gte = f.gte /\ g.lt = f.lt /\ g.lte = f.lte
  BY DEF FieldFilters
<1>3. f.eq # Absent =>
        /\ g.eq # Absent
        /\ (IF g.eq = Null THEN ToStored(v) = Null ELSE SqlEqual(ToStored(v), g.eq))
              <=> v = f.eq
  <2> SUFFICES ASSUME f.eq # Absent
               PROVE  /\ g.eq # Absent
                      /\ (IF g.eq = Null THEN ToStored(v) = Null
                                          ELSE SqlEqual(ToStored(v), g.eq)) <=> v = f.eq
    OBVIOUS
  <2>1. f.eq \in Scalars /\ Alike(v, f.eq)
    BY <1>1 DEF Fits, Values
  <2>2. g.eq # Absent
    BY <1>2, <2>1, StorageAssumption
  <2> QED  BY <1>2, <2>1, <2>2, StoredApart DEF SqlEqual
<1>4. f.in # Absent =>
        /\ g.in # Absent
        /\ (\E x \in g.in : SqlEqual(ToStored(v), x)) <=> v \in f.in
  <2> SUFFICES ASSUME f.in # Absent
               PROVE  /\ g.in # Absent
                      /\ (\E x \in g.in : SqlEqual(ToStored(v), x)) <=> v \in f.in
    OBVIOUS
  <2>1. f.in \subseteq Scalars /\ Null \notin f.in
    BY <1>1 DEF NullNotListed
  <2>2. g.in = {ToStored(x) : x \in f.in}
    BY <1>2
  <2>3. g.in # Absent
    BY <2>1, <2>2, StorageAssumption
  <2>4. \A x \in f.in : /\ ToStored(v) = ToStored(x) <=> v = x
                        /\ ToStored(x) # Null
    BY <2>1, StoredApart DEF Fits
  <2> QED  BY <2>2, <2>3, <2>4 DEF SqlEqual
<1>5. ASSUME NEW x \in Comparable, Alike(v, x)
      PROVE  /\ SqlLess(x, ToStored(v)) <=> Less(x, v)
             /\ SqlLess(ToStored(v), x) <=> Less(v, x)
             /\ SqlEqual(ToStored(v), x) <=> v = x
  <2>1. x \in Scalars /\ x.type \in {"number", "string"} /\ x # Null
    BY <1>5, NullScalar DEF Comparable
  <2>2. x = ToStored(x)
    BY <2>1, NullScalar DEF ToStored
  <2>3. v.type # "boolean" /\ ToStored(v) = v
    BY <1>5, <2>1, NullScalar DEF ToStored, Alike
  <2>4. v = Null => v.type = "null"
    BY NullScalar
  <2> QED  BY <2>1, <2>3, <2>4 DEF SqlLess, SqlEqual, Less
<1>6. /\ f.gt # Absent => (SqlLess(f.gt, ToStored(v)) <=> Less(f.gt, v))
      /\ f.gte # Absent => (SqlLess(f.gte, ToStored(v)) \/ SqlEqual(ToStored(v), f.gte)
                              <=> Less(f.gte, v) \/ v = f.gte)
      /\ f.lt # Absent => (SqlLess(ToStored(v), f.lt) <=> Less(v, f.lt))
      /\ f.lte # Absent => (SqlLess(ToStored(v), f.lte) \/ SqlEqual(ToStored(v), f.lte)
                              <=> Less(v, f.lte) \/ v = f.lte)
  BY <1>1, <1>5 DEF Fits
<1>7. /\ f.eq = Absent => g.eq = Absent
      /\ f.in = Absent => g.in = Absent
  BY <1>2 DEF ToStored
<1>8. SqliteMatches(v, f) <=> SqlMatches(ToStored(v), g)
  BY DEF SqliteMatches
<1>9. v # Absent
  BY NullScalar
<1> HIDE DEF g
<1> QED  BY <1>2, <1>3, <1>4, <1>6, <1>7, <1>8, <1>9 DEF SqlMatches, Meets

LEMMA MongoExact ==
  ASSUME NEW v \in Scalars, NEW f \in FieldFilters
  PROVE  MongoMatches(v, f) <=> Meets(v, f)
<1>1. v # Absent
  BY NullScalar
<1> QED  BY <1>1 DEF MongoMatches, Meets

\* Every adapter finds what the algebra (and so the client's cache) says
\* matches, on fields that are not missing, for filters of the column's type
\* that list no null: "the full filter algebra works" on each source.
THEOREM TranslationsExact ==
  ASSUME NEW source \in Sources, NEW v \in Scalars, NEW f \in FieldFilters,
         Plain(f), Fits(v, f), source \in Sql => NullNotListed(f)
  PROVE  SourceMatches(source, v, f) <=> Matches(v, Normalize(f))
<1>1. Matches(v, Normalize(f)) <=> Meets(v, f)
  BY NormalizeExact DEF Values
<1>2. Column(v) = v
  BY NullScalar DEF Column
<1>3. CASE source = "sqlite"
  BY <1>1, <1>2, <1>3, SqliteExact DEF SourceMatches, Sql
<1>4. CASE source \in {"drizzle", "prisma"}
  BY <1>1, <1>2, <1>4, SqlExact DEF SourceMatches, Sql
<1>5. CASE source = "mongo"
  BY <1>1, <1>5, MongoExact DEF SourceMatches
<1>6. CASE source \in {"memory", "redis", "stripe"}
  BY <1>6 DEF SourceMatches
<1> QED  BY <1>3, <1>4, <1>5, <1>6 DEF Sources, Databases, Sql, Local

----------------------------------------------------------------------------
(* What a source finds for a query narrowed by an access scope.            *)

\* A null in a list matches nothing in SQL, and the rest of the list decides.
LEMMA NullsInLists ==
  ASSUME NEW v \in Scalars, NEW f \in FieldFilters
  PROVE  LET g == [f EXCEPT !.in = IF @ = Absent THEN Absent ELSE @ \ {Null}]
         IN /\ g \in FieldFilters /\ NullNotListed(g)
            /\ Fits(v, f) => Fits(v, g)
            /\ Meets(v, g) => Meets(v, f)
            /\ SqlMatches(v, f) => SqlMatches(v, g)
            /\ SqliteMatches(v, f) => SqliteMatches(v, g)
<1> DEFINE g == [f EXCEPT !.in = IF @ = Absent THEN Absent ELSE @ \ {Null}]
           stored(h) == IF h.in = Absent THEN Absent ELSE {ToStored(x) : x \in h.in}
           kept(h) == [h EXCEPT !.eq = ToStored(@),
                                !.in = IF @ = Absent THEN Absent ELSE {ToStored(x) : x \in @}]
<1>1. /\ g.eq = f.eq /\ g.gt = f.gt /\ g.gte = f.gte /\ g.lt = f.lt /\ g.lte = f.lte
      /\ g.in = IF f.in = Absent THEN Absent ELSE f.in \ {Null}
  BY DEF FieldFilters
<1>2. g \in FieldFilters
  BY DEF FieldFilters
<1> HIDE DEF g
<1>3. f.in # Absent => f.in \subseteq Scalars /\ g.in # Absent /\ g.in = f.in \ {Null}
  BY <1>1, <1>2, ScalarsAssumption DEF FieldFilters
<1>4. NullNotListed(g)
  BY <1>1, <1>3 DEF NullNotListed
<1>5. Fits(v, f) => Fits(v, g)
  BY <1>1, <1>3 DEF Fits
<1>6. Meets(v, g) => Meets(v, f)
  BY <1>1, <1>3 DEF Meets
<1>7. SqlMatches(v, f) => SqlMatches(v, g)
  BY <1>1, <1>3 DEF SqlMatches, SqlEqual
<1>8. /\ kept(f).eq = ToStored(f.eq) /\ kept(f).in = stored(f) /\ kept(f).gt = f.gt
      /\ kept(f).gte = f.gte /\ kept(f).lt = f.lt /\ kept(f).lte = f.lte
      /\ kept(g).eq = ToStored(g.eq) /\ kept(g).in = stored(g) /\ kept(g).gt = g.gt
      /\ kept(g).gte = g.gte /\ kept(g).lt = g.lt /\ kept(g).lte = g.lte
  BY <1>2 DEF FieldFilters
<1> HIDE DEF kept
<1>9. ASSUME \E y \in stored(f) : SqlEqual(ToStored(v), y), f.in # Absent
      PROVE  \E y \in stored(g) : SqlEqual(ToStored(v), y)
  <2>1. PICK x \in f.in : SqlEqual(ToStored(v), ToStored(x))
    BY <1>9
  <2>2. x # Null
    BY <2>1, NullScalar DEF SqlEqual, ToStored
  <2>3. x \in g.in /\ g.in # Absent
    BY <1>3, <1>9, <2>2
  <2> QED  BY <2>1, <2>3
<1>10. SqliteMatches(v, f) => SqliteMatches(v, g)
  <2>1. /\ SqliteMatches(v, f) <=> SqlMatches(ToStored(v), kept(f))
        /\ SqliteMatches(v, g) <=> SqlMatches(ToStored(v), kept(g))
    BY DEF SqliteMatches, kept
  <2>2. f.in = Absent => stored(f) = Absent /\ stored(g) = Absent
    BY <1>1
  <2>3. f.in # Absent => stored(f) # Absent
    BY <1>3, StorageAssumption
  <2> HIDE DEF stored
  <2>4. SqlMatches(ToStored(v), kept(f)) => SqlMatches(ToStored(v), kept(g))
    BY <1>1, <1>8, <1>9, <2>2, <2>3 DEF SqlMatches
  <2> QED  BY <2>1, <2>4
<1> QED  BY <1>2, <1>4, <1>5, <1>6, <1>7, <1>10 DEF g

\* A source finds nothing the algebra does not, but for a missing field that
\* a database takes for null.
LEMMA SourceSound ==
  ASSUME NEW source \in Sources, NEW v \in Values, NEW f \in FieldFilters, Plain(f),
         source = "sqlite" => Fits(Column(v), f), SourceMatches(source, v, f)
  PROVE  \/ Matches(v, Normalize(f))
         \/ v = Absent /\ source \in Databases /\ Matches(Null, Normalize(f))
<1> DEFINE u == Column(v)
           g == [f EXCEPT !.in = IF @ = Absent THEN Absent ELSE @ \ {Null}]
<1>1. u \in Scalars /\ u \in Values /\ (v # Absent => u = v) /\ (v = Absent => u = Null)
  BY StorageAssumption DEF Column, Values
<1>2. Matches(u, Normalize(f)) <=> Meets(u, f)
  BY <1>1, NormalizeExact
<1>3. /\ g \in FieldFilters /\ NullNotListed(g)
      /\ Fits(u, f) => Fits(u, g)
      /\ Meets(u, g) => Meets(u, f)
      /\ SqlMatches(u, f) => SqlMatches(u, g)
      /\ SqliteMatches(u, f) => SqliteMatches(u, g)
  BY <1>1, NullsInLists
<1> HIDE DEF u, g
<1>4. CASE source \in Sql
  <2>1. Meets(u, g)
    <3>1. CASE source = "sqlite"
      <4>1. SqliteMatches(u, f) /\ Fits(u, f)
        BY <3>1 DEF SourceMatches, u
      <4> QED  BY <1>1, <1>3, <4>1, SqliteExact
    <3>2. CASE source \in {"drizzle", "prisma"}
      <4>1. SqlMatches(u, f)
        BY <3>2 DEF SourceMatches, u
      <4> QED  BY <1>1, <1>3, <4>1, SqlExact
    <3> QED  BY <1>4, <3>1, <3>2 DEF Sql
  <2>2. Matches(u, Normalize(f))
    BY <1>2, <1>3, <2>1
  <2> QED  BY <1>1, <1>4, <2>2 DEF Databases
<1>5. CASE source = "mongo"
  <2>1. MongoMatches(v, f)
    BY <1>5 DEF SourceMatches
  <2>2. Meets(u, f)
    <3>1. CASE v = Absent
      <4>1. f.in # Absent => Absent \notin f.in
        BY ScalarsAssumption DEF FieldFilters
      <4>2. u = Null
        BY <1>1, <3>1
      <4> QED  BY <2>1, <3>1, <4>1, <4>2 DEF MongoMatches, Meets
    <3>2. CASE v # Absent
      BY <1>1, <2>1, <3>2, MongoExact
    <3> QED  BY <3>1, <3>2
  <2> QED  BY <1>1, <1>2, <1>5, <2>2 DEF Databases
<1>6. CASE source \in {"memory", "redis", "stripe"}
  BY <1>6 DEF SourceMatches
<1> QED  BY <1>4, <1>5, <1>6 DEF Sources, Databases, Local

\* Only a condition of nothing is met by null, when it names no null.
LEMMA NullMeetsNothing ==
  ASSUME NEW f \in FieldFilters, Plain(f), NamesNoNull(f), Matches(Null, Normalize(f))
  PROVE  Matches(Absent, Normalize(f))
<1>1. Null \in Values /\ Absent \in Values
  BY StorageAssumption DEF Values
<1>2. Meets(Null, f)
  BY <1>1, NormalizeExact
<1>3. \A x \in Comparable : x # Null /\ x # Absent /\ ~Less(x, Null) /\ ~Less(Null, x)
  BY ScalarsAssumption, NullScalar DEF Comparable, Less
<1>4. /\ f.gt \in {Absent} \cup Comparable /\ f.gte \in {Absent} \cup Comparable
      /\ f.lt \in {Absent} \cup Comparable /\ f.lte \in {Absent} \cup Comparable
  BY DEF FieldFilters
<1>5. Meets(Absent, f)
  BY <1>2, <1>3, <1>4 DEF Meets, NamesNoNull, NullNotListed
<1> QED  BY <1>1, <1>5, NormalizeExact

LEMMA ColumnFits ==
  ASSUME NEW type, NEW v \in Values, v # Absent => v \in ColumnOf(type), NEW f \in FieldFilters,
         NamesWithin(ColumnOf(type), f)
  PROVE  Fits(Column(v), f)
<1> DEFINE u == Column(v)
<1>1. u.type \in {type, "null"}
  BY NullScalar, StorageAssumption DEF Column, ColumnOf
<1>2. \A x \in ColumnOf(type) : Alike(u, x)
  BY <1>1 DEF ColumnOf, Alike
<1> HIDE DEF u
<1>3. Fits(u, f)
  BY <1>2 DEF NamesWithin, Fits
<1> QED  BY <1>3 DEF u

\* What a source finds for a query narrowed by a granted scope is granted:
\* whoever reads, through whichever adapter.  Where a database decides, the
\* scope must not name null, which it takes a missing field for; and SQLite,
\* which has no booleans, needs columns of one type.
THEOREM SourcesKeepScope ==
  ASSUME NEW source \in Sources, NEW query, NEW granted,
         IsWhereFilter(query), IsWhereFilter(granted), NEW row \in [Fields -> Values],
         \A fd \in DOMAIN granted :
           /\ Plain(granted[fd])
           /\ source \in Databases => NamesNoNull(granted[fd]),
         source = "sqlite" => \E type \in [Fields -> Types] :
           /\ \A fd \in Fields : row[fd] # Absent => row[fd] \in ColumnOf(type[fd])
           /\ \A fd \in DOMAIN query : NamesWithin(ColumnOf(type[fd]), query[fd])
           /\ \A fd \in DOMAIN granted : NamesWithin(ColumnOf(type[fd]), granted[fd]),
         IntersectFilters(query, granted) # Absent,
         SourceFinds(source, row, IntersectFilters(query, granted))
  PROVE  MatchesFilter(row, granted)
<1> SUFFICES ASSUME NEW fd \in DOMAIN granted
             PROVE  Matches(row[fd], Normalize(granted[fd]))
  BY DEF MatchesFilter
<1> DEFINE v == row[fd]
           b == granted[fd]
           narrowed == IntersectFilters(query, granted)
           f == narrowed[fd]
           c == IntersectConditions(Normalize(query[fd]), Normalize(b))
<1>1. fd \in Fields /\ v \in Values /\ b \in FieldFilters /\ Plain(b)
      /\ (fd \in DOMAIN query => query[fd] \in FieldFilters)
  BY DEF IsWhereFilter
<1>2. /\ fd \in DOMAIN narrowed
      /\ fd \in DOMAIN query => f = Denormalize(c) /\ ~c.unsatisfiable
      /\ fd \notin DOMAIN query => f = b
  BY DEF IntersectFilters
<1>3. SourceMatches(source, v, f)
  BY <1>2 DEF SourceFinds
<1>4. fd \in DOMAIN query => /\ Normalize(query[fd]) \in Conditions
                             /\ Canonical(Normalize(query[fd]))
                             /\ Normalize(b) \in Conditions /\ Canonical(Normalize(b))
                             /\ c \in Conditions /\ Canonical(c)
  BY <1>1, NormalizeCanonical, IntersectConditionsExact, StorageAssumption DEF Values
<1>5. f \in FieldFilters /\ Plain(f)
  BY <1>1, <1>2, <1>4, DenormalizeForm
<1>6. source = "sqlite" => Fits(Column(v), f)
  <2> SUFFICES ASSUME source = "sqlite" PROVE Fits(Column(v), f)
    OBVIOUS
  <2>1. PICK type \in [Fields -> Types] :
          /\ v # Absent => v \in ColumnOf(type[fd])
          /\ fd \in DOMAIN query => NamesWithin(ColumnOf(type[fd]), query[fd])
          /\ NamesWithin(ColumnOf(type[fd]), b)
    BY <1>1
  <2> DEFINE T == ColumnOf(type[fd])
  <2>2. CASE fd \in DOMAIN query
    <3>1. Within(T, Normalize(query[fd])) /\ Within(T, Normalize(b))
      BY <1>1, <2>1, <2>2, NormalizeWithin
    <3>2. Within(T, c)
      BY <1>4, <2>2, <3>1, IntersectWithin
    <3>3. NamesWithin(T, f)
      BY <1>2, <1>4, <2>2, <3>2, DenormalizeForm
    <3> QED  BY <1>1, <1>5, <2>1, <3>3, ColumnFits
  <2>3. CASE fd \notin DOMAIN query
    BY <1>1, <1>2, <1>5, <2>1, <2>3, ColumnFits
  <2> QED  BY <2>2, <2>3
<1>7. \/ Matches(v, Normalize(f))
      \/ v = Absent /\ source \in Databases /\ Matches(Null, Normalize(f))
  BY <1>1, <1>3, <1>5, <1>6, SourceSound
<1>8. \A u \in Values : Matches(u, Normalize(f)) => Matches(u, Normalize(b))
  <2> SUFFICES ASSUME NEW u \in Values, Matches(u, Normalize(f)) PROVE Matches(u, Normalize(b))
    OBVIOUS
  <2>1. CASE fd \in DOMAIN query
    <3>1. Matches(u, c)
      BY <1>2, <1>4, <2>1, DenormalizeExact
    <3> QED  BY <1>4, <2>1, <3>1, IntersectConditionsExact
  <2>2. CASE fd \notin DOMAIN query
    BY <1>2, <2>2
  <2> QED  BY <2>1, <2>2
<1>9. Null \in Values
  BY StorageAssumption DEF Values
<1>10. CASE Matches(v, Normalize(f))
  BY <1>1, <1>8, <1>10
<1>11. CASE v = Absent /\ source \in Databases /\ Matches(Null, Normalize(f))
  <2>1. Matches(Null, Normalize(b))
    BY <1>8, <1>9, <1>11
  <2> QED  BY <1>1, <1>11, <2>1, NullMeetsNothing
<1> QED  BY <1>7, <1>10, <1>11

----------------------------------------------------------------------------

\* The parts of a handler, whatever they hold.
HandlerParts == {"plans", "at", "phase", "current", "write", "keys", "rows", "late", "torn", "results"}
HasParts(req) == req = [part \in HandlerParts |-> req[part]]

\* The handler of a message is at one of its plans, and has come to the
\* current record or to an implementation only with a plan that has one.
AtPlan(req) ==
  LET plan == req.plans[req.at]
  IN /\ req.phase \notin {"waiting", "done"} => req.plans \in Batches
     /\ req.phase = "context" => req.at = 1
     /\ req.phase \notin {"waiting", "context", "done"} => req.at \in DOMAIN req.plans
     /\ req.phase = "current" =>
          /\ plan.op \in {"patch", "delete", "action"}
          /\ plan.op = "action" => plan.action \in DOMAIN Lowering \cup DOMAIN Impls
     /\ req.phase = "impl" => /\ plan.op = "action" /\ plan.action \in DOMAIN Impls
                              /\ Impls[plan.action] # Absent

\* What the write under way is based on.
Based(req, rows, w) ==
  LET write == req.write
  IN /\ req.current \in Row /\ rows[write.id] = req.current
     /\ w.versioned => /\ write.version = req.current.version + 1
                       /\ write.base \in {Absent, req.current.version}

WriteSound(req, rows, w) ==
  LET write == req.write
  IN /\ write.id \in Ids /\ write.op \in {"create", "patch", "delete"}
     /\ write.op = "create" => write.row \in Created
     /\ write.op = "patch" =>
          /\ write.change \in Changing /\ IsPatch(write.change)
          /\ IF w.versioned THEN write.version \in Int ELSE write.version = Absent
          /\ ~req.late => Based(req, rows, w)

Handler(req, rows, w) ==
  /\ HasParts(req) /\ req.late \in BOOLEAN /\ req.torn \in BOOLEAN
  /\ AtPlan(req)
  /\ req.phase \in {"write", "merge"} => WriteSound(req, rows, w)
  /\ req.phase = "merge" => /\ req.write.op = "patch" /\ req.current \in Row
                            /\ ~req.torn => rows[req.write.id] = req.current
  /\ req.torn => req.late /\ req.phase \in {"merge", "written"}

ServerInv ==
  /\ store \in [Ids -> Stored]
  /\ requests = [m \in Msgs |-> requests[m]]
  /\ won = [id \in Ids |-> won[id]]
  /\ \A m \in Msgs : Handler(requests[m], store, world)

\* Where the promise holds, the record is past every base somebody won at.
WinnersBehind ==
  \A id \in Ids : world.versioned /\ id \notin raced /\ store[id] # Absent =>
    \A winner \in won[id] : winner.base \in Int /\ winner.base < store[id].version

----------------------------------------------------------------------------
(* Plans and rows.                                                         *)

LEMMA PlanOfBatch ==
  ASSUME NEW plans \in Batches, NEW i \in DOMAIN plans
  PROVE  /\ IsPlan(plans[i]) /\ plans[i] \in AllPlans
         /\ Len(plans) \in Nat /\ DOMAIN plans = 1..Len(plans)
<1>1. IsPlan(plans[i]) /\ plans \in Seq({plans[j] : j \in DOMAIN plans})
  BY ServerAssumption
<1> QED  BY <1>1 DEF AllPlans

LEMMA CreatedRows == Created \subseteq Row
<1> SUFFICES ASSUME NEW plan \in AllPlans, plan.op = "create" PROVE plan.row \in Row
  BY DEF Created
<1>1. PICK plans \in Batches : \E i \in DOMAIN plans : plan = plans[i]
  BY DEF AllPlans
<1>2. IsPlan(plan)
  BY <1>1, PlanOfBatch
<1> QED  BY <1>2 DEF IsPlan, IsReadPlan, IsWritePlan

\* SQL's columns give back what was stored.
LEMMA KeptIsFresh ==
  ASSUME NEW row \in Created
  PROVE  Kept(row) \in FreshRows /\ Kept(row) \in Row
<1>1. row \in Row
  BY CreatedRows
<1>2. ASSUME NEW v \in Values
      PROVE  /\ Column(v) \in Scalars
             /\ CoerceField(Column(v).type, ToStored(Column(v))) = Column(v)
  <2>1. Column(v) \in Scalars
    BY StorageAssumption DEF Column, Values
  <2>2. Column(v) # Absent /\ Column(v) \in [type: Types, at: Int]
    BY <2>1, ScalarsAssumption
  <2> QED  BY <2>1, <2>2 DEF CoerceField, ToStored
<1>3. \A fd \in Fields : row.data[fd] \in Values
  BY <1>1 DEF Row
<1>4. CASE world.source \notin Sql
  BY <1>1, <1>4 DEF Kept, FreshRows
<1>5. CASE world.source \in Sql
  <2> DEFINE columns == [row EXCEPT !.data = [fd \in Fields |-> Column(@[fd])]]
  <2>1. Kept(row) = columns
    BY <1>1, <1>2, <1>3, <1>5 DEF Kept, Row
  <2>2. columns \in Row
    BY <1>1, <1>2, <1>3 DEF Row, Values
  <2> QED  BY <2>1, <2>2 DEF FreshRows
<1> QED  BY <1>4, <1>5

LEMMA PatchedRow ==
  ASSUME NEW row \in Row, NEW change, IsPatch(change)
  PROVE  /\ Merge(row.data, change) \in [Fields -> Values]
         /\ Merge(row.data, change) = Register!Overwrite(row.data, change)
<1>1. row.data \in [Fields -> Values]
  BY DEF Row
<1>2. \A fd \in DOMAIN change : change[fd] \in Scalars
  BY DEF IsPatch
<1> QED  BY <1>1, <1>2 DEF Merge, Register!Overwrite, Values

\* What a validated patch keeps is a patch the instance names.
LEMMA KnownPatch ==
  ASSUME NEW patch, IsPatch(patch)
  PROVE  IsPatch(Known(patch))
  BY DEF IsPatch, Known

----------------------------------------------------------------------------
(* Steps that leave the store alone.                                       *)

LEMMA QuietStep ==
  ASSUME ServerInv, NEW m \in Msgs, NEW req,
         requests' = [requests EXCEPT ![m] = req], Handler(req, store, world),
         UNCHANGED <<world, store, won>>
  PROVE  ServerInv'
  BY DEF ServerInv

\* The handler goes on to a phase that asks nothing of its plan.
LEMMA GoesOn ==
  ASSUME ServerInv, NEW m \in Msgs, NEW phase,
         phase \in {"access", "find", "scan", "named", "impl_wrote", "written", "done"},
         phase # "done" => requests[m].at \in DOMAIN requests[m].plans,
         requests[m].phase \notin {"waiting", "done"} \/ phase = "done",
         requests[m].phase \notin {"merge", "written"},
         Goes(m, phase), UNCHANGED <<world, store, won>>
  PROVE  ServerInv'
<1> DEFINE req == [requests[m] EXCEPT !.phase = phase]
<1>1. requests' = [requests EXCEPT ![m] = req]
  BY DEF Goes
<1>2. Handler(requests[m], store, world)
  BY DEF ServerInv
<1>3. /\ HasParts(req) /\ req.plans = requests[m].plans /\ req.at = requests[m].at
      /\ req.phase = phase /\ req.late = requests[m].late /\ req.torn = requests[m].torn
  BY <1>2 DEF Handler, HasParts, HandlerParts
<1>4. Handler(req, store, world)
  BY <1>2, <1>3 DEF Handler, AtPlan
<1> QED  BY <1>1, <1>4, QuietStep

\* The handler answers its plan and goes on to the next.
LEMMA AnswersOn ==
  ASSUME ServerInv, NEW m \in Msgs, NEW result, Answer(m, result),
         requests[m].phase \notin {"waiting", "context", "done"},
         UNCHANGED <<world, store, won>>
  PROVE  ServerInv'
<1> DEFINE req == requests[m]
           new == Answered(req, result)
<1>1. requests' = [requests EXCEPT ![m] = new]
  BY DEF Answer
<1>2. Handler(req, store, world)
  BY DEF ServerInv
<1>3. /\ HasParts(new) /\ new.plans = req.plans /\ new.at = req.at + 1
      /\ new.phase = IF req.at = Len(req.plans) THEN "done" ELSE "plan"
      /\ new.late = FALSE /\ new.torn = FALSE
  BY <1>2 DEF Handler, HasParts, HandlerParts, Answered, Cleared
<1>4. req.plans \in Batches /\ req.at \in DOMAIN req.plans
  BY <1>2 DEF Handler, AtPlan
<1>5. new.phase # "done" => new.at \in DOMAIN new.plans
  <2>1. DOMAIN req.plans = 1..Len(req.plans) /\ Len(req.plans) \in Nat
    BY <1>4, PlanOfBatch
  <2> QED  BY <1>3, <1>4, <2>1
<1>6. Handler(new, store, world)
  <2>1. new.phase \in {"plan", "done"}
    BY <1>3
  <2>2. AtPlan(new)
    BY <1>3, <1>4, <1>5, <2>1 DEF AtPlan
  <2> QED  BY <1>3, <2>1, <2>2 DEF Handler
<1> QED  BY <1>1, <1>6, QuietStep

LEMMA Arrivals ==
  ASSUME ServerInv, NEW m \in Msgs, Post(m) \/ Turned(m) \/ Context(m)
  PROVE  ServerInv'
<1>1. CASE Post(m)
  <2>1. PICK plans \in Batches :
          requests' = [requests EXCEPT ![m] = [Idle EXCEPT !.plans = plans, !.phase = "context"]]
    BY <1>1 DEF Post
  <2> DEFINE req == [Idle EXCEPT !.plans = plans, !.phase = "context"]
  <2>2. /\ HasParts(req) /\ req.plans = plans /\ req.at = 1 /\ req.phase = "context"
        /\ req.late = FALSE /\ req.torn = FALSE
    BY DEF Idle, HasParts, HandlerParts
  <2>3. Handler(req, store, world)
    BY <2>2 DEF Handler, AtPlan
  <2> QED  BY <1>1, <2>1, <2>3, QuietStep DEF Post, ghosts
<1>2. CASE Turned(m)
  BY <1>2, GoesOn DEF Turned, ghosts, Phase
<1>3. CASE Context(m)
  <2> DEFINE phase == IF requests[m].plans = <<>> THEN "done" ELSE "plan"
             req == [requests[m] EXCEPT !.phase = phase]
  <2>1. Handler(requests[m], store, world) /\ requests[m].phase = "context"
    BY <1>3 DEF ServerInv, Context, Phase
  <2>2. /\ HasParts(req) /\ req.plans = requests[m].plans /\ req.at = requests[m].at
        /\ req.phase = phase /\ req.late = requests[m].late /\ req.torn = requests[m].torn
    BY <2>1 DEF Handler, HasParts, HandlerParts
  <2>3. req.plans \in Batches /\ req.at = 1
    BY <2>1, <2>2 DEF Handler, AtPlan
  <2>4. req.plans # <<>> => 1 \in DOMAIN req.plans
    <3>1. req.plans \in Seq({req.plans[i] : i \in DOMAIN req.plans})
      BY <2>3, ServerAssumption
    <3> QED  BY <3>1
  <2>5. Handler(req, store, world)
    BY <2>1, <2>2, <2>3, <2>4 DEF Handler, AtPlan
  <2>6. requests' = [requests EXCEPT ![m] = req]
    BY <1>3 DEF Context, Goes
  <2> QED  BY <1>3, <2>5, <2>6, QuietStep DEF Context, ghosts
<1> QED  BY <1>1, <1>2, <1>3

LEMMA Starts ==
  ASSUME ServerInv, NEW m \in Msgs,
         Begin(m) \/ AccessFails(m) \/ StartRead(m) \/ StartNamed(m) \/ StartCreate(m)
         \/ StartUpdate(m)
  PROVE  ServerInv'
<1> DEFINE req == requests[m]
           plan == Plan(m)
<1>1. Handler(req, store, world)
  BY DEF ServerInv
<1>2. req.phase \in {"plan", "access"} /\ UNCHANGED <<world, store, won>>
  BY DEF Begin, AccessFails, StartRead, StartNamed, StartCreate, StartUpdate, Phase, ghosts
<1>3. req.plans \in Batches /\ req.at \in DOMAIN req.plans
  BY <1>1, <1>2 DEF Handler, AtPlan
<1>4. ASSUME NEW result, Answer(m, result) PROVE ServerInv'
  BY <1>2, <1>4, AnswersOn
<1>5. ASSUME NEW phase \in {"access", "find", "named"}, Goes(m, phase) PROVE ServerInv'
  BY <1>2, <1>3, <1>5, GoesOn
<1>6. CASE Begin(m)
  BY <1>4, <1>5, <1>6 DEF Begin
<1>7. CASE AccessFails(m)
  BY <1>4, <1>7 DEF AccessFails
<1>8. CASE StartRead(m)
  <2>1. CASE plan.op = "one"
    BY <1>5, <1>8, <2>1 DEF StartRead
  <2>2. CASE plan.op = "where"
    BY <1>4, <1>5, <1>8, <2>2 DEF StartRead
  <2> QED  BY <1>8, <2>1, <2>2 DEF StartRead
<1>9. CASE StartNamed(m)
  BY <1>4, <1>5, <1>9 DEF StartNamed
<1>10. CASE StartCreate(m)
  <2> DEFINE write == [NoWrite EXCEPT !.op = "create", !.id = plan.id, !.row = plan.row]
             new == [req EXCEPT !.phase = "write", !.write = write]
  <2>1. CASE requests' = [requests EXCEPT ![m].phase = "write", ![m].write = write]
    <3>1. requests' = [requests EXCEPT ![m] = new]
      BY <2>1
    <3>2. /\ HasParts(new) /\ new.plans = req.plans /\ new.at = req.at
          /\ new.phase = "write" /\ new.write = write
          /\ new.late = req.late /\ new.torn = req.torn
      BY <1>1 DEF Handler, HasParts, HandlerParts
    <3>3. write.op = "create" /\ write.id = plan.id /\ write.row = plan.row
      BY DEF NoWrite
    <3>4. plan.op = "create" /\ IsPlan(plan) /\ plan \in AllPlans
      BY <1>3, <1>10, PlanOfBatch DEF StartCreate, Plan
    <3>5. plan.id \in Ids /\ plan.row \in Created
      BY <3>4 DEF IsPlan, IsReadPlan, IsWritePlan, Created
    <3>6. WriteSound(new, store, world)
      BY <3>2, <3>3, <3>5 DEF WriteSound
    <3>7. Handler(new, store, world)
      BY <1>1, <1>2, <1>3, <3>2, <3>6 DEF Handler, AtPlan
    <3> QED  BY <1>2, <3>1, <3>7, QuietStep
  <2> QED  BY <1>4, <1>10, <2>1 DEF StartCreate
<1>11. CASE StartUpdate(m)
  <2> DEFINE new == [req EXCEPT !.phase = "current"]
  <2>1. CASE /\ plan.op \in {"patch", "delete", "action"} /\ Goes(m, "current")
             /\ plan.op = "action" => plan.action \in DOMAIN Lowering \cup DOMAIN Impls
    <3>1. requests' = [requests EXCEPT ![m] = new]
      BY <2>1 DEF Goes
    <3>2. /\ HasParts(new) /\ new.plans = req.plans /\ new.at = req.at
          /\ new.phase = "current" /\ new.late = req.late /\ new.torn = req.torn
      BY <1>1 DEF Handler, HasParts, HandlerParts
    <3>3. new.plans[new.at] = plan
      BY <3>2 DEF Plan
    <3>4. Handler(new, store, world)
      BY <1>1, <1>2, <1>3, <2>1, <3>2, <3>3 DEF Handler, AtPlan
    <3> QED  BY <1>2, <3>1, <3>4, QuietStep
  <2> QED  BY <1>4, <1>11, <2>1 DEF StartUpdate
<1> QED  BY <1>6, <1>7, <1>8, <1>9, <1>10, <1>11

LEMMA Reads ==
  ASSUME ServerInv, NEW m \in Msgs, Find(m) \/ Scan(m) \/ Named(m)
  PROVE  ServerInv'
<1> DEFINE req == requests[m]
<1>1. Handler(req, store, world)
  BY DEF ServerInv
<1>2. req.phase \in {"find", "scan", "named"} /\ UNCHANGED <<world, store, won>>
  BY DEF Find, Scan, Named, Phase, ghosts
<1>3. req.at \in DOMAIN req.plans
  BY <1>1, <1>2 DEF Handler, AtPlan
<1>4. ASSUME NEW result, Answer(m, result) PROVE ServerInv'
  BY <1>2, <1>4, AnswersOn
<1>5. ASSUME NEW rows, WhereAnswered(m, rows) PROVE ServerInv'
  BY <1>4, <1>5 DEF WhereAnswered
<1>6. CASE Find(m)
  <2>1. CASE requests' = [requests EXCEPT ![m].phase = "scan",
                            ![m].keys = {id \in Ids : store[id] # Absent}]
    <3> DEFINE new == [req EXCEPT !.phase = "scan", !.keys = {id \in Ids : store[id] # Absent}]
    <3>1. requests' = [requests EXCEPT ![m] = new]
      BY <2>1
    <3>2. /\ HasParts(new) /\ new.plans = req.plans /\ new.at = req.at
          /\ new.phase = "scan" /\ new.late = req.late /\ new.torn = req.torn
      BY <1>1 DEF Handler, HasParts, HandlerParts
    <3>3. Handler(new, store, world)
      BY <1>1, <1>2, <3>2 DEF Handler, AtPlan
    <3> QED  BY <1>2, <3>1, <3>3, QuietStep
  <2> DEFINE plan == Plan(m)
  <2>2. CASE plan.op = "one"
    <3>1. \E result : Answer(m, result)
      BY <1>6, <2>2 DEF Find
    <3> QED  BY <1>4, <3>1
  <2>3. CASE plan.op # "one"
    <3>1. \/ \E result : Answer(m, result)
          \/ WhereAnswered(m, Existing)
          \/ requests' = [requests EXCEPT ![m].phase = "scan",
                            ![m].keys = {id \in Ids : store[id] # Absent}]
      BY <1>6, <2>3 DEF Find
    <3> QED  BY <1>4, <1>5, <2>1, <3>1
  <2> QED  BY <2>2, <2>3
<1>7. CASE Scan(m)
  <2>1. CASE req.keys = {}
    BY <1>5, <1>7, <2>1 DEF Scan
  <2>2. CASE req.keys # {}
    <3>1. PICK keys, rows :
            requests' = [requests EXCEPT ![m].keys = keys, ![m].rows = rows]
      BY <1>7, <2>2 DEF Scan
    <3> DEFINE new == [req EXCEPT !.keys = keys, !.rows = rows]
    <3>2. requests' = [requests EXCEPT ![m] = new]
      BY <3>1
    <3>3. /\ HasParts(new) /\ new.plans = req.plans /\ new.at = req.at
          /\ new.phase = req.phase /\ new.late = req.late /\ new.torn = req.torn
      BY <1>1 DEF Handler, HasParts, HandlerParts
    <3>4. Handler(new, store, world)
      BY <1>1, <1>2, <3>3 DEF Handler, AtPlan
    <3> QED  BY <1>2, <3>2, <3>4, QuietStep
  <2> QED  BY <2>1, <2>2
<1>8. CASE Named(m)
  BY <1>4, <1>8 DEF Named
<1> QED  BY <1>6, <1>7, <1>8

----------------------------------------------------------------------------
(* What is decided on the current record.                                  *)

\* applyPatch: the write it prepares is based on the record it looked at.
LEMMA Patches ==
  ASSUME ServerInv, NEW m \in Msgs, NEW patch, requests[m].phase = "current",
         UNCHANGED <<world, store, won>>,
         store[Plan(m).id] \in Row, Plan(m).op \in {"patch", "action"},
         IsPatch(patch), Known(patch) \in Changing,
         ApplyPatch(m, store[Plan(m).id], patch)
  PROVE  ServerInv'
<1> DEFINE req == requests[m]
           plan == Plan(m)
           row == store[plan.id]
           base == plan.base
           write == [NoWrite EXCEPT !.op = "patch", !.id = plan.id, !.change = Known(patch),
                       !.version = IF world.versioned THEN row.version + 1 ELSE Absent,
                       !.base = IF world.versioned THEN base ELSE Absent]
           new == [req EXCEPT !.phase = "write", !.current = row, !.write = write]
<1>1. CASE PatchVerdict(m, row, Known(patch), base) # "ok"
  <2>1. \E result : Answer(m, result)
    BY <1>1 DEF ApplyPatch
  <2> QED  BY <2>1, AnswersOn
<1>2. CASE PatchVerdict(m, row, Known(patch), base) = "ok"
  <2>1. requests' = [requests EXCEPT ![m] = new]
    BY <1>2 DEF ApplyPatch
  <2>2. Handler(req, store, world)
    BY DEF ServerInv
  <2>3. /\ HasParts(new) /\ new.plans = req.plans /\ new.at = req.at
        /\ new.phase = "write" /\ new.write = write /\ new.current = row
        /\ new.late = req.late /\ new.torn = req.torn
    BY <2>2 DEF Handler, HasParts, HandlerParts
  <2>4. /\ write.op = "patch" /\ write.id = plan.id /\ write.change = Known(patch)
        /\ write.version = IF world.versioned THEN row.version + 1 ELSE Absent
        /\ write.base = IF world.versioned THEN base ELSE Absent
    BY DEF NoWrite
  <2>5. req.plans \in Batches /\ req.at \in DOMAIN req.plans
    BY <2>2 DEF Handler, AtPlan
  <2>6. plan.id \in Ids
    <3>1. IsPlan(plan)
      BY <2>5, PlanOfBatch DEF Plan
    <3> QED  BY <3>1 DEF IsPlan, IsReadPlan, IsWritePlan
  <2>7. row.version \in Int
    BY DEF Row
  <2>8. world.versioned => base \in {Absent, row.version}
    BY <1>2 DEF PatchVerdict
  <2> HIDE DEF write, new
  <2>9. Based(new, store, world)
    <3>1. world.versioned => write.version = row.version + 1 /\ write.base \in {Absent, row.version}
      BY <2>4, <2>8
    <3> QED  BY <2>3, <2>4, <3>1 DEF Based
  <2>10. WriteSound(new, store, world)
    <3>1. IF world.versioned THEN write.version \in Int ELSE write.version = Absent
      BY <2>4, <2>7
    <3>2. IsPatch(Known(patch))
      BY KnownPatch
    <3> QED  BY <2>3, <2>4, <2>6, <2>9, <3>1, <3>2 DEF WriteSound
  <2>11. Handler(new, store, world)
    BY <2>2, <2>3, <2>5, <2>10 DEF Handler, AtPlan
  <2> QED  BY <2>1, <2>11, QuietStep
<1> QED  BY <1>1, <1>2

LEMMA Decides ==
  ASSUME ServerInv, NEW m \in Msgs, Current(m)
  PROVE  ServerInv'
<1> DEFINE req == requests[m]
           plan == Plan(m)
           row == store[plan.id]
           action == plan.action
<1>1. Handler(req, store, world)
  BY DEF ServerInv
<1>2. req.phase = "current" /\ UNCHANGED <<world, store, won>>
  BY DEF Current, Phase, ghosts
<1>3. /\ req.plans \in Batches /\ req.at \in DOMAIN req.plans
      /\ plan.op \in {"patch", "delete", "action"}
      /\ plan.op = "action" => action \in DOMAIN Lowering \cup DOMAIN Impls
  BY <1>1, <1>2 DEF Handler, AtPlan, Plan
<1>4. IsPlan(plan) /\ plan \in AllPlans
  BY <1>3, PlanOfBatch DEF Plan
<1>5. plan.id \in Ids /\ row \in Stored
  BY <1>4, <1>3 DEF IsPlan, IsReadPlan, IsWritePlan, ServerInv
<1>6. ASSUME NEW result, Answer(m, result) PROVE ServerInv'
  BY <1>2, <1>6, AnswersOn
<1>7. CASE plan.op = "patch" /\ row # Absent /\ ApplyPatch(m, row, plan.patch)
  <2>1. IsPatch(plan.patch)
    BY <1>4, <1>7 DEF IsPlan, IsReadPlan, IsWritePlan
  <2>2. Known(plan.patch) \in Changing
    BY <1>4, <1>7 DEF Changing, ByUpdates
  <2> QED  BY <1>2, <1>5, <1>7, <2>1, <2>2, Patches DEF Stored
<1>8. CASE plan.op = "delete" /\ ApplyDelete(m, row)
  <2>1. CASE Goes(m, "written")
    BY <1>2, <1>3, <2>1, GoesOn
  <2> DEFINE write == [NoWrite EXCEPT !.op = "delete", !.id = plan.id]
             new == [req EXCEPT !.phase = "write", !.current = row, !.write = write]
  <2>2. CASE requests' = [requests EXCEPT ![m].phase = "write", ![m].current = row,
                            ![m].write = write]
    <3>1. requests' = [requests EXCEPT ![m] = new]
      BY <2>2
    <3>2. /\ HasParts(new) /\ new.plans = req.plans /\ new.at = req.at
          /\ new.phase = "write" /\ new.write = write
          /\ new.late = req.late /\ new.torn = req.torn
      BY <1>1 DEF Handler, HasParts, HandlerParts
    <3>3. write.op = "delete" /\ write.id = plan.id
      BY DEF NoWrite
    <3>4. WriteSound(new, store, world)
      BY <1>5, <3>2, <3>3 DEF WriteSound
    <3>5. Handler(new, store, world)
      BY <1>1, <1>2, <1>3, <3>2, <3>4 DEF Handler, AtPlan
    <3> QED  BY <1>2, <3>1, <3>5, QuietStep
  <2> QED  BY <1>6, <1>8, <2>1, <2>2 DEF ApplyDelete
<1>9. CASE plan.op = "action" /\ row # Absent /\ ApplyAction(m, row)
  <2>1. row \in Row /\ row.data \in [Fields -> Values]
    BY <1>5, <1>9 DEF Stored, Row
  <2>2. CASE Goes(m, "impl") /\ action \in DOMAIN Impls /\ Impls[action] # Absent
    <3> DEFINE new == [req EXCEPT !.phase = "impl"]
    <3>1. requests' = [requests EXCEPT ![m] = new]
      BY <2>2 DEF Goes
    <3>2. /\ HasParts(new) /\ new.plans = req.plans /\ new.at = req.at
          /\ new.phase = "impl" /\ new.late = req.late /\ new.torn = req.torn
      BY <1>1 DEF Handler, HasParts, HandlerParts
    <3>3. new.plans[new.at] = plan
      BY <3>2 DEF Plan
    <3>4. Handler(new, store, world)
      BY <1>1, <1>2, <1>3, <1>9, <2>2, <3>2, <3>3 DEF Handler, AtPlan
    <3> QED  BY <1>2, <3>1, <3>4, QuietStep
  <2>3. CASE /\ action \in DOMAIN Lowering /\ row.data \in DOMAIN Lowering[action]
             /\ ApplyPatch(m, row, Lowering[action][row.data])
    <3> DEFINE patch == Lowering[action][row.data]
    <3>1. action \in DOMAIN Lowering
      BY <2>3
    <3>2. row.data \in DOMAIN Lowering[action] /\ IsPatch(patch)
      BY <2>3, ServerAssumption
    <3>3. Known(patch) \in Changing
      <4> DEFINE lowered(a) == {Known(Lowering[a][data]) : data \in DOMAIN Lowering[a]}
      <4>1. Known(patch) \in lowered(action)
        BY <3>2
      <4> HIDE DEF lowered
      <4>2. Known(patch) \in UNION {lowered(a) : a \in DOMAIN Lowering}
        BY <3>1, <4>1
      <4> QED  BY <4>2 DEF Changing, ByLowerings, lowered
    <3> QED  BY <1>2, <1>9, <2>1, <2>3, <3>2, <3>3, Patches
  <2> QED  BY <1>3, <1>6, <1>9, <2>2, <2>3 DEF ApplyAction, Lower
<1> QED
  <2>1. \/ \E result : Answer(m, result)
        \/ plan.op = "patch" /\ row # Absent /\ ApplyPatch(m, row, plan.patch)
        \/ plan.op = "delete" /\ ApplyDelete(m, row)
        \/ plan.op = "action" /\ row # Absent /\ ApplyAction(m, row)
    BY <1>3 DEF Current
  <2> QED  BY <2>1, <1>6, <1>7, <1>8, <1>9

----------------------------------------------------------------------------
(* Writes.                                                                 *)

\* A handler whose record another one writes is late from then on.
LEMMA Overtaken ==
  ASSUME NEW rows \in [Ids -> Stored], NEW req, NEW w, NEW id, NEW row,
         Handler(req, rows, w)
  PROVE  Handler(IF req.write.id = id
                 THEN [req EXCEPT !.late = TRUE, !.torn = (req.phase = "merge")] ELSE req,
                 [rows EXCEPT ![id] = row], w)
<1> DEFINE after == [rows EXCEPT ![id] = row]
           new == [req EXCEPT !.late = TRUE, !.torn = (req.phase = "merge")]
<1>1. CASE req.write.id = id
  <2>1. /\ HasParts(new) /\ new.plans = req.plans /\ new.at = req.at
        /\ new.phase = req.phase /\ new.write = req.write /\ new.current = req.current
        /\ new.late = TRUE /\ new.torn = (req.phase = "merge")
    BY DEF Handler, HasParts, HandlerParts
  <2>2. AtPlan(new)
    BY <2>1 DEF Handler, AtPlan
  <2>3. new.phase \in {"write", "merge"} => WriteSound(new, after, w)
    BY <2>1 DEF Handler, WriteSound
  <2>4. Handler(new, after, w)
    BY <2>1, <2>2, <2>3 DEF Handler
  <2> QED  BY <1>1, <2>4
<1>2. CASE req.write.id # id
  <2>1. req.phase \in {"write", "merge"} => after[req.write.id] = rows[req.write.id]
    BY <1>2 DEF Handler, WriteSound
  <2>2. req.phase \in {"write", "merge"} => WriteSound(req, after, w)
    BY <2>1 DEF Handler, WriteSound, Based
  <2>3. Handler(req, after, w)
    BY <2>1, <2>2 DEF Handler
  <2> QED  BY <1>2, <2>3
<1> QED  BY <1>1, <1>2

\* The store once a handler has written, and everyone's state.
LEMMA WriteStep ==
  ASSUME ServerInv, NEW m \in Msgs, NEW id \in Ids, NEW row \in Stored, NEW new, NEW history,
         store' = [store EXCEPT ![id] = row], world' = world,
         won' = [won EXCEPT ![id] = history],
         requests' = [Landed(m, id) EXCEPT ![m] = new], Handler(new, store', world)
  PROVE  ServerInv'
<1>1. store' \in [Ids -> Stored]
  BY DEF ServerInv
<1>2. requests' = [k \in Msgs |-> requests'[k]]
  BY DEF Landed
<1>3. won' = [i \in Ids |-> won'[i]]
  BY DEF ServerInv
<1>4. ASSUME NEW k \in Msgs PROVE Handler(requests'[k], store', world')
  <2>1. CASE k = m
    BY <2>1 DEF Landed
  <2>2. CASE k # m
    <3> DEFINE req == requests[k]
               then == IF req.write.id = id
                       THEN [req EXCEPT !.late = TRUE, !.torn = (req.phase = "merge")] ELSE req
    <3>1. requests'[k] = then
      BY <2>2 DEF Landed, Phase
    <3>2. Handler(req, store, world) /\ store \in [Ids -> Stored]
      BY DEF ServerInv
    <3>3. Handler(then, [store EXCEPT ![id] = row], world)
      BY <3>2, Overtaken
    <3> HIDE DEF then
    <3> QED  BY <3>1, <3>3
  <2> QED  BY <2>1, <2>2
<1> QED  BY <1>1, <1>2, <1>3, <1>4 DEF ServerInv

LEMMA LandsWell ==
  ASSUME ServerInv, NEW m \in Msgs, NEW row \in Stored,
         requests[m].phase \in {"write", "merge"}, Lands(m, row)
  PROVE  ServerInv'
<1> DEFINE req == requests[m]
           id == req.write.id
           new == [req EXCEPT !.phase = "written", !.rows = IF row = Absent THEN NoRows ELSE Only(id, row)]
<1>1. Handler(req, store, world) /\ id \in Ids
  BY DEF ServerInv, Handler, WriteSound
<1>2. requests' = [Landed(m, id) EXCEPT ![m] = new]
  BY DEF Lands, Landed
<1>3. /\ HasParts(new) /\ new.plans = req.plans /\ new.at = req.at
      /\ new.phase = "written" /\ new.late = req.late /\ new.torn = req.torn
  BY <1>1 DEF Handler, HasParts, HandlerParts
<1>4. Handler(new, store', world)
  BY <1>1, <1>3 DEF Handler, AtPlan
<1>5. PICK history : won' = [won EXCEPT ![id] = history]
  BY DEF Lands
<1>6. store' = [store EXCEPT ![id] = row] /\ world' = world
  BY DEF Lands
<1> QED  BY <1>1, <1>2, <1>4, <1>5, <1>6, WriteStep

\* What a patch leaves is a row.
LEMMA PatchLeavesRow ==
  ASSUME NEW row \in Row, NEW write, IsPatch(write.change),
         write.version = Absent \/ write.version \in Int
  PROVE  /\ Patched(row, write) \in Row
         /\ Patched(row, write).data = Register!Overwrite(row.data, write.change)
         /\ write.version # Absent => Patched(row, write).version = write.version
         /\ Patched(row, write) = [data |-> Patched(row, write).data,
                                   version |-> Patched(row, write).version]
<1>1. row # Absent /\ row.version \in Int
  BY ServerAssumption DEF Row
<1>2. Patched(row, write) =
        [data |-> Merge(row.data, write.change),
         version |-> IF write.version = Absent THEN row.version ELSE write.version]
  BY <1>1 DEF Patched
<1>3. Merge(row.data, write.change) \in [Fields -> Values]
  BY PatchedRow
<1>4. Merge(row.data, write.change) = Register!Overwrite(row.data, write.change)
  BY PatchedRow
<1> QED  BY <1>1, <1>2, <1>3, <1>4 DEF Row

\* A patch that lands is a step of the register, whatever it was based on.
LEMMA PatchLands ==
  ASSUME ServerInv, NEW m \in Msgs, NEW row \in Row,
         requests[m].phase \in {"write", "merge"}, requests[m].write.op = "patch",
         ~requests[m].torn => store[requests[m].write.id] = row,
         Lands(m, Patched(row, requests[m].write))
  PROVE  ServerInv' /\ (WinnersBehind => WinnersBehind' /\ Register!RNext)
<1> DEFINE req == requests[m]
           write == req.write
           id == write.id
           change == write.change
           after == Patched(row, write)
<1>1. Handler(req, store, world)
  BY DEF ServerInv
<1>2. /\ id \in Ids /\ change \in Changing /\ IsPatch(change)
      /\ IF world.versioned THEN write.version \in Int ELSE write.version = Absent
      /\ req.late \in BOOLEAN /\ req.torn \in BOOLEAN /\ (req.torn => req.late)
      /\ ~req.late => Based(req, store, world)
  BY <1>1 DEF Handler, WriteSound
<1>3. /\ after \in Row
      /\ after.data = Register!Overwrite(row.data, change)
      /\ write.version # Absent => after.version = write.version
      /\ after = [data |-> after.data, version |-> after.version]
  BY <1>2, PatchLeavesRow
<1>4. ServerInv'
  BY <1>3, LandsWell DEF Stored
<1> DEFINE who == <<m, req.at>>
           new == [base |-> write.base, by |-> who]
<1>5. /\ store' = [store EXCEPT ![id] = after] /\ world' = world
      /\ won' = [won EXCEPT ![id] = IF write.base # Absent THEN @ \cup {new} ELSE @]
      /\ raced' = IF req.late THEN raced \cup {id} ELSE raced
      /\ torn' = IF req.torn THEN torn \cup {id} ELSE torn
  BY DEF Lands
<1>6. store \in [Ids -> Stored] /\ won = [i \in Ids |-> won[i]]
  BY DEF ServerInv
<1> HIDE DEF after
<1> SUFFICES ASSUME WinnersBehind PROVE WinnersBehind' /\ Register!RNext
  BY <1>4
<1> DEFINE void == IF world.versioned THEN raced ELSE Ids
<1>7. \A other \in Ids \ {id} : store'[other] = store[other] /\ won'[other] = won[other]
  BY <1>2, <1>5, <1>6
<1>8. /\ void' \subseteq void \cup {id} /\ void \subseteq void'
      /\ torn' \subseteq torn \cup {id} /\ torn \subseteq torn'
  BY <1>2, <1>5
<1>9. Register!OnlyAbout(id)
  BY <1>7, <1>8 DEF Register!OnlyAbout
\* What is left to show of the winners is about the record written.
<1>10. ASSUME world.versioned /\ id \notin raced' =>
                \A winner \in won'[id] : winner.base \in Int /\ winner.base < store'[id].version
       PROVE  WinnersBehind'
  <2>1. raced \subseteq raced' /\ world' = world
    BY <1>5
  <2> QED  BY <1>7, <1>10, <2>1 DEF WinnersBehind
<1>11. CASE req.torn
  <2>1. Register!TornWrite(id)
    BY <1>5, <1>9, <1>11 DEF Register!TornWrite
  <2>2. id \in raced'
    BY <1>2, <1>5, <1>11
  <2> QED  BY <1>2, <1>10, <2>1, <2>2 DEF Register!RNext
<1>12. CASE ~req.torn /\ id \in void'
  <2>1. store[id] = row /\ store'[id] = after /\ row # Absent /\ after # Absent
    BY <1>2, <1>3, <1>5, <1>6, <1>12, ServerAssumption
  <2>2. Register!RacedWrite(id, change)
    BY <1>3, <1>9, <1>12, <2>1 DEF Register!RacedWrite
  <2>3. world.versioned => id \in raced'
    BY <1>5, <1>12
  <2> QED  BY <1>2, <1>10, <2>2, <2>3 DEF Register!RNext
<1>13. CASE ~req.torn /\ id \notin void'
  <2>1. world.versioned /\ ~req.late /\ id \notin raced
    BY <1>2, <1>5, <1>13
  <2>2. /\ row = req.current /\ store[id] = row /\ write.version = row.version + 1
        /\ write.base \in {Absent, row.version}
    BY <1>2, <1>13, <2>1 DEF Based
  <2>3. write.version # Absent /\ row # Absent /\ row.version \in Int
    BY <1>2, <2>1, ServerAssumption DEF Row
  <2>4. after = [data |-> Register!Overwrite(row.data, change), version |-> row.version + 1]
    BY <1>3, <2>2, <2>3
  <2>5. void' = void /\ torn' = torn
    BY <1>5, <1>13, <2>1
  <2>6. \A winner \in won[id] : winner.base \in Int /\ winner.base < row.version
    BY <1>2, <2>1, <2>2, <2>3 DEF WinnersBehind
  <2>7. store'[id].version = row.version + 1
    BY <1>2, <1>5, <1>6, <2>4
  <2>8. CASE write.base = Absent
    <3>1. won' = won
      BY <1>5, <1>6, <2>8
    <3>2. Register!Write(id, change)
      BY <1>5, <2>2, <2>3, <2>4, <2>5, <3>1
      DEF Register!Write, Register!Put, Register!Sound
    <3>3. \A winner \in won'[id] : winner.base \in Int /\ winner.base < store'[id].version
      BY <2>3, <2>6, <2>7, <3>1
    <3> QED  BY <1>2, <1>10, <3>2, <3>3 DEF Register!RNext
  <2>9. CASE write.base # Absent
    <3>1. write.base = row.version /\ won' = [won EXCEPT ![id] = @ \cup {new}]
      BY <1>5, <2>2, <2>9
    <3>2. won'[id] = won[id] \cup {new} /\ new.base = row.version /\ new.by = who
      BY <1>2, <1>6, <3>1
    <3>3. \A winner \in won[id] : winner.base # row.version
      BY <2>3, <2>6
    <3>4. new \in won'[id] \ won[id]
      BY <3>2, <3>3
    <3>5. \A winner \in won'[id] : winner.base \in Int /\ winner.base < store'[id].version
      BY <2>3, <2>6, <2>7, <3>2
    <3>6. Register!WriteIf(id, change, new.base, new.by)
      BY <1>5, <2>2, <2>3, <2>4, <2>5, <3>1, <3>2, <3>3
      DEF Register!WriteIf, Register!Put, Register!Sound
    <3> HIDE DEF new
    <3> QED  BY <1>2, <1>10, <3>4, <3>5, <3>6 DEF Register!RNext
  <2> QED  BY <2>2, <2>8, <2>9
<1> QED  BY <1>2, <1>11, <1>12, <1>13

LEMMA Sets ==
  ASSUME ServerInv, NEW m \in Msgs, Set(m)
  PROVE  ServerInv' /\ (WinnersBehind => WinnersBehind' /\ Register!RNext)
<1> DEFINE req == requests[m]
<1>1. req.phase = "merge" /\ Lands(m, Patched(req.current, req.write))
  BY DEF Set, Phase
<1>2. Handler(req, store, world)
  BY DEF ServerInv
<1>3. /\ req.write.op = "patch" /\ req.current \in Row
      /\ ~req.torn => store[req.write.id] = req.current
  BY <1>1, <1>2 DEF Handler
<1> QED  BY <1>1, <1>3, PatchLands

\* A record that is created or deleted has no winners.
LEMMA EmptyHistory ==
  ASSUME ServerInv, WinnersBehind, NEW id \in Ids, NEW row, store' = [store EXCEPT ![id] = row],
         won' = [won EXCEPT ![id] = {}], UNCHANGED <<raced, world>>
  PROVE  WinnersBehind'
BY DEF WinnersBehind, ServerInv

LEMMA Writes ==
  ASSUME ServerInv, NEW m \in Msgs, Write(m)
  PROVE  ServerInv' /\ (WinnersBehind => WinnersBehind' /\ [Register!RNext]_(Register!rvars))
<1> DEFINE req == requests[m]
           write == req.write
           id == write.id
           row == store[id]
<1>1. req.phase = "write"
  BY DEF Write, Phase
<1>2. Handler(req, store, world)
  BY DEF ServerInv
<1>3. /\ WriteSound(req, store, world) /\ id \in Ids /\ row \in Stored /\ req.torn = FALSE
      /\ write.op \in {"create", "patch", "delete"} /\ req.late \in BOOLEAN
      /\ req.at \in DOMAIN req.plans /\ req.plans \in Batches
  BY <1>1, <1>2 DEF Handler, WriteSound, ServerInv, AtPlan
<1>4. CASE SourceVerdict(write) # "ok"
  <2>1. Answer(m, Failure(SourceVerdict(write))) /\ UNCHANGED <<world, store, ghosts>>
    BY <1>4 DEF Write
  <2>2. UNCHANGED <<world, store, won, raced, torn>>
    BY <2>1 DEF ghosts
  <2> QED  BY <1>1, <2>1, <2>2, AnswersOn DEF Register!rvars, WinnersBehind
<1>5. CASE SourceVerdict(write) = "ok" /\ write.op = "patch" /\ row = Absent
  <2>1. /\ Goes(m, "written") /\ UNCHANGED <<world, store, won, torn>>
        /\ raced' = IF req.late THEN raced \cup {id} ELSE raced
    BY <1>5 DEF Write, Goes
  <2>2. ServerInv'
    BY <1>1, <1>3, <2>1, GoesOn
  <2>3. req.late
    <3>1. ~req.late => row \in Row
      BY <1>3, <1>5 DEF WriteSound, Based
    <3> QED  BY <1>3, <1>5, <3>1, ServerAssumption
  <2> DEFINE void == IF world.versioned THEN raced ELSE Ids
  <2>4. void' \subseteq void \cup {id} /\ void \subseteq void' /\ id \in void'
    BY <1>3, <2>1, <2>3
  <2>5. Register!OnlyAbout(id)
    BY <2>1, <2>4 DEF Register!OnlyAbout
  <2>6. Register!RacedWrite(id, write.change)
    BY <2>1, <2>4, <2>5 DEF Register!RacedWrite
  <2>7. write.change \in Changing
    BY <1>3, <1>5 DEF WriteSound
  <2>8. WinnersBehind => WinnersBehind'
    <3>1. raced \subseteq raced'
      BY <2>1
    <3> QED  BY <2>1, <3>1 DEF WinnersBehind
  <2> QED  BY <1>3, <2>2, <2>6, <2>7, <2>8 DEF Register!RNext
<1>6. CASE SourceVerdict(write) = "ok" /\ write.op = "patch" /\ row # Absent
  <2>1. CASE world.source = "redis"
    <3> DEFINE new == [req EXCEPT !.phase = "merge", !.current = row]
    <3>1. requests' = [requests EXCEPT ![m] = new] /\ UNCHANGED <<world, store, ghosts>>
      BY <1>6, <2>1 DEF Write
    <3>2. /\ HasParts(new) /\ new.plans = req.plans /\ new.at = req.at
          /\ new.phase = "merge" /\ new.write = write /\ new.current = row
          /\ new.late = req.late /\ new.torn = req.torn
      BY <1>2 DEF Handler, HasParts, HandlerParts
    <3>3. row \in Row
      BY <1>3, <1>6 DEF Stored
    <3>4. WriteSound(new, store, world)
      BY <1>3, <3>2, <3>3 DEF WriteSound, Based
    <3>5. Handler(new, store, world)
      BY <1>2, <1>3, <1>6, <3>2, <3>3, <3>4 DEF Handler, AtPlan
    <3>6. UNCHANGED <<world, store, won, raced, torn>>
      BY <3>1 DEF ghosts
    <3>7. ServerInv'
      BY <3>1, <3>5, <3>6, QuietStep
    <3> QED  BY <3>6, <3>7 DEF Register!rvars, WinnersBehind
  <2>2. CASE world.source # "redis"
    <3>1. Lands(m, Patched(row, write))
      BY <1>6, <2>2 DEF Write, After
    <3>2. row \in Row
      BY <1>3, <1>6 DEF Stored
    <3> QED  BY <1>1, <1>6, <3>1, <3>2, PatchLands
  <2> QED  BY <2>1, <2>2
<1>7. CASE SourceVerdict(write) = "ok" /\ write.op = "create"
  <2>1. Lands(m, Kept(write.row))
    BY <1>7 DEF Write, After
  <2>2. Kept(write.row) \in FreshRows /\ Kept(write.row) \in Stored
    BY <1>3, <1>7, KeptIsFresh DEF WriteSound, Stored
  <2>3. ServerInv'
    BY <1>1, <2>1, <2>2, LandsWell
  <2>4. /\ store' = [store EXCEPT ![id] = Kept(write.row)] /\ won' = [won EXCEPT ![id] = {}]
        /\ UNCHANGED <<raced, torn, world>>
    BY <1>3, <1>7, <2>1 DEF Lands
  <2>5. Register!Create(id)
    BY <2>2, <2>4 DEF Register!Create, Register!Put, Register!Sound
  <2>6. WinnersBehind => WinnersBehind'
    BY <1>3, <2>4, EmptyHistory
  <2> QED  BY <1>3, <2>3, <2>5, <2>6 DEF Register!RNext
<1>8. CASE SourceVerdict(write) = "ok" /\ write.op = "delete"
  <2>1. Lands(m, Absent)
    BY <1>8 DEF Write, After
  <2>2. ServerInv'
    BY <1>1, <2>1, LandsWell DEF Stored
  <2>3. /\ store' = [store EXCEPT ![id] = Absent] /\ won' = [won EXCEPT ![id] = {}]
        /\ UNCHANGED <<raced, torn, world>>
    BY <1>3, <1>8, <2>1 DEF Lands
  <2>4. Register!Delete(id)
    BY <2>3 DEF Register!Delete, Register!Put, Register!Sound
  <2>5. WinnersBehind => WinnersBehind'
    BY <1>3, <2>3, EmptyHistory
  <2> QED  BY <1>3, <2>2, <2>4, <2>5 DEF Register!RNext
<1> QED  BY <1>3, <1>4, <1>5, <1>6, <1>7, <1>8

LEMMA Implements ==
  ASSUME ServerInv, NEW m \in Msgs, ImplWrites(m)
  PROVE  ServerInv' /\ (WinnersBehind => WinnersBehind' /\ Register!RNext)
<1> DEFINE req == requests[m]
           plan == Plan(m)
           id == plan.id
           change == Impls[plan.action]
           row == store[id]
           after == [data |-> Merge(row.data, change), version |-> row.version + 1]
           new == [req EXCEPT !.phase = "impl_wrote"]
<1>1. /\ req.phase = "impl" /\ row # Absent /\ store' = [store EXCEPT ![id] = after]
      /\ requests' = [Landed(m, id) EXCEPT ![m].phase = "impl_wrote"]
      /\ UNCHANGED <<world, won, raced, torn>>
  BY DEF ImplWrites, Phase, ghosts
<1>2. Handler(req, store, world)
  BY DEF ServerInv
<1>3. /\ plan.op = "action" /\ plan.action \in DOMAIN Impls /\ change # Absent
      /\ req.plans \in Batches /\ req.at \in DOMAIN req.plans
  BY <1>1, <1>2 DEF Handler, AtPlan, Plan
<1>4. id \in Ids
  <2>1. IsPlan(plan)
    BY <1>3, PlanOfBatch DEF Plan
  <2> QED  BY <1>3, <2>1 DEF IsPlan, IsReadPlan, IsWritePlan
<1>5. row \in Row
  BY <1>1, <1>4 DEF ServerInv, Stored
<1>6. IsPatch(change) /\ change \in Changing
  <2>1. IsPatch(change)
    BY <1>3, ServerAssumption
  <2>2. change \in ByImpls
    BY <1>3 DEF ByImpls
  <2> QED  BY <2>1, <2>2 DEF Changing
<1>7. /\ Merge(row.data, change) \in [Fields -> Values]
      /\ Merge(row.data, change) = Register!Overwrite(row.data, change)
  BY <1>5, <1>6, PatchedRow
<1>8. after \in Stored
  BY <1>5, <1>7 DEF Stored, Row
<1>9. requests' = [Landed(m, id) EXCEPT ![m] = new]
  BY <1>1 DEF Landed
<1>10. /\ HasParts(new) /\ new.plans = req.plans /\ new.at = req.at
       /\ new.phase = "impl_wrote" /\ new.late = req.late /\ new.torn = req.torn
  BY <1>2 DEF Handler, HasParts, HandlerParts
<1>11. Handler(new, store', world)
  BY <1>1, <1>2, <1>3, <1>10 DEF Handler, AtPlan
<1> DEFINE history == won[id]
<1>12. won' = [won EXCEPT ![id] = history]
  BY <1>1, <1>4 DEF ServerInv
<1>13. ServerInv'
  <2> HIDE DEF after, new, history, id
  <2>1. world' = world /\ store' = [store EXCEPT ![id] = after]
    BY <1>1
  <2> QED  BY <2>1, <1>4, <1>8, <1>9, <1>11, <1>12, WriteStep
<1>14. Register!Write(id, change)
  BY <1>1, <1>7 DEF Register!Write, Register!Put, Register!Sound
<1>15. WinnersBehind => WinnersBehind'
  <2>1. row.version \in Int /\ store'[id].version = row.version + 1
    BY <1>1, <1>4, <1>5 DEF ServerInv, Row
  <2>2. \A other \in Ids \ {id} : store'[other] = store[other]
    BY <1>1 DEF ServerInv
  <2> HIDE DEF row, id, after
  <2>3. row = store[id]
    BY DEF row
  <2> QED  BY <1>1, <1>4, <2>1, <2>2, <2>3 DEF WinnersBehind
<1> QED  BY <1>4, <1>6, <1>13, <1>14, <1>15 DEF Register!RNext

LEMMA Finishes ==
  ASSUME ServerInv, NEW m \in Msgs, Written(m) \/ ImplReturns(m) \/ ImplFails(m)
  PROVE  ServerInv' /\ UNCHANGED <<world, store, won, raced, torn>>
<1> DEFINE req == requests[m]
<1>1. Handler(req, store, world)
  BY DEF ServerInv
<1>2. req.phase \in {"written", "impl", "impl_wrote"} /\ UNCHANGED <<world, store, won, raced, torn>>
  BY DEF Written, ImplReturns, ImplFails, Phase, ghosts
<1>3. req.plans \in Batches /\ req.at \in DOMAIN req.plans
  BY <1>1, <1>2 DEF Handler, AtPlan
<1>4. CASE Written(m)
  BY <1>2, <1>4, AnswersOn DEF Written
<1>5. CASE ImplReturns(m)
  BY <1>2, <1>3, <1>5, GoesOn DEF ImplReturns, Phase
<1>6. CASE ImplFails(m)
  BY <1>2, <1>6, AnswersOn DEF ImplFails
<1> QED  BY <1>2, <1>4, <1>5, <1>6

----------------------------------------------------------------------------

LEMMA ServerStarts == Init => ServerInv /\ WinnersBehind /\ Register!RInit
<1> SUFFICES ASSUME Init PROVE ServerInv /\ WinnersBehind /\ Register!RInit
  OBVIOUS
<1>1. /\ HasParts(Idle) /\ Idle.phase = "waiting" /\ Idle.late = FALSE /\ Idle.torn = FALSE
  BY DEF Idle, HasParts, HandlerParts
<1>2. Handler(Idle, store, world)
  BY <1>1 DEF Handler, AtPlan
<1>3. ServerInv
  BY <1>2, ServerAssumption DEF Init, ServerInv
<1>4. Register!RInit
  BY DEF Init, Register!RInit
<1>5. WinnersBehind
  BY DEF Init, WinnersBehind
<1> QED  BY <1>3, <1>4, <1>5

LEMMA ServerSteps ==
  ASSUME ServerInv, [Next]_vars
  PROVE  ServerInv' /\ (WinnersBehind => WinnersBehind' /\ [Register!RNext]_(Register!rvars))
<1>1. CASE UNCHANGED vars
  <2>1. ServerInv'
    BY <1>1 DEF vars, ServerInv
  <2> QED  BY <1>1, <2>1 DEF vars, Register!rvars, WinnersBehind
<1>2. ASSUME NEW m \in Msgs,
             Post(m) \/ Turned(m) \/ Context(m) \/ Begin(m) \/ AccessFails(m)
             \/ StartRead(m) \/ StartNamed(m) \/ StartCreate(m) \/ StartUpdate(m)
             \/ Find(m) \/ Scan(m) \/ Named(m) \/ Current(m)
      PROVE  ServerInv' /\ (WinnersBehind => WinnersBehind' /\ [Register!RNext]_(Register!rvars))
  <2>1. ServerInv'
    BY <1>2, Arrivals, Starts, Reads, Decides
  <2>2. UNCHANGED <<world, store, ghosts>>
    BY <1>2 DEF Post, Turned, Context, Begin, AccessFails, StartRead, StartNamed, StartCreate,
                StartUpdate, Find, Scan, Named, Current
  <2> QED  BY <2>1, <2>2 DEF ghosts, Register!rvars, WinnersBehind
<1>3. ASSUME NEW m \in Msgs, Written(m) \/ ImplReturns(m) \/ ImplFails(m)
      PROVE  ServerInv' /\ (WinnersBehind => WinnersBehind' /\ [Register!RNext]_(Register!rvars))
  BY <1>3, Finishes DEF Register!rvars, WinnersBehind
<1>4. ASSUME NEW m \in Msgs, Write(m) \/ Set(m) \/ ImplWrites(m)
      PROVE  ServerInv' /\ (WinnersBehind => WinnersBehind' /\ [Register!RNext]_(Register!rvars))
  BY <1>4, Writes, Sets, Implements
<1>5. CASE AllDone
  BY <1>1, <1>5 DEF AllDone
<1> QED  BY <1>1, <1>2, <1>3, <1>4, <1>5 DEF Next

\* Whatever the plans, the sources, the rules and the number of messages, the
\* rows are a versioned register about every record no two requests raced for
\* (KeepsRegister): applyPatch's check and the bump of the version are enough
\* there for at most one of the patches that name one base to win, and where
\* requests raced, so that two may, a write still changes only what it names.
THEOREM ServerKeepsRegister == Spec => KeepsRegister
<1>1. Init => ServerInv /\ WinnersBehind /\ Register!RInit
  BY ServerStarts
<1>2. ServerInv /\ WinnersBehind /\ [Next]_vars
        => ServerInv' /\ WinnersBehind' /\ [Register!RNext]_(Register!rvars)
  BY ServerSteps
<1> QED  BY <1>1, <1>2, PTL DEF Spec, KeepsRegister, Register!RSpec

----------------------------------------------------------------------------
(* Announcements.                                                          *)

\* A step of one handler leaves the others in their phases.
OthersStay(m) == \A k \in Msgs \ {m} : requests'[k].phase = requests[k].phase

LEMMA AnswerStays ==
  ASSUME ServerInv, NEW m \in Msgs, NEW result, Answer(m, result)
  PROVE  OthersStay(m)
  BY DEF ServerInv, Answer, OthersStay

LEMMA GoesStays ==
  ASSUME ServerInv, NEW m \in Msgs, NEW phase, Goes(m, phase)
  PROVE  OthersStay(m)
  BY DEF ServerInv, Goes, OthersStay

LEMMA LandedStays ==
  ASSUME ServerInv, NEW m \in Msgs, NEW id, NEW new, requests' = [Landed(m, id) EXCEPT ![m] = new]
  PROVE  OthersStay(m)
<1> SUFFICES ASSUME NEW k \in Msgs \ {m} PROVE requests'[k].phase = requests[k].phase
  BY DEF OthersStay
<1> DEFINE req == requests[k]
<1>1. Handler(req, store, world)
  BY DEF ServerInv
<1>2. requests'[k] = IF req.write.id = id
                     THEN [req EXCEPT !.late = TRUE, !.torn = (req.phase = "merge")] ELSE req
  BY DEF Landed, Phase
<1>3. [req EXCEPT !.late = TRUE, !.torn = (req.phase = "merge")].phase = req.phase
  BY <1>1 DEF Handler, HasParts, HandlerParts
<1> QED  BY <1>2, <1>3

\* A handler that is not between the source and its announcement, and has
\* not written in this step, leaves the announcements as they are.
LEMMA NothingLanded ==
  ASSUME AnnouncedIsCurrent, NEW m \in Msgs, OthersStay(m), m \notin Landing,
         UNCHANGED <<store, announced, silent>>
  PROVE  AnnouncedIsCurrent'
  BY DEF AnnouncedIsCurrent, Landing, OthersStay

LEMMA SomethingLanded ==
  ASSUME ServerInv, NEW m \in Msgs, NEW row, Lands(m, row)
  PROVE  AnnouncedIsCurrent'
<1> DEFINE req == requests[m]
           id == req.write.id
           new == [req EXCEPT !.phase = "written", !.rows = IF row = Absent THEN NoRows ELSE Only(id, row)]
<1>1. Handler(req, store, world)
  BY DEF ServerInv
<1>2. requests' = [Landed(m, id) EXCEPT ![m] = new] /\ requests'[m] = new
  BY DEF Lands, Landed
<1>3. new.phase = "written"
  BY <1>1 DEF Handler, HasParts, HandlerParts
<1> HIDE DEF new
<1>4. m \in Landing'
  BY <1>2, <1>3 DEF Landing
<1> QED  BY <1>4 DEF AnnouncedIsCurrent

LEMMA AnnouncedSteps ==
  ASSUME ServerInv, AnnouncedIsCurrent, [Next]_vars
  PROVE  AnnouncedIsCurrent'
<1>1. CASE UNCHANGED vars
  BY <1>1 DEF vars, AnnouncedIsCurrent, Landing
<1>2. ASSUME NEW m \in Msgs,
             Post(m) \/ Turned(m) \/ Context(m) \/ Begin(m) \/ AccessFails(m)
             \/ StartRead(m) \/ StartNamed(m) \/ StartCreate(m) \/ StartUpdate(m)
             \/ Find(m) \/ Scan(m) \/ Named(m) \/ Current(m)
      PROVE  AnnouncedIsCurrent'
  <2>1. m \notin Landing
    BY <1>2 DEF Landing, Phase, Post, Turned, Context, Begin, AccessFails, StartRead, StartNamed,
                StartCreate, StartUpdate, Find, Scan, Named, Current
  <2>2. UNCHANGED <<world, store, ghosts>>
    BY <1>2 DEF Post, Turned, Context, Begin, AccessFails, StartRead, StartNamed, StartCreate,
                StartUpdate, Find, Scan, Named, Current
  <2>3. \/ \E result : Answer(m, result)
        \/ \E phase : Goes(m, phase)
        \/ \E new : requests' = [requests EXCEPT ![m] = new]
    <3>1. CASE Post(m) \/ Turned(m) \/ Context(m) \/ Begin(m) \/ AccessFails(m)
      BY <3>1 DEF Post, Turned, Context, Begin, AccessFails
    <3>2. CASE StartRead(m) \/ StartNamed(m)
      BY <3>2 DEF StartRead, StartNamed
    <3>3. CASE StartCreate(m)
      BY <3>3 DEF StartCreate
    <3>4. CASE StartUpdate(m)
      BY <3>4 DEF StartUpdate
    <3>5. CASE Find(m) \/ Scan(m) \/ Named(m)
      BY <3>5 DEF Find, Scan, Named, WhereAnswered
    <3>6. CASE Current(m)
      BY <3>6 DEF Current, ApplyPatch, ApplyDelete, ApplyAction, Lower
    <3> QED  BY <1>2, <3>1, <3>2, <3>3, <3>4, <3>5, <3>6
  <2>4. OthersStay(m)
    BY <2>3, AnswerStays, GoesStays DEF ServerInv, OthersStay
  <2> QED  BY <2>1, <2>2, <2>4, NothingLanded DEF ghosts
<1>3. ASSUME NEW m \in Msgs, Write(m) \/ Set(m)
      PROVE  AnnouncedIsCurrent'
  <2>1. requests[m].phase \in {"write", "merge"}
    BY <1>3 DEF Write, Set, Phase
  <2>2. CASE \E row : Lands(m, row)
    BY <2>2, SomethingLanded
  <2>3. CASE ~\E row : Lands(m, row)
    <3>1. Write(m)
      BY <1>3, <2>3 DEF Set
    <3>2. UNCHANGED <<store, announced, silent>>
      BY <2>3, <3>1 DEF Write, ghosts
    <3>3. (\E result : Answer(m, result)) \/ (\E new : requests' = [requests EXCEPT ![m] = new])
      BY <2>3, <3>1 DEF Write
    <3>4. OthersStay(m)
      BY <3>3, AnswerStays DEF ServerInv, OthersStay
    <3>5. m \notin Landing
      BY <2>1 DEF Landing
    <3> QED  BY <3>2, <3>4, <3>5, NothingLanded
  <2> QED  BY <2>2, <2>3
<1>4. ASSUME NEW m \in Msgs, ImplWrites(m)
      PROVE  AnnouncedIsCurrent'
  <2> DEFINE new == [requests[m] EXCEPT !.phase = "impl_wrote"]
  <2>1. Handler(requests[m], store, world)
    BY DEF ServerInv
  <2>2. requests' = [Landed(m, Plan(m).id) EXCEPT ![m] = new] /\ requests'[m] = new
    BY <1>4 DEF ImplWrites, Landed
  <2>3. new.phase = "impl_wrote"
    BY <2>1 DEF Handler, HasParts, HandlerParts
  <2> HIDE DEF new
  <2>4. m \in Landing'
    BY <2>2, <2>3 DEF Landing
  <2> QED  BY <2>4 DEF AnnouncedIsCurrent
<1>5. ASSUME NEW m \in Msgs, Written(m)
      PROVE  AnnouncedIsCurrent'
  BY <1>5 DEF Written, AnnouncedIsCurrent
<1>6. ASSUME NEW m \in Msgs, ImplReturns(m)
      PROVE  AnnouncedIsCurrent'
  <2> DEFINE new == [requests[m] EXCEPT !.phase = "written"]
  <2>1. Handler(requests[m], store, world)
    BY DEF ServerInv
  <2>2. requests'[m] = new
    BY <1>6 DEF ImplReturns, Goes, ServerInv
  <2>3. new.phase = "written"
    BY <2>1 DEF Handler, HasParts, HandlerParts
  <2> HIDE DEF new
  <2>4. m \in Landing'
    BY <2>2, <2>3 DEF Landing
  <2> QED  BY <2>4 DEF AnnouncedIsCurrent
<1>7. ASSUME NEW m \in Msgs, ImplFails(m)
      PROVE  AnnouncedIsCurrent'
  <2>1. \E result : Answer(m, result)
    BY <1>7 DEF ImplFails
  <2>2. OthersStay(m)
    BY <2>1, AnswerStays
  <2>3. UNCHANGED <<store, announced>> /\ silent' = (silent \/ Phase(m, "impl_wrote"))
    BY <1>7 DEF ImplFails
  <2>4. CASE Phase(m, "impl_wrote")
    BY <2>3, <2>4 DEF AnnouncedIsCurrent
  <2>5. CASE ~Phase(m, "impl_wrote")
    <3>1. m \notin Landing
      BY <1>7, <2>5 DEF ImplFails, Landing, Phase
    <3>2. ~silent' => ~silent
      BY <2>3
    <3>3. Landing' = {} => Landing = {}
      BY <2>2, <3>1 DEF Landing, OthersStay
    <3> QED  BY <2>3, <3>2, <3>3 DEF AnnouncedIsCurrent
  <2> QED  BY <2>4, <2>5
<1>8. CASE AllDone
  BY <1>1, <1>8 DEF AllDone
<1> QED  BY <1>1, <1>2, <1>3, <1>4, <1>5, <1>6, <1>7, <1>8 DEF Next

\* No change stays unannounced (AnnouncedIsCurrent): handlePlan emits after
\* every write that reached the source, before the outcome is out.
THEOREM ChangesAreAnnounced == Spec => []AnnouncedIsCurrent
<1>1. Init => ServerInv /\ AnnouncedIsCurrent
  BY ServerStarts DEF Init, AnnouncedIsCurrent
<1>2. ServerInv /\ AnnouncedIsCurrent /\ [Next]_vars => (ServerInv /\ AnnouncedIsCurrent)'
  BY ServerSteps, AnnouncedSteps
<1> QED  BY <1>1, <1>2, PTL DEF Spec

----------------------------------------------------------------------------
(* Answers: their types, what they acknowledge and whom they are for.      *)

RowSets == UNION {[D -> Row] : D \in SUBSET Ids}
Answers == {result \in [ok: BOOLEAN, code: Codes \cup {"ok"}, rows: RowSets] :
              IF result.ok THEN result.code = "ok"
              ELSE result.code \in Codes /\ result.rows = NoRows}

Grants(scope, data) == scope = Absent \/ MatchesFilter(data, scope)

\* What an answer owes its plan, `lost` being the records that were raced for.
Right(plan, rows, scope, lost) ==
  /\ plan.op = "patch" =>
       IF plan.id \in DOMAIN rows
       THEN \A fd \in DOMAIN Known(plan.patch) : rows[plan.id].data[fd] = plan.patch[fd]
       ELSE plan.id \in lost
  /\ ScopesAreReadable =>
       \A id \in DOMAIN rows : \/ Grants(scope, rows[id].data)
                               \/ plan.op = "patch" /\ id \in lost
                               \/ plan.op = "action"

\* The write under way is the one its plan asked for, within the scope.
Carries(plan, req, scope) ==
  LET write == req.write
  IN CASE plan.op = "create" -> write.op = "create" /\ Grants(scope, write.row.data)
       [] plan.op = "patch" ->
            /\ write.op = "patch" /\ write.id = plan.id /\ write.change = Known(plan.patch)
            /\ ~req.late => Grants(scope, Merge(req.current.data, write.change))
       [] plan.op = "delete" -> write.op = "delete"
       [] OTHER -> plan.op = "action"

\* The plans a phase is for.
OpFits(op, phase) ==
  CASE phase = "find" -> op \in {"one", "where"}
    [] phase = "scan" -> op = "where"
    [] phase = "named" -> op = "named"
    [] phase \in {"impl", "impl_wrote"} -> op = "action"
    [] phase \in {"current", "write", "merge", "written"} ->
         op \in {"create", "patch", "delete", "action"}
    [] OTHER -> TRUE

\* The query and the scope have something in common.
Askable(plan, scope) ==
  plan.op = "where" /\ scope # Absent => IntersectFilters(plan.filter, scope) # Absent

Answering(req, scope, source, lost) ==
  LET plan == req.plans[req.at]
  IN /\ req.at \in Nat \ {0} /\ req.results \in Seq(Answers) /\ Len(req.results) = req.at - 1
     /\ req.phase \in Phases /\ OpFits(plan.op, req.phase)
     /\ IsWrite(req.write) /\ req.rows \in RowSets
     /\ req.phase \notin {"scan", "written"} => req.rows = NoRows
     /\ req.phase = "scan" => req.keys \subseteq Ids
     /\ req.phase \in {"scan", "merge"} => source = "redis"
     /\ req.phase \in {"find", "scan"} => Askable(plan, scope)
     /\ req.phase \in {"write", "merge"} => Carries(plan, req, scope)
     /\ req.phase = "written" => Right(plan, req.rows, scope, lost)
     /\ \A i \in DOMAIN req.results :
          req.results[i].ok => Right(req.plans[i], req.results[i].rows, scope, lost)

AllAnswering == \A m \in Msgs : Answering(requests[m], Scope(m), world.source, raced)

\* What SQLite's columns hold is of one type.
ColumnType == CHOOSE type \in [Fields -> Types] : ColumnsAre(type)
TypedStore ==
  ScopesAreReadable /\ world.source = "sqlite" =>
    \A id \in Ids : store[id] # Absent => HoldsAll(ColumnType, store[id].data)

LEMMA RowsForm ==
  ASSUME NEW rows
  PROVE  rows \in RowSets <=> /\ rows = [id \in DOMAIN rows |-> rows[id]]
                              /\ DOMAIN rows \subseteq Ids
                              /\ \A id \in DOMAIN rows : rows[id] \in Row
<1>1. ASSUME rows \in RowSets
      PROVE  /\ rows = [id \in DOMAIN rows |-> rows[id]] /\ DOMAIN rows \subseteq Ids
             /\ \A id \in DOMAIN rows : rows[id] \in Row
  <2>1. PICK D \in SUBSET Ids : rows \in [D -> Row]
    BY <1>1 DEF RowSets
  <2> QED  BY <2>1
<1>2. ASSUME rows = [id \in DOMAIN rows |-> rows[id]], DOMAIN rows \subseteq Ids,
             \A id \in DOMAIN rows : rows[id] \in Row
      PROVE  rows \in RowSets
  <2>1. rows \in [DOMAIN rows -> Row] /\ DOMAIN rows \in SUBSET Ids
    BY <1>2
  <2> QED  BY <2>1 DEF RowSets
<1> QED  BY <1>1, <1>2

LEMMA SmallRows ==
  /\ NoRows \in RowSets /\ DOMAIN NoRows = {}
  /\ \A id \in Ids, row \in Row : /\ Only(id, row) \in RowSets /\ DOMAIN Only(id, row) = {id}
                                  /\ Only(id, row)[id] = row
<1>1. DOMAIN NoRows = {} /\ NoRows = [id \in DOMAIN NoRows |-> NoRows[id]]
  BY DEF NoRows
<1>2. NoRows \in RowSets
  BY <1>1, RowsForm
<1>3. ASSUME NEW id \in Ids, NEW row \in Row
      PROVE  /\ Only(id, row) \in RowSets /\ DOMAIN Only(id, row) = {id}
             /\ Only(id, row)[id] = row
  <2>1. /\ DOMAIN Only(id, row) = {id} /\ Only(id, row)[id] = row
        /\ Only(id, row) = [i \in DOMAIN Only(id, row) |-> Only(id, row)[i]]
    BY DEF Only
  <2> QED  BY <2>1, RowsForm
<1> QED  BY <1>1, <1>2, <1>3

LEMMA AnswerForm ==
  /\ \A code \in Codes : Failure(code) \in Answers /\ ~Failure(code).ok
  /\ \A rows \in RowSets : Data(rows) \in Answers /\ Data(rows).rows = rows
<1>1. ASSUME NEW code \in Codes PROVE Failure(code) \in Answers /\ ~Failure(code).ok
  BY SmallRows DEF Failure, Answers
<1>2. ASSUME NEW rows \in RowSets PROVE Data(rows) \in Answers /\ Data(rows).rows = rows
  BY DEF Data, Answers
<1> QED  BY <1>1, <1>2

\* What was answered stays right as more records are raced for.
LEMMA StaysRight ==
  ASSUME NEW plan, NEW rows, NEW scope, NEW lost, NEW more, lost \subseteq more,
         Right(plan, rows, scope, lost)
  PROVE  Right(plan, rows, scope, more)
BY DEF Right

LEMMA NoRowsRight ==
  ASSUME NEW plan, NEW scope, NEW lost, plan.op # "patch"
  PROVE  Right(plan, NoRows, scope, lost)
BY SmallRows DEF Right

LEMMA AppendForm ==
  ASSUME NEW S, NEW s \in Seq(S), NEW x \in S
  PROVE  /\ Append(s, x) \in Seq(S) /\ Len(Append(s, x)) = Len(s) + 1
         /\ \A i \in 1..Len(s) : Append(s, x)[i] = s[i]
         /\ Append(s, x)[Len(s) + 1] = x /\ DOMAIN Append(s, x) = 1..(Len(s) + 1)
         /\ Len(s) \in Nat /\ DOMAIN s = 1..Len(s)
OBVIOUS

LEMMA AnswerTells ==
  ASSUME NEW req, NEW scope, NEW source, NEW lost, HasParts(req), Answering(req, scope, source, lost),
         NEW result \in Answers, result.ok => Right(req.plans[req.at], result.rows, scope, lost)
  PROVE  Answering(Answered(req, result), scope, source, lost)
<1> DEFINE new == Answered(req, result)
           n == Len(req.results)
<1>1. /\ new.plans = req.plans /\ new.at = req.at + 1 /\ new.write = NoWrite /\ new.rows = NoRows
      /\ new.phase = IF req.at = Len(req.plans) THEN "done" ELSE "plan"
      /\ new.results = Append(req.results, result)
  BY DEF HasParts, HandlerParts, Answered, Cleared
<1> HIDE DEF new
<1>2. new.phase \in {"plan", "done"}
  BY <1>1
<1>3. req.results \in Seq(Answers) /\ n = req.at - 1 /\ req.at \in Nat \ {0} /\ n \in Nat
  BY DEF Answering
<1>4a. /\ Append(req.results, result) \in Seq(Answers)
       /\ Len(Append(req.results, result)) = Len(req.results) + 1
       /\ \A i \in 1..Len(req.results) : Append(req.results, result)[i] = req.results[i]
       /\ Append(req.results, result)[Len(req.results) + 1] = result
       /\ DOMAIN Append(req.results, result) = 1..(Len(req.results) + 1)
       /\ DOMAIN req.results = 1..Len(req.results)
  BY <1>3, AppendForm
<1>4. /\ new.results \in Seq(Answers) /\ Len(new.results) = new.at - 1 /\ new.at \in Nat \ {0}
      /\ \A i \in 1..n : new.results[i] = req.results[i]
      /\ new.results[n + 1] = result /\ DOMAIN new.results = 1..(n + 1)
      /\ DOMAIN req.results = 1..n
  BY ONLY <1>1, <1>3, <1>4a DEF n
<1> HIDE DEF n
<1>5. ASSUME NEW i \in DOMAIN new.results, new.results[i].ok
      PROVE  Right(new.plans[i], new.results[i].rows, scope, lost)
  <2>1. i \in 1..(n + 1)
    BY <1>4
  <2>2. CASE i = n + 1
    <3>1. i = req.at /\ new.results[i] = result
      BY <1>3, <1>4, <2>2
    <3> QED  BY <1>1, <1>5, <3>1
  <2>3. CASE i # n + 1
    <3>1. i \in 1..n
      BY <1>3, <2>1, <2>3
    <3>2. i \in DOMAIN req.results /\ new.results[i] = req.results[i]
      BY <1>4, <3>1
    <3> QED  BY <1>1, <1>5, <3>2 DEF Answering
  <2> QED  BY <2>2, <2>3
<1>6. IsWrite(NoWrite) /\ NoRows \in RowSets
  BY SmallRows DEF IsWrite, NoWrite
<1>7. OpFits(new.plans[new.at].op, new.phase)
  BY <1>2 DEF OpFits
<1>8. new.phase \in Phases
  BY <1>2 DEF Phases
<1>9. /\ new.phase \notin {"scan", "written"} => new.rows = NoRows
      /\ new.phase \notin {"find", "scan"} /\ new.phase \notin {"write", "merge"} /\ new.phase # "written"
      /\ IsWrite(new.write) /\ new.rows \in RowSets
  BY <1>1, <1>2, <1>6
<1>10. \A i \in DOMAIN new.results :
         new.results[i].ok => Right(new.plans[i], new.results[i].rows, scope, lost)
  BY <1>5
<1>11. Answering(new, scope, source, lost)
  BY <1>4, <1>7, <1>8, <1>9, <1>10 DEF Answering
<1> QED  BY <1>11 DEF new

\* A step of one handler that races with no one.
LEMMA OwnStep ==
  ASSUME ServerInv, AllAnswering, NEW m \in Msgs, NEW new,
         requests' = [requests EXCEPT ![m] = new], world' = world, raced' = raced,
         Answering(new, Scope(m), world.source, raced)
  PROVE  AllAnswering'
<1> SUFFICES ASSUME NEW k \in Msgs PROVE Answering(requests[k], Scope(k), world.source, raced)'
  BY DEF AllAnswering
<1>1. Scope(k)' = Scope(k) /\ world.source' = world.source
  BY DEF Scope
<1>2. requests'[k] = IF k = m THEN new ELSE requests[k]
  BY DEF ServerInv
<1>3. Answering(requests[k], Scope(k), world.source, raced)
  BY DEF AllAnswering
<1>4. Answering(requests'[k], Scope(k), world.source, raced)
  BY <1>2, <1>3
<1> QED  BY <1>1, <1>4

LEMMA TellsOn ==
  ASSUME ServerInv, AllAnswering, NEW m \in Msgs, NEW result \in Answers,
         Answer(m, result), result.ok => Right(Plan(m), result.rows, Scope(m), raced),
         world' = world, raced' = raced
  PROVE  AllAnswering'
<1>1. requests' = [requests EXCEPT ![m] = Answered(requests[m], result)]
  BY DEF Answer
<1>2. HasParts(requests[m]) /\ Answering(requests[m], Scope(m), world.source, raced)
  BY DEF ServerInv, Handler, AllAnswering
<1>3. Answering(Answered(requests[m], result), Scope(m), world.source, raced)
  BY <1>2, AnswerTells DEF Plan
<1> QED  BY <1>1, <1>3, OwnStep

LEMMA Fails ==
  ASSUME ServerInv, AllAnswering, NEW m \in Msgs, NEW code \in Codes, Answer(m, Failure(code)),
         world' = world, raced' = raced
  PROVE  AllAnswering'
BY AnswerForm, TellsOn

\* The handler goes on with its plan.
LEMMA PassesOn ==
  ASSUME ServerInv, AllAnswering, NEW m \in Msgs, NEW phase \in Phases, Goes(m, phase),
         requests[m].rows = NoRows, phase \notin {"scan", "write", "merge"},
         phase \notin {"waiting", "context", "done"} => OpFits(Plan(m).op, phase),
         phase = "find" => Askable(Plan(m), Scope(m)),
         phase = "written" => Right(Plan(m), NoRows, Scope(m), raced),
         world' = world, raced' = raced
  PROVE  AllAnswering'
<1> DEFINE req == requests[m]
           new == [req EXCEPT !.phase = phase]
<1>1. requests' = [requests EXCEPT ![m] = new]
  BY DEF Goes
<1>2. HasParts(req) /\ Answering(req, Scope(m), world.source, raced)
  BY DEF ServerInv, Handler, AllAnswering
<1>3. /\ new.plans = req.plans /\ new.at = req.at /\ new.phase = phase /\ new.write = req.write
      /\ new.rows = req.rows /\ new.results = req.results
  BY <1>2 DEF HasParts, HandlerParts
<1> HIDE DEF new
<1>4. OpFits(new.plans[new.at].op, new.phase)
  <2>1. CASE phase \in {"waiting", "context", "done"}
    BY <1>3, <2>1 DEF OpFits
  <2>2. CASE phase \notin {"waiting", "context", "done"}
    BY <1>3, <2>2 DEF Plan
  <2> QED  BY <2>1, <2>2
<1>5. Answering(new, Scope(m), world.source, raced)
  BY <1>2, <1>3, <1>4 DEF Answering, Plan
<1> QED  BY <1>1, <1>5, OwnStep

LEMMA TellArrivals ==
  ASSUME ServerInv, AllAnswering, NEW m \in Msgs, Post(m) \/ Turned(m) \/ Context(m)
  PROVE  AllAnswering'
<1>1. world' = world /\ raced' = raced
  BY DEF Post, Turned, Context, ghosts
<1>2. CASE Post(m)
  <2>1. PICK plans \in Batches :
          requests' = [requests EXCEPT ![m] = [Idle EXCEPT !.plans = plans, !.phase = "context"]]
    BY <1>2 DEF Post
  <2> DEFINE req == [Idle EXCEPT !.plans = plans, !.phase = "context"]
  <2>2. /\ req.at = 1 /\ req.phase = "context" /\ req.write = NoWrite /\ req.rows = NoRows
        /\ req.results = <<>>
    BY DEF Idle
  <2>3. OpFits(req.plans[req.at].op, req.phase)
    BY <2>2 DEF OpFits
  <2> HIDE DEF req
  <2>4. /\ <<>> \in Seq(Answers) /\ Len(<<>>) = 0 /\ DOMAIN <<>> = {}
        /\ IsWrite(NoWrite) /\ NoRows \in RowSets /\ "context" \in Phases
    BY SmallRows DEF IsWrite, NoWrite, Phases
  <2>5. Answering(req, Scope(m), world.source, raced)
    BY <2>2, <2>3, <2>4 DEF Answering
  <2> QED  BY <1>1, <2>1, <2>5, OwnStep DEF req
<1>3. CASE Turned(m) \/ Context(m)
  <2>1. requests[m].rows = NoRows
    BY <1>3 DEF AllAnswering, Answering, Turned, Context, Phase
  <2>2. PICK phase \in {"done", "plan"} : Goes(m, phase)
    BY <1>3 DEF Turned, Context
  <2>3. OpFits(Plan(m).op, phase) /\ phase \in Phases
    BY DEF OpFits, Phases
  <2> QED  BY <1>1, <2>1, <2>2, <2>3, PassesOn
<1> QED  BY <1>2, <1>3

\* The plan a handler is at is one of its batch.
LEMMA PlanAt ==
  ASSUME ServerInv, NEW m \in Msgs, requests[m].phase \notin {"waiting", "context", "done"}
  PROVE  IsPlan(Plan(m)) /\ Plan(m) \in AllPlans
<1>1. requests[m].plans \in Batches /\ requests[m].at \in DOMAIN requests[m].plans
  BY DEF ServerInv, Handler, AtPlan
<1> QED  BY <1>1, PlanOfBatch DEF Plan

LEMMA Refusals == \A plan : Refusal(plan) # "none" => Refusal(plan) \in Codes
BY DEF Refusal, Codes

LEMMA TellStarts ==
  ASSUME ServerInv, AllAnswering, NEW m \in Msgs,
         Begin(m) \/ AccessFails(m) \/ StartRead(m) \/ StartNamed(m) \/ StartCreate(m)
         \/ StartUpdate(m)
  PROVE  AllAnswering'
<1> DEFINE req == requests[m]
           plan == Plan(m)
<1>1. world' = world /\ raced' = raced /\ req.phase \in {"plan", "access"}
  BY DEF Begin, AccessFails, StartRead, StartNamed, StartCreate, StartUpdate, Phase, ghosts
<1>2. req.rows = NoRows /\ Answering(req, Scope(m), world.source, raced) /\ HasParts(req)
  BY <1>1 DEF AllAnswering, Answering, ServerInv, Handler
<1>3. ASSUME NEW code \in Codes, Answer(m, Failure(code)) PROVE AllAnswering'
  BY <1>1, <1>3, Fails
<1>4. ASSUME NEW phase \in {"access", "find", "named", "current"}, Goes(m, phase),
             OpFits(plan.op, phase), phase = "find" => Askable(plan, Scope(m))
      PROVE  AllAnswering'
  <2>1. phase \in Phases
    BY DEF Phases
  <2> QED  BY <1>1, <1>2, <1>4, <2>1, PassesOn
<1>5. {"internal", "invalid_input", "access_denied"} \subseteq Codes
  BY DEF Codes
<1>6. CASE Begin(m)
  <2>1. OpFits(plan.op, "access")
    BY DEF OpFits
  <2> QED  BY <1>3, <1>4, <1>6, <2>1, Refusals DEF Begin
<1>7. CASE AccessFails(m)
  BY <1>3, <1>5, <1>7 DEF AccessFails
<1>8. CASE StartRead(m)
  <2>1. CASE plan.op = "one"
    <3>1. Goes(m, "find") /\ OpFits(plan.op, "find") /\ Askable(plan, Scope(m))
      BY <1>8, <2>1 DEF StartRead, OpFits, Askable
    <3> QED  BY <1>4, <3>1
  <2>2. CASE plan.op = "where"
    <3>1. CASE Answer(m, Data(NoRows))
      <4>1. Data(NoRows) \in Answers /\ Right(plan, Data(NoRows).rows, Scope(m), raced)
        BY <2>2, AnswerForm, SmallRows, NoRowsRight
      <4> QED  BY <1>1, <3>1, <4>1, TellsOn
    <3>2. CASE Answer(m, Failure("invalid_input"))
      BY <1>3, <1>5, <3>2
    <3>3. CASE ScopedFilter(m, plan.filter) # Absent /\ Goes(m, "find")
      <4>1. OpFits(plan.op, "find") /\ Askable(plan, Scope(m))
        BY <2>2, <3>3 DEF OpFits, Askable, ScopedFilter
      <4> QED  BY <1>4, <3>3, <4>1
    <3> QED  BY <1>8, <2>2, <3>1, <3>2, <3>3 DEF StartRead
  <2> QED  BY <1>8, <2>1, <2>2 DEF StartRead
<1>9. CASE StartNamed(m)
  <2>1. OpFits(plan.op, "named")
    BY <1>9 DEF StartNamed, OpFits
  <2> QED  BY <1>3, <1>4, <1>5, <1>9, <2>1 DEF StartNamed
<1>10. CASE StartCreate(m)
  <2> DEFINE write == [NoWrite EXCEPT !.op = "create", !.id = plan.id, !.row = plan.row]
             new == [req EXCEPT !.phase = "write", !.write = write]
  <2>1. CASE /\ requests' = [requests EXCEPT ![m].phase = "write", ![m].write = write]
             /\ InScope(m, plan.row.data)
    <3>1. requests' = [requests EXCEPT ![m] = new]
      BY <2>1
    <3>2. /\ new.plans = req.plans /\ new.at = req.at /\ new.phase = "write" /\ new.write = write
          /\ new.rows = req.rows /\ new.results = req.results /\ new.plans[new.at] = plan
      BY <1>2 DEF HasParts, HandlerParts, Plan
    <3>3. write.op = "create" /\ write.id = plan.id /\ write.row = plan.row
      BY DEF NoWrite
    <3>4. plan.op = "create" /\ IsPlan(plan)
      BY <1>1, <1>10, PlanAt DEF StartCreate
    <3>5. IsWrite(write)
      BY <3>3, <3>4 DEF IsPlan, IsReadPlan, IsWritePlan, IsWrite
    <3> HIDE DEF new, write
    <3>6. Carries(plan, new, Scope(m)) /\ OpFits(plan.op, "write") /\ "write" \in Phases
      BY <2>1, <3>2, <3>3, <3>4 DEF Carries, Grants, InScope, OpFits, Phases
    <3>7. Answering(new, Scope(m), world.source, raced)
      BY <1>2, <3>2, <3>5, <3>6 DEF Answering
    <3> QED  BY <1>1, <3>1, <3>7, OwnStep
  <2> QED  BY <1>3, <1>5, <1>10, <2>1 DEF StartCreate
<1>11. CASE StartUpdate(m)
  <2>1. OpFits(plan.op, "current")
    BY <1>11 DEF StartUpdate, OpFits
  <2> QED  BY <1>3, <1>4, <1>5, <1>11, <2>1 DEF StartUpdate
<1> QED  BY <1>6, <1>7, <1>8, <1>9, <1>10, <1>11

----------------------------------------------------------------------------
(* Reads: who sees what.                                                   *)

\* The plain setting of the server, and the rows a query is decided on.
Setting == world \in Worlds /\ TypedStore
TypedRows(rows) ==
  ScopesAreReadable /\ world.source = "sqlite" =>
    \A id \in DOMAIN rows : HoldsAll(ColumnType, rows[id].data)

LEMMA ExistingRows ==
  ASSUME ServerInv, Setting
  PROVE  Existing \in RowSets /\ TypedRows(Existing)
<1>1. /\ DOMAIN Existing = {id \in Ids : store[id] # Absent}
      /\ \A id \in DOMAIN Existing : Existing[id] = store[id]
      /\ Existing = [id \in DOMAIN Existing |-> Existing[id]]
  BY DEF Existing
<1>2. \A id \in DOMAIN Existing : Existing[id] \in Row
  BY <1>1 DEF ServerInv, Stored
<1>3. Existing \in RowSets
  BY <1>1, <1>2, RowsForm
<1>4. TypedRows(Existing)
  BY <1>1 DEF TypedRows, Setting, TypedStore
<1> QED  BY <1>3, <1>4

\* What the source finds for the narrowed query is within the scope.
LEMMA FoundInScope ==
  ASSUME ScopesAreReadable, world \in Worlds, NEW m \in Msgs, NEW plan,
         IsPlan(plan), plan \in AllPlans, plan.op = "where", Askable(plan, Scope(m)),
         NEW rows \in RowSets, TypedRows(rows),
         NEW id \in DOMAIN Finds(rows, ScopedFilter(m, plan.filter))
  PROVE  Grants(Scope(m), rows[id].data)
<1> DEFINE query == plan.filter
           granted == Scope(m)
           row == rows[id].data
           source == world.source
<1> SUFFICES ASSUME granted # Absent PROVE MatchesFilter(row, granted)
  BY DEF Grants
<1>1. id \in DOMAIN rows /\ SourceFinds(source, row, IntersectFilters(query, granted))
  BY DEF Finds, ScopedFilter
<1>2. row \in [Fields -> Values]
  BY <1>1, RowsForm DEF Row
<1>3. IsWhereFilter(query)
  BY DEF IsPlan, IsReadPlan, IsWritePlan
<1>4. source \in Sources /\ IsWhereFilter(granted)
  BY ServerAssumption DEF IsWorld, Scope
<1>5. \A fd \in DOMAIN granted : /\ Plain(granted[fd])
                                 /\ source \in Databases => NamesNoNull(granted[fd])
  BY DEF ScopesAreReadable, Scope
<1>6. IntersectFilters(query, granted) # Absent
  BY DEF Askable
<1>7. source = "sqlite" => \E type \in [Fields -> Types] :
        /\ \A fd \in Fields : row[fd] # Absent => row[fd] \in ColumnOf(type[fd])
        /\ \A fd \in DOMAIN query : NamesWithin(ColumnOf(type[fd]), query[fd])
        /\ \A fd \in DOMAIN granted : NamesWithin(ColumnOf(type[fd]), granted[fd])
  <2> SUFFICES ASSUME source = "sqlite"
               PROVE  /\ ColumnType \in [Fields -> Types] /\ HoldsAll(ColumnType, row)
                      /\ NamesOnly(ColumnType, query) /\ NamesOnly(ColumnType, granted)
    BY DEF HoldsAll, NamesOnly
  <2>1. ColumnType \in [Fields -> Types] /\ ColumnsAre(ColumnType)
    <3>1. \E type \in [Fields -> Types] : ColumnsAre(type)
      BY DEF ScopesAreReadable
    <3> QED  BY <3>1 DEF ColumnType
  <2>2. NamesOnly(ColumnType, query) /\ NamesOnly(ColumnType, granted)
    BY <2>1 DEF ColumnsAre, Scope
  <2> QED  BY <1>1, <2>1, <2>2 DEF TypedRows
<1> HIDE DEF row, query, granted, source
<1> QED  BY <1>1, <1>2, <1>3, <1>4, <1>5, <1>6, <1>7, SourcesKeepScope

LEMMA WhereTells ==
  ASSUME ServerInv, AllAnswering, Setting, NEW m \in Msgs,
         requests[m].phase \in {"find", "scan"}, Plan(m).op = "where", Askable(Plan(m), Scope(m)),
         NEW rows \in RowSets, TypedRows(rows), WhereAnswered(m, rows),
         raced' = raced, world' = world
  PROVE  AllAnswering'
<1> DEFINE plan == Plan(m)
           found == Finds(rows, ScopedFilter(m, plan.filter))
<1>1. PICK ids \in Windows(plan, found) : Answer(m, ReadResult(m, [id \in ids |-> found[id]]))
  BY DEF WhereAnswered
<1>2. ids \subseteq DOMAIN found
  BY DEF Windows
<1> DEFINE shown == [id \in ids |-> found[id]]
<1>3. ReadResult(m, shown) \in {Failure("result_limit"), Data(shown)}
  BY DEF ReadResult
<1>4. CASE ReadResult(m, shown) = Failure("result_limit")
  <2>1. "result_limit" \in Codes
    BY DEF Codes
  <2> QED  BY <1>1, <1>4, <2>1, Fails
<1>5. CASE ReadResult(m, shown) = Data(shown)
  <2>1. DOMAIN found \subseteq DOMAIN rows /\ \A id \in DOMAIN found : found[id] = rows[id]
    BY DEF Finds
  <2>2. DOMAIN shown = ids /\ shown = [id \in DOMAIN shown |-> shown[id]]
        /\ \A id \in ids : shown[id] = rows[id] /\ id \in DOMAIN rows
    BY <1>2, <2>1
  <2>3. IsPlan(plan) /\ plan \in AllPlans
    BY PlanAt
  <2>4. ASSUME ScopesAreReadable, NEW id \in ids PROVE Grants(Scope(m), rows[id].data)
    BY <1>2, <2>3, <2>4, FoundInScope DEF Setting
  <2> HIDE DEF shown, found
  <2>5. shown \in RowSets
    BY <2>2, RowsForm
  <2>6. Right(plan, shown, Scope(m), raced)
    BY <2>2, <2>4 DEF Right
  <2>7. Data(shown) \in Answers /\ Data(shown).rows = shown
    BY <2>5, AnswerForm
  <2> QED  BY <1>1, <1>5, <2>6, <2>7, TellsOn DEF shown
<1> QED  BY <1>3, <1>4, <1>5

LEMMA TellReads ==
  ASSUME ServerInv, AllAnswering, Setting, NEW m \in Msgs, Find(m) \/ Scan(m) \/ Named(m)
  PROVE  AllAnswering'
<1> DEFINE req == requests[m]
           plan == Plan(m)
<1>1. world' = world /\ raced' = raced /\ req.phase \in {"find", "scan", "named"}
  BY DEF Find, Scan, Named, Phase, ghosts
<1>2. Answering(req, Scope(m), world.source, raced) /\ HasParts(req)
  BY DEF AllAnswering, ServerInv, Handler
<1>3. ASSUME NEW code \in Codes, Answer(m, Failure(code)) PROVE AllAnswering'
  BY <1>1, <1>3, Fails
<1>4. {"internal", "invalid_input", "unsupported"} \subseteq Codes
  BY DEF Codes
<1>5. IsPlan(plan)
  BY <1>1, PlanAt
<1>6. ASSUME NEW rows \in RowSets, Answer(m, Data(rows)), Right(plan, rows, Scope(m), raced)
      PROVE  AllAnswering'
  BY <1>1, <1>6, AnswerForm, TellsOn
<1>7. CASE Find(m)
  <2>1. /\ plan.op \in {"one", "where"} /\ Askable(plan, Scope(m)) /\ req.rows = NoRows
        /\ req.phase = "find"
    BY <1>2, <1>7 DEF Find, Phase, Answering, OpFits, Plan
  <2>2. CASE plan.op = "one"
    <3>1. plan.id \in Ids
      BY <1>5, <2>2 DEF IsPlan, IsReadPlan, IsWritePlan
    <3>2. CASE store[plan.id] = Absent
      <4>1. Answer(m, Failure("internal")) \/ Answer(m, Data(NoRows))
        BY <1>7, <2>2, <3>2 DEF Find
      <4>2. Right(plan, NoRows, Scope(m), raced)
        BY <2>2, NoRowsRight
      <4> QED  BY <1>3, <1>4, <1>6, <4>1, <4>2, SmallRows
    <3>3. CASE store[plan.id] # Absent
      <4> DEFINE row == store[plan.id]
                 rows == Only(plan.id, row)
                 shown == [id \in {i \in DOMAIN rows : InScope(m, rows[i].data)} |-> rows[id]]
      <4>1. row \in Row
        BY <3>1, <3>3 DEF ServerInv, Stored
      <4>2. DOMAIN rows = {plan.id} /\ rows[plan.id] = row
        BY <3>1, <4>1, SmallRows
      <4>3. Answer(m, Data(shown))
        BY <1>7, <2>2, <3>3 DEF Find, ReadResult
      <4>4. /\ DOMAIN shown \subseteq Ids /\ shown = [id \in DOMAIN shown |-> shown[id]]
            /\ \A id \in DOMAIN shown : shown[id] = row /\ InScope(m, shown[id].data)
        BY <3>1, <4>2
      <4> HIDE DEF shown
      <4>5. shown \in RowSets
        BY <4>1, <4>4, RowsForm
      <4>6. Right(plan, shown, Scope(m), raced)
        BY <2>2, <4>4 DEF Right, Grants, InScope
      <4> QED  BY <1>6, <4>3, <4>5, <4>6
    <3> QED  BY <3>2, <3>3
  <2>3. CASE plan.op = "where"
    <3>1. CASE Answer(m, Failure("unsupported"))
      BY <1>3, <1>4, <3>1
    <3>2. CASE /\ world.source = "redis"
               /\ requests' = [requests EXCEPT ![m].phase = "scan",
                                 ![m].keys = {id \in Ids : store[id] # Absent}]
      <4> DEFINE keys == {id \in Ids : store[id] # Absent}
                 new == [req EXCEPT !.phase = "scan", !.keys = keys]
      <4>1. requests' = [requests EXCEPT ![m] = new]
        BY <3>2
      <4>2. /\ new.plans = req.plans /\ new.at = req.at /\ new.phase = "scan"
            /\ new.write = req.write /\ new.rows = req.rows /\ new.results = req.results
            /\ new.keys \subseteq Ids
        BY <1>2 DEF HasParts, HandlerParts
      <4> HIDE DEF new
      <4>3. OpFits(plan.op, "scan") /\ "scan" \in Phases
        BY <2>3 DEF OpFits, Phases
      <4>4. Answering(new, Scope(m), world.source, raced)
        BY <1>2, <2>1, <3>2, <4>2, <4>3 DEF Answering, Plan
      <4> QED  BY <1>1, <4>1, <4>4, OwnStep
    <3>3. CASE WhereAnswered(m, Existing)
      BY <1>1, <2>1, <2>3, <3>3, ExistingRows, WhereTells
    <3> QED  BY <1>7, <2>3, <3>1, <3>2, <3>3 DEF Find
  <2> QED  BY <2>1, <2>2, <2>3
<1>8. CASE Scan(m)
  <2>1. /\ plan.op = "where" /\ Askable(plan, Scope(m)) /\ req.phase = "scan"
        /\ req.keys \subseteq Ids /\ req.rows \in RowSets /\ world.source = "redis"
    BY <1>2, <1>8 DEF Scan, Phase, Answering, OpFits, Plan
  <2>2. CASE req.keys = {}
    <3>1. WhereAnswered(m, req.rows)
      BY <1>8, <2>2 DEF Scan
    <3>2. TypedRows(req.rows)
      BY <2>1 DEF TypedRows
    <3> QED  BY <1>1, <2>1, <3>1, <3>2, WhereTells
  <2>3. CASE req.keys # {}
    <3> DEFINE read(id) == IF store[id] = Absent THEN req.rows
                           ELSE [i \in DOMAIN req.rows \cup {id} |->
                                   IF i = id THEN store[id] ELSE req.rows[i]]
    <3>1. PICK id \in req.keys :
            requests' = [requests EXCEPT ![m].keys = @ \ {id}, ![m].rows = read(id)]
      BY <1>8, <2>3 DEF Scan
    <3> DEFINE new == [req EXCEPT !.keys = @ \ {id}, !.rows = read(id)]
    <3>2. requests' = [requests EXCEPT ![m] = new]
      BY <3>1
    <3>3. read(id) \in RowSets
      <4>1. id \in Ids /\ (store[id] # Absent => store[id] \in Row)
        BY <2>1 DEF ServerInv, Stored
      <4>2. /\ DOMAIN req.rows \subseteq Ids /\ \A i \in DOMAIN req.rows : req.rows[i] \in Row
        BY <2>1, RowsForm
      <4>3. CASE store[id] # Absent
        <5>1. /\ DOMAIN read(id) = DOMAIN req.rows \cup {id}
              /\ read(id) = [i \in DOMAIN read(id) |-> read(id)[i]]
              /\ \A i \in DOMAIN read(id) : read(id)[i] = IF i = id THEN store[id] ELSE req.rows[i]
          BY <4>3
        <5> HIDE DEF read
        <5>2. DOMAIN read(id) \subseteq Ids /\ \A i \in DOMAIN read(id) : read(id)[i] \in Row
          BY <4>1, <4>2, <4>3, <5>1
        <5> QED  BY <5>1, <5>2, RowsForm
      <4> QED  BY <2>1, <4>3
    <3> HIDE DEF read
    <3>4. /\ new.plans = req.plans /\ new.at = req.at /\ new.phase = req.phase
          /\ new.write = req.write /\ new.rows = read(id) /\ new.results = req.results
          /\ new.keys \subseteq req.keys
      BY <1>2 DEF HasParts, HandlerParts
    <3> HIDE DEF new
    <3>5. Answering(new, Scope(m), world.source, raced)
      BY <1>2, <2>1, <3>3, <3>4 DEF Answering
    <3> QED  BY <1>1, <3>2, <3>5, OwnStep
  <2> QED  BY <2>2, <2>3
<1>9. CASE Named(m)
  <2>1. plan.op = "named"
    BY <1>2, <1>9 DEF Named, Phase, Answering, OpFits, Plan
  <2>2. Right(plan, NoRows, Scope(m), raced)
    BY <2>1, NoRowsRight
  <2>3. \/ Answer(m, Data(NoRows)) \/ Answer(m, Failure("invalid_input"))
        \/ Answer(m, Failure("internal"))
    BY <1>9 DEF Named
  <2> QED  BY <1>3, <1>4, <1>6, <2>2, <2>3, SmallRows
<1> QED  BY <1>7, <1>8, <1>9

----------------------------------------------------------------------------
(* Writes: what is acknowledged.                                           *)

\* applyPatch prepares the patch of its plan, within the scope.
LEMMA TellPatches ==
  ASSUME ServerInv, AllAnswering, NEW m \in Msgs, NEW patch, requests[m].phase = "current",
         world' = world, raced' = raced,
         store[Plan(m).id] \in Row, Plan(m).op \in {"patch", "action"}, IsPatch(patch),
         Plan(m).op = "patch" => patch = Plan(m).patch,
         ApplyPatch(m, store[Plan(m).id], patch)
  PROVE  AllAnswering'
<1> DEFINE req == requests[m]
           plan == Plan(m)
           row == store[plan.id]
           base == plan.base
           write == [NoWrite EXCEPT !.op = "patch", !.id = plan.id, !.change = Known(patch),
                       !.version = IF world.versioned THEN row.version + 1 ELSE Absent,
                       !.base = IF world.versioned THEN base ELSE Absent]
           new == [req EXCEPT !.phase = "write", !.current = row, !.write = write]
           verdict == PatchVerdict(m, row, Known(patch), base)
<1>1. CASE verdict # "ok"
  <2>1. Answer(m, Failure(verdict))
    BY <1>1 DEF ApplyPatch
  <2>2. verdict \in Codes
    BY <1>1 DEF PatchVerdict, Codes
  <2> QED  BY <2>1, <2>2, Fails
<1>2. CASE verdict = "ok"
  <2>1. requests' = [requests EXCEPT ![m] = new]
    BY <1>2 DEF ApplyPatch
  <2>2. Answering(req, Scope(m), world.source, raced) /\ HasParts(req)
    BY DEF AllAnswering, ServerInv, Handler
  <2>3. /\ new.plans = req.plans /\ new.at = req.at /\ new.phase = "write" /\ new.write = write
        /\ new.rows = req.rows /\ new.results = req.results /\ new.current = row
        /\ new.plans[new.at] = plan
    BY <2>2 DEF HasParts, HandlerParts, Plan
  <2>4. /\ write.op = "patch" /\ write.id = plan.id /\ write.change = Known(patch)
        /\ write.version = IF world.versioned THEN row.version + 1 ELSE Absent
        /\ write.base = IF world.versioned THEN base ELSE Absent
    BY DEF NoWrite
  <2>5. plan.id \in Ids /\ base \in {Absent} \cup Int
    BY PlanAt DEF IsPlan, IsReadPlan, IsWritePlan
  <2>6. IsWrite(write)
    <3>1. IsPatch(Known(patch)) /\ row.version \in Int
      BY KnownPatch DEF Row
    <3>2. write.version \in {Absent} \cup Int /\ write.base \in {Absent} \cup Int
      BY <2>4, <2>5, <3>1
    <3> HIDE DEF write
    <3> QED  BY <2>4, <2>5, <3>1, <3>2 DEF IsWrite
  <2>7. InScope(m, Merge(row.data, Known(patch)))
    BY <1>2 DEF PatchVerdict
  <2> HIDE DEF new, write
  <2>8. Carries(plan, new, Scope(m)) /\ OpFits(plan.op, "write") /\ "write" \in Phases
    BY <2>3, <2>4, <2>7 DEF Carries, Grants, InScope, OpFits, Phases
  <2>9. Answering(new, Scope(m), world.source, raced)
    BY <2>2, <2>3, <2>6, <2>8 DEF Answering
  <2> QED  BY <2>1, <2>9, OwnStep
<1> QED  BY <1>1, <1>2

LEMMA TellDecides ==
  ASSUME ServerInv, AllAnswering, NEW m \in Msgs, Current(m)
  PROVE  AllAnswering'
<1> DEFINE req == requests[m]
           plan == Plan(m)
           row == store[plan.id]
<1>1. req.phase = "current" /\ world' = world /\ raced' = raced
  BY DEF Current, Phase, ghosts
<1>2. /\ Answering(req, Scope(m), world.source, raced) /\ HasParts(req) /\ req.rows = NoRows
      /\ Handler(req, store, world)
  BY <1>1 DEF AllAnswering, ServerInv, Handler, Answering
<1>3. plan.op \in {"patch", "delete", "action"} /\ IsPlan(plan)
      /\ (plan.op = "action" => plan.action \in DOMAIN Lowering \cup DOMAIN Impls)
  BY <1>1, <1>2, PlanAt DEF Handler, AtPlan, Plan
<1>4. plan.id \in Ids /\ row \in Stored
  BY <1>3 DEF IsPlan, IsReadPlan, IsWritePlan, ServerInv
<1>5. ASSUME NEW code \in Codes, Answer(m, Failure(code)) PROVE AllAnswering'
  BY <1>1, <1>5, Fails
<1>6. {"internal", "invalid_input", "not_found", "access_denied"} \subseteq Codes
  BY DEF Codes
<1>7. CASE plan.op = "patch" /\ row # Absent /\ ApplyPatch(m, row, plan.patch)
  <2>1. IsPatch(plan.patch)
    BY <1>3, <1>7 DEF IsPlan, IsReadPlan, IsWritePlan
  <2> QED  BY <1>1, <1>4, <1>7, <2>1, TellPatches DEF Stored
<1>8. CASE plan.op = "delete" /\ ApplyDelete(m, row)
  <2>1. CASE Goes(m, "written")
    <3>1. Right(plan, NoRows, Scope(m), raced)
      BY <1>8, NoRowsRight
    <3>2. OpFits(plan.op, "written") /\ "written" \in Phases
      BY <1>8 DEF OpFits, Phases
    <3> QED  BY <1>1, <1>2, <2>1, <3>1, <3>2, PassesOn
  <2> DEFINE write == [NoWrite EXCEPT !.op = "delete", !.id = plan.id]
             new == [req EXCEPT !.phase = "write", !.current = row, !.write = write]
  <2>2. CASE requests' = [requests EXCEPT ![m].phase = "write", ![m].current = row,
                            ![m].write = write]
    <3>1. requests' = [requests EXCEPT ![m] = new]
      BY <2>2
    <3>2. /\ new.plans = req.plans /\ new.at = req.at /\ new.phase = "write" /\ new.write = write
          /\ new.rows = req.rows /\ new.results = req.results /\ new.plans[new.at] = plan
      BY <1>2 DEF HasParts, HandlerParts, Plan
    <3>3. write.op = "delete" /\ write.id = plan.id
      BY DEF NoWrite
    <3> HIDE DEF new, write
    <3>4. /\ IsWrite(write) /\ Carries(plan, new, Scope(m)) /\ OpFits(plan.op, "write")
          /\ "write" \in Phases
      BY <1>4, <1>8, <3>2, <3>3 DEF IsWrite, Carries, OpFits, Phases
    <3>5. Answering(new, Scope(m), world.source, raced)
      BY <1>2, <3>2, <3>4 DEF Answering
    <3> QED  BY <1>1, <3>1, <3>5, OwnStep
  <2> QED  BY <1>5, <1>6, <1>8, <2>1, <2>2 DEF ApplyDelete
<1>9. CASE plan.op = "action" /\ row # Absent /\ ApplyAction(m, row)
  <2>1. row \in Row /\ row.data \in [Fields -> Values]
    BY <1>4, <1>9 DEF Stored, Row
  <2>2. CASE Goes(m, "impl")
    <3>1. OpFits(plan.op, "impl") /\ "impl" \in Phases
      BY <1>9 DEF OpFits, Phases
    <3> QED  BY <1>1, <1>2, <2>2, <3>1, PassesOn
  <2>3. CASE /\ plan.action \in DOMAIN Lowering /\ row.data \in DOMAIN Lowering[plan.action]
             /\ ApplyPatch(m, row, Lowering[plan.action][row.data])
    <3>1. IsPatch(Lowering[plan.action][row.data])
      BY <2>3, ServerAssumption
    <3> QED  BY <1>1, <1>9, <2>1, <2>3, <3>1, TellPatches
  <2> QED  BY <1>3, <1>5, <1>6, <1>9, <2>2, <2>3 DEF ApplyAction, Lower
<1> QED
  <2>1. \/ \E code \in Codes : Answer(m, Failure(code))
        \/ plan.op = "patch" /\ row # Absent /\ ApplyPatch(m, row, plan.patch)
        \/ plan.op = "delete" /\ ApplyDelete(m, row)
        \/ plan.op = "action" /\ row # Absent /\ ApplyAction(m, row)
    BY <1>3, <1>6 DEF Current
  <2> QED  BY <2>1, <1>5, <1>7, <1>8, <1>9

\* A write lands: its own handler carries on, the others are late at most.
LEMMA TellWriteStep ==
  ASSUME ServerInv, AllAnswering, NEW m \in Msgs, NEW id, NEW new,
         requests' = [Landed(m, id) EXCEPT ![m] = new], world' = world, raced \subseteq raced',
         Answering(new, Scope(m), world.source, raced')
  PROVE  AllAnswering'
<1> SUFFICES ASSUME NEW k \in Msgs PROVE Answering(requests[k], Scope(k), world.source, raced)'
  BY DEF AllAnswering
<1>1. Scope(k)' = Scope(k) /\ world.source' = world.source
  BY DEF Scope
<1> SUFFICES Answering(requests'[k], Scope(k), world.source, raced')
  BY <1>1
<1>2. CASE k = m
  BY <1>2 DEF Landed
<1>3. CASE k # m
  <2> DEFINE req == requests[k]
             late == [req EXCEPT !.late = TRUE, !.torn = (req.phase = "merge")]
  <2>1. requests'[k] \in {req, late}
    BY <1>3 DEF Landed, Phase
  <2>2. HasParts(req) /\ Answering(req, Scope(k), world.source, raced)
    BY DEF AllAnswering, ServerInv, Handler
  <2>3. \A plan, rows : Right(plan, rows, Scope(k), raced) => Right(plan, rows, Scope(k), raced')
    BY StaysRight
  <2>4. Answering(req, Scope(k), world.source, raced')
    BY <2>2, <2>3 DEF Answering
  <2>5. /\ late.plans = req.plans /\ late.at = req.at /\ late.phase = req.phase
        /\ late.write = req.write /\ late.rows = req.rows /\ late.results = req.results
        /\ late.keys = req.keys /\ late.current = req.current /\ late.late = TRUE
    BY <2>2 DEF HasParts, HandlerParts
  <2> HIDE DEF late
  <2>6. \A plan : Carries(plan, req, Scope(k)) => Carries(plan, late, Scope(k))
    BY <2>5 DEF Carries
  <2>7. Answering(late, Scope(k), world.source, raced')
    BY <2>4, <2>5, <2>6 DEF Answering
  <2> QED  BY <2>1, <2>4, <2>7
<1> QED  BY <1>2, <1>3

\* The record that landed is the answer.
LEMMA TellLands ==
  ASSUME ServerInv, AllAnswering, NEW m \in Msgs, NEW row \in Stored,
         requests[m].phase \in {"write", "merge"}, Lands(m, row),
         requests[m].write.id \in Ids,
         Right(Plan(m), IF row = Absent THEN NoRows ELSE Only(requests[m].write.id, row),
               Scope(m), raced')
  PROVE  AllAnswering'
<1> DEFINE req == requests[m]
           id == req.write.id
           rows == IF row = Absent THEN NoRows ELSE Only(id, row)
           new == [req EXCEPT !.phase = "written", !.rows = rows]
<1>1. requests' = [Landed(m, id) EXCEPT ![m] = new] /\ world' = world /\ raced \subseteq raced'
  BY DEF Lands, Landed
<1>2. Answering(req, Scope(m), world.source, raced) /\ HasParts(req)
  BY DEF AllAnswering, ServerInv, Handler
<1>3. rows \in RowSets
  BY SmallRows DEF Stored
<1> HIDE DEF rows
<1>4. /\ new.plans = req.plans /\ new.at = req.at /\ new.phase = "written"
      /\ new.write = req.write /\ new.rows = rows /\ new.results = req.results
      /\ new.plans[new.at] = Plan(m)
  BY <1>2 DEF HasParts, HandlerParts, Plan
<1> HIDE DEF new
<1>5. OpFits(Plan(m).op, "written") /\ "written" \in Phases
  BY <1>2 DEF Answering, OpFits, Phases, Plan
<1>6. Right(Plan(m), rows, Scope(m), raced')
  BY DEF rows
<1>7. \A plan, shown : Right(plan, shown, Scope(m), raced) => Right(plan, shown, Scope(m), raced')
  BY <1>1, StaysRight
<1>8. Answering(new, Scope(m), world.source, raced')
  BY <1>2, <1>3, <1>4, <1>5, <1>6, <1>7 DEF Answering
<1> QED  BY <1>1, <1>8, TellWriteStep

\* A patch in the record: it has the fields that were sent.
LEMMA TellPatchLands ==
  ASSUME ServerInv, AllAnswering, NEW m \in Msgs, NEW row \in Row,
         requests[m].phase \in {"write", "merge"}, requests[m].write.op = "patch",
         ~requests[m].late => row = requests[m].current,
         Lands(m, Patched(row, requests[m].write))
  PROVE  AllAnswering'
<1> DEFINE req == requests[m]
           write == req.write
           plan == Plan(m)
           after == Patched(row, write)
<1>1. /\ Answering(req, Scope(m), world.source, raced) /\ Handler(req, store, world)
      /\ req.late \in BOOLEAN
  BY DEF AllAnswering, ServerInv, Handler
<1>2. /\ write.id \in Ids /\ IsPatch(write.change)
      /\ write.version = Absent \/ write.version \in Int
  BY <1>1 DEF Handler, WriteSound
<1>3. after \in Row /\ row # Absent
  BY <1>2, PatchLeavesRow, ServerAssumption
<1>4. after # Absent /\ after.data = Merge(row.data, write.change)
  BY <1>3, ServerAssumption DEF Patched
<1>5. Carries(plan, req, Scope(m)) /\ plan.op \in {"create", "patch", "delete", "action"}
  BY <1>1 DEF Answering, OpFits, Plan
<1>6. plan.op \in {"patch", "action"}
  BY <1>5 DEF Carries
<1>7. req.late => write.id \in raced'
  BY DEF Lands
<1> DEFINE rows == Only(write.id, after)
<1>8. DOMAIN rows = {write.id} /\ rows[write.id] = after
  BY <1>2, <1>3, SmallRows
<1> HIDE DEF after, rows
<1>9. Right(plan, rows, Scope(m), raced')
  <2>1. ASSUME plan.op = "patch"
        PROVE  /\ write.id = plan.id
               /\ \A fd \in DOMAIN Known(plan.patch) : after.data[fd] = plan.patch[fd]
               /\ ~req.late => Grants(Scope(m), after.data)
    <3>1. /\ write.id = plan.id /\ write.change = Known(plan.patch)
          /\ ~req.late => Grants(Scope(m), Merge(req.current.data, write.change))
      BY <1>5, <2>1 DEF Carries
    <3>2. \A fd \in DOMAIN write.change : fd \in Fields /\ write.change[fd] = plan.patch[fd]
      BY <3>1 DEF Known
    <3>3. \A fd \in DOMAIN write.change : after.data[fd] = write.change[fd]
      BY <1>4, <3>2 DEF Merge
    <3>4. ~req.late => Grants(Scope(m), after.data)
      BY <1>4, <3>1
    <3> QED  BY <3>1, <3>2, <3>3, <3>4
  <2>2. CASE plan.op = "patch"
    BY <1>1, <1>7, <1>8, <2>1, <2>2 DEF Right
  <2>3. CASE plan.op = "action"
    BY <2>3 DEF Right
  <2> QED  BY <1>6, <2>2, <2>3
<1>10. after \in Stored
  BY <1>3 DEF Stored
<1> QED  BY <1>2, <1>4, <1>9, <1>10, TellLands DEF after, rows

\* What matches as it is created matches as it is kept: a missing field meets
\* only a condition of nothing.
LEMMA KeptIsGranted ==
  ASSUME world \in Worlds, NEW m \in Msgs, NEW row \in Created, Grants(Scope(m), row.data)
  PROVE  Grants(Scope(m), Kept(row).data)
<1> DEFINE granted == Scope(m)
<1> SUFFICES ASSUME granted # Absent, NEW fd \in DOMAIN granted
             PROVE  Matches(Kept(row).data[fd], Normalize(granted[fd]))
  BY DEF Grants, MatchesFilter
<1>1. granted[fd] \in FieldFilters /\ fd \in Fields
  BY ServerAssumption DEF IsWorld, Scope, IsWhereFilter
<1>2. Normalize(granted[fd]) \in Conditions
  BY <1>1, NormalizeType
<1>3. Matches(row.data[fd], Normalize(granted[fd]))
  BY DEF Grants, MatchesFilter
<1>4. Kept(row).data[fd] \in {row.data[fd], Column(row.data[fd])}
  <2>1. row \in Row
    BY CreatedRows
  <2>2. ASSUME NEW v \in Values
        PROVE  CoerceField(Column(v).type, ToStored(Column(v))) = Column(v)
    <3>1. Column(v) \in Scalars
      BY StorageAssumption DEF Column, Values
    <3>2. Column(v) # Absent /\ Column(v) \in [type: Types, at: Int]
      BY <3>1, ScalarsAssumption
    <3> QED  BY <3>1, <3>2 DEF CoerceField, ToStored
  <2>3. row.data[fd] \in Values
    BY <1>1, <2>1 DEF Row
  <2> QED  BY <1>1, <2>1, <2>2, <2>3 DEF Kept, Row
<1>5. \/ Column(row.data[fd]) = row.data[fd]
      \/ row.data[fd] = Absent /\ Column(row.data[fd]) = Null
  BY DEF Column
<1>6. ASSUME Matches(Absent, Normalize(granted[fd]))
      PROVE  Matches(Null, Normalize(granted[fd]))
  <2> DEFINE c == Normalize(granted[fd])
  <2>1. c.eq = Absent
    BY <1>6 DEF Matches
  <2>2. c.in = Absent
    BY <1>2, <1>6, <2>1, ScalarsAssumption DEF Matches, Conditions
  <2>3. c.lower = Absent /\ c.upper = Absent /\ ~c.unsatisfiable
    BY <1>6, <2>1 DEF Matches, InRange, AboveLower, BelowUpper
  <2> HIDE DEF c
  <2>4. Matches(Null, c)
    BY <2>1, <2>2, <2>3 DEF Matches, InRange, AboveLower, BelowUpper
  <2> QED  BY <2>4 DEF c
<1> QED  BY <1>3, <1>4, <1>5, <1>6

LEMMA TellWrites ==
  ASSUME ServerInv, AllAnswering, Setting, NEW m \in Msgs, Write(m) \/ Set(m)
  PROVE  AllAnswering'
<1> DEFINE req == requests[m]
           write == req.write
           id == write.id
           row == store[id]
           plan == Plan(m)
<1>1. req.phase \in {"write", "merge"} /\ Handler(req, store, world)
      /\ Answering(req, Scope(m), world.source, raced)
  BY DEF Write, Set, Phase, AllAnswering, ServerInv
<1>2. /\ HasParts(req) /\ WriteSound(req, store, world) /\ id \in Ids /\ row \in Stored
      /\ write.op \in {"create", "patch", "delete"} /\ req.late \in BOOLEAN
      /\ Carries(plan, req, Scope(m)) /\ plan.op \in {"create", "patch", "delete", "action"}
  BY <1>1 DEF Handler, WriteSound, ServerInv, Answering, OpFits, Plan
<1>3. CASE Set(m)
  <2>1. /\ req.phase = "merge" /\ Lands(m, Patched(req.current, write)) /\ write.op = "patch"
        /\ req.current \in Row
    BY <1>1, <1>3 DEF Set, Phase, Handler
  <2> QED  BY <1>1, <2>1, TellPatchLands
<1>4. CASE Write(m) /\ SourceVerdict(write) # "ok"
  <2>1. Answer(m, Failure(SourceVerdict(write))) /\ world' = world /\ raced' = raced
    BY <1>4 DEF Write, ghosts
  <2>2. SourceVerdict(write) \in Codes
    BY <1>4 DEF SourceVerdict, Codes
  <2> QED  BY <2>1, <2>2, Fails
<1>5. CASE Write(m) /\ SourceVerdict(write) = "ok" /\ write.op = "patch" /\ row = Absent
  <2>1. /\ requests' = [requests EXCEPT ![m].phase = "written"] /\ world' = world
        /\ raced' = IF req.late THEN raced \cup {id} ELSE raced
    BY <1>5 DEF Write
  <2>2. req.late
    <3>1. ~req.late => row \in Row
      BY <1>2, <1>5 DEF WriteSound, Based
    <3> QED  BY <1>2, <1>5, <3>1, ServerAssumption
  <2> DEFINE new == [req EXCEPT !.phase = "written"]
  <2>3. requests' = [requests EXCEPT ![m] = new]
    BY <2>1
  <2>4. /\ new.plans = req.plans /\ new.at = req.at /\ new.phase = "written"
        /\ new.write = write /\ new.rows = req.rows /\ new.results = req.results
        /\ new.plans[new.at] = plan
    BY <1>2 DEF HasParts, HandlerParts, Plan
  <2> HIDE DEF new
  <2>5. req.rows = NoRows
    BY <1>1 DEF Answering
  <2>6. Right(plan, NoRows, Scope(m), raced')
    BY <1>2, <1>5, <2>1, <2>2, SmallRows DEF Right, Carries
  <2>7. OpFits(plan.op, "written") /\ "written" \in Phases
    BY <1>2 DEF OpFits, Phases
  <2>8. raced \subseteq raced'
    BY <2>1
  <2>9. \A p, shown : Right(p, shown, Scope(m), raced) => Right(p, shown, Scope(m), raced')
    BY <2>8, StaysRight
  <2>10. Answering(new, Scope(m), world.source, raced')
    BY <1>1, <2>4, <2>5, <2>6, <2>7, <2>9 DEF Answering
  <2> QED
    <3> SUFFICES ASSUME NEW k \in Msgs
                 PROVE  Answering(requests[k], Scope(k), world.source, raced)'
      BY DEF AllAnswering
    <3>1. Scope(k)' = Scope(k) /\ world.source' = world.source
      BY <2>1 DEF Scope
    <3>2. requests'[k] = IF k = m THEN new ELSE requests[k]
      BY <2>3 DEF ServerInv
    <3>3. \A p, shown : Right(p, shown, Scope(k), raced) => Right(p, shown, Scope(k), raced')
      BY <2>8, StaysRight
    <3>4. Answering(requests[k], Scope(k), world.source, raced)
      BY DEF AllAnswering
    <3>5. Answering(requests[k], Scope(k), world.source, raced')
      BY <3>3, <3>4 DEF Answering
    <3>6. Answering(requests'[k], Scope(k), world.source, raced')
      BY <2>10, <3>2, <3>5
    <3> QED  BY <3>1, <3>6
<1>6. CASE Write(m) /\ SourceVerdict(write) = "ok" /\ write.op = "patch" /\ row # Absent
  <2>0. row \in Row
    BY <1>2, <1>6 DEF Stored
  <2>1. CASE world.source = "redis"
    <3> DEFINE new == [req EXCEPT !.phase = "merge", !.current = row]
    <3>1. requests' = [requests EXCEPT ![m] = new] /\ world' = world /\ raced' = raced
      BY <1>6, <2>1 DEF Write, ghosts
    <3>2. /\ new.plans = req.plans /\ new.at = req.at /\ new.phase = "merge"
          /\ new.write = write /\ new.rows = req.rows /\ new.results = req.results
          /\ new.plans[new.at] = plan /\ new.current = row /\ new.late = req.late
      BY <1>2 DEF HasParts, HandlerParts, Plan
    <3>3. req.phase = "write" /\ (~req.late => req.current = row)
      BY <1>2, <1>6 DEF Write, Phase, WriteSound, Based
    <3> HIDE DEF new
    <3>4. Carries(plan, new, Scope(m)) /\ OpFits(plan.op, "merge") /\ "merge" \in Phases
      BY <1>2, <3>2, <3>3 DEF Carries, OpFits, Phases
    <3>5. Answering(new, Scope(m), world.source, raced)
      BY <1>1, <2>1, <3>2, <3>3, <3>4 DEF Answering
    <3> QED  BY <3>1, <3>5, OwnStep
  <2>2. CASE world.source # "redis"
    <3>1. Lands(m, Patched(row, write))
      BY <1>6, <2>2 DEF Write, After
    <3>2. ~req.late => row = req.current
      BY <1>2, <1>6 DEF WriteSound, Based
    <3> QED  BY <1>1, <1>6, <2>0, <3>1, <3>2, TellPatchLands
  <2> QED  BY <2>1, <2>2
<1>7. CASE Write(m) /\ SourceVerdict(write) = "ok" /\ write.op = "create"
  <2>1. Lands(m, Kept(write.row)) /\ world' = world
    BY <1>7 DEF Write, After, Lands
  <2>2. write.row \in Created /\ Kept(write.row) \in Row
    BY <1>2, <1>7, KeptIsFresh DEF WriteSound
  <2>3. Kept(write.row) \in Stored /\ Kept(write.row) # Absent
    BY <2>2, ServerAssumption DEF Stored
  <2>4. plan.op \in {"create", "action"} /\ (plan.op = "create" => Grants(Scope(m), write.row.data))
    BY <1>2, <1>7 DEF Carries
  <2>5. plan.op = "create" => Grants(Scope(m), Kept(write.row).data)
    BY <2>2, <2>4, KeptIsGranted DEF Setting
  <2>6. DOMAIN Only(id, Kept(write.row)) = {id} /\ Only(id, Kept(write.row))[id] = Kept(write.row)
    BY <1>2, <2>2, SmallRows
  <2>7. Right(plan, Only(id, Kept(write.row)), Scope(m), raced')
    BY <2>4, <2>5, <2>6 DEF Right
  <2> QED  BY <1>1, <1>2, <2>1, <2>3, <2>7, TellLands
<1>8. CASE Write(m) /\ SourceVerdict(write) = "ok" /\ write.op = "delete"
  <2>1. Lands(m, Absent)
    BY <1>8 DEF Write, After
  <2>2. plan.op # "patch"
    BY <1>2, <1>8 DEF Carries
  <2>3. Right(plan, NoRows, Scope(m), raced') /\ Absent \in Stored
    BY <2>2, NoRowsRight DEF Stored
  <2> QED  BY <1>1, <1>2, <2>1, <2>3, TellLands
<1> QED  BY <1>2, <1>3, <1>4, <1>5, <1>6, <1>7, <1>8

LEMMA TellEnds ==
  ASSUME ServerInv, AllAnswering, NEW m \in Msgs,
         Written(m) \/ ImplWrites(m) \/ ImplReturns(m) \/ ImplFails(m)
  PROVE  AllAnswering'
<1> DEFINE req == requests[m]
           plan == Plan(m)
<1>1. world' = world /\ raced' = raced /\ req.phase \in {"written", "impl", "impl_wrote"}
  BY DEF Written, ImplWrites, ImplReturns, ImplFails, Phase, ghosts
<1>2. /\ HasParts(req) /\ Answering(req, Scope(m), world.source, raced)
  BY DEF AllAnswering, ServerInv, Handler
<1>3. CASE Written(m)
  <2>1. /\ Answer(m, Data(req.rows)) /\ req.rows \in RowSets
        /\ Right(plan, req.rows, Scope(m), raced)
    BY <1>2, <1>3 DEF Written, Phase, Answering, Plan
  <2> QED  BY <1>1, <2>1, AnswerForm, TellsOn
<1>4. CASE ImplWrites(m)
  <2> DEFINE new == [req EXCEPT !.phase = "impl_wrote"]
  <2>1. requests' = [Landed(m, plan.id) EXCEPT ![m] = new] /\ req.phase = "impl"
    BY <1>4 DEF ImplWrites, Landed, Phase
  <2>2. /\ new.plans = req.plans /\ new.at = req.at /\ new.phase = "impl_wrote"
        /\ new.write = req.write /\ new.rows = req.rows /\ new.results = req.results
    BY <1>2 DEF HasParts, HandlerParts
  <2> HIDE DEF new
  <2>3. OpFits(plan.op, "impl_wrote") /\ "impl_wrote" \in Phases
    BY <1>2, <2>1 DEF Answering, OpFits, Phases, Plan
  <2>4. Answering(new, Scope(m), world.source, raced)
    BY <1>2, <2>1, <2>2, <2>3 DEF Answering, Plan
  <2> QED  BY <1>1, <2>1, <2>4, TellWriteStep
<1>5. CASE ImplReturns(m)
  <2>1. plan.op = "action" /\ req.rows = NoRows /\ Goes(m, "written")
    BY <1>2, <1>5 DEF ImplReturns, Phase, Answering, OpFits, Plan
  <2>2. OpFits(plan.op, "written") /\ "written" \in Phases
    BY <2>1 DEF OpFits, Phases
  <2>3. Right(plan, NoRows, Scope(m), raced)
    BY <2>1, NoRowsRight
  <2> QED  BY <1>1, <2>1, <2>2, <2>3, PassesOn
<1>6. CASE ImplFails(m)
  <2>1. PICK code \in Codes : Answer(m, Failure(code))
    BY <1>6 DEF ImplFails, Codes
  <2> QED  BY <1>1, <2>1, Fails
<1> QED  BY <1>3, <1>4, <1>5, <1>6

----------------------------------------------------------------------------
(* The store and the ghosts hold what they are said to hold.               *)

Winners == [base: Int, by: Msgs \X Nat]
StateTypes ==
  /\ world \in Worlds /\ announced \in [Ids -> Stored] /\ silent \in BOOLEAN
  /\ won \in [Ids -> SUBSET Winners] /\ raced \subseteq Ids /\ torn \subseteq Ids

LEMMA TypesStart == Init => StateTypes
BY ServerAssumption DEF Init, StateTypes

\* A write that lands: its record, and the versions it was checked against.
LEMMA LandsTyped ==
  ASSUME ServerInv, StateTypes, NEW m \in Msgs, NEW row, requests[m].write.id \in Ids,
         IsWrite(requests[m].write), requests[m].at \in Nat, Lands(m, row)
  PROVE  StateTypes'
<1> DEFINE write == requests[m].write
           id == write.id
<1>1. /\ world' = world /\ announced' = announced /\ silent' = silent
      /\ raced' \subseteq raced \cup {id} /\ torn' \subseteq torn \cup {id}
  BY DEF Lands
<1>2. won' \in [Ids -> SUBSET Winners]
  <2>1. won[id] \in SUBSET Winners
    BY DEF StateTypes
  <2>2. write.op = "patch" => write.base \in {Absent} \cup Int
    BY DEF IsWrite
  <2>3. PICK history \in SUBSET Winners : won' = [won EXCEPT ![id] = history]
    <3>1. CASE write.op # "patch"
      BY <3>1 DEF Lands
    <3>2. CASE write.op = "patch" /\ write.base # Absent
      <4> DEFINE new == [base |-> write.base, by |-> <<m, requests[m].at>>]
      <4>1. won' = [won EXCEPT ![id] = won[id] \cup {new}]
        BY <3>2 DEF Lands
      <4>2. new \in Winners
        BY <2>2, <3>2 DEF Winners
      <4> HIDE DEF new
      <4> QED  BY <2>1, <4>1, <4>2
    <3>3. CASE write.op = "patch" /\ write.base = Absent
      <4>1. won' = [won EXCEPT ![id] = won[id]]
        BY <3>3 DEF Lands
      <4> QED  BY <2>1, <4>1
    <3> QED  BY <3>1, <3>2, <3>3
  <2> QED  BY <2>3 DEF StateTypes
<1> QED  BY <1>1, <1>2 DEF StateTypes

LEMMA TypesStep ==
  ASSUME ServerInv, AllAnswering, StateTypes, [Next]_vars
  PROVE  StateTypes'
<1>1. CASE UNCHANGED vars
  BY <1>1 DEF vars, StateTypes
<1>2. ASSUME NEW m \in Msgs,
             Post(m) \/ Turned(m) \/ Context(m) \/ Begin(m) \/ AccessFails(m)
             \/ StartRead(m) \/ StartNamed(m) \/ StartCreate(m) \/ StartUpdate(m)
             \/ Find(m) \/ Scan(m) \/ Named(m) \/ Current(m)
      PROVE  StateTypes'
  <2>1. UNCHANGED <<world, store, ghosts>>
    BY <1>2 DEF Post, Turned, Context, Begin, AccessFails, StartRead, StartNamed, StartCreate,
                StartUpdate, Find, Scan, Named, Current
  <2> QED  BY <2>1 DEF ghosts, StateTypes
<1>3. ASSUME NEW m \in Msgs, Written(m) \/ ImplWrites(m) \/ ImplReturns(m) \/ ImplFails(m)
      PROVE  StateTypes'
  <2>1. /\ UNCHANGED <<world, won, raced, torn>> /\ announced' \in {announced, store}
        /\ silent' \in {silent, FALSE, silent \/ Phase(m, "impl_wrote")}
    BY <1>3 DEF Written, ImplWrites, ImplReturns, ImplFails, ghosts
  <2>2. silent' \in BOOLEAN
    BY <2>1 DEF StateTypes, Phase
  <2> QED  BY <2>1, <2>2 DEF StateTypes, ServerInv
<1>4. ASSUME NEW m \in Msgs, Write(m) \/ Set(m)
      PROVE  StateTypes'
  <2>1. /\ requests[m].write.id \in Ids /\ IsWrite(requests[m].write)
    BY <1>4 DEF Write, Set, Phase, ServerInv, Handler, WriteSound, AllAnswering, Answering
  <2>4. requests[m].at \in Nat
    <3>1. requests[m].plans \in Batches /\ requests[m].at \in DOMAIN requests[m].plans
      BY <1>4 DEF Write, Set, Phase, ServerInv, Handler, AtPlan
    <3> QED  BY <3>1, PlanOfBatch
  <2>2. CASE \E row : Lands(m, row)
    BY <2>1, <2>2, <2>4, LandsTyped
  <2>3. CASE ~\E row : Lands(m, row)
    <3>1. Write(m)
      BY <1>4, <2>3 DEF Set
    <3>2. /\ UNCHANGED <<world, announced, silent, won, torn>>
          /\ raced' \in {raced, raced \cup {requests[m].write.id}}
      BY <2>3, <3>1 DEF Write, ghosts
    <3> QED  BY <2>1, <3>2 DEF StateTypes
  <2> QED  BY <2>2, <2>3
<1>5. CASE AllDone
  BY <1>1, <1>5 DEF AllDone
<1> QED  BY <1>1, <1>2, <1>3, <1>4, <1>5 DEF Next

\* What SQLite keeps stays within its columns.
LEMMA TypedStarts == Init => TypedStore
<1> SUFFICES ASSUME Init, ScopesAreReadable, world.source = "sqlite",
                    NEW id \in Ids, store[id] # Absent
             PROVE  HoldsAll(ColumnType, store[id].data)
  BY DEF TypedStore
<1>1. \E type \in [Fields -> Types] : ColumnsAre(type)
  BY DEF ScopesAreReadable, Init
<1>2. ColumnsAre(ColumnType)
  BY <1>1 DEF ColumnType
<1> QED  BY <1>2 DEF ColumnsAre, Init

LEMMA TypedKept ==
  ASSUME NEW type \in [Fields -> Types], NEW row \in Created, HoldsAll(type, row.data)
  PROVE  HoldsAll(type, Kept(row).data)
<1> SUFFICES ASSUME NEW fd \in Fields, Kept(row).data[fd] # Absent
             PROVE  Kept(row).data[fd] \in ColumnOf(type[fd])
  BY DEF HoldsAll
<1>1. row \in Row /\ row.data[fd] \in Values
  BY CreatedRows DEF Row
<1>2. ASSUME NEW v \in Values
      PROVE  CoerceField(Column(v).type, ToStored(Column(v))) = Column(v)
  <2>1. Column(v) \in Scalars
    BY StorageAssumption DEF Column, Values
  <2>2. Column(v) # Absent /\ Column(v) \in [type: Types, at: Int]
    BY <2>1, ScalarsAssumption
  <2> QED  BY <2>1, <2>2 DEF CoerceField, ToStored
<1>3. Kept(row).data[fd] \in {row.data[fd], Column(row.data[fd])}
  BY <1>1, <1>2 DEF Kept, Row
<1>4. Null \in ColumnOf(type[fd])
  BY StorageAssumption, NullScalar DEF ColumnOf
<1>5. row.data[fd] # Absent => row.data[fd] \in ColumnOf(type[fd])
  BY DEF HoldsAll
<1> QED  BY <1>3, <1>4, <1>5 DEF Column

LEMMA TypedMerge ==
  ASSUME NEW type \in [Fields -> Types], ColumnsAre(type), NEW data, HoldsAll(type, data),
         NEW change \in Changing
  PROVE  HoldsAll(type, Merge(data, change))
BY DEF HoldsAll, Merge, ColumnsAre

LEMMA WorldStays ==
  ASSUME [Next]_vars
  PROVE  world' = world
<1>1. CASE UNCHANGED vars
  BY <1>1 DEF vars
<1>2. CASE AllDone
  BY <1>2 DEF AllDone, vars
<1>3. ASSUME NEW m \in Msgs,
             \/ Post(m) \/ Turned(m) \/ Context(m) \/ Begin(m) \/ AccessFails(m)
             \/ StartRead(m) \/ StartNamed(m) \/ StartCreate(m) \/ StartUpdate(m)
      PROVE  world' = world
  BY <1>3 DEF Post, Turned, Context, Begin, AccessFails, StartRead, StartNamed, StartCreate,
              StartUpdate
<1>4. ASSUME NEW m \in Msgs,
             \/ Find(m) \/ Scan(m) \/ Named(m)
             \/ Current(m) \/ Write(m) \/ Set(m) \/ Written(m)
             \/ ImplWrites(m) \/ ImplReturns(m) \/ ImplFails(m)
      PROVE  world' = world
  BY <1>4 DEF Find, Scan, Named, Current, Write, Set, Lands, Written, ImplWrites, ImplReturns,
              ImplFails
<1> QED  BY <1>1, <1>2, <1>3, <1>4 DEF Next

LEMMA TypedSteps ==
  ASSUME ServerInv, AllAnswering, TypedStore, world \in Worlds, [Next]_vars
  PROVE  TypedStore'
<1>1. world' = world
  BY WorldStays
<1> SUFFICES ASSUME ScopesAreReadable, world.source = "sqlite",
                    NEW id \in Ids, store'[id] # Absent
             PROVE  HoldsAll(ColumnType, store'[id].data)
  BY <1>1 DEF TypedStore
<1>2. ColumnType \in [Fields -> Types] /\ ColumnsAre(ColumnType)
  <2>1. \E type \in [Fields -> Types] : ColumnsAre(type)
    BY DEF ScopesAreReadable
  <2> QED  BY <2>1 DEF ColumnType
<1>3. store[id] # Absent => HoldsAll(ColumnType, store[id].data)
  BY DEF TypedStore
<1>4. CASE store' = store
  BY <1>3, <1>4
<1>5. ASSUME NEW row, HoldsAll(ColumnType, row.data) \/ row = Absent,
             NEW other \in Ids, store' = [store EXCEPT ![other] = row]
      PROVE  HoldsAll(ColumnType, store'[id].data)
  BY <1>3, <1>5 DEF ServerInv
<1> HIDE DEF ColumnType
<1>6. ASSUME NEW m \in Msgs, Write(m) PROVE HoldsAll(ColumnType, store'[id].data)
  <2> DEFINE write == requests[m].write
             row == store[write.id]
  <2>1. WriteSound(requests[m], store, world)
    BY <1>6 DEF Write, Phase, ServerInv, Handler
  <2>2. CASE store' # store
    <3>1. Lands(m, After(write))
      BY <1>6, <2>2 DEF Write, ghosts
    <3>2. store' = [store EXCEPT ![write.id] = After(write)] /\ write.id \in Ids
      BY <2>1, <3>1 DEF Lands, WriteSound
    <3>3. CASE write.op = "create"
      <4>1. write.row \in Created /\ HoldsAll(ColumnType, write.row.data)
        BY <1>2, <2>1, <3>3 DEF WriteSound, ColumnsAre
      <4>2. HoldsAll(ColumnType, Kept(write.row).data)
        BY <1>2, <4>1, TypedKept
      <4> QED  BY <1>5, <3>2, <3>3, <4>2 DEF After
    <3>4. CASE write.op = "delete"
      BY <1>5, <3>2, <3>4 DEF After
    <3>5. CASE write.op = "patch"
      <4>1. After(write) = Patched(row, write) /\ write.change \in Changing
        BY <2>1, <3>5 DEF After, WriteSound
      <4>2. row # Absent => HoldsAll(ColumnType, Merge(row.data, write.change))
        BY <1>2, <2>1, <4>1, TypedMerge DEF TypedStore, WriteSound
      <4>3. HoldsAll(ColumnType, After(write).data) \/ After(write) = Absent
        BY <4>1, <4>2 DEF Patched
      <4> QED  BY <1>5, <3>2, <4>3
    <3> QED  BY <2>1, <3>3, <3>4, <3>5 DEF WriteSound
  <2> QED  BY <1>4, <2>2
<1>7. ASSUME NEW m \in Msgs, ImplWrites(m) PROVE HoldsAll(ColumnType, store'[id].data)
  <2> DEFINE plan == Plan(m)
             row == store[plan.id]
             change == Impls[plan.action]
             after == [data |-> Merge(row.data, change), version |-> row.version + 1]
  <2>1. row # Absent /\ store' = [store EXCEPT ![plan.id] = after] /\ requests[m].phase = "impl"
    BY <1>7 DEF ImplWrites, Phase
  <2>2. plan.op = "action" /\ plan.action \in DOMAIN Impls /\ change # Absent /\ IsPlan(plan)
    BY <2>1, PlanAt DEF ServerInv, Handler, AtPlan, Plan
  <2>3. plan.id \in Ids /\ change \in Changing
    BY <2>2 DEF IsPlan, IsReadPlan, IsWritePlan, Changing, ByImpls
  <2>4. HoldsAll(ColumnType, Merge(row.data, change))
    BY <1>2, <2>1, <2>3, TypedMerge DEF TypedStore
  <2> QED  BY <1>5, <2>1, <2>3, <2>4
<1>8. ASSUME NEW m \in Msgs, Set(m) PROVE HoldsAll(ColumnType, store'[id].data)
  BY <1>8 DEF Set, Phase, AllAnswering, Answering
<1> QED
  <2>1. \/ store' = store
        \/ \E m \in Msgs : Write(m) \/ Set(m) \/ ImplWrites(m)
    <3>1. CASE UNCHANGED vars
      BY <3>1 DEF vars
    <3>2. CASE AllDone
      BY <3>2 DEF AllDone, vars
    <3>3. ASSUME NEW m \in Msgs,
                 \/ Post(m) \/ Turned(m) \/ Context(m) \/ Begin(m) \/ AccessFails(m)
                 \/ StartRead(m) \/ StartNamed(m) \/ StartCreate(m) \/ StartUpdate(m)
          PROVE  store' = store
      BY <3>3 DEF Post, Turned, Context, Begin, AccessFails, StartRead, StartNamed, StartCreate,
                  StartUpdate
    <3>4. ASSUME NEW m \in Msgs,
                 \/ Find(m) \/ Scan(m) \/ Named(m) \/ Current(m) \/ Written(m)
                 \/ ImplReturns(m) \/ ImplFails(m)
          PROVE  store' = store
      BY <3>4 DEF Find, Scan, Named, Current, Written, ImplReturns, ImplFails
    <3> QED  BY <3>1, <3>2, <3>3, <3>4 DEF Next
  <2> QED  BY <1>4, <1>6, <1>7, <1>8, <2>1

----------------------------------------------------------------------------
(* What the answers of every execution are.                                *)

AnsweringInv == ServerInv /\ AllAnswering /\ StateTypes /\ TypedStore

LEMMA AnsweringStarts == Init => AnsweringInv
<1> SUFFICES ASSUME Init PROVE AllAnswering
  BY ServerStarts, TypesStart, TypedStarts DEF AnsweringInv
<1>1. /\ <<>> \in Seq(Answers) /\ Len(<<>>) = 0 /\ DOMAIN <<>> = {}
      /\ IsWrite(NoWrite) /\ NoRows \in RowSets /\ "waiting" \in Phases
  BY SmallRows DEF IsWrite, NoWrite, Phases
<1>2. ASSUME NEW m \in Msgs PROVE requests[m] = Idle
  BY DEF Init
<1>3. /\ Idle.at = 1 /\ Idle.phase = "waiting" /\ Idle.write = NoWrite /\ Idle.rows = NoRows
      /\ Idle.results = <<>>
  BY DEF Idle
<1>4. \A op : OpFits(op, "waiting")
  BY DEF OpFits
<1>5. \A scope, source, lost : Answering(Idle, scope, source, lost)
  BY <1>1, <1>3, <1>4 DEF Answering
<1> QED  BY <1>2, <1>5 DEF AllAnswering

LEMMA AnsweringSteps ==
  ASSUME AnsweringInv, [Next]_vars
  PROVE  AnsweringInv'
<1> USE DEF AnsweringInv
<1>1. ServerInv' /\ StateTypes'
  BY ServerSteps, TypesStep
<1>2. TypedStore'
  BY TypedSteps DEF StateTypes
<1>3. AllAnswering'
  <2>1. CASE UNCHANGED vars
    BY <2>1 DEF vars, AllAnswering, Scope
  <2>2. CASE \E m \in Msgs : Post(m) \/ Turned(m) \/ Context(m)
    BY <2>2, TellArrivals
  <2>3. CASE \E m \in Msgs : \/ Begin(m) \/ AccessFails(m) \/ StartRead(m) \/ StartNamed(m)
                             \/ StartCreate(m) \/ StartUpdate(m)
    BY <2>3, TellStarts
  <2>4. CASE \E m \in Msgs : Find(m) \/ Scan(m) \/ Named(m)
    BY <2>4, TellReads DEF Setting, StateTypes
  <2>5. CASE \E m \in Msgs : Current(m)
    BY <2>5, TellDecides
  <2>6. CASE \E m \in Msgs : Write(m) \/ Set(m)
    BY <2>6, TellWrites DEF Setting, StateTypes
  <2>7. CASE \E m \in Msgs : Written(m) \/ ImplWrites(m) \/ ImplReturns(m) \/ ImplFails(m)
    BY <2>7, TellEnds
  <2>8. CASE AllDone
    BY <2>1, <2>8 DEF AllDone
  <2> QED  BY <2>1, <2>2, <2>3, <2>4, <2>5, <2>6, <2>7, <2>8 DEF Next
<1> QED  BY <1>1, <1>2, <1>3

\* What is answered is a result of the protocol.
LEMMA AnswersForm ==
  ASSUME NEW result \in Answers
  PROVE  IsResult(result) /\ (~result.ok => DOMAIN result.rows = {})
<1>1. /\ result.ok \in BOOLEAN /\ result.rows \in RowSets
      /\ IF result.ok THEN result.code = "ok" ELSE result.code \in Codes /\ result.rows = NoRows
  BY DEF Answers
<1>2. IsRows(result.rows)
  BY <1>1, RowsForm DEF IsRows
<1> QED  BY <1>1, <1>2, SmallRows DEF IsResult

LEMMA TypesHold == AnsweringInv => ServerTypeOK
<1> SUFFICES ASSUME AnsweringInv PROVE ServerTypeOK
  OBVIOUS
<1>1. ASSUME NEW m \in Msgs
      PROVE  LET req == requests[m]
             IN /\ req.phase \in Phases
                /\ req.phase \notin {"waiting", "context", "done"} => req.at \in DOMAIN req.plans
                /\ IsWrite(req.write) /\ IsRows(req.rows)
                /\ req.phase \in {"write", "merge"} => req.write.op # "none"
                /\ req.phase = "merge" => req.current \in Row /\ req.write.op = "patch"
                /\ req.late \in BOOLEAN /\ req.torn \in BOOLEAN
                /\ \A i \in DOMAIN req.results : IsResult(req.results[i])
  <2> DEFINE req == requests[m]
  <2>1. Handler(req, store, world) /\ Answering(req, Scope(m), world.source, raced)
    BY DEF AnsweringInv, ServerInv, AllAnswering
  <2>2. /\ req.phase \notin {"waiting", "context", "done"} => req.at \in DOMAIN req.plans
        /\ req.phase = "merge" => req.current \in Row /\ req.write.op = "patch"
        /\ req.late \in BOOLEAN /\ req.torn \in BOOLEAN
        /\ req.phase \in {"write", "merge"} => req.write.op # "none"
    BY <2>1 DEF Handler, AtPlan, WriteSound
  <2>3. /\ req.phase \in Phases /\ IsWrite(req.write) /\ req.rows \in RowSets
        /\ req.results \in Seq(Answers)
    BY <2>1 DEF Answering
  <2>4. IsRows(req.rows)
    BY <2>3, RowsForm DEF IsRows
  <2>5. \A i \in DOMAIN req.results : IsResult(req.results[i])
    BY <2>3, AnswersForm
  <2> QED  BY <2>2, <2>3, <2>4, <2>5
<1>2. /\ world \in Worlds /\ store \in [Ids -> Stored] /\ announced \in [Ids -> Stored]
      /\ silent \in BOOLEAN
      /\ (\A id \in Ids : won[id] \subseteq [base: Int, by: Msgs \X Nat])
      /\ raced \subseteq Ids /\ torn \subseteq Ids
  BY DEF AnsweringInv, ServerInv, StateTypes, Winners
<1> QED  BY <1>1, <1>2 DEF ServerTypeOK

LEMMA AcknowledgementsHold == AnsweringInv => AcknowledgedLanded
<1> SUFFICES ASSUME AnsweringInv, NEW m \in Msgs, NEW i \in DOMAIN requests[m].results,
                    requests[m].plans[i].op = "patch", requests[m].results[i].ok
             PROVE  IF requests[m].plans[i].id \in DOMAIN requests[m].results[i].rows
                    THEN \A fd \in DOMAIN Known(requests[m].plans[i].patch) :
                           requests[m].results[i].rows[requests[m].plans[i].id].data[fd]
                             = requests[m].plans[i].patch[fd]
                    ELSE requests[m].plans[i].id \in raced
  BY DEF AcknowledgedLanded
<1>1. Right(requests[m].plans[i], requests[m].results[i].rows, Scope(m), raced)
  BY DEF AnsweringInv, AllAnswering, Answering
<1> QED  BY <1>1 DEF Right

\* A scope that is readable grants what meets it.
LEMMA GrantsMean ==
  ASSUME ScopesAreReadable, world \in Worlds, NEW m \in Msgs, Scope(m) # Absent,
         NEW data \in [Fields -> Values], Grants(Scope(m), data)
  PROVE  MeetsAll(data, Scope(m))
<1> SUFFICES ASSUME NEW fd \in DOMAIN Scope(m) PROVE Meets(data[fd], Scope(m)[fd])
  BY DEF MeetsAll
<1>1. Scope(m)[fd] \in FieldFilters /\ fd \in Fields
  BY ServerAssumption DEF IsWorld, Scope, IsWhereFilter
<1>2. Plain(Scope(m)[fd])
  BY DEF ScopesAreReadable, Scope
<1>3. Matches(data[fd], Normalize(Scope(m)[fd]))
  BY DEF Grants, MatchesFilter
<1> QED  BY <1>1, <1>2, <1>3, NormalizeExact

LEMMA ScopesHold == ScopesAreReadable /\ AnsweringInv => AnswersInScope
<1> SUFFICES ASSUME ScopesAreReadable, AnsweringInv, NEW m \in Msgs,
                    NEW i \in DOMAIN requests[m].results,
                    NEW id \in DOMAIN requests[m].results[i].rows
             PROVE  \/ Scope(m) = Absent
                    \/ MeetsAll(requests[m].results[i].rows[id].data, Scope(m))
                    \/ requests[m].plans[i].op = "patch" /\ id \in raced
                    \/ requests[m].plans[i].op = "action"
  BY DEF AnswersInScope
<1> DEFINE result == requests[m].results[i]
           plan == requests[m].plans[i]
<1>1. /\ requests[m].results \in Seq(Answers)
      /\ result.ok => Right(plan, result.rows, Scope(m), raced)
  BY DEF AnsweringInv, AllAnswering, Answering
<1>2. result \in Answers
  BY <1>1
<1>3. IsResult(result) /\ result.ok
  BY <1>2, AnswersForm
<1>4. result.rows[id].data \in [Fields -> Values]
  BY <1>3 DEF IsResult, IsRows, Row
<1>5. ASSUME NEW rows, NEW shown \in DOMAIN rows, Right(plan, rows, Scope(m), raced)
      PROVE  \/ Grants(Scope(m), rows[shown].data)
             \/ plan.op = "patch" /\ shown \in raced
             \/ plan.op = "action"
  BY <1>5 DEF Right
<1>6. world \in Worlds
  BY DEF AnsweringInv, StateTypes
<1>7. \/ Grants(Scope(m), result.rows[id].data)
      \/ plan.op = "patch" /\ id \in raced
      \/ plan.op = "action"
  BY <1>1, <1>3, <1>5
<1> QED  BY <1>4, <1>6, <1>7, GrantsMean

\* Every handler is in a phase its plan has, with a write exactly where one is
\* under way, and every answer carries a code of the protocol or rows
\* (ServerTypeOK).
THEOREM ServerKeepsTypes == Spec => []ServerTypeOK
<1>1. AnsweringInv /\ [Next]_vars => AnsweringInv'
  BY AnsweringSteps
<1> QED  BY <1>1, AnsweringStarts, TypesHold, PTL DEF Spec

\* An update that is answered as done is in the record it is answered with; it
\* is answered null only if a racing request deleted the record
\* (AcknowledgedLanded): applyPatch answers what backbone.update returned.
THEOREM UpdatesLand == Spec => []AcknowledgedLanded
<1>1. AnsweringInv /\ [Next]_vars => AnsweringInv'
  BY AnsweringSteps
<1> QED  BY <1>1, AnsweringStarts, AcknowledgementsHold, PTL DEF Spec

\* No answer holds a row outside the scope of its caller (AnswersInScope),
\* whatever source the rows come from and whoever writes between the look at a
\* record and the answer, provided the scopes mean what they plainly say: the
\* filter is intersected with the scope before the source sees it, one record
\* is checked after it was read, a write before it is made.
THEOREM AnswersStayInScope ==
  ASSUME ScopesAreReadable
  PROVE  Spec => []AnswersInScope
<1>1. AnsweringInv /\ [Next]_vars => AnsweringInv'
  BY AnsweringSteps
<1>2. AnsweringInv => AnswersInScope
  BY ScopesHold
<1> QED  BY <1>1, <1>2, AnsweringStarts, PTL DEF Spec
----------------------------------------------------------------------------
(* A search finds what was meant.                                          *)

\* A condition that names no null is met by a missing field where it is met
\* by null.
LEMMA NullMeetsAsMissing ==
  ASSUME NEW f \in FieldFilters, NamesNoNull(f)
  PROVE  Meets(Null, f) <=> Meets(Absent, f)
<1>1. \A x \in Comparable : x # Null /\ x # Absent /\ ~Less(x, Null) /\ ~Less(Null, x)
  BY ScalarsAssumption, NullScalar DEF Comparable, Less
<1>2. /\ f.gt \in {Absent} \cup Comparable /\ f.gte \in {Absent} \cup Comparable
      /\ f.lt \in {Absent} \cup Comparable /\ f.lte \in {Absent} \cup Comparable
      /\ f.in # Absent => Absent \notin f.in
  BY ScalarsAssumption DEF FieldFilters
<1>3. Null # Absent
  BY StorageAssumption, NullScalar
<1> QED  BY <1>1, <1>2, <1>3 DEF Meets, NamesNoNull, NullNotListed

\* What a source decides on one field, missing or not, is what the condition
\* says.
LEMMA FieldExact ==
  ASSUME NEW source \in Sources, NEW v \in Values, NEW f \in FieldFilters, Plain(f),
         source \in Databases => NamesNoNull(f),
         source = "sqlite" => Fits(Column(v), f)
  PROVE  SourceMatches(source, v, f) <=> Meets(v, f)
<1>1. Null \in Scalars /\ Null # Absent /\ Column(Null) = Null /\ Column(Absent) = Null
  BY StorageAssumption, NullScalar DEF Column
<1>2. \A u \in Scalars : u # Absent /\ Column(u) = u
  BY NullScalar DEF Column
<1>3. ASSUME NEW u \in Scalars, source \in Sql, source = "sqlite" => Fits(u, f)
      PROVE  SourceMatches(source, u, f) <=> Meets(u, f)
  <2>1. NullNotListed(f)
    BY <1>3 DEF Databases, NamesNoNull
  <2>2. CASE source = "sqlite"
    BY <1>2, <1>3, <2>1, <2>2, SqliteExact DEF SourceMatches
  <2>3. CASE source \in {"drizzle", "prisma"}
    BY <1>2, <2>1, <2>3, SqlExact DEF SourceMatches
  <2> QED  BY <1>3, <2>2, <2>3 DEF Sql
<1>4. CASE source \in Sql
  <2>1. CASE v \in Scalars
    BY <1>2, <1>3, <1>4, <2>1
  <2>2. CASE v = Absent
    <3>1. SourceMatches(source, v, f) <=> SourceMatches(source, Null, f)
      BY <1>1, <1>4, <2>2 DEF SourceMatches, Sql
    <3>2. SourceMatches(source, Null, f) <=> Meets(Null, f)
      BY <1>1, <1>3, <1>4, <2>2
    <3> QED  BY <1>4, <2>2, <3>1, <3>2, NullMeetsAsMissing DEF Databases
  <2> QED  BY <2>1, <2>2 DEF Values
<1>5. CASE source = "mongo"
  <2>1. CASE v \in Scalars
    BY <1>5, <2>1, MongoExact DEF SourceMatches
  <2>2. CASE v = Absent
    <3>1. f.eq # Null /\ (f.in # Absent => Null \notin f.in /\ Absent \notin f.in)
      BY <1>5, ScalarsAssumption DEF Databases, NamesNoNull, NullNotListed, FieldFilters
    <3> QED  BY <1>5, <2>2, <3>1 DEF SourceMatches, MongoMatches, Meets
  <2> QED  BY <2>1, <2>2 DEF Values
<1>6. CASE source \in {"memory", "redis", "stripe"}
  BY <1>6, NormalizeExact DEF SourceMatches
<1> QED  BY <1>4, <1>5, <1>6 DEF Sources, Databases, Local

\* One field of a query narrowed by a scope: still a plain condition, which
\* names nothing that neither of the two names.
LEMMA NarrowedForm ==
  ASSUME NEW query, NEW granted, IsWhereFilter(query), IsWhereFilter(granted),
         \A fd \in DOMAIN query : Plain(query[fd]),
         \A fd \in DOMAIN granted : Plain(granted[fd]),
         IntersectFilters(query, granted) # Absent,
         NEW fd \in DOMAIN IntersectFilters(query, granted)
  PROVE  LET f == IntersectFilters(query, granted)[fd]
         IN /\ fd \in Fields /\ f \in FieldFilters /\ Plain(f)
            /\ \A T : /\ fd \in DOMAIN query => NamesWithin(T, query[fd])
                      /\ fd \in DOMAIN granted => NamesWithin(T, granted[fd])
                      => NamesWithin(T, f)
<1> DEFINE both == IntersectConditions(Normalize(query[fd]), Normalize(granted[fd]))
           f == IntersectFilters(query, granted)[fd]
<1>1. /\ fd \in DOMAIN query \cup DOMAIN granted
      /\ fd \in DOMAIN query \cap DOMAIN granted => f = Denormalize(both)
      /\ fd \in DOMAIN query \ DOMAIN granted => f = query[fd]
      /\ fd \in DOMAIN granted \ DOMAIN query => f = granted[fd]
  BY DEF IntersectFilters
<1>2. /\ fd \in Fields
      /\ fd \in DOMAIN query => query[fd] \in FieldFilters
      /\ fd \in DOMAIN granted => granted[fd] \in FieldFilters
  BY <1>1 DEF IsWhereFilter
<1> HIDE DEF f
<1>3. CASE fd \in DOMAIN query \cap DOMAIN granted
  <2> DEFINE a == Normalize(query[fd])
             b == Normalize(granted[fd])
  <2>1. a \in Conditions /\ Canonical(a) /\ b \in Conditions /\ Canonical(b)
    BY <1>2, <1>3, NormalizeCanonical
  <2>2. both \in Conditions
    <3>1. Absent \in Values
      BY DEF Values
    <3> HIDE DEF a, b
    <3> QED  BY <2>1, <3>1, IntersectConditionsExact DEF a, b
  <2>3. ASSUME NEW T, NamesWithin(T, query[fd]), NamesWithin(T, granted[fd])
        PROVE  Within(T, both)
    <3>1. Within(T, a) /\ Within(T, b)
      BY <1>2, <1>3, <2>3, NormalizeWithin
    <3> HIDE DEF a, b
    <3> QED  BY <2>1, <3>1, IntersectWithin DEF a, b
  <2> HIDE DEF a, b, both
  <2> QED  BY <1>1, <1>2, <1>3, <2>2, <2>3, DenormalizeForm DEF f
<1>4. CASE fd \in DOMAIN query \ DOMAIN granted
  BY <1>1, <1>2, <1>4 DEF f
<1>5. CASE fd \in DOMAIN granted \ DOMAIN query
  BY <1>1, <1>2, <1>5 DEF f
<1> QED  BY <1>1, <1>3, <1>4, <1>5

\* A filter of comparable bounds, and what it says of a row.
LEMMA FilterExact ==
  ASSUME NEW filter, IsWhereFilter(filter), NEW row \in [Fields -> Values],
         \A fd \in DOMAIN filter : Plain(filter[fd])
  PROVE  MatchesFilter(row, filter) <=> MeetsAll(row, filter)
<1>1. \A fd \in DOMAIN filter : /\ filter[fd] \in FieldFilters /\ row[fd] \in Values
  BY DEF IsWhereFilter
<1>2. \A fd \in DOMAIN filter : Matches(row[fd], Normalize(filter[fd])) <=> Meets(row[fd], filter[fd])
  BY <1>1, NormalizeExact
<1> QED  BY <1>2 DEF MatchesFilter, MeetsAll

\* The source finds for a query, narrowed by what its caller is granted,
\* exactly the rows that meet both.
LEMMA SearchExact ==
  ASSUME NEW source \in Sources, NEW query, NEW granted, IsWhereFilter(query),
         IsWhereFilter(granted), Combinable(query, granted), NEW row \in [Fields -> Values],
         \A fd \in DOMAIN query : /\ Plain(query[fd])
                                  /\ source \in Databases => NamesNoNull(query[fd]),
         \A fd \in DOMAIN granted : /\ Plain(granted[fd])
                                    /\ source \in Databases => NamesNoNull(granted[fd]),
         source = "sqlite" => \E type \in [Fields -> Types] :
           /\ \A fd \in Fields : row[fd] # Absent => row[fd] \in ColumnOf(type[fd])
           /\ \A fd \in DOMAIN query : NamesWithin(ColumnOf(type[fd]), query[fd])
           /\ \A fd \in DOMAIN granted : NamesWithin(ColumnOf(type[fd]), granted[fd]),
         IntersectFilters(query, granted) # Absent
  PROVE  SourceFinds(source, row, IntersectFilters(query, granted))
           <=> MeetsAll(row, query) /\ MeetsAll(row, granted)
<1> DEFINE narrowed == IntersectFilters(query, granted)
<1>1. ASSUME NEW fd \in DOMAIN narrowed
      PROVE  /\ fd \in Fields /\ narrowed[fd] \in FieldFilters /\ Plain(narrowed[fd])
             /\ source \in Databases => NamesNoNull(narrowed[fd])
             /\ source = "sqlite" => Fits(Column(row[fd]), narrowed[fd])
  <2> DEFINE f == narrowed[fd]
             NotNull == {x \in Scalars : x # Null}
  <2>1. /\ fd \in Fields /\ f \in FieldFilters /\ Plain(f)
        /\ \A T : /\ fd \in DOMAIN query => NamesWithin(T, query[fd])
                  /\ fd \in DOMAIN granted => NamesWithin(T, granted[fd])
                  => NamesWithin(T, f)
    BY NarrowedForm
  <2>2. row[fd] \in Values /\ Null # Absent
    BY <2>1, NullScalar, StorageAssumption
  <2>3. \A g \in FieldFilters : NamesNoNull(g) => NamesWithin(NotNull, g)
    <3> SUFFICES ASSUME NEW g \in FieldFilters, NamesNoNull(g) PROVE NamesWithin(NotNull, g)
      OBVIOUS
    <3>1. \A x \in Comparable : x \in NotNull
      BY NullScalar DEF Comparable
    <3>2. /\ {g.gt, g.gte, g.lt, g.lte} \subseteq {Absent} \cup Comparable
          /\ g.eq \in Values /\ g.in \in {Absent} \cup SUBSET Scalars
      BY DEF FieldFilters
    <3>3. g.eq # Absent => g.eq \in NotNull
      BY <3>2 DEF NamesNoNull, Values
    <3>4. g.in # Absent => g.in \subseteq NotNull
      BY <3>2 DEF NamesNoNull, NullNotListed
    <3> HIDE DEF NotNull
    <3> QED  BY <3>1, <3>2, <3>3, <3>4 DEF NamesWithin
  <2>4. /\ fd \in DOMAIN query => query[fd] \in FieldFilters
        /\ fd \in DOMAIN granted => granted[fd] \in FieldFilters
    BY DEF IsWhereFilter
  <2>5. source \in Databases => NamesNoNull(f)
    <3> SUFFICES ASSUME source \in Databases PROVE NamesNoNull(f)
      OBVIOUS
    <3>1. NamesWithin(NotNull, f)
      BY <2>1, <2>3, <2>4
    <3> QED  BY <2>2, <3>1 DEF NamesWithin, NamesNoNull, NullNotListed
  <2>6. source = "sqlite" => Fits(Column(row[fd]), f)
    <3> SUFFICES ASSUME source = "sqlite" PROVE Fits(Column(row[fd]), f)
      OBVIOUS
    <3>1. PICK type \in [Fields -> Types] :
            /\ row[fd] # Absent => row[fd] \in ColumnOf(type[fd])
            /\ fd \in DOMAIN query => NamesWithin(ColumnOf(type[fd]), query[fd])
            /\ fd \in DOMAIN granted => NamesWithin(ColumnOf(type[fd]), granted[fd])
      BY <2>1
    <3>2. NamesWithin(ColumnOf(type[fd]), f)
      BY <2>1, <3>1
    <3> HIDE DEF f
    <3> QED  BY <2>1, <2>2, <3>1, <3>2, ColumnFits
  <2> QED  BY <2>1, <2>5, <2>6
<1>2. /\ IsWhereFilter(narrowed) /\ \A fd \in DOMAIN narrowed : row[fd] \in Values
  <2>1. narrowed = [fd \in DOMAIN narrowed |-> narrowed[fd]]
    BY DEF IntersectFilters
  <2> HIDE DEF narrowed
  <2> QED  BY <1>1, <2>1 DEF IsWhereFilter
<1>3. IntersectFilters(query, granted) # Absent
  OBVIOUS
<1>4. MatchesFilter(row, narrowed) <=> MatchesFilter(row, query) /\ MatchesFilter(row, granted)
  BY <1>3, IntersectExact
<1> HIDE DEF narrowed
<1>5. \A fd \in DOMAIN narrowed :
        SourceMatches(source, row[fd], narrowed[fd]) <=> Meets(row[fd], narrowed[fd])
  BY <1>1, <1>2, FieldExact
<1>6. SourceFinds(source, row, narrowed) <=> MeetsAll(row, narrowed)
  BY <1>5 DEF SourceFinds, MeetsAll
<1>7. /\ MatchesFilter(row, narrowed) <=> MeetsAll(row, narrowed)
      /\ MatchesFilter(row, query) <=> MeetsAll(row, query)
      /\ MatchesFilter(row, granted) <=> MeetsAll(row, granted)
  BY <1>1, <1>2, FilterExact
<1> QED  BY <1>4, <1>6, <1>7 DEF narrowed

\* The same without a scope.
LEMMA PlainSearchExact ==
  ASSUME NEW source \in Sources, NEW query, IsWhereFilter(query), NEW row \in [Fields -> Values],
         \A fd \in DOMAIN query : /\ Plain(query[fd])
                                  /\ source \in Databases => NamesNoNull(query[fd]),
         source = "sqlite" => \E type \in [Fields -> Types] :
           /\ \A fd \in Fields : row[fd] # Absent => row[fd] \in ColumnOf(type[fd])
           /\ \A fd \in DOMAIN query : NamesWithin(ColumnOf(type[fd]), query[fd])
  PROVE  SourceFinds(source, row, query) <=> MeetsAll(row, query)
<1>1. ASSUME NEW fd \in DOMAIN query
      PROVE  SourceMatches(source, row[fd], query[fd]) <=> Meets(row[fd], query[fd])
  <2>1. fd \in Fields /\ row[fd] \in Values /\ query[fd] \in FieldFilters
    BY DEF IsWhereFilter
  <2>2. source = "sqlite" => Fits(Column(row[fd]), query[fd])
    BY <2>1, ColumnFits
  <2> QED  BY <2>1, <2>2, FieldExact
<1> QED  BY <1>1 DEF SourceFinds, MeetsAll

LEMMA FoundIsExact ==
  ASSUME ScopesAreReadable, QueriesAreReadable, AnsweringInv, NEW m \in Msgs,
         requests[m].phase = "find", Plan(m).op = "where"
  PROVE  LET found == Finds(Existing, ScopedFilter(m, Plan(m).filter))
         IN /\ DOMAIN found = Meant(m)
            /\ \A id \in DOMAIN found : found[id] = store[id]
<1> DEFINE plan == Plan(m)
           query == plan.filter
           granted == Scope(m)
           source == world.source
           filter == ScopedFilter(m, query)
           found == Finds(Existing, filter)
<1>1. /\ DOMAIN Existing = {id \in Ids : store[id] # Absent}
      /\ \A id \in DOMAIN Existing : Existing[id] = store[id]
  BY DEF Existing
<1>2. IsPlan(plan) /\ plan \in AllPlans /\ world \in Worlds
  BY PlanAt DEF AnsweringInv, StateTypes
<1>3. IsWhereFilter(query)
  BY <1>2 DEF IsPlan, IsReadPlan, IsWritePlan
<1>4. source \in Sources /\ (granted # Absent => IsWhereFilter(granted))
  BY <1>2, ServerAssumption DEF IsWorld, Scope
<1>5. /\ \A fd \in DOMAIN query : /\ Plain(query[fd])
                                  /\ source \in Databases => NamesNoNull(query[fd])
      /\ granted # Absent => Combinable(query, granted)
  BY <1>2 DEF QueriesAreReadable, Scope
<1>6. granted # Absent =>
        \A fd \in DOMAIN granted : /\ Plain(granted[fd])
                                   /\ source \in Databases => NamesNoNull(granted[fd])
  BY <1>2 DEF ScopesAreReadable, Scope
<1>7. granted # Absent => IntersectFilters(query, granted) # Absent
  <2>1. Answering(requests[m], Scope(m), world.source, raced)
    BY DEF AnsweringInv, AllAnswering
  <2> QED  BY <2>1 DEF Answering, Askable, Plan
<1>8. ASSUME NEW id \in DOMAIN Existing
      PROVE  SourceFinds(source, store[id].data, filter) <=>
               /\ MeetsAll(store[id].data, query)
               /\ granted = Absent \/ MeetsAll(store[id].data, granted)
  <2> DEFINE row == store[id].data
  <2>1. row \in [Fields -> Values]
    BY <1>1 DEF AnsweringInv, ServerInv, Stored, Row
  <2>2. source = "sqlite" =>
          /\ ColumnType \in [Fields -> Types] /\ HoldsAll(ColumnType, row)
          /\ NamesOnly(ColumnType, query)
          /\ granted # Absent => NamesOnly(ColumnType, granted)
    <3> SUFFICES ASSUME source = "sqlite"
                 PROVE  /\ ColumnType \in [Fields -> Types] /\ HoldsAll(ColumnType, row)
                        /\ NamesOnly(ColumnType, query)
                        /\ granted # Absent => NamesOnly(ColumnType, granted)
      OBVIOUS
    <3>1. ColumnType \in [Fields -> Types] /\ ColumnsAre(ColumnType)
      <4>1. \E type \in [Fields -> Types] : ColumnsAre(type)
        BY <1>2 DEF ScopesAreReadable
      <4> QED  BY <4>1 DEF ColumnType
    <3>2. NamesOnly(ColumnType, query) /\ (granted # Absent => NamesOnly(ColumnType, granted))
      BY <1>2, <3>1 DEF ColumnsAre, Scope
    <3>3. HoldsAll(ColumnType, row)
      BY <1>1 DEF AnsweringInv, TypedStore
    <3> QED  BY <3>1, <3>2, <3>3
  <2>3. filter = IF granted = Absent THEN query ELSE IntersectFilters(query, granted)
    BY DEF ScopedFilter
  <2> HIDE DEF row, query, granted, source, filter
  <2>4. source = "sqlite" => \E type \in [Fields -> Types] :
          /\ \A fd \in Fields : row[fd] # Absent => row[fd] \in ColumnOf(type[fd])
          /\ \A fd \in DOMAIN query : NamesWithin(ColumnOf(type[fd]), query[fd])
          /\ granted # Absent =>
               \A fd \in DOMAIN granted : NamesWithin(ColumnOf(type[fd]), granted[fd])
    BY <2>2 DEF HoldsAll, NamesOnly
  <2>5. CASE granted = Absent
    BY <1>3, <1>4, <1>5, <2>1, <2>3, <2>4, <2>5, PlainSearchExact DEF row
  <2>6. CASE granted # Absent
    BY <1>3, <1>4, <1>5, <1>6, <1>7, <2>1, <2>3, <2>4, <2>6, SearchExact DEF row
  <2> QED  BY <2>5, <2>6
<1>9. /\ DOMAIN found = {id \in DOMAIN Existing : SourceFinds(source, Existing[id].data, filter)}
      /\ \A id \in DOMAIN found : found[id] = Existing[id]
  BY DEF Finds
<1> HIDE DEF filter, found
<1>10. DOMAIN found = Meant(m)
  BY <1>1, <1>8, <1>9 DEF Meant
<1> QED  BY <1>1, <1>9, <1>10 DEF found, filter

\* The rows of a window: all of them without a limit, and none left out that
\* was due before one shown.
LEMMA WindowShows ==
  ASSUME IsFiniteSet(Ids), NEW plan, NEW rows, DOMAIN rows \subseteq Ids,
         \A id \in DOMAIN rows : rows[id] = store[id],
         NEW shown \in Windows(plan, rows)
  PROVE  /\ shown \subseteq DOMAIN rows
         /\ plan.limit = Absent => shown = DOMAIN rows
         /\ plan.order # Absent => \A a \in DOMAIN rows \ shown, b \in shown : ~Due(plan, a, b)
<1>1. shown \subseteq DOMAIN rows
  BY DEF Windows
<1>2. ASSUME plan.limit = Absent PROVE shown = DOMAIN rows
  <2>1. IsFiniteSet(DOMAIN rows)
    BY FS_Subset
  <2>2. Cardinality(shown) = Cardinality(DOMAIN rows)
    BY <1>2 DEF Windows
  <2> QED  BY <1>1, <2>1, <2>2, FS_Subset
<1>3. ASSUME plan.order # Absent, NEW a \in DOMAIN rows \ shown, NEW b \in shown
      PROVE  ~Due(plan, a, b)
  <2>1. ~SortedBefore(world.source, plan.order.direction,
                      rows[a].data[plan.order.field], rows[b].data[plan.order.field])
    BY <1>3 DEF Windows
  <2>2. rows[a] = store[a] /\ rows[b] = store[b]
    BY <1>1, <1>3
  <2>3. \A direction, x, y : ~Nullish(x) /\ ~Nullish(y) /\ ComesBefore(direction, x, y)
          => SortedBefore(world.source, direction, x, y)
    BY DEF SortedBefore
  <2> QED  BY <2>1, <2>2, <2>3 DEF Due
<1> QED  BY <1>1, <1>2, <1>3

LEMMA SearchFinds ==
  ASSUME IsFiniteSet(Ids), ScopesAreReadable, QueriesAreReadable, AnsweringInv,
         NEW m \in Msgs, Find(m)
  PROVE  FindsMeant(m)
<1> DEFINE plan == Plan(m)
           result == requests'[m].results[Len(requests'[m].results)]
           found == Finds(Existing, ScopedFilter(m, plan.filter))
<1> SUFFICES ASSUME requests'[m].phase \in {"plan", "done"}, plan.op = "where", result.ok
             PROVE  /\ DOMAIN result.rows \subseteq Meant(m)
                    /\ \A id \in DOMAIN result.rows : result.rows[id] = store[id]
                    /\ plan.limit = Absent => DOMAIN result.rows = Meant(m)
                    /\ plan.order # Absent =>
                         \A a \in Meant(m) \ DOMAIN result.rows, b \in DOMAIN result.rows :
                           ~Due(plan, a, b)
  BY DEF FindsMeant
<1>1. requests[m].phase = "find"
  BY DEF Find, Phase
<1>2. /\ DOMAIN found = Meant(m) /\ \A id \in DOMAIN found : found[id] = store[id]
  BY <1>1, FoundIsExact
<1>3. /\ requests = [k \in Msgs |-> requests[k]] /\ HasParts(requests[m])
      /\ requests[m].results \in Seq(Answers)
  BY DEF AnsweringInv, ServerInv, Handler, AllAnswering, Answering
<1>4. ASSUME NEW answer, Answer(m, answer)
      PROVE  result = answer
  <2> DEFINE req == requests[m]
             new == Answered(req, answer)
  <2>1. requests'[m] = new
    BY <1>3, <1>4 DEF Answer
  <2>2. new.results = Append(req.results, answer)
    BY <1>3 DEF Answered, Cleared, HasParts, HandlerParts
  <2> QED  BY <1>3, <2>1, <2>2
<1>5. ~Answer(m, Failure("unsupported"))
  <2>1. Failure("unsupported").ok = FALSE
    BY DEF Failure
  <2> QED  BY <1>4, <2>1
<1>6. WhereAnswered(m, Existing)
  <2>1. CASE requests' = [requests EXCEPT ![m].phase = "scan",
                            ![m].keys = {id \in Ids : store[id] # Absent}]
    <3> DEFINE new == [requests[m] EXCEPT !.phase = "scan",
                                          !.keys = {id \in Ids : store[id] # Absent}]
    <3>1. requests'[m] = new
      BY <1>3, <2>1
    <3>2. new.phase = "scan"
      BY <1>3 DEF HasParts, HandlerParts
    <3> QED  BY <3>1, <3>2
  <2> QED  BY <1>5, <2>1 DEF Find
<1>7. PICK shown \in Windows(plan, found) :
        Answer(m, ReadResult(m, [id \in shown |-> found[id]]))
  BY <1>6 DEF WhereAnswered
<1>8. /\ shown \subseteq DOMAIN found
      /\ plan.limit = Absent => shown = DOMAIN found
      /\ plan.order # Absent => \A a \in DOMAIN found \ shown, b \in shown : ~Due(plan, a, b)
  <2>1. DOMAIN found \subseteq Ids
    BY <1>2 DEF Meant
  <2> HIDE DEF found
  <2> QED  BY <1>2, <1>7, <2>1, WindowShows
<1> DEFINE rows == [id \in shown |-> found[id]]
<1>9. result = Data(rows)
  <2>1. ReadResult(m, rows) \in {Failure("result_limit"), Data(rows)}
    BY DEF ReadResult
  <2>2. Failure("result_limit").ok = FALSE
    BY DEF Failure
  <2> QED  BY <1>4, <1>7, <2>1, <2>2
<1>10. result.rows = rows /\ DOMAIN rows = shown /\ \A id \in shown : rows[id] = found[id]
  BY <1>9 DEF Data
<1> HIDE DEF rows, found, result
<1>11. \A id \in shown : rows[id] = store[id]
  BY <1>2, <1>8, <1>10
<1> QED  BY <1>2, <1>8, <1>10, <1>11

\* No other step answers a plan that is searched for.
LEMMA SearchWaits ==
  ASSUME AnsweringInv, [Next]_vars, NEW m \in Msgs, requests[m].phase = "find", ~Find(m)
  PROVE  requests'[m].phase = "find"
<1>1. ServerInv
  BY DEF AnsweringInv
<1>2. CASE UNCHANGED vars \/ AllDone
  BY <1>2 DEF AllDone, vars
<1>3. ASSUME NEW k \in Msgs, k # m, OthersStay(k)
      PROVE  requests'[m].phase = "find"
  BY <1>3 DEF OthersStay
<1>4. ASSUME NEW k \in Msgs,
             Post(k) \/ Turned(k) \/ Context(k) \/ Begin(k) \/ AccessFails(k)
             \/ StartRead(k) \/ StartNamed(k) \/ StartCreate(k) \/ StartUpdate(k)
             \/ Find(k) \/ Scan(k) \/ Named(k) \/ Current(k) \/ Written(k)
             \/ ImplReturns(k) \/ ImplFails(k)
      PROVE  requests'[m].phase = "find"
  <2>1. k # m
    BY <1>4 DEF Phase, Post, Turned, Context, Begin, AccessFails, StartRead, StartNamed,
                StartCreate, StartUpdate, Scan, Named, Current, Written, ImplReturns, ImplFails
  <2>2. \/ \E result : Answer(k, result)
        \/ \E phase : Goes(k, phase)
        \/ \E new : requests' = [requests EXCEPT ![k] = new]
    <3>1. CASE Post(k) \/ Turned(k) \/ Context(k) \/ Begin(k) \/ AccessFails(k)
      BY <3>1 DEF Post, Turned, Context, Begin, AccessFails
    <3>2. CASE StartRead(k) \/ StartNamed(k)
      BY <3>2 DEF StartRead, StartNamed
    <3>3. CASE StartCreate(k)
      BY <3>3 DEF StartCreate
    <3>4. CASE StartUpdate(k)
      BY <3>4 DEF StartUpdate
    <3>5. CASE Find(k) \/ Scan(k) \/ Named(k)
      BY <3>5 DEF Find, Scan, Named, WhereAnswered
    <3>6. CASE Current(k)
      BY <3>6 DEF Current, ApplyPatch, ApplyDelete, ApplyAction, Lower
    <3>7. CASE Written(k) \/ ImplReturns(k) \/ ImplFails(k)
      BY <3>7 DEF Written, ImplReturns, ImplFails
    <3> QED  BY <1>4, <3>1, <3>2, <3>3, <3>4, <3>5, <3>6, <3>7
  <2>3. OthersStay(k)
    BY <1>1, <2>2, AnswerStays, GoesStays DEF ServerInv, OthersStay
  <2> QED  BY <1>3, <2>1, <2>3
<1>5. ASSUME NEW k \in Msgs, Write(k) \/ Set(k) PROVE requests'[m].phase = "find"
  <2>1. k # m
    BY <1>5 DEF Write, Set, Phase
  <2>2. CASE \E row : Lands(k, row)
    <3>1. PICK row : Lands(k, row)
      BY <2>2
    <3> DEFINE new == [requests[k] EXCEPT !.phase = "written",
                         !.rows = IF row = Absent THEN NoRows ELSE Only(requests[k].write.id, row)]
    <3>2. requests' = [Landed(k, requests[k].write.id) EXCEPT ![k] = new]
      BY <3>1 DEF Lands, Landed
    <3> HIDE DEF new
    <3> QED  BY <1>1, <1>3, <2>1, <3>2, LandedStays
  <2>3. CASE ~\E row : Lands(k, row)
    <3>1. Write(k)
      BY <1>5, <2>3 DEF Set
    <3>2. (\E result : Answer(k, result)) \/ (\E new : requests' = [requests EXCEPT ![k] = new])
      BY <2>3, <3>1 DEF Write
    <3>3. OthersStay(k)
      BY <1>1, <3>2, AnswerStays DEF ServerInv, OthersStay
    <3> QED  BY <1>3, <2>1, <3>3
  <2> QED  BY <2>2, <2>3
<1>6. ASSUME NEW k \in Msgs, ImplWrites(k) PROVE requests'[m].phase = "find"
  <2>1. k # m
    BY <1>6 DEF ImplWrites, Phase
  <2> DEFINE new == [requests[k] EXCEPT !.phase = "impl_wrote"]
  <2>2. requests' = [Landed(k, Plan(k).id) EXCEPT ![k] = new]
    BY <1>6 DEF ImplWrites, Landed
  <2> HIDE DEF new
  <2> QED  BY <1>1, <1>3, <2>1, <2>2, LandedStays
<1> QED  BY <1>2, <1>4, <1>5, <1>6 DEF Next

\* What a search answers is what its query and scope plainly mean (handleRead
\* over every adapter's find): the premise names the filters for which that is
\* so, and a source holds finitely many records.
THEOREM SearchesFindWhatIsMeant ==
  IsFiniteSet(Ids) /\ ScopesAreReadable /\ QueriesAreReadable => (Spec => FoundIsMeant)
<1> SUFFICES ASSUME IsFiniteSet(Ids) /\ ScopesAreReadable /\ QueriesAreReadable
             PROVE  Spec => FoundIsMeant
  OBVIOUS
<1>1. ASSUME AnsweringInv, [Next]_vars, NEW m \in Msgs PROVE FindsMeant(m)
  <2>1. CASE requests[m].phase = "find" /\ Find(m)
    BY <1>1, <2>1, SearchFinds
  <2>2. CASE requests[m].phase = "find" /\ ~Find(m)
    <3>1. requests'[m].phase = "find"
      BY <1>1, <2>2, SearchWaits
    <3> QED  BY <3>1 DEF FindsMeant
  <2>3. CASE requests[m].phase # "find"
    BY <2>3 DEF FindsMeant
  <2> QED  BY <2>1, <2>2, <2>3
<1>2. AnsweringInv /\ [Next]_vars => [\A m \in Msgs : FindsMeant(m)]_vars
  BY <1>1
<1>3. Init => AnsweringInv
  BY AnsweringStarts
<1>4. AnsweringInv /\ [Next]_vars => AnsweringInv'
  BY AnsweringSteps
<1> QED  BY <1>2, <1>3, <1>4, PTL DEF Spec, FoundIsMeant

=============================================================================
