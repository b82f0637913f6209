--------------------------- MODULE FilterAlgebra ---------------------------
(***************************************************************************)
(* The wire filter language (plan/filters.ts): equality, membership and    *)
(* ranges over scalar fields.  One algebra decides which records match,    *)
(* whether a synced set contains another, and how an access scope narrows  *)
(* a query.                                                                *)
(*                                                                         *)
(* A scalar is its type and its place in the order of that type.  Strings  *)
(* that read as numbers are left out: JavaScript would order them among    *)
(* the numbers.  The list of `in` is a set, and a scalar standing for a    *)
(* field filter is the filter that has only `eq`.                          *)
(***************************************************************************)
EXTENDS Integers

CONSTANTS
  Scalars,     \* the scalars of filters and records
  Fields,      \* the fields of a record
  Absent       \* JavaScript's undefined

Types == {"number", "string", "boolean", "null"}

ASSUME ScalarsAssumption ==
  /\ Scalars \subseteq [type: Types, at: Int]
  /\ Absent \notin Scalars
  /\ \A S \in SUBSET Scalars : Absent # S

Null == [type |-> "null", at |-> 0]
Comparable == {v \in Scalars : v.type \in {"number", "string"}}
Values == {Absent} \cup Scalars       \* what a field of a record holds

Bounds == [value: Comparable, exclusive: BOOLEAN]

ASSUME BoundsAssumption == Absent \notin Bounds

\* FieldFilterSchema; the parts that are not given are Absent.
FieldFilters ==
  [eq: Values, in: {Absent} \cup SUBSET Scalars,
   gt: {Absent} \cup Comparable, gte: {Absent} \cup Comparable,
   lt: {Absent} \cup Comparable, lte: {Absent} \cup Comparable]

\* A field condition in canonical form.
Conditions ==
  [unsatisfiable: BOOLEAN, eq: Values, in: {Absent} \cup SUBSET Scalars,
   lower: {Absent} \cup Bounds, upper: {Absent} \cup Bounds]

\* Absent is no filter.
ASSUME FilterAssumption == \A D \in SUBSET Fields : Absent \notin [D -> FieldFilters]

\* WhereFilterSchema: some fields with their filters.
IsWhereFilter(filter) ==
  DOMAIN filter \subseteq Fields /\ filter \in [DOMAIN filter -> FieldFilters]

NoFieldFilter == [eq |-> Absent, in |-> Absent, gt |-> Absent, gte |-> Absent,
                  lt |-> Absent, lte |-> Absent]

Unrestricted == [unsatisfiable |-> FALSE, eq |-> Absent, in |-> Absent,
                 lower |-> Absent, upper |-> Absent]
Unsatisfiable == [Unrestricted EXCEPT !.unsatisfiable = TRUE]
Exactly(v) == [Unrestricted EXCEPT !.eq = v]
OneOf(S) ==
  CASE S = {} -> Unsatisfiable
    [] \E v \in S : S = {v} -> Exactly(CHOOSE v \in S : TRUE)
    [] OTHER -> [Unrestricted EXCEPT !.in = S]

----------------------------------------------------------------------------
\* a < b: JavaScript's comparison is false between a number and a string.
Less(a, b) == a.type = b.type /\ a.at < b.at

TighterLower(a, b) ==
  CASE a = Absent -> b
    [] a # Absent /\ a.value = b.value -> IF a.exclusive THEN a ELSE b
    [] OTHER -> IF Less(b.value, a.value) THEN a ELSE b

TighterUpper(a, b) ==
  CASE a = Absent -> b
    [] a # Absent /\ a.value = b.value -> IF a.exclusive THEN a ELSE b
    [] OTHER -> IF Less(a.value, b.value) THEN a ELSE b

\* The range part of matchesCondition: a bound admits only its own type.
AboveLower(v, lower) ==
  lower # Absent =>
    /\ v # Absent
    /\ Less(lower.value, v) \/ (v = lower.value /\ ~lower.exclusive)
BelowUpper(v, upper) ==
  upper # Absent =>
    /\ v # Absent
    /\ Less(v, upper.value) \/ (v = upper.value /\ ~upper.exclusive)
InRange(v, c) == AboveLower(v, c.lower) /\ BelowUpper(v, c.upper)

\* matchesCondition: an equality decides alone.
Matches(v, c) ==
  /\ ~c.unsatisfiable
  /\ IF c.eq # Absent THEN v = c.eq
     ELSE (c.in # Absent => v \in c.in) /\ InRange(v, c)

\* simplifyParts: a condition with neither eq nor in.
SimplifyRange(c) ==
  LET lower == c.lower
      upper == c.upper
      both == lower # Absent /\ upper # Absent
  IN CASE both /\ Less(upper.value, lower.value) -> Unsatisfiable
       [] both /\ lower.value = upper.value ->
            IF lower.exclusive \/ upper.exclusive
            THEN Unsatisfiable ELSE Exactly(lower.value)
       [] OTHER -> c

Simplify(c) ==
  CASE c.unsatisfiable -> Unsatisfiable
    [] ~c.unsatisfiable /\ c.eq # Absent ->
         IF Matches(c.eq, [c EXCEPT !.eq = Absent])
         THEN Exactly(c.eq) ELSE Unsatisfiable
    [] ~c.unsatisfiable /\ c.eq = Absent /\ c.in # Absent ->
         OneOf({v \in c.in : InRange(v, c)})
    [] OTHER -> SimplifyRange(c)

Bound(v, exclusive) ==
  IF v = Absent THEN Absent ELSE [value |-> v, exclusive |-> exclusive]

Normalize(f) ==
  Simplify([unsatisfiable |-> FALSE, eq |-> f.eq, in |-> f.in,
            lower |-> IF f.gt = Absent THEN Bound(f.gte, FALSE)
                      ELSE TighterLower(Bound(f.gte, FALSE), Bound(f.gt, TRUE)),
            upper |-> IF f.lt = Absent THEN Bound(f.lte, FALSE)
                      ELSE TighterUpper(Bound(f.lte, FALSE), Bound(f.lt, TRUE))])

MatchesFilter(row, filter) ==
  \A fd \in DOMAIN filter : Matches(row[fd], Normalize(filter[fd]))

----------------------------------------------------------------------------
\* a ?? b: null counts as absent.
Coalesce(a, b) == IF a \notin {Absent, Null} THEN a ELSE b

IntersectConditions(a, b) ==
  IF \/ a.unsatisfiable \/ b.unsatisfiable
     \/ a.eq # Absent /\ b.eq # Absent /\ a.eq # b.eq
  THEN Unsatisfiable
  ELSE Simplify(
         [unsatisfiable |-> FALSE,
          eq |-> Coalesce(a.eq, b.eq),
          in |-> CASE a.in = Absent -> b.in
                   [] a.in # Absent /\ b.in = Absent -> a.in
                   [] OTHER -> a.in \cap b.in,
          lower |-> IF b.lower = Absent THEN a.lower ELSE TighterLower(a.lower, b.lower),
          upper |-> IF b.upper = Absent THEN a.upper ELSE TighterUpper(a.upper, b.upper)])

\* Mutant: an exclusive bound comes back inclusive.
Bug_InclusiveBounds(c) ==
  LET Part(bound) == IF bound # Absent THEN bound.value ELSE Absent
  IN IF c.eq # Absent THEN [NoFieldFilter EXCEPT !.eq = c.eq]
     ELSE [NoFieldFilter EXCEPT !.in = c.in, !.gte = Part(c.lower), !.lte = Part(c.upper)]

\* denormalize, of a condition that is satisfiable.
Denormalize(c) ==
  LET Part(bound, exclusive) ==
        IF bound # Absent /\ bound.exclusive = exclusive THEN bound.value ELSE Absent
  IN IF c.eq # Absent THEN [NoFieldFilter EXCEPT !.eq = c.eq]
     ELSE [eq |-> Absent, in |-> c.in,
           gt |-> Part(c.lower, TRUE), gte |-> Part(c.lower, FALSE),
           lt |-> Part(c.upper, TRUE), lte |-> Part(c.upper, FALSE)]

\* intersectFilters: the combined filter, or Absent when provably empty.
IntersectFilters(a, b) ==
  LET shared == DOMAIN a \cap DOMAIN b
      both == [fd \in shared |-> IntersectConditions(Normalize(a[fd]), Normalize(b[fd]))]
  IN IF \E fd \in shared : both[fd].unsatisfiable THEN Absent
     ELSE [fd \in DOMAIN a \cup DOMAIN b |->
             CASE fd \in shared -> Denormalize(both[fd])
               [] fd \in DOMAIN a \ DOMAIN b -> a[fd]
               [] OTHER -> b[fd]]

----------------------------------------------------------------------------
\* conditionSubsumes: an interval is only subsumed by a wider interval.
WiderLower(coarse, fine) ==
  coarse # Absent =>
    /\ fine # Absent
    /\ fine.value.type = coarse.value.type
    /\ ~Less(fine.value, coarse.value)
    /\ fine.value = coarse.value /\ coarse.exclusive => fine.exclusive
WiderUpper(coarse, fine) ==
  coarse # Absent =>
    /\ fine # Absent
    /\ fine.value.type = coarse.value.type
    /\ ~Less(coarse.value, fine.value)
    /\ fine.value = coarse.value /\ coarse.exclusive => fine.exclusive

ConditionSubsumes(coarse, fine) ==
  \/ fine.unsatisfiable
  \/ /\ ~fine.unsatisfiable /\ ~coarse.unsatisfiable
     /\ CASE fine.eq # Absent -> Matches(fine.eq, coarse)
          [] fine.eq = Absent /\ fine.in # Absent -> \A v \in fine.in : Matches(v, coarse)
          [] OTHER -> /\ coarse.eq = Absent /\ coarse.in = Absent
                      /\ WiderLower(coarse.lower, fine.lower)
                      /\ WiderUpper(coarse.upper, fine.upper)

\* filterSubsumes: does every record matching fine match coarse?
FilterSubsumes(coarse, fine) ==
  \A fd \in DOMAIN coarse :
    fd \in DOMAIN fine /\ ConditionSubsumes(Normalize(coarse[fd]), Normalize(fine[fd]))

----------------------------------------------------------------------------
(* The meaning of a filter, part by part.                                  *)

Meets(v, f) ==
  /\ f.eq # Absent => v = f.eq
  /\ f.in # Absent => v \in f.in
  /\ f.gt # Absent => v # Absent /\ Less(f.gt, v)
  /\ f.gte # Absent => v # Absent /\ (Less(f.gte, v) \/ v = f.gte)
  /\ f.lt # Absent => v # Absent /\ Less(v, f.lt)
  /\ f.lte # Absent => v # Absent /\ (Less(v, f.lte) \/ v = f.lte)

MeetsAll(row, filter) == \A fd \in DOMAIN filter : Meets(row[fd], filter[fd])

\* Where a field has two bounds of one side they are of one type.  The code
\* keeps only one of a number and a string.
Plain(f) ==
  /\ f.gt # Absent /\ f.gte # Absent => f.gt.type = f.gte.type
  /\ f.lt # Absent /\ f.lte # Absent => f.lt.type = f.lte.type

\* The scalars a filter names are all of T.
NamesWithin(T, f) ==
  /\ \A x \in {f.eq, f.gt, f.gte, f.lt, f.lte} : x # Absent => x \in T
  /\ f.in # Absent => f.in \subseteq T

\* Two bounds of one side are comparable.
OneKind(a, b) == a # Absent /\ b # Absent => a.value.type = b.value.type

\* Two filters the algebra intersects without loss: no null equality in the
\* first, and bounds of one side of one type.
Combinable(a, b) ==
  \A fd \in DOMAIN a \cap DOMAIN b :
    /\ Normalize(a[fd]).eq # Null
    /\ OneKind(Normalize(a[fd]).lower, Normalize(b[fd]).lower)
    /\ OneKind(Normalize(a[fd]).upper, Normalize(b[fd]).upper)
=============================================================================
