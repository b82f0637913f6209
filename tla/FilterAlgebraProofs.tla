------------------------ MODULE FilterAlgebraProofs ------------------------
(***************************************************************************)
(* The filter algebra for every set of scalars: subsumption is sound and   *)
(* transitive, and the canonical form of a field filter keeps its meaning. *)
(***************************************************************************)
EXTENDS FilterAlgebra, TLAPS

\* Scalars are told apart by their type and their place in its order.
LEMMA ScalarEquality ==
  ASSUME NEW a \in Scalars, NEW b \in Scalars
  PROVE  /\ a.type \in Types /\ a.at \in Int
         /\ a = b <=> a.type = b.type /\ a.at = b.at
<1>1. a \in [type: Types, at: Int] /\ b \in [type: Types, at: Int]
  BY ScalarsAssumption
<1> QED  BY <1>1

\* What no scalar, list or bound is.
LEMMA AbsentApart ==
  /\ \A v \in Scalars : v # Absent
  /\ \A S \in SUBSET Scalars : S # Absent
  /\ \A bound \in Bounds : bound # Absent
  /\ Comparable \subseteq Scalars
BY ScalarsAssumption, BoundsAssumption DEF Comparable

----------------------------------------------------------------------------
(* The canonical form is a condition.                                      *)

LEMMA OneOfType == ASSUME NEW S \in SUBSET Scalars PROVE OneOf(S) \in Conditions
<1>1. Unsatisfiable \in Conditions
  BY DEF Unsatisfiable, Unrestricted, Conditions, Values
<1>2. \A v \in Scalars : Exactly(v) \in Conditions
  BY DEF Exactly, Unrestricted, Conditions, Values
<1>3. [Unrestricted EXCEPT !.in = S] \in Conditions
  BY DEF Unrestricted, Conditions, Values
<1>4. \A v \in S : S = {v} => Exactly(CHOOSE w \in S : TRUE) \in Conditions
  BY <1>2
<1> QED  BY <1>1, <1>3, <1>4 DEF OneOf

LEMMA SimplifyType == ASSUME NEW c \in Conditions PROVE Simplify(c) \in Conditions
<1>1. Unsatisfiable \in Conditions
  BY DEF Unsatisfiable, Unrestricted, Conditions, Values
<1>2. \A v \in Scalars : Exactly(v) \in Conditions
  BY DEF Exactly, Unrestricted, Conditions, Values
<1>3. CASE c.unsatisfiable
  BY <1>1, <1>3 DEF Simplify
<1>4. CASE ~c.unsatisfiable /\ c.eq # Absent
  <2>1. c.eq \in Scalars
    BY <1>4 DEF Conditions, Values
  <2> QED  BY <1>1, <1>2, <1>4, <2>1 DEF Simplify
<1>5. CASE ~c.unsatisfiable /\ c.eq = Absent /\ c.in # Absent
  <2>1. {v \in c.in : InRange(v, c)} \in SUBSET Scalars
    BY <1>5 DEF Conditions
  <2> QED  BY <1>5, <2>1, OneOfType DEF Simplify
<1>6. CASE ~c.unsatisfiable /\ c.eq = Absent /\ c.in = Absent
  <2>1. Simplify(c) = SimplifyRange(c)
    BY <1>6 DEF Simplify
  <2>2. c.lower # Absent => c.lower.value \in Scalars
    BY AbsentApart DEF Conditions, Bounds
  <2> QED  BY <1>1, <1>2, <2>1, <2>2 DEF SimplifyRange
<1> QED  BY <1>3, <1>4, <1>5, <1>6 DEF Conditions

\* What Normalize hands to Simplify.
Parts(f) ==
  [unsatisfiable |-> FALSE, eq |-> f.eq, in |-> f.in,
   lower |-> IF f.gt = Absent THEN Bound(f.gte, FALSE)
             ELSE TighterLower(Bound(f.gte, FALSE), Bound(f.gt, TRUE)),
   upper |-> IF f.lt = Absent THEN Bound(f.lte, FALSE)
             ELSE TighterUpper(Bound(f.lte, FALSE), Bound(f.lt, TRUE))]

LEMMA PartsType == ASSUME NEW f \in FieldFilters PROVE Parts(f) \in Conditions
<1>1. \A v \in {Absent} \cup Comparable : \A e \in BOOLEAN :
        Bound(v, e) \in {Absent} \cup Bounds
  BY DEF Bound, Bounds
<1>2. \A a, b \in {Absent} \cup Bounds :
        /\ TighterLower(a, b) \in {Absent} \cup Bounds
        /\ TighterUpper(a, b) \in {Absent} \cup Bounds
  BY DEF TighterLower, TighterUpper
<1>3. /\ f.gt \in {Absent} \cup Comparable /\ f.gte \in {Absent} \cup Comparable
      /\ f.lt \in {Absent} \cup Comparable /\ f.lte \in {Absent} \cup Comparable
      /\ f.eq \in Values /\ f.in \in {Absent} \cup SUBSET Scalars
  BY DEF FieldFilters
<1>4. /\ Parts(f).lower \in {Absent} \cup Bounds
      /\ Parts(f).upper \in {Absent} \cup Bounds
  BY <1>1, <1>2, <1>3 DEF Parts
<1> QED  BY <1>3, <1>4 DEF Parts, Conditions

LEMMA NormalizeType ==
  ASSUME NEW f \in FieldFilters PROVE Normalize(f) \in Conditions
BY PartsType, SimplifyType DEF Normalize, Parts

----------------------------------------------------------------------------
(* Subsumption.                                                            *)

\* A value within the finer interval is within the coarser.
LEMMA WiderSound ==
  ASSUME NEW v \in Values,
         NEW coarse \in {Absent} \cup Bounds, NEW fine \in {Absent} \cup Bounds
  PROVE  /\ WiderLower(coarse, fine) /\ AboveLower(v, fine) => AboveLower(v, coarse)
         /\ WiderUpper(coarse, fine) /\ BelowUpper(v, fine) => BelowUpper(v, coarse)
<1>1. CASE coarse = Absent
  BY <1>1 DEF AboveLower, BelowUpper
<1>2. CASE coarse # Absent /\ fine # Absent /\ v # Absent
  <2>1. /\ coarse.value \in Scalars /\ coarse.exclusive \in BOOLEAN
        /\ fine.value \in Scalars /\ fine.exclusive \in BOOLEAN /\ v \in Scalars
    BY <1>2, AbsentApart DEF Bounds, Values
  <2>2. /\ \A a, b \in {coarse.value, fine.value, v} :
             /\ a.type \in Types /\ a.at \in Int
             /\ a = b <=> a.type = b.type /\ a.at = b.at
    BY <2>1, ScalarEquality
  <2> QED
    BY <1>2, <2>1, <2>2 DEF WiderLower, WiderUpper, AboveLower, BelowUpper, Less
<1>3. CASE coarse # Absent /\ (fine = Absent \/ v = Absent)
  BY <1>3 DEF WiderLower, WiderUpper, AboveLower, BelowUpper
<1> QED  BY <1>1, <1>2, <1>3

LEMMA WiderTransitive ==
  ASSUME NEW a \in {Absent} \cup Bounds, NEW b \in {Absent} \cup Bounds,
         NEW c \in {Absent} \cup Bounds
  PROVE  /\ WiderLower(a, b) /\ WiderLower(b, c) => WiderLower(a, c)
         /\ WiderUpper(a, b) /\ WiderUpper(b, c) => WiderUpper(a, c)
<1>1. CASE a # Absent /\ b # Absent /\ c # Absent
  <2>1. /\ a.value \in Scalars /\ a.exclusive \in BOOLEAN
        /\ b.value \in Scalars /\ b.exclusive \in BOOLEAN
        /\ c.value \in Scalars /\ c.exclusive \in BOOLEAN
    BY <1>1, AbsentApart DEF Bounds
  <2>2. \A x, y \in {a.value, b.value, c.value} :
          /\ x.type \in Types /\ x.at \in Int
          /\ x = y <=> x.type = y.type /\ x.at = y.at
    BY <2>1, ScalarEquality
  <2> QED  BY <1>1, <2>1, <2>2 DEF WiderLower, WiderUpper, Less
<1>2. CASE a = Absent \/ b = Absent \/ c = Absent
  BY <1>2 DEF WiderLower, WiderUpper
<1> QED  BY <1>1, <1>2

LEMMA ConditionSubsumesSound ==
  ASSUME NEW coarse \in Conditions, NEW fine \in Conditions, NEW v \in Values,
         ConditionSubsumes(coarse, fine), Matches(v, fine)
  PROVE  Matches(v, coarse)
<1>1. ~fine.unsatisfiable /\ ~coarse.unsatisfiable
  BY DEF Matches, ConditionSubsumes
<1>2. CASE fine.eq # Absent
  BY <1>1, <1>2 DEF Matches, ConditionSubsumes
<1>3. CASE fine.eq = Absent /\ fine.in # Absent
  <2>1. v \in fine.in
    BY <1>3 DEF Matches
  <2>2. \A w \in fine.in : Matches(w, coarse)
    BY <1>1, <1>3 DEF ConditionSubsumes
  <2> QED  BY <2>1, <2>2
<1>4. CASE fine.eq = Absent /\ fine.in = Absent
  <2>1. /\ coarse.eq = Absent /\ coarse.in = Absent
        /\ WiderLower(coarse.lower, fine.lower) /\ WiderUpper(coarse.upper, fine.upper)
    BY <1>1, <1>4 DEF ConditionSubsumes
  <2>2. AboveLower(v, fine.lower) /\ BelowUpper(v, fine.upper)
    BY <1>4 DEF Matches, InRange
  <2>3. AboveLower(v, coarse.lower) /\ BelowUpper(v, coarse.upper)
    BY <2>1, <2>2, WiderSound DEF Conditions
  <2> QED  BY <1>1, <2>1, <2>3 DEF Matches, InRange
<1> QED  BY <1>2, <1>3, <1>4

LEMMA ConditionSubsumesTransitive ==
  ASSUME NEW a \in Conditions, NEW b \in Conditions, NEW c \in Conditions,
         ConditionSubsumes(a, b), ConditionSubsumes(b, c)
  PROVE  ConditionSubsumes(a, c)
<1>1. CASE c.unsatisfiable
  BY <1>1 DEF ConditionSubsumes
<1>2. CASE ~c.unsatisfiable
  <2>1. ~b.unsatisfiable /\ ~a.unsatisfiable
    BY <1>2 DEF ConditionSubsumes
  <2>2. \A v \in Values : Matches(v, b) => Matches(v, a)
    BY ConditionSubsumesSound
  <2>3. CASE c.eq # Absent
    <3>1. Matches(c.eq, b) /\ c.eq \in Values
      BY <1>2, <2>3 DEF ConditionSubsumes, Conditions
    <3> QED  BY <1>2, <2>1, <2>2, <2>3, <3>1 DEF ConditionSubsumes
  <2>4. CASE c.eq = Absent /\ c.in # Absent
    <3>1. \A v \in c.in : v \in Values /\ Matches(v, b)
      BY <1>2, <2>4 DEF ConditionSubsumes, Conditions, Values
    <3> QED  BY <1>2, <2>1, <2>2, <2>4, <3>1 DEF ConditionSubsumes
  <2>5. CASE c.eq = Absent /\ c.in = Absent
    <3>1. /\ b.eq = Absent /\ b.in = Absent
          /\ WiderLower(b.lower, c.lower) /\ WiderUpper(b.upper, c.upper)
      BY <1>2, <2>5 DEF ConditionSubsumes
    <3>2. /\ a.eq = Absent /\ a.in = Absent
          /\ WiderLower(a.lower, b.lower) /\ WiderUpper(a.upper, b.upper)
      BY <2>1, <3>1 DEF ConditionSubsumes
    <3>3. WiderLower(a.lower, c.lower) /\ WiderUpper(a.upper, c.upper)
      BY <3>1, <3>2, WiderTransitive DEF Conditions
    <3> QED  BY <1>2, <2>1, <2>5, <3>2, <3>3 DEF ConditionSubsumes
  <2> QED  BY <2>3, <2>4, <2>5
<1> QED  BY <1>1, <1>2

\* The proof behind coverage: when filterSubsumes says that one filter
\* contains another, every record that matches the inner matches the outer.
THEOREM SubsumesSound ==
  ASSUME NEW coarse, NEW fine, IsWhereFilter(coarse), IsWhereFilter(fine),
         NEW row \in [Fields -> Values],
         FilterSubsumes(coarse, fine), MatchesFilter(row, fine)
  PROVE  MatchesFilter(row, coarse)
<1> SUFFICES ASSUME NEW fd \in DOMAIN coarse
             PROVE  Matches(row[fd], Normalize(coarse[fd]))
  BY DEF MatchesFilter
<1>1. fd \in DOMAIN fine /\ ConditionSubsumes(Normalize(coarse[fd]), Normalize(fine[fd]))
  BY DEF FilterSubsumes
<1>2. Matches(row[fd], Normalize(fine[fd]))
  BY <1>1 DEF MatchesFilter
<1>3. row[fd] \in Values /\ coarse[fd] \in FieldFilters /\ fine[fd] \in FieldFilters
  BY <1>1 DEF IsWhereFilter
<1> QED  BY <1>1, <1>2, <1>3, NormalizeType, ConditionSubsumesSound

\* A set within a set within a set: what lets markCovered drop an entry
\* that a wider one makes redundant.
THEOREM SubsumesTransitive ==
  ASSUME NEW a, NEW b, NEW c, IsWhereFilter(a), IsWhereFilter(b), IsWhereFilter(c),
         FilterSubsumes(a, b), FilterSubsumes(b, c)
  PROVE  FilterSubsumes(a, c)
<1> SUFFICES ASSUME NEW fd \in DOMAIN a
             PROVE  fd \in DOMAIN c /\ ConditionSubsumes(Normalize(a[fd]), Normalize(c[fd]))
  BY DEF FilterSubsumes
<1>1. fd \in DOMAIN b /\ ConditionSubsumes(Normalize(a[fd]), Normalize(b[fd]))
  BY DEF FilterSubsumes
<1>2. fd \in DOMAIN c /\ ConditionSubsumes(Normalize(b[fd]), Normalize(c[fd]))
  BY <1>1 DEF FilterSubsumes
<1>3. a[fd] \in FieldFilters /\ b[fd] \in FieldFilters /\ c[fd] \in FieldFilters
  BY <1>1, <1>2 DEF IsWhereFilter
<1> QED  BY <1>1, <1>2, <1>3, NormalizeType, ConditionSubsumesTransitive

----------------------------------------------------------------------------
(* The canonical form keeps the meaning of its parts.                      *)

\* Every part of a condition, an equality among them.
Satisfies(v, c) ==
  /\ ~c.unsatisfiable
  /\ c.eq # Absent => v = c.eq
  /\ c.in # Absent => v \in c.in
  /\ InRange(v, c)

\* A condition whose equality stands alone.
Canonical(c) == c.eq # Absent => c.in = Absent /\ c.lower = Absent /\ c.upper = Absent

LEMMA CanonicalMatches ==
  ASSUME NEW c \in Conditions, Canonical(c), NEW v \in Values
  PROVE  Matches(v, c) <=> Satisfies(v, c)
BY DEF Canonical, Matches, Satisfies, InRange, AboveLower, BelowUpper

\* The plain cases: nothing, one value, a list.
LEMMA UnsatisfiableForm ==
  Canonical(Unsatisfiable) /\ \A v \in Values : ~Matches(v, Unsatisfiable)
BY DEF Canonical, Matches, Unsatisfiable, Unrestricted

LEMMA ExactlyForm ==
  ASSUME NEW w \in Scalars
  PROVE  Canonical(Exactly(w)) /\ \A v \in Values : Matches(v, Exactly(w)) <=> v = w
<1>1. w # Absent
  BY AbsentApart
<1> QED  BY <1>1 DEF Canonical, Matches, Exactly, Unrestricted

LEMMA OneOfForm ==
  ASSUME NEW S \in SUBSET Scalars
  PROVE  Canonical(OneOf(S)) /\ \A v \in Values : Matches(v, OneOf(S)) <=> v \in S
<1>1. CASE S = {}
  BY <1>1, UnsatisfiableForm DEF OneOf
<1>2. CASE \E w \in S : S = {w}
  <2>1. PICK w \in S : S = {w}
    BY <1>2
  <2>2. OneOf(S) = Exactly(CHOOSE x \in S : TRUE) /\ (CHOOSE x \in S : TRUE) = w
    BY <2>1 DEF OneOf
  <2>3. Canonical(Exactly(w)) /\ \A v \in Values : Matches(v, Exactly(w)) <=> v = w
    BY ExactlyForm
  <2> QED  BY <2>1, <2>2, <2>3
<1>3. CASE S # {} /\ ~ \E w \in S : S = {w}
  <2>1. OneOf(S) = [Unrestricted EXCEPT !.in = S] /\ S # Absent
    BY <1>3, AbsentApart DEF OneOf
  <2> QED
    BY <2>1 DEF Canonical, Matches, Unrestricted, InRange, AboveLower, BelowUpper
<1> QED  BY <1>1, <1>2, <1>3

\* An interval is empty, a point, or itself.
LEMMA SimplifyRangeExact ==
  ASSUME NEW c \in Conditions, NEW v \in Values,
         ~c.unsatisfiable, c.eq = Absent, c.in = Absent
  PROVE  Canonical(SimplifyRange(c)) /\ (Matches(v, SimplifyRange(c)) <=> InRange(v, c))
<1>1. CASE c.lower # Absent /\ c.upper # Absent
  <2>1. /\ c.lower.value \in Scalars /\ c.lower.exclusive \in BOOLEAN
        /\ c.upper.value \in Scalars /\ c.upper.exclusive \in BOOLEAN
    BY <1>1, AbsentApart DEF Conditions, Bounds
  <2>2. /\ c.lower.value.type \in Types /\ c.lower.value.at \in Int
        /\ c.upper.value.type \in Types /\ c.upper.value.at \in Int
        /\ c.lower.value = c.upper.value <=> /\ c.lower.value.type = c.upper.value.type
                                             /\ c.lower.value.at = c.upper.value.at
    BY <2>1, ScalarEquality
  <2>3. CASE v = Absent
    <3>1. ~InRange(v, c) /\ c.lower.value # v
      BY <1>1, <2>1, <2>3, AbsentApart DEF InRange, AboveLower
    <3>2. SimplifyRange(c) \in {Unsatisfiable, Exactly(c.lower.value), c}
      BY DEF SimplifyRange
    <3>3. Canonical(c) /\ (Matches(v, c) <=> InRange(v, c))
      BY DEF Canonical, Matches
    <3>4. Canonical(Unsatisfiable) /\ ~Matches(v, Unsatisfiable)
      BY UnsatisfiableForm
    <3>5. Canonical(Exactly(c.lower.value)) /\ ~Matches(v, Exactly(c.lower.value))
      BY <2>1, <3>1, ExactlyForm
    <3> QED  BY <3>1, <3>2, <3>3, <3>4, <3>5
  <2>4. CASE v # Absent
    <3>1. v \in Scalars
      BY <2>4 DEF Values
    <3>2. /\ v.type \in Types /\ v.at \in Int
          /\ v = c.lower.value <=> v.type = c.lower.value.type /\ v.at = c.lower.value.at
          /\ v = c.upper.value <=> v.type = c.upper.value.type /\ v.at = c.upper.value.at
      BY <2>1, <3>1, ScalarEquality
    <3>3. CASE Less(c.upper.value, c.lower.value)
      <4>1. SimplifyRange(c) = Unsatisfiable
        <5>1. c.lower.value # c.upper.value
          BY <2>2, <3>3 DEF Less
        <5> QED  BY <1>1, <3>3, <5>1 DEF SimplifyRange
      <4>2. ~InRange(v, c)
        BY <1>1, <2>2, <3>2, <3>3 DEF InRange, AboveLower, BelowUpper, Less
      <4> QED  BY <4>1, <4>2, UnsatisfiableForm
    <3>4. CASE c.lower.value = c.upper.value
      <4>1. ~Less(c.upper.value, c.lower.value)
        BY <2>2, <3>4 DEF Less
      <4>2. SimplifyRange(c) = IF c.lower.exclusive \/ c.upper.exclusive
                               THEN Unsatisfiable ELSE Exactly(c.lower.value)
        BY <1>1, <3>4, <4>1 DEF SimplifyRange
      <4>3. InRange(v, c) <=> v = c.lower.value /\ ~c.lower.exclusive /\ ~c.upper.exclusive
        BY <1>1, <2>1, <2>2, <2>4, <3>2, <3>4 DEF InRange, AboveLower, BelowUpper, Less
      <4>4. /\ Canonical(Exactly(c.lower.value))
            /\ Matches(v, Exactly(c.lower.value)) <=> v = c.lower.value
        BY <2>1, ExactlyForm
      <4> QED  BY <4>2, <4>3, <4>4, UnsatisfiableForm
    <3>5. CASE ~Less(c.upper.value, c.lower.value) /\ c.lower.value # c.upper.value
      <4>1. SimplifyRange(c) = c
        BY <3>5 DEF SimplifyRange
      <4>2. Canonical(c) /\ (Matches(v, c) <=> InRange(v, c))
        BY DEF Canonical, Matches
      <4> QED  BY <4>1, <4>2
    <3> QED  BY <3>3, <3>4, <3>5
  <2> QED  BY <2>3, <2>4
<1>2. CASE c.lower = Absent \/ c.upper = Absent
  <2>1. SimplifyRange(c) = c
    BY <1>2 DEF SimplifyRange
  <2>2. Canonical(c) /\ (Matches(v, c) <=> InRange(v, c))
    BY DEF Canonical, Matches
  <2> QED  BY <2>1, <2>2
<1> QED  BY <1>1, <1>2

LEMMA SimplifyExact ==
  ASSUME NEW c \in Conditions, NEW v \in Values
  PROVE  Canonical(Simplify(c)) /\ (Matches(v, Simplify(c)) <=> Satisfies(v, c))
<1>1. CASE c.unsatisfiable
  BY <1>1, UnsatisfiableForm DEF Simplify, Satisfies
<1>2. CASE ~c.unsatisfiable /\ c.eq # Absent
  <2>1. c.eq \in Scalars
    BY <1>2 DEF Conditions, Values
  <2> DEFINE rest == [c EXCEPT !.eq = Absent]
  <2>2. /\ rest.eq = Absent /\ rest.in = c.in /\ rest.lower = c.lower
        /\ rest.upper = c.upper /\ rest.unsatisfiable = c.unsatisfiable
    BY DEF Conditions
  <2>3. Matches(c.eq, rest) <=> (c.in # Absent => c.eq \in c.in) /\ InRange(c.eq, c)
    BY <1>2, <2>2 DEF Matches, InRange
  <2>4. Satisfies(v, c) <=> v = c.eq /\ Matches(c.eq, rest)
    BY <1>2, <2>3 DEF Satisfies
  <2>5. Simplify(c) = IF Matches(c.eq, rest) THEN Exactly(c.eq) ELSE Unsatisfiable
    BY <1>2 DEF Simplify
  <2>6. Canonical(Exactly(c.eq)) /\ (Matches(v, Exactly(c.eq)) <=> v = c.eq)
    BY <2>1, ExactlyForm
  <2>7. Canonical(Unsatisfiable) /\ ~Matches(v, Unsatisfiable)
    BY UnsatisfiableForm
  <2> HIDE DEF rest
  <2>8. CASE Matches(c.eq, rest)
    BY <2>4, <2>5, <2>6, <2>8
  <2>9. CASE ~Matches(c.eq, rest)
    BY <2>4, <2>5, <2>7, <2>9
  <2> QED  BY <2>8, <2>9
<1>3. CASE ~c.unsatisfiable /\ c.eq = Absent /\ c.in # Absent
  <2> DEFINE S == {w \in c.in : InRange(w, c)}
  <2>1. S \in SUBSET Scalars
    BY <1>3 DEF Conditions
  <2>2. Simplify(c) = OneOf(S)
    BY <1>3 DEF Simplify
  <2>3. Satisfies(v, c) <=> v \in S
    BY <1>3 DEF Satisfies
  <2> HIDE DEF S
  <2>4. Canonical(OneOf(S)) /\ (Matches(v, OneOf(S)) <=> v \in S)
    BY <2>1, OneOfForm
  <2> QED  BY <2>1, <2>2, <2>3, <2>4
<1>4. CASE ~c.unsatisfiable /\ c.eq = Absent /\ c.in = Absent
  <2>1. Simplify(c) = SimplifyRange(c)
    BY <1>4 DEF Simplify
  <2> QED  BY <1>4, <2>1, SimplifyRangeExact DEF Satisfies
<1> QED  BY <1>1, <1>2, <1>3, <1>4 DEF Conditions

----------------------------------------------------------------------------
(* Intersection: what an access scope does to a query.                     *)

\* The tighter of two bounds never admits more than the second; of two
\* bounds of one type it admits what both admit.
LEMMA TighterExact ==
  ASSUME NEW v \in Values, NEW a \in {Absent} \cup Bounds, NEW b \in Bounds
  PROVE  /\ AboveLower(v, TighterLower(a, b)) => AboveLower(v, b)
         /\ BelowUpper(v, TighterUpper(a, b)) => BelowUpper(v, b)
         /\ OneKind(a, b) =>
              /\ AboveLower(v, TighterLower(a, b)) <=> AboveLower(v, a) /\ AboveLower(v, b)
              /\ BelowUpper(v, TighterUpper(a, b)) <=> BelowUpper(v, a) /\ BelowUpper(v, b)
<1>0. b # Absent /\ b.value \in Scalars /\ b.exclusive \in BOOLEAN
  BY AbsentApart DEF Bounds
<1>1. CASE a = Absent
  BY <1>1 DEF TighterLower, TighterUpper, AboveLower, BelowUpper
<1>2. CASE a # Absent
  <2>1. a.value \in Scalars /\ a.exclusive \in BOOLEAN
    BY <1>2, AbsentApart DEF Bounds
  <2>2. CASE v = Absent
    BY <1>0, <1>2, <2>2 DEF TighterLower, TighterUpper, AboveLower, BelowUpper
  <2>3. CASE v # Absent
    <3>1. \A x, y \in {a.value, b.value, v} :
            /\ x.type \in Types /\ x.at \in Int
            /\ x = y <=> x.type = y.type /\ x.at = y.at
      BY <1>0, <2>1, <2>3, ScalarEquality DEF Values
    <3>2. TighterLower(a, b) = IF a.value = b.value
                               THEN IF a.exclusive THEN a ELSE b
                               ELSE IF Less(b.value, a.value) THEN a ELSE b
      BY <1>2 DEF TighterLower
    <3>3. TighterUpper(a, b) = IF a.value = b.value
                               THEN IF a.exclusive THEN a ELSE b
                               ELSE IF Less(a.value, b.value) THEN a ELSE b
      BY <1>2 DEF TighterUpper
    <3>4. /\ AboveLower(v, TighterLower(a, b)) => AboveLower(v, b)
          /\ OneKind(a, b) =>
               (AboveLower(v, TighterLower(a, b)) <=> AboveLower(v, a) /\ AboveLower(v, b))
      BY <1>0, <1>2, <2>1, <2>3, <3>1, <3>2 DEF AboveLower, Less, OneKind
    <3>5. /\ BelowUpper(v, TighterUpper(a, b)) => BelowUpper(v, b)
          /\ OneKind(a, b) =>
               (BelowUpper(v, TighterUpper(a, b)) <=> BelowUpper(v, a) /\ BelowUpper(v, b))
      BY <1>0, <1>2, <2>1, <2>3, <3>1, <3>3 DEF BelowUpper, Less, OneKind
    <3> QED  BY <3>4, <3>5
  <2> QED  BY <2>2, <2>3
<1> QED  BY <1>1, <1>2

\* What IntersectConditions hands to Simplify.
Conjoined(a, b) ==
  [unsatisfiable |-> FALSE,
   eq |-> Coalesce(a.eq, b.eq),
   in |-> CASE a.in = Absent -> b.in
            [] a.in # Absent /\ b.in = Absent -> a.in
            [] OTHER -> a.in \cap b.in,
   lower |-> IF b.lower = Absent THEN a.lower ELSE TighterLower(a.lower, b.lower),
   upper |-> IF b.upper = Absent THEN a.upper ELSE TighterUpper(a.upper, b.upper)]

LEMMA ConjoinedType ==
  ASSUME NEW a \in Conditions, NEW b \in Conditions PROVE Conjoined(a, b) \in Conditions
<1>1. /\ a.eq \in Values /\ b.eq \in Values
      /\ a.in \in {Absent} \cup SUBSET Scalars /\ b.in \in {Absent} \cup SUBSET Scalars
      /\ a.lower \in {Absent} \cup Bounds /\ b.lower \in {Absent} \cup Bounds
      /\ a.upper \in {Absent} \cup Bounds /\ b.upper \in {Absent} \cup Bounds
  BY DEF Conditions
<1>2. Conjoined(a, b).eq \in Values
  BY <1>1 DEF Conjoined, Coalesce
<1>3. Conjoined(a, b).in \in {Absent} \cup SUBSET Scalars
  <2>1. CASE a.in = Absent
    BY <1>1, <2>1 DEF Conjoined
  <2>2. CASE a.in # Absent /\ b.in = Absent
    BY <1>1, <2>2 DEF Conjoined
  <2>3. CASE a.in # Absent /\ b.in # Absent
    BY <1>1, <2>3 DEF Conjoined
  <2> QED  BY <2>1, <2>2, <2>3
<1>4. /\ Conjoined(a, b).lower \in {Absent} \cup Bounds
      /\ Conjoined(a, b).upper \in {Absent} \cup Bounds
  BY <1>1 DEF Conjoined, TighterLower, TighterUpper
<1> QED  BY <1>2, <1>3, <1>4 DEF Conjoined, Conditions

LEMMA IntersectConditionsExact ==
  ASSUME NEW a \in Conditions, NEW b \in Conditions, Canonical(a), Canonical(b),
         NEW v \in Values
  PROVE  LET c == IntersectConditions(a, b)
         IN /\ c \in Conditions /\ Canonical(c)
            /\ Matches(v, c) => Matches(v, b)
            /\ a.eq # Null /\ OneKind(a.lower, b.lower) /\ OneKind(a.upper, b.upper)
                 => (Matches(v, c) <=> Matches(v, a) /\ Matches(v, b))
<1> DEFINE clash == \/ a.unsatisfiable \/ b.unsatisfiable
                    \/ a.eq # Absent /\ b.eq # Absent /\ a.eq # b.eq
<1>1. (Matches(v, a) <=> Satisfies(v, a)) /\ (Matches(v, b) <=> Satisfies(v, b))
  BY CanonicalMatches
<1>2. CASE clash
  <2>1. IntersectConditions(a, b) = Unsatisfiable
    BY <1>2 DEF IntersectConditions
  <2>2. Unsatisfiable \in Conditions
    BY DEF Unsatisfiable, Unrestricted, Conditions, Values
  <2>3. ~(Satisfies(v, a) /\ Satisfies(v, b))
    BY <1>2 DEF Satisfies
  <2> QED  BY <1>1, <2>1, <2>2, <2>3, UnsatisfiableForm
<1>3. CASE ~clash
  <2> DEFINE m == Conjoined(a, b)
  <2>1. IntersectConditions(a, b) = Simplify(m)
    BY <1>3 DEF IntersectConditions, Conjoined
  <2>2. m \in Conditions
    BY ConjoinedType
  <2>3. /\ Simplify(m) \in Conditions /\ Canonical(Simplify(m))
        /\ Matches(v, Simplify(m)) <=> Satisfies(v, m)
    BY <2>2, SimplifyType, SimplifyExact
  <2>4. ~m.unsatisfiable
    BY DEF Conjoined
  <2>5. /\ (m.eq # Absent => v = m.eq) => (b.eq # Absent => v = b.eq)
        /\ a.eq # Null => ((m.eq # Absent => v = m.eq)
                            <=> (a.eq # Absent => v = a.eq) /\ (b.eq # Absent => v = b.eq))
    BY <1>3 DEF Conjoined, Coalesce
  <2>6. (m.in # Absent => v \in m.in)
          <=> (a.in # Absent => v \in a.in) /\ (b.in # Absent => v \in b.in)
    <3>1. CASE a.in = Absent
      BY <3>1 DEF Conjoined
    <3>2. CASE a.in # Absent /\ b.in = Absent
      BY <3>2 DEF Conjoined
    <3>3. CASE a.in # Absent /\ b.in # Absent
      <4>1. m.in = a.in \cap b.in
        BY <3>3 DEF Conjoined
      <4>2. m.in # Absent
        BY <3>3, <4>1, AbsentApart DEF Conditions
      <4> QED  BY <3>3, <4>1, <4>2
    <3> QED  BY <3>1, <3>2, <3>3
  <2>7. /\ AboveLower(v, m.lower) => AboveLower(v, b.lower)
        /\ OneKind(a.lower, b.lower) =>
             (AboveLower(v, m.lower) <=> AboveLower(v, a.lower) /\ AboveLower(v, b.lower))
    <3>1. CASE b.lower = Absent
      BY <3>1 DEF Conjoined, AboveLower
    <3>2. CASE b.lower # Absent
      <4>1. a.lower \in {Absent} \cup Bounds /\ b.lower \in Bounds
        BY <3>2 DEF Conditions
      <4>2. m.lower = TighterLower(a.lower, b.lower)
        BY <3>2 DEF Conjoined
      <4> QED  BY <4>1, <4>2, TighterExact
    <3> QED  BY <3>1, <3>2
  <2>8. /\ BelowUpper(v, m.upper) => BelowUpper(v, b.upper)
        /\ OneKind(a.upper, b.upper) =>
             (BelowUpper(v, m.upper) <=> BelowUpper(v, a.upper) /\ BelowUpper(v, b.upper))
    <3>1. CASE b.upper = Absent
      BY <3>1 DEF Conjoined, BelowUpper
    <3>2. CASE b.upper # Absent
      <4>1. a.upper \in {Absent} \cup Bounds /\ b.upper \in Bounds
        BY <3>2 DEF Conditions
      <4>2. m.upper = TighterUpper(a.upper, b.upper)
        BY <3>2 DEF Conjoined
      <4> QED  BY <4>1, <4>2, TighterExact
    <3> QED  BY <3>1, <3>2
  <2> HIDE DEF m
  <2>9. /\ Satisfies(v, m) => Satisfies(v, b)
        /\ a.eq # Null /\ OneKind(a.lower, b.lower) /\ OneKind(a.upper, b.upper)
             => (Satisfies(v, m) <=> Satisfies(v, a) /\ Satisfies(v, b))
    BY <1>3, <2>4, <2>5, <2>6, <2>7, <2>8 DEF Satisfies, InRange
  <2> QED  BY <1>1, <2>1, <2>3, <2>9
<1> QED  BY <1>2, <1>3

\* A canonical condition goes to the wire and back unchanged.
LEMMA DenormalizeExact ==
  ASSUME NEW c \in Conditions, Canonical(c), ~c.unsatisfiable, NEW v \in Values
  PROVE  Matches(v, Normalize(Denormalize(c))) <=> Matches(v, c)
<1>1. c.lower \in {Absent} \cup Bounds /\ c.upper \in {Absent} \cup Bounds
  BY DEF Conditions
<1>2. \A bound \in Bounds : /\ bound.value # Absent /\ bound # Absent
                            /\ bound = [value |-> bound.value, exclusive |-> bound.exclusive]
                            /\ bound.exclusive \in BOOLEAN
  BY AbsentApart DEF Bounds
<1> DEFINE p == Parts(Denormalize(c))
<1>3. p.unsatisfiable = FALSE /\ p.eq = c.eq /\ p.in = c.in
  BY DEF Parts, Denormalize, NoFieldFilter, Canonical
<1>4. p.lower = c.lower
  <2>1. CASE c.eq # Absent
    BY <2>1 DEF Parts, Denormalize, NoFieldFilter, Canonical, Bound
  <2>2. CASE c.eq = Absent /\ c.lower = Absent
    BY <2>2 DEF Parts, Denormalize, Bound
  <2>3. CASE c.eq = Absent /\ c.lower # Absent
    BY <1>1, <1>2, <2>3 DEF Parts, Denormalize, Bound, TighterLower
  <2> QED  BY <2>1, <2>2, <2>3
<1>5. p.upper = c.upper
  <2>1. CASE c.eq # Absent
    BY <2>1 DEF Parts, Denormalize, NoFieldFilter, Canonical, Bound
  <2>2. CASE c.eq = Absent /\ c.upper = Absent
    BY <2>2 DEF Parts, Denormalize, Bound
  <2>3. CASE c.eq = Absent /\ c.upper # Absent
    BY <1>1, <1>2, <2>3 DEF Parts, Denormalize, Bound, TighterUpper
  <2> QED  BY <2>1, <2>2, <2>3
<1>6. p = c
  <2>1. p = [unsatisfiable |-> p.unsatisfiable, eq |-> p.eq, in |-> p.in,
             lower |-> p.lower, upper |-> p.upper]
    BY DEF Parts
  <2>2. c = [unsatisfiable |-> c.unsatisfiable, eq |-> c.eq, in |-> c.in,
             lower |-> c.lower, upper |-> c.upper]
    BY DEF Conditions
  <2>3. c.unsatisfiable = FALSE
    BY DEF Conditions
  <2> HIDE DEF p
  <2> QED  BY <1>3, <1>4, <1>5, <2>1, <2>2, <2>3
<1>7. Normalize(Denormalize(c)) = Simplify(p)
  BY DEF Normalize, Parts
<1>8. Matches(v, Simplify(c)) <=> Matches(v, c)
  BY SimplifyExact, CanonicalMatches
<1> QED  BY <1>6, <1>7, <1>8

LEMMA NormalizeCanonical ==
  ASSUME NEW f \in FieldFilters
  PROVE  Normalize(f) \in Conditions /\ Canonical(Normalize(f))
<1>1. Absent \in Values
  BY DEF Values
<1>2. Normalize(f) = Simplify(Parts(f))
  BY DEF Normalize, Parts
<1> QED  BY <1>1, <1>2, PartsType, NormalizeType, SimplifyExact

\* One field both filters restrict.
LEMMA SharedField ==
  ASSUME NEW a, NEW b, IsWhereFilter(a), IsWhereFilter(b),
         NEW row \in [Fields -> Values], NEW fd \in DOMAIN a \cap DOMAIN b
  PROVE  LET c == IntersectConditions(Normalize(a[fd]), Normalize(b[fd]))
             inA == Matches(row[fd], Normalize(a[fd]))
             inB == Matches(row[fd], Normalize(b[fd]))
         IN /\ Matches(row[fd], c) => inB
            /\ Combinable(a, b) => (Matches(row[fd], c) <=> inA /\ inB)
            /\ c.unsatisfiable => ~Matches(row[fd], c)
            /\ ~c.unsatisfiable =>
                 (Matches(row[fd], Normalize(Denormalize(c))) <=> Matches(row[fd], c))
<1>1. a[fd] \in FieldFilters /\ b[fd] \in FieldFilters /\ row[fd] \in Values
  BY DEF IsWhereFilter
<1> DEFINE na == Normalize(a[fd])
           nb == Normalize(b[fd])
           c == IntersectConditions(na, nb)
<1>2. /\ na \in Conditions /\ Canonical(na) /\ nb \in Conditions /\ Canonical(nb)
  BY <1>1, NormalizeCanonical
<1>3. Combinable(a, b) =>
        na.eq # Null /\ OneKind(na.lower, nb.lower) /\ OneKind(na.upper, nb.upper)
  BY DEF Combinable
<1> HIDE DEF na, nb
<1>4. /\ c \in Conditions /\ Canonical(c)
      /\ Matches(row[fd], c) => Matches(row[fd], nb)
      /\ na.eq # Null /\ OneKind(na.lower, nb.lower) /\ OneKind(na.upper, nb.upper)
           => (Matches(row[fd], c) <=> Matches(row[fd], na) /\ Matches(row[fd], nb))
  BY <1>1, <1>2, IntersectConditionsExact
<1> HIDE DEF c
<1>5. ~c.unsatisfiable =>
        (Matches(row[fd], Normalize(Denormalize(c))) <=> Matches(row[fd], c))
  BY <1>1, <1>4, DenormalizeExact
<1>6. c.unsatisfiable => ~Matches(row[fd], c)
  BY DEF Matches
<1> QED  BY <1>3, <1>4, <1>5, <1>6 DEF na, nb, c

\* The fields of an intersection, one by one.
LEMMA IntersectFields ==
  ASSUME NEW a, NEW b, IsWhereFilter(a), IsWhereFilter(b),
         NEW row \in [Fields -> Values],
         \A fd \in DOMAIN a \cap DOMAIN b :
           ~IntersectConditions(Normalize(a[fd]), Normalize(b[fd])).unsatisfiable
  PROVE  LET c == IntersectFilters(a, b)
             In(filter, fd) == Matches(row[fd], Normalize(filter[fd]))
             Shared(fd) == Matches(row[fd],
                             IntersectConditions(Normalize(a[fd]), Normalize(b[fd])))
         IN /\ c # Absent
            /\ MatchesFilter(row, c) <=>
                 /\ \A fd \in DOMAIN a \cap DOMAIN b : Shared(fd)
                 /\ \A fd \in DOMAIN a \ DOMAIN b : In(a, fd)
                 /\ \A fd \in DOMAIN b \ DOMAIN a : In(b, fd)
<1> DEFINE both(fd) == IntersectConditions(Normalize(a[fd]), Normalize(b[fd]))
           g == [fd \in DOMAIN a \cup DOMAIN b |->
                   CASE fd \in DOMAIN a \cap DOMAIN b -> Denormalize(both(fd))
                     [] fd \in DOMAIN a \ DOMAIN b -> a[fd]
                     [] OTHER -> b[fd]]
<1>1. IntersectFilters(a, b) = g
  BY DEF IntersectFilters
<1>2. /\ \A fd \in DOMAIN a \cap DOMAIN b : g[fd] = Denormalize(both(fd))
      /\ \A fd \in DOMAIN a \ DOMAIN b : g[fd] = a[fd]
      /\ \A fd \in DOMAIN b \ DOMAIN a : g[fd] = b[fd]
      /\ DOMAIN g = DOMAIN a \cup DOMAIN b
  OBVIOUS
<1>3. \A fd \in DOMAIN a \cap DOMAIN b :
        Matches(row[fd], Normalize(Denormalize(both(fd)))) <=> Matches(row[fd], both(fd))
  BY SharedField
<1>4. g # Absent
  <2>1. \A fd \in DOMAIN a \cap DOMAIN b : Denormalize(both(fd)) \in FieldFilters
    <3>1. \A c \in Conditions : Denormalize(c) \in FieldFilters
      BY DEF Conditions, FieldFilters, Bounds, Denormalize, NoFieldFilter, Values
    <3>2. \A fd \in DOMAIN a \cap DOMAIN b : both(fd) \in Conditions
      <4> TAKE fd \in DOMAIN a \cap DOMAIN b
      <4>1. a[fd] \in FieldFilters /\ b[fd] \in FieldFilters /\ Absent \in Values
        BY DEF IsWhereFilter, Values
      <4>2. /\ Normalize(a[fd]) \in Conditions /\ Canonical(Normalize(a[fd]))
            /\ Normalize(b[fd]) \in Conditions /\ Canonical(Normalize(b[fd]))
        BY <4>1, NormalizeCanonical
      <4> QED  BY <4>1, <4>2, IntersectConditionsExact
    <3> QED  BY <3>1, <3>2
  <2>2. g \in [DOMAIN a \cup DOMAIN b -> FieldFilters]
    BY <2>1 DEF IsWhereFilter
  <2>3. DOMAIN a \cup DOMAIN b \in SUBSET Fields
    BY DEF IsWhereFilter
  <2> HIDE DEF g
  <2> QED  BY <2>2, <2>3, FilterAssumption
<1>5. MatchesFilter(row, g) <=>
        /\ \A fd \in DOMAIN a \cap DOMAIN b : Matches(row[fd], both(fd))
        /\ \A fd \in DOMAIN a \ DOMAIN b : Matches(row[fd], Normalize(a[fd]))
        /\ \A fd \in DOMAIN b \ DOMAIN a : Matches(row[fd], Normalize(b[fd]))
  <2> HIDE DEF g
  <2>1. MatchesFilter(row, g) <=>
          /\ \A fd \in DOMAIN a \cap DOMAIN b : Matches(row[fd], Normalize(g[fd]))
          /\ \A fd \in DOMAIN a \ DOMAIN b : Matches(row[fd], Normalize(g[fd]))
          /\ \A fd \in DOMAIN b \ DOMAIN a : Matches(row[fd], Normalize(g[fd]))
    BY <1>2 DEF MatchesFilter
  <2> QED  BY <1>2, <1>3, <2>1
<1> QED  BY <1>1, <1>4, <1>5

\* No query widens a scope: whatever it asks for, a record that matches its
\* intersection with the access scope matches the scope.
THEOREM ScopeIsKept ==
  ASSUME NEW query, NEW granted, IsWhereFilter(query), IsWhereFilter(granted),
         NEW row \in [Fields -> Values], IntersectFilters(query, granted) # Absent,
         MatchesFilter(row, IntersectFilters(query, granted))
  PROVE  MatchesFilter(row, granted)
<1>1. \A fd \in DOMAIN query \cap DOMAIN granted :
        ~IntersectConditions(Normalize(query[fd]), Normalize(granted[fd])).unsatisfiable
  BY DEF IntersectFilters
<1> SUFFICES ASSUME NEW fd \in DOMAIN granted
             PROVE  Matches(row[fd], Normalize(granted[fd]))
  BY DEF MatchesFilter
<1>2. CASE fd \in DOMAIN query
  BY <1>1, <1>2, IntersectFields, SharedField
<1>3. CASE fd \notin DOMAIN query
  BY <1>1, <1>3, IntersectFields
<1> QED  BY <1>2, <1>3

\* "AND two filters together": of two combinable filters the intersection
\* holds exactly the records that match both, and is found empty only when
\* there are none.
THEOREM IntersectExact ==
  ASSUME NEW a, NEW b, IsWhereFilter(a), IsWhereFilter(b), Combinable(a, b),
         NEW row \in [Fields -> Values]
  PROVE  MatchesFilter(row, a) /\ MatchesFilter(row, b) <=>
           /\ IntersectFilters(a, b) # Absent
           /\ MatchesFilter(row, IntersectFilters(a, b))
<1> DEFINE both(fd) == IntersectConditions(Normalize(a[fd]), Normalize(b[fd]))
<1>1. \A fd \in DOMAIN a \cap DOMAIN b :
        /\ Matches(row[fd], both(fd)) <=> /\ Matches(row[fd], Normalize(a[fd]))
                                         /\ Matches(row[fd], Normalize(b[fd]))
        /\ both(fd).unsatisfiable => ~Matches(row[fd], both(fd))
  BY SharedField
<1>2. MatchesFilter(row, a) /\ MatchesFilter(row, b) <=>
        /\ \A fd \in DOMAIN a \cap DOMAIN b : Matches(row[fd], both(fd))
        /\ \A fd \in DOMAIN a \ DOMAIN b : Matches(row[fd], Normalize(a[fd]))
        /\ \A fd \in DOMAIN b \ DOMAIN a : Matches(row[fd], Normalize(b[fd]))
  BY <1>1 DEF MatchesFilter
<1>3. CASE \E fd \in DOMAIN a \cap DOMAIN b : both(fd).unsatisfiable
  <2>1. IntersectFilters(a, b) = Absent
    BY <1>3 DEF IntersectFilters
  <2> QED  BY <1>1, <1>2, <1>3, <2>1
<1>4. CASE ~ \E fd \in DOMAIN a \cap DOMAIN b : both(fd).unsatisfiable
  BY <1>2, <1>4, IntersectFields
<1> QED  BY <1>3, <1>4

----------------------------------------------------------------------------
(* The canonical form has the plain meaning of the filter.                 *)

LEMMA BoundExact ==
  ASSUME NEW v \in Values, NEW x \in {Absent} \cup Comparable
  PROVE  /\ AboveLower(v, Bound(x, TRUE)) <=> (x # Absent => v # Absent /\ Less(x, v))
         /\ BelowUpper(v, Bound(x, TRUE)) <=> (x # Absent => v # Absent /\ Less(v, x))
         /\ AboveLower(v, Bound(x, FALSE))
              <=> (x # Absent => v # Absent /\ (Less(x, v) \/ v = x))
         /\ BelowUpper(v, Bound(x, FALSE))
              <=> (x # Absent => v # Absent /\ (Less(v, x) \/ v = x))
<1>1. CASE x = Absent
  BY <1>1 DEF Bound, AboveLower, BelowUpper
<1>2. CASE x # Absent
  <2>1. \A e \in BOOLEAN :
          /\ Bound(x, e) \in Bounds /\ Bound(x, e).value = x
          /\ Bound(x, e).exclusive <=> e
    BY <1>2 DEF Bound, Bounds
  <2>2. /\ Bound(x, TRUE).value = x /\ Bound(x, FALSE).value = x
        /\ Bound(x, TRUE).exclusive /\ ~Bound(x, FALSE).exclusive
    BY <2>1
  <2>3. Bound(x, TRUE) # Absent /\ Bound(x, FALSE) # Absent
    BY <2>1, BoundsAssumption
  <2> QED  BY <1>2, <2>2, <2>3 DEF AboveLower, BelowUpper, Less
<1> QED  BY <1>1, <1>2

\* normalize keeps the meaning of every filter whose bounds are comparable.
THEOREM NormalizeExact ==
  ASSUME NEW f \in FieldFilters, Plain(f), NEW v \in Values
  PROVE  Matches(v, Normalize(f)) <=> Meets(v, f)
<1>1. /\ f.gt \in {Absent} \cup Comparable /\ f.gte \in {Absent} \cup Comparable
      /\ f.lt \in {Absent} \cup Comparable /\ f.lte \in {Absent} \cup Comparable
  BY DEF FieldFilters
<1>2. Matches(v, Normalize(f)) <=> Satisfies(v, Parts(f))
  <2>1. Normalize(f) = Simplify(Parts(f))
    BY DEF Normalize, Parts
  <2> QED  BY <2>1, PartsType, SimplifyExact
<1>3. \A x \in Comparable, e \in BOOLEAN :
        /\ Bound(x, e) \in Bounds /\ Bound(x, e).value = x
  BY AbsentApart DEF Bound, Bounds
<1>4. AboveLower(v, Parts(f).lower)
        <=> AboveLower(v, Bound(f.gte, FALSE)) /\ AboveLower(v, Bound(f.gt, TRUE))
  <2>1. CASE f.gt = Absent
    BY <2>1 DEF Parts, Bound, AboveLower
  <2>2. CASE f.gt # Absent
    <3>1. /\ Bound(f.gte, FALSE) \in {Absent} \cup Bounds /\ Bound(f.gt, TRUE) \in Bounds
          /\ OneKind(Bound(f.gte, FALSE), Bound(f.gt, TRUE))
      BY <1>1, <1>3, <2>2 DEF Plain, OneKind, Bound
    <3>2. Parts(f).lower = TighterLower(Bound(f.gte, FALSE), Bound(f.gt, TRUE))
      BY <2>2 DEF Parts
    <3>3. ASSUME NEW a \in {Absent} \cup Bounds, NEW b \in Bounds, OneKind(a, b)
          PROVE  AboveLower(v, TighterLower(a, b)) <=> AboveLower(v, a) /\ AboveLower(v, b)
      BY <3>3, TighterExact
    <3> QED  BY <3>1, <3>2, <3>3
  <2> QED  BY <2>1, <2>2
<1>5. BelowUpper(v, Parts(f).upper)
        <=> BelowUpper(v, Bound(f.lte, FALSE)) /\ BelowUpper(v, Bound(f.lt, TRUE))
  <2>1. CASE f.lt = Absent
    BY <2>1 DEF Parts, Bound, BelowUpper
  <2>2. CASE f.lt # Absent
    <3>1. /\ Bound(f.lte, FALSE) \in {Absent} \cup Bounds /\ Bound(f.lt, TRUE) \in Bounds
          /\ OneKind(Bound(f.lte, FALSE), Bound(f.lt, TRUE))
      BY <1>1, <1>3, <2>2 DEF Plain, OneKind, Bound
    <3>2. Parts(f).upper = TighterUpper(Bound(f.lte, FALSE), Bound(f.lt, TRUE))
      BY <2>2 DEF Parts
    <3>3. ASSUME NEW a \in {Absent} \cup Bounds, NEW b \in Bounds, OneKind(a, b)
          PROVE  BelowUpper(v, TighterUpper(a, b)) <=> BelowUpper(v, a) /\ BelowUpper(v, b)
      BY <3>3, TighterExact
    <3> QED  BY <3>1, <3>2, <3>3
  <2> QED  BY <2>1, <2>2
<1>6. /\ Parts(f).unsatisfiable = FALSE /\ Parts(f).eq = f.eq /\ Parts(f).in = f.in
  BY DEF Parts
<1>7. InRange(v, Parts(f)) <=>
        /\ f.gt # Absent => v # Absent /\ Less(f.gt, v)
        /\ f.gte # Absent => v # Absent /\ (Less(f.gte, v) \/ v = f.gte)
        /\ f.lt # Absent => v # Absent /\ Less(v, f.lt)
        /\ f.lte # Absent => v # Absent /\ (Less(v, f.lte) \/ v = f.lte)
  BY <1>1, <1>4, <1>5, BoundExact DEF InRange
<1> QED  BY <1>2, <1>6, <1>7 DEF Satisfies, Meets

----------------------------------------------------------------------------
(* What filters name: the algebra brings in no scalar of its own.          *)

Within(T, c) ==
  /\ c.eq # Absent => c.eq \in T
  /\ c.in # Absent => c.in \subseteq T
  /\ c.lower # Absent => c.lower.value \in T
  /\ c.upper # Absent => c.upper.value \in T

LEMMA ExactlyWithin ==
  ASSUME NEW T, NEW v \in T
  PROVE  Within(T, Exactly(v)) /\ Within(T, Unsatisfiable)
BY DEF Within, Exactly, Unsatisfiable, Unrestricted

LEMMA SimplifyWithin ==
  ASSUME NEW T, NEW c \in Conditions, Within(T, c)
  PROVE  Within(T, Simplify(c))
<1>1. Within(T, Unsatisfiable)
  BY DEF Within, Unsatisfiable, Unrestricted
<1>2. CASE c.unsatisfiable
  BY <1>1, <1>2 DEF Simplify
<1>3. CASE ~c.unsatisfiable /\ c.eq # Absent
  <2>1. Within(T, Exactly(c.eq))
    BY <1>3, ExactlyWithin DEF Within
  <2> QED  BY <1>1, <1>3, <2>1 DEF Simplify
<1>4. CASE ~c.unsatisfiable /\ c.eq = Absent /\ c.in # Absent
  <2> DEFINE S == {v \in c.in : InRange(v, c)}
  <2>1. Simplify(c) = OneOf(S) /\ S \subseteq T
    BY <1>4 DEF Simplify, Within
  <2> HIDE DEF S
  <2>2. CASE S = {}
    BY <1>1, <2>1, <2>2 DEF OneOf
  <2>3. CASE S # {} /\ \E v \in S : S = {v}
    <3>1. (CHOOSE v \in S : TRUE) \in T
      BY <2>1, <2>3
    <3> QED  BY <2>1, <2>3, <3>1, ExactlyWithin DEF OneOf
  <2>4. CASE S # {} /\ ~\E v \in S : S = {v}
    BY <2>1, <2>4 DEF OneOf, Within, Unrestricted
  <2> QED  BY <2>2, <2>3, <2>4
<1>5. CASE ~c.unsatisfiable /\ c.eq = Absent /\ c.in = Absent
  <2>1. Simplify(c) = SimplifyRange(c)
    BY <1>5 DEF Simplify
  <2>2. c.lower # Absent => Within(T, Exactly(c.lower.value))
    BY ExactlyWithin DEF Within
  <2>3. CASE c.lower # Absent /\ c.upper # Absent
    <3>1. SimplifyRange(c) \in {Unsatisfiable, Exactly(c.lower.value), c}
      BY DEF SimplifyRange
    <3> QED  BY <1>1, <2>1, <2>2, <2>3, <3>1
  <2>4. CASE c.lower = Absent \/ c.upper = Absent
    <3>1. SimplifyRange(c) = c
      BY <2>4 DEF SimplifyRange
    <3> QED  BY <2>1, <3>1
  <2> QED  BY <2>3, <2>4
<1> QED  BY <1>2, <1>3, <1>4, <1>5 DEF Conditions

LEMMA NormalizeWithin ==
  ASSUME NEW T, NEW f \in FieldFilters, NamesWithin(T, f)
  PROVE  Within(T, Normalize(f))
<1>1. \A x \in {f.gt, f.gte, f.lt, f.lte}, e \in BOOLEAN :
        Bound(x, e) # Absent => Bound(x, e).value \in T
  BY DEF Bound, NamesWithin
<1>2. \A a, b : /\ TighterLower(a, b) \in {a, b}
                /\ TighterUpper(a, b) \in {a, b}
  BY DEF TighterLower, TighterUpper
<1>3. /\ Parts(f).lower \in {Bound(f.gte, FALSE), Bound(f.gt, TRUE)}
      /\ Parts(f).upper \in {Bound(f.lte, FALSE), Bound(f.lt, TRUE)}
      /\ Parts(f).eq = f.eq /\ Parts(f).in = f.in
  BY <1>2 DEF Parts
<1>4. Within(T, Parts(f))
  BY <1>1, <1>3 DEF Within, NamesWithin
<1> QED  BY <1>4, PartsType, SimplifyWithin DEF Normalize, Parts

LEMMA IntersectWithin ==
  ASSUME NEW T, NEW a \in Conditions, NEW b \in Conditions, Within(T, a), Within(T, b)
  PROVE  Within(T, IntersectConditions(a, b))
<1>1. \A x, y : /\ TighterLower(x, y) \in {x, y}
                /\ TighterUpper(x, y) \in {x, y}
  BY DEF TighterLower, TighterUpper
<1> DEFINE m == Conjoined(a, b)
<1>2. m.lower \in {a.lower, b.lower} /\ m.upper \in {a.upper, b.upper} /\ m.eq \in {a.eq, b.eq}
  BY <1>1 DEF Conjoined, Coalesce
<1>3. m.in # Absent => m.in \subseteq T
  BY DEF Conjoined, Within
<1>4. Within(T, m)
  BY <1>2, <1>3 DEF Within
<1>5. m \in Conditions
  BY ConjoinedType
<1>6. IntersectConditions(a, b) \in {Unsatisfiable, Simplify(m)}
  BY DEF IntersectConditions, Conjoined
<1>7. Within(T, Unsatisfiable)
  BY DEF Within, Unsatisfiable, Unrestricted
<1> QED  BY <1>4, <1>5, <1>6, <1>7, SimplifyWithin

\* What comes back from a canonical condition is a plain filter.
LEMMA DenormalizeForm ==
  ASSUME NEW c \in Conditions
  PROVE  /\ Denormalize(c) \in FieldFilters /\ Plain(Denormalize(c))
         /\ \A T : Within(T, c) => NamesWithin(T, Denormalize(c))
<1>1. /\ c.eq \in Values /\ c.in \in {Absent} \cup SUBSET Scalars
      /\ c.lower \in {Absent} \cup Bounds /\ c.upper \in {Absent} \cup Bounds
  BY DEF Conditions
<1>2. \A bound \in Bounds : bound.value \in Comparable /\ bound.exclusive \in BOOLEAN
  BY DEF Bounds
<1> DEFINE d == Denormalize(c)
<1>3. CASE c.eq # Absent
  <2>1. /\ d.eq = c.eq /\ d.in = Absent /\ d.gt = Absent /\ d.gte = Absent /\ d.lt = Absent
        /\ d.lte = Absent /\ d = [NoFieldFilter EXCEPT !.eq = c.eq]
    BY <1>3 DEF Denormalize, NoFieldFilter
  <2>2. d \in FieldFilters
    BY <1>1, <2>1 DEF FieldFilters, NoFieldFilter, Values
  <2>3. Plain(d)
    BY <2>1 DEF Plain
  <2>4. \A T : Within(T, c) => NamesWithin(T, d)
    BY <1>3, <2>1 DEF Within, NamesWithin
  <2> QED  BY <2>2, <2>3, <2>4
<1>4. CASE c.eq = Absent
  <2>1. /\ d.eq = Absent /\ d.in = c.in
        /\ d.gt = IF c.lower # Absent /\ c.lower.exclusive = TRUE THEN c.lower.value ELSE Absent
        /\ d.gte = IF c.lower # Absent /\ c.lower.exclusive = FALSE THEN c.lower.value ELSE Absent
        /\ d.lt = IF c.upper # Absent /\ c.upper.exclusive = TRUE THEN c.upper.value ELSE Absent
        /\ d.lte = IF c.upper # Absent /\ c.upper.exclusive = FALSE THEN c.upper.value ELSE Absent
        /\ d = [eq |-> d.eq, in |-> d.in, gt |-> d.gt, gte |-> d.gte, lt |-> d.lt, lte |-> d.lte]
    BY <1>4 DEF Denormalize
  <2> HIDE DEF d
  <2>2. d \in FieldFilters
    BY <1>1, <1>2, <2>1 DEF FieldFilters, Values
  <2>3. Plain(d)
    BY <2>1 DEF Plain
  <2>4. \A T : Within(T, c) => NamesWithin(T, d)
    BY <2>1 DEF Within, NamesWithin
  <2> QED  BY <2>2, <2>3, <2>4 DEF d
<1> QED  BY <1>3, <1>4

=============================================================================
