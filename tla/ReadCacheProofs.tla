-------------------------- MODULE ReadCacheProofs --------------------------
(***************************************************************************)
(* The read cache for every collection, scope and number of plans: it is   *)
(* well typed, stays within the session's scope and never loses coverage;  *)
(* answers are exact where the filter algebra is, and so is the coverage   *)
(* where plans are answered in order.                                      *)
(***************************************************************************)
EXTENDS ReadCacheProperties, FilterAlgebraProofs, SequenceTheorems

----------------------------------------------------------------------------
(* Types.                                                                  *)

Answer == [ok: BOOLEAN, rows: UNION {[D -> Rows] : D \in SUBSET Ids}]
Calls == [plan: Plans, done: BOOLEAN, answer: Answer,
          seen: [Ids -> Stored], late: SUBSET Ids]

CacheTypeInv ==
  /\ policy \in Policies
  /\ server \in [Ids -> Stored] /\ synced \in [Ids -> Stored]
  /\ table \in [Ids -> Stored]
  /\ covered \subseteq Asked
  /\ calls \in Seq(Calls) /\ Len(calls) <= issued
  /\ touched \subseteq Ids \X Queries
  /\ issued \in 0..MaxPlans /\ rivals \in 0..MaxRivals

LEMMA AskedType == \A filter \in Asked : IsWhereFilter(filter)
<1> SUFFICES ASSUME NEW plan \in Plans, plan.op = "where"
             PROVE  IsWhereFilter(plan.filter)
  BY DEF Asked
<1> QED  BY PlansAssumption DEF IsReadPlan, IsWritePlan

LEMMA ReturnedType ==
  ASSUME NEW rows \in [Ids -> Stored], NEW ids \in SUBSET Ids,
         \A id \in ids : rows[id] # Absent
  PROVE  Returned(ids, rows) \in Answer
<1>1. [id \in ids |-> rows[id]] \in [ids -> Rows]
  BY DEF Stored
<1> QED  BY <1>1 DEF Returned, Answer

LEMMA RefusedType == Refused \in Answer
<1>1. NoRows \in [{} -> Rows]
  BY DEF NoRows
<1> QED  BY <1>1 DEF Refused, Answer

\* The kinds of plans, told apart by their operation.
LEMMA PlanKinds ==
  ASSUME NEW plan \in Plans
  PROVE  /\ plan.op \in {"where", "one", "create", "patch", "delete"}
         /\ plan.op = "where" => plan.filter \in Asked
         /\ plan.op # "where" => plan.id \in Ids
         /\ plan.op = "create" => plan.row \in Rows
         /\ plan.op = "patch" => /\ DOMAIN plan.patch \subseteq Fields
                                 /\ plan.patch \in [DOMAIN plan.patch -> Values]
<1>1. IsReadPlan(plan) \/ IsWritePlan(plan)
  BY PlansAssumption
<1> QED  BY <1>1 DEF IsReadPlan, IsWritePlan, Asked

LEMMA RowAfterType ==
  ASSUME NEW plan \in Plans, server \in [Ids -> Stored],
         plan.op \in {"create", "patch", "delete"}, ~WriteRefused(plan)
  PROVE  /\ plan.op = "delete" => RowAfter(plan) = Absent
         /\ plan.op # "delete" => RowAfter(plan) \in Rows
         /\ RowAfter(plan) \in Stored
<1>1. plan.op = "delete" => RowAfter(plan) = Absent
  BY DEF RowAfter
<1>2. plan.op = "create" => RowAfter(plan) \in Rows
  BY PlanKinds DEF RowAfter
<1>3. plan.op = "patch" => RowAfter(plan) \in Rows
  <2> SUFFICES ASSUME plan.op = "patch" PROVE Patched(server[plan.id], plan.patch) \in Rows
    BY DEF RowAfter
  <2>1. server[plan.id] \in Rows
    BY PlanKinds DEF WriteRefused, Stored
  <2>2. /\ DOMAIN plan.patch \subseteq Fields
        /\ plan.patch \in [DOMAIN plan.patch -> Values]
    BY PlanKinds
  <2> QED  BY <2>1, <2>2 DEF Patched, Rows
<1> QED  BY <1>1, <1>2, <1>3 DEF Stored

LEMMA ServerAfterType ==
  ASSUME NEW plan \in Plans, server \in [Ids -> Stored]
  PROVE  ServerAfter(plan) \in [Ids -> Stored]
<1>1. CASE plan.op \in {"where", "one"} \/ WriteRefused(plan)
  BY <1>1 DEF ServerAfter
<1>2. CASE ~(plan.op \in {"where", "one"} \/ WriteRefused(plan))
  <2>1. RowAfter(plan) \in Stored
    BY <1>2, PlanKinds, RowAfterType
  <2> QED  BY <1>2, <2>1 DEF ServerAfter
<1> QED  BY <1>1, <1>2

\* What an answer may be: a refusal, or stored rows, which the scope admits.
LEMMA AnswerShape ==
  ASSUME NEW plan \in Plans, server \in [Ids -> Stored], policy \in Policies,
         NEW answer \in PlanAnswers(plan)
  PROVE  \/ answer = Refused
         \/ \E ids \in SUBSET Ids :
              /\ answer = Returned(ids, ServerAfter(plan))
              /\ \A id \in ids : /\ ServerAfter(plan)[id] # Absent
                                 /\ InScope(ServerAfter(plan)[id])
<1>1. CASE plan.op = "where"
  <2>1. ServerAfter(plan) = server
    BY <1>1 DEF ServerAfter
  <2> DEFINE filter == ScopedFilter(plan.filter)
  <2>2. ASSUME NEW id \in Found(filter), filter # Absent
        PROVE  server[id] # Absent /\ InScope(server[id])
    <3>1. server[id] # Absent /\ MatchesFilter(server[id], filter) /\ id \in Ids
      BY DEF Found
    <3>2. server[id] \in [Fields -> Values]
      BY <3>1 DEF Stored, Rows
    <3>3. CASE scope = Absent
      BY <3>1, <3>3 DEF InScope
    <3>4. CASE scope # Absent
      <4>1. IsWhereFilter(scope) /\ IsWhereFilter(plan.filter)
        BY <1>1, <3>4, CollectionAssumption, PlanKinds, AskedType DEF scope
      <4>2. filter = IntersectFilters(plan.filter, scope)
        BY <3>4 DEF ScopedFilter
      <4>3. MatchesFilter(server[id], scope)
        BY <2>2, <3>1, <3>2, <4>1, <4>2, ScopeIsKept
      <4> QED  BY <3>1, <4>3 DEF InScope
    <3> QED  BY <3>3, <3>4
  <2>3. Found(filter) \in SUBSET Ids
    BY DEF Found
  <2>4. answer \in WhereAnswers(plan)
    BY <1>1 DEF PlanAnswers
  <2>5. \/ answer = Refused
        \/ answer = Returned({}, server)
        \/ filter # Absent /\ \E ids \in SUBSET Found(filter) : answer = Returned(ids, server)
    BY <2>4 DEF WhereAnswers
  <2> HIDE DEF filter
  <2> QED  BY <2>1, <2>2, <2>3, <2>5
<1>2. CASE plan.op = "one"
  <2>1. ServerAfter(plan) = server
    BY <1>2 DEF ServerAfter
  <2>2. answer = Returned({id \in {plan.id} : server[id] # Absent /\ InScope(server[id])}, server)
    BY <1>2 DEF PlanAnswers
  <2>3. {id \in {plan.id} : server[id] # Absent /\ InScope(server[id])} \in SUBSET Ids
    BY <1>2, PlanKinds
  <2> QED  BY <2>1, <2>2, <2>3
<1>3. CASE plan.op \in {"create", "patch", "delete"} /\ WriteRefused(plan)
  BY <1>3 DEF PlanAnswers
<1>4. CASE plan.op \in {"create", "patch", "delete"} /\ ~WriteRefused(plan)
  <2> DEFINE ids == {plan.id} \ {id \in Ids : plan.op = "delete"}
  <2>1. answer = Returned(ids, ServerAfter(plan))
    BY <1>4 DEF PlanAnswers
  <2>2. ids \in SUBSET Ids /\ plan.id \in Ids
    BY <1>4, PlanKinds
  <2>3. ASSUME NEW id \in ids
        PROVE  ServerAfter(plan)[id] # Absent /\ InScope(ServerAfter(plan)[id])
    <3>1. id = plan.id /\ plan.op \in {"create", "patch"}
      BY <1>4, <2>2
    <3>2. ServerAfter(plan)[id] = RowAfter(plan) /\ RowAfter(plan) \in Rows
      BY <1>4, <2>2, <3>1, RowAfterType DEF ServerAfter
    <3>3. InScope(RowAfter(plan))
      BY <1>4, <3>1 DEF RowAfter, WriteRefused
    <3> QED  BY <3>2, <3>3, CollectionAssumption
  <2> QED  BY <2>1, <2>2, <2>3
<1> QED  BY <1>1, <1>2, <1>3, <1>4, PlanKinds

LEMMA AnswerType ==
  ASSUME NEW plan \in Plans, server \in [Ids -> Stored], policy \in Policies,
         NEW answer \in PlanAnswers(plan)
  PROVE  answer \in Answer
BY AnswerShape, RefusedType, ReturnedType, ServerAfterType

LEMMA IngestedType ==
  ASSUME NEW plan \in Plans, NEW rows, table \in [Ids -> Stored],
         DOMAIN rows \subseteq Ids, \A id \in DOMAIN rows : rows[id] \in Rows
  PROVE  Ingested(plan, rows) \in [Ids -> Stored]
BY DEF Ingested, Stored

LEMMA MarkCoveredType ==
  ASSUME covered \subseteq Asked, NEW filter \in Asked
  PROVE  MarkCovered(filter) \subseteq Asked
BY DEF MarkCovered

LEMMA CallParts ==
  ASSUME NEW call \in Calls
  PROVE  /\ call.plan \in Plans /\ call.done \in BOOLEAN /\ call.answer \in Answer
         /\ call.seen \in [Ids -> Stored] /\ call.late \in SUBSET Ids
         /\ DOMAIN call.answer.rows \subseteq Ids
         /\ \A id \in DOMAIN call.answer.rows : call.answer.rows[id] \in Rows
BY DEF Calls, Answer

LEMMA CacheTypeInit == Init => CacheTypeInv
<1> SUFFICES ASSUME Init PROVE CacheTypeInv
  OBVIOUS
<1>1. server \in [Ids -> Stored] /\ synced \in [Ids -> Stored]
  BY CollectionAssumption DEF Init
<1>2. table \in [Ids -> Stored]
  BY DEF Init, Stored
<1>3. calls \in Seq(Calls) /\ Len(calls) <= issued
  BY DEF Init
<1> QED  BY <1>1, <1>2, <1>3, CollectionAssumption DEF Init, CacheTypeInv

LEMMA CacheTypeStep == CacheTypeInv /\ [Next]_vars => CacheTypeInv'
<1> SUFFICES ASSUME CacheTypeInv, [Next]_vars PROVE CacheTypeInv'
  OBVIOUS
<1> USE DEF CacheTypeInv
<1>0. \A i \in DOMAIN calls : i \in 1..Len(calls) /\ calls[i] \in Calls
  BY ElementOfSeq
<1>1. ASSUME NEW plan \in Plans, Issue(plan) PROVE CacheTypeInv'
  <2> DEFINE call == [plan |-> plan, done |-> FALSE, answer |-> Refused,
                      seen |-> [id \in Ids |-> Absent], late |-> {}]
  <2>1. call \in Calls
    BY RefusedType DEF Calls, Stored
  <2>2. calls' = Append(calls, call) /\ issued < MaxPlans /\ issued' = issued + 1
    BY <1>1 DEF Issue
  <2> HIDE DEF call
  <2>3. calls' \in Seq(Calls) /\ Len(calls') = Len(calls) + 1
    BY <2>1, <2>2, AppendProperties
  <2>4. issued' \in 0..MaxPlans /\ Len(calls') <= issued'
    BY <2>2, <2>3, CollectionAssumption
  <2> QED  BY <1>1, <2>3, <2>4 DEF Issue
<1>2. ASSUME NEW i \in DOMAIN calls, Execute(i) PROVE CacheTypeInv'
  <2>1. PICK answer \in PlanAnswers(calls[i].plan) :
          calls' = [calls EXCEPT ![i] = [plan |-> calls[i].plan, done |-> TRUE,
                                         answer |-> answer, seen |-> server', late |-> {}]]
    BY <1>2 DEF Execute
  <2>2. calls[i] \in Calls /\ calls[i].plan \in Plans
    BY <1>0, CallParts
  <2>3. server' \in [Ids -> Stored]
    BY <1>2, <2>2, ServerAfterType DEF Execute
  <2>4. [plan |-> calls[i].plan, done |-> TRUE,
         answer |-> answer, seen |-> server', late |-> {}] \in Calls
    BY <2>2, <2>3, AnswerType DEF Calls
  <2>5. calls' \in Seq(Calls) /\ Len(calls') = Len(calls)
    BY <1>0, <2>1, <2>4, ExceptSeq
  <2> QED  BY <1>2, <2>3, <2>5 DEF Execute
<1>3. ASSUME NEW i \in DOMAIN calls, Receive(i) PROVE CacheTypeInv'
  <2>1. calls' = SubSeq(calls, 1, i - 1) \o SubSeq(calls, i + 1, Len(calls))
    BY <1>3 DEF Receive
  <2>2. /\ SubSeq(calls, 1, i - 1) \in Seq(Calls)
        /\ Len(SubSeq(calls, 1, i - 1)) = i - 1
        /\ SubSeq(calls, i + 1, Len(calls)) \in Seq(Calls)
        /\ Len(SubSeq(calls, i + 1, Len(calls))) = Len(calls) - i
    BY <1>0, SubSeqProperties, LenProperties
  <2>3. calls' \in Seq(Calls) /\ Len(calls') = Len(calls) - 1
    <3>1. i \in Int /\ Len(calls) \in Nat
      BY <1>0, LenProperties
    <3> HIDE DEF CacheTypeInv
    <3>2. /\ SubSeq(calls, 1, i - 1) \o SubSeq(calls, i + 1, Len(calls)) \in Seq(Calls)
          /\ Len(SubSeq(calls, 1, i - 1) \o SubSeq(calls, i + 1, Len(calls)))
               = Len(SubSeq(calls, 1, i - 1)) + Len(SubSeq(calls, i + 1, Len(calls)))
      BY <2>2, ConcatProperties
    <3>3. (i - 1) + (Len(calls) - i) = Len(calls) - 1
      BY <3>1
    <3>4. Len(calls') = (i - 1) + (Len(calls) - i)
      BY <2>1, <2>2, <3>2, Zenon
    <3> QED  BY <2>1, <3>2, <3>3, <3>4
  <2>4. calls[i] \in Calls
    BY <1>0
  <2>5. synced' \in [Ids -> Stored]
    BY <1>3, <2>4, CallParts DEF Receive
  <2>6. table' \in [Ids -> Stored]
    <3>1. Ingested(calls[i].plan, calls[i].answer.rows) \in [Ids -> Stored]
      BY <2>4, CallParts, IngestedType
    <3> QED  BY <1>3, <3>1 DEF Receive
  <2>7. covered' \subseteq Asked
    <3>1. calls[i].plan.op = "where" => MarkCovered(calls[i].plan.filter) \subseteq Asked
      BY <2>4, CallParts, PlanKinds, MarkCoveredType
    <3> QED  BY <1>3, <3>1 DEF Receive
  <2>8. touched' \subseteq Ids \X Queries
    BY <1>3 DEF Receive
  <2>9. Len(calls') <= issued'
    BY <1>3, <2>3, CollectionAssumption, LenProperties DEF Receive
  <2> QED  BY <1>3, <2>3, <2>5, <2>6, <2>7, <2>8, <2>9 DEF Receive
<1>4. ASSUME NEW id \in Ids, NEW row \in RivalRows, RivalEdit(id, row) PROVE CacheTypeInv'
  <2>1. server' \in [Ids -> Stored]
    BY <1>4, CollectionAssumption DEF RivalEdit
  <2>2. touched' \subseteq Ids \X Queries
    BY <1>4 DEF RivalEdit
  <2>3. rivals' \in 0..MaxRivals
    BY <1>4, CollectionAssumption DEF RivalEdit
  <2>4. calls' \in Seq(Calls) /\ Len(calls') = Len(calls)
    <3>1. calls' = [i \in DOMAIN calls |->
                     [calls[i] EXCEPT !.late = IF calls[i].done THEN @ \cup {id} ELSE @]]
      BY <1>4 DEF RivalEdit
    <3>2. \A i \in DOMAIN calls : calls'[i] \in Calls
      BY <1>0, <3>1 DEF Calls
    <3>3. DOMAIN calls' = 1..Len(calls) /\ Len(calls) \in Nat /\ DOMAIN calls = 1..Len(calls)
      BY <3>1, LenProperties
    <3>4. calls' = [i \in 1..Len(calls) |-> calls'[i]]
      BY <3>1, <3>3
    <3>5. calls' \in [1..Len(calls) -> Calls]
      BY <3>2, <3>3, <3>4
    <3> QED  BY <3>3, <3>5, SeqDef, LenProperties
  <2> QED  BY <1>4, <2>1, <2>2, <2>3, <2>4 DEF RivalEdit
<1>5. CASE AtRest \/ UNCHANGED vars
  BY <1>5 DEF AtRest, vars
<1> QED  BY <1>1, <1>2, <1>3, <1>4, <1>5 DEF Next

\* In every state the cache holds rows and coverage entries of the types the
\* code declares, whatever the plans, the scope and the rivals.
THEOREM CacheTypeCorrect == Spec => []CacheTypeOK
<1>1. CacheTypeInv => CacheTypeOK
  <2> SUFFICES ASSUME CacheTypeInv PROVE CacheTypeOK
    OBVIOUS
  <2>1. \A i \in DOMAIN calls :
          /\ calls[i].plan \in Plans /\ calls[i].done \in BOOLEAN
          /\ calls[i].seen \in [Ids -> Stored] /\ calls[i].late \subseteq Ids
          /\ IsAnswer(calls[i].answer)
    <3> TAKE i \in DOMAIN calls
    <3>1. calls[i] \in Calls
      BY ElementOfSeq DEF CacheTypeInv
    <3>2. calls[i].answer.ok \in BOOLEAN
      BY <3>1 DEF Calls, Answer
    <3> QED  BY <3>1, <3>2, CallParts DEF IsAnswer
  <2> QED  BY <2>1 DEF CacheTypeInv, CacheTypeOK, Asked
<1> QED  BY <1>1, CacheTypeInit, CacheTypeStep, PTL DEF Spec

----------------------------------------------------------------------------
(* The session's scope.                                                    *)

\* Rows in the cache and rows under way to it are within the scope.
ScopeInv ==
  /\ \A id \in Ids : table[id] # Absent => InScope(table[id])
  /\ \A i \in DOMAIN calls : \A id \in DOMAIN calls[i].answer.rows :
       InScope(calls[i].answer.rows[id])

\* Taking one call out leaves only calls that were there.
LEMMA RemovedCalls ==
  ASSUME calls \in Seq(Calls), NEW i \in DOMAIN calls,
         calls' = SubSeq(calls, 1, i - 1) \o SubSeq(calls, i + 1, Len(calls))
  PROVE  \A j \in DOMAIN calls' : \E k \in DOMAIN calls : calls'[j] = calls[k]
<1> DEFINE p == SubSeq(calls, 1, i - 1)
           q == SubSeq(calls, i + 1, Len(calls))
<1>1. i \in 1..Len(calls) /\ Len(calls) \in Nat /\ DOMAIN calls = 1..Len(calls)
  BY LenProperties
<1>2. p \in Seq(Calls) /\ Len(p) = i - 1 /\ \A j \in 1..(i - 1) : p[j] = calls[j]
  <2>1. \A j \in 1..(i - 1) : calls[j] \in Calls
    BY <1>1, ElementOfSeq
  <2>2. /\ SubSeq(calls, 1, i - 1) \in Seq(Calls)
        /\ Len(SubSeq(calls, 1, i - 1)) = IF 1 <= i - 1 THEN (i - 1) - 1 + 1 ELSE 0
        /\ \A j \in 1..((i - 1) - 1 + 1) : SubSeq(calls, 1, i - 1)[j] = calls[1 + j - 1]
    BY <1>1, <2>1, SubSeqProperties
  <2>3. \A j \in 1..(i - 1) : 1 + j - 1 = j /\ j \in 1..((i - 1) - 1 + 1)
    BY <1>1
  <2> QED  BY <1>1, <2>2, <2>3
<1>3. /\ q \in Seq(Calls) /\ Len(q) = Len(calls) - i
      /\ \A j \in 1..(Len(calls) - i) : q[j] = calls[i + j]
  <2> DEFINE n == Len(calls)
  <2>1. \A j \in (i + 1)..n : calls[j] \in Calls
    BY <1>1, ElementOfSeq
  <2>2. /\ SubSeq(calls, i + 1, n) \in Seq(Calls)
        /\ Len(SubSeq(calls, i + 1, n)) = IF i + 1 <= n THEN n - (i + 1) + 1 ELSE 0
        /\ \A j \in 1..(n - (i + 1) + 1) : SubSeq(calls, i + 1, n)[j] = calls[(i + 1) + j - 1]
    <3>1. i + 1 \in Int /\ n \in Int
      BY ONLY <1>1 DEF n
    <3> HIDE DEF n
    <3> QED  BY ONLY <2>1, <3>1, SubSeqProperties
  <2>3. /\ (IF i + 1 <= n THEN n - (i + 1) + 1 ELSE 0) = n - i
        /\ \A j \in 1..(n - i) : (i + 1) + j - 1 = i + j /\ j \in 1..(n - (i + 1) + 1)
    BY ONLY <1>1 DEF n
  <2>2a. n \in Nat /\ i \in 1..n /\ n = Len(calls)
    BY ONLY <1>1 DEF n
  <2> HIDE DEF n
  <2>4. /\ SubSeq(calls, i + 1, n) \in Seq(Calls) /\ Len(SubSeq(calls, i + 1, n)) = n - i
        /\ \A j \in 1..(n - i) : SubSeq(calls, i + 1, n)[j] = calls[i + j]
    BY ONLY <2>2, <2>3
  <2> QED  BY ONLY <2>4 DEF n, q
<1>4. /\ p \o q \in Seq(Calls) /\ Len(p \o q) = Len(p) + Len(q)
      /\ \A j \in 1..(Len(p) + Len(q)) :
           (p \o q)[j] = IF j <= Len(p) THEN p[j] ELSE q[j - Len(p)]
  <2> HIDE DEF p, q
  <2> QED  BY <1>2, <1>3, ConcatProperties
<1>5. calls' = p \o q /\ DOMAIN calls' = 1..(Len(p) + Len(q))
  BY <1>4, LenProperties
<1> HIDE DEF p, q
<1> SUFFICES ASSUME NEW j \in 1..(Len(p) + Len(q))
             PROVE  \E k \in 1..Len(calls) : calls'[j] = calls[k]
  BY <1>1, <1>5
<1>6. CASE j <= i - 1
  <2>1. j \in 1..(i - 1) /\ j \in 1..Len(calls)
    BY <1>1, <1>2, <1>3, <1>6
  <2>2. calls'[j] = p[j]
    BY <1>2, <1>4, <1>5, <1>6
  <2> QED  BY <1>2, <2>1, <2>2
<1>7. CASE ~(j <= i - 1)
  <2>1. /\ j - (i - 1) \in 1..(Len(calls) - i) /\ j + 1 \in 1..Len(calls)
        /\ i + (j - (i - 1)) = j + 1
    <3>1. j \in 1..(Len(calls) - 1)
      BY ONLY <1>1, <1>2, <1>3, j \in 1..(Len(p) + Len(q))
    <3> QED  BY ONLY <1>1, <1>7, <3>1
  <2>2. calls'[j] = q[j - (i - 1)]
    <3>1. ~(j <= Len(p)) /\ j - Len(p) = j - (i - 1)
      BY <1>2, <1>7
    <3> QED  BY <1>4, <1>5, <3>1
  <2> QED  BY <1>3, <2>1, <2>2
<1> QED  BY <1>6, <1>7

LEMMA ScopeStep == CacheTypeInv /\ ScopeInv /\ [Next]_vars => ScopeInv'
<1> SUFFICES ASSUME CacheTypeInv, ScopeInv, [Next]_vars PROVE ScopeInv'
  OBVIOUS
<1>0. \A i \in DOMAIN calls : i \in 1..Len(calls) /\ calls[i] \in Calls
  BY ElementOfSeq DEF CacheTypeInv
<1>a. policy' = policy
  BY DEF Next, Issue, Execute, Receive, RivalEdit, AtRest, vars
<1>b. \A row : InScope(row)' <=> InScope(row)
  BY <1>a DEF InScope, scope
<1>1. ASSUME NEW plan \in Plans, Issue(plan) PROVE ScopeInv'
  <2> DEFINE call == [plan |-> plan, done |-> FALSE, answer |-> Refused,
                      seen |-> [id \in Ids |-> Absent], late |-> {}]
  <2>1. calls' = Append(calls, call) /\ table' = table
    BY <1>1 DEF Issue
  <2>2. call \in Calls /\ DOMAIN call.answer.rows = {}
    BY RefusedType DEF Calls, Stored, Refused, NoRows
  <2> HIDE DEF call
  <2>3. \A j \in DOMAIN calls' : calls'[j] = call \/ (j \in DOMAIN calls /\ calls'[j] = calls[j])
    BY <2>1, <2>2, AppendProperties, LenProperties DEF CacheTypeInv
  <2> QED  BY <1>b, <2>1, <2>2, <2>3 DEF ScopeInv
<1>2. ASSUME NEW i \in DOMAIN calls, Execute(i) PROVE ScopeInv'
  <2>1. PICK answer \in PlanAnswers(calls[i].plan) :
          calls' = [calls EXCEPT ![i] = [plan |-> calls[i].plan, done |-> TRUE,
                                         answer |-> answer, seen |-> server', late |-> {}]]
    BY <1>2 DEF Execute
  <2>2. calls[i].plan \in Plans
    BY <1>0, CallParts
  <2>3. \A id \in DOMAIN answer.rows : InScope(answer.rows[id])
    <3>1. CASE answer = Refused
      BY <3>1 DEF Refused, NoRows
    <3>2. CASE answer # Refused
      <4>1. PICK ids \in SUBSET Ids :
              /\ answer = Returned(ids, ServerAfter(calls[i].plan))
              /\ \A id \in ids : InScope(ServerAfter(calls[i].plan)[id])
        BY <2>2, <3>2, AnswerShape DEF CacheTypeInv
      <4> QED  BY <4>1 DEF Returned
    <3> QED  BY <3>1, <3>2
  <2>4. /\ DOMAIN calls' = DOMAIN calls /\ calls'[i].answer = answer
        /\ \A j \in DOMAIN calls : j # i => calls'[j] = calls[j]
    BY <2>1
  <2>5. table' = table
    BY <1>2 DEF Execute
  <2> QED  BY <1>b, <2>3, <2>4, <2>5 DEF ScopeInv
<1>3. ASSUME NEW i \in DOMAIN calls, Receive(i) PROVE ScopeInv'
  <2>1. \A j \in DOMAIN calls' : \E k \in DOMAIN calls : calls'[j] = calls[k]
    BY <1>3, RemovedCalls DEF Receive, CacheTypeInv
  <2>2. \A id \in Ids : table'[id] # Absent => InScope(table'[id])
    <3> DEFINE rows == calls[i].answer.rows
               after == Ingested(calls[i].plan, rows)
    <3>1. table' \in {table, after}
      BY <1>3 DEF Receive
    <3>2. \A id \in Ids : after[id] \in {Absent, table[id]}
                           \/ (id \in DOMAIN rows /\ after[id] = rows[id])
      BY DEF Ingested
    <3>3. \A id \in DOMAIN rows : InScope(rows[id])
      BY DEF ScopeInv
    <3> HIDE DEF after, rows
    <3> QED  BY <3>1, <3>2, <3>3 DEF ScopeInv
  <2> QED  BY <1>b, <2>1, <2>2 DEF ScopeInv
<1>4. ASSUME NEW id \in Ids, NEW row \in RivalRows, RivalEdit(id, row) PROVE ScopeInv'
  <2>1. table' = table /\ DOMAIN calls' = DOMAIN calls
    BY <1>4 DEF RivalEdit
  <2>2. \A j \in DOMAIN calls : calls'[j].answer = calls[j].answer
    <3> TAKE j \in DOMAIN calls
    <3>1. calls'[j] = [calls[j] EXCEPT !.late = IF calls[j].done THEN @ \cup {id} ELSE @]
      BY <1>4 DEF RivalEdit
    <3> QED  BY <1>0, <3>1 DEF Calls
  <2> QED  BY <1>b, <2>1, <2>2 DEF ScopeInv
<1>5. CASE AtRest \/ UNCHANGED vars
  <2>1. table' = table /\ calls' = calls
    BY <1>5 DEF AtRest, vars
  <2> QED  BY <1>b, <2>1 DEF ScopeInv
<1> QED  BY <1>1, <1>2, <1>3, <1>4, <1>5 DEF Next

\* The scope in plain terms, for scopes whose bounds are comparable.
LEMMA InScopeExact ==
  ASSUME \A granted \in Policies : granted.scope # Absent =>
           \A fd \in DOMAIN granted.scope : Plain(granted.scope[fd]),
         policy \in Policies, NEW row \in Rows
  PROVE  InScope(row) <=> MeetsScope(row)
<1>1. CASE scope = Absent
  BY <1>1 DEF InScope, MeetsScope
<1>2. CASE scope # Absent
  <2>1. IsWhereFilter(scope) /\ \A fd \in DOMAIN scope : Plain(scope[fd])
    BY <1>2, CollectionAssumption DEF scope
  <2>2. ASSUME NEW fd \in DOMAIN scope
        PROVE  Matches(row[fd], Normalize(scope[fd])) <=> Meets(row[fd], scope[fd])
    <3>1. scope[fd] \in FieldFilters /\ Plain(scope[fd]) /\ row[fd] \in Values
      BY <2>1 DEF IsWhereFilter, Rows
    <3> QED  BY <3>1, NormalizeExact
  <2> QED  BY <1>2, <2>2 DEF InScope, MeetsScope, MatchesFilter, MeetsAll
<1> QED  BY <1>1, <1>2

\* Whatever the session asks for and whatever others write, no row outside
\* its access scope ever reaches its cache.
THEOREM StaysInScope ==
  ASSUME \A granted \in Policies : granted.scope # Absent =>
           \A fd \in DOMAIN granted.scope : Plain(granted.scope[fd])
  PROVE  Spec => []OnlyInScope
<1>1. Init => ScopeInv
  BY DEF Init, ScopeInv
<1>2. CacheTypeInv /\ ScopeInv => OnlyInScope
  <2> SUFFICES ASSUME CacheTypeInv, ScopeInv, NEW id \in Ids, table[id] # Absent
               PROVE  MeetsScope(table[id])
    BY DEF OnlyInScope
  <2>1. InScope(table[id]) /\ table[id] \in Rows /\ policy \in Policies
    BY DEF ScopeInv, CacheTypeInv, Stored
  <2> QED  BY <2>1, InScopeExact
<1> QED  BY <1>1, <1>2, CacheTypeInit, CacheTypeStep, ScopeStep, PTL DEF Spec

----------------------------------------------------------------------------
(* Coverage.                                                               *)

LEMMA MarkCoveredKeeps ==
  ASSUME covered \subseteq Asked, NEW added \in Asked, covered' = MarkCovered(added),
         NEW filter, IsWhereFilter(filter), Covers(filter)
  PROVE  Covers(filter)'
<1>1. PICK entry \in covered : FilterSubsumes(entry, filter)
  BY DEF Covers
<1>2. CASE Covers(added)
  BY <1>1, <1>2 DEF MarkCovered, Covers
<1>3. CASE ~Covers(added)
  <2>1. covered' = {e \in covered : ~FilterSubsumes(added, e)} \cup {added}
    BY <1>3 DEF MarkCovered
  <2>2. CASE FilterSubsumes(added, entry)
    <3>1. FilterSubsumes(added, filter)
      BY <1>1, <2>2, AskedType, SubsumesTransitive
    <3> QED  BY <2>1, <3>1 DEF Covers
  <2>3. CASE ~FilterSubsumes(added, entry)
    BY <1>1, <2>1, <2>3 DEF Covers
  <2> QED  BY <2>2, <2>3
<1> QED  BY <1>2, <1>3

\* A query that may be answered locally stays so: an entry is dropped only
\* for a wider one.
THEOREM CoverageNeverLost == Spec => CoverageGrows
<1>1. CacheTypeInv /\ [Next]_vars =>
        [\A filter \in Queries : Covers(filter) => Covers(filter)']_vars
  <2> SUFFICES ASSUME CacheTypeInv, Next, NEW filter \in Queries, Covers(filter)
               PROVE  Covers(filter)'
    OBVIOUS
  <2>1. CASE covered' = covered
    BY <2>1 DEF Covers
  <2>2. CASE covered' # covered
    <3>1. PICK i \in DOMAIN calls : /\ calls[i].plan.op = "where"
                                    /\ covered' = MarkCovered(calls[i].plan.filter)
      BY <2>2 DEF Next, Issue, Execute, Receive, RivalEdit, AtRest, vars
    <3>2. calls[i] \in Calls
      BY ElementOfSeq DEF CacheTypeInv
    <3>3. calls[i].plan.filter \in Asked
      BY <3>1, <3>2, CallParts, PlanKinds
    <3>4. IsWhereFilter(filter)
      BY PlansAssumption
    <3> QED  BY <3>1, <3>3, <3>4, MarkCoveredKeeps DEF CacheTypeInv
  <2> QED  BY <2>1, <2>2
<1> QED  BY <1>1, CacheTypeInit, CacheTypeStep, PTL DEF Spec, CoverageGrows

----------------------------------------------------------------------------
(* Exact answers and exact coverage.                                       *)

\* For these the canonical form means what the filter says.
LEMMA PlainExact ==
  ASSUME NEW filter, IsWhereFilter(filter), PlainFilter(filter), NEW row \in Rows
  PROVE  MatchesFilter(row, filter) <=> MeetsAll(row, filter)
<1>1. ASSUME NEW fd \in DOMAIN filter
      PROVE  Matches(row[fd], Normalize(filter[fd])) <=> Meets(row[fd], filter[fd])
  <2>1. filter[fd] \in FieldFilters /\ Plain(filter[fd]) /\ row[fd] \in Values
    BY DEF IsWhereFilter, PlainFilter, Rows
  <2> QED  BY <2>1, NormalizeExact
<1> QED  BY <1>1 DEF MatchesFilter, MeetsAll

\* What the server finds for a query within the scope is what is meant.
LEMMA FoundExact ==
  ASSUME ExactFilters, policy \in Policies, server \in [Ids -> Stored],
         NEW filter \in Asked, NEW id \in Ids
  PROVE  /\ ScopedFilter(filter) # Absent =>
              (id \in Found(ScopedFilter(filter)) <=> Belongs(View(server, id), filter))
         /\ ScopedFilter(filter) = Absent => ~Belongs(View(server, id), filter)
<1>1. CASE server[id] = Absent
  BY <1>1 DEF Found, Belongs, View
<1>2. CASE server[id] # Absent
  <2> DEFINE row == server[id]
  <2>1. row \in Rows /\ row \in [Fields -> Values]
    BY <1>2 DEF Stored, Rows
  <2>2. IsWhereFilter(filter) /\ PlainFilter(filter)
    BY AskedType DEF ExactFilters
  <2>3. MatchesFilter(row, filter) <=> MeetsAll(row, filter)
    BY <2>1, <2>2, PlainExact
  <2>4. CASE scope = Absent
    <3>1. ScopedFilter(filter) = filter /\ View(server, id) = row
      BY <1>2, <2>4 DEF ScopedFilter, View, MeetsScope
    <3>2. filter # Absent
      <4>1. DOMAIN filter \in SUBSET Fields /\ filter \in [DOMAIN filter -> FieldFilters]
        BY <2>2 DEF IsWhereFilter
      <4> QED  BY <4>1, FilterAssumption
    <3> QED  BY <1>2, <2>3, <3>1, <3>2 DEF Found, Belongs
  <2>5. CASE scope # Absent
    <3>1. IsWhereFilter(scope) /\ PlainFilter(scope) /\ Combinable(filter, scope)
      BY <2>5, CollectionAssumption DEF scope, ExactFilters
    <3>2. MatchesFilter(row, scope) <=> MeetsAll(row, scope)
      BY <2>1, <3>1, PlainExact
    <3>3. ScopedFilter(filter) = IntersectFilters(filter, scope)
      BY <2>5 DEF ScopedFilter
    <3>4. MatchesFilter(row, filter) /\ MatchesFilter(row, scope) <=>
            /\ ScopedFilter(filter) # Absent
            /\ MatchesFilter(row, ScopedFilter(filter))
      BY <2>1, <2>2, <3>1, <3>3, IntersectExact
    <3>5. MeetsScope(row) <=> MeetsAll(row, scope)
      BY <2>5 DEF MeetsScope
    <3> QED  BY <1>2, <2>3, <3>2, <3>4, <3>5, ScalarsAssumption DEF Found, Belongs, View
  <2> QED  BY <2>4, <2>5
<1> QED  BY <1>1, <1>2

\* What an answer says about the rows it was computed from: its rows are rows
\* the session may see, a set is the set asked for, and an answer about one
\* record says what there is of it.
Fits(plan, answer, seen) ==
  /\ \A id \in DOMAIN answer.rows :
       View(seen, id) # Absent /\ answer.rows[id] = View(seen, id)
  /\ answer.ok /\ plan.op = "where" =>
       \A id \in Ids :
         /\ id \in DOMAIN answer.rows => Belongs(View(seen, id), plan.filter)
         /\ plan.limit = Absent /\ Belongs(View(seen, id), plan.filter)
              => id \in DOMAIN answer.rows
  /\ answer.ok /\ plan.op # "where" =>
       /\ DOMAIN answer.rows \subseteq {plan.id}
       /\ View(seen, plan.id) # Absent => plan.id \in DOMAIN answer.rows

LEMMA RefusedFits == ASSUME NEW plan, NEW seen PROVE Fits(plan, Refused, seen)
BY DEF Fits, Refused, NoRows

LEMMA ScopePlain ==
  ASSUME ExactFilters
  PROVE  \A granted \in Policies : granted.scope # Absent =>
           \A fd \in DOMAIN granted.scope : Plain(granted.scope[fd])
BY DEF ExactFilters, PlainFilter

\* Rows the scope admits are what the session may see of their records.
LEMMA ReturnedRows ==
  ASSUME ExactFilters, policy \in Policies, NEW rows \in [Ids -> Stored],
         NEW ids \in SUBSET Ids, NEW answer, answer = Returned(ids, rows),
         \A id \in ids : rows[id] # Absent /\ InScope(rows[id])
  PROVE  /\ DOMAIN answer.rows = ids /\ answer.ok
         /\ \A id \in ids : View(rows, id) # Absent /\ answer.rows[id] = View(rows, id)
<1>1. \A id \in ids : rows[id] \in Rows
  BY DEF Stored
<1>2. \A id \in ids : InScope(rows[id]) <=> MeetsScope(rows[id])
  BY <1>1, ScopePlain, InScopeExact
<1> QED  BY <1>2 DEF Returned, View

LEMMA AnswerFits ==
  ASSUME ExactFilters, NEW plan \in Plans, server \in [Ids -> Stored], policy \in Policies,
         NEW answer \in PlanAnswers(plan)
  PROVE  Fits(plan, answer, ServerAfter(plan))
<1> DEFINE after == ServerAfter(plan)
<1>0. after \in [Ids -> Stored]
  BY ServerAfterType
<1>1. CASE answer = Refused
  BY <1>1, RefusedFits
<1>2. CASE answer # Refused
  <2>1. PICK ids \in SUBSET Ids :
          /\ answer = Returned(ids, after)
          /\ \A id \in ids : after[id] # Absent /\ InScope(after[id])
    BY <1>2, AnswerShape
  <2> HIDE DEF after
  <2>2. /\ DOMAIN answer.rows = ids /\ answer.ok
        /\ \A id \in ids : View(after, id) # Absent /\ answer.rows[id] = View(after, id)
    BY <1>0, <2>1, ReturnedRows
  <2> USE DEF after
  <2>3. CASE plan.op = "where"
    <3> DEFINE filter == ScopedFilter(plan.filter)
    <3>1. plan.filter \in Asked /\ after = server
      BY <2>3, PlanKinds DEF ServerAfter
    <3>2. answer \in WhereAnswers(plan)
      BY <2>3 DEF PlanAnswers
    <3>3. \/ filter = Absent /\ answer = Returned({}, server)
          \/ /\ filter # Absent
             /\ \/ \E S \in SUBSET Found(filter) :
                     plan.limit # Absent /\ answer = Returned(S, server)
                \/ answer = Returned(Found(filter), server)
      BY <1>2, <3>2 DEF WhereAnswers
    <3>4. \A S : DOMAIN Returned(S, server).rows = S
      BY DEF Returned
    <3>5. \/ filter = Absent /\ ids = {}
          \/ /\ filter # Absent /\ ids \subseteq Found(filter)
             /\ plan.limit = Absent => ids = Found(filter)
      BY <2>2, <3>3, <3>4
    <3>6. \A id \in Ids :
            /\ filter # Absent => (id \in Found(filter) <=> Belongs(View(server, id), plan.filter))
            /\ filter = Absent => ~Belongs(View(server, id), plan.filter)
      BY <3>1, FoundExact
    <3> HIDE DEF filter
    <3> QED  BY <2>2, <2>3, <3>1, <3>5, <3>6 DEF Fits
  <2>4. CASE plan.op = "one"
    <3>1. after = server /\ plan.id \in Ids
      BY <2>4, PlanKinds DEF ServerAfter
    <3>2. answer = Returned({id \in {plan.id} : server[id] # Absent /\ InScope(server[id])}, server)
      BY <2>4 DEF PlanAnswers
    <3>3. ids = {id \in {plan.id} : server[id] # Absent /\ InScope(server[id])}
      BY <2>2, <3>2 DEF Returned
    <3>4. View(server, plan.id) # Absent => InScope(server[plan.id])
      <4>1. SUFFICES ASSUME server[plan.id] # Absent, MeetsScope(server[plan.id])
                     PROVE  InScope(server[plan.id])
        BY DEF View
      <4>2. server[plan.id] \in Rows
        BY <3>1, <4>1 DEF Stored
      <4> QED  BY <4>1, <4>2, ScopePlain, InScopeExact
    <3>5. View(server, plan.id) # Absent => server[plan.id] # Absent
      BY DEF View
    <3> QED  BY <2>2, <2>4, <3>1, <3>3, <3>4, <3>5 DEF Fits
  <2>5. CASE plan.op \in {"create", "patch", "delete"}
    <3>1. ~WriteRefused(plan) /\ plan.id \in Ids
      BY <1>2, <2>5, PlanKinds DEF PlanAnswers
    <3>2. answer = Returned({plan.id} \ {id \in Ids : plan.op = "delete"}, after)
      BY <2>5, <3>1 DEF PlanAnswers
    <3>3. ids = {plan.id} \ {id \in Ids : plan.op = "delete"}
      BY <2>2, <3>2 DEF Returned
    <3>4. plan.op = "delete" => after[plan.id] = Absent
      BY <2>5, <3>1 DEF ServerAfter, RowAfter
    <3>5. after[plan.id] = Absent => View(after, plan.id) = Absent
      BY DEF View
    <3> QED  BY <2>2, <2>5, <3>1, <3>3, <3>4, <3>5 DEF Fits
  <2> QED  BY <2>3, <2>4, <2>5, PlanKinds
<1> QED  BY <1>1, <1>2

\* Only a write that succeeds changes the server's rows, and only its record.
LEMMA ServerMoves ==
  ASSUME NEW plan \in Plans, server \in [Ids -> Stored], NEW id \in Ids,
         ServerAfter(plan)[id] # server[id], NEW answer \in PlanAnswers(plan)
  PROVE  plan.op \notin {"where", "one"} /\ plan.id = id /\ answer.ok
<1>1. plan.op \in {"create", "patch", "delete"} /\ ~WriteRefused(plan)
  BY PlanKinds DEF ServerAfter
<1>2. plan.id = id
  BY <1>1, PlanKinds DEF ServerAfter
<1>3. answer = Returned({plan.id} \ {i \in Ids : plan.op = "delete"}, ServerAfter(plan))
  BY <1>1 DEF PlanAnswers
<1> QED  BY <1>1, <1>2, <1>3 DEF Returned

\* Every answer fits the rows it was computed from.
FitInv ==
  \A i \in DOMAIN calls :
    calls[i].done => Fits(calls[i].plan, calls[i].answer, calls[i].seen)

LEMMA FitInit == Init => FitInv
BY DEF Init, FitInv

\* A step of the calls, told call by call.
LEMMA CallsIssued ==
  ASSUME CacheTypeInv, NEW plan \in Plans, Issue(plan), NEW n, n = Len(calls)
  PROVE  /\ n \in Nat /\ DOMAIN calls = 1..n /\ DOMAIN calls' = 1..(n + 1)
         /\ \A i \in 1..n : calls'[i] = calls[i]
         /\ calls'[n + 1].done = FALSE /\ calls'[n + 1].late = {}
<1> DEFINE call == [plan |-> plan, done |-> FALSE, answer |-> Refused,
                    seen |-> [id \in Ids |-> Absent], late |-> {}]
<1>1. call \in Calls /\ call.done = FALSE /\ call.late = {}
  BY RefusedType DEF Calls, Stored
<1>2. calls' = Append(calls, call) /\ calls \in Seq(Calls)
  BY DEF Issue, CacheTypeInv
<1> HIDE DEF call
<1>3. /\ calls' \in Seq(Calls) /\ Len(calls') = n + 1
      /\ \A i \in 1..n : calls'[i] = calls[i]
      /\ calls'[n + 1] = call
  BY <1>1, <1>2, AppendProperties
<1>4. n \in Nat /\ DOMAIN calls = 1..n /\ DOMAIN calls' = 1..(n + 1)
  BY <1>2, <1>3, LenProperties
<1> QED  BY <1>1, <1>3, <1>4

LEMMA CallsExecuted ==
  ASSUME CacheTypeInv, NEW k \in DOMAIN calls, Execute(k)
  PROVE  \E answer \in PlanAnswers(calls[k].plan) :
           /\ DOMAIN calls' = DOMAIN calls
           /\ \A i \in DOMAIN calls : i # k => calls'[i] = calls[i]
           /\ calls'[k] = [plan |-> calls[k].plan, done |-> TRUE, answer |-> answer,
                           seen |-> server', late |-> {}]
<1>1. PICK answer \in PlanAnswers(calls[k].plan) :
        calls' = [calls EXCEPT ![k] = [plan |-> calls[k].plan, done |-> TRUE,
                                       answer |-> answer, seen |-> server', late |-> {}]]
  BY DEF Execute
<1>2. /\ DOMAIN calls' = DOMAIN calls
      /\ \A i \in DOMAIN calls : i # k => calls'[i] = calls[i]
      /\ calls'[k] = [plan |-> calls[k].plan, done |-> TRUE, answer |-> answer,
                      seen |-> server', late |-> {}]
  BY <1>1
<1> QED  BY <1>2

LEMMA CallsReceived ==
  ASSUME CacheTypeInv, calls # <<>>, calls' = SubSeq(calls, 1, 0) \o SubSeq(calls, 2, Len(calls))
  PROVE  LET n == Len(calls)
         IN /\ n \in Nat /\ n >= 1 /\ DOMAIN calls = 1..n /\ DOMAIN calls' = 1..(n - 1)
            /\ \A i \in 1..(n - 1) : calls'[i] = calls[i + 1]
<1> DEFINE n == Len(calls)
           p == SubSeq(calls, 1, 0)
           q == SubSeq(calls, 2, n)
<1>1. n \in Nat /\ n >= 1 /\ DOMAIN calls = 1..n /\ calls \in Seq(Calls)
  BY LenProperties, EmptySeq DEF CacheTypeInv
<1>2. \A i \in 1..n : calls[i] \in Calls
  BY <1>1, ElementOfSeq
<1>3. p \in Seq(Calls) /\ Len(p) = 0
  BY <1>1, <1>2, SubSeqProperties
<1>4. /\ q \in Seq(Calls) /\ Len(q) = n - 1
      /\ \A i \in 1..(n - 1) : q[i] = calls[i + 1]
  <2>1. /\ q \in Seq(Calls) /\ Len(q) = IF 2 <= n THEN n - 2 + 1 ELSE 0
        /\ \A i \in 1..(n - 2 + 1) : q[i] = calls[2 + i - 1]
    BY <1>1, <1>2, SubSeqProperties
  <2>2. /\ (IF 2 <= n THEN n - 2 + 1 ELSE 0) = n - 1
        /\ \A i \in 1..(n - 1) : 2 + i - 1 = i + 1 /\ i \in 1..(n - 2 + 1)
    BY <1>1
  <2> QED  BY <2>1, <2>2
<1>5. calls' = p \o q
  OBVIOUS
<1> HIDE DEF p, q
<1>6. /\ p \o q \in Seq(Calls) /\ Len(p \o q) = Len(p) + Len(q)
      /\ \A i \in 1..(Len(p) + Len(q)) :
           (p \o q)[i] = IF i <= Len(p) THEN p[i] ELSE q[i - Len(p)]
  BY <1>3, <1>4, ConcatProperties
<1>7. DOMAIN calls' = 1..(n - 1)
  BY <1>1, <1>3, <1>4, <1>5, <1>6, LenProperties
<1>8. \A i \in 1..(n - 1) : calls'[i] = calls[i + 1]
  BY <1>1, <1>3, <1>4, <1>5, <1>6
<1> QED  BY <1>1, <1>7, <1>8

LEMMA CallsEdited ==
  ASSUME CacheTypeInv, NEW id \in Ids, NEW row \in RivalRows, RivalEdit(id, row)
  PROVE  /\ DOMAIN calls' = DOMAIN calls
         /\ \A i \in DOMAIN calls :
              /\ calls'[i].plan = calls[i].plan /\ calls'[i].done = calls[i].done
              /\ calls'[i].answer = calls[i].answer /\ calls'[i].seen = calls[i].seen
              /\ calls'[i].late = IF calls[i].done THEN calls[i].late \cup {id}
                                  ELSE calls[i].late
<1>1. calls' = [i \in DOMAIN calls |->
                  [calls[i] EXCEPT !.late = IF calls[i].done THEN @ \cup {id} ELSE @]]
  BY DEF RivalEdit
<1>2. \A i \in DOMAIN calls : calls[i] \in Calls
  BY ElementOfSeq DEF CacheTypeInv
<1> QED  BY <1>1, <1>2 DEF Calls

LEMMA PolicyStays == [Next]_vars => policy' = policy
BY DEF Next, Issue, Execute, Receive, RivalEdit, AtRest, vars

LEMMA FitsStays ==
  ASSUME policy' = policy
  PROVE  /\ \A plan, answer, seen : Fits(plan, answer, seen)' <=> Fits(plan, answer, seen)
         /\ \A rows, id : View(rows, id)' = View(rows, id)
BY DEF Fits, View, MeetsScope, scope, Belongs

LEMMA FitStep ==
  ASSUME ExactFilters PROVE CacheTypeInv /\ FitInv /\ [Next]_vars => FitInv'
<1> SUFFICES ASSUME CacheTypeInv, FitInv, [Next]_vars PROVE FitInv'
  OBVIOUS
<1>1. ASSUME NEW plan \in Plans, Issue(plan) PROVE FitInv'
  <2> DEFINE n == Len(calls)
  <2>1. /\ n \in Nat /\ DOMAIN calls = 1..n /\ DOMAIN calls' = 1..(n + 1)
        /\ \A i \in 1..n : calls'[i] = calls[i]
        /\ calls'[n + 1].done = FALSE
    BY <1>1, CallsIssued
  <2> HIDE DEF n
  <2>2. \A i \in DOMAIN calls' : calls'[i].done => i \in DOMAIN calls /\ calls'[i] = calls[i]
    BY <2>1
  <2> QED  BY <2>2, PolicyStays, FitsStays DEF FitInv
<1>2. ASSUME NEW k \in DOMAIN calls, Execute(k) PROVE FitInv'
  <2>1. PICK answer \in PlanAnswers(calls[k].plan) :
           /\ DOMAIN calls' = DOMAIN calls
           /\ \A i \in DOMAIN calls : i # k => calls'[i] = calls[i]
           /\ calls'[k] = [plan |-> calls[k].plan, done |-> TRUE, answer |-> answer,
                           seen |-> server', late |-> {}]
    BY <1>2, CallsExecuted
  <2>2. calls[k].plan \in Plans /\ server' = ServerAfter(calls[k].plan)
    <3>1. calls[k] \in Calls
      BY ElementOfSeq DEF CacheTypeInv
    <3> QED  BY <1>2, <3>1, CallParts DEF Execute
  <2>3. Fits(calls[k].plan, answer, server')
    BY <2>2, AnswerFits DEF CacheTypeInv
  <2> QED  BY <2>1, <2>3, PolicyStays, FitsStays DEF FitInv
<1>3. ASSUME NEW i \in DOMAIN calls, Receive(i) PROVE FitInv'
  <2>1. \A j \in DOMAIN calls' : \E k \in DOMAIN calls : calls'[j] = calls[k]
    BY <1>3, RemovedCalls DEF Receive, CacheTypeInv
  <2> QED  BY <2>1, PolicyStays, FitsStays DEF FitInv
<1>4. ASSUME NEW id \in Ids, NEW row \in RivalRows, RivalEdit(id, row) PROVE FitInv'
  BY <1>4, CallsEdited, PolicyStays, FitsStays DEF FitInv
<1>5. CASE AtRest \/ UNCHANGED vars
  BY <1>5, PolicyStays, FitsStays DEF AtRest, vars, FitInv
<1> QED  BY <1>1, <1>2, <1>3, <1>4, <1>5 DEF Next

\* A set the server answers is the set that was asked for, within the scope,
\* for all filters the algebra treats exactly.
THEOREM AnswersAreExact ==
  ASSUME ExactFilters PROVE Spec => []AnswersExact
<1>1. CacheTypeInv /\ FitInv => AnswersExact
  <2> SUFFICES ASSUME CacheTypeInv, FitInv, NEW i \in DOMAIN calls,
                      calls[i].plan.op = "where", calls[i].done, calls[i].answer.ok
               PROVE  LET seen == calls[i].seen
                          meant == {id \in Ids : /\ seen[id] # Absent /\ MeetsScope(seen[id])
                                                 /\ MeetsAll(seen[id], calls[i].plan.filter)}
                      IN /\ DOMAIN calls[i].answer.rows \subseteq meant
                         /\ calls[i].plan.limit = Absent => DOMAIN calls[i].answer.rows = meant
    BY DEF AnswersExact
  <2> DEFINE seen == calls[i].seen
             plan == calls[i].plan
             rows == calls[i].answer.rows
             meant == {id \in Ids : /\ seen[id] # Absent /\ MeetsScope(seen[id])
                                    /\ MeetsAll(seen[id], plan.filter)}
  <2>1. Fits(plan, calls[i].answer, seen)
    BY DEF FitInv
  <2>2. \A id \in Ids : id \in meant <=> Belongs(View(seen, id), plan.filter)
    BY DEF Belongs, View
  <2>3. DOMAIN rows \subseteq Ids
    BY ElementOfSeq, CallParts DEF CacheTypeInv
  <2> HIDE DEF meant
  <2>4. DOMAIN rows \subseteq meant /\ (plan.limit = Absent => meant \subseteq DOMAIN rows)
    <3>1. meant \subseteq Ids
      BY DEF meant
    <3> QED  BY <2>1, <2>2, <2>3, <3>1 DEF Fits
  <2> QED  BY <2>4 DEF meant
<1> QED  BY <1>1, CacheTypeInit, CacheTypeStep, FitInit, FitStep, PTL DEF Spec

\* The write that is the i-th call was accepted and changed the record.
Own(i, id) ==
  /\ i \in DOMAIN calls /\ calls[i].done /\ calls[i].answer.ok
  /\ calls[i].plan.op \notin {"where", "one"} /\ calls[i].plan.id = id

\* The server's rows when the call after the i-th was executed, or as they are.
SeenAfter(i) ==
  IF i + 1 \in DOMAIN calls /\ calls[i + 1].done THEN calls[i + 1].seen ELSE server

\* The rows the client was told of, those its calls under way were executed
\* on and those the server has now are a chain: from one to the next a record
\* changes by the own write in between or by a rival, and then it is late in
\* the calls before and touched.
DoneInOrder ==
  \A i, j \in DOMAIN calls : i < j => /\ calls[j].done => calls[i].done
                                      /\ calls[j].late \subseteq calls[i].late
LateIsTouched ==
  \A i \in DOMAIN calls : /\ calls[i].late \X Queries \subseteq touched
                          /\ ~calls[i].done => calls[i].late = {}
FirstLink ==
  \A id \in Ids : synced[id] # SeenAfter(0)[id] => Own(1, id) \/ {id} \X Queries \subseteq touched
Links ==
  \A i \in DOMAIN calls : calls[i].done =>
    \A id \in Ids : calls[i].seen[id] # SeenAfter(i)[id] => Own(i + 1, id) \/ id \in calls[i].late
ChainInv == DoneInOrder /\ LateIsTouched /\ FirstLink /\ Links

LEMMA ChainInit == Init => ChainInv
<1> SUFFICES ASSUME Init PROVE ChainInv
  OBVIOUS
<1>1. DOMAIN calls = {} /\ synced = server
  BY DEF Init
<1>2. SeenAfter(0) = server
  BY <1>1 DEF SeenAfter
<1> QED  BY <1>1, <1>2 DEF ChainInv, DoneInOrder, LateIsTouched, FirstLink, Links

LEMMA CallNumbers ==
  ASSUME CacheTypeInv
  PROVE  Len(calls) \in Nat /\ DOMAIN calls = 1..Len(calls)
BY LenProperties DEF CacheTypeInv

LEMMA ChainIssued ==
  ASSUME CacheTypeInv, ChainInv, NEW plan \in Plans, Issue(plan) PROVE ChainInv'
<1> DEFINE n == Len(calls)
<1>1. /\ n \in Nat /\ DOMAIN calls = 1..n /\ DOMAIN calls' = 1..(n + 1)
      /\ \A i \in 1..n : calls'[i] = calls[i]
      /\ calls'[n + 1].done = FALSE /\ calls'[n + 1].late = {}
  BY CallsIssued
<1>2. server' = server /\ synced' = synced /\ touched' = touched
  BY DEF Issue
<1> HIDE DEF n
<1>3. \A i \in 0..n : SeenAfter(i)' = SeenAfter(i)
  BY <1>1, <1>2 DEF SeenAfter
<1>4. \A i \in Nat, id \in Ids : Own(i, id)' <=> Own(i, id)
  BY <1>1 DEF Own
<1>5. DoneInOrder'
  BY <1>1 DEF ChainInv, DoneInOrder
<1>6. LateIsTouched'
  BY <1>1, <1>2 DEF ChainInv, LateIsTouched
<1>7. FirstLink'
  BY <1>1, <1>2, <1>3, <1>4 DEF ChainInv, FirstLink
<1>8. Links'
  <2> SUFFICES ASSUME NEW i \in DOMAIN calls', calls'[i].done, NEW id \in Ids,
                      calls'[i].seen[id] # SeenAfter(i)'[id]
               PROVE  Own(i + 1, id)' \/ id \in calls'[i].late
    BY DEF Links
  <2>1. i \in 1..n /\ calls'[i] = calls[i]
    BY <1>1
  <2> QED  BY <1>1, <1>3, <1>4, <2>1 DEF ChainInv, Links
<1> QED  BY <1>5, <1>6, <1>7, <1>8 DEF ChainInv

LEMMA ChainExecuted ==
  ASSUME InOrder, CacheTypeInv, ChainInv, NEW k \in DOMAIN calls, Execute(k) PROVE ChainInv'
<1> DEFINE n == Len(calls)
<1>1. n \in Nat /\ DOMAIN calls = 1..n /\ k \in 1..n
  BY CallNumbers
<1>2. PICK answer \in PlanAnswers(calls[k].plan) :
        /\ DOMAIN calls' = DOMAIN calls
        /\ \A i \in DOMAIN calls : i # k => calls'[i] = calls[i]
        /\ calls'[k] = [plan |-> calls[k].plan, done |-> TRUE, answer |-> answer,
                        seen |-> server', late |-> {}]
  BY CallsExecuted
<1> HIDE DEF n
<1>3. /\ calls'[k].plan = calls[k].plan /\ calls'[k].done /\ calls'[k].answer = answer
      /\ calls'[k].seen = server' /\ calls'[k].late = {}
  BY <1>2
<1>4. /\ ~calls[k].done /\ \A j \in 1..(k - 1) : calls[j].done
      /\ \A j \in (k + 1)..n : ~calls[j].done
  BY <1>1 DEF Execute, ChainInv, DoneInOrder
<1>5. UNCHANGED <<synced, touched>> /\ server' = ServerAfter(calls[k].plan)
  BY DEF Execute
<1>6. \A id \in Ids : server'[id] # server[id] => Own(k, id)'
  <2>1. calls[k].plan \in Plans
    BY ElementOfSeq, CallParts DEF CacheTypeInv
  <2> QED  BY <1>2, <1>3, <1>5, <2>1, ServerMoves DEF CacheTypeInv, Own
<1>7. \A i \in 0..n : SeenAfter(i)' = IF i + 1 >= k THEN server' ELSE SeenAfter(i)
  BY <1>1, <1>2, <1>3, <1>4 DEF SeenAfter
<1>8. SeenAfter(k - 1) = server
  BY <1>1, <1>4 DEF SeenAfter
<1>9. \A i \in 1..n, id \in Ids : i # k => (Own(i, id)' <=> Own(i, id))
  BY <1>1, <1>2 DEF Own
<1>10. DoneInOrder'
  BY <1>1, <1>2, <1>3, <1>4 DEF ChainInv, DoneInOrder, LateIsTouched
<1>11. LateIsTouched'
  BY <1>1, <1>2, <1>3, <1>5 DEF ChainInv, LateIsTouched
<1>12. FirstLink'
  <2> SUFFICES ASSUME NEW id \in Ids, synced[id] # SeenAfter(0)'[id]
               PROVE  Own(1, id)' \/ {id} \X Queries \subseteq touched
    BY <1>5 DEF FirstLink
  <2>1. CASE k = 1
    <3>1. SeenAfter(0)' = server' /\ SeenAfter(0) = server /\ ~Own(1, id)
      BY <1>1, <1>4, <1>7, <1>8, <2>1 DEF Own
    <3> QED  BY <1>6, <2>1, <3>1 DEF ChainInv, FirstLink
  <2>2. CASE k # 1
    <3>1. SeenAfter(0)' = SeenAfter(0) /\ (Own(1, id)' <=> Own(1, id))
      BY <1>1, <1>7, <1>9, <2>2
    <3> QED  BY <3>1 DEF ChainInv, FirstLink
  <2> QED  BY <2>1, <2>2
<1>13. Links'
  <2> SUFFICES ASSUME NEW i \in 1..n, calls'[i].done, NEW id \in Ids,
                      calls'[i].seen[id] # SeenAfter(i)'[id]
               PROVE  Own(i + 1, id)' \/ id \in calls'[i].late
    BY <1>1, <1>2 DEF Links
  <2>1. CASE i >= k
    <3>1. i = k
      BY <1>1, <1>2, <1>4, <2>1
    <3> QED  BY <1>1, <1>3, <1>7, <3>1
  <2>2. CASE i = k - 1
    <3>1. SeenAfter(i)' = server' /\ SeenAfter(i) = server /\ ~Own(k, id) /\ i + 1 = k
      BY <1>1, <1>4, <1>7, <1>8, <2>2 DEF Own
    <3>2. calls'[i] = calls[i]
      BY <1>1, <1>2, <2>2
    <3> QED  BY <1>1, <1>6, <3>1, <3>2 DEF ChainInv, Links
  <2>3. CASE i < k - 1
    <3>1. /\ SeenAfter(i)' = SeenAfter(i) /\ (Own(i + 1, id)' <=> Own(i + 1, id))
          /\ calls'[i] = calls[i]
      BY <1>1, <1>2, <1>7, <1>9, <2>3
    <3> QED  BY <1>1, <3>1 DEF ChainInv, Links
  <2> QED  BY <1>1, <2>1, <2>2, <2>3
<1> QED  BY <1>10, <1>11, <1>12, <1>13 DEF ChainInv

LEMMA ReceivedInOrder ==
  ASSUME InOrder, CacheTypeInv, NEW k \in DOMAIN calls, Receive(k)
  PROVE  /\ k = 1 /\ calls[1].done /\ calls[1] \in Calls
         /\ Len(calls) \in Nat /\ DOMAIN calls = 1..Len(calls)
         /\ DOMAIN calls' = 1..(Len(calls) - 1)
         /\ \A i \in 1..(Len(calls) - 1) : calls'[i] = calls[i + 1]
         /\ policy' = policy /\ server' = server /\ synced' = calls[1].seen
<1>1. k = 1 /\ calls[1].done /\ calls[1] \in Calls
  BY ElementOfSeq DEF Receive, CacheTypeInv
<1>2. calls' = SubSeq(calls, 1, 1 - 1) \o SubSeq(calls, 1 + 1, Len(calls))
  BY <1>1 DEF Receive
<1>3. calls' = SubSeq(calls, 1, 0) \o SubSeq(calls, 2, Len(calls))
  BY <1>2
<1>4. calls # <<>>
  OBVIOUS
<1>5. policy' = policy /\ server' = server /\ synced' = calls[1].seen
  BY <1>1 DEF Receive
<1> QED  BY <1>1, <1>3, <1>4, <1>5, CallsReceived

LEMMA ChainReceived ==
  ASSUME InOrder, CacheTypeInv, ChainInv, NEW k \in DOMAIN calls, Receive(k) PROVE ChainInv'
<1> DEFINE n == Len(calls)
<1>1. /\ k = 1 /\ calls[1].done
      /\ n \in Nat /\ DOMAIN calls = 1..n /\ DOMAIN calls' = 1..(n - 1)
      /\ \A i \in 1..(n - 1) : calls'[i] = calls[i + 1]
      /\ server' = server /\ synced' = calls[1].seen
  BY ReceivedInOrder
<1> HIDE DEF n
<1>2. 1 \in 1..n
  BY <1>1
<1>3. \A i \in 0..(n - 1) : SeenAfter(i)' = SeenAfter(i + 1)
  BY <1>1 DEF SeenAfter
<1>4. \A i \in 1..n, id \in Ids : Own(i, id)' <=> Own(i + 1, id)
  BY <1>1 DEF Own
<1>5. /\ touched' \subseteq touched
      /\ \A pair \in touched : pair[1] \in calls[1].late => pair \in touched'
  <2>1. touched' \in {touched, touched \ Tells(calls[1].plan, calls[1].late)}
    BY <1>1 DEF Receive
  <2>2. \A pair \in Tells(calls[1].plan, calls[1].late) : pair[1] \notin calls[1].late
    BY DEF Tells
  <2> QED  BY <2>1, <2>2
<1>6. \A i \in 1..n : calls[i].late \subseteq calls[1].late
  BY <1>1 DEF ChainInv, DoneInOrder
<1>7. \A i \in 1..n : calls[i].late \X Queries \subseteq touched'
  <2> SUFFICES ASSUME NEW i \in 1..n, NEW id \in calls[i].late, NEW q \in Queries
               PROVE  <<id, q>> \in touched'
    OBVIOUS
  <2>1. <<id, q>> \in touched /\ id \in calls[1].late
    BY <1>1, <1>6 DEF ChainInv, LateIsTouched
  <2> QED  BY <1>5, <2>1
<1>8. DoneInOrder'
  <2> SUFFICES ASSUME NEW i \in 1..(n - 1), NEW j \in 1..(n - 1), i < j
               PROVE  /\ calls'[j].done => calls'[i].done
                      /\ calls'[j].late \subseteq calls'[i].late
    BY <1>1 DEF DoneInOrder
  <2>1. i + 1 \in DOMAIN calls /\ j + 1 \in DOMAIN calls /\ i + 1 < j + 1
    BY <1>1
  <2>2. /\ calls[j + 1].done => calls[i + 1].done
        /\ calls[j + 1].late \subseteq calls[i + 1].late
    BY <2>1 DEF ChainInv, DoneInOrder
  <2> QED  BY <1>1, <2>2
<1>9. LateIsTouched'
  BY <1>1, <1>7 DEF ChainInv, LateIsTouched
<1>10. FirstLink'
  <2> SUFFICES ASSUME NEW id \in Ids, synced'[id] # SeenAfter(0)'[id]
               PROVE  Own(1, id)' \/ {id} \X Queries \subseteq touched'
    BY DEF FirstLink
  <2>1. calls[1].seen[id] # SeenAfter(1)[id]
    BY <1>1, <1>2, <1>3
  <2>2. Own(1 + 1, id) \/ id \in calls[1].late
    BY <1>1, <1>2, <2>1 DEF ChainInv, Links
  <2>3. id \in calls[1].late => {id} \X Queries \subseteq touched'
    BY <1>2, <1>7
  <2> QED  BY <1>2, <1>4, <2>2, <2>3
<1>11. Links'
  <2> SUFFICES ASSUME NEW i \in 1..(n - 1), calls'[i].done, NEW id \in Ids,
                      calls'[i].seen[id] # SeenAfter(i)'[id]
               PROVE  Own(i + 1, id)' \/ id \in calls'[i].late
    BY <1>1 DEF Links
  <2>1. i + 1 \in 1..n /\ i \in 0..(n - 1) /\ calls'[i] = calls[i + 1]
    BY <1>1
  <2>2. Own((i + 1) + 1, id) \/ id \in calls[i + 1].late
    BY <1>1, <1>3, <2>1 DEF ChainInv, Links
  <2> QED  BY <1>4, <2>1, <2>2
<1> QED  BY <1>8, <1>9, <1>10, <1>11 DEF ChainInv

LEMMA ChainEdited ==
  ASSUME CacheTypeInv, ChainInv, NEW x \in Ids, NEW row \in RivalRows, RivalEdit(x, row)
  PROVE  ChainInv'
<1> DEFINE n == Len(calls)
<1>1. n \in Nat /\ DOMAIN calls = 1..n
  BY CallNumbers
<1>2. /\ DOMAIN calls' = DOMAIN calls
      /\ \A i \in DOMAIN calls :
           /\ calls'[i].plan = calls[i].plan /\ calls'[i].done = calls[i].done
           /\ calls'[i].answer = calls[i].answer /\ calls'[i].seen = calls[i].seen
           /\ calls'[i].late = IF calls[i].done THEN calls[i].late \cup {x} ELSE calls[i].late
  BY CallsEdited
<1> HIDE DEF n
<1>3. /\ synced' = synced /\ touched' = touched \cup ({x} \X Queries)
      /\ \A id \in Ids : id # x => server'[id] = server[id]
  BY DEF RivalEdit, CacheTypeInv
<1>4. \A i \in 0..n, id \in Ids : SeenAfter(i)'[id] # SeenAfter(i)[id] => id = x
  BY <1>1, <1>2, <1>3 DEF SeenAfter
<1>5. \A i \in Nat, id \in Ids : Own(i, id)' <=> Own(i, id)
  BY <1>1, <1>2 DEF Own
<1>6. DoneInOrder'
  <2> SUFFICES ASSUME NEW i \in 1..n, NEW j \in 1..n, i < j
               PROVE  /\ calls'[j].done => calls'[i].done
                      /\ calls'[j].late \subseteq calls'[i].late
    BY <1>1, <1>2 DEF DoneInOrder
  <2>1. (calls[j].done => calls[i].done) /\ calls[j].late \subseteq calls[i].late
    BY <1>1 DEF ChainInv, DoneInOrder
  <2> QED  BY <1>1, <1>2, <2>1
<1>7. LateIsTouched'
  <2> SUFFICES ASSUME NEW i \in 1..n
               PROVE  /\ calls'[i].late \X Queries \subseteq touched'
                      /\ ~calls'[i].done => calls'[i].late = {}
    BY <1>1, <1>2 DEF LateIsTouched
  <2>1. calls[i].late \X Queries \subseteq touched /\ (~calls[i].done => calls[i].late = {})
    BY <1>1 DEF ChainInv, LateIsTouched
  <2> QED  BY <1>1, <1>2, <1>3, <2>1
<1>8. FirstLink'
  BY <1>1, <1>3, <1>4, <1>5 DEF ChainInv, FirstLink
<1>9. Links'
  <2> SUFFICES ASSUME NEW i \in 1..n, calls'[i].done, NEW id \in Ids,
                      calls'[i].seen[id] # SeenAfter(i)'[id]
               PROVE  Own(i + 1, id)' \/ id \in calls'[i].late
    BY <1>1, <1>2 DEF Links
  <2>1. calls[i].done /\ calls'[i].seen = calls[i].seen /\ calls'[i].late = calls[i].late \cup {x}
    BY <1>1, <1>2
  <2>2. CASE SeenAfter(i)'[id] # SeenAfter(i)[id]
    BY <1>1, <1>4, <2>1, <2>2
  <2>3. CASE SeenAfter(i)'[id] = SeenAfter(i)[id]
    <3>1. Own(i + 1, id) \/ id \in calls[i].late
      BY <1>1, <2>1, <2>3 DEF ChainInv, Links
    <3> QED  BY <1>5, <2>1, <3>1
  <2> QED  BY <2>2, <2>3
<1> QED  BY <1>6, <1>7, <1>8, <1>9 DEF ChainInv

LEMMA ChainStep ==
  ASSUME InOrder PROVE CacheTypeInv /\ ChainInv /\ [Next]_vars => ChainInv'
<1> SUFFICES ASSUME CacheTypeInv, ChainInv, [Next]_vars PROVE ChainInv'
  OBVIOUS
<1>1. CASE AtRest \/ UNCHANGED vars
  BY <1>1 DEF AtRest, vars, ChainInv, DoneInOrder, LateIsTouched, FirstLink, Links, Own, SeenAfter
<1> QED  BY <1>1, ChainIssued, ChainExecuted, ChainReceived, ChainEdited DEF Next

\* A row of a query belongs to every query that subsumes it.
LEMMA SubsumesBelongs ==
  ASSUME ExactFilters, NEW coarse \in Asked, NEW fine \in Queries, FilterSubsumes(coarse, fine),
         NEW row \in Stored, Belongs(row, fine)
  PROVE  Belongs(row, coarse)
<1>1. row \in Rows /\ row \in [Fields -> Values]
  BY DEF Belongs, Stored, Rows
<1>2. /\ IsWhereFilter(coarse) /\ PlainFilter(coarse)
      /\ IsWhereFilter(fine) /\ PlainFilter(fine)
  BY AskedType, PlansAssumption DEF ExactFilters
<1>3. MatchesFilter(row, fine)
  BY <1>1, <1>2, PlainExact DEF Belongs
<1>4. MatchesFilter(row, coarse)
  BY <1>1, <1>2, <1>3, SubsumesSound
<1> QED  BY <1>1, <1>2, <1>4, PlainExact DEF Belongs

\* What the ingest of an answer does to one record.
LEMMA IngestedRow ==
  ASSUME NEW plan \in Plans, NEW rows, NEW id \in Ids, table \in [Ids -> Stored], ExactFilters
  PROVE  /\ id \in DOMAIN rows => Ingested(plan, rows)[id] = rows[id]
         /\ id \notin DOMAIN rows /\ plan.op # "where" =>
              Ingested(plan, rows)[id] = IF plan.id = id THEN Absent ELSE table[id]
         /\ id \notin DOMAIN rows /\ plan.op = "where" =>
              Ingested(plan, rows)[id] =
                IF plan.limit = Absent /\ Belongs(table[id], plan.filter)
                THEN Absent ELSE table[id]
<1>1. plan.op = "where" /\ table[id] # Absent =>
        (MatchesFilter(table[id], plan.filter) <=> MeetsAll(table[id], plan.filter))
  <2> SUFFICES ASSUME plan.op = "where", table[id] # Absent
               PROVE  MatchesFilter(table[id], plan.filter) <=> MeetsAll(table[id], plan.filter)
    OBVIOUS
  <2>1. plan.filter \in Asked /\ table[id] \in Rows
    BY PlanKinds DEF Stored
  <2> QED  BY <2>1, AskedType, PlainExact DEF ExactFilters
<1> QED  BY <1>1 DEF Ingested, Belongs

\* The cache agrees with what it was told of a record, as far as a query goes.
Agrees(rows, id, filter) ==
  Belongs(table[id], filter) \/ Belongs(View(rows, id), filter) => table[id] = View(rows, id)

LEMMA ViewType ==
  ASSUME NEW rows \in [Ids -> Stored], NEW id \in Ids PROVE View(rows, id) \in Stored
BY DEF View, Stored

LEMMA CoverageReceived ==
  ASSUME InOrder, ExactFilters, CacheTypeInv, FitInv, ChainInv, CoverageExact,
         NEW k \in DOMAIN calls, Receive(k)
  PROVE  CoverageExact'
<1> DEFINE plan == calls[1].plan
           answer == calls[1].answer
           rows == calls[1].answer.rows
           seen == calls[1].seen
           late == calls[1].late
<1>1. /\ k = 1 /\ 1 \in DOMAIN calls /\ calls[1].done /\ calls[1] \in Calls
      /\ policy' = policy /\ synced' = seen
  BY ReceivedInOrder
<1>2. /\ plan \in Plans /\ seen \in [Ids -> Stored]
      /\ Fits(plan, answer, seen)
  BY <1>1, CallParts DEF FitInv
<1>3. IF answer.ok
      THEN /\ table' = Ingested(plan, rows)
           /\ touched' = touched \ Tells(plan, late)
           /\ covered' = IF plan.op = "where" /\ plan.limit = Absent
                         THEN MarkCovered(plan.filter) ELSE covered
      ELSE UNCHANGED <<table, covered, touched>>
  BY <1>1 DEF Receive
<1>4. SUFFICES ASSUME NEW filter \in Queries, Covers(filter)', NEW id \in Ids,
                      <<id, filter>> \notin touched'
               PROVE  \/ ~Belongs(table'[id], filter) /\ ~Belongs(View(seen, id), filter)
                      \/ table'[id] = View(seen, id)
  <2>1. \A i : View(synced, i)' = View(seen, i)
    BY <1>1 DEF View, MeetsScope, scope
  <2> HIDE DEF seen
  <2> QED  BY <2>1 DEF CoverageExact, Belongs
<1>5. /\ View(seen, id) \in Stored /\ table[id] \in Stored
      /\ plan.op = "where" => plan.filter \in Asked
  BY <1>2, ViewType, PlanKinds DEF CacheTypeInv
<1>6. SeenAfter(0) = seen
  BY <1>1 DEF SeenAfter
<1> HIDE DEF plan, answer, rows, seen, late
<1>7. answer.ok /\ plan.op = "where" =>
        /\ id \in DOMAIN rows => Belongs(View(seen, id), plan.filter)
        /\ plan.limit = Absent /\ Belongs(View(seen, id), plan.filter) => id \in DOMAIN rows
  BY <1>2 DEF Fits, rows, answer
<1>8. CASE answer.ok /\ id \in DOMAIN rows
  \* The record was in the answer.
  <2>1. table'[id] = rows[id]
    BY <1>2, <1>3, <1>8, IngestedRow DEF CacheTypeInv
  <2>2. rows[id] = View(seen, id)
    BY <1>2, <1>8 DEF Fits, rows, answer
  <2> QED  BY <2>1, <2>2
<1>9. CASE answer.ok /\ id \notin DOMAIN rows /\ plan.op # "where" /\ plan.id = id
  \* The answer was about the record, and there is none.
  <2>1. table'[id] = Absent
    BY <1>2, <1>3, <1>9, IngestedRow DEF CacheTypeInv
  <2>2. View(seen, id) = Absent
    BY <1>2, <1>9 DEF Fits, rows, answer
  <2> QED  BY <2>1, <2>2
<1>10. CASE /\ answer.ok /\ id \notin DOMAIN rows /\ plan.op = "where" /\ plan.limit = Absent
            /\ FilterSubsumes(plan.filter, filter)
  \* The answer was a set around the query, and the record is not in it.
  <2>1. ~Belongs(View(seen, id), plan.filter)
    BY <1>7, <1>10
  <2>2. ~Belongs(View(seen, id), filter)
    BY <1>5, <1>10, <2>1, SubsumesBelongs
  <2>3. table'[id] = IF Belongs(table[id], plan.filter) THEN Absent ELSE table[id]
    BY <1>2, <1>3, <1>10, IngestedRow DEF CacheTypeInv
  <2>4. Belongs(table[id], filter) => Belongs(table[id], plan.filter)
    BY <1>5, <1>10, SubsumesBelongs
  <2>5. ~Belongs(table'[id], filter)
    BY <2>3, <2>4 DEF Belongs
  <2> QED  BY <2>2, <2>5
<1>11. ASSUME answer.ok => /\ id \notin DOMAIN rows /\ (plan.op = "where" \/ plan.id # id)
                           /\ ~(/\ plan.op = "where" /\ plan.limit = Absent
                                /\ FilterSubsumes(plan.filter, filter))
       PROVE  \/ ~Belongs(table'[id], filter) /\ ~Belongs(View(seen, id), filter)
              \/ table'[id] = View(seen, id)
  \* The answer says nothing of the record that concerns the query.
  <2>1. <<id, filter>> \notin touched
    <3>1. answer.ok => <<id, filter>> \notin Tells(plan, late)
      BY <1>11 DEF Tells
    <3> QED  BY <1>3, <1>4, <3>1
  <2>2. Covers(filter)
    <3>1. CASE covered' = covered
      BY <1>4, <3>1 DEF Covers
    <3>2. CASE covered' # covered
      <4>1. /\ answer.ok /\ plan.op = "where" /\ plan.limit = Absent
            /\ covered' = MarkCovered(plan.filter)
        BY <1>3, <3>2
      <4>2. covered' \subseteq covered \cup {plan.filter}
        BY <4>1 DEF MarkCovered
      <4> QED  BY <1>4, <1>11, <4>1, <4>2 DEF Covers
    <3> QED  BY <3>1, <3>2
  <2>3. Agrees(synced, id, filter)
    BY <2>1, <2>2 DEF CoverageExact, Agrees
  <2>4. seen[id] = synced[id]
    <3>1. ~Own(1, id)
      BY <1>11 DEF Own, plan, answer
    <3>2. ~({id} \X Queries \subseteq touched)
      BY <2>1
    <3> QED  BY <1>6, <3>1, <3>2 DEF ChainInv, FirstLink
  <2>5. View(seen, id) = View(synced, id)
    BY <2>4 DEF View
  <2>6. CASE table'[id] = table[id]
    BY <2>3, <2>5, <2>6 DEF Agrees
  <2>7. CASE table'[id] # table[id]
    <3>1. answer.ok /\ table' = Ingested(plan, rows)
      BY <1>3, <2>7
    <3>2. /\ plan.op = "where" /\ plan.limit = Absent /\ Belongs(table[id], plan.filter)
          /\ table'[id] = Absent
      BY <1>2, <1>11, <2>7, <3>1, IngestedRow DEF CacheTypeInv
    <3>3. ~Belongs(View(seen, id), plan.filter)
      BY <1>7, <1>11, <3>1, <3>2
    <3>4. table[id] # View(seen, id)
      BY <3>2, <3>3
    <3> QED  BY <2>3, <2>5, <3>2, <3>4 DEF Agrees, Belongs
  <2> QED  BY <2>6, <2>7
<1> QED  BY <1>8, <1>9, <1>10, <1>11

LEMMA CoverageStays ==
  ASSUME CoverageExact, policy' = policy, UNCHANGED <<table, covered, synced>>,
         touched \subseteq touched'
  PROVE  CoverageExact'
<1>1. \A i : View(synced, i)' = View(synced, i)
  BY DEF View, MeetsScope, scope
<1>2. \A filter : Covers(filter)' <=> Covers(filter)
  BY DEF Covers
<1> QED  BY <1>1, <1>2 DEF CoverageExact, Belongs

LEMMA CoverageStep ==
  ASSUME InOrder, ExactFilters
  PROVE  CacheTypeInv /\ FitInv /\ ChainInv /\ CoverageExact /\ [Next]_vars => CoverageExact'
<1> SUFFICES ASSUME CacheTypeInv, FitInv, ChainInv, CoverageExact, [Next]_vars
             PROVE  CoverageExact'
  OBVIOUS
<1>1. CASE \E i \in DOMAIN calls : Receive(i)
  BY <1>1, CoverageReceived
<1>2. CASE ~\E i \in DOMAIN calls : Receive(i)
  <2>1. policy' = policy /\ UNCHANGED <<table, covered, synced>> /\ touched \subseteq touched'
    BY <1>2 DEF Next, Issue, Execute, RivalEdit, AtRest, vars
  <2> QED  BY <2>1, CoverageStays
<1> QED  BY <1>1, <1>2

\* A query the cache calls complete is complete, for any collection, scope,
\* plans and rivals, where plans are answered in order and the algebra is
\* exact.  The first premise is needed (run `outdated`).
THEOREM CoverageIsExact ==
  ASSUME InOrder, ExactFilters PROVE Spec => []CoverageExact
<1>1. Init => CoverageExact
  BY DEF Init, CoverageExact, Covers
<1> QED  BY <1>1, CacheTypeInit, CacheTypeStep, FitInit, FitStep, ChainInit, ChainStep,
            CoverageStep, PTL DEF Spec
=============================================================================
