-------------------------- MODULE WritePathProofs --------------------------
(***************************************************************************)
(* Theorems about the write path, for every set of writes and records,     *)
(* every fault the network may commit and every bound.                     *)
(***************************************************************************)
EXTENDS WritePathProperties, SequenceTheorems, FiniteSetTheorems, TLAPS

----------------------------------------------------------------------------
(* What the helpers return.                                                *)

LEMMA NoRowType == NoRow \in Row
BY DEF NoRow, Row

LEMMA LocalEffectType ==
  ASSUME NEW w \in Writes, NEW row \in Row
  PROVE  LocalEffect(w, row) \in Row
BY NoRowType DEF LocalEffect, Row

LEMMA EffectType ==
  ASSUME NEW w \in Writes, NEW row \in Row
  PROVE  Effect(w, row) \in Row
<1>1. row.by \cup {w} \in SUBSET Writes /\ row.ver \in Nat /\ row.there \in BOOLEAN
  BY DEF Row
<1>2. CASE Op[w] = "create"
  BY <1>2 DEF Effect, Row
<1>3. CASE Op[w] = "delete"
  BY <1>3, NoRowType DEF Effect
<1>4. CASE Op[w] = "opaque"
  BY <1>1, <1>4 DEF Effect, Row
<1>5. CASE Op[w] \notin {"create", "delete", "opaque"}
  <2>1. Effect(w, row) = [row EXCEPT !.by = @ \cup {w},
                          !.ver = IF Target[w] \in Versioned THEN @ + 1 ELSE @]
    BY <1>5 DEF Effect
  <2>2. (IF Target[w] \in Versioned THEN row.ver + 1 ELSE row.ver) \in Nat
    BY <1>1
  <2> QED
    BY <1>1, <2>1, <2>2 DEF Row
<1> QED
  BY <1>2, <1>3, <1>4, <1>5

LEMMA MergedType ==
  ASSUME NEW w \in Writes, NEW answer \in Answers, NEW row \in Row
  PROVE  Merged(w, answer, row) \in Row
BY LocalEffectType DEF Merged, Answers

LEMMA VerdictType ==
  ASSUME NEW w \in Writes, NEW row \in Row
  PROVE  Verdict(w, row) \in Verdicts
BY DEF Verdict, Verdicts

LEMMA FaultType ==
  ASSUME NEW verdict \in Verdicts
  PROVE  Fault(verdict) \in Answers
BY NoRowType DEF Fault, Answers

LEMMA EntryTypes ==
  /\ \A w \in Writes : Direct(w) \in Entries /\ Flush(w) \in Entries
  /\ \A r \in Records : Read(r) \in Entries
  /\ \A e \in Entries : e.kind = "read" => e.record \in Records
  /\ \A e \in Entries : e.kind # "read" => e.write \in Writes
BY DEF Direct, Flush, Read, Entries

LEMMA WithoutType ==
  ASSUME NEW q \in Seq(Writes), NEW w \in Writes
  PROVE  Without(q, w) \in Seq(Writes)
<1>1. CASE \E i \in 1..Len(q) : q[i] = w
  <2> DEFINE i == CHOOSE j \in 1..Len(q) : q[j] = w
  <2>1. i \in 1..Len(q)
    BY <1>1
  <2> HIDE DEF i
  <2>2. SubSeq(q, 1, i - 1) \in Seq(Writes) /\ SubSeq(q, i + 1, Len(q)) \in Seq(Writes)
    <3>1. \A j \in 1..i - 1 : q[j] \in Writes
      BY <2>1
    <3>2. \A j \in i + 1..Len(q) : q[j] \in Writes
      BY <2>1
    <3> QED
      BY <2>1, <3>1, <3>2, SubSeqProperties
  <2> QED
    BY <1>1, <2>2 DEF Without, i
<1>2. CASE ~\E i \in 1..Len(q) : q[i] = w
  BY <1>2 DEF Without
<1> QED
  BY <1>1, <1>2

LEMMA VisibleType ==
  ASSUME TypeOK, NEW r \in Records
  PROVE  Visible(r) \in Row
<1> DEFINE mine == {w \in outbox : Target[w] = r}
           whole == {w \in mine : Op[w] \in {"create", "delete"}}
           last == {w \in whole : \A v \in whole : seq[v] <= seq[w]}
           under == IF last = {} THEN canonical[r]
                    ELSE LocalEffect(CHOOSE w \in last : TRUE, NoRow)
           over == {w \in mine : Lowered(w) /\ \A v \in last : seq[w] > seq[v]}
<1>1. under \in Row
  <2>1. CASE last = {}
    BY <2>1 DEF TypeOK, CacheTypeOK
  <2>2. CASE last # {}
    <3>1. (CHOOSE w \in last : TRUE) \in Writes
      BY <2>2 DEF TypeOK, CacheTypeOK
    <3> QED
      BY <2>2, <3>1, LocalEffectType, NoRowType
  <2> QED
    BY <2>1, <2>2
<1>2. over \in SUBSET Writes
  BY DEF TypeOK, CacheTypeOK
<1>3. Visible(r) = IF under.there THEN [under EXCEPT !.by = @ \cup over] ELSE under
  BY DEF Visible
<1> HIDE DEF under, over
<1> QED
  BY <1>1, <1>2, <1>3 DEF Row

LEMMA ConsumeType ==
  ASSUME NEW S, NEW s \in Seq(S), s # <<>>
  PROVE  Head(s) \in S /\ Tail(s) \in Seq(S)
BY HeadTailProperties

----------------------------------------------------------------------------
(* Type correctness, action by action.                                     *)

LEMMA TypeInit == Init => TypeOK
<1> SUFFICES ASSUME Init PROVE TypeOK
  OBVIOUS
<1>1. server \in [Records -> Row]
  BY NoRowType DEF Init, NoRow, Row
<1>2. canonical \in [Records -> Row]
  BY <1>1, NoRowType DEF Init
<1>3. \A S : <<>> \in Seq(S)
  OBVIOUS
<1>4. PipelineTypeOK
  BY <1>3 DEF Init, PipelineTypeOK, PcStates
<1>5. CacheTypeOK
  BY <1>2 DEF Init, CacheTypeOK
<1>6. TransportTypeOK
  BY <1>3 DEF Init, TransportTypeOK
<1>7. ReplayTypeOK /\ FlushTypeOK
  BY <1>3 DEF Init, ReplayTypeOK, FlushTypeOK
<1>8. WorldTypeOK /\ BoundsTypeOK
  BY <1>1, <1>3 DEF Init, WorldTypeOK, BoundsTypeOK
<1> QED
  BY <1>4, <1>5, <1>6, <1>7, <1>8 DEF TypeOK

\* A component that a step leaves alone stays well typed.
LEMMA Untouched ==
  ASSUME TypeOK
  PROVE  /\ UNCHANGED pipeline => PipelineTypeOK'
         /\ UNCHANGED cache => CacheTypeOK'
         /\ UNCHANGED <<batch, net, sent, arrived>> => TransportTypeOK'
         /\ UNCHANGED replay => ReplayTypeOK'
         /\ UNCHANGED flushVars => FlushTypeOK'
         /\ UNCHANGED world => WorldTypeOK'
         /\ UNCHANGED bounds => BoundsTypeOK'
<1>1. UNCHANGED pipeline => PipelineTypeOK'
  BY DEF TypeOK, PipelineTypeOK, pipeline
<1>2. UNCHANGED cache => CacheTypeOK'
  BY DEF TypeOK, CacheTypeOK, cache
<1>3. UNCHANGED <<batch, net, sent, arrived>> => TransportTypeOK'
  BY DEF TypeOK, TransportTypeOK
<1>4. UNCHANGED replay => ReplayTypeOK'
  BY DEF TypeOK, ReplayTypeOK, replay
<1>5. UNCHANGED flushVars => FlushTypeOK'
  BY DEF TypeOK, FlushTypeOK, flushVars
<1>6. UNCHANGED world => WorldTypeOK'
  BY DEF TypeOK, WorldTypeOK, world
<1>7. UNCHANGED bounds => BoundsTypeOK'
  BY DEF TypeOK, BoundsTypeOK, bounds
<1> QED
  BY <1>1, <1>2, <1>3, <1>4, <1>5, <1>6, <1>7

LEMMA TypeStart ==
  ASSUME TypeOK, NEW w \in Writes,
         \/ Issue(w) \/ Stamp(w) \/ Deliver(w) \/ DeliverLocally(w)
         \/ QueueBehind(w) \/ Dispatch(w) \/ Release(w)
  PROVE  TypeOK'
<1>1. Target[w] \in Records
  BY WritesAssumption
<1>2. CASE Issue(w)
  <2>1. IsFirstWrite(w) \in BOOLEAN
    BY DEF IsFirstWrite, Keyed
  <2>2. PipelineTypeOK'
    BY <1>1, <1>2, <2>1, AppendProperties DEF Issue, TypeOK, PipelineTypeOK, PcStates
  <2> QED
    BY <1>2, <2>2, Untouched DEF Issue, TypeOK
<1>3. CASE Stamp(w)
  <2>1. Visible(Target[w]).ver \in Nat
    BY <1>1, VisibleType DEF Row
  <2>2. PipelineTypeOK'
    BY <1>3, <2>1 DEF Stamp, TypeOK, PipelineTypeOK, PcStates
  <2> QED
    BY <1>3, <2>2, Untouched DEF Stamp, TypeOK
<1>4. CASE Deliver(w)
  <2>1. turn' \in Seq(Writes)
    BY <1>4, ConsumeType DEF Deliver, TypeOK, PipelineTypeOK
  <2>2. PipelineTypeOK'
    BY <1>4, <2>1 DEF Deliver, TypeOK, PipelineTypeOK, PcStates
  <2>3. CASE Target[w] \in Cached
    <3>1. CacheTypeOK'
      BY <1>4, <2>3 DEF Deliver, TypeOK, CacheTypeOK
    <3> QED
      BY <1>4, <2>2, <3>1, Untouched DEF Deliver, TypeOK
  <2>4. CASE Target[w] \notin Cached
    BY <1>4, <2>2, <2>4, Untouched DEF Deliver, TypeOK
  <2> QED
    BY <2>3, <2>4
<1>5. CASE DeliverLocally(w)
  <2>1. LocalEffect(w, canonical[Target[w]]) \in Row
    BY <1>1, LocalEffectType DEF TypeOK, CacheTypeOK
  <2>2. PipelineTypeOK' /\ CacheTypeOK'
    BY <1>1, <1>5, <2>1 DEF DeliverLocally, TypeOK, PipelineTypeOK, CacheTypeOK, PcStates
  <2> QED
    BY <1>5, <2>2, Untouched DEF DeliverLocally, TypeOK
<1>6. CASE QueueBehind(w)
  <2>1. PipelineTypeOK' /\ ReplayTypeOK'
    BY <1>6, AppendProperties DEF QueueBehind, TypeOK, PipelineTypeOK, ReplayTypeOK, PcStates
  <2> QED
    BY <1>6, <2>1, Untouched DEF QueueBehind, TypeOK
<1>7. CASE Dispatch(w)
  <2>1. PipelineTypeOK' /\ TransportTypeOK'
    BY <1>7, EntryTypes, AppendProperties
    DEF Dispatch, TypeOK, PipelineTypeOK, TransportTypeOK, PcStates
  <2> QED
    BY <1>7, <2>1, Untouched DEF Dispatch, TypeOK
<1>8. CASE Release(w)
  <2>1. PipelineTypeOK'
    BY <1>1, <1>8 DEF Release, TypeOK, PipelineTypeOK
  <2> QED
    BY <1>8, <2>1, Untouched DEF Release, TypeOK
<1> QED
  BY <1>2, <1>3, <1>4, <1>5, <1>6, <1>7, <1>8

LEMMA TypeHear ==
  ASSUME TypeOK, NEW q \in Requests, NEW f, Hear(q, f),
         \A i \in 1..Len(q.plans) : f[i] \in Answers
  PROVE  arrived' \in Seq(News)
<1> DEFINE heard == [i \in 1..Len(q.plans) |-> [entry |-> q.plans[i], answer |-> f[i]]]
<1>1. q.plans \in Seq(Entries)
  BY DEF Requests
<1>2. heard \in Seq(News)
  BY <1>1 DEF News
<1> HIDE DEF heard
<1>3. arrived \o heard \in Seq(News)
  BY <1>2, ConcatProperties DEF TypeOK, TransportTypeOK
<1> QED
  BY <1>3 DEF Hear, heard

\* What the server's step leaves alone, and the request it takes.
LEMMA ServerOnly ==
  ASSUME NEW q, ServerExec(q)
  PROVE  /\ q \in net /\ ~Executed(q) /\ InOrder(q)
         /\ UNCHANGED <<pipeline, cache, batch, sent, arrived, replay, flushVars, bounds>>
BY Zenon DEF ServerExec

LEMMA TypeServerExec ==
  ASSUME TypeOK, NEW q \in net, ServerExec(q)
  PROVE  TypeOK'
<1> DEFINE plan == q.plans[Len(q.answers) + 1]
           Answered(answer) == [q EXCEPT !.answers = Append(@, answer)]
<1>1. /\ q \in Requests /\ q.plans \in Seq(Entries) /\ q.answers \in Seq(Answers)
      /\ q.id \in Nat /\ q.open \in BOOLEAN
  BY DEF TypeOK, TransportTypeOK, Requests
<1>2. plan \in Entries
  <2>1. Len(q.answers) \in Nat /\ Len(q.plans) \in Nat
    BY <1>1, LenProperties
  <2>2. Len(q.answers) < Len(q.plans)
    <3>1. ~(Len(q.answers) >= Len(q.plans))
      BY ServerOnly DEF Executed
    <3> QED
      BY <2>1, <3>1
  <2> QED
    BY <1>1, <2>1, <2>2
<1>3. ASSUME NEW answer \in Answers PROVE Answered(answer) \in Requests
  BY <1>1, AppendProperties DEF Requests
<1>4. ASSUME NEW answer \in Answers,
             net' = (net \ {q}) \cup (IF ~Answered(answer).open /\ Executed(Answered(answer))
                                     THEN {} ELSE {Answered(answer)}),
             UNCHANGED <<batch, sent, arrived>>
      PROVE  TransportTypeOK'
  <2> HIDE DEF Answered
  <2> QED
    BY <1>3, <1>4 DEF TypeOK, TransportTypeOK
<1>5. CASE plan.kind = "read"
  <2> DEFINE answer == [verdict |-> "ok", row |-> server[plan.record]]
  <2>1. answer \in Answers
    BY <1>2, <1>5, EntryTypes DEF Answers, Verdicts, TypeOK, WorldTypeOK
  <2>2. /\ net' = (net \ {q}) \cup (IF ~Answered(answer).open /\ Executed(Answered(answer))
                                    THEN {} ELSE {Answered(answer)})
        /\ UNCHANGED world
    BY <1>5 DEF ServerExec
  <2> HIDE DEF answer, Answered
  <2>3. TransportTypeOK'
    BY <1>4, <2>1, <2>2, ServerOnly
  <2> QED
    BY <2>2, <2>3, Untouched, ServerOnly DEF TypeOK
<1>6. CASE plan.kind # "read"
  <2> DEFINE w == plan.write
             r == Target[w]
             verdict == Verdict(w, server[r])
             row == IF verdict = "ok" THEN Effect(w, server[r]) ELSE server[r]
             answer == [verdict |-> verdict, row |-> row]
             event == [who |-> w, record |-> r, verdict |-> verdict]
  <2>1. w \in Writes /\ r \in Records
    BY <1>2, <1>6, EntryTypes, WritesAssumption
  <2>2. server[r] \in Row
    BY <2>1 DEF TypeOK, WorldTypeOK
  <2>3. verdict \in Verdicts /\ row \in Row
    BY <2>1, <2>2, VerdictType, EffectType
  <2>4. answer \in Answers
    BY <2>3 DEF Answers
  <2>5. event \in Events
    BY <2>1, <2>3 DEF Events
  <2>6. /\ net' = (net \ {q}) \cup (IF ~Answered(answer).open /\ Executed(Answered(answer))
                                    THEN {} ELSE {Answered(answer)})
        /\ server' = [server EXCEPT ![r] = row]
        /\ log' = Append(log, event)
    BY Zenon, <1>6 DEF ServerExec
  <2> HIDE DEF w, r, verdict, row, answer, event, Answered
  <2>7. WorldTypeOK'
    BY <2>1, <2>3, <2>5, <2>6, AppendProperties DEF TypeOK, WorldTypeOK
  <2>8. TransportTypeOK'
    BY <1>4, <2>4, <2>6, ServerOnly
  <2> QED
    BY <2>7, <2>8, Untouched, ServerOnly DEF TypeOK
<1> QED
  BY <1>5, <1>6

LEMMA TypeAnswer ==
  ASSUME TypeOK, NEW q \in net, Respond(q) \/ Fail(q) \/ Refuse(q)
  PROVE  TypeOK'
<1>1. /\ q \in Requests /\ q.plans \in Seq(Entries) /\ q.answers \in Seq(Answers)
  BY DEF TypeOK, TransportTypeOK, Requests
<1>2. net \subseteq Requests /\ batch \in Seq(Entries) /\ sent \in Nat
  BY DEF TypeOK, TransportTypeOK
<1>3. CASE Respond(q)
  <2>1. \A i \in 1..Len(q.plans) : q.answers[i] \in Answers
    BY <1>1, <1>3, LenProperties DEF Respond, Executed
  <2>2. arrived' \in Seq(News)
    BY <1>1, <1>3, <2>1, TypeHear DEF Respond
  <2>3. TransportTypeOK'
    BY <1>2, <1>3, <2>2 DEF Respond, TransportTypeOK
  <2> QED
    BY <1>3, <2>3, Untouched DEF Respond, TypeOK
<1>4. ASSUME NEW v \in {"offline", "refused"},
             Hear(q, [i \in 1..Len(q.plans) |-> Fault(v)])
      PROVE  arrived' \in Seq(News)
  <2> DEFINE f == [i \in 1..Len(q.plans) |-> Fault(v)]
  <2>1. \A i \in 1..Len(q.plans) : f[i] \in Answers
    BY FaultType DEF Verdicts
  <2>2. Hear(q, f)
    BY <1>4
  <2> HIDE DEF f
  <2> QED
    BY <1>1, <2>1, <2>2, TypeHear
<1>5. CASE Fail(q)
  <2>1. arrived' \in Seq(News)
    BY <1>4, <1>5 DEF Fail
  <2>2. [q EXCEPT !.open = FALSE] \in Requests
    BY <1>1 DEF Requests
  <2>3. TransportTypeOK'
    BY <1>2, <1>5, <2>1, <2>2 DEF Fail, TransportTypeOK
  <2>4. BoundsTypeOK'
    BY <1>5 DEF Fail, TypeOK, BoundsTypeOK
  <2> QED
    BY <1>5, <2>3, <2>4, Untouched DEF Fail, TypeOK
<1>6. CASE Refuse(q)
  <2>1. arrived' \in Seq(News)
    BY <1>4, <1>6 DEF Refuse
  <2>2. TransportTypeOK'
    BY <1>2, <1>6, <2>1 DEF Refuse, TransportTypeOK
  <2>3. BoundsTypeOK'
    BY <1>6 DEF Refuse, TypeOK, BoundsTypeOK
  <2> QED
    BY <1>6, <2>2, <2>3, Untouched DEF Refuse, TypeOK
<1> QED
  BY <1>3, <1>5, <1>6

LEMMA TypeSettle ==
  ASSUME TypeOK, NEW w \in Writes, NEW answer \in Answers,
         UNCHANGED <<turn, first, base, outstanding, claimed, seq, lastSeq>>
  PROVE  /\ SettleConfirmed(w, answer) => PipelineTypeOK' /\ CacheTypeOK'
         /\ SettleRejected(w, answer) =>
              PipelineTypeOK' /\ CacheTypeOK' /\ batch' \in Seq(Entries)
<1>1. Target[w] \in Records
  BY WritesAssumption
<1>2. Merged(w, answer, canonical[Target[w]]) \in Row
  BY <1>1, MergedType DEF TypeOK, CacheTypeOK
<1>3. Append(batch, Read(Target[w])) \in Seq(Entries) /\ batch \in Seq(Entries)
  BY <1>1, EntryTypes, AppendProperties DEF TypeOK, TransportTypeOK
<1>4. CASE SettleConfirmed(w, answer)
  <2>1. PipelineTypeOK'
    BY <1>4 DEF SettleConfirmed, TypeOK, PipelineTypeOK, PcStates
  <2>2. CacheTypeOK'
    BY <1>1, <1>2, <1>4 DEF SettleConfirmed, TypeOK, CacheTypeOK
  <2>3. SettleRejected(w, answer) => batch' \in Seq(Entries)
    BY <1>3 DEF SettleRejected
  <2> QED
    BY <2>1, <2>2, <2>3
<1>5. CASE SettleRejected(w, answer)
  <2>1. PipelineTypeOK'
    BY <1>5 DEF SettleRejected, TypeOK, PipelineTypeOK, PcStates
  <2>2. CacheTypeOK'
    BY <1>5 DEF SettleRejected, TypeOK, CacheTypeOK
  <2>3. batch' \in Seq(Entries)
    BY <1>3, <1>5 DEF SettleRejected
  <2> QED
    BY <2>1, <2>2, <2>3
<1> QED
  BY <1>4, <1>5

LEMMA TypeContinuation ==
  ASSUME TypeOK,
         \/ Ingest \/ Collect
         \/ \E w \in Writes : Confirm(w) \/ FallBack(w) \/ Reject(w)
  PROVE  TypeOK'
<1>1. arrived # <<>>
  BY DEF Ingest, Collect, Confirm, FallBack, Reject, HeadIsFor, HeadIs
<1>2. Next1 \in News /\ Tail(arrived) \in Seq(News)
  BY <1>1, ConsumeType DEF Next1, TypeOK, TransportTypeOK
<1>3. Next1.entry \in Entries /\ Next1.answer \in Answers
  BY <1>2 DEF News
<1>4. batch \in Seq(Entries) /\ net \subseteq Requests /\ sent \in Nat
  BY DEF TypeOK, TransportTypeOK
<1>5. CASE Ingest
  <2>1. Next1.entry.record \in Records /\ Next1.answer.row \in Row
    BY <1>3, <1>5, EntryTypes DEF Ingest, HeadIs, Answers
  <2>2. CacheTypeOK'
    BY <1>5, <2>1 DEF Ingest, TypeOK, CacheTypeOK
  <2>3. TransportTypeOK'
    BY <1>2, <1>4, <1>5 DEF Ingest, TransportTypeOK
  <2> QED
    BY <1>5, <2>2, <2>3, Untouched DEF Ingest, TypeOK
<1>6. CASE Collect
  <2> DEFINE result == [write |-> Next1.entry.write, answer |-> Next1.answer]
  <2>1. result \in Results
    BY <1>3, <1>6, EntryTypes DEF Collect, HeadIs, Results
  <2>2. outcomes' = Append(outcomes, result)
    BY <1>6 DEF Collect
  <2> HIDE DEF result
  <2>3. outcomes' \in Seq(Results)
    BY <2>1, <2>2, AppendProperties DEF TypeOK, FlushTypeOK
  <2>4. /\ flushBatch' \in Seq(Writes) /\ flushing' \in {"idle", "sent", "settling"}
        /\ offlineAgain' \in BOOLEAN
    <3>1. CASE Len(outcomes') = Len(flushBatch)
      BY <1>6, <3>1, EmptySeq DEF Collect, TypeOK, FlushTypeOK
    <3>2. CASE Len(outcomes') # Len(flushBatch)
      BY <1>6, <3>2 DEF Collect, TypeOK, FlushTypeOK
    <3> QED
      BY <3>1, <3>2
  <2>5. FlushTypeOK'
    BY <2>3, <2>4 DEF FlushTypeOK
  <2>6. TransportTypeOK'
    BY <1>2, <1>4, <1>6 DEF Collect, TransportTypeOK
  <2> QED
    BY <1>6, <2>5, <2>6, Untouched DEF Collect, TypeOK
<1>7. ASSUME NEW w \in Writes, Confirm(w)
      PROVE  TypeOK'
  <2>1. PipelineTypeOK' /\ CacheTypeOK'
    BY <1>3, <1>7, TypeSettle DEF Confirm
  <2>2. TransportTypeOK'
    BY <1>2, <1>4, <1>7 DEF Confirm, TransportTypeOK
  <2> QED
    BY <1>7, <2>1, <2>2, Untouched DEF Confirm, TypeOK
<1>8. ASSUME NEW w \in Writes, FallBack(w)
      PROVE  TypeOK'
  <2>1. PipelineTypeOK' /\ ReplayTypeOK'
    BY <1>8, AppendProperties DEF FallBack, TypeOK, PipelineTypeOK, ReplayTypeOK, PcStates
  <2>2. TransportTypeOK'
    BY <1>2, <1>4, <1>8 DEF FallBack, TransportTypeOK
  <2> QED
    BY <1>8, <2>1, <2>2, Untouched DEF FallBack, TypeOK
<1>9. ASSUME NEW w \in Writes, Reject(w)
      PROVE  TypeOK'
  <2>1. PipelineTypeOK' /\ CacheTypeOK' /\ batch' \in Seq(Entries)
    BY <1>3, <1>9, TypeSettle DEF Reject
  <2>2. TransportTypeOK'
    BY <1>2, <1>4, <1>9, <2>1 DEF Reject, TransportTypeOK
  <2> QED
    BY <1>9, <2>1, <2>2, Untouched DEF Reject, TypeOK
<1> QED
  BY <1>5, <1>6, <1>7, <1>8, <1>9

LEMMA TypeReplay ==
  ASSUME TypeOK, Replay, UNCHANGED <<net, sent, arrived>>
  PROVE  FlushTypeOK' /\ TransportTypeOK'
<1> DEFINE again == [i \in 1..Len(replayQueue) |-> Flush(replayQueue[i])]
<1>1. again \in Seq(Entries)
  BY EntryTypes DEF TypeOK, ReplayTypeOK
<1>2. batch' = batch \o again
  BY DEF Replay
<1> HIDE DEF again
<1>3. TransportTypeOK'
  BY <1>1, <1>2, ConcatProperties DEF TypeOK, TransportTypeOK
<1>4. FlushTypeOK'
  BY EmptySeq DEF Replay, TypeOK, ReplayTypeOK, FlushTypeOK
<1> QED
  BY <1>3, <1>4

LEMMA TypeFlush ==
  ASSUME TypeOK,
         \/ FlushNow \/ TimerFires \/ FlushRound
         \/ \E w \in Writes : FlushStaysQueued(w) \/ FlushConfirm(w) \/ FlushReject(w)
  PROVE  TypeOK'
<1>1. CASE FlushNow
  BY <1>1, TypeReplay, Untouched DEF FlushNow, TypeOK
<1>2. CASE TimerFires
  <2>1. ReplayTypeOK'
    BY <1>2 DEF TimerFires, TypeOK, ReplayTypeOK
  <2>2. TransportTypeOK' /\ FlushTypeOK'
    BY <1>2, TypeReplay, Untouched DEF TimerFires
  <2> QED
    BY <1>2, <2>1, <2>2, Untouched DEF TimerFires, TypeOK
<1>3. CASE FlushRound
  <2>1. ReplayTypeOK'
    BY <1>3 DEF FlushRound, TypeOK, ReplayTypeOK
  <2>2. TransportTypeOK' /\ FlushTypeOK'
    <3>1. CASE Replay
      BY <1>3, <3>1, TypeReplay DEF FlushRound
    <3>2. CASE ~Replay
      BY <1>3, <3>2, Untouched DEF FlushRound, TypeOK, FlushTypeOK
    <3> QED
      BY <3>1, <3>2
  <2> QED
    BY <1>3, <2>1, <2>2, Untouched DEF FlushRound, TypeOK
<1>4. ASSUME NEW w \in Writes, SettlingNext(w), NextOutcome, offlineAgain' \in BOOLEAN
      PROVE  Outcome \in Answers /\ FlushTypeOK'
  <2>1. Head(outcomes) \in Results /\ Tail(outcomes) \in Seq(Results)
    BY <1>4, ConsumeType DEF SettlingNext, TypeOK, FlushTypeOK
  <2>2. Outcome \in Answers
    BY <2>1 DEF Outcome, Results
  <2> QED
    BY <1>4, <2>1, <2>2 DEF NextOutcome, TypeOK, FlushTypeOK
<1>5. offlineAgain \in BOOLEAN
  BY DEF TypeOK, FlushTypeOK
<1>6. ASSUME NEW w \in Writes, FlushStaysQueued(w)
      PROVE  TypeOK'
  <2>1. FlushTypeOK'
    BY <1>4, <1>6 DEF FlushStaysQueued
  <2> QED
    BY <1>6, <2>1, Untouched DEF FlushStaysQueued, TypeOK
<1>7. ASSUME NEW w \in Writes, replayQueue' = Without(replayQueue, w), UNCHANGED replayTimer
      PROVE  ReplayTypeOK'
  BY <1>7, WithoutType DEF TypeOK, ReplayTypeOK
<1>8. ASSUME NEW w \in Writes, FlushConfirm(w)
      PROVE  TypeOK'
  <2>1. Outcome \in Answers /\ FlushTypeOK'
    BY <1>4, <1>5, <1>8 DEF FlushConfirm
  <2>2. ReplayTypeOK'
    BY <1>7, <1>8 DEF FlushConfirm
  <2>3. PipelineTypeOK' /\ CacheTypeOK'
    BY <1>8, <2>1, TypeSettle DEF FlushConfirm
  <2> QED
    BY <1>8, <2>1, <2>2, <2>3, Untouched DEF FlushConfirm, TypeOK
<1>9. ASSUME NEW w \in Writes, FlushReject(w)
      PROVE  TypeOK'
  <2>1. Outcome \in Answers /\ FlushTypeOK'
    BY <1>4, <1>5, <1>9 DEF FlushReject
  <2>2. ReplayTypeOK'
    BY <1>7, <1>9 DEF FlushReject
  <2>3. PipelineTypeOK' /\ CacheTypeOK' /\ batch' \in Seq(Entries)
    BY <1>9, <2>1, TypeSettle DEF FlushReject
  <2>4. TransportTypeOK'
    BY <1>9, <2>3 DEF FlushReject, TypeOK, TransportTypeOK
  <2> QED
    BY <1>9, <2>1, <2>2, <2>3, <2>4, Untouched DEF FlushReject, TypeOK
<1> QED
  BY <1>1, <1>2, <1>3, <1>6, <1>8, <1>9

LEMMA TypeOutside ==
  ASSUME TypeOK,
         SendBatch \/ \E r \in Records : RivalEdit(r) \/ Refresh(r)
  PROVE  TypeOK'
<1>1. CASE SendBatch
  <2> DEFINE q == [id |-> sent + 1, plans |-> batch, answers |-> <<>>, open |-> TRUE]
  <2>1. q \in Requests
    BY EmptySeq DEF Requests, TypeOK, TransportTypeOK
  <2>2. net' = net \cup {q}
    BY <1>1 DEF SendBatch
  <2> HIDE DEF q
  <2>3. TransportTypeOK'
    BY <1>1, <2>1, <2>2, EmptySeq DEF SendBatch, TypeOK, TransportTypeOK
  <2> QED
    BY <1>1, <2>3, Untouched DEF SendBatch, TypeOK
<1>2. ASSUME NEW r \in Records, RivalEdit(r)
      PROVE  TypeOK'
  <2> DEFINE v == IF r \in Versioned THEN server[r].ver + 1 ELSE server[r].ver
             event == [who |-> Rival, record |-> r, verdict |-> "ok"]
  <2>1. server[r] \in Row /\ server \in [Records -> Row]
    BY DEF TypeOK, WorldTypeOK
  <2>2. v \in Nat
    BY <2>1 DEF Row
  <2>3. server' = [server EXCEPT ![r] = [server[r] EXCEPT !.ver = v]]
    BY <1>2 DEF RivalEdit
  <2>4. [server[r] EXCEPT !.ver = v] \in Row
    BY <2>1, <2>2 DEF Row
  <2>5. event \in Events /\ log' = Append(log, event)
    BY <1>2 DEF Events, Verdicts, RivalEdit
  <2> HIDE DEF v, event
  <2>6. WorldTypeOK'
    BY <2>1, <2>3, <2>4, <2>5, AppendProperties DEF TypeOK, WorldTypeOK
  <2>7. BoundsTypeOK'
    BY <1>2 DEF RivalEdit, TypeOK, BoundsTypeOK
  <2> QED
    BY <1>2, <2>6, <2>7, Untouched DEF RivalEdit, TypeOK
<1>3. ASSUME NEW r \in Records, Refresh(r)
      PROVE  TypeOK'
  <2>1. TransportTypeOK'
    BY <1>3, EntryTypes, AppendProperties DEF Refresh, TypeOK, TransportTypeOK
  <2>2. BoundsTypeOK'
    BY <1>3 DEF Refresh, TypeOK, BoundsTypeOK
  <2> QED
    BY <1>3, <2>1, <2>2, Untouched DEF Refresh, TypeOK
<1> QED
  BY <1>1, <1>2, <1>3

LEMMA TypeNext == TypeOK /\ [Next]_vars => TypeOK'
<1> SUFFICES ASSUME TypeOK, [Next]_vars PROVE TypeOK'
  OBVIOUS
<1>1. ASSUME NEW w \in Writes, Issue(w) \/ WriteSteps(w) PROVE TypeOK'
  BY <1>1, TypeStart, TypeContinuation, TypeFlush DEF WriteSteps
<1>2. CASE Runtime
  BY <1>2, TypeOutside, TypeContinuation, TypeFlush DEF Runtime
<1>3. CASE Network \/ Misfortune
  BY <1>3, TypeServerExec, TypeAnswer DEF Network, Misfortune
<1>4. CASE Environment
  BY <1>4, TypeFlush, TypeOutside DEF Environment
<1>5. CASE AtRest \/ UNCHANGED vars
  BY <1>5, Untouched DEF AtRest, TypeOK, vars
<1> QED
  BY <1>1, <1>2, <1>3, <1>4, <1>5 DEF Next

\* The state is well typed throughout, whatever fails.
THEOREM TypeCorrect == Spec => []TypeOK
BY TypeInit, TypeNext, PTL DEF Spec

----------------------------------------------------------------------------
(* At most one version stamp per record.                                   *)

\* The steps that leave the claims and the stamps alone: all of them but
\* Issue, Stamp and Release.
Bystander ==
  /\ UNCHANGED <<first, base, outstanding, claimed>>
  /\ \A w \in Writes : pc'[w] = "idle" => pc[w] = "idle"

LEMMA Bystanders ==
  ASSUME TypeOK, [Next]_vars
  PROVE  \/ Bystander
         \/ \E w \in Writes : Issue(w) \/ Stamp(w) \/ Release(w)
<1> USE DEF Bystander
<1>1. pc \in [Writes -> PcStates]
  BY DEF TypeOK, PipelineTypeOK
<1>2. UNCHANGED pipeline => Bystander
  BY DEF pipeline
<1>3. ASSUME NEW w \in Writes, Deliver(w) \/ DeliverLocally(w) \/ QueueBehind(w) \/ Dispatch(w)
      PROVE  Bystander
  BY <1>1, <1>3 DEF Deliver, DeliverLocally, QueueBehind, Dispatch
<1>4. ASSUME NEW w \in Writes, Confirm(w) \/ FallBack(w) \/ Reject(w)
      PROVE  Bystander
  BY <1>1, <1>4 DEF Confirm, FallBack, Reject, SettleConfirmed, SettleRejected
<1>5. ASSUME NEW w \in Writes, FlushStaysQueued(w) \/ FlushConfirm(w) \/ FlushReject(w)
      PROVE  Bystander
  BY <1>1, <1>2, <1>5 DEF FlushStaysQueued, FlushConfirm, FlushReject, SettleConfirmed, SettleRejected
<1>6. Runtime => Bystander
  BY <1>2 DEF Runtime, SendBatch, Ingest, Collect, TimerFires, FlushRound
<1>7. Network \/ Misfortune => Bystander
  BY <1>2, ServerOnly DEF Network, Misfortune, Respond, Fail, Refuse
<1>8. Environment => Bystander
  BY <1>2 DEF Environment, FlushNow, RivalEdit, Refresh
<1>9. AtRest \/ UNCHANGED vars => Bystander
  BY <1>2 DEF AtRest, vars
<1> QED
  BY <1>3, <1>4, <1>5, <1>6, <1>7, <1>8, <1>9 DEF Next, WriteSteps

LEMMA ClaimsFinite ==
  ASSUME TypeOK, NEW r \in Records
  PROVE  IsFiniteSet(Claims(r)) /\ Cardinality(Claims(r)) \in Nat
<1>1. Claims(r) \subseteq Writes
  BY DEF Claims, TypeOK, PipelineTypeOK
<1> QED
  BY <1>1, WritesAssumption, FS_Subset, FS_CardinalityType

LEMMA ClaimInit == Init => ClaimInv
<1> SUFFICES ASSUME Init PROVE ClaimInv
  OBVIOUS
<1>1. \A r \in Records : Claims(r) = {}
  BY DEF Init, Claims
<1>2. OutstandingCounts
  BY <1>1, FS_EmptySet DEF Init, OutstandingCounts
<1> QED
  BY <1>2 DEF Init, ClaimInv

LEMMA ClaimIssue ==
  ASSUME TypeOK, ClaimInv, NEW w \in Writes, Issue(w)
  PROVE  ClaimInv'
<1>1. /\ w \notin claimed /\ base[w] = NoVersion
      /\ claimed \subseteq Writes /\ Target[w] \in Records
      /\ first \in [Writes -> BOOLEAN] /\ pc \in [Writes -> PcStates]
      /\ outstanding \in [Records -> Nat]
  BY WritesAssumption DEF Issue, ClaimInv, TypeOK, PipelineTypeOK
<1>2. /\ base' = base /\ pc' = [pc EXCEPT ![w] = "turn"]
      /\ first' = [first EXCEPT ![w] = IsFirstWrite(w)]
      /\ claimed' = IF Keyed(w) THEN claimed \cup {w} ELSE claimed
      /\ outstanding' = IF Keyed(w) THEN [outstanding EXCEPT ![Target[w]] = @ + 1]
                        ELSE outstanding
  BY DEF Issue
<1>3. OutstandingCounts'
  <2> SUFFICES ASSUME NEW r \in Records
               PROVE  outstanding'[r] = Cardinality(Claims(r)')
    BY DEF OutstandingCounts
  <2>1. outstanding[r] = Cardinality(Claims(r))
    BY DEF ClaimInv, OutstandingCounts
  <2>2. CASE Keyed(w) /\ Target[w] = r
    <3>1. Claims(r)' = Claims(r) \cup {w} /\ w \notin Claims(r)
      BY <1>1, <1>2, <2>2 DEF Claims
    <3>2. Cardinality(Claims(r)') = Cardinality(Claims(r)) + 1
      BY <3>1, ClaimsFinite, FS_AddElement
    <3> QED
      BY <1>1, <1>2, <2>1, <2>2, <3>2
  <2>3. CASE ~(Keyed(w) /\ Target[w] = r)
    <3>1. Claims(r)' = Claims(r)
      BY <1>2, <2>3 DEF Claims
    <3> QED
      BY <1>1, <1>2, <2>1, <2>3, <3>1
  <2> QED
    BY <2>2, <2>3
<1>4. ASSUME IsFirstWrite(w), NEW v \in claimed, SameRecord(v, w)
      PROVE  FALSE
  <2>1. v \in Claims(Target[w])
    BY <1>4 DEF SameRecord, Claims
  <2>2. Cardinality(Claims(Target[w])) = 0
    BY <1>1, <1>4 DEF IsFirstWrite, ClaimInv, OutstandingCounts
  <2> QED
    BY <1>1, <2>1, <2>2, ClaimsFinite, FS_EmptySet
<1>5. \A u, v \in claimed' : u # v /\ SameRecord(u, v) => ~(first'[u] /\ first'[v])
  <2> SUFFICES ASSUME NEW u \in claimed', NEW v \in claimed', u # v, SameRecord(u, v),
                      first'[u], first'[v]
               PROVE  FALSE
    OBVIOUS
  <2>1. CASE u = w
    BY <1>1, <1>2, <1>4, <2>1 DEF SameRecord
  <2>2. CASE v = w
    BY <1>1, <1>2, <1>4, <2>2 DEF SameRecord
  <2>3. CASE u # w /\ v # w
    BY <1>1, <1>2, <2>3 DEF ClaimInv
  <2> QED
    BY <2>1, <2>2, <2>3
<1>6. /\ \A v \in Writes : base'[v] # NoVersion => first'[v]
      /\ \A v \in Writes : pc'[v] = "idle" => v \notin claimed' /\ base'[v] = NoVersion
      /\ \A v \in claimed' : Keyed(v)
  BY <1>1, <1>2 DEF ClaimInv
<1> QED
  BY <1>3, <1>5, <1>6 DEF ClaimInv, SameRecord, Keyed

LEMMA ClaimStamp ==
  ASSUME TypeOK, ClaimInv, NEW w \in Writes, Stamp(w)
  PROVE  ClaimInv'
<1>1. OutstandingCounts'
  BY DEF Stamp, ClaimInv, OutstandingCounts, Claims
<1>2. \A v \in Writes : base'[v] # NoVersion => first[v]
  BY DEF Stamp, ClaimInv, TypeOK, PipelineTypeOK
<1>3. \A v \in Writes : pc'[v] = "idle" => v # w /\ pc[v] = "idle" /\ base'[v] = base[v]
  BY DEF Stamp, TypeOK, PipelineTypeOK
<1>4. UNCHANGED <<first, claimed>>
  BY DEF Stamp
<1> QED
  BY <1>1, <1>2, <1>3, <1>4 DEF ClaimInv, SameRecord, Keyed

LEMMA ClaimRelease ==
  ASSUME TypeOK, ClaimInv, NEW w \in Writes, Release(w)
  PROVE  ClaimInv'
<1>1. /\ w \in claimed /\ claimed' = claimed \ {w} /\ UNCHANGED <<pc, first, base>>
      /\ outstanding' = [outstanding EXCEPT ![Target[w]] = IF @ > 0 THEN @ - 1 ELSE 0]
      /\ outstanding \in [Records -> Nat] /\ Target[w] \in Records
  BY WritesAssumption DEF Release, TypeOK, PipelineTypeOK
<1>2. OutstandingCounts'
  <2> SUFFICES ASSUME NEW r \in Records
               PROVE  outstanding'[r] = Cardinality(Claims(r)')
    BY DEF OutstandingCounts
  <2>1. outstanding[r] = Cardinality(Claims(r))
    BY DEF ClaimInv, OutstandingCounts
  <2>2. CASE Target[w] = r
    <3>1. Claims(r)' = Claims(r) \ {w} /\ w \in Claims(r)
      BY <1>1, <2>2 DEF Claims
    <3>2. Cardinality(Claims(r)') = Cardinality(Claims(r)) - 1
      BY <3>1, ClaimsFinite, FS_RemoveElement
    <3>3. Cardinality(Claims(r)) # 0
      BY <3>1, ClaimsFinite, FS_EmptySet
    <3> QED
      BY <1>1, <2>1, <2>2, <3>2, <3>3
  <2>3. CASE Target[w] # r
    <3>1. Claims(r)' = Claims(r)
      BY <1>1, <2>3 DEF Claims
    <3> QED
      BY <1>1, <2>1, <2>3, <3>1
  <2> QED
    BY <2>2, <2>3
<1> QED
  BY <1>1, <1>2 DEF ClaimInv, SameRecord, Keyed

LEMMA ClaimNext == TypeOK /\ ClaimInv /\ [Next]_vars => ClaimInv'
<1> SUFFICES ASSUME TypeOK, ClaimInv, [Next]_vars PROVE ClaimInv'
  OBVIOUS
<1>1. CASE Bystander
  <2>1. OutstandingCounts'
    BY <1>1 DEF Bystander, ClaimInv, OutstandingCounts, Claims
  <2> QED
    BY <1>1, <2>1 DEF Bystander, ClaimInv, SameRecord, Keyed
<1> QED
  BY <1>1, Bystanders, ClaimIssue, ClaimStamp, ClaimRelease

LEMMA ClaimImpliesOneStamp == TypeOK /\ ClaimInv => OneStamp
BY DEF TypeOK, PipelineTypeOK, ClaimInv, OneStamp

\* The counter of unfinished writes per record counts them, through every
\* order of settling and failing.
THEOREM OutstandingExact == Spec => []OutstandingCounts
<1>1. ClaimInv => OutstandingCounts
  BY DEF ClaimInv
<1> QED
  BY <1>1, ClaimInit, ClaimNext, TypeCorrect, PTL DEF Spec

\* Two unfinished writes to one record are never both version-stamped.
THEOREM StampedOnce == Spec => []OneStamp
BY ClaimInit, ClaimNext, ClaimImpliesOneStamp, TypeCorrect, PTL DEF Spec

----------------------------------------------------------------------------
(* A queued write is never forgotten.                                      *)

LEMMA WakeUpNext == WakeUp /\ [Next]_vars => WakeUp'
<1> SUFFICES ASSUME WakeUp, [Next]_vars PROVE WakeUp'
  OBVIOUS
<1>1. UNCHANGED <<replay, flushVars>> => WakeUp'
  BY DEF WakeUp, replay, flushVars
<1>2. ASSUME NEW w \in Writes, Issue(w) \/ WriteSteps(w) PROVE WakeUp'
  <2>1. CASE QueueBehind(w) \/ FallBack(w)
    BY <2>1 DEF QueueBehind, FallBack, WakeUp
  <2>2. CASE FlushConfirm(w) \/ FlushReject(w) \/ FlushStaysQueued(w)
    BY <2>2 DEF FlushConfirm, FlushReject, FlushStaysQueued, SettlingNext, NextOutcome, WakeUp
  <2>3. CASE Issue(w) \/ Stamp(w) \/ Deliver(w) \/ DeliverLocally(w) \/ Dispatch(w)
             \/ Release(w) \/ Confirm(w) \/ Reject(w)
    BY <1>1, <2>3 DEF Issue, Stamp, Deliver, DeliverLocally, Dispatch, Release, Confirm, Reject
  <2> QED
    BY <1>2, <2>1, <2>2, <2>3 DEF WriteSteps
<1>3. CASE Runtime
  <2>1. CASE SendBatch \/ Ingest
    BY <1>1, <2>1 DEF SendBatch, Ingest
  <2>2. CASE Collect
    BY <2>2 DEF Collect, WakeUp, replay
  <2>3. CASE TimerFires
    BY <2>3 DEF TimerFires, Replay, WakeUp, flushVars
  <2>4. CASE FlushRound
    BY <2>4 DEF FlushRound, Replay, WakeUp
  <2> QED
    BY <1>3, <2>1, <2>2, <2>3, <2>4 DEF Runtime
<1>4. CASE Network \/ Misfortune
  BY <1>1, <1>4, ServerOnly DEF Network, Misfortune, Respond, Fail, Refuse
<1>5. CASE Environment
  BY <1>1, <1>5 DEF Environment, FlushNow, Replay, RivalEdit, Refresh, WakeUp
<1>6. CASE AtRest \/ UNCHANGED vars
  BY <1>1, <1>6 DEF AtRest, vars
<1> QED
  BY <1>2, <1>3, <1>4, <1>5, <1>6 DEF Next

\* While a write waits in the replay queue its next try is under way or
\* scheduled.
THEOREM QueueIsWatched == Spec => []WakeUp
<1>1. Init => WakeUp
  BY DEF Init, WakeUp
<1> QED
  BY <1>1, WakeUpNext, PTL DEF Spec

----------------------------------------------------------------------------
(* Counting in sequences.                                                  *)

\* Where, and how often, an element of X is in s.
At(s, X) == {i \in DOMAIN s : s[i] \in X}
Count(s, X) == Cardinality(At(s, X))

LEMMA CountType ==
  ASSUME NEW S, NEW s \in Seq(S), NEW X
  PROVE  /\ IsFiniteSet(At(s, X)) /\ Count(s, X) \in Nat
         /\ Count(s, X) = 0 <=> \A i \in 1..Len(s) : s[i] \notin X
<1>1. DOMAIN s = 1..Len(s) /\ Len(s) \in Nat
  BY LenProperties
<1>2. IsFiniteSet(1..Len(s)) /\ At(s, X) \subseteq 1..Len(s)
  BY <1>1, FS_Interval DEF At
<1>3. IsFiniteSet(At(s, X))
  BY <1>2, FS_Subset
<1>4. At(s, X) = {} <=> \A i \in 1..Len(s) : s[i] \notin X
  BY <1>1 DEF At
<1> QED  BY <1>3, <1>4, FS_CardinalityType, FS_EmptySet DEF Count

LEMMA CountConcat ==
  ASSUME NEW S, NEW s \in Seq(S), NEW t \in Seq(S), NEW X
  PROVE  Count(s \o t, X) = Count(s, X) + Count(t, X)
<1> DEFINE n == Len(s)
           A == At(s, X)
           B == At(t, X)
           later == {i \in 1..(n + Len(t)) : i > n /\ i - n \in B}
<1>1. /\ n \in Nat /\ Len(t) \in Nat /\ DOMAIN s = 1..n /\ DOMAIN t = 1..Len(t)
  BY LenProperties
<1>2. s \o t \in Seq(S) /\ DOMAIN (s \o t) = 1..(n + Len(t))
  BY ConcatProperties, LenProperties
<1>3. \A i \in 1..(n + Len(t)) : (s \o t)[i] = IF i <= n THEN s[i] ELSE t[i - n]
  BY ConcatProperties
<1>4. IsFiniteSet(A) /\ IsFiniteSet(B)
  BY CountType
<1>5. At(s \o t, X) = A \cup later
  <2>1. ASSUME NEW i \in 1..(n + Len(t)) PROVE (s \o t)[i] \in X <=> i \in A \cup later
    <3>1. CASE i <= n
      BY <1>1, <1>3, <3>1 DEF At
    <3>2. CASE i > n
      BY <1>1, <1>3, <3>2 DEF At
    <3> QED  BY <1>1, <3>1, <3>2
  <2>2. A \cup later \subseteq 1..(n + Len(t))
    BY <1>1 DEF At
  <2> QED  BY <1>2, <2>1, <2>2 DEF At
<1>6. IsFiniteSet(later) /\ Cardinality(later) = Cardinality(B)
  <2> DEFINE f == [j \in B |-> j + n]
  <2>1. f \in [B -> later]
    BY <1>1 DEF At
  <2>2. \A i, j \in B : f[i] = f[j] => i = j
    BY <1>1 DEF At
  <2>3. \A i \in later : \E j \in B : f[j] = i
    BY <1>1 DEF At
  <2>4. f \in Bijection(B, later)
    BY <2>1, <2>2, <2>3 DEF Bijection, Injection, Surjection, IsInjective
  <2> QED  BY <1>4, <2>4, FS_Bijection DEF ExistsBijection
<1>7. A \cap later = {}
  BY <1>1 DEF At
<1> HIDE DEF A, B, later
<1>8. Cardinality(A \cup later) = Cardinality(A) + Cardinality(B)
  <2>1. Cardinality(A \cap later) = 0
    BY <1>7, FS_EmptySet
  <2>2. Cardinality(A) \in Nat /\ Cardinality(B) \in Nat
    BY <1>4, FS_CardinalityType
  <2>3. Cardinality(A \cup later)
          = Cardinality(A) + Cardinality(later) - Cardinality(A \cap later)
    BY <1>4, <1>6, FS_Union
  <2> QED  BY <1>6, <2>1, <2>2, <2>3
<1> QED  BY <1>5, <1>8 DEF Count, A, B

LEMMA CountOne ==
  ASSUME NEW x, NEW X
  PROVE  Count(<<x>>, X) = IF x \in X THEN 1 ELSE 0
<1>1. At(<<x>>, X) = IF x \in X THEN {1} ELSE {}
  BY DEF At
<1> QED  BY <1>1, FS_EmptySet, FS_Singleton DEF Count

LEMMA CountAppend ==
  ASSUME NEW S, NEW s \in Seq(S), NEW x \in S, NEW X
  PROVE  Count(Append(s, x), X) = Count(s, X) + (IF x \in X THEN 1 ELSE 0)
<1>1. <<x>> \in Seq(S) /\ Append(s, x) = s \o <<x>>
  BY AppendIsConcat
<1>2. Count(s \o <<x>>, X) = Count(s, X) + Count(<<x>>, X)
  BY <1>1, CountConcat
<1> QED  BY <1>1, <1>2, CountOne

LEMMA CountTail ==
  ASSUME NEW S, NEW s \in Seq(S), s # <<>>, NEW X
  PROVE  Count(s, X) = Count(Tail(s), X) + (IF Head(s) \in X THEN 1 ELSE 0)
<1>1. Head(s) \in S /\ Tail(s) \in Seq(S) /\ s = <<Head(s)>> \o Tail(s)
  <2> DEFINE h == <<Head(s)>>
             t == Tail(s)
             whole == h \o t
  <2>1. /\ Head(s) \in S /\ t \in Seq(S) /\ Len(t) = Len(s) - 1
        /\ \A i \in 1..Len(t) : t[i] = s[i + 1]
    BY HeadTailProperties
  <2>2. h \in Seq(S) /\ Len(h) = 1 /\ h[1] = s[1] /\ Len(s) \in Nat
    BY <2>1, LenProperties
  <2> HIDE DEF h, t
  <2>3. /\ whole \in Seq(S) /\ Len(whole) = Len(s)
        /\ \A i \in 1..Len(s) : whole[i] = IF i <= 1 THEN h[i] ELSE t[i - 1]
    <3>1. /\ h \o t \in Seq(S) /\ Len(h \o t) = Len(h) + Len(t)
          /\ \A i \in 1..Len(h) + Len(t) : (h \o t)[i] = IF i <= Len(h) THEN h[i]
                                                          ELSE t[i - Len(h)]
      <4>1. h \in Seq(S) /\ t \in Seq(S)
        BY <2>1, <2>2
      <4> QED  BY <4>1, ConcatProperties
    <3> QED  BY <2>1, <2>2, <3>1
  <2>4. \A i \in 1..Len(s) : whole[i] = s[i]
    BY <2>1, <2>2, <2>3
  <2> HIDE DEF whole
  <2>5. s = whole
    BY <2>3, <2>4, SeqEqual
  <2> QED  BY <2>1, <2>5 DEF h, t, whole
<1>2. <<Head(s)>> \in Seq(S)
  BY <1>1
<1>3. Count(Tail(s), X) \in Nat
  BY <1>1, CountType
<1>4. Count(<<Head(s)>> \o Tail(s), X) = Count(<<Head(s)>>, X) + Count(Tail(s), X)
  BY <1>1, <1>2, CountConcat
<1>5. Count(<<Head(s)>>, X) = IF Head(s) \in X THEN 1 ELSE 0
  BY CountOne
<1>6. Count(s, X) = Count(<<Head(s)>>, X) + Count(Tail(s), X)
  BY <1>1, <1>4
<1> QED  BY <1>3, <1>5, <1>6

\* Two sequences of the same length that agree on where X and Y are.
LEMMA CountSame ==
  ASSUME NEW S, NEW s \in Seq(S), NEW T, NEW t \in Seq(T), Len(s) = Len(t), NEW X, NEW Y,
         \A i \in 1..Len(s) : s[i] \in X <=> t[i] \in Y
  PROVE  Count(s, X) = Count(t, Y)
<1>1. DOMAIN s = DOMAIN t /\ DOMAIN s = 1..Len(s)
  BY LenProperties
<1>2. At(s, X) = At(t, Y)
  BY <1>1 DEF At
<1> QED  BY <1>2 DEF Count

\* The queue without w has one w less, and of everything else as many.
LEMMA CountWithout ==
  ASSUME NEW q \in Seq(Writes), NEW w \in Writes, NEW X, Count(q, {w}) # 0
  PROVE  /\ Without(q, w) \in Seq(Writes)
         /\ Count(Without(q, w), X) = Count(q, X) - (IF w \in X THEN 1 ELSE 0)
<1> DEFINE i == CHOOSE j \in 1..Len(q) : q[j] = w
           front == SubSeq(q, 1, i - 1)
           back == SubSeq(q, i + 1, Len(q))
<1>1. i \in 1..Len(q) /\ q[i] = w /\ Without(q, w) = front \o back
  <2>1. \E j \in 1..Len(q) : q[j] = w
    BY CountType
  <2> QED  BY <2>1 DEF Without
<1>2. Without(q, w) \in Seq(Writes)
  BY WithoutType
<1> HIDE DEF i
<1>3. front \in Seq(Writes) /\ back \in Seq(Writes) /\ Len(front) = i - 1 /\ Len(back) = Len(q) - i
      /\ (\A j \in 1..(i - 1) : front[j] = q[j]) /\ (\A j \in 1..(Len(q) - i) : back[j] = q[i + j])
  <2>1. /\ \A j \in 1..(i - 1) : q[j] \in Writes
        /\ \A j \in (i + 1)..Len(q) : q[j] \in Writes
        /\ Len(q) \in Nat /\ i \in Int /\ i >= 1 /\ i <= Len(q)
    BY <1>1, LenProperties
  <2>2. /\ front \in Seq(Writes) /\ Len(front) = (IF 1 <= i - 1 THEN i - 1 - 1 + 1 ELSE 0)
        /\ \A j \in 1..(i - 1 - 1 + 1) : front[j] = q[1 + j - 1]
    BY <2>1, SubSeqProperties
  <2>3. /\ back \in Seq(Writes) /\ Len(back) = (IF i + 1 <= Len(q) THEN Len(q) - (i + 1) + 1 ELSE 0)
        /\ \A j \in 1..(Len(q) - (i + 1) + 1) : back[j] = q[i + 1 + j - 1]
    BY <2>1, SubSeqProperties
  <2> QED  BY <2>1, <2>2, <2>3
<1> HIDE DEF front, back
<1>4. q = front \o (<<w>> \o back)
  <2> DEFINE one == <<w>>
             rest == one \o back
             whole == front \o rest
  <2>1. one \in Seq(Writes) /\ Len(one) = 1 /\ one[1] = w
    OBVIOUS
  <2>9. i \in Int /\ 1 <= i /\ i <= Len(q) /\ Len(q) \in Nat
    BY <1>1, LenProperties
  <2> HIDE DEF one
  <2>2. /\ rest \in Seq(Writes) /\ Len(rest) = Len(q) - i + 1
        /\ rest[1] = w /\ \A j \in 1..(Len(q) - i) : rest[j + 1] = back[j]
    <3>1. /\ one \o back \in Seq(Writes) /\ Len(one \o back) = Len(one) + Len(back)
          /\ \A j \in 1..Len(one) + Len(back) : (one \o back)[j] = IF j <= Len(one) THEN one[j]
                                                                 ELSE back[j - Len(one)]
      BY <1>3, <2>1, ConcatProperties
    <3> HIDE DEF rest
    <3>2. rest = one \o back
      BY DEF rest
    <3>3. \A j \in 1..(Len(q) - i + 1) : rest[j] = IF j <= 1 THEN one[j] ELSE back[j - 1]
      BY <1>3, <2>1, <2>9, <3>1, <3>2
    <3>4. ASSUME NEW j \in 1..(Len(q) - i) PROVE rest[j + 1] = back[j]
      <4>1. j + 1 \in 1..(Len(q) - i + 1) /\ ~(j + 1 <= 1) /\ (j + 1) - 1 = j
        BY <2>9
      <4> QED  BY <3>3, <4>1
    <3> QED  BY <1>3, <2>1, <2>9, <3>1, <3>2, <3>3, <3>4
  <2> HIDE DEF rest
  <2>3. /\ whole \in Seq(Writes) /\ Len(whole) = Len(q)
        /\ \A j \in 1..Len(q) : whole[j] = IF j <= i - 1 THEN front[j] ELSE rest[j - (i - 1)]
    <3>1. /\ front \o rest \in Seq(Writes) /\ Len(front \o rest) = Len(front) + Len(rest)
          /\ \A j \in 1..Len(front) + Len(rest) :
                (front \o rest)[j] = IF j <= Len(front) THEN front[j] ELSE rest[j - Len(front)]
      BY <1>3, <2>2, ConcatProperties
    <3>2. Len(front) + Len(rest) = Len(q)
      BY <1>3, <2>2, <2>9
    <3> QED  BY <1>3, <3>1, <3>2
  <2> HIDE DEF whole
  <2>4. ASSUME NEW j \in 1..Len(q) PROVE whole[j] = q[j]
    <3>1. CASE j < i
      BY <1>3, <2>3, <2>9, <3>1
    <3>2. CASE j = i
      BY <1>1, <2>2, <2>3, <2>9, <3>2
    <3>3. CASE j > i
      <4>1. /\ whole[j] = rest[j - (i - 1)] /\ j - i \in 1..(Len(q) - i)
            /\ j - (i - 1) = (j - i) + 1 /\ i + (j - i) = j
        BY <2>3, <2>9, <3>3
      <4>2. rest[(j - i) + 1] = back[j - i] /\ back[j - i] = q[i + (j - i)]
        BY <1>3, <2>2, <4>1
      <4> QED  BY <4>1, <4>2
    <3> QED  BY <2>9, <3>1, <3>2, <3>3
  <2>5. q = whole
    BY <2>3, <2>4, SeqEqual
  <2> QED  BY <2>5 DEF whole, rest, one
<1>5. Count(q, X) = Count(front, X) + ((IF w \in X THEN 1 ELSE 0) + Count(back, X))
  <2> DEFINE one == <<w>>
  <2>0. one \in Seq(Writes)
    OBVIOUS
  <2> HIDE DEF one
  <2>1. one \o back \in Seq(Writes)
    BY <1>3, <2>0, ConcatProperties
  <2>2. Count(one \o back, X) = Count(one, X) + Count(back, X)
    BY <1>3, <2>0, CountConcat
  <2> DEFINE rest == one \o back
  <2> HIDE DEF rest
  <2>3. Count(front \o rest, X) = Count(front, X) + Count(rest, X)
    <3>1. front \in Seq(Writes) /\ rest \in Seq(Writes)
      BY <1>3, <2>1 DEF rest
    <3> QED  BY <3>1, CountConcat
  <2>4. Count(one, X) = IF w \in X THEN 1 ELSE 0
    BY CountOne DEF one
  <2>5. q = front \o (one \o back)
    BY <1>4 DEF one
  <2> QED  BY <2>2, <2>3, <2>4, <2>5 DEF rest
<1>6. Count(front \o back, X) = Count(front, X) + Count(back, X)
  BY <1>3, CountConcat
<1>7. Count(front, X) \in Nat /\ Count(back, X) \in Nat
  BY <1>3, CountType
<1> QED  BY <1>1, <1>2, <1>5, <1>6, <1>7

----------------------------------------------------------------------------
(* Plans on their way.                                                     *)

\* Where e is in the requests of N that somebody waits for.
Flights(N, e) ==
  UNION {{<<q.id, i>> : i \in {j \in DOMAIN q.plans : q.plans[j] = e}} : q \in {p \in N : p.open}}
Onboard(q, e) == IF q.open THEN Count(q.plans, {e}) ELSE 0
Mail(e) == {n \in News : n.entry = e}

\* Requests have ids of their own, so a copy in flight is counted once.
NetInv ==
  /\ \A q \in net : q.id <= sent /\ \A p \in net : p.id = q.id => p = q
  /\ \A e \in Entries : IsFiniteSet(Flights(net, e))

\* HeldOnce made inductive.
HeldInv == HeldOnce /\ NetInv /\ (flushing = "idle" => outcomes = <<>>)

LEMMA FlightAdd ==
  ASSUME NEW N \in SUBSET Requests, NEW q \in Requests, NEW e \in Entries,
         IsFiniteSet(Flights(N, e)), \A p \in N : p.id # q.id
  PROVE  /\ IsFiniteSet(Flights(N \cup {q}, e))
         /\ Cardinality(Flights(N \cup {q}, e)) = Cardinality(Flights(N, e)) + Onboard(q, e)
<1> DEFINE own == {<<q.id, i>> : i \in At(q.plans, {e})}
           more == IF q.open THEN own ELSE {}
<1>1. q.plans \in Seq(Entries) /\ q.open \in BOOLEAN
  BY DEF Requests
<1>2. IsFiniteSet(At(q.plans, {e})) /\ Count(q.plans, {e}) \in Nat
  BY <1>1, CountType
<1>3. IsFiniteSet(own) /\ Cardinality(own) = Count(q.plans, {e})
  <2> DEFINE f == [i \in At(q.plans, {e}) |-> <<q.id, i>>]
  <2>1. f \in Bijection(At(q.plans, {e}), own)
    BY DEF Bijection, Injection, Surjection, IsInjective
  <2> QED  BY <1>2, <2>1, FS_Bijection DEF ExistsBijection, Count
<1>4. Flights(N \cup {q}, e) = Flights(N, e) \cup more
  <2>1. \A p : {<<p.id, i>> : i \in {j \in DOMAIN p.plans : p.plans[j] = e}}
                 = {<<p.id, i>> : i \in At(p.plans, {e})}
    BY DEF At
  <2>2. CASE q.open
    <3>1. {p \in N \cup {q} : p.open} = {p \in N : p.open} \cup {q}
      BY <2>2
    <3>2. own = {<<q.id, i>> : i \in {j \in DOMAIN q.plans : q.plans[j] = e}}
      BY <2>1
    <3> HIDE DEF own
    <3> QED  BY <2>2, <3>1, <3>2 DEF Flights
  <2>3. CASE ~q.open
    <3>1. {p \in N \cup {q} : p.open} = {p \in N : p.open}
      BY <2>3
    <3> QED  BY <2>3, <3>1 DEF Flights
  <2> QED  BY <1>1, <2>2, <2>3
<1>5. Flights(N, e) \cap own = {}
  <2>1. ASSUME NEW x \in Flights(N, e) PROVE x \notin own
    <3> PICK p \in N : \E i : x = <<p.id, i>>
      BY <2>1 DEF Flights
    <3>1. p.id # q.id
      OBVIOUS
    <3> QED  BY <3>1
  <2> QED  BY <2>1
<1>6. IsFiniteSet(more) /\ Cardinality(more) = Onboard(q, e)
  BY <1>1, <1>3, FS_EmptySet DEF Onboard
<1>7. Flights(N, e) \cap more = {}
  BY <1>5
<1> HIDE DEF more, own
<1>8. /\ IsFiniteSet(Flights(N, e) \cup more)
      /\ Cardinality(Flights(N, e) \cup more)
           = Cardinality(Flights(N, e)) + Cardinality(more) - Cardinality(Flights(N, e) \cap more)
  BY <1>6, FS_Union
<1>9. Cardinality(Flights(N, e) \cap more) = 0
  BY <1>7, FS_EmptySet
<1>10. Cardinality(Flights(N, e)) \in Nat /\ Cardinality(more) \in Nat
  BY <1>6, FS_CardinalityType
<1>11. Cardinality(Flights(N, e) \cup more) = Cardinality(Flights(N, e)) + Onboard(q, e)
  BY <1>6, <1>8, <1>9, <1>10
<1>12. IsFiniteSet(Flights(N, e) \cup more)
  BY <1>8
<1> HIDE DEF more
<1> QED  BY <1>4, <1>11, <1>12, Zenon

LEMMA FlightRemove ==
  ASSUME NEW N \in SUBSET Requests, NEW q \in N, NEW e \in Entries,
         IsFiniteSet(Flights(N, e)), \A p \in N : p.id = q.id => p = q
  PROVE  /\ IsFiniteSet(Flights(N \ {q}, e))
         /\ Cardinality(Flights(N, e)) = Cardinality(Flights(N \ {q}, e)) + Onboard(q, e)
<1> DEFINE M == N \ {q}
<1>1. M \in SUBSET Requests /\ q \in Requests /\ M \cup {q} = N /\ \A p \in M : p.id # q.id
  OBVIOUS
<1>2. Flights(M, e) \subseteq Flights(N, e)
  BY DEF Flights
<1>3. IsFiniteSet(Flights(M, e))
  BY <1>2, FS_Subset
<1> HIDE DEF M
<1>4. Cardinality(Flights(M \cup {q}, e)) = Cardinality(Flights(M, e)) + Onboard(q, e)
  BY <1>1, <1>3, FlightAdd
<1> QED  BY <1>1, <1>3, <1>4 DEF M

\* The three places a plan can be counted in.
LEMMA CopiesAre ==
  ASSUME TypeOK, NetInv, NEW e \in Entries
  PROVE  /\ Copies(e) = Count(batch, {e}) + Cardinality(Flights(net, e)) + Count(arrived, Mail(e))
         /\ Count(batch, {e}) \in Nat /\ Cardinality(Flights(net, e)) \in Nat
         /\ Count(arrived, Mail(e)) \in Nat
<1>1. batch \in Seq(Entries) /\ arrived \in Seq(News)
  BY DEF TypeOK, TransportTypeOK
<1>2. Waiting(e) = Count(batch, {e})
  <2>1. {i \in DOMAIN batch : batch[i] = e} = At(batch, {e})
    BY DEF At
  <2> QED  BY <2>1 DEF Waiting, Occurrences, Count
<1>3. InFlight(e) = Cardinality(Flights(net, e))
  BY DEF InFlight, Flights
<1>4. Landed(e) = Count(arrived, Mail(e))
  <2>1. \A i \in DOMAIN arrived : arrived[i] \in News
    BY <1>1, LenProperties
  <2>2. {i \in DOMAIN arrived : arrived[i].entry = e} = At(arrived, Mail(e))
    BY <2>1 DEF At, Mail
  <2> QED  BY <2>2 DEF Landed, Count
<1> QED  BY <1>1, <1>2, <1>3, <1>4, CountType, FS_CardinalityType DEF Copies, NetInv

\* The copies after a step, from the three places after it.
LEMMA CopiesAfter ==
  ASSUME TypeOK', NetInv', NEW e \in Entries
  PROVE  Copies(e)' = Count(batch', {e}) + Cardinality(Flights(net', e)) + Count(arrived', Mail(e))
<1>1. batch' \in Seq(Entries) /\ arrived' \in Seq(News)
  BY DEF TypeOK, TransportTypeOK
<1>2. Waiting(e)' = Count(batch', {e})
  <2>1. {i \in DOMAIN batch' : batch'[i] = e} = At(batch', {e})
    BY DEF At
  <2> QED  BY <2>1 DEF Waiting, Occurrences, Count
<1>3. InFlight(e)' = Cardinality(Flights(net', e))
  BY DEF InFlight, Flights
<1>4. Landed(e)' = Count(arrived', Mail(e))
  <2>1. \A i \in DOMAIN arrived' : arrived'[i] \in News
    BY <1>1, LenProperties
  <2>2. {i \in DOMAIN arrived' : arrived'[i].entry = e} = At(arrived', Mail(e))
    BY <2>1 DEF At, Mail
  <2> QED  BY <2>2 DEF Landed, Count
<1> QED  BY <1>2, <1>3, <1>4 DEF Copies

LEMMA CopiesCount ==
  ASSUME TypeOK', NetInv', NEW e \in Entries
  PROVE  Copies(e)' \in Nat
<1>1. Copies(e)' = Count(batch', {e}) + Cardinality(Flights(net', e)) + Count(arrived', Mail(e))
  BY CopiesAfter
<1>2. batch' \in Seq(Entries) /\ arrived' \in Seq(News)
  BY DEF TypeOK, TransportTypeOK
<1>3. Count(batch', {e}) \in Nat /\ Count(arrived', Mail(e)) \in Nat
  BY <1>2, CountType
<1>4. Cardinality(Flights(net', e)) \in Nat
  BY FS_CardinalityType DEF NetInv
<1> QED  BY <1>1, <1>3, <1>4

\* Nothing moves.
LEMMA CopiesStay ==
  ASSUME NetInv, UNCHANGED <<batch, net, arrived>>, sent' = sent
  PROVE  NetInv' /\ \A e \in Entries : Copies(e)' = Copies(e)
  BY DEF NetInv, Copies, Waiting, InFlight, Landed, Occurrences

\* Plans join the batch.
LEMMA CopiesJoin ==
  ASSUME TypeOK, TypeOK', NetInv, UNCHANGED <<net, sent, arrived>>,
         NEW s \in Seq(Entries), batch' = batch \o s
  PROVE  NetInv' /\ \A e \in Entries : Copies(e)' = Copies(e) + Count(s, {e})
<1>1. NetInv'
  BY DEF NetInv
<1>2. ASSUME NEW e \in Entries PROVE Copies(e)' = Copies(e) + Count(s, {e})
  <2>1. batch \in Seq(Entries)
    BY DEF TypeOK, TransportTypeOK
  <2>2. Count(batch \o s, {e}) = Count(batch, {e}) + Count(s, {e})
    BY <2>1, CountConcat
  <2>3. Count(s, {e}) \in Nat
    BY CountType
  <2>4. Copies(e) = Count(batch, {e}) + Cardinality(Flights(net, e)) + Count(arrived, Mail(e))
        /\ Count(batch, {e}) \in Nat /\ Cardinality(Flights(net, e)) \in Nat
        /\ Count(arrived, Mail(e)) \in Nat
    BY CopiesAre
  <2>5. Copies(e)' = Count(batch', {e}) + Cardinality(Flights(net', e)) + Count(arrived', Mail(e))
    BY <1>1, CopiesAfter
  <2> QED  BY <2>2, <2>3, <2>4, <2>5
<1> QED  BY <1>1, <1>2

\* The head of what arrived is taken; a read may join the batch.
LEMMA CopiesTaken ==
  ASSUME TypeOK, TypeOK', NetInv, UNCHANGED <<net, sent>>, arrived # <<>>,
         arrived' = Tail(arrived),
         batch' = batch \/ \E r \in Records : batch' = Append(batch, Read(r))
  PROVE  /\ NetInv'
         /\ \A e \in Entries : e.kind # "read" =>
              Copies(e) = Copies(e)' + (IF Head(arrived).entry = e THEN 1 ELSE 0)
<1>1. NetInv'
  BY DEF NetInv
<1>2. ASSUME NEW e \in Entries, e.kind # "read"
      PROVE  Copies(e) = Copies(e)' + (IF Head(arrived).entry = e THEN 1 ELSE 0)
  <2>1. batch \in Seq(Entries) /\ arrived \in Seq(News) /\ batch' \in Seq(Entries)
        /\ arrived' \in Seq(News)
    BY DEF TypeOK, TransportTypeOK
  <2>2. Count(batch', {e}) = Count(batch, {e})
    <3>1. CASE batch' = batch
      BY <3>1
    <3>2. ASSUME NEW r \in Records, batch' = Append(batch, Read(r))
          PROVE  Count(batch', {e}) = Count(batch, {e})
      <4>1. Read(r) \in Entries /\ Read(r) \notin {e}
        BY <1>2, EntryTypes DEF Read
      <4>2. Count(Append(batch, Read(r)), {e})
              = Count(batch, {e}) + (IF Read(r) \in {e} THEN 1 ELSE 0)
        BY <2>1, <4>1, CountAppend
      <4>3. Count(batch, {e}) \in Nat
        BY <2>1, CountType
      <4> QED  BY <3>2, <4>1, <4>2, <4>3
    <3> QED  BY <3>1, <3>2
  <2>3. Head(arrived) \in News
    BY <2>1, ConsumeType
  <2>4. Head(arrived) \in Mail(e) <=> Head(arrived).entry = e
    BY <2>3 DEF Mail
  <2>5. Count(arrived, Mail(e))
          = Count(Tail(arrived), Mail(e)) + (IF Head(arrived) \in Mail(e) THEN 1 ELSE 0)
    BY <2>1, CountTail
  <2>6. Copies(e) = Count(batch, {e}) + Cardinality(Flights(net, e)) + Count(arrived, Mail(e))
        /\ Count(batch, {e}) \in Nat /\ Cardinality(Flights(net, e)) \in Nat
    BY CopiesAre
  <2>7. Copies(e)' = Count(batch', {e}) + Cardinality(Flights(net', e)) + Count(arrived', Mail(e))
    BY <1>1, CopiesAfter
  <2>8. Count(arrived', Mail(e)) \in Nat
    BY <2>1, CountType
  <2> QED  BY <2>2, <2>4, <2>5, <2>6, <2>7, <2>8
<1> QED  BY <1>1, <1>2

\* The batch becomes a request.
LEMMA CopiesSent ==
  ASSUME TypeOK, TypeOK', NetInv, SendBatch
  PROVE  NetInv' /\ \A e \in Entries : Copies(e)' = Copies(e)
<1> DEFINE q == [id |-> sent', plans |-> batch, answers |-> <<>>, open |-> TRUE]
<1>1. /\ net' = net \cup {q} /\ sent' = sent + 1 /\ batch' = <<>> /\ arrived' = arrived
      /\ sent \in Nat /\ net \in SUBSET Requests /\ batch \in Seq(Entries)
      /\ net' \in SUBSET Requests /\ q.id = sent' /\ q.plans = batch /\ q.open
  BY DEF SendBatch, TypeOK, TransportTypeOK
<1> HIDE DEF q
<1>2. q \in Requests /\ \A p \in net : p.id \in Nat
  BY <1>1 DEF Requests
<1>3. \A p \in net : p.id # q.id
  BY <1>1, <1>2 DEF NetInv
<1>4. ASSUME NEW e \in Entries
      PROVE  /\ IsFiniteSet(Flights(net', e))
             /\ Cardinality(Flights(net', e)) = Cardinality(Flights(net, e)) + Count(batch, {e})
  <2>1. Onboard(q, e) = Count(batch, {e})
    BY <1>1 DEF Onboard
  <2> QED  BY <1>1, <1>2, <1>3, <2>1, FlightAdd DEF NetInv
<1>5. NetInv'
  <2>1. ASSUME NEW a \in net', NEW b \in net', a.id = b.id PROVE a = b
    BY <1>1, <1>3, <2>1 DEF NetInv
  <2>2. \A a \in net' : a.id <= sent'
    BY <1>1, <1>2 DEF NetInv
  <2> QED  BY <1>4, <2>1, <2>2 DEF NetInv
<1>6. ASSUME NEW e \in Entries PROVE Copies(e)' = Copies(e)
  <2>1. Copies(e) = Count(batch, {e}) + Cardinality(Flights(net, e)) + Count(arrived, Mail(e))
        /\ Count(batch, {e}) \in Nat /\ Cardinality(Flights(net, e)) \in Nat
        /\ Count(arrived, Mail(e)) \in Nat
    BY CopiesAre
  <2>2. Copies(e)' = Count(batch', {e}) + Cardinality(Flights(net', e)) + Count(arrived', Mail(e))
    BY <1>5, CopiesAfter
  <2>3. Count(<<>>, {e}) = 0
    <3>1. At(<<>>, {e}) = {}
      BY DEF At
    <3> QED  BY <3>1, FS_EmptySet DEF Count
  <2>4. Count(batch', {e}) = 0 /\ Count(arrived', Mail(e)) = Count(arrived, Mail(e))
    BY <1>1, <2>3
  <2>5. Cardinality(Flights(net', e)) = Cardinality(Flights(net, e)) + Count(batch, {e})
    BY <1>4
  <2> QED  BY <2>1, <2>2, <2>4, <2>5
<1> QED  BY <1>5, <1>6

\* A request is exchanged for another state of it, or for none.
LEMMA IdsExchange ==
  ASSUME NetInv, NEW q \in net, NEW p, p.id = q.id,
         net' \in {net \ {q}, (net \ {q}) \cup {p}}, sent' = sent
  PROVE  \A a \in net' : a.id <= sent' /\ \A b \in net' : b.id = a.id => b = a
<1>1. \A a \in net' : a.id <= sent'
  BY DEF NetInv
<1>2. ASSUME NEW a \in net', NEW b \in net', b.id = a.id PROVE b = a
  BY <1>2 DEF NetInv
<1> QED  BY <1>1, <1>2

LEMMA FlightExchange ==
  ASSUME TypeOK, NetInv, NEW q \in net, NEW p \in Requests, NEW e \in Entries, p.id = q.id,
         net' \in {net \ {q}, (net \ {q}) \cup {p}}
  PROVE  /\ IsFiniteSet(Flights(net', e))
         /\ Cardinality(Flights(net', e)) \in Nat
         /\ Cardinality(Flights(net, e)) \in Nat
         /\ Onboard(q, e) \in Nat /\ Onboard(p, e) \in Nat
         /\ Cardinality(Flights(net', e)) + Onboard(q, e)
              = Cardinality(Flights(net, e)) + (IF net' = net \ {q} THEN 0 ELSE Onboard(p, e))
<1> DEFINE M == net \ {q}
<1>1. net \in SUBSET Requests /\ M \in SUBSET Requests /\ q \in Requests
  BY DEF TypeOK, TransportTypeOK
<1>2. \A a \in M : a.id # q.id /\ a.id # p.id
  BY DEF NetInv
<1>3. /\ IsFiniteSet(Flights(M, e))
      /\ Cardinality(Flights(net, e)) = Cardinality(Flights(M, e)) + Onboard(q, e)
  BY <1>1, FlightRemove DEF NetInv
<1>4. \A a \in Requests : Onboard(a, e) \in Nat
  <2>1. \A a \in Requests : a.plans \in Seq(Entries)
    BY DEF Requests
  <2> QED  BY <2>1, CountType DEF Onboard
<1>5. Cardinality(Flights(M, e)) \in Nat
  BY <1>3, FS_CardinalityType
<1>7. net' = M \/ (net' = M \cup {p} /\ net' # M)
  OBVIOUS
<1> HIDE DEF M
<1>8. CASE net' = M
  BY <1>1, <1>3, <1>4, <1>5, <1>8 DEF M
<1>9. CASE net' = M \cup {p} /\ net' # M
  <2>1. /\ IsFiniteSet(Flights(M \cup {p}, e))
        /\ Cardinality(Flights(M \cup {p}, e)) = Cardinality(Flights(M, e)) + Onboard(p, e)
    BY <1>1, <1>2, <1>3, FlightAdd
  <2> QED  BY <1>1, <1>3, <1>4, <1>5, <1>9, <2>1 DEF M
<1> QED  BY <1>7, <1>8, <1>9

\* The server takes a plan; a request nobody waits for may be forgotten.
LEMMA CopiesServed ==
  ASSUME TypeOK, TypeOK', NetInv, NEW q \in net, ServerExec(q)
  PROVE  NetInv' /\ \A e \in Entries : Copies(e)' = Copies(e)
<1>1. PICK answer : LET p == [q EXCEPT !.answers = Append(@, answer)]
                    IN net' = (net \ {q}) \cup (IF ~p.open /\ Executed(p) THEN {} ELSE {p})
  BY Zenon DEF ServerExec
<1> DEFINE p == [q EXCEPT !.answers = Append(@, answer)]
<1>2. /\ q \in Requests /\ UNCHANGED <<batch, arrived, sent>>
  BY ServerOnly DEF TypeOK, TransportTypeOK
<1>3. p.id = q.id /\ p.plans = q.plans /\ p.open = q.open
  BY <1>2 DEF Requests
<1>4. q.open \in BOOLEAN
  BY <1>2 DEF Requests
<1>5. \/ net' = net \ {q} /\ ~q.open
      \/ net' = (net \ {q}) \cup {p} /\ p \in net'
  BY <1>1, <1>3
<1> HIDE DEF p
<1>6. ASSUME NEW e \in Entries
      PROVE  /\ IsFiniteSet(Flights(net', e))
             /\ Cardinality(Flights(net', e)) = Cardinality(Flights(net, e))
  <2>1. Onboard(p, e) = Onboard(q, e)
    BY <1>3 DEF Onboard
  <2>2. net' \subseteq Requests
    BY DEF TypeOK, TransportTypeOK
  <2>3. CASE net' = net \ {q} /\ ~q.open
    <3>1. Onboard(q, e) = 0
      BY <2>3 DEF Onboard
    <3>2. net' \in {net \ {q}, (net \ {q}) \cup {q}}
      BY <2>3
    <3>3. /\ IsFiniteSet(Flights(net', e))
          /\ Cardinality(Flights(net', e)) \in Nat /\ Cardinality(Flights(net, e)) \in Nat
          /\ Onboard(q, e) \in Nat /\ Onboard(q, e) \in Nat
          /\ Cardinality(Flights(net', e)) + Onboard(q, e)
               = Cardinality(Flights(net, e)) + (IF net' = net \ {q} THEN 0 ELSE Onboard(q, e))
      BY <1>2, <3>2, FlightExchange
    <3> QED  BY <2>3, <3>1, <3>3
  <2>4. CASE net' = (net \ {q}) \cup {p} /\ p \in net'
    <3>1. p \in Requests
      BY <2>2, <2>4
    <3>2. net' # net \ {q}
      <4>1. p \notin net \ {q}
        BY <1>3 DEF NetInv
      <4> QED  BY <2>4, <4>1
    <3>3. net' \in {net \ {q}, (net \ {q}) \cup {p}} /\ p.id = q.id
      BY <1>3, <2>4
    <3>4. /\ IsFiniteSet(Flights(net', e))
          /\ Cardinality(Flights(net', e)) \in Nat /\ Cardinality(Flights(net, e)) \in Nat
          /\ Onboard(q, e) \in Nat /\ Onboard(p, e) \in Nat
          /\ Cardinality(Flights(net', e)) + Onboard(q, e)
               = Cardinality(Flights(net, e)) + (IF net' = net \ {q} THEN 0 ELSE Onboard(p, e))
      BY <3>1, <3>3, FlightExchange
    <3> QED  BY <2>1, <3>2, <3>4
  <2> QED  BY <1>5, <2>3, <2>4
<1>7. NetInv'
  <2>1. net' \in {net \ {q}, (net \ {q}) \cup {p}}
    BY <1>5
  <2> QED  BY <1>2, <1>3, <1>6, <2>1, IdsExchange DEF NetInv
<1>8. ASSUME NEW e \in Entries PROVE Copies(e)' = Copies(e)
  <2>1. Copies(e) = Count(batch, {e}) + Cardinality(Flights(net, e)) + Count(arrived, Mail(e))
    BY CopiesAre
  <2>2. Copies(e)' = Count(batch', {e}) + Cardinality(Flights(net', e)) + Count(arrived', Mail(e))
    BY <1>7, CopiesAfter
  <2> QED  BY <1>2, <1>6, <2>1, <2>2
<1> QED  BY <1>7, <1>8

\* The answers of a request arrive.
LEMMA CopiesHeard ==
  ASSUME TypeOK, TypeOK', NetInv, NEW q \in net, Respond(q) \/ Fail(q) \/ Refuse(q)
  PROVE  NetInv' /\ \A e \in Entries : Copies(e)' = Copies(e)
<1> DEFINE p == [q EXCEPT !.open = FALSE]
<1>0. /\ q \in Requests /\ q.plans \in Seq(Entries) /\ q.answers \in Seq(Answers)
      /\ arrived \in Seq(News) /\ arrived' \in Seq(News) /\ batch \in Seq(Entries)
  BY DEF Requests, TypeOK, TransportTypeOK
<1>1. \E f : Hear(q, f) /\ \A i \in 1..Len(q.plans) : f[i] \in Answers
  <2>1. CASE Respond(q)
    BY <1>0, <2>1, LenProperties DEF Respond, Executed
  <2>2. CASE Fail(q)
    <3> DEFINE f == [i \in 1..Len(q.plans) |-> Fault("offline")]
    <3>1. \A i \in 1..Len(q.plans) : f[i] \in Answers
      BY FaultType DEF Verdicts
    <3>2. Hear(q, f)
      BY <2>2 DEF Fail
    <3> HIDE DEF f
    <3> QED  BY <3>1, <3>2
  <2>3. CASE Refuse(q)
    <3> DEFINE f == [i \in 1..Len(q.plans) |-> Fault("refused")]
    <3>1. \A i \in 1..Len(q.plans) : f[i] \in Answers
      BY FaultType DEF Verdicts
    <3>2. Hear(q, f)
      BY <2>3 DEF Refuse
    <3> HIDE DEF f
    <3> QED  BY <3>1, <3>2
  <2> QED  BY <2>1, <2>2, <2>3
<1> PICK f : Hear(q, f) /\ \A i \in 1..Len(q.plans) : f[i] \in Answers
  BY <1>1
<1>2. /\ q.open /\ UNCHANGED <<batch, sent>>
      /\ net' \in {net \ {q}, (net \ {q}) \cup {p}}
  BY DEF Respond, Fail, Refuse
<1>3. p \in Requests /\ p.id = q.id /\ p.open = FALSE
  BY <1>0 DEF Requests
<1> HIDE DEF p
<1> DEFINE heard == [i \in 1..Len(q.plans) |-> [entry |-> q.plans[i], answer |-> f[i]]]
<1>4. arrived' = arrived \o heard
  BY DEF Hear
<1>5. /\ heard \in Seq(News) /\ Len(heard) = Len(q.plans)
      /\ \A i \in 1..Len(q.plans) : heard[i].entry = q.plans[i]
  BY <1>0, LenProperties DEF News
<1> HIDE DEF heard
<1>6. ASSUME NEW e \in Entries
      PROVE  /\ IsFiniteSet(Flights(net', e))
             /\ Cardinality(Flights(net', e)) + Count(q.plans, {e}) = Cardinality(Flights(net, e))
             /\ Cardinality(Flights(net', e)) \in Nat
  <2>1. Onboard(p, e) = 0 /\ Onboard(q, e) = Count(q.plans, {e})
    BY <1>2, <1>3 DEF Onboard
  <2> QED  BY <1>2, <1>3, <2>1, FlightExchange
<1>7. NetInv'
  BY <1>2, <1>3, <1>6, IdsExchange DEF NetInv
<1>8. ASSUME NEW e \in Entries PROVE Copies(e)' = Copies(e)
  <2>1. Copies(e) = Count(batch, {e}) + Cardinality(Flights(net, e)) + Count(arrived, Mail(e))
        /\ Count(batch, {e}) \in Nat /\ Count(arrived, Mail(e)) \in Nat
    BY CopiesAre
  <2>2. Copies(e)' = Count(batch', {e}) + Cardinality(Flights(net', e)) + Count(arrived', Mail(e))
    BY <1>7, CopiesAfter
  <2>3. Count(arrived \o heard, Mail(e)) = Count(arrived, Mail(e)) + Count(heard, Mail(e))
    BY <1>0, <1>5, CountConcat
  <2>4. Count(heard, Mail(e)) = Count(q.plans, {e})
    <3>1. \A i \in 1..Len(heard) : heard[i] \in News
      BY <1>5, LenProperties
    <3>2. \A i \in 1..Len(heard) : heard[i] \in Mail(e) <=> q.plans[i] \in {e}
      BY <1>5, <3>1 DEF Mail
    <3>3. heard \in Seq(News) /\ q.plans \in Seq(Entries) /\ Len(heard) = Len(q.plans)
      BY <1>0, <1>5
    <3> QED  BY <3>2, <3>3, CountSame
  <2>5. Count(q.plans, {e}) \in Nat
    BY <1>0, CountType
  <2>6. Count(arrived', Mail(e)) = Count(arrived \o heard, Mail(e))
    BY <1>4
  <2>7. Count(batch', {e}) = Count(batch, {e})
    BY <1>2
  <2> QED  BY <1>6, <2>1, <2>2, <2>3, <2>4, <2>5, <2>6, <2>7
<1> QED  BY <1>7, <1>8

----------------------------------------------------------------------------
(* Every write is held once.                                               *)

Of(w) == {o \in Results : o.write = w}

\* What HeldOnce says of a write in the given state, by its numbers: copies
\* of its own plan, entries in the queue, copies of the flush's plan,
\* entries in its snapshot, and answers to them.
Fits(state, flush, direct, queued, copies, snapshot, collected) ==
  /\ direct = IF state = "direct" THEN 1 ELSE 0
  /\ queued = IF state \in {"queued", "behind"} THEN 1 ELSE 0
  /\ copies = IF flush = "sent" THEN snapshot - collected ELSE 0
  /\ copies + collected <= queued

LEMMA PlanEntries ==
  ASSUME NEW v \in Writes, NEW w \in Writes
  PROVE  /\ Direct(v) \in Entries /\ Flush(v) \in Entries
         /\ Direct(v).kind # "read" /\ Flush(v).kind # "read"
         /\ Direct(v) # Flush(w) /\ Flush(v) # Direct(w)
         /\ Direct(v) = Direct(w) <=> v = w
         /\ Flush(v) = Flush(w) <=> v = w
<1>1. Direct(v) \in Entries /\ Flush(v) \in Entries
  BY EntryTypes
<1>2. /\ Direct(v).kind = "direct" /\ Flush(v).kind = "flush"
      /\ Direct(w).kind = "direct" /\ Flush(w).kind = "flush"
      /\ Direct(v).write = v /\ Flush(v).write = v /\ Direct(w).write = w /\ Flush(w).write = w
  BY DEF Direct, Flush
<1>3. Direct(v) # Flush(w) /\ Flush(v) # Direct(w)
  BY <1>2
<1>4. (Direct(v) = Direct(w) <=> v = w) /\ (Flush(v) = Flush(w) <=> v = w)
  BY <1>2
<1> QED  BY <1>1, <1>2, <1>3, <1>4

LEMMA Numbers ==
  ASSUME TypeOK, NEW w \in Writes
  PROVE  /\ Count(replayQueue, {w}) \in Nat /\ Count(flushBatch, {w}) \in Nat
         /\ Count(outcomes, Of(w)) \in Nat
         /\ Occurrences(replayQueue, w) = Count(replayQueue, {w})
         /\ Occurrences(flushBatch, w) = Count(flushBatch, {w})
         /\ Collected(w) = Count(outcomes, Of(w))
<1>1. /\ replayQueue \in Seq(Writes) /\ flushBatch \in Seq(Writes) /\ outcomes \in Seq(Results)
  BY DEF TypeOK, ReplayTypeOK, FlushTypeOK
<1>2. \A s : At(s, {w}) = {i \in DOMAIN s : s[i] = w}
  BY DEF At
<1>3. At(outcomes, Of(w)) = {i \in DOMAIN outcomes : outcomes[i].write = w}
  <2>1. \A i \in DOMAIN outcomes : outcomes[i] \in Results
    BY <1>1, LenProperties
  <2> QED  BY <2>1 DEF At, Of
<1>4. /\ Count(replayQueue, {w}) \in Nat /\ Count(flushBatch, {w}) \in Nat
      /\ Count(outcomes, Of(w)) \in Nat
  BY <1>1, CountType
<1> QED  BY <1>2, <1>3, <1>4 DEF Occurrences, Collected, Count

LEMMA NumbersAfter ==
  ASSUME TypeOK', NEW w \in Writes
  PROVE  /\ Count(replayQueue', {w}) \in Nat /\ Count(flushBatch', {w}) \in Nat
         /\ Count(outcomes', Of(w)) \in Nat
         /\ Occurrences(replayQueue, w)' = Count(replayQueue', {w})
         /\ Occurrences(flushBatch, w)' = Count(flushBatch', {w})
         /\ Collected(w)' = Count(outcomes', Of(w))
<1>1. /\ replayQueue' \in Seq(Writes) /\ flushBatch' \in Seq(Writes)
      /\ outcomes' \in Seq(Results)
  BY DEF TypeOK, ReplayTypeOK, FlushTypeOK
<1>2. \A s : At(s, {w}) = {i \in DOMAIN s : s[i] = w}
  BY DEF At
<1>3. At(outcomes', Of(w)) = {i \in DOMAIN outcomes' : outcomes'[i].write = w}
  <2>1. \A i \in DOMAIN outcomes' : outcomes'[i] \in Results
    BY <1>1, LenProperties
  <2> QED  BY <2>1 DEF At, Of
<1>4. /\ Count(replayQueue', {w}) \in Nat /\ Count(flushBatch', {w}) \in Nat
      /\ Count(outcomes', Of(w)) \in Nat
  BY <1>1, CountType
<1> QED  BY <1>2, <1>3, <1>4 DEF Occurrences, Collected, Count

LEMMA HeldIs ==
  ASSUME TypeOK, HeldInv, NEW w \in Writes
  PROVE  /\ Fits(pc[w], flushing, Copies(Direct(w)), Count(replayQueue, {w}), Copies(Flush(w)),
                 Count(flushBatch, {w}), Count(outcomes, Of(w)))
         /\ Copies(Direct(w)) \in Nat /\ Copies(Flush(w)) \in Nat
<1>1. NetInv /\ Direct(w) \in Entries /\ Flush(w) \in Entries
  BY PlanEntries DEF HeldInv
<1>2. ASSUME NEW e \in Entries PROVE Copies(e) \in Nat
  <2>1. /\ Copies(e) = Count(batch, {e}) + Cardinality(Flights(net, e)) + Count(arrived, Mail(e))
        /\ Count(batch, {e}) \in Nat /\ Cardinality(Flights(net, e)) \in Nat
        /\ Count(arrived, Mail(e)) \in Nat
    BY <1>1, CopiesAre
  <2> QED  BY <2>1
<1>3. Copies(Direct(w)) \in Nat /\ Copies(Flush(w)) \in Nat
  BY <1>1, <1>2
<1> QED  BY <1>3, Numbers DEF HeldInv, HeldOnce, Fits

LEMMA HeldStep ==
  ASSUME TypeOK', NetInv', flushing' = "idle" => outcomes' = <<>>,
         \A w \in Writes :
           Fits(pc'[w], flushing', Copies(Direct(w))', Count(replayQueue', {w}),
                Copies(Flush(w))', Count(flushBatch', {w}), Count(outcomes', Of(w)))
  PROVE  HeldInv'
  BY NumbersAfter DEF HeldInv, HeldOnce, Fits

\* A step that moves no copy and no entry, and no write to or from where it
\* is held.
LEMMA HeldStays ==
  ASSUME TypeOK, TypeOK', HeldInv, NetInv',
         UNCHANGED <<replayQueue, flushing, flushBatch, outcomes>>,
         \A e \in Entries : e.kind # "read" => Copies(e)' = Copies(e),
         \A w \in Writes : \/ pc'[w] = pc[w]
                           \/ /\ pc'[w] \notin {"direct", "queued", "behind"}
                              /\ pc[w] \notin {"direct", "queued", "behind"}
  PROVE  HeldInv'
<1>1. ASSUME NEW w \in Writes
      PROVE  Fits(pc'[w], flushing', Copies(Direct(w))', Count(replayQueue', {w}),
                  Copies(Flush(w))', Count(flushBatch', {w}), Count(outcomes', Of(w)))
  <2>1. Copies(Direct(w))' = Copies(Direct(w)) /\ Copies(Flush(w))' = Copies(Flush(w))
    BY PlanEntries
  <2>2. /\ pc'[w] = "direct" <=> pc[w] = "direct"
        /\ pc'[w] \in {"queued", "behind"} <=> pc[w] \in {"queued", "behind"}
    OBVIOUS
  <2> QED  BY <2>1, <2>2, HeldIs DEF Fits
<1>2. flushing' = "idle" => outcomes' = <<>>
  BY DEF HeldInv
<1> QED  BY <1>1, <1>2, HeldStep

LEMMA HeldBystander ==
  ASSUME TypeOK, TypeOK', HeldInv, NEW w \in Writes,
         \/ Issue(w) \/ Stamp(w) \/ Deliver(w) \/ DeliverLocally(w) \/ Release(w)
  PROVE  HeldInv'
<1>1. /\ UNCHANGED <<batch, net, arrived, sent, replayQueue, flushing, flushBatch, outcomes>>
      /\ \/ pc' = pc
         \/ /\ pc[w] \in {"idle", "turn", "stamped", "started"}
            /\ \E s \in {"turn", "stamped", "started", "confirmed", "rejected"} :
                 pc' = [pc EXCEPT ![w] = s]
  BY DEF Issue, Stamp, Deliver, DeliverLocally, Release, replay, flushVars
<1>2. NetInv' /\ \A e \in Entries : Copies(e)' = Copies(e)
  BY <1>1, CopiesStay DEF HeldInv
<1>3. \A v \in Writes : \/ pc'[v] = pc[v]
                        \/ /\ pc'[v] \notin {"direct", "queued", "behind"}
                           /\ pc[v] \notin {"direct", "queued", "behind"}
  BY <1>1 DEF TypeOK, PipelineTypeOK
<1> QED  BY <1>1, <1>2, <1>3, HeldStays

\* A read that joins the batch is the plan of no write.
LEMMA CopiesRead ==
  ASSUME TypeOK, TypeOK', NetInv, UNCHANGED <<net, sent, arrived>>, NEW r \in Records,
         batch' = batch \/ batch' = Append(batch, Read(r))
  PROVE  NetInv' /\ \A e \in Entries : e.kind # "read" => Copies(e)' = Copies(e)
<1>1. CASE batch' = batch
  BY <1>1, CopiesStay
<1>2. CASE batch' = Append(batch, Read(r))
  <2> DEFINE s == <<Read(r)>>
  <2>1. batch \in Seq(Entries) /\ Read(r) \in Entries /\ Read(r).kind = "read"
    BY EntryTypes DEF TypeOK, TransportTypeOK, Read
  <2>2. s \in Seq(Entries) /\ batch' = batch \o s
    BY <1>2, <2>1, AppendIsConcat
  <2>3. \A e \in Entries : Count(s, {e}) = IF Read(r) \in {e} THEN 1 ELSE 0
    BY CountOne
  <2> HIDE DEF s
  <2>4. NetInv' /\ \A e \in Entries : Copies(e)' = Copies(e) + Count(s, {e})
    BY <2>2, CopiesJoin
  <2>5. ASSUME NEW e \in Entries, e.kind # "read" PROVE Copies(e)' = Copies(e)
    <3>1. Count(s, {e}) = 0
      BY <2>1, <2>3, <2>5
    <3>2. /\ Copies(e) = Count(batch, {e}) + Cardinality(Flights(net, e)) + Count(arrived, Mail(e))
          /\ Count(batch, {e}) \in Nat /\ Cardinality(Flights(net, e)) \in Nat
          /\ Count(arrived, Mail(e)) \in Nat
      BY CopiesAre
    <3> QED  BY <2>4, <3>1, <3>2
  <2> QED  BY <2>4, <2>5
<1> QED  BY <1>1, <1>2

LEMMA HeldRead ==
  ASSUME TypeOK, TypeOK', HeldInv, NEW r \in Records, Refresh(r)
  PROVE  HeldInv'
<1>1. /\ UNCHANGED <<pc, net, sent, arrived, replayQueue, flushing, flushBatch, outcomes>>
      /\ batch' = Append(batch, Read(r))
  BY DEF Refresh, pipeline, replay, flushVars
<1>2. NetInv
  BY DEF HeldInv
<1>3. NetInv' /\ \A e \in Entries : e.kind # "read" => Copies(e)' = Copies(e)
  BY <1>1, <1>2, CopiesRead
<1> QED  BY <1>1, <1>3, HeldStays

\* Sending, serving and answering a request moves its plans and loses none.
LEMMA HeldTransport ==
  ASSUME TypeOK, TypeOK', HeldInv,
         \/ SendBatch
         \/ \E q \in net : ServerExec(q) \/ Respond(q) \/ Fail(q) \/ Refuse(q)
  PROVE  HeldInv'
<1>1. NetInv
  BY DEF HeldInv
<1>2. UNCHANGED <<pc, replayQueue, flushing, flushBatch, outcomes>>
  BY ServerOnly DEF SendBatch, Respond, Fail, Refuse, pipeline, replay, flushVars
<1>3. NetInv' /\ \A e \in Entries : Copies(e)' = Copies(e)
  <2>1. CASE SendBatch
    BY <1>1, <2>1, CopiesSent
  <2>2. ASSUME NEW q \in net, ServerExec(q)
        PROVE  NetInv' /\ \A e \in Entries : Copies(e)' = Copies(e)
    BY <1>1, <2>2, CopiesServed
  <2>3. ASSUME NEW q \in net, Respond(q) \/ Fail(q) \/ Refuse(q)
        PROVE  NetInv' /\ \A e \in Entries : Copies(e)' = Copies(e)
    BY <1>1, <2>3, CopiesHeard
  <2> QED  BY <2>1, <2>2, <2>3
<1> QED  BY <1>2, <1>3, HeldStays

LEMMA HeldIngest ==
  ASSUME TypeOK, TypeOK', HeldInv, Ingest
  PROVE  HeldInv'
<1>1. /\ UNCHANGED <<pc, batch, net, sent, replayQueue, flushing, flushBatch, outcomes>>
      /\ arrived # <<>> /\ arrived' = Tail(arrived) /\ Head(arrived).entry.kind = "read"
  BY DEF Ingest, HeadIs, Next1, pipeline, replay, flushVars
<1>2. NetInv
  BY DEF HeldInv
<1>3. /\ NetInv'
      /\ \A e \in Entries : e.kind # "read" =>
           Copies(e) = Copies(e)' + (IF Head(arrived).entry = e THEN 1 ELSE 0)
  BY <1>1, <1>2, CopiesTaken
<1>4. ASSUME NEW e \in Entries, e.kind # "read" PROVE Copies(e)' = Copies(e)
  <2>1. Copies(e) = Copies(e)' + 0
    BY <1>1, <1>3, <1>4
  <2>2. Copies(e)' \in Nat
    BY <1>3, <1>4, CopiesCount
  <2> QED  BY <2>1, <2>2
<1> QED  BY <1>1, <1>3, <1>4, HeldStays

\* A write that joins the batch is direct from then on.
LEMMA HeldDispatch ==
  ASSUME TypeOK, TypeOK', HeldInv, NEW w \in Writes, Dispatch(w)
  PROVE  HeldInv'
<1>1. /\ UNCHANGED <<net, sent, arrived, replayQueue, flushing, flushBatch, outcomes>>
      /\ batch' = Append(batch, Direct(w))
      /\ pc[w] = "started" /\ pc' = [pc EXCEPT ![w] = "direct"]
  BY DEF Dispatch, replay, flushVars
<1>2. batch \in Seq(Entries) /\ Direct(w) \in Entries /\ pc \in [Writes -> PcStates]
  BY PlanEntries DEF TypeOK, TransportTypeOK, PipelineTypeOK
<1> DEFINE s == <<Direct(w)>>
<1>3. s \in Seq(Entries) /\ batch' = batch \o s
  BY <1>1, <1>2, AppendIsConcat
<1>4. \A e \in Entries : Count(s, {e}) = IF Direct(w) \in {e} THEN 1 ELSE 0
  BY CountOne
<1> HIDE DEF s
<1>5. NetInv
  BY DEF HeldInv
<1>6. NetInv' /\ \A e \in Entries : Copies(e)' = Copies(e) + Count(s, {e})
  BY <1>1, <1>3, <1>5, CopiesJoin
<1>7. ASSUME NEW v \in Writes
      PROVE  Fits(pc'[v], flushing', Copies(Direct(v))', Count(replayQueue', {v}),
                  Copies(Flush(v))', Count(flushBatch', {v}), Count(outcomes', Of(v)))
  <2>1. /\ Direct(v) \in Entries /\ Flush(v) \in Entries
        /\ Direct(w) # Flush(v) /\ (Direct(w) = Direct(v) <=> v = w)
    BY PlanEntries
  <2>2. Copies(Direct(v))' = Copies(Direct(v)) + (IF v = w THEN 1 ELSE 0)
    BY <1>4, <1>6, <2>1
  <2>3. Copies(Flush(v))' = Copies(Flush(v)) + 0
    BY <1>4, <1>6, <2>1
  <2>4. /\ Fits(pc[v], flushing, Copies(Direct(v)), Count(replayQueue, {v}), Copies(Flush(v)),
                Count(flushBatch, {v}), Count(outcomes, Of(v)))
        /\ Copies(Direct(v)) \in Nat /\ Copies(Flush(v)) \in Nat
    BY HeldIs
  <2>5. /\ v = w => pc[v] = "started" /\ pc'[v] = "direct"
        /\ v # w => pc'[v] = pc[v]
    BY <1>1, <1>2
  <2> QED  BY <1>1, <2>2, <2>3, <2>4, <2>5 DEF Fits
<1>8. flushing' = "idle" => outcomes' = <<>>
  BY <1>1 DEF HeldInv
<1> QED  BY <1>6, <1>7, <1>8, HeldStep

\* A write that joins the queue.
LEMMA HeldBehind ==
  ASSUME TypeOK, TypeOK', HeldInv, NEW w \in Writes, QueueBehind(w)
  PROVE  HeldInv'
<1>1. /\ UNCHANGED <<batch, net, sent, arrived, flushing, flushBatch, outcomes>>
      /\ replayQueue' = Append(replayQueue, w)
      /\ pc[w] = "started" /\ pc' = [pc EXCEPT ![w] = "behind"]
  BY DEF QueueBehind, flushVars
<1>2. replayQueue \in Seq(Writes) /\ pc \in [Writes -> PcStates] /\ NetInv
  BY DEF TypeOK, ReplayTypeOK, PipelineTypeOK, HeldInv
<1>3. NetInv' /\ \A e \in Entries : Copies(e)' = Copies(e)
  BY <1>1, <1>2, CopiesStay
<1>4. ASSUME NEW v \in Writes
      PROVE  Fits(pc'[v], flushing', Copies(Direct(v))', Count(replayQueue', {v}),
                  Copies(Flush(v))', Count(flushBatch', {v}), Count(outcomes', Of(v)))
  <2>1. Direct(v) \in Entries /\ Flush(v) \in Entries
    BY PlanEntries
  <2>2. Copies(Direct(v))' = Copies(Direct(v)) /\ Copies(Flush(v))' = Copies(Flush(v))
    BY <1>3, <2>1
  <2>3. Count(replayQueue', {v}) = Count(replayQueue, {v}) + (IF w \in {v} THEN 1 ELSE 0)
    BY <1>1, <1>2, CountAppend
  <2>4. /\ Fits(pc[v], flushing, Copies(Direct(v)), Count(replayQueue, {v}), Copies(Flush(v)),
                Count(flushBatch, {v}), Count(outcomes, Of(v)))
        /\ Copies(Direct(v)) \in Nat /\ Copies(Flush(v)) \in Nat
    BY HeldIs
  <2>5. /\ v = w => pc[v] = "started" /\ pc'[v] = "behind"
        /\ v # w => pc'[v] = pc[v]
    BY <1>1, <1>2
  <2>6. Count(outcomes, Of(v)) \in Nat /\ Count(replayQueue, {v}) \in Nat
        /\ Count(flushBatch, {v}) \in Nat
    BY Numbers
  <2> QED  BY <1>1, <2>2, <2>3, <2>4, <2>5, <2>6 DEF Fits
<1>5. flushing' = "idle" => outcomes' = <<>>
  BY <1>1 DEF HeldInv
<1> QED  BY <1>3, <1>4, <1>5, HeldStep

\* The answer to a direct write is the last copy of it.
LEMMA HeldAnswered ==
  ASSUME TypeOK, TypeOK', HeldInv, NEW w \in Writes, HeadIsFor(w), UNCHANGED <<net, sent>>,
         arrived' = Tail(arrived),
         batch' = batch \/ \E r \in Records : batch' = Append(batch, Read(r))
  PROVE  /\ NetInv' /\ pc[w] = "direct"
         /\ \A v \in Writes :
              /\ Copies(Direct(v))' = IF v = w THEN 0 ELSE Copies(Direct(v))
              /\ Copies(Flush(v))' = Copies(Flush(v))
<1>1. arrived # <<>> /\ Head(arrived).entry.kind = "direct" /\ Head(arrived).entry.write = w
  BY DEF HeadIsFor, HeadIs, Next1
<1>2. Head(arrived).entry = Direct(w)
  <2>1. arrived \in Seq(News)
    BY DEF TypeOK, TransportTypeOK
  <2>3. Head(arrived) \in News
    BY <1>1, <2>1, ConsumeType
  <2>2. Head(arrived).entry \in Entries
    BY <2>3 DEF News
  <2> QED  BY <1>1, <2>2 DEF Entries, Direct
<1>3. NetInv
  BY DEF HeldInv
<1>4. /\ NetInv'
      /\ \A e \in Entries : e.kind # "read" =>
           Copies(e) = Copies(e)' + (IF Head(arrived).entry = e THEN 1 ELSE 0)
  BY <1>1, <1>3, CopiesTaken
<1>5. ASSUME NEW v \in Writes
      PROVE  /\ Copies(Direct(v)) = Copies(Direct(v))' + (IF v = w THEN 1 ELSE 0)
             /\ Copies(Flush(v)) = Copies(Flush(v))'
             /\ Copies(Direct(v))' \in Nat
  <2>1. /\ Direct(v) \in Entries /\ Flush(v) \in Entries
        /\ Direct(v).kind # "read" /\ Flush(v).kind # "read"
        /\ Direct(w) # Flush(v) /\ (Direct(w) = Direct(v) <=> v = w)
    BY PlanEntries
  <2>2. Copies(Direct(v)) = Copies(Direct(v))' + (IF v = w THEN 1 ELSE 0)
    BY <1>2, <1>4, <2>1
  <2>3. Copies(Flush(v)) = Copies(Flush(v))' + 0
    BY <1>2, <1>4, <2>1
  <2>4. Copies(Direct(v))' \in Nat /\ Copies(Flush(v))' \in Nat
    BY <1>4, <2>1, CopiesCount
  <2> QED  BY <2>2, <2>3, <2>4
<1>6. Fits(pc[w], flushing, Copies(Direct(w)), Count(replayQueue, {w}), Copies(Flush(w)),
           Count(flushBatch, {w}), Count(outcomes, Of(w)))
  BY HeldIs
<1>7. pc[w] = "direct" /\ Copies(Direct(w)) = 1
  BY <1>5, <1>6 DEF Fits
<1>8. Copies(Direct(w))' = 0
  <2>1. Copies(Direct(w)) = Copies(Direct(w))' + 1 /\ Copies(Direct(w))' \in Nat
    BY <1>5
  <2> QED  BY <1>7, <2>1
<1>9. \A v \in Writes : v # w => Copies(Direct(v))' = Copies(Direct(v))
  BY <1>5
<1> QED  BY <1>4, <1>5, <1>7, <1>8, <1>9

LEMMA HeldSettled ==
  ASSUME TypeOK, TypeOK', HeldInv, NEW w \in Writes, Confirm(w) \/ Reject(w)
  PROVE  HeldInv' /\ pc[w] = "direct"
<1>1. /\ UNCHANGED <<net, sent, replayQueue, flushing, flushBatch, outcomes>>
      /\ HeadIsFor(w) /\ arrived' = Tail(arrived)
      /\ batch' = batch \/ batch' = Append(batch, Read(Target[w]))
      /\ \E s \in {"confirmed", "rejected"} : pc' = [pc EXCEPT ![w] = s]
  BY DEF Confirm, Reject, SettleConfirmed, SettleRejected, replay, flushVars
<1>2. Target[w] \in Records /\ pc \in [Writes -> PcStates]
  BY WritesAssumption DEF TypeOK, PipelineTypeOK
<1>3. /\ NetInv' /\ pc[w] = "direct"
      /\ \A v \in Writes :
           /\ Copies(Direct(v))' = IF v = w THEN 0 ELSE Copies(Direct(v))
           /\ Copies(Flush(v))' = Copies(Flush(v))
  BY <1>1, <1>2, HeldAnswered
<1>4. ASSUME NEW v \in Writes
      PROVE  Fits(pc'[v], flushing', Copies(Direct(v))', Count(replayQueue', {v}),
                  Copies(Flush(v))', Count(flushBatch', {v}), Count(outcomes', Of(v)))
  <2>1. Fits(pc[v], flushing, Copies(Direct(v)), Count(replayQueue, {v}), Copies(Flush(v)),
             Count(flushBatch, {v}), Count(outcomes, Of(v)))
    BY HeldIs
  <2>2. /\ v = w => pc[v] = "direct" /\ pc'[v] \in {"confirmed", "rejected"}
        /\ v # w => pc'[v] = pc[v]
    BY <1>1, <1>2, <1>3
  <2> QED  BY <1>1, <1>3, <2>1, <2>2 DEF Fits
<1>5. flushing' = "idle" => outcomes' = <<>>
  BY <1>1 DEF HeldInv
<1> QED  BY <1>3, <1>4, <1>5, HeldStep

LEMMA HeldFallBack ==
  ASSUME TypeOK, TypeOK', HeldInv, NEW w \in Writes, FallBack(w)
  PROVE  HeldInv' /\ pc[w] = "direct"
<1>1. /\ UNCHANGED <<batch, net, sent, flushing, flushBatch, outcomes>>
      /\ HeadIsFor(w) /\ arrived' = Tail(arrived)
      /\ replayQueue' = Append(replayQueue, w)
      /\ pc' = [pc EXCEPT ![w] = "queued"]
  BY DEF FallBack, flushVars
<1>2. replayQueue \in Seq(Writes) /\ pc \in [Writes -> PcStates]
  BY DEF TypeOK, PipelineTypeOK, ReplayTypeOK
<1>3. /\ NetInv' /\ pc[w] = "direct"
      /\ \A v \in Writes :
           /\ Copies(Direct(v))' = IF v = w THEN 0 ELSE Copies(Direct(v))
           /\ Copies(Flush(v))' = Copies(Flush(v))
  BY <1>1, HeldAnswered
<1>4. ASSUME NEW v \in Writes
      PROVE  Fits(pc'[v], flushing', Copies(Direct(v))', Count(replayQueue', {v}),
                  Copies(Flush(v))', Count(flushBatch', {v}), Count(outcomes', Of(v)))
  <2>1. /\ Fits(pc[v], flushing, Copies(Direct(v)), Count(replayQueue, {v}), Copies(Flush(v)),
                Count(flushBatch, {v}), Count(outcomes, Of(v)))
        /\ Copies(Direct(v)) \in Nat /\ Copies(Flush(v)) \in Nat
    BY HeldIs
  <2>2. /\ v = w => pc[v] = "direct" /\ pc'[v] = "queued"
        /\ v # w => pc'[v] = pc[v]
    BY <1>1, <1>2, <1>3
  <2>3. Count(replayQueue', {v}) = Count(replayQueue, {v}) + (IF w \in {v} THEN 1 ELSE 0)
    BY <1>1, <1>2, CountAppend
  <2>4. Count(outcomes, Of(v)) \in Nat /\ Count(replayQueue, {v}) \in Nat
        /\ Count(flushBatch, {v}) \in Nat
    BY Numbers
  <2>5. /\ Copies(Direct(v))' = IF v = w THEN 0 ELSE Copies(Direct(v))
        /\ Copies(Flush(v))' = Copies(Flush(v))
    BY <1>3
  <2>6. CASE v = w
    BY <1>1, <2>1, <2>2, <2>3, <2>4, <2>5, <2>6 DEF Fits
  <2>7. CASE v # w
    BY <1>1, <2>1, <2>2, <2>3, <2>4, <2>5, <2>7 DEF Fits
  <2> QED  BY <2>6, <2>7
<1>5. flushing' = "idle" => outcomes' = <<>>
  BY <1>1 DEF HeldInv
<1> QED  BY <1>3, <1>4, <1>5, HeldStep

----------------------------------------------------------------------------
(* The flush: snapshot, answers, settling.                                 *)

\* At most one place holds an element that is counted at most once.
LEMMA OnePlace ==
  ASSUME NEW S, NEW s \in Seq(S), NEW X, Count(s, X) <= 1,
         NEW i \in DOMAIN s, NEW j \in DOMAIN s, s[i] \in X, s[j] \in X
  PROVE  i = j
<1> SUFFICES ASSUME i # j PROVE FALSE
  OBVIOUS
<1> DEFINE n == Cardinality({i} \cup {j})
<1>1. IsFiniteSet(At(s, X)) /\ {i} \cup {j} \subseteq At(s, X)
  BY CountType DEF At
<1>2. n <= Cardinality(At(s, X)) /\ Cardinality(At(s, X)) \in Nat
  BY <1>1, FS_Subset, FS_CardinalityType
<1>3. Cardinality({i}) = 1 /\ IsFiniteSet({i}) /\ j \notin {i}
  BY FS_Singleton
<1>4. n = Cardinality({i}) + 1
  BY <1>3, FS_AddElement
<1> HIDE DEF n
<1>5. n = 1 + 1
  BY <1>3, <1>4
<1> QED  BY <1>2, <1>5 DEF Count

\* When as many answers as entries came, and no write has more of the one
\* than of the other, every entry has its answer.
LEMMA AllCollected ==
  ASSUME NEW b \in Seq(Writes), NEW o \in Seq(Results), Len(o) = Len(b),
         \A w \in Writes : Count(o, Of(w)) <= Count(b, {w}) /\ Count(b, {w}) <= 1
  PROVE  \A w \in Writes : Count(o, Of(w)) = Count(b, {w})
<1> DEFINE D == 1..Len(b)
           f == [i \in D |-> b[i]]
           g == [i \in D |-> o[i].write]
           F == {b[i] : i \in D}
           G == {o[i].write : i \in D}
<1>1. /\ Len(b) \in Nat /\ DOMAIN b = D /\ DOMAIN o = D
      /\ (\A i \in D : b[i] \in Writes) /\ \A i \in D : o[i] \in Results
  BY LenProperties
<1>2. \A i \in D : o[i].write \in Writes /\ o[i] \in Of(o[i].write)
  BY <1>1 DEF Results, Of
<1>3. \A w \in Writes : Count(o, Of(w)) \in Nat /\ Count(b, {w}) \in Nat
  BY CountType
<1>4. IsFiniteSet(D)
  BY <1>1, FS_Interval
<1>5. G \subseteq F
  <2>1. ASSUME NEW i \in D PROVE o[i].write \in F
    <3> DEFINE w == o[i].write
    <3>1. w \in Writes /\ o[i] \in Of(w)
      BY <1>2
    <3> HIDE DEF w
    <3>2. Count(o, Of(w)) # 0
      BY <1>1, <3>1, CountType
    <3>3. Count(b, {w}) # 0
      BY <1>3, <3>1, <3>2
    <3>4. \E j \in 1..Len(b) : b[j] \in {w}
      BY <3>3, CountType
    <3> QED  BY <3>4 DEF w
  <2> QED  BY <2>1
<1>6. g \in Injection(D, G) /\ g \in Surjection(D, G)
  <2>1. g \in [D -> G]
    OBVIOUS
  <2>2. ASSUME NEW i \in D, NEW j \in D, g[i] = g[j] PROVE i = j
    <3>1. /\ o[i].write \in Writes /\ o[i] \in Of(o[i].write)
          /\ o[j].write = o[i].write /\ o[j] \in Of(o[j].write)
      BY <1>2, <2>2
    <3>2. PICK w \in Writes : w = o[i].write
      BY <3>1
    <3>3. o[i] \in Of(w) /\ o[j] \in Of(w)
      BY <3>1, <3>2
    <3>4. Count(o, Of(w)) <= Count(b, {w}) /\ Count(b, {w}) <= 1
      OBVIOUS
    <3>5. Count(o, Of(w)) \in Nat /\ Count(b, {w}) \in Nat
      BY <1>3
    <3>6. Count(o, Of(w)) <= 1
      BY <3>4, <3>5
    <3> QED  BY <1>1, <3>3, <3>6, OnePlace
  <2>3. \A x \in G : \E i \in D : g[i] = x
    OBVIOUS
  <2> HIDE DEF g, G
  <2> QED  BY <2>1, <2>2, <2>3 DEF Injection, Surjection, IsInjective
<1>7. f \in Surjection(D, F)
  BY DEF Surjection
<1> HIDE DEF f, g, F, G
<1>8. IsFiniteSet(F) /\ Cardinality(F) <= Cardinality(D)
  BY <1>4, <1>7, FS_Surjection
<1>9. IsFiniteSet(G) /\ Cardinality(G) = Cardinality(D)
  BY <1>4, <1>6, FS_Surjection
<1>10. G = F
  <2>1. Cardinality(G) <= Cardinality(F)
    BY <1>5, <1>8, FS_Subset
  <2>2. Cardinality(G) \in Nat /\ Cardinality(F) \in Nat /\ Cardinality(D) \in Nat
    BY <1>4, <1>8, <1>9, FS_CardinalityType
  <2>3. Cardinality(G) = Cardinality(F)
    BY <1>8, <1>9, <2>1, <2>2
  <2> QED  BY <1>5, <1>8, <2>3, FS_Subset
<1>11. ASSUME NEW w \in Writes PROVE Count(o, Of(w)) = Count(b, {w})
  <2>1. CASE w \in F
    <3>1. PICK i \in D : o[i].write = w
      BY <1>10, <2>1 DEF G
    <3>2. o[i] \in Of(w)
      BY <1>2, <3>1
    <3>3. Count(o, Of(w)) # 0
      BY <1>1, <3>2, CountType
    <3> QED  BY <1>3, <3>3
  <2>2. CASE w \notin F
    <3>1. \A i \in 1..Len(b) : b[i] \notin {w}
      BY <2>2 DEF F
    <3>2. Count(b, {w}) = 0
      BY <3>1, CountType
    <3> QED  BY <1>3, <3>2
  <2> QED  BY <2>1, <2>2
<1> QED  BY <1>11

LEMMA HeldCollect ==
  ASSUME TypeOK, TypeOK', HeldInv, Collect
  PROVE  /\ HeldInv' /\ flushing = "sent"
         /\ flushing' = "settling" =>
              \A v \in Writes : Count(outcomes', Of(v)) = Count(flushBatch, {v})
<1> DEFINE e == Head(arrived).entry
           w == e.write
           new == [write |-> w, answer |-> Head(arrived).answer]
<1>1. /\ UNCHANGED <<pc, batch, net, sent, replayQueue>>
      /\ arrived # <<>> /\ arrived' = Tail(arrived) /\ e.kind = "flush"
      /\ outcomes' = Append(outcomes, new)
      /\ IF Len(outcomes') = Len(flushBatch) THEN flushing' = "settling" /\ flushBatch' = <<>>
         ELSE UNCHANGED <<flushing, flushBatch>>
  BY DEF Collect, HeadIs, Next1, pipeline, replay
<1>2. /\ arrived \in Seq(News) /\ flushBatch \in Seq(Writes) /\ outcomes \in Seq(Results)
      /\ outcomes' \in Seq(Results)
  BY DEF TypeOK, TransportTypeOK, FlushTypeOK
<1>3. Head(arrived) \in News
  BY <1>1, <1>2, ConsumeType
<1>4. e \in Entries /\ new.write = w /\ Head(arrived).answer \in Answers
  BY <1>3 DEF News
<1>5. w \in Writes /\ e = Flush(w)
  BY <1>1, <1>4 DEF Entries, Flush
<1>6. new \in Results
  BY <1>4, <1>5 DEF Results
<1> HIDE DEF e, w, new
<1>7. NetInv
  BY DEF HeldInv
<1>8. /\ NetInv'
      /\ \A x \in Entries : x.kind # "read" =>
           Copies(x) = Copies(x)' + (IF Head(arrived).entry = x THEN 1 ELSE 0)
  BY <1>1, <1>7, CopiesTaken
<1>9. ASSUME NEW v \in Writes
      PROVE  /\ Copies(Direct(v))' = Copies(Direct(v))
             /\ Copies(Flush(v)) = Copies(Flush(v))' + (IF v = w THEN 1 ELSE 0)
             /\ Copies(Flush(v))' \in Nat
             /\ Count(outcomes', Of(v)) = Count(outcomes, Of(v)) + (IF v = w THEN 1 ELSE 0)
  <2>1. /\ Direct(v) \in Entries /\ Flush(v) \in Entries
        /\ Direct(v).kind # "read" /\ Flush(v).kind # "read"
        /\ Flush(w) # Direct(v) /\ (Flush(w) = Flush(v) <=> v = w)
    BY <1>5, PlanEntries
  <2>2. Copies(Direct(v)) = Copies(Direct(v))' + 0
    BY <1>5, <1>8, <2>1 DEF e
  <2>3. Copies(Flush(v)) = Copies(Flush(v))' + (IF v = w THEN 1 ELSE 0)
    BY <1>5, <1>8, <2>1 DEF e
  <2>4. Copies(Direct(v))' \in Nat /\ Copies(Flush(v))' \in Nat
    BY <1>8, <2>1, CopiesCount
  <2>5. Count(Append(outcomes, new), Of(v))
          = Count(outcomes, Of(v)) + (IF new \in Of(v) THEN 1 ELSE 0)
    BY <1>2, <1>6, CountAppend
  <2>6. new \in Of(v) <=> v = w
    BY <1>4, <1>6 DEF Of
  <2> QED  BY <1>1, <2>2, <2>3, <2>4, <2>5, <2>6
<1>10. \A v \in Writes :
         /\ Fits(pc[v], flushing, Copies(Direct(v)), Count(replayQueue, {v}), Copies(Flush(v)),
                 Count(flushBatch, {v}), Count(outcomes, Of(v)))
         /\ Count(outcomes, Of(v)) \in Nat /\ Count(replayQueue, {v}) \in Nat
         /\ Count(flushBatch, {v}) \in Nat
  BY HeldIs, Numbers
<1>11. flushing = "sent"
  <2>1. Copies(Flush(w)) # 0
    BY <1>5, <1>9
  <2> QED  BY <1>5, <1>10, <2>1 DEF Fits
<1>12. \A v \in Writes :
         /\ Copies(Flush(v))' = Count(flushBatch, {v}) - Count(outcomes', Of(v))
         /\ Count(outcomes', Of(v)) <= Count(flushBatch, {v}) /\ Count(flushBatch, {v}) <= 1
         /\ Copies(Flush(v))' + Count(outcomes', Of(v)) <= Count(replayQueue, {v})
  BY <1>9, <1>10, <1>11 DEF Fits
<1>13. ASSUME NEW v \in Writes
       PROVE  Fits(pc'[v], flushing', Copies(Direct(v))', Count(replayQueue', {v}),
                   Copies(Flush(v))', Count(flushBatch', {v}), Count(outcomes', Of(v)))
  <2>1. CASE Len(outcomes') = Len(flushBatch)
    <3>1. Count(outcomes', Of(v)) = Count(flushBatch, {v})
      BY <1>2, <1>12, <2>1, AllCollected
    <3>2. Copies(Flush(v))' = 0
      BY <1>10, <1>12, <3>1
    <3>3. flushing' = "settling"
      BY <1>1, <2>1
    <3> QED  BY <1>1, <1>9, <1>10, <1>12, <3>2, <3>3 DEF Fits
  <2>2. CASE Len(outcomes') # Len(flushBatch)
    <3>1. flushing' = "sent" /\ flushBatch' = flushBatch
      BY <1>1, <1>11, <2>2
    <3> QED  BY <1>1, <1>9, <1>10, <1>12, <3>1 DEF Fits
  <2> QED  BY <2>1, <2>2
<1>14. flushing' = "idle" => outcomes' = <<>>
  BY <1>1, <1>11
<1>15. flushing' = "settling" =>
         \A v \in Writes : Count(outcomes', Of(v)) = Count(flushBatch, {v})
  <2>1. flushing' = "settling" => Len(outcomes') = Len(flushBatch)
    BY <1>1, <1>11
  <2> QED  BY <1>2, <1>12, <2>1, AllCollected
<1> QED  BY <1>8, <1>11, <1>13, <1>14, <1>15, HeldStep

LEMMA NothingCounted == \A X : Count(<<>>, X) = 0
<1>1. \A X : At(<<>>, X) = {}
  BY DEF At
<1> QED  BY <1>1, FS_EmptySet DEF Count

\* The head of the flush's loop: a copy of every queued write sets out.
LEMMA HeldReplay ==
  ASSUME TypeOK, TypeOK', HeldInv, Replay, flushing # "sent", outcomes = <<>>,
         UNCHANGED <<pc, net, sent, arrived, replayQueue>>
  PROVE  HeldInv'
<1> DEFINE again == [i \in 1..Len(replayQueue) |-> Flush(replayQueue[i])]
<1>1. /\ flushing' = "sent" /\ flushBatch' = replayQueue /\ outcomes' = <<>>
      /\ batch' = batch \o again
  BY DEF Replay
<1>2. replayQueue \in Seq(Writes) /\ Len(replayQueue) \in Nat
  BY LenProperties DEF TypeOK, ReplayTypeOK
<1>3. \A i \in 1..Len(replayQueue) : replayQueue[i] \in Writes
  BY <1>2
<1>4. again \in Seq(Entries) /\ Len(again) = Len(replayQueue)
  BY <1>2, <1>3, EntryTypes
<1>5. \A i \in 1..Len(replayQueue) : again[i] = Flush(replayQueue[i])
  OBVIOUS
<1> HIDE DEF again
<1>6. NetInv
  BY DEF HeldInv
<1>7. NetInv' /\ \A e \in Entries : Copies(e)' = Copies(e) + Count(again, {e})
  BY <1>1, <1>4, <1>6, CopiesJoin
<1>8. ASSUME NEW v \in Writes
      PROVE  Fits(pc'[v], flushing', Copies(Direct(v))', Count(replayQueue', {v}),
                  Copies(Flush(v))', Count(flushBatch', {v}), Count(outcomes', Of(v)))
  <2>1. Direct(v) \in Entries /\ Flush(v) \in Entries
    BY PlanEntries
  <2>2. Count(again, {Direct(v)}) = 0
    <3>1. \A i \in 1..Len(again) : again[i] \notin {Direct(v)}
      BY <1>3, <1>4, <1>5, PlanEntries
    <3> QED  BY <1>4, <3>1, CountType
  <2>3. Count(again, {Flush(v)}) = Count(replayQueue, {v})
    <3>1. \A i \in 1..Len(again) : again[i] \in {Flush(v)} <=> replayQueue[i] \in {v}
      BY <1>3, <1>4, <1>5, PlanEntries
    <3> QED  BY <1>2, <1>4, <3>1, CountSame
  <2>4. /\ Fits(pc[v], flushing, Copies(Direct(v)), Count(replayQueue, {v}), Copies(Flush(v)),
                Count(flushBatch, {v}), Count(outcomes, Of(v)))
        /\ Copies(Direct(v)) \in Nat /\ Copies(Flush(v)) \in Nat
        /\ Count(replayQueue, {v}) \in Nat
    BY HeldIs, Numbers
  <2>5. Copies(Direct(v))' = Copies(Direct(v)) /\ Copies(Flush(v))' = Count(replayQueue, {v})
    <3>1. Copies(Flush(v)) = 0
      BY <2>4 DEF Fits
    <3>2. /\ Copies(Direct(v))' = Copies(Direct(v)) + Count(again, {Direct(v)})
          /\ Copies(Flush(v))' = Copies(Flush(v)) + Count(again, {Flush(v)})
      BY <1>7, <2>1
    <3> QED  BY <2>2, <2>3, <2>4, <3>1, <3>2
  <2>6. Count(outcomes', Of(v)) = 0
    BY <1>1, NothingCounted
  <2> QED  BY <1>1, <2>4, <2>5, <2>6 DEF Fits
<1>9. flushing' = "idle" => outcomes' = <<>>
  BY <1>1
<1> QED  BY <1>7, <1>8, <1>9, HeldStep

\* The next answer of a flush is dealt with.
LEMMA SettlingHolds ==
  ASSUME TypeOK, TypeOK', HeldInv, NEW w \in Writes, SettlingNext(w), NextOutcome
  PROVE  /\ flushing = "settling" /\ flushing' = "settling" /\ flushBatch' = flushBatch
         /\ pc[w] \in {"queued", "behind"} /\ Count(replayQueue, {w}) = 1
         /\ \A v \in Writes :
              Count(outcomes', Of(v)) = IF v = w THEN 0 ELSE Count(outcomes, Of(v))
<1>1. /\ flushing = "settling" /\ outcomes # <<>> /\ Head(outcomes).write = w
      /\ outcomes' = Tail(outcomes) /\ UNCHANGED <<flushing, flushBatch>>
  BY DEF SettlingNext, NextOutcome
<1>2. outcomes \in Seq(Results) /\ Head(outcomes) \in Results
  BY <1>1, ConsumeType DEF TypeOK, FlushTypeOK
<1>3. ASSUME NEW v \in Writes
      PROVE  Count(outcomes, Of(v)) = Count(outcomes', Of(v)) + (IF v = w THEN 1 ELSE 0)
  <2>1. Head(outcomes) \in Of(v) <=> v = w
    BY <1>1, <1>2 DEF Of
  <2>2. Count(outcomes, Of(v))
          = Count(Tail(outcomes), Of(v)) + (IF Head(outcomes) \in Of(v) THEN 1 ELSE 0)
    BY <1>1, <1>2, CountTail
  <2> QED  BY <1>1, <2>1, <2>2
<1>4. \A v \in Writes :
        /\ Count(outcomes, Of(v)) \in Nat /\ Count(outcomes', Of(v)) \in Nat
        /\ Count(replayQueue, {v}) \in Nat
  BY Numbers, NumbersAfter
<1>5. /\ Fits(pc[w], flushing, Copies(Direct(w)), Count(replayQueue, {w}), Copies(Flush(w)),
              Count(flushBatch, {w}), Count(outcomes, Of(w)))
      /\ Copies(Flush(w)) \in Nat
  BY HeldIs
<1>6. Count(outcomes, Of(w)) = Count(outcomes', Of(w)) + 1
  BY <1>3
<1>7. /\ pc[w] \in {"queued", "behind"} /\ Count(replayQueue, {w}) = 1
      /\ Count(outcomes', Of(w)) = 0
  BY <1>4, <1>5, <1>6 DEF Fits
<1>8. ASSUME NEW v \in Writes, v # w PROVE Count(outcomes', Of(v)) = Count(outcomes, Of(v))
  <2> DEFINE before == Count(outcomes, Of(v))
             after == Count(outcomes', Of(v))
  <2>1. before = after + 0 /\ after \in Nat
    BY <1>3, <1>4, <1>8
  <2> HIDE DEF before, after
  <2>2. before = after
    BY <2>1
  <2> QED  BY <2>2 DEF before, after
<1> QED  BY <1>1, <1>7, <1>8

LEMMA HeldStaysQueued ==
  ASSUME TypeOK, TypeOK', HeldInv, NEW w \in Writes, FlushStaysQueued(w)
  PROVE  HeldInv'
<1>1. /\ UNCHANGED <<pc, batch, net, sent, arrived, replayQueue>>
      /\ SettlingNext(w) /\ NextOutcome
  BY DEF FlushStaysQueued, pipeline, replay
<1>2. /\ flushing = "settling" /\ flushing' = "settling" /\ flushBatch' = flushBatch
      /\ \A v \in Writes :
           Count(outcomes', Of(v)) = IF v = w THEN 0 ELSE Count(outcomes, Of(v))
  BY <1>1, SettlingHolds
<1>3. NetInv
  BY DEF HeldInv
<1>4. NetInv' /\ \A e \in Entries : Copies(e)' = Copies(e)
  BY <1>1, <1>3, CopiesStay
<1>5. ASSUME NEW v \in Writes
      PROVE  Fits(pc'[v], flushing', Copies(Direct(v))', Count(replayQueue', {v}),
                  Copies(Flush(v))', Count(flushBatch', {v}), Count(outcomes', Of(v)))
  <2>1. Copies(Direct(v))' = Copies(Direct(v)) /\ Copies(Flush(v))' = Copies(Flush(v))
    BY <1>4, PlanEntries
  <2>2. /\ Fits(pc[v], flushing, Copies(Direct(v)), Count(replayQueue, {v}), Copies(Flush(v)),
                Count(flushBatch, {v}), Count(outcomes, Of(v)))
        /\ Count(outcomes, Of(v)) \in Nat /\ Count(replayQueue, {v}) \in Nat
    BY HeldIs, Numbers
  <2>3. Count(outcomes', Of(v)) <= Count(outcomes, Of(v)) /\ Count(outcomes', Of(v)) \in Nat
    BY <1>2, <2>2
  <2> QED  BY <1>1, <1>2, <2>1, <2>2, <2>3 DEF Fits
<1>6. flushing' = "idle" => outcomes' = <<>>
  BY <1>2
<1> QED  BY <1>4, <1>5, <1>6, HeldStep

LEMMA HeldFlushed ==
  ASSUME TypeOK, TypeOK', HeldInv, NEW w \in Writes, FlushConfirm(w) \/ FlushReject(w)
  PROVE  HeldInv' /\ pc[w] \in {"queued", "behind"}
<1>1. /\ UNCHANGED <<net, sent, arrived>> /\ SettlingNext(w) /\ NextOutcome
      /\ replayQueue' = Without(replayQueue, w)
      /\ batch' = batch \/ batch' = Append(batch, Read(Target[w]))
      /\ \E s \in {"confirmed", "rejected"} : pc' = [pc EXCEPT ![w] = s]
  BY DEF FlushConfirm, FlushReject, SettleConfirmed, SettleRejected
<1>2. /\ flushing = "settling" /\ flushing' = "settling" /\ flushBatch' = flushBatch
      /\ pc[w] \in {"queued", "behind"} /\ Count(replayQueue, {w}) = 1
      /\ \A v \in Writes :
           Count(outcomes', Of(v)) = IF v = w THEN 0 ELSE Count(outcomes, Of(v))
  BY <1>1, SettlingHolds
<1>3. /\ Target[w] \in Records /\ pc \in [Writes -> PcStates] /\ replayQueue \in Seq(Writes)
  BY WritesAssumption DEF TypeOK, PipelineTypeOK, ReplayTypeOK
<1>4. NetInv' /\ \A e \in Entries : e.kind # "read" => Copies(e)' = Copies(e)
  BY <1>1, <1>3, CopiesRead DEF HeldInv
<1>5. ASSUME NEW v \in Writes
      PROVE  Fits(pc'[v], flushing', Copies(Direct(v))', Count(replayQueue', {v}),
                  Copies(Flush(v))', Count(flushBatch', {v}), Count(outcomes', Of(v)))
  <2>1. Copies(Direct(v))' = Copies(Direct(v)) /\ Copies(Flush(v))' = Copies(Flush(v))
    BY <1>4, PlanEntries
  <2>2. /\ Fits(pc[v], flushing, Copies(Direct(v)), Count(replayQueue, {v}), Copies(Flush(v)),
                Count(flushBatch, {v}), Count(outcomes, Of(v)))
        /\ Count(outcomes, Of(v)) \in Nat /\ Count(replayQueue, {v}) \in Nat
    BY HeldIs, Numbers
  <2>3. Count(replayQueue', {v}) = Count(replayQueue, {v}) - (IF w \in {v} THEN 1 ELSE 0)
    <3>1. Count(replayQueue, {w}) # 0
      BY <1>2
    <3> QED  BY <1>1, <1>3, <3>1, CountWithout
  <2>4. /\ v = w => pc[v] \in {"queued", "behind"} /\ pc'[v] \in {"confirmed", "rejected"}
        /\ v # w => pc'[v] = pc[v]
    BY <1>1, <1>2, <1>3
  <2>5. CASE v = w
    <3>1. Count(replayQueue', {v}) = 0 /\ Count(outcomes', Of(v)) = 0
      BY <1>2, <2>2, <2>3, <2>5
    <3> QED  BY <1>2, <2>1, <2>2, <2>4, <2>5, <3>1 DEF Fits
  <2>6. CASE v # w
    <3>1. Count(replayQueue', {v}) = Count(replayQueue, {v})
          /\ Count(outcomes', Of(v)) = Count(outcomes, Of(v))
      BY <1>2, <2>2, <2>3, <2>6
    <3> QED  BY <1>2, <2>1, <2>2, <2>4, <2>6, <3>1 DEF Fits
  <2> QED  BY <2>5, <2>6
<1>6. flushing' = "idle" => outcomes' = <<>>
  BY <1>2
<1> QED  BY <1>2, <1>4, <1>5, <1>6, HeldStep

\* A flush that ends, and a timer that finds nothing to flush.
LEMMA HeldIdle ==
  ASSUME TypeOK, TypeOK', HeldInv, flushing # "sent", flushing' \in {flushing, "idle"},
         flushing' = "idle" => outcomes' = <<>>,
         UNCHANGED <<pc, batch, net, sent, arrived, replayQueue, flushBatch, outcomes>>
  PROVE  HeldInv'
<1>1. NetInv
  BY DEF HeldInv
<1>2. NetInv' /\ \A e \in Entries : Copies(e)' = Copies(e)
  BY <1>1, CopiesStay
<1>3. ASSUME NEW v \in Writes
      PROVE  Fits(pc'[v], flushing', Copies(Direct(v))', Count(replayQueue', {v}),
                  Copies(Flush(v))', Count(flushBatch', {v}), Count(outcomes', Of(v)))
  <2>1. Copies(Direct(v))' = Copies(Direct(v)) /\ Copies(Flush(v))' = Copies(Flush(v))
    BY <1>2, PlanEntries
  <2>2. Fits(pc[v], flushing, Copies(Direct(v)), Count(replayQueue, {v}), Copies(Flush(v)),
             Count(flushBatch, {v}), Count(outcomes, Of(v)))
    BY HeldIs
  <2> QED  BY <2>1, <2>2 DEF Fits
<1> QED  BY <1>2, <1>3, HeldStep

\* A step that touches nothing a write is held by.
LEMMA HeldUntouched ==
  ASSUME TypeOK, TypeOK', HeldInv,
         UNCHANGED <<pc, batch, net, sent, arrived, replayQueue, flushVars>>
  PROVE  HeldInv'
<1>1. NetInv /\ UNCHANGED <<flushing, flushBatch, outcomes>>
  BY DEF HeldInv, flushVars
<1>2. NetInv' /\ \A e \in Entries : Copies(e)' = Copies(e)
  BY <1>1, CopiesStay
<1> QED  BY <1>1, <1>2, HeldStays

LEMMA HeldFlush ==
  ASSUME TypeOK, TypeOK', HeldInv, FlushNow \/ TimerFires \/ FlushRound
  PROVE  HeldInv'
<1>1. flushing = "idle" => outcomes = <<>>
  BY DEF HeldInv
<1>2. CASE FlushNow
  BY <1>1, <1>2, HeldReplay DEF FlushNow, pipeline, replay
<1>3. CASE TimerFires
  <2>1. CASE flushing = "idle" /\ replayQueue # <<>>
    BY <1>1, <1>3, <2>1, HeldReplay DEF TimerFires, pipeline
  <2>2. CASE ~(flushing = "idle" /\ replayQueue # <<>>)
    <3>1. UNCHANGED <<pc, batch, net, sent, arrived, replayQueue, flushVars>>
      BY <1>3, <2>2 DEF TimerFires, pipeline
    <3> QED  BY <3>1, HeldUntouched
  <2> QED  BY <2>1, <2>2
<1>4. CASE FlushRound
  <2>1. /\ flushing = "settling" /\ outcomes = <<>>
        /\ UNCHANGED <<pc, net, sent, arrived, replayQueue>>
    BY <1>4 DEF FlushRound, pipeline
  <2>2. CASE Replay
    BY <2>1, <2>2, HeldReplay
  <2>3. CASE ~Replay
    <3>1. flushing' = "idle" /\ UNCHANGED <<batch, flushBatch, outcomes>>
      BY <1>4, <2>3 DEF FlushRound
    <3> QED  BY <2>1, <3>1, HeldIdle
  <2> QED  BY <2>2, <2>3
<1> QED  BY <1>2, <1>3, <1>4

LEMMA HeldInit == Init => HeldInv
<1> SUFFICES ASSUME Init PROVE HeldInv
  OBVIOUS
<1>1. TypeOK
  BY TypeInit
<1>2. \A e : Flights(net, e) = {}
  BY DEF Init, Flights
<1>3. NetInv
  BY <1>2, FS_EmptySet DEF Init, NetInv
<1>4. \A e \in Entries : Copies(e) = 0
  <2>1. ASSUME NEW e \in Entries PROVE Copies(e) = 0
    <3>1. Copies(e) = Count(batch, {e}) + Cardinality(Flights(net, e)) + Count(arrived, Mail(e))
      BY <1>1, <1>3, CopiesAre
    <3>2. Count(batch, {e}) = 0 /\ Count(arrived, Mail(e)) = 0
      BY NothingCounted DEF Init
    <3>3. Cardinality(Flights(net, e)) = 0
      BY <1>2, FS_EmptySet
    <3> QED  BY <3>1, <3>2, <3>3
  <2> QED  BY <2>1
<1>5. \A w \in Writes :
        /\ Occurrences(replayQueue, w) = 0 /\ Collected(w) = 0
        /\ Copies(Direct(w)) = 0 /\ Copies(Flush(w)) = 0
        /\ pc[w] = "idle"
  <2>1. \A w \in Writes : Occurrences(replayQueue, w) = 0 /\ Collected(w) = 0
    <3>1. /\ Count(replayQueue, {}) = 0
          /\ \A w \in Writes : Count(replayQueue, {w}) = 0 /\ Count(outcomes, Of(w)) = 0
      BY NothingCounted DEF Init
    <3> QED  BY <1>1, <3>1, Numbers
  <2> QED  BY <1>4, <2>1, PlanEntries DEF Init
<1> QED  BY <1>3, <1>5 DEF Init, HeldInv, HeldOnce

LEMMA HeldNext == TypeOK /\ TypeOK' /\ HeldInv /\ [Next]_vars => HeldInv'
<1> SUFFICES ASSUME TypeOK, TypeOK', HeldInv, [Next]_vars PROVE HeldInv'
  OBVIOUS
<1>1. ASSUME NEW w \in Writes, Issue(w) \/ WriteSteps(w) PROVE HeldInv'
  <2>1. CASE Issue(w) \/ Stamp(w) \/ Deliver(w) \/ DeliverLocally(w) \/ Release(w)
    BY <2>1, HeldBystander
  <2>2. CASE QueueBehind(w) \/ Dispatch(w)
    BY <2>2, HeldBehind, HeldDispatch
  <2>3. CASE Confirm(w) \/ FallBack(w) \/ Reject(w)
    BY <2>3, HeldSettled, HeldFallBack
  <2>4. CASE FlushStaysQueued(w) \/ FlushConfirm(w) \/ FlushReject(w)
    BY <2>4, HeldStaysQueued, HeldFlushed
  <2> QED  BY <1>1, <2>1, <2>2, <2>3, <2>4 DEF WriteSteps
<1>2. CASE Runtime
  BY <1>2, HeldTransport, HeldIngest, HeldCollect, HeldFlush DEF Runtime
<1>3. CASE Network \/ Misfortune
  BY <1>3, HeldTransport DEF Network, Misfortune
<1>4. CASE Environment
  <2>1. CASE FlushNow
    BY <2>1, HeldFlush
  <2>2. ASSUME NEW r \in Records, RivalEdit(r) PROVE HeldInv'
    <3>1. UNCHANGED <<pc, batch, net, sent, arrived, replayQueue, flushVars>>
      BY <2>2 DEF RivalEdit, pipeline, replay
    <3> QED  BY <3>1, HeldUntouched
  <2>3. ASSUME NEW r \in Records, Refresh(r) PROVE HeldInv'
    BY <2>3, HeldRead
  <2> QED  BY <1>4, <2>1, <2>2, <2>3 DEF Environment
<1>5. CASE AtRest \/ UNCHANGED vars
  <2>1. UNCHANGED <<pc, batch, net, sent, arrived, replayQueue, flushVars>>
    BY <1>5 DEF AtRest, vars, pipeline, replay
  <2> QED  BY <2>1, HeldUntouched
<1> QED  BY <1>1, <1>2, <1>3, <1>4, <1>5 DEF Next

\* Every unsettled write is under way in exactly one place: batch, request,
\* answer, queue and flush neither lose nor double it, whatever fails.
THEOREM WritesAreHeld == Spec => []HeldOnce
<1>1. HeldInv => HeldOnce
  BY DEF HeldInv
<1> QED  BY <1>1, HeldInit, HeldNext, TypeCorrect, PTL DEF Spec

----------------------------------------------------------------------------
(* The optimistic overlay.                                                 *)

LEMMA OverlayNext ==
  TypeOK /\ TypeOK' /\ HeldInv /\ OverlayMatches /\ [Next]_vars => OverlayMatches'
<1> SUFFICES ASSUME TypeOK, TypeOK', HeldInv, OverlayMatches, [Next]_vars PROVE OverlayMatches'
  OBVIOUS
<1> DEFINE Pending == {"started", "direct", "queued", "behind"}
<1>0. pc \in [Writes -> PcStates] /\ outbox \subseteq Writes
  BY DEF TypeOK, PipelineTypeOK, CacheTypeOK
<1>1. UNCHANGED <<pc, outbox>> => OverlayMatches'
  BY DEF OverlayMatches
<1>2. \* Between two places a write is held in.
      ASSUME NEW w \in Writes, NEW s \in Pending, pc[w] \in Pending,
             pc' = [pc EXCEPT ![w] = s], outbox' = outbox
      PROVE  OverlayMatches'
  BY <1>0, <1>2 DEF OverlayMatches
<1>3. \* Settled.
      ASSUME NEW w \in Writes, NEW s \in {"confirmed", "rejected"},
             pc' = [pc EXCEPT ![w] = s], outbox' = outbox \ {w}
      PROVE  OverlayMatches'
  BY <1>0, <1>3 DEF OverlayMatches
<1>4. ASSUME NEW w \in Writes, Issue(w) \/ WriteSteps(w) PROVE OverlayMatches'
  <2>1. CASE Issue(w) \/ Stamp(w)
    <3>1. outbox' = outbox /\ pc[w] \in {"idle", "turn"}
          /\ \E s \in {"turn", "stamped"} : pc' = [pc EXCEPT ![w] = s]
      BY <2>1 DEF Issue, Stamp, cache
    <3> QED  BY <1>0, <3>1 DEF OverlayMatches
  <2>2. CASE Deliver(w)
    <3>1. /\ pc' = [pc EXCEPT ![w] = "started"]
          /\ outbox' = IF Target[w] \in Cached THEN outbox \cup {w} ELSE outbox
          /\ pc[w] = "stamped"
      BY <2>2 DEF Deliver, cache
    <3> QED  BY <1>0, <3>1 DEF OverlayMatches
  <2>3. CASE QueueBehind(w) \/ Dispatch(w)
    BY <1>2, <2>3 DEF QueueBehind, Dispatch, cache
  <2>4. CASE DeliverLocally(w)
    <3>1. /\ outbox' = outbox \ {w}
          /\ \E s \in {"confirmed", "rejected"} : pc' = [pc EXCEPT ![w] = s]
      BY <2>4 DEF DeliverLocally
    <3> QED  BY <1>3, <3>1
  <2>5. CASE Confirm(w) \/ Reject(w) \/ FlushConfirm(w) \/ FlushReject(w)
    <3>1. /\ outbox' = outbox \ {w}
          /\ \E s \in {"confirmed", "rejected"} : pc' = [pc EXCEPT ![w] = s]
      BY <2>5 DEF Confirm, Reject, FlushConfirm, FlushReject, SettleConfirmed, SettleRejected
    <3> QED  BY <1>3, <3>1
  <2>6. CASE FallBack(w)
    <3>1. pc[w] = "direct"
      BY <2>6, HeldFallBack
    <3> QED  BY <1>2, <2>6, <3>1 DEF FallBack, cache
  <2>7. CASE Release(w) \/ FlushStaysQueued(w)
    BY <1>1, <2>7 DEF Release, FlushStaysQueued, pipeline, cache
  <2> QED  BY <1>4, <2>1, <2>2, <2>3, <2>4, <2>5, <2>6, <2>7 DEF WriteSteps
<1>5. CASE Runtime
  BY <1>1, <1>5 DEF Runtime, SendBatch, Ingest, Collect, TimerFires, FlushRound, pipeline, cache
<1>6. CASE Network \/ Misfortune
  BY <1>1, <1>6, ServerOnly DEF Network, Misfortune, Respond, Fail, Refuse, pipeline, cache
<1>7. CASE Environment
  BY <1>1, <1>7 DEF Environment, FlushNow, RivalEdit, Refresh, pipeline, cache
<1>8. CASE AtRest \/ UNCHANGED vars
  BY <1>1, <1>8 DEF AtRest, vars, pipeline, cache
<1> QED  BY <1>4, <1>5, <1>6, <1>7, <1>8 DEF Next

\* The overlay on screen is exactly that of the started, unsettled writes:
\* every way a write can end drops its entry, no other step does.
THEOREM OverlayExact == Spec => []OverlayMatches
<1>1. Init => OverlayMatches
  BY DEF Init, OverlayMatches
<1> QED  BY <1>1, HeldInit, HeldNext, OverlayNext, TypeCorrect, PTL DEF Spec

----------------------------------------------------------------------------
(* The caller's contract, where no answer is lost.                         *)

Plans(w) == {Direct(w), Flush(w)}
Accepted(w) == \E i \in DOMAIN log : log[i].who = w /\ log[i].verdict = "ok"

\* What an answer with this verdict says of w is so.
Tells(w, verdict) ==
  /\ Accepted(w) <=> verdict = "ok"
  /\ verdict \in {"offline", "refused"} => ~Ran(w)

\* The running flush has w in its snapshot, or an answer for it.
InFlush(w) ==
  IF flushing = "sent" THEN \E i \in DOMAIN flushBatch : flushBatch[i] = w
  ELSE \E i \in DOMAIN outcomes : outcomes[i].write = w

\* The log agrees with what is known of every plan wherever it is: a plan
\* without an answer never ran, an answer says what became of it, and a write
\* that is not on its way to the server has left no mark there.
BatchIsNew ==
  \A w \in Writes : \A i \in DOMAIN batch : batch[i] \in Plans(w) => ~Ran(w)
RequestsTell ==
  \A q \in net :
    /\ q.open
    /\ \A w \in Writes : \A i \in DOMAIN q.plans : q.plans[i] \in Plans(w) =>
         IF i <= Len(q.answers) THEN Tells(w, q.answers[i].verdict) ELSE ~Ran(w)
ArrivedTell ==
  \A w \in Writes : \A i \in DOMAIN arrived :
    arrived[i].entry \in Plans(w) => Tells(w, arrived[i].answer.verdict)
OutcomesTell ==
  \A w \in Writes : \A i \in DOMAIN outcomes :
    outcomes[i].write = w => Tells(w, outcomes[i].answer.verdict)
RestIsNew ==
  \A w \in Writes :
    \/ pc[w] \in {"idle", "turn", "stamped", "started"}
    \/ pc[w] \in {"queued", "behind"} /\ ~InFlush(w)
    => ~Ran(w)

ContractInv == BatchIsNew /\ RequestsTell /\ ArrivedTell /\ OutcomesTell /\ RestIsNew

\* A step of the client, the network or another client's edit: what the log
\* says of this session's writes stays.
LogStays == \A w \in Writes : (Ran(w)' <=> Ran(w)) /\ (Accepted(w)' <=> Accepted(w))

LEMMA LogSame ==
  ASSUME log' = log
  PROVE  LogStays
  BY DEF LogStays, Ran, Accepted

LEMMA LogGrows ==
  ASSUME TypeOK, NEW event \in Events, log' = Append(log, event), NEW w \in Writes
  PROVE  /\ Ran(w)' <=> Ran(w) \/ event.who = w
         /\ Accepted(w)' <=> Accepted(w) \/ (event.who = w /\ event.verdict = "ok")
<1>1. log \in Seq(Events)
  BY DEF TypeOK, WorldTypeOK
<1>2. /\ Len(log') = Len(log) + 1 /\ log'[Len(log) + 1] = event
      /\ \A i \in 1..Len(log) : log'[i] = log[i]
  BY <1>1, AppendProperties
<1>3. /\ Len(log) \in Nat /\ DOMAIN log = 1..Len(log) /\ DOMAIN log' = 1..(Len(log) + 1)
  <2>1. log' \in Seq(Events)
    BY <1>1, AppendProperties
  <2> QED  BY <1>1, <1>2, <2>1, LenProperties
<1>4. Ran(w)' <=> \E i \in DOMAIN log' : log'[i].who = w
  BY DEF Ran
<1>5. Accepted(w)' <=> \E i \in DOMAIN log' : log'[i].who = w /\ log'[i].verdict = "ok"
  BY DEF Accepted
<1>6. \A i \in DOMAIN log' : (i \in DOMAIN log /\ log'[i] = log[i]) \/ log'[i] = event
  BY <1>2, <1>3
<1>7. \A i \in DOMAIN log : i \in DOMAIN log' /\ log'[i] = log[i]
  BY <1>2, <1>3
<1>8. Len(log) + 1 \in DOMAIN log'
  BY <1>3
<1>9. Ran(w)' <=> Ran(w) \/ event.who = w
  BY <1>2, <1>4, <1>6, <1>7, <1>8 DEF Ran
<1> QED  BY <1>2, <1>5, <1>6, <1>7, <1>8, <1>9 DEF Accepted

\* What a part of the state that stays has told stays told.
LEMMA PartsStay ==
  ASSUME ContractInv, LogStays
  PROVE  /\ batch' = batch => BatchIsNew'
         /\ net' \subseteq net => RequestsTell'
         /\ arrived' = arrived => ArrivedTell'
         /\ outcomes' = outcomes => OutcomesTell'
         /\ UNCHANGED <<pc, flushing, flushBatch, outcomes>> => RestIsNew'
<1>1. batch' = batch => BatchIsNew'
  BY DEF ContractInv, LogStays, BatchIsNew, Plans
<1>2. net' \subseteq net => RequestsTell'
  BY DEF ContractInv, LogStays, RequestsTell, Plans, Tells
<1>3. arrived' = arrived => ArrivedTell'
  BY DEF ContractInv, LogStays, ArrivedTell, Plans, Tells
<1>4. outcomes' = outcomes => OutcomesTell'
  BY DEF ContractInv, LogStays, OutcomesTell, Tells
<1>5. UNCHANGED <<pc, flushing, flushBatch, outcomes>> => RestIsNew'
  BY DEF ContractInv, LogStays, RestIsNew, InFlush
<1> QED  BY <1>1, <1>2, <1>3, <1>4, <1>5

\* A plan joins the batch: a read, or that of a write that never ran.
LEMMA BatchGrows ==
  ASSUME TypeOK, ContractInv, LogStays, NEW e \in Entries, batch' = Append(batch, e),
         \A w \in Writes : e \in Plans(w) => ~Ran(w)
  PROVE  BatchIsNew'
<1>1. batch \in Seq(Entries)
  BY DEF TypeOK, TransportTypeOK
<1>2. /\ Len(batch') = Len(batch) + 1 /\ batch'[Len(batch) + 1] = e
      /\ \A i \in 1..Len(batch) : batch'[i] = batch[i]
      /\ DOMAIN batch = 1..Len(batch) /\ DOMAIN batch' = 1..(Len(batch) + 1) /\ Len(batch) \in Nat
  BY <1>1, AppendProperties, LenProperties
<1>3. ASSUME NEW w \in Writes, NEW i \in DOMAIN batch', batch'[i] \in Plans(w) PROVE ~Ran(w)
  <2>1. CASE i \in DOMAIN batch
    BY <1>2, <1>3, <2>1 DEF ContractInv, BatchIsNew
  <2>2. CASE i = Len(batch) + 1
    BY <1>2, <1>3, <2>2
  <2> QED  BY <1>2, <2>1, <2>2
<1> QED  BY <1>3 DEF BatchIsNew, LogStays, Plans

LEMMA NoReadPlan == \A w \in Writes, r \in Records : Read(r) \notin Plans(w)
<1>1. \A r : Read(r).kind = "read"
  BY DEF Read
<1> QED  BY <1>1, PlanEntries DEF Plans

\* The head of what arrived is taken.
LEMMA ArrivedTaken ==
  ASSUME TypeOK, ContractInv, LogStays, arrived # <<>>, arrived' = Tail(arrived)
  PROVE  /\ ArrivedTell'
         /\ \A w \in Writes :
              Head(arrived).entry \in Plans(w) => Tells(w, Head(arrived).answer.verdict)
<1>1. arrived \in Seq(News)
  BY DEF TypeOK, TransportTypeOK
<1>2. /\ Tail(arrived) \in Seq(News) /\ Len(Tail(arrived)) = Len(arrived) - 1
      /\ \A i \in 1..Len(Tail(arrived)) : Tail(arrived)[i] = arrived[i + 1]
      /\ Head(arrived) = arrived[1] /\ Len(arrived) \in Nat /\ Len(arrived) >= 1
      /\ DOMAIN arrived = 1..Len(arrived) /\ DOMAIN Tail(arrived) = 1..(Len(arrived) - 1)
  BY <1>1, HeadTailProperties, LenProperties, EmptySeq
<1>3. \A i \in DOMAIN arrived' : i + 1 \in DOMAIN arrived /\ arrived'[i] = arrived[i + 1]
  BY <1>2
<1>4. 1 \in DOMAIN arrived
  BY <1>2
<1> QED  BY <1>2, <1>3, <1>4 DEF ContractInv, ArrivedTell, LogStays, Plans, Tells

LEMMA OutcomesTaken ==
  ASSUME TypeOK, ContractInv, LogStays, outcomes # <<>>, outcomes' = Tail(outcomes)
  PROVE  /\ OutcomesTell'
         /\ \A w \in Writes :
              Head(outcomes).write = w => Tells(w, Head(outcomes).answer.verdict)
         /\ \A i \in DOMAIN outcomes :
              outcomes[i] = Head(outcomes) \/ \E j \in DOMAIN outcomes' : outcomes'[j] = outcomes[i]
<1>1. outcomes \in Seq(Results)
  BY DEF TypeOK, FlushTypeOK
<1>2. /\ Tail(outcomes) \in Seq(Results) /\ Len(Tail(outcomes)) = Len(outcomes) - 1
      /\ \A i \in 1..Len(Tail(outcomes)) : Tail(outcomes)[i] = outcomes[i + 1]
      /\ Head(outcomes) = outcomes[1] /\ Len(outcomes) \in Nat /\ Len(outcomes) >= 1
      /\ DOMAIN outcomes = 1..Len(outcomes) /\ DOMAIN Tail(outcomes) = 1..(Len(outcomes) - 1)
  BY <1>1, HeadTailProperties, LenProperties, EmptySeq
<1>3. \A i \in DOMAIN outcomes' : i + 1 \in DOMAIN outcomes /\ outcomes'[i] = outcomes[i + 1]
  BY <1>2
<1>4. 1 \in DOMAIN outcomes
  BY <1>2
<1>5. ASSUME NEW i \in DOMAIN outcomes
      PROVE  outcomes[i] = Head(outcomes) \/ \E j \in DOMAIN outcomes' : outcomes'[j] = outcomes[i]
  <2>1. CASE i = 1
    BY <1>2, <2>1
  <2>2. CASE i # 1
    <3>1. i - 1 \in DOMAIN outcomes' /\ outcomes'[i - 1] = outcomes[i]
      BY <1>2, <2>2
    <3> QED  BY <3>1
  <2> QED  BY <2>1, <2>2
<1>6. OutcomesTell'
  BY <1>3 DEF ContractInv, OutcomesTell, LogStays, Tells
<1>7. \A w \in Writes : Head(outcomes).write = w => Tells(w, Head(outcomes).answer.verdict)
  BY <1>2, <1>4 DEF ContractInv, OutcomesTell
<1> QED  BY <1>5, <1>6, <1>7

\* The plan of a write in a request is the only trace of it there is.
LEMMA OnlyCopy ==
  ASSUME TypeOK, HeldInv, NEW w \in Writes, NEW q \in net, q.open,
         NEW i \in DOMAIN q.plans, q.plans[i] \in Plans(w)
  PROVE  /\ \A j \in DOMAIN batch : batch[j] \notin Plans(w)
         /\ \A p \in net : p.open => \A j \in DOMAIN p.plans :
              p.plans[j] \in Plans(w) => p = q /\ j = i
         /\ \A j \in DOMAIN arrived : arrived[j].entry \notin Plans(w)
         /\ \A j \in DOMAIN outcomes : outcomes[j].write # w
         /\ pc[w] = "direct" \/ (pc[w] \in {"queued", "behind"} /\ InFlush(w))
<1> DEFINE e == q.plans[i]
<1>1. /\ Fits(pc[w], flushing, Copies(Direct(w)), Count(replayQueue, {w}), Copies(Flush(w)),
              Count(flushBatch, {w}), Count(outcomes, Of(w)))
      /\ Copies(Direct(w)) \in Nat /\ Copies(Flush(w)) \in Nat
      /\ Count(replayQueue, {w}) \in Nat /\ Count(flushBatch, {w}) \in Nat
      /\ Count(outcomes, Of(w)) \in Nat
  BY HeldIs, Numbers
<1>2. Direct(w) \in Entries /\ Flush(w) \in Entries /\ NetInv /\ Direct(w) # Flush(w)
  BY PlanEntries DEF HeldInv
<1>3. /\ batch \in Seq(Entries) /\ arrived \in Seq(News) /\ outcomes \in Seq(Results)
      /\ flushBatch \in Seq(Writes)
      /\ DOMAIN batch = 1..Len(batch) /\ DOMAIN arrived = 1..Len(arrived)
      /\ DOMAIN outcomes = 1..Len(outcomes) /\ DOMAIN flushBatch = 1..Len(flushBatch)
  BY LenProperties DEF TypeOK, TransportTypeOK, FlushTypeOK
<1>4. ASSUME NEW x \in Entries
      PROVE  /\ Copies(x) = Count(batch, {x}) + Cardinality(Flights(net, x))
                             + Count(arrived, Mail(x))
             /\ Count(batch, {x}) \in Nat /\ Cardinality(Flights(net, x)) \in Nat
             /\ Count(arrived, Mail(x)) \in Nat /\ IsFiniteSet(Flights(net, x))
  BY <1>2, CopiesAre DEF NetInv
<1>5. ASSUME NEW x \in Entries, NEW p \in net, p.open, NEW j \in DOMAIN p.plans, p.plans[j] = x
      PROVE  <<p.id, j>> \in Flights(net, x)
  BY <1>5 DEF Flights
<1>6. ASSUME NEW x \in Entries, Copies(x) = 0
      PROVE  /\ \A j \in DOMAIN batch : batch[j] # x
             /\ \A j \in DOMAIN arrived : arrived[j].entry # x
             /\ \A p \in net : p.open => \A j \in DOMAIN p.plans : p.plans[j] # x
  <2>1. Count(batch, {x}) = 0 /\ Count(arrived, Mail(x)) = 0 /\ Cardinality(Flights(net, x)) = 0
    <3>1. /\ Copies(x) = Count(batch, {x}) + Cardinality(Flights(net, x)) + Count(arrived, Mail(x))
          /\ Count(batch, {x}) \in Nat /\ Cardinality(Flights(net, x)) \in Nat
          /\ Count(arrived, Mail(x)) \in Nat
      BY <1>4
    <3> QED  BY <1>6, <3>1
  <2>2. Flights(net, x) = {}
    BY <1>4, <2>1, FS_EmptySet
  <2>3. \A j \in DOMAIN batch : batch[j] # x
    BY <1>3, <2>1, CountType
  <2>4. \A j \in DOMAIN arrived : arrived[j] \notin Mail(x)
    BY <1>3, <2>1, CountType
  <2>5. \A j \in DOMAIN arrived : arrived[j].entry # x
    <3>1. \A j \in DOMAIN arrived : arrived[j] \in News
      BY <1>3
    <3> QED  BY <2>4, <3>1 DEF Mail
  <2> QED  BY <1>5, <2>2, <2>3, <2>5
<1>7. e \in Entries /\ Copies(e) = 1 /\ Cardinality(Flights(net, e)) = 1
      /\ Count(batch, {e}) = 0 /\ Count(arrived, Mail(e)) = 0
  <2>1. e \in Entries /\ Copies(e) \in Nat /\ Copies(e) <= 1
    BY <1>1, <1>2 DEF Plans, Fits
  <2>2. Flights(net, e) # {}
    BY <1>5, <2>1
  <2>3. Cardinality(Flights(net, e)) # 0
    BY <1>4, <2>1, <2>2, FS_EmptySet
  <2>4. /\ Copies(e) = Count(batch, {e}) + Cardinality(Flights(net, e)) + Count(arrived, Mail(e))
        /\ Count(batch, {e}) \in Nat /\ Cardinality(Flights(net, e)) \in Nat
        /\ Count(arrived, Mail(e)) \in Nat
    BY <1>4, <2>1
  <2> QED  BY <2>1, <2>3, <2>4
<1>8. \E x \in Entries : Plans(w) = {e, x} /\ Copies(x) = 0
  BY <1>1, <1>2, <1>7 DEF Plans, Fits
<1>9. PICK x \in Entries : Plans(w) = {e, x} /\ Copies(x) = 0
  BY <1>8
<1>10. \A p \in net : p.open => \A j \in DOMAIN p.plans : p.plans[j] = e => p = q /\ j = i
  <2>1. SUFFICES ASSUME NEW p \in net, p.open, NEW j \in DOMAIN p.plans, p.plans[j] = e
                 PROVE  p = q /\ j = i
    OBVIOUS
  <2>2. <<p.id, j>> \in Flights(net, e) /\ <<q.id, i>> \in Flights(net, e)
    BY <1>5, <1>7, <2>1
  <2>3. <<p.id, j>> = <<q.id, i>>
    <3>1. PICK y : Flights(net, e) = {y}
      BY <1>4, <1>7, FS_Singleton
    <3> QED  BY <2>2, <3>1
  <2>4. p.id = q.id /\ j = i
    BY <2>3
  <2> QED  BY <1>2, <2>4 DEF NetInv
<1>11. \A j \in DOMAIN batch : batch[j] # e
  BY <1>3, <1>7, CountType
<1>12. \A j \in DOMAIN arrived : arrived[j].entry # e
  <2>1. \A j \in DOMAIN arrived : arrived[j] \in News /\ arrived[j] \notin Mail(e)
    BY <1>3, <1>7, CountType
  <2> QED  BY <2>1 DEF Mail
<1>13. Count(outcomes, Of(w)) = 0
  BY <1>1, <1>7 DEF Plans, Fits
<1>14. \A j \in DOMAIN outcomes : outcomes[j].write # w
  <2>1. \A j \in DOMAIN outcomes : outcomes[j] \in Results /\ outcomes[j] \notin Of(w)
    BY <1>3, <1>13, CountType
  <2> QED  BY <2>1 DEF Of
<1>15. pc[w] = "direct" \/ (pc[w] \in {"queued", "behind"} /\ InFlush(w))
  <2>1. CASE e = Direct(w)
    BY <1>1, <1>7, <2>1 DEF Fits
  <2>2. CASE e = Flush(w)
    <3>1. /\ Copies(Flush(w)) = 1
      BY <1>7, <2>2
    <3>2. flushing = "sent" /\ Count(flushBatch, {w}) # 0 /\ pc[w] \in {"queued", "behind"}
      BY <1>1, <3>1 DEF Fits
    <3>3. \E j \in DOMAIN flushBatch : flushBatch[j] \in {w}
      BY <1>3, <3>2, CountType
    <3> QED  BY <3>2, <3>3 DEF InFlush
  <2> QED  BY <2>1, <2>2 DEF Plans
<1> HIDE DEF e
<1>16. \A j \in DOMAIN batch : batch[j] \notin Plans(w)
  BY <1>6, <1>9, <1>11
<1>17. \A j \in DOMAIN arrived : arrived[j].entry \notin Plans(w)
  BY <1>6, <1>9, <1>12
<1>18. \A p \in net : p.open => \A j \in DOMAIN p.plans : p.plans[j] \in Plans(w) => p = q /\ j = i
  BY <1>6, <1>9, <1>10
<1> QED  BY <1>14, <1>15, <1>16, <1>17, <1>18

\* Up to its delivery a write is nowhere on its way.
LEMMA ContractStart ==
  ASSUME TypeOK, ContractInv, NEW w \in Writes,
         \/ Issue(w) \/ Stamp(w) \/ Deliver(w) \/ DeliverLocally(w) \/ Release(w)
  PROVE  ContractInv'
<1>1. /\ UNCHANGED <<batch, net, arrived, outcomes, flushing, flushBatch, log>>
      /\ \/ pc' = pc
         \/ /\ pc[w] \in {"idle", "turn", "stamped", "started"}
            /\ \E s \in {"turn", "stamped", "started", "confirmed", "rejected"} :
                 pc' = [pc EXCEPT ![w] = s]
  BY DEF Issue, Stamp, Deliver, DeliverLocally, Release, flushVars, world
<1>2. LogStays
  BY <1>1, LogSame
<1>3. BatchIsNew' /\ RequestsTell' /\ ArrivedTell' /\ OutcomesTell'
  BY <1>1, <1>2, PartsStay
<1>4. ASSUME NEW v \in Writes
      PROVE  \/ pc'[v] = pc[v]
             \/ /\ pc[v] \in {"idle", "turn", "stamped", "started"}
                /\ pc'[v] \notin {"queued", "behind"}
  BY <1>1 DEF TypeOK, PipelineTypeOK
<1>5. RestIsNew'
  BY <1>1, <1>2, <1>4 DEF ContractInv, RestIsNew, InFlush, LogStays
<1> QED  BY <1>3, <1>5 DEF ContractInv

LEMMA ContractSetsOut ==
  ASSUME TypeOK, ContractInv, NEW w \in Writes, Dispatch(w) \/ QueueBehind(w)
  PROVE  ContractInv'
<1>1. /\ UNCHANGED <<net, arrived, outcomes, flushing, flushBatch, log>>
      /\ pc[w] = "started" /\ \E s \in {"direct", "behind"} : pc' = [pc EXCEPT ![w] = s]
      /\ batch' = batch \/ batch' = Append(batch, Direct(w))
  BY DEF Dispatch, QueueBehind, flushVars, world
<1>2. LogStays /\ ~Ran(w)
  BY <1>1, LogSame DEF ContractInv, RestIsNew
<1>3. RequestsTell' /\ ArrivedTell' /\ OutcomesTell'
  BY <1>1, <1>2, PartsStay
<1>4. BatchIsNew'
  <2>1. CASE batch' = batch
    BY <1>2, <2>1, PartsStay
  <2>2. CASE batch' = Append(batch, Direct(w))
    <3>1. Direct(w) \in Entries /\ \A v \in Writes : Direct(w) \in Plans(v) => v = w
      BY PlanEntries DEF Plans
    <3>2. \A v \in Writes : Direct(w) \in Plans(v) => ~Ran(v)
      BY <1>2, <3>1
    <3> QED  BY <1>2, <2>2, <3>1, <3>2, BatchGrows
  <2> QED  BY <1>1, <2>1, <2>2
<1>5. \A v \in Writes : v # w => pc'[v] = pc[v]
  BY <1>1 DEF TypeOK, PipelineTypeOK
<1>6. RestIsNew'
  BY <1>1, <1>2, <1>5 DEF ContractInv, RestIsNew, InFlush, LogStays
<1> QED  BY <1>3, <1>4, <1>6 DEF ContractInv

LEMMA ContractSent ==
  ASSUME TypeOK, ContractInv, SendBatch
  PROVE  ContractInv'
<1> DEFINE q == [id |-> sent', plans |-> batch, answers |-> <<>>, open |-> TRUE]
<1>1. /\ UNCHANGED <<pc, arrived, outcomes, flushing, flushBatch, log>>
      /\ net' = net \cup {q} /\ batch' = <<>>
  BY DEF SendBatch, flushVars, world, pipeline
<1>2. LogStays
  BY <1>1, LogSame
<1>3. ArrivedTell' /\ OutcomesTell' /\ RestIsNew'
  BY <1>1, <1>2, PartsStay
<1>4. BatchIsNew'
  BY <1>1 DEF BatchIsNew
<1>5. q.open /\ q.plans = batch /\ Len(q.answers) = 0
  OBVIOUS
<1> HIDE DEF q
<1>6. \A w \in Writes : \A i \in DOMAIN q.plans :
        q.plans[i] \in Plans(w) => ~(i <= Len(q.answers)) /\ ~Ran(w)
  <2>1. DOMAIN batch = 1..Len(batch)
    BY LenProperties DEF TypeOK, TransportTypeOK
  <2>2. \A i \in DOMAIN batch : ~(i <= 0)
    BY <2>1
  <2> QED  BY <1>5, <2>2 DEF ContractInv, BatchIsNew
<1>7. RequestsTell'
  BY <1>1, <1>2, <1>5, <1>6 DEF ContractInv, RequestsTell, LogStays, Plans, Tells
<1> QED  BY <1>3, <1>4, <1>7 DEF ContractInv

\* What the client hears of a request is so.
LEMMA ContractHeard ==
  ASSUME TypeOK, ContractInv, LogStays, NEW q \in net, NEW f, Hear(q, f),
         \A w \in Writes : \A i \in 1..Len(q.plans) :
           q.plans[i] \in Plans(w) => Tells(w, f[i].verdict)
  PROVE  ArrivedTell'
<1> DEFINE heard == [i \in 1..Len(q.plans) |-> [entry |-> q.plans[i], answer |-> f[i]]]
           S == {arrived[i] : i \in DOMAIN arrived} \cup {heard[i] : i \in DOMAIN heard}
<1>1. arrived' = arrived \o heard
  BY DEF Hear
<1>2. arrived \in Seq(News) /\ q.plans \in Seq(Entries)
  BY DEF TypeOK, TransportTypeOK, Requests
<1>3. Len(q.plans) \in Nat /\ DOMAIN arrived = 1..Len(arrived) /\ Len(arrived) \in Nat
  BY <1>2, LenProperties
<1>4. arrived \in Seq(S) /\ heard \in Seq(S) /\ Len(heard) = Len(q.plans)
  <2>1. arrived \in Seq(S)
    <3>1. \A i \in 1..Len(arrived) : arrived[i] \in S
      BY <1>3
    <3>2. arrived = [i \in 1..Len(arrived) |-> arrived[i]]
      BY <1>2, <1>3
    <3> HIDE DEF S
    <3> QED  BY <1>3, <3>1, <3>2
  <2>2. heard \in Seq(S) /\ Len(heard) = Len(q.plans)
    <3>1. \A i \in 1..Len(q.plans) : heard[i] \in S
      OBVIOUS
    <3>2. heard = [i \in 1..Len(q.plans) |-> heard[i]]
      OBVIOUS
    <3> HIDE DEF heard, S
    <3> QED  BY <1>3, <3>1, <3>2
  <2> QED  BY <2>1, <2>2
<1>5. \A i \in 1..Len(q.plans) : heard[i].entry = q.plans[i] /\ heard[i].answer = f[i]
  OBVIOUS
<1> HIDE DEF heard, S
<1>6. /\ Len(arrived') = Len(arrived) + Len(q.plans)
      /\ \A i \in 1..(Len(arrived) + Len(q.plans)) :
           arrived'[i] = IF i <= Len(arrived) THEN arrived[i] ELSE heard[i - Len(arrived)]
      /\ DOMAIN arrived' = 1..(Len(arrived) + Len(q.plans))
  <2>1. /\ arrived \o heard \in Seq(S) /\ Len(arrived \o heard) = Len(arrived) + Len(heard)
        /\ \A i \in 1..Len(arrived) + Len(heard) :
             (arrived \o heard)[i] =
                IF i <= Len(arrived) THEN arrived[i] ELSE heard[i - Len(arrived)]
    BY <1>4, ConcatProperties
  <2>2. DOMAIN (arrived \o heard) = 1..Len(arrived \o heard)
    BY <2>1, LenProperties
  <2> QED  BY <1>1, <1>4, <2>1, <2>2
<1>7. ASSUME NEW w \in Writes, NEW i \in DOMAIN arrived', arrived'[i].entry \in Plans(w)
      PROVE  Tells(w, arrived'[i].answer.verdict)
  <2>1. CASE i <= Len(arrived)
    <3>1. i \in DOMAIN arrived /\ arrived'[i] = arrived[i]
      BY <1>3, <1>6, <2>1
    <3> QED  BY <1>7, <3>1 DEF ContractInv, ArrivedTell
  <2>2. CASE i > Len(arrived)
    <3>1. i - Len(arrived) \in 1..Len(q.plans) /\ arrived'[i] = heard[i - Len(arrived)]
      BY <1>3, <1>6, <2>2
    <3> QED  BY <1>5, <1>7, <3>1
  <2> QED  BY <1>3, <1>6, <2>1, <2>2
<1> QED  BY <1>7 DEF ArrivedTell, LogStays, Tells, Plans

LEMMA ContractAnswered ==
  ASSUME "lose" \notin Faults, TypeOK, ContractInv, NEW q \in net,
         Respond(q) \/ Fail(q) \/ Refuse(q)
  PROVE  ContractInv'
<1>1. UNCHANGED <<pc, batch, outcomes, flushing, flushBatch, log>> /\ net' = net \ {q}
  BY DEF Respond, Fail, Refuse, flushVars, world, pipeline
<1>2. LogStays
  BY <1>1, LogSame
<1>3. BatchIsNew' /\ RequestsTell' /\ OutcomesTell' /\ RestIsNew'
  BY <1>1, <1>2, PartsStay
<1>4. /\ q.plans \in Seq(Entries) /\ q.answers \in Seq(Answers)
      /\ DOMAIN q.plans = 1..Len(q.plans) /\ Len(q.plans) \in Nat /\ Len(q.answers) \in Nat
  <2>1. q.plans \in Seq(Entries) /\ q.answers \in Seq(Answers)
    BY DEF TypeOK, TransportTypeOK, Requests
  <2> QED  BY <2>1, LenProperties
<1>5. \A w \in Writes : \A i \in 1..Len(q.plans) : q.plans[i] \in Plans(w) =>
        IF i <= Len(q.answers) THEN Tells(w, q.answers[i].verdict) ELSE ~Ran(w)
  BY <1>4 DEF ContractInv, RequestsTell
<1>6. CASE Respond(q)
  <2>1. Hear(q, q.answers) /\ Len(q.answers) >= Len(q.plans)
    BY <1>6 DEF Respond, Executed
  <2>2. \A w \in Writes : \A i \in 1..Len(q.plans) :
          q.plans[i] \in Plans(w) => Tells(w, q.answers[i].verdict)
    BY <1>4, <1>5, <2>1
  <2>3. ArrivedTell'
    BY <1>2, <2>1, <2>2, ContractHeard
  <2> QED  BY <1>3, <2>3 DEF ContractInv
<1>7. ASSUME NEW verdict \in {"offline", "refused"},
             Hear(q, [i \in 1..Len(q.plans) |-> Fault(verdict)]), q.answers = <<>>
      PROVE  ContractInv'
  <2> DEFINE f == [i \in 1..Len(q.plans) |-> Fault(verdict)]
  <2>1. \A i \in 1..Len(q.plans) : f[i].verdict = verdict
    BY DEF Fault
  <2>2. Hear(q, f)
    BY <1>7
  <2> HIDE DEF f
  <2>3. Len(q.answers) = 0
    BY <1>7
  <2>4. \A w \in Writes : \A i \in 1..Len(q.plans) : q.plans[i] \in Plans(w) => ~Ran(w)
    BY <1>5, <2>3
  <2>5. \A w \in Writes : ~Ran(w) => Tells(w, verdict)
    BY DEF Ran, Accepted, Tells
  <2>6. \A w \in Writes : \A i \in 1..Len(q.plans) :
          q.plans[i] \in Plans(w) => Tells(w, f[i].verdict)
    BY <2>1, <2>4, <2>5
  <2>7. ArrivedTell'
    BY <1>2, <2>2, <2>6, ContractHeard
  <2> QED  BY <1>3, <2>7 DEF ContractInv
<1>8. CASE Fail(q)
  BY <1>7, <1>8 DEF Fail
<1>9. CASE Refuse(q)
  BY <1>7, <1>9 DEF Refuse
<1> QED  BY <1>6, <1>8, <1>9

LEMMA ContractIngest ==
  ASSUME TypeOK, ContractInv, Ingest
  PROVE  ContractInv'
<1>1. /\ UNCHANGED <<pc, batch, net, outcomes, flushing, flushBatch, log>>
      /\ arrived # <<>> /\ arrived' = Tail(arrived)
  BY DEF Ingest, HeadIs, flushVars, world, pipeline
<1>2. LogStays
  BY <1>1, LogSame
<1>3. BatchIsNew' /\ RequestsTell' /\ OutcomesTell' /\ RestIsNew'
  BY <1>1, <1>2, PartsStay
<1>4. ArrivedTell'
  BY <1>1, <1>2, ArrivedTaken
<1> QED  BY <1>3, <1>4 DEF ContractInv

\* The server executes the only copy there is, of a write that never ran.
LEMMA ServerTakes ==
  ASSUME TypeOK, NEW q \in net, ServerExec(q), q.open
  PROVE  \E answer \in Answers :
           /\ net' = (net \ {q}) \cup {[q EXCEPT !.answers = Append(@, answer)]}
           /\ LET plan == q.plans[Len(q.answers) + 1]
              IN \/ plan.kind = "read" /\ log' = log
                 \/ \E w \in Writes, r \in Records, verdict \in {"ok", "conflict", "failed"} :
                      /\ plan.kind # "read" /\ plan.write = w /\ answer.verdict = verdict
                      /\ log' = Append(log, [who |-> w, record |-> r, verdict |-> verdict])
<1> DEFINE plan == q.plans[Len(q.answers) + 1]
           With(answer) == [q EXCEPT !.answers = Append(@, answer)]
           AnswerWith(answer) ==
             LET p == [q EXCEPT !.answers = Append(@, answer)]
             IN net' = (net \ {q}) \cup (IF ~p.open /\ Executed(p) THEN {} ELSE {p})
<1>1. q \in Requests
  BY DEF TypeOK, TransportTypeOK
<1>2. /\ q.answers \in Seq(Answers) /\ q.plans \in Seq(Entries)
      /\ Len(q.answers) + 1 \in 1..Len(q.plans)
  <2>1. /\ q.answers \in Seq(Answers) /\ q.plans \in Seq(Entries)
        /\ ~(Len(q.answers) >= Len(q.plans))
    BY <1>1, ServerOnly DEF Requests, Executed
  <2> QED  BY <2>1, LenProperties
<1>3. plan \in Entries
  BY <1>2
<1>4. ASSUME NEW answer, AnswerWith(answer) PROVE net' = (net \ {q}) \cup {With(answer)}
  <2>1. With(answer).open
    BY <1>1 DEF Requests
  <2> QED  BY <1>4, <2>1
<1>5. server \in [Records -> Row]
  BY DEF TypeOK, WorldTypeOK
<1>6. CASE plan.kind = "read"
  <2> DEFINE answer == [verdict |-> "ok", row |-> server[plan.record]]
  <2>1. AnswerWith(answer) /\ log' = log
    BY <1>6 DEF ServerExec, world
  <2>2. answer \in Answers
    BY <1>3, <1>5, <1>6, EntryTypes DEF Answers, Verdicts
  <2>3. net' = (net \ {q}) \cup {With(answer)}
    BY <1>4, <2>1
  <2> HIDE DEF answer
  <2> QED  BY <1>6, <2>1, <2>2, <2>3
<1>7. CASE plan.kind # "read"
  <2> DEFINE w == plan.write
             r == Target[w]
             verdict == Verdict(w, server[r])
             row == IF verdict = "ok" THEN Effect(w, server[r]) ELSE server[r]
             answer == [verdict |-> verdict, row |-> row]
  <2>1. w \in Writes /\ r \in Records
    BY <1>3, <1>7, EntryTypes, WritesAssumption
  <2>2. /\ AnswerWith(answer)
        /\ log' = Append(log, [who |-> w, record |-> r, verdict |-> verdict])
    BY Zenon, <1>7 DEF ServerExec
  <2>3. verdict \in {"ok", "conflict", "failed"}
    BY DEF Verdict
  <2> HIDE DEF w
  <2>4. answer \in Answers
    <3>1. server[r] \in Row
      BY <1>5, <2>1
    <3>2. row \in Row
      BY <2>1, <3>1, EffectType
    <3> HIDE DEF row
    <3> QED  BY <2>3, <3>2 DEF Answers, Verdicts
  <2>5. net' = (net \ {q}) \cup {With(answer)}
    BY <1>4, <2>2
  <2>6. answer.verdict = verdict
    OBVIOUS
  <2>7. plan.write = w
    BY DEF w
  <2> HIDE DEF answer, verdict, r, With
  <2> QED  BY <1>7, <2>1, <2>2, <2>3, <2>4, <2>5, <2>6, <2>7 DEF With
<1> QED  BY <1>6, <1>7

LEMMA PlanOf ==
  ASSUME NEW e \in Entries, e.kind # "read", NEW w \in Writes
  PROVE  e \in Plans(w) <=> e.write = w
BY DEF Entries, Plans, Direct, Flush

LEMMA ContractServed ==
  ASSUME TypeOK, HeldInv, ContractInv, NEW q \in net, ServerExec(q)
  PROVE  ContractInv'
<1> DEFINE n == Len(q.answers)
           plan == q.plans[n + 1]
<1>1. /\ q.open /\ q.answers \in Seq(Answers) /\ q.plans \in Seq(Entries) /\ q \in Requests
      /\ n \in Nat /\ DOMAIN q.plans = 1..Len(q.plans) /\ Len(q.plans) \in Nat
      /\ n + 1 \in DOMAIN q.plans
  <2>1. q.open /\ q \in Requests
    BY DEF ContractInv, RequestsTell, TypeOK, TransportTypeOK
  <2>2. q.answers \in Seq(Answers) /\ q.plans \in Seq(Entries) /\ ~(n >= Len(q.plans))
    BY <2>1, ServerOnly DEF Requests, Executed
  <2> QED  BY <2>1, <2>2, LenProperties
<1>2. UNCHANGED <<pc, batch, arrived, outcomes, flushing, flushBatch>>
  BY ServerOnly DEF flushVars, pipeline
<1>3. PICK answer \in Answers :
        /\ net' = (net \ {q}) \cup {[q EXCEPT !.answers = Append(@, answer)]}
        /\ \/ plan.kind = "read" /\ log' = log
           \/ \E w \in Writes, r \in Records, verdict \in {"ok", "conflict", "failed"} :
                /\ plan.kind # "read" /\ plan.write = w /\ answer.verdict = verdict
                /\ log' = Append(log, [who |-> w, record |-> r, verdict |-> verdict])
  BY <1>1, ServerTakes
<1> DEFINE p == [q EXCEPT !.answers = Append(@, answer)]
<1>4. p.plans = q.plans /\ p.open /\ p.answers = Append(q.answers, answer)
  BY <1>1 DEF Requests
<1> HIDE DEF p
<1>5. /\ Len(p.answers) = n + 1 /\ p.answers[n + 1] = answer
      /\ \A i \in 1..n : p.answers[i] = q.answers[i]
  BY <1>1, <1>4, AppendProperties
<1>6. plan \in Entries
  BY <1>1
<1>7. net' = (net \ {q}) \cup {p}
  BY <1>3 DEF p
<1>8. \* A write the step leaves alone.
      ASSUME NEW v \in Writes, Ran(v)' <=> Ran(v), Accepted(v)' <=> Accepted(v),
             plan \notin Plans(v)
      PROVE  \A i \in DOMAIN p.plans : p.plans[i] \in Plans(v) =>
               IF i <= Len(p.answers) THEN Tells(v, p.answers[i].verdict) ELSE ~Ran(v)
  <2>1. SUFFICES ASSUME NEW i \in DOMAIN q.plans, q.plans[i] \in Plans(v)
                 PROVE  IF i <= Len(p.answers) THEN Tells(v, p.answers[i].verdict) ELSE ~Ran(v)
    BY <1>4
  <2>2. i \in 1..Len(q.plans) /\ i # n + 1
    BY <1>1, <1>8, <2>1
  <2>3. IF i <= n THEN Tells(v, q.answers[i].verdict) ELSE ~Ran(v)
    BY <2>1 DEF ContractInv, RequestsTell
  <2>4. CASE i <= n
    BY <1>1, <1>5, <2>2, <2>3, <2>4
  <2>5. CASE i > n + 1
    BY <1>1, <1>5, <2>2, <2>3, <2>5
  <2> QED  BY <1>1, <2>2, <2>4, <2>5
<1>9. CASE plan.kind = "read" /\ log' = log
  <2>1. LogStays /\ \A v \in Writes : plan \notin Plans(v)
    BY <1>9, LogSame, PlanEntries DEF Plans
  <2>2. BatchIsNew' /\ ArrivedTell' /\ OutcomesTell' /\ RestIsNew'
    BY <1>2, <2>1, PartsStay
  <2>3. RequestsTell'
    <3>1. \A v \in Writes : \A i \in DOMAIN p.plans : p.plans[i] \in Plans(v) =>
            IF i <= Len(p.answers) THEN Tells(v, p.answers[i].verdict) ELSE ~Ran(v)
      BY <1>8, <2>1 DEF LogStays
    <3> QED  BY <1>4, <1>7, <2>1, <3>1
             DEF ContractInv, RequestsTell, LogStays, Plans, Tells
  <2> QED  BY <2>2, <2>3 DEF ContractInv
<1>10. ASSUME NEW w \in Writes, NEW r \in Records, NEW verdict \in {"ok", "conflict", "failed"},
              plan.kind # "read", plan.write = w, answer.verdict = verdict,
              log' = Append(log, [who |-> w, record |-> r, verdict |-> verdict])
       PROVE  ContractInv'
  <2>1. plan \in Plans(w)
    BY <1>6, <1>10, PlanOf
  <2>2. ~Ran(w) /\ ~Accepted(w)
    <3>1. ~(n + 1 <= n)
      BY <1>1
    <3>2. ~Ran(w)
      BY <1>1, <2>1, <3>1 DEF ContractInv, RequestsTell
    <3> QED  BY <3>2 DEF Ran, Accepted
  <2>3. /\ \A j \in DOMAIN batch : batch[j] \notin Plans(w)
        /\ \A a \in net : a.open => \A j \in DOMAIN a.plans :
             a.plans[j] \in Plans(w) => a = q /\ j = n + 1
        /\ \A j \in DOMAIN arrived : arrived[j].entry \notin Plans(w)
        /\ \A j \in DOMAIN outcomes : outcomes[j].write # w
        /\ pc[w] = "direct" \/ (pc[w] \in {"queued", "behind"} /\ InFlush(w))
    BY <1>1, <2>1, OnlyCopy
  <2> DEFINE event == [who |-> w, record |-> r, verdict |-> verdict]
  <2>4. event \in Events /\ event.who = w /\ event.verdict = verdict
    BY DEF Events, Verdicts
  <2>5. log' = Append(log, event)
    BY <1>10
  <2> HIDE DEF event
  <2>6. \A v \in Writes :
          /\ Ran(v)' <=> Ran(v) \/ v = w
          /\ Accepted(v)' <=> Accepted(v) \/ (v = w /\ verdict = "ok")
    BY <2>4, <2>5, LogGrows
  <2>7. /\ \A v \in Writes : v # w => (Ran(v)' <=> Ran(v)) /\ (Accepted(v)' <=> Accepted(v))
        /\ Accepted(w)' <=> verdict = "ok"
    BY <2>2, <2>6
  <2>8. BatchIsNew'
    BY <1>2, <2>3, <2>7 DEF ContractInv, BatchIsNew, Plans
  <2>9. ArrivedTell'
    BY <1>2, <2>3, <2>7 DEF ContractInv, ArrivedTell, Plans, Tells
  <2>10. OutcomesTell'
    BY <1>2, <2>3, <2>7 DEF ContractInv, OutcomesTell, Tells
  <2>11. RestIsNew'
    BY <1>2, <2>3, <2>7 DEF ContractInv, RestIsNew, InFlush
  <2>12. \A v \in Writes : v # w => plan \notin Plans(v)
    BY <1>6, <1>10, PlanOf
  <2>13. RequestsTell'
    <3>1. ASSUME NEW a \in net' PROVE a.open
      BY <1>4, <1>7 DEF ContractInv, RequestsTell
    <3>2. ASSUME NEW a \in net', NEW v \in Writes, v # w, NEW i \in DOMAIN a.plans,
                 a.plans[i] \in Plans(v)
          PROVE  IF i <= Len(a.answers) THEN Tells(v, a.answers[i].verdict) ELSE ~Ran(v)
      <4>1. CASE a = p
        BY <1>8, <2>7, <2>12, <3>2, <4>1
      <4>2. CASE a \in net
        BY <3>2, <4>2 DEF ContractInv, RequestsTell
      <4> QED  BY <1>7, <4>1, <4>2
    <3>3. ASSUME NEW a \in net', NEW i \in DOMAIN a.plans, a.plans[i] \in Plans(w)
          PROVE  i <= Len(a.answers) /\ a.answers[i].verdict = verdict
      <4>1. a = p \/ (a \in net /\ a # q)
        BY <1>7
      <4>2. a = p
        BY <2>3, <3>1, <3>3, <4>1
      <4>3. i = n + 1
        BY <1>1, <1>4, <2>3, <3>3, <4>2
      <4> QED  BY <1>1, <1>5, <1>10, <4>2, <4>3
    <3>4. \A x : Tells(w, x)' <=> /\ Accepted(w)' <=> x = "ok"
                                  /\ x \in {"offline", "refused"} => ~Ran(w)'
      BY DEF Tells
    <3>5. \A v \in Writes : v # w => \A x : Tells(v, x) => Tells(v, x)'
      BY <2>7 DEF Tells
    <3> QED  BY <2>7, <3>1, <3>2, <3>3, <3>4, <3>5 DEF RequestsTell, Plans, Tells
  <2> QED  BY <2>8, <2>9, <2>10, <2>11, <2>13 DEF ContractInv
<1> QED  BY <1>3, <1>9, <1>10

\* A write settles, or falls back to the queue, on an answer that is so.
LEMMA ContractSettled ==
  ASSUME TypeOK, ContractInv, NEW w \in Writes, Confirm(w) \/ Reject(w) \/ FallBack(w)
  PROVE  ContractInv' /\ Tells(w, Head(arrived).answer.verdict)
<1>1. /\ UNCHANGED <<net, outcomes, flushing, flushBatch, log>>
      /\ HeadIsFor(w) /\ arrived # <<>> /\ arrived' = Tail(arrived)
      /\ batch' = batch \/ batch' = Append(batch, Read(Target[w]))
      /\ \/ \E s \in {"confirmed", "rejected"} : pc' = [pc EXCEPT ![w] = s]
         \/ pc' = [pc EXCEPT ![w] = "queued"] /\ Head(arrived).answer.verdict = "offline"
  BY DEF Confirm, Reject, FallBack, HeadIsFor, HeadIs, Next1, SettleConfirmed, SettleRejected,
         flushVars, world
<1>2. LogStays
  BY <1>1, LogSame
<1>3. RequestsTell' /\ OutcomesTell'
  BY <1>1, <1>2, PartsStay
<1>4. Head(arrived).entry \in Plans(w)
  <2>1. arrived \in Seq(News)
    BY DEF TypeOK, TransportTypeOK
  <2>2. Head(arrived) \in News
    BY <1>1, <2>1, ConsumeType
  <2>3. Head(arrived).entry \in Entries /\ Head(arrived).entry.kind # "read"
        /\ Head(arrived).entry.write = w
    BY <1>1, <2>2 DEF News, HeadIsFor, HeadIs, Next1
  <2> QED  BY <2>3, PlanOf
<1>5. ArrivedTell' /\ Tells(w, Head(arrived).answer.verdict)
  BY <1>1, <1>2, <1>4, ArrivedTaken
<1>6. BatchIsNew'
  <2>1. Read(Target[w]) \in Entries /\ \A v \in Writes : Read(Target[w]) \notin Plans(v)
    BY EntryTypes, NoReadPlan, WritesAssumption
  <2> QED  BY <1>1, <1>2, <2>1, PartsStay, BatchGrows
<1>7. RestIsNew'
  <2>1. Head(arrived).answer.verdict = "offline" => ~Ran(w)
    BY <1>5 DEF Tells
  <2>2. \A v \in Writes : v # w => pc'[v] = pc[v]
    BY <1>1 DEF TypeOK, PipelineTypeOK
  <2>3. pc'[w] \in {"confirmed", "rejected"} \/ ~Ran(w)
    BY <1>1, <2>1 DEF TypeOK, PipelineTypeOK
  <2> QED  BY <1>1, <1>2, <2>2, <2>3 DEF ContractInv, RestIsNew, InFlush, LogStays
<1> QED  BY <1>3, <1>5, <1>6, <1>7 DEF ContractInv

LEMMA ContractCollect ==
  ASSUME TypeOK, TypeOK', HeldInv, ContractInv, Collect
  PROVE  ContractInv'
<1> DEFINE e == Head(arrived).entry
           new == [write |-> e.write, answer |-> Head(arrived).answer]
<1>1. /\ UNCHANGED <<pc, batch, net, log>>
      /\ arrived # <<>> /\ arrived' = Tail(arrived) /\ e.kind = "flush"
      /\ outcomes' = Append(outcomes, new)
      /\ \/ flushing' = "settling"
         \/ flushing' = flushing /\ flushBatch' = flushBatch
  BY DEF Collect, HeadIs, Next1, pipeline, world
<1>2. LogStays
  BY <1>1, LogSame
<1>3. BatchIsNew' /\ RequestsTell'
  BY <1>1, <1>2, PartsStay
<1>4. /\ ArrivedTell'
      /\ \A w \in Writes : e \in Plans(w) => Tells(w, Head(arrived).answer.verdict)
  BY <1>1, <1>2, ArrivedTaken
<1>5. /\ arrived \in Seq(News) /\ outcomes \in Seq(Results) /\ flushBatch \in Seq(Writes)
      /\ outcomes' \in Seq(Results)
  BY DEF TypeOK, TransportTypeOK, FlushTypeOK
<1>6. e \in Entries /\ e.kind # "read" /\ Head(arrived).answer \in Answers
  <2>1. Head(arrived) \in News
    BY <1>1, <1>5, ConsumeType
  <2> QED  BY <1>1, <2>1 DEF News
<1>7. new \in Results /\ new.write = e.write /\ new.answer = Head(arrived).answer
  BY <1>6, EntryTypes DEF Results
<1>8. \A w \in Writes : new.write = w => Tells(w, new.answer.verdict)
  BY <1>4, <1>6, <1>7, PlanOf
<1> HIDE DEF e, new
<1>9. /\ Len(outcomes') = Len(outcomes) + 1 /\ outcomes'[Len(outcomes) + 1] = new
      /\ \A i \in 1..Len(outcomes) : outcomes'[i] = outcomes[i]
      /\ DOMAIN outcomes = 1..Len(outcomes) /\ DOMAIN outcomes' = 1..(Len(outcomes) + 1)
      /\ Len(outcomes) \in Nat
  <2>1. /\ Len(outcomes') = Len(outcomes) + 1 /\ outcomes'[Len(outcomes) + 1] = new
        /\ \A i \in 1..Len(outcomes) : outcomes'[i] = outcomes[i]
    BY <1>1, <1>5, <1>7, AppendProperties
  <2> QED  BY <1>5, <2>1, LenProperties
<1>10. OutcomesTell'
  <2>1. ASSUME NEW w \in Writes, NEW i \in DOMAIN outcomes', outcomes'[i].write = w
        PROVE  Tells(w, outcomes'[i].answer.verdict)
    <3>1. CASE i \in DOMAIN outcomes
      BY <1>9, <2>1, <3>1 DEF ContractInv, OutcomesTell
    <3>2. CASE i = Len(outcomes) + 1
      BY <1>8, <1>9, <2>1, <3>2
    <3> QED  BY <1>9, <3>1, <3>2
  <2> QED  BY <1>2, <2>1 DEF OutcomesTell, LogStays, Tells
<1>11. /\ flushing = "sent"
       /\ flushing' = "settling" =>
            \A v \in Writes : Count(outcomes', Of(v)) = Count(flushBatch, {v})
  BY HeldCollect
<1>12. \A w \in Writes : ~InFlush(w)' => ~InFlush(w)
  <2>1. SUFFICES ASSUME NEW w \in Writes, NEW i \in DOMAIN flushBatch, flushBatch[i] = w
                 PROVE  InFlush(w)'
    BY <1>11 DEF InFlush
  <2>2. CASE flushing' = flushing /\ flushBatch' = flushBatch
    BY <1>11, <2>1, <2>2 DEF InFlush
  <2>3. CASE flushing' = "settling"
    <3>1. Count(flushBatch, {w}) # 0
      <4>1. DOMAIN flushBatch = 1..Len(flushBatch)
        BY <1>5, LenProperties
      <4> QED  BY <1>5, <2>1, <4>1, CountType
    <3>2. Count(outcomes', Of(w)) # 0
      BY <1>11, <2>3, <3>1
    <3>3. \E j \in 1..Len(outcomes') : outcomes'[j] \in Of(w)
      BY <1>5, <3>2, CountType
    <3>4. \E j \in DOMAIN outcomes' : outcomes'[j].write = w
      BY <1>9, <3>3 DEF Of
    <3> QED  BY <2>3, <3>4 DEF InFlush
  <2> QED  BY <1>1, <2>2, <2>3
<1>13. RestIsNew'
  BY <1>1, <1>2, <1>12 DEF ContractInv, RestIsNew, LogStays
<1> QED  BY <1>3, <1>4, <1>10, <1>13 DEF ContractInv

\* A flush replays writes that never ran.
LEMMA ContractReplay ==
  ASSUME TypeOK, TypeOK', HeldInv, ContractInv, Replay, flushing # "sent", outcomes = <<>>,
         UNCHANGED <<pc, net, arrived, replayQueue, log>>
  PROVE  ContractInv'
<1>1. LogStays
  BY LogSame
<1>2. RequestsTell' /\ ArrivedTell'
  BY <1>1, PartsStay
<1>3. outcomes' = <<>> /\ OutcomesTell'
  BY DEF Replay, OutcomesTell
<1>4. \A w \in Writes : ~InFlush(w)
  BY DEF InFlush
<1>5. \A w \in Writes : pc[w] \in {"queued", "behind"} => ~Ran(w)
  BY <1>4 DEF ContractInv, RestIsNew
<1>6. RestIsNew'
  BY <1>1, <1>5 DEF ContractInv, RestIsNew, LogStays
<1>7. /\ replayQueue \in Seq(Writes) /\ DOMAIN replayQueue = 1..Len(replayQueue)
      /\ Len(replayQueue) \in Nat
  BY LenProperties DEF TypeOK, ReplayTypeOK
<1>8. ASSUME NEW i \in 1..Len(replayQueue) PROVE replayQueue[i] \in Writes /\ ~Ran(replayQueue[i])
  <2>1. PICK w \in Writes : replayQueue[i] = w
    BY <1>7
  <2>2. Count(replayQueue, {w}) # 0
    BY <1>7, <2>1, CountType
  <2>3. Fits(pc[w], flushing, Copies(Direct(w)), Count(replayQueue, {w}), Copies(Flush(w)),
             Count(flushBatch, {w}), Count(outcomes, Of(w)))
    BY HeldIs
  <2>4. pc[w] \in {"queued", "behind"}
    BY <2>2, <2>3 DEF Fits
  <2> QED  BY <1>5, <2>1, <2>4
<1>9. BatchIsNew'
  <2> DEFINE again == [i \in 1..Len(replayQueue) |-> Flush(replayQueue[i])]
  <2>1. batch' = batch \o again
    BY DEF Replay
  <2>2. \A i \in 1..Len(replayQueue) : again[i] = Flush(replayQueue[i])
    OBVIOUS
  <2>3. again \in Seq(Entries) /\ Len(again) = Len(replayQueue)
    BY <1>7, <1>8, EntryTypes
  <2> HIDE DEF again
  <2>4. batch \in Seq(Entries) /\ DOMAIN batch = 1..Len(batch) /\ Len(batch) \in Nat
    BY LenProperties DEF TypeOK, TransportTypeOK
  <2>5. /\ DOMAIN batch' = 1..(Len(batch) + Len(replayQueue))
        /\ \A i \in 1..(Len(batch) + Len(replayQueue)) :
             batch'[i] = IF i <= Len(batch) THEN batch[i] ELSE again[i - Len(batch)]
    <3>1. /\ batch \o again \in Seq(Entries) /\ Len(batch \o again) = Len(batch) + Len(again)
          /\ \A i \in 1..Len(batch) + Len(again) :
               (batch \o again)[i] = IF i <= Len(batch) THEN batch[i] ELSE again[i - Len(batch)]
      BY <2>3, <2>4, ConcatProperties
    <3>2. DOMAIN (batch \o again) = 1..Len(batch \o again)
      BY <3>1, LenProperties
    <3> QED  BY <2>1, <2>3, <3>1, <3>2
  <2>6. ASSUME NEW w \in Writes, NEW i \in DOMAIN batch', batch'[i] \in Plans(w) PROVE ~Ran(w)
    <3>1. CASE i <= Len(batch)
      <4>1. i \in DOMAIN batch /\ batch'[i] = batch[i]
        BY <2>4, <2>5, <3>1
      <4> QED  BY <2>6, <4>1 DEF ContractInv, BatchIsNew
    <3>2. CASE i > Len(batch)
      <4>1. PICK j \in 1..Len(replayQueue) : batch'[i] = again[j]
        <5>1. i - Len(batch) \in 1..Len(replayQueue) /\ batch'[i] = again[i - Len(batch)]
          BY <1>7, <2>4, <2>5, <3>2
        <5> QED  BY <5>1
      <4>2. Flush(replayQueue[j]) \in Plans(w) /\ replayQueue[j] \in Writes
        BY <1>8, <2>2, <2>6, <4>1
      <4>3. replayQueue[j] = w
        BY <4>2, PlanEntries DEF Plans
      <4> QED  BY <1>8, <4>3
    <3> QED  BY <2>4, <2>5, <3>1, <3>2
  <2> QED  BY <1>1, <2>6 DEF BatchIsNew, LogStays, Plans
<1> QED  BY <1>2, <1>3, <1>6, <1>9 DEF ContractInv

LEMMA ContractFlushed ==
  ASSUME TypeOK, ContractInv, NEW w \in Writes,
         FlushStaysQueued(w) \/ FlushConfirm(w) \/ FlushReject(w)
  PROVE  ContractInv' /\ Tells(w, Outcome.verdict)
<1>1. /\ UNCHANGED <<net, arrived, log, flushing, flushBatch>>
      /\ flushing = "settling" /\ outcomes # <<>> /\ Head(outcomes).write = w
      /\ outcomes' = Tail(outcomes)
      /\ batch' = batch \/ batch' = Append(batch, Read(Target[w]))
      /\ \/ \E s \in {"confirmed", "rejected"} : pc' = [pc EXCEPT ![w] = s]
         \/ pc' = pc /\ Outcome.verdict = "offline"
  BY DEF FlushStaysQueued, FlushConfirm, FlushReject, SettlingNext, NextOutcome, SettleConfirmed,
         SettleRejected, world, pipeline
<1>2. LogStays
  BY <1>1, LogSame
<1>3. RequestsTell' /\ ArrivedTell'
  BY <1>1, <1>2, PartsStay
<1>4. /\ OutcomesTell' /\ Tells(w, Outcome.verdict)
      /\ \A i \in DOMAIN outcomes :
           outcomes[i] = Head(outcomes) \/ \E j \in DOMAIN outcomes' : outcomes'[j] = outcomes[i]
  BY <1>1, <1>2, OutcomesTaken DEF Outcome
<1>5. BatchIsNew'
  <2>1. Read(Target[w]) \in Entries /\ \A v \in Writes : Read(Target[w]) \notin Plans(v)
    BY EntryTypes, NoReadPlan, WritesAssumption
  <2> QED  BY <1>1, <1>2, <2>1, PartsStay, BatchGrows
<1>6. RestIsNew'
  <2>1. \A v \in Writes : v # w => pc'[v] = pc[v]
    BY <1>1 DEF TypeOK, PipelineTypeOK
  <2>2. pc'[w] \in {"confirmed", "rejected"} \/ ~Ran(w)
    BY <1>1, <1>4 DEF TypeOK, PipelineTypeOK, Tells
  <2>3. \A v \in Writes : v # w /\ ~InFlush(v)' => ~InFlush(v)
    BY <1>1, <1>4 DEF InFlush
  <2> QED  BY <1>2, <2>1, <2>2, <2>3 DEF ContractInv, RestIsNew, LogStays
<1> QED  BY <1>3, <1>4, <1>5, <1>6 DEF ContractInv

LEMMA ContractFlush ==
  ASSUME TypeOK, TypeOK', HeldInv, ContractInv, FlushNow \/ TimerFires \/ FlushRound
  PROVE  ContractInv'
<1>1. flushing = "idle" => outcomes = <<>>
  BY DEF HeldInv
<1>2. UNCHANGED <<pc, net, arrived, replayQueue, log>>
  BY DEF FlushNow, TimerFires, FlushRound, pipeline, replay, world
<1>3. CASE Replay /\ flushing # "sent" /\ outcomes = <<>>
  BY <1>2, <1>3, ContractReplay
<1>4. CASE /\ UNCHANGED <<batch, flushBatch, outcomes>>
           /\ flushing' = flushing \/ (flushing = "settling" /\ flushing' = "idle")
  <2>1. LogStays
    BY <1>2, LogSame
  <2>2. BatchIsNew' /\ RequestsTell' /\ ArrivedTell' /\ OutcomesTell'
    BY <1>2, <1>4, <2>1, PartsStay
  <2>3. RestIsNew'
    BY <1>2, <1>4, <2>1 DEF ContractInv, RestIsNew, InFlush, LogStays
  <2> QED  BY <2>2, <2>3 DEF ContractInv
<1>5. \/ Replay /\ flushing # "sent" /\ outcomes = <<>>
      \/ /\ UNCHANGED <<batch, flushBatch, outcomes>>
         /\ flushing' = flushing \/ (flushing = "settling" /\ flushing' = "idle")
  BY <1>1 DEF FlushNow, TimerFires, FlushRound, flushVars
<1> QED  BY <1>3, <1>4, <1>5

\* What other clients and readers do.
LEMMA ContractOutside ==
  ASSUME TypeOK, ContractInv,
         (\E r \in Records : RivalEdit(r) \/ Refresh(r)) \/ AtRest \/ UNCHANGED vars
  PROVE  ContractInv' /\ LogStays /\ pc' = pc
<1>1. UNCHANGED <<pc, net, arrived, outcomes, flushing, flushBatch>>
  BY DEF RivalEdit, Refresh, AtRest, vars, pipeline, flushVars
<1>2. LogStays
  <2>1. ASSUME NEW r \in Records, RivalEdit(r) PROVE LogStays
    <3> DEFINE event == [who |-> Rival, record |-> r, verdict |-> "ok"]
    <3>1. event \in Events /\ log' = Append(log, event) /\ event.who = Rival
      BY <2>1 DEF RivalEdit, Events, Verdicts
    <3> HIDE DEF event
    <3>2. \A w \in Writes : /\ Ran(w)' <=> Ran(w) \/ event.who = w
                            /\ Accepted(w)' <=> Accepted(w) \/ (event.who = w /\ event.verdict = "ok")
      BY <3>1, LogGrows
    <3> QED  BY <3>1, <3>2, WritesAssumption DEF LogStays
  <2>2. log' = log => LogStays
    BY LogSame
  <2> QED  BY <2>1, <2>2 DEF Refresh, AtRest, vars, world
<1>3. RequestsTell' /\ ArrivedTell' /\ OutcomesTell' /\ RestIsNew'
  BY <1>1, <1>2, PartsStay
<1>4. BatchIsNew'
  <2>1. batch' = batch => BatchIsNew'
    BY <1>2, PartsStay
  <2>2. ASSUME NEW r \in Records, Refresh(r) PROVE BatchIsNew'
    <3>1. batch' = Append(batch, Read(r)) /\ Read(r) \in Entries
      BY <2>2, EntryTypes DEF Refresh
    <3>2. \A w \in Writes : Read(r) \notin Plans(w)
      BY NoReadPlan
    <3> QED  BY <1>2, <3>1, <3>2, BatchGrows
  <2> QED  BY <2>1, <2>2 DEF RivalEdit, AtRest, vars
<1> QED  BY <1>1, <1>2, <1>3, <1>4 DEF ContractInv

LEMMA ContractInit == Init => ContractInv
<1> SUFFICES ASSUME Init PROVE ContractInv
  OBVIOUS
<1>1. \A w : ~Ran(w)
  BY DEF Init, Ran
<1> QED  BY <1>1 DEF Init, ContractInv, BatchIsNew, RequestsTell, ArrivedTell, OutcomesTell, RestIsNew

LEMMA ContractNext ==
  ASSUME "lose" \notin Faults, TypeOK, TypeOK', HeldInv, ContractInv, [Next]_vars
  PROVE  ContractInv'
<1>1. ASSUME NEW w \in Writes, Issue(w) \/ WriteSteps(w) PROVE ContractInv'
  BY <1>1, ContractStart, ContractSetsOut, ContractSettled, ContractFlushed DEF WriteSteps
<1>2. CASE Runtime
  BY <1>2, ContractSent, ContractIngest, ContractCollect, ContractFlush DEF Runtime
<1>3. CASE Network \/ Misfortune
  <2>1. ASSUME NEW q \in net, ServerExec(q) PROVE ContractInv'
    BY <2>1, ContractServed
  <2>2. ASSUME NEW q \in net, Respond(q) \/ Fail(q) \/ Refuse(q) PROVE ContractInv'
    BY <2>2, ContractAnswered
  <2> QED  BY <1>3, <2>1, <2>2 DEF Network, Misfortune
<1>4. CASE Environment
  BY <1>4, ContractFlush, ContractOutside DEF Environment
<1>5. CASE AtRest \/ UNCHANGED vars
  BY <1>5, ContractOutside
<1> QED  BY <1>1, <1>2, <1>3, <1>4, <1>5 DEF Next

\* How often the server took w, and how often it declined it.
Took(w) == Executions(w, {"ok"})
Denied(w) == Executions(w, Verdicts \ {"ok"})

\* Both counts are counts of events of the log.
TakenBy(w) == {event \in Events : event.who = w /\ event.verdict \in {"ok"}}
DeniedBy(w) == {event \in Events : event.who = w /\ event.verdict \in Verdicts \ {"ok"}}

LEMMA CountsAre ==
  ASSUME TypeOK
  PROVE  \A w \in Writes :
           /\ Took(w) = Count(log, TakenBy(w)) /\ Denied(w) = Count(log, DeniedBy(w))
           /\ Took(w) \in Nat /\ Denied(w) \in Nat
           /\ Took(w) = 0 <=> ~Accepted(w)
           /\ ~Ran(w) => Took(w) = 0 /\ Denied(w) = 0
<1> TAKE w \in Writes
<1>1. log \in Seq(Events) /\ DOMAIN log = 1..Len(log) /\ \A i \in DOMAIN log : log[i] \in Events
  <2>1. log \in Seq(Events)
    BY DEF TypeOK, WorldTypeOK
  <2> QED  BY <2>1, LenProperties
<1>2. /\ {i \in DOMAIN log : log[i].who = w /\ log[i].verdict \in {"ok"}} = At(log, TakenBy(w))
      /\ {i \in DOMAIN log : log[i].who = w /\ log[i].verdict \in Verdicts \ {"ok"}}
           = At(log, DeniedBy(w))
  BY <1>1 DEF At, TakenBy, DeniedBy
<1>3. Took(w) = Count(log, TakenBy(w)) /\ Denied(w) = Count(log, DeniedBy(w))
  BY <1>2 DEF Took, Denied, Executions, Count
<1>4. /\ Count(log, TakenBy(w)) \in Nat /\ Count(log, DeniedBy(w)) \in Nat
      /\ Count(log, TakenBy(w)) = 0 <=> \A i \in 1..Len(log) : log[i] \notin TakenBy(w)
      /\ Count(log, DeniedBy(w)) = 0 <=> \A i \in 1..Len(log) : log[i] \notin DeniedBy(w)
  BY <1>1, CountType
<1>5. /\ Accepted(w) <=> \E i \in 1..Len(log) : log[i] \in TakenBy(w)
      /\ ~Ran(w) => \A i \in 1..Len(log) : log[i] \notin TakenBy(w) /\ log[i] \notin DeniedBy(w)
  BY <1>1 DEF Accepted, Ran, TakenBy, DeniedBy
<1> QED  BY <1>3, <1>4, <1>5

\* One more event counts for its write, and for no other.
LEMMA CountsGrow ==
  ASSUME TypeOK, TypeOK', NEW event \in Events, log' = Append(log, event), NEW w \in Writes
  PROVE  /\ Took(w)' = Took(w) + (IF event.who = w /\ event.verdict = "ok" THEN 1 ELSE 0)
         /\ Denied(w)' = Denied(w) + (IF event.who = w /\ event.verdict # "ok" THEN 1 ELSE 0)
<1>1. log \in Seq(Events)
  BY DEF TypeOK, WorldTypeOK
<1>2. /\ Took(w) = Count(log, TakenBy(w)) /\ Denied(w) = Count(log, DeniedBy(w))
      /\ Took(w)' = Count(log', TakenBy(w)) /\ Denied(w)' = Count(log', DeniedBy(w))
  <2>1. \A i \in DOMAIN log' : log'[i] \in Events
    BY DEF TypeOK, WorldTypeOK
  <2>2. /\ {i \in DOMAIN log' : log'[i].who = w /\ log'[i].verdict \in {"ok"}}
             = At(log', TakenBy(w))
        /\ {i \in DOMAIN log' : log'[i].who = w /\ log'[i].verdict \in Verdicts \ {"ok"}}
             = At(log', DeniedBy(w))
    BY <2>1 DEF At, TakenBy, DeniedBy
  <2> QED  BY <2>2, CountsAre DEF Took, Denied, Executions, Count
<1>3. /\ Count(log', TakenBy(w)) = Count(log, TakenBy(w)) + (IF event \in TakenBy(w) THEN 1 ELSE 0)
      /\ Count(log', DeniedBy(w))
           = Count(log, DeniedBy(w)) + (IF event \in DeniedBy(w) THEN 1 ELSE 0)
  BY <1>1, CountAppend
<1>4. /\ event \in TakenBy(w) <=> event.who = w /\ event.verdict = "ok"
      /\ event \in DeniedBy(w) <=> event.who = w /\ event.verdict # "ok"
  BY DEF TakenBy, DeniedBy, Events
<1> QED  BY <1>2, <1>3, <1>4

\* A write's counts as they were.
CountsStay(w) == Took(w)' = Took(w) /\ Denied(w)' = Denied(w)

LEMMA CountsSame ==
  ASSUME log' = log
  PROVE  \A w : CountsStay(w)
BY DEF CountsStay, Took, Denied, Executions

\* What the server is asked comes from a source, and it took no write twice.
OnceInv ==
  /\ \A w \in Writes : Took(w) <= 1
  /\ \A w \in Writes : pc[w] \in {"direct", "queued", "behind"} => w \in Sourced

\* One write's phase and counts move as the contract allows, the others stay.
Moves(w) ==
  /\ \A v \in Writes : v # w => /\ Phase(v)' = Phase(v)
                                /\ Applied(v)' = Applied(v) /\ Declined(v)' = Declined(v)
  /\ \/ Phase(w)' = Phase(w) /\ Applied(w)' = Applied(w) /\ Declined(w)' = Declined(w)
     \/ /\ Phase(w) = "idle" /\ Phase(w)' = "submitted"
        /\ Applied(w)' = Applied(w) /\ Declined(w)' = Declined(w)
     \/ /\ Phase(w) = "submitted" /\ Phase(w)' = "submitted"
        /\ Applied(w) = 0 /\ Declined(w) = 0
        /\ \/ Applied(w)' = 1 /\ Declined(w)' = 0
           \/ Applied(w)' = 0 /\ Declined(w)' = 1
     \/ /\ Phase(w) = "submitted" /\ Phase(w)' = "resolved"
        /\ Applied(w) = 1 /\ Applied(w)' = 1 /\ Declined(w)' = Declined(w)
     \/ /\ Phase(w) = "submitted" /\ Phase(w)' = "rejected"
        /\ Applied(w) = 0 /\ Applied(w)' = 0 /\ Declined(w)' = Declined(w)

Phases == [w \in Writes |-> Phase(w)]
TimesApplied == [w \in Writes |-> Applied(w)]
TimesDeclined == [w \in Writes |-> Declined(w)]

\* A step of the contract, or none.
Keeps == [Contract!CNext]_<<Phases, TimesApplied, TimesDeclined>>

LEMMA MovesKeepContract ==
  ASSUME NEW w \in Writes, Moves(w)
  PROVE  Keeps
<1>1. \A v \in Writes :
        /\ Phases'[v] = Phase(v)' /\ TimesApplied'[v] = Applied(v)' /\ TimesDeclined'[v] = Declined(v)'
        /\ Phases[v] = Phase(v) /\ TimesApplied[v] = Applied(v) /\ TimesDeclined[v] = Declined(v)
  BY DEF Phases, TimesApplied, TimesDeclined
<1>2. /\ Phases = [v \in Writes |-> Phases[v]] /\ Phases' = [v \in Writes |-> Phases'[v]]
      /\ TimesApplied = [v \in Writes |-> TimesApplied[v]]
      /\ TimesApplied' = [v \in Writes |-> TimesApplied'[v]]
      /\ TimesDeclined = [v \in Writes |-> TimesDeclined[v]]
      /\ TimesDeclined' = [v \in Writes |-> TimesDeclined'[v]]
  BY DEF Phases, TimesApplied, TimesDeclined
<1>3. \A v \in Writes : v # w => /\ Phases'[v] = Phases[v] /\ TimesApplied'[v] = TimesApplied[v]
                                 /\ TimesDeclined'[v] = TimesDeclined[v]
  BY <1>1 DEF Moves
<1>4. /\ Phases' = [Phases EXCEPT ![w] = Phases'[w]]
      /\ TimesApplied' = [TimesApplied EXCEPT ![w] = TimesApplied'[w]]
      /\ TimesDeclined' = [TimesDeclined EXCEPT ![w] = TimesDeclined'[w]]
  BY <1>2, <1>3
<1>5. /\ Phases'[w] = Phases[w] => Phases' = Phases
      /\ TimesApplied'[w] = TimesApplied[w] => TimesApplied' = TimesApplied
      /\ TimesDeclined'[w] = TimesDeclined[w] => TimesDeclined' = TimesDeclined
  BY <1>2, <1>3
<1>7. CASE /\ Phases'[w] = Phases[w] /\ TimesApplied'[w] = TimesApplied[w]
           /\ TimesDeclined'[w] = TimesDeclined[w]
  BY <1>5, <1>7 DEF Keeps
<1>8. CASE /\ Phases[w] = "idle" /\ Phases'[w] = "submitted"
           /\ TimesApplied'[w] = TimesApplied[w] /\ TimesDeclined'[w] = TimesDeclined[w]
  <2>1. Contract!Submit(w)
    BY <1>4, <1>5, <1>8 DEF Contract!Submit, Phases, TimesApplied, TimesDeclined
  <2> QED  BY <2>1 DEF Contract!CNext, Keeps
<1>9. CASE /\ Phases[w] = "submitted" /\ Phases'[w] = "submitted"
           /\ TimesApplied[w] = 0 /\ TimesDeclined[w] = 0
           /\ \/ TimesApplied'[w] = 1 /\ TimesDeclined'[w] = 0
              \/ TimesApplied'[w] = 0 /\ TimesDeclined'[w] = 1
  <2>1. /\ TimesApplied'[w] = 1 => TimesApplied' = [TimesApplied EXCEPT ![w] = @ + 1]
        /\ TimesDeclined'[w] = 1 => TimesDeclined' = [TimesDeclined EXCEPT ![w] = @ + 1]
    BY <1>4, <1>9
  <2>2. Contract!Decide(w)
    BY <1>5, <1>9, <2>1 DEF Contract!Decide, Phases, TimesApplied, TimesDeclined
  <2> QED  BY <2>2 DEF Contract!CNext, Keeps
<1>10. CASE /\ Phases[w] = "submitted" /\ Phases'[w] = "resolved"
            /\ TimesApplied[w] = 1 /\ TimesApplied'[w] = 1 /\ TimesDeclined'[w] = TimesDeclined[w]
  <2>1. Contract!Resolve(w)
    BY <1>4, <1>5, <1>10 DEF Contract!Resolve, Phases, TimesApplied, TimesDeclined
  <2> QED  BY <2>1 DEF Contract!CNext, Keeps
<1>11. CASE /\ Phases[w] = "submitted" /\ Phases'[w] = "rejected"
            /\ TimesApplied[w] = 0 /\ TimesApplied'[w] = 0 /\ TimesDeclined'[w] = TimesDeclined[w]
  <2>1. Contract!RejectIt(w)
    BY <1>4, <1>5, <1>11 DEF Contract!RejectIt, Phases, TimesApplied, TimesDeclined
  <2> QED  BY <2>1 DEF Contract!CNext, Keeps
<1> QED  BY <1>1, <1>7, <1>8, <1>9, <1>10, <1>11 DEF Moves

\* A write's counts as the log and the cache decide them.
LEMMA AppliedIs ==
  ASSUME NEW w \in Writes
  PROVE  /\ Declined(w) = Denied(w) /\ Declined(w)' = Denied(w)'
         /\ Applied(w) = Took(w) + (IF TakenByCache(w) THEN 1 ELSE 0)
         /\ Applied(w)' = Took(w)' + (IF TakenByCache(w)' THEN 1 ELSE 0)
         /\ TakenByCache(w) <=> /\ w \notin Sourced /\ Target[w] \in Cached
                                /\ pc[w] \in {"started", "confirmed"}
         /\ TakenByCache(w)' <=> /\ w \notin Sourced /\ Target[w] \in Cached
                                 /\ pc'[w] \in {"started", "confirmed"}
BY DEF Applied, Declined, Took, Denied, TakenByCache

LEMMA PhaseIs ==
  \A w \in Writes :
    /\ pc[w] = "idle" => Phase(w) = "idle"
    /\ pc[w] \in {"turn", "stamped", "started", "direct", "queued", "behind"} => Phase(w) = "submitted"
    /\ pc'[w] \in {"turn", "stamped", "started", "direct", "queued", "behind"} => Phase(w)' = "submitted"
    /\ pc'[w] = "confirmed" => Phase(w)' = "resolved"
    /\ pc'[w] = "rejected" => Phase(w)' = "rejected"
BY DEF Phase

\* A write that neither moves nor runs keeps its phase and its counts.
LEMMA NothingMoves ==
  ASSUME NEW w \in Writes, pc'[w] = pc[w], CountsStay(w)
  PROVE  Phase(w)' = Phase(w) /\ Applied(w)' = Applied(w) /\ Declined(w)' = Declined(w)
<1>1. Phase(w)' = Phase(w)
  BY DEF Phase
<1>2. Took(w)' = Took(w) /\ Denied(w)' = Denied(w)
  BY DEF CountsStay
<1>3. TakenByCache(w)' <=> TakenByCache(w)
  BY AppliedIs
<1> QED  BY <1>1, <1>2, <1>3, AppliedIs

LEMMA Stutters ==
  ASSUME OnceInv, pc' = pc, \A w \in Writes : CountsStay(w)
  PROVE  OnceInv' /\ Keeps
<1>1. \A w \in Writes :
        Phase(w)' = Phase(w) /\ Applied(w)' = Applied(w) /\ Declined(w)' = Declined(w)
  BY NothingMoves
<1>2. OnceInv'
  BY DEF OnceInv, CountsStay
<1> QED  BY <1>1, <1>2 DEF Keeps, Phases, TimesApplied, TimesDeclined

LEMMA WriteMoves ==
  ASSUME TypeOK, TypeOK', HeldInv, ContractInv, OnceInv,
         NEW w \in Writes, Issue(w) \/ WriteSteps(w)
  PROVE  OnceInv' /\ Keeps
<1>0. pc \in [Writes -> PcStates]
  BY DEF TypeOK, PipelineTypeOK
<1>1. log' = log
  BY DEF WriteSteps, Issue, Stamp, Deliver, DeliverLocally, QueueBehind, Dispatch, Release,
         Confirm, FallBack, Reject, FlushStaysQueued, FlushConfirm, FlushReject, world
<1>2. \A v \in Writes : v # w => pc'[v] = pc[v]
  BY <1>0 DEF WriteSteps, Issue, Stamp, Deliver, DeliverLocally, QueueBehind, Dispatch, Release,
     Confirm, FallBack, Reject, FlushStaysQueued, FlushConfirm, FlushReject, SettleConfirmed,
     SettleRejected, pipeline
<1>3. /\ \A v \in Writes : CountsStay(v) /\ Took(v) \in Nat /\ Took(v) <= 1
      /\ \A v \in Writes : v # w => /\ Phase(v)' = Phase(v)
                                    /\ Applied(v)' = Applied(v) /\ Declined(v)' = Declined(v)
  BY <1>1, <1>2, CountsSame, CountsAre, NothingMoves DEF OnceInv
<1>4. Took(w)' = Took(w) /\ Denied(w)' = Denied(w)
  BY <1>3 DEF CountsStay
<1>5. pc[w] \in {"idle", "turn", "stamped", "started"} => Took(w) = 0 /\ Denied(w) = 0
  BY CountsAre DEF ContractInv, RestIsNew
<1>6. ASSUME Moves(w), pc'[w] \in {"direct", "queued", "behind"} => w \in Sourced
      PROVE  OnceInv' /\ Keeps
  <2>1. OnceInv'
    BY <1>2, <1>3, <1>6 DEF OnceInv, CountsStay
  <2> QED  BY <1>6, <2>1, MovesKeepContract
<1>7. CASE Issue(w) \/ Stamp(w)
  <2>1. /\ pc[w] \in {"idle", "turn"} /\ pc'[w] \in {"turn", "stamped"}
        /\ pc[w] = "idle" => pc'[w] = "turn"
    BY <1>0, <1>7 DEF Issue, Stamp
  <2>2. Applied(w)' = Applied(w) /\ Declined(w)' = Declined(w)
    BY <1>4, <2>1, AppliedIs
  <2>3. Moves(w)
    BY <1>3, <2>1, <2>2, PhaseIs DEF Moves
  <2> QED  BY <1>6, <2>1, <2>3
<1>8. CASE Deliver(w)
  <2>1. pc[w] = "stamped" /\ pc'[w] = "started"
    BY <1>0, <1>8 DEF Deliver
  <2>2. /\ Applied(w) = 0 /\ Declined(w) = 0 /\ Declined(w)' = 0
        /\ Applied(w)' \in {0, 1}
    BY <1>4, <1>5, <2>1, AppliedIs
  <2>3. Moves(w)
    BY <1>3, <2>1, <2>2, PhaseIs DEF Moves
  <2> QED  BY <1>6, <2>1, <2>3
<1>9. CASE DeliverLocally(w)
  <2>1. /\ pc[w] = "started" /\ w \notin Sourced
        /\ pc'[w] = IF Target[w] \in Cached THEN "confirmed" ELSE "rejected"
    BY <1>0, <1>9 DEF DeliverLocally
  <2>2. /\ Declined(w)' = Declined(w) /\ Applied(w)' = Applied(w)
        /\ Applied(w) = IF Target[w] \in Cached THEN 1 ELSE 0
    BY <1>4, <1>5, <2>1, AppliedIs
  <2>3. Moves(w)
    BY <1>3, <2>1, <2>2, PhaseIs DEF Moves
  <2> QED  BY <1>6, <2>1, <2>3
<1>10. CASE QueueBehind(w) \/ Dispatch(w)
  <2>1. pc[w] = "started" /\ w \in Sourced /\ pc'[w] \in {"behind", "direct"}
    BY <1>0, <1>10 DEF QueueBehind, Dispatch
  <2>2. Applied(w)' = Applied(w) /\ Declined(w)' = Declined(w)
    BY <1>4, <2>1, AppliedIs
  <2>3. Moves(w)
    BY <1>3, <2>1, <2>2, PhaseIs DEF Moves
  <2> QED  BY <1>6, <2>1, <2>3
<1>11. CASE FallBack(w)
  <2>1. pc[w] = "direct" /\ pc'[w] = "queued" /\ w \in Sourced
    BY <1>0, <1>11, HeldFallBack DEF FallBack, OnceInv
  <2>2. Applied(w)' = Applied(w) /\ Declined(w)' = Declined(w)
    BY <1>4, <2>1, AppliedIs
  <2>3. Moves(w)
    BY <1>3, <2>1, <2>2, PhaseIs DEF Moves
  <2> QED  BY <1>6, <2>1, <2>3
<1>12. CASE Confirm(w) \/ FlushConfirm(w)
  <2>1. pc[w] \in {"direct", "queued", "behind"} /\ pc'[w] = "confirmed"
    BY <1>0, <1>12, HeldSettled, HeldFlushed DEF Confirm, FlushConfirm, SettleConfirmed
  <2>2. Accepted(w)
    <3>1. CASE Confirm(w)
      BY <3>1, ContractSettled DEF Confirm, Next1, Tells
    <3>2. CASE FlushConfirm(w)
      BY <3>2, ContractFlushed DEF FlushConfirm, Tells
    <3> QED  BY <1>12, <3>1, <3>2
  <2>3. Took(w) = 1
    BY <1>3, <2>2, CountsAre
  <2>4. Applied(w) = 1 /\ Applied(w)' = 1 /\ Declined(w)' = Declined(w)
    BY <1>4, <2>1, <2>3, AppliedIs DEF OnceInv
  <2>5. Moves(w)
    BY <1>3, <2>1, <2>4, PhaseIs DEF Moves
  <2> QED  BY <1>6, <2>1, <2>5
<1>13. CASE Reject(w) \/ FlushReject(w)
  <2>1. pc[w] \in {"direct", "queued", "behind"} /\ pc'[w] = "rejected"
    BY <1>0, <1>13, HeldSettled, HeldFlushed DEF Reject, FlushReject, SettleRejected
  <2>2. ~Accepted(w)
    <3>1. CASE Reject(w)
      BY <3>1, ContractSettled DEF Reject, Next1, Tells
    <3>2. CASE FlushReject(w)
      BY <3>2, ContractFlushed DEF FlushReject, Tells
    <3> QED  BY <1>13, <3>1, <3>2
  <2>3. Took(w) = 0
    BY <2>2, CountsAre
  <2>4. Applied(w) = 0 /\ Applied(w)' = 0 /\ Declined(w)' = Declined(w)
    BY <1>4, <2>1, <2>3, AppliedIs
  <2>5. Moves(w)
    BY <1>3, <2>1, <2>4, PhaseIs DEF Moves
  <2> QED  BY <1>6, <2>1, <2>5
<1>14. CASE Release(w) \/ FlushStaysQueued(w)
  <2>1. pc' = pc
    BY <1>14 DEF Release, FlushStaysQueued, pipeline
  <2> QED  BY <1>3, <2>1, Stutters
<1> QED  BY <1>7, <1>8, <1>9, <1>10, <1>11, <1>12, <1>13, <1>14 DEF WriteSteps

\* The server's execution of a plan is the authority's decision.
LEMMA ServerDecides ==
  ASSUME TypeOK, TypeOK', HeldInv, ContractInv, OnceInv, NEW q \in net, ServerExec(q)
  PROVE  OnceInv' /\ Keeps
<1> DEFINE n == Len(q.answers)
           plan == q.plans[n + 1]
<1>1. /\ q.open /\ q.plans \in Seq(Entries) /\ n \in Nat /\ n + 1 \in DOMAIN q.plans
  <2>1. q.open /\ q \in Requests
    BY DEF ContractInv, RequestsTell, TypeOK, TransportTypeOK
  <2>2. q.answers \in Seq(Answers) /\ q.plans \in Seq(Entries) /\ ~(n >= Len(q.plans))
    BY <2>1, ServerOnly DEF Requests, Executed
  <2> QED  BY <2>1, <2>2, LenProperties
<1>2. pc' = pc
  BY ServerOnly DEF pipeline
<1>3. PICK answer \in Answers :
        /\ net' = (net \ {q}) \cup {[q EXCEPT !.answers = Append(@, answer)]}
        /\ \/ plan.kind = "read" /\ log' = log
           \/ \E w \in Writes, r \in Records, verdict \in {"ok", "conflict", "failed"} :
                /\ plan.kind # "read" /\ plan.write = w /\ answer.verdict = verdict
                /\ log' = Append(log, [who |-> w, record |-> r, verdict |-> verdict])
  BY <1>1, ServerTakes
<1>4. CASE log' = log
  BY <1>2, <1>4, CountsSame, Stutters
<1>5. ASSUME NEW w \in Writes, NEW r \in Records, NEW verdict \in {"ok", "conflict", "failed"},
             plan.kind # "read", plan.write = w,
             log' = Append(log, [who |-> w, record |-> r, verdict |-> verdict])
      PROVE  OnceInv' /\ Moves(w)
  <2>1. plan \in Plans(w)
    <3>1. plan \in Entries
      BY <1>1
    <3> QED  BY <1>5, <3>1, PlanOf
  <2>2. Took(w) = 0 /\ Denied(w) = 0
    <3>1. ~(n + 1 <= n)
      BY <1>1
    <3>2. ~Ran(w)
      BY <1>1, <2>1, <3>1 DEF ContractInv, RequestsTell
    <3> QED  BY <3>2, CountsAre
  <2>3. pc[w] \in {"direct", "queued", "behind"} /\ w \in Sourced
    BY <1>1, <2>1, OnlyCopy DEF OnceInv
  <2> DEFINE event == [who |-> w, record |-> r, verdict |-> verdict]
  <2>4. event \in Events /\ event.who = w /\ event.verdict = verdict
    BY DEF Events, Verdicts
  <2>5. log' = Append(log, event)
    BY <1>5
  <2> HIDE DEF event
  <2>6. \A v \in Writes :
          /\ Took(v) \in Nat /\ Denied(v) \in Nat
          /\ Took(v)' = Took(v) + (IF v = w /\ verdict = "ok" THEN 1 ELSE 0)
          /\ Denied(v)' = Denied(v) + (IF v = w /\ verdict # "ok" THEN 1 ELSE 0)
    BY <2>4, <2>5, CountsGrow, CountsAre
  <2>7. \A v \in Writes : v # w => /\ CountsStay(v) /\ Phase(v)' = Phase(v)
                                   /\ Applied(v)' = Applied(v) /\ Declined(v)' = Declined(v)
    <3> SUFFICES ASSUME NEW v \in Writes, v # w
                 PROVE  CountsStay(v) /\ pc'[v] = pc[v]
      BY NothingMoves
    <3> QED  BY <1>2, <2>6 DEF CountsStay
  <2>8. /\ Applied(w) = 0 /\ Declined(w) = 0
        /\ \/ Applied(w)' = 1 /\ Declined(w)' = 0
           \/ Applied(w)' = 0 /\ Declined(w)' = 1
    BY <1>2, <2>2, <2>3, <2>6, AppliedIs
  <2>9. Phase(w) = "submitted" /\ Phase(w)' = "submitted"
    BY <1>2, <2>3, PhaseIs
  <2>10. OnceInv'
    <3>1. \A v \in Writes : Took(v)' <= 1
      BY <2>2, <2>6 DEF OnceInv
    <3> QED  BY <1>2, <3>1 DEF OnceInv
  <2> QED  BY <2>7, <2>8, <2>9, <2>10 DEF Moves
<1> QED  BY <1>3, <1>4, <1>5, MovesKeepContract

LEMMA OutsideStutters ==
  ASSUME TypeOK, TypeOK', OnceInv,
         (\E r \in Records : RivalEdit(r) \/ Refresh(r)) \/ AtRest \/ UNCHANGED vars
  PROVE  OnceInv' /\ Keeps
<1>1. pc' = pc
  BY DEF RivalEdit, Refresh, AtRest, vars, pipeline
<1>2. CASE log' = log
  BY <1>1, <1>2, CountsSame, Stutters
<1>3. ASSUME NEW r \in Records, RivalEdit(r) PROVE \A w \in Writes : CountsStay(w)
  <2> DEFINE event == [who |-> Rival, record |-> r, verdict |-> "ok"]
  <2>1. event \in Events /\ log' = Append(log, event) /\ event.who = Rival
    BY <1>3 DEF RivalEdit, Events, Verdicts
  <2> HIDE DEF event
  <2>2. \A w \in Writes : /\ Took(w) \in Nat /\ Denied(w) \in Nat
                          /\ Took(w)' = Took(w) + 0 /\ Denied(w)' = Denied(w) + 0
    <3> TAKE w \in Writes
    <3>1. event.who # w
      BY <2>1, WritesAssumption
    <3> QED  BY <2>1, <3>1, CountsGrow, CountsAre
  <2> QED  BY <2>2 DEF CountsStay
<1> QED  BY <1>1, <1>2, <1>3, Stutters DEF Refresh, AtRest, vars, world

LEMMA StepsKeepContract ==
  ASSUME TypeOK, TypeOK', HeldInv, ContractInv, OnceInv, [Next]_vars
  PROVE  OnceInv' /\ Keeps
<1>1. ASSUME NEW w \in Writes, Issue(w) \/ WriteSteps(w)
      PROVE  OnceInv' /\ Keeps
  BY <1>1, WriteMoves
<1>2. ASSUME pc' = pc, log' = log PROVE OnceInv' /\ Keeps
  BY <1>2, CountsSame, Stutters
<1>3. CASE Runtime \/ FlushNow
  BY <1>2, <1>3 DEF Runtime, SendBatch, Ingest, Collect, TimerFires, FlushRound, FlushNow,
                    pipeline, world
<1>4. CASE Network \/ Misfortune
  <2>1. ASSUME NEW q \in net, ServerExec(q) PROVE OnceInv' /\ Keeps
    BY <2>1, ServerDecides
  <2>2. ASSUME NEW q \in net, Respond(q) \/ Fail(q) \/ Refuse(q)
        PROVE  OnceInv' /\ Keeps
    BY <1>2, <2>2 DEF Respond, Fail, Refuse, pipeline, world
  <2> QED  BY <1>4, <2>1, <2>2 DEF Network, Misfortune
<1>5. CASE (\E r \in Records : RivalEdit(r) \/ Refresh(r)) \/ AtRest \/ UNCHANGED vars
  BY <1>5, OutsideStutters
<1> QED  BY <1>1, <1>3, <1>4, <1>5 DEF Next, Environment

\* Unless the network loses an answer, the whole machinery of queue, flush,
\* batch and server keeps the caller's contract: the authority executes a
\* write once at most, the promise resolves only after exactly one execution
\* that took effect, and rejects only if none did.
THEOREM ContractKept ==
  ASSUME "lose" \notin Faults
  PROVE  Spec => KeepsContract
<1>1. Init => OnceInv /\ Contract!CInit
  <2> SUFFICES ASSUME Init PROVE OnceInv /\ Contract!CInit
    OBVIOUS
  <2>1. \A w \in Writes : pc[w] = "idle" /\ ~Ran(w)
    BY DEF Init, Ran
  <2>2. \A w \in Writes : Took(w) = 0 /\ Denied(w) = 0
    BY <2>1, TypeInit, CountsAre
  <2>3. \A w \in Writes : Phase(w) = "idle" /\ Applied(w) = 0 /\ Declined(w) = 0
    BY <2>1, <2>2, AppliedIs, PhaseIs
  <2> QED  BY <2>1, <2>2, <2>3 DEF Contract!CInit, OnceInv
<1>2. TypeOK /\ TypeOK' /\ HeldInv /\ ContractInv /\ OnceInv /\ [Next]_vars =>
        ContractInv' /\ OnceInv' /\ [Contract!CNext]_Contract!cvars
  BY ContractNext, StepsKeepContract DEF Keeps, Contract!cvars, Phases, TimesApplied, TimesDeclined
<1> QED  BY <1>1, <1>2, ContractInit, HeldInit, HeldNext, TypeCorrect, PTL
         DEF Spec, KeepsContract, Contract!CSpec

----------------------------------------------------------------------------
(* What queued behind others runs behind them.                             *)
(*                                                                         *)
(* Whether a write that queued behind another runs first is decided by the *)
(* plans that wait or travel together: where its replay is, the other's    *)
(* replay is before it.  This holds of requests nobody waits for as well.  *)

Passages == {batch} \cup {q.plans : q \in net}
Early == {"idle", "turn", "stamped", "started"}
Queued(w) == \E i \in DOMAIN replayQueue : replayQueue[i] = w
Behind(a, v) ==
  /\ pc[v] = "behind"
  /\ \E i, j \in DOMAIN replayQueue : i < j /\ replayQueue[i] = a /\ replayQueue[j] = v

Lacks(s, e) == \A k \in DOMAIN s : s[k] # e
After(s, a, v) ==
  \A m \in DOMAIN s : s[m] = Flush(v) => \E k \in DOMAIN s : k < m /\ s[k] = Flush(a)
Orderly(s) ==
  /\ \A w \in Writes : pc[w] \in Early => Lacks(s, Flush(w))
  /\ \A w \in Writes : pc[w] \in Early \cup {"behind"} => Lacks(s, Direct(w))
  /\ \A a, v \in Writes : Behind(a, v) => After(s, a, v)

EarlyInv == \A w \in Writes : pc[w] \in Early => ~Ran(w) /\ ~Queued(w)
LoggedInv ==
  \A q \in net, w \in Writes : \A k \in DOMAIN q.plans :
    k <= Len(q.answers) /\ q.plans[k] \in Plans(w) => Ran(w)
RanInv == \A a, v \in Writes : Behind(a, v) /\ Ran(v) => RanBefore(a, v)
OrderInv == EarlyInv /\ LoggedInv /\ RanInv /\ \A s \in Passages : Orderly(s)

\* A write queues as one that has just started, and is otherwise before
\* another in the queue only if it was.
QueueGoes ==
  /\ \A w \in Writes : pc'[w] \in Early => pc[w] \in Early /\ (Queued(w)' => Queued(w))
  /\ \A w \in Writes : pc'[w] = "behind" => pc[w] \in Early \cup {"behind"}
  /\ \A a, v \in Writes : Behind(a, v)' => Behind(a, v) \/ pc[v] \in Early

\* What joins the batch.
Joins(t) ==
  /\ t \in Seq(Entries)
  /\ \A w \in Writes : pc'[w] \in Early => Lacks(t, Flush(w))
  /\ \A w \in Writes : pc'[w] \in Early \cup {"behind"} => Lacks(t, Direct(w))
  /\ \A a, v \in Writes : Behind(a, v)' => After(t, a, v)
  /\ Passages' \subseteq Passages \cup {<<>>, batch \o t}
  /\ \A q \in net' : q.answers = <<>> \/ \E p \in net : q.plans = p.plans /\ q.answers = p.answers

LEMMA AfterConcat ==
  ASSUME NEW s \in Seq(Entries), NEW t \in Seq(Entries), NEW a \in Writes, NEW v \in Writes,
         After(s, a, v), After(t, a, v)
  PROVE  After(s \o t, a, v)
<1> DEFINE u == s \o t
<1>1. /\ u \in Seq(Entries) /\ Len(u) = Len(s) + Len(t) /\ Len(s) \in Nat /\ Len(t) \in Nat
      /\ \A i \in 1..Len(s) + Len(t) : u[i] = IF i <= Len(s) THEN s[i] ELSE t[i - Len(s)]
  BY ConcatProperties
<1>2. DOMAIN u = 1..(Len(s) + Len(t)) /\ DOMAIN s = 1..Len(s) /\ DOMAIN t = 1..Len(t)
  BY <1>1
<1> HIDE DEF u
<1>3. ASSUME NEW m \in DOMAIN u, u[m] = Flush(v)
      PROVE  \E k \in DOMAIN u : k < m /\ u[k] = Flush(a)
  <2>1. CASE m <= Len(s)
    <3>1. m \in DOMAIN s /\ s[m] = Flush(v)
      BY <1>1, <1>2, <1>3, <2>1
    <3>2. PICK k \in DOMAIN s : k < m /\ s[k] = Flush(a)
      BY <3>1 DEF After
    <3> QED  BY <1>1, <1>2, <3>2
  <2>2. CASE m > Len(s)
    <3> DEFINE n == m - Len(s)
    <3>1. n \in DOMAIN t /\ t[n] = Flush(v)
      BY <1>1, <1>2, <1>3, <2>2
    <3>2. PICK k \in DOMAIN t : k < n /\ t[k] = Flush(a)
      BY <3>1 DEF After
    <3>3. k + Len(s) \in DOMAIN u /\ ~(k + Len(s) <= Len(s)) /\ (k + Len(s)) - Len(s) = k
      BY <1>1, <1>2, <3>2
    <3>4. u[k + Len(s)] = t[k]
      BY <1>1, <1>2, <3>3
    <3>5. k + Len(s) < m
      BY <1>1, <1>2, <1>3, <3>2
    <3> QED  BY <3>2, <3>3, <3>4, <3>5
  <2> QED  BY <1>1, <1>2, <1>3, <2>1, <2>2
<1> QED  BY <1>3 DEF After, u

LEMMA LacksConcat ==
  ASSUME NEW s \in Seq(Entries), NEW t \in Seq(Entries), NEW e, Lacks(s, e), Lacks(t, e)
  PROVE  Lacks(s \o t, e)
<1>1. /\ s \o t \in Seq(Entries) /\ Len(s \o t) = Len(s) + Len(t)
      /\ \A i \in 1..Len(s) + Len(t) :
           (s \o t)[i] = IF i <= Len(s) THEN s[i] ELSE t[i - Len(s)]
  BY ConcatProperties
<1>2. \A i \in 1..Len(s) + Len(t) : i <= Len(s) \/ i - Len(s) \in 1..Len(t)
  OBVIOUS
<1> QED  BY <1>1, <1>2 DEF Lacks

\* A step of the client, or of the network, that the log does not see.
LEMMA OrderStep ==
  ASSUME TypeOK, TypeOK', OrderInv, QueueGoes, log' = log, NEW t, Joins(t)
  PROVE  OrderInv'
<1>1. \A w : Ran(w)' <=> Ran(w)
  BY DEF Ran
<1>2. \A a, v : RanBefore(a, v)' <=> RanBefore(a, v)
  BY DEF RanBefore
<1>3. EarlyInv'
  BY <1>1 DEF OrderInv, EarlyInv, QueueGoes
<1>4. RanInv'
  BY <1>1, <1>2 DEF OrderInv, RanInv, EarlyInv, QueueGoes
<1>5. LoggedInv'
  <2> SUFFICES ASSUME NEW q \in net', NEW w \in Writes, NEW k \in DOMAIN q.plans,
                      k <= Len(q.answers), q.plans[k] \in Plans(w)
               PROVE  Ran(w)'
    BY DEF LoggedInv, Plans
  <2>1. CASE q.answers = <<>>
    <3>1. q.plans \in Seq(Entries)
      BY DEF TypeOK, TransportTypeOK, Requests
    <3>2. k \in Nat /\ k >= 1
      BY <3>1
    <3> QED  BY <2>1, <3>2
  <2>2. ASSUME NEW p \in net, q.plans = p.plans, q.answers = p.answers PROVE Ran(w)'
    BY <1>1, <2>2 DEF OrderInv, LoggedInv
  <2> QED  BY <2>1, <2>2 DEF Joins
<1>6. ASSUME NEW s, Orderly(s)
      PROVE  /\ \A w \in Writes : pc'[w] \in Early => Lacks(s, Flush(w))
             /\ \A w \in Writes : pc'[w] \in Early \cup {"behind"} => Lacks(s, Direct(w))
             /\ \A a, v \in Writes : Behind(a, v)' => After(s, a, v)
  <2>1. \A w \in Writes : pc[w] \in Early => \A a : After(s, a, w)
    BY <1>6 DEF Orderly, Lacks, After
  <2> QED  BY <1>6, <2>1 DEF Orderly, QueueGoes
<1>7. batch \in Seq(Entries) /\ Orderly(batch)
  BY DEF TypeOK, TransportTypeOK, OrderInv, Passages
<1>8. ASSUME NEW s, \/ Orderly(s)
                    \/ s = <<>>
                    \/ s = batch \o t
      PROVE  /\ \A w \in Writes : pc'[w] \in Early => Lacks(s, Flush(w))
             /\ \A w \in Writes : pc'[w] \in Early \cup {"behind"} => Lacks(s, Direct(w))
             /\ \A a, v \in Writes : Behind(a, v)' => After(s, a, v)
  <2>1. CASE s = <<>>
    BY <2>1 DEF Lacks, After
  <2>2. CASE s = batch \o t
    <3>1. t \in Seq(Entries)
      BY DEF Joins
    <3> QED  BY <1>6, <1>7, <2>2, <3>1, AfterConcat, LacksConcat DEF Joins
  <2> QED  BY <1>6, <1>8, <2>1, <2>2
<1>9. \A s \in Passages' : Orderly(s)'
  <2> SUFFICES ASSUME NEW s \in Passages' PROVE Orderly(s)'
    OBVIOUS
  <2>1. Orderly(s) \/ s = <<>> \/ s = batch \o t
    BY DEF Joins, OrderInv
  <2> QED  BY <1>8, <2>1 DEF Orderly, Lacks, After
<1> QED  BY <1>3, <1>4, <1>5, <1>9 DEF OrderInv

LEMMA NothingJoins ==
  ASSUME UNCHANGED <<batch, net>>
  PROVE  Joins(<<>>)
<1>1. <<>> \in Seq(Entries) /\ DOMAIN <<>> = {}
  OBVIOUS
<1>2. Passages' = Passages
  BY DEF Passages
<1> QED  BY <1>1, <1>2 DEF Joins, Lacks, After

\* An entry that is no replay, and of a write that is on its own way.
LEMMA OneJoins ==
  ASSUME TypeOK, net' = net, NEW e \in Entries, batch' = Append(batch, e),
         e.kind # "flush", \A w \in Writes : pc'[w] \in Early \cup {"behind"} => e # Direct(w)
  PROVE  Joins(<<e>>)
<1>1. <<e>> \in Seq(Entries) /\ DOMAIN <<e>> = {1} /\ <<e>>[1] = e
  OBVIOUS
<1>2. batch' = batch \o <<e>>
  BY AppendIsConcat DEF TypeOK, TransportTypeOK
<1>3. Passages' \subseteq Passages \cup {batch \o <<e>>}
  BY <1>2 DEF Passages
<1>4. \A w \in Writes : e # Flush(w)
  BY DEF Flush
<1> QED  BY <1>1, <1>3, <1>4 DEF Joins, Lacks, After

LEMMA QueuedOnce ==
  ASSUME TypeOK, HeldInv, NEW i \in DOMAIN replayQueue, NEW j \in DOMAIN replayQueue,
         replayQueue[i] = replayQueue[j]
  PROVE  i = j
<1>1. replayQueue \in Seq(Writes) /\ replayQueue[i] \in Writes
  BY DEF TypeOK, ReplayTypeOK
<1>2. PICK w \in Writes : w = replayQueue[i]
  BY <1>1
<1>3. Count(replayQueue, {w}) <= 1
  BY HeldIs DEF Fits
<1> QED  BY <1>1, <1>2, <1>3, OnePlace

\* The whole queue, in order.
LEMMA QueueJoins ==
  ASSUME TypeOK, HeldInv, OrderInv, Replay, UNCHANGED <<pc, replayQueue, net>>
  PROVE  \E t : Joins(t)
<1> DEFINE t == [i \in 1..Len(replayQueue) |-> Flush(replayQueue[i])]
<1>1. replayQueue \in Seq(Writes) /\ batch' = batch \o t
  BY DEF TypeOK, ReplayTypeOK, Replay
<1>2. DOMAIN t = DOMAIN replayQueue /\ \A i \in DOMAIN t : t[i] = Flush(replayQueue[i])
  BY <1>1
<1>3. t \in Seq(Entries)
  BY <1>1, EntryTypes
<1>4. \A v, w \in Writes : (Flush(v) = Flush(w) <=> v = w) /\ Flush(v) # Direct(w)
  BY DEF Flush, Direct
<1>5. \A i \in DOMAIN replayQueue : replayQueue[i] \in Writes
  BY <1>1
<1> HIDE DEF t
<1>6. \A w \in Writes : pc'[w] \in Early => Lacks(t, Flush(w))
  BY <1>2, <1>4, <1>5 DEF OrderInv, EarlyInv, Queued, Lacks
<1>7. \A w \in Writes : Lacks(t, Direct(w))
  BY <1>2, <1>4, <1>5 DEF Lacks
<1>8. ASSUME NEW a \in Writes, NEW v \in Writes, Behind(a, v)' PROVE After(t, a, v)
  <2>1. PICK i, j \in DOMAIN replayQueue : i < j /\ replayQueue[i] = a /\ replayQueue[j] = v
    BY <1>8 DEF Behind
  <2>2. ASSUME NEW m \in DOMAIN t, t[m] = Flush(v) PROVE m = j
    <3>1. replayQueue[m] = replayQueue[j]
      BY <1>2, <1>4, <1>5, <2>1, <2>2
    <3> QED  BY <1>2, <2>1, <3>1, QueuedOnce
  <2> QED  BY <1>2, <2>1, <2>2 DEF After
<1>9. Passages' \subseteq Passages \cup {batch \o t}
  BY <1>1 DEF Passages
<1> QED  BY <1>3, <1>6, <1>7, <1>8, <1>9 DEF Joins

\* Taking an entry out of a sequence keeps the order of the others.
LEMMA WithoutOrder ==
  ASSUME NEW q \in Seq(Writes), NEW w \in Writes
  PROVE  \/ Without(q, w) = q
         \/ \E i \in 1..Len(q) :
              /\ DOMAIN Without(q, w) = 1..(Len(q) - 1)
              /\ \A k \in 1..(Len(q) - 1) : Without(q, w)[k] = q[IF k < i THEN k ELSE k + 1]
<1>1. CASE \E i \in 1..Len(q) : q[i] = w
  <2> DEFINE i == CHOOSE j \in 1..Len(q) : q[j] = w
             front == SubSeq(q, 1, i - 1)
             back == SubSeq(q, i + 1, Len(q))
  <2>0. i \in 1..Len(q) /\ Without(q, w) = front \o back
    BY <1>1 DEF Without
  <2>1. i \in 1..Len(q) /\ Len(q) \in Nat /\ Without(q, w) = front \o back
    BY <2>0, LenProperties
  <2> HIDE DEF i
  <2>2. /\ \A j \in 1..(i - 1) : q[j] \in Writes
        /\ \A j \in (i + 1)..Len(q) : q[j] \in Writes
        /\ i \in Int
    BY <2>1
  <2>3. /\ front \in Seq(Writes) /\ Len(front) = i - 1
        /\ \A j \in 1..(i - 1) : front[j] = q[j]
    <3>1. /\ front \in Seq(Writes) /\ Len(front) = (IF 1 <= i - 1 THEN i - 1 - 1 + 1 ELSE 0)
          /\ \A j \in 1..(i - 1 - 1 + 1) : front[j] = q[1 + j - 1]
      BY <2>1, <2>2, SubSeqProperties
    <3> QED  BY <2>1, <3>1
  <2>4. /\ back \in Seq(Writes) /\ Len(back) = Len(q) - i
        /\ \A j \in 1..(Len(q) - i) : back[j] = q[i + j]
    <3>1. /\ back \in Seq(Writes)
          /\ Len(back) = (IF i + 1 <= Len(q) THEN Len(q) - (i + 1) + 1 ELSE 0)
          /\ \A j \in 1..(Len(q) - (i + 1) + 1) : back[j] = q[i + 1 + j - 1]
      BY <2>1, <2>2, SubSeqProperties
    <3> QED  BY <2>1, <3>1
  <2> HIDE DEF front, back
  <2>5. /\ front \o back \in Seq(Writes) /\ Len(front \o back) = Len(q) - 1
        /\ \A k \in 1..(Len(q) - 1) :
             (front \o back)[k] = IF k <= i - 1 THEN front[k] ELSE back[k - (i - 1)]
    <3>1. /\ front \o back \in Seq(Writes) /\ Len(front \o back) = Len(front) + Len(back)
          /\ \A k \in 1..Len(front) + Len(back) :
               (front \o back)[k] = IF k <= Len(front) THEN front[k] ELSE back[k - Len(front)]
      BY <2>3, <2>4, ConcatProperties
    <3>2. Len(front) + Len(back) = Len(q) - 1
      BY <2>1, <2>3, <2>4
    <3> QED  BY <2>3, <3>1, <3>2
  <2>6. ASSUME NEW k \in 1..(Len(q) - 1)
        PROVE  (front \o back)[k] = q[IF k < i THEN k ELSE k + 1]
    <3>1. CASE k < i
      BY <2>1, <2>3, <2>5, <2>6, <3>1
    <3>2. CASE k >= i
      <4>1. k - (i - 1) \in 1..(Len(q) - i) /\ i + (k - (i - 1)) = k + 1 /\ ~(k <= i - 1) /\ ~(k < i)
        BY <2>1, <2>6, <3>2
      <4>2. (front \o back)[k] = back[k - (i - 1)]
        BY <2>5, <2>6, <4>1
      <4>3. back[k - (i - 1)] = q[i + (k - (i - 1))]
        BY <2>4, <4>1
      <4>4. q[i + (k - (i - 1))] = q[k + 1]
        BY <4>1
      <4>5. (IF k < i THEN k ELSE k + 1) = k + 1
        BY <4>1
      <4>6. (front \o back)[k] = q[k + 1]
        BY <4>2, <4>3, <4>4
      <4> QED  BY <4>5, <4>6
    <3>3. k < i \/ k >= i
      BY <2>1
    <3> QED  BY <3>1, <3>2, <3>3
  <2>7. DOMAIN (front \o back) = 1..(Len(q) - 1)
    BY <2>5
  <2> QED  BY <2>1, <2>6, <2>7
<1>2. CASE ~\E i \in 1..Len(q) : q[i] = w
  BY <1>2 DEF Without
<1> QED  BY <1>1, <1>2

\* The queue of a step is the queue, or grew by w, or lost w.
LEMMA QueueMoves ==
  ASSUME TypeOK, NEW w \in Writes,
         \/ replayQueue' = replayQueue
         \/ replayQueue' = Append(replayQueue, w)
         \/ replayQueue' = Without(replayQueue, w)
  PROVE  /\ \A v \in Writes : Queued(v)' => Queued(v) \/ (v = w /\ replayQueue' = Append(replayQueue, w))
         /\ \A a, v \in Writes : Behind(a, v)' =>
              /\ pc'[v] = "behind"
              /\ \/ v = w /\ replayQueue' = Append(replayQueue, w)
                 \/ \E i, j \in DOMAIN replayQueue :
                      i < j /\ replayQueue[i] = a /\ replayQueue[j] = v
<1>1. replayQueue \in Seq(Writes) /\ DOMAIN replayQueue = 1..Len(replayQueue) /\ Len(replayQueue) \in Nat
  BY DEF TypeOK, ReplayTypeOK
<1>2. CASE replayQueue' = replayQueue
  BY <1>2 DEF Queued, Behind
<1>3. CASE replayQueue' = Append(replayQueue, w)
  <2>1. /\ DOMAIN replayQueue' = 1..(Len(replayQueue) + 1)
        /\ \A i \in 1..Len(replayQueue) : replayQueue'[i] = replayQueue[i]
        /\ replayQueue'[Len(replayQueue) + 1] = w
    <3>1. replayQueue' \in Seq(Writes) /\ Len(replayQueue') = Len(replayQueue) + 1
      BY <1>1, <1>3, AppendProperties
    <3> QED  BY <1>1, <1>3, <3>1, AppendProperties
  <2>2. \A i \in DOMAIN replayQueue' : i \in DOMAIN replayQueue \/ i = Len(replayQueue) + 1
    BY <1>1, <2>1
  <2>3. \A i, j \in DOMAIN replayQueue' : i < j => i \in DOMAIN replayQueue
    BY <1>1, <2>1
  <2> QED  BY <1>1, <1>3, <2>1, <2>2, <2>3 DEF Queued, Behind
<1>4. CASE \E n \in 1..Len(replayQueue) :
             /\ DOMAIN replayQueue' = 1..(Len(replayQueue) - 1)
             /\ \A k \in 1..(Len(replayQueue) - 1) :
                  replayQueue'[k] = replayQueue[IF k < n THEN k ELSE k + 1]
  <2>1. PICK n \in 1..Len(replayQueue) :
             /\ DOMAIN replayQueue' = 1..(Len(replayQueue) - 1)
             /\ \A k \in 1..(Len(replayQueue) - 1) :
                  replayQueue'[k] = replayQueue[IF k < n THEN k ELSE k + 1]
    BY <1>4
  <2> DEFINE old(k) == IF k < n THEN k ELSE k + 1
  <2>2. /\ \A k \in DOMAIN replayQueue' :
             old(k) \in DOMAIN replayQueue /\ replayQueue'[k] = replayQueue[old(k)]
        /\ \A i, j \in DOMAIN replayQueue' : i < j => old(i) < old(j)
    <3>1. PICK l \in Nat : l = Len(replayQueue)
      BY <1>1
    <3>2. n \in 1..l
      BY <3>1
    <3>3. \A k \in 1..(l - 1) : old(k) \in 1..l
      BY <3>2
    <3>4. \A i, j \in 1..(l - 1) : i < j => old(i) < old(j)
      BY <3>2
    <3> QED  BY <1>1, <2>1, <3>1, <3>3, <3>4
  <2> HIDE DEF old
  <2>3. \A v \in Writes : Queued(v)' => Queued(v)
    BY <2>2 DEF Queued
  <2>4. \A a, v \in Writes : Behind(a, v)' => pc'[v] = "behind" /\ \E i, j \in DOMAIN replayQueue :
           i < j /\ replayQueue[i] = a /\ replayQueue[j] = v
    BY <2>2 DEF Behind
  <2> QED  BY <2>3, <2>4
<1>5. CASE replayQueue' = Without(replayQueue, w)
  BY <1>1, <1>2, <1>4, <1>5, WithoutOrder
<1> QED  BY <1>2, <1>3, <1>5

LEMMA QueueOrder ==
  ASSUME TypeOK, [Next]_vars
  PROVE  QueueGoes
<1>1. pc \in [Writes -> PcStates]
  BY DEF TypeOK, PipelineTypeOK
<1>2. CASE UNCHANGED <<pc, replayQueue>>
  BY <1>2 DEF QueueGoes, Queued, Behind
<1>3. ASSUME NEW w \in Writes, NEW s, pc' = [pc EXCEPT ![w] = s], replayQueue' = replayQueue,
             s # "behind", s \in Early => pc[w] \in Early
      PROVE  QueueGoes
  BY <1>1, <1>3 DEF QueueGoes, Queued, Behind
<1>4. ASSUME NEW w \in Writes, NEW s, pc' = [pc EXCEPT ![w] = s], s \notin Early,
             \/ replayQueue' = Append(replayQueue, w) /\ (s = "behind" => pc[w] \in Early)
             \/ replayQueue' = Without(replayQueue, w) /\ s # "behind"
      PROVE  QueueGoes
  <2>1. \A v \in Writes : Queued(v)' => Queued(v) \/ v = w
    BY <1>4, QueueMoves
  <2>2. \A a, v \in Writes : Behind(a, v)' => pc'[v] = "behind" /\ (v = w \/ \E i, j \in DOMAIN replayQueue :
                i < j /\ replayQueue[i] = a /\ replayQueue[j] = v)
    BY <1>4, QueueMoves
  <2> QED  BY <1>1, <1>4, <2>1, <2>2 DEF QueueGoes, Behind
<1>5. ASSUME NEW w \in Writes,
             Issue(w) \/ Stamp(w) \/ Deliver(w) \/ DeliverLocally(w) \/ Dispatch(w)
               \/ Confirm(w) \/ Reject(w) \/ Release(w) \/ FlushStaysQueued(w)
      PROVE  QueueGoes
  <2>1. CASE Issue(w)
    BY <1>3, <2>1 DEF Issue, Early, replay
  <2>2. CASE Stamp(w)
    BY <1>3, <2>2 DEF Stamp, Early, replay
  <2>3. CASE Deliver(w)
    BY <1>3, <2>3 DEF Deliver, Early, replay
  <2>4. CASE DeliverLocally(w)
    BY <1>3, <2>4 DEF DeliverLocally, Early, replay
  <2>5. CASE Dispatch(w)
    BY <1>3, <2>5 DEF Dispatch, Early, replay
  <2>6. CASE Confirm(w)
    <3>1. pc' = [pc EXCEPT ![w] = "confirmed"] /\ replayQueue' = replayQueue
      BY <2>6 DEF Confirm, SettleConfirmed, replay
    <3> QED  BY <1>3, <3>1 DEF Early
  <2>7. CASE Reject(w)
    <3>1. pc' = [pc EXCEPT ![w] = "rejected"] /\ replayQueue' = replayQueue
      BY <2>7 DEF Reject, SettleRejected, replay
    <3> QED  BY <1>3, <3>1 DEF Early
  <2>8. CASE Release(w) \/ FlushStaysQueued(w)
    BY <1>2, <2>8 DEF Release, FlushStaysQueued, replay, pipeline
  <2> QED  BY <1>5, <2>1, <2>2, <2>3, <2>4, <2>5, <2>6, <2>7, <2>8
<1>6. ASSUME NEW w \in Writes, QueueBehind(w) \/ FallBack(w) \/ FlushConfirm(w) \/ FlushReject(w)
      PROVE  QueueGoes
  <2>1. CASE QueueBehind(w)
    BY <1>4, <2>1 DEF QueueBehind, Early
  <2>2. CASE FallBack(w)
    BY <1>4, <2>2 DEF FallBack, Early
  <2>3. CASE FlushConfirm(w)
    BY <1>4, <2>3 DEF FlushConfirm, SettleConfirmed, Early
  <2>4. CASE FlushReject(w)
    BY <1>4, <2>4 DEF FlushReject, SettleRejected, Early
  <2> QED  BY <1>6, <2>1, <2>2, <2>3, <2>4
<1>7. CASE Runtime
  BY <1>2, <1>7 DEF Runtime, SendBatch, Ingest, Collect, TimerFires, FlushRound, pipeline, replay
<1>8. CASE Network \/ Misfortune
  BY <1>2, <1>8, ServerOnly DEF Network, Misfortune, Respond, Fail, Refuse, pipeline, replay
<1>9. CASE Environment \/ AtRest \/ UNCHANGED vars
  BY <1>2, <1>9 DEF Environment, FlushNow, RivalEdit, Refresh, AtRest, vars, pipeline, replay
<1> QED  BY <1>5, <1>6, <1>7, <1>8, <1>9 DEF Next, WriteSteps

\* Every step but the server's and a rival's: something joins the batch.
LEMMA SomethingJoins ==
  ASSUME TypeOK, TypeOK', HeldInv, OrderInv, [Next]_vars,
         ~\E q \in net : ServerExec(q), ~\E r \in Records : RivalEdit(r)
  PROVE  log' = log /\ \E t : Joins(t)
<1>1. pc \in [Writes -> PcStates]
  BY DEF TypeOK, PipelineTypeOK
<1>2. CASE UNCHANGED <<batch, net, log>>
  BY <1>2, NothingJoins
<1>3. ASSUME NEW w \in Writes,
             Issue(w) \/ Stamp(w) \/ Deliver(w) \/ DeliverLocally(w) \/ QueueBehind(w)
               \/ Release(w) \/ Confirm(w) \/ FallBack(w) \/ FlushStaysQueued(w) \/ FlushConfirm(w)
      PROVE  UNCHANGED <<batch, net, log>>
  BY <1>3 DEF Issue, Stamp, Deliver, DeliverLocally, QueueBehind, Release, Confirm, FallBack,
              FlushStaysQueued, FlushConfirm, world
<1>4. ASSUME NEW w \in Writes, Dispatch(w)
      PROVE  log' = log /\ \E t : Joins(t)
  <2>1. /\ pc' = [pc EXCEPT ![w] = "direct"] /\ batch' = Append(batch, Direct(w))
        /\ net' = net /\ log' = log
    BY <1>4 DEF Dispatch, world
  <2>2. \A v \in Writes : Direct(v) = Direct(w) => v = w
    BY DEF Direct
  <2>3. Direct(w) \in Entries /\ Direct(w).kind # "flush"
    BY EntryTypes DEF Direct
  <2>4. \A v \in Writes : pc'[v] \in Early \cup {"behind"} => Direct(w) # Direct(v)
    BY <1>1, <2>1, <2>2 DEF Early
  <2> QED  BY <2>1, <2>3, <2>4, OneJoins
<1>5. ASSUME NEW r \in Records, batch' = Append(batch, Read(r)), net' = net
      PROVE  \E t : Joins(t)
  <2>1. Read(r) \in Entries /\ Read(r).kind # "flush" /\ \A v \in Writes : Read(r) # Direct(v)
    BY EntryTypes DEF Read, Direct
  <2> QED  BY <1>5, <2>1, OneJoins
<1>6. ASSUME NEW w \in Writes, Reject(w) \/ FlushReject(w)
      PROVE  log' = log /\ \E t : Joins(t)
  <2>1. log' = log /\ net' = net /\ (batch' = batch \/ batch' = Append(batch, Read(Target[w])))
    BY <1>6 DEF Reject, FlushReject, SettleRejected, world
  <2>2. Target[w] \in Records
    BY WritesAssumption
  <2> QED  BY <1>2, <1>5, <2>1, <2>2
<1>7. CASE Replay /\ UNCHANGED <<pipeline, replayQueue, net, world>>
  BY <1>7, QueueJoins DEF pipeline, world
<1>8. CASE Runtime
  <2>1. CASE SendBatch
    <3>1. /\ batch' = <<>> /\ log' = log
          /\ net' = net \cup {[id |-> sent + 1, plans |-> batch, answers |-> <<>>, open |-> TRUE]}
      BY <2>1 DEF SendBatch, world
    <3>2. Passages' \subseteq Passages \cup {<<>>}
      BY <3>1 DEF Passages
    <3>3. <<>> \in Seq(Entries) /\ DOMAIN <<>> = {}
      OBVIOUS
    <3>4. Joins(<<>>)
      BY <3>1, <3>2, <3>3 DEF Joins, Lacks, After
    <3> QED  BY <3>1, <3>4
  <2>2. CASE Ingest \/ Collect
    BY <1>2, <2>2 DEF Ingest, Collect, world
  <2>3. CASE TimerFires
    <3>1. UNCHANGED <<pipeline, replayQueue, net, world>> /\ (Replay \/ UNCHANGED batch)
      BY <2>3 DEF TimerFires
    <3> QED  BY <1>2, <1>7, <3>1 DEF world
  <2>4. CASE FlushRound
    <3>1. UNCHANGED <<pipeline, replayQueue, net, world>> /\ (Replay \/ UNCHANGED batch)
      BY <2>4 DEF FlushRound
    <3> QED  BY <1>2, <1>7, <3>1 DEF world
  <2> QED  BY <1>8, <2>1, <2>2, <2>3, <2>4 DEF Runtime
<1>9. ASSUME NEW q \in net, Respond(q) \/ Fail(q) \/ Refuse(q)
      PROVE  log' = log /\ \E t : Joins(t)
  <2>1. /\ log' = log /\ batch' = batch
        /\ net' = net \ {q} \/ net' = (net \ {q}) \cup {[q EXCEPT !.open = FALSE]}
    BY <1>9 DEF Respond, Fail, Refuse, world
  <2>2. q \in Requests
    BY DEF TypeOK, TransportTypeOK
  <2>3. [q EXCEPT !.open = FALSE].plans = q.plans /\ [q EXCEPT !.open = FALSE].answers = q.answers
    BY <2>2 DEF Requests
  <2>4. Passages' \subseteq Passages
    BY <2>1, <2>3 DEF Passages
  <2>5. <<>> \in Seq(Entries) /\ DOMAIN <<>> = {}
    OBVIOUS
  <2>6. \A p \in net' : \E o \in net : p.plans = o.plans /\ p.answers = o.answers
    BY <2>1, <2>3
  <2>7. Joins(<<>>)
    BY <2>4, <2>5, <2>6 DEF Joins, Lacks, After
  <2> QED  BY <2>1, <2>7
<1>10. CASE Network \/ Misfortune
  BY <1>9, <1>10 DEF Network, Misfortune
<1>11. CASE Environment
  <2>1. CASE FlushNow
    BY <1>7, <2>1 DEF FlushNow, replay
  <2>2. ASSUME NEW r \in Records, Refresh(r) PROVE log' = log /\ \E t : Joins(t)
    BY <1>5, <2>2 DEF Refresh, world
  <2> QED  BY <1>11, <2>1, <2>2 DEF Environment
<1>12. CASE AtRest \/ UNCHANGED vars
  BY <1>2, <1>12 DEF AtRest, vars, world
<1> QED  BY <1>2, <1>3, <1>4, <1>6, <1>8, <1>10, <1>11, <1>12 DEF Next, WriteSteps

LEMMA LogGrowsInOrder ==
  ASSUME TypeOK, NEW event \in Events, log' = Append(log, event),
         NEW a \in Writes, NEW v \in Writes
  PROVE  /\ RanBefore(a, v) => RanBefore(a, v)'
         /\ Ran(a) /\ ~Ran(v) => RanBefore(a, v)'
<1>1. log \in Seq(Events)
  BY DEF TypeOK, WorldTypeOK
<1>2. /\ log' \in Seq(Events) /\ Len(log') = Len(log) + 1 /\ Len(log) \in Nat
      /\ \A i \in 1..Len(log) : log'[i] = log[i]
  BY <1>1, AppendProperties
<1>3. DOMAIN log = 1..Len(log) /\ DOMAIN log' = 1..(Len(log) + 1)
  BY <1>1, <1>2
<1>4. \A i \in DOMAIN log : i \in DOMAIN log' /\ \A j \in 1..i : j \in DOMAIN log /\ log'[j] = log[j]
  BY <1>2, <1>3
<1>5. \A i \in DOMAIN log : log'[i] = log[i]
  BY <1>2, <1>3
<1>6. RanBefore(a, v) => RanBefore(a, v)'
  BY <1>4, <1>5 DEF RanBefore
<1>7. ASSUME Ran(a), ~Ran(v) PROVE RanBefore(a, v)'
  <2>1. PICK i \in DOMAIN log : log[i].who = a
    BY <1>7 DEF Ran
  <2>2. \A j \in 1..i : log'[j].who # v
    BY <1>4, <1>7 DEF Ran
  <2> QED  BY <1>4, <1>5, <2>1, <2>2 DEF RanBefore
<1> QED  BY <1>6, <1>7

\* A rival's edit.
LEMMA OrderRival ==
  ASSUME TypeOK, OrderInv, NEW r \in Records, RivalEdit(r)
  PROVE  OrderInv'
<1> DEFINE event == [who |-> Rival, record |-> r, verdict |-> "ok"]
<1>1. event \in Events /\ log' = Append(log, event)
  BY DEF RivalEdit, Events, Verdicts
<1>2. UNCHANGED <<pc, replayQueue, batch, net>>
  BY DEF RivalEdit, pipeline, replay
<1>3. \A w \in Writes : Ran(w)' <=> Ran(w)
  BY <1>1, LogGrows, WritesAssumption
<1>4. \A a, v \in Writes : RanBefore(a, v) => RanBefore(a, v)'
  BY <1>1, LogGrowsInOrder
<1>5. Passages' = Passages /\ \A s : Orderly(s)' = Orderly(s)
  BY <1>2 DEF Passages, Orderly, Behind
<1> QED  BY <1>2, <1>3, <1>4, <1>5 DEF OrderInv, EarlyInv, LoggedInv, RanInv, Queued, Behind

\* The server takes the next plan of a request, of somebody who waits for it
\* or not: what it is to run before has run.
LEMMA OrderServed ==
  ASSUME TypeOK, OrderInv, NEW q \in net, ServerExec(q)
  PROVE  OrderInv'
<1> DEFINE n == Len(q.answers) + 1
           plan == q.plans[n]
<1>1. /\ q \in Requests /\ q.plans \in Seq(Entries) /\ q.answers \in Seq(Answers)
      /\ Len(q.answers) \in Nat /\ n \in DOMAIN q.plans /\ plan \in Entries
  <2>1. q \in Requests
    BY DEF TypeOK, TransportTypeOK
  <2>2. /\ q.plans \in Seq(Entries) /\ q.answers \in Seq(Answers)
        /\ ~(Len(q.answers) >= Len(q.plans))
    BY <2>1, ServerOnly DEF Requests, Executed
  <2> QED  BY <2>1, <2>2
<1>2. UNCHANGED <<pc, replayQueue, batch>>
  BY ServerOnly DEF pipeline, replay
<1>3. PICK answer :
        net' \subseteq (net \ {q}) \cup {[q EXCEPT !.answers = Append(@, answer)]}
  <2>1. CASE plan.kind = "read"
    BY <2>1 DEF ServerExec
  <2>2. CASE plan.kind # "read"
    BY Zenon, <2>2 DEF ServerExec
  <2> QED  BY <2>1, <2>2
<1> DEFINE p == [q EXCEPT !.answers = Append(@, answer)]
<1>4. p.plans = q.plans /\ p.answers = Append(q.answers, answer)
  BY <1>1 DEF Requests
<1>5. Passages' \subseteq Passages
  BY <1>2, <1>3, <1>4 DEF Passages
<1>6. \A s : Orderly(s)' <=> Orderly(s)
  BY <1>2 DEF Orderly, Behind
<1>7. \A s \in Passages' : Orderly(s)'
  BY <1>5, <1>6 DEF OrderInv
<1>8. Orderly(q.plans)
  BY DEF OrderInv, Passages
<1>9. \A k \in DOMAIN q.plans, w \in Writes : k < n /\ q.plans[k] \in Plans(w) => Ran(w)
  BY <1>1 DEF OrderInv, LoggedInv
<1>10. \A o \in net' : \/ o \in net
                        \/ /\ o.plans = q.plans
                           /\ \A k \in DOMAIN q.plans : k <= Len(o.answers) => k < n \/ k = n
  <2>1. Len(p.answers) = n
    <3>1. Len(Append(q.answers, answer)) = Len(q.answers) + 1
      BY <1>1
    <3> QED  BY <1>4, <3>1
  <2>2. \A k \in DOMAIN q.plans : k <= n => k < n \/ k = n
    BY <1>1
  <2> QED  BY <1>3, <1>4, <2>1, <2>2
<1>11. CASE plan.kind = "read"
  <2>1. log' = log
    BY <1>11 DEF ServerExec, world
  <2>2. \A w : (Ran(w)' <=> Ran(w)) /\ \A a : RanBefore(a, w)' <=> RanBefore(a, w)
    BY <2>1 DEF Ran, RanBefore
  <2>3. \A w \in Writes : plan \notin Plans(w)
    BY <1>11 DEF Plans, Direct, Flush
  <2>4. LoggedInv'
    BY <1>1, <1>9, <1>10, <2>2, <2>3 DEF LoggedInv, OrderInv, Plans
  <2> QED  BY <1>2, <1>7, <2>2, <2>4 DEF OrderInv, EarlyInv, RanInv, Queued, Behind
<1>12. CASE plan.kind # "read"
  <2> DEFINE w == plan.write
             r == Target[w]
             verdict == Verdict(w, server[r])
             event == [who |-> w, record |-> r, verdict |-> verdict]
  <2>1. w \in Writes /\ r \in Records
    BY <1>1, <1>12, EntryTypes, WritesAssumption
  <2>2. log' = Append(log, event)
    BY Zenon, <1>12 DEF ServerExec
  <2>3. event \in Events
    <3>1. server[r] \in Row
      BY <2>1 DEF TypeOK, WorldTypeOK
    <3> QED  BY <2>1, <3>1, VerdictType DEF Events
  <2>4. event.who = w
    OBVIOUS
  <2>5. \A v \in Writes : plan \in Plans(v) <=> v = w
    BY <1>1, <1>12, PlanOf
  <2> HIDE DEF w, event
  <2>6. \A v \in Writes : Ran(v)' <=> Ran(v) \/ v = w
    BY <2>2, <2>3, <2>4, LogGrows
  <2>7. LoggedInv'
    BY <1>1, <1>9, <1>10, <2>5, <2>6 DEF LoggedInv, OrderInv, Plans
  <2>8. pc[w] \notin Early
    BY <1>1, <1>8, <2>1, <2>5 DEF Orderly, Lacks, Plans
  <2>9. EarlyInv'
    BY <1>2, <2>6, <2>8 DEF OrderInv, EarlyInv, Queued
  <2>10. ASSUME NEW a \in Writes, NEW v \in Writes, Behind(a, v)', Ran(v)'
         PROVE  RanBefore(a, v)'
    <3>1. Behind(a, v)
      BY <1>2, <2>10 DEF Behind
    <3>2. CASE Ran(v)
      BY <2>2, <2>3, <3>1, <3>2, LogGrowsInOrder DEF OrderInv, RanInv
    <3>3. CASE ~Ran(v)
      <4>1. v = w /\ pc[v] = "behind"
        BY <2>6, <2>10, <3>1, <3>3 DEF Behind
      <4>2. plan = Flush(v)
        BY <1>1, <1>8, <2>5, <4>1 DEF Orderly, Lacks, Plans
      <4>3. PICK k \in DOMAIN q.plans : k < n /\ q.plans[k] = Flush(a)
        BY <1>1, <1>8, <3>1, <4>2 DEF Orderly, After
      <4>4. Ran(a)
        BY <1>9, <4>3 DEF Plans
      <4> QED  BY <2>2, <2>3, <3>3, <4>4, LogGrowsInOrder
    <3> QED  BY <3>2, <3>3
  <2> QED  BY <1>7, <2>7, <2>9, <2>10 DEF OrderInv, RanInv
<1> QED  BY <1>11, <1>12

LEMMA OrderInit == Init => OrderInv
<1> SUFFICES ASSUME Init PROVE OrderInv
  OBVIOUS
<1>1. /\ pc = [w \in Writes |-> "idle"] /\ batch = <<>> /\ net = {} /\ log = <<>>
      /\ replayQueue = <<>>
  BY DEF Init
<1>2. Passages = {<<>>} /\ \A w : ~Ran(w) /\ ~Queued(w)
  BY <1>1 DEF Passages, Ran, Queued
<1>3. \A a, v : ~Behind(a, v)
  BY <1>1 DEF Behind
<1> QED  BY <1>1, <1>2, <1>3 DEF OrderInv, EarlyInv, LoggedInv, RanInv, Orderly, Lacks

LEMMA OrderNext == TypeOK /\ TypeOK' /\ HeldInv /\ OrderInv /\ [Next]_vars => OrderInv'
<1> SUFFICES ASSUME TypeOK, TypeOK', HeldInv, OrderInv, [Next]_vars PROVE OrderInv'
  OBVIOUS
<1>1. QueueGoes
  BY QueueOrder
<1> QED  BY <1>1, SomethingJoins, OrderStep, OrderServed, OrderRival

\* A write that queued behind waiting writes runs at the server after each of
\* them, through failures, lost answers, reordered requests and replays
\* (deliver, mutation-pipeline.ts:200).
THEOREM QueuedRunInOrder == Spec => []QueueKeepsOrder
<1>1. TypeOK /\ OrderInv => QueueKeepsOrder
  <2> SUFFICES ASSUME TypeOK, OrderInv, NEW j \in DOMAIN replayQueue, NEW i \in 1..(j - 1),
                      pc[replayQueue[j]] = "behind", Ran(replayQueue[j])
               PROVE  RanBefore(replayQueue[i], replayQueue[j])
    BY DEF QueueKeepsOrder
  <2>1. i \in DOMAIN replayQueue /\ i < j /\ replayQueue[i] \in Writes /\ replayQueue[j] \in Writes
    BY DEF TypeOK, ReplayTypeOK
  <2> QED  BY <2>1 DEF OrderInv, RanInv, Behind
<1> QED  BY <1>1, OrderInit, OrderNext, HeldInit, HeldNext, TypeCorrect, PTL DEF Spec

=============================================================================
