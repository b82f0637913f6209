------------------------- MODULE WriteAnswersProofs -------------------------
(***************************************************************************)
(* What the order of the answers gives the client, for every set of        *)
(* writes and records and every bound.                                     *)
(*                                                                         *)
(* The theorems of WritePathProofs hold under any fault.  These say of the *)
(* rows, versions and conflicts what holds as long as the network does not *)
(* do the one thing that breaks it: lose an answer, or let one overtake    *)
(* another.  The answers then form a line, and the cache ends where the    *)
(* last answer of the line to a row does, as the server has.               *)
(***************************************************************************)
EXTENDS WritePathProofs

----------------------------------------------------------------------------
(* Where requests do not get lost.                                         *)
(*                                                                         *)
(* No request is lost or overtaken, though the server may refuse one: then *)
(* nothing is replayed, and the answers on their way to the client, those  *)
(* of the one request that has any behind those that arrived, form a line. *)

Reliable == Faults \subseteq {"refuse"}

Done(q) == [k \in 1..Len(q.answers) |-> [entry |-> q.plans[k], answer |-> q.answers[k]]]
Answering == {q \in net : q.answers # <<>>}
Line == IF Answering = {} THEN arrived ELSE arrived \o Done(CHOOSE q \in Answering : TRUE)

NoReplay == replayQueue = <<>> /\ ~replayTimer /\ flushing = "idle"
ReliableInv ==
  /\ NoReplay
  /\ \A k \in DOMAIN batch : batch[k].kind # "flush"
  /\ \A q \in net :
       /\ q.open /\ q.plans # <<>> /\ Len(q.answers) <= Len(q.plans)
       /\ \A k \in DOMAIN q.plans : q.plans[k].kind # "flush"
       /\ \A k \in DOMAIN q.answers : q.answers[k].verdict # "offline"
       /\ q.answers # <<>> => \A p \in net : q.id <= p.id
  /\ \A k \in DOMAIN arrived : /\ arrived[k].entry.kind # "flush"
                               /\ arrived[k].answer.verdict # "offline"

\* The steps there are then.
LEMMA ReliableSteps ==
  ASSUME Reliable, TypeOK, ReliableInv, [Next]_vars
  PROVE  \/ \E w \in Writes : \/ Issue(w) \/ Stamp(w) \/ Deliver(w) \/ DeliverLocally(w)
                              \/ Dispatch(w) \/ Release(w) \/ Confirm(w) \/ Reject(w)
         \/ SendBatch \/ Ingest
         \/ \E q \in net : ServerExec(q) \/ Respond(q) \/ Refuse(q)
         \/ \E r \in Records : RivalEdit(r) \/ Refresh(r)
         \/ UNCHANGED vars
<1>1. NoReplay /\ "drop" \notin Faults /\ "lose" \notin Faults
  BY DEF Reliable, ReliableInv
<1>2. arrived # <<>> => /\ Next1.entry.kind # "flush"
                        /\ Next1.answer.verdict # "offline"
  <2>1. arrived \in Seq(News)
    BY DEF TypeOK, TransportTypeOK
  <2>2. arrived # <<>> => Next1 = arrived[1] /\ 1 \in DOMAIN arrived
    BY <2>1, EmptySeq, LenProperties DEF Next1
  <2> QED  BY <2>2 DEF ReliableInv
<1>3. \A w \in Writes : ~QueueBehind(w) /\ ~FallBack(w)
  BY <1>1, <1>2 DEF NoReplay, QueueBehind, FallBack, HeadIsFor, HeadIs
<1>4. \A w \in Writes : ~FlushStaysQueued(w) /\ ~FlushConfirm(w) /\ ~FlushReject(w)
  BY <1>1 DEF NoReplay, FlushStaysQueued, FlushConfirm, FlushReject, SettlingNext
<1>5. ~Collect /\ ~TimerFires /\ ~FlushRound /\ ~FlushNow
  BY <1>1, <1>2 DEF NoReplay, Collect, TimerFires, FlushRound, FlushNow, HeadIs
<1>6. \A q : ~Fail(q)
  BY <1>1 DEF Fail
<1> QED
  BY <1>3, <1>4, <1>5, <1>6
  DEF Next, WriteSteps, Runtime, Network, Misfortune, Environment, AtRest

\* What a step leaves alone with all variables of the parts it names.
LEMMA ReliableStays ==
  ASSUME ReliableInv, UNCHANGED <<replay, flushing, batch, net, arrived>>
  PROVE  ReliableInv'
BY DEF ReliableInv, NoReplay, replay

\* An entry joins the batch.
LEMMA ReliableJoins ==
  ASSUME TypeOK, ReliableInv, UNCHANGED <<replay, flushing, net, arrived>>,
         NEW e \in Entries, e.kind # "flush", batch' = Append(batch, e)
  PROVE  ReliableInv'
<1>1. batch \in Seq(Entries)
  BY DEF TypeOK, TransportTypeOK
<1>2. /\ DOMAIN batch = 1..Len(batch) /\ DOMAIN batch' = 1..(Len(batch) + 1)
      /\ \A k \in 1..Len(batch) : batch'[k] = batch[k]
      /\ batch'[Len(batch) + 1] = e /\ Len(batch) \in Nat
  BY <1>1, AppendProperties, LenProperties
<1>3. \A k \in DOMAIN batch' : batch'[k].kind # "flush"
  BY <1>2 DEF ReliableInv
<1> QED  BY <1>3 DEF ReliableInv, NoReplay, replay

\* The head of what arrived is taken.
LEMMA ReliableTaken ==
  ASSUME TypeOK, ReliableInv, UNCHANGED <<replay, flushing, net>>,
         arrived # <<>>, arrived' = Tail(arrived),
         batch' = batch \/ \E r \in Records : batch' = Append(batch, Read(r))
  PROVE  ReliableInv'
<1>1. arrived \in Seq(News)
  BY DEF TypeOK, TransportTypeOK
<1>2. \A k \in DOMAIN arrived' : k + 1 \in DOMAIN arrived /\ arrived'[k] = arrived[k + 1]
  BY <1>1, HeadTailProperties, LenProperties
<1>3. /\ \A k \in DOMAIN arrived' : /\ arrived'[k].entry.kind # "flush"
                                    /\ arrived'[k].answer.verdict # "offline"
  BY <1>2 DEF ReliableInv
<1>4. CASE batch' = batch
  BY <1>3, <1>4 DEF ReliableInv, NoReplay, replay
<1>5. CASE \E r \in Records : batch' = Append(batch, Read(r))
  <2>1. PICK r \in Records : batch' = Append(batch, Read(r))
    BY <1>5
  <2>2. Read(r) \in Entries /\ Read(r).kind # "flush"
    BY EntryTypes DEF Read, Entries
  <2>3. batch \in Seq(Entries)
    BY DEF TypeOK, TransportTypeOK
  <2>4. /\ DOMAIN batch = 1..Len(batch) /\ DOMAIN batch' = 1..(Len(batch) + 1)
        /\ \A k \in 1..Len(batch) : batch'[k] = batch[k]
        /\ batch'[Len(batch) + 1] = Read(r) /\ Len(batch) \in Nat
    BY <2>1, <2>2, <2>3, AppendProperties, LenProperties
  <2>5. \A k \in DOMAIN batch' : batch'[k].kind # "flush"
    BY <2>2, <2>4 DEF ReliableInv
  <2> QED  BY <1>3, <2>5 DEF ReliableInv, NoReplay, replay
<1> QED  BY <1>4, <1>5

\* What is known of a request in flight where none is lost: whose turn it is,
\* and how the server's next answer changes it.
LEMMA ReliableRequest ==
  ASSUME Reliable, TypeOK, ReliableInv, NEW q \in net
  PROVE  /\ q \in Requests /\ q.open /\ q.plans \in Seq(Entries) /\ q.answers \in Seq(Answers)
         /\ q.id \in Nat
         /\ InOrder(q) => \A p \in net : q.id <= p.id
         /\ Executed(q) => Len(q.answers) = Len(q.plans) /\ q.answers # <<>>
         /\ DOMAIN q.plans = 1..Len(q.plans) /\ DOMAIN q.answers = 1..Len(q.answers)
         /\ Len(q.plans) \in Nat /\ Len(q.answers) \in Nat /\ Len(q.answers) <= Len(q.plans)
<1>1. q \in Requests /\ q.open /\ q.plans # <<>> /\ Len(q.answers) <= Len(q.plans)
  BY DEF TypeOK, TransportTypeOK, ReliableInv
<1>2. q.plans \in Seq(Entries) /\ q.answers \in Seq(Answers) /\ q.id \in Nat
  BY <1>1 DEF Requests
<1>3. InOrder(q) => \A p \in net : q.id <= p.id
  BY DEF InOrder, Reliable
<1>4. /\ DOMAIN q.plans = 1..Len(q.plans) /\ DOMAIN q.answers = 1..Len(q.answers)
      /\ Len(q.plans) \in Nat /\ Len(q.answers) \in Nat
  BY <1>2, LenProperties
<1>5. Len(q.plans) # 0
  BY <1>1, <1>2, EmptySeq
<1>6. Executed(q) => Len(q.answers) = Len(q.plans) /\ q.answers # <<>>
  BY <1>1, <1>2, <1>4, <1>5, EmptySeq DEF Executed
<1> QED  BY <1>1, <1>2, <1>3, <1>4, <1>6

\* The server answers the next plan of q with an answer.
Replies(q, answer) ==
  /\ Len(q.answers) + 1 \in DOMAIN q.plans
  /\ \A p \in net : q.id <= p.id
  /\ net' = (net \ {q}) \cup {[q EXCEPT !.answers = Append(@, answer)]}

LEMMA ReliableServed ==
  ASSUME Reliable, TypeOK, ReliableInv, UNCHANGED <<replay, flushing, batch, arrived>>,
         NEW q \in net, NEW answer \in Answers, answer.verdict # "offline", Replies(q, answer)
  PROVE  ReliableInv'
<1> DEFINE p == [q EXCEPT !.answers = Append(@, answer)]
<1>1. /\ q \in Requests /\ q.open /\ q.plans \in Seq(Entries) /\ q.answers \in Seq(Answers)
      /\ Len(q.answers) \in Nat /\ Len(q.plans) \in Nat /\ DOMAIN q.plans = 1..Len(q.plans)
      /\ DOMAIN q.answers = 1..Len(q.answers)
  BY ReliableRequest
<1>2. p.id = q.id /\ p.plans = q.plans /\ p.open = q.open /\ p.answers = Append(q.answers, answer)
  BY <1>1 DEF Requests
<1>3. /\ Len(p.answers) = Len(q.answers) + 1 /\ DOMAIN p.answers = 1..(Len(q.answers) + 1)
      /\ \A k \in 1..Len(q.answers) : p.answers[k] = q.answers[k]
      /\ p.answers[Len(q.answers) + 1] = answer
  BY <1>1, <1>2, AppendProperties, LenProperties
<1>4. /\ q.plans # <<>> /\ \A k \in DOMAIN q.plans : q.plans[k].kind # "flush"
      /\ \A k \in DOMAIN q.answers : q.answers[k].verdict # "offline"
  BY DEF ReliableInv
<1>5. net' = (net \ {q}) \cup {p} /\ \A o \in net : q.id <= o.id
  BY DEF Replies
<1>6. Len(p.answers) <= Len(p.plans)
  BY <1>1, <1>2, <1>3 DEF Replies
<1>7. \A k \in DOMAIN p.answers : p.answers[k].verdict # "offline"
  BY <1>1, <1>3, <1>4
<1> HIDE DEF p
<1>8. \A o \in net' : p.id <= o.id
  BY <1>1, <1>2, <1>5 DEF Requests
<1>9. ASSUME NEW o \in net'
      PROVE  /\ o.open /\ o.plans # <<>> /\ Len(o.answers) <= Len(o.plans)
             /\ \A k \in DOMAIN o.plans : o.plans[k].kind # "flush"
             /\ \A k \in DOMAIN o.answers : o.answers[k].verdict # "offline"
             /\ o.answers # <<>> => \A n \in net' : o.id <= n.id
  <2>1. CASE o = p
    BY <1>1, <1>2, <1>4, <1>6, <1>7, <1>8, <2>1
  <2>2. CASE o # p
    <3>1. o \in net /\ o # q
      BY <1>5, <2>2
    <3>2. o.answers # <<>> => \A n \in net : o.id <= n.id
      BY <3>1 DEF ReliableInv
    <3>3. ASSUME o.answers # <<>>, NEW n \in net' PROVE o.id <= n.id
      <4>1. CASE n = p
        BY <1>2, <3>2, <3>3, <4>1
      <4>2. CASE n # p
        BY <1>5, <3>2, <3>3, <4>2
      <4> QED  BY <4>1, <4>2
    <3> QED  BY <3>1, <3>3 DEF ReliableInv
  <2> QED  BY <2>1, <2>2
<1> QED  BY <1>9 DEF ReliableInv, NoReplay, replay

\* What the client hears of q, all of its plans at once.
Hears(q, f) ==
  /\ arrived = <<>> /\ net' = net \ {q}
  /\ \A p \in net : q.id <= p.id
  /\ arrived' = [k \in 1..Len(q.plans) |-> [entry |-> q.plans[k], answer |-> f[k]]]

LEMMA ReliableHears ==
  ASSUME Reliable, TypeOK, ReliableInv, NEW q \in net, Respond(q) \/ Refuse(q)
  PROVE  \/ Respond(q) /\ Hears(q, q.answers) /\ Len(q.answers) = Len(q.plans)
         \/ Refuse(q) /\ Hears(q, [k \in 1..Len(q.plans) |-> Fault("refused")]) /\ q.answers = <<>>
<1>1. arrived = <<>> /\ \A p \in net : q.id <= p.id
  BY ReliableRequest DEF Respond, Refuse, Quiet
<1>2. ASSUME NEW f, Hear(q, f), net' = net \ {q}, \A k \in 1..Len(q.plans) : f[k] \in Answers
      PROVE  Hears(q, f)
  <2> DEFINE heard == [k \in 1..Len(q.plans) |-> [entry |-> q.plans[k], answer |-> f[k]]]
  <2>1. q.plans \in Seq(Entries)
    BY ReliableRequest
  <2>2. heard \in Seq(News)
    BY <1>2, <2>1 DEF News
  <2>3. <<>> \o heard = heard
    BY <2>2, ConcatEmptySeq
  <2>4. arrived' = <<>> \o heard
    BY <1>1, <1>2 DEF Hear
  <2> QED  BY <1>1, <1>2, <2>3, <2>4 DEF Hears
<1>3. CASE Respond(q)
  <2>1. Hear(q, q.answers) /\ net' = net \ {q} /\ Len(q.answers) = Len(q.plans)
    BY <1>3, ReliableRequest DEF Respond
  <2>2. \A k \in 1..Len(q.plans) : q.answers[k] \in Answers
    BY <2>1, ReliableRequest, ElementOfSeq
  <2> QED  BY <1>2, <1>3, <2>1, <2>2
<1>4. CASE Refuse(q)
  <2>1. Hear(q, [k \in 1..Len(q.plans) |-> Fault("refused")]) /\ net' = net \ {q}
        /\ q.answers = <<>>
    BY <1>4 DEF Refuse
  <2>2. Fault("refused") \in Answers
    BY FaultType DEF Verdicts
  <2> QED  BY <1>2, <1>4, <2>1, <2>2
<1> QED  BY <1>3, <1>4

LEMMA ReliableHeard ==
  ASSUME Reliable, TypeOK, ReliableInv, NEW q \in net, Respond(q) \/ Refuse(q)
  PROVE  ReliableInv'
<1>1. PICK f : /\ Hears(q, f)
               /\ \A k \in 1..Len(q.plans) : f[k].verdict # "offline"
  <2>1. CASE Respond(q) /\ Hears(q, q.answers) /\ Len(q.answers) = Len(q.plans)
    <3>1. DOMAIN q.answers = 1..Len(q.answers)
      BY ReliableRequest
    <3>2. \A k \in DOMAIN q.answers : q.answers[k].verdict # "offline"
      BY DEF ReliableInv
    <3> QED  BY <2>1, <3>1, <3>2
  <2>2. CASE Refuse(q) /\ Hears(q, [k \in 1..Len(q.plans) |-> Fault("refused")])
    BY <2>2 DEF Fault
  <2> QED  BY <2>1, <2>2, ReliableHears
<1>2. DOMAIN q.plans = 1..Len(q.plans) /\ Len(q.plans) \in Nat
  BY ReliableRequest
<1>3. \A k \in DOMAIN arrived' : /\ arrived'[k].entry.kind # "flush"
                                 /\ arrived'[k].answer.verdict # "offline"
  <2>1. DOMAIN arrived' = 1..Len(q.plans)
    BY <1>1 DEF Hears
  <2>2. \A k \in 1..Len(q.plans) : arrived'[k] = [entry |-> q.plans[k], answer |-> f[k]]
    BY <1>1 DEF Hears
  <2>3. \A k \in 1..Len(q.plans) : q.plans[k].kind # "flush"
    BY <1>2 DEF ReliableInv
  <2>4. ASSUME NEW k \in 1..Len(q.plans)
        PROVE  arrived'[k].entry = q.plans[k] /\ arrived'[k].answer = f[k]
    <3>1. arrived'[k] = [entry |-> q.plans[k], answer |-> f[k]]
      BY <2>2
    <3> QED  BY <3>1
  <2> QED  BY <1>1, <2>1, <2>3, <2>4
<1>4. net' \subseteq net
  BY <1>1 DEF Hears
<1>5. UNCHANGED <<batch, replay, flushVars>>
  BY DEF Respond, Refuse
<1> QED  BY <1>3, <1>4, <1>5 DEF ReliableInv, NoReplay, replay, flushVars

LEMMA ReliableSent ==
  ASSUME TypeOK, HeldInv, ReliableInv, SendBatch
  PROVE  ReliableInv'
<1> DEFINE q == [id |-> sent', plans |-> batch, answers |-> <<>>, open |-> TRUE]
<1>1. /\ net' = net \cup {q} /\ batch' = <<>> /\ batch # <<>> /\ sent' = sent + 1
      /\ UNCHANGED <<arrived, replay, flushVars>>
  BY DEF SendBatch
<1>2. \A p \in net : p.id \in Nat /\ p.id <= sent /\ sent \in Nat
  BY DEF TypeOK, TransportTypeOK, Requests, HeldInv, NetInv
<1>3. \A p \in net : p.id <= q.id
  BY <1>1, <1>2
<1>4. /\ q.open /\ q.plans # <<>> /\ Len(q.answers) <= Len(q.plans)
      /\ \A k \in DOMAIN q.plans : q.plans[k].kind # "flush"
      /\ \A k \in DOMAIN q.answers : q.answers[k].verdict # "offline"
      /\ q.answers = <<>>
  <2>1. batch \in Seq(Entries)
    BY DEF TypeOK, TransportTypeOK
  <2>2. Len(batch) \in Nat /\ Len(<<>>) = 0 /\ DOMAIN <<>> = {}
    BY <2>1, LenProperties
  <2> QED  BY <1>1, <2>2 DEF ReliableInv
<1> HIDE DEF q
<1>5. \A p \in net' :
        /\ p.open /\ p.plans # <<>> /\ Len(p.answers) <= Len(p.plans)
        /\ \A k \in DOMAIN p.plans : p.plans[k].kind # "flush"
        /\ \A k \in DOMAIN p.answers : p.answers[k].verdict # "offline"
        /\ p.answers # <<>> => \A o \in net' : p.id <= o.id
  BY <1>1, <1>3, <1>4 DEF ReliableInv
<1>6. DOMAIN batch' = {}
  BY <1>1
<1> QED  BY <1>1, <1>5, <1>6 DEF ReliableInv, NoReplay, replay, flushVars

\* What the server does with a plan, and answers.
LEMMA ReliableExec ==
  ASSUME Reliable, TypeOK, ReliableInv, NEW q \in net, ServerExec(q)
  PROVE  \E answer \in Answers :
           /\ Replies(q, answer) /\ answer.verdict # "offline"
           /\ LET plan == q.plans[Len(q.answers) + 1]
              IN \/ \E r \in Records :
                      /\ plan = Read(r)
                      /\ answer.verdict = "ok" /\ answer.row = server[r] /\ UNCHANGED world
                 \/ \E w \in Writes :
                      /\ plan = Direct(w)
                      /\ answer.verdict = Verdict(w, server[Target[w]])
                      /\ answer.row = IF answer.verdict = "ok"
                                      THEN Effect(w, server[Target[w]]) ELSE server[Target[w]]
                      /\ server' = [server EXCEPT ![Target[w]] = answer.row]
                      /\ log' = Append(log, [who |-> w, record |-> Target[w],
                                             verdict |-> answer.verdict])
<1> DEFINE plan == q.plans[Len(q.answers) + 1]
           With(answer) == [q EXCEPT !.answers = Append(@, answer)]
           AnswerWith(answer) ==
             LET p == [q EXCEPT !.answers = Append(@, answer)]
             IN net' = (net \ {q}) \cup (IF ~p.open /\ Executed(p) THEN {} ELSE {p})
<1>1. /\ q \in Requests /\ q.open /\ q.plans \in Seq(Entries) /\ q.answers \in Seq(Answers)
      /\ Len(q.answers) \in Nat /\ Len(q.plans) \in Nat /\ DOMAIN q.plans = 1..Len(q.plans)
      /\ InOrder(q) => \A p \in net : q.id <= p.id
  BY ReliableRequest
<1>2. Len(q.answers) + 1 \in DOMAIN q.plans /\ \A p \in net : q.id <= p.id
  <2>1. ~Executed(q) /\ InOrder(q)
    BY ServerOnly
  <2> QED  BY <1>1, <2>1 DEF Executed
<1>3. plan \in Entries /\ plan.kind # "flush"
  BY <1>1, <1>2 DEF ReliableInv
<1>4. ASSUME NEW answer, AnswerWith(answer) PROVE Replies(q, answer)
  <2>1. With(answer).open
    BY <1>1 DEF Requests
  <2> QED  BY <1>2, <1>4, <2>1 DEF Replies
<1>5. server \in [Records -> Row]
  BY DEF TypeOK, WorldTypeOK
<1>6. CASE plan.kind = "read"
  <2> DEFINE answer == [verdict |-> "ok", row |-> server[plan.record]]
  <2>1. AnswerWith(answer) /\ UNCHANGED world
    BY <1>6 DEF ServerExec
  <2>2. plan.record \in Records /\ plan = Read(plan.record)
    BY <1>3, <1>6 DEF Entries, Read
  <2>3. answer \in Answers
    BY <1>5, <2>2 DEF Answers, Verdicts
  <2>4. answer.verdict = "ok" /\ answer.row = server[plan.record] /\ Replies(q, answer)
    BY <1>4, <2>1
  <2> HIDE DEF answer, plan
  <2> QED  BY <1>2, <2>1, <2>2, <2>3, <2>4 DEF plan
<1>7. CASE plan.kind # "read"
  <2> DEFINE w == plan.write
             r == Target[w]
             verdict == Verdict(w, server[r])
             row == IF verdict = "ok" THEN Effect(w, server[r]) ELSE server[r]
             answer == [verdict |-> verdict, row |-> row]
  <2>1. w \in Writes /\ r \in Records /\ plan = Direct(w)
    BY <1>3, <1>7, WritesAssumption DEF Entries, Direct
  <2>2. /\ AnswerWith(answer) /\ server' = [server EXCEPT ![r] = row]
        /\ log' = Append(log, [who |-> w, record |-> r, verdict |-> verdict])
    BY Zenon, <1>7 DEF ServerExec
  <2>3. verdict \in {"ok", "conflict", "failed"}
    BY DEF Verdict
  <2>4. answer \in Answers
    <3> HIDE DEF w
    <3>1. server[r] \in Row
      BY <1>5, <2>1
    <3>2. row \in Row
      BY <2>1, <3>1, EffectType
    <3> HIDE DEF row, verdict
    <3> QED  BY <2>3, <3>2 DEF Answers, Verdicts, answer
  <2>5. Replies(q, answer)
    BY Zenon, <1>4, <2>2
  <2>6. answer.verdict = verdict /\ answer.row = row
    OBVIOUS
  <2> HIDE DEF answer, w, plan
  <2> QED  BY <2>1, <2>2, <2>3, <2>4, <2>5, <2>6 DEF plan
<1> QED  BY <1>6, <1>7

LEMMA ReliableNext ==
  Reliable /\ TypeOK /\ TypeOK' /\ HeldInv /\ ReliableInv /\ [Next]_vars => ReliableInv'
<1> SUFFICES ASSUME Reliable, TypeOK, TypeOK', HeldInv, ReliableInv, [Next]_vars
             PROVE  ReliableInv'
  OBVIOUS
<1>1. ASSUME NEW w \in Writes, Issue(w) \/ Stamp(w) \/ Deliver(w) \/ DeliverLocally(w) \/ Release(w)
      PROVE  ReliableInv'
  BY <1>1, ReliableStays DEF Issue, Stamp, Deliver, DeliverLocally, Release, flushVars
<1>2. ASSUME NEW w \in Writes, Dispatch(w) PROVE ReliableInv'
  <2>1. Direct(w) \in Entries /\ Direct(w).kind # "flush"
    BY PlanEntries DEF Direct
  <2> QED  BY <1>2, <2>1, ReliableJoins DEF Dispatch, flushVars
<1>3. ASSUME NEW w \in Writes, Confirm(w) \/ Reject(w) PROVE ReliableInv'
  <2>1. Target[w] \in Records
    BY WritesAssumption
  <2> QED
    BY <1>3, <2>1, ReliableTaken
    DEF Confirm, Reject, SettleConfirmed, SettleRejected, HeadIsFor, HeadIs, flushVars
<1>4. SendBatch => ReliableInv'
  BY ReliableSent
<1>5. Ingest => ReliableInv'
  BY ReliableTaken DEF Ingest, HeadIs, flushVars
<1>6. ASSUME NEW q \in net, ServerExec(q) PROVE ReliableInv'
  <2>1. PICK answer \in Answers : Replies(q, answer) /\ answer.verdict # "offline"
    BY <1>6, ReliableExec
  <2> QED  BY <1>6, <2>1, ReliableServed, ServerOnly DEF flushVars
<1>7. ASSUME NEW q \in net, Respond(q) \/ Refuse(q) PROVE ReliableInv'
  BY <1>7, ReliableHeard
<1>8. ASSUME NEW r \in Records, RivalEdit(r) PROVE ReliableInv'
  BY <1>8, ReliableStays DEF RivalEdit, flushVars
<1>9. ASSUME NEW r \in Records, Refresh(r) PROVE ReliableInv'
  <2>1. Read(r) \in Entries /\ Read(r).kind # "flush"
    BY EntryTypes DEF Read, Entries
  <2> QED  BY <1>9, <2>1, ReliableJoins DEF Refresh, flushVars
<1>10. UNCHANGED vars => ReliableInv'
  BY ReliableStays DEF vars, flushVars
<1> QED
  BY <1>1, <1>2, <1>3, <1>4, <1>5, <1>6, <1>7, <1>8, <1>9, <1>10, ReliableSteps

----------------------------------------------------------------------------
(* How the line of answers moves.                                          *)

LEMMA DoneIs ==
  ASSUME Reliable, TypeOK, ReliableInv, NEW q \in net
  PROVE  /\ Done(q) \in Seq(News) /\ Len(Done(q)) = Len(q.answers)
         /\ q.answers = <<>> => Done(q) = <<>>
<1>1. /\ q.plans \in Seq(Entries) /\ q.answers \in Seq(Answers)
      /\ Len(q.plans) \in Nat /\ Len(q.answers) \in Nat /\ Len(q.answers) <= Len(q.plans)
  BY ReliableRequest
<1>2. \A k \in 1..Len(q.answers) : q.plans[k] \in Entries /\ q.answers[k] \in Answers
  BY <1>1
<1>3. Done(q) \in Seq(News)
  BY <1>1, <1>2 DEF Done, News
<1>4. Len(Done(q)) = Len(q.answers)
  BY <1>1 DEF Done
<1>5. q.answers = <<>> => Len(Done(q)) = 0
  BY <1>4
<1> QED  BY <1>3, <1>4, <1>5, EmptySeq

\* At most one request has answers, the oldest.
LEMMA LineIs ==
  ASSUME Reliable, TypeOK, HeldInv, ReliableInv
  PROVE  /\ Line \in Seq(News)
         /\ Answering = {} => Line = arrived
         /\ \A q \in Answering : Line = arrived \o Done(q)
         /\ \A q \in net : (\A p \in net : q.id <= p.id)
              => Line = arrived \o Done(q) /\ \A p \in Answering : p = q
<1>1. ASSUME NEW q \in net, \A p \in net : q.id <= p.id, NEW p \in Answering PROVE p = q
  <2>1. p \in net /\ p.id <= q.id /\ q.id <= p.id
    BY <1>1 DEF Answering, ReliableInv
  <2>2. p.id \in Nat /\ q.id \in Nat
    BY <2>1, ReliableRequest
  <2>3. p.id = q.id
    BY <2>1, <2>2
  <2> QED  BY <2>1, <2>3 DEF HeldInv, NetInv
<1>2. arrived \in Seq(News) /\ \A q \in net : Done(q) \in Seq(News)
  BY DoneIs DEF TypeOK, TransportTypeOK
<1>3. ASSUME NEW q \in Answering PROVE Line = arrived \o Done(q)
  <2>1. q \in net /\ \A p \in net : q.id <= p.id
    BY DEF Answering, ReliableInv
  <2>2. \A p \in Answering : p = q
    BY <1>1, <2>1
  <2>3. (CHOOSE p \in Answering : TRUE) = q
    BY <2>2
  <2> QED  BY <2>3 DEF Line
<1>4. Answering = {} => Line = arrived
  BY DEF Line
<1>5. ASSUME NEW q \in net, \A p \in net : q.id <= p.id PROVE Line = arrived \o Done(q)
  <2>1. CASE q \in Answering
    BY <1>3, <2>1
  <2>2. CASE q \notin Answering
    <3>1. Answering = {} /\ q.answers = <<>>
      BY <1>1, <1>5, <2>2 DEF Answering
    <3>2. Done(q) = <<>>
      BY <3>1, DoneIs
    <3> QED  BY <1>2, <1>4, <3>1, <3>2, ConcatEmptySeq
  <2> QED  BY <2>1, <2>2
<1>6. Line \in Seq(News)
  <2>1. CASE Answering = {}
    BY <1>2, <1>4, <2>1
  <2>2. CASE Answering # {}
    <3>1. PICK q \in Answering : Line = arrived \o Done(q)
      BY <1>3, <2>2
    <3> QED  BY <1>2, <3>1, ConcatProperties DEF Answering
  <2> QED  BY <2>1, <2>2
<1> QED  BY <1>1, <1>3, <1>4, <1>5, <1>6

\* The server's answer joins it.
LEMMA LineGrows ==
  ASSUME Reliable, TypeOK, HeldInv, ReliableInv, arrived' = arrived,
         NEW q \in net, NEW answer \in Answers, Replies(q, answer)
  PROVE  /\ [entry |-> q.plans[Len(q.answers) + 1], answer |-> answer] \in News
         /\ Line' = Append(Line, [entry |-> q.plans[Len(q.answers) + 1], answer |-> answer])
<1> DEFINE p == [q EXCEPT !.answers = Append(@, answer)]
           n == [entry |-> q.plans[Len(q.answers) + 1], answer |-> answer]
<1>1. /\ q \in Requests /\ q.plans \in Seq(Entries) /\ q.answers \in Seq(Answers)
      /\ Len(q.answers) \in Nat /\ Len(q.plans) \in Nat /\ DOMAIN q.plans = 1..Len(q.plans)
      /\ DOMAIN q.answers = 1..Len(q.answers)
  BY ReliableRequest
<1>2. p.id = q.id /\ p.plans = q.plans /\ p.answers = Append(q.answers, answer)
  BY <1>1 DEF Requests
<1>3. /\ Len(p.answers) = Len(q.answers) + 1 /\ p.answers # <<>>
      /\ \A k \in 1..Len(q.answers) : p.answers[k] = q.answers[k]
      /\ p.answers[Len(q.answers) + 1] = answer
  BY <1>1, <1>2, AppendProperties
<1>4. net' = (net \ {q}) \cup {p} /\ \A o \in net : q.id <= o.id
      /\ q.plans[Len(q.answers) + 1] \in Entries
  BY <1>1 DEF Replies
<1>5. n \in News
  BY <1>4 DEF News
<1>6. Line = arrived \o Done(q) /\ \A o \in Answering : o = q
  BY <1>4, LineIs
<1>7. Done(p) = Append(Done(q), n)
  <2> DEFINE longer == Append(Done(q), n)
  <2>1. Done(q) \in Seq(News) /\ Len(Done(q)) = Len(q.answers)
    BY DoneIs
  <2>2. /\ longer \in Seq(News) /\ Len(longer) = Len(q.answers) + 1
        /\ \A k \in 1..Len(q.answers) : longer[k] = Done(q)[k]
        /\ longer[Len(q.answers) + 1] = n
    BY <1>5, <2>1, AppendProperties
  <2>3. DOMAIN longer = 1..(Len(q.answers) + 1)
    BY <2>2, LenProperties
  <2>4. /\ DOMAIN Done(p) = 1..(Len(q.answers) + 1)
        /\ \A k \in 1..(Len(q.answers) + 1) :
             Done(p)[k] = [entry |-> q.plans[k], answer |-> p.answers[k]]
    BY <1>2, <1>3 DEF Done
  <2>5. \A k \in 1..Len(q.answers) : Done(q)[k] = [entry |-> q.plans[k], answer |-> q.answers[k]]
    BY DEF Done
  <2> HIDE DEF p, longer
  <2>6. ASSUME NEW k \in 1..(Len(q.answers) + 1) PROVE Done(p)[k] = longer[k]
    <3>1. Done(p)[k] = [entry |-> q.plans[k], answer |-> p.answers[k]]
      BY <2>4
    <3>2. CASE k \in 1..Len(q.answers)
      BY <1>3, <2>2, <2>5, <3>1, <3>2
    <3>3. CASE k = Len(q.answers) + 1
      BY <1>3, <2>2, <3>1, <3>3
    <3>4. k \in 1..Len(q.answers) \/ k = Len(q.answers) + 1
      BY <1>1
    <3> QED  BY <3>2, <3>3, <3>4
  <2>7. Done(p) = [k \in 1..(Len(q.answers) + 1) |-> Done(p)[k]]
    BY <2>4 DEF Done
  <2>8. longer = [k \in 1..(Len(q.answers) + 1) |-> longer[k]]
    BY <2>2, <2>3, LenProperties
  <2>9. Done(p) = longer
    BY <2>6, <2>7, <2>8
  <2> QED  BY <2>9 DEF longer
<1> HIDE DEF p, n
<1>8. Answering' = {p}
  BY <1>3, <1>4, <1>6 DEF Answering
<1>9. Line' = arrived \o Done(p)
  <2>1. (CHOOSE o \in {p} : TRUE) = p
    OBVIOUS
  <2>2. Line' = IF Answering' = {} THEN arrived'
                ELSE arrived' \o Done(CHOOSE o \in Answering' : TRUE)
    BY DEF Line, Done
  <2> QED  BY <1>8, <2>1, <2>2
<1>10. arrived \o Append(Done(q), n) = Append(arrived \o Done(q), n)
  <2>1. arrived \in Seq(News) /\ Done(q) \in Seq(News) /\ <<n>> \in Seq(News)
    BY <1>5, DoneIs DEF TypeOK, TransportTypeOK
  <2>2. Append(Done(q), n) = Done(q) \o <<n>>
    BY <1>5, <2>1, AppendIsConcat
  <2>3. Append(arrived \o Done(q), n) = (arrived \o Done(q)) \o <<n>>
    BY <1>5, <2>1, ConcatProperties, AppendIsConcat
  <2> QED  BY <2>1, <2>2, <2>3, ConcatAssociative
<1> QED  BY <1>5, <1>6, <1>7, <1>9, <1>10 DEF n

\* It stays when requests without answers come or go.
LEMMA LineStays ==
  ASSUME arrived' = arrived, Answering' = Answering
  PROVE  Line' = Line
<1>1. Line' = IF Answering' = {} THEN arrived'
              ELSE arrived' \o Done(CHOOSE o \in Answering' : TRUE)
  BY DEF Line, Done
<1> QED  BY <1>1 DEF Line

LEMMA LineSent ==
  ASSUME SendBatch
  PROVE  Line' = Line
<1>1. Answering' = Answering /\ arrived' = arrived
  BY DEF SendBatch, Answering
<1> QED  BY <1>1, LineStays

\* A response brings the answers of its request along, in the same order.
LEMMA LineArrives ==
  ASSUME Reliable, TypeOK, HeldInv, ReliableInv, NEW q \in net, Respond(q)
  PROVE  Line' = Line
<1>1. Hears(q, q.answers) /\ Len(q.answers) = Len(q.plans)
  <2>1. q.answers # <<>>
    BY ReliableRequest DEF Respond
  <2> QED  BY <2>1, ReliableHears
<1>2. Line = arrived \o Done(q) /\ \A p \in Answering : p = q
  BY <1>1, LineIs DEF Hears
<1>3. arrived = <<>> /\ net' = net \ {q} /\ arrived' = Done(q)
  BY <1>1 DEF Hears, Done
<1>4. Answering' = {}
  BY <1>2, <1>3 DEF Answering
<1>5. Line' = arrived'
  BY <1>4 DEF Line
<1> QED  BY <1>2, <1>3, <1>5, DoneIs, ConcatEmptySeq

LEMMA LineRefused ==
  ASSUME Reliable, TypeOK, TypeOK', HeldInv, ReliableInv, NEW q \in net, Refuse(q)
  PROVE  /\ Line = <<>> /\ Line' \in Seq(News)
         /\ \A k \in DOMAIN Line' : Line'[k].answer = Fault("refused")
<1> DEFINE refused == [k \in 1..Len(q.plans) |-> Fault("refused")]
<1>1. Hears(q, refused) /\ q.answers = <<>>
  <2>1. Refuse(q) /\ q.answers = <<>> /\ Len(q.plans) # 0
    BY ReliableRequest, EmptySeq DEF Refuse, ReliableInv
  <2> QED  BY <2>1, ReliableHears DEF Respond, Executed
<1>2. Line = arrived \o Done(q) /\ \A p \in Answering : p = q
  BY <1>1, LineIs DEF Hears
<1>3. Line = <<>> /\ Answering = {}
  BY <1>1, <1>2, DoneIs, LineIs DEF Hears, Answering
<1>4. Answering' = {}
  BY <1>1, <1>3 DEF Hears, Answering
<1>5. Line' = arrived'
  BY <1>4 DEF Line
<1>6. arrived' \in Seq(News)
  BY DEF TypeOK, TransportTypeOK
<1>7. ASSUME NEW k \in DOMAIN Line' PROVE Line'[k].answer = Fault("refused")
  <2>1. arrived' = [m \in 1..Len(q.plans) |-> [entry |-> q.plans[m], answer |-> refused[m]]]
    BY <1>1 DEF Hears
  <2>2. k \in 1..Len(q.plans)
    BY <1>5, <2>1
  <2>3. Line'[k] = [entry |-> q.plans[k], answer |-> Fault("refused")]
    BY <1>5, <2>1, <2>2
  <2> QED  BY <2>3
<1> QED  BY <1>3, <1>5, <1>6, <1>7

LEMMA HeadTailConcat ==
  ASSUME NEW S, NEW s \in Seq(S), NEW t \in Seq(S), s # <<>>
  PROVE  s \o t # <<>> /\ Head(s \o t) = Head(s) /\ Tail(s \o t) = Tail(s) \o t
<1> DEFINE u == s \o t
           v == Tail(s) \o t
<1>1. /\ u \in Seq(S) /\ Len(u) = Len(s) + Len(t)
      /\ \A i \in 1..Len(s) + Len(t) : u[i] = IF i <= Len(s) THEN s[i] ELSE t[i - Len(s)]
  BY ConcatProperties
<1>2. /\ Tail(s) \in Seq(S) /\ Len(Tail(s)) = Len(s) - 1 /\ Len(s) \in Nat \ {0} /\ Len(t) \in Nat
      /\ \A i \in 1..Len(Tail(s)) : Tail(s)[i] = s[i + 1]
  BY HeadTailProperties, EmptySeq, LenProperties
<1>3. /\ v \in Seq(S) /\ Len(v) = (Len(s) - 1) + Len(t)
      /\ \A i \in 1..(Len(s) - 1) + Len(t) :
           v[i] = IF i <= Len(s) - 1 THEN Tail(s)[i] ELSE t[i - (Len(s) - 1)]
  <2>1. /\ v \in Seq(S) /\ Len(v) = Len(Tail(s)) + Len(t)
        /\ \A i \in 1..Len(Tail(s)) + Len(t) :
             v[i] = IF i <= Len(Tail(s)) THEN Tail(s)[i] ELSE t[i - Len(Tail(s))]
    BY <1>2, ConcatProperties
  <2> QED  BY <1>2, <2>1
<1> HIDE DEF u, v
<1>4. u # <<>> /\ Head(u) = u[1] /\ Head(s) = s[1]
  BY <1>1, <1>2, EmptySeq
<1>5. Head(u) = Head(s)
  BY <1>1, <1>2, <1>4
<1>6. /\ Tail(u) \in Seq(S) /\ Len(Tail(u)) = Len(u) - 1
      /\ \A i \in 1..Len(Tail(u)) : Tail(u)[i] = u[i + 1]
  BY <1>1, <1>4, HeadTailProperties
<1> DEFINE n == (Len(s) - 1) + Len(t)
<1>7. Len(Tail(u)) = n /\ Len(v) = n
  BY <1>1, <1>2, <1>3, <1>6
<1>8. ASSUME NEW i \in 1..n PROVE Tail(u)[i] = v[i]
  <2>1. Tail(u)[i] = u[i + 1] /\ i + 1 \in 1..Len(s) + Len(t)
    BY <1>2, <1>6, <1>7
  <2>2. CASE i <= Len(s) - 1
    <3>1. u[i + 1] = s[i + 1] /\ v[i] = Tail(s)[i] /\ i \in 1..Len(Tail(s))
      BY <1>1, <1>2, <1>3, <2>1, <2>2
    <3> QED  BY <1>2, <2>1, <3>1
  <2>3. CASE ~(i <= Len(s) - 1)
    <3>1. u[i + 1] = t[(i + 1) - Len(s)] /\ v[i] = t[i - (Len(s) - 1)]
      BY <1>1, <1>2, <1>3, <2>1, <2>3
    <3>2. (i + 1) - Len(s) = i - (Len(s) - 1)
      BY <1>2
    <3> QED  BY <2>1, <3>1, <3>2
  <2> QED  BY <2>2, <2>3
<1>9. Tail(u) = [i \in 1..n |-> Tail(u)[i]] /\ v = [i \in 1..n |-> v[i]]
  <2>1. Tail(u) \in [1..Len(Tail(u)) -> S] /\ v \in [1..Len(v) -> S]
    BY <1>3, <1>6, LenProperties
  <2> QED  BY <1>7, <2>1
<1>10. Tail(u) = v
  BY <1>8, <1>9
<1> QED  BY <1>4, <1>5, <1>10 DEF u, v

\* The client takes its head.
LEMMA LineTaken ==
  ASSUME Reliable, TypeOK, HeldInv, ReliableInv, net' = net,
         arrived # <<>>, arrived' = Tail(arrived)
  PROVE  /\ Line # <<>> /\ Head(Line) = Next1 /\ Line' = Tail(Line)
<1>1. arrived \in Seq(News)
  BY DEF TypeOK, TransportTypeOK
<1>2. Answering' = Answering
  BY DEF Answering
<1>3. CASE Answering = {}
  <2>1. Line = arrived /\ Line' = arrived'
    BY <1>2, <1>3 DEF Line
  <2> QED  BY <2>1 DEF Next1
<1>4. CASE Answering # {}
  <2>1. PICK q \in Answering : q = CHOOSE p \in Answering : TRUE
    BY <1>4
  <2>2. Line' = IF Answering' = {} THEN arrived'
                ELSE arrived' \o Done(CHOOSE p \in Answering' : TRUE)
    BY DEF Line, Done
  <2>3. Line = arrived \o Done(q) /\ Line' = Tail(arrived) \o Done(q)
    BY <1>2, <1>4, <2>1, <2>2 DEF Line
  <2>4. Done(q) \in Seq(News)
    BY DoneIs DEF Answering
  <2>5. /\ Head(arrived \o Done(q)) = Head(arrived)
        /\ Tail(arrived \o Done(q)) = Tail(arrived) \o Done(q)
        /\ arrived \o Done(q) # <<>>
    BY <1>1, <2>4, HeadTailConcat
  <2> QED  BY <2>3, <2>5 DEF Next1
<1> QED  BY <1>3, <1>4

----------------------------------------------------------------------------
(* What a step does to the line, the rows and the caller.                  *)

\* The news n report the row of r: what the client will take for it.
About(e) == IF e.kind = "read" THEN e.record ELSE Target[e.write]
Reports(n, r) ==
  /\ n.answer.verdict = "ok" /\ About(n.entry) = r
  /\ n.entry.kind # "read" => Op[n.entry.write] # "opaque"

\* The plan e waits for the server: the k-th of the request i, sent or to come.
Stands(e, i, k) ==
  \/ \E q \in net : q.id = i /\ k \in DOMAIN q.plans /\ k > Len(q.answers) /\ q.plans[k] = e
  \/ i = sent + 1 /\ k \in DOMAIN batch /\ batch[k] = e

\* The plan of w stands before those of all other writes, and for the last time.
Foremost(w) ==
  /\ \E i, k \in Nat :
       /\ Stands(Direct(w), i, k)
       /\ \A v \in Writes : \A j, m \in Nat :
            Stands(Direct(v), j, m) => i < j \/ (i = j /\ k <= m)
  /\ \A j, m \in Nat : ~Stands(Direct(w), j, m)'

\* The server answers a plan.
Answered(n) ==
  /\ Line' = Append(Line, n)
  /\ UNCHANGED <<pipeline, cache, batch, bounds>>
  /\ \/ \E r \in Records :
          /\ n.entry = Read(r) /\ n.answer.verdict = "ok" /\ n.answer.row = server[r]
          /\ UNCHANGED world
     \/ \E w \in Writes :
          /\ n.entry = Direct(w) /\ pc[w] = "direct" /\ Foremost(w)
          /\ \A k \in DOMAIN Line : Line[k].entry # Direct(w)
          /\ n.answer.verdict = Verdict(w, server[Target[w]])
          /\ n.answer.row = IF n.answer.verdict = "ok"
                            THEN Effect(w, server[Target[w]]) ELSE server[Target[w]]
          /\ server' = [server EXCEPT ![Target[w]] = n.answer.row]
          /\ log' = Append(log, [who |-> w, record |-> Target[w], verdict |-> n.answer.verdict])

\* The client takes the head of the line.
Taken ==
  /\ Line # <<>> /\ Line' = Tail(Line)
  /\ UNCHANGED <<world, bounds>>
  /\ \A r \in Cached :
       canonical'[r] = IF Reports(Head(Line), r) THEN Head(Line).answer.row ELSE canonical[r]
  /\ \/ \E r \in Records : Head(Line).entry = Read(r) /\ UNCHANGED <<pipeline, batch>>
     \/ \E w \in Writes :
          /\ Head(Line).entry = Direct(w) /\ pc[w] = "direct"
          /\ pc' = [pc EXCEPT ![w] = IF Head(Line).answer.verdict = "ok"
                                     THEN "confirmed" ELSE "rejected"]
          /\ batch' = IF Head(Line).answer.verdict = "conflict"
                      THEN Append(batch, Read(Target[w])) ELSE batch

\* All of a request is refused.
Refused ==
  /\ Line = <<>> /\ \A k \in DOMAIN Line' : Line'[k].answer = Fault("refused")
  /\ UNCHANGED <<pipeline, cache, batch, world, rivals, reads>>

\* Nothing of that: no answer moves, and no write is confirmed.
Aside ==
  /\ Line' = Line /\ UNCHANGED <<world, canonical, rivals>>
  /\ \A w \in Writes : pc'[w] = "confirmed" <=> pc[w] = "confirmed"

\* A deletion that succeeded is answered with no row.
Deletes ==
  \A k \in DOMAIN Line :
    Line[k].answer.verdict = "ok" /\ Line[k].entry.kind # "read"
      /\ Op[Line[k].entry.write] = "delete"
    => Line[k].answer.row = NoRow

CalmInv == TypeOK /\ HeldInv /\ OverlayMatches /\ ReliableInv /\ Deletes

\* Where the places of a sequence are when it grows and when its head goes.
LEMMA AppendAt ==
  ASSUME NEW S, NEW s \in Seq(S), NEW x \in S, NEW t, t = Append(s, x)
  PROVE  /\ Len(s) \in Nat /\ Len(s) + 1 \in DOMAIN t /\ t[Len(s) + 1] = x /\ t \in Seq(S)
         /\ \A k \in DOMAIN s : k \in DOMAIN t /\ t[k] = s[k] /\ k \in Nat /\ k < Len(s) + 1
         /\ \A k \in DOMAIN t : k \in DOMAIN s \/ k = Len(s) + 1
<1>1. /\ t \in Seq(S) /\ Len(t) = Len(s) + 1 /\ t[Len(s) + 1] = x
      /\ \A k \in 1..Len(s) : t[k] = s[k]
  BY AppendProperties
<1>2. DOMAIN s = 1..Len(s) /\ DOMAIN t = 1..(Len(s) + 1) /\ Len(s) \in Nat
  BY <1>1, LenProperties
<1> QED  BY <1>1, <1>2

LEMMA TailAt ==
  ASSUME NEW S, NEW s \in Seq(S), s # <<>>, NEW t, t = Tail(s)
  PROVE  /\ 1 \in DOMAIN s /\ s[1] = Head(s) /\ Head(s) \in S /\ t \in Seq(S)
         /\ \A k \in DOMAIN t : k + 1 \in DOMAIN s /\ t[k] = s[k + 1] /\ k \in Nat \ {0}
         /\ \A k \in DOMAIN s : k = 1 \/ (k - 1 \in DOMAIN t /\ t[k - 1] = s[k])
         /\ \A k \in DOMAIN s : k \in Nat \ {0}
<1>1. /\ t \in Seq(S) /\ Len(t) = Len(s) - 1 /\ Head(s) = s[1] /\ Head(s) \in S
      /\ \A k \in 1..Len(t) : t[k] = s[k + 1]
  BY HeadTailProperties
<1>2. DOMAIN s = 1..Len(s) /\ DOMAIN t = 1..Len(t) /\ Len(s) \in Nat \ {0}
  BY <1>1, LenProperties, EmptySeq
<1>3. \A k \in DOMAIN s : k = 1 \/ (k - 1 \in DOMAIN t /\ t[k - 1] = s[k])
  <2>1. ASSUME NEW k \in DOMAIN s, k # 1 PROVE k - 1 \in DOMAIN t /\ t[k - 1] = s[k]
    <3>1. k - 1 \in 1..Len(t) /\ (k - 1) + 1 = k
      BY <1>1, <1>2, <2>1
    <3> QED  BY <1>1, <1>2, <3>1
  <2> QED  BY <2>1
<1> QED  BY <1>1, <1>2, <1>3

\* A write that is on its way, in the batch or in a request, or answered, waits.
LEMMA WayWaits ==
  ASSUME TypeOK, HeldInv, ReliableInv, NEW w \in Writes, pc[w] # "direct"
  PROVE  /\ \A k \in DOMAIN batch : batch[k] # Direct(w)
         /\ \A k \in DOMAIN arrived : arrived[k].entry # Direct(w)
         /\ \A q \in net : \A k \in DOMAIN q.plans : q.plans[k] # Direct(w)
<1> DEFINE x == Direct(w)
<1>1. Copies(x) = 0 /\ NetInv /\ x \in Entries
  BY PlanEntries DEF HeldInv, HeldOnce
<1>2. /\ batch \in Seq(Entries) /\ arrived \in Seq(News)
      /\ DOMAIN batch = 1..Len(batch) /\ DOMAIN arrived = 1..Len(arrived)
  BY LenProperties DEF TypeOK, TransportTypeOK
<1> HIDE DEF x
<1>3. /\ Copies(x) = Count(batch, {x}) + Cardinality(Flights(net, x)) + Count(arrived, Mail(x))
      /\ Count(batch, {x}) \in Nat /\ Cardinality(Flights(net, x)) \in Nat
      /\ Count(arrived, Mail(x)) \in Nat /\ IsFiniteSet(Flights(net, x))
  BY <1>1, CopiesAre DEF NetInv
<1>4. Count(batch, {x}) = 0 /\ Count(arrived, Mail(x)) = 0 /\ Cardinality(Flights(net, x)) = 0
  BY <1>1, <1>3
<1>5. Flights(net, x) = {}
  BY <1>3, <1>4, FS_EmptySet
<1>6. \A k \in DOMAIN batch : batch[k] # x
  BY <1>2, <1>4, CountType
<1>7. \A k \in DOMAIN arrived : arrived[k].entry # x
  <2>1. \A k \in DOMAIN arrived : arrived[k] \in News /\ arrived[k] \notin Mail(x)
    BY <1>2, <1>4, CountType
  <2> QED  BY <2>1 DEF Mail
<1>8. ASSUME NEW q \in net, NEW k \in DOMAIN q.plans, q.plans[k] = x PROVE FALSE
  <2>1. <<q.id, k>> \in Flights(net, x)
    BY <1>8 DEF Flights, ReliableInv
  <2> QED  BY <1>5, <2>1
<1> QED  BY <1>6, <1>7, <1>8 DEF x

\* What is in the line has arrived, or answers a plan of a request.
LEMMA LineAt ==
  ASSUME Reliable, TypeOK, HeldInv, ReliableInv, NEW k \in DOMAIN Line
  PROVE  \/ \E m \in DOMAIN arrived : Line[k] = arrived[m]
         \/ \E q \in net : \E m \in DOMAIN q.answers :
              m \in DOMAIN q.plans /\ Line[k] = [entry |-> q.plans[m], answer |-> q.answers[m]]
<1>1. arrived \in Seq(News) /\ DOMAIN arrived = 1..Len(arrived) /\ Len(arrived) \in Nat
  BY LenProperties DEF TypeOK, TransportTypeOK
<1>2. CASE Answering = {}
  BY <1>2, LineIs
<1>3. CASE Answering # {}
  <2>1. PICK q \in Answering : Line = arrived \o Done(q)
    BY <1>3, LineIs
  <2>2. /\ q \in net /\ Done(q) \in Seq(News) /\ Len(Done(q)) = Len(q.answers)
        /\ DOMAIN q.plans = 1..Len(q.plans) /\ DOMAIN q.answers = 1..Len(q.answers)
        /\ Len(q.plans) \in Nat /\ Len(q.answers) \in Nat /\ Len(q.answers) <= Len(q.plans)
    BY DoneIs, ReliableRequest DEF Answering
  <2>3. /\ Line \in Seq(News) /\ Len(Line) = Len(arrived) + Len(q.answers)
        /\ \A i \in 1..Len(arrived) + Len(q.answers) :
             Line[i] = IF i <= Len(arrived) THEN arrived[i] ELSE Done(q)[i - Len(arrived)]
    <3> DEFINE done == Done(q)
    <3>1. done \in Seq(News) /\ Len(done) = Len(q.answers) /\ Line = arrived \o done
      BY <2>1, <2>2
    <3> HIDE DEF done
    <3>2. /\ arrived \o done \in Seq(News) /\ Len(arrived \o done) = Len(arrived) + Len(done)
          /\ \A i \in 1..Len(arrived) + Len(done) :
               (arrived \o done)[i]
                  = IF i <= Len(arrived) THEN arrived[i] ELSE done[i - Len(arrived)]
      BY <1>1, <3>1, ConcatProperties
    <3>3. \A i \in 1..Len(arrived) + Len(q.answers) :
             Line[i] = IF i <= Len(arrived) THEN arrived[i] ELSE done[i - Len(arrived)]
      BY <3>1, <3>2
    <3> QED  BY <3>1, <3>2, <3>3 DEF done
  <2>4. k \in 1..Len(arrived) + Len(q.answers)
    BY <2>3, LenProperties
  <2>5. CASE k <= Len(arrived)
    <3>1. k \in DOMAIN arrived /\ Line[k] = arrived[k]
      BY <1>1, <2>3, <2>4, <2>5
    <3> QED  BY <3>1
  <2>6. CASE ~(k <= Len(arrived))
    <3>1. k - Len(arrived) \in 1..Len(q.answers) /\ Line[k] = Done(q)[k - Len(arrived)]
      BY <1>1, <2>2, <2>3, <2>4, <2>6
    <3>2. PICK m \in 1..Len(q.answers) : Line[k] = Done(q)[m]
      BY <3>1
    <3>3. Line[k] = [entry |-> q.plans[m], answer |-> q.answers[m]]
      BY <3>2 DEF Done
    <3>4. m \in DOMAIN q.answers /\ m \in DOMAIN q.plans
      BY <2>2
    <3> QED  BY <2>2, <3>3, <3>4
  <2> QED  BY <2>5, <2>6
<1> QED  BY <1>2, <1>3

LEMMA LineWaits ==
  ASSUME Reliable, TypeOK, HeldInv, ReliableInv, NEW w \in Writes,
         NEW k \in DOMAIN Line, Line[k].entry = Direct(w)
  PROVE  pc[w] = "direct"
<1>1. CASE \E m \in DOMAIN arrived : Line[k] = arrived[m]
  BY <1>1, WayWaits
<1>2. CASE \E q \in net : \E m \in DOMAIN q.answers :
             m \in DOMAIN q.plans /\ Line[k] = [entry |-> q.plans[m], answer |-> q.answers[m]]
  <2>1. PICK q \in net : \E m \in DOMAIN q.answers :
             m \in DOMAIN q.plans /\ Line[k] = [entry |-> q.plans[m], answer |-> q.answers[m]]
    BY <1>2
  <2>2. PICK m \in DOMAIN q.plans : Line[k] = [entry |-> q.plans[m], answer |-> q.answers[m]]
    BY <2>1
  <2>3. q.plans[m] = Direct(w)
    BY <2>2
  <2> QED  BY <2>3, WayWaits
<1> QED  BY <1>1, <1>2, LineAt

\* The plan the server takes next has no answer in the line yet.
LEMMA LineLacks ==
  ASSUME Reliable, TypeOK, HeldInv, ReliableInv, NEW w \in Writes, NEW q \in net,
         Len(q.answers) + 1 \in DOMAIN q.plans, q.plans[Len(q.answers) + 1] = Direct(w),
         NEW k \in DOMAIN Line
  PROVE  Line[k].entry # Direct(w)
<1> DEFINE i == Len(q.answers) + 1
<1>1. /\ \A j \in DOMAIN arrived : arrived[j].entry # Direct(w)
      /\ \A p \in net : \A j \in DOMAIN p.plans : p.plans[j] = Direct(w) => p = q /\ j = i
  <2>1. q.open /\ \A p \in net : p.open
    BY DEF ReliableInv
  <2> QED  BY <2>1, OnlyCopy DEF Plans
<1>2. CASE \E m \in DOMAIN arrived : Line[k] = arrived[m]
  BY <1>1, <1>2
<1>3. CASE \E p \in net : \E m \in DOMAIN p.answers :
             m \in DOMAIN p.plans /\ Line[k] = [entry |-> p.plans[m], answer |-> p.answers[m]]
  <2>1. PICK p \in net : \E m \in DOMAIN p.answers :
             m \in DOMAIN p.plans /\ Line[k] = [entry |-> p.plans[m], answer |-> p.answers[m]]
    BY <1>3
  <2>2. PICK m \in DOMAIN p.answers :
             m \in DOMAIN p.plans /\ Line[k] = [entry |-> p.plans[m], answer |-> p.answers[m]]
    BY <2>1
  <2>3. Line[k].entry = p.plans[m]
    BY <2>2
  <2>4. DOMAIN q.answers = 1..Len(q.answers) /\ Len(q.answers) \in Nat
    BY ReliableRequest
  <2>5. ~(p = q /\ m = i)
    BY <2>2, <2>4
  <2> QED  BY <1>1, <2>2, <2>3, <2>5
<1> QED  BY <1>2, <1>3, LineAt

\* Where a plan stands.
LEMMA StandsIn ==
  ASSUME TypeOK, HeldInv, NEW e, NEW i, NEW k, Stands(e, i, k)
  PROVE  /\ i \in Nat /\ k \in Nat /\ sent \in Nat /\ i <= sent + 1
         /\ i = sent + 1 => k \in DOMAIN batch /\ k <= Len(batch) /\ batch[k] = e
         /\ i # sent + 1 => \E q \in net : /\ q.id = i /\ k \in DOMAIN q.plans
                                          /\ k > Len(q.answers) /\ q.plans[k] = e
<1>1. batch \in Seq(Entries) /\ DOMAIN batch = 1..Len(batch) /\ Len(batch) \in Nat /\ sent \in Nat
  BY LenProperties DEF TypeOK, TransportTypeOK
<1>2. \A q \in net : /\ q.id \in Nat /\ q.id <= sent
                     /\ DOMAIN q.plans = 1..Len(q.plans) /\ Len(q.plans) \in Nat
  <2>1. ASSUME NEW q \in net PROVE q.id \in Nat /\ q.plans \in Seq(Entries) /\ q.id <= sent
    BY DEF TypeOK, TransportTypeOK, Requests, HeldInv, NetInv
  <2> QED  BY <2>1, LenProperties
<1>3. CASE i = sent + 1 /\ k \in DOMAIN batch /\ batch[k] = e
  BY <1>1, <1>3
<1>4. CASE \E q \in net : q.id = i /\ k \in DOMAIN q.plans /\ k > Len(q.answers) /\ q.plans[k] = e
  <2>1. PICK q \in net : q.id = i /\ k \in DOMAIN q.plans /\ k > Len(q.answers) /\ q.plans[k] = e
    BY <1>4
  <2>2. i \in Nat /\ i <= sent /\ k \in Nat
    BY <1>2, <2>1
  <2> QED  BY <1>1, <2>1, <2>2
<1> QED  BY <1>3, <1>4 DEF Stands

LEMMA StandsWaits ==
  ASSUME TypeOK, HeldInv, ReliableInv, NEW w \in Writes, NEW i, NEW k, Stands(Direct(w), i, k)
  PROVE  pc[w] = "direct"
BY WayWaits DEF Stands

\* The plan the server takes stood before all others, and stands no more.
LEMMA ServedFirst ==
  ASSUME Reliable, TypeOK, HeldInv, ReliableInv, UNCHANGED <<batch, sent>>,
         NEW w \in Writes, NEW q \in net, NEW answer \in Answers, Replies(q, answer),
         q.plans[Len(q.answers) + 1] = Direct(w)
  PROVE  Foremost(w)
<1> DEFINE x == Len(q.answers) + 1
           p == [q EXCEPT !.answers = Append(@, answer)]
<1>1. /\ q \in Requests /\ q.id \in Nat /\ q.answers \in Seq(Answers) /\ Len(q.answers) \in Nat
      /\ x \in DOMAIN q.plans /\ x \in Nat /\ \A o \in net : q.id <= o.id
  BY ReliableRequest DEF Replies
<1>2. /\ p.id = q.id /\ p.plans = q.plans /\ Len(p.answers) = x
      /\ net' = (net \ {q}) \cup {p}
  BY <1>1, AppendProperties DEF Requests, Replies
<1>3. /\ \A j \in DOMAIN batch : batch[j] # Direct(w)
      /\ \A o \in net : \A j \in DOMAIN o.plans : o.plans[j] = Direct(w) => o = q /\ j = x
  <2>1. \A o \in net : o.open
    BY DEF ReliableInv
  <2> QED  BY <1>1, <2>1, OnlyCopy DEF Plans
<1>4. Stands(Direct(w), q.id, x)
  BY <1>1 DEF Stands
<1>5. ASSUME NEW v \in Writes, NEW j \in Nat, NEW m \in Nat, Stands(Direct(v), j, m)
      PROVE  q.id < j \/ (q.id = j /\ x <= m)
  <2>1. CASE j = sent + 1
    BY <1>1, <2>1 DEF HeldInv, NetInv, TypeOK, TransportTypeOK
  <2>2. CASE j # sent + 1
    <3>1. PICK o \in net : o.id = j /\ m > Len(o.answers)
      BY <1>5, <2>2, StandsIn
    <3>2. CASE o = q
      BY <1>1, <3>1, <3>2
    <3>3. CASE o # q
      <4>1. o.id # q.id /\ q.id <= o.id
        BY <1>1, <3>3 DEF HeldInv, NetInv
      <4> QED  BY <1>1, <3>1, <4>1
    <3> QED  BY <3>2, <3>3
  <2> QED  BY <2>1, <2>2
<1> HIDE DEF x, p
<1>6. ASSUME NEW j \in Nat, NEW m \in Nat, Stands(Direct(w), j, m)' PROVE FALSE
  <2>1. PICK o \in net' : m \in DOMAIN o.plans /\ m > Len(o.answers) /\ o.plans[m] = Direct(w)
    BY <1>3, <1>6 DEF Stands
  <2>2. CASE o = p
    BY <1>1, <1>2, <1>3, <2>1, <2>2
  <2>3. CASE o # p
    BY <1>2, <1>3, <2>1, <2>3
  <2> QED  BY <2>2, <2>3
<1>7. q.id \in Nat /\ x \in Nat
  BY <1>1
<1> QED  BY <1>4, <1>5, <1>6, <1>7 DEF Foremost

\* What the client takes.
LEMMA LineHead ==
  ASSUME Reliable, CalmInv, arrived # <<>>, arrived' = Tail(arrived), net' = net
  PROVE  /\ Line # <<>> /\ Head(Line) = Next1 /\ Line' = Tail(Line) /\ Next1 \in News
         /\ Next1.answer.verdict = "ok" /\ Next1.entry.kind # "read"
              /\ Op[Next1.entry.write] = "delete"
            => Next1.answer.row = NoRow
         /\ \A w \in Writes : Next1.entry = Direct(w) => pc[w] = "direct"
<1>1. TypeOK /\ HeldInv /\ ReliableInv /\ Deletes /\ arrived \in Seq(News)
  BY DEF CalmInv, TypeOK, TransportTypeOK
<1>2. Line # <<>> /\ Head(Line) = Next1 /\ Line' = Tail(Line) /\ Line \in Seq(News)
  BY <1>1, LineTaken, LineIs
<1>3. 1 \in DOMAIN Line /\ Line[1] = Next1 /\ Next1 \in News
  BY <1>2, TailAt
<1>4. \A w \in Writes : Next1.entry = Direct(w) => pc[w] = "direct"
  BY <1>1, <1>3, LineWaits
<1> QED  BY <1>1, <1>2, <1>3, <1>4 DEF Deletes

LEMMA TakenByRead ==
  ASSUME Reliable, CalmInv, Ingest
  PROVE  Taken
<1>1. /\ arrived # <<>> /\ arrived' = Tail(arrived) /\ Next1.entry.kind = "read"
      /\ UNCHANGED <<pipeline, batch, net, world, bounds>>
  BY DEF Ingest, HeadIs
<1>2. Line # <<>> /\ Head(Line) = Next1 /\ Line' = Tail(Line) /\ Next1 \in News
  BY <1>1, LineHead
<1>3. PICK r \in Records : Next1.entry = Read(r)
  <2>1. Next1.entry \in Entries
    BY <1>2 DEF News
  <2> QED  BY <1>1, <2>1 DEF Entries, Read
<1>4. Next1.entry.record = r
  BY <1>3 DEF Read
<1>5. ASSUME NEW x \in Cached
      PROVE  canonical'[x] = IF Reports(Next1, x) THEN Next1.answer.row ELSE canonical[x]
  <2>1. Reports(Next1, x) <=> Next1.answer.verdict = "ok" /\ r = x
    BY <1>1, <1>4 DEF Reports, About
  <2>2. canonical' = IF r \in Cached /\ Next1.answer.verdict = "ok"
                     THEN [canonical EXCEPT ![r] = Next1.answer.row] ELSE canonical
    BY <1>4 DEF Ingest
  <2>3. canonical \in [Records -> Row] /\ x \in Records
    BY EngineAssumption DEF CalmInv, TypeOK, CacheTypeOK
  <2> QED  BY <2>1, <2>2, <2>3
<1> QED  BY <1>1, <1>2, <1>3, <1>5 DEF Taken

LEMMA TakenByWrite ==
  ASSUME Reliable, CalmInv, NEW w \in Writes, Confirm(w) \/ Reject(w)
  PROVE  Taken
<1>1. /\ arrived # <<>> /\ arrived' = Tail(arrived)
      /\ Next1.entry.kind = "direct" /\ Next1.entry.write = w
      /\ UNCHANGED <<net, world, bounds>>
  BY DEF Confirm, Reject, HeadIsFor, HeadIs
<1>2. /\ Line # <<>> /\ Head(Line) = Next1 /\ Line' = Tail(Line) /\ Next1 \in News
      /\ Next1.answer.verdict = "ok" /\ Op[w] = "delete" => Next1.answer.row = NoRow
      /\ \A v \in Writes : Next1.entry = Direct(v) => pc[v] = "direct"
  BY <1>1, LineHead
<1>3. Next1.entry = Direct(w) /\ pc[w] = "direct"
  <2>1. Next1.entry \in Entries
    BY <1>2 DEF News
  <2>2. Next1.entry = Direct(w)
    BY <1>1, <2>1 DEF Entries, Direct
  <2> QED  BY <1>2, <2>2
<1>4. /\ canonical \in [Records -> Row] /\ Cached \subseteq Records /\ Op[w] \in Ops
      /\ Target[w] \in Cached => w \in outbox
  BY <1>3, EngineAssumption, WritesAssumption
  DEF CalmInv, TypeOK, CacheTypeOK, OverlayMatches
<1>5. ASSUME NEW x \in Cached
      PROVE  Reports(Next1, x) <=>
               Next1.answer.verdict = "ok" /\ Target[w] = x /\ Op[w] # "opaque"
  BY <1>1 DEF Reports, About
<1>6. CASE Confirm(w)
  <2>1. /\ Next1.answer.verdict = "ok" /\ UNCHANGED batch
        /\ pc' = [pc EXCEPT ![w] = "confirmed"]
        /\ canonical' = IF w \in outbox
             THEN [canonical EXCEPT ![Target[w]] = Merged(w, Next1.answer, canonical[Target[w]])]
             ELSE canonical
    BY <1>6 DEF Confirm, SettleConfirmed
  <2>2. ASSUME NEW x \in Cached
        PROVE  canonical'[x] = IF Reports(Next1, x) THEN Next1.answer.row ELSE canonical[x]
    <3>1. CASE x # Target[w]
      BY <1>4, <1>5, <2>1, <3>1
    <3>2. CASE x = Target[w]
      <4>1. canonical'[x] = Merged(w, Next1.answer, canonical[x])
        BY <1>4, <2>1, <3>2
      <4>2. CASE Op[w] = "opaque"
        BY <1>5, <4>1, <4>2 DEF Merged, Lowered, LocalEffect
      <4>3. CASE Op[w] = "delete"
        BY <1>2, <1>5, <2>1, <3>2, <4>1, <4>3 DEF Merged, Lowered, LocalEffect
      <4>4. CASE Op[w] \in {"patch", "action", "create"}
        BY <1>5, <2>1, <3>2, <4>1, <4>4 DEF Merged, Lowered
      <4> QED  BY <1>4, <4>2, <4>3, <4>4 DEF Ops
    <3> QED  BY <3>1, <3>2
  <2> QED  BY <1>1, <1>2, <1>3, <2>1, <2>2 DEF Taken
<1>7. CASE Reject(w)
  <2>1. /\ Next1.answer.verdict # "ok" /\ UNCHANGED canonical
        /\ pc' = [pc EXCEPT ![w] = "rejected"]
        /\ batch' = IF Next1.answer.verdict = "conflict"
                    THEN Append(batch, Read(Target[w])) ELSE batch
    BY <1>7 DEF Reject, SettleRejected
  <2>2. \A x \in Cached : ~Reports(Next1, x)
    BY <2>1 DEF Reports
  <2> QED  BY <1>1, <1>2, <1>3, <2>1, <2>2 DEF Taken
<1> QED  BY <1>6, <1>7

LEMMA LineMoves ==
  ASSUME Reliable, CalmInv, TypeOK', [Next]_vars
  PROVE  \/ \E n \in News : Answered(n)
         \/ Taken
         \/ Refused
         \/ Aside
         \/ \E w \in Writes \ Sourced : DeliverLocally(w) /\ Line' = Line
         \/ \E r \in Records : RivalEdit(r) /\ Line' = Line
<1>1. TypeOK /\ HeldInv /\ OverlayMatches /\ ReliableInv /\ Deletes /\ pc \in [Writes -> PcStates]
      /\ arrived \in Seq(News)
  BY DEF CalmInv, TypeOK, PipelineTypeOK, TransportTypeOK
<1>2. ASSUME NEW w \in Writes,
             Issue(w) \/ Stamp(w) \/ Deliver(w) \/ Dispatch(w) \/ Release(w)
      PROVE  Aside
  <2>1. UNCHANGED <<net, arrived, world, canonical, rivals>>
    BY <1>2 DEF Issue, Stamp, Deliver, Dispatch, Release, cache, bounds
  <2>2. Line' = Line
    BY <2>1, LineStays DEF Answering
  <2>3. \A v \in Writes : pc'[v] = "confirmed" <=> pc[v] = "confirmed"
    BY <1>1, <1>2 DEF Issue, Stamp, Deliver, Dispatch, Release
  <2> QED  BY <2>1, <2>2, <2>3 DEF Aside
<1>3. ASSUME UNCHANGED <<pipeline, cache, world, rivals>>, Line' = Line PROVE Aside
  BY <1>3 DEF Aside, pipeline, cache
<1>4. ASSUME NEW w \in Writes, DeliverLocally(w)
      PROVE  w \in Writes \ Sourced /\ Line' = Line
  <2>1. UNCHANGED <<net, arrived>> /\ w \notin Sourced
    BY <1>4 DEF DeliverLocally
  <2> QED  BY <2>1, LineStays DEF Answering
<1>5. ASSUME NEW r \in Records, RivalEdit(r) PROVE Line' = Line
  BY <1>5, LineStays DEF RivalEdit, Answering
<1>6. ASSUME NEW q \in net, ServerExec(q) PROVE \E n \in News : Answered(n)
  <2> DEFINE plan == q.plans[Len(q.answers) + 1]
  <2>1. PICK answer \in Answers :
           /\ Replies(q, answer)
           /\ \/ \E r \in Records :
                   /\ plan = Read(r)
                   /\ answer.verdict = "ok" /\ answer.row = server[r] /\ UNCHANGED world
              \/ \E w \in Writes :
                   /\ plan = Direct(w)
                   /\ answer.verdict = Verdict(w, server[Target[w]])
                   /\ answer.row = IF answer.verdict = "ok"
                                   THEN Effect(w, server[Target[w]]) ELSE server[Target[w]]
                   /\ server' = [server EXCEPT ![Target[w]] = answer.row]
                   /\ log' = Append(log, [who |-> w, record |-> Target[w],
                                          verdict |-> answer.verdict])
    BY <1>1, <1>6, ReliableExec
  <2>2. UNCHANGED <<pipeline, cache, batch, sent, arrived, bounds>>
    BY <1>6, ServerOnly
  <2>6. ASSUME NEW w \in Writes, plan = Direct(w)
        PROVE  /\ pc[w] = "direct" /\ \A k \in DOMAIN Line : Line[k].entry # Direct(w)
               /\ Foremost(w)
    BY <1>1, <2>1, <2>2, <2>6, WayWaits, LineLacks, ServedFirst DEF Replies
  <2> DEFINE n == [entry |-> plan, answer |-> answer]
  <2>3. n \in News /\ Line' = Append(Line, n)
    BY <1>1, <2>1, <2>2, LineGrows
  <2>4. n.entry = plan /\ n.answer = answer
    OBVIOUS
  <2> HIDE DEF n, plan
  <2>5. Answered(n)
    BY <2>1, <2>2, <2>3, <2>4, <2>6 DEF Answered
  <2> QED  BY <2>3, <2>5
<1>7. ASSUME NEW q \in net, Respond(q) PROVE Aside
  <2>1. Line' = Line
    BY <1>1, <1>7, LineArrives
  <2> QED  BY <1>3, <1>7, <2>1 DEF Respond, bounds
<1>8. ASSUME NEW q \in net, Refuse(q) PROVE Refused
  <2>1. Line = <<>> /\ \A k \in DOMAIN Line' : Line'[k].answer = Fault("refused")
    BY <1>1, <1>8, LineRefused
  <2> QED  BY <1>8, <2>1 DEF Refused, Refuse
<1>9. Ingest => Taken
  BY TakenByRead
<1>10. ASSUME NEW w \in Writes, Confirm(w) \/ Reject(w) PROVE Taken
  BY <1>10, TakenByWrite
<1>11. SendBatch => Aside
  BY <1>3, LineSent DEF SendBatch, bounds
<1>12. ASSUME NEW r \in Records, Refresh(r) PROVE Aside
  <2>1. Line' = Line
    BY <1>12, LineStays DEF Refresh, Answering
  <2> QED  BY <1>3, <1>12, <2>1 DEF Refresh
<1>13. UNCHANGED vars => Aside
  <2>1. UNCHANGED vars => Line' = Line
    BY LineStays DEF vars, Answering
  <2> QED  BY <1>3, <2>1 DEF vars, bounds
<1> QED
  BY <1>1, <1>2, <1>4, <1>5, <1>6, <1>7, <1>8, <1>9, <1>10, <1>11, <1>12, <1>13, ReliableSteps

LEMMA CalmInit == Init => CalmInv /\ Line = <<>>
<1> SUFFICES ASSUME Init PROVE CalmInv /\ Line = <<>>
  OBVIOUS
<1>1. arrived = <<>> /\ Answering = {}
  BY DEF Init, Answering
<1>2. Line = <<>>
  BY <1>1 DEF Line
<1>3. ReliableInv
  BY <1>1 DEF Init, ReliableInv, NoReplay
<1>4. OverlayMatches
  BY DEF Init, OverlayMatches
<1> QED  BY <1>2, <1>3, <1>4, TypeInit, HeldInit DEF CalmInv, Deletes

LEMMA CalmNext == Reliable /\ CalmInv /\ [Next]_vars => CalmInv'
<1> SUFFICES ASSUME Reliable, CalmInv, [Next]_vars PROVE CalmInv'
  OBVIOUS
<1>1. TypeOK /\ HeldInv /\ OverlayMatches /\ ReliableInv /\ Deletes /\ Line \in Seq(News)
  BY LineIs DEF CalmInv
<1>2. TypeOK'
  BY <1>1, TypeNext
<1>3. HeldInv' /\ OverlayMatches' /\ ReliableInv'
  BY <1>1, <1>2, HeldNext, OverlayNext, ReliableNext
<1>4. Line' = Line => Deletes'
  BY <1>1 DEF Deletes
<1>5. ASSUME NEW n \in News, Answered(n) PROVE Deletes'
  <2>1. Line' = Append(Line, n)
    BY <1>5 DEF Answered
  <2>2. ASSUME n.answer.verdict = "ok", n.entry.kind # "read", Op[n.entry.write] = "delete"
        PROVE  n.answer.row = NoRow
    <3>1. \A r : n.entry # Read(r)
      BY <2>2 DEF Read
    <3>2. PICK w \in Writes : n.entry = Direct(w) /\ n.answer.row = Effect(w, server[Target[w]])
      BY <1>5, <2>2, <3>1 DEF Answered
    <3> QED  BY <2>2, <3>2 DEF Direct, Effect
  <2>3. \A k \in DOMAIN Line' : (k \in DOMAIN Line /\ Line'[k] = Line[k]) \/ Line'[k] = n
    BY <1>1, <2>1, AppendAt
  <2> QED  BY <1>1, <2>2, <2>3 DEF Deletes
<1>6. ASSUME Taken PROVE Deletes'
  <2>1. \A k \in DOMAIN Line' : k + 1 \in DOMAIN Line /\ Line'[k] = Line[k + 1]
    BY <1>1, <1>6, TailAt DEF Taken
  <2> QED  BY <1>1, <2>1 DEF Deletes
<1>7. ASSUME Refused PROVE Deletes'
  BY <1>7 DEF Refused, Deletes, Fault
<1>8. Deletes'
  BY <1>2, <1>4, <1>5, <1>6, <1>7, LineMoves DEF Aside
<1> QED  BY <1>2, <1>3, <1>8 DEF CalmInv

----------------------------------------------------------------------------
(* Where the plans of a first write and of those behind it stand.          *)

\* A plan stands where it stood, or has joined the batch.
LEMMA StandsFrom ==
  ASSUME Reliable, CalmInv, [Next]_vars, NEW e, NEW i, NEW k, Stands(e, i, k)'
  PROVE  \/ Stands(e, i, k)
         \/ /\ i = sent + 1 /\ k = Len(batch) + 1
            /\ \/ \E w \in Writes : Dispatch(w) /\ e = Direct(w)
               \/ \E r \in Records : e = Read(r)
<1>1. /\ TypeOK /\ HeldInv /\ ReliableInv /\ batch \in Seq(Entries)
      /\ DOMAIN batch = 1..Len(batch) /\ Len(batch) \in Nat
  BY LenProperties DEF CalmInv, TypeOK, TransportTypeOK
<1>2. UNCHANGED <<net, batch, sent>> => Stands(e, i, k)
  BY DEF Stands
<1>3. ASSUME NEW x \in Entries, UNCHANGED <<net, sent>>, batch' = Append(batch, x)
      PROVE  Stands(e, i, k) \/ (i = sent + 1 /\ k = Len(batch) + 1 /\ e = x)
  <2>1. /\ \A m \in DOMAIN batch : batch'[m] = batch[m]
        /\ \A m \in DOMAIN batch' : m \in DOMAIN batch \/ m = Len(batch) + 1
        /\ batch'[Len(batch) + 1] = x
    BY <1>1, <1>3, AppendAt
  <2> QED  BY <1>3, <2>1 DEF Stands
<1>4. ASSUME NEW w \in Writes, Dispatch(w) PROVE Direct(w) \in Entries
  BY PlanEntries
<1>5. \A r \in Records : Read(r) \in Entries
  BY DEF Entries, Read
<1>6. ASSUME NEW w \in Writes,
             Issue(w) \/ Stamp(w) \/ Deliver(w) \/ DeliverLocally(w) \/ Release(w) \/ Confirm(w)
      PROVE  Stands(e, i, k)
  BY <1>2, <1>6 DEF Issue, Stamp, Deliver, DeliverLocally, Release, Confirm
<1>7. ASSUME NEW w \in Writes, Reject(w)
      PROVE  Stands(e, i, k) \/ (i = sent + 1 /\ k = Len(batch) + 1 /\ e = Read(Target[w]))
  <2>1. Read(Target[w]) \in Entries /\ UNCHANGED <<net, sent>>
        /\ (batch' = batch \/ batch' = Append(batch, Read(Target[w])))
    BY <1>5, <1>7, WritesAssumption DEF Reject, SettleRejected
  <2> QED  BY <1>2, <1>3, <2>1
<1>8. ASSUME SendBatch PROVE Stands(e, i, k)
  <2> DEFINE q == [id |-> sent', plans |-> batch, answers |-> <<>>, open |-> TRUE]
  <2>1. /\ net' = net \cup {q} /\ batch' = <<>> /\ sent' = sent + 1
        /\ q.id = sent + 1 /\ q.plans = batch
    BY <1>8 DEF SendBatch
  <2> HIDE DEF q
  <2>2. PICK o \in net' : o.id = i /\ k \in DOMAIN o.plans /\ k > Len(o.answers) /\ o.plans[k] = e
    BY <2>1 DEF Stands
  <2> QED  BY <2>1, <2>2 DEF Stands
<1>9. ASSUME NEW q \in net, ServerExec(q) PROVE Stands(e, i, k)
  <2>1. PICK answer \in Answers : Replies(q, answer)
    BY <1>1, <1>9, ReliableExec
  <2> DEFINE p == [q EXCEPT !.answers = Append(@, answer)]
  <2>2. /\ q \in Requests /\ q.answers \in Seq(Answers) /\ Len(q.answers) \in Nat
        /\ UNCHANGED <<batch, sent>>
    BY <1>1, <1>9, ReliableRequest, ServerOnly
  <2>3. p.id = q.id /\ p.plans = q.plans /\ Len(p.answers) = Len(q.answers) + 1
        /\ net' = (net \ {q}) \cup {p}
    BY <2>1, <2>2, AppendProperties DEF Requests, Replies
  <2> HIDE DEF p
  <2>4. CASE \E o \in net' : /\ o.id = i /\ k \in DOMAIN o.plans
                              /\ k > Len(o.answers) /\ o.plans[k] = e
    <3>1. PICK o \in net' : o.id = i /\ k \in DOMAIN o.plans /\ k > Len(o.answers) /\ o.plans[k] = e
      BY <2>4
    <3>2. CASE o = p
      <4>1. DOMAIN q.plans = 1..Len(q.plans) /\ k \in Nat
        BY <1>1, <2>3, <3>1, <3>2, ReliableRequest
      <4> QED  BY <2>2, <2>3, <3>1, <3>2, <4>1 DEF Stands
    <3>3. CASE o # p
      BY <2>3, <3>1, <3>3 DEF Stands
    <3> QED  BY <3>2, <3>3
  <2> QED  BY <2>2, <2>4 DEF Stands
<1>10. ASSUME NEW q \in net, Respond(q) \/ Refuse(q) PROVE Stands(e, i, k)
  <2>1. net' = net \ {q} /\ UNCHANGED <<batch, sent>>
    BY <1>10 DEF Respond, Refuse
  <2> QED  BY <2>1 DEF Stands
<1>11. ASSUME NEW r \in Records, Refresh(r)
       PROVE  Stands(e, i, k) \/ (i = sent + 1 /\ k = Len(batch) + 1 /\ e = Read(r))
  BY <1>3, <1>5, <1>11 DEF Refresh
<1>12. ASSUME Ingest \/ (\E r \in Records : RivalEdit(r)) \/ UNCHANGED vars PROVE Stands(e, i, k)
  BY <1>2, <1>12 DEF Ingest, RivalEdit, vars
<1>13. ASSUME NEW w \in Writes, Dispatch(w)
       PROVE  Stands(e, i, k) \/ (i = sent + 1 /\ k = Len(batch) + 1 /\ e = Direct(w))
  BY <1>3, <1>4, <1>13 DEF Dispatch
<1> QED
  BY <1>1, <1>6, <1>7, <1>8, <1>9, <1>10, <1>11, <1>12, <1>13, WritesAssumption, ReliableSteps

\* The write whose answer the client takes waits for it.
LEMMA HeadWaits ==
  ASSUME CalmInv, NEW w \in Writes, HeadIsFor(w)
  PROVE  pc[w] = "direct"
<1>1. TypeOK /\ HeldInv /\ ReliableInv /\ arrived \in Seq(News)
  BY DEF CalmInv, TypeOK, TransportTypeOK
<1>2. arrived # <<>> /\ Next1.entry.kind = "direct" /\ Next1.entry.write = w
  BY DEF HeadIsFor, HeadIs
<1>3. 1 \in DOMAIN arrived /\ Next1 = arrived[1] /\ Next1 \in News
  BY <1>1, <1>2, TailAt DEF Next1
<1>4. Next1.entry = Direct(w)
  <2>1. Next1.entry \in Entries
    BY <1>3 DEF News
  <2> QED  BY <1>2, <2>1 DEF Entries, Direct
<1> QED  BY <1>1, <1>3, <1>4, WayWaits

Gate == {"turn", "stamped"}

\* The turn gate holds each write that waits for its start once, and a keyed
\* write has its claim from there on until it is settled.
TurnInv ==
  /\ \A i, j \in DOMAIN turn : turn[i] = turn[j] => i = j
  /\ \A w \in Writes : pc[w] \in Gate <=> \E i \in DOMAIN turn : turn[i] = w
  /\ \A w \in Writes : Keyed(w) /\ pc[w] \in Gate \cup {"started", "direct"} => w \in claimed

LEMMA TurnNext == Reliable /\ CalmInv /\ TurnInv /\ [Next]_vars => TurnInv'
<1> SUFFICES ASSUME Reliable, CalmInv, TurnInv, [Next]_vars PROVE TurnInv'
  OBVIOUS
<1>1. /\ TypeOK /\ HeldInv /\ ReliableInv /\ pc \in [Writes -> PcStates] /\ turn \in Seq(Writes)
      /\ \A k \in DOMAIN arrived : arrived[k].entry.kind # "flush"
  BY DEF CalmInv, TypeOK, PipelineTypeOK, ReliableInv
<1>2. ASSUME UNCHANGED <<turn, claimed>>, NEW w \in Writes, NEW s \in PcStates,
             pc' = [pc EXCEPT ![w] = s],
             \/ pc[w] \in Gate /\ s \in Gate
             \/ pc[w] = "started" /\ s = "direct"
             \/ pc[w] \notin Gate /\ s \notin Gate \cup {"started", "direct"}
      PROVE  TurnInv'
  BY <1>1, <1>2 DEF TurnInv, Gate, Keyed
<1>3. UNCHANGED <<pc, turn, claimed>> => TurnInv'
  BY DEF TurnInv, Keyed
<1>4. ASSUME NEW w \in Writes, Issue(w) PROVE TurnInv'
  <2>1. /\ pc[w] = "idle" /\ pc' = [pc EXCEPT ![w] = "turn"] /\ turn' = Append(turn, w)
        /\ claimed' = IF Keyed(w) THEN claimed \cup {w} ELSE claimed
    BY <1>4 DEF Issue
  <2>2. /\ \A i \in DOMAIN turn : i \in DOMAIN turn' /\ turn'[i] = turn[i]
        /\ \A i \in DOMAIN turn' : i \in DOMAIN turn \/ i = Len(turn) + 1
        /\ Len(turn) + 1 \in DOMAIN turn' /\ turn'[Len(turn) + 1] = w
    BY <1>1, <2>1, AppendAt
  <2>3. \A i \in DOMAIN turn : turn[i] # w
    BY <2>1 DEF TurnInv, Gate
  <2>4. \A i, j \in DOMAIN turn' : turn'[i] = turn'[j] => i = j
    BY <2>2, <2>3 DEF TurnInv
  <2>5. \A v \in Writes : pc'[v] \in Gate <=> \E i \in DOMAIN turn' : turn'[i] = v
    BY <1>1, <2>1, <2>2 DEF TurnInv, Gate
  <2>6. \A v \in Writes : Keyed(v) /\ pc'[v] \in Gate \cup {"started", "direct"} => v \in claimed'
    BY <1>1, <2>1 DEF TurnInv
  <2> QED  BY <2>4, <2>5, <2>6 DEF TurnInv, Keyed
<1>5. ASSUME NEW w \in Writes, Deliver(w) PROVE TurnInv'
  <2>1. /\ turn # <<>> /\ Head(turn) = w /\ pc[w] = "stamped"
        /\ pc' = [pc EXCEPT ![w] = "started"] /\ turn' = Tail(turn) /\ claimed' = claimed
    BY <1>5 DEF Deliver
  <2>2. /\ 1 \in DOMAIN turn /\ turn[1] = w
        /\ \A i \in DOMAIN turn' : /\ i + 1 \in DOMAIN turn /\ turn'[i] = turn[i + 1]
                                    /\ i \in Nat \ {0}
        /\ \A i \in DOMAIN turn : i = 1 \/ (i - 1 \in DOMAIN turn' /\ turn'[i - 1] = turn[i])
        /\ \A i \in DOMAIN turn : i \in Nat \ {0}
    BY <1>1, <2>1, TailAt
  <2>3. \A i, j \in DOMAIN turn' : turn'[i] = turn'[j] => i = j
    <3>1. ASSUME NEW i \in DOMAIN turn', NEW j \in DOMAIN turn', turn'[i] = turn'[j] PROVE i = j
      <4>1. i + 1 = j + 1
        BY <2>2, <3>1 DEF TurnInv
      <4> QED  BY <2>2, <4>1
    <3> QED  BY <3>1
  <2>4. ASSUME NEW v \in Writes PROVE pc'[v] \in Gate <=> \E i \in DOMAIN turn' : turn'[i] = v
    <3>1. CASE v = w
      <4>1. pc'[v] \notin Gate
        BY <1>1, <2>1, <3>1 DEF Gate
      <4>2. ASSUME NEW i \in DOMAIN turn', turn'[i] = v PROVE FALSE
        <5>1. i + 1 = 1
          BY <2>2, <3>1, <4>2 DEF TurnInv
        <5> QED  BY <2>2, <5>1
      <4> QED  BY <4>1, <4>2
    <3>2. CASE v # w
      <4>1. pc'[v] = pc[v]
        BY <1>1, <2>1, <3>2
      <4>2. (\E i \in DOMAIN turn : turn[i] = v) <=> \E i \in DOMAIN turn' : turn'[i] = v
        BY <2>2, <3>2
      <4> QED  BY <4>1, <4>2 DEF TurnInv
    <3> QED  BY <3>1, <3>2
  <2>5. \A v \in Writes : Keyed(v) /\ pc'[v] \in Gate \cup {"started", "direct"} => v \in claimed'
    BY <1>1, <2>1 DEF TurnInv, Gate
  <2> QED  BY <2>3, <2>4, <2>5 DEF TurnInv, Keyed
<1>6. ASSUME NEW w \in Writes, Stamp(w) PROVE TurnInv'
  BY <1>2, <1>6 DEF Stamp, Gate, PcStates
<1>7. ASSUME NEW w \in Writes, Dispatch(w) PROVE TurnInv'
  BY <1>2, <1>7 DEF Dispatch, PcStates
<1>8. ASSUME NEW w \in Writes, DeliverLocally(w) PROVE TurnInv'
  <2>1. PICK s \in {"confirmed", "rejected"} : pc' = [pc EXCEPT ![w] = s]
    BY <1>8 DEF DeliverLocally
  <2> QED  BY <1>2, <1>8, <2>1 DEF DeliverLocally, Gate, PcStates
<1>9. ASSUME NEW w \in Writes, Confirm(w) \/ Reject(w) PROVE TurnInv'
  <2>1. pc[w] = "direct"
    BY <1>9, HeadWaits DEF Confirm, Reject
  <2>2. PICK s \in {"confirmed", "rejected"} : pc' = [pc EXCEPT ![w] = s]
    BY <1>9 DEF Confirm, Reject, SettleConfirmed, SettleRejected
  <2> QED  BY <1>2, <1>9, <2>1, <2>2 DEF Confirm, Reject, Gate, PcStates
<1>10. ASSUME NEW w \in Writes, Release(w) PROVE TurnInv'
  <2>1. UNCHANGED <<pc, turn>> /\ claimed' = claimed \ {w} /\ pc[w] \in {"confirmed", "rejected"}
    BY <1>10 DEF Release, Settled
  <2> QED  BY <2>1 DEF TurnInv, Gate, Keyed
<1>11. ASSUME NEW q \in net, ServerExec(q) \/ Respond(q) \/ Refuse(q) PROVE TurnInv'
  BY <1>3, <1>11, ServerOnly DEF Respond, Refuse, pipeline
<1>12. ASSUME NEW r \in Records, RivalEdit(r) \/ Refresh(r) PROVE TurnInv'
  BY <1>3, <1>12 DEF RivalEdit, Refresh, pipeline
<1>13. SendBatch \/ Ingest \/ UNCHANGED vars => TurnInv'
  BY <1>3 DEF SendBatch, Ingest, vars, pipeline
<1> QED
  BY <1>1, <1>4, <1>5, <1>6, <1>7, <1>8, <1>9, <1>10, <1>11, <1>12, <1>13, ReliableSteps

\* A first write and another to its record: while the one waits for its start
\* the other waits behind it, and it stands before the other to the end.
Precedes(w, v) ==
  \A i \in DOMAIN turn : turn[i] = v => \E j \in DOMAIN turn : j < i /\ turn[j] = w
Leads(w, v) ==
  /\ pc[w] \in Gate /\ v \in claimed => pc[v] = "turn" /\ Precedes(w, v)
  /\ pc[w] = "started" /\ v \in claimed => pc[v] \in Gate
  /\ \A i, j, k, m \in Nat :
       Stands(Direct(w), i, k) /\ Stands(Direct(v), j, m) => i < j \/ (i = j /\ k < m)
FirstInv ==
  /\ \A w \in Writes : first[w] => Keyed(w)
  /\ \A w, v \in Writes : first[w] /\ v # w /\ SameRecord(v, w) => Leads(w, v)

GuardedInv == CalmInv /\ TurnInv /\ ClaimInv /\ FirstInv

LEMMA FirstFrom ==
  ASSUME Reliable, CalmInv, [Next]_vars, NEW w \in Writes, first'[w] # first[w]
  PROVE  Issue(w)
<1>1. TypeOK /\ ReliableInv /\ first \in [Writes -> BOOLEAN]
  BY DEF CalmInv, TypeOK, PipelineTypeOK
<1>2. ASSUME NEW v \in Writes, Issue(v) PROVE Issue(w)
  BY <1>1, <1>2 DEF Issue
<1> QED
  BY <1>1, <1>2, ReliableSteps, ServerOnly
  DEF Stamp, Deliver, DeliverLocally, Dispatch, Release, Confirm, Reject, SendBatch, Ingest,
      Respond, Refuse, RivalEdit, Refresh, pipeline, vars

LEMMA LeadsStanding ==
  ASSUME Reliable, GuardedInv, [Next]_vars, NEW w \in Writes, NEW v \in Writes,
         first'[w], v # w, SameRecord(v, w),
         NEW i \in Nat, NEW j \in Nat, NEW k \in Nat, NEW m \in Nat,
         Stands(Direct(w), i, k)', Stands(Direct(v), j, m)'
  PROVE  i < j \/ (i = j /\ k < m)
<1>1. CalmInv /\ TypeOK /\ HeldInv /\ ReliableInv /\ TurnInv /\ FirstInv
  BY DEF GuardedInv, CalmInv
<1>2. ASSUME NEW x \in Writes, NEW a, NEW b, Stands(Direct(x), a, b)'
      PROVE  \/ Stands(Direct(x), a, b) /\ pc[x] = "direct"
             \/ a = sent + 1 /\ b = Len(batch) + 1 /\ pc[x] = "started"
  <2>1. \A r \in Records : Direct(x) # Read(r)
    BY DEF Direct, Read
  <2>2. \A y \in Writes : Direct(x) = Direct(y) => x = y
    BY DEF Direct
  <2>3. CASE Stands(Direct(x), a, b)
    BY <1>1, <2>3, StandsWaits
  <2>4. CASE ~Stands(Direct(x), a, b)
    BY <1>1, <1>2, <2>1, <2>2, <2>4, StandsFrom DEF Dispatch
  <2> QED  BY <2>3, <2>4
<1>3. pc[w] \in {"started", "direct"} /\ pc[v] \in {"started", "direct"}
  BY <1>2
<1>4. first[w] /\ v \in claimed
  <2>1. ~Issue(w)
    BY <1>3 DEF Issue
  <2> QED  BY <1>1, <1>3, <2>1, FirstFrom DEF TurnInv, SameRecord
<1>5. Leads(w, v)
  BY <1>1, <1>4 DEF FirstInv
<1>6. pc[w] = "direct"
  BY <1>3, <1>4, <1>5 DEF Leads, Gate
<1>7. Stands(Direct(w), i, k) /\ i <= sent + 1 /\ (i = sent + 1 => k <= Len(batch))
  BY <1>1, <1>2, <1>6, StandsIn
<1>8. CASE Stands(Direct(v), j, m)
  BY <1>5, <1>7, <1>8 DEF Leads
<1>9. CASE j = sent + 1 /\ m = Len(batch) + 1
  <2>1. sent \in Nat /\ Len(batch) \in Nat
    BY <1>1, LenProperties DEF TypeOK, TransportTypeOK
  <2> QED  BY <1>7, <1>9, <2>1
<1> QED  BY <1>2, <1>8, <1>9

LEMMA LeadsClaims ==
  ASSUME Reliable, GuardedInv, [Next]_vars, NEW w \in Writes, NEW v \in Writes,
         first'[w], v # w, SameRecord(v, w)
  PROVE  /\ pc'[w] \in Gate /\ v \in claimed' => pc'[v] = "turn" /\ Precedes(w, v)'
         /\ pc'[w] = "started" /\ v \in claimed' => pc'[v] \in Gate
<1> DEFINE Goal == /\ pc'[w] \in Gate /\ v \in claimed' => pc'[v] = "turn" /\ Precedes(w, v)'
                   /\ pc'[w] = "started" /\ v \in claimed' => pc'[v] \in Gate
<1>1. /\ CalmInv /\ TypeOK /\ HeldInv /\ ReliableInv /\ TurnInv /\ FirstInv /\ ClaimInv
      /\ pc \in [Writes -> PcStates] /\ turn \in Seq(Writes) /\ Keyed(w) /\ Keyed(v)
      /\ Target[w] \in Records
  BY WritesAssumption DEF GuardedInv, CalmInv, TypeOK, PipelineTypeOK, SameRecord
<1>2. ~Issue(w) => Leads(w, v)
  BY <1>1, FirstFrom DEF FirstInv
<1>3. UNCHANGED <<pc, turn, claimed>> /\ ~Issue(w) => Goal
  BY <1>2 DEF Leads, Precedes
<1>4. ASSUME NEW x \in Writes, NEW s, pc[x] \notin Gate, s \notin Gate \cup {"started"},
             pc' = [pc EXCEPT ![x] = s], UNCHANGED <<turn, claimed>>, ~Issue(w)
      PROVE  Goal
  BY <1>1, <1>2, <1>4 DEF Leads, Precedes, Gate
<1>5. ASSUME NEW x \in Writes, Issue(x) PROVE Goal
  <2>1. /\ pc[x] = "idle" /\ pc' = [pc EXCEPT ![x] = "turn"] /\ turn' = Append(turn, x)
        /\ claimed' \subseteq claimed \cup {x} /\ first' = [first EXCEPT ![x] = IsFirstWrite(x)]
    BY <1>5 DEF Issue
  <2>2. /\ \A i \in DOMAIN turn : i \in DOMAIN turn' /\ turn'[i] = turn[i] /\ i < Len(turn) + 1
        /\ \A i \in DOMAIN turn' : i \in DOMAIN turn \/ i = Len(turn) + 1
        /\ turn'[Len(turn) + 1] = x
    BY <1>1, <2>1, AppendAt
  <2>3. CASE x = w
    <3>1. outstanding[Target[w]] = 0
      BY <1>1, <2>1, <2>3 DEF IsFirstWrite, TypeOK, PipelineTypeOK
    <3>2. Claims(Target[w]) = {}
      BY <1>1, <3>1, ClaimsFinite, FS_EmptySet DEF ClaimInv, OutstandingCounts
    <3>3. v \notin claimed
      BY <3>2 DEF Claims, SameRecord
    <3> QED  BY <2>1, <2>3, <3>3
  <2>4. CASE x # w
    <3>1. Leads(w, v) /\ pc'[w] = pc[w]
      <4>1. ~Issue(w)
        BY <1>1, <1>5, <2>1, <2>4 DEF Issue
      <4> QED  BY <1>1, <1>2, <2>1, <2>4, <4>1
    <3>2. CASE x = v
      <4>1. \A i \in DOMAIN turn : turn[i] # v
        BY <1>1, <2>1, <3>2 DEF TurnInv, Gate
      <4>2. pc[w] \in Gate => \E j \in DOMAIN turn : turn[j] = w
        BY <1>1 DEF TurnInv
      <4>3. pc[w] \in Gate => Precedes(w, v)'
        BY <2>2, <4>1, <4>2 DEF Precedes
      <4> QED  BY <1>1, <2>1, <3>1, <3>2, <4>3 DEF Gate
    <3>3. CASE x # v
      <4>1. pc'[v] = pc[v] /\ (v \in claimed' => v \in claimed)
        BY <1>1, <2>1, <3>3
      <4>2. Precedes(w, v) => Precedes(w, v)'
        BY <2>2, <3>3 DEF Precedes
      <4> QED  BY <3>1, <4>1, <4>2 DEF Leads
    <3> QED  BY <3>2, <3>3
  <2> QED  BY <2>3, <2>4
<1>6. ASSUME NEW x \in Writes, Stamp(x) PROVE Goal
  <2>1. /\ turn # <<>> /\ Head(turn) = x /\ pc[x] = "turn" /\ pc' = [pc EXCEPT ![x] = "stamped"]
        /\ UNCHANGED <<turn, claimed>>
    BY <1>6 DEF Stamp
  <2>2. Leads(w, v)
    BY <1>2, <1>6, <2>1 DEF Issue, Stamp
  <2>3. 1 \in DOMAIN turn /\ turn[1] = x /\ \A j \in DOMAIN turn : j \in Nat \ {0}
    BY <1>1, <2>1, TailAt
  <2>4. x = v => ~Precedes(w, v)
    BY <2>3 DEF Precedes
  <2>5. Precedes(w, v)' <=> Precedes(w, v)
    BY <2>1 DEF Precedes
  <2> QED  BY <1>1, <2>1, <2>2, <2>4, <2>5 DEF Leads, Gate
<1>7. ASSUME NEW x \in Writes, Deliver(x) PROVE Goal
  <2>1. /\ turn # <<>> /\ Head(turn) = x /\ pc[x] = "stamped" /\ pc' = [pc EXCEPT ![x] = "started"]
        /\ turn' = Tail(turn) /\ claimed' = claimed /\ \A y \in Writes : pc[y] # "started"
    BY <1>7 DEF Deliver
  <2>2. Leads(w, v)
    BY <1>2, <1>7, <2>1 DEF Issue, Deliver
  <2>3. /\ turn[1] = x
        /\ \A i \in DOMAIN turn' : /\ i + 1 \in DOMAIN turn /\ turn'[i] = turn[i + 1]
                                    /\ i \in Nat \ {0}
        /\ \A i \in DOMAIN turn : i = 1 \/ (i - 1 \in DOMAIN turn' /\ turn'[i - 1] = turn[i])
        /\ \A i \in DOMAIN turn : i \in Nat \ {0}
    <3>1. turn \in Seq(Writes) /\ turn # <<>> /\ turn' = Tail(turn) /\ Head(turn) = x
      BY <1>1, <2>1
    <3> QED  BY <3>1, TailAt
  <2>4. ASSUME x # w, Precedes(w, v) PROVE Precedes(w, v)'
    <3>1. ASSUME NEW i \in DOMAIN turn', turn'[i] = v
          PROVE  \E j \in DOMAIN turn' : j < i /\ turn'[j] = w
      <4>1. PICK j \in DOMAIN turn : j < i + 1 /\ turn[j] = w
        BY <2>3, <2>4, <3>1 DEF Precedes
      <4>2. j - 1 \in DOMAIN turn' /\ turn'[j - 1] = w /\ j - 1 < i
        BY <2>3, <2>4, <4>1
      <4> QED  BY <4>2
    <3> QED  BY <3>1 DEF Precedes
  <2> QED  BY <1>1, <2>1, <2>2, <2>4 DEF Leads, Gate
<1>8. ASSUME NEW x \in Writes, Dispatch(x) \/ DeliverLocally(x) PROVE Goal
  <2>1. /\ pc[x] = "started" /\ UNCHANGED <<turn, claimed>>
        /\ \E s \in {"direct", "confirmed", "rejected"} : pc' = [pc EXCEPT ![x] = s]
    BY <1>8 DEF Dispatch, DeliverLocally
  <2>2. ~Issue(w)
    BY <1>8, <2>1 DEF Issue, Dispatch, DeliverLocally
  <2> QED  BY <1>4, <2>1, <2>2 DEF Gate
<1>9. ASSUME NEW x \in Writes, Confirm(x) \/ Reject(x) PROVE Goal
  <2>1. pc[x] = "direct"
    BY <1>1, <1>9, HeadWaits DEF Confirm, Reject
  <2>2. /\ UNCHANGED <<turn, claimed>>
        /\ \E s \in {"confirmed", "rejected"} : pc' = [pc EXCEPT ![x] = s]
    BY <1>9 DEF Confirm, Reject, SettleConfirmed, SettleRejected
  <2>3. ~Issue(w)
    BY <1>1, <2>1, <2>2 DEF Issue
  <2> QED  BY <1>4, <2>1, <2>2, <2>3 DEF Gate
<1>10. ASSUME NEW x \in Writes, Release(x) PROVE Goal
  <2>1. UNCHANGED <<pc, turn>> /\ claimed' \subseteq claimed
    BY <1>10 DEF Release
  <2>2. ~Issue(w)
    BY <1>1, <2>1 DEF Issue
  <2> QED  BY <1>2, <2>1, <2>2 DEF Leads, Precedes
<1>11. ASSUME UNCHANGED <<pc, turn, claimed>> PROVE Goal
  <2>1. ~Issue(w)
    BY <1>1, <1>11 DEF Issue
  <2> QED  BY <1>3, <1>11, <2>1
<1>12. SendBatch \/ Ingest \/ UNCHANGED vars => UNCHANGED <<pc, turn, claimed>>
  BY DEF SendBatch, Ingest, vars, pipeline
<1>13. ASSUME NEW q \in net, ServerExec(q) \/ Respond(q) \/ Refuse(q)
       PROVE  UNCHANGED <<pc, turn, claimed>>
  BY <1>13, ServerOnly DEF Respond, Refuse, pipeline
<1>14. ASSUME NEW r \in Records, RivalEdit(r) \/ Refresh(r) PROVE UNCHANGED <<pc, turn, claimed>>
  BY <1>14 DEF RivalEdit, Refresh, pipeline
<1> HIDE DEF Goal
<1>15. Goal
  BY <1>1, <1>5, <1>6, <1>7, <1>8, <1>9, <1>10, <1>11, <1>12, <1>13, <1>14, ReliableSteps
<1> QED  BY <1>15 DEF Goal

LEMMA FirstNext == Reliable /\ GuardedInv /\ [Next]_vars => FirstInv'
<1> SUFFICES ASSUME Reliable, GuardedInv, [Next]_vars PROVE FirstInv'
  OBVIOUS
<1>1. ASSUME NEW w \in Writes, first'[w] PROVE Keyed(w)
  <2>1. Issue(w) => Keyed(w)
    BY <1>1 DEF Issue, IsFirstWrite, GuardedInv, CalmInv, TypeOK, PipelineTypeOK
  <2> QED  BY <1>1, <2>1, FirstFrom DEF GuardedInv, FirstInv
<1>2. ASSUME NEW w \in Writes, NEW v \in Writes, first'[w], v # w, SameRecord(v, w)
      PROVE  Leads(w, v)'
  BY <1>2, LeadsClaims, LeadsStanding DEF Leads
<1> QED  BY <1>1, <1>2 DEF FirstInv, SameRecord, Keyed

----------------------------------------------------------------------------
(* The version a write is stamped with.                                    *)

\* No record that is versioned and cached is created: a created row starts
\* from version 0 again.
NotCreated == \A w \in Writes : Op[w] = "create" => Target[w] \notin Versioned \cap Cached

\* The news n confirm an edit of r.
Edits(n, r) ==
  /\ n.answer.verdict = "ok" /\ n.entry.kind # "read"
  /\ Lowered(n.entry.write) /\ Target[n.entry.write] = r

\* A version of r that is not the server's is followed by the news of an edit.
Current(r) ==
  server[r].there =>
    /\ canonical[r].there /\ canonical[r].ver # server[r].ver
         => \E m \in DOMAIN Line : Edits(Line[m], r)
    /\ \A k \in DOMAIN Line :
         Reports(Line[k], r) /\ Line[k].answer.row.there /\ Line[k].answer.row.ver # server[r].ver
           => \E m \in DOMAIN Line : m > k /\ Edits(Line[m], r)
CurrentInv == rivals = 0 => \A r \in Versioned \cap Cached : Current(r)

\* A write that has not reached the server yet carries the server's version.
Pending(w) ==
  pc[w] \in {"stamped", "started"} \/ \E i, k \in Nat : Stands(Direct(w), i, k)
StampInv ==
  \A w \in Writes : base[w] # NoVersion =>
    /\ Target[w] \in Versioned \cap Cached
    /\ rivals = 0 /\ server[Target[w]].there /\ Pending(w) => server[Target[w]].ver = base[w]

LEMMA EditsReport ==
  ASSUME NEW n, NEW r, Edits(n, r)
  PROVE  Reports(n, r)
BY DEF Edits, Reports, About, Lowered

\* Only the answer to an edit of r changes its version.
LEMMA AnswersEdit ==
  ASSUME CalmInv, NotCreated, NEW r \in Versioned \cap Cached, NEW n \in News, Answered(n)
  PROVE  /\ Reports(n, r) => n.answer.row = server'[r]
         /\ server'[r].there =>
              /\ server[r].there
              /\ \/ server'[r].ver = server[r].ver
                 \/ /\ Edits(n, r)
                    /\ \E v \in Writes : /\ Lowered(v) /\ Target[v] = r /\ pc[v] = "direct"
                                         /\ Foremost(v)
<1> DEFINE Goal == /\ Reports(n, r) => n.answer.row = server'[r]
                   /\ server'[r].there =>
                        /\ server[r].there
                        /\ \/ server'[r].ver = server[r].ver
                           \/ /\ Edits(n, r)
                              /\ \E v \in Writes : /\ Lowered(v) /\ Target[v] = r
                                                   /\ pc[v] = "direct" /\ Foremost(v)
<1>1. server \in [Records -> Row] /\ r \in Records
  BY EngineAssumption DEF CalmInv, TypeOK, WorldTypeOK
<1>2. ASSUME NEW x \in Records, n.entry = Read(x), n.answer.verdict = "ok",
             n.answer.row = server[x], UNCHANGED world
      PROVE  Goal
  BY <1>2 DEF Reports, About, Read, world
<1>3. ASSUME NEW v \in Writes, n.entry = Direct(v), pc[v] = "direct", Foremost(v),
             n.answer.verdict = Verdict(v, server[Target[v]]),
             n.answer.row = IF n.answer.verdict = "ok"
                            THEN Effect(v, server[Target[v]]) ELSE server[Target[v]],
             server' = [server EXCEPT ![Target[v]] = n.answer.row]
      PROVE  Goal
  <2>1. n.entry.kind # "read" /\ n.entry.write = v
    BY <1>3 DEF Direct
  <2>2. CASE Target[v] # r
    BY <1>1, <1>3, <2>1, <2>2 DEF Reports, About
  <2>3. CASE Target[v] = r
    <3>1. server'[r] = n.answer.row /\ server[r] \in Row /\ Op[v] \in Ops /\ Op[v] # "create"
      BY <1>1, <1>3, <2>3, WritesAssumption DEF NotCreated
    <3>2. CASE n.answer.verdict # "ok"
      BY <1>3, <2>3, <3>1, <3>2
    <3>3. CASE n.answer.verdict = "ok" /\ Op[v] = "delete"
      BY <1>3, <2>3, <3>1, <3>3 DEF Effect, NoRow
    <3>4. CASE n.answer.verdict = "ok" /\ Op[v] = "opaque"
      <4>1. server'[r] = [server[r] EXCEPT !.by = @ \cup {v}]
        BY <1>3, <2>3, <3>1, <3>4 DEF Effect
      <4>2. server'[r].there = server[r].there /\ server'[r].ver = server[r].ver
        BY <3>1, <4>1 DEF Row
      <4> QED  BY <3>1, <4>2
    <3>5. CASE n.answer.verdict = "ok" /\ Lowered(v)
      <4>1. server[r].there
        BY <1>3, <2>3, <3>5 DEF Verdict, Lowered
      <4>2. Edits(n, r)
        BY <2>1, <2>3, <3>5 DEF Edits
      <4> QED  BY <1>3, <2>3, <3>1, <3>5, <4>1, <4>2
    <3> QED  BY <3>1, <3>2, <3>3, <3>4, <3>5 DEF Lowered, Ops
  <2> QED  BY <2>2, <2>3
<1> HIDE DEF Goal
<1>4. Goal
  BY <1>2, <1>3 DEF Answered
<1> QED  BY <1>4 DEF Goal

LEMMA CurrentAnswered ==
  ASSUME Reliable, CalmInv, NotCreated, NEW r \in Versioned \cap Cached, Current(r),
         NEW n \in News, Answered(n)
  PROVE  Current(r)'
<1> DEFINE new == Len(Line) + 1
<1>1. Line \in Seq(News) /\ canonical' = canonical
  BY LineIs DEF CalmInv, Answered, cache
<1>2. /\ new \in DOMAIN Line' /\ Line'[new] = n
      /\ \A k \in DOMAIN Line : k \in DOMAIN Line' /\ Line'[k] = Line[k] /\ k < new
      /\ \A k \in DOMAIN Line' : k \in DOMAIN Line \/ k = new
  BY <1>1, AppendAt DEF Answered
<1>3. /\ Reports(n, r) => n.answer.row = server'[r]
      /\ server'[r].there => server[r].there /\ (server'[r].ver = server[r].ver \/ Edits(n, r))
  BY AnswersEdit
<1> HIDE DEF new
<1>4. Current(r)' <=>
        (server'[r].there =>
           /\ canonical'[r].there /\ canonical'[r].ver # server'[r].ver
                => \E m \in DOMAIN Line' : Edits(Line'[m], r)
           /\ \A k \in DOMAIN Line' :
                Reports(Line'[k], r) /\ Line'[k].answer.row.there
                    /\ Line'[k].answer.row.ver # server'[r].ver
                  => \E m \in DOMAIN Line' : m > k /\ Edits(Line'[m], r))
  BY DEF Current, Edits, Reports, About, Lowered
<1> SUFFICES ASSUME server'[r].there
             PROVE  /\ canonical'[r].there /\ canonical'[r].ver # server'[r].ver
                         => \E m \in DOMAIN Line' : Edits(Line'[m], r)
                    /\ \A k \in DOMAIN Line' :
                         Reports(Line'[k], r) /\ Line'[k].answer.row.there
                             /\ Line'[k].answer.row.ver # server'[r].ver
                           => \E m \in DOMAIN Line' : m > k /\ Edits(Line'[m], r)
  BY <1>4
<1>5. ASSUME NEW k \in DOMAIN Line', Reports(Line'[k], r), Line'[k].answer.row.there,
             Line'[k].answer.row.ver # server'[r].ver
      PROVE  \E m \in DOMAIN Line' : m > k /\ Edits(Line'[m], r)
  <2>1. k \in DOMAIN Line /\ Line'[k] = Line[k] /\ k < new
    BY <1>2, <1>3, <1>5
  <2>2. CASE Edits(n, r)
    BY <1>2, <2>1, <2>2
  <2>3. CASE server'[r].ver = server[r].ver
    <3>1. PICK m \in DOMAIN Line : m > k /\ Edits(Line[m], r)
      BY <1>3, <1>5, <2>1, <2>3 DEF Current
    <3> QED  BY <1>2, <3>1
  <2> QED  BY <1>3, <2>2, <2>3
<1>6. ASSUME canonical'[r].there, canonical'[r].ver # server'[r].ver
      PROVE  \E m \in DOMAIN Line' : Edits(Line'[m], r)
  <2>1. CASE Edits(n, r)
    BY <1>2, <2>1
  <2>2. CASE server'[r].ver = server[r].ver
    <3>1. PICK m \in DOMAIN Line : Edits(Line[m], r)
      BY <1>1, <1>3, <1>6, <2>2 DEF Current
    <3> QED  BY <1>2, <3>1
  <2> QED  BY <1>3, <2>1, <2>2
<1> QED  BY <1>5, <1>6

LEMMA CurrentTaken ==
  ASSUME Reliable, CalmInv, NEW r \in Cached, Current(r), Taken
  PROVE  Current(r)'
<1> DEFINE n == Head(Line)
<1>1. Line \in Seq(News)
  BY LineIs DEF CalmInv
<1>2. /\ 1 \in DOMAIN Line /\ Line[1] = n
      /\ \A k \in DOMAIN Line' : k + 1 \in DOMAIN Line /\ Line'[k] = Line[k + 1] /\ k \in Nat \ {0}
      /\ \A k \in DOMAIN Line : k = 1 \/ (k - 1 \in DOMAIN Line' /\ Line'[k - 1] = Line[k])
      /\ \A k \in DOMAIN Line : k \in Nat \ {0}
  BY <1>1, TailAt DEF Taken
<1>3. /\ server' = server
      /\ canonical'[r] = IF Reports(n, r) THEN n.answer.row ELSE canonical[r]
  BY DEF Taken, world
<1>4. ~Reports(n, r) => ~Edits(n, r)
  BY EditsReport
<1> HIDE DEF n
<1>5. Current(r)' <=>
        (server'[r].there =>
           /\ canonical'[r].there /\ canonical'[r].ver # server'[r].ver
                => \E m \in DOMAIN Line' : Edits(Line'[m], r)
           /\ \A k \in DOMAIN Line' :
                Reports(Line'[k], r) /\ Line'[k].answer.row.there
                    /\ Line'[k].answer.row.ver # server'[r].ver
                  => \E m \in DOMAIN Line' : m > k /\ Edits(Line'[m], r))
  BY DEF Current, Edits, Reports, About, Lowered
<1>6. ASSUME NEW k \in DOMAIN Line, k # 1, Edits(Line[k], r)
      PROVE  \E m \in DOMAIN Line' : m = k - 1 /\ Edits(Line'[m], r)
  BY <1>2, <1>6
<1> SUFFICES ASSUME server[r].there
             PROVE  /\ canonical'[r].there /\ canonical'[r].ver # server[r].ver
                         => \E m \in DOMAIN Line' : Edits(Line'[m], r)
                    /\ \A k \in DOMAIN Line' :
                         Reports(Line'[k], r) /\ Line'[k].answer.row.there
                             /\ Line'[k].answer.row.ver # server[r].ver
                           => \E m \in DOMAIN Line' : m > k /\ Edits(Line'[m], r)
  BY <1>3, <1>5
<1>7. ASSUME NEW k \in DOMAIN Line', Reports(Line'[k], r), Line'[k].answer.row.there,
             Line'[k].answer.row.ver # server[r].ver
      PROVE  \E m \in DOMAIN Line' : m > k /\ Edits(Line'[m], r)
  <2>1. PICK m \in DOMAIN Line : m > k + 1 /\ Edits(Line[m], r)
    BY <1>2, <1>7 DEF Current
  <2>2. m # 1 /\ m - 1 > k
    BY <1>2, <1>7, <2>1
  <2> QED  BY <1>6, <2>1, <2>2
<1>8. ASSUME canonical'[r].there, canonical'[r].ver # server[r].ver
      PROVE  \E m \in DOMAIN Line' : Edits(Line'[m], r)
  <2>1. CASE Reports(n, r)
    <3>1. PICK m \in DOMAIN Line : m > 1 /\ Edits(Line[m], r)
      BY <1>2, <1>3, <1>8, <2>1 DEF Current
    <3> QED  BY <1>6, <3>1
  <2>2. CASE ~Reports(n, r)
    <3>1. PICK m \in DOMAIN Line : m # 1 /\ Edits(Line[m], r)
      BY <1>2, <1>3, <1>4, <1>8, <2>2 DEF Current
    <3> QED  BY <1>6, <3>1
  <2> QED  BY <2>1, <2>2
<1> QED  BY <1>7, <1>8

LEMMA CurrentNext ==
  Reliable /\ NotCreated /\ CalmInv /\ CurrentInv /\ [Next]_vars => CurrentInv'
<1> SUFFICES ASSUME Reliable, NotCreated, CalmInv, CurrentInv, [Next]_vars, rivals' = 0,
                    NEW r \in Versioned \cap Cached
             PROVE  Current(r)'
  BY DEF CurrentInv
<1>1. /\ TypeOK' /\ rivals \in Nat /\ canonical \in [Records -> Row] /\ r \in Records
  BY CalmNext, EngineAssumption DEF CalmInv, TypeOK, BoundsTypeOK, CacheTypeOK
<1>2. rivals = 0 => Current(r)
  BY DEF CurrentInv
<1>3. ASSUME NEW n \in News, Answered(n) PROVE Current(r)'
  BY <1>2, <1>3, CurrentAnswered DEF Answered, bounds
<1>4. Taken => Current(r)'
  BY <1>2, CurrentTaken DEF Taken, bounds
<1>5. Current(r)' <=>
        (server'[r].there =>
           /\ canonical'[r].there /\ canonical'[r].ver # server'[r].ver
                => \E m \in DOMAIN Line' : Edits(Line'[m], r)
           /\ \A k \in DOMAIN Line' :
                Reports(Line'[k], r) /\ Line'[k].answer.row.there
                    /\ Line'[k].answer.row.ver # server'[r].ver
                  => \E m \in DOMAIN Line' : m > k /\ Edits(Line'[m], r))
  BY DEF Current, Edits, Reports, About, Lowered
<1>6. ASSUME Refused PROVE Current(r)'
  <2>1. \A k \in DOMAIN Line' : ~Reports(Line'[k], r)
    BY <1>6 DEF Refused, Reports, Fault
  <2>2. Line = <<>> /\ UNCHANGED <<canonical, server, rivals>>
    BY <1>6 DEF Refused, cache, world
  <2>3. DOMAIN Line = {}
    BY <2>2
  <2> QED  BY <1>2, <1>5, <2>1, <2>2, <2>3 DEF Current
<1>7. ASSUME Aside PROVE Current(r)'
  BY <1>2, <1>5, <1>7 DEF Aside, world, Current
<1>8. ASSUME NEW w \in Writes \ Sourced, DeliverLocally(w), Line' = Line PROVE Current(r)'
  <2>1. UNCHANGED <<server, rivals>>
    BY <1>8 DEF DeliverLocally, world, bounds
  <2>2. canonical'[r].there => canonical[r].there /\ canonical'[r].ver = canonical[r].ver
    <3>1. CASE Target[w] = r
      <4>1. canonical'[r] = LocalEffect(w, canonical[r]) /\ canonical[r] \in Row
        BY <1>1, <1>8, <3>1 DEF DeliverLocally
      <4>2. Op[w] # "create"
        BY <3>1 DEF NotCreated
      <4>3. CASE Op[w] = "delete"
        BY <4>1, <4>3 DEF LocalEffect, NoRow
      <4>4. CASE Op[w] # "delete"
        <5>1. canonical'[r] \in {canonical[r], [canonical[r] EXCEPT !.by = @ \cup {w}]}
          BY <4>1, <4>2, <4>4 DEF LocalEffect
        <5> QED  BY <4>1, <5>1 DEF Row
      <4> QED  BY <4>3, <4>4
    <3>2. CASE Target[w] # r
      BY <1>1, <1>8, <3>2 DEF DeliverLocally
    <3> QED  BY <3>1, <3>2
  <2> QED  BY <1>2, <1>5, <1>8, <2>1, <2>2 DEF Current
<1>9. ASSUME NEW x \in Records, RivalEdit(x) PROVE FALSE
  BY <1>1, <1>9 DEF RivalEdit
<1> QED  BY <1>1, <1>3, <1>4, <1>6, <1>7, <1>8, <1>9, LineMoves

\* The overlay of patches, opaque actions and deletes shows no version of its own.
LEMMA VisibleVersion ==
  ASSUME TypeOK, NotCreated, NEW r \in Versioned \cap Cached, Visible(r).there
  PROVE  canonical[r].there /\ Visible(r).ver = canonical[r].ver
<1> DEFINE mine == {w \in outbox : Target[w] = r}
           whole == {w \in mine : Op[w] \in {"create", "delete"}}
           last == {w \in whole : \A v \in whole : seq[v] <= seq[w]}
           pick == CHOOSE w \in last : TRUE
           under == IF last = {} THEN canonical[r] ELSE LocalEffect(pick, NoRow)
           over == {w \in mine : Lowered(w) /\ \A v \in last : seq[w] > seq[v]}
<1>1. Visible(r) = IF under.there THEN [under EXCEPT !.by = @ \cup over] ELSE under
  BY DEF Visible
<1>2. canonical[r] \in Row /\ outbox \subseteq Writes
  BY EngineAssumption DEF TypeOK, CacheTypeOK
<1> HIDE DEF over
<1>3. last = {}
  <2> SUFFICES ASSUME last # {} PROVE FALSE
    OBVIOUS
  <2>1. pick \in last /\ under = LocalEffect(pick, NoRow)
    OBVIOUS
  <2>2. pick \in Writes /\ Target[pick] = r /\ Op[pick] \in {"create", "delete"}
    BY <1>2, <2>1
  <2> HIDE DEF pick, last, under
  <2>3. LocalEffect(pick, NoRow) = NoRow
    BY <2>2 DEF NotCreated, LocalEffect
  <2>4. ~under.there
    BY <2>1, <2>3 DEF NoRow
  <2> QED  BY <1>1, <2>4
<1>4. under = canonical[r]
  BY <1>3
<1> HIDE DEF under
<1>5. Visible(r).there = under.there /\ Visible(r).ver = under.ver
  BY <1>1, <1>2, <1>4 DEF Row
<1> QED  BY <1>4, <1>5

LEMMA PendingFrom ==
  ASSUME Reliable, CalmInv, [Next]_vars, NEW w \in Writes, ~Stamp(w)
  PROVE  base'[w] = base[w] /\ (Pending(w)' => Pending(w))
<1>1. /\ TypeOK /\ HeldInv /\ ReliableInv /\ pc \in [Writes -> PcStates]
      /\ base \in [Writes -> Nat \cup {NoVersion}]
  BY DEF CalmInv, TypeOK, PipelineTypeOK
<1> DEFINE Goal == /\ base'[w] = base[w]
                   /\ pc'[w] \in {"stamped", "started"} => pc[w] \in {"stamped", "started"}
<1>2. ASSUME NEW v \in Writes, Stamp(v) PROVE Goal
  BY <1>1, <1>2 DEF Stamp
<1>3. ASSUME NEW v \in Writes, Issue(v) \/ Deliver(v) \/ DeliverLocally(v) \/ Dispatch(v)
      PROVE  Goal
  BY <1>1, <1>3 DEF Issue, Deliver, DeliverLocally, Dispatch
<1>4. ASSUME NEW v \in Writes, Release(v) \/ Confirm(v) \/ Reject(v) PROVE Goal
  BY <1>1, <1>4 DEF Release, Confirm, Reject, SettleConfirmed, SettleRejected
<1>5. SendBatch \/ Ingest \/ UNCHANGED vars => Goal
  BY DEF SendBatch, Ingest, vars, pipeline
<1>6. ASSUME NEW q \in net, ServerExec(q) \/ Respond(q) \/ Refuse(q) PROVE Goal
  BY <1>6, ServerOnly DEF Respond, Refuse, pipeline
<1>7. ASSUME NEW r \in Records, RivalEdit(r) \/ Refresh(r) PROVE Goal
  BY <1>7 DEF RivalEdit, Refresh, pipeline
<1> HIDE DEF Goal
<1>8. Goal
  BY <1>1, <1>2, <1>3, <1>4, <1>5, <1>6, <1>7, ReliableSteps
<1>9. ASSUME NEW i \in Nat, NEW k \in Nat, Stands(Direct(w), i, k)' PROVE Pending(w)
  <2>1. \A r \in Records : Direct(w) # Read(r)
    BY DEF Direct, Read
  <2>2. \A v \in Writes : Direct(w) = Direct(v) => w = v
    BY DEF Direct
  <2>3. Stands(Direct(w), i, k) \/ Dispatch(w)
    BY <1>1, <1>9, <2>1, <2>2, StandsFrom
  <2> QED  BY <2>3 DEF Pending, Dispatch
<1>10. Pending(w)' => Pending(w)
  BY <1>8, <1>9 DEF Pending, Goal
<1> QED  BY <1>8, <1>10 DEF Goal

\* While the server has yet to see a stamped write it sees no other to its record.
LEMMA StampedLeads ==
  ASSUME GuardedInv, NEW w \in Writes, base[w] # NoVersion, Pending(w),
         NEW v \in Writes, v # w, Keyed(v), Target[v] = Target[w], pc[v] = "direct"
  PROVE  \E i, k \in Nat : /\ Stands(Direct(w), i, k)
                           /\ \A j, m \in Nat :
                                Stands(Direct(v), j, m) => i < j \/ (i = j /\ k < m)
<1>1. first[w] /\ Keyed(w) /\ v \in claimed
  BY DEF GuardedInv, ClaimInv, FirstInv, TurnInv
<1>2. Leads(w, v)
  BY <1>1 DEF GuardedInv, FirstInv, SameRecord
<1>3. pc[w] \notin {"stamped", "started"}
  BY <1>1, <1>2 DEF Leads, Gate
<1>4. PICK i, k \in Nat : Stands(Direct(w), i, k)
  BY <1>3 DEF Pending
<1> QED  BY <1>2, <1>4 DEF Leads

LEMMA StampedNow ==
  ASSUME Reliable, NotCreated, GuardedInv, CurrentInv, rivals = 0, NEW w \in Writes, Stamp(w),
         base'[w] # NoVersion
  PROVE  /\ Target[w] \in Versioned \cap Cached
         /\ server[Target[w]].there => server[Target[w]].ver = base'[w]
<1> DEFINE r == Target[w]
<1>1. /\ CalmInv /\ TypeOK /\ HeldInv /\ ReliableInv /\ Line \in Seq(News)
      /\ base \in [Writes -> Nat \cup {NoVersion}]
  BY LineIs DEF GuardedInv, CalmInv, TypeOK, PipelineTypeOK
<1>2. first[w] /\ r \in Versioned \cap Cached /\ Visible(r).there /\ base'[w] = Visible(r).ver
      /\ pc[w] = "turn"
  BY <1>1 DEF Stamp
<1>3. canonical[r].there /\ base'[w] = canonical[r].ver
  BY <1>1, <1>2, VisibleVersion
<1>4. ASSUME NEW m \in DOMAIN Line, Edits(Line[m], r) PROVE FALSE
  <2> DEFINE v == Line[m].entry.write
  <2>1. Line[m] \in News /\ Line[m].entry.kind # "flush"
    <3>1. Line[m] \in News
      BY <1>1
    <3>2. CASE \E j \in DOMAIN arrived : Line[m] = arrived[j]
      BY <1>1, <3>1, <3>2 DEF ReliableInv
    <3>3. CASE \E q \in net : \E j \in DOMAIN q.answers :
                 j \in DOMAIN q.plans /\ Line[m] = [entry |-> q.plans[j], answer |-> q.answers[j]]
      <4>1. PICK q \in net : \E j \in DOMAIN q.answers :
                 j \in DOMAIN q.plans /\ Line[m] = [entry |-> q.plans[j], answer |-> q.answers[j]]
        BY <3>3
      <4>2. PICK j \in DOMAIN q.plans : Line[m] = [entry |-> q.plans[j], answer |-> q.answers[j]]
        BY <4>1
      <4>3. Line[m].entry = q.plans[j]
        BY <4>2
      <4> QED  BY <1>1, <3>1, <4>3 DEF ReliableInv
    <3> QED  BY <1>1, <3>2, <3>3, <3>1, LineAt
  <2>2. Line[m].entry = Direct(v) /\ v \in Writes
    <3>1. Line[m].entry \in Entries /\ Line[m].entry.kind # "read"
      BY <1>4, <2>1 DEF News, Edits
    <3> QED  BY <2>1, <3>1 DEF Entries, Direct
  <2>3. pc[v] = "direct" /\ Lowered(v) /\ Target[v] = r
    BY <1>1, <1>4, <2>2, LineWaits DEF Edits
  <2>4. Keyed(w) /\ Keyed(v) /\ v # w /\ v \in claimed
    BY <1>2, <2>2, <2>3 DEF Keyed, Lowered, GuardedInv, FirstInv, TurnInv
  <2>5. Leads(w, v)
    BY <1>2, <2>2, <2>3, <2>4 DEF GuardedInv, FirstInv, SameRecord
  <2> QED  BY <1>2, <2>3, <2>4, <2>5 DEF Leads, Gate
<1>5. server[r].there => server[r].ver = canonical[r].ver
  BY <1>2, <1>3, <1>4 DEF CurrentInv, Current
<1> QED  BY <1>2, <1>3, <1>5

LEMMA StampNext ==
  Reliable /\ NotCreated /\ GuardedInv /\ CurrentInv /\ StampInv /\ [Next]_vars => StampInv'
<1> SUFFICES ASSUME Reliable, NotCreated, GuardedInv, CurrentInv, StampInv, [Next]_vars,
                    NEW w \in Writes, base'[w] # NoVersion
             PROVE  /\ Target[w] \in Versioned \cap Cached
                    /\ rivals' = 0 /\ server'[Target[w]].there /\ Pending(w)'
                         => server'[Target[w]].ver = base'[w]
  BY DEF StampInv
<1> DEFINE r == Target[w]
<1>1. CalmInv /\ TypeOK /\ TypeOK' /\ rivals \in Nat
  BY CalmNext DEF GuardedInv, CalmInv, TypeOK, BoundsTypeOK
<1>2. CASE Stamp(w)
  <2>1. r \in Versioned \cap Cached
    BY <1>1, <1>2 DEF Stamp, TypeOK, PipelineTypeOK
  <2>2. UNCHANGED <<rivals, server>>
    BY <1>2 DEF Stamp, world, bounds
  <2> QED  BY <1>2, <2>1, <2>2, StampedNow
<1>3. ASSUME ~Stamp(w) PROVE base'[w] = base[w] /\ (Pending(w)' => Pending(w))
  BY <1>1, <1>3, PendingFrom
<1>4. CASE ~Stamp(w)
  <2>1. /\ r \in Versioned \cap Cached
        /\ rivals = 0 /\ server[r].there /\ Pending(w) => server[r].ver = base[w]
    BY <1>3, <1>4 DEF StampInv
  <2> SUFFICES ASSUME rivals' = 0, server'[r].there, Pending(w)'
               PROVE  rivals = 0 /\ server[r].there /\ server'[r].ver = server[r].ver
    BY <1>3, <1>4, <2>1
  <2>2. ASSUME NEW n \in News, Answered(n)
        PROVE  rivals = 0 /\ server[r].there /\ server'[r].ver = server[r].ver
    <3>1. UNCHANGED <<rivals, pc>>
      BY <2>2 DEF Answered, bounds, pipeline
    <3>2. /\ server[r].there
          /\ \/ server'[r].ver = server[r].ver
             \/ \E v \in Writes : Lowered(v) /\ Target[v] = r /\ pc[v] = "direct" /\ Foremost(v)
      BY <1>1, <2>1, <2>2, AnswersEdit
    <3>3. ASSUME NEW v \in Writes, Lowered(v), Target[v] = r, pc[v] = "direct", Foremost(v)
          PROVE  FALSE
      <4>1. CASE v = w
        BY <3>1, <3>3, <4>1 DEF Foremost, Pending
      <4>2. CASE v # w
        <5>1. base[w] # NoVersion /\ Pending(w) /\ Keyed(v)
          BY <1>3, <1>4, <3>3 DEF Keyed, Lowered
        <5>2. PICK i, k \in Nat : /\ Stands(Direct(w), i, k)
                                  /\ \A j, m \in Nat :
                                       Stands(Direct(v), j, m) => i < j \/ (i = j /\ k < m)
          BY <3>3, <4>2, <5>1, StampedLeads
        <5>3. PICK j, m \in Nat : /\ Stands(Direct(v), j, m)
                                  /\ \A x \in Writes : \A a, b \in Nat :
                                       Stands(Direct(x), a, b) => j < a \/ (j = a /\ m <= b)
          BY <3>3 DEF Foremost
        <5>4. (i < j \/ (i = j /\ k < m)) /\ (j < i \/ (j = i /\ m <= k))
          BY <5>2, <5>3
        <5> QED  BY <5>4
      <4> QED  BY <4>1, <4>2
    <3> QED  BY <3>1, <3>2, <3>3
  <2>3. Taken \/ Refused \/ Aside => UNCHANGED <<rivals, server>>
    BY DEF Taken, Refused, Aside, world, bounds
  <2>4. ASSUME NEW v \in Writes, DeliverLocally(v) PROVE UNCHANGED <<rivals, server>>
    BY <2>4 DEF DeliverLocally, world, bounds
  <2>5. ASSUME NEW x \in Records, RivalEdit(x) PROVE FALSE
    BY <1>1, <2>5 DEF RivalEdit
  <2> QED  BY <1>1, <2>2, <2>3, <2>4, <2>5, LineMoves
<1> QED  BY <1>2, <1>4

LEMMA SelfNext ==
  Reliable /\ CalmInv /\ StampInv /\ NoSelfConflict /\ [Next]_vars => NoSelfConflict'
<1> SUFFICES ASSUME Reliable, CalmInv, StampInv, NoSelfConflict, [Next]_vars, rivals' = 0,
                    NEW i \in DOMAIN log'
             PROVE  log'[i].verdict # "conflict"
  BY DEF NoSelfConflict
<1>1. TypeOK' /\ rivals \in Nat /\ log \in Seq(Events) /\ log' \in Seq(Events)
  BY CalmNext DEF CalmInv, TypeOK, BoundsTypeOK, WorldTypeOK
<1>2. UNCHANGED <<log, rivals>> => log'[i].verdict # "conflict"
  BY DEF NoSelfConflict
<1>3. ASSUME NEW n \in News, Answered(n) PROVE log'[i].verdict # "conflict"
  <2>1. rivals = 0
    BY <1>3 DEF Answered, bounds
  <2>2. CASE UNCHANGED world
    BY <1>2, <1>3, <2>2 DEF Answered, world, bounds
  <2>3. ASSUME NEW w \in Writes, Foremost(w), n.answer.verdict = Verdict(w, server[Target[w]]),
               log' = Append(log, [who |-> w, record |-> Target[w], verdict |-> n.answer.verdict])
        PROVE  log'[i].verdict # "conflict"
    <3>1. Pending(w)
      BY <2>3 DEF Foremost, Pending
    <3>2. Verdict(w, server[Target[w]]) # "conflict"
      BY <2>1, <3>1 DEF StampInv, Verdict
    <3>3. /\ \A k \in DOMAIN log : log'[k] = log[k]
          /\ \A k \in DOMAIN log' : k \in DOMAIN log \/ k = Len(log) + 1
          /\ log'[Len(log) + 1].verdict = n.answer.verdict
      <4> DEFINE x == [who |-> w, record |-> Target[w], verdict |-> n.answer.verdict]
      <4>1. x \in Events /\ x.verdict = n.answer.verdict
        BY <1>1, WritesAssumption DEF Events, News, Answers
      <4> HIDE DEF x
      <4>2. log' = Append(log, x)
        BY <2>3 DEF x
      <4> QED  BY <1>1, <4>1, <4>2, AppendAt
    <3> QED  BY <2>1, <2>3, <3>2, <3>3 DEF NoSelfConflict
  <2> QED  BY <1>3, <2>2, <2>3 DEF Answered
<1>4. Taken \/ Refused \/ Aside => UNCHANGED <<log, rivals>>
  BY DEF Taken, Refused, Aside, world, bounds
<1>5. ASSUME NEW v \in Writes, DeliverLocally(v) PROVE UNCHANGED <<log, rivals>>
  BY <1>5 DEF DeliverLocally, world, bounds
<1>6. ASSUME NEW x \in Records, RivalEdit(x) PROVE FALSE
  BY <1>1, <1>6 DEF RivalEdit
<1> QED  BY <1>1, <1>2, <1>3, <1>4, <1>5, <1>6, LineMoves

\* Where no request is lost or overtaken, and the versioned records in the
\* cache are not created anew, the caller's own writes never conflict: the
\* first write to a record reaches the server before all that wait behind it,
\* and was stamped once all edits before it had been taken.
THEOREM NeverSelfConflicts == Reliable /\ NotCreated => (Spec => []NoSelfConflict)
<1> SUFFICES ASSUME Reliable, NotCreated PROVE Spec => []NoSelfConflict
  OBVIOUS
<1> DEFINE AllInv == GuardedInv /\ CurrentInv /\ StampInv /\ NoSelfConflict
<1>1. Init => AllInv
  <2> SUFFICES ASSUME Init PROVE AllInv
    OBVIOUS
  <2>1. CalmInv /\ ClaimInv /\ Line = <<>>
    BY CalmInit, ClaimInit
  <2>2. TurnInv /\ FirstInv /\ StampInv /\ NoSelfConflict
    BY DEF Init, TurnInv, Gate, FirstInv, StampInv, NoSelfConflict
  <2>3. CurrentInv
    BY <2>1, EngineAssumption DEF Init, CurrentInv, Current
  <2> QED  BY <2>1, <2>2, <2>3 DEF GuardedInv
<1>2. AllInv /\ [Next]_vars => AllInv'
  <2> SUFFICES ASSUME AllInv, [Next]_vars PROVE AllInv'
    OBVIOUS
  <2>1. CalmInv /\ TypeOK /\ ClaimInv /\ TurnInv
    BY DEF GuardedInv, CalmInv
  <2>2. CalmInv' /\ ClaimInv' /\ TurnInv' /\ FirstInv'
    BY <2>1, CalmNext, ClaimNext, TurnNext, FirstNext
  <2>3. CurrentInv' /\ StampInv' /\ NoSelfConflict'
    BY <2>1, CurrentNext, StampNext, SelfNext
  <2> QED  BY <2>2, <2>3 DEF GuardedInv
<1>3. AllInv => NoSelfConflict
  OBVIOUS
<1> QED  BY <1>1, <1>2, <1>3, PTL DEF Spec

----------------------------------------------------------------------------
(* The version that beat a write.                                          *)

\* The versioned records in the cache are only ever edited: each success is
\* one more version.
OnlyEdited == \A w \in Writes : Target[w] \in Versioned \cap Cached => Lowered(w)

Successes(r) == {e \in Events : e.record = r /\ e.verdict = "ok"}

\* Versions count successes, and go up from the cache along the line to the server.
Counted(r) == server[r].ver = Count(log, Successes(r))
Rising(r) ==
  /\ canonical[r].ver <= server[r].ver
  /\ \A k \in DOMAIN Line : Reports(Line[k], r) =>
       /\ canonical[r].ver <= Line[k].answer.row.ver /\ Line[k].answer.row.ver <= server[r].ver
       /\ \A m \in DOMAIN Line : k < m /\ Reports(Line[m], r)
            => Line[k].answer.row.ver <= Line[m].answer.row.ver
RisingInv == \A r \in Versioned \cap Cached : Counted(r) /\ Rising(r)

\* The cache has version n of r, or it is on its way: the loser has yet to hear
\* of its conflict, or the read it then asks for is under way.
Fetched(r, n) ==
  \/ canonical[r].ver >= n
  \/ \E k \in DOMAIN Line : \E w \in Writes :
       Line[k].entry = Direct(w) /\ Target[w] = r /\ Line[k].answer.verdict = "conflict"
  \/ \E i, k \in Nat : Stands(Read(r), i, k)
  \/ \E k \in DOMAIN Line : /\ Line[k].entry = Read(r) /\ Line[k].answer.verdict = "ok"
                            /\ Line[k].answer.row.ver >= n
LoserInv ==
  \A i \in DOMAIN log : log[i].verdict = "conflict" =>
    /\ log[i].record \in Versioned
    /\ log[i].record \in Cached => Fetched(log[i].record, VersionBefore(i))

\* How a step counts.
LEMMA CountedAppend ==
  ASSUME TypeOK, NEW r, NEW e \in Events, log' = Append(log, e)
  PROVE  /\ Count(log', Successes(r))
              = Count(log, Successes(r)) + (IF e.record = r /\ e.verdict = "ok" THEN 1 ELSE 0)
         /\ \A i \in DOMAIN log : log'[i] = log[i] /\ VersionBefore(i)' = VersionBefore(i)
         /\ \A i \in DOMAIN log' : i \in DOMAIN log \/ log'[i] = e
<1>1. log \in Seq(Events) /\ DOMAIN log = 1..Len(log) /\ Len(log) \in Nat
  BY LenProperties DEF TypeOK, WorldTypeOK
<1>2. Count(log', Successes(r))
        = Count(log, Successes(r)) + (IF e \in Successes(r) THEN 1 ELSE 0)
  BY <1>1, CountAppend
<1>3. /\ \A i \in DOMAIN log : log'[i] = log[i]
      /\ \A i \in DOMAIN log' : i \in DOMAIN log \/ log'[i] = e
  BY <1>1, AppendAt
<1>4. ASSUME NEW i \in DOMAIN log PROVE VersionBefore(i)' = VersionBefore(i)
  <2>1. \A j \in 1..(i - 1) : j \in DOMAIN log
    BY <1>1
  <2>2. {j \in 1..(i - 1) : log'[j].record = log'[i].record /\ log'[j].verdict = "ok"}
          = {j \in 1..(i - 1) : log[j].record = log[i].record /\ log[j].verdict = "ok"}
    BY <1>3, <2>1
  <2> QED  BY <2>2 DEF VersionBefore
<1>5. e \in Successes(r) <=> e.record = r /\ e.verdict = "ok"
  BY DEF Successes
<1> QED  BY <1>2, <1>3, <1>4, <1>5

LEMMA BeatenBefore ==
  ASSUME TypeOK, NEW i \in DOMAIN log
  PROVE  VersionBefore(i) \in Nat /\ VersionBefore(i) <= Count(log, Successes(log[i].record))
<1> DEFINE r == log[i].record
           earlier == {j \in 1..(i - 1) : log[j].record = r /\ log[j].verdict = "ok"}
<1>1. log \in Seq(Events) /\ DOMAIN log = 1..Len(log) /\ Len(log) \in Nat
  BY LenProperties DEF TypeOK, WorldTypeOK
<1>2. \A j \in 1..(i - 1) : j \in DOMAIN log /\ log[j] \in Events
  BY <1>1
<1>3. earlier \subseteq At(log, Successes(r))
  BY <1>2 DEF At, Successes
<1>4. IsFiniteSet(At(log, Successes(r)))
  BY <1>1, CountType
<1> HIDE DEF r
<1>5. IsFiniteSet(earlier) /\ Cardinality(earlier) <= Cardinality(At(log, Successes(r)))
      /\ Cardinality(earlier) \in Nat
  BY <1>3, <1>4, FS_Subset, FS_CardinalityType
<1> QED  BY <1>5 DEF VersionBefore, Count, r

LEMMA CountedAnswered ==
  ASSUME Reliable, CalmInv, OnlyEdited, NEW r \in Versioned \cap Cached, Counted(r),
         NEW n \in News, Answered(n)
  PROVE  /\ Counted(r)' /\ server[r].ver <= server'[r].ver
         /\ Reports(n, r) => n.answer.row = server'[r]
<1>1. TypeOK /\ server \in [Records -> Row] /\ r \in Records /\ server[r].ver \in Nat
  BY EngineAssumption DEF CalmInv, TypeOK, WorldTypeOK, Row
<1>2. Reports(n, r) => n.answer.row = server'[r]
  BY AnswersEdit DEF OnlyEdited, NotCreated, Lowered
<1>3. CASE UNCHANGED world
  BY <1>1, <1>2, <1>3 DEF world, Counted
<1>4. ASSUME NEW v \in Writes, n.answer.verdict = Verdict(v, server[Target[v]]),
             n.answer.row = IF n.answer.verdict = "ok"
                            THEN Effect(v, server[Target[v]]) ELSE server[Target[v]],
             server' = [server EXCEPT ![Target[v]] = n.answer.row],
             log' = Append(log, [who |-> v, record |-> Target[v], verdict |-> n.answer.verdict])
      PROVE  Counted(r)' /\ server[r].ver <= server'[r].ver
  <2> DEFINE e == [who |-> v, record |-> Target[v], verdict |-> n.answer.verdict]
  <2>1. e \in Events /\ e.record = Target[v] /\ e.verdict = n.answer.verdict
    BY WritesAssumption DEF Events, News, Answers
  <2> HIDE DEF e
  <2>2. Count(log', Successes(r)) = Count(log, Successes(r))
            + (IF Target[v] = r /\ n.answer.verdict = "ok" THEN 1 ELSE 0)
    <3>1. log' = Append(log, e)
      BY <1>4 DEF e
    <3> QED  BY <1>1, <2>1, <3>1, CountedAppend
  <2>3. server'[r].ver = server[r].ver
            + (IF Target[v] = r /\ n.answer.verdict = "ok" THEN 1 ELSE 0)
    <3>1. CASE Target[v] = r /\ n.answer.verdict = "ok"
      <4>1. Lowered(v) /\ server'[r] = Effect(v, server[r]) /\ server[r] \in Row
        BY <1>1, <1>4, <3>1 DEF OnlyEdited
      <4>2. Effect(v, server[r]) = [server[r] EXCEPT !.by = @ \cup {v}, !.ver = @ + 1]
        BY <3>1, <4>1 DEF Effect, Lowered
      <4>3. Effect(v, server[r]).ver = server[r].ver + 1
        BY <4>1, <4>2 DEF Row
      <4> QED  BY <3>1, <4>1, <4>3
    <3>2. CASE ~(Target[v] = r /\ n.answer.verdict = "ok")
      BY <1>1, <1>4, <3>2
    <3> QED  BY <3>1, <3>2
  <2>4. Counted(r)'
    BY <2>2, <2>3 DEF Counted, Successes, Events
  <2> QED  BY <1>1, <2>3, <2>4
<1> QED  BY <1>2, <1>3, <1>4, <1>1 DEF Answered, Counted, world

LEMMA RisingAnswered ==
  ASSUME Reliable, CalmInv, OnlyEdited, NEW r \in Versioned \cap Cached, Counted(r), Rising(r),
         NEW n \in News, Answered(n), TypeOK'
  PROVE  Rising(r)'
<1> DEFINE new == Len(Line) + 1
<1>1. /\ Line \in Seq(News) /\ canonical' = canonical /\ server[r].ver \in Nat
      /\ canonical[r].ver \in Nat /\ server'[r].ver \in Nat
      /\ \A k \in DOMAIN Line : Line[k].answer.row.ver \in Nat
  <2>1. Line \in Seq(News) /\ TypeOK
    BY LineIs DEF CalmInv
  <2>2. \A k \in DOMAIN Line : Line[k] \in News
    BY <2>1
  <2> QED
    BY <2>1, <2>2, EngineAssumption
    DEF TypeOK, WorldTypeOK, CacheTypeOK, Row, News, Answers, Answered, cache
<1>2. /\ new \in DOMAIN Line' /\ Line'[new] = n /\ new \in Nat
      /\ \A k \in DOMAIN Line : k \in DOMAIN Line' /\ Line'[k] = Line[k] /\ k \in Nat /\ k < new
      /\ \A k \in DOMAIN Line' : k \in DOMAIN Line \/ k = new
  BY <1>1, AppendAt DEF Answered
<1>3. /\ server[r].ver <= server'[r].ver
      /\ Reports(n, r) => n.answer.row.ver = server'[r].ver
  BY CountedAnswered
<1> HIDE DEF new
<1>4. Rising(r)' <=>
        /\ canonical'[r].ver <= server'[r].ver
        /\ \A k \in DOMAIN Line' : Reports(Line'[k], r) =>
             /\ canonical'[r].ver <= Line'[k].answer.row.ver
             /\ Line'[k].answer.row.ver <= server'[r].ver
             /\ \A m \in DOMAIN Line' : k < m /\ Reports(Line'[m], r)
                  => Line'[k].answer.row.ver <= Line'[m].answer.row.ver
  BY DEF Rising, Reports, About
<1>5. canonical[r].ver <= server'[r].ver
  BY <1>1, <1>3 DEF Rising
<1>6. ASSUME NEW k \in DOMAIN Line', Reports(Line'[k], r)
      PROVE  /\ canonical[r].ver <= Line'[k].answer.row.ver
             /\ Line'[k].answer.row.ver <= server'[r].ver
  <2>1. CASE k = new
    BY <1>1, <1>2, <1>3, <1>5, <1>6, <2>1
  <2>2. CASE k \in DOMAIN Line
    <3>1. /\ canonical[r].ver <= Line[k].answer.row.ver /\ Line[k].answer.row.ver <= server[r].ver
          /\ Line'[k] = Line[k] /\ Line[k].answer.row.ver \in Nat
      BY <1>1, <1>2, <1>6, <2>2 DEF Rising
    <3> QED  BY <1>1, <1>3, <3>1
  <2> QED  BY <1>2, <2>1, <2>2
<1>7. ASSUME NEW k \in DOMAIN Line', NEW m \in DOMAIN Line', k < m,
             Reports(Line'[k], r), Reports(Line'[m], r)
      PROVE  Line'[k].answer.row.ver <= Line'[m].answer.row.ver
  <2>1. CASE m = new
    BY <1>2, <1>3, <1>6, <1>7, <2>1
  <2>2. CASE m \in DOMAIN Line
    <3>1. k \in DOMAIN Line
      BY <1>2, <1>7, <2>2
    <3> QED  BY <1>2, <1>7, <2>2, <3>1 DEF Rising
  <2> QED  BY <1>2, <2>1, <2>2
<1> QED  BY <1>1, <1>4, <1>5, <1>6, <1>7

LEMMA RisingTaken ==
  ASSUME Reliable, CalmInv, NEW r \in Versioned \cap Cached, Rising(r), Taken
  PROVE  Rising(r)' /\ canonical[r].ver <= canonical'[r].ver
<1> DEFINE n == Head(Line)
<1>1. Line \in Seq(News) /\ canonical[r].ver \in Nat
  BY LineIs, EngineAssumption DEF CalmInv, TypeOK, CacheTypeOK, Row
<1>2. /\ 1 \in DOMAIN Line /\ Line[1] = n
      /\ \A k \in DOMAIN Line' : k + 1 \in DOMAIN Line /\ Line'[k] = Line[k + 1] /\ k \in Nat \ {0}
      /\ \A k \in DOMAIN Line : k \in Nat \ {0}
  BY <1>1, TailAt DEF Taken
<1>3. /\ server' = server
      /\ canonical'[r] = IF Reports(n, r) THEN n.answer.row ELSE canonical[r]
  BY DEF Taken, world
<1> HIDE DEF n
<1>4. Rising(r)' <=>
        /\ canonical'[r].ver <= server'[r].ver
        /\ \A k \in DOMAIN Line' : Reports(Line'[k], r) =>
             /\ canonical'[r].ver <= Line'[k].answer.row.ver
             /\ Line'[k].answer.row.ver <= server'[r].ver
             /\ \A m \in DOMAIN Line' : k < m /\ Reports(Line'[m], r)
                  => Line'[k].answer.row.ver <= Line'[m].answer.row.ver
  BY DEF Rising, Reports, About
<1>5. canonical'[r].ver <= server[r].ver /\ canonical[r].ver <= canonical'[r].ver
  BY <1>1, <1>2, <1>3 DEF Rising
<1>6. ASSUME NEW k \in DOMAIN Line', Reports(Line'[k], r)
      PROVE  /\ canonical'[r].ver <= Line'[k].answer.row.ver
             /\ Line'[k].answer.row.ver <= server[r].ver
             /\ \A m \in DOMAIN Line' : k < m /\ Reports(Line'[m], r)
                  => Line'[k].answer.row.ver <= Line'[m].answer.row.ver
  <2>1. k + 1 \in DOMAIN Line /\ Line'[k] = Line[k + 1] /\ 1 < k + 1
    BY <1>2
  <2>2. /\ canonical[r].ver <= Line[k + 1].answer.row.ver
        /\ Line[k + 1].answer.row.ver <= server[r].ver
        /\ Reports(n, r) => n.answer.row.ver <= Line[k + 1].answer.row.ver
        /\ \A m \in DOMAIN Line : k + 1 < m /\ Reports(Line[m], r)
             => Line[k + 1].answer.row.ver <= Line[m].answer.row.ver
    BY <1>2, <1>6, <2>1 DEF Rising
  <2>3. ASSUME NEW m \in DOMAIN Line', k < m, Reports(Line'[m], r)
        PROVE  Line'[k].answer.row.ver <= Line'[m].answer.row.ver
    <3>1. m + 1 \in DOMAIN Line /\ Line'[m] = Line[m + 1] /\ k + 1 < m + 1
      BY <1>2, <2>3
    <3> QED  BY <2>1, <2>2, <2>3, <3>1
  <2> QED  BY <1>3, <2>1, <2>2, <2>3
<1> QED  BY <1>3, <1>4, <1>5, <1>6

LEMMA RisingNext ==
  Reliable /\ OnlyEdited /\ CalmInv /\ RisingInv /\ [Next]_vars
    => RisingInv' /\ \A r \in Versioned \cap Cached : server[r].ver <= server'[r].ver
<1> SUFFICES ASSUME Reliable, OnlyEdited, CalmInv, RisingInv, [Next]_vars,
                    NEW r \in Versioned \cap Cached
             PROVE  Counted(r)' /\ Rising(r)' /\ server[r].ver <= server'[r].ver
  BY DEF RisingInv
<1>1. /\ TypeOK /\ TypeOK' /\ Counted(r) /\ Rising(r) /\ r \in Records
      /\ server \in [Records -> Row] /\ canonical \in [Records -> Row]
      /\ server[r].ver \in Nat /\ canonical[r].ver \in Nat
  BY CalmNext, EngineAssumption DEF CalmInv, TypeOK, WorldTypeOK, CacheTypeOK, RisingInv, Row
<1>2. ASSUME NEW n \in News, Answered(n)
      PROVE  Counted(r)' /\ Rising(r)' /\ server[r].ver <= server'[r].ver
  BY <1>1, <1>2, CountedAnswered, RisingAnswered
<1>3. UNCHANGED world => Counted(r)' /\ server[r].ver <= server'[r].ver
  BY <1>1 DEF Counted, Successes, Events, world
<1>4. Taken => Counted(r)' /\ Rising(r)' /\ server[r].ver <= server'[r].ver
  BY <1>1, <1>3, RisingTaken DEF Taken
<1>5. Rising(r)' <=>
        /\ canonical'[r].ver <= server'[r].ver
        /\ \A k \in DOMAIN Line' : Reports(Line'[k], r) =>
             /\ canonical'[r].ver <= Line'[k].answer.row.ver
             /\ Line'[k].answer.row.ver <= server'[r].ver
             /\ \A m \in DOMAIN Line' : k < m /\ Reports(Line'[m], r)
                  => Line'[k].answer.row.ver <= Line'[m].answer.row.ver
  BY DEF Rising, Reports, About
<1>6. ASSUME Refused PROVE Counted(r)' /\ Rising(r)' /\ server[r].ver <= server'[r].ver
  <2>1. \A k \in DOMAIN Line' : ~Reports(Line'[k], r)
    BY <1>6 DEF Refused, Reports, Fault
  <2>2. canonical' = canonical /\ server' = server
    BY <1>6 DEF Refused, cache, world
  <2> QED  BY <1>1, <1>3, <1>5, <1>6, <2>1, <2>2 DEF Rising, Refused
<1>7. ASSUME Line' = Line, canonical'[r].ver = canonical[r].ver, server[r].ver <= server'[r].ver,
             server'[r].ver \in Nat
      PROVE  Rising(r)'
  <2>1. \A k \in DOMAIN Line : Line[k].answer.row.ver \in Nat
    <3>1. Line \in Seq(News)
      BY LineIs DEF CalmInv
    <3>2. \A k \in DOMAIN Line : Line[k] \in News
      BY <3>1
    <3> QED  BY <3>2 DEF News, Answers, Row
  <2> QED  BY <1>1, <1>5, <1>7, <2>1 DEF Rising
<1>8. ASSUME Aside PROVE Counted(r)' /\ Rising(r)' /\ server[r].ver <= server'[r].ver
  BY <1>1, <1>3, <1>7, <1>8 DEF Aside, world
<1>9. ASSUME NEW w \in Writes \ Sourced, DeliverLocally(w), Line' = Line
      PROVE  Counted(r)' /\ Rising(r)' /\ server[r].ver <= server'[r].ver
  <2>1. canonical'[r].ver = canonical[r].ver
    <3>1. CASE Target[w] = r
      <4>1. canonical'[r] = LocalEffect(w, canonical[r]) /\ canonical[r] \in Row /\ Lowered(w)
        BY <1>1, <1>9, <3>1 DEF DeliverLocally, OnlyEdited
      <4> QED  BY <4>1 DEF LocalEffect, Lowered, Row
    <3>2. CASE Target[w] # r
      BY <1>1, <1>9, <3>2 DEF DeliverLocally
    <3> QED  BY <3>1, <3>2
  <2> QED  BY <1>1, <1>3, <1>7, <1>9, <2>1 DEF DeliverLocally, world
<1>10. ASSUME NEW x \in Records, RivalEdit(x), Line' = Line
       PROVE  Counted(r)' /\ Rising(r)' /\ server[r].ver <= server'[r].ver
  <2> DEFINE e == [who |-> Rival, record |-> x, verdict |-> "ok"]
  <2>1. e \in Events /\ e.record = x /\ e.verdict = "ok" /\ log' = Append(log, e)
    BY <1>10 DEF RivalEdit, Events, Verdicts
  <2> HIDE DEF e
  <2>2. Count(log', Successes(r)) = Count(log, Successes(r)) + (IF x = r THEN 1 ELSE 0)
    BY <1>1, <2>1, CountedAppend
  <2>3. server'[r].ver = server[r].ver + (IF x = r THEN 1 ELSE 0)
    BY <1>1, <1>10 DEF RivalEdit, Row
  <2>4. Counted(r)'
    BY <1>1, <2>2, <2>3 DEF Counted, Successes, Events
  <2>5. canonical' = canonical
    BY <1>10 DEF RivalEdit, cache
  <2> QED  BY <1>1, <1>7, <1>10, <2>3, <2>4, <2>5
<1> QED  BY <1>1, <1>2, <1>4, <1>6, <1>8, <1>9, <1>10, LineMoves

\* A read that waits is served in the end, unless its request is refused.
LEMMA ReadStands ==
  ASSUME Faults = {}, CalmInv, [Next]_vars, NEW r \in Records, NEW i \in Nat, NEW k \in Nat,
         Stands(Read(r), i, k)
  PROVE  \/ Stands(Read(r), i, k)'
         \/ \E n \in News : /\ Line' = Append(Line, n) /\ n.entry = Read(r)
                            /\ n.answer.verdict = "ok" /\ n.answer.row = server[r]
<1>1. /\ Reliable /\ TypeOK /\ HeldInv /\ ReliableInv /\ batch \in Seq(Entries)
      /\ Read(r) \in Entries /\ \A w \in Writes : Direct(w) \in Entries
      /\ \A x \in Records : Read(x) \in Entries
  BY PlanEntries DEF Reliable, CalmInv, TypeOK, TransportTypeOK, Entries, Read
<1>2. UNCHANGED <<net, batch, sent>> => Stands(Read(r), i, k)'
  BY DEF Stands
<1>3. ASSUME NEW x \in Entries, UNCHANGED <<net, sent>>, batch' = Append(batch, x)
      PROVE  Stands(Read(r), i, k)'
  <2>1. \A m \in DOMAIN batch : m \in DOMAIN batch' /\ batch'[m] = batch[m]
    BY <1>1, <1>3, AppendAt
  <2> QED  BY <1>3, <2>1 DEF Stands
<1>4. ASSUME NEW w \in Writes,
             \/ Issue(w) \/ Stamp(w) \/ Deliver(w) \/ DeliverLocally(w)
             \/ Release(w) \/ Confirm(w) \/ Dispatch(w) \/ Reject(w)
      PROVE  Stands(Read(r), i, k)'
  <2>1. Target[w] \in Records
    BY WritesAssumption
  <2>2. \/ UNCHANGED <<net, batch, sent>>
        \/ /\ UNCHANGED <<net, sent>>
           /\ batch' \in {Append(batch, Direct(w)), Append(batch, Read(Target[w]))}
    BY <1>4 DEF Issue, Stamp, Deliver, DeliverLocally, Release, Confirm, Dispatch, Reject,
                SettleRejected
  <2> QED  BY <1>1, <1>2, <1>3, <2>1, <2>2
<1>5. ASSUME SendBatch PROVE Stands(Read(r), i, k)'
  <2> DEFINE q == [id |-> sent', plans |-> batch, answers |-> <<>>, open |-> TRUE]
  <2>1. /\ net' = net \cup {q} /\ sent' = sent + 1
        /\ q.id = sent + 1 /\ q.plans = batch /\ Len(q.answers) = 0
    BY <1>5 DEF SendBatch
  <2> HIDE DEF q
  <2>2. k > 0
    BY <1>1, ReliableRequest, LenProperties DEF Stands
  <2> QED  BY <2>1, <2>2 DEF Stands
<1>6. ASSUME NEW q \in net, ServerExec(q)
      PROVE  \/ Stands(Read(r), i, k)'
             \/ \E n \in News : /\ Line' = Append(Line, n) /\ n.entry = Read(r)
                                /\ n.answer.verdict = "ok" /\ n.answer.row = server[r]
  <2> DEFINE plan == q.plans[Len(q.answers) + 1]
  <2>1. PICK answer \in Answers :
          /\ Replies(q, answer)
          /\ \/ \E x \in Records : /\ plan = Read(x)
                                   /\ answer.verdict = "ok" /\ answer.row = server[x]
             \/ \E w \in Writes : plan = Direct(w)
    BY <1>1, <1>6, ReliableExec
  <2> DEFINE p == [q EXCEPT !.answers = Append(@, answer)]
             n == [entry |-> plan, answer |-> answer]
  <2>2. /\ q \in Requests /\ q.answers \in Seq(Answers) /\ Len(q.answers) \in Nat
        /\ UNCHANGED <<batch, sent, arrived>>
    BY <1>1, <1>6, ReliableRequest, ServerOnly
  <2>3. p.id = q.id /\ p.plans = q.plans /\ Len(p.answers) = Len(q.answers) + 1
        /\ net' = (net \ {q}) \cup {p}
    BY <2>1, <2>2, AppendProperties DEF Requests, Replies
  <2>4. n \in News /\ Line' = Append(Line, n) /\ n.entry = plan /\ n.answer = answer
    BY <1>1, <2>1, <2>2, LineGrows
  <2> HIDE DEF p, n, plan
  <2>5. CASE i = sent + 1 /\ k \in DOMAIN batch /\ batch[k] = Read(r)
    BY <2>2, <2>5 DEF Stands
  <2>6. ASSUME NEW o \in net, o.id = i, k \in DOMAIN o.plans, k > Len(o.answers),
               o.plans[k] = Read(r)
        PROVE  \/ Stands(Read(r), i, k)'
               \/ \E m \in News : /\ Line' = Append(Line, m) /\ m.entry = Read(r)
                                  /\ m.answer.verdict = "ok" /\ m.answer.row = server[r]
    <3>1. CASE o # q
      BY <2>3, <2>6, <3>1 DEF Stands
    <3>2. CASE o = q /\ k > Len(q.answers) + 1
      BY <2>3, <2>6, <3>2 DEF Stands
    <3>3. CASE o = q /\ k = Len(q.answers) + 1
      <4>1. plan = Read(r)
        BY <2>6, <3>3 DEF plan
      <4>2. answer.verdict = "ok" /\ answer.row = server[r]
        BY <2>1, <4>1 DEF Read, Direct
      <4> QED  BY <2>4, <4>1, <4>2
    <3> QED  BY <2>2, <2>6, <3>1, <3>2, <3>3
  <2> QED  BY <2>5, <2>6 DEF Stands
<1>7. ASSUME NEW q \in net, Respond(q) PROVE Stands(Read(r), i, k)'
  <2>1. net' = net \ {q} /\ UNCHANGED <<batch, sent>> /\ Executed(q)
    BY <1>7 DEF Respond
  <2>2. \A m \in DOMAIN q.plans : ~(m > Len(q.answers))
    BY <1>1, <2>1, ReliableRequest
  <2> QED  BY <2>1, <2>2 DEF Stands
<1>8. \A q \in net : ~Refuse(q)
  BY DEF Refuse
<1>9. ASSUME NEW x \in Records, Refresh(x) PROVE Stands(Read(r), i, k)'
  BY <1>1, <1>3, <1>9 DEF Refresh
<1>10. ASSUME Ingest \/ (\E x \in Records : RivalEdit(x)) \/ UNCHANGED vars
       PROVE  Stands(Read(r), i, k)'
  BY <1>2, <1>10 DEF Ingest, RivalEdit, vars
<1> QED
  BY <1>1, <1>4, <1>5, <1>6, <1>7, <1>8, <1>9, <1>10, ReliableSteps

LEMMA FetchedNext ==
  ASSUME Faults = {}, OnlyEdited, CalmInv, RisingInv, [Next]_vars,
         NEW r \in Versioned \cap Cached, NEW v \in Nat, v <= server[r].ver, Fetched(r, v)
  PROVE  Fetched(r, v)'
<1>1. /\ Reliable /\ TypeOK /\ TypeOK' /\ Line \in Seq(News) /\ Rising(r) /\ r \in Records
      /\ canonical \in [Records -> Row] /\ canonical[r].ver \in Nat /\ server[r].ver \in Nat
      /\ \A x \in Records : Read(x) \in Entries
  BY LineIs, CalmNext, EngineAssumption
  DEF Reliable, CalmInv, TypeOK, CacheTypeOK, WorldTypeOK, Row, RisingInv, Entries, Read
<1>2. ASSUME NEW n \in News, Line' = Append(Line, n)
      PROVE  /\ \A k \in DOMAIN Line : k \in DOMAIN Line' /\ Line'[k] = Line[k]
             /\ Len(Line) + 1 \in DOMAIN Line' /\ Line'[Len(Line) + 1] = n
  BY <1>1, <1>2, AppendAt
<1>3. CASE \E i, k \in Nat : Stands(Read(r), i, k)
  <2>1. PICK i, k \in Nat : Stands(Read(r), i, k)
    BY <1>3
  <2>2. CASE Stands(Read(r), i, k)'
    BY <2>1, <2>2 DEF Fetched
  <2>3. ASSUME NEW n \in News, Line' = Append(Line, n), n.entry = Read(r),
               n.answer.verdict = "ok", n.answer.row = server[r]
        PROVE  Fetched(r, v)'
    BY <1>1, <1>2, <2>3 DEF Fetched
  <2> QED  BY <1>1, <2>1, <2>2, <2>3, ReadStands
<1> DEFINE Arriving == \/ canonical[r].ver >= v
                       \/ \E k \in DOMAIN Line : \E w \in Writes :
                            /\ Line[k].entry = Direct(w) /\ Target[w] = r
                            /\ Line[k].answer.verdict = "conflict"
                       \/ \E k \in DOMAIN Line : /\ Line[k].entry = Read(r)
                                                 /\ Line[k].answer.verdict = "ok"
                                                 /\ Line[k].answer.row.ver >= v
<1>4. ASSUME Arriving, Line' = Line, canonical'[r].ver = canonical[r].ver PROVE Fetched(r, v)'
  BY <1>4 DEF Fetched
<1>5. ASSUME Arriving, NEW n \in News, Answered(n) PROVE Fetched(r, v)'
  <2>1. canonical' = canonical /\ Line' = Append(Line, n)
    BY <1>5 DEF Answered, cache
  <2> QED  BY <1>2, <1>5, <2>1 DEF Fetched
<1>6. ASSUME Arriving, Taken PROVE Fetched(r, v)'
  <2> DEFINE n == Head(Line)
  <2>1. /\ 1 \in DOMAIN Line /\ Line[1] = n
        /\ \A k \in DOMAIN Line : k = 1 \/ (k - 1 \in DOMAIN Line' /\ Line'[k - 1] = Line[k])
    BY <1>1, <1>6, TailAt DEF Taken
  <2>2. /\ canonical[r].ver <= canonical'[r].ver /\ canonical'[r].ver \in Nat
        /\ canonical'[r] = IF Reports(n, r) THEN n.answer.row ELSE canonical[r]
    <3>1. canonical'[r].ver \in Nat
      BY <1>1, EngineAssumption DEF TypeOK, CacheTypeOK, Row
    <3> QED  BY <1>1, <1>6, <3>1, RisingTaken DEF Taken
  <2> HIDE DEF n
  <2>3. CASE canonical[r].ver >= v
    <3>1. canonical'[r].ver >= v
      BY <1>1, <2>2, <2>3
    <3> QED  BY <3>1 DEF Fetched
  <2>4. ASSUME NEW k \in DOMAIN Line, NEW w \in Writes, Line[k].entry = Direct(w), Target[w] = r,
               Line[k].answer.verdict = "conflict"
        PROVE  Fetched(r, v)'
    <3>1. CASE k # 1
      BY <2>1, <2>4, <3>1 DEF Fetched
    <3>2. CASE k = 1
      <4>1. batch' = Append(batch, Read(r))
        <5>1. n.entry = Direct(w) /\ n.answer.verdict = "conflict"
          BY <2>1, <2>4, <3>2
        <5>2. \A x \in Records : n.entry # Read(x)
          BY <5>1 DEF Direct, Read
        <5>3. PICK x \in Writes : /\ n.entry = Direct(x)
                                  /\ batch' = IF n.answer.verdict = "conflict"
                                              THEN Append(batch, Read(Target[x])) ELSE batch
          BY <1>6, <5>2 DEF Taken, n
        <5> QED  BY <2>4, <5>1, <5>3 DEF Direct
      <4>2. \E i, j \in Nat : i = sent' + 1 /\ j \in DOMAIN batch' /\ batch'[j] = Read(r)
        <5>1. batch \in Seq(Entries) /\ sent' \in Nat /\ Read(r) \in Entries
          BY <1>1 DEF TypeOK, TransportTypeOK
        <5>2. Len(batch) + 1 \in Nat /\ Len(batch) + 1 \in DOMAIN batch'
              /\ batch'[Len(batch) + 1] = Read(r)
          BY <4>1, <5>1, AppendAt
        <5>3. \E i \in Nat : i = sent' + 1
          <6>1. \A m \in Nat : m + 1 \in Nat
            OBVIOUS
          <6>2. sent' + 1 \in Nat
            BY <5>1, <6>1
          <6> WITNESS sent' + 1 \in Nat
          <6> QED  OBVIOUS
        <5> QED  BY <5>2, <5>3
      <4>3. PICK i, j \in Nat : i = sent' + 1 /\ j \in DOMAIN batch' /\ batch'[j] = Read(r)
        BY <4>2
      <4>4. Read(r)' = Read(r)
        BY DEF Read
      <4>5. Stands(Read(r), i, j)'
        BY <4>3, <4>4 DEF Stands
      <4> QED  BY <4>3, <4>5 DEF Fetched
    <3> QED  BY <3>1, <3>2
  <2>5. ASSUME NEW k \in DOMAIN Line, Line[k].entry = Read(r), Line[k].answer.verdict = "ok",
               Line[k].answer.row.ver >= v
        PROVE  Fetched(r, v)'
    <3>1. CASE k # 1
      BY <2>1, <2>5, <3>1 DEF Fetched
    <3>2. CASE k = 1
      <4>1. Reports(n, r)
        BY <2>1, <2>5, <3>2 DEF Reports, About, Read
      <4> QED  BY <2>1, <2>2, <2>5, <3>2, <4>1 DEF Fetched
    <3> QED  BY <3>1, <3>2
  <2> QED  BY <1>6, <2>3, <2>4, <2>5
<1>7. ASSUME Arriving, Refused PROVE Fetched(r, v)'
  BY <1>7 DEF Refused, Fetched, cache
<1>8. ASSUME Arriving, NEW w \in Writes \ Sourced, DeliverLocally(w), Line' = Line
      PROVE  Fetched(r, v)'
  <2>1. CASE Target[w] = r
    <3>1. canonical'[r] = LocalEffect(w, canonical[r]) /\ canonical[r] \in Row /\ Lowered(w)
      BY <1>1, <1>8, <2>1 DEF DeliverLocally, OnlyEdited
    <3>2. canonical'[r].ver = canonical[r].ver
      BY <3>1 DEF LocalEffect, Lowered, Row
    <3> QED  BY <1>4, <1>8, <3>2
  <2>2. CASE Target[w] # r
    BY <1>1, <1>4, <1>8, <2>2 DEF DeliverLocally
  <2> QED  BY <2>1, <2>2
<1>9. Arriving /\ Aside => Fetched(r, v)'
  BY <1>4 DEF Aside
<1>10. ASSUME Arriving, NEW x \in Records, RivalEdit(x), Line' = Line PROVE Fetched(r, v)'
  BY <1>4, <1>10 DEF RivalEdit, cache
<1>11. Arriving \/ \E i, k \in Nat : Stands(Read(r), i, k)
  BY DEF Fetched
<1> HIDE DEF Arriving
<1> QED
  BY <1>1, <1>3, <1>5, <1>6, <1>7, <1>8, <1>9, <1>10, <1>11, LineMoves

LEMMA LoserNext ==
  Faults = {} /\ OnlyEdited /\ CalmInv /\ RisingInv /\ LoserInv /\ [Next]_vars => LoserInv'
<1> SUFFICES ASSUME Faults = {}, OnlyEdited, CalmInv, RisingInv, LoserInv, [Next]_vars,
                    NEW i \in DOMAIN log', log'[i].verdict = "conflict"
             PROVE  /\ log'[i].record \in Versioned
                    /\ log'[i].record \in Cached => Fetched(log[i].record, VersionBefore(i))'
  BY DEF LoserInv
<1>1. /\ Reliable /\ TypeOK /\ TypeOK' /\ Line \in Seq(News) /\ log \in Seq(Events)
  BY LineIs, CalmNext DEF Reliable, CalmInv, TypeOK, WorldTypeOK
<1>2. ASSUME i \in DOMAIN log, log'[i] = log[i], VersionBefore(i)' = VersionBefore(i)
      PROVE  /\ log'[i].record \in Versioned
             /\ log'[i].record \in Cached => Fetched(log[i].record, VersionBefore(i))'
  <2> DEFINE r == log[i].record
             v == VersionBefore(i)
  <2>1. r \in Versioned /\ (r \in Cached => Fetched(r, v))
    BY <1>2 DEF LoserInv
  <2>2. ASSUME r \in Cached PROVE Fetched(log[i].record, VersionBefore(i))'
    <3>1. r \in Versioned \cap Cached /\ Counted(r) /\ Fetched(r, v)
      BY <2>1, <2>2 DEF RisingInv
    <3>2. v \in Nat /\ v <= server[r].ver
      BY <1>1, <1>2, <3>1, BeatenBefore DEF Counted
    <3>3. \E x \in Versioned \cap Cached : \E y \in Nat :
            /\ x = log'[i].record /\ y = VersionBefore(i)'
            /\ y <= server[x].ver /\ Fetched(x, y)
      BY <1>2, <3>1, <3>2
    <3>4. PICK x \in Versioned \cap Cached, y \in Nat :
            /\ x = log'[i].record /\ y = VersionBefore(i)'
            /\ y <= server[x].ver /\ Fetched(x, y)
      BY <3>3
    <3>5. Fetched(x, y)'
      BY <3>4, FetchedNext
    <3> QED  BY <3>4, <3>5 DEF Fetched
  <2> QED  BY <1>2, <2>1, <2>2
<1>3. ASSUME UNCHANGED world
      PROVE  /\ log'[i].record \in Versioned
             /\ log'[i].record \in Cached => Fetched(log[i].record, VersionBefore(i))'
  <2>1. i \in DOMAIN log /\ log' = log
    BY <1>3 DEF world
  <2>2. VersionBefore(i)' = VersionBefore(i)
    BY <2>1 DEF VersionBefore
  <2> QED  BY <1>2, <2>1, <2>2
<1>4. ASSUME NEW e \in Events, log' = Append(log, e),
             ASSUME e.verdict = "conflict"
             PROVE  /\ e.record \in Versioned
                    /\ e.record \in Cached =>
                         \E w \in Writes : \E k \in DOMAIN Line' :
                           /\ Line'[k].entry = Direct(w) /\ Target[w] = e.record
                           /\ Line'[k].answer.verdict = "conflict"
      PROVE  /\ log'[i].record \in Versioned
             /\ log'[i].record \in Cached => Fetched(log[i].record, VersionBefore(i))'
  <2>1. CASE i \in DOMAIN log
    <3>1. log'[i] = log[i] /\ VersionBefore(i)' = VersionBefore(i)
      BY <1>1, <1>4, <2>1, CountedAppend
    <3> QED  BY <1>2, <2>1, <3>1
  <2>2. CASE log'[i] = e
    BY <1>4, <2>2 DEF Fetched
  <2>3. i \in DOMAIN log \/ log'[i] = e
    BY <1>1, <1>4, CountedAppend
  <2> QED  BY <2>1, <2>2, <2>3
<1>5. ASSUME NEW n \in News, Answered(n), ~UNCHANGED world
      PROVE  /\ log'[i].record \in Versioned
             /\ log'[i].record \in Cached => Fetched(log[i].record, VersionBefore(i))'
  <2>1. PICK w \in Writes :
          /\ n.entry = Direct(w) /\ n.answer.verdict = Verdict(w, server[Target[w]])
          /\ log' = Append(log, [who |-> w, record |-> Target[w], verdict |-> n.answer.verdict])
    BY <1>5 DEF Answered
  <2> DEFINE e == [who |-> w, record |-> Target[w], verdict |-> n.answer.verdict]
  <2>2. e \in Events /\ e.record = Target[w] /\ e.verdict = n.answer.verdict
    BY WritesAssumption DEF Events, News, Answers
  <2>3. Len(Line) + 1 \in DOMAIN Line' /\ Line'[Len(Line) + 1] = n
    BY <1>1, <1>5, AppendAt DEF Answered
  <2>4. log' = Append(log, e)
    BY <2>1 DEF e
  <2> HIDE DEF e
  <2>5. ASSUME e.verdict = "conflict" PROVE e.record \in Versioned
    BY <2>1, <2>2, <2>5 DEF Verdict
  <2>6. ASSUME e.verdict = "conflict"
        PROVE  \E v \in Writes : \E k \in DOMAIN Line' :
                 /\ Line'[k].entry = Direct(v) /\ Target[v] = e.record
                 /\ Line'[k].answer.verdict = "conflict"
    BY <2>1, <2>2, <2>3, <2>6
  <2> QED  BY <1>4, <2>2, <2>4, <2>5, <2>6
<1>6. ASSUME NEW x \in Records, RivalEdit(x)
      PROVE  /\ log'[i].record \in Versioned
             /\ log'[i].record \in Cached => Fetched(log[i].record, VersionBefore(i))'
  <2> DEFINE e == [who |-> Rival, record |-> x, verdict |-> "ok"]
  <2>1. e \in Events /\ e.verdict # "conflict" /\ log' = Append(log, e)
    BY <1>6 DEF RivalEdit, Events, Verdicts
  <2> HIDE DEF e
  <2> QED  BY <1>4, <2>1
<1> QED
  BY <1>1, <1>3, <1>5, <1>6, LineMoves DEF Taken, Refused, Aside, DeliverLocally

\* Where every request arrives and is answered, and the versioned records in
\* the cache are only edited, the loser of a race for a version has the
\* winner's row in the end: its conflict is answered by a read of what beat it,
\* and no answer that comes later takes the cache back.
THEOREM LosersSeeWinners == Faults = {} /\ OnlyEdited => (Spec => []LoserSeesWinner)
<1> SUFFICES ASSUME Faults = {}, OnlyEdited PROVE Spec => []LoserSeesWinner
  OBVIOUS
<1>1. Init => CalmInv /\ RisingInv /\ LoserInv
  <2> SUFFICES ASSUME Init PROVE RisingInv /\ LoserInv
    BY CalmInit
  <2>1. Line = <<>> /\ log = <<>>
    BY CalmInit DEF Init
  <2>2. LoserInv
    BY <2>1 DEF LoserInv
  <2>3. ASSUME NEW r \in Versioned \cap Cached PROVE Counted(r) /\ Rising(r)
    <3>1. server[r].ver = 0 /\ canonical[r].ver = 0
      BY EngineAssumption DEF Init, NoRow
    <3>2. Counted(r)
      BY <2>1, <3>1, NothingCounted DEF Counted
    <3> QED  BY <2>1, <3>1, <3>2 DEF Rising
  <2> QED  BY <2>2, <2>3 DEF RisingInv
<1>2. CalmInv /\ RisingInv /\ LoserInv /\ [Next]_vars => CalmInv' /\ RisingInv' /\ LoserInv'
  BY CalmNext, RisingNext, LoserNext DEF Reliable
<1>3. CalmInv /\ LoserInv => LoserSeesWinner
  <2> SUFFICES ASSUME LoserInv, Rest, NEW i \in DOMAIN log, log[i].verdict = "conflict",
                      log[i].record \in Cached
               PROVE  canonical[log[i].record].ver >= VersionBefore(i)
    BY DEF LoserSeesWinner
  <2>1. Line = <<>> /\ batch = <<>> /\ net = {}
    BY DEF Rest, Quiet, Line, Answering
  <2>2. Fetched(log[i].record, VersionBefore(i))
    BY DEF LoserInv
  <2> QED  BY <2>1, <2>2 DEF Fetched, Stands
<1> QED  BY <1>1, <1>2, <1>3, PTL DEF Spec

----------------------------------------------------------------------------
(* Where requests that fail are sent again.                                *)
(*                                                                         *)
(* Requests may fail on their way to the server, and the server may refuse *)
(* one, but the writes whose request failed are all replayed.  The answers *)
(* then reach the client along three stages: those of the one request the  *)
(* server is at, those that arrived, and those a flush collected.  What is *)
(* collected is behind the plans of writes that go out on their own.       *)

Retried ==
  /\ Faults \subseteq {"drop", "refuse"}
  /\ "drop" \in Faults => \A w \in Sourced : Replayable(w)
NoneReplayed == Reliable => ReliableInv

NewsOf(o) == [k \in 1..Len(o) |-> [entry |-> Flush(o[k].write), answer |-> o[k].answer]]
Told == NewsOf(outcomes)
Served == IF Answering = {} THEN <<>> ELSE Done(CHOOSE q \in Answering : TRUE)

\* No request is forgotten, and only the oldest has answers.
Prompt ==
  \A q \in net :
    /\ q.open /\ q.plans # <<>> /\ Len(q.answers) <= Len(q.plans)
    /\ q.answers # <<>> => \A p \in net : q.id <= p.id

LEMMA RetriedRequest ==
  ASSUME Retried, TypeOK, Prompt, NEW q \in net
  PROVE  /\ q \in Requests /\ q.open /\ q.plans \in Seq(Entries) /\ q.answers \in Seq(Answers)
         /\ q.id \in Nat
         /\ InOrder(q) => \A p \in net : q.id <= p.id
         /\ Executed(q) => Len(q.answers) = Len(q.plans) /\ q.answers # <<>>
         /\ DOMAIN q.plans = 1..Len(q.plans) /\ DOMAIN q.answers = 1..Len(q.answers)
         /\ Len(q.plans) \in Nat /\ Len(q.answers) \in Nat /\ Len(q.answers) <= Len(q.plans)
<1>1. q \in Requests /\ q.open /\ q.plans # <<>> /\ Len(q.answers) <= Len(q.plans)
  BY DEF TypeOK, TransportTypeOK, Prompt
<1>2. q.plans \in Seq(Entries) /\ q.answers \in Seq(Answers) /\ q.id \in Nat
  BY <1>1 DEF Requests
<1>3. InOrder(q) => \A p \in net : q.id <= p.id
  BY DEF InOrder, Retried
<1>4. /\ DOMAIN q.plans = 1..Len(q.plans) /\ DOMAIN q.answers = 1..Len(q.answers)
      /\ Len(q.plans) \in Nat /\ Len(q.answers) \in Nat
  BY <1>2, LenProperties
<1>5. Len(q.plans) # 0
  BY <1>1, <1>2, EmptySeq
<1>6. Executed(q) => Len(q.answers) = Len(q.plans) /\ q.answers # <<>>
  BY <1>1, <1>2, <1>4, <1>5, EmptySeq DEF Executed
<1> QED  BY <1>1, <1>2, <1>3, <1>4, <1>6

\* What the server does with a plan, and answers.
LEMMA RetriedExec ==
  ASSUME Retried, TypeOK, Prompt, NEW q \in net, ServerExec(q)
  PROVE  \E answer \in Answers :
           /\ Replies(q, answer)
           /\ LET plan == q.plans[Len(q.answers) + 1]
              IN \/ \E r \in Records :
                      /\ plan = Read(r)
                      /\ answer.verdict = "ok" /\ answer.row = server[r] /\ UNCHANGED world
                 \/ \E w \in Writes :
                      /\ plan \in Plans(w)
                      /\ answer.row = IF answer.verdict = "ok"
                                      THEN Effect(w, server[Target[w]]) ELSE server[Target[w]]
                      /\ server' = [server EXCEPT ![Target[w]] = answer.row]
<1> DEFINE plan == q.plans[Len(q.answers) + 1]
           With(answer) == [q EXCEPT !.answers = Append(@, answer)]
           AnswerWith(answer) ==
             LET p == [q EXCEPT !.answers = Append(@, answer)]
             IN net' = (net \ {q}) \cup (IF ~p.open /\ Executed(p) THEN {} ELSE {p})
<1>1. /\ q \in Requests /\ q.open /\ q.plans \in Seq(Entries) /\ q.answers \in Seq(Answers)
      /\ Len(q.answers) \in Nat /\ Len(q.plans) \in Nat /\ DOMAIN q.plans = 1..Len(q.plans)
      /\ InOrder(q) => \A p \in net : q.id <= p.id
  BY RetriedRequest
<1>2. Len(q.answers) + 1 \in DOMAIN q.plans /\ \A p \in net : q.id <= p.id
  <2>1. ~Executed(q) /\ InOrder(q)
    BY ServerOnly
  <2> QED  BY <1>1, <2>1 DEF Executed
<1>3. plan \in Entries
  BY <1>1, <1>2
<1>4. ASSUME NEW answer, AnswerWith(answer) PROVE Replies(q, answer)
  <2>1. With(answer).open
    BY <1>1 DEF Requests
  <2> QED  BY <1>2, <1>4, <2>1 DEF Replies
<1>5. server \in [Records -> Row]
  BY DEF TypeOK, WorldTypeOK
<1>6. CASE plan.kind = "read"
  <2> DEFINE answer == [verdict |-> "ok", row |-> server[plan.record]]
  <2>1. AnswerWith(answer) /\ UNCHANGED world
    BY <1>6 DEF ServerExec
  <2>2. plan.record \in Records /\ plan = Read(plan.record)
    BY <1>3, <1>6 DEF Entries, Read
  <2>3. answer \in Answers
    BY <1>5, <2>2 DEF Answers, Verdicts
  <2>4. answer.verdict = "ok" /\ answer.row = server[plan.record] /\ Replies(q, answer)
    BY <1>4, <2>1
  <2> HIDE DEF answer, plan
  <2> QED  BY <1>2, <2>1, <2>2, <2>3, <2>4 DEF plan
<1>7. CASE plan.kind # "read"
  <2> DEFINE w == plan.write
             r == Target[w]
             verdict == Verdict(w, server[r])
             row == IF verdict = "ok" THEN Effect(w, server[r]) ELSE server[r]
             answer == [verdict |-> verdict, row |-> row]
  <2>1. w \in Writes /\ r \in Records /\ plan \in Plans(w)
    BY <1>3, <1>7, WritesAssumption DEF Entries, Direct, Flush, Plans
  <2>2. AnswerWith(answer) /\ server' = [server EXCEPT ![r] = row]
    BY Zenon, <1>7 DEF ServerExec
  <2>3. verdict \in {"ok", "conflict", "failed"}
    BY DEF Verdict
  <2>4. answer \in Answers
    <3> HIDE DEF w
    <3>1. server[r] \in Row
      BY <1>5, <2>1
    <3>2. row \in Row
      BY <2>1, <3>1, EffectType
    <3> HIDE DEF row, verdict
    <3> QED  BY <2>3, <3>2 DEF Answers, Verdicts, answer
  <2>5. Replies(q, answer)
    BY Zenon, <1>4, <2>2
  <2>6. answer.verdict = verdict /\ answer.row = row
    OBVIOUS
  <2> HIDE DEF answer, w, plan
  <2> QED  BY <2>1, <2>2, <2>4, <2>5, <2>6 DEF plan
<1> QED  BY <1>6, <1>7

\* What the client hears of q: its answers, or of every plan that it failed.
LEMMA RetriedHears ==
  ASSUME Retried, TypeOK, Prompt, NEW q \in net, Respond(q) \/ Fail(q) \/ Refuse(q)
  PROVE  /\ arrived = <<>> /\ net' = net \ {q} /\ DOMAIN arrived' = 1..Len(q.plans)
         /\ \A k \in 1..Len(q.plans) : arrived'[k].entry = q.plans[k]
         /\ \/ /\ Respond(q) /\ \A p \in net : q.id <= p.id
               /\ q.answers # <<>> /\ Len(q.answers) = Len(q.plans) /\ arrived' = Done(q)
            \/ q.answers = <<>> /\ \A k \in 1..Len(q.plans) : arrived'[k].answer.verdict # "ok"
<1>1. arrived = <<>>
  BY DEF Respond, Fail, Refuse, Quiet
<1>2. ASSUME NEW f, Hear(q, f), \A k \in 1..Len(q.plans) : f[k] \in Answers
      PROVE  arrived' = [k \in 1..Len(q.plans) |-> [entry |-> q.plans[k], answer |-> f[k]]]
  <2> DEFINE heard == [k \in 1..Len(q.plans) |-> [entry |-> q.plans[k], answer |-> f[k]]]
  <2>1. q.plans \in Seq(Entries)
    BY RetriedRequest
  <2>2. heard \in Seq(News)
    BY <1>2, <2>1 DEF News
  <2>3. <<>> \o heard = heard
    BY <2>2, ConcatEmptySeq
  <2>4. arrived' = <<>> \o heard
    BY <1>1, <1>2 DEF Hear
  <2> QED  BY <2>3, <2>4
<1>3. CASE Respond(q)
  <2>1. /\ Hear(q, q.answers) /\ net' = net \ {q} /\ Len(q.answers) = Len(q.plans)
        /\ q.answers # <<>> /\ \A p \in net : q.id <= p.id
    BY <1>3, RetriedRequest DEF Respond
  <2>2. \A k \in 1..Len(q.plans) : q.answers[k] \in Answers
    BY <2>1, RetriedRequest, ElementOfSeq
  <2>3. arrived' = [k \in 1..Len(q.plans) |-> [entry |-> q.plans[k], answer |-> q.answers[k]]]
    BY <1>2, <2>1, <2>2
  <2>4. DOMAIN arrived' = 1..Len(q.plans) /\ \A k \in 1..Len(q.plans) : arrived'[k].entry = q.plans[k]
    BY <2>3
  <2>5. arrived' = Done(q)
    BY <2>1, <2>3 DEF Done
  <2> QED  BY <1>1, <1>3, <2>1, <2>4, <2>5
<1>4. ASSUME NEW verdict \in {"offline", "refused"},
             Hear(q, [k \in 1..Len(q.plans) |-> Fault(verdict)])
      PROVE  /\ DOMAIN arrived' = 1..Len(q.plans)
             /\ \A k \in 1..Len(q.plans) : arrived'[k].entry = q.plans[k]
             /\ \A k \in 1..Len(q.plans) : arrived'[k].answer.verdict # "ok"
  <2> DEFINE f == [k \in 1..Len(q.plans) |-> Fault(verdict)]
  <2>1. Fault(verdict) \in Answers /\ Fault(verdict).verdict # "ok"
    BY FaultType DEF Verdicts, Fault
  <2>2. \A k \in 1..Len(q.plans) : f[k] \in Answers /\ f[k].verdict # "ok"
    BY <2>1
  <2>3. Hear(q, f)
    BY <1>4
  <2> HIDE DEF f
  <2>4. arrived' = [k \in 1..Len(q.plans) |-> [entry |-> q.plans[k], answer |-> f[k]]]
    BY <1>2, <2>2, <2>3
  <2> QED  BY <2>2, <2>4
<1>5. CASE Fail(q) \/ Refuse(q)
  <2>1. /\ net' = net \ {q} /\ q.answers = <<>>
        /\ \E verdict \in {"offline", "refused"} :
             Hear(q, [k \in 1..Len(q.plans) |-> Fault(verdict)])
    BY <1>5 DEF Fail, Refuse, Retried
  <2> QED  BY <1>1, <1>4, <2>1
<1> QED  BY <1>3, <1>5

\* The steps that change what is in flight.
LEMMA NetSteps ==
  ASSUME [Next]_vars
  PROVE  \/ UNCHANGED <<net, sent>>
         \/ SendBatch
         \/ \E q \in net : ServerExec(q) \/ Respond(q) \/ Fail(q) \/ Refuse(q)
<1>1. ASSUME NEW w \in Writes, Issue(w) \/ WriteSteps(w) PROVE UNCHANGED <<net, sent>>
  BY <1>1 DEF Issue, WriteSteps, Stamp, Deliver, DeliverLocally, QueueBehind, Dispatch, Release,
              Confirm, FallBack, Reject, FlushStaysQueued, FlushConfirm, FlushReject
<1>2. Runtime => UNCHANGED <<net, sent>> \/ SendBatch
  BY DEF Runtime, Ingest, Collect, TimerFires, FlushRound
<1>3. Environment \/ AtRest \/ UNCHANGED vars => UNCHANGED <<net, sent>>
  BY DEF Environment, FlushNow, RivalEdit, Refresh, AtRest, vars
<1> QED  BY <1>1, <1>2, <1>3 DEF Next, Network, Misfortune

LEMMA PromptNext ==
  Retried /\ TypeOK /\ HeldInv /\ Prompt /\ [Next]_vars => Prompt'
<1> SUFFICES ASSUME Retried, TypeOK, HeldInv, Prompt, [Next]_vars PROVE Prompt'
  OBVIOUS
<1>1. UNCHANGED <<net, sent>> => Prompt'
  BY DEF Prompt
<1>2. ASSUME SendBatch PROVE Prompt'
  <2> DEFINE q == [id |-> sent', plans |-> batch, answers |-> <<>>, open |-> TRUE]
  <2>1. net' = net \cup {q} /\ batch # <<>> /\ sent' = sent + 1
    BY <1>2 DEF SendBatch
  <2>2. \A p \in net : p.id \in Nat /\ p.id <= sent /\ sent \in Nat
    BY DEF TypeOK, TransportTypeOK, Requests, HeldInv, NetInv
  <2>3. \A p \in net : p.id <= q.id
    BY <2>1, <2>2
  <2>4. /\ q.open /\ q.plans # <<>> /\ Len(q.answers) <= Len(q.plans) /\ q.answers = <<>>
    <3>1. batch \in Seq(Entries)
      BY DEF TypeOK, TransportTypeOK
    <3>2. Len(batch) \in Nat /\ Len(<<>>) = 0
      BY <3>1, LenProperties
    <3> QED  BY <2>1, <3>2
  <2> HIDE DEF q
  <2> QED  BY <2>1, <2>3, <2>4 DEF Prompt
<1>3. ASSUME NEW q \in net, ServerExec(q) PROVE Prompt'
  <2>1. PICK answer \in Answers : Replies(q, answer)
    BY <1>3, RetriedExec
  <2> DEFINE p == [q EXCEPT !.answers = Append(@, answer)]
  <2>2. /\ q \in Requests /\ q.open /\ q.answers \in Seq(Answers) /\ Len(q.answers) \in Nat
        /\ DOMAIN q.plans = 1..Len(q.plans) /\ q.plans # <<>>
    BY RetriedRequest DEF Prompt
  <2>3. /\ p.id = q.id /\ p.plans = q.plans /\ p.open /\ Len(p.answers) = Len(q.answers) + 1
        /\ net' = (net \ {q}) \cup {p} /\ \A o \in net : q.id <= o.id
        /\ Len(q.answers) + 1 \in DOMAIN q.plans
    BY <2>1, <2>2, AppendProperties DEF Requests, Replies
  <2> HIDE DEF p
  <2>4. ASSUME NEW o \in net'
        PROVE  /\ o.open /\ o.plans # <<>> /\ Len(o.answers) <= Len(o.plans)
               /\ o.answers # <<>> => \A n \in net' : o.id <= n.id
    <3>1. CASE o = p
      <4>1. Len(p.answers) <= Len(p.plans)
        BY <2>2, <2>3, RetriedRequest
      <4>2. \A n \in net' : p.id <= n.id
        BY <2>3, RetriedRequest
      <4> QED  BY <2>2, <2>3, <3>1, <4>1, <4>2
    <3>2. CASE o # p
      <4>1. o \in net /\ (o.answers # <<>> => \A n \in net : o.id <= n.id)
        BY <2>3, <3>2 DEF Prompt
      <4> QED  BY <2>3, <4>1 DEF Prompt
    <3> QED  BY <3>1, <3>2
  <2> QED  BY <2>4 DEF Prompt
<1>4. ASSUME NEW q \in net, Respond(q) \/ Fail(q) \/ Refuse(q) PROVE Prompt'
  <2>1. net' = net \ {q}
    BY <1>4, RetriedHears
  <2> QED  BY <2>1 DEF Prompt
<1> QED  BY <1>1, <1>2, <1>3, <1>4, NetSteps

\* The plan e is the k-th of the request i, sent or to come.
Lies(e, i, k) ==
  \/ \E q \in net : q.id = i /\ k \in DOMAIN q.plans /\ q.plans[k] = e
  \/ i = sent + 1 /\ k \in DOMAIN batch /\ batch[k] = e

\* The news that a replay succeeded.
Replays(n) == n.entry.kind = "flush" /\ n.answer.verdict = "ok"

\* A write that goes out on its own is ahead of every replay, and heard of
\* before any of them is done.
DirectsFirst ==
  /\ \A a, b \in Writes : \A i, j, k, m \in Nat :
       Lies(Flush(a), i, k) /\ Lies(Direct(b), j, m) => j < i \/ (j = i /\ m < k)
  /\ \/ \E k \in DOMAIN Told : Replays(Told[k])
     \/ \E k \in DOMAIN arrived : Replays(arrived[k])
     => \A b \in Writes : \A j, m \in Nat : ~Lies(Direct(b), j, m)
  /\ (\E k \in DOMAIN Told : Replays(Told[k])) =>
       \A m \in DOMAIN arrived : arrived[m].entry.kind # "direct"
  /\ \A k, m \in DOMAIN arrived :
       k < m /\ Replays(arrived[k]) => arrived[m].entry.kind # "direct"

\* A plan without copies is nowhere.
LEMMA NowhereIs ==
  ASSUME TypeOK, HeldInv, Prompt, NEW x \in Entries, Copies(x) = 0
  PROVE  /\ \A k \in DOMAIN batch : batch[k] # x
         /\ \A k \in DOMAIN arrived : arrived[k].entry # x
         /\ \A q \in net : \A k \in DOMAIN q.plans : q.plans[k] # x
<1>1. NetInv
  BY DEF HeldInv
<1>2. /\ batch \in Seq(Entries) /\ arrived \in Seq(News)
      /\ DOMAIN batch = 1..Len(batch) /\ DOMAIN arrived = 1..Len(arrived)
  BY LenProperties DEF TypeOK, TransportTypeOK
<1>3. /\ Copies(x) = Count(batch, {x}) + Cardinality(Flights(net, x)) + Count(arrived, Mail(x))
      /\ Count(batch, {x}) \in Nat /\ Cardinality(Flights(net, x)) \in Nat
      /\ Count(arrived, Mail(x)) \in Nat /\ IsFiniteSet(Flights(net, x))
  BY <1>1, CopiesAre DEF NetInv
<1>4. Count(batch, {x}) = 0 /\ Count(arrived, Mail(x)) = 0 /\ Cardinality(Flights(net, x)) = 0
  BY <1>3
<1>5. Flights(net, x) = {}
  BY <1>3, <1>4, FS_EmptySet
<1>6. \A k \in DOMAIN batch : batch[k] # x
  BY <1>2, <1>4, CountType
<1>7. \A k \in DOMAIN arrived : arrived[k].entry # x
  <2>1. \A k \in DOMAIN arrived : arrived[k] \in News /\ arrived[k] \notin Mail(x)
    BY <1>2, <1>4, CountType
  <2> QED  BY <2>1 DEF Mail
<1>8. ASSUME NEW q \in net, NEW k \in DOMAIN q.plans, q.plans[k] = x PROVE FALSE
  <2>1. <<q.id, k>> \in Flights(net, x)
    BY <1>8 DEF Flights, Prompt
  <2> QED  BY <1>5, <2>1
<1> QED  BY <1>6, <1>7, <1>8

\* Nothing is replayed when the queue is empty.
LEMMA NoReplays ==
  ASSUME TypeOK, HeldInv, Prompt, replayQueue = <<>>
  PROVE  /\ \A a \in Writes : \A i, k : ~Lies(Flush(a), i, k)
         /\ \A k \in DOMAIN arrived : arrived[k].entry.kind # "flush"
         /\ outcomes = <<>>
<1>1. ASSUME NEW w \in Writes
      PROVE  Copies(Flush(w)) = 0 /\ Count(outcomes, Of(w)) = 0
  <2>1. /\ Fits(pc[w], flushing, Copies(Direct(w)), Count(replayQueue, {w}), Copies(Flush(w)),
                Count(flushBatch, {w}), Count(outcomes, Of(w)))
        /\ Copies(Flush(w)) \in Nat /\ Count(outcomes, Of(w)) \in Nat
    BY HeldIs, Numbers
  <2>2. Count(replayQueue, {w}) = 0
    BY NothingCounted
  <2> QED  BY <2>1, <2>2 DEF Fits
<1>2. \A w \in Writes : Flush(w) \in Entries
  BY PlanEntries
<1>3. \A a \in Writes : \A i, k : ~Lies(Flush(a), i, k)
  BY <1>1, <1>2, NowhereIs DEF Lies
<1>4. ASSUME NEW k \in DOMAIN arrived, arrived[k].entry.kind = "flush" PROVE FALSE
  <2>1. arrived[k].entry \in Entries
    <3>1. arrived[k] \in News
      BY DEF TypeOK, TransportTypeOK
    <3> QED  BY <3>1 DEF News
  <2>2. PICK w \in Writes : arrived[k].entry = Flush(w)
    BY <1>4, <2>1 DEF Entries, Flush
  <2> QED  BY <1>1, <1>2, <2>2, NowhereIs
<1>5. outcomes = <<>>
  <2>1. outcomes \in Seq(Results)
    BY DEF TypeOK, FlushTypeOK
  <2>2. ASSUME outcomes # <<>> PROVE FALSE
    <3>1. 1 \in 1..Len(outcomes) /\ outcomes[1] \in Results
      BY <2>1, <2>2, EmptySeq, LenProperties
    <3>2. PICK w \in Writes : outcomes[1] \in Of(w)
      BY <3>1 DEF Results, Of
    <3> QED  BY <1>1, <2>1, <3>1, <3>2, CountType
  <2> QED  BY <2>2
<1> QED  BY <1>3, <1>4, <1>5

\* A plan lies where it lay, or has joined the batch behind all others.
LEMMA LiesMoves ==
  ASSUME Retried, TypeOK, TypeOK', HeldInv, Prompt, [Next]_vars
  PROVE  \/ \A e, i, k : Lies(e, i, k)' => Lies(e, i, k) \/ e.kind = "read"
         \/ \E w \in Writes : /\ Dispatch(w)
                              /\ \A e, i, k : Lies(e, i, k)' => Lies(e, i, k) \/ e = Direct(w)
         \/ \A e, i, k : Lies(e, i, k)' =>
              Lies(e, i, k) \/ (e.kind = "flush" /\ i = sent + 1 /\ k > Len(batch))
<1>1. batch \in Seq(Entries) /\ DOMAIN batch = 1..Len(batch) /\ Len(batch) \in Nat
  BY LenProperties DEF TypeOK, TransportTypeOK
<1>2. UNCHANGED <<net, batch, sent>> => \A e, i, k : Lies(e, i, k)' => Lies(e, i, k)
  BY DEF Lies
<1>3. ASSUME NEW x \in Entries, UNCHANGED <<net, sent>>, batch' = Append(batch, x)
      PROVE  \A e, i, k : Lies(e, i, k)' => Lies(e, i, k) \/ e = x
  <2>1. /\ \A m \in DOMAIN batch : batch'[m] = batch[m]
        /\ \A m \in DOMAIN batch' : m \in DOMAIN batch \/ m = Len(batch) + 1
        /\ batch'[Len(batch) + 1] = x
    BY <1>1, <1>3, AppendAt
  <2> QED  BY <1>3, <2>1 DEF Lies
<1>4. ASSUME NEW r \in Records, UNCHANGED <<net, sent>>, batch' = Append(batch, Read(r))
      PROVE  \A e, i, k : Lies(e, i, k)' => Lies(e, i, k) \/ e.kind = "read"
  <2>1. Read(r) \in Entries /\ Read(r).kind = "read"
    BY DEF Entries, Read
  <2> QED  BY <1>3, <1>4, <2>1
<1>5. ASSUME Replay, UNCHANGED <<net, sent>>
      PROVE  \A e, i, k : Lies(e, i, k)' =>
               Lies(e, i, k) \/ (e.kind = "flush" /\ i = sent + 1 /\ k > Len(batch))
  <2> DEFINE again == [m \in 1..Len(replayQueue) |-> Flush(replayQueue[m])]
  <2>1. replayQueue \in Seq(Writes) /\ Len(replayQueue) \in Nat
    BY LenProperties DEF TypeOK, ReplayTypeOK
  <2>2. \A m \in 1..Len(replayQueue) : replayQueue[m] \in Writes
    BY <2>1
  <2>3. again \in Seq(Entries) /\ Len(again) = Len(replayQueue)
    BY <2>1, <2>2, EntryTypes
  <2>4. \A m \in 1..Len(replayQueue) : again[m].kind = "flush"
    BY DEF Flush
  <2>5. batch' = batch \o again
    BY <1>5 DEF Replay
  <2> HIDE DEF again
  <2>6. /\ batch' \in Seq(Entries) /\ Len(batch') = Len(batch) + Len(again)
        /\ \A m \in 1..Len(batch) + Len(again) :
             batch'[m] = IF m <= Len(batch) THEN batch[m] ELSE again[m - Len(batch)]
    BY <1>1, <2>3, <2>5, ConcatProperties
  <2>7. DOMAIN batch' = 1..(Len(batch) + Len(again))
    BY <2>6
  <2>8. ASSUME NEW m \in DOMAIN batch'
        PROVE  (m \in DOMAIN batch /\ batch'[m] = batch[m])
                 \/ (m > Len(batch) /\ batch'[m].kind = "flush")
    <3>1. CASE m <= Len(batch)
      BY <1>1, <2>6, <2>7, <3>1
    <3>2. CASE m > Len(batch)
      <4>1. m - Len(batch) \in 1..Len(replayQueue) /\ batch'[m] = again[m - Len(batch)]
        BY <1>1, <2>1, <2>3, <2>6, <2>7, <3>2
      <4> QED  BY <2>4, <3>2, <4>1
    <3> QED  BY <1>1, <2>7, <3>1, <3>2
  <2> QED  BY <1>5, <2>8 DEF Lies
<1>6. ASSUME NEW w \in Writes, Issue(w) \/ WriteSteps(w), ~Dispatch(w)
      PROVE  \A e, i, k : Lies(e, i, k)' => Lies(e, i, k) \/ e.kind = "read"
  <2>1. Target[w] \in Records
    BY WritesAssumption
  <2>2. UNCHANGED <<net, sent>> /\ (batch' = batch \/ batch' = Append(batch, Read(Target[w])))
    BY <1>6 DEF Issue, WriteSteps, Stamp, Deliver, DeliverLocally, QueueBehind, Release,
                Confirm, FallBack, Reject, FlushStaysQueued, FlushConfirm, FlushReject,
                SettleRejected
  <2> QED  BY <1>2, <1>4, <2>1, <2>2
<1>7. ASSUME NEW w \in Writes, Dispatch(w)
      PROVE  \A e, i, k : Lies(e, i, k)' => Lies(e, i, k) \/ e = Direct(w)
  BY <1>3, <1>7, PlanEntries DEF Dispatch
<1>8. ASSUME SendBatch PROVE \A e, i, k : Lies(e, i, k)' => Lies(e, i, k)
  <2> DEFINE q == [id |-> sent', plans |-> batch, answers |-> <<>>, open |-> TRUE]
  <2>1. /\ net' = net \cup {q} /\ batch' = <<>> /\ sent' = sent + 1
        /\ q.id = sent + 1 /\ q.plans = batch
    BY <1>8 DEF SendBatch
  <2> HIDE DEF q
  <2>2. DOMAIN batch' = {}
    BY <2>1
  <2> QED  BY <2>1, <2>2 DEF Lies
<1>9. ASSUME NEW q \in net, ServerExec(q) PROVE \A e, i, k : Lies(e, i, k)' => Lies(e, i, k)
  <2>1. PICK answer \in Answers : Replies(q, answer)
    BY <1>9, RetriedExec
  <2> DEFINE p == [q EXCEPT !.answers = Append(@, answer)]
  <2>2. q \in Requests /\ UNCHANGED <<batch, sent>>
    BY <1>9, RetriedRequest, ServerOnly
  <2>3. p.id = q.id /\ p.plans = q.plans /\ net' = (net \ {q}) \cup {p}
    BY <2>1, <2>2 DEF Requests, Replies
  <2> HIDE DEF p
  <2> QED  BY <2>2, <2>3 DEF Lies
<1>10. ASSUME NEW q \in net, Respond(q) \/ Fail(q) \/ Refuse(q)
       PROVE  \A e, i, k : Lies(e, i, k)' => Lies(e, i, k)
  <2>1. net' = net \ {q} /\ UNCHANGED <<batch, sent>>
    BY <1>10, RetriedHears DEF Respond, Fail, Refuse
  <2> QED  BY <2>1 DEF Lies
<1>11. CASE TimerFires \/ FlushRound \/ FlushNow
  <2>1. UNCHANGED <<net, sent>> /\ (Replay \/ UNCHANGED batch)
    BY <1>11 DEF TimerFires, FlushRound, FlushNow
  <2> QED  BY <1>2, <1>5, <2>1
<1>12. ASSUME NEW r \in Records, Refresh(r)
       PROVE  \A e, i, k : Lies(e, i, k)' => Lies(e, i, k) \/ e.kind = "read"
  BY <1>4, <1>12 DEF Refresh
<1>13. ASSUME \/ Ingest \/ Collect \/ AtRest \/ UNCHANGED vars
              \/ \E r \in Records : RivalEdit(r)
       PROVE  \A e, i, k : Lies(e, i, k)' => Lies(e, i, k)
  BY <1>2, <1>13 DEF Ingest, Collect, AtRest, RivalEdit, vars
<1>14. CASE \E w \in Writes : Issue(w) \/ WriteSteps(w)
  BY <1>6, <1>7, <1>14
<1>15. CASE Runtime
  BY <1>8, <1>11, <1>13, <1>15 DEF Runtime
<1>16. CASE Network \/ Misfortune
  BY <1>9, <1>10, <1>16 DEF Network, Misfortune
<1>17. CASE Environment
  BY <1>11, <1>12, <1>13, <1>17 DEF Environment
<1> QED  BY <1>13, <1>14, <1>15, <1>16, <1>17 DEF Next

\* What happens to what arrived and to what a flush collected.
LEMMA HeardSteps ==
  ASSUME [Next]_vars, HeldInv
  PROVE  \/ /\ arrived' = arrived
            /\ \/ outcomes' \in {outcomes, <<>>}
               \/ outcomes # <<>> /\ outcomes' = Tail(outcomes)
         \/ arrived # <<>> /\ arrived' = Tail(arrived) /\ outcomes' = outcomes
         \/ Collect
         \/ \E q \in net : (Respond(q) \/ Fail(q) \/ Refuse(q)) /\ outcomes' = outcomes
<1>1. ASSUME NEW w \in Writes, Issue(w) \/ WriteSteps(w)
      PROVE  \/ /\ arrived' = arrived
                /\ outcomes' = outcomes \/ (outcomes # <<>> /\ outcomes' = Tail(outcomes))
             \/ arrived # <<>> /\ arrived' = Tail(arrived) /\ outcomes' = outcomes
  BY <1>1
  DEF Issue, WriteSteps, Stamp, Deliver, DeliverLocally, QueueBehind, Dispatch, Release,
      Confirm, FallBack, Reject, FlushStaysQueued, FlushConfirm, FlushReject, HeadIsFor, HeadIs,
      SettlingNext, NextOutcome, flushVars
<1>2. CASE Runtime
  BY <1>2 DEF Runtime, SendBatch, Ingest, Collect, TimerFires, FlushRound, Replay, HeadIs, flushVars
<1>3. CASE Network \/ Misfortune
  BY <1>3, ServerOnly DEF Network, Misfortune, Respond, Fail, Refuse, flushVars
<1>4. CASE Environment \/ AtRest \/ UNCHANGED vars
  BY <1>4 DEF Environment, FlushNow, Replay, RivalEdit, Refresh, AtRest, vars, flushVars
<1> QED  BY <1>1, <1>2, <1>3, <1>4 DEF Next

\* What a flush collected, as news.
LEMMA NewsOfIs ==
  ASSUME NEW o \in Seq(Results)
  PROVE  /\ NewsOf(o) \in Seq(News) /\ Len(NewsOf(o)) = Len(o) /\ Len(o) \in Nat
         /\ DOMAIN NewsOf(o) = DOMAIN o /\ DOMAIN o = 1..Len(o)
         /\ \A k \in 1..Len(o) :
              /\ NewsOf(o)[k] = [entry |-> Flush(o[k].write), answer |-> o[k].answer]
              /\ NewsOf(o)[k].entry = Flush(o[k].write)
              /\ NewsOf(o)[k].entry.kind = "flush"
              /\ NewsOf(o)[k].answer = o[k].answer
         /\ o = <<>> <=> NewsOf(o) = <<>>
<1>1. Len(o) \in Nat /\ DOMAIN o = 1..Len(o)
  BY LenProperties
<1>2. ASSUME NEW k \in 1..Len(o)
      PROVE  [entry |-> Flush(o[k].write), answer |-> o[k].answer] \in News
  <2>1. o[k] \in Results
    BY <1>1
  <2>2. o[k].write \in Writes /\ o[k].answer \in Answers
    BY <2>1 DEF Results
  <2> QED  BY <2>2, PlanEntries DEF News
<1>3. NewsOf(o) \in Seq(News) /\ Len(NewsOf(o)) = Len(o) /\ DOMAIN NewsOf(o) = 1..Len(o)
  BY <1>1, <1>2 DEF NewsOf
<1>4. \A k \in 1..Len(o) :
        NewsOf(o)[k] = [entry |-> Flush(o[k].write), answer |-> o[k].answer]
  BY <1>1 DEF NewsOf
<1>5. ASSUME NEW k \in 1..Len(o)
      PROVE  /\ NewsOf(o)[k].entry = Flush(o[k].write)
             /\ NewsOf(o)[k].answer = o[k].answer
  <2>1. NewsOf(o)[k] = [entry |-> Flush(o[k].write), answer |-> o[k].answer]
    BY <1>4
  <2> QED  BY <2>1
<1>6. o = <<>> <=> NewsOf(o) = <<>>
  BY <1>1, <1>3, EmptySeq
<1> QED  BY <1>1, <1>3, <1>4, <1>5, <1>6 DEF Flush

LEMMA ToldIs ==
  /\ TypeOK => outcomes \in Seq(Results)
  /\ Told' = NewsOf(outcomes')
BY DEF TypeOK, FlushTypeOK, Told, NewsOf, Flush

LEMMA ToldNone == outcomes' = <<>> => Told' = <<>>
<1>1. <<>> \in Seq(Results)
  OBVIOUS
<1> QED  BY <1>1, NewsOfIs, ToldIs

\* The head of what was collected is settled.
LEMMA ToldTail ==
  ASSUME TypeOK, outcomes # <<>>, outcomes' = Tail(outcomes)
  PROVE  /\ Told # <<>> /\ Told' = Tail(Told)
         /\ Head(Told).entry = Flush(Head(outcomes).write)
         /\ Head(Told).answer = Head(outcomes).answer
<1> DEFINE o == outcomes
           p == outcomes'
<1>1. o \in Seq(Results) /\ o # <<>> /\ p = Tail(o)
  BY ToldIs
<1> HIDE DEF o, p
<1>2. /\ 1 \in DOMAIN o /\ Head(o) = o[1]
      /\ p \in Seq(Results) /\ Len(p) = Len(o) - 1
      /\ \A k \in 1..Len(p) : p[k] = o[k + 1]
  BY <1>1, HeadTailProperties, LenProperties, EmptySeq
<1> DEFINE s == NewsOf(o)
           t == NewsOf(p)
<1>3. /\ s \in Seq(News) /\ Len(s) = Len(o) /\ Len(o) \in Nat /\ s # <<>>
      /\ DOMAIN o = 1..Len(o)
      /\ \A k \in 1..Len(o) : s[k] = [entry |-> Flush(o[k].write), answer |-> o[k].answer]
      /\ \A k \in 1..Len(o) : s[k].entry = Flush(o[k].write) /\ s[k].answer = o[k].answer
  BY <1>1, NewsOfIs
<1>4. /\ t \in Seq(News) /\ Len(t) = Len(p) /\ Len(p) \in Nat
      /\ \A k \in 1..Len(p) : t[k] = [entry |-> Flush(p[k].write), answer |-> p[k].answer]
  BY <1>2, NewsOfIs
<1> HIDE DEF s, t
<1>5. /\ Tail(s) \in Seq(News) /\ Len(Tail(s)) = Len(s) - 1 /\ Head(s) = s[1]
      /\ \A k \in 1..Len(Tail(s)) : Tail(s)[k] = s[k + 1]
  BY <1>3, HeadTailProperties
<1>6. ASSUME NEW k \in 1..Len(p) PROVE t[k] = Tail(s)[k]
  <2>1. k + 1 \in 1..Len(o) /\ k \in 1..Len(Tail(s))
    BY <1>2, <1>3, <1>4, <1>5
  <2> QED  BY <1>2, <1>3, <1>4, <1>5, <2>1
<1>7. t = Tail(s)
  BY <1>2, <1>3, <1>4, <1>5, <1>6, SeqEqual
<1>8. Told = s /\ Told' = t
  BY ToldIs DEF Told, s, t, o, p
<1> QED  BY <1>2, <1>3, <1>5, <1>7, <1>8 DEF o

LEMMA ToldAppend ==
  ASSUME TypeOK, NEW n \in News, n.entry.kind = "flush",
         outcomes' = Append(outcomes, [write |-> n.entry.write, answer |-> n.answer])
  PROVE  Told' = Append(Told, n)
<1> DEFINE new == [write |-> n.entry.write, answer |-> n.answer]
           o == outcomes
           p == outcomes'
<1>1. o \in Seq(Results) /\ p = Append(o, new)
  BY ToldIs
<1>2. n.entry \in Entries /\ n.answer \in Answers /\ n = [entry |-> n.entry, answer |-> n.answer]
  BY DEF News
<1>3. n.entry = Flush(n.entry.write) /\ n.entry.write \in Writes
  BY <1>2 DEF Entries, Flush
<1>4. new \in Results
  BY <1>2, <1>3 DEF Results
<1>5. new.write = n.entry.write /\ new.answer = n.answer
  OBVIOUS
<1> HIDE DEF new, o, p
<1>6. /\ p \in Seq(Results) /\ Len(o) \in Nat /\ Len(p) = Len(o) + 1
      /\ \A k \in 1..Len(o) : p[k] = o[k]
      /\ p[Len(o) + 1] = new
  BY <1>1, <1>4, AppendProperties, LenProperties
<1> DEFINE s == NewsOf(o)
           t == NewsOf(p)
<1>7. /\ s \in Seq(News) /\ Len(s) = Len(o)
      /\ \A k \in 1..Len(o) : s[k] = [entry |-> Flush(o[k].write), answer |-> o[k].answer]
  BY <1>1, NewsOfIs
<1>8. /\ t \in Seq(News) /\ Len(t) = Len(p)
      /\ \A k \in 1..Len(p) : t[k] = [entry |-> Flush(p[k].write), answer |-> p[k].answer]
  BY <1>6, NewsOfIs
<1> HIDE DEF s, t
<1>9. /\ Append(s, n) \in Seq(News) /\ Len(Append(s, n)) = Len(s) + 1
      /\ \A k \in 1..Len(s) : Append(s, n)[k] = s[k]
      /\ Append(s, n)[Len(s) + 1] = n
  BY <1>7, AppendProperties
<1>10. ASSUME NEW k \in 1..Len(p) PROVE t[k] = Append(s, n)[k]
  <2>1. CASE k \in 1..Len(o)
    BY <1>6, <1>7, <1>8, <1>9, <2>1
  <2>2. CASE k = Len(o) + 1
    BY <1>2, <1>3, <1>5, <1>6, <1>7, <1>8, <1>9, <2>2
  <2>3. k \in 1..Len(o) \/ k = Len(o) + 1
    BY <1>6
  <2> QED  BY <2>1, <2>2, <2>3
<1>11. t = Append(s, n)
  BY <1>6, <1>7, <1>8, <1>9, <1>10, SeqEqual
<1> QED  BY <1>11, ToldIs DEF Told, s, t, o, p

LEMMA DirectsNext ==
  Retried /\ TypeOK /\ TypeOK' /\ HeldInv /\ NoneReplayed /\ Prompt /\ DirectsFirst
    /\ [Next]_vars => DirectsFirst'
<1> SUFFICES ASSUME Retried, TypeOK, TypeOK', HeldInv, NoneReplayed, Prompt, DirectsFirst,
                    [Next]_vars
             PROVE  DirectsFirst'
  OBVIOUS
<1> DEFINE Ahead == \A a, b \in Writes : \A i, j, k, m \in Nat :
                      Lies(Flush(a), i, k)' /\ Lies(Direct(b), j, m)' => j < i \/ (j = i /\ m < k)
           AnyTold == \E k \in DOMAIN Told : Replays(Told[k])
           AnyTold2 == \E k \in DOMAIN Told' : Replays(Told'[k])
           AnyHeard == \E k \in DOMAIN arrived : Replays(arrived[k])
           AnyHeard2 == \E k \in DOMAIN arrived' : Replays(arrived'[k])
           Later == /\ AnyTold2 \/ AnyHeard2 =>
                         \A b \in Writes : \A j, m \in Nat : ~Lies(Direct(b), j, m)'
                    /\ AnyTold2 => \A m \in DOMAIN arrived' : arrived'[m].entry.kind # "direct"
                    /\ \A k, m \in DOMAIN arrived' :
                         k < m /\ Replays(arrived'[k]) => arrived'[m].entry.kind # "direct"
<1>1. DirectsFirst' <=> Ahead /\ Later
  BY DEF DirectsFirst, Replays, Flush, Direct
<1>2. /\ batch \in Seq(Entries) /\ arrived \in Seq(News) /\ outcomes \in Seq(Results)
      /\ DOMAIN batch = 1..Len(batch) /\ Len(batch) \in Nat
      /\ sent \in Nat /\ \A q \in net : q.id \in Nat /\ q.id <= sent
  BY LenProperties DEF TypeOK, TransportTypeOK, FlushTypeOK, Requests, HeldInv, NetInv
<1>3. \A b \in Writes : \A j, m : Lies(Direct(b), j, m) => j <= sent \/ (j = sent + 1 /\ m <= Len(batch))
  BY <1>2 DEF Lies
<1>4. \A a, b \in Writes : Flush(a) # Direct(b) /\ Flush(a).kind = "flush" /\ Direct(b).kind = "direct"
  BY DEF Flush, Direct
<1>5. ASSUME NEW w \in Writes, Dispatch(w) PROVE replayQueue = <<>>
  <2>1. CASE "drop" \in Faults
    BY <1>5, <2>1 DEF Dispatch, Retried
  <2>2. CASE "drop" \notin Faults
    BY <2>2 DEF Retried, Reliable, NoneReplayed, ReliableInv, NoReplay
  <2> QED  BY <2>1, <2>2
<1>6. Ahead
  <2> SUFFICES ASSUME NEW a \in Writes, NEW b \in Writes, NEW i \in Nat, NEW j \in Nat,
                      NEW k \in Nat, NEW m \in Nat, Lies(Flush(a), i, k)', Lies(Direct(b), j, m)'
               PROVE  j < i \/ (j = i /\ m < k)
    OBVIOUS
  <2>1. CASE Lies(Flush(a), i, k) /\ Lies(Direct(b), j, m)
    BY <2>1 DEF DirectsFirst
  <2>2. CASE \A e, x, y : Lies(e, x, y)' => Lies(e, x, y) \/ e.kind = "read"
    BY <1>4, <2>1, <2>2
  <2>3. ASSUME NEW w \in Writes, Dispatch(w),
               \A e, x, y : Lies(e, x, y)' => Lies(e, x, y) \/ e = Direct(w)
        PROVE  FALSE
    <3>1. Lies(Flush(a), i, k)
      BY <1>4, <2>3
    <3> QED  BY <1>5, <2>3, <3>1, NoReplays
  <2>4. CASE \A e, x, y : Lies(e, x, y)' =>
               Lies(e, x, y) \/ (e.kind = "flush" /\ x = sent + 1 /\ y > Len(batch))
    <3>1. Lies(Direct(b), j, m)
      BY <1>4, <2>4
    <3>2. j <= sent \/ (j = sent + 1 /\ m <= Len(batch))
      BY <1>3, <3>1
    <3>3. Lies(Flush(a), i, k) \/ (i = sent + 1 /\ k > Len(batch))
      BY <2>4
    <3> QED  BY <1>2, <2>1, <3>1, <3>2, <3>3
  <2> QED  BY <2>2, <2>3, <2>4, LiesMoves
<1>7. CASE \E w \in Writes : Dispatch(w)
  <2>1. /\ \A k \in DOMAIN arrived : arrived[k].entry.kind # "flush"
        /\ outcomes = <<>> /\ arrived' = arrived /\ outcomes' = <<>>
    BY <1>5, <1>7, NoReplays DEF Dispatch, flushVars
  <2>2. Told' = <<>> /\ DOMAIN <<>> = {}
    BY <2>1, ToldNone
  <2>3. ~AnyTold2
    BY <2>2
  <2>4. Later
    BY <2>1, <2>3 DEF Replays
  <2> QED  BY <1>1, <1>6, <2>4
<1>8. CASE ~\E w \in Writes : Dispatch(w)
  <2>1. \A b \in Writes : \A j, m : Lies(Direct(b), j, m)' => Lies(Direct(b), j, m)
    BY <1>4, <1>8, LiesMoves
  <2>2. /\ AnyTold \/ AnyHeard => \A b \in Writes : \A j, m \in Nat : ~Lies(Direct(b), j, m)
        /\ AnyTold => \A m \in DOMAIN arrived : arrived[m].entry.kind # "direct"
        /\ \A k, m \in DOMAIN arrived :
             k < m /\ Replays(arrived[k]) => arrived[m].entry.kind # "direct"
    BY DEF DirectsFirst
  <2>3. Told \in Seq(News)
    BY NewsOfIs, ToldIs DEF Told
  <2>4. outcomes' = outcomes => Told' = Told
    BY DEF Told, NewsOf, Flush
  <2>5. CASE arrived' = arrived /\ (outcomes' \in {outcomes, <<>>}
                                    \/ (outcomes # <<>> /\ outcomes' = Tail(outcomes)))
    <3>1. AnyTold2 => AnyTold
      <4>1. CASE outcomes' = outcomes
        BY <2>4, <4>1
      <4>2. CASE outcomes' = <<>>
        <5>1. Told' = <<>> /\ DOMAIN <<>> = {}
          BY <4>2, ToldNone
        <5> QED  BY <5>1
      <4>3. CASE outcomes # <<>> /\ outcomes' = Tail(outcomes)
        <5>1. Told # <<>> /\ Told' = Tail(Told)
          BY <4>3, ToldTail
        <5>2. \A k \in DOMAIN Told' : k + 1 \in DOMAIN Told /\ Told'[k] = Told[k + 1]
          BY <2>3, <5>1, TailAt
        <5> QED  BY <5>2
      <4> QED  BY <2>5, <4>1, <4>2, <4>3
    <3> QED  BY <1>1, <1>6, <2>1, <2>2, <2>5, <3>1
  <2>6. CASE arrived # <<>> /\ arrived' = Tail(arrived) /\ outcomes' = outcomes
    <3>1. \A k \in DOMAIN arrived' : /\ k + 1 \in DOMAIN arrived /\ arrived'[k] = arrived[k + 1]
                                     /\ k \in Nat
      BY <1>2, <2>6, TailAt
    <3>2. Told' = Told
      BY <2>4, <2>6
    <3>3. AnyHeard2 => AnyHeard
      BY <3>1
    <3>4. \A k, m \in DOMAIN arrived' :
            k < m /\ Replays(arrived'[k]) => arrived'[m].entry.kind # "direct"
      <4> SUFFICES ASSUME NEW k \in DOMAIN arrived', NEW m \in DOMAIN arrived', k < m,
                          Replays(arrived'[k])
                   PROVE  arrived'[m].entry.kind # "direct"
        OBVIOUS
      <4>1. k + 1 < m + 1
        BY <3>1
      <4> QED  BY <2>2, <3>1, <4>1
    <3>5. AnyTold2 => \A m \in DOMAIN arrived' : arrived'[m].entry.kind # "direct"
      BY <2>2, <3>1, <3>2
    <3> QED  BY <1>1, <1>6, <2>1, <2>2, <3>2, <3>3, <3>4, <3>5
  <2>7. CASE Collect
    <3> DEFINE n == Head(arrived)
    <3>1. /\ arrived # <<>> /\ arrived' = Tail(arrived) /\ n.entry.kind = "flush"
          /\ outcomes' = Append(outcomes, [write |-> n.entry.write, answer |-> n.answer])
      BY <2>7 DEF Collect, HeadIs, Next1
    <3>2. /\ 1 \in DOMAIN arrived /\ arrived[1] = n /\ n \in News
          /\ \A k \in DOMAIN arrived' : /\ k + 1 \in DOMAIN arrived /\ arrived'[k] = arrived[k + 1]
                                        /\ k \in Nat \ {0}
      BY <1>2, <3>1, TailAt
    <3> HIDE DEF n
    <3>3. Told' = Append(Told, n)
      BY <3>1, <3>2, ToldAppend
    <3>4. \A k \in DOMAIN Told' : (k \in DOMAIN Told /\ Told'[k] = Told[k]) \/ Told'[k] = n
      BY <2>3, <3>2, <3>3, AppendAt
    <3>5. AnyTold2 => AnyTold \/ Replays(arrived[1])
      BY <3>2, <3>4
    <3>6. AnyHeard2 => AnyHeard
      BY <3>2
    <3>7. \A m \in DOMAIN arrived' : 1 < m + 1
      BY <3>2
    <3>8. Replays(arrived[1]) => \A m \in DOMAIN arrived' : arrived'[m].entry.kind # "direct"
      BY <2>2, <3>2, <3>7
    <3>9. \A k, m \in DOMAIN arrived' :
            k < m /\ Replays(arrived'[k]) => arrived'[m].entry.kind # "direct"
      <4> SUFFICES ASSUME NEW k \in DOMAIN arrived', NEW m \in DOMAIN arrived', k < m,
                          Replays(arrived'[k])
                   PROVE  arrived'[m].entry.kind # "direct"
        OBVIOUS
      <4>1. k + 1 < m + 1
        BY <3>2
      <4> QED  BY <2>2, <3>2, <4>1
    <3>10. AnyTold2 \/ AnyHeard2 => AnyTold \/ AnyHeard
      BY <3>2, <3>5, <3>6
    <3>11. AnyTold2 => \A m \in DOMAIN arrived' : arrived'[m].entry.kind # "direct"
      BY <2>2, <3>2, <3>5, <3>8
    <3> QED  BY <1>1, <1>6, <2>1, <2>2, <3>9, <3>10, <3>11
  <2>8. ASSUME NEW q \in net, Respond(q) \/ Fail(q) \/ Refuse(q), outcomes' = outcomes
        PROVE  DirectsFirst'
    <3>1. /\ net' = net \ {q} /\ DOMAIN arrived' = 1..Len(q.plans)
          /\ \A k \in 1..Len(q.plans) : arrived'[k].entry = q.plans[k]
          /\ \/ \A p \in net : q.id <= p.id
             \/ \A k \in 1..Len(q.plans) : arrived'[k].answer.verdict # "ok"
      BY <2>8, RetriedHears
    <3>2. /\ DOMAIN q.plans = 1..Len(q.plans) /\ q.id \in Nat /\ q.plans \in Seq(Entries)
          /\ UNCHANGED <<batch, sent>> /\ Len(q.plans) \in Nat
      BY <2>8, RetriedRequest DEF Respond, Fail, Refuse
    <3>3. Told' = Told
      BY <2>4, <2>8
    <3>4. \A k \in DOMAIN arrived' : Lies(arrived'[k].entry, q.id, k) /\ k \in Nat
      BY <3>1, <3>2 DEF Lies
    <3>5. ASSUME NEW k \in DOMAIN arrived' PROVE
            /\ arrived'[k].entry.kind = "flush" => \E a \in Writes : arrived'[k].entry = Flush(a)
            /\ arrived'[k].entry.kind = "direct" => \E b \in Writes : arrived'[k].entry = Direct(b)
      <4>1. arrived'[k].entry \in Entries
        BY <3>1, <3>2
      <4> QED  BY <4>1 DEF Entries, Flush, Direct
    <3>6. AnyTold => \A m \in DOMAIN arrived' : arrived'[m].entry.kind # "direct"
      BY <2>2, <3>2, <3>4, <3>5
    <3>7. ASSUME NEW k \in DOMAIN arrived', NEW m \in DOMAIN arrived', k < m,
                 arrived'[k].entry.kind = "flush", arrived'[m].entry.kind = "direct"
          PROVE  FALSE
      <4>1. PICK a \in Writes : arrived'[k].entry = Flush(a)
        BY <3>5, <3>7
      <4>2. PICK b \in Writes : arrived'[m].entry = Direct(b)
        BY <3>5, <3>7
      <4>3. q.id < q.id \/ m < k
        BY <3>2, <3>4, <4>1, <4>2 DEF DirectsFirst
      <4> QED  BY <3>2, <3>4, <3>7, <4>3
    <3>8. ASSUME NEW k \in DOMAIN arrived', Replays(arrived'[k]),
                 NEW b \in Writes, NEW j \in Nat, NEW m \in Nat, Lies(Direct(b), j, m)'
          PROVE  FALSE
      <4>1. PICK a \in Writes : arrived'[k].entry = Flush(a)
        BY <3>5, <3>8 DEF Replays
      <4>2. Lies(Direct(b), j, m)
        BY <2>1, <3>8
      <4>3. j < q.id \/ (j = q.id /\ m < k)
        BY <3>2, <3>4, <4>1, <4>2 DEF DirectsFirst
      <4>4. \A p \in net : q.id <= p.id
        BY <3>1, <3>8 DEF Replays
      <4>5. CASE \E p \in net' : p.id = j
        <5>1. PICK p \in net : p # q /\ p.id = j
          BY <3>1, <4>5
        <5>2. j = q.id
          BY <1>2, <3>2, <4>3, <4>4, <5>1
        <5> QED  BY <5>1, <5>2 DEF HeldInv, NetInv
      <4>6. CASE j = sent + 1
        BY <1>2, <3>2, <4>3, <4>6
      <4> QED  BY <3>2, <3>8, <4>5, <4>6 DEF Lies
    <3>9. AnyTold2 \/ AnyHeard2 => \A b \in Writes : \A j, m \in Nat : ~Lies(Direct(b), j, m)'
      BY <2>1, <2>2, <3>3, <3>8
    <3>10. AnyTold2 => \A m \in DOMAIN arrived' : arrived'[m].entry.kind # "direct"
      BY <3>3, <3>6
    <3>11. \A k, m \in DOMAIN arrived' :
             k < m /\ Replays(arrived'[k]) => arrived'[m].entry.kind # "direct"
      BY <3>7 DEF Replays
    <3> QED  BY <1>1, <1>6, <3>9, <3>10, <3>11
  <2> QED  BY <2>5, <2>6, <2>7, <2>8, HeardSteps
<1> QED  BY <1>7, <1>8

----------------------------------------------------------------------------
(* How answers move from stage to stage.                                   *)

LEMMA DoneServes ==
  ASSUME Retried, TypeOK, Prompt, NEW q \in net
  PROVE  /\ Done(q) \in Seq(News) /\ Len(Done(q)) = Len(q.answers)
         /\ DOMAIN Done(q) = 1..Len(q.answers)
         /\ \A k \in 1..Len(q.answers) :
              /\ Done(q)[k] = [entry |-> q.plans[k], answer |-> q.answers[k]]
              /\ Done(q)[k].entry = q.plans[k]
         /\ q.answers = <<>> => Done(q) = <<>>
<1>1. /\ q.plans \in Seq(Entries) /\ q.answers \in Seq(Answers)
      /\ Len(q.plans) \in Nat /\ Len(q.answers) \in Nat /\ Len(q.answers) <= Len(q.plans)
  BY RetriedRequest
<1>2. \A k \in 1..Len(q.answers) : q.plans[k] \in Entries /\ q.answers[k] \in Answers
  BY <1>1
<1>3. Done(q) \in Seq(News)
  BY <1>1, <1>2 DEF Done, News
<1>4. Len(Done(q)) = Len(q.answers) /\ DOMAIN Done(q) = 1..Len(q.answers)
  BY <1>1 DEF Done
<1>5. q.answers = <<>> => Len(Done(q)) = 0
  BY <1>4
<1>6. ASSUME NEW k \in 1..Len(q.answers)
      PROVE  /\ Done(q)[k] = [entry |-> q.plans[k], answer |-> q.answers[k]]
             /\ Done(q)[k].entry = q.plans[k]
  <2>1. Done(q)[k] = [entry |-> q.plans[k], answer |-> q.answers[k]]
    BY DEF Done
  <2> QED  BY <2>1
<1> QED  BY <1>3, <1>4, <1>5, <1>6, EmptySeq

\* At most one request has answers, the oldest.
LEMMA ServedIs ==
  ASSUME Retried, TypeOK, HeldInv, Prompt
  PROVE  /\ Served \in Seq(News)
         /\ Answering = {} => Served = <<>>
         /\ \A q \in Answering : Served = Done(q)
         /\ \A q \in net : (\A p \in net : q.id <= p.id)
              => Served = Done(q) /\ \A p \in Answering : p = q
<1>1. ASSUME NEW q \in net, \A p \in net : q.id <= p.id, NEW p \in Answering PROVE p = q
  <2>1. p \in net /\ p.id <= q.id /\ q.id <= p.id
    BY <1>1 DEF Answering, Prompt
  <2>2. p.id \in Nat /\ q.id \in Nat
    BY <2>1, RetriedRequest
  <2>3. p.id = q.id
    BY <2>1, <2>2
  <2> QED  BY <2>1, <2>3 DEF HeldInv, NetInv
<1>2. ASSUME NEW q \in Answering PROVE Served = Done(q)
  <2>1. q \in net /\ \A p \in net : q.id <= p.id
    BY DEF Answering, Prompt
  <2>2. \A p \in Answering : p = q
    BY <1>1, <2>1
  <2>3. (CHOOSE p \in Answering : TRUE) = q
    BY <2>2
  <2> QED  BY <2>3 DEF Served
<1>3. Answering = {} => Served = <<>>
  BY DEF Served
<1>4. ASSUME NEW q \in net, \A p \in net : q.id <= p.id PROVE Served = Done(q)
  <2>1. CASE q \in Answering
    BY <1>2, <2>1
  <2>2. CASE q \notin Answering
    <3>1. Answering = {} /\ q.answers = <<>>
      BY <1>1, <1>4, <2>2 DEF Answering
    <3> QED  BY <1>3, <3>1, DoneServes
  <2> QED  BY <2>1, <2>2
<1>5. Served \in Seq(News)
  <2>1. CASE Answering = {}
    BY <1>3, <2>1
  <2>2. CASE Answering # {}
    BY <1>2, <2>2, DoneServes DEF Answering
  <2> QED  BY <2>1, <2>2
<1> QED  BY <1>1, <1>2, <1>3, <1>4, <1>5

\* The server's answer joins its request's.
LEMMA ServedGrows ==
  ASSUME Retried, TypeOK, HeldInv, Prompt,
         NEW q \in net, NEW answer \in Answers, Replies(q, answer)
  PROVE  /\ [entry |-> q.plans[Len(q.answers) + 1], answer |-> answer] \in News
         /\ Served' = Append(Served, [entry |-> q.plans[Len(q.answers) + 1], answer |-> answer])
         /\ Served = Done(q)
<1> DEFINE p == [q EXCEPT !.answers = Append(@, answer)]
           n == [entry |-> q.plans[Len(q.answers) + 1], answer |-> answer]
<1>1. /\ q \in Requests /\ q.plans \in Seq(Entries) /\ q.answers \in Seq(Answers)
      /\ Len(q.answers) \in Nat /\ Len(q.plans) \in Nat /\ DOMAIN q.plans = 1..Len(q.plans)
      /\ DOMAIN q.answers = 1..Len(q.answers)
  BY RetriedRequest
<1>2. p.id = q.id /\ p.plans = q.plans /\ p.answers = Append(q.answers, answer)
  BY <1>1 DEF Requests
<1>3. /\ Len(p.answers) = Len(q.answers) + 1 /\ p.answers # <<>>
      /\ \A k \in 1..Len(q.answers) : p.answers[k] = q.answers[k]
      /\ p.answers[Len(q.answers) + 1] = answer
  BY <1>1, <1>2, AppendProperties
<1>4. net' = (net \ {q}) \cup {p} /\ \A o \in net : q.id <= o.id
      /\ q.plans[Len(q.answers) + 1] \in Entries
  BY <1>1 DEF Replies
<1>5. n \in News
  BY <1>4 DEF News
<1>6. Served = Done(q) /\ \A o \in Answering : o = q
  BY <1>4, ServedIs
<1>7. Done(p) = Append(Done(q), n)
  <2> DEFINE longer == Append(Done(q), n)
  <2>1. Done(q) \in Seq(News) /\ Len(Done(q)) = Len(q.answers)
    BY DoneServes
  <2>2. /\ longer \in Seq(News) /\ Len(longer) = Len(q.answers) + 1
        /\ \A k \in 1..Len(q.answers) : longer[k] = Done(q)[k]
        /\ longer[Len(q.answers) + 1] = n
    BY <1>5, <2>1, AppendProperties
  <2>3. DOMAIN longer = 1..(Len(q.answers) + 1)
    BY <2>2, LenProperties
  <2>4. /\ DOMAIN Done(p) = 1..(Len(q.answers) + 1)
        /\ \A k \in 1..(Len(q.answers) + 1) :
             Done(p)[k] = [entry |-> q.plans[k], answer |-> p.answers[k]]
    BY <1>2, <1>3 DEF Done
  <2>5. \A k \in 1..Len(q.answers) : Done(q)[k] = [entry |-> q.plans[k], answer |-> q.answers[k]]
    BY DEF Done
  <2> HIDE DEF p, longer
  <2>6. ASSUME NEW k \in 1..(Len(q.answers) + 1) PROVE Done(p)[k] = longer[k]
    <3>1. Done(p)[k] = [entry |-> q.plans[k], answer |-> p.answers[k]]
      BY <2>4
    <3>2. CASE k \in 1..Len(q.answers)
      BY <1>3, <2>2, <2>5, <3>1, <3>2
    <3>3. CASE k = Len(q.answers) + 1
      BY <1>3, <2>2, <3>1, <3>3
    <3>4. k \in 1..Len(q.answers) \/ k = Len(q.answers) + 1
      BY <1>1
    <3> QED  BY <3>2, <3>3, <3>4
  <2>7. Done(p) = [k \in 1..(Len(q.answers) + 1) |-> Done(p)[k]]
    BY <2>4 DEF Done
  <2>8. longer = [k \in 1..(Len(q.answers) + 1) |-> longer[k]]
    BY <2>2, <2>3, LenProperties
  <2>9. Done(p) = longer
    BY <2>6, <2>7, <2>8
  <2> QED  BY <2>9 DEF longer
<1> HIDE DEF p, n
<1>8. Answering' = {p}
  BY <1>3, <1>4, <1>6 DEF Answering
<1>9. Served' = Done(p)
  <2>1. (CHOOSE o \in {p} : TRUE) = p
    OBVIOUS
  <2>2. Served' = IF Answering' = {} THEN <<>> ELSE Done(CHOOSE o \in Answering' : TRUE)
    BY DEF Served, Done
  <2> QED  BY <1>8, <2>1, <2>2
<1> QED  BY <1>5, <1>6, <1>7, <1>9 DEF n

\* They stay when requests without answers come or go, or nothing moves.
LEMMA ServedStays ==
  ASSUME Answering' = Answering
  PROVE  Served' = Served
<1>1. Served' = IF Answering' = {} THEN <<>> ELSE Done(CHOOSE o \in Answering' : TRUE)
  BY DEF Served, Done
<1> QED  BY <1>1 DEF Served

\* A response brings the answers of its request along, in the same order.
LEMMA ServedArrive ==
  ASSUME Retried, TypeOK, HeldInv, Prompt, NEW q \in net, Respond(q) \/ Fail(q) \/ Refuse(q)
  PROVE  /\ arrived = <<>>
         /\ \/ arrived' = Served /\ Served' = <<>>
            \/ Served' = Served /\ \A k \in DOMAIN arrived' : arrived'[k].answer.verdict # "ok"
<1>1. /\ arrived = <<>> /\ net' = net \ {q} /\ DOMAIN arrived' = 1..Len(q.plans)
      /\ \/ \A p \in net : q.id <= p.id /\ arrived' = Done(q)
         \/ q.answers = <<>> /\ \A k \in 1..Len(q.plans) : arrived'[k].answer.verdict # "ok"
  BY RetriedHears
<1>2. CASE \A p \in net : q.id <= p.id /\ arrived' = Done(q)
  <2>1. Served = Done(q) /\ \A p \in Answering : p = q
    BY <1>2, ServedIs
  <2>2. Answering' = {}
    BY <1>1, <2>1 DEF Answering
  <2>3. Served' = <<>>
    BY <2>2 DEF Served
  <2> QED  BY <1>1, <1>2, <2>1, <2>3
<1>3. CASE q.answers = <<>> /\ \A k \in 1..Len(q.plans) : arrived'[k].answer.verdict # "ok"
  <2>1. Answering' = Answering
    BY <1>1, <1>3 DEF Answering
  <2> QED  BY <1>1, <1>3, <2>1, ServedStays
<1> QED  BY <1>1, <1>2, <1>3

----------------------------------------------------------------------------
(* What a step does to the stages, the rows and the caller.                *)

\* No news of w are under way.
Unheard(w) ==
  /\ \A k \in DOMAIN Told : Told[k].entry \notin Plans(w)
  /\ \A k \in DOMAIN arrived : arrived[k].entry \notin Plans(w)
  /\ \A k \in DOMAIN Served : Served[k].entry \notin Plans(w)

\* The server answers a plan.
Speaks(n) ==
  /\ Served' = Append(Served, n)
  /\ UNCHANGED <<outcomes, arrived, canonical, rivals, pc>>
  /\ \/ \E r \in Records : n.entry = Read(r) /\ n.answer.row = server[r] /\ server' = server
     \/ \E w \in Writes :
          /\ n.entry \in Plans(w) /\ Unheard(w) /\ pc[w] # "confirmed"
          /\ n.answer.row = IF n.answer.verdict = "ok"
                            THEN Effect(w, server[Target[w]]) ELSE server[Target[w]]
          /\ server' = [server EXCEPT ![Target[w]] = n.answer.row]

\* The client hears of a request: its answers, or that it failed.
Lands ==
  /\ arrived = <<>> /\ UNCHANGED <<outcomes, canonical, server, rivals, pc>>
  /\ \/ arrived' = Served /\ Served' = <<>>
     \/ Served' = Served /\ \A k \in DOMAIN arrived' : arrived'[k].answer.verdict # "ok"

\* A flush collects an answer.
Gathers ==
  /\ arrived # <<>> /\ arrived' = Tail(arrived) /\ Head(arrived).entry.kind = "flush"
  /\ Told' = Append(Told, Head(arrived)) /\ Served' = Served
  /\ UNCHANGED <<canonical, server, rivals, pc>>

\* The client takes the news n for what they are.
Takes(n) ==
  /\ UNCHANGED <<server, rivals>>
  /\ \A r \in Cached : canonical'[r] = IF Reports(n, r) THEN n.answer.row ELSE canonical[r]
  /\ \A w \in Writes : pc'[w] = "confirmed" =>
       pc[w] = "confirmed" \/ (n.entry \in Plans(w) /\ n.answer.verdict = "ok")

\* It takes what a flush collected, or what arrived: those are no news of a
\* write while a flush holds any that it confirms.
TakesTold ==
  /\ Told # <<>> /\ Told' = Tail(Told) /\ arrived' = arrived /\ Served' = Served
  /\ Takes(Head(Told))
TakesHeard ==
  /\ arrived # <<>> /\ arrived' = Tail(arrived) /\ outcomes' = outcomes /\ Served' = Served
  /\ Takes(Head(arrived))
  /\ \/ Head(arrived).entry.kind = "read"
     \/ \A k \in DOMAIN Told : Told[k].answer.verdict # "ok"

\* No answer moves.
Stays == UNCHANGED <<outcomes, arrived>> /\ Served' = Served
\* Nor is a write confirmed, or a row changed.
Passes ==
  /\ Stays /\ UNCHANGED <<canonical, server, rivals>>
  /\ \A w \in Writes : pc'[w] = "confirmed" => pc[w] = "confirmed"

\* A deletion that succeeded is answered with no row.
Removes(s) ==
  \A k \in DOMAIN s :
    s[k].answer.verdict = "ok" /\ s[k].entry.kind # "read" /\ Op[s[k].entry.write] = "delete"
      => s[k].answer.row = NoRow
Removed == Removes(Told) /\ Removes(arrived) /\ Removes(Served)

SteadyInv ==
  TypeOK /\ HeldInv /\ OverlayMatches /\ NoneReplayed /\ Prompt /\ DirectsFirst /\ Removed

\* A confirmed write whose answer is n, and one that is not.
LEMMA ConfirmedTakes ==
  ASSUME TypeOK, NEW w \in Writes, NEW n \in News, n.entry \in Plans(w), n.answer.verdict = "ok",
         Target[w] \in Cached => w \in outbox, Op[w] = "delete" => n.answer.row = NoRow,
         SettleConfirmed(w, n.answer), UNCHANGED <<server, rivals>>
  PROVE  Takes(n)
<1>1. n.entry.kind # "read" /\ n.entry.write = w
  BY DEF Plans, Direct, Flush
<1>2. /\ canonical \in [Records -> Row] /\ Cached \subseteq Records /\ Op[w] \in Ops
      /\ pc \in [Writes -> PcStates]
  BY EngineAssumption, WritesAssumption DEF TypeOK, CacheTypeOK, PipelineTypeOK
<1>3. /\ pc' = [pc EXCEPT ![w] = "confirmed"]
      /\ canonical' = IF w \in outbox
           THEN [canonical EXCEPT ![Target[w]] = Merged(w, n.answer, canonical[Target[w]])]
           ELSE canonical
  BY DEF SettleConfirmed
<1>4. ASSUME NEW x \in Cached
      PROVE  canonical'[x] = IF Reports(n, x) THEN n.answer.row ELSE canonical[x]
  <2>1. Reports(n, x) <=> Target[w] = x /\ Op[w] # "opaque"
    BY <1>1 DEF Reports, About
  <2>2. CASE x # Target[w]
    BY <1>2, <1>3, <2>1, <2>2
  <2>3. CASE x = Target[w]
    <3>1. canonical'[x] = Merged(w, n.answer, canonical[x])
      BY <1>2, <1>3, <2>3
    <3>2. CASE Op[w] = "opaque"
      BY <2>1, <3>1, <3>2 DEF Merged, Lowered, LocalEffect
    <3>3. CASE Op[w] = "delete"
      BY <2>1, <2>3, <3>1, <3>3 DEF Merged, Lowered, LocalEffect
    <3>4. CASE Op[w] \in {"patch", "action", "create"}
      BY <2>1, <2>3, <3>1, <3>4 DEF Merged, Lowered
    <3> QED  BY <1>2, <3>2, <3>3, <3>4 DEF Ops
  <2> QED  BY <2>2, <2>3
<1>5. \A v \in Writes : pc'[v] = "confirmed" => pc[v] = "confirmed" \/ v = w
  BY <1>2, <1>3
<1> QED  BY <1>4, <1>5 DEF Takes

LEMMA OtherwiseTakes ==
  ASSUME NEW n, n.answer.verdict # "ok", UNCHANGED <<canonical, server, rivals>>,
         \A w \in Writes : pc'[w] = "confirmed" => pc[w] = "confirmed"
  PROVE  Takes(n)
BY DEF Takes, Reports

\* The client takes the answer to a plan that went out on its own.
LEMMA HeardByWrite ==
  ASSUME Retried, SteadyInv, NEW w \in Writes, Confirm(w) \/ Reject(w) \/ FallBack(w)
  PROVE  TakesHeard
<1> DEFINE n == Head(arrived)
<1>1. /\ TypeOK /\ HeldInv /\ OverlayMatches /\ Prompt /\ DirectsFirst /\ Removed
      /\ arrived \in Seq(News) /\ pc \in [Writes -> PcStates]
  BY DEF SteadyInv, TypeOK, TransportTypeOK, PipelineTypeOK
<1>2. /\ arrived # <<>> /\ n.entry.kind = "direct" /\ n.entry.write = w
      /\ arrived' = Tail(arrived) /\ UNCHANGED <<net, outcomes, server, rivals>>
  BY DEF Confirm, Reject, FallBack, HeadIsFor, HeadIs, Next1, flushVars, world, bounds
<1>3. n \in News /\ 1 \in DOMAIN arrived /\ arrived[1] = n
  BY <1>1, <1>2, TailAt
<1>4. n.entry \in Entries /\ n.answer \in Answers
  BY <1>3 DEF News
<1>5. n.entry = Direct(w)
  BY <1>2, <1>4 DEF Entries, Direct
<1>6. pc[w] = "direct"
  <2>1. Direct(w) \in Entries /\ arrived[1].entry = Direct(w)
    BY <1>3, <1>5, PlanEntries
  <2>2. Copies(Direct(w)) # 0
    BY <1>1, <1>3, <2>1, NowhereIs
  <2>3. Fits(pc[w], flushing, Copies(Direct(w)), Count(replayQueue, {w}), Copies(Flush(w)),
             Count(flushBatch, {w}), Count(outcomes, Of(w)))
    BY <1>1, HeldIs
  <2> QED  BY <2>2, <2>3 DEF Fits
<1>7. Served' = Served
  BY <1>2, ServedStays DEF Answering
<1>8. \A k \in DOMAIN Told : Told[k].answer.verdict # "ok"
  <2> SUFFICES ASSUME NEW k \in DOMAIN Told, Told[k].answer.verdict = "ok" PROVE FALSE
    OBVIOUS
  <2>1. Told[k].entry.kind = "flush"
    BY <1>1, ToldIs, NewsOfIs DEF Told
  <2>2. Replays(Told[k])
    BY <2>1 DEF Replays
  <2>3. arrived[1].entry.kind # "direct"
    BY <1>1, <1>3, <2>2 DEF DirectsFirst
  <2> QED  BY <1>2, <1>3, <2>3
<1>9. Takes(n)
  <2>1. CASE Confirm(w)
    <3>1. SettleConfirmed(w, n.answer) /\ n.answer.verdict = "ok"
      BY <2>1 DEF Confirm, Next1
    <3>2. Target[w] \in Cached => w \in outbox
      BY <1>1, <1>6 DEF OverlayMatches
    <3>3. Op[w] = "delete" => n.answer.row = NoRow
      BY <1>1, <1>2, <1>3, <3>1 DEF Removed, Removes
    <3>4. n.entry \in Plans(w) /\ UNCHANGED <<server, rivals>>
      BY <1>2, <1>5 DEF Plans
    <3> HIDE DEF n
    <3> QED  BY <1>1, <1>3, <3>1, <3>2, <3>3, <3>4, ConfirmedTakes
  <2>2. CASE Reject(w) \/ FallBack(w)
    <3>1. /\ n.answer.verdict # "ok" /\ canonical' = canonical
          /\ pc' \in {[pc EXCEPT ![w] = "rejected"], [pc EXCEPT ![w] = "queued"]}
      BY <2>2 DEF Reject, FallBack, SettleRejected, Next1, cache
    <3>2. \A v \in Writes : pc'[v] = "confirmed" => pc[v] = "confirmed"
      BY <1>1, <3>1
    <3> HIDE DEF n
    <3> QED  BY <1>2, <3>1, <3>2, OtherwiseTakes
  <2> QED  BY <2>1, <2>2
<1> QED  BY <1>2, <1>7, <1>8, <1>9 DEF TakesHeard

\* It settles an answer that a flush collected.
LEMMA ToldByFlush ==
  ASSUME Retried, SteadyInv, TypeOK', NEW w \in Writes,
         FlushStaysQueued(w) \/ FlushConfirm(w) \/ FlushReject(w)
  PROVE  TakesTold
<1> DEFINE n == Head(Told)
<1>1. /\ TypeOK /\ HeldInv /\ OverlayMatches /\ Prompt /\ DirectsFirst /\ Removed
      /\ pc \in [Writes -> PcStates] /\ Told \in Seq(News)
  BY ToldIs, NewsOfIs DEF SteadyInv, TypeOK, PipelineTypeOK, Told
<1>2. /\ SettlingNext(w) /\ NextOutcome
      /\ UNCHANGED <<net, arrived, server, rivals>>
  BY DEF FlushStaysQueued, FlushConfirm, FlushReject, world, bounds
<1>3. outcomes # <<>> /\ Head(outcomes).write = w /\ outcomes' = Tail(outcomes)
  BY <1>2 DEF SettlingNext, NextOutcome
<1>4. /\ Told # <<>> /\ Told' = Tail(Told) /\ n.entry = Flush(w) /\ n.answer = Head(outcomes).answer
  BY <1>1, <1>3, ToldTail
<1>5. n \in News /\ 1 \in DOMAIN Told /\ Told[1] = n
  BY <1>1, <1>4, TailAt
<1>6. pc[w] \in {"queued", "behind"}
  BY <1>1, <1>2, SettlingHolds
<1>7. Served' = Served
  BY <1>2, ServedStays DEF Answering
<1> HIDE DEF n
<1>8. Takes(n)
  <2>1. CASE FlushConfirm(w)
    <3>1. SettleConfirmed(w, n.answer) /\ n.answer.verdict = "ok"
      BY <1>4, <2>1 DEF FlushConfirm, Outcome
    <3>2. Target[w] \in Cached => w \in outbox
      BY <1>1, <1>6 DEF OverlayMatches
    <3>3. Op[w] = "delete" => n.answer.row = NoRow
      <4>1. n.entry.kind # "read" /\ n.entry.write = w
        BY <1>4 DEF Flush
      <4> QED  BY <1>1, <1>5, <3>1, <4>1 DEF Removed, Removes
    <3>4. n.entry \in Plans(w) /\ UNCHANGED <<server, rivals>>
      BY <1>2, <1>4 DEF Plans
    <3> QED  BY <1>1, <1>5, <3>1, <3>2, <3>3, <3>4, ConfirmedTakes
  <2>2. CASE FlushStaysQueued(w) \/ FlushReject(w)
    <3>1. /\ n.answer.verdict # "ok" /\ canonical' = canonical
          /\ pc' \in {[pc EXCEPT ![w] = "rejected"], pc}
      BY <1>4, <2>2 DEF FlushStaysQueued, FlushReject, SettleRejected, Outcome, cache, pipeline
    <3>2. \A v \in Writes : pc'[v] = "confirmed" => pc[v] = "confirmed"
      BY <1>1, <3>1
    <3> QED  BY <1>2, <3>1, <3>2, OtherwiseTakes
  <2> QED  BY <2>1, <2>2
<1> QED  BY <1>2, <1>4, <1>7, <1>8 DEF TakesTold, n

\* The server speaks of a write that nothing else speaks of.
LEMMA ExecSpeaks ==
  ASSUME Retried, SteadyInv, NEW q \in net, ServerExec(q)
  PROVE  \E n \in News : Speaks(n)
<1> DEFINE plan == q.plans[Len(q.answers) + 1]
<1>1. TypeOK /\ HeldInv /\ Prompt
  BY DEF SteadyInv
<1>2. PICK answer \in Answers :
        /\ Replies(q, answer)
        /\ \/ \E r \in Records :
                /\ plan = Read(r)
                /\ answer.verdict = "ok" /\ answer.row = server[r] /\ UNCHANGED world
           \/ \E w \in Writes :
                /\ plan \in Plans(w)
                /\ answer.row = IF answer.verdict = "ok"
                                THEN Effect(w, server[Target[w]]) ELSE server[Target[w]]
                /\ server' = [server EXCEPT ![Target[w]] = answer.row]
  BY <1>1, RetriedExec
<1>3. UNCHANGED <<outcomes, arrived, canonical, rivals, pc>>
  BY ServerOnly DEF flushVars, cache, bounds, pipeline
<1> DEFINE n == [entry |-> plan, answer |-> answer]
<1>4. n \in News /\ Served' = Append(Served, n) /\ Served = Done(q)
  BY <1>1, <1>2, ServedGrows
<1>5. n.entry = plan /\ n.answer = answer
  OBVIOUS
<1>6. Len(q.answers) + 1 \in DOMAIN q.plans /\ q.open /\ Len(q.answers) \in Nat
  BY <1>1, <1>2, RetriedRequest DEF Replies
<1>7. ASSUME NEW w \in Writes, plan \in Plans(w) PROVE Unheard(w) /\ pc[w] # "confirmed"
  <2>1. /\ \A p \in net : p.open => \A j \in DOMAIN p.plans :
             p.plans[j] \in Plans(w) => p = q /\ j = Len(q.answers) + 1
        /\ \A j \in DOMAIN arrived : arrived[j].entry \notin Plans(w)
        /\ \A j \in DOMAIN outcomes : outcomes[j].write # w
        /\ pc[w] = "direct" \/ (pc[w] \in {"queued", "behind"} /\ InFlush(w))
    BY <1>1, <1>6, <1>7, OnlyCopy
  <2>2. ASSUME NEW k \in DOMAIN Told PROVE Told[k].entry \notin Plans(w)
    <3>1. outcomes \in Seq(Results) /\ k \in DOMAIN outcomes /\ Told[k].entry = Flush(outcomes[k].write)
      BY <1>1, ToldIs, NewsOfIs DEF Told
    <3>2. outcomes[k].write \in Writes /\ outcomes[k].write # w
      <4>1. outcomes[k] \in Results
        BY <3>1
      <4> QED  BY <2>1, <3>1, <4>1 DEF Results
    <3>3. Told[k].entry # Flush(w) /\ Told[k].entry # Direct(w)
      BY <3>1, <3>2, PlanEntries
    <3> QED  BY <3>3 DEF Plans
  <2>3. ASSUME NEW k \in DOMAIN Served PROVE Served[k].entry \notin Plans(w)
    <3>1. k \in 1..Len(q.answers) /\ Served[k].entry = q.plans[k]
      BY <1>1, <1>4, DoneServes
    <3>2. k \in DOMAIN q.plans /\ k # Len(q.answers) + 1
      BY <1>1, <1>6, <3>1, RetriedRequest
    <3> QED  BY <1>6, <2>1, <3>1, <3>2
  <2> QED  BY <2>1, <2>2, <2>3 DEF Unheard
<1> HIDE DEF n, plan
<1>8. Speaks(n)
  BY <1>2, <1>3, <1>4, <1>5, <1>7 DEF Speaks, world
<1> QED  BY <1>4, <1>8

\* What any step does.
LEMMA StageMoves ==
  ASSUME Retried, SteadyInv, TypeOK', [Next]_vars
  PROVE  \/ \E n \in News : Speaks(n)
         \/ Lands
         \/ Gathers
         \/ TakesTold
         \/ TakesHeard
         \/ Passes
         \/ \E w \in Writes \ Sourced : DeliverLocally(w) /\ Stays
         \/ \E x \in Records : RivalEdit(x) /\ Stays
<1>1. /\ TypeOK /\ HeldInv /\ Prompt
      /\ arrived \in Seq(News) /\ pc \in [Writes -> PcStates]
  BY DEF SteadyInv, TypeOK, TransportTypeOK, PipelineTypeOK
<1>2. UNCHANGED net => Served' = Served
  BY ServedStays DEF Answering
<1>3. ASSUME NEW w \in Writes,
             \/ Issue(w) \/ Stamp(w) \/ Deliver(w) \/ QueueBehind(w) \/ Dispatch(w) \/ Release(w)
      PROVE  Passes
  <2>1. UNCHANGED <<net, outcomes, arrived, canonical, server, rivals>>
    BY <1>3 DEF Issue, Stamp, Deliver, QueueBehind, Dispatch, Release, cache, flushVars, world,
                bounds
  <2>2. \A v \in Writes : pc'[v] = "confirmed" => pc[v] = "confirmed"
    BY <1>1, <1>3 DEF Issue, Stamp, Deliver, QueueBehind, Dispatch, Release
  <2> QED  BY <1>2, <2>1, <2>2 DEF Passes, Stays
<1>4. ASSUME UNCHANGED <<net, outcomes, arrived, canonical, server, rivals, pc>> PROVE Passes
  BY <1>2, <1>4 DEF Passes, Stays
<1>5. ASSUME TimerFires \/ FlushRound \/ FlushNow PROVE Passes
  <2>1. UNCHANGED <<net, arrived, canonical, server, rivals, pc>>
    BY <1>5 DEF TimerFires, FlushRound, FlushNow, pipeline, cache, world, bounds
  <2>2. outcomes' = outcomes
    BY <1>1, <1>5 DEF TimerFires, FlushRound, FlushNow, Replay, flushVars, HeldInv
  <2> QED  BY <1>4, <2>1, <2>2
<1>6. ASSUME SendBatch PROVE Passes
  <2>1. PICK p : p.answers = <<>> /\ net' = net \cup {p}
    BY <1>6 DEF SendBatch
  <2>2. Served' = Served
    BY <2>1, ServedStays DEF Answering
  <2>3. UNCHANGED <<outcomes, arrived, canonical, server, rivals, pc>>
    BY <1>6 DEF SendBatch, pipeline, cache, flushVars, world, bounds
  <2> QED  BY <2>2, <2>3 DEF Passes, Stays
<1>7. ASSUME Ingest PROVE TakesHeard
  <2> DEFINE n == Head(arrived)
  <2>1. /\ arrived # <<>> /\ n.entry.kind = "read" /\ arrived' = Tail(arrived)
        /\ canonical' = IF n.entry.record \in Cached /\ n.answer.verdict = "ok"
                        THEN [canonical EXCEPT ![n.entry.record] = n.answer.row]
                        ELSE canonical
        /\ UNCHANGED <<net, outcomes, server, rivals, pc>>
    BY <1>7 DEF Ingest, HeadIs, Next1, flushVars, world, bounds, pipeline
  <2>2. canonical \in [Records -> Row] /\ Cached \subseteq Records
    BY <1>1, EngineAssumption DEF TypeOK, CacheTypeOK
  <2> HIDE DEF n
  <2>3. Takes(n)
    BY <2>1, <2>2 DEF Takes, Reports, About
  <2> QED  BY <1>2, <2>1, <2>3 DEF TakesHeard, n
<1>8. ASSUME Collect PROVE Gathers
  <2> DEFINE n == Head(arrived)
  <2>1. /\ arrived # <<>> /\ n.entry.kind = "flush" /\ arrived' = Tail(arrived)
        /\ outcomes' = Append(outcomes, [write |-> n.entry.write, answer |-> n.answer])
        /\ UNCHANGED <<net, canonical, server, rivals, pc>>
    BY <1>8 DEF Collect, HeadIs, Next1, pipeline, cache, world, bounds
  <2>2. n \in News
    BY <1>1, <2>1, TailAt
  <2> HIDE DEF n
  <2>3. Told' = Append(Told, n)
    BY <1>1, <2>1, <2>2, ToldAppend
  <2> QED  BY <1>2, <2>1, <2>3 DEF Gathers, n
<1>9. ASSUME NEW q \in net, Respond(q) \/ Fail(q) \/ Refuse(q) PROVE Lands
  <2>1. /\ arrived = <<>>
        /\ \/ arrived' = Served /\ Served' = <<>>
           \/ Served' = Served /\ \A k \in DOMAIN arrived' : arrived'[k].answer.verdict # "ok"
    BY <1>1, <1>9, ServedArrive
  <2>2. UNCHANGED <<outcomes, canonical, server, rivals, pc>>
    BY <1>9 DEF Respond, Fail, Refuse, pipeline, cache, flushVars, world, bounds
  <2> QED  BY <2>1, <2>2 DEF Lands
<1>10. ASSUME NEW w \in Writes, DeliverLocally(w)
       PROVE  w \in Writes \ Sourced /\ Stays
  BY <1>2, <1>10 DEF DeliverLocally, Stays, flushVars
<1>11. ASSUME NEW x \in Records, RivalEdit(x) PROVE Stays
  BY <1>2, <1>11 DEF RivalEdit, Stays, flushVars
<1>12. ASSUME NEW x \in Records, Refresh(x) PROVE Passes
  BY <1>4, <1>12 DEF Refresh, pipeline, cache, flushVars, world, bounds
<1>13. ASSUME AtRest \/ UNCHANGED vars PROVE Passes
  BY <1>4, <1>13 DEF AtRest, vars, pipeline, cache, flushVars, world, bounds
<1>14. ASSUME NEW w \in Writes, Issue(w) \/ WriteSteps(w)
       PROVE  \/ Passes \/ TakesHeard \/ TakesTold
              \/ \E v \in Writes \ Sourced : DeliverLocally(v) /\ Stays
  BY <1>3, <1>10, <1>14, HeardByWrite, ToldByFlush DEF WriteSteps
<1>15. ASSUME Runtime PROVE Passes \/ TakesHeard \/ Gathers
  BY <1>5, <1>6, <1>7, <1>8, <1>15 DEF Runtime
<1>16. ASSUME Network \/ Misfortune PROVE Lands \/ \E n \in News : Speaks(n)
  BY <1>9, <1>16, ExecSpeaks DEF Network, Misfortune
<1>17. ASSUME Environment PROVE Passes \/ \E x \in Records : RivalEdit(x) /\ Stays
  BY <1>5, <1>11, <1>12, <1>17 DEF Environment
<1> QED  BY <1>13, <1>14, <1>15, <1>16, <1>17 DEF Next

\* What a part of a stage keeps of it.
LEMMA RemovesParts ==
  /\ Removes(<<>>)
  /\ \A s : (\A k \in DOMAIN s : s[k].answer.verdict # "ok") => Removes(s)
  /\ \A s \in Seq(News) : s # <<>> /\ Removes(s) => Removes(Tail(s))
<1>1. Removes(<<>>)
  BY DEF Removes
<1>2. ASSUME NEW s, \A k \in DOMAIN s : s[k].answer.verdict # "ok" PROVE Removes(s)
  BY <1>2 DEF Removes
<1>3. ASSUME NEW s \in Seq(News), s # <<>>, Removes(s) PROVE Removes(Tail(s))
  <2>1. \A k \in DOMAIN Tail(s) : k + 1 \in DOMAIN s /\ Tail(s)[k] = s[k + 1]
    BY <1>3, TailAt
  <2> QED  BY <1>3, <2>1 DEF Removes
<1> QED  BY <1>1, <1>2, <1>3

LEMMA RemovesAppend ==
  ASSUME NEW s \in Seq(News), Removes(s), NEW n \in News,
         n.answer.verdict = "ok" /\ n.entry.kind # "read" /\ Op[n.entry.write] = "delete"
           => n.answer.row = NoRow
  PROVE  Removes(Append(s, n))
<1>1. \A k \in DOMAIN Append(s, n) :
        (k \in DOMAIN s /\ Append(s, n)[k] = s[k]) \/ Append(s, n)[k] = n
  BY AppendAt
<1> QED  BY <1>1 DEF Removes

LEMMA StagesAre ==
  ASSUME Retried, SteadyInv
  PROVE  /\ TypeOK /\ HeldInv /\ OverlayMatches /\ Prompt /\ DirectsFirst
         /\ Removes(Told) /\ Removes(arrived) /\ Removes(Served)
         /\ Told \in Seq(News) /\ arrived \in Seq(News) /\ Served \in Seq(News)
         /\ outcomes' = outcomes => Told' = Told
<1>1. outcomes' = outcomes => Told' = Told
  BY DEF Told, NewsOf, Flush
<1>2. TypeOK /\ HeldInv /\ OverlayMatches /\ Prompt /\ DirectsFirst /\ Removed
  BY DEF SteadyInv
<1>3. Told \in Seq(News)
  BY <1>2, ToldIs, NewsOfIs DEF Told
<1> QED  BY <1>1, <1>2, <1>3, ServedIs DEF Removed, TypeOK, TransportTypeOK

LEMMA RemovedNext ==
  ASSUME Retried, SteadyInv, TypeOK', [Next]_vars
  PROVE  Removed'
<1>1. Removes(Told) /\ Removes(arrived) /\ Removes(Served)
      /\ Told \in Seq(News) /\ arrived \in Seq(News) /\ Served \in Seq(News)
      /\ (outcomes' = outcomes => Told' = Told)
  BY StagesAre
<1>2. Removed' <=> Removes(Told') /\ Removes(arrived') /\ Removes(Served')
  BY DEF Removed, Removes
<1>3. ASSUME NEW n \in News, Speaks(n) PROVE Removed'
  <2>1. Served' = Append(Served, n) /\ Told' = Told /\ arrived' = arrived
    BY <1>1, <1>3 DEF Speaks
  <2>2. ASSUME n.answer.verdict = "ok", n.entry.kind # "read", Op[n.entry.write] = "delete"
        PROVE  n.answer.row = NoRow
    <3>1. \A r : n.entry # Read(r)
      BY <2>2 DEF Read
    <3>2. PICK w \in Writes : /\ n.entry \in Plans(w)
                              /\ n.answer.row = Effect(w, server[Target[w]])
      BY <1>3, <2>2, <3>1 DEF Speaks
    <3>3. n.entry.write = w
      BY <3>2 DEF Plans, Direct, Flush
    <3> QED  BY <2>2, <3>2, <3>3 DEF Effect
  <2>3. Removes(Append(Served, n))
    BY <1>1, <2>2, RemovesAppend
  <2> QED  BY <1>1, <1>2, <2>1, <2>3
<1>4. ASSUME Lands PROVE Removed'
  BY <1>1, <1>2, <1>4, RemovesParts DEF Lands
<1>5. ASSUME Gathers PROVE Removed'
  <2> DEFINE n == Head(arrived)
  <2>1. /\ arrived # <<>> /\ arrived' = Tail(arrived) /\ Told' = Append(Told, n)
        /\ Served' = Served
    BY <1>5 DEF Gathers
  <2>2. n \in News /\ 1 \in DOMAIN arrived /\ arrived[1] = n
    BY <1>1, <2>1, TailAt
  <2>3. n.answer.verdict = "ok" /\ n.entry.kind # "read" /\ Op[n.entry.write] = "delete"
          => n.answer.row = NoRow
    BY <1>1, <2>2 DEF Removes
  <2> HIDE DEF n
  <2>4. Removes(Append(Told, n))
    BY <1>1, <2>2, <2>3, RemovesAppend
  <2> QED  BY <1>1, <1>2, <2>1, <2>4, RemovesParts
<1>6. ASSUME TakesTold \/ TakesHeard PROVE Removed'
  BY <1>1, <1>2, <1>6, RemovesParts DEF TakesTold, TakesHeard
<1>7. ASSUME Stays PROVE Removed'
  BY <1>1, <1>2, <1>7 DEF Stays
<1> QED  BY <1>3, <1>4, <1>5, <1>6, <1>7, StageMoves DEF Passes

LEMMA SteadyInit == Init => SteadyInv /\ Told = <<>> /\ arrived = <<>> /\ Served = <<>>
<1> SUFFICES ASSUME Init PROVE SteadyInv /\ Told = <<>> /\ arrived = <<>> /\ Served = <<>>
  OBVIOUS
<1>1. arrived = <<>> /\ outcomes = <<>> /\ net = {} /\ batch = <<>> /\ Answering = {}
  BY DEF Init, Answering
<1>2. Served = <<>>
  BY <1>1 DEF Served
<1>3. Told = <<>>
  <2>1. <<>> \in Seq(Results)
    OBVIOUS
  <2> QED  BY <1>1, <2>1, NewsOfIs DEF Told
<1>4. Prompt
  BY <1>1 DEF Prompt
<1>5. \A e, i, k : ~Lies(e, i, k)
  BY <1>1 DEF Lies
<1>6. DirectsFirst
  <2>1. DOMAIN Told = {} /\ DOMAIN arrived = {}
    BY <1>1, <1>3
  <2> QED  BY <1>5, <2>1 DEF DirectsFirst
<1>7. OverlayMatches
  BY DEF Init, OverlayMatches
<1>8. Removed
  BY <1>1, <1>2, <1>3, RemovesParts DEF Removed
<1>9. ReliableInv
  BY <1>1 DEF Init, ReliableInv, NoReplay
<1> QED
  BY <1>1, <1>2, <1>3, <1>4, <1>6, <1>7, <1>8, <1>9, TypeInit, HeldInit DEF SteadyInv, NoneReplayed

LEMMA SteadyNext == Retried /\ SteadyInv /\ [Next]_vars => SteadyInv'
<1> SUFFICES ASSUME Retried, SteadyInv, [Next]_vars PROVE SteadyInv'
  OBVIOUS
<1>1. TypeOK /\ HeldInv /\ OverlayMatches /\ NoneReplayed /\ Prompt /\ DirectsFirst
  BY DEF SteadyInv
<1>2. TypeOK'
  BY <1>1, TypeNext
<1>3. HeldInv' /\ OverlayMatches' /\ Prompt' /\ DirectsFirst'
  BY <1>1, <1>2, HeldNext, OverlayNext, PromptNext, DirectsNext
<1>4. Removed'
  BY <1>2, RemovedNext
<1>5. NoneReplayed'
  <2>1. Reliable' <=> Reliable
    BY DEF Reliable
  <2>2. Reliable => ReliableInv'
    BY <1>1, <1>2, ReliableNext DEF NoneReplayed
  <2>3. NoneReplayed' <=> (Reliable' => ReliableInv')
    BY DEF NoneReplayed
  <2> QED  BY <2>1, <2>2, <2>3
<1> QED  BY <1>2, <1>3, <1>4, <1>5 DEF SteadyInv

----------------------------------------------------------------------------
(* What the client has and is told ends as what the server has.            *)

\* The row d that the news of r before the k-th of s leave, over the row c.
Before(c, s, r, k, d) ==
  \/ d = c /\ \A m \in DOMAIN s : m < k => ~Reports(s[m], r)
  \/ \E j \in DOMAIN s :
       /\ j < k /\ Reports(s[j], r) /\ d = s[j].answer.row
       /\ \A m \in DOMAIN s : j < m /\ m < k => ~Reports(s[m], r)
\* All of s leave d.
Ends(c, s, r, d) ==
  \/ d = c /\ \A m \in DOMAIN s : ~Reports(s[m], r)
  \/ \E j \in DOMAIN s :
       /\ Reports(s[j], r) /\ d = s[j].answer.row
       /\ \A m \in DOMAIN s : j < m => ~Reports(s[m], r)
\* What a read in s brings is the row the news before it leave.
Trails(c, s, r) ==
  \A k \in DOMAIN s :
    s[k].entry.kind = "read" /\ Reports(s[k], r) => Before(c, s, r, k, s[k].answer.row)

LEMMA EndsSilent ==
  ASSUME NEW c, NEW s, NEW r, \A k \in DOMAIN s : ~Reports(s[k], r)
  PROVE  /\ Trails(c, s, r)
         /\ \A d : Ends(c, s, r, d) <=> d = c
BY DEF Ends, Trails

LEMMA EndsAgain ==
  ASSUME NEW c, NEW s, NEW r, NEW d, Ends(c, s, r, d)
  PROVE  Ends(d, s, r, d)
BY DEF Ends

LEMMA EndsTail ==
  ASSUME NEW c, NEW s \in Seq(News), NEW r, NEW d, s # <<>>
  PROVE  LET b == IF Reports(Head(s), r) THEN Head(s).answer.row ELSE c
         IN /\ Ends(c, s, r, d) => Ends(b, Tail(s), r, d)
            /\ Trails(c, s, r) => Trails(b, Tail(s), r)
            /\ Trails(c, s, r) /\ Head(s).entry.kind = "read" => b = c
<1> DEFINE t == Tail(s)
           b == IF Reports(Head(s), r) THEN Head(s).answer.row ELSE c
<1>1. /\ 1 \in DOMAIN s /\ s[1] = Head(s)
      /\ \A k \in DOMAIN t : k + 1 \in DOMAIN s /\ t[k] = s[k + 1] /\ k \in Nat \ {0}
      /\ \A k \in DOMAIN s : k = 1 \/ (k - 1 \in DOMAIN t /\ t[k - 1] = s[k])
      /\ \A k \in DOMAIN s : k \in Nat \ {0}
  BY TailAt
<1> HIDE DEF t
<1>2. ASSUME Ends(c, s, r, d) PROVE Ends(b, t, r, d)
  <2>1. CASE d = c /\ \A m \in DOMAIN s : ~Reports(s[m], r)
    BY <1>1, <2>1 DEF Ends
  <2>2. ASSUME NEW j \in DOMAIN s, Reports(s[j], r), d = s[j].answer.row,
               \A m \in DOMAIN s : j < m => ~Reports(s[m], r)
        PROVE  Ends(b, t, r, d)
    <3>1. CASE j = 1
      <4>1. d = b
        BY <1>1, <2>2, <3>1
      <4>2. \A m \in DOMAIN t : ~Reports(t[m], r)
        <5>1. \A m \in DOMAIN t : 1 < m + 1
          BY <1>1
        <5> QED  BY <1>1, <2>2, <3>1, <5>1
      <4> QED  BY <4>1, <4>2 DEF Ends
    <3>2. CASE j # 1
      <4>1. j - 1 \in DOMAIN t /\ t[j - 1] = s[j]
        BY <1>1, <3>2
      <4>2. \A m \in DOMAIN t : j - 1 < m => ~Reports(t[m], r)
        <5>1. ASSUME NEW m \in DOMAIN t, j - 1 < m PROVE j < m + 1
          <6>1. j \in Nat /\ m \in Nat
            BY <1>1
          <6> QED  BY <5>1, <6>1
        <5> QED  BY <1>1, <2>2, <5>1
      <4> QED  BY <2>2, <4>1, <4>2 DEF Ends
    <3> QED  BY <3>1, <3>2
  <2> QED  BY <1>2, <2>1, <2>2 DEF Ends
<1>3. ASSUME Trails(c, s, r) PROVE Trails(b, t, r)
  <2> SUFFICES ASSUME NEW k \in DOMAIN t, t[k].entry.kind = "read", Reports(t[k], r)
               PROVE  Before(b, t, r, k, t[k].answer.row)
    BY DEF Trails
  <2> DEFINE e == t[k].answer.row
  <2>1. Before(c, s, r, k + 1, e) /\ k \in Nat \ {0}
    BY <1>1, <1>3 DEF Trails
  <2> HIDE DEF e
  <2>2. CASE e = c /\ \A m \in DOMAIN s : m < k + 1 => ~Reports(s[m], r)
    <3>1. e = b
      BY <1>1, <2>1, <2>2
    <3>2. \A m \in DOMAIN t : m < k => ~Reports(t[m], r)
      <4>1. \A m \in DOMAIN t : m < k => m + 1 < k + 1
        BY <1>1, <2>1
      <4> QED  BY <1>1, <2>2, <4>1
    <3> QED  BY <3>1, <3>2 DEF Before, e
  <2>3. ASSUME NEW j \in DOMAIN s, j < k + 1, Reports(s[j], r), e = s[j].answer.row,
               \A m \in DOMAIN s : j < m /\ m < k + 1 => ~Reports(s[m], r)
        PROVE  Before(b, t, r, k, e)
    <3>1. CASE j = 1
      <4>1. e = b
        BY <1>1, <2>3, <3>1
      <4>2. \A m \in DOMAIN t : m < k => ~Reports(t[m], r)
        <5>1. \A m \in DOMAIN t : m < k => 1 < m + 1 /\ m + 1 < k + 1
          BY <1>1, <2>1
        <5> QED  BY <1>1, <2>3, <3>1, <5>1
      <4> QED  BY <4>1, <4>2 DEF Before
    <3>2. CASE j # 1
      <4>1. j - 1 \in DOMAIN t /\ t[j - 1] = s[j] /\ j - 1 < k
        BY <1>1, <2>1, <2>3, <3>2
      <4>2. \A m \in DOMAIN t : j - 1 < m /\ m < k => ~Reports(t[m], r)
        <5>1. ASSUME NEW m \in DOMAIN t, j - 1 < m, m < k PROVE j < m + 1 /\ m + 1 < k + 1
          <6>1. j \in Nat /\ m \in Nat /\ k \in Nat
            BY <1>1, <2>1
          <6> QED  BY <5>1, <6>1
        <5> QED  BY <1>1, <2>3, <5>1
      <4> QED  BY <2>3, <4>1, <4>2 DEF Before
    <3> QED  BY <3>1, <3>2
  <2>4. Before(b, t, r, k, e)
    BY <2>1, <2>2, <2>3 DEF Before, e
  <2> QED  BY <2>4 DEF e
<1>4. ASSUME Trails(c, s, r), Head(s).entry.kind = "read" PROVE b = c
  <2>1. Reports(Head(s), r) => Before(c, s, r, 1, Head(s).answer.row)
    BY <1>1, <1>4 DEF Trails
  <2>2. \A k \in DOMAIN s : ~(k < 1)
    BY <1>1
  <2> QED  BY <2>1, <2>2 DEF Before
<1> QED  BY <1>2, <1>3, <1>4 DEF t

LEMMA EndsAppend ==
  ASSUME NEW c, NEW s \in Seq(News), NEW r, NEW d, NEW n \in News, Ends(c, s, r, d)
  PROVE  /\ Ends(c, Append(s, n), r, IF Reports(n, r) THEN n.answer.row ELSE d)
         /\ Trails(c, s, r) /\ (n.entry.kind = "read" /\ Reports(n, r) => n.answer.row = d)
              => Trails(c, Append(s, n), r)
<1> DEFINE t == Append(s, n)
           new == Len(s) + 1
<1>1. /\ new \in DOMAIN t /\ t[new] = n /\ new \in Nat
      /\ \A k \in DOMAIN s : k \in DOMAIN t /\ t[k] = s[k] /\ k \in Nat /\ k < new
      /\ \A k \in DOMAIN t : k \in DOMAIN s \/ k = new
  BY AppendAt
<1> HIDE DEF t, new
<1>2. \A m \in DOMAIN t : ~(new < m)
  BY <1>1
<1>3. Ends(c, t, r, IF Reports(n, r) THEN n.answer.row ELSE d)
  <2>1. CASE Reports(n, r)
    BY <1>1, <1>2, <2>1 DEF Ends
  <2>2. CASE ~Reports(n, r) /\ d = c /\ \A m \in DOMAIN s : ~Reports(s[m], r)
    BY <1>1, <2>2 DEF Ends
  <2>3. ASSUME ~Reports(n, r), NEW j \in DOMAIN s, Reports(s[j], r), d = s[j].answer.row,
               \A m \in DOMAIN s : j < m => ~Reports(s[m], r)
        PROVE  Ends(c, t, r, d)
    <3>1. \A m \in DOMAIN t : j < m => ~Reports(t[m], r)
      BY <1>1, <2>3
    <3> QED  BY <1>1, <2>3, <3>1 DEF Ends
  <2> QED  BY <2>1, <2>2, <2>3 DEF Ends
<1>4. ASSUME Trails(c, s, r), n.entry.kind = "read" /\ Reports(n, r) => n.answer.row = d
      PROVE  Trails(c, t, r)
  <2> SUFFICES ASSUME NEW k \in DOMAIN t, t[k].entry.kind = "read", Reports(t[k], r)
               PROVE  Before(c, t, r, k, t[k].answer.row)
    BY DEF Trails
  <2>1. CASE k \in DOMAIN s
    <3> DEFINE e == t[k].answer.row
    <3>1. Before(c, s, r, k, e) /\ k < new /\ k \in Nat
      BY <1>1, <1>4, <2>1 DEF Trails
    <3> HIDE DEF e
    <3>2. \A m \in DOMAIN t : m < k => m \in DOMAIN s /\ t[m] = s[m]
      BY <1>1, <3>1
    <3> QED  BY <1>1, <3>1, <3>2 DEF Before, e
  <2>2. CASE k = new
    <3>1. t[k] = n /\ n.answer.row = d
      BY <1>1, <1>4, <2>2
    <3>2. \A m \in DOMAIN t : m < new => m \in DOMAIN s /\ t[m] = s[m]
      BY <1>1
    <3> QED  BY <1>1, <2>2, <3>1, <3>2 DEF Before, Ends
  <2> QED  BY <1>1, <2>1, <2>2
<1> QED  BY <1>3, <1>4 DEF t

\* The three stages, one after the other, lead from the cached row of r to the
\* server's.
LeadsOn(r) ==
  \E x, y : /\ Ends(canonical[r], Told, r, x)
            /\ Ends(x, arrived, r, y) /\ Trails(x, arrived, r)
            /\ Ends(y, Served, r, server[r]) /\ Trails(y, Served, r)
Recorded(r) == \A w \in Writes : Target[w] = r => Op[w] # "opaque" /\ w \in Sourced
SettlesInv == rivals = 0 => \A r \in Cached : Recorded(r) => LeadsOn(r)

LEMMA LeadsOnTo ==
  ASSUME NEW r, NEW x, NEW y,
         Ends(canonical'[r], Told', r, x),
         Ends(x, arrived', r, y), Trails(x, arrived', r),
         Ends(y, Served', r, server'[r]), Trails(y, Served', r)
  PROVE  LeadsOn(r)'
<1>1. LeadsOn(r)' <=>
        \E a, b : /\ Ends(canonical'[r], Told', r, a)
                  /\ Ends(a, arrived', r, b) /\ Trails(a, arrived', r)
                  /\ Ends(b, Served', r, server'[r]) /\ Trails(b, Served', r)
  BY Zenon DEF LeadsOn, Ends, Trails, Before, Reports, About
<1> QED  BY <1>1

LEMMA LeadsOnNext ==
  ASSUME Retried, SteadyInv, TypeOK', [Next]_vars, NEW r \in Cached, Recorded(r), LeadsOn(r),
         rivals' = 0
  PROVE  LeadsOn(r)'
<1>1. /\ Told \in Seq(News) /\ arrived \in Seq(News) /\ Served \in Seq(News)
      /\ (outcomes' = outcomes => Told' = Told) /\ r \in Records
      /\ server \in [Records -> Row] /\ canonical \in [Records -> Row] /\ rivals \in Nat
  BY StagesAre, EngineAssumption DEF TypeOK, WorldTypeOK, CacheTypeOK, BoundsTypeOK
<1>2. PICK x, y : /\ Ends(canonical[r], Told, r, x)
                  /\ Ends(x, arrived, r, y) /\ Trails(x, arrived, r)
                  /\ Ends(y, Served, r, server[r]) /\ Trails(y, Served, r)
  BY DEF LeadsOn
<1>3. ASSUME NEW n \in News, Speaks(n) PROVE LeadsOn(r)'
  <2>1. /\ Served' = Append(Served, n) /\ Told' = Told /\ arrived' = arrived
        /\ canonical' = canonical
    BY <1>1, <1>3 DEF Speaks
  <2>2. /\ server'[r] = IF Reports(n, r) THEN n.answer.row ELSE server[r]
        /\ n.entry.kind = "read" /\ Reports(n, r) => n.answer.row = server[r]
    <3>1. ASSUME NEW z \in Records, n.entry = Read(z), n.answer.row = server[z], server' = server
          PROVE  Reports(n, r) => n.answer.row = server[r] /\ server' = server
      BY <3>1 DEF Reports, About, Read
    <3>2. ASSUME NEW w \in Writes, n.entry \in Plans(w),
                 n.answer.row = IF n.answer.verdict = "ok"
                                THEN Effect(w, server[Target[w]]) ELSE server[Target[w]],
                 server' = [server EXCEPT ![Target[w]] = n.answer.row]
          PROVE  /\ n.entry.kind # "read"
                 /\ server'[r] = IF Reports(n, r) THEN n.answer.row ELSE server[r]
      <4>1. n.entry.kind # "read" /\ n.entry.write = w
        BY <3>2 DEF Plans, Direct, Flush
      <4>2. CASE Target[w] = r
        <5>1. Op[w] # "opaque" /\ server'[r] = n.answer.row
          BY <1>1, <3>2, <4>2 DEF Recorded
        <5>2. Reports(n, r) <=> n.answer.verdict = "ok"
          BY <4>1, <4>2, <5>1 DEF Reports, About
        <5> QED  BY <3>2, <4>1, <4>2, <5>1, <5>2
      <4>3. CASE Target[w] # r
        BY <1>1, <3>2, <4>1, <4>3 DEF Reports, About
      <4> QED  BY <4>2, <4>3
    <3>3. CASE \E z \in Records : n.entry = Read(z) /\ n.answer.row = server[z] /\ server' = server
      BY <3>1, <3>3
    <3> QED  BY <1>3, <3>2, <3>3 DEF Speaks
  <2>3. /\ Ends(y, Append(Served, n), r, IF Reports(n, r) THEN n.answer.row ELSE server[r])
        /\ Trails(y, Append(Served, n), r)
    BY <1>1, <1>2, <2>2, EndsAppend
  <2>4. Ends(y, Served', r, server'[r]) /\ Trails(y, Served', r)
    BY <2>1, <2>2, <2>3
  <2> QED  BY <1>2, <2>1, <2>4, LeadsOnTo
<1>4. ASSUME Lands PROVE LeadsOn(r)'
  <2>1. arrived = <<>> /\ Told' = Told /\ UNCHANGED <<canonical, server>> /\ DOMAIN <<>> = {}
    BY <1>1, <1>4 DEF Lands
  <2>2. y = x
    BY <1>2, <2>1 DEF Ends
  <2>3. CASE arrived' = Served /\ Served' = <<>>
    <3>1. Ends(server[r], Served', r, server[r]) /\ Trails(server[r], Served', r)
      BY <2>1, <2>3, EndsSilent
    <3> QED  BY <1>2, <2>1, <2>2, <2>3, <3>1, LeadsOnTo
  <2>4. CASE Served' = Served /\ \A k \in DOMAIN arrived' : arrived'[k].answer.verdict # "ok"
    <3>1. \A k \in DOMAIN arrived' : ~Reports(arrived'[k], r)
      BY <2>4 DEF Reports
    <3>2. Ends(x, arrived', r, y) /\ Trails(x, arrived', r)
      BY <2>2, <3>1, EndsSilent
    <3> QED  BY <1>2, <2>1, <2>4, <3>2, LeadsOnTo
  <2> QED  BY <1>4, <2>3, <2>4 DEF Lands
<1>5. ASSUME Gathers PROVE LeadsOn(r)'
  <2> DEFINE n == Head(arrived)
             b == IF Reports(n, r) THEN n.answer.row ELSE x
  <2>1. /\ arrived # <<>> /\ arrived' = Tail(arrived) /\ Told' = Append(Told, n)
        /\ Served' = Served /\ UNCHANGED <<canonical, server>>
    BY <1>5 DEF Gathers
  <2>2. n \in News
    BY <1>1, <2>1, TailAt
  <2>3. Ends(b, arrived', r, y) /\ Trails(b, arrived', r)
    BY <1>1, <1>2, <2>1, EndsTail
  <2> HIDE DEF n
  <2>4. Ends(canonical[r], Append(Told, n), r, b)
    BY <1>1, <1>2, <2>2, EndsAppend
  <2> HIDE DEF b
  <2> QED  BY <1>2, <2>1, <2>3, <2>4, LeadsOnTo
<1>6. ASSUME TakesTold PROVE LeadsOn(r)'
  <2>1. /\ Told # <<>> /\ Told' = Tail(Told) /\ arrived' = arrived /\ Served' = Served
        /\ canonical'[r] = IF Reports(Head(Told), r) THEN Head(Told).answer.row ELSE canonical[r]
        /\ server' = server
    BY <1>6 DEF TakesTold, Takes
  <2>2. Ends(canonical'[r], Told', r, x)
    BY <1>1, <1>2, <2>1, EndsTail
  <2> QED  BY <1>2, <2>1, <2>2, LeadsOnTo
<1>7. ASSUME TakesHeard PROVE LeadsOn(r)'
  <2> DEFINE n == Head(arrived)
             b == IF Reports(n, r) THEN n.answer.row ELSE x
  <2>1. /\ arrived # <<>> /\ arrived' = Tail(arrived) /\ Told' = Told /\ Served' = Served
        /\ canonical'[r] = IF Reports(n, r) THEN n.answer.row ELSE canonical[r]
        /\ server' = server
        /\ n.entry.kind = "read" \/ \A k \in DOMAIN Told : Told[k].answer.verdict # "ok"
    BY <1>1, <1>7 DEF TakesHeard, Takes
  <2>2. /\ Ends(b, arrived', r, y) /\ Trails(b, arrived', r)
        /\ n.entry.kind = "read" => b = x
    BY <1>1, <1>2, <2>1, EndsTail
  <2>3. Ends(canonical'[r], Told', r, b)
    <3>1. CASE n.entry.kind = "read"
      BY <1>2, <2>1, <2>2, <3>1, EndsAgain
    <3>2. CASE \A k \in DOMAIN Told : Told[k].answer.verdict # "ok"
      <4>1. \A k \in DOMAIN Told : ~Reports(Told[k], r)
        BY <3>2 DEF Reports
      <4>2. x = canonical[r]
        BY <1>2, <4>1 DEF Ends
      <4> QED  BY <2>1, <4>1, <4>2, EndsSilent
    <3> QED  BY <2>1, <3>1, <3>2
  <2> HIDE DEF n, b
  <2> QED  BY <1>2, <2>1, <2>2, <2>3, LeadsOnTo
<1>8. ASSUME Stays, canonical'[r] = canonical[r], server' = server PROVE LeadsOn(r)'
  BY <1>1, <1>2, <1>8, LeadsOnTo DEF Stays
<1>9. ASSUME NEW w \in Writes \ Sourced, DeliverLocally(w), Stays PROVE LeadsOn(r)'
  <2>1. Target[w] # r /\ server' = server
    BY <1>9 DEF Recorded, DeliverLocally, world
  <2>2. canonical'[r] = canonical[r]
    BY <1>1, <1>9, <2>1 DEF DeliverLocally
  <2> QED  BY <1>8, <1>9, <2>1, <2>2
<1>10. ASSUME NEW z \in Records, RivalEdit(z) PROVE FALSE
  BY <1>1, <1>10 DEF RivalEdit
<1> QED  BY <1>3, <1>4, <1>5, <1>6, <1>7, <1>8, <1>9, <1>10, StageMoves DEF Passes

LEMMA SettlesNext == Retried /\ SteadyInv /\ SettlesInv /\ [Next]_vars => SettlesInv'
<1> SUFFICES ASSUME Retried, SteadyInv, SettlesInv, [Next]_vars, rivals' = 0,
                    NEW r \in Cached, Recorded(r)
             PROVE  LeadsOn(r)'
  BY DEF SettlesInv, Recorded
<1>1. TypeOK' /\ TypeOK
  BY SteadyNext DEF SteadyInv
<1>2. rivals = 0
  <2>1. rivals' = rivals \/ \E z \in Records : RivalEdit(z)
    BY <1>1, StageMoves
    DEF Speaks, Lands, Gathers, TakesTold, TakesHeard, Takes, Passes, DeliverLocally, bounds
  <2>2. (\E z \in Records : RivalEdit(z)) => rivals' = rivals + 1
    BY DEF RivalEdit
  <2>3. rivals \in Nat
    BY <1>1 DEF TypeOK, BoundsTypeOK
  <2> QED  BY <2>1, <2>2, <2>3
<1> QED  BY <1>1, <1>2, LeadsOnNext DEF SettlesInv

\* At rest no answer is under way.
LEMMA RestIsStill ==
  ASSUME Retried, SteadyInv, Rest
  PROVE  Told = <<>> /\ arrived = <<>> /\ Served = <<>>
<1>1. /\ TypeOK /\ HeldInv /\ Prompt /\ arrived = <<>> /\ Answering = {}
      /\ \A w \in Writes : Settled(w)
  BY DEF SteadyInv, Rest, Quiet, Answering
<1>2. replayQueue = <<>>
  <2> SUFFICES ASSUME replayQueue # <<>> PROVE FALSE
    OBVIOUS
  <2>1. replayQueue \in Seq(Writes) /\ 1 \in DOMAIN replayQueue
    BY <1>1, LenProperties, EmptySeq DEF TypeOK, ReplayTypeOK
  <2> DEFINE w == replayQueue[1]
  <2>2. w \in Writes
    BY <2>1
  <2> HIDE DEF w
  <2>3. /\ Fits(pc[w], flushing, Copies(Direct(w)), Count(replayQueue, {w}), Copies(Flush(w)),
                Count(flushBatch, {w}), Count(outcomes, Of(w)))
    BY <1>1, <2>2, HeldIs
  <2>4. Count(replayQueue, {w}) = 0
    BY <1>1, <2>2, <2>3 DEF Fits, Settled
  <2>5. replayQueue[1] \notin {w}
    BY <2>1, <2>4, CountType
  <2> QED  BY <2>5 DEF w
<1>3. outcomes = <<>>
  BY <1>1, <1>2, NoReplays
<1>4. Told = <<>>
  <2>1. <<>> \in Seq(Results)
    OBVIOUS
  <2> QED  BY <1>3, <2>1, NewsOfIs DEF Told
<1> QED  BY <1>1, <1>4 DEF Served

\* Where requests fail only before they reach the server, or are refused, and
\* the writes that fail are all replayed, every cached row ends as the
\* server's, version and all, whatever the writes to it came to and however
\* often they were sent: the answers are taken in the order the server gave
\* them.  A flush that holds answers back while others overtake them does no
\* harm: what overtakes them are reads, and a read that overtakes the answer to
\* a write has seen what it did.
THEOREM RetriedConverges == Retried => (Spec => []ConvergesAtRest)
<1> SUFFICES ASSUME Retried PROVE Spec => []ConvergesAtRest
  OBVIOUS
<1>1. Init => SteadyInv /\ SettlesInv
  <2> SUFFICES ASSUME Init PROVE SettlesInv
    BY SteadyInit
  <2>1. /\ Told = <<>> /\ arrived = <<>> /\ Served = <<>>
        /\ \A r \in Cached : canonical[r] = server[r]
    BY SteadyInit, EngineAssumption DEF Init
  <2>2. DOMAIN <<>> = {}
    OBVIOUS
  <2>3. \A c, r : Ends(c, <<>>, r, c) /\ Trails(c, <<>>, r)
    BY <2>2, EndsSilent
  <2> QED  BY <2>1, <2>3 DEF SettlesInv, LeadsOn
<1>2. SteadyInv /\ SettlesInv /\ [Next]_vars => SteadyInv' /\ SettlesInv'
  BY SteadyNext, SettlesNext
<1>3. SteadyInv /\ SettlesInv => ConvergesAtRest
  <2> SUFFICES ASSUME SteadyInv, SettlesInv, Rest, rivals = 0, NEW r \in Cached, Recorded(r)
               PROVE  canonical[r] = server[r]
    BY DEF ConvergesAtRest, Recorded
  <2>1. LeadsOn(r) /\ Told = <<>> /\ arrived = <<>> /\ Served = <<>> /\ DOMAIN <<>> = {}
    BY RestIsStill DEF SettlesInv
  <2>2. \A c, d : Ends(c, <<>>, r, d) => d = c
    BY <2>1 DEF Ends
  <2> QED  BY <2>1, <2>2 DEF LeadsOn
<1> QED  BY <1>1, <1>2, <1>3, PTL DEF Spec

----------------------------------------------------------------------------
(* A patch that was answered, where requests that fail are sent again.     *)

\* Some news of s say that w succeeded; all of s that report its record show
\* it; and those do that come with or after the ones that say so.
Says(s, w) == \E k \in DOMAIN s : s[k].entry \in Plans(w) /\ s[k].answer.verdict = "ok"
Shows(s, w) == \A k \in DOMAIN s : Reports(s[k], Target[w]) => w \in s[k].answer.row.by
ShowsSince(s, w) ==
  \A j, k \in DOMAIN s :
    /\ s[j].entry \in Plans(w) /\ s[j].answer.verdict = "ok"
    /\ j <= k /\ Reports(s[k], Target[w])
    => w \in s[k].answer.row.by

LEMMA ShowsTail ==
  ASSUME NEW s \in Seq(News), s # <<>>, NEW w
  PROVE  LET n == Head(s)
         IN /\ Shows(s, w) => Shows(Tail(s), w) /\ (Reports(n, Target[w]) => w \in n.answer.row.by)
            /\ ShowsSince(s, w) => ShowsSince(Tail(s), w)
            /\ ShowsSince(s, w) /\ n.entry \in Plans(w) /\ n.answer.verdict = "ok" => Shows(s, w)
            /\ Says(Tail(s), w) => Says(s, w)
            /\ n.entry \in Plans(w) /\ n.answer.verdict = "ok" => Says(s, w)
<1> DEFINE n == Head(s)
           t == Tail(s)
<1>1. /\ 1 \in DOMAIN s /\ s[1] = n
      /\ \A k \in DOMAIN t : k + 1 \in DOMAIN s /\ t[k] = s[k + 1] /\ k \in Nat \ {0}
      /\ \A k \in DOMAIN s : k \in Nat \ {0}
  BY TailAt
<1> HIDE DEF n, t
<1>2. Shows(s, w) => Shows(t, w) /\ (Reports(n, Target[w]) => w \in n.answer.row.by)
  BY <1>1 DEF Shows
<1>3. ShowsSince(s, w) => ShowsSince(t, w)
  <2>1. \A j, k \in DOMAIN t : j <= k => j + 1 <= k + 1
    BY <1>1
  <2> QED  BY <1>1, <2>1 DEF ShowsSince
<1>4. ShowsSince(s, w) /\ n.entry \in Plans(w) /\ n.answer.verdict = "ok" => Shows(s, w)
  <2>1. \A k \in DOMAIN s : 1 <= k
    BY <1>1
  <2> QED  BY <1>1, <2>1 DEF ShowsSince, Shows
<1>5. Says(t, w) => Says(s, w)
  BY <1>1 DEF Says
<1>6. n.entry \in Plans(w) /\ n.answer.verdict = "ok" => Says(s, w)
  BY <1>1 DEF Says
<1> QED  BY <1>2, <1>3, <1>4, <1>5, <1>6 DEF n, t

LEMMA ShowsAppend ==
  ASSUME NEW s \in Seq(News), NEW n \in News, NEW w
  PROVE  LET t == Append(s, n)
         IN /\ Shows(s, w) /\ (Reports(n, Target[w]) => w \in n.answer.row.by) => Shows(t, w)
            /\ /\ ShowsSince(s, w)
               /\ \/ ~Says(s, w) /\ ~(n.entry \in Plans(w) /\ n.answer.verdict = "ok")
                  \/ Reports(n, Target[w]) => w \in n.answer.row.by
               => ShowsSince(t, w)
            /\ Says(t, w) <=> Says(s, w) \/ (n.entry \in Plans(w) /\ n.answer.verdict = "ok")
<1> DEFINE t == Append(s, n)
           new == Len(s) + 1
<1>1. /\ new \in DOMAIN t /\ t[new] = n /\ new \in Nat
      /\ \A k \in DOMAIN s : k \in DOMAIN t /\ t[k] = s[k] /\ k \in Nat /\ k < new
      /\ \A k \in DOMAIN t : k \in DOMAIN s \/ k = new
  BY AppendAt
<1> HIDE DEF t, new
<1>2. Shows(s, w) /\ (Reports(n, Target[w]) => w \in n.answer.row.by) => Shows(t, w)
  BY <1>1 DEF Shows
<1>3. ASSUME ShowsSince(s, w),
             \/ ~Says(s, w) /\ ~(n.entry \in Plans(w) /\ n.answer.verdict = "ok")
             \/ Reports(n, Target[w]) => w \in n.answer.row.by
      PROVE  ShowsSince(t, w)
  <2> SUFFICES ASSUME NEW j \in DOMAIN t, NEW k \in DOMAIN t,
                      t[j].entry \in Plans(w), t[j].answer.verdict = "ok", j <= k,
                      Reports(t[k], Target[w])
               PROVE  w \in t[k].answer.row.by
    BY DEF ShowsSince
  <2>1. ~(~Says(s, w) /\ ~(n.entry \in Plans(w) /\ n.answer.verdict = "ok"))
    BY <1>1 DEF Says
  <2>2. CASE k = new
    BY <1>1, <1>3, <2>1, <2>2
  <2>3. CASE k \in DOMAIN s
    <3>1. j \in DOMAIN s
      BY <1>1, <2>3
    <3> QED  BY <1>1, <1>3, <2>3, <3>1 DEF ShowsSince
  <2> QED  BY <1>1, <2>2, <2>3
<1>4. Says(t, w) <=> Says(s, w) \/ (n.entry \in Plans(w) /\ n.answer.verdict = "ok")
  BY <1>1 DEF Says
<1> QED  BY <1>2, <1>3, <1>4 DEF t

\* Nothing was said of w, or s brings nothing.
LEMMA ShowsNothing ==
  ASSUME NEW s, NEW w
  PROVE  /\ ~Says(s, w) => ShowsSince(s, w)
         /\ (\A k \in DOMAIN s : s[k].answer.verdict # "ok") => ~Says(s, w) /\ Shows(s, w)
BY DEF Says, ShowsSince, Shows, Reports

\* The server keeps the effect of w: so do the cache that was told of it, and
\* all news of the row, from those that say so on.
Retains(w) ==
  w \in server[Target[w]].by =>
    /\ pc[w] = "confirmed" => /\ w \in canonical[Target[w]].by
                              /\ Shows(Told, w) /\ Shows(arrived, w) /\ Shows(Served, w)
    /\ ShowsSince(Told, w) /\ ShowsSince(arrived, w) /\ ShowsSince(Served, w)
    /\ Says(Told, w) => Shows(arrived, w) /\ Shows(Served, w)
    /\ Says(arrived, w) => Shows(Served, w)
RetainsInv == \A w \in Sourced : Lowered(w) /\ Target[w] \in Cached => Retains(w)

\* Plans no source fulfils patch a row, at most.
PatchedLocally == \A v \in Writes \ Sourced : Op[v] \notin {"create", "delete"}

LEMMA RetainsAfter ==
  ASSUME NEW w
  PROVE  Retains(w)' <=>
    (w \in server'[Target[w]].by =>
       /\ pc'[w] = "confirmed" => /\ w \in canonical'[Target[w]].by
                                  /\ Shows(Told', w) /\ Shows(arrived', w) /\ Shows(Served', w)
       /\ ShowsSince(Told', w) /\ ShowsSince(arrived', w) /\ ShowsSince(Served', w)
       /\ Says(Told', w) => Shows(arrived', w) /\ Shows(Served', w)
       /\ Says(arrived', w) => Shows(Served', w))
BY DEF Retains, Shows, ShowsSince, Says, Reports, About, Plans, Direct, Flush

LEMMA RetainsNext ==
  ASSUME Retried, PatchedLocally, SteadyInv, TypeOK', [Next]_vars,
         NEW w \in Sourced, Lowered(w), Target[w] \in Cached, Retains(w)
  PROVE  Retains(w)'
<1> DEFINE r == Target[w]
<1>1. /\ Told \in Seq(News) /\ arrived \in Seq(News) /\ Served \in Seq(News)
      /\ (outcomes' = outcomes => Told' = Told) /\ r \in Records /\ w \in Writes
      /\ server \in [Records -> Row] /\ canonical \in [Records -> Row]
      /\ pc \in [Writes -> PcStates]
  BY StagesAre, EngineAssumption, WritesAssumption
  DEF TypeOK, WorldTypeOK, CacheTypeOK, PipelineTypeOK
<1> HIDE DEF r
<1>2. w \in server[r].by =>
        /\ pc[w] = "confirmed" => /\ w \in canonical[r].by
                                  /\ Shows(Told, w) /\ Shows(arrived, w) /\ Shows(Served, w)
        /\ ShowsSince(Told, w) /\ ShowsSince(arrived, w) /\ ShowsSince(Served, w)
        /\ Says(Told, w) => Shows(arrived, w) /\ Shows(Served, w)
        /\ Says(arrived, w) => Shows(Served, w)
  BY DEF Retains, r
<1>3. ASSUME w \in server'[r].by =>
        /\ pc'[w] = "confirmed" => /\ w \in canonical'[r].by
                                   /\ Shows(Told', w) /\ Shows(arrived', w) /\ Shows(Served', w)
        /\ ShowsSince(Told', w) /\ ShowsSince(arrived', w) /\ ShowsSince(Served', w)
        /\ Says(Told', w) => Shows(arrived', w) /\ Shows(Served', w)
        /\ Says(arrived', w) => Shows(Served', w)
      PROVE  Retains(w)'
  BY <1>3, RetainsAfter DEF r
<1>4. ASSUME NEW n \in News, Speaks(n) PROVE Retains(w)'
  <2>1. /\ Served' = Append(Served, n) /\ Told' = Told /\ arrived' = arrived
        /\ canonical' = canonical /\ pc' = pc
    BY <1>1, <1>4 DEF Speaks
  <2>2. /\ Reports(n, r) => n.answer.row = server'[r]
        /\ w \in server'[r].by => w \in server[r].by \/ (Unheard(w) /\ pc[w] # "confirmed")
    <3>1. CASE \E x \in Records :
                 n.entry = Read(x) /\ n.answer.row = server[x] /\ server' = server
      BY <3>1 DEF Reports, About, Read
    <3>2. ASSUME NEW v \in Writes, n.entry \in Plans(v), Unheard(v), pc[v] # "confirmed",
                 n.answer.row = IF n.answer.verdict = "ok"
                                THEN Effect(v, server[Target[v]]) ELSE server[Target[v]],
                 server' = [server EXCEPT ![Target[v]] = n.answer.row]
          PROVE  /\ Reports(n, r) => n.answer.row = server'[r]
                 /\ w \in server'[r].by =>
                      w \in server[r].by \/ (Unheard(w) /\ pc[w] # "confirmed")
      <4>1. n.entry.kind # "read" /\ n.entry.write = v
        BY <3>2 DEF Plans, Direct, Flush
      <4>2. CASE Target[v] = r
        <5>1. server'[r] = n.answer.row /\ server[r] \in Row
          BY <1>1, <3>2, <4>2
        <5>2. Effect(v, server[r]).by \subseteq server[r].by \cup {v}
          BY <5>1 DEF Effect, Row, NoRow
        <5>3. w \in server'[r].by => w \in server[r].by \/ w = v
          BY <3>2, <4>2, <5>1, <5>2
        <5> QED  BY <3>2, <5>1, <5>3
      <4>3. CASE Target[v] # r
        BY <1>1, <3>2, <4>1, <4>3 DEF Reports, About
      <4> QED  BY <4>2, <4>3
    <3> QED  BY <1>4, <3>1, <3>2 DEF Speaks
  <2>3. Unheard(w) => ~Says(Told, w) /\ ~Says(arrived, w) /\ ~Says(Served, w)
    BY DEF Unheard, Says
  <2>4. ASSUME w \in server'[r].by
        PROVE  /\ pc'[w] = "confirmed" => /\ w \in canonical'[r].by
                                          /\ Shows(Told', w) /\ Shows(arrived', w)
                                          /\ Shows(Served', w)
               /\ ShowsSince(Told', w) /\ ShowsSince(arrived', w) /\ ShowsSince(Served', w)
               /\ Says(Told', w) => Shows(arrived', w) /\ Shows(Served', w)
               /\ Says(arrived', w) => Shows(Served', w)
    <3>1. Reports(n, Target[w]) => w \in n.answer.row.by
      BY <2>2, <2>4 DEF r
    <3>2. /\ Shows(Served, w) => Shows(Served', w)
          /\ ShowsSince(Served, w) => ShowsSince(Served', w)
      BY <1>1, <2>1, <3>1, ShowsAppend
    <3>3. CASE w \in server[r].by
      BY <1>2, <2>1, <3>2, <3>3
    <3>4. CASE Unheard(w) /\ pc[w] # "confirmed"
      BY <2>1, <2>3, <3>2, <3>4, ShowsNothing
    <3> QED  BY <2>2, <2>4, <3>3, <3>4
  <2> QED  BY <1>3, <2>4
<1>5. ASSUME Lands PROVE Retains(w)'
  <2>1. Told' = Told /\ UNCHANGED <<canonical, server, pc>> /\ DOMAIN <<>> = {}
    BY <1>1, <1>5 DEF Lands
  <2>2. CASE arrived' = Served /\ Served' = <<>>
    <3>1. Shows(Served', w) /\ ShowsSince(Served', w)
      BY <2>1, <2>2, ShowsNothing
    <3> QED  BY <1>2, <1>3, <2>1, <2>2, <3>1
  <2>3. CASE Served' = Served /\ \A k \in DOMAIN arrived' : arrived'[k].answer.verdict # "ok"
    <3>1. ~Says(arrived', w) /\ Shows(arrived', w) /\ ShowsSince(arrived', w)
      BY <2>3, ShowsNothing
    <3> QED  BY <1>2, <1>3, <2>1, <2>3, <3>1
  <2> QED  BY <1>5, <2>2, <2>3 DEF Lands
<1>6. ASSUME Gathers PROVE Retains(w)'
  <2> DEFINE n == Head(arrived)
             says == n.entry \in Plans(w) /\ n.answer.verdict = "ok"
  <2>1. /\ arrived # <<>> /\ arrived' = Tail(arrived) /\ Told' = Append(Told, n)
        /\ Served' = Served /\ UNCHANGED <<canonical, server, pc>>
    BY <1>6 DEF Gathers
  <2>2. /\ Shows(arrived, w) => Shows(arrived', w) /\ (Reports(n, r) => w \in n.answer.row.by)
        /\ ShowsSince(arrived, w) => ShowsSince(arrived', w)
        /\ ShowsSince(arrived, w) /\ says => Shows(arrived, w)
        /\ Says(arrived', w) => Says(arrived, w)
        /\ says => Says(arrived, w)
    BY <1>1, <2>1, ShowsTail DEF r
  <2>3. n \in News
    BY <1>1, <2>1, TailAt
  <2> HIDE DEF n
  <2>4. /\ Shows(Told, w) /\ (Reports(n, r) => w \in n.answer.row.by) => Shows(Told', w)
        /\ ShowsSince(Told, w) /\ ((~Says(Told, w) /\ ~says) \/ (Reports(n, r) => w \in n.answer.row.by))
             => ShowsSince(Told', w)
        /\ Says(Told', w) <=> Says(Told, w) \/ says
    BY <1>1, <2>1, <2>3, ShowsAppend DEF r
  <2> HIDE DEF says
  <2> QED  BY <1>2, <1>3, <2>1, <2>2, <2>4
<1>7. ASSUME TakesTold PROVE Retains(w)'
  <2> DEFINE n == Head(Told)
             says == n.entry \in Plans(w) /\ n.answer.verdict = "ok"
  <2>1. /\ Told # <<>> /\ Told' = Tail(Told) /\ arrived' = arrived /\ Served' = Served
        /\ server' = server
        /\ canonical'[r] = IF Reports(n, r) THEN n.answer.row ELSE canonical[r]
        /\ pc'[w] = "confirmed" => pc[w] = "confirmed" \/ says
    BY <1>1, <1>7 DEF TakesTold, Takes, r
  <2>2. /\ Shows(Told, w) => Shows(Told', w) /\ (Reports(n, r) => w \in n.answer.row.by)
        /\ ShowsSince(Told, w) => ShowsSince(Told', w)
        /\ ShowsSince(Told, w) /\ says => Shows(Told, w)
        /\ Says(Told', w) => Says(Told, w)
        /\ says => Says(Told, w)
    BY <1>1, <2>1, ShowsTail DEF r
  <2>3. says => Reports(n, r)
    BY DEF Reports, About, Plans, Direct, Flush, Lowered, r
  <2> HIDE DEF n, says
  <2> QED  BY <1>2, <1>3, <2>1, <2>2, <2>3
<1>8. ASSUME TakesHeard PROVE Retains(w)'
  <2> DEFINE n == Head(arrived)
             says == n.entry \in Plans(w) /\ n.answer.verdict = "ok"
  <2>1. /\ arrived # <<>> /\ arrived' = Tail(arrived) /\ Told' = Told /\ Served' = Served
        /\ server' = server
        /\ canonical'[r] = IF Reports(n, r) THEN n.answer.row ELSE canonical[r]
        /\ pc'[w] = "confirmed" => pc[w] = "confirmed" \/ says
        /\ n.entry.kind = "read" \/ \A k \in DOMAIN Told : Told[k].answer.verdict # "ok"
    BY <1>1, <1>8 DEF TakesHeard, Takes, r
  <2>2. /\ Shows(arrived, w) => Shows(arrived', w) /\ (Reports(n, r) => w \in n.answer.row.by)
        /\ ShowsSince(arrived, w) => ShowsSince(arrived', w)
        /\ ShowsSince(arrived, w) /\ says => Shows(arrived, w)
        /\ Says(arrived', w) => Says(arrived, w)
        /\ says => Says(arrived, w)
    BY <1>1, <2>1, ShowsTail DEF r
  <2>3. says => Reports(n, r) /\ n.entry.kind # "read"
    BY DEF Reports, About, Plans, Direct, Flush, Lowered, r
  <2>4. says => Shows(Told, w)
    BY <2>1, <2>3, ShowsNothing
  <2> HIDE DEF n, says
  <2> QED  BY <1>2, <1>3, <2>1, <2>2, <2>3, <2>4
<1>9. ASSUME Stays, server'[r].by = server[r].by, canonical[r].by \subseteq canonical'[r].by,
             pc'[w] = "confirmed" => pc[w] = "confirmed"
      PROVE  Retains(w)'
  BY <1>1, <1>2, <1>3, <1>9 DEF Stays
<1>10. ASSUME Passes PROVE Retains(w)'
  BY <1>1, <1>9, <1>10 DEF Passes
<1>11. ASSUME NEW v \in Writes \ Sourced, DeliverLocally(v), Stays PROVE Retains(w)'
  <2>1. server' = server /\ v # w /\ pc'[w] = pc[w]
    BY <1>1, <1>11 DEF DeliverLocally, world
  <2>2. canonical[r].by \subseteq canonical'[r].by
    <3>1. CASE Target[v] = r
      <4>1. canonical'[r] = LocalEffect(v, canonical[r]) /\ canonical[r] \in Row
        BY <1>1, <1>11, <3>1 DEF DeliverLocally, r
      <4> QED  BY <4>1 DEF LocalEffect, PatchedLocally, Row
    <3>2. CASE Target[v] # r
      BY <1>1, <1>11, <3>2 DEF DeliverLocally
    <3> QED  BY <3>1, <3>2
  <2> QED  BY <1>9, <1>11, <2>1, <2>2
<1>12. ASSUME NEW x \in Records, RivalEdit(x), Stays PROVE Retains(w)'
  <2>1. server'[r].by = server[r].by
    BY <1>1, <1>12 DEF RivalEdit, Row
  <2> QED  BY <1>9, <1>12, <2>1 DEF RivalEdit, cache, pipeline
<1> QED  BY <1>4, <1>5, <1>6, <1>7, <1>8, <1>10, <1>11, <1>12, StageMoves

\* The overlay of patches alone shows all of them, and what is under it.
LEMMA PatchesShow ==
  ASSUME NEW r, Unreset(r), Visible(r).there
  PROVE  Visible(r).by = canonical[r].by \cup {w \in outbox : Target[w] = r}
<1> DEFINE mine == {w \in outbox : Target[w] = r}
           whole == {w \in mine : Op[w] \in {"create", "delete"}}
           last == {w \in whole : \A v \in whole : seq[v] <= seq[w]}
           over == {w \in mine : Lowered(w) /\ \A v \in last : seq[w] > seq[v]}
<1>1. last = {} /\ over = mine
  BY DEF Unreset, Lowered
<1>2. Visible(r) = IF canonical[r].there THEN [canonical[r] EXCEPT !.by = @ \cup over]
                   ELSE canonical[r]
  BY <1>1 DEF Visible
<1> QED  BY <1>1, <1>2

\* There a started or confirmed patch stays on screen while the server keeps
\* its effect or has yet to see it: the news of its row that come after its
\* answer all have it, though it waits for the flush's others and reads
\* overtake it.
THEOREM RetriedVisible == Retried /\ PatchedLocally => (Spec => []OwnWriteStaysVisible)
<1> SUFFICES ASSUME Retried, PatchedLocally PROVE Spec => []OwnWriteStaysVisible
  OBVIOUS
<1>1. Init => SteadyInv /\ RetainsInv
  <2> SUFFICES ASSUME Init PROVE RetainsInv
    BY SteadyInit
  <2>1. ASSUME NEW r \in Records PROVE server[r].by = {}
    <3>1. server[r] \in {[NoRow EXCEPT !.there = TRUE], NoRow}
      BY DEF Init
    <3> QED  BY <3>1 DEF NoRow
  <2> QED  BY <2>1, EngineAssumption DEF RetainsInv, Retains
<1>2. SteadyInv /\ RetainsInv /\ [Next]_vars => SteadyInv' /\ RetainsInv'
  <2> SUFFICES ASSUME SteadyInv, RetainsInv, [Next]_vars,
                      NEW w \in Sourced, Lowered(w), Target[w] \in Cached
               PROVE  SteadyInv' /\ Retains(w)'
    BY SteadyNext DEF RetainsInv, Lowered
  <2>1. SteadyInv' /\ TypeOK'
    BY SteadyNext DEF SteadyInv
  <2> QED  BY <2>1, RetainsNext DEF RetainsInv
<1>3. SteadyInv /\ RetainsInv => OwnWriteStaysVisible
  <2> SUFFICES ASSUME SteadyInv, RetainsInv, NEW w \in Writes, Lowered(w), Target[w] \in Cached,
                      w \in Sourced, Unreset(Target[w]), Visible(Target[w]).there,
                      \/ pc[w] \in {"started", "direct", "queued", "behind"}
                      \/ pc[w] = "confirmed" /\ w \in server[Target[w]].by
               PROVE  w \in Visible(Target[w]).by
    BY DEF OwnWriteStaysVisible
  <2>1. w \in outbox \/ w \in canonical[Target[w]].by
    BY DEF SteadyInv, OverlayMatches, RetainsInv, Retains
  <2> QED  BY <2>1, PatchesShow
<1> QED  BY <1>1, <1>2, <1>3, PTL DEF Spec
=============================================================================
