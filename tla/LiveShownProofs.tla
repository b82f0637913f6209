-------------------------- MODULE LiveShownProofs --------------------------
(***************************************************************************)
(* What live queries show, for any application, network and feed.          *)
(*                                                                         *)
(* ShownIsCurrent follows from RecomputeInv: of the recomputes of a live   *)
(* query that are under way, those further on are older and end first, and *)
(* the last one knows what the cache and the channel say now.              *)
(*                                                                         *)
(* FreshAtRest follows from FreshInv, of what is heard, received and still *)
(* under way: the second half of this module.                              *)
(***************************************************************************)
EXTENDS LiveDataProofs

(* A recompute of a live query is a chain of tasks: it has gone as far as  *)
(* its stage.                                                              *)
Pipeline == {"base", "include", "derive", "show"}
Pipe(t) == t.job \in Pipeline
PipeOf(t, v) == Pipe(t) /\ t.view = v
Full(v) == Len(Includes[v])
Stage(t) ==
  CASE t.job = "base" -> 0
    [] t.job = "include" -> Len(t.kids) + 1
    [] t.job = "derive" -> Full(t.view) + 2
    [] OTHER -> Full(t.view) + 3

\* The queue from an answer on, until the resolved promises have gone.
Heavy(t) == t.job = "answer" \/ (t.job = "ended" /\ t.now)

QueueInv ==
  /\ \A i \in DOMAIN micro : micro[i].now => i = 1
  /\ \A i \in DOMAIN micro : Heavy(micro[i]) =>
       /\ \A j \in DOMAIN micro : ~Pipe(micro[j])
       /\ \A j \in DOMAIN micro : j < i => micro[j].job = "answer" \/ micro[j].now
  /\ \A i \in DOMAIN micro : micro[i].job = "ended" /\ ~micro[i].now => Keeps(micro[i])
  /\ \A v \in waiting : \E i \in DOMAIN micro : micro[i].job = "start" /\ micro[i].view = v

\* The head goes on as the task at h (0: it is gone), the others move up by
\* d, and light tasks are queued behind.
LightTasks == Turns \cup Starts \cup Looks
Moves(h, d) ==
  /\ micro # <<>>
  /\ (d = 0 /\ h = 1) \/ (d = 1 /\ h \in {0, Len(micro)})
  /\ h # 0 => h \in DOMAIN micro'
  /\ \A k \in DOMAIN micro : k > 1 =>
       k - d \in DOMAIN micro' /\ k - d # h /\ micro'[k - d] = micro[k]
  /\ \A i \in DOMAIN micro' : i # h =>
       \/ i + d \in DOMAIN micro /\ i + d > 1 /\ micro'[i] = micro[i + d]
       \/ i + d > Len(micro) /\ micro'[i] \in LightTasks

LEMMA LightIs ==
  ASSUME NEW t \in LightTasks
  PROVE  t.job \in {"app", "start", "looked"} /\ ~t.now
<1>1. t \in Turns => t.job = "app" /\ t.now = FALSE
  BY DEF Turns, Turn
<1>2. t \in Starts => t.job = "start" /\ t.now = FALSE
  BY DEF Starts
<1>3. t \in Looks => t.job = "looked" /\ t.now = FALSE
  BY DEF Looks
<1> QED  BY <1>1, <1>2, <1>3 DEF LightTasks

LEMMA NowMoves ==
  ASSUME micro \in Seq(Tasks), micro # <<>>, NEW t \in Tasks, NEW ss \in Seq(LightTasks),
         micro' = Now(t) \o ss
  PROVE  Moves(1, 0) /\ micro'[1] = t
<1> DEFINE u == Now(t)
<1>1. /\ u \in Seq(Tasks) /\ Len(u) = Len(micro) /\ u[1] = t
      /\ \A k \in 2..Len(micro) : u[k] = micro[k]
  BY DEF Now
<1>2. ss \in Seq(Tasks)
  <2>1. LightTasks \subseteq Tasks
    BY DEF LightTasks, Tasks
  <2> QED  BY <2>1, SeqMonotonic
<1>0. micro' = u \o ss
  OBVIOUS
<1> HIDE DEF u
<1> DEFINE n == Len(u)
<1>1a. u \in Seq(Tasks)
  BY <1>1
<1>3a. /\ u \o ss \in Seq(Tasks) /\ Len(u \o ss) = Len(u) + Len(ss)
       /\ \A i \in 1..Len(u) : (u \o ss)[i] = u[i]
       /\ \A i \in (Len(u) + 1)..(Len(u) + Len(ss)) : (u \o ss)[i] = ss[i - Len(u)]
  BY ONLY <1>1a, <1>2, CatIs
<1>3c. /\ micro' \in Seq(Tasks) /\ Len(micro') = n + Len(ss)
       /\ \A i \in 1..n : micro'[i] = u[i]
       /\ \A i \in (n + 1)..(n + Len(ss)) : micro'[i] = ss[i - n]
  BY ONLY <1>3a, <1>0 DEF n
<1>3b. n = Len(micro)
  BY <1>1
<1> HIDE DEF n
<1>3. /\ micro' \in Seq(Tasks) /\ Len(micro') = Len(micro) + Len(ss)
      /\ \A i \in 1..Len(micro) : micro'[i] = u[i]
      /\ \A i \in (Len(micro) + 1)..(Len(micro) + Len(ss)) : micro'[i] = ss[i - Len(micro)]
  BY <1>3c, <1>3b
<1>4. Len(micro) \in Nat /\ Len(micro) > 0 /\ Len(ss) \in Nat
  BY EmptySeq
<1>5. \A i \in (Len(micro) + 1)..(Len(micro) + Len(ss)) : ss[i - Len(micro)] \in LightTasks
  BY <1>4, ElementOfSeq
<1>6. DOMAIN micro = 1..Len(micro) /\ DOMAIN micro' = 1..(Len(micro) + Len(ss))
  BY <1>3
<1>7. micro'[1] = t
  BY <1>1, <1>3, <1>4
<1>8. \A k \in DOMAIN micro : k > 1 =>
        k - 0 \in DOMAIN micro' /\ k - 0 # 1 /\ micro'[k - 0] = micro[k]
  BY <1>1, <1>3, <1>4, <1>6
<1>9. \A i \in DOMAIN micro' : i # 1 =>
        \/ i + 0 \in DOMAIN micro /\ i + 0 > 1 /\ micro'[i] = micro[i + 0]
        \/ i + 0 > Len(micro) /\ micro'[i] \in LightTasks
  BY <1>1, <1>3, <1>4, <1>5, <1>6
<1>10. 1 \in DOMAIN micro'
  BY <1>4, <1>6
<1> QED  BY <1>7, <1>8, <1>9, <1>10 DEF Moves

LEMMA LaterMoves ==
  ASSUME micro \in Seq(Tasks), micro # <<>>, NEW t \in Tasks, NEW ss \in Seq(LightTasks),
         micro' = Later(t) \o ss
  PROVE  Moves(Len(micro), 1) /\ micro'[Len(micro)] = t
<1> DEFINE u == Later(t)
<1>1. /\ u \in Seq(Tasks) /\ Len(u) = Len(micro) /\ u[Len(micro)] = t
      /\ \A k \in 2..Len(micro) : u[k - 1] = micro[k]
      /\ \A i \in 1..(Len(micro) - 1) : u[i] = micro[i + 1]
  BY DEF Later
<1>2. ss \in Seq(Tasks)
  <2>1. LightTasks \subseteq Tasks
    BY DEF LightTasks, Tasks
  <2> QED  BY <2>1, SeqMonotonic
<1>0. micro' = u \o ss
  OBVIOUS
<1> HIDE DEF u
<1> DEFINE n == Len(u)
<1>1a. u \in Seq(Tasks)
  BY <1>1
<1>3a. /\ u \o ss \in Seq(Tasks) /\ Len(u \o ss) = Len(u) + Len(ss)
       /\ \A i \in 1..Len(u) : (u \o ss)[i] = u[i]
       /\ \A i \in (Len(u) + 1)..(Len(u) + Len(ss)) : (u \o ss)[i] = ss[i - Len(u)]
  BY ONLY <1>1a, <1>2, CatIs
<1>3c. /\ micro' \in Seq(Tasks) /\ Len(micro') = n + Len(ss)
       /\ \A i \in 1..n : micro'[i] = u[i]
       /\ \A i \in (n + 1)..(n + Len(ss)) : micro'[i] = ss[i - n]
  BY ONLY <1>3a, <1>0 DEF n
<1>3b. n = Len(micro)
  BY <1>1
<1> HIDE DEF n
<1>3. /\ micro' \in Seq(Tasks) /\ Len(micro') = Len(micro) + Len(ss)
      /\ \A i \in 1..Len(micro) : micro'[i] = u[i]
      /\ \A i \in (Len(micro) + 1)..(Len(micro) + Len(ss)) : micro'[i] = ss[i - Len(micro)]
  BY <1>3c, <1>3b
<1>4. Len(micro) \in Nat /\ Len(micro) > 0 /\ Len(ss) \in Nat
  BY EmptySeq
<1>5. \A i \in (Len(micro) + 1)..(Len(micro) + Len(ss)) : ss[i - Len(micro)] \in LightTasks
  BY <1>4, ElementOfSeq
<1>6. DOMAIN micro = 1..Len(micro) /\ DOMAIN micro' = 1..(Len(micro) + Len(ss))
  BY <1>3
<1>7. micro'[Len(micro)] = t /\ Len(micro) \in DOMAIN micro'
  BY <1>1, <1>3, <1>4, <1>6
<1>8. \A k \in DOMAIN micro : k > 1 =>
        k - 1 \in DOMAIN micro' /\ k - 1 # Len(micro) /\ micro'[k - 1] = micro[k]
  BY <1>1, <1>3, <1>4, <1>6
<1>9. \A i \in DOMAIN micro' : i # Len(micro) =>
        \/ i + 1 \in DOMAIN micro /\ i + 1 > 1 /\ micro'[i] = micro[i + 1]
        \/ i + 1 > Len(micro) /\ micro'[i] \in LightTasks
  BY <1>1, <1>3, <1>4, <1>5, <1>6
<1> QED  BY <1>4, <1>7, <1>8, <1>9 DEF Moves

LEMMA RestMoves ==
  ASSUME micro \in Seq(Tasks), micro # <<>>, NEW ss \in Seq(LightTasks),
         micro' = Rest \o ss
  PROVE  Moves(0, 1)
<1> DEFINE u == Rest
<1>1. /\ u \in Seq(Tasks) /\ Len(u) = Len(micro) - 1
      /\ \A k \in 2..Len(micro) : u[k - 1] = micro[k]
      /\ \A i \in 1..(Len(micro) - 1) : u[i] = micro[i + 1]
  BY DEF Rest
<1>2. ss \in Seq(Tasks)
  <2>1. LightTasks \subseteq Tasks
    BY DEF LightTasks, Tasks
  <2> QED  BY <2>1, SeqMonotonic
<1>0. micro' = u \o ss
  OBVIOUS
<1> HIDE DEF u
<1>1a. u \in Seq(Tasks)
  BY <1>1
<1>3a. /\ u \o ss \in Seq(Tasks) /\ Len(u \o ss) = Len(u) + Len(ss)
       /\ \A i \in 1..Len(u) : (u \o ss)[i] = u[i]
       /\ \A i \in (Len(u) + 1)..(Len(u) + Len(ss)) : (u \o ss)[i] = ss[i - Len(u)]
  BY ONLY <1>1a, <1>2, CatIs
<1>3. /\ micro' \in Seq(Tasks) /\ Len(micro') = Len(u) + Len(ss)
      /\ \A i \in 1..Len(u) : micro'[i] = u[i]
      /\ \A i \in (Len(u) + 1)..(Len(u) + Len(ss)) : micro'[i] = ss[i - Len(u)]
  BY ONLY <1>3a, <1>0
<1>4. Len(micro) \in Nat /\ Len(micro) > 0 /\ Len(ss) \in Nat
  BY EmptySeq
<1>5. \A i \in (Len(u) + 1)..(Len(u) + Len(ss)) : ss[i - Len(u)] \in LightTasks
  BY <1>1, <1>4, ElementOfSeq
<1>6. DOMAIN micro = 1..Len(micro) /\ DOMAIN micro' = 1..(Len(u) + Len(ss))
  BY <1>3
<1>8. \A k \in DOMAIN micro : k > 1 =>
        k - 1 \in DOMAIN micro' /\ k - 1 # 0 /\ micro'[k - 1] = micro[k]
  BY <1>1, <1>3, <1>4, <1>6
<1>9. \A i \in DOMAIN micro' : i # 0 =>
        \/ i + 1 \in DOMAIN micro /\ i + 1 > 1 /\ micro'[i] = micro[i + 1]
        \/ i + 1 > Len(micro) /\ micro'[i] \in LightTasks
  <2> SUFFICES ASSUME NEW i \in DOMAIN micro'
               PROVE  \/ i + 1 \in DOMAIN micro /\ i + 1 > 1 /\ micro'[i] = micro[i + 1]
                      \/ i + 1 > Len(micro) /\ micro'[i] \in LightTasks
    OBVIOUS
  <2>1. CASE i <= Len(u)
    <3>1. i \in 1..(Len(micro) - 1)
      BY <1>1, <1>4, <1>6, <2>1
    <3>2. micro'[i] = micro[i + 1]
      BY <3>1, <1>1, <1>3
    <3>3. i + 1 \in 1..Len(micro) /\ i + 1 > 1
      BY <3>1, <1>4
    <3> QED  BY <3>2, <3>3, <1>6
  <2>2. CASE i > Len(u)
    BY <1>1, <1>3, <1>4, <1>5, <1>6, <2>2
  <2> QED  BY <1>6, <1>1, <2>1, <2>2
<1> QED  BY <1>8, <1>9 DEF Moves

\* What the head's successor must be for the queue to stay in order.
InOrder(h, d, t) ==
  /\ d = 0 => t.now \/ Task.job = "app"
  /\ t.now => d = 0
  /\ Pipe(t) => Pipe(Task) \/ Task.job = "start"
  /\ Heavy(t) => Task.job = "answer" /\ t.now
  /\ t.job = "ended" /\ ~t.now => Keeps(t)
WakesHold ==
  \A v \in waiting' : \/ v \in waiting /\ ~(Task.job = "start" /\ Task.view = v)
                      \/ \E i \in DOMAIN micro' : micro'[i].job = "start" /\ micro'[i].view = v

LEMMA QueueMoves ==
  ASSUME TypeInv, micro' \in Seq(Tasks), QueueInv, NEW h, NEW d, Moves(h, d),
         h # 0 => InOrder(h, d, micro'[h]), WakesHold
  PROVE  QueueInv'
<1> DEFINE Old(i) == i + d \in DOMAIN micro /\ i + d > 1 /\ micro'[i] = micro[i + d]
           New(i) == i + d > Len(micro) /\ micro'[i] \in LightTasks
<1>1. /\ micro \in Seq(Tasks) /\ micro # <<>> /\ Task = micro[1] /\ Len(micro) \in Nat
      /\ DOMAIN micro = 1..Len(micro) /\ DOMAIN micro' = 1..Len(micro') /\ Len(micro') \in Nat
      /\ 1 \in DOMAIN micro
  BY HeadIs, EmptySeq DEF TypeInv, Moves
<1>2. /\ (d = 0 /\ h = 1) \/ (d = 1 /\ h \in {0, Len(micro)})
      /\ h # 0 => h \in DOMAIN micro'
      /\ \A k \in DOMAIN micro : k > 1 =>
           k - d \in DOMAIN micro' /\ k - d # h /\ micro'[k - d] = micro[k]
      /\ \A i \in DOMAIN micro' : i # h => Old(i) \/ New(i)
  BY DEF Moves
<1>3. \A i \in DOMAIN micro' : New(i) =>
        micro'[i].job \in {"app", "start", "looked"} /\ ~micro'[i].now
  BY LightIs
<1>4. \A i \in DOMAIN micro' : New(i) => ~Heavy(micro'[i]) /\ ~Pipe(micro'[i])
  BY <1>3 DEF Heavy, Pipe, Pipeline
<1>5. /\ \A i \in DOMAIN micro : micro[i].now => i = 1
      /\ \A i \in DOMAIN micro : Heavy(micro[i]) =>
           /\ \A j \in DOMAIN micro : ~Pipe(micro[j])
           /\ \A j \in DOMAIN micro : j < i => micro[j].job = "answer" \/ micro[j].now
      /\ \A i \in DOMAIN micro : micro[i].job = "ended" /\ ~micro[i].now => Keeps(micro[i])
      /\ \A v \in waiting : \E i \in DOMAIN micro : micro[i].job = "start" /\ micro[i].view = v
  BY DEF QueueInv
<1> HIDE DEF New
<1>6. ASSUME NEW i \in DOMAIN micro', micro'[i].now PROVE i = 1
  <2>1. CASE i = h
    BY <1>2, <1>6, <2>1 DEF InOrder
  <2>2. CASE i # h
    BY <1>1, <1>2, <1>3, <1>5, <1>6, <2>2
  <2> QED  BY <2>1, <2>2
<1>7. ASSUME NEW i \in DOMAIN micro', micro'[i].job = "ended", ~micro'[i].now
      PROVE  Keeps(micro'[i])
  <2>1. CASE i = h
    BY <1>2, <1>1, <1>7, <2>1 DEF InOrder
  <2>2. CASE i # h
    BY <1>1, <1>2, <1>3, <1>5, <1>7, <2>2
  <2> QED  BY <2>1, <2>2
<1>8. ASSUME NEW i \in DOMAIN micro', Heavy(micro'[i])
      PROVE  /\ \A j \in DOMAIN micro' : ~Pipe(micro'[j])
             /\ \A j \in DOMAIN micro' : j < i => micro'[j].job = "answer" \/ micro'[j].now
  <2>1. PICK k \in DOMAIN micro : Heavy(micro[k]) /\ (i = h => k = 1 /\ d = 0)
                                  /\ (i # h => k > 1 /\ i = k - d)
    <3>1. CASE i = h
      <4>1. Task.job = "answer" /\ micro'[h].now
        BY <1>1, <1>2, <1>8, <3>1 DEF InOrder
      <4>2. d = 0
        BY <1>1, <1>2, <4>1, <3>1 DEF InOrder
      <4>3. Heavy(micro[1])
        BY <1>1, <4>1 DEF Heavy
      <4> QED  BY <1>1, <3>1, <4>2, <4>3
    <3>2. CASE i # h
      <4>1. Old(i)
        BY <1>2, <1>4, <1>8, <3>2
      <4>2. Heavy(micro[i + d])
        BY <1>8, <4>1
      <4> QED  BY <1>1, <1>2, <3>2, <4>1, <4>2
    <3> QED  BY <3>1, <3>2
  <2>2. /\ \A j \in DOMAIN micro : ~Pipe(micro[j])
        /\ \A j \in DOMAIN micro : j < k => micro[j].job = "answer" \/ micro[j].now
    BY <1>5, <2>1
  <2>3. Task.job = "answer" \/ Task.now
    <3>1. CASE k = 1
      BY <1>1, <1>2, <1>8, <2>1, <3>1 DEF InOrder
    <3>2. CASE k # 1
      BY <1>1, <2>2, <3>2
    <3> QED  BY <3>1, <3>2
  <2>4. Task.job # "start" /\ Task.job # "app"
    <3>1. Task \in Tasks
      BY <1>1, ElementOfSeq
    <3>2. Task.job = "start" => Task.now = FALSE
      BY <3>1, TaskIs DEF Starts
    <3>3. Task.job = "app" => Task.now = FALSE
      BY <3>1, TaskIs DEF Turn
    <3> QED  BY <2>3, <3>2, <3>3
  <2>5. ~Pipe(Task)
    BY <1>1, <2>2
  <2>6. ASSUME NEW j \in DOMAIN micro' PROVE ~Pipe(micro'[j])
    <3>1. CASE j = h
      BY <1>1, <1>2, <2>4, <2>5, <3>1 DEF InOrder
    <3>2. CASE j # h
      BY <1>2, <1>4, <2>2, <3>2
    <3> QED  BY <3>1, <3>2
  <2>7. ASSUME NEW j \in DOMAIN micro', j < i PROVE micro'[j].job = "answer" \/ micro'[j].now
    <3>1. i # h
      BY <1>1, <1>2, <2>1, <2>7
    <3>2. i = k - d /\ k > 1
      BY <2>1, <3>1
    <3>3. CASE j = h
      <4>1. d = 0
        BY <1>1, <1>2, <2>7, <3>2, <3>3
      <4> QED  BY <1>1, <1>2, <2>4, <3>3, <4>1 DEF InOrder
    <3>4. CASE j # h
      <4>1. Old(j)
        BY <1>1, <1>2, <2>7, <3>2, <3>4 DEF New
      <4>2. j + d < k
        BY <1>1, <1>2, <2>7, <3>2
      <4> QED  BY <2>2, <4>1, <4>2
    <3> QED  BY <3>3, <3>4
  <2> QED  BY <2>6, <2>7
<1>9. ASSUME NEW v \in waiting'
      PROVE  \E i \in DOMAIN micro' : micro'[i].job = "start" /\ micro'[i].view = v
  <2>1. CASE v \in waiting /\ ~(Task.job = "start" /\ Task.view = v)
    <3>1. PICK k \in DOMAIN micro : micro[k].job = "start" /\ micro[k].view = v
      BY <1>5, <2>1
    <3>2. k > 1
      BY <1>1, <2>1, <3>1
    <3>3. k - d \in DOMAIN micro' /\ micro'[k - d] = micro[k]
      BY <1>2, <3>2
    <3> QED  BY <3>1, <3>3
  <2> QED  BY <2>1 DEF WakesHold
<1> QED  BY <1>6, <1>7, <1>8, <1>9 DEF QueueInv

----------------------------------------------------------------------------
(* What every recompute under way knows, the older ones included.          *)

KidPlan(v, i, rows) == ChildPlanFor(Includes[v][i], PlanOf[v], rows)
Rows(v) == IF PlanOf[v] \in Declined THEN channels[PlanOf[v]].last ELSE Visible(PlanOf[v])
Cover(v) == IF PlanOf[v] \in Declined THEN "none" ELSE Known(PlanOf[v], Visible(PlanOf[v]))

\* Its rows stay while a recompute of it is under way.
Firm(v) == Full(v) > 0 /\ v \notin disturbed

BaseKnows(t) ==
  IF PlanOf[t.view] \in Declined THEN t.now /\ t.read = NoRead
  ELSE ~t.now /\ (Firm(t.view) => t.read = Reads(PlanOf[t.view]))
IncludeKnows(t) ==
  /\ Len(t.kids) <= Full(t.view)
  /\ Firm(t.view) => t.rows = Rows(t.view)
                       \/ (PlanOf[t.view] \in Declined /\ t.rows = Unknown)
  /\ ~t.now => Len(t.kids) > 0 /\ CanRead(KidPlan(t.view, Len(t.kids), t.rows))
TaskInv(t) ==
  /\ t.job = "base" => BaseKnows(t)
  /\ t.job = "include" => IncludeKnows(t)
  /\ t.job = "derive" => (t.now <=> Shape[PlanOf[t.view]] = "one")
Queued(t) == \E i \in DOMAIN micro : micro[i] = t
TasksInv == \A t \in Tasks : Queued(t) /\ Pipe(t) => TaskInv(t)

\* What a recompute reads stays, and none that goes on becomes steady.
ReadsStay ==
  /\ cached' = cached /\ laid' = laid
  /\ \A k \in DOMAIN micro : k > 1 /\ Pipe(micro[k]) /\ micro[k].view \in disturbed =>
       micro[k].view \in disturbed'
  /\ \A p \in Declined : channels'[p].last = channels[p].last

LEMMA TaskKept ==
  ASSUME TypeInv, cached' = cached, laid' = laid,
         \A p \in Declined : channels'[p].last = channels[p].last,
         NEW t \in Tasks, Pipe(t), TaskInv(t), Firm(t.view)' => Firm(t.view)
  PROVE  TaskInv(t)'
<1>1. t.view \in Views => PlanOf[t.view] \in Plans
  BY LiveAssumption
<1>2. Rows(t.view)' = Rows(t.view)
  BY DEF Rows, Visible
<1>3. Reads(PlanOf[t.view])' = Reads(PlanOf[t.view])
  BY DEF Reads, Visible
<1>4. BaseKnows(t) => BaseKnows(t)'
  BY <1>3 DEF BaseKnows
<1>5. IncludeKnows(t) => IncludeKnows(t)'
  BY <1>2 DEF IncludeKnows
<1> QED  BY <1>4, <1>5 DEF TaskInv

LEMMA TaskStays ==
  ASSUME TypeInv, UNCHANGED <<channels, cached, laid, disturbed>>, NEW t \in Tasks, Pipe(t),
         TaskInv(t)
  PROVE  TaskInv(t)'
<1>1. Firm(t.view)' => Firm(t.view)
  BY DEF Firm, Full
<1> QED  BY <1>1, TaskKept

LEMMA TasksMove ==
  ASSUME TypeInv, micro' \in Seq(Tasks), TasksInv, NEW h, NEW d, Moves(h, d),
         ReadsStay \/ \A i \in DOMAIN micro : ~Pipe(micro[i]),
         \A t \in Tasks : h # 0 /\ micro'[h] = t /\ Pipe(t) => TaskInv(t)'
  PROVE  TasksInv'
<1> SUFFICES ASSUME NEW t \in Tasks, NEW i \in DOMAIN micro', micro'[i] = t, Pipe(t)
             PROVE  TaskInv(t)'
  BY DEF TasksInv, Queued
<1>1. CASE i = h
  <2>1. h # 0
    BY <1>1
  <2> QED  BY <1>1, <2>1
<1>2. CASE i # h
  <2>1. t \notin LightTasks
    BY LightIs DEF Pipe, Pipeline
  <2>2. i + d \in DOMAIN micro /\ i + d > 1 /\ t = micro[i + d]
    BY <1>2, <2>1 DEF Moves
  <2>3. TaskInv(t) /\ ReadsStay
    BY <2>2 DEF TasksInv, Queued
  <2>4. Firm(t.view)' => Firm(t.view)
    BY <2>2, <2>3 DEF ReadsStay, Firm, Full
  <2> QED  BY <2>3, <2>4, TaskKept DEF ReadsStay
<1> QED  BY <1>1, <1>2

----------------------------------------------------------------------------
(* The newest recompute of a live query is behind the older ones: they     *)
(* show before it does.                                                    *)

Ahead(s, n, v, r) ==
  \A j \in DOMAIN s : j # n /\ PipeOf(s[j], v) =>
    IF j < n THEN Stage(s[j]) >= r ELSE Stage(s[j]) > r

LEMMA PipeIs ==
  ASSUME NEW t \in Tasks, Pipe(t)
  PROVE  Stage(t) \in Nat /\ t.view \in Views /\ Full(t.view) \in Nat
<1>1. t.job \in Pipeline
  BY DEF Pipe
<1>2. t.view \in Views
  BY <1>1, TaskIs DEF Pipeline, Bases, Joinings, Shows
<1>3. Full(t.view) \in Nat
  BY <1>2, IncludesTyped DEF Full
<1>4. t.job = "include" => Len(t.kids) \in Nat
  BY TaskIs DEF Joinings
<1>5. Stage(t) \in Nat
  BY <1>3, <1>4 DEF Stage
<1> QED
  BY <1>2, <1>3, <1>5

LEMMA Stays ==
  ASSUME TypeInv, micro' \in Seq(Tasks), NEW h, NEW d, Moves(h, d), NEW v,
         NEW n \in DOMAIN micro, n > 1,
         NEW r, Ahead(micro, n, v, r),
         h # 0 /\ PipeOf(micro'[h], v) =>
           IF h < n - d THEN Stage(micro'[h]) >= r ELSE Stage(micro'[h]) > r
  PROVE  n - d \in DOMAIN micro' /\ micro'[n - d] = micro[n] /\ Ahead(micro', n - d, v, r)
<1>1. /\ (d = 0 /\ h = 1) \/ (d = 1 /\ h \in {0, Len(micro)})
      /\ h # 0 => h \in DOMAIN micro'
      /\ \A k \in DOMAIN micro : k > 1 =>
           k - d \in DOMAIN micro' /\ k - d # h /\ micro'[k - d] = micro[k]
      /\ \A i \in DOMAIN micro' : i # h =>
           \/ i + d \in DOMAIN micro /\ i + d > 1 /\ micro'[i] = micro[i + d]
           \/ i + d > Len(micro) /\ micro'[i] \in LightTasks
  BY DEF Moves
<1>2. n - d \in DOMAIN micro' /\ micro'[n - d] = micro[n]
  BY <1>1
<1>3. /\ DOMAIN micro = 1..Len(micro) /\ Len(micro) \in Nat
      /\ DOMAIN micro' = 1..Len(micro') /\ Len(micro') \in Nat
  BY DEF TypeInv
<1>4. ASSUME NEW j \in DOMAIN micro', j # n - d, PipeOf(micro'[j], v)
      PROVE  IF j < n - d THEN Stage(micro'[j]) >= r ELSE Stage(micro'[j]) > r
  <2>1. CASE j = h
    <3>1. h # 0
      BY <2>1, <1>1, <1>3
    <3> QED  BY <1>4, <2>1, <3>1
  <2>2. CASE j # h
    <3>1. micro'[j] \notin LightTasks
      BY <1>4, LightIs DEF PipeOf, Pipe, Pipeline
    <3>2. j + d \in DOMAIN micro /\ micro'[j] = micro[j + d]
      BY <1>1, <2>2, <3>1
    <3>3. j + d # n /\ (j < n - d <=> j + d < n)
      BY <1>1, <1>3, <1>4, <3>2
    <3>4. IF j + d < n THEN Stage(micro[j + d]) >= r ELSE Stage(micro[j + d]) > r
      BY <1>4, <3>2, <3>3 DEF Ahead
    <3> QED  BY <3>2, <3>3, <3>4
  <2> QED  BY <2>1, <2>2
<1> QED  BY <1>2, <1>4 DEF Ahead

\* The head's successor is the newest.
LEMMA Leads ==
  ASSUME TypeInv, micro' \in Seq(Tasks), NEW h, NEW d, Moves(h, d), h # 0, NEW v, NEW r \in Nat,
         \A k \in DOMAIN micro : k > 1 /\ PipeOf(micro[k], v) =>
           IF d = 0 THEN Stage(micro[k]) > r ELSE Stage(micro[k]) >= r
  PROVE  h \in DOMAIN micro' /\ Ahead(micro', h, v, r)
<1>1. /\ (d = 0 /\ h = 1) \/ (d = 1 /\ h = Len(micro))
      /\ h \in DOMAIN micro'
      /\ \A i \in DOMAIN micro' : i # h =>
           \/ i + d \in DOMAIN micro /\ i + d > 1 /\ micro'[i] = micro[i + d]
           \/ i + d > Len(micro) /\ micro'[i] \in LightTasks
  BY DEF Moves
<1>2. DOMAIN micro = 1..Len(micro) /\ Len(micro) \in Nat
  BY DEF TypeInv
<1>3. ASSUME NEW j \in DOMAIN micro', j # h, PipeOf(micro'[j], v)
      PROVE  IF j < h THEN Stage(micro'[j]) >= r ELSE Stage(micro'[j]) > r
  <2>1. micro'[j] \notin LightTasks
    BY <1>3, LightIs DEF PipeOf, Pipe, Pipeline
  <2>2. j + d \in DOMAIN micro /\ j + d > 1 /\ micro'[j] = micro[j + d]
    BY <1>1, <1>3, <2>1
  <2>3. IF d = 0 THEN Stage(micro[j + d]) > r ELSE Stage(micro[j + d]) >= r
    BY <1>3, <2>2
  <2>4. (d = 0 /\ ~(j < h)) \/ (d = 1 /\ j < h)
    <3>1. j + d \in 1..Len(micro) /\ j + d > 1
      BY <1>2, <2>2
    <3>2. j \in Nat
      BY DEF TypeInv
    <3>3. CASE d = 0 /\ h = 1
      BY ONLY <3>1, <3>2, <3>3
    <3>4. CASE d = 1 /\ h = Len(micro)
      BY ONLY <1>2, <3>1, <3>2, <3>4
    <3> QED  BY <1>1, <3>3, <3>4
  <2> QED  BY <2>2, <2>3, <2>4
<1> QED  BY <1>1, <1>3 DEF Ahead

NoPipe(s, v) == \A i \in DOMAIN s : ~PipeOf(s[i], v)

LEMMA NoPipeMoves ==
  ASSUME TypeInv, micro' \in Seq(Tasks), NEW h, NEW d, Moves(h, d), NEW v,
         \A k \in DOMAIN micro : k > 1 => ~PipeOf(micro[k], v),
         h # 0 => ~PipeOf(micro'[h], v)
  PROVE  NoPipe(micro', v)
<1> SUFFICES ASSUME NEW i \in DOMAIN micro', PipeOf(micro'[i], v) PROVE FALSE
  BY DEF NoPipe
<1>1. micro'[i] \notin LightTasks
  BY LightIs DEF PipeOf, Pipe, Pipeline
<1>2. CASE i = h
  <2>1. h # 0
    BY <1>2
  <2> QED  BY <1>2, <2>1
<1>3. CASE i # h
  <2>1. i + d \in DOMAIN micro /\ i + d > 1 /\ micro'[i] = micro[i + d]
    BY <1>1, <1>3 DEF Moves
  <2> QED  BY <2>1
<1> QED  BY <1>2, <1>3

----------------------------------------------------------------------------
(* What a live query shows, or the newest recompute will.                  *)

Alike(a, b) ==
  /\ a.refreshing = b.refreshing /\ a.synced = b.synced /\ a.online = b.online
  /\ a.error = b.error /\ a.last = b.last

Made(t) == IF t.job = "base" THEN 0 ELSE IF t.job = "include" THEN Len(t.kids) ELSE Full(t.view)
ExactJoin(t) ==
  /\ Alike(t.held, channels[PlanOf[t.view]])
  /\ t.rows = Rows(t.view) /\ t.coverage = Cover(t.view) /\ Len(t.kids) <= Full(t.view)
  /\ \A i \in 1..Len(t.kids) : t.kids[i] = Kid(KidPlan(t.view, i, Rows(t.view)))
Exact(t) ==
  /\ t.job = "base" => PlanOf[t.view] \in Declined \/ t.read = Reads(PlanOf[t.view])
  /\ t.job \in {"include", "derive"} => ExactJoin(t)
  /\ t.job = "derive" => Len(t.kids) = Full(t.view)
  /\ t.job = "show" => t.next = Derived(t.view)

\* The channels of the first k relations are those the rows ask for (of a
\* relation included twice, the last one counts).
Follows(v, i) ==
  LET spec == Includes[v][i]
      plan == KidPlan(v, i, Rows(v))
  IN IF plan = NoPlan THEN spec \notin DOMAIN kids[v]
     ELSE spec \in DOMAIN kids[v] /\ kids[v][spec] = plan
FollowsTo(v, k) ==
  \A i \in 1..k : (\A j \in (k + 1)..Full(v) : Includes[v][j] # Includes[v][i]) => Follows(v, i)

Newest(v, t) == \E n \in DOMAIN micro : micro[n] = t /\ Ahead(micro, n, v, Stage(t))
Settled(v) == NoPipe(micro, v) /\ shown[v] = Derived(v) /\ FollowsTo(v, Full(v))
Coming(v) ==
  \E t \in Tasks : PipeOf(t, v) /\ Newest(v, t) /\ Exact(t) /\ FollowsTo(v, Made(t))
ViewInv(v) == v \in waiting \/ Settled(v) \/ Coming(v)
ShownInv == \A v \in mounted \ disturbed : ViewInv(v)

\* Nothing that v shows changes.
ReadBy(v, plan) ==
  plan # NoPlan /\ (plan = PlanOf[v] \/ \E i \in 1..Full(v), n \in Results :
    plan = KidPlan(v, i, n))
SameSight(v) ==
  /\ v \in refined' <=> v \in refined
  /\ Alike(channels[PlanOf[v]], channels'[PlanOf[v]])
  /\ \A plan \in Plans : ReadBy(v, plan) => Visible(plan)' = Visible(plan)
Untouched(v) == SameSight(v) /\ shown'[v] = shown[v] /\ kids'[v] = kids[v]

LEMMA ViewTyped ==
  ASSUME TypeInv, NEW v \in Views
  PROVE  /\ PlanOf[v] \in Plans /\ Full(v) \in Nat /\ Includes[v] \in Seq(Specs)
         /\ DOMAIN Includes[v] = 1..Full(v) /\ Rows(v) \in Results /\ PlanOf[v] # NoPlan
         /\ \A i \in 1..Full(v), n \in Results :
              KidPlan(v, i, n) \in Plans \cup {NoPlan} /\ Includes[v][i] \in Specs
<1>1. PlanOf[v] \in Plans /\ Full(v) \in Nat /\ Includes[v] \in Seq(Specs)
  BY IncludesTyped DEF Full
<1>2. DOMAIN Includes[v] = 1..Full(v)
  BY <1>1 DEF Full
<1>3. channels[PlanOf[v]].last \in Results /\ Visible(PlanOf[v]) \in Results
  BY <1>1, VisibleTyped DEF TypeInv, ChannelsTyped, Channel
<1>4. Rows(v) \in Results
  BY <1>3 DEF Rows
<1>5. PlanOf[v] # NoPlan
  BY <1>1, LiveAssumption
<1>6. ASSUME NEW i \in 1..Full(v), NEW n \in Results
      PROVE  KidPlan(v, i, n) \in Plans \cup {NoPlan} /\ Includes[v][i] \in Specs
  <2>1. Includes[v][i] \in Specs
    BY <1>1, <1>2, ElementOfSeq
  <2> QED  BY <1>1, <2>1, ChildPlanTyped DEF KidPlan
<1> QED  BY <1>1, <1>2, <1>4, <1>5, <1>6

LEMMA RelatedIs ==
  ASSUME TypeInv, NEW v \in Views, NEW n
  PROVE  Related(v, n) = [i \in 1..Full(v) |-> Kid(KidPlan(v, i, n))]
<1>1. DOMAIN Includes[v] = 1..Full(v)
  BY ViewTyped
<1>2. \A plan : Kid(plan) = IF plan = NoPlan \/ plan \in Declined THEN Unknown ELSE Visible(plan)
  BY DEF Kid, CanRead
<1> QED  BY <1>1, <1>2 DEF Related, KidPlan

LEMMA DerivedIs ==
  ASSUME NEW v
  PROVE  Derived(v) = State(v, Rows(v), Related(v, Rows(v)), Cover(v), channels[PlanOf[v]])
<1>1. CASE PlanOf[v] \in Declined
  BY <1>1 DEF Derived, Rows, Cover
<1>2. CASE PlanOf[v] \notin Declined
  BY <1>2 DEF Derived, Rows, Cover
<1> QED  BY <1>1, <1>2

LEMMA StateAlike ==
  ASSUME NEW v, NEW rows, NEW related, NEW cover, NEW a, NEW b, Alike(a, b)
  PROVE  State(v, rows, related, cover, a) = State(v, rows, related, cover, b)
  BY DEF Alike, State, DeriveStatus

LEMMA SightKeeps ==
  ASSUME TypeInv, NEW v \in Views, SameSight(v)
  PROVE  /\ Rows(v)' = Rows(v) /\ Cover(v)' = Cover(v)
         /\ \A i \in 1..Full(v), n \in Results : Kid(KidPlan(v, i, n))' = Kid(KidPlan(v, i, n))
         /\ Derived(v)' = Derived(v)
         /\ \A t \in Tasks : PipeOf(t, v) /\ Exact(t) => Exact(t)'
<1>1. /\ PlanOf[v] \in Plans /\ PlanOf[v] # NoPlan /\ Full(v) \in Nat /\ Rows(v) \in Results
      /\ \A i \in 1..Full(v), n \in Results : KidPlan(v, i, n) \in Plans \cup {NoPlan}
  BY ViewTyped
<1>2. Visible(PlanOf[v])' = Visible(PlanOf[v])
  BY <1>1 DEF SameSight, ReadBy
<1>3. Alike(channels[PlanOf[v]], channels'[PlanOf[v]])
  BY DEF SameSight
<1>4. Rows(v)' = Rows(v) /\ Cover(v)' = Cover(v)
  BY <1>2, <1>3 DEF Rows, Cover, Alike
<1>5. ASSUME NEW i \in 1..Full(v), NEW n \in Results
      PROVE  Kid(KidPlan(v, i, n))' = Kid(KidPlan(v, i, n))
  <2> DEFINE plan == KidPlan(v, i, n)
  <2>1. plan \in Plans \cup {NoPlan} /\ (plan # NoPlan => ReadBy(v, plan))
    BY <1>1 DEF ReadBy
  <2>2. plan # NoPlan => Visible(plan)' = Visible(plan)
    BY <2>1 DEF SameSight
  <2>3. KidPlan(v, i, n)' = plan
    BY DEF KidPlan
  <2> QED  BY <2>2, <2>3 DEF Kid, CanRead
<1>6. Related(v, Rows(v))' = Related(v, Rows(v))
  <2>1. ASSUME NEW i \in 1..Full(v), NEW plan, plan = KidPlan(v, i, Rows(v))
        PROVE  plan # NoPlan => Visible(plan)' = Visible(plan)
    <3>1. plan \in Plans \cup {NoPlan} /\ (plan # NoPlan => ReadBy(v, plan))
      BY <1>1, <2>1 DEF ReadBy
    <3> QED  BY <3>1 DEF SameSight
  <2>2. DOMAIN Includes[v] = 1..Full(v)
    BY ViewTyped
  <2> QED  BY <1>4, <2>1, <2>2 DEF Related, KidPlan, Visible
<1>7. Derived(v)' = Derived(v)
  <2>1. Derived(v) = State(v, Rows(v), Related(v, Rows(v)), Cover(v), channels[PlanOf[v]])
    BY DerivedIs
  <2>2. Derived(v)' = State(v, Rows(v), Related(v, Rows(v)), Cover(v), channels[PlanOf[v]])'
    <3>1. CASE PlanOf[v] \in Declined
      BY <3>1 DEF Derived, Rows, Cover
    <3>2. CASE PlanOf[v] \notin Declined
      BY <3>2 DEF Derived, Rows, Cover
    <3> QED  BY <3>1, <3>2
  <2>3. State(v, Rows(v), Related(v, Rows(v)), Cover(v), channels[PlanOf[v]])'
          = State(v, Rows(v), Related(v, Rows(v)), Cover(v), channels'[PlanOf[v]])
    BY <1>4, <1>6 DEF SameSight, State
  <2> QED  BY <1>3, <2>1, <2>2, <2>3, StateAlike
<1>8. ASSUME NEW t \in Tasks, PipeOf(t, v), Exact(t) PROVE Exact(t)'
  <2>1. t.view = v
    BY <1>8 DEF PipeOf
  <2>2. t.job = "show" => t.next = Derived(t.view)'
    BY <1>7, <1>8, <2>1 DEF Exact
  <2>3. ASSUME ExactJoin(t) PROVE ExactJoin(t)'
    <3>1. Alike(t.held, channels'[PlanOf[v]])
      BY <1>3, <2>1, <2>3 DEF ExactJoin, Alike
    <3>2. t.rows = Rows(v)' /\ t.coverage = Cover(v)' /\ Len(t.kids) <= Full(v)
      BY <1>4, <2>1, <2>3 DEF ExactJoin
    <3>3. \A i \in 1..Len(t.kids) : t.kids[i] = Kid(KidPlan(v, i, Rows(v)))'
      <4> SUFFICES ASSUME NEW i \in 1..Len(t.kids)
                   PROVE  t.kids[i] = Kid(KidPlan(v, i, Rows(v)))'
        OBVIOUS
      <4>1. t.kids[i] = Kid(KidPlan(v, i, Rows(v)))
        BY <2>1, <2>3 DEF ExactJoin
      <4>2. PICK n \in Results : n = Rows(v)
        BY <1>1
      <4>3. i \in 1..Full(v)
        BY <1>1, <3>2
      <4>4. Kid(KidPlan(v, i, n))' = Kid(KidPlan(v, i, n))
        BY <1>5, <4>3
      <4>5. Kid(KidPlan(v, i, Rows(v)))' = Kid(KidPlan(v, i, n))'
        BY <1>4, <4>2
      <4> QED  BY <4>1, <4>2, <4>4, <4>5
    <3> QED  BY <2>1, <3>1, <3>2, <3>3 DEF ExactJoin
  <2>4. Reads(PlanOf[v])' = Reads(PlanOf[v])
    BY <1>2 DEF Reads
  <2>5. t.job = "base" => PlanOf[v] \in Declined \/ t.read = Reads(PlanOf[v])'
    BY <1>8, <2>1, <2>4 DEF Exact
  <2> QED  BY <1>8, <2>1, <2>2, <2>3, <2>5 DEF Exact
<1> QED  BY <1>4, <1>5, <1>7, <1>8

LEMMA FollowsKept ==
  ASSUME TypeInv, NEW v \in Views, Rows(v)' = Rows(v), kids'[v] = kids[v], NEW k, FollowsTo(v, k)
  PROVE  FollowsTo(v, k)'
  BY DEF FollowsTo, Follows

\* A relation's channel is exchanged: it follows the rows if it is theirs.
LEMMA FollowsOn ==
  ASSUME TypeInv, RefInv, NEW v \in Views, Rows(v)' = Rows(v),
         NEW K \in Nat, K < Full(v), NEW plan \in Plans \cup {NoPlan},
         kids' = Exchanged(kids, v, Includes[v][K + 1], plan)
  PROVE  /\ \A m \in 0..K : FollowsTo(v, m) => FollowsTo(v, m)'
         /\ FollowsTo(v, K) /\ plan = KidPlan(v, K + 1, Rows(v)) => FollowsTo(v, K + 1)'
<1> DEFINE spec == Includes[v][K + 1]
           old == kids[v]
           new == kids'[v]
<1>1. new = [t \in (DOMAIN old \cup {spec}) \ {s \in {spec} : plan = NoPlan} |->
               IF t = spec THEN plan ELSE old[t]]
  BY DEF Exchanged, RefInv
<1>2. /\ \A t : t # spec => (t \in DOMAIN new <=> t \in DOMAIN old)
      /\ \A t \in DOMAIN old : t # spec => new[t] = old[t]
      /\ IF plan = NoPlan THEN spec \notin DOMAIN new ELSE spec \in DOMAIN new /\ new[spec] = plan
  BY <1>1
<1> HIDE DEF new, old
<1>3. Full(v) \in Nat
  BY ViewTyped
<1>4. ASSUME NEW i \in 1..Full(v), Includes[v][i] # spec, Follows(v, i) PROVE Follows(v, i)'
  BY <1>2, <1>4 DEF Follows, KidPlan, old, new
<1>5. ASSUME NEW i \in 1..Full(v), Includes[v][i] = spec, plan = KidPlan(v, K + 1, Rows(v))
      PROVE  Follows(v, i)'
  <2>1. KidPlan(v, i, Rows(v)) = plan
    BY <1>5 DEF KidPlan
  <2> QED  BY <1>2, <1>5, <2>1 DEF Follows, KidPlan, new
<1>6. ASSUME NEW m \in 0..K, FollowsTo(v, m) PROVE FollowsTo(v, m)'
  <2> SUFFICES ASSUME NEW i \in 1..m, \A j \in (m + 1)..Full(v) : Includes[v][j] # Includes[v][i]
               PROVE  Follows(v, i)'
    BY DEF FollowsTo
  <2>1. Follows(v, i)
    BY <1>6 DEF FollowsTo
  <2>2. K + 1 \in (m + 1)..Full(v) /\ i \in 1..Full(v)
    BY <1>3
  <2>3. Includes[v][i] # spec
    BY <2>2
  <2> QED  BY <1>4, <2>1, <2>2, <2>3
<1>7. ASSUME FollowsTo(v, K), plan = KidPlan(v, K + 1, Rows(v)) PROVE FollowsTo(v, K + 1)'
  <2> SUFFICES ASSUME NEW i \in 1..(K + 1),
                      \A j \in (K + 2)..Full(v) : Includes[v][j] # Includes[v][i]
               PROVE  Follows(v, i)'
    BY <1>3 DEF FollowsTo
  <2>1. i \in 1..Full(v)
    BY <1>3
  <2>2. CASE Includes[v][i] = spec
    BY <1>5, <1>7, <2>1, <2>2
  <2>3. CASE Includes[v][i] # spec
    <3>1. i \in 1..K
      BY <2>3
    <3>2. ASSUME NEW j \in (K + 1)..Full(v) PROVE Includes[v][j] # Includes[v][i]
      <4>1. j = K + 1 \/ j \in (K + 2)..Full(v)
        BY <1>3
      <4> QED  BY <2>3, <4>1
    <3>3. Follows(v, i)
      BY <1>7, <3>1, <3>2 DEF FollowsTo
    <3> QED  BY <1>4, <2>1, <2>3, <3>3
  <2> QED  BY <2>2, <2>3
<1> QED  BY <1>6, <1>7

----------------------------------------------------------------------------
(* How a step leaves the live queries it is not about, and those it is.    *)

\* A step of the queue that is not v's.
LEMMA ViewMoves ==
  ASSUME TypeInv, micro' \in Seq(Tasks), NEW v \in Views, ViewInv(v), Untouched(v),
         v \in waiting => v \in waiting',
         NEW h, NEW d, Moves(h, d), ~PipeOf(Task, v),
         h # 0 => ~PipeOf(micro'[h], v)
  PROVE  ViewInv(v)'
<1>1. /\ shown'[v] = shown[v] /\ kids'[v] = kids[v] /\ SameSight(v)
  BY DEF Untouched
<1>2. /\ Rows(v)' = Rows(v) /\ Derived(v)' = Derived(v)
      /\ \A t \in Tasks : PipeOf(t, v) /\ Exact(t) => Exact(t)'
  BY <1>1, SightKeeps
<1>3. \A k : FollowsTo(v, k) => FollowsTo(v, k)'
  BY <1>1, <1>2, FollowsKept
<1>4. Task = micro[1] /\ 1 \in DOMAIN micro
  BY EmptySeq, HeadIs DEF TypeInv, Moves
<1>5. CASE v \in waiting
  BY <1>5 DEF ViewInv
<1>6. CASE Settled(v)
  <2>1. NoPipe(micro', v)
    BY <1>6, NoPipeMoves DEF Settled, NoPipe
  <2>2. Settled(v)'
    BY <1>1, <1>2, <1>3, <1>6, <2>1 DEF Settled, NoPipe
  <2> QED  BY <2>2 DEF ViewInv
<1>7. CASE Coming(v)
  <2>1. PICK t \in Tasks : PipeOf(t, v) /\ Newest(v, t) /\ Exact(t) /\ FollowsTo(v, Made(t))
    BY <1>7 DEF Coming
  <2>2. PICK n \in DOMAIN micro : micro[n] = t /\ Ahead(micro, n, v, Stage(t))
    BY <2>1 DEF Newest
  <2>3. n > 1
    <3>1. n # 1
      BY <1>4, <2>1, <2>2
    <3> QED  BY <3>1 DEF TypeInv
  <2>4. n - d \in DOMAIN micro' /\ micro'[n - d] = micro[n] /\ Ahead(micro', n - d, v, Stage(t))
    BY <2>2, <2>3, Stays
  <2>5. Newest(v, t)'
    BY <2>2, <2>4 DEF Newest, Ahead
  <2>6. Coming(v)'
    BY <1>2, <1>3, <2>1, <2>5 DEF Coming
  <2> QED  BY <2>6 DEF ViewInv
<1> QED  BY <1>5, <1>6, <1>7 DEF ViewInv

\* The head, of an older recompute of v, goes on.
LEMMA OlderMoves ==
  ASSUME TypeInv, micro' \in Seq(Tasks), NEW v \in Views, SameSight(v),
         NEW t \in Tasks, PipeOf(t, v), Exact(t), FollowsTo(v, Made(t))',
         NEW n \in DOMAIN micro, n > 1, micro[n] = t, Ahead(micro, n, v, Stage(t)),
         PipeOf(Task, v), NEW h, NEW d, Moves(h, d),
         h # 0 /\ PipeOf(micro'[h], v) =>
           /\ Stage(micro'[h]) \in Nat /\ Stage(micro'[h]) >= Stage(Task)
           /\ d = 1 => Stage(micro'[h]) > Stage(Task)
  PROVE  ViewInv(v)'
<1>1. Task = micro[1] /\ 1 \in DOMAIN micro /\ Task \in Tasks
  BY EmptySeq, HeadIs DEF TypeInv, Moves
<1>2. Stage(Task) >= Stage(t)
  BY <1>1 DEF Ahead
<1>3. Stage(Task) \in Nat /\ Stage(t) \in Nat
  BY <1>1, PipeIs DEF PipeOf
<1>4. h # 0 /\ PipeOf(micro'[h], v) =>
        IF h < n - d THEN Stage(micro'[h]) >= Stage(t) ELSE Stage(micro'[h]) > Stage(t)
  <2>1. CASE d = 0
    <3>1. h = 1 /\ h < n - d
      BY <2>1 DEF Moves, TypeInv
    <3> QED  BY <1>2, <1>3, <3>1
  <2>2. CASE d = 1
    BY <1>2, <1>3, <2>2
  <2> QED  BY <2>1, <2>2 DEF Moves
<1>5. n - d \in DOMAIN micro' /\ micro'[n - d] = micro[n] /\ Ahead(micro', n - d, v, Stage(t))
  BY <1>4, Stays
<1>6. Newest(v, t)'
  BY <1>5 DEF Newest, Ahead
<1>7. Exact(t)'
  BY SightKeeps
<1>8. Coming(v)'
  BY <1>6, <1>7 DEF Coming
<1> QED  BY <1>8 DEF ViewInv

\* The head's successor is the newest recompute of v.
LEMMA NewestMoves ==
  ASSUME TypeInv, micro' \in Seq(Tasks), NEW v \in Views, NEW t \in Tasks, PipeOf(t, v),
         NEW h, NEW d, Moves(h, d), h # 0, micro'[h] = t, Exact(t)', FollowsTo(v, Made(t))',
         \A k \in DOMAIN micro : k > 1 /\ PipeOf(micro[k], v) =>
           IF d = 0 THEN Stage(micro[k]) > Stage(t) ELSE Stage(micro[k]) >= Stage(t)
  PROVE  ViewInv(v)'
<1>1. Stage(t) \in Nat
  BY PipeIs DEF PipeOf
<1>2. h \in DOMAIN micro' /\ Ahead(micro', h, v, Stage(t))
  BY <1>1, Leads
<1>3. Newest(v, t)'
  BY <1>2 DEF Newest, Ahead
<1>4. Coming(v)'
  BY <1>3 DEF Coming
<1> QED  BY <1>4 DEF ViewInv

----------------------------------------------------------------------------
(* The kinds of steps.                                                     *)

RecomputeInv == QueueInv /\ TasksInv /\ ShownInv

LEMMA WokenStart ==
  ASSUME NEW tasks \in Seq(Tasks), NEW queued, NEW woken, Queues(tasks, queued, woken)
  PROVE  \A v \in woken \ queued :
           \E i \in DOMAIN micro' : micro'[i].job = "start" /\ micro'[i].view = v
<1>1. PICK ss \in Seq(Starts) : /\ micro' = tasks \o ss
                                /\ \A v \in woken \ queued : \E i \in DOMAIN ss : ss[i].view = v
  BY DEF Queues
<1>2. ss \in Seq(Tasks)
  <2>1. Starts \subseteq Tasks
    BY DEF Tasks
  <2> QED  BY <2>1, SeqMonotonic
<1> SUFFICES ASSUME NEW v \in woken \ queued
             PROVE  \E i \in DOMAIN micro' : micro'[i].job = "start" /\ micro'[i].view = v
  OBVIOUS
<1>3. PICK i \in DOMAIN ss : ss[i].view = v
  BY <1>1
<1>4. ss[i].job = "start" /\ i \in 1..Len(ss)
  <2>1. i \in 1..Len(ss)
    BY <1>2
  <2>2. ss[i] \in Starts
    BY <2>1, ElementOfSeq
  <2> QED  BY <2>1, <2>2 DEF Starts
<1>5. /\ tasks \o ss \in Seq(Tasks) /\ Len(tasks \o ss) = Len(tasks) + Len(ss)
      /\ (tasks \o ss)[Len(tasks) + i] = ss[i]
  BY <1>2, <1>4, CatIs
<1>6. Len(tasks) + i \in DOMAIN micro'
  BY <1>1, <1>4, <1>5
<1> QED  BY <1>1, <1>3, <1>4, <1>5, <1>6

LEMMA QueuesMove ==
  ASSUME TypeInv, micro # <<>>, NEW t \in Tasks, NEW queued, NEW woken
  PROVE  /\ Queues(Now(t), queued, woken) => Moves(1, 0) /\ micro'[1] = t
         /\ Queues(Later(t), queued, woken) => Moves(Len(micro), 1) /\ micro'[Len(micro)] = t
         /\ Queues(Rest, queued, woken) => Moves(0, 1)
<1>1. Starts \subseteq LightTasks /\ micro \in Seq(Tasks)
  BY DEF LightTasks, TypeInv
<1>2. ASSUME NEW tasks, Queues(tasks, queued, woken)
      PROVE  \E ss \in Seq(LightTasks) : micro' = tasks \o ss
  <2>1. PICK ss \in Seq(Starts) : micro' = tasks \o ss
    BY <1>2 DEF Queues
  <2>2. ss \in Seq(LightTasks)
    BY <1>1, SeqMonotonic
  <2> QED  BY <2>1, <2>2
<1>3. Queues(Now(t), queued, woken) => Moves(1, 0) /\ micro'[1] = t
  BY <1>1, <1>2, NowMoves
<1>4. Queues(Later(t), queued, woken) => Moves(Len(micro), 1) /\ micro'[Len(micro)] = t
  BY <1>1, <1>2, LaterMoves
<1>5. Queues(Rest, queued, woken) => Moves(0, 1)
  BY <1>1, <1>2, RestMoves
<1> QED  BY <1>3, <1>4, <1>5

LEMMA PlainMoves ==
  ASSUME TypeInv, micro # <<>>, NEW t \in Tasks
  PROVE  /\ micro' = Now(t) => Moves(1, 0) /\ micro'[1] = t /\ micro' \in Seq(Tasks)
         /\ micro' = Later(t) =>
              Moves(Len(micro), 1) /\ micro'[Len(micro)] = t /\ micro' \in Seq(Tasks)
         /\ micro' = Rest => Moves(0, 1) /\ micro' \in Seq(Tasks)
<1>1. micro \in Seq(Tasks) /\ <<>> \in Seq(LightTasks)
  BY DEF TypeInv
<1>2. Now(t) \in Seq(Tasks) /\ Later(t) \in Seq(Tasks) /\ Rest \in Seq(Tasks)
  BY <1>1, GoOnTyped
<1>3. Now(t) \o <<>> = Now(t) /\ Later(t) \o <<>> = Later(t) /\ Rest \o <<>> = Rest
  BY <1>2, ConcatEmptySeq
<1>4. micro' = Now(t) => Moves(1, 0) /\ micro'[1] = t
  BY <1>1, <1>3, NowMoves
<1>5. micro' = Later(t) => Moves(Len(micro), 1) /\ micro'[Len(micro)] = t
  BY <1>1, <1>3, LaterMoves
<1>6. micro' = Rest => Moves(0, 1)
  BY <1>1, <1>3, RestMoves
<1> QED  BY <1>2, <1>4, <1>5, <1>6

\* A task that is no recompute's goes on.
LEMMA PlainStep ==
  ASSUME TypeInv, RecomputeInv, micro' \in Seq(Tasks), mounted' \subseteq Views,
         NEW h, NEW d, Moves(h, d), ~Pipe(Task),
         h # 0 => ~Pipe(micro'[h]) /\ InOrder(h, d, micro'[h]), WakesHold,
         ReadsStay \/ \A i \in DOMAIN micro : ~Pipe(micro[i]), disturbed' = disturbed,
         \A v \in mounted' : \/ v \in waiting'
                             \/ v \in mounted \ waiting /\ Untouched(v)
  PROVE  RecomputeInv'
<1>1. QueueInv'
  BY QueueMoves DEF RecomputeInv
<1>2. TasksInv'
  <2>1. \A t \in Tasks : h # 0 /\ micro'[h] = t /\ Pipe(t) => TaskInv(t)'
    OBVIOUS
  <2> QED  BY <2>1, TasksMove DEF RecomputeInv
<1>3. ASSUME NEW v \in mounted' \ disturbed PROVE ViewInv(v)'
  <2>1. CASE v \in waiting'
    BY <2>1 DEF ViewInv
  <2>2. CASE v \in mounted \ waiting /\ Untouched(v)
    <3>1. ~PipeOf(Task, v) /\ (h # 0 => ~PipeOf(micro'[h], v))
      BY DEF PipeOf
    <3>2. ViewInv(v) /\ v \in Views
      BY <2>2 DEF RecomputeInv, ShownInv
    <3> QED  BY <2>2, <3>1, <3>2, ViewMoves
  <2> QED  BY <1>3, <2>1, <2>2
<1>4. ShownInv'
  BY <1>3 DEF ShownInv
<1> QED  BY <1>1, <1>2, <1>4 DEF RecomputeInv

\* While no microtask is queued.
LEMMA QuietStep ==
  ASSUME TypeInv, RecomputeInv, Quiet, micro' \in Seq(Tasks), mounted' \subseteq Views,
         \A i \in DOMAIN micro' : ~micro'[i].now /\ ~Pipe(micro'[i]) /\ micro'[i].job # "ended",
         \/ \A i \in DOMAIN micro' : micro'[i].job = "answer"
         \/ \A i \in DOMAIN micro' : micro'[i].job # "answer",
         \A v \in waiting' : \E i \in DOMAIN micro' : micro'[i].job = "start" /\ micro'[i].view = v,
         disturbed' = disturbed,
         \A v \in mounted' : v \in waiting' \/ (v \in mounted /\ Untouched(v))
  PROVE  RecomputeInv'
<1>1. DOMAIN micro = {}
  BY DEF Quiet
<1>2. waiting = {}
  BY <1>1 DEF RecomputeInv, QueueInv
<1>3. QueueInv'
  BY DEF QueueInv, Heavy
<1>4. TasksInv'
  BY DEF TasksInv, Queued
<1>5. ASSUME NEW v \in mounted' \ disturbed PROVE ViewInv(v)'
  <2>1. CASE v \in waiting'
    BY <2>1 DEF ViewInv
  <2>2. CASE v \in mounted /\ Untouched(v)
    <3>1. ViewInv(v) /\ v \in Views
      BY <1>5, <2>2 DEF RecomputeInv, ShownInv
    <3>2. ~Coming(v)
      BY <1>1 DEF Coming, Newest
    <3>3. Settled(v)
      BY <1>2, <3>1, <3>2 DEF ViewInv
    <3>4. SameSight(v) /\ shown'[v] = shown[v] /\ kids'[v] = kids[v]
      BY <2>2 DEF Untouched
    <3>5. Rows(v)' = Rows(v) /\ Derived(v)' = Derived(v)
      BY <3>1, <3>4, SightKeeps
    <3>6. FollowsTo(v, Full(v))'
      BY <3>1, <3>3, <3>4, <3>5, FollowsKept DEF Settled
    <3>7. NoPipe(micro', v)
      BY DEF NoPipe, PipeOf
    <3>8. Settled(v)'
      BY <3>3, <3>4, <3>5, <3>6, <3>7 DEF Settled, NoPipe, Full
    <3> QED  BY <3>8 DEF ViewInv
  <2> QED  BY <1>5, <2>1, <2>2
<1>6. ShownInv'
  BY <1>5 DEF ShownInv
<1> QED  BY <1>3, <1>4, <1>6 DEF RecomputeInv

\* A call of the application, in a turn of its own or in the one that runs.
LEMMA CallStep ==
  ASSUME TypeInv, RecomputeInv, Calling, mounted' \subseteq Views,
         NEW ss \in Seq(LightTasks), micro' = Open \o ss, micro' \in Seq(Tasks), ReadsStay,
         disturbed' = disturbed,
         \A v \in waiting' : \/ v \in waiting
                             \/ \E i \in DOMAIN micro' :
                                  micro'[i].job = "start" /\ micro'[i].view = v,
         \A v \in mounted' : \/ v \in waiting'
                             \/ v \in mounted \ waiting /\ Untouched(v)
  PROVE  RecomputeInv'
<1>1. Turn \in Tasks /\ Turn \in LightTasks /\ Turn.job = "app" /\ ~Turn.now
  BY DEF Tasks, LightTasks, Turns, Turn
<1>2. CASE Quiet
  <2>1. micro' = <<Turn>> \o ss
    BY <1>2 DEF Open
  <2>2. <<Turn>> \in Seq(LightTasks)
    BY <1>1
  <2>3. <<Turn>> \o ss \in Seq(LightTasks)
    BY <2>2, CatIs
  <2>4. \A i \in DOMAIN micro' : micro'[i] \in LightTasks
    BY <2>1, <2>3, ElementOfSeq
  <2>5. \A i \in DOMAIN micro' : /\ ~micro'[i].now /\ ~Pipe(micro'[i])
                                 /\ micro'[i].job # "ended" /\ micro'[i].job # "answer"
    BY <2>4, LightIs DEF Pipe, Pipeline
  <2>6. waiting = {}
    BY <1>2 DEF RecomputeInv, QueueInv, Quiet
  <2> QED  BY <1>2, <2>5, <2>6, QuietStep
<1>3. CASE ~Quiet
  <2>1. micro # <<>> /\ Task.job = "app" /\ Open = micro /\ micro \in Seq(Tasks)
    BY <1>3 DEF Calling, Runs, Quiet, Open, TypeInv
  <2>2. Task = Turn
    BY <2>1, HeadIs, TaskIs
  <2>3. micro = Now(Turn)
    BY <2>1, <2>2, HeadTailProperties, ConcatProperties, SeqEqual DEF Now, Task
  <2>4. Moves(1, 0) /\ micro'[1] = Turn
    BY <1>1, <2>1, <2>3, NowMoves
  <2>5. ~Pipe(Turn) /\ ~Heavy(Turn) /\ Turn.job # "ended"
    BY <1>1 DEF Pipe, Pipeline, Heavy
  <2>6. InOrder(1, 0, micro'[1])
    BY <1>1, <2>1, <2>4, <2>5 DEF InOrder
  <2>7. WakesHold
    BY <2>1 DEF WakesHold
  <2> QED  BY <2>2, <2>4, <2>5, <2>6, <2>7, PlainStep
<1> QED  BY <1>2, <1>3

LEMMA UntouchedSame ==
  ASSUME UNCHANGED <<channels, cached, laid, refined>>
  PROVE  /\ disturbed' = disturbed => ReadsStay
         /\ \A v : shown'[v] = shown[v] /\ kids'[v] = kids[v] => Untouched(v)
  BY DEF ReadsStay, Untouched, SameSight, Alike, Visible

LEMMA StartingSight ==
  ASSUME TypeInv, NEW W, Starting(W), cached' = cached, laid' = laid, disturbed' = disturbed
  PROVE  /\ ReadsStay
         /\ \A v \in mounted : v \notin Listeners(W) /\ (v \in refined' <=> v \in refined)
                                 => SameSight(v)
<1>1. \A p \in Plans : Seen(channels[p], channels'[p], p \in W)
  BY DEF Starting
<1>2. ReadsStay
  <2>1. Declined \subseteq Plans
    BY DEF Declined
  <2> QED  BY <1>1, <2>1 DEF ReadsStay, Seen
<1>3. ASSUME NEW v \in mounted, v \notin Listeners(W), v \in refined' <=> v \in refined
      PROVE  SameSight(v)
  <2>1. PlanOf[v] \in Plans \ W
    <3>1. v \in Views
      BY DEF TypeInv, ViewsTyped
    <3>2. PlanOf[v] \in Plans
      BY <3>1, ViewTyped
    <3> QED  BY <1>3, <3>2 DEF Listeners
  <2>2. Seen(channels[PlanOf[v]], channels'[PlanOf[v]], PlanOf[v] \in W)
    BY <1>1, <2>1
  <2>3. channels[PlanOf[v]].refreshing \in BOOLEAN
    BY <2>1 DEF TypeInv, ChannelsTyped, Channel
  <2>4. Alike(channels[PlanOf[v]], channels'[PlanOf[v]])
    BY <2>1, <2>2, <2>3 DEF Seen, Alike
  <2> QED  BY <1>3, <2>4 DEF SameSight, Visible
<1> QED  BY <1>2, <1>3

\* The woken are waiting, and have a start queued.
LEMMA QueuesWake ==
  ASSUME TypeInv, NEW tasks \in Seq(Tasks), NEW woken \in SUBSET Views,
         Queues(tasks, waiting, woken)
  PROVE  /\ waiting' = waiting \cup woken /\ micro' \in Seq(Tasks)
         /\ \E ss \in Seq(LightTasks) : micro' = tasks \o ss
         /\ \A v \in waiting' : \/ v \in waiting
                                \/ \E i \in DOMAIN micro' :
                                     micro'[i].job = "start" /\ micro'[i].view = v
<1>1. PICK ss \in Seq(Starts) : micro' = tasks \o ss
  BY DEF Queues
<1>2. ss \in Seq(LightTasks)
  <2>1. Starts \subseteq LightTasks
    BY DEF LightTasks
  <2> QED  BY <2>1, SeqMonotonic
<1>3. \A v \in woken \ waiting :
        \E i \in DOMAIN micro' : micro'[i].job = "start" /\ micro'[i].view = v
  BY WokenStart
<1> QED  BY <1>1, <1>2, <1>3 DEF Queues

LEMMA ShownMount ==
  ASSUME TypeInv, RecomputeInv, NEW v \in Views, Mount(v)
  PROVE  RecomputeInv'
<1>1. PICK W : Starting(W) /\ Queues(Open, waiting, Listeners(W) \cup {v})
  BY MountDoes
<1>2. /\ Calling /\ mounted' = mounted \cup {v} /\ mounted \subseteq Views
      /\ UNCHANGED <<kids, refined, shown, cached, laid, disturbed>>
  BY DEF Mount, TypeInv, ViewsTyped
<1>3. Listeners(W) \cup {v} \subseteq Views /\ Open \in Seq(Tasks)
  BY ListenersAre, OpenTyped
<1>4. /\ waiting' = waiting \cup (Listeners(W) \cup {v}) /\ micro' \in Seq(Tasks)
      /\ \A w \in waiting' : \/ w \in waiting
                             \/ \E i \in DOMAIN micro' :
                                  micro'[i].job = "start" /\ micro'[i].view = w
  BY <1>1, <1>3, QueuesWake
<1>5. PICK ss \in Seq(LightTasks) : micro' = Open \o ss
  BY <1>1, <1>3, QueuesWake
<1>6. ReadsStay
  BY <1>1, <1>2, StartingSight
<1>7. ASSUME NEW w \in mounted', w \notin waiting' PROVE w \in mounted \ waiting /\ Untouched(w)
  <2>1. w \in mounted \ waiting /\ w \notin Listeners(W)
    BY <1>2, <1>4, <1>7
  <2>2. SameSight(w)
    BY <1>1, <1>2, <2>1, StartingSight
  <2> QED  BY <1>2, <2>1, <2>2 DEF Untouched
<1> QED  BY <1>2, <1>4, <1>5, <1>6, <1>7, CallStep

LEMMA ShownUnmount ==
  ASSUME TypeInv, RefInv, RecomputeInv, NEW v \in Views, Unmount(v)
  PROVE  RecomputeInv'
<1>1. Starting({}) /\ micro' = Open /\ UNCHANGED waiting
  BY UnmountDoes
<1>2. /\ Calling /\ mounted' = mounted \ {v} /\ mounted \subseteq Views
      /\ kids' = [kids EXCEPT ![v] = <<>>] /\ UNCHANGED <<refined, shown, cached, laid>>
      /\ disturbed' = disturbed
  BY DEF Unmount, TypeInv, ViewsTyped
<1>3. micro' \in Seq(Tasks) /\ micro' = Open \o <<>> /\ <<>> \in Seq(LightTasks)
  BY <1>1, OpenTyped, ConcatEmptySeq
<1>4. ReadsStay
  BY <1>1, <1>2, StartingSight
<1>5. ASSUME NEW w \in mounted', w \notin waiting' PROVE w \in mounted \ waiting /\ Untouched(w)
  <2>1. w \in mounted \ waiting /\ w \notin Listeners({}) /\ w # v
    BY <1>1, <1>2, <1>5 DEF Listeners
  <2>2. SameSight(w)
    BY <1>1, <1>2, <2>1, StartingSight
  <2>3. kids'[w] = kids[w]
    BY <1>2, <2>1 DEF RefInv
  <2> QED  BY <1>2, <2>1, <2>2, <2>3 DEF Untouched
<1> QED  BY <1>1, <1>2, <1>3, <1>4, <1>5, CallStep

LEMMA ShownRefine ==
  ASSUME TypeInv, RecomputeInv, NEW v \in Views, Refine(v)
  PROVE  RecomputeInv'
<1>1. /\ v \in mounted /\ refined' \in {refined, refined \cup {v}} /\ Queues(Open, waiting, {v})
      /\ UNCHANGED <<channels, mounted, kids, shown, cached, laid>>
  BY RefineDoes
<1>2. Calling /\ mounted \subseteq Views /\ disturbed' = disturbed
  BY DEF Refine, TypeInv, ViewsTyped
<1>3. Open \in Seq(Tasks)
  BY OpenTyped
<1>4. /\ waiting' = waiting \cup {v} /\ micro' \in Seq(Tasks)
      /\ \A w \in waiting' : \/ w \in waiting
                             \/ \E i \in DOMAIN micro' :
                                  micro'[i].job = "start" /\ micro'[i].view = w
  BY <1>1, <1>3, QueuesWake
<1>5. PICK ss \in Seq(LightTasks) : micro' = Open \o ss
  BY <1>1, <1>3, QueuesWake
<1>6. ReadsStay
  BY <1>1, <1>2 DEF ReadsStay
<1>7. ASSUME NEW w \in mounted', w \notin waiting' PROVE w \in mounted \ waiting /\ Untouched(w)
  BY <1>1, <1>4, <1>7 DEF Untouched, SameSight, Alike, Visible
<1> QED  BY <1>1, <1>2, <1>4, <1>5, <1>6, <1>7, CallStep

LEMMA ShownAsk ==
  ASSUME TypeInv, RecomputeInv, NEW Q \in Bundles, Ask(Q)
  PROVE  RecomputeInv'
<1>1. /\ Calling /\ micro' = Open \o SetToSeq(Read(Q)) /\ micro' \in Seq(Tasks)
      /\ UNCHANGED <<channels, views, cached, laid>>
  BY AskDoes
<1>2. SetToSeq(Read(Q)) \in Seq(LightTasks)
  <2>1. SetToSeq(Read(Q)) \in Seq(Looks)
    BY AskTyped DEF TypeInv
  <2>2. Looks \subseteq LightTasks
    BY DEF LightTasks
  <2> QED  BY <2>1, <2>2, SeqMonotonic
<1>3. mounted \subseteq Views /\ UNCHANGED <<mounted, kids, waiting, refined, shown, disturbed>>
  BY <1>1 DEF TypeInv, ViewsTyped, views, Ask
<1>4. ReadsStay /\ \A w : Untouched(w)
  BY <1>1, <1>3, UntouchedSame
<1> QED  BY <1>1, <1>2, <1>3, <1>4, CallStep

LEMMA ShownLeave ==
  ASSUME TypeInv, RecomputeInv, Leave
  PROVE  RecomputeInv'
<1>1. micro # <<>> /\ Task = Turn /\ micro' = Rest /\ UNCHANGED others
  BY LeaveDoes
<1>2. UNCHANGED <<channels, mounted, kids, waiting, refined, shown, cached, laid, disturbed>>
      /\ mounted \subseteq Views
  BY <1>1 DEF others, views, TypeInv, ViewsTyped
<1>3. ReadsStay /\ \A w : Untouched(w)
  BY <1>2, UntouchedSame
<1>4. Turn \in Tasks
  BY DEF Tasks, Turns
<1>5. Moves(0, 1) /\ micro' \in Seq(Tasks)
  BY <1>1, <1>4, PlainMoves
<1>6. Task.job = "app"
  BY <1>1 DEF Turn
<1>7. ~Pipe(Task) /\ WakesHold
  BY <1>2, <1>6 DEF Pipe, Pipeline, WakesHold
<1> QED  BY <1>2, <1>3, <1>5, <1>7, PlainStep

\* A one-shot query goes on.
QueryJobs == {"looked", "fallback", "relate"}
LEMMA QueryGoesOn ==
  ASSUME TypeInv, RecomputeInv, UNCHANGED <<channels, views, cached, laid, disturbed>>,
         micro # <<>>,
         Task.job \in QueryJobs \cup {"ended"}, NEW t \in Looks \cup Falls \cup Relates,
         \/ micro' = Now(t) /\ t \in Relates
         \/ micro' = Later(t) /\ t \notin Relates
         \/ micro' = Rest
  PROVE  RecomputeInv'
<1>1. UNCHANGED <<mounted, kids, waiting, refined, shown>> /\ mounted \subseteq Views
  BY DEF views, TypeInv, ViewsTyped
<1>2. ReadsStay /\ \A w : Untouched(w)
  BY <1>1, UntouchedSame
<1>3. t \in Tasks
  BY DEF Tasks
<1>4. ~Pipe(Task) /\ Task.job # "start"
  BY DEF Pipe, Pipeline, QueryJobs
<1>5. WakesHold
  BY <1>1, <1>4 DEF WakesHold
<1>6. t.job \in QueryJobs /\ (t.now <=> t \in Relates)
  <2>1. t \in Looks => t.job = "looked" /\ t.now = FALSE
    BY DEF Looks
  <2>2. t \in Falls => t.job = "fallback" /\ t.now = FALSE
    BY DEF Falls
  <2>3. t \in Relates => t.job = "relate" /\ t.now = TRUE
    BY DEF Relates
  <2> QED  BY <2>1, <2>2, <2>3 DEF QueryJobs
<1>7. ~Pipe(t) /\ ~Heavy(t) /\ t.job # "ended"
  BY <1>6 DEF Pipe, Pipeline, Heavy, QueryJobs
<1>8. \A v \in mounted' : v \in waiting' \/ (v \in mounted \ waiting /\ Untouched(v))
  BY <1>1, <1>2
<1>9. CASE micro' = Now(t) /\ t \in Relates
  <2>1. Moves(1, 0) /\ micro'[1] = t /\ micro' \in Seq(Tasks)
    BY <1>3, <1>9, PlainMoves
  <2>2. InOrder(1, 0, micro'[1])
    BY <1>6, <1>7, <1>9, <2>1 DEF InOrder
  <2> QED  BY <1>1, <1>2, <1>4, <1>5, <1>7, <1>8, <2>1, <2>2, PlainStep
<1>10. CASE micro' = Later(t) /\ t \notin Relates
  <2>1. Moves(Len(micro), 1) /\ micro'[Len(micro)] = t /\ micro' \in Seq(Tasks)
    BY <1>3, <1>10, PlainMoves
  <2>2. InOrder(Len(micro), 1, micro'[Len(micro)])
    BY <1>6, <1>7, <1>10, <2>1 DEF InOrder
  <2> QED  BY <1>1, <1>2, <1>4, <1>5, <1>7, <1>8, <2>1, <2>2, PlainStep
<1>11. CASE micro' = Rest
  <2>1. Moves(0, 1) /\ micro' \in Seq(Tasks)
    BY <1>3, <1>11, PlainMoves
  <2> QED  BY <1>1, <1>2, <1>4, <1>5, <1>8, <2>1, PlainStep
<1> QED  BY <1>9, <1>10, <1>11

LEMMA ShownLooked ==
  ASSUME TypeInv, RecomputeInv, Looked
  PROVE  RecomputeInv'
<1>1. /\ Runs("looked") /\ Task.query \in Queries
      /\ UNCHANGED <<channels, views, cached, laid, disturbed>>
      /\ micro' = Now(Relating(Task.query)) \/ micro' = Rest
  BY LookedDoes DEF Looked
<1>2. Relating(Task.query) \in Relates /\ micro # <<>> /\ Task.job \in QueryJobs
  BY <1>1, RelatingTyped DEF Runs, QueryJobs
<1> QED  BY <1>1, <1>2, QueryGoesOn

LEMMA ShownFallBack ==
  ASSUME TypeInv, RecomputeInv, FallBack
  PROVE  RecomputeInv'
<1>1. /\ Runs("fallback") /\ Task.query \in Queries
      /\ UNCHANGED <<channels, views, cached, laid, disturbed>>
      /\ micro' = Now(Relating(Task.query)) \/ micro' = Rest
  BY FallBackDoes DEF FallBack
<1>2. Relating(Task.query) \in Relates /\ micro # <<>> /\ Task.job \in QueryJobs
  BY <1>1, RelatingTyped DEF Runs, QueryJobs
<1> QED  BY <1>1, <1>2, QueryGoesOn

LEMMA ShownRelate ==
  ASSUME TypeInv, RecomputeInv, Relate
  PROVE  RecomputeInv'
<1>1. /\ Runs("relate") /\ Task \in Relates /\ Task.query \in Queries
      /\ UNCHANGED <<channels, views, cached, laid, disturbed>>
      /\ \/ micro' = Now(Task) \/ micro' = Rest
         \/ /\ NextWanted(Task.query) \in Plans
            /\ micro' = Later(Looking(Task.query, NextWanted(Task.query)))
  <2>1. disturbed' = disturbed
    BY DEF Relate
  <2> QED  BY <2>1, RelateDoes
<1>2. micro # <<>> /\ Task.job \in QueryJobs
  BY <1>1 DEF Runs, QueryJobs
<1>3. CASE micro' = Now(Task) \/ micro' = Rest
  BY <1>1, <1>2, <1>3, QueryGoesOn
<1>4. CASE /\ NextWanted(Task.query) \in Plans
           /\ micro' = Later(Looking(Task.query, NextWanted(Task.query)))
  <2>1. Looking(Task.query, NextWanted(Task.query)) \in Looks
    BY <1>1, <1>4, LookingTyped DEF TypeInv
  <2>2. Looking(Task.query, NextWanted(Task.query)) \notin Relates
    BY DEF Looking, Relates
  <2> QED  BY <1>1, <1>2, <1>4, <2>1, <2>2, QueryGoesOn
<1> QED  BY <1>1, <1>3, <1>4

LEMMA ShownEndQuery ==
  ASSUME TypeInv, RecomputeInv, EndQuery
  PROVE  RecomputeInv'
<1>1. /\ Runs("ended") /\ Task.call.by \in Queries
      /\ UNCHANGED <<channels, views, cached, laid, disturbed>>
      /\ \/ micro' = Now(Relating(Task.call.by)) \/ micro' = Rest
         \/ micro' = Later(FallOf(Task)) /\ FallOf(Task) \in Falls
  <2>1. disturbed' = disturbed
    BY DEF EndQuery
  <2> QED  BY <2>1, EndQueryDoes
<1>2. micro # <<>> /\ Task.job = "ended" /\ Relating(Task.call.by) \in Relates
  BY <1>1, RelatingTyped DEF Runs
<1>3. CASE micro' = Now(Relating(Task.call.by)) \/ micro' = Rest
  BY <1>1, <1>2, <1>3, QueryGoesOn
<1>4. CASE micro' = Later(FallOf(Task)) /\ FallOf(Task) \in Falls
  <2>1. FallOf(Task) \notin Relates
    BY DEF FallOf, Relates
  <2> QED  BY <1>1, <1>2, <1>4, <2>1, QueryGoesOn
<1> QED  BY <1>1, <1>3, <1>4

\* A live query reads of the resources that concern it.
LEMMA ConcernedRead ==
  ASSUME TypeInv, NEW v \in Views, NEW r, v \notin Concerned(r), NEW plan \in Plans,
         ReadBy(v, plan)
  PROVE  ResourceOf[plan] # r
<1>1. /\ ResourceOf[PlanOf[v]] # r
      /\ \A i \in DOMAIN Includes[v] : TargetOf[Includes[v][i]] # r
  BY DEF Concerned
<1>2. ASSUME NEW i \in 1..Full(v), NEW n \in Results, plan = KidPlan(v, i, n)
      PROVE  ResourceOf[plan] # r
  <2>1. Includes[v][i] \in Specs /\ PlanOf[v] \in Plans /\ i \in DOMAIN Includes[v]
    BY ViewTyped
  <2>2. plan # NoPlan
    BY DEF ReadBy
  <2>3. ResourceOf[plan] = TargetOf[Includes[v][i]]
    BY <1>2, <2>1, <2>2, KidIsWhole DEF KidPlan
  <2> QED  BY <1>1, <2>1, <2>3
<1> QED  BY <1>1, <1>2 DEF ReadBy

\* An answer is ingested: whoever reads its plan is woken.
LEMMA ShownAnswer ==
  ASSUME TypeInv, RecomputeInv, Answer
  PROVE  RecomputeInv'
<1> DEFINE p == Task.call.plan
<1>1. /\ Runs("answer") /\ Task \in Incoming /\ EndOf(Task) \in Endings
      /\ IF Keeps(Task)
         THEN /\ cached' = [cached EXCEPT ![p] = Task.answer.rows]
              /\ Queues(Later(EndOf(Task)), waiting, Subscribed(ResourceOf[p]))
         ELSE cached' = cached /\ Queues(Now(EndOf(Task)), waiting, {})
      /\ UNCHANGED <<channels, mounted, kids, refined, shown, laid, disturbed>>
  <2>1. disturbed' = disturbed
    BY DEF Answer
  <2> QED  BY <2>1, AnswerDoes
<1>2. /\ EndOf(Task).job = "ended" /\ (EndOf(Task).now <=> ~Keeps(Task)) /\ EndOf(Task) \in Tasks
      /\ (Keeps(EndOf(Task)) <=> Keeps(Task)) /\ p \in Plans
  BY <1>1, EndTyped DEF Tasks, Keeps
<1>3. micro # <<>> /\ Task.job = "answer" /\ micro \in Seq(Tasks) /\ mounted \subseteq Views
  BY <1>1 DEF Runs, TypeInv, ViewsTyped
<1>4. \A i \in DOMAIN micro : ~Pipe(micro[i])
  <2>1. Task = micro[1] /\ 1 \in DOMAIN micro
    BY <1>3, HeadIs, EmptySeq
  <2>2. Heavy(micro[1])
    BY <1>3, <2>1 DEF Heavy
  <2> QED  BY <2>1, <2>2 DEF RecomputeInv, QueueInv
<1>5. ~Pipe(Task) /\ ~Pipe(EndOf(Task))
  BY <1>2, <1>3 DEF Pipe, Pipeline
<1>6. Later(EndOf(Task)) \in Seq(Tasks) /\ Now(EndOf(Task)) \in Seq(Tasks)
  BY <1>2, <1>3, GoOnTyped
<1>7. Subscribed(ResourceOf[p]) \in SUBSET Views /\ {} \in SUBSET Views
  BY SubscribedAre
<1>8. CASE Keeps(Task)
  <2>1. Moves(Len(micro), 1) /\ micro'[Len(micro)] = EndOf(Task)
    BY <1>1, <1>2, <1>3, <1>8, QueuesMove
  <2>2. /\ waiting' = waiting \cup Subscribed(ResourceOf[p]) /\ micro' \in Seq(Tasks)
        /\ \A v \in waiting' : \/ v \in waiting
                               \/ \E i \in DOMAIN micro' :
                                    micro'[i].job = "start" /\ micro'[i].view = v
    BY <1>1, <1>6, <1>7, <1>8, QueuesWake
  <2>3. WakesHold
    BY <1>3, <2>2 DEF WakesHold
  <2>4. InOrder(Len(micro), 1, micro'[Len(micro)])
    BY <1>2, <1>5, <1>8, <2>1 DEF InOrder, Heavy
  <2>5. ASSUME NEW v \in mounted', v \notin waiting' PROVE v \in mounted \ waiting /\ Untouched(v)
    <3>1. v \in mounted \ waiting /\ v \notin Subscribed(ResourceOf[p]) /\ v \in Views
      BY <1>1, <1>3, <2>2, <2>5
    <3>2. v \notin Concerned(ResourceOf[p])
      BY <3>1 DEF Subscribed
    <3>3. ASSUME NEW plan \in Plans, ReadBy(v, plan) PROVE plan # p
      BY <3>1, <3>2, <3>3, ConcernedRead
    <3>4. \A plan \in Plans : ReadBy(v, plan) => Visible(plan)' = Visible(plan)
      BY <1>1, <1>8, <3>3 DEF TypeInv, CacheTyped, Visible
    <3>5. Untouched(v)
      BY <1>1, <3>4 DEF Untouched, SameSight, Alike
    <3> QED  BY <3>1, <3>5
  <2> QED  BY <1>1, <1>3, <1>4, <1>5, <2>1, <2>2, <2>3, <2>4, <2>5, PlainStep
<1>9. CASE ~Keeps(Task)
  <2>1. Moves(1, 0) /\ micro'[1] = EndOf(Task)
    BY <1>1, <1>2, <1>3, <1>9, QueuesMove
  <2>2. /\ waiting' = waiting /\ micro' \in Seq(Tasks)
    BY <1>1, <1>6, <1>7, <1>9, QueuesWake
  <2>3. WakesHold
    BY <1>3, <2>2 DEF WakesHold
  <2>4. InOrder(1, 0, micro'[1])
    BY <1>2, <1>3, <1>5, <1>9, <2>1 DEF InOrder
  <2>5. \A v : Untouched(v)
    BY <1>1, <1>9, UntouchedSame
  <2>6. \A v \in mounted' : v \in waiting' \/ (v \in mounted \ waiting /\ Untouched(v))
    BY <1>1, <2>2, <2>5
  <2> QED  BY <1>1, <1>3, <1>4, <1>5, <2>1, <2>2, <2>3, <2>4, <2>6, PlainStep
<1> QED  BY <1>8, <1>9

\* A refresh ends: the listeners of its channel are woken.
LEMMA ShownEndRefresh ==
  ASSUME TypeInv, RecomputeInv, EndRefresh
  PROVE  RecomputeInv'
<1> DEFINE p == Task.call.plan
           woken == IF Alive(Task) THEN Listeners({p}) ELSE {}
<1>1. /\ Runs("ended") /\ Task \in Endings /\ p \in Plans
      /\ channels' = IF Alive(Task) THEN [channels EXCEPT ![p] = Refreshed(@, Task.answer)]
                     ELSE channels
      /\ Queues(Rest, waiting, woken)
      /\ UNCHANGED <<mounted, kids, refined, shown, cached, laid, disturbed>>
  <2>1. disturbed' = disturbed
    BY DEF EndRefresh
  <2> QED  BY <2>1, EndRefreshDoes
<1>2. micro # <<>> /\ Task.job = "ended" /\ micro \in Seq(Tasks) /\ mounted \subseteq Views
  BY <1>1 DEF Runs, TypeInv, ViewsTyped
<1>3. woken \in SUBSET Views /\ Rest \in Seq(Tasks) /\ Turn \in Tasks
  BY <1>2, ListenersAre, HeadIs DEF Tasks, Turns
<1>4. /\ waiting' = waiting \cup woken /\ micro' \in Seq(Tasks)
      /\ \A v \in waiting' : \/ v \in waiting
                             \/ \E i \in DOMAIN micro' :
                                  micro'[i].job = "start" /\ micro'[i].view = v
  BY <1>1, <1>3, QueuesWake
<1>5. Moves(0, 1)
  BY <1>1, <1>2, <1>3, QueuesMove
<1>6. ~Pipe(Task) /\ WakesHold
  BY <1>2, <1>4 DEF Pipe, Pipeline, WakesHold
<1>7. \A r \in Plans : r # p => channels'[r] = channels[r]
  BY <1>1 DEF TypeInv, ChannelsTyped
<1>8. ReadsStay \/ \A i \in DOMAIN micro : ~Pipe(micro[i])
  <2>1. Task = micro[1] /\ 1 \in DOMAIN micro
    BY <1>2, HeadIs, EmptySeq
  <2>2. CASE Task.now
    BY <1>2, <2>1, <2>2 DEF RecomputeInv, QueueInv, Heavy
  <2>3. CASE ~Task.now
    <3>1. p \notin Declined
      BY <1>2, <2>1, <2>3 DEF RecomputeInv, QueueInv, Keeps
    <3>2. Declined \subseteq Plans
      BY DEF Declined
    <3> QED  BY <1>1, <1>7, <3>1, <3>2 DEF ReadsStay
  <2> QED  BY <2>2, <2>3
<1>9. ASSUME NEW v \in mounted', v \notin waiting' PROVE v \in mounted \ waiting /\ Untouched(v)
  <2>1. v \in mounted \ waiting /\ v \notin woken /\ v \in Views /\ PlanOf[v] \in Plans
    BY <1>1, <1>2, <1>4, <1>9, ViewTyped
  <2>2. channels'[PlanOf[v]] = channels[PlanOf[v]]
    <3>1. CASE Alive(Task)
      BY <1>7, <2>1, <3>1 DEF Listeners
    <3>2. CASE ~Alive(Task)
      BY <1>1, <3>2
    <3> QED  BY <3>1, <3>2
  <2> QED  BY <1>1, <2>1, <2>2 DEF Untouched, SameSight, Alike, Visible
<1> QED  BY <1>1, <1>2, <1>4, <1>5, <1>6, <1>8, <1>9, PlainStep

\* While no microtask is queued, and none is.
LEMMA ShownRest ==
  ASSUME TypeInv, RecomputeInv, Quiet,
         UNCHANGED <<micro, mounted, kids, waiting, refined, shown, cached, laid, disturbed>>,
         \A v \in mounted : channels'[PlanOf[v]] = channels[PlanOf[v]]
  PROVE  RecomputeInv'
<1>1. DOMAIN micro' = {} /\ micro' \in Seq(Tasks) /\ waiting = {} /\ mounted \subseteq Views
  BY DEF Quiet, RecomputeInv, QueueInv, TypeInv, ViewsTyped
<1>2. \A v \in mounted' : v \in mounted /\ Untouched(v)
  BY DEF Untouched, SameSight, Alike, Visible
<1> QED  BY <1>1, <1>2, QuietStep

LEMMA ShownRetire ==
  ASSUME TypeInv, RefInv, RecomputeInv, NEW p \in Plans, Retire(p)
  PROVE  RecomputeInv'
<1>1. /\ Quiet /\ channels[p].refs <= 0 /\ channels' = [channels EXCEPT ![p] = NoChannel]
      /\ UNCHANGED <<views, cached, laid, disturbed, micro>>
  BY RetireDoes DEF Retire
<1>2. ASSUME NEW v \in mounted PROVE channels'[PlanOf[v]] = channels[PlanOf[v]]
  <2>1. PlanOf[v] \in Plans
    BY ViewTyped DEF TypeInv, ViewsTyped
  <2>2. CASE PlanOf[v] = p
    <3>1. <<v>> \in Users(p)
      BY <2>2 DEF Users
    <3>2. IsFiniteSet(Users(p)) /\ channels[p].refs = Cardinality(Users(p))
      BY DEF RefInv, Counts
    <3>3. Cardinality(Users(p)) \in Nat /\ Cardinality(Users(p)) # 0
      BY <3>1, <3>2, FS_CardinalityType, FS_EmptySet
    <3> QED  BY <1>1, <3>2, <3>3
  <2>3. CASE PlanOf[v] # p
    BY <1>1, <2>1, <2>3 DEF TypeInv, ChannelsTyped
  <2> QED  BY <2>2, <2>3
<1> QED  BY <1>1, <1>2, ShownRest DEF views

LEMMA ShownArrives ==
  ASSUME TypeInv, RecomputeInv, NEW i \in DOMAIN net, Respond(i) \/ Drop(i)
  PROVE  RecomputeInv'
<1>1. /\ Quiet /\ micro' \in Seq(Incoming)
      /\ UNCHANGED <<channels, views, cached, laid, disturbed>>
  <2>1. disturbed' = disturbed
    BY DEF Respond, Drop
  <2> QED  BY <2>1, ArrivesDoes
<1>2. UNCHANGED <<mounted, kids, waiting, refined, shown>> /\ mounted \subseteq Views
  BY <1>1 DEF views, TypeInv, ViewsTyped
<1>3. micro' \in Seq(Tasks)
  <2>1. Incoming \subseteq Tasks
    BY DEF Tasks
  <2> QED  BY <1>1, <2>1, SeqMonotonic
<1>4. \A k \in DOMAIN micro' : micro'[k] \in Incoming
  BY <1>1, ElementOfSeq
<1>5. \A k \in DOMAIN micro' : /\ micro'[k].job = "answer" /\ ~micro'[k].now
                               /\ ~Pipe(micro'[k]) /\ micro'[k].job # "ended"
  BY <1>4 DEF Incoming, Pipe, Pipeline
<1>6. waiting' = {}
  BY <1>1, <1>2 DEF Quiet, RecomputeInv, QueueInv
<1>7. \A v : Untouched(v)
  BY <1>1, <1>2, UntouchedSame
<1> QED  BY <1>1, <1>2, <1>3, <1>5, <1>6, <1>7, QuietStep

LEMMA ShownHear ==
  ASSUME TypeInv, events[Me] \in Seq(made), RecomputeInv, Hear
  PROVE  RecomputeInv'
<1>1. PICK W : Starting(W) /\ Queues(<<>>, waiting, Listeners(W))
  BY HearDoes
<1>2. Quiet /\ mounted \subseteq Views
      /\ UNCHANGED <<mounted, kids, refined, shown, cached, laid, disturbed>>
  BY DEF Hear, TypeInv, ViewsTyped
<1>3. <<>> \in Seq(Tasks) /\ Listeners(W) \in SUBSET Views
  BY ListenersAre
<1>4. /\ waiting' = waiting \cup Listeners(W) /\ micro' \in Seq(Tasks)
      /\ \A v \in waiting' : \/ v \in waiting
                             \/ \E i \in DOMAIN micro' :
                                  micro'[i].job = "start" /\ micro'[i].view = v
  BY <1>1, <1>3, QueuesWake
<1>5. PICK ss \in Seq(LightTasks) : micro' = <<>> \o ss
  BY <1>1, <1>3, QueuesWake
<1>6. micro' = ss
  BY <1>5, ConcatEmptySeq
<1>7. \A i \in DOMAIN micro' : micro'[i] \in LightTasks
  BY <1>6, ElementOfSeq
<1>8. \A i \in DOMAIN micro' : /\ ~micro'[i].now /\ ~Pipe(micro'[i])
                               /\ micro'[i].job # "ended" /\ micro'[i].job # "answer"
  BY <1>7, LightIs DEF Pipe, Pipeline
<1>9. waiting = {}
  BY <1>2 DEF Quiet, RecomputeInv, QueueInv
<1>10. ASSUME NEW v \in mounted', v \notin waiting' PROVE v \in mounted /\ Untouched(v)
  <2>1. v \in mounted /\ v \notin Listeners(W)
    BY <1>2, <1>4, <1>10
  <2>2. SameSight(v)
    BY <1>1, <1>2, <2>1, StartingSight
  <2> QED  BY <1>2, <2>1, <2>2 DEF Untouched
<1> QED  BY <1>2, <1>4, <1>8, <1>9, <1>10, QuietStep

----------------------------------------------------------------------------
(* A recompute goes on.                                                    *)

LEMMA PipeStep ==
  ASSUME TypeInv, RecomputeInv, micro' \in Seq(Tasks), mounted' = mounted,
         NEW h, NEW d, Moves(h, d), ReadsStay, WakesHold,
         disturbed \subseteq disturbed' \cup {Task.view},
         h # 0 => /\ InOrder(h, d, micro'[h])
                  /\ Pipe(micro'[h]) => micro'[h].view = Task.view,
         \A t \in Tasks : h # 0 /\ micro'[h] = t /\ Pipe(t) => TaskInv(t)',
         Pipe(Task) \/ Task.job = "start",
         \A v \in mounted \ {Task.view} : v \in waiting' \/ (v \notin waiting /\ Untouched(v)),
         \A v \in mounted \ waiting' : v = Task.view /\ v \notin disturbed' => ViewInv(v)'
  PROVE  RecomputeInv'
<1>1. QueueInv'
  BY QueueMoves DEF RecomputeInv
<1>2. TasksInv'
  BY TasksMove DEF RecomputeInv
<1>3. ASSUME NEW v \in mounted \ disturbed' PROVE ViewInv(v)'
  <2>1. CASE v \in waiting'
    BY <2>1 DEF ViewInv
  <2>2. CASE v = Task.view /\ v \notin waiting'
    BY <2>2
  <2>3. CASE v # Task.view /\ v \notin waiting'
    <3>1. ~PipeOf(Task, v) /\ (h # 0 => ~PipeOf(micro'[h], v))
      BY <2>3 DEF PipeOf
    <3>2. ViewInv(v) /\ v \in Views
      BY <1>3, <2>3 DEF RecomputeInv, ShownInv, TypeInv, ViewsTyped
    <3>3. Untouched(v) /\ v \notin waiting
      BY <1>3, <2>3
    <3> QED  BY <3>1, <3>2, <3>3, ViewMoves
  <2> QED  BY <2>1, <2>2, <2>3
<1>4. ShownInv'
  BY <1>3 DEF ShownInv
<1> QED  BY <1>1, <1>2, <1>4 DEF RecomputeInv

\* What is behind the head waits for the cache.
LEMMA BehindHead ==
  ASSUME TypeInv, RecomputeInv, NEW k \in DOMAIN micro, k > 1, NEW v, PipeOf(micro[k], v)
  PROVE  /\ micro[k] \in Tasks /\ micro[k].now = FALSE /\ TaskInv(micro[k])
         /\ micro[k].view = v /\ v \in Views /\ Stage(micro[k]) \in Nat /\ Full(v) \in Nat
         /\ micro[k].job \in Pipeline
<1>1. micro[k] \in Tasks
  BY ElementOfSeq DEF TypeInv
<1>2. micro[k].now = FALSE
  <2>1. micro[k].now \in BOOLEAN
    BY <1>1, TaskIs
  <2>2. ~micro[k].now
    BY DEF RecomputeInv, QueueInv
  <2> QED  BY <2>1, <2>2
<1>3. TaskInv(micro[k])
  BY <1>1 DEF RecomputeInv, TasksInv, Queued, PipeOf
<1>4. micro[k].view = v /\ micro[k].job \in Pipeline /\ Pipe(micro[k])
  BY DEF PipeOf, Pipe
<1>5. v \in Views /\ Stage(micro[k]) \in Nat /\ Full(v) \in Nat
  BY <1>1, <1>4, PipeIs
<1> QED  BY <1>1, <1>2, <1>3, <1>4, <1>5

\* A live query whose recompute is at the head has a newest one.
LEMMA HeadOfNewest ==
  ASSUME TypeInv, RecomputeInv, micro # <<>>, NEW v \in mounted \ (waiting \cup disturbed),
         PipeOf(Task, v)
  PROVE  /\ Task = micro[1] /\ Task \in Tasks /\ v \in Views /\ 1 \in DOMAIN micro
         /\ \E n \in DOMAIN micro :
              /\ micro[n] \in Tasks /\ PipeOf(micro[n], v) /\ Exact(micro[n])
              /\ FollowsTo(v, Made(micro[n])) /\ Ahead(micro, n, v, Stage(micro[n]))
<1>1. Task = micro[1] /\ Task \in Tasks /\ v \in Views /\ 1 \in DOMAIN micro
  BY HeadIs, EmptySeq DEF TypeInv, ViewsTyped
<1>2. ~Settled(v)
  BY <1>1 DEF Settled, NoPipe
<1>3. Coming(v)
  BY <1>2 DEF RecomputeInv, ShownInv, ViewInv
<1>4. PICK t \in Tasks : PipeOf(t, v) /\ Newest(v, t) /\ Exact(t) /\ FollowsTo(v, Made(t))
  BY <1>3 DEF Coming
<1>5. PICK n \in DOMAIN micro : micro[n] = t /\ Ahead(micro, n, v, Stage(t))
  BY <1>4 DEF Newest
<1> QED  BY <1>1, <1>4, <1>5

LEMMA ShownStart ==
  ASSUME TypeInv, RecomputeInv, Start
  PROVE  RecomputeInv'
<1>1. /\ Runs("start") /\ Task \in Starts /\ BaseOf(Task.view) \in Bases
      /\ waiting' = waiting \ {Task.view}
      /\ micro' = IF PlanOf[Task.view] \in Declined THEN Now(BaseOf(Task.view))
                  ELSE Later(BaseOf(Task.view))
  BY StartDoes
<1>2. UNCHANGED <<channels, mounted, kids, refined, shown, cached, laid>>
  BY DEF Start
<1>3. PICK w \in Views : w = Task.view
  BY <1>1 DEF Starts
<1>4. PICK t \in Bases : t = BaseOf(w)
  BY <1>1, <1>3
<1>5. /\ t \in Tasks /\ Pipe(t) /\ t.view = w /\ t.job = "base" /\ Stage(t) = 0
      /\ (t.now <=> PlanOf[w] \in Declined) /\ Made(t) = 0
  BY <1>4, BaseTyped DEF Tasks, Pipe, Pipeline, BaseOf, Stage, Made, Bases
<1>6. /\ PlanOf[w] \in Declined => t.read = NoRead
      /\ PlanOf[w] \notin Declined => t.read = Reads(PlanOf[w])'
  BY <1>2, <1>4 DEF BaseOf, Reads, Visible
<1>7. micro # <<>> /\ Task.job = "start" /\ mounted \subseteq Views
  BY <1>1 DEF Runs, TypeInv, ViewsTyped
<1>8. ReadsStay /\ (\A v : Untouched(v)) /\ disturbed \subseteq disturbed' \cup {Task.view}
  <2>1. disturbed' = disturbed \ {v \in {w} : \A i \in DOMAIN Rest : ~RecomputeOf(Rest[i], v)}
    BY <1>3 DEF Start
  <2>2. ASSUME NEW k \in DOMAIN micro, k > 1, Pipe(micro[k]), micro[k].view \in disturbed
        PROVE  micro[k].view \in disturbed'
    <3>1. micro \in Seq(Tasks) /\ Len(Rest) = Len(micro) - 1
          /\ \A j \in 2..Len(micro) : Rest[j - 1] = micro[j]
      BY <1>7 DEF TypeInv, Rest
    <3>2. k \in 2..Len(micro) /\ DOMAIN Rest = 1..Len(Rest)
      BY <2>2, <1>7, <3>1 DEF Rest
    <3>3. k - 1 \in DOMAIN Rest /\ Rest[k - 1] = micro[k]
      BY <3>1, <3>2
    <3>4. RecomputeOf(micro[k], micro[k].view)
      BY <2>2 DEF RecomputeOf, Recomputes, Pipe, Pipeline
    <3> QED  BY <2>1, <2>2, <3>3, <3>4
  <2>3. \A v : Untouched(v)
    BY <1>2, UntouchedSame
  <2> QED  BY <1>2, <1>3, <2>1, <2>2, <2>3 DEF ReadsStay
<1>9. TaskInv(t)'
  BY <1>5, <1>6 DEF TaskInv, BaseKnows
<1>10. WakesHold
  BY <1>1 DEF WakesHold
<1>11. PICK h, d : /\ Moves(h, d) /\ h # 0 /\ micro'[h] = t /\ micro' \in Seq(Tasks)
                   /\ (d = 0 <=> PlanOf[w] \in Declined)
  <2>1. CASE PlanOf[w] \in Declined
    <3>1. Moves(1, 0) /\ micro'[1] = t /\ micro' \in Seq(Tasks)
      BY <1>1, <1>3, <1>4, <1>5, <1>7, <2>1, PlainMoves
    <3> QED  BY <2>1, <3>1
  <2>2. CASE PlanOf[w] \notin Declined
    <3>1. Moves(Len(micro), 1) /\ micro'[Len(micro)] = t /\ micro' \in Seq(Tasks)
      BY <1>1, <1>3, <1>4, <1>5, <1>7, <2>2, PlainMoves
    <3>2. Len(micro) # 0
      BY <1>7, EmptySeq DEF TypeInv
    <3> QED  BY <2>2, <3>1, <3>2
  <2> QED  BY <2>1, <2>2
<1>12. d \in {0, 1}
  BY <1>11 DEF Moves
<1>13. InOrder(h, d, t)
  BY <1>5, <1>7, <1>11, <1>12 DEF InOrder, Heavy
<1>14. ASSUME w \in mounted PROVE ViewInv(w)'
  <2>1. ASSUME NEW k \in DOMAIN micro, k > 1, PipeOf(micro[k], w)
        PROVE  IF d = 0 THEN Stage(micro[k]) > Stage(t) ELSE Stage(micro[k]) >= Stage(t)
    <3>1. /\ micro[k].now = FALSE /\ TaskInv(micro[k]) /\ micro[k].view = w
          /\ Stage(micro[k]) \in Nat /\ Full(w) \in Nat /\ micro[k] \in Tasks
          /\ micro[k].job \in Pipeline
      BY <2>1, BehindHead
    <3>2. CASE d = 0
      <4>1. micro[k].job # "base"
        BY <1>11, <3>1, <3>2 DEF TaskInv, BaseKnows
      <4>2. micro[k].job = "include" => Len(micro[k].kids) \in Nat
        BY <3>1, TaskIs DEF Joinings
      <4>3. Stage(micro[k]) > 0
        BY <3>1, <4>1, <4>2 DEF Stage, Pipeline
      <4> QED  BY <1>5, <3>2, <4>3
    <3> QED  BY <1>5, <1>12, <3>1, <3>2
  <2>2. PipeOf(t, w)
    BY <1>5 DEF PipeOf
  <2>3. Exact(t)'
    BY <1>5, <1>6 DEF Exact
  <2>4. FollowsTo(w, Made(t))'
    BY <1>5 DEF FollowsTo
  <2> QED  BY <1>5, <1>11, <2>1, <2>2, <2>3, <2>4, NewestMoves
<1>15. \A v \in mounted \ {Task.view} : v \in waiting' \/ (v \notin waiting /\ Untouched(v))
  BY <1>1, <1>8
<1>16. \A u \in Tasks : h # 0 /\ micro'[h] = u /\ Pipe(u) => TaskInv(u)'
  BY <1>9, <1>11
<1> QED  BY <1>2, <1>3, <1>5, <1>7, <1>8, <1>10, <1>11, <1>13, <1>14, <1>15, <1>16, PipeStep

LEMMA ShownBase ==
  ASSUME TypeInv, RecomputeInv, Base
  PROVE  RecomputeInv'
<1>1. Runs("base") /\ Task \in Bases /\ micro' = Now(IncludeOf(Task)) /\ UNCHANGED others
  BY BaseDoes
<1>2. /\ UNCHANGED <<channels, mounted, kids, waiting, refined, shown, cached, laid, disturbed>>
      /\ micro # <<>> /\ micro \in Seq(Tasks) /\ mounted \subseteq Views
  BY <1>1 DEF others, views, Runs, TypeInv, ViewsTyped
<1>3. PICK w \in Views : w = Task.view
  BY <1>1 DEF Bases
<1>4. PICK t \in Joinings : t = IncludeOf(Task)
  BY BaseDoes
<1>5. /\ t \in Tasks /\ Pipe(t) /\ t.view = w /\ t.job = "include" /\ t.kids = <<>>
      /\ t.now = TRUE /\ t.held = HeldBy(w) /\ t.coverage = Task.read.coverage
      /\ t.rows = IF Task.read.coverage # "none" THEN Task.read.rows ELSE HeldBy(w).last
  BY <1>3, <1>4 DEF Tasks, Pipe, Pipeline, IncludeOf
<1>6. /\ Task = micro[1] /\ Task \in Tasks /\ Task.job = "base" /\ 1 \in DOMAIN micro
      /\ Pipe(Task) /\ Stage(Task) = 0 /\ Stage(t) = 1 /\ Full(w) \in Nat
  <2>1. Full(w) \in Nat
    BY ViewTyped
  <2>2. Len(<<>>) = 0
    OBVIOUS
  <2> QED  BY <1>1, <1>2, <1>5, <2>1, <2>2, HeadIs, EmptySeq DEF Runs, Pipe, Pipeline, Stage
<1>7. BaseKnows(Task)
  BY <1>6 DEF RecomputeInv, TasksInv, Queued, TaskInv
<1>8. IF PlanOf[w] \in Declined THEN t.coverage = "none" /\ t.rows = HeldBy(w).last
      ELSE Task.read = Reads(PlanOf[w]) => t.coverage = Cover(w) /\ t.rows = Rows(w)
  <2>1. CASE PlanOf[w] \in Declined
    BY <1>3, <1>5, <1>7, <2>1 DEF BaseKnows, NoRead
  <2>2. ASSUME PlanOf[w] \notin Declined, Task.read = Reads(PlanOf[w])
        PROVE  t.coverage = Cover(w) /\ t.rows = Rows(w)
    <3>1. Task.read.rows = Rows(w) /\ Task.read.coverage = Cover(w) /\ Cover(w) # "none"
      BY <2>2 DEF Reads, Rows, Cover, Known
    <3> QED  BY <1>5, <3>1
  <2> QED  BY <2>1, <2>2
<1>9. w \in mounted /\ (PlanOf[w] \in Declined \/ Task.read = Reads(PlanOf[w])) => ExactJoin(t)
  <2>1. ASSUME w \in mounted, PlanOf[w] \in Declined \/ Task.read = Reads(PlanOf[w])
        PROVE  t.held = channels[PlanOf[w]] /\ t.coverage = Cover(w) /\ t.rows = Rows(w)
    BY <1>5, <1>8, <2>1 DEF HeldBy, Cover, Rows
  <2> QED  BY <1>5, <1>6, <2>1 DEF ExactJoin, Alike
<1>10. TaskInv(t)
  <2>1. ASSUME Firm(w) PROVE t.rows = Rows(w) \/ (PlanOf[w] \in Declined /\ t.rows = Unknown)
    <3>1. CASE PlanOf[w] \in Declined /\ w \in mounted
      BY <1>5, <1>9, <3>1 DEF ExactJoin
    <3>2. CASE PlanOf[w] \in Declined /\ w \notin mounted
      BY <1>8, <3>2 DEF HeldBy, NoChannel
    <3>3. CASE PlanOf[w] \notin Declined
      <4>1. Task.read = Reads(PlanOf[w])
        BY <1>3, <1>7, <2>1, <3>3 DEF BaseKnows
      <4> QED  BY <1>8, <3>3, <4>1
    <3> QED  BY <3>1, <3>2, <3>3
  <2> QED  BY <1>5, <1>6, <2>1 DEF TaskInv, IncludeKnows
<1>11. ReadsStay /\ \A v : Untouched(v)
  BY <1>2, UntouchedSame
<1>12. TaskInv(t)'
  BY <1>2, <1>5, <1>10, TaskStays
<1>13. Moves(1, 0) /\ micro'[1] = t /\ micro' \in Seq(Tasks)
  BY <1>1, <1>2, <1>4, <1>5, PlainMoves
<1>14. InOrder(1, 0, t) /\ WakesHold
  BY <1>2, <1>5, <1>6 DEF InOrder, Heavy, WakesHold
<1>15. ASSUME w \in mounted \ (waiting \cup disturbed) PROVE ViewInv(w)'
  <2>1. PipeOf(Task, w) /\ PipeOf(t, w) /\ SameSight(w) /\ kids'[w] = kids[w]
    BY <1>3, <1>5, <1>6, <1>11 DEF PipeOf, Untouched
  <2>2. PICK n \in DOMAIN micro :
              /\ micro[n] \in Tasks /\ PipeOf(micro[n], w) /\ Exact(micro[n])
              /\ FollowsTo(w, Made(micro[n])) /\ Ahead(micro, n, w, Stage(micro[n]))
    BY <1>2, <1>15, <2>1, HeadOfNewest
  <2>3. Rows(w)' = Rows(w) /\ \A u \in Tasks : PipeOf(u, w) /\ Exact(u) => Exact(u)'
    BY <2>1, SightKeeps
  <2>4. PICK u \in Tasks : u = micro[n]
    BY <2>2
  <2>5. CASE n > 1
    <3>1. FollowsTo(w, Made(u))'
      BY <2>1, <2>2, <2>3, <2>4, FollowsKept
    <3> QED  BY <1>6, <1>13, <2>1, <2>2, <2>4, <2>5, <3>1, OlderMoves
  <2>6. CASE n = 1
    <3>1. Exact(t)
      <4>1. Exact(Task)
        BY <1>6, <2>2, <2>6
      <4>2. PlanOf[w] \in Declined \/ Task.read = Reads(PlanOf[w])
        BY <1>3, <1>6, <4>1 DEF Exact
      <4> QED  BY <1>5, <1>9, <1>15, <4>2 DEF Exact
    <3>2. Made(t) = 0
      BY <1>5 DEF Made
    <3>3. FollowsTo(w, Made(t))'
      BY <3>2 DEF FollowsTo
    <3>4. ASSUME NEW k \in DOMAIN micro, k > 1, PipeOf(micro[k], w)
          PROVE  Stage(micro[k]) > Stage(t)
      <4>1. /\ micro[k].now = FALSE /\ TaskInv(micro[k]) /\ micro[k].view = w
            /\ Stage(micro[k]) \in Nat /\ micro[k] \in Tasks
            /\ micro[k].job \in Pipeline
        BY <3>4, BehindHead
      <4>2. Stage(micro[k]) > 0
        <5>1. k # n /\ ~(k < n)
          <6>1. k \in Nat
            BY <1>2
          <6> QED  BY <2>6, <3>4, <6>1
        <5>2. Stage(micro[n]) = 0
          <6>1. micro[n] = Task
            BY <1>6, <2>6
          <6> QED  BY <1>6, <6>1
        <5> QED  BY <2>2, <3>4, <5>1, <5>2 DEF Ahead
      <4>3. micro[k].job # "base"
        BY <4>1, <4>2 DEF Stage
      <4>4. micro[k].job = "include" => Len(micro[k].kids) \in Nat /\ Len(micro[k].kids) > 0
        BY <4>1, TaskIs DEF Joinings, TaskInv, IncludeKnows
      <4>5. CASE micro[k].job = "include"
        <5>1. Stage(micro[k]) = Len(micro[k].kids) + 1
          BY <4>5 DEF Stage
        <5> QED  BY <1>6, <4>4, <4>5, <5>1
      <4>6. CASE micro[k].job \in {"derive", "show"}
        <5>1. Stage(micro[k]) \in {Full(w) + 2, Full(w) + 3}
          BY <4>1, <4>6 DEF Stage
        <5> QED  BY <1>6, <5>1
      <4>7. micro[k].job \in {"include", "derive", "show"}
        BY <4>1, <4>3 DEF Pipeline
      <4> QED  BY <4>5, <4>6, <4>7
    <3>5. Exact(t)'
      BY <1>5, <2>1, <2>3, <3>1
    <3> QED  BY <1>2, <1>5, <1>13, <2>1, <3>3, <3>4, <3>5, NewestMoves
  <2> QED  BY <1>2, <2>5, <2>6
<1>16. \A v \in mounted \ {Task.view} : v \in waiting' \/ (v \notin waiting /\ Untouched(v))
  BY <1>2, <1>11
<1>17. \A u \in Tasks : micro'[1] = u /\ Pipe(u) => TaskInv(u)'
  BY <1>12, <1>13
<1> QED  BY <1>2, <1>3, <1>5, <1>6, <1>11, <1>13, <1>14, <1>15, <1>16, <1>17, PipeStep

\* A recompute goes on to its next stage, and changes nothing but itself.
LEMMA Onward ==
  ASSUME TypeInv, RecomputeInv, micro # <<>>, Pipe(Task), UNCHANGED others,
         NEW t \in Tasks, Pipe(t), t.view = Task.view, TaskInv(t), t.job # "base",
         (micro' = Now(t) /\ t.now) \/ (micro' = Later(t) /\ ~t.now),
         Stage(t) > Stage(Task),
         FollowsTo(t.view, Made(Task)) => FollowsTo(t.view, Made(t)),
         t.view \in mounted /\ Exact(Task) => Exact(t),
         \A k \in DOMAIN micro :
           k > 1 /\ PipeOf(micro[k], t.view) /\ Stage(micro[k]) > Stage(Task) =>
             IF t.now THEN Stage(micro[k]) > Stage(t) ELSE Stage(micro[k]) >= Stage(t)
  PROVE  RecomputeInv'
<1>1. /\ UNCHANGED <<channels, mounted, kids, waiting, refined, shown, cached, laid, disturbed>>
      /\ micro \in Seq(Tasks) /\ mounted \subseteq Views
  BY DEF others, views, TypeInv, ViewsTyped
<1>2. PICK w : w = Task.view
  OBVIOUS
<1>3. Task = micro[1] /\ Task \in Tasks /\ 1 \in DOMAIN micro
  BY <1>1, HeadIs, EmptySeq
<1>4. w \in Views /\ Stage(Task) \in Nat /\ Stage(t) \in Nat
  BY <1>2, <1>3, PipeIs
<1>5. ReadsStay /\ \A v : Untouched(v)
  BY <1>1, UntouchedSame
<1>6. TaskInv(t)'
  BY <1>1, TaskStays
<1>7. PICK h, d : /\ Moves(h, d) /\ h # 0 /\ micro'[h] = t /\ micro' \in Seq(Tasks)
                  /\ (d = 0 <=> t.now) /\ d \in {0, 1}
  <2>1. CASE micro' = Now(t) /\ t.now
    <3>1. Moves(1, 0) /\ micro'[1] = t /\ micro' \in Seq(Tasks)
      BY <2>1, PlainMoves
    <3> QED  BY <2>1, <3>1
  <2>2. CASE micro' = Later(t) /\ ~t.now
    <3>1. Moves(Len(micro), 1) /\ micro'[Len(micro)] = t /\ micro' \in Seq(Tasks)
      BY <2>2, PlainMoves
    <3>2. Len(micro) # 0
      BY <1>1, EmptySeq
    <3> QED  BY <2>2, <3>1, <3>2
  <2> QED  BY <2>1, <2>2
<1>8. InOrder(h, d, t) /\ WakesHold
  <2>1. ~Heavy(t) /\ t.job # "ended"
    BY DEF Heavy, Pipe, Pipeline
  <2>2. Task.job # "start"
    BY DEF Pipe, Pipeline
  <2> QED  BY <1>1, <1>7, <2>1, <2>2 DEF InOrder, WakesHold
<1>9. ASSUME w \in mounted \ (waiting \cup disturbed) PROVE ViewInv(w)'
  <2>1. PipeOf(Task, w) /\ PipeOf(t, w) /\ SameSight(w) /\ kids'[w] = kids[w]
    BY <1>2, <1>5 DEF PipeOf, Untouched
  <2>2. PICK n \in DOMAIN micro :
              /\ micro[n] \in Tasks /\ PipeOf(micro[n], w) /\ Exact(micro[n])
              /\ FollowsTo(w, Made(micro[n])) /\ Ahead(micro, n, w, Stage(micro[n]))
    BY <1>9, <2>1, HeadOfNewest
  <2>3. Rows(w)' = Rows(w) /\ \A u \in Tasks : PipeOf(u, w) /\ Exact(u) => Exact(u)'
    BY <1>4, <2>1, SightKeeps
  <2>4. PICK u \in Tasks : u = micro[n]
    BY <2>2
  <2>5. n \in Nat
    BY <1>1
  <2>6. CASE n # 1
    <3>1. FollowsTo(w, Made(u))'
      BY <1>4, <2>1, <2>2, <2>3, <2>4, FollowsKept
    <3>2. n > 1
      BY <1>1, <2>6
    <3> QED  BY <1>4, <1>7, <2>1, <2>2, <2>4, <3>1, <3>2, OlderMoves
  <2>7. CASE n = 1
    <3>1. Exact(t) /\ FollowsTo(w, Made(t))
      BY <1>2, <1>3, <1>9, <2>2, <2>7
    <3>2. Exact(t)'
      BY <2>1, <2>3, <3>1
    <3>3. FollowsTo(w, Made(t))'
      BY <1>4, <2>1, <2>3, <3>1, FollowsKept
    <3>4. ASSUME NEW k \in DOMAIN micro, k > 1, PipeOf(micro[k], w)
          PROVE  IF d = 0 THEN Stage(micro[k]) > Stage(t) ELSE Stage(micro[k]) >= Stage(t)
      <4>1. k # n /\ ~(k < n)
        <5>1. k \in Nat
          BY <1>1
        <5> QED  BY <2>7, <3>4, <5>1
      <4>2. Stage(micro[k]) > Stage(Task)
        <5>1. micro[n] = Task
          BY <1>3, <2>7
        <5> QED  BY <2>2, <3>4, <4>1, <5>1 DEF Ahead
      <4> QED  BY <1>2, <1>7, <3>4, <4>2
    <3> QED  BY <1>4, <1>7, <2>1, <3>2, <3>3, <3>4, NewestMoves
  <2> QED  BY <2>6, <2>7
<1>10. \A v \in mounted \ {Task.view} : v \in waiting' \/ (v \notin waiting /\ Untouched(v))
  BY <1>1, <1>5
<1>11. \A u \in Tasks : micro'[h] = u /\ Pipe(u) => TaskInv(u)'
  BY <1>6, <1>7
<1> QED  BY <1>1, <1>2, <1>5, <1>7, <1>8, <1>9, <1>10, <1>11, PipeStep

LEMMA ShownJoin ==
  ASSUME TypeInv, RecomputeInv, Join
  PROVE  RecomputeInv'
<1>1. /\ Runs("include") /\ Task \in Joinings /\ Len(Task.kids) = Len(Includes[Task.view])
      /\ micro' = IF Shape[PlanOf[Task.view]] = "one" THEN Now(DeriveOf(Task))
                  ELSE Later(DeriveOf(Task))
      /\ UNCHANGED others
  BY JoinDoes
<1>2. PICK t \in Joinings : t = DeriveOf(Task)
  BY JoinDoes
<1>3. PICK w \in Views : w = Task.view
  BY <1>1 DEF Joinings
<1>4. /\ t.job = "derive" /\ t.view = w /\ t.held = Task.held /\ t.kids = Task.kids
      /\ t.coverage = Task.coverage /\ t.rows = Task.rows
      /\ (t.now <=> Shape[PlanOf[w]] = "one")
  BY <1>1, <1>2, <1>3 DEF DeriveOf, Joinings
<1>5. t \in Tasks /\ Pipe(t) /\ Pipe(Task) /\ Task.job = "include" /\ micro # <<>>
  BY <1>1, <1>4 DEF Tasks, Pipe, Pipeline, Runs
<1>6. TaskInv(t)
  BY <1>4 DEF TaskInv
<1>7. /\ Full(w) \in Nat /\ Len(Task.kids) = Full(w)
      /\ Stage(t) = Full(w) + 2 /\ Stage(Task) = Full(w) + 1
      /\ Made(t) = Full(w) /\ Made(Task) = Full(w)
  <2>1. Full(w) \in Nat /\ Len(Task.kids) = Full(w)
    BY <1>1, <1>3, ViewTyped DEF Full
  <2> QED  BY <1>4, <1>5, <2>1 DEF Stage, Made
<1>8. ASSUME Exact(Task) PROVE Exact(t)
  BY <1>3, <1>4, <1>5, <1>7, <1>8 DEF Exact, ExactJoin
<1>9. ASSUME NEW k \in DOMAIN micro, k > 1, PipeOf(micro[k], w), Stage(micro[k]) > Stage(Task)
      PROVE  IF t.now THEN Stage(micro[k]) > Stage(t) ELSE Stage(micro[k]) >= Stage(t)
  <2>1. /\ micro[k].now = FALSE /\ TaskInv(micro[k]) /\ micro[k].view = w
        /\ Stage(micro[k]) \in Nat /\ micro[k] \in Tasks /\ micro[k].job \in Pipeline
    BY <1>9, BehindHead
  <2>2. CASE t.now
    <3>1. micro[k].job # "derive"
      BY <1>4, <2>1, <2>2 DEF TaskInv
    <3>2. micro[k].job = "include" => Stage(micro[k]) <= Full(w) + 1
      <4>1. ASSUME micro[k].job = "include"
            PROVE  Len(micro[k].kids) \in Nat /\ Len(micro[k].kids) <= Full(w)
        BY <2>1, <4>1, TaskIs DEF Joinings, TaskInv, IncludeKnows
      <4> QED  BY <1>7, <4>1 DEF Stage
    <3>3. micro[k].job = "base" => Stage(micro[k]) = 0
      BY DEF Stage
    <3>4. micro[k].job = "show"
      BY <1>7, <1>9, <2>1, <3>1, <3>2, <3>3 DEF Pipeline
    <3>5. Stage(micro[k]) = Full(w) + 3
      BY <2>1, <3>4 DEF Stage
    <3> QED  BY <1>7, <2>2, <3>5
  <2>3. CASE ~t.now
    BY <1>7, <1>9, <2>1, <2>3
  <2> QED  BY <2>2, <2>3
<1>10. (micro' = Now(t) /\ t.now) \/ (micro' = Later(t) /\ ~t.now)
  BY <1>1, <1>2, <1>3, <1>4
<1> QED  BY <1>1, <1>3, <1>4, <1>5, <1>6, <1>7, <1>8, <1>9, <1>10, Onward

LEMMA ShownDerive ==
  ASSUME TypeInv, RecomputeInv, Derive
  PROVE  RecomputeInv'
<1>1. /\ Runs("derive") /\ Task \in Joinings /\ micro' = Later(ShowOf(Task)) /\ UNCHANGED others
  BY DeriveDoes
<1>2. PICK t \in Shows : t = ShowOf(Task)
  BY DeriveDoes
<1>3. PICK w \in Views : w = Task.view
  BY <1>1 DEF Joinings
<1>4. /\ t.job = "show" /\ t.view = w /\ ~t.now
      /\ t.next = State(w, Task.rows, Task.kids, Task.coverage, Task.held)
  BY <1>2, <1>3 DEF ShowOf
<1>5. t \in Tasks /\ Pipe(t) /\ Pipe(Task) /\ Task.job = "derive" /\ micro # <<>>
  BY <1>1, <1>4 DEF Tasks, Pipe, Pipeline, Runs
<1>6. TaskInv(t)
  BY <1>4 DEF TaskInv
<1>7. /\ Full(w) \in Nat /\ Stage(t) = Full(w) + 3 /\ Stage(Task) = Full(w) + 2
      /\ Made(t) = Full(w) /\ Made(Task) = Full(w)
  BY <1>3, <1>4, <1>5, ViewTyped DEF Stage, Made
<1>8. ASSUME Exact(Task) PROVE Exact(t)
  <2>1. ExactJoin(Task) /\ Len(Task.kids) = Full(w)
    BY <1>3, <1>5, <1>8 DEF Exact
  <2>2. /\ Alike(Task.held, channels[PlanOf[w]]) /\ Task.rows = Rows(w)
        /\ Task.coverage = Cover(w)
        /\ \A i \in 1..Full(w) : Task.kids[i] = Kid(KidPlan(w, i, Rows(w)))
    BY <1>3, <2>1 DEF ExactJoin
  <2>3. Task.kids = [i \in 1..Full(w) |-> Kid(KidPlan(w, i, Rows(w)))]
    <3>1. Task.kids \in Seq(Results)
      BY <1>1 DEF Joinings
    <3>2. Task.kids = [i \in 1..Len(Task.kids) |-> Task.kids[i]]
      BY <3>1
    <3> QED  BY <2>1, <2>2, <3>2
  <2>4. Task.kids = Related(w, Rows(w))
    BY <2>3, RelatedIs
  <2>5. t.next = Derived(w)
    BY <1>4, <2>2, <2>4, DerivedIs, StateAlike
  <2> QED  BY <1>4, <2>5 DEF Exact
<1>9. ASSUME NEW k \in DOMAIN micro, k > 1, PipeOf(micro[k], w), Stage(micro[k]) > Stage(Task)
      PROVE  Stage(micro[k]) >= Stage(t)
  <2>1. Stage(micro[k]) \in Nat
    BY <1>9, BehindHead
  <2> QED  BY <1>7, <1>9, <2>1
<1> QED  BY <1>1, <1>2, <1>3, <1>4, <1>5, <1>6, <1>7, <1>8, <1>9, Onward

\* A recompute ends.
LEMMA ShownShow ==
  ASSUME TypeInv, RecomputeInv, Show
  PROVE  RecomputeInv'
<1>1. /\ Runs("show") /\ Task \in Shows
      /\ shown' = [shown EXCEPT ![Task.view] = Task.next]
      /\ micro' = Rest \/ micro' = Later(Turn)
      /\ UNCHANGED <<channels, mounted, kids, waiting, refined, cached, laid, disturbed>>
  <2>1. disturbed' = disturbed
    BY DEF Show
  <2> QED  BY <2>1, ShowDoes
<1>2. PICK w \in Views : w = Task.view
  BY <1>1 DEF Shows
<1>3. /\ micro # <<>> /\ micro \in Seq(Tasks) /\ mounted \subseteq Views
      /\ Task.job = "show" /\ Pipe(Task) /\ shown \in [Views -> States]
  BY <1>1 DEF Runs, Pipe, Pipeline, TypeInv, ViewsTyped
<1>4. Task = micro[1] /\ Task \in Tasks /\ 1 \in DOMAIN micro
  BY <1>3, HeadIs, EmptySeq
<1>5. Stage(Task) = Full(w) + 3 /\ Full(w) \in Nat /\ Made(Task) = Full(w)
  BY <1>2, <1>3, ViewTyped DEF Stage, Made
<1>6. Turn \in Tasks /\ ~Pipe(Turn) /\ ~Heavy(Turn) /\ Turn.job = "app" /\ ~Turn.now
  BY DEF Tasks, Turns, Turn, Pipe, Pipeline, Heavy
<1>7. /\ ReadsStay /\ \A v : SameSight(v)
      /\ \A v \in Views : v # w => shown'[v] = shown[v] /\ Untouched(v)
      /\ shown'[w] = Task.next
  BY <1>1, <1>2, <1>3 DEF ReadsStay, SameSight, Alike, Untouched, Visible
<1>8. PICK h, d : /\ Moves(h, d) /\ (h # 0 => micro'[h] = Turn) /\ d = 1
                  /\ micro' \in Seq(Tasks)
  <2>1. CASE micro' = Rest
    <3>1. Moves(0, 1) /\ micro' \in Seq(Tasks)
      BY <1>3, <1>6, <2>1, PlainMoves
    <3> QED  BY <3>1
  <2>2. CASE micro' = Later(Turn)
    <3>1. Moves(Len(micro), 1) /\ micro'[Len(micro)] = Turn /\ micro' \in Seq(Tasks)
      BY <1>3, <1>6, <2>2, PlainMoves
    <3> QED  BY <3>1
  <2> QED  BY <1>1, <2>1, <2>2
<1>9. h # 0 => InOrder(h, d, micro'[h]) /\ ~Pipe(micro'[h])
  BY <1>6, <1>8 DEF InOrder
<1>10. WakesHold
  BY <1>1, <1>3 DEF WakesHold
<1>11. ASSUME w \in mounted \ (waiting \cup disturbed) PROVE ViewInv(w)'
  <2>1. PipeOf(Task, w) /\ SameSight(w) /\ kids'[w] = kids[w]
    BY <1>1, <1>2, <1>3, <1>7 DEF PipeOf
  <2>2. PICK n \in DOMAIN micro :
              /\ micro[n] \in Tasks /\ PipeOf(micro[n], w) /\ Exact(micro[n])
              /\ FollowsTo(w, Made(micro[n])) /\ Ahead(micro, n, w, Stage(micro[n]))
    BY <1>3, <1>11, <2>1, HeadOfNewest
  <2>3. Rows(w)' = Rows(w) /\ Derived(w)' = Derived(w)
    BY <2>1, SightKeeps
  <2>4. PICK u \in Tasks : u = micro[n]
    BY <2>2
  <2>5. n \in Nat
    BY <1>3
  <2>6. CASE n # 1
    <3>1. FollowsTo(w, Made(u))'
      BY <2>1, <2>2, <2>3, <2>4, FollowsKept
    <3>2. n > 1 /\ (h # 0 => ~PipeOf(micro'[h], w))
      BY <1>3, <1>9, <2>6 DEF PipeOf
    <3> QED  BY <1>8, <2>1, <2>2, <2>4, <3>1, <3>2, OlderMoves
  <2>7. CASE n = 1
    <3>1. Task.next = Derived(w) /\ FollowsTo(w, Full(w))
      BY <1>2, <1>3, <1>4, <1>5, <2>2, <2>7 DEF Exact
    <3>2. ASSUME NEW k \in DOMAIN micro, k > 1, PipeOf(micro[k], w) PROVE FALSE
      <4>1. /\ TaskInv(micro[k]) /\ micro[k].view = w
            /\ micro[k] \in Tasks /\ micro[k].job \in Pipeline
        BY <3>2, BehindHead
      <4>2. k # n /\ ~(k < n)
        <5>1. k \in Nat
          BY <1>3
        <5> QED  BY <2>7, <3>2, <5>1
      <4>3. Stage(micro[k]) > Stage(Task)
        <5>1. micro[n] = Task
          BY <1>4, <2>7
        <5> QED  BY <2>2, <3>2, <4>2, <5>1 DEF Ahead
      <4>4. CASE micro[k].job = "include"
        <5>1. Len(micro[k].kids) \in Nat /\ Len(micro[k].kids) <= Full(w)
          BY <4>1, <4>4, TaskIs DEF Joinings, TaskInv, IncludeKnows
        <5> QED  BY <1>5, <4>3, <4>4, <5>1 DEF Stage
      <4>5. CASE micro[k].job # "include"
        <5>1. Stage(micro[k]) \in {0, Full(w) + 2, Full(w) + 3}
          BY <4>1, <4>5 DEF Stage, Pipeline
        <5> QED  BY <1>5, <4>3, <5>1
      <4> QED  BY <4>4, <4>5
    <3>3. NoPipe(micro', w)
      BY <1>8, <1>9, <3>2, NoPipeMoves DEF PipeOf
    <3>4. FollowsTo(w, Full(w))'
      BY <2>1, <2>3, <3>1, FollowsKept
    <3>5. Settled(w)'
      BY <1>7, <2>3, <3>1, <3>3, <3>4 DEF Settled, NoPipe, Full
    <3> QED  BY <3>5 DEF ViewInv
  <2> QED  BY <2>6, <2>7
<1>12. \A v \in mounted \ {Task.view} : v \in waiting' \/ (v \notin waiting /\ Untouched(v))
  BY <1>1, <1>2, <1>3, <1>7
<1>13. \A t \in Tasks : h # 0 /\ micro'[h] = t /\ Pipe(t) => TaskInv(t)'
  BY <1>9
<1> QED  BY <1>1, <1>2, <1>3, <1>7, <1>8, <1>9, <1>10, <1>11, <1>12, <1>13, PipeStep

\* A recompute takes the channel of its next relation, and reads its rows.
LEMMA ShownInclude ==
  ASSUME TypeInv, RefInv, RecomputeInv, Include
  PROVE  RecomputeInv'
<1>1. /\ Runs("include") /\ Len(Task.kids) < Len(Includes[Task.view])
      /\ kids' = IF Task.view \notin mounted THEN kids
                 ELSE Exchanged(kids, Task.view, NextSpec, NextPlan)
  BY IncludeDoes
<1>2. PICK W : /\ Starting(W)
               /\ Queues(IF CanRead(NextPlan) THEN Later(NextTask) ELSE Now(NextTask),
                         waiting, Listeners(W))
  BY IncludeDoes
<1>3. UNCHANGED <<mounted, refined, shown, cached, laid, disturbed>> /\ mounted \subseteq Views
  BY DEF Include, TypeInv, ViewsTyped
<1>4. /\ Task \in Joinings /\ NextPlan \in Plans \cup {NoPlan} /\ NextTask \in Joinings
      /\ micro # <<>> /\ micro \in Seq(Tasks) /\ Task.job = "include"
  BY <1>1, NextTyped DEF TypeInv, Runs
<1>5. PICK w \in Views : w = Task.view
  BY <1>4 DEF Joinings
<1>6. PICK plan \in Plans \cup {NoPlan} : plan = NextPlan
  BY <1>4
<1>7. PICK t \in Joinings : t = NextTask
  BY <1>4
<1>8. PICK K \in Nat : K = Len(Task.kids)
  BY <1>4 DEF Joinings
<1>9. /\ Full(w) \in Nat /\ K < Full(w) /\ plan = KidPlan(w, K + 1, Task.rows)
      /\ NextSpec = Includes[w][K + 1]
  BY <1>1, <1>5, <1>6, <1>8, ViewTyped DEF Full, NextPlan, NextSpec, KidPlan
<1>10. /\ t.job = "include" /\ t.view = w /\ t.held = Task.held /\ t.rows = Task.rows
       /\ t.coverage = Task.coverage /\ (t.now <=> ~CanRead(plan))
       /\ t.kids = Append(Task.kids, Kid(plan))
  BY <1>1, <1>5, <1>6, <1>7, NextTyped
<1>11. t \in Tasks /\ Pipe(t) /\ Pipe(Task)
  BY <1>4, <1>10 DEF Tasks, Pipe, Pipeline
<1>12. /\ Len(t.kids) = K + 1 /\ t.kids[K + 1] = Kid(plan)
       /\ \A i \in 1..K : t.kids[i] = Task.kids[i]
  <2>1. Task.kids \in Seq(Results) /\ Kid(plan) \in Results
    BY <1>4, KidTyped DEF Joinings, TypeInv
  <2> QED  BY <1>8, <1>10, <2>1, AppendProperties
<1>13. Task = micro[1] /\ Task \in Tasks /\ 1 \in DOMAIN micro
  BY <1>4, HeadIs, EmptySeq
<1>14. Stage(Task) = K + 1 /\ Stage(t) = K + 2 /\ Made(Task) = K /\ Made(t) = K + 1
  BY <1>4, <1>8, <1>10, <1>12 DEF Stage, Made
<1>15. TaskInv(t)
  <2>1. IncludeKnows(Task)
    BY <1>4, <1>11, <1>13 DEF RecomputeInv, TasksInv, Queued, TaskInv
  <2>2. Firm(w) => Task.rows = Rows(w) \/ (PlanOf[w] \in Declined /\ Task.rows = Unknown)
    BY <1>5, <2>1 DEF IncludeKnows
  <2> QED  BY <1>9, <1>10, <1>12, <2>2 DEF TaskInv, IncludeKnows
<1>16. ReadsStay
  BY <1>2, <1>3, StartingSight
<1>17. TaskInv(t)'
  <2>1. Firm(t.view)' => Firm(t.view)
    BY <1>3 DEF Firm, Full
  <2> QED  BY <1>3, <1>11, <1>15, <1>16, <2>1, TaskKept DEF ReadsStay
<1>18. /\ waiting' = waiting \cup Listeners(W) /\ micro' \in Seq(Tasks)
       /\ \A v \in waiting' : \/ v \in waiting
                              \/ \E i \in DOMAIN micro' :
                                   micro'[i].job = "start" /\ micro'[i].view = v
  <2>1. Listeners(W) \in SUBSET Views
    BY ListenersAre
  <2>2. Later(t) \in Seq(Tasks) /\ Now(t) \in Seq(Tasks)
    BY <1>4, <1>11, GoOnTyped
  <2>3. Queues(Later(t), waiting, Listeners(W)) \/ Queues(Now(t), waiting, Listeners(W))
    BY <1>2, <1>7
  <2> QED  BY <2>1, <2>2, <2>3, QueuesWake
<1>19. PICK h, d : /\ Moves(h, d) /\ h # 0 /\ micro'[h] = t /\ d \in {0, 1}
                   /\ (d = 0 <=> ~CanRead(plan)) /\ (d = 0 <=> t.now)
  <2>1. CASE CanRead(plan)
    <3>1. Queues(Later(t), waiting, Listeners(W))
      BY <1>2, <1>6, <1>7, <2>1
    <3>2. Moves(Len(micro), 1) /\ micro'[Len(micro)] = t
      BY <1>4, <1>11, <3>1, QueuesMove
    <3>3. Len(micro) # 0
      BY <1>4, EmptySeq
    <3> QED  BY <1>10, <2>1, <3>2, <3>3
  <2>2. CASE ~CanRead(plan)
    <3>1. Queues(Now(t), waiting, Listeners(W))
      BY <1>2, <1>6, <1>7, <2>2
    <3>2. Moves(1, 0) /\ micro'[1] = t
      BY <1>4, <1>11, <3>1, QueuesMove
    <3> QED  BY <1>10, <2>2, <3>2
  <2> QED  BY <2>1, <2>2
<1>20. InOrder(h, d, t) /\ WakesHold
  BY <1>4, <1>10, <1>11, <1>18, <1>19 DEF InOrder, Heavy, WakesHold
<1>21. ASSUME NEW v \in mounted, v \notin waiting'
       PROVE  v \notin waiting /\ SameSight(v)
  BY <1>2, <1>3, <1>18, <1>21, StartingSight
<1>22. ASSUME w \in mounted \ waiting', w \notin disturbed PROVE ViewInv(w)'
  <2>1. /\ PipeOf(Task, w) /\ PipeOf(t, w) /\ SameSight(w) /\ Firm(w)
        /\ w \in mounted \ (waiting \cup disturbed)
    BY <1>5, <1>9, <1>10, <1>11, <1>21, <1>22 DEF PipeOf, Firm
  <2>2. PICK n \in DOMAIN micro :
              /\ micro[n] \in Tasks /\ PipeOf(micro[n], w) /\ Exact(micro[n])
              /\ FollowsTo(w, Made(micro[n])) /\ Ahead(micro, n, w, Stage(micro[n]))
    BY <1>4, <2>1, HeadOfNewest
  <2>3. Rows(w)' = Rows(w) /\ \A u \in Tasks : PipeOf(u, w) /\ Exact(u) => Exact(u)'
    BY <2>1, SightKeeps
  <2>4. PICK u \in Tasks : u = micro[n]
    BY <2>2
  <2>5. n \in Nat
    BY <1>4
  <2>6. kids' = Exchanged(kids, w, Includes[w][K + 1], plan)
    BY <1>1, <1>5, <1>6, <1>9, <2>1
  <2>7. /\ \A m \in 0..K : FollowsTo(w, m) => FollowsTo(w, m)'
        /\ FollowsTo(w, K) /\ plan = KidPlan(w, K + 1, Rows(w)) => FollowsTo(w, K + 1)'
    BY <1>9, <2>3, <2>6, FollowsOn
  <2>8. CASE n # 1
    <3>1. n > 1 /\ 1 < n /\ 1 # n
      BY <2>5, <2>8, <1>4
    <3>2. K + 1 >= Stage(u)
      BY <1>13, <1>14, <2>1, <2>2, <2>4, <3>1 DEF Ahead
    <3>3. Made(u) \in 0..K
      <4>1. u.job \in Pipeline /\ u.view = w
        BY <2>2, <2>4 DEF PipeOf, Pipe
      <4>2. u.job = "include" => Len(u.kids) \in Nat
        BY <2>4, TaskIs DEF Joinings
      <4>3. CASE u.job = "include"
        BY <1>8, <3>2, <4>2, <4>3 DEF Made, Stage
      <4>4. CASE u.job = "base"
        BY <1>8, <4>4 DEF Made
      <4>5. u.job \notin {"derive", "show"}
        BY <1>8, <1>9, <3>2, <4>1 DEF Stage
      <4> QED  BY <4>1, <4>3, <4>4, <4>5 DEF Pipeline
    <3>4. FollowsTo(w, Made(u))'
      <4>1. PICK m \in 0..K : m = Made(u)
        BY <3>3
      <4>2. FollowsTo(w, m)'
        BY <2>2, <2>4, <2>7, <4>1
      <4>3. FollowsTo(w, Made(u))' <=> FollowsTo(w, m)'
        BY <4>1 DEF FollowsTo
      <4> QED  BY <4>2, <4>3
    <3> QED  BY <1>8, <1>14, <1>18, <1>19, <2>1, <2>2, <2>4, <3>1, <3>4, OlderMoves
  <2>9. CASE n = 1
    <3>1. Exact(Task) /\ FollowsTo(w, K)
      BY <1>13, <1>14, <2>2, <2>9
    <3>2. /\ Alike(Task.held, channels[PlanOf[w]]) /\ Task.rows = Rows(w)
          /\ Task.coverage = Cover(w)
          /\ \A i \in 1..K : Task.kids[i] = Kid(KidPlan(w, i, Rows(w)))
      BY <1>4, <1>5, <1>8, <3>1 DEF Exact, ExactJoin
    <3>3. plan = KidPlan(w, K + 1, Rows(w))
      BY <1>9, <3>2
    <3>4. FollowsTo(w, Made(t))'
      <4>1. FollowsTo(w, K + 1)'
        BY <2>7, <3>1, <3>3
      <4>2. FollowsTo(w, Made(t))' <=> FollowsTo(w, K + 1)'
        BY <1>14 DEF FollowsTo
      <4> QED  BY <4>1, <4>2
    <3>5. ExactJoin(t)
      <4>1. ASSUME NEW i \in 1..(K + 1) PROVE t.kids[i] = Kid(KidPlan(w, i, Rows(w)))
        <5>1. CASE i = K + 1
          BY <1>12, <3>3, <5>1
        <5>2. CASE i # K + 1
          <6>1. i \in 1..K
            BY <5>2
          <6> QED  BY <1>12, <3>2, <6>1
        <5> QED  BY <5>1, <5>2
      <4> QED  BY <1>9, <1>10, <1>12, <3>2, <4>1 DEF ExactJoin
    <3>6. Exact(t)'
      <4>1. Exact(t)
        BY <1>10, <3>5 DEF Exact
      <4> QED  BY <1>11, <2>1, <2>3, <4>1
    <3>7. ASSUME NEW k \in DOMAIN micro, k > 1, PipeOf(micro[k], w)
          PROVE  IF d = 0 THEN Stage(micro[k]) > Stage(t) ELSE Stage(micro[k]) >= Stage(t)
      <4>1. /\ micro[k].now = FALSE /\ TaskInv(micro[k]) /\ micro[k].view = w
            /\ Stage(micro[k]) \in Nat /\ micro[k] \in Tasks /\ micro[k].job \in Pipeline
        BY <3>7, BehindHead
      <4>2. k # n /\ ~(k < n)
        <5>1. k \in Nat
          BY <1>4
        <5> QED  BY <2>9, <3>7, <5>1
      <4>3. Stage(micro[k]) > K + 1
        <5>1. Stage(micro[n]) = K + 1
          BY <1>13, <1>14, <2>9
        <5> QED  BY <2>2, <3>7, <4>2, <5>1 DEF Ahead
      <4>4. CASE d = 0
        <5>1. CASE micro[k].job = "include"
          <6>1. /\ Len(micro[k].kids) \in Nat
                /\ CanRead(KidPlan(w, Len(micro[k].kids), micro[k].rows))
                /\ micro[k].rows = Rows(w) \/ micro[k].rows = Unknown
            BY <2>1, <4>1, <5>1, TaskIs DEF Joinings, TaskInv, IncludeKnows
          <6>2. micro[k].rows = Rows(w)
            BY <6>1 DEF CanRead, KidPlan, ChildPlanFor
          <6>3. Len(micro[k].kids) # K + 1
            BY <1>19, <3>3, <4>4, <6>1, <6>2
          <6>4. Stage(micro[k]) = Len(micro[k].kids) + 1
            BY <5>1 DEF Stage
          <6> QED  BY <1>8, <1>14, <4>3, <4>4, <6>1, <6>3, <6>4
        <5>2. CASE micro[k].job # "include"
          <6>1. Stage(micro[k]) \in {0, Full(w) + 2, Full(w) + 3}
            BY <4>1, <5>2 DEF Stage, Pipeline
          <6> QED  BY <1>9, <1>14, <4>3, <4>4, <6>1
        <5> QED  BY <5>1, <5>2
      <4>5. CASE d # 0
        BY <1>8, <1>14, <4>1, <4>3, <4>5
      <4> QED  BY <4>4, <4>5
    <3> QED  BY <1>11, <1>18, <1>19, <2>1, <3>4, <3>6, <3>7, NewestMoves
  <2> QED  BY <2>8, <2>9
<1>23. ASSUME NEW v \in mounted \ {Task.view}, v \notin waiting'
       PROVE  v \notin waiting /\ Untouched(v)
  <2>1. v \notin waiting /\ SameSight(v) /\ v # w
    BY <1>5, <1>21, <1>23
  <2>2. kids'[v] = kids[v]
    BY <1>1, <1>3, <1>5, <2>1 DEF Exchanged, RefInv
  <2> QED  BY <1>3, <2>1, <2>2 DEF Untouched
<1>24. \A u \in Tasks : micro'[h] = u /\ Pipe(u) => TaskInv(u)'
  BY <1>17, <1>19
<1> QED
  BY <1>3, <1>5, <1>10, <1>11, <1>16, <1>18, <1>19, <1>20, <1>22, <1>23, <1>24, PipeStep

----------------------------------------------------------------------------
\* Tasks are queued behind those there are.
LEMMA Behind ==
  ASSUME micro \in Seq(Tasks), NEW ss \in Seq(LightTasks), micro' = micro \o ss
  PROVE  /\ \A i \in DOMAIN micro : i \in DOMAIN micro' /\ micro'[i] = micro[i]
         /\ \A i \in DOMAIN micro' : i \in DOMAIN micro \/ micro'[i] \in LightTasks
         /\ \A i \in DOMAIN micro, j \in DOMAIN micro' : j < i => j \in DOMAIN micro
<1>1. ss \in Seq(Tasks)
  <2>1. LightTasks \subseteq Tasks
    BY DEF LightTasks, Tasks
  <2> QED  BY <2>1, SeqMonotonic
<1>2. /\ micro' \in Seq(Tasks) /\ Len(micro') = Len(micro) + Len(ss)
      /\ \A i \in 1..Len(micro) : micro'[i] = micro[i]
      /\ \A i \in (Len(micro) + 1)..(Len(micro) + Len(ss)) : micro'[i] = ss[i - Len(micro)]
  BY ONLY <1>1, CatIs, micro \in Seq(Tasks), micro' = micro \o ss
<1>3. DOMAIN micro = 1..Len(micro) /\ DOMAIN micro' = 1..(Len(micro) + Len(ss))
  BY <1>2
<1>4. Len(micro) \in Nat /\ Len(ss) \in Nat
  OBVIOUS
<1>5. \A i \in (Len(micro) + 1)..(Len(micro) + Len(ss)) : ss[i - Len(micro)] \in LightTasks
  BY <1>4, ElementOfSeq
<1> QED  BY <1>2, <1>3, <1>4, <1>5

\* An own write wakes whoever reads its rows; a recompute of relations that
\* is under way is disturbed.
LEMMA ShownOwnWrite ==
  ASSUME TypeInv, RecomputeInv, NEW r, NEW over \in [scene.written -> Layers],
         OwnWrite(r, over)
  PROVE  RecomputeInv'
<1>1. /\ Queues(micro, waiting, Subscribed(r)) /\ Subscribed(r) \in SUBSET Views
      /\ \A p \in Plans : ResourceOf[p] # r => laid'[p] = laid[p]
      /\ disturbed' = disturbed \cup {v \in Concerned(r) :
           Includes[v] # <<>> /\ \E i \in DOMAIN micro : RecomputeOf(micro[i], v)}
      /\ UNCHANGED <<channels, mounted, kids, refined, shown, cached>>
  BY OwnWriteDoes
<1>2. micro \in Seq(Tasks) /\ mounted \subseteq Views
  BY DEF TypeInv, ViewsTyped
<1>3. /\ waiting' = waiting \cup Subscribed(r) /\ micro' \in Seq(Tasks)
      /\ \A v \in waiting' : \/ v \in waiting
                             \/ \E i \in DOMAIN micro' :
                                  micro'[i].job = "start" /\ micro'[i].view = v
  BY <1>1, <1>2, QueuesWake
<1>4. PICK ss \in Seq(LightTasks) : micro' = micro \o ss
  BY <1>1, <1>2, QueuesWake
<1>5. /\ \A i \in DOMAIN micro : i \in DOMAIN micro' /\ micro'[i] = micro[i]
      /\ \A i \in DOMAIN micro' : i \in DOMAIN micro \/ micro'[i] \in LightTasks
      /\ \A i \in DOMAIN micro, j \in DOMAIN micro' : j < i => j \in DOMAIN micro
  BY <1>2, <1>4, Behind
<1>6. ASSUME NEW i \in DOMAIN micro', i \notin DOMAIN micro
      PROVE  /\ micro'[i].job \in {"app", "start", "looked"} /\ ~micro'[i].now
             /\ ~Pipe(micro'[i]) /\ ~Heavy(micro'[i])
  <2>1. micro'[i] \in LightTasks
    BY <1>5, <1>6
  <2>2. micro'[i].job \in {"app", "start", "looked"} /\ ~micro'[i].now
    BY <2>1, LightIs
  <2> QED  BY <2>2 DEF Pipe, Pipeline, Heavy
<1>7. QueueInv'
  <2>1. \A i \in DOMAIN micro' : micro'[i].now => i = 1
    BY <1>5, <1>6 DEF RecomputeInv, QueueInv
  <2>2. ASSUME NEW i \in DOMAIN micro', Heavy(micro'[i])
        PROVE  /\ \A j \in DOMAIN micro' : ~Pipe(micro'[j])
               /\ \A j \in DOMAIN micro' : j < i => micro'[j].job = "answer" \/ micro'[j].now
    <3>1. i \in DOMAIN micro /\ Heavy(micro[i])
      BY <1>5, <1>6, <2>2
    <3>2. /\ \A j \in DOMAIN micro : ~Pipe(micro[j])
          /\ \A j \in DOMAIN micro : j < i => micro[j].job = "answer" \/ micro[j].now
      BY <3>1 DEF RecomputeInv, QueueInv
    <3> QED  BY <1>5, <1>6, <3>1, <3>2
  <2>3. \A i \in DOMAIN micro' : micro'[i].job = "ended" /\ ~micro'[i].now => Keeps(micro'[i])
    BY <1>5, <1>6 DEF RecomputeInv, QueueInv
  <2>4. ASSUME NEW v \in waiting'
        PROVE  \E i \in DOMAIN micro' : micro'[i].job = "start" /\ micro'[i].view = v
    <3>1. CASE v \in waiting
      <4>1. PICK i \in DOMAIN micro : micro[i].job = "start" /\ micro[i].view = v
        BY <3>1 DEF RecomputeInv, QueueInv
      <4> QED  BY <1>5, <4>1
    <3> QED  BY <1>3, <3>1
  <2> QED  BY <2>1, <2>2, <2>3, <2>4 DEF QueueInv, Heavy
<1>8. ASSUME NEW v \in Views, v \notin Concerned(r) PROVE SameSight(v)
  <2>1. \A plan \in Plans : ReadBy(v, plan) => Visible(plan)' = Visible(plan)
    BY <1>1, <1>8, ConcernedRead DEF Visible
  <2> QED  BY <1>1, <2>1 DEF SameSight, Alike
<1>9. ASSUME NEW t \in Tasks, NEW i \in DOMAIN micro', micro'[i] = t, Pipe(t)
      PROVE  TaskInv(t)'
  <2>1. i \in DOMAIN micro /\ micro[i] = t
    BY <1>5, <1>6, <1>9
  <2>2. TaskInv(t) /\ t.view \in Views
    BY <1>9, <2>1, PipeIs DEF RecomputeInv, TasksInv, Queued
  <2>3. ASSUME Firm(t.view)'
        PROVE  /\ Firm(t.view) /\ Rows(t.view)' = Rows(t.view)
               /\ PlanOf[t.view] \notin Declined => Reads(PlanOf[t.view])' = Reads(PlanOf[t.view])
    <3>1. Full(t.view) > 0 /\ t.view \notin disturbed'
      BY <2>3 DEF Firm, Full
    <3>2. RecomputeOf(micro[i], t.view)
      BY <1>9, <2>1 DEF RecomputeOf, Recomputes, Pipe, Pipeline
    <3>3. Includes[t.view] # <<>>
      BY <3>1 DEF Full
    <3>4. t.view \notin Concerned(r) /\ t.view \notin disturbed
      BY <1>1, <2>1, <3>1, <3>2, <3>3
    <3>5. SameSight(t.view)
      BY <1>8, <2>2, <3>4
    <3>6. PlanOf[t.view] \in Plans /\ ReadBy(t.view, PlanOf[t.view])
      BY <2>2, ViewTyped DEF ReadBy
    <3>7. Visible(PlanOf[t.view])' = Visible(PlanOf[t.view])
      BY <3>5, <3>6 DEF SameSight
    <3> QED  BY <1>1, <3>1, <3>4, <3>7 DEF Rows, Reads, Firm
  <2>4. BaseKnows(t) => BaseKnows(t)'
    BY <2>3 DEF BaseKnows
  <2>5. IncludeKnows(t) => IncludeKnows(t)'
    BY <2>3 DEF IncludeKnows
  <2> QED  BY <2>2, <2>4, <2>5 DEF TaskInv
<1>10. TasksInv'
  BY <1>9 DEF TasksInv, Queued
<1>11. ASSUME NEW v \in mounted \ disturbed', v \notin waiting' PROVE ViewInv(v)'
  <2>1. v \in Views /\ v \notin Concerned(r) /\ v \notin waiting /\ v \notin disturbed
    BY <1>1, <1>2, <1>3, <1>11 DEF Subscribed
  <2>2. ViewInv(v) /\ SameSight(v) /\ shown'[v] = shown[v] /\ kids'[v] = kids[v]
    BY <1>1, <1>8, <1>11, <2>1 DEF RecomputeInv, ShownInv
  <2>3. /\ Rows(v)' = Rows(v) /\ Derived(v)' = Derived(v)
        /\ \A t \in Tasks : PipeOf(t, v) /\ Exact(t) => Exact(t)'
    BY <2>1, <2>2, SightKeeps
  <2>4. \A k : FollowsTo(v, k) => FollowsTo(v, k)'
    BY <2>1, <2>2, <2>3, FollowsKept
  <2>5. CASE Settled(v)
    <3>1. NoPipe(micro', v)
      BY <1>5, <1>6, <2>5 DEF Settled, NoPipe, PipeOf
    <3>2. Settled(v)'
      BY <2>2, <2>3, <2>4, <2>5, <3>1 DEF Settled, NoPipe
    <3> QED  BY <3>2 DEF ViewInv
  <2>6. CASE Coming(v)
    <3>1. PICK t \in Tasks : PipeOf(t, v) /\ Newest(v, t) /\ Exact(t) /\ FollowsTo(v, Made(t))
      BY <2>6 DEF Coming
    <3>2. PICK n \in DOMAIN micro : micro[n] = t /\ Ahead(micro, n, v, Stage(t))
      BY <3>1 DEF Newest
    <3>3. Ahead(micro', n, v, Stage(t))
      BY <1>5, <1>6, <3>2 DEF Ahead, PipeOf
    <3>4. Newest(v, t)'
      BY <1>5, <3>2, <3>3 DEF Newest, Ahead
    <3>5. Coming(v)'
      BY <2>3, <2>4, <3>1, <3>4 DEF Coming
    <3> QED  BY <3>5 DEF ViewInv
  <2> QED  BY <2>1, <2>2, <2>5, <2>6 DEF ViewInv
<1>12. ShownInv'
  BY <1>1, <1>11 DEF ShownInv, ViewInv
<1> QED  BY <1>7, <1>10, <1>12 DEF RecomputeInv

LEMMA ShownElsewhere ==
  ASSUME TypeInv, RecomputeInv,
         \/ Flush \/ \E i \in DOMAIN net : \E refused : Serve(i, refused)
         \/ (\E s \in Instances, p \in Plans : Edit(s, p)) \/ Cut \/ Reconnects \/ Relays
  PROVE  RecomputeInv'
<1>1. Quiet /\ UNCHANGED <<channels, views, cached, laid, disturbed, micro>>
  BY DEF Flush, Serve, Edit, Cut, Reconnects, Relays, client
<1>2. UNCHANGED <<micro, mounted, kids, waiting, refined, shown, cached, laid, disturbed>>
  BY <1>1 DEF views
<1> QED  BY <1>1, <1>2, ShownRest

LEMMA ShownStep ==
  ASSUME LiveInv, RecomputeInv, Next
  PROVE  RecomputeInv'
<1> USE DEF LiveInv
<1>1. ASSUME NEW v \in Views, Mount(v) \/ Unmount(v) \/ Refine(v) PROVE RecomputeInv'
  BY <1>1, ShownMount, ShownUnmount, ShownRefine
<1>2. ASSUME NEW Q \in Bundles, Ask(Q) PROVE RecomputeInv'
  BY <1>2, ShownAsk
<1>2a. ASSUME NEW r \in Resources, NEW over \in [scene.written -> Layers], OwnWrite(r, over)
       PROVE  RecomputeInv'
  BY <1>2a, ShownOwnWrite
<1>3. CASE Leave \/ OneShot \/ Settle
  BY <1>3, ShownLeave, ShownLooked, ShownFallBack, ShownRelate, ShownAnswer,
     ShownEndRefresh, ShownEndQuery DEF OneShot, Settle
<1>4. CASE Recompute
  BY <1>4, ShownStart, ShownBase, ShownInclude, ShownJoin, ShownDerive, ShownShow
     DEF Recompute
<1>5. CASE \/ Flush \/ \E i \in DOMAIN net : \E refused : Serve(i, refused)
           \/ (\E s \in Instances, p \in Plans : Edit(s, p)) \/ Cut \/ Reconnects \/ Relays
  BY <1>5, ShownElsewhere
<1>6. ASSUME NEW i \in DOMAIN net, Respond(i) \/ Drop(i) PROVE RecomputeInv'
  BY <1>6, ShownArrives
<1>7. ASSUME NEW p \in Plans, Retire(p) PROVE RecomputeInv'
  BY <1>7, ShownRetire
<1>8. CASE Hear
  <2>1. events[Me] \in Seq(made)
    BY LiveAssumption DEF FeedTyped
  <2> QED  BY <1>8, <2>1, ShownHear
<1> QED  BY <1>1, <1>2, <1>2a, <1>3, <1>4, <1>5, <1>6, <1>7, <1>8 DEF Next, Microtask

LEMMA ShownStarts ==
  ASSUME Init
  PROVE  RecomputeInv
<1>1. micro = <<>> /\ waiting = {} /\ mounted = {}
  BY DEF Init
<1>2. DOMAIN micro = {}
  BY <1>1
<1> QED  BY <1>1, <1>2 DEF RecomputeInv, QueueInv, TasksInv, Queued, ShownInv

LEMMA ShownStutters ==
  ASSUME RecomputeInv, UNCHANGED vars
  PROVE  RecomputeInv'
<1>1. UNCHANGED <<channels, mounted, kids, waiting, refined, shown, cached, laid, disturbed,
                   micro>>
  BY DEF vars, client, views
<1>2. QueueInv'
  BY <1>1 DEF RecomputeInv, QueueInv
<1>3. \A v : Rows(v)' = Rows(v) /\ Cover(v)' = Cover(v) /\ Derived(v)' = Derived(v)
  BY <1>1 DEF Rows, Cover, Derived, Related, State, Visible
<1>4. TasksInv'
  BY <1>1 DEF RecomputeInv, TasksInv, Queued, TaskInv, BaseKnows, IncludeKnows, Rows, Reads,
              Visible, Firm, Full
<1>5. \A v : Settled(v) => Settled(v)'
  BY <1>1, <1>3 DEF Settled, FollowsTo, Follows
<1>6. \A t : Exact(t) => Exact(t)'
  BY <1>1, <1>3 DEF Exact, ExactJoin, Kid, Visible, Reads
<1>7. \A v : Coming(v) => Coming(v)'
  BY <1>1, <1>3, <1>6 DEF Coming, Newest, FollowsTo, Follows
<1>8. ShownInv'
  BY <1>1, <1>5, <1>7 DEF RecomputeInv, ShownInv, ViewInv
<1> QED  BY <1>2, <1>4, <1>8 DEF RecomputeInv

LEMMA ShownAtRest ==
  ASSUME RecomputeInv
  PROVE  ShownIsCurrent
<1> SUFFICES ASSUME Quiet, NEW v \in mounted \ disturbed PROVE shown[v] = Derived(v)
  BY DEF ShownIsCurrent
<1>1. DOMAIN micro = {}
  BY DEF Quiet
<1>2. v \notin waiting /\ ~Coming(v)
  BY <1>1 DEF RecomputeInv, QueueInv, Coming, Newest
<1>3. Settled(v)
  BY <1>2 DEF RecomputeInv, ShownInv, ViewInv
<1> QED  BY <1>3 DEF Settled

\* When the microtasks are done every live query shows what the cache and
\* its channel say now: whatever changes what it shows queues a recompute,
\* and of those under way the newest comes last (live-query.ts:110-124) -
\* but for a live query with relations whose rows an own write changed while
\* a recompute of it was under way, until the next one begins alone.
THEOREM LiveQueriesShowTheLatest == Spec => []ShownIsCurrent
<1>1. Init => RecomputeInv
  BY ShownStarts
<1>2. LiveInv /\ RecomputeInv /\ [Next]_vars => RecomputeInv'
  BY ShownStep, ShownStutters
<1>3. RecomputeInv => ShownIsCurrent
  BY ShownAtRest
<1> QED  BY <1>1, <1>2, <1>3, LiveStays, PTL DEF Spec

----------------------------------------------------------------------------
(* What is shown at rest is what the server has.                           *)
(*                                                                         *)
(* FreshAtRest follows from FreshInv: while no connection was lost a       *)
(* change is heard of or on its way (FedInv); nothing received is newer    *)
(* than the server's version (RowsInv); an answer to a refresh is no older *)
(* than what was heard of since, or its channel is told of it as behind    *)
(* (AnswersInv); so the channel of a refresh that ended without an excuse  *)
(* is no older than what was heard of (ChannelsInv).                       *)

\* n is no older than the changes of p that were heard of.
Covers(p, n) == \A c \in heard : c[1] = p => c[2] <= n

\* A change that was heard of, or will be.
Carried(c) ==
  \/ c \in heard
  \/ \E k \in DOMAIN events[Me] : events[Me][k] = c
  \/ \E k \in DOMAIN bus[stream[Me]] : /\ bus[stream[Me]][k].change = c
                                       /\ bus[stream[Me]][k].origin # stream[Me]
FedInv ==
  /\ heard \subseteq made /\ cuts \in Nat
  /\ \A c \in made : c[2] <= Truth(c[1])
  /\ \A p \in Plans : Truth(p) = 0 \/ <<p, Truth(p)>> \in made
  /\ cuts = 0 => stream[Me] \in Instances /\ \A c \in made : Carried(c)

\* Something was received for p.
Had(p) == cached[p] # Unknown
RowsInv ==
  \A p \in Plans :
    /\ Had(p) => cached[p] <= newest[p]
    /\ newest[p] <= Truth(p)
    /\ channels[p].last # Unknown => channels[p].last <= Truth(p)
    /\ channels[p].synced => channels[p].last # Unknown /\ (p \notin Declined => Had(p))

Level(p) == IF p \in Declined THEN channels[p].last ELSE newest[p]
Calm(p) == channels[p].online /\ ~channels[p].error /\ ~channels[p].behind
ChannelsInv ==
  \A p \in Plans :
    /\ ~channels[p].stored => ~channels[p].synced /\ ~channels[p].refreshing
    /\ channels[p].stored /\ ~channels[p].refreshing =>
         /\ channels[p].synced \/ ~channels[p].online \/ channels[p].error
         /\ Calm(p) => Covers(p, Level(p))

Sound(call, answer) ==
  answer.verdict = "ok" =>
    /\ answer.rows <= Truth(call.plan)
    /\ call.by = "channel" => channels[call.plan].behind \/ Covers(call.plan, answer.rows)
TakenIn(t) ==
  t.job = "ended" /\ Keeps(t) => Had(t.call.plan) /\ t.answer.rows <= newest[t.call.plan]
Replying(t) == t.job \in {"answer", "ended"}
Unsound == {t \in Tasks : Replying(t) /\ ~(Sound(t.call, t.answer) /\ TakenIn(t))}
NetSound ==
  \A i \in DOMAIN net : \A j \in DOMAIN net[i].answers : Sound(net[i].calls[j], net[i].answers[j])
AnswersInv == NetSound /\ None(micro, Unsound)

FreshInv == FedInv /\ RowsInv /\ ChannelsInv /\ AnswersInv

\* The feed and what was heard of it.
LEMMA FedStays ==
  ASSUME FedInv, UNCHANGED <<feedVars, heard, cuts>>
  PROVE  FedInv'
<1>1. UNCHANGED <<made, bus, stream, events, heard, cuts>>
  BY DEF feedVars
<1>2. \A p : Truth(p)' = Truth(p)
  BY <1>1 DEF Truth
<1>3. \A c : Carried(c)' = Carried(c)
  BY <1>1 DEF Carried
<1> QED  BY <1>1, <1>2, <1>3 DEF FedInv

\* A call of a channel is one of a refresh.
LEMMA CallsRefresh ==
  ASSUME TypeInv, OneEach
  PROVE  /\ \A i \in DOMAIN net : \A j \in DOMAIN net[i].calls :
              /\ net[i].calls[j] \in Calls /\ net[i].calls[j].plan \in Plans
              /\ net[i].calls[j].by = "channel" => channels[net[i].calls[j].plan].refreshing
         /\ \A i \in DOMAIN micro :
              Replying(micro[i]) /\ micro[i].call.by = "channel"
                => channels[micro[i].call.plan].refreshing
<1>1. \A c \in Calls : c.plan \in Plans /\ (c.by = "channel" => c = Call("channel", c.plan))
  BY DEF Calls, Call
<1>2. ASSUME NEW i \in DOMAIN net, NEW j \in DOMAIN net[i].calls
      PROVE  /\ net[i].calls[j] \in Calls /\ net[i].calls[j].plan \in Plans
             /\ net[i].calls[j].by = "channel" => channels[net[i].calls[j].plan].refreshing
  <2>1. net[i].calls[j] \in Calls
    BY MessageIs, ElementOfSeq
  <2>2. PICK c \in Calls : c = net[i].calls[j]
    BY <2>1
  <2>3. ASSUME c.by = "channel", ~channels[c.plan].refreshing PROVE FALSE
    <3>1. Nothing(ChannelCalls(c.plan), ChannelTasks(c.plan))
      BY <1>1, <2>3 DEF OneEach
    <3>2. c \notin ChannelCalls(c.plan)
      BY <2>2, <3>1 DEF Nothing, NetNone, None
    <3> QED  BY <1>1, <2>3, <3>2 DEF ChannelCalls
  <2> QED  BY <1>1, <2>2, <2>3
<1>3. ASSUME NEW i \in DOMAIN micro, Replying(micro[i]), micro[i].call.by = "channel",
             ~channels[micro[i].call.plan].refreshing
      PROVE  FALSE
  <2>1. micro[i] \in Tasks
    BY ElementOfSeq DEF TypeInv
  <2>2. PICK t \in Tasks : t = micro[i]
    BY <2>1
  <2>3. t.call \in Calls /\ t.job \in {"answer", "ended"}
    BY <1>3, <2>2, Owners DEF Replying
  <2>4. t.call = Call("channel", t.call.plan) /\ t.call.plan \in Plans
    BY <1>1, <1>3, <2>2, <2>3
  <2>5. Nothing(ChannelCalls(t.call.plan), ChannelTasks(t.call.plan))
    BY <1>3, <2>2, <2>4 DEF OneEach
  <2>6. t \notin ChannelTasks(t.call.plan)
    BY <2>2, <2>5 DEF Nothing, None
  <2> QED  BY <2>3, <2>4, <2>6, Owners
<1> QED  BY <1>2, <1>3

\* What was received stays as sound as it was.
Ages(p) ==
  /\ Truth(p)' \in Nat /\ Truth(p) <= Truth(p)'
  /\ newest'[p] \in Nat /\ newest[p] <= newest'[p]
  /\ Had(p) => Had(p)'
Steady ==
  /\ heard' = heard
  /\ \A p \in Plans : /\ Ages(p)
                      /\ channels[p].refreshing /\ channels[p].behind => channels'[p].behind

LEMMA SoundKept ==
  ASSUME TypeInv, Steady, NEW call \in Calls, NEW answer \in Replies, Sound(call, answer),
         call.by = "channel" => channels[call.plan].refreshing
  PROVE  Sound(call, answer)'
<1> SUFFICES ASSUME answer.verdict = "ok"
             PROVE  /\ answer.rows <= Truth(call.plan)'
                    /\ call.by = "channel" => \/ channels'[call.plan].behind
                                              \/ Covers(call.plan, answer.rows)'
  BY DEF Sound
<1>1. call.plan \in Plans /\ answer.rows \in Versions
  BY DEF Calls, Replies
<1>2. answer.rows \in Nat /\ Truth(call.plan) \in Nat
  BY <1>1, TruthIs, ResultsAre DEF TypeInv, Versions
<1>3. answer.rows <= Truth(call.plan)'
  BY <1>1, <1>2 DEF Sound, Steady, Ages
<1>4. Covers(call.plan, answer.rows)' <=> Covers(call.plan, answer.rows)
  BY DEF Steady, Covers
<1> QED  BY <1>1, <1>3, <1>4 DEF Sound, Steady

\* No message has an answer it had not.
AnswersStay ==
  \A i \in DOMAIN net' : \A j \in DOMAIN net'[i].answers :
    \E k \in DOMAIN net : /\ j \in DOMAIN net[k].answers
                          /\ net'[i].calls[j] = net[k].calls[j]
                          /\ net'[i].answers[j] = net[k].answers[j]

LEMMA AnswersTyped ==
  ASSUME TypeInv, NEW i \in DOMAIN net, NEW j \in DOMAIN net[i].answers
  PROVE  /\ j \in DOMAIN net[i].calls /\ net[i].served
         /\ net[i].calls[j] \in Calls /\ net[i].answers[j] \in Replies
<1>1. j \in DOMAIN net[i].calls /\ net[i].served
  BY DEF TypeInv, NetTyped
<1>2. net[i].calls \in Seq(Calls) /\ net[i].answers \in Seq(Replies)
  BY MessageIs
<1> QED  BY <1>1, <1>2, ElementOfSeq

LEMMA NetStaysSound ==
  ASSUME TypeInv, OneEach, Steady, NetSound, AnswersStay
  PROVE  NetSound'
<1> SUFFICES ASSUME NEW i \in DOMAIN net', NEW j \in DOMAIN net'[i].answers
             PROVE  Sound(net[i].calls[j], net[i].answers[j])'
  BY DEF NetSound
<1>1. PICK k \in DOMAIN net : /\ j \in DOMAIN net[k].answers
                              /\ net'[i].calls[j] = net[k].calls[j]
                              /\ net'[i].answers[j] = net[k].answers[j]
  BY DEF AnswersStay
<1>2. PICK call \in Calls, answer \in Replies :
        call = net[k].calls[j] /\ answer = net[k].answers[j] /\ j \in DOMAIN net[k].calls
  BY <1>1, AnswersTyped
<1>3. Sound(call, answer)
  BY <1>1, <1>2 DEF NetSound
<1>4. call.by = "channel" => channels[call.plan].refreshing
  BY <1>2, CallsRefresh
<1>5. Sound(call, answer)'
  BY <1>3, <1>4, SoundKept
<1>6. net'[i].calls[j] = call /\ net'[i].answers[j] = answer
  BY <1>1, <1>2
<1> QED  BY <1>5, <1>6 DEF Sound, Covers, Truth

LEMMA ReplyIs ==
  ASSUME NEW t \in Tasks, Replying(t)
  PROVE  /\ t.call \in Calls /\ t.call.plan \in Plans /\ t.answer \in Replies
         /\ t.answer.verdict = "ok" => t.answer.rows \in Versions
<1>1. t \in Incoming \/ t \in Endings
  BY TaskIs DEF Replying
<1>2. t.call \in Calls /\ t.answer \in Replies
  BY <1>1 DEF Incoming, Endings
<1> QED  BY <1>2 DEF Calls, Replies

LEMMA TasksStaySound ==
  ASSUME TypeInv, OneEach, Steady, None(micro, Unsound), NEW Y, Brings(Y), Y \cap Unsound' = {}
  PROVE  None(micro', Unsound')
<1>1. PICK D : D = Unsound'
  OBVIOUS
<1>2. ASSUME NEW i \in DOMAIN micro PROVE micro[i] \notin D
  <2>1. PICK t \in Tasks : t = micro[i]
    BY ElementOfSeq DEF TypeInv
  <2>2. t \notin Unsound
    BY <2>1 DEF None
  <2>3. ASSUME Replying(t) PROVE Sound(t.call, t.answer)' /\ TakenIn(t)'
    <3>1. t.call \in Calls /\ t.call.plan \in Plans /\ t.answer \in Replies
      BY <2>3, ReplyIs
    <3>2. Sound(t.call, t.answer) /\ TakenIn(t)
      BY <2>2, <2>3 DEF Unsound
    <3>3. t.call.by = "channel" => channels[t.call.plan].refreshing
      BY <2>1, <2>3, CallsRefresh
    <3>4. Sound(t.call, t.answer)'
      BY <3>1, <3>2, <3>3, SoundKept
    <3>5. Keeps(t) => t.answer.rows \in Nat
      BY <2>3, ReplyIs DEF Keeps, Versions
    <3>6. newest[t.call.plan] \in Nat /\ Ages(t.call.plan)
      BY <3>1 DEF Steady, TypeInv, CacheTyped, Versions
    <3>7. Keeps(t)' <=> Keeps(t)
      BY DEF Keeps, Declined, CanFulfill
    <3>8. TakenIn(t)'
      BY <3>2, <3>5, <3>6, <3>7 DEF TakenIn, Ages, Had
    <3> QED  BY <3>4, <3>8
  <2> QED  BY <1>1, <2>1, <2>3 DEF Unsound, Replying
<1>3. None(micro, D)
  BY <1>2 DEF None
<1>4. None(micro', D)
  BY <1>1, <1>3 DEF Brings
<1> QED  BY <1>1, <1>4

----------------------------------------------------------------------------
(* Steps that take nothing in and hear of nothing.                         *)

Goes(W) ==
  \A p \in Plans : /\ Seen(channels[p], channels'[p], p \in W)
                   /\ channels'[p].behind <=> p \notin W /\ channels[p].behind

LEMMA ChannelIs ==
  ASSUME TypeInv, NEW p \in Plans
  PROVE  /\ channels[p] \in Channel /\ channels[p].last \in Results
         /\ channels[p].refreshing \in BOOLEAN /\ channels[p].behind \in BOOLEAN
         /\ channels[p].synced \in BOOLEAN /\ channels[p].online \in BOOLEAN
         /\ channels[p].error \in BOOLEAN /\ channels[p].stored \in BOOLEAN
  BY DEF TypeInv, ChannelsTyped, Channel

LEMMA StartsGo ==
  ASSUME NEW W, Starting(W), Forgets(W)
  PROVE  Goes(W)
  BY DEF Starting, Forgets, Goes

LEMMA NoneGoes ==
  ASSUME TypeInv, channels' = channels
  PROVE  Goes({})
<1> SUFFICES ASSUME NEW p \in Plans
             PROVE  /\ Seen(channels[p], channels'[p], p \in {})
                    /\ channels'[p].behind <=> p \notin {} /\ channels[p].behind
  BY DEF Goes
<1>1. channels[p].refreshing \in BOOLEAN
  BY ChannelIs
<1> QED  BY <1>1 DEF Seen

LEMMA SameAges ==
  ASSUME TypeInv, UNCHANGED <<made, cached, newest>>, NEW p \in Plans
  PROVE  Ages(p) /\ Truth(p)' = Truth(p) /\ Had(p)' = Had(p)
<1>1. Truth(p)' = Truth(p) /\ Had(p)' = Had(p)
  BY DEF Truth, Had
<1>2. Truth(p) \in Nat /\ newest[p] \in Nat
  BY TruthIs DEF TypeInv, CacheTyped, Versions
<1> QED  BY <1>1, <1>2 DEF Ages

LEMMA ChannelsGo ==
  ASSUME TypeInv, RowsInv, ChannelsInv, UNCHANGED <<made, heard, cached, newest>>, NEW W, Goes(W)
  PROVE  RowsInv' /\ ChannelsInv' /\ Steady
<1>1. Steady
  <2> SUFFICES ASSUME NEW p \in Plans
               PROVE  /\ Ages(p)
                      /\ channels[p].refreshing /\ channels[p].behind => channels'[p].behind
    BY DEF Steady
  <2> QED  BY SameAges DEF Goes, Seen
<1>2. ASSUME NEW p \in Plans
      PROVE  /\ Had(p)' => cached'[p] <= newest'[p]
             /\ newest'[p] <= Truth(p)'
             /\ channels'[p].last # Unknown => channels'[p].last <= Truth(p)'
             /\ channels'[p].synced => channels'[p].last # Unknown /\ (p \notin Declined => Had(p)')
  <2>1. channels'[p].last = channels[p].last /\ channels'[p].synced = channels[p].synced
    BY DEF Goes, Seen
  <2> QED  BY <2>1, SameAges DEF RowsInv
<1>3. ASSUME NEW p \in Plans
      PROVE  /\ ~channels'[p].stored => ~channels'[p].synced /\ ~channels'[p].refreshing
             /\ channels'[p].stored /\ ~channels'[p].refreshing =>
                  /\ channels'[p].synced \/ ~channels'[p].online \/ channels'[p].error
                  /\ Calm(p)' => Covers(p, Level(p))'
  <2>1. /\ Seen(channels[p], channels'[p], p \in W)
        /\ channels'[p].behind <=> p \notin W /\ channels[p].behind
    BY DEF Goes
  <2>2. /\ channels[p].refreshing \in BOOLEAN
        /\ ~channels[p].stored => ~channels[p].synced /\ ~channels[p].refreshing
        /\ channels[p].stored /\ ~channels[p].refreshing =>
             /\ channels[p].synced \/ ~channels[p].online \/ channels[p].error
             /\ Calm(p) => Covers(p, Level(p))
    BY ChannelIs DEF ChannelsInv
  <2>3. Level(p)' = Level(p) /\ Covers(p, Level(p))' = Covers(p, Level(p))
    BY <2>1 DEF Level, Covers, Seen, Declined, CanFulfill
  <2>4. ASSUME channels'[p].stored, ~channels'[p].refreshing
        PROVE  channels[p].stored /\ ~channels[p].refreshing /\ p \notin W
    BY <2>1, <2>2, <2>4 DEF Seen
  <2>5. ASSUME channels'[p].stored, ~channels'[p].refreshing
        PROVE  /\ channels'[p].synced \/ ~channels'[p].online \/ channels'[p].error
               /\ Calm(p)' => Covers(p, Level(p))'
    BY <2>1, <2>2, <2>3, <2>4, <2>5 DEF Seen, Calm
  <2>6. ~channels'[p].stored => ~channels'[p].synced /\ ~channels'[p].refreshing
    BY <2>1, <2>2 DEF Seen
  <2> QED  BY <2>5, <2>6
<1>4. RowsInv'
  BY <1>2 DEF RowsInv
<1>5. ChannelsInv'
  BY <1>3 DEF ChannelsInv
<1> QED  BY <1>1, <1>4, <1>5

LEMMA FreshOthers ==
  ASSUME TypeInv, OneEach, FreshInv, UNCHANGED <<feedVars, heard, cuts, cached, newest>>,
         NEW W, Goes(W), AnswersStay,
         NEW Y, Brings(Y), \A t \in Y : ~Replying(t)
  PROVE  FreshInv'
<1>1. made' = made /\ FedInv'
  BY FedStays DEF FreshInv, feedVars
<1>2. RowsInv' /\ ChannelsInv' /\ Steady
  BY <1>1, ChannelsGo DEF FreshInv
<1>3. NetSound'
  BY <1>2, NetStaysSound DEF FreshInv, AnswersInv
<1>4. Y \cap Unsound' = {}
  BY DEF Unsound, Replying
<1>5. None(micro, Unsound)'
  BY <1>2, <1>4, TasksStaySound DEF FreshInv, AnswersInv, None
<1> QED  BY <1>1, <1>2, <1>3, <1>5 DEF FreshInv, AnswersInv

LEMMA SameAnswers ==
  ASSUME net' = net
  PROVE  AnswersStay
  BY DEF AnswersStay

LEMMA QuietTasks ==
  /\ \A t : t.job \in NoTokenJobs \cup QueryJobs => ~Replying(t)
  /\ \A t \in Starts : ~Replying(t)
  /\ ~Replying(Turn)
<1>1. \A t : t.job \in NoTokenJobs \cup QueryJobs => ~Replying(t)
  BY DEF NoTokenJobs, QueryJobs, Replying
<1> QED  BY <1>1, StartsAndTurns

LEMMA FreshOpen ==
  ASSUME TypeInv, RefInv, OneEach, FreshInv,
         NEW v \in Views, Mount(v) \/ Unmount(v) \/ Refine(v)
  PROVE  FreshInv'
<1>1. PICK Y : Y = {Turn} \cup Starts
  OBVIOUS
<1>2. \A t \in Y : ~Replying(t)
  BY <1>1, QuietTasks
<1>3. /\ UNCHANGED <<feedVars, heard, cuts, cached, newest>> /\ net' = net
  BY DEF Mount, Unmount, Refine, bounds
<1>4. CASE Mount(v)
  <2>1. PICK W : Starting(W) /\ Forgets(W) /\ Queues(Open, waiting, Listeners(W) \cup {v})
    BY <1>4, MountDoes
  <2>2. Brings(Y) /\ Goes(W)
    BY <1>1, <2>1, OpensBring, StartsGo
  <2> QED  BY <1>2, <1>3, <2>2, SameAnswers, FreshOthers
<1>5. CASE Unmount(v)
  <2>1. Starting({}) /\ Forgets({}) /\ micro' = Open
    BY <1>5, UnmountDoes
  <2>2. Brings(Y) /\ Goes({})
    BY <1>1, <2>1, OpensBring, StartsGo
  <2> QED  BY <1>2, <1>3, <2>2, SameAnswers, FreshOthers
<1>6. CASE Refine(v)
  <2>1. Queues(Open, waiting, {v}) /\ channels' = channels
    BY <1>6, RefineDoes
  <2>2. Brings(Y) /\ Goes({})
    BY <1>1, <2>1, OpensBring, NoneGoes
  <2> QED  BY <1>2, <1>3, <2>2, SameAnswers, FreshOthers
<1> QED  BY <1>4, <1>5, <1>6

LEMMA FreshAsk ==
  ASSUME TypeInv, OneEach, FreshInv, NEW Q \in Bundles, Ask(Q)
  PROVE  FreshInv'
<1>1. /\ micro' = Open \o SetToSeq(Read(Q)) /\ UNCHANGED <<channels, net>>
      /\ UNCHANGED <<feedVars, heard, cuts, cached, newest>>
  BY AskDoes DEF Ask, bounds
<1>2. SetToSeq(Read(Q)) \in Seq(Tasks) /\ SetToSeq(Read(Q)) \in Seq(Looks)
  BY AskTyped DEF TypeInv
<1>3. \A i \in DOMAIN SetToSeq(Read(Q)) : SetToSeq(Read(Q))[i] \in Looks
  BY <1>2, ElementOfSeq
<1>4. PICK Y : Y = {Turn} \cup Looks
  OBVIOUS
<1>5. Brings(Y)
  BY <1>1, <1>2, <1>3, <1>4, OpenBrings
<1>6. \A t \in Looks : ~Replying(t)
  BY DEF Looks, Replying
<1>7. \A t \in Y : ~Replying(t)
  BY <1>4, <1>6, QuietTasks
<1> QED  BY <1>1, <1>5, <1>7, NoneGoes, SameAnswers, FreshOthers

\* A microtask that goes on as one that takes nothing in, or is gone.
LEMMA FreshGoesOn ==
  ASSUME TypeInv, OneEach, FreshInv, UNCHANGED <<feedVars, heard, cuts, cached, newest, net>>,
         channels' = channels, micro # <<>>,
         \/ micro' = Rest
         \/ \E t \in Tasks : ~Replying(t) /\ (micro' = Now(t) \/ micro' = Later(t))
  PROVE  FreshInv'
<1>1. micro \in Seq(Tasks)
  BY DEF TypeInv
<1>2. CASE micro' = Rest
  <2>1. Brings(Starts)
    BY <1>1, <1>2, GoneBrings
  <2> QED  BY <2>1, QuietTasks, NoneGoes, SameAnswers, FreshOthers
<1>3. ASSUME NEW t \in Tasks, ~Replying(t), micro' = Now(t) \/ micro' = Later(t)
      PROVE  FreshInv'
  <2>1. PICK Y : Y = {t} \cup Starts
    OBVIOUS
  <2>2. Brings(Y)
    BY <1>1, <1>3, <2>1, GoesOnBrings
  <2>3. \A x \in Y : ~Replying(x)
    BY <1>3, <2>1, QuietTasks
  <2> QED  BY <2>2, <2>3, NoneGoes, SameAnswers, FreshOthers
<1> QED  BY <1>2, <1>3

LEMMA FreshRecompute ==
  ASSUME TypeInv, OneEach, FreshInv, Leave \/ Start \/ Base \/ Join \/ Derive \/ Show
  PROVE  FreshInv'
<1>1. /\ micro # <<>> /\ UNCHANGED <<feedVars, heard, cuts, cached, newest, net, channels>>
  BY DEF Leave, Start, Base, Join, Derive, Show, Runs, others, bounds
<1>2. \/ micro' = Rest
      \/ \E t \in Tasks : t.job \in NoTokenJobs /\ (micro' = Now(t) \/ micro' = Later(t))
  BY ViewGoesOn
<1>3. \/ micro' = Rest
      \/ \E t \in Tasks : ~Replying(t) /\ (micro' = Now(t) \/ micro' = Later(t))
  BY <1>2, QuietTasks
<1> QED  BY <1>1, <1>3, FreshGoesOn

LEMMA FreshInclude ==
  ASSUME TypeInv, OneEach, FreshInv, Include
  PROVE  FreshInv'
<1>1. Runs("include") /\ Len(Task.kids) < Len(Includes[Task.view])
  BY IncludeDoes
<1>2. PICK W : /\ Starting(W) /\ Forgets(W)
               /\ Queues(IF CanRead(NextPlan) THEN Later(NextTask) ELSE Now(NextTask),
                         waiting, Listeners(W))
  BY IncludeDoes
<1>3. UNCHANGED <<feedVars, heard, cuts, cached, newest, net>>
  BY DEF Include, bounds
<1>4. PICK t \in Tasks : t = NextTask /\ t.job = "include"
  BY <1>1, NextTyped DEF TypeInv, Tasks
<1>5. micro # <<>> /\ micro \in Seq(Tasks)
  BY <1>1 DEF TypeInv, Runs
<1>6. \/ Queues(Now(t), waiting, Listeners(W))
      \/ Queues(Later(t), waiting, Listeners(W))
  BY <1>2, <1>4
<1>7. PICK Y : Y = {t} \cup Starts
  OBVIOUS
<1>8. Brings(Y)
  BY <1>5, <1>6, <1>7, GoesOnBrings
<1>9. \A x \in Y : ~Replying(x)
  BY <1>4, <1>7, QuietTasks DEF Replying
<1>10. Goes(W)
  BY <1>2, StartsGo
<1> QED  BY <1>3, <1>8, <1>9, <1>10, SameAnswers, FreshOthers

LEMMA FreshOneShot ==
  ASSUME TypeInv, OneEach, FreshInv, Looked \/ FallBack \/ Relate \/ EndQuery
  PROVE  FreshInv'
<1>1. /\ micro # <<>> /\ UNCHANGED <<feedVars, heard, cuts, cached, newest, net, channels>>
  BY DEF Looked, FallBack, Relate, EndQuery, Runs, bounds
<1>2. \A q \in Queries : Relating(q) \in Tasks /\ Relating(q) \in Relates
  BY RelatingTyped DEF Tasks
<1>3. \A t \in Relates \cup Looks \cup Falls : t \in Tasks /\ ~Replying(t)
  BY DEF Relates, Looks, Falls, Replying, Tasks
<1>4. \/ micro' = Rest
      \/ \E t \in Relates \cup Looks \cup Falls : micro' = Now(t) \/ micro' = Later(t)
  <2>1. CASE Looked
    BY <1>2, <2>1, LookedDoes
  <2>2. CASE FallBack
    BY <1>2, <2>2, FallBackDoes
  <2>3. CASE Relate
    <3>1. /\ Task \in Relates /\ Task.query \in Queries
          /\ \/ micro' = Now(Task) \/ micro' = Rest
             \/ /\ NextWanted(Task.query) \in Plans
                /\ micro' = Later(Looking(Task.query, NextWanted(Task.query)))
      BY <2>3, RelateDoes
    <3>2. NextWanted(Task.query) \in Plans => Looking(Task.query, NextWanted(Task.query)) \in Looks
      BY <3>1, LookingTyped DEF TypeInv
    <3> QED  BY <3>1, <3>2
  <2>4. CASE EndQuery
    BY <1>2, <2>4, EndQueryDoes
  <2> QED  BY <2>1, <2>2, <2>3, <2>4
<1> QED  BY <1>1, <1>3, <1>4, FreshGoesOn

LEMMA FreshFlush ==
  ASSUME TypeInv, OneEach, FreshInv, Flush
  PROVE  FreshInv'
<1>1. /\ net' = Append(net, Message(batch)) /\ UNCHANGED <<channels, micro>>
      /\ UNCHANGED <<feedVars, heard, cuts, cached, newest>>
  BY FlushDoes DEF Flush, bounds
<1>2. net \in Seq(Messages)
  BY DEF TypeInv, NetTyped
<1>3. \A i \in DOMAIN net' : (i \in DOMAIN net /\ net'[i] = net[i]) \/ net'[i] = Message(batch)
  BY <1>1, <1>2
<1>4. DOMAIN Message(batch).answers = {}
  BY DEF Message
<1>5. AnswersStay
  BY <1>3, <1>4 DEF AnswersStay
<1>6. Brings({})
  BY <1>1 DEF Brings
<1> QED  BY <1>1, <1>5, <1>6, NoneGoes, FreshOthers

----------------------------------------------------------------------------
(* What is taken in.                                                       *)

LEMMA HeadSound ==
  ASSUME TypeInv, FreshInv, micro # <<>>, Replying(Task)
  PROVE  /\ Task \in Tasks /\ Sound(Task.call, Task.answer) /\ TakenIn(Task)
         /\ Task.call \in Calls /\ Task.call.plan \in Plans /\ Task.answer \in Replies
<1>1. Task \in Tasks /\ Task = micro[1] /\ 1 \in DOMAIN micro
  BY HeadIs, EmptySeq DEF TypeInv
<1>2. Task \notin Unsound
  BY <1>1 DEF FreshInv, AnswersInv, None
<1> QED  BY <1>1, <1>2, ReplyIs DEF Unsound

LEMMA FreshAnswer ==
  ASSUME TypeInv, OneEach, FreshInv, Answer
  PROVE  FreshInv'
<1>1. /\ micro \in Seq(Tasks) /\ micro # <<>> /\ Task \in Incoming /\ Replying(Task)
      /\ UNCHANGED <<feedVars, heard, cuts, channels, net>>
  BY AnswerDoes DEF Runs, TypeInv, Replying, Answer, bounds
<1>2. /\ Sound(Task.call, Task.answer) /\ Task.call.plan \in Plans
  BY <1>1, HeadSound
<1>3. PICK p \in Plans : p = Task.call.plan
  BY <1>2
<1>4. made' = made /\ FedInv'
  BY <1>1, FedStays DEF FreshInv, feedVars
<1>5. \A r \in Plans : Truth(r)' = Truth(r)
  BY <1>4 DEF Truth
<1>6. \A r \in Plans : /\ newest[r] \in Nat /\ Truth(r) \in Nat
                       /\ cached[r] \in Results /\ cached[r] \in Nat
  BY TruthIs, ResultsAre DEF TypeInv, CacheTyped, Versions
<1>7. \A r \in Plans : r # p \/ ~Keeps(Task) => cached'[r] = cached[r] /\ newest'[r] = newest[r]
  BY <1>3, AnswerDoes DEF TypeInv, CacheTyped
<1>8. Keeps(Task) => /\ Task.answer.rows \in Nat /\ Task.answer.rows # Unknown
                     /\ cached'[p] = Task.answer.rows /\ Task.answer.rows <= Truth(p)
                     /\ newest'[p] = IF newest[p] < Task.answer.rows THEN Task.answer.rows
                                     ELSE newest[p]
  <2> SUFFICES ASSUME Keeps(Task)
               PROVE  /\ Task.answer.rows \in Nat /\ Task.answer.rows # Unknown
                      /\ cached'[p] = Task.answer.rows /\ Task.answer.rows <= Truth(p)
                      /\ newest'[p] = IF newest[p] < Task.answer.rows THEN Task.answer.rows
                                      ELSE newest[p]
    OBVIOUS
  <2>1. /\ Task.answer.rows \in Versions
        /\ cached' = [cached EXCEPT ![Task.call.plan] = Task.answer.rows]
        /\ newest' = [newest EXCEPT ![Task.call.plan] =
                        IF @ < Task.answer.rows THEN Task.answer.rows ELSE @]
    BY AnswerDoes
  <2>2. Task.answer.rows \in Nat /\ Task.answer.rows # Unknown
    BY <2>1, ResultsAre DEF Versions
  <2>3. Task.answer.rows <= Truth(p)
    BY <1>2, <1>3 DEF Sound, Keeps
  <2>4. cached'[p] = Task.answer.rows
    BY <1>3, <2>1 DEF TypeInv, CacheTyped
  <2>5. newest'[p] = IF newest[p] < Task.answer.rows THEN Task.answer.rows ELSE newest[p]
    BY <1>3, <2>1 DEF TypeInv, CacheTyped
  <2> QED  BY <2>2, <2>3, <2>4, <2>5
<1>9. \A r \in Plans : Ages(r)
  BY <1>5, <1>6, <1>7, <1>8 DEF Ages, Had
<1>10. Steady
  BY <1>1, <1>9 DEF Steady
<1>11. RowsInv'
  <2> SUFFICES ASSUME NEW r \in Plans
               PROVE  /\ Had(r)' => cached'[r] <= newest'[r]
                      /\ newest'[r] <= Truth(r)'
                      /\ channels'[r].last # Unknown => channels'[r].last <= Truth(r)'
                      /\ channels'[r].synced => /\ channels'[r].last # Unknown
                                                /\ r \notin Declined => Had(r)'
    BY DEF RowsInv, Declined, CanFulfill
  <2>1. Had(r)' => cached'[r] <= newest'[r]
    BY <1>3, <1>6, <1>7, <1>8 DEF Had, RowsInv, FreshInv
  <2>2. newest'[r] <= Truth(r)'
    BY <1>3, <1>5, <1>6, <1>7, <1>8 DEF RowsInv, FreshInv
  <2>3. Had(r) => Had(r)'
    BY <1>9 DEF Ages
  <2> QED  BY <1>1, <1>5, <2>1, <2>2, <2>3 DEF RowsInv, FreshInv
<1>12. ChannelsInv'
  <2> SUFFICES ASSUME NEW r \in Plans, Covers(r, Level(r)) PROVE Covers(r, Level(r))'
    BY <1>1 DEF ChannelsInv, FreshInv, Calm
  <2>1. CASE r \in Declined
    BY <1>1, <2>1 DEF Covers, Level, Declined, CanFulfill
  <2>2. CASE r \notin Declined
    <3>1. \A c \in heard : c[1] = r => c[2] <= newest[r]
      BY <2>2 DEF Covers, Level
    <3>2. newest[r] \in Nat /\ newest'[r] \in Nat /\ newest[r] <= newest'[r]
      BY <1>6, <1>9 DEF Ages
    <3>3. \A c \in heard : c[2] \in Nat
      BY LiveAssumption DEF FreshInv, FedInv, TypeInv, SceneTyped
    <3>4. \A c \in heard' : c[1] = r => c[2] <= newest'[r]
      BY <1>1, <3>1, <3>2, <3>3
    <3> QED  BY <2>2, <3>4 DEF Covers, Level, Declined, CanFulfill
  <2> QED  BY <2>1, <2>2
<1>13. PICK e \in Tasks : e = EndOf(Task)
  BY <1>1, EndTyped DEF Tasks
<1>14. /\ e.job = "ended" /\ e.call = Task.call /\ e.answer = Task.answer
       /\ e.call \in Calls /\ e.answer \in Replies
  BY <1>1, <1>13, EndTyped
<1>15. PICK Y : Y = {e} \cup Starts
  OBVIOUS
<1>16. Brings(Y)
  <2>1. PICK woken : \/ Queues(Later(EndOf(Task)), waiting, woken)
                     \/ Queues(Now(EndOf(Task)), waiting, woken)
    BY AnswerDoes
  <2> QED  BY <1>1, <1>13, <1>15, <2>1, GoesOnBrings
<1>17. Sound(e.call, e.answer)'
  <2>1. Task.call.by = "channel" => channels[Task.call.plan].refreshing
    <3>1. Task = micro[1] /\ 1 \in DOMAIN micro
      BY <1>1, HeadIs, EmptySeq
    <3> QED  BY <1>1, <3>1, CallsRefresh
  <2> QED  BY <1>2, <1>10, <1>14, <2>1, SoundKept
<1>18. TakenIn(e)'
  <2>1. Keeps(e)' => Keeps(Task)
    BY <1>14 DEF Keeps, Declined, CanFulfill
  <2>2. Keeps(Task) => cached'[p] # Unknown /\ Task.answer.rows <= newest'[p]
    BY <1>6, <1>8
  <2> QED  BY <1>3, <1>14, <2>1, <2>2 DEF TakenIn, Had
<1>19. Y \cap Unsound' = {}
  <2>1. e \notin Unsound'
    BY <1>17, <1>18 DEF Unsound
  <2>2. \A t \in Starts : t \notin Unsound'
    BY QuietTasks DEF Unsound, Replying
  <2> QED  BY <1>15, <2>1, <2>2
<1>20. None(micro, Unsound)'
  BY <1>10, <1>16, <1>19, TasksStaySound DEF FreshInv, AnswersInv, None
<1>21. NetSound'
  BY <1>1, <1>10, SameAnswers, NetStaysSound DEF FreshInv, AnswersInv
<1> QED  BY <1>4, <1>11, <1>12, <1>20, <1>21 DEF FreshInv, AnswersInv

LEMMA FreshEndRefresh ==
  ASSUME TypeInv, OneEach, FreshInv, EndRefresh
  PROVE  FreshInv'
<1>1. /\ micro \in Seq(Tasks) /\ micro # <<>> /\ Task.job = "ended" /\ Replying(Task)
      /\ UNCHANGED <<feedVars, heard, cuts, cached, newest, net>>
      /\ Task.call.plan \in Plans /\ Task.answer \in Replies
      /\ Queues(Rest, waiting, IF Alive(Task) THEN Listeners({Task.call.plan}) ELSE {})
  BY EndRefreshDoes DEF Runs, TypeInv, Replying, EndRefresh, bounds
<1>2. Brings(Starts)
  BY <1>1, GoneBrings
<1>3. CASE ~Alive(Task)
  <2>1. channels' = channels
    BY <1>3, EndRefreshDoes
  <2> QED  BY <1>1, <1>2, <2>1, QuietTasks, NoneGoes, SameAnswers, FreshOthers
<1>4. CASE Alive(Task)
  <2>1. PICK p \in Plans : p = Task.call.plan
    BY <1>1
  <2>2. /\ Sound(Task.call, Task.answer) /\ TakenIn(Task) /\ Task.call.by = "channel"
    BY <1>1, <1>4, HeadSound DEF Alive
  <2>3. channels[p].refreshing
    <3>1. Task = micro[1] /\ 1 \in DOMAIN micro
      BY <1>1, HeadIs, EmptySeq
    <3> QED  BY <1>1, <2>1, <2>2, <3>1, CallsRefresh
  <2>4. /\ channels'[p] = Refreshed(channels[p], Task.answer)
        /\ \A r \in Plans \ {p} : channels'[r] = channels[r]
    BY <1>4, <2>1, EndRefreshDoes DEF TypeInv, ChannelsTyped
  <2>5. /\ ~channels'[p].refreshing /\ channels'[p].behind = channels[p].behind
        /\ channels'[p].stored = channels[p].stored
        /\ Task.answer.verdict = "ok" =>
             channels'[p].synced /\ channels'[p].online /\ channels'[p].last = Task.answer.rows
        /\ Task.answer.verdict # "ok" =>
             /\ channels'[p].synced = channels[p].synced /\ channels'[p].last = channels[p].last
             /\ ~channels'[p].online \/ channels'[p].error
    <3>1. channels[p] \in WideChannel
      BY ChannelIs DEF Channel, WideChannel
    <3> QED  BY <1>1, <2>4, <3>1, RefreshedTyped
  <2>6. made' = made /\ FedInv'
    BY <1>1, FedStays DEF FreshInv, feedVars
  <2>7. \A r \in Plans : Ages(r) /\ Truth(r)' = Truth(r) /\ Had(r)' = Had(r)
    BY <1>1, <2>6, SameAges
  <2>8. Steady
    BY <1>1, <2>4, <2>5, <2>7 DEF Steady
  <2>9. Task.answer.verdict = "ok" => /\ Task.answer.rows \in Versions
                                      /\ Task.answer.rows # Unknown /\ Task.answer.rows <= Truth(p)
    BY <1>1, <2>1, <2>2, ResultsAre DEF Replies, Sound
  <2>10. Task.answer.verdict = "ok" /\ p \notin Declined =>
           Had(p) /\ Task.answer.rows <= newest[p]
    BY <1>1, <2>1, <2>2 DEF TakenIn, Keeps
  <2>11. RowsInv'
    <3> SUFFICES ASSUME NEW r \in Plans
                 PROVE  /\ Had(r)' => cached'[r] <= newest'[r]
                        /\ newest'[r] <= Truth(r)'
                        /\ channels'[r].last # Unknown => channels'[r].last <= Truth(r)'
                        /\ channels'[r].synced => /\ channels'[r].last # Unknown
                                                  /\ r \notin Declined => Had(r)'
      BY DEF RowsInv, Declined, CanFulfill
    <3>1. CASE r # p
      BY <1>1, <2>4, <2>7, <3>1 DEF FreshInv, RowsInv
    <3>2. CASE r = p
      BY <1>1, <2>5, <2>7, <2>9, <2>10, <3>2 DEF FreshInv, RowsInv
    <3> QED  BY <3>1, <3>2
  <2>12. \A r \in Plans \ {p} : Covers(r, Level(r))' = Covers(r, Level(r))
    BY <1>1, <2>4 DEF Covers, Level, Declined, CanFulfill
  <2>13. Calm(p)' => Covers(p, Level(p))'
    <3> SUFFICES ASSUME Calm(p)' PROVE Covers(p, Level(p))'
      OBVIOUS
    <3>1. Task.answer.verdict = "ok" /\ ~channels[p].behind
      BY <2>5 DEF Calm
    <3>2. \A c \in heard : c[1] = p => c[2] <= Task.answer.rows
      BY <2>1, <2>2, <3>1 DEF Sound, Covers
    <3>3. CASE p \in Declined
      BY <1>1, <2>5, <3>1, <3>2, <3>3 DEF Covers, Level, Declined, CanFulfill
    <3>4. CASE p \notin Declined
      <4>1. Task.answer.rows <= newest[p] /\ newest[p] \in Nat /\ Task.answer.rows \in Nat
        BY <2>9, <2>10, <3>1, <3>4 DEF TypeInv, CacheTyped, Versions
      <4>2. \A c \in heard : c[2] \in Nat
        BY LiveAssumption DEF FreshInv, FedInv, TypeInv, SceneTyped
      <4>3. \A c \in heard' : c[1] = p => c[2] <= newest'[p]
        BY <1>1, <3>2, <4>1, <4>2
      <4> QED  BY <3>4, <4>3 DEF Covers, Level, Declined, CanFulfill
    <3> QED  BY <3>3, <3>4
  <2>14. ChannelsInv'
    <3> SUFFICES ASSUME NEW r \in Plans
                 PROVE  /\ ~channels'[r].stored => ~channels'[r].synced /\ ~channels'[r].refreshing
                        /\ channels'[r].stored /\ ~channels'[r].refreshing =>
                             /\ channels'[r].synced \/ ~channels'[r].online \/ channels'[r].error
                             /\ Calm(r)' => Covers(r, Level(r))'
      BY DEF ChannelsInv
    <3>1. CASE r # p
      BY <2>4, <2>12, <3>1 DEF FreshInv, ChannelsInv, Calm
    <3>2. CASE r = p
      <4>1. channels'[p].stored
        BY <2>3, <2>5 DEF FreshInv, ChannelsInv
      <4>2. channels'[p].synced \/ ~channels'[p].online \/ channels'[p].error
        BY <2>5
      <4> QED  BY <2>13, <3>2, <4>1, <4>2
    <3> QED  BY <3>1, <3>2
  <2>15. NetSound'
    BY <1>1, <2>8, SameAnswers, NetStaysSound DEF FreshInv, AnswersInv
  <2>16. Starts \cap Unsound' = {}
    BY QuietTasks DEF Unsound, Replying
  <2>17. None(micro, Unsound)'
    BY <1>2, <2>8, <2>16, TasksStaySound DEF FreshInv, AnswersInv, None
  <2> QED  BY <2>6, <2>11, <2>14, <2>15, <2>17 DEF FreshInv, AnswersInv
<1> QED  BY <1>3, <1>4

----------------------------------------------------------------------------
(* What is sent and answered.                                              *)

\* Steps that change no channel and hear of nothing.
LEMMA FreshSent ==
  ASSUME TypeInv, OneEach, FreshInv,
         UNCHANGED <<feedVars, heard, cuts, cached, newest, channels>>,
         NetSound', None(micro, Unsound)'
  PROVE  FreshInv'
<1>1. made' = made /\ FedInv'
  BY FedStays DEF FreshInv, feedVars
<1>2. RowsInv' /\ ChannelsInv'
  BY <1>1, NoneGoes, ChannelsGo DEF FreshInv
<1> QED  BY <1>1, <1>2 DEF FreshInv, AnswersInv

LEMMA UnchangedSteady ==
  ASSUME TypeInv, UNCHANGED <<made, heard, cached, newest, channels>>
  PROVE  Steady
  BY SameAges DEF Steady

LEMMA FreshServe ==
  ASSUME TypeInv, OneEach, FreshInv, NEW i \in DOMAIN net, NEW refused, Serve(i, refused)
  PROVE  FreshInv'
<1>1. /\ DOMAIN net' = DOMAIN net /\ \A k \in DOMAIN net \ {i} : net'[k] = net[k]
      /\ net'[i].calls = net[i].calls
      /\ net'[i].answers = [j \in DOMAIN net[i].calls |->
                              IF j \in refused THEN Fault("error")
                              ELSE Got(Truth(net[i].calls[j].plan))]
      /\ UNCHANGED <<channels, micro>>
      /\ UNCHANGED <<feedVars, heard, cuts, cached, newest>>
  <2>1. UNCHANGED <<feedVars, heard, cuts, cached, newest>>
    BY DEF Serve
  <2>2. micro' = micro
    BY DEF Serve
  <2> QED  BY <2>1, <2>2, ServeDoes
<1>2. made' = made /\ Steady
  BY <1>1, UnchangedSteady DEF feedVars
<1>3. \A p : Truth(p)' = Truth(p) /\ Truth(p) \in Nat
  <2>1. \A p : Truth(p)' = Truth(p)
    BY <1>2 DEF Truth
  <2>2. \A p : Truth(p) \in Nat
    BY TruthIs DEF TypeInv, Versions
  <2> QED  BY <2>1, <2>2
<1>4. ASSUME NEW k \in DOMAIN net', NEW j \in DOMAIN net'[k].answers
      PROVE  Sound(net[k].calls[j], net[k].answers[j])'
  <2>1. CASE k # i
    <3>1. net'[k] = net[k] /\ k \in DOMAIN net /\ j \in DOMAIN net[k].answers
      BY <1>1, <1>4, <2>1
    <3>2. PICK call \in Calls, answer \in Replies :
            call = net[k].calls[j] /\ answer = net[k].answers[j] /\ j \in DOMAIN net[k].calls
      BY <3>1, AnswersTyped
    <3>3. Sound(call, answer) /\ (call.by = "channel" => channels[call.plan].refreshing)
      BY <3>1, <3>2, CallsRefresh DEF FreshInv, AnswersInv, NetSound
    <3>4. Sound(call, answer)'
      BY <1>2, <3>3, SoundKept
    <3> QED  BY <3>1, <3>2, <3>4 DEF Sound, Covers, Truth
  <2>2. CASE k = i
    <3>1. j \in DOMAIN net[i].calls /\ net'[i].calls[j] = net[i].calls[j]
      BY <1>1, <1>4, <2>2
    <3>2. CASE j \in refused
      <4>1. net'[i].answers[j].verdict = "error"
        BY <1>1, <3>1, <3>2 DEF Fault
      <4> QED  BY <2>2, <4>1 DEF Sound
    <3>3. CASE j \notin refused
      <4>1. net'[i].answers[j].rows = Truth(net[i].calls[j].plan)
        BY <1>1, <3>1, <3>3 DEF Got
      <4>2. PICK p : p = net[i].calls[j].plan
        OBVIOUS
      <4>3. Covers(p, Truth(p))
        BY DEF FreshInv, FedInv, Covers
      <4>4. Covers(p, Truth(p))'
        BY <1>1, <1>3, <4>3 DEF Covers
      <4>5. Truth(p)' <= Truth(p)'
        BY <1>3
      <4>6. net'[i].answers[j].rows = Truth(p)' /\ net'[i].calls[j].plan = p
        BY <1>3, <3>1, <4>1, <4>2
      <4> QED  BY <2>2, <4>4, <4>5, <4>6 DEF Sound, Covers
    <3> QED  BY <3>2, <3>3
  <2> QED  BY <2>1, <2>2
<1>5. NetSound'
  BY <1>4 DEF NetSound
<1>6. Brings({})
  BY <1>1 DEF Brings
<1>7. None(micro, Unsound)'
  BY <1>2, <1>6, TasksStaySound DEF FreshInv, AnswersInv, None
<1> QED  BY <1>1, <1>5, <1>7, FreshSent

LEMMA FreshArrives ==
  ASSUME TypeInv, OneEach, FreshInv, NEW i \in DOMAIN net, Respond(i) \/ Drop(i)
  PROVE  FreshInv'
<1>1. /\ net' = RemoveAt(net, i) /\ micro' \in Seq(Incoming) /\ DOMAIN micro' = DOMAIN net[i].calls
      /\ \A j \in DOMAIN micro' : /\ micro'[j].call = net[i].calls[j]
                                  /\ micro'[j].answer.verdict = "ok" =>
                                       /\ j \in DOMAIN net[i].answers
                                       /\ micro'[j].answer = net[i].answers[j]
      /\ UNCHANGED channels
      /\ UNCHANGED <<feedVars, heard, cuts, cached, newest>>
  BY ArrivesDoes DEF Respond, Drop, bounds
<1>2. made' = made /\ Steady
  BY <1>1, UnchangedSteady DEF feedVars
<1>3. AnswersStay
  <2>1. net \in Seq(Messages)
    BY DEF TypeInv, NetTyped
  <2>2. \A k \in DOMAIN net' : \E m \in DOMAIN net : net'[k] = net[m]
    <3>1. /\ Len(RemoveAt(net, i)) = Len(net) - 1 /\ RemoveAt(net, i) \in Seq(Messages)
          /\ \A k \in DOMAIN RemoveAt(net, i) :
               RemoveAt(net, i)[k] = net[IF k < i THEN k ELSE k + 1]
      BY <2>1, RemoveIs
    <3> QED  BY <1>1, <2>1, <3>1
  <2> QED  BY <2>2 DEF AnswersStay
<1>4. NetSound'
  BY <1>2, <1>3, NetStaysSound DEF FreshInv, AnswersInv
<1>5. ASSUME NEW j \in DOMAIN micro' PROVE micro'[j] \notin Unsound'
  <2>1. PICK t \in Incoming : t = micro'[j]
    BY <1>1, ElementOfSeq
  <2>2. t.job = "answer" /\ t \in Tasks
    BY DEF Incoming, Tasks
  <2>3. Sound(t.call, t.answer)'
    <3>1. CASE t.answer.verdict # "ok"
      BY <3>1 DEF Sound
    <3>2. CASE t.answer.verdict = "ok"
      <4>1. /\ j \in DOMAIN net[i].answers /\ j \in DOMAIN net[i].calls
            /\ t.call = net[i].calls[j] /\ t.answer = net[i].answers[j]
        BY <1>1, <1>5, <2>1, <3>2
      <4>2. t.call \in Calls /\ t.answer \in Replies
        BY <4>1, AnswersTyped
      <4>3. Sound(t.call, t.answer) /\ (t.call.by = "channel" => channels[t.call.plan].refreshing)
        BY <4>1, CallsRefresh DEF FreshInv, AnswersInv, NetSound
      <4> QED  BY <1>2, <4>2, <4>3, SoundKept
    <3> QED  BY <3>1, <3>2
  <2>4. TakenIn(t)'
    BY <2>2 DEF TakenIn
  <2> QED  BY <2>1, <2>3, <2>4 DEF Unsound
<1>6. None(micro, Unsound)'
  BY <1>5 DEF None
<1> QED  BY <1>1, <1>4, <1>6, FreshSent

LEMMA FreshRetire ==
  ASSUME TypeInv, OneEach, FreshInv, NEW p \in Plans, Retire(p)
  PROVE  FreshInv'
<1>1. /\ micro = <<>> /\ micro' = micro
      /\ channels' = [channels EXCEPT ![p] = NoChannel]
      /\ DOMAIN net' = DOMAIN net
      /\ \A i \in DOMAIN net : /\ net'[i].calls = Orphans(net[i].calls, p)
                               /\ net'[i].answers = net[i].answers
      /\ UNCHANGED <<feedVars, heard, cuts, cached, newest>>
  BY RetireDoes DEF Retire, bounds, Quiet
<1>2. made' = made /\ FedInv'
  BY <1>1, FedStays DEF FreshInv, feedVars
<1>3. channels'[p] = NoChannel /\ \A r \in Plans \ {p} : channels'[r] = channels[r]
  BY <1>1 DEF TypeInv, ChannelsTyped
<1>4. /\ ~channels'[p].stored /\ ~channels'[p].synced /\ ~channels'[p].refreshing
      /\ channels'[p].last = Unknown
  BY <1>3 DEF NoChannel
<1>5. \A r : Truth(r)' = Truth(r) /\ Had(r)' = Had(r)
  BY <1>1, <1>2 DEF Truth, Had
<1>6. RowsInv'
  <2> SUFFICES ASSUME NEW r \in Plans
               PROVE  /\ Had(r)' => cached'[r] <= newest'[r]
                      /\ newest'[r] <= Truth(r)'
                      /\ channels'[r].last # Unknown => channels'[r].last <= Truth(r)'
                      /\ channels'[r].synced => /\ channels'[r].last # Unknown
                                                /\ r \notin Declined => Had(r)'
    BY DEF RowsInv, Declined, CanFulfill
  <2>1. CASE r # p
    BY <1>1, <1>3, <1>5, <2>1 DEF FreshInv, RowsInv
  <2>2. CASE r = p
    BY <1>1, <1>4, <1>5, <2>2 DEF FreshInv, RowsInv
  <2> QED  BY <2>1, <2>2
<1>7. ChannelsInv'
  <2> SUFFICES ASSUME NEW r \in Plans
               PROVE  /\ ~channels'[r].stored => ~channels'[r].synced /\ ~channels'[r].refreshing
                      /\ channels'[r].stored /\ ~channels'[r].refreshing =>
                           /\ channels'[r].synced \/ ~channels'[r].online \/ channels'[r].error
                           /\ Calm(r)' => Covers(r, Level(r))'
    BY DEF ChannelsInv
  <2>1. CASE r # p
    <3>1. channels'[r] = channels[r] /\ Covers(r, Level(r))' = Covers(r, Level(r))
      BY <1>1, <1>3, <2>1 DEF Covers, Level, Declined, CanFulfill
    <3> QED  BY <3>1 DEF FreshInv, ChannelsInv, Calm
  <2>2. CASE r = p
    BY <1>4, <2>2
  <2> QED  BY <2>1, <2>2
<1>8. ASSUME NEW i \in DOMAIN net', NEW j \in DOMAIN net'[i].answers
      PROVE  Sound(net[i].calls[j], net[i].answers[j])'
  <2>1. i \in DOMAIN net /\ j \in DOMAIN net[i].answers /\ net'[i].answers[j] = net[i].answers[j]
    BY <1>1, <1>8
  <2>2. PICK call \in Calls, answer \in Replies :
          call = net[i].calls[j] /\ answer = net[i].answers[j] /\ j \in DOMAIN net[i].calls
    BY <2>1, AnswersTyped
  <2>3. Sound(call, answer)
    BY <2>1, <2>2 DEF FreshInv, AnswersInv, NetSound
  <2>4. net'[i].calls[j] = Orphan(call, p)
    BY <1>1, <2>1, <2>2 DEF Orphans
  <2>5. CASE call = Call("channel", p)
    <3>1. net'[i].calls[j].by # "channel" /\ net'[i].calls[j].plan = call.plan
      BY <2>4, <2>5 DEF Orphan, Call, Gone
    <3> QED  BY <1>5, <2>1, <2>2, <2>3, <3>1 DEF Sound
  <2>6. CASE call # Call("channel", p)
    <3>1. net'[i].calls[j] = call
      BY <2>4, <2>6 DEF Orphan
    <3>2. call.by = "channel" => call.plan \in Plans \ {p}
      BY <2>6 DEF Calls, Call
    <3>3. call.by = "channel" => channels'[call.plan] = channels[call.plan]
      BY <1>3, <3>2
    <3>4. Covers(call.plan, answer.rows)' = Covers(call.plan, answer.rows)
      BY <1>1 DEF Covers
    <3>5. Sound(call, answer)'
      BY <1>5, <2>3, <3>3, <3>4 DEF Sound
    <3> QED  BY <2>1, <2>2, <3>1, <3>5 DEF Sound, Covers, Truth
  <2> QED  BY <2>5, <2>6
<1>9. NetSound'
  BY <1>8 DEF NetSound
<1>10. None(micro, Unsound)'
  BY <1>1 DEF None
<1> QED  BY <1>2, <1>6, <1>7, <1>9, <1>10 DEF FreshInv, AnswersInv

----------------------------------------------------------------------------
(* The feed.                                                               *)

LEMMA FreshHear ==
  ASSUME TypeInv, FeedTyped, OneEach, FreshInv, Hear
  PROVE  FreshInv'
<1>1. events[Me] \in Seq(made) /\ Me \in Clients
  BY LiveAssumption DEF FeedTyped
<1>2. /\ micro = <<>> /\ events[Me] # <<>> /\ events' = [events EXCEPT ![Me] = Tail(@)]
      /\ UNCHANGED <<made, bus, stream, cuts, cached, newest, net>>
      /\ heard' = heard \cup {Head(events[Me])}
  BY DEF Hear, Takes, Quiet, bounds
<1>3. PICK change \in made : change = Head(events[Me])
  BY <1>1, <1>2, EventTyped
<1>4. PICK p \in Plans, n \in Versions : p = change[1] /\ n = change[2]
  BY <1>1, <1>2, <1>3, EventTyped
<1>5. PICK idle : idle = {r \in ChannelsOf(ResourceOf[p]) : ~channels[r].refreshing}
  OBVIOUS
<1>6. PICK missed \in BOOLEAN : missed <=> channels[p].refreshing /\ AnsweredBefore(p, n)
  OBVIOUS
<1>7. /\ Starting(idle) /\ Queues(<<>>, waiting, Listeners(idle))
      /\ \A r \in Plans : channels'[r].behind <=>
           (missed /\ r = p) \/ (r \notin idle /\ channels[r].behind)
  <2>1. /\ Starting(idle) /\ Queues(<<>>, waiting, Listeners(idle))
        /\ \A r \in Plans : channels'[r].behind =
             \/ (channels[p].refreshing /\ AnsweredBefore(p, n)) /\ r = p
             \/ r \notin idle /\ channels[r].behind
    BY <1>1, <1>3, <1>4, <1>5, HearDoes
  <2> QED  BY <1>6, <2>1
<1>8. \A r \in Plans : Seen(channels[r], channels'[r], r \in idle)
  BY <1>7 DEF Starting
<1>9. \A r \in Plans : Truth(r)' = Truth(r) /\ Had(r)' = Had(r)
  BY <1>2 DEF Truth, Had
<1>10. heard' = heard \cup {change}
  BY <1>2, <1>3
\* Only p was heard of.
<1>11. \A r, m : r # p \/ n <= m => (Covers(r, m)' <=> Covers(r, m))
  BY <1>4, <1>10 DEF Covers
<1>12. FedInv'
  <2>1. \A c \in made : Carried(c) => Carried(c)'
    <3> SUFFICES ASSUME NEW c \in made, Carried(c) PROVE Carried(c)'
      OBVIOUS
    <3>1. CASE \E k \in DOMAIN events[Me] : events[Me][k] = c
      <4>1. PICK k \in DOMAIN events[Me] : events[Me][k] = c
        BY <3>1
      <4>2. CASE k = 1
        <5>1. c = change
          BY <1>1, <1>3, <4>1, <4>2
        <5> QED  BY <1>10, <5>1 DEF Carried
      <4>3. CASE k # 1
        <5>1. events'[Me] = Tail(events[Me])
          BY <1>1, <1>2 DEF FeedTyped
        <5>2. k - 1 \in DOMAIN Tail(events[Me]) /\ Tail(events[Me])[k - 1] = events[Me][k]
          BY <1>1, <1>2, <4>3
        <5> QED  BY <4>1, <5>1, <5>2 DEF Carried
      <4> QED  BY <4>2, <4>3
    <3>2. CASE ~\E k \in DOMAIN events[Me] : events[Me][k] = c
      BY <1>2, <1>10, <3>2 DEF Carried
    <3> QED  BY <3>1, <3>2
  <2>2. \A r : Truth(r)' = Truth(r)
    BY <1>2 DEF Truth
  <2> QED  BY <1>2, <1>10, <2>1, <2>2 DEF FreshInv, FedInv
<1>13. RowsInv'
  <2> SUFFICES ASSUME NEW r \in Plans
               PROVE  /\ Had(r)' => cached'[r] <= newest'[r]
                      /\ newest'[r] <= Truth(r)'
                      /\ channels'[r].last # Unknown => channels'[r].last <= Truth(r)'
                      /\ channels'[r].synced => /\ channels'[r].last # Unknown
                                                /\ r \notin Declined => Had(r)'
    BY DEF RowsInv, Declined, CanFulfill
  <2>1. channels'[r].last = channels[r].last /\ channels'[r].synced = channels[r].synced
    BY <1>8 DEF Seen
  <2> QED  BY <1>2, <1>9, <2>1 DEF FreshInv, RowsInv
<1>14. ChannelsInv'
  <2> SUFFICES ASSUME NEW r \in Plans
               PROVE  /\ ~channels'[r].stored => ~channels'[r].synced /\ ~channels'[r].refreshing
                      /\ channels'[r].stored /\ ~channels'[r].refreshing =>
                           /\ channels'[r].synced \/ ~channels'[r].online \/ channels'[r].error
                           /\ Calm(r)' => Covers(r, Level(r))'
    BY DEF ChannelsInv
  <2>1. /\ channels[r].refreshing \in BOOLEAN
        /\ ~channels[r].stored => ~channels[r].synced /\ ~channels[r].refreshing
        /\ channels[r].stored /\ ~channels[r].refreshing =>
             /\ channels[r].synced \/ ~channels[r].online \/ channels[r].error
             /\ Calm(r) => Covers(r, Level(r))
    BY ChannelIs DEF FreshInv, ChannelsInv
  <2>2. Seen(channels[r], channels'[r], r \in idle)
    BY <1>8
  <2>3. ~channels'[r].stored => ~channels'[r].synced /\ ~channels'[r].refreshing
    BY <2>1, <2>2 DEF Seen
  <2>4. ASSUME channels'[r].stored, ~channels'[r].refreshing
        PROVE  /\ channels'[r].synced \/ ~channels'[r].online \/ channels'[r].error
               /\ Calm(r)' => Covers(r, Level(r))'
    <3>1. channels[r].stored /\ ~channels[r].refreshing /\ r \notin idle
      BY <2>1, <2>2, <2>4 DEF Seen
    <3>2. r # p
      BY <1>5, <3>1 DEF ChannelsOf, Stored, Store
    <3>3. Level(r)' = Level(r)
      BY <1>2, <2>2 DEF Level, Seen, Declined, CanFulfill
    <3>4. Covers(r, Level(r))' <=> Covers(r, Level(r))
      <4>1. PICK m : m = Level(r)
        OBVIOUS
      <4>2. Covers(r, m)' <=> Covers(r, m)
        BY <1>11, <3>2
      <4> QED  BY <3>3, <4>1, <4>2 DEF Covers
    <3>5. channels'[r].behind <=> channels[r].behind
      BY <1>7, <3>1, <3>2
    <3> QED  BY <2>1, <2>2, <3>1, <3>4, <3>5 DEF Seen, Calm
  <2> QED  BY <2>3, <2>4
<1>15. ASSUME NEW i \in DOMAIN net', NEW j \in DOMAIN net'[i].answers
       PROVE  Sound(net[i].calls[j], net[i].answers[j])'
  <2>1. i \in DOMAIN net /\ j \in DOMAIN net[i].answers
    BY <1>2, <1>15
  <2>2. PICK call \in Calls, answer \in Replies :
          call = net[i].calls[j] /\ answer = net[i].answers[j] /\ j \in DOMAIN net[i].calls
    BY <2>1, AnswersTyped
  <2>3. Sound(call, answer) /\ call.plan \in Plans
    BY <2>1, <2>2, CallsRefresh DEF FreshInv, AnswersInv, NetSound
  <2>4. ASSUME answer.verdict = "ok", call.by = "channel"
        PROVE  channels'[call.plan].behind \/ Covers(call.plan, answer.rows)'
    <3>1. channels[call.plan].refreshing /\ call.plan \notin idle
      BY <1>5, <2>1, <2>2, <2>4, CallsRefresh
    <3>2. CASE channels[call.plan].behind
      BY <1>7, <2>3, <3>1, <3>2
    <3>3. CASE Covers(call.plan, answer.rows) /\ (call.plan # p \/ n <= answer.rows)
      BY <1>11, <3>3
    <3>4. CASE call.plan = p /\ ~(n <= answer.rows)
      <4>1. answer.rows \in Nat /\ n \in Nat
        BY <2>4 DEF Replies, Versions
      <4>2. answer.rows < n
        BY <3>4, <4>1
      <4>3. call = Call("channel", p)
        BY <2>4, <3>4 DEF Calls, Call
      <4>4. AnsweredBefore(p, n)
        BY <2>1, <2>2, <2>4, <4>2, <4>3 DEF AnsweredBefore
      <4>5. missed
        BY <1>6, <3>1, <3>4, <4>4
      <4> QED  BY <1>7, <3>4, <4>5
    <3> QED  BY <2>3, <2>4, <3>2, <3>3, <3>4 DEF Sound
  <2>5. net'[i].calls[j] = call /\ net'[i].answers[j] = answer
    BY <1>2, <2>2
  <2>6. Sound(call, answer)'
    BY <1>9, <2>3, <2>4 DEF Sound
  <2> QED  BY <2>5, <2>6 DEF Sound, Covers, Truth
<1>16. NetSound'
  BY <1>15 DEF NetSound
<1>17. None(micro, Unsound)'
  <2>1. PICK ss \in Seq(Starts) : micro' = <<>> \o ss
    BY <1>7 DEF Queues
  <2>2. \A i \in DOMAIN micro' : micro'[i] \in Starts
    BY <2>1, ElementOfSeq
  <2>3. \A t \in Starts : t \notin Unsound'
    BY QuietTasks DEF Unsound, Replying
  <2> QED  BY <2>2, <2>3 DEF None
<1> QED  BY <1>12, <1>13, <1>14, <1>16, <1>17 DEF FreshInv, AnswersInv

LEMMA EditCounts ==
  ASSUME TypeInv, NEW s \in Instances, NEW p \in Plans, Edit(s, p)
  PROVE  /\ made' = made \cup {<<p, Truth(p) + 1>>}
         /\ Truth(p)' = Truth(p) + 1 /\ \A r \in Plans \ {p} : Truth(r)' = Truth(r)
         /\ \A r : Truth(r) \in Nat
<1> DEFINE c == <<p, Truth(p) + 1>>
           C == {d \in made : d[1] = p}
<1>1. made' = made \cup {c} /\ c \notin made
  BY DEF Edit, Accept
<1>2. IsFiniteSet(C) /\ c \notin C
  <2>1. C \subseteq made /\ IsFiniteSet(made)
    BY DEF TypeInv, SceneTyped
  <2> QED  BY <1>1, <2>1, FS_Subset
<1>3. {d \in made' : d[1] = p} = C \cup {c}
  BY <1>1
<1>4. Cardinality(C \cup {c}) = Cardinality(C) + 1
  <2> HIDE DEF C, c
  <2> QED  BY <1>2, FS_AddElement
<1>5. Truth(p) = Cardinality(C) /\ Truth(p)' = Cardinality(C \cup {c})
  BY <1>3 DEF Truth
<1>6. ASSUME NEW r \in Plans \ {p} PROVE Truth(r)' = Truth(r)
  <2>1. {d \in made' : d[1] = r} = {d \in made : d[1] = r}
    BY <1>1
  <2> QED  BY <2>1 DEF Truth
<1>7. \A r : Truth(r) \in Nat
  BY TruthIs DEF TypeInv, Versions
<1> QED  BY <1>1, <1>4, <1>5, <1>6, <1>7

LEMMA FreshEdit ==
  ASSUME TypeInv, FeedTyped, OneEach, FreshInv,
         NEW s \in Instances, NEW p \in Plans, Edit(s, p)
  PROVE  FreshInv'
<1>1. /\ UNCHANGED <<channels, cached, newest, micro, net, heard, cuts, stream>>
      /\ Emit(s, <<p, Truth(p) + 1>>, FALSE, bus)
  BY DEF Edit, Accept, client, bounds
<1>2. PICK c : c = <<p, Truth(p) + 1>>
  OBVIOUS
<1>3. /\ made' = made \cup {c} /\ Truth(p)' = Truth(p) + 1
      /\ \A r \in Plans \ {p} : Truth(r)' = Truth(r)
      /\ \A r : Truth(r) \in Nat
  BY <1>2, EditCounts
<1>4. \A r \in Plans : Truth(r)' \in Nat /\ Truth(r) <= Truth(r)'
  BY <1>3
<1>5. \A r \in Plans : newest[r] \in Nat /\ channels[r].last \in Nat
  BY ChannelIs, ResultsAre DEF TypeInv, CacheTyped, Versions
<1>6. Steady
  BY <1>1, <1>4, <1>5 DEF Steady, Ages, Had
<1>7. \A d \in made : d \in Plans \X (1..MaxWrites) /\ d[2] \in Nat
  BY LiveAssumption DEF TypeInv, SceneTyped
<1>8. \A d \in made' : d[2] <= Truth(d[1])'
  <2> SUFFICES ASSUME NEW d \in made' PROVE d[2] <= Truth(d[1])'
    OBVIOUS
  <2>1. CASE d = c
    BY <1>2, <1>3, <1>4, <2>1
  <2>2. CASE d \in made
    <3>1. d[1] \in Plans /\ d[2] \in Nat /\ d[2] <= Truth(d[1])
      BY <1>7, <2>2 DEF FreshInv, FedInv
    <3>2. PICK r \in Plans : r = d[1]
      BY <3>1
    <3>3. d[2] <= Truth(r) /\ Truth(r) \in Nat /\ Truth(r)' \in Nat /\ Truth(r) <= Truth(r)'
      BY <1>3, <1>4, <3>1, <3>2
    <3>4. d[2] <= Truth(r)'
      BY <3>1, <3>3
    <3> QED  BY <3>2, <3>4 DEF Truth
  <2> QED  BY <1>3, <2>1, <2>2
<1>9. ASSUME NEW r \in Plans PROVE Truth(r)' = 0 \/ <<r, Truth(r)'>> \in made'
  <2>1. CASE r = p
    BY <1>2, <1>3, <2>1
  <2>2. CASE r # p
    BY <1>3, <2>2 DEF FreshInv, FedInv
  <2> QED  BY <2>1, <2>2
<1>10. cuts' = 0 => stream'[Me] \in Instances /\ \A d \in made' : Carried(d)'
  <2> SUFFICES ASSUME cuts = 0
               PROVE  stream[Me] \in Instances /\ \A d \in made' : Carried(d)'
    BY <1>1
  <2>1. PICK t \in Instances : t = stream[Me]
    BY DEF FreshInv, FedInv
  <2>2. Me \in Clients /\ events[Me] \in Seq(made) /\
          bus[t] \in Seq([origin: Instances, change: made])
    BY <2>1, LiveAssumption DEF FeedTyped
  <2>3. /\ events'[Me] = IF t = s THEN Append(events[Me], c) ELSE events[Me]
        /\ bus'[t] = Append(bus[t], Envelope(s, c))
    BY <1>1, <1>2, <2>1, <2>2 DEF Emit, Published, Publish
  <2>4. \A k \in DOMAIN events[Me] : k \in DOMAIN events'[Me] /\ events'[Me][k] = events[Me][k]
    BY <2>2, <2>3
  <2>5. PICK E : E = [origin: Instances, change: made]
    OBVIOUS
  <2>6. bus[t] \in Seq(E)
    BY <2>2, <2>5
  <2>7. /\ \A k \in DOMAIN bus[t] : k \in DOMAIN bus'[t] /\ bus'[t][k] = bus[t][k]
        /\ Len(bus[t]) + 1 \in DOMAIN bus'[t] /\ bus'[t][Len(bus[t]) + 1] = Envelope(s, c)
    BY <2>3, <2>6
  <2>8. ASSUME NEW d \in made PROVE Carried(d)'
    <3>1. Carried(d)
      BY DEF FreshInv, FedInv
    <3> QED  BY <1>1, <2>1, <2>4, <2>7, <3>1 DEF Carried
  <2>9. Carried(c)'
    <3>1. CASE t = s
      <4>1. Len(events[Me]) + 1 \in DOMAIN events'[Me] /\ events'[Me][Len(events[Me]) + 1] = c
        BY <2>2, <2>3, <3>1
      <4> QED  BY <4>1 DEF Carried
    <3>2. CASE t # s
      <4>1. Envelope(s, c).change = c /\ Envelope(s, c).origin = s
        BY DEF Envelope
      <4> QED  BY <1>1, <2>1, <2>7, <3>2, <4>1 DEF Carried
    <3> QED  BY <3>1, <3>2
  <2> QED  BY <1>3, <2>1, <2>8, <2>9
<1>11. FedInv'
  BY <1>1, <1>3, <1>8, <1>9, <1>10 DEF FreshInv, FedInv
<1>12. RowsInv'
  <2> SUFFICES ASSUME NEW r \in Plans
               PROVE  /\ Had(r)' => cached'[r] <= newest'[r]
                      /\ newest'[r] <= Truth(r)'
                      /\ channels'[r].last # Unknown => channels'[r].last <= Truth(r)'
                      /\ channels'[r].synced => /\ channels'[r].last # Unknown
                                                /\ r \notin Declined => Had(r)'
    BY DEF RowsInv, Declined, CanFulfill
  <2>1. /\ Had(r) => cached[r] <= newest[r]
        /\ newest[r] <= Truth(r)
        /\ channels[r].last # Unknown => channels[r].last <= Truth(r)
        /\ channels[r].synced => channels[r].last # Unknown /\ (r \notin Declined => Had(r))
    BY DEF FreshInv, RowsInv
  <2>2. Had(r)' = Had(r)
    BY <1>1 DEF Had
  <2>3. Truth(r)' \in Nat /\ Truth(r) \in Nat /\ Truth(r) <= Truth(r)'
    BY <1>3, <1>4
  <2>4. newest[r] <= Truth(r)' /\ (channels[r].last # Unknown => channels[r].last <= Truth(r)')
    BY <1>5, <2>1, <2>3
  <2> QED  BY <1>1, <2>1, <2>2, <2>4
<1>13. ChannelsInv'
  BY <1>1 DEF FreshInv, ChannelsInv, Calm, Covers, Level, Declined, CanFulfill
<1>14. NetSound'
  BY <1>1, <1>6, SameAnswers, NetStaysSound DEF FreshInv, AnswersInv
<1>15. Brings({})
  BY <1>1 DEF Brings
<1>16. None(micro, Unsound)'
  BY <1>6, <1>15, TasksStaySound DEF FreshInv, AnswersInv, None
<1> QED  BY <1>11, <1>12, <1>13, <1>14, <1>16 DEF FreshInv, AnswersInv

\* A connection is lost, made again, or a message reaches an instance.
LEMMA FedMoves ==
  ASSUME TypeInv, FeedTyped, FedInv, Cut \/ Reconnects \/ Relays
  PROVE  FedInv'
<1>1. UNCHANGED <<made, heard>> /\ Me \in Clients
  BY LiveAssumption
     DEF Cut, Disconnect, Reconnects, Reconnect, Relays, Relay, Emit, client
<1>2. \A p : Truth(p)' = Truth(p)
  BY <1>1 DEF Truth
<1>3. cuts' \in Nat /\ (cuts' = 0 => cuts = 0 /\ ~Cut)
  BY DEF FedInv, Cut, Reconnects, Relays, client, bounds
<1>4. ASSUME cuts = 0, ~Cut PROVE stream'[Me] \in Instances /\ \A c \in made : Carried(c)'
  <2>1. PICK t \in Instances : t = stream[Me]
    BY <1>4 DEF FedInv
  <2>2. CASE Reconnects
    <3>1. stream[Me] = Nowhere
      BY <2>2 DEF Reconnects, Reconnect
    <3> QED  BY <2>1, <3>1, FeedAssumption
  <2>3. CASE Relays
    <3>1. PICK s \in Instances : Relay(s)
      BY <2>3 DEF Relays
    <3>2. PICK message, before : /\ message = Head(bus[s])
                                 /\ before = [bus EXCEPT ![s] = Tail(@)]
      OBVIOUS
    <3>3. /\ bus[s] # <<>> /\ stream' = stream
          /\ IF message.origin = s THEN bus' = before /\ UNCHANGED events
             ELSE Emit(s, message.change, TRUE, before)
      BY <3>1, <3>2 DEF Relay
    <3>4. /\ bus' = before
          /\ events'[Me] = IF message.origin # s /\ t = s THEN Append(events[Me], message.change)
                           ELSE events[Me]
      BY <1>1, <2>1, <3>3 DEF Emit, Published
    <3>5. /\ bus \in [Instances -> Seq([origin: Instances, change: made])]
          /\ events[Me] \in Seq(made)
      BY <1>1 DEF FeedTyped
    <3>6. \A k \in DOMAIN events[Me] : k \in DOMAIN events'[Me] /\ events'[Me][k] = events[Me][k]
      BY <3>4, <3>5
    <3>7. bus'[t] = IF s = t THEN Tail(bus[t]) ELSE bus[t]
      BY <3>2, <3>4, <3>5
    <3>8. PICK E : bus[t] \in Seq(E)
      BY <3>5
    <3>9. ASSUME NEW c \in made PROVE Carried(c)'
      <4>1. Carried(c)
        BY <1>4 DEF FedInv
      <4>2. CASE c \in heard
        BY <1>1, <4>2 DEF Carried
      <4>3. CASE \E k \in DOMAIN events[Me] : events[Me][k] = c
        BY <3>6, <4>3 DEF Carried
      <4>4. CASE \E k \in DOMAIN bus[t] : bus[t][k].change = c /\ bus[t][k].origin # t
        <5>1. PICK k \in DOMAIN bus[t] : bus[t][k].change = c /\ bus[t][k].origin # t
          BY <4>4
        <5>2. CASE s # t
          BY <2>1, <3>3, <3>7, <5>1, <5>2 DEF Carried
        <5>3. CASE s = t /\ k # 1
          <6>1. k - 1 \in DOMAIN Tail(bus[t]) /\ Tail(bus[t])[k - 1] = bus[t][k]
            BY <3>3, <3>8, <5>3
          <6> QED  BY <2>1, <3>3, <3>7, <5>1, <5>3, <6>1 DEF Carried
        <5>4. CASE s = t /\ k = 1
          <6>1. message = bus[t][1]
            BY <3>2, <3>3, <3>8, <5>4
          <6>2. events'[Me] = Append(events[Me], c)
            BY <3>4, <5>1, <5>4, <6>1
          <6>3. Len(events[Me]) + 1 \in DOMAIN events'[Me] /\ events'[Me][Len(events[Me]) + 1] = c
            BY <3>5, <6>2
          <6> QED  BY <6>3 DEF Carried
        <5> QED  BY <5>2, <5>3, <5>4
      <4> QED  BY <2>1, <4>1, <4>2, <4>3, <4>4 DEF Carried
    <3> QED  BY <2>1, <3>3, <3>9
  <2> QED  BY <1>4, <2>2, <2>3
<1>5. \A c \in made : c[2] <= Truth(c[1])'
  BY <1>2 DEF FedInv
<1>6. \A p \in Plans : Truth(p)' = 0 \/ <<p, Truth(p)'>> \in made
  BY <1>2 DEF FedInv
<1>7. \A c \in made' : c[2] <= Truth(c[1])'
  BY <1>1, <1>5
<1> QED  BY <1>1, <1>3, <1>4, <1>6, <1>7 DEF FedInv

LEMMA FreshFeed ==
  ASSUME TypeInv, FeedTyped, OneEach, FreshInv, Cut \/ Reconnects \/ Relays
  PROVE  FreshInv'
<1>1. UNCHANGED <<made, heard, cached, newest, channels, net, micro>>
  BY DEF Cut, Disconnect, Reconnects, Reconnect, Relays, Relay, Emit, client
<1>2. FedInv'
  BY FedMoves DEF FreshInv
<1>3. RowsInv' /\ ChannelsInv' /\ Steady
  BY <1>1, NoneGoes, ChannelsGo DEF FreshInv
<1>4. NetSound'
  BY <1>1, <1>3, SameAnswers, NetStaysSound DEF FreshInv, AnswersInv
<1>5. Brings({})
  BY <1>1 DEF Brings
<1>6. None(micro, Unsound)'
  BY <1>3, <1>5, TasksStaySound DEF FreshInv, AnswersInv, None
<1> QED  BY <1>2, <1>3, <1>4, <1>6 DEF FreshInv, AnswersInv

LEMMA FreshOwnWrite ==
  ASSUME TypeInv, OneEach, FreshInv,
         NEW r, NEW over \in [scene.written -> Layers], OwnWrite(r, over)
  PROVE  FreshInv'
<1>1. UNCHANGED <<feedVars, heard, cuts, cached, newest, net, channels>>
  BY DEF OwnWrite
<1>2. PICK ss \in Seq(Starts) : micro' = micro \o ss
  BY OwnWriteDoes DEF Queues
<1>3. Brings(Starts)
  <2> SUFFICES ASSUME NEW D, None(micro, D), Starts \cap D = {} PROVE None(micro', D)
    BY DEF Brings
  <2>1. ss \in Seq(Tasks) /\ None(ss, D)
    BY StartsAreNone, NoneOf
  <2> QED  BY <1>2, <2>1, CatHas DEF TypeInv
<1> QED  BY <1>1, <1>3, QuietTasks, NoneGoes, SameAnswers, FreshOthers

LEMMA FreshStep ==
  ASSUME LiveInv, FreshInv, Next
  PROVE  FreshInv'
<1> USE DEF LiveInv
<1>1. ASSUME NEW v \in Views, Mount(v) \/ Unmount(v) \/ Refine(v) PROVE FreshInv'
  BY <1>1, FreshOpen
<1>2. ASSUME NEW Q \in Bundles, Ask(Q) PROVE FreshInv'
  BY <1>2, FreshAsk
<1>2a. ASSUME NEW r \in Resources, NEW over \in [scene.written -> Layers], OwnWrite(r, over)
       PROVE  FreshInv'
  BY <1>2a, FreshOwnWrite
<1>3. CASE Microtask
  BY <1>3, FreshRecompute, FreshInclude, FreshOneShot, FreshAnswer, FreshEndRefresh
     DEF Microtask, Recompute, OneShot, Settle
<1>4. CASE Flush
  BY <1>4, FreshFlush
<1>5. ASSUME NEW i \in DOMAIN net, NEW refused, Serve(i, refused) PROVE FreshInv'
  BY <1>5, FreshServe
<1>6. ASSUME NEW i \in DOMAIN net, Respond(i) \/ Drop(i) PROVE FreshInv'
  BY <1>6, FreshArrives
<1>7. ASSUME NEW p \in Plans, Retire(p) PROVE FreshInv'
  BY <1>7, FreshRetire
<1>8. ASSUME NEW s \in Instances, NEW p \in Plans, Edit(s, p) PROVE FreshInv'
  BY <1>8, FreshEdit
<1>9. CASE Hear \/ Cut \/ Reconnects \/ Relays
  BY <1>9, FreshHear, FreshFeed
<1> QED  BY <1>1, <1>2, <1>2a, <1>3, <1>4, <1>5, <1>6, <1>7, <1>8, <1>9 DEF Next

LEMMA FreshStarts ==
  ASSUME Init
  PROVE  FreshInv
<1>1. /\ made = {} /\ heard = {} /\ cuts = 0 /\ stream \in Homes
      /\ channels = [p \in Plans |-> NoChannel] /\ cached = [p \in Plans |-> Unknown]
      /\ newest = [p \in Plans |-> 0] /\ micro = <<>> /\ net = <<>>
  BY DEF Init, FeedInit
<1>2. \A p : Truth(p) = 0
  <2>1. \A p : {c \in made : c[1] = p} = {}
    BY <1>1
  <2> QED  BY <2>1, FS_EmptySet DEF Truth
<1>3. stream[Me] \in Instances
  BY <1>1, LiveAssumption, FeedAssumption
<1>4. FedInv
  BY <1>1, <1>2, <1>3 DEF FedInv
<1>5. \A p \in Plans : /\ ~channels[p].stored /\ ~channels[p].synced /\ ~channels[p].refreshing
                       /\ channels[p].last = Unknown /\ ~Had(p)
  BY <1>1 DEF NoChannel, Had
<1>6. RowsInv
  BY <1>1, <1>2, <1>5 DEF RowsInv
<1>7. ChannelsInv
  BY <1>5 DEF ChannelsInv
<1>8. AnswersInv
  BY <1>1 DEF AnswersInv, NetSound, None
<1> QED  BY <1>4, <1>6, <1>7, <1>8 DEF FreshInv

LEMMA FreshStutters ==
  ASSUME TypeInv, OneEach, FreshInv, UNCHANGED vars
  PROVE  FreshInv'
<1>1. UNCHANGED <<feedVars, heard, cuts, cached, newest, channels, net, micro>>
  BY DEF vars, client, bounds
<1>2. Brings({})
  BY <1>1 DEF Brings
<1> QED  BY <1>1, <1>2, NoneGoes, SameAnswers, FreshOthers

\* A used channel, at rest and without an excuse, has what the server has.
LEMMA LevelAtRest ==
  ASSUME LiveInv, FreshInv, Resting, NEW p \in Plans, Users(p) # {}, NoExcuse(p)
  PROVE  /\ p \in Declined => channels[p].last = Truth(p)
         /\ p \notin Declined => cached[p] = Truth(p)
<1>1. channels[p].stored
  BY DEF LiveInv, RefInv, Counts
<1>2. ~channels[p].refreshing
  <2>1. ~Single(ChannelCalls(p), ChannelTasks(p))
    BY DEF Resting, Single, One, NetOne
  <2> QED  BY <2>1 DEF LiveInv, OneEach
<1>3. channels[p].synced /\ Covers(p, Level(p))
  BY <1>1, <1>2 DEF FreshInv, ChannelsInv, Calm, NoExcuse
<1>4. channels[p].last # Unknown /\ (p \notin Declined => Had(p))
  BY <1>3 DEF FreshInv, RowsInv
<1>5. /\ Truth(p) \in Nat /\ newest[p] \in Nat /\ channels[p].last \in Nat /\ cached[p] \in Nat
  BY TruthIs, ChannelIs, ResultsAre DEF LiveInv, TypeInv, CacheTyped, Versions
<1>6. p \notin Declined => cached[p] = newest[p]
  BY <1>4, <1>5 DEF FreshInv, RowsInv, NoExcuse
<1>7. Level(p) \in Nat /\ Level(p) <= Truth(p)
  BY <1>4, <1>5 DEF Level, FreshInv, RowsInv
<1>8. Truth(p) <= Level(p)
  <2>1. CASE Truth(p) = 0
    BY <1>7, <2>1
  <2>2. CASE Truth(p) # 0
    <3>1. PICK c \in made : c = <<p, Truth(p)>>
      BY <2>2 DEF FreshInv, FedInv
    <3>2. c \in heard
      <4>1. CASE cuts = 0
        <5>1. Carried(c) /\ stream[Me] \in Instances
          BY <4>1 DEF FreshInv, FedInv
        <5>2. DOMAIN events[Me] = {} /\ DOMAIN bus[stream[Me]] = {}
          BY <5>1 DEF Resting
        <5> QED  BY <5>1, <5>2 DEF Carried
      <4>2. CASE cuts # 0
        BY <2>2, <3>1, <4>2 DEF NoExcuse
      <4> QED  BY <4>1, <4>2
    <3> QED  BY <1>3, <3>1, <3>2 DEF Covers
  <2> QED  BY <2>1, <2>2
<1>9. Level(p) = Truth(p)
  BY <1>5, <1>7, <1>8
<1> QED  BY <1>6, <1>9 DEF Level

\* Where nothing is laid over them, the rows are those received.
LEMMA NothingLaid ==
  ASSUME TypeInv, NEW p \in Plans, NoExcuse(p)
  PROVE  Visible(p) = cached[p]
<1>1. cached[p] \in Results /\ laid[p] = 0
  BY DEF NoExcuse, TypeInv, CacheTyped
<1> QED  BY <1>1, LiveAssumption DEF Visible

LEMMA FreshShows ==
  ASSUME LiveInv, RecomputeInv, FreshInv
  PROVE  FreshAtRest
<1> SUFFICES ASSUME Resting, NEW v \in mounted \ disturbed
             PROVE  /\ NoExcuse(PlanOf[v]) => shown[v].rows = Truth(PlanOf[v])
                    /\ \A i \in DOMAIN Includes[v] :
                         Includes[v][i] \in DOMAIN kids[v] =>
                           LET plan == kids[v][Includes[v][i]]
                           IN NoExcuse(plan) /\ plan \notin Declined
                                => shown[v].kids[i] = Truth(plan)
  BY DEF FreshAtRest
<1>1. v \in Views /\ TypeInv
  BY DEF LiveInv, TypeInv, ViewsTyped
<1>2. DOMAIN micro = {}
  BY DEF Resting
<1>3. Settled(v)
  BY <1>2 DEF RecomputeInv, ShownInv, ViewInv, QueueInv, Coming, Newest
<1>4. shown[v].rows = Rows(v) /\ shown[v].kids = Related(v, Rows(v))
  BY <1>3, DerivedIs DEF Settled, State
<1>5. PlanOf[v] \in Plans /\ Rows(v) \in Results /\ DOMAIN Includes[v] = 1..Full(v) /\
        Full(v) \in Nat
  BY <1>1, ViewTyped
<1>6. Users(PlanOf[v]) # {}
  <2>1. <<v>> \in {<<w>> : w \in {u \in mounted : PlanOf[u] = PlanOf[v]}}
    OBVIOUS
  <2> QED  BY <2>1 DEF Users
<1>7. NoExcuse(PlanOf[v]) => shown[v].rows = Truth(PlanOf[v])
  BY <1>1, <1>4, <1>5, <1>6, NothingLaid, LevelAtRest DEF Rows
<1>8. ASSUME NEW i \in DOMAIN Includes[v], Includes[v][i] \in DOMAIN kids[v],
             NEW plan, plan = kids[v][Includes[v][i]], NoExcuse(plan), plan \notin Declined
      PROVE  shown[v].kids[i] = Truth(plan)
  <2>1. Follows(v, i)
    <3>1. (Full(v) + 1)..Full(v) = {}
      BY <1>5
    <3> QED  BY <1>3, <1>5, <3>1 DEF Settled, FollowsTo
  <2>2. plan = KidPlan(v, i, Rows(v)) /\ plan # NoPlan
    BY <1>8, <2>1 DEF Follows
  <2>3. shown[v].kids[i] = Visible(plan)
    BY <1>1, <1>4, <1>5, <1>8, <2>2, RelatedIs DEF Kid, CanRead
  <2>4. plan \in Plans
    BY <1>1, <1>8 DEF TypeInv, ViewsTyped
  <2>4a. shown[v].kids[i] = cached[plan]
    BY <1>1, <1>8, <2>3, <2>4, NothingLaid
  <2>5. <<v, Includes[v][i]>> \in Users(plan)
    BY <1>1, <1>8, RelationUses, UsersAreUsing
  <2> QED  BY <1>8, <2>4, <2>4a, <2>5, LevelAtRest
<1> QED  BY <1>7, <1>8

\* When nothing is under way, a live query shows the server's newest version
\* of its rows and of those it relates, whatever was mounted, refreshed,
\* edited, written and relayed before, but where a refresh failed last, an
\* older answer came after a newer one, a change was told while its refresh
\* had its answer, a connection was lost, an own write is still laid over
\* the rows, or one changed them while a recompute of a query with relations
\* was under way (query-store.ts:152-157, change-feed.ts:46-69).
THEOREM ScreensAreFreshAtRest == Spec => []FreshAtRest
<1>1. Init => FreshInv /\ RecomputeInv
  BY FreshStarts, ShownStarts
<1>2. LiveInv /\ RecomputeInv /\ [Next]_vars => RecomputeInv'
  BY ShownStep, ShownStutters
<1>3. LiveInv /\ FreshInv /\ [Next]_vars => FreshInv'
  BY FreshStep, FreshStutters DEF LiveInv
<1>4. LiveInv /\ RecomputeInv /\ FreshInv => FreshAtRest
  BY FreshShows
<1> QED  BY <1>1, <1>2, <1>3, <1>4, LiveStays, PTL DEF Spec

=============================================================================
