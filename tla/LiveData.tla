------------------------------ MODULE LiveData ------------------------------
(***************************************************************************)
(* One engine's reading: its live queries (LiveQuery), the sync channels   *)
(* they share (QueryStore), one-shot queries and preloads (Engine.query),  *)
(* the cache they read and ingest into, the request batches of the remote  *)
(* source, and the change notifications of the deployment (ChangeFeed)     *)
(* that make the engine refresh.  Of the engine's own writes there is what *)
(* the readers see of them: rows that change between any two microtasks.   *)
(*                                                                         *)
(* A result is told apart by its version only: how many changes its plan   *)
(* has seen at the server.  Plans are taken to be disjoint (what rows of   *)
(* one plan do to the coverage of another is the subject of ReadCache).    *)
(*                                                                         *)
(* `micro` is the queue of microtasks, first in first out: an await puts   *)
(* the rest of its function at the end, a synchronous continuation (now)   *)
(* goes on at once.  Timers, answers and events wait until it is empty.    *)
(* The application is a task, too: a turn of it comes by itself or is the  *)
(* render that follows a change of a live query, and makes any number of   *)
(* calls.  What the other machines do commutes with the microtasks and is  *)
(* left for when there are none.                                           *)
(***************************************************************************)
EXTENDS ChangeFeed, Naturals, FiniteSets, SequencesExt

CONSTANTS
  Plans,         \* the read plans in use, by their plan key
  Resources,     \* the resources they read
  ResourceOf,    \* [Plans -> Resources]
  Shape,         \* [Plans -> Shapes]
  ModeOf,        \* [Resources -> Modes]
  Vacant,        \* the pairs of a plan and a version whose result has no row
  Specs,         \* the relations included somewhere
  ChildPlan,     \* the plan for the related rows, by relation, base plan and
                 \* version of the base rows; NoPlan: there are none
  NoPlan,
  TargetOf,      \* [Specs -> Resources]
  Views,         \* the live queries of the application
  Queries,       \* its one-shot queries
  PlanOf,        \* [Views \cup Queries -> Plans]
  Includes,      \* [Views \cup Queries -> Seq(Specs)]
  Bundles,       \* the sets of queries asked at once: a query() or a preload()
  Layers,        \* what the engine's own writes lay over a result; 0: nothing
  Overlaid,      \* what they make of it, by plan, result and layer
  Me,            \* this engine as a client of the change feed
  Scenes,        \* what may happen in a behaviour, one of these: see Scene
  MaxWrites      \* bound on the edits of other clients

Modes == {"collection", "document", "snapshot", "blob", "connection"}

\* A whole set, a window of one, one record, a named query.
Shapes == {"where", "window", "one", "named"}
Versions == 0..MaxWrites
Unknown == MaxWrites + 1           \* nothing was received
Results == Versions \cup {Unknown}

\* The live and one-shot queries the application uses, the plans others
\* edit, those the engine writes to itself, whether staleTime is "forever"
\* and not 0, the live queries whose refinements change, and bounds on the
\* mounts, the edits, the failing requests, the cuts of the stream and the
\* steps of the engine's own writes.
Scene == [uses: SUBSET (Views \cup Queries), edited: SUBSET Plans, written: SUBSET Plans,
          forever: BOOLEAN, refines: SUBSET Views, mounts: Nat, edits: Versions,
          faults: Nat, cuts: Nat, writes: Nat]

ASSUME LiveAssumption ==
  /\ MaxWrites \in Nat /\ Scenes \subseteq Scene
  /\ NoPlan \notin Plans /\ Views \cap Queries = {}
  /\ ResourceOf \in [Plans -> Resources] /\ Shape \in [Plans -> Shapes]
  /\ ModeOf \in [Resources -> Modes] /\ Vacant \subseteq Plans \X Versions
  /\ TargetOf \in [Specs -> Resources]
  /\ ChildPlan \in [Specs \X Plans \X Versions -> Plans \cup {NoPlan}]
  /\ PlanOf \in [Views \cup Queries -> Plans]
  /\ \A u \in Views \cup Queries : /\ Includes[u] \in Seq(Specs)
                                   /\ Shape[PlanOf[u]] = "one" => Includes[u] = <<>>
  /\ \A c \in DOMAIN ChildPlan : ChildPlan[c] # NoPlan => /\ Shape[ChildPlan[c]] = "where"
                                                        /\ ResourceOf[ChildPlan[c]] = TargetOf[c[1]]
  /\ \A Q \in Bundles : Q \subseteq Queries /\ IsFiniteSet(Q)
  /\ {"channel", "gone"} \cap Queries = {}
  /\ 0 \in Layers /\ Overlaid \in [Plans \X Results \X Layers -> Results]
  /\ \A p \in Plans : /\ \A n \in Results : Overlaid[<<p, n, 0>>] = n
                      /\ \A n \in Versions, l \in Layers : Overlaid[<<p, n, l>>] # Unknown
  /\ Clients = {Me} /\ Changes = Plans \X (1..MaxWrites)

VARIABLES
  scene,         \* the one of Scenes that is played
  channels,      \* QueryStore.channels, by plan key
  mounted,       \* the live queries with a listener
  kids,          \* childChannels of each: the plan held for a relation
  waiting,       \* the live queries with recomputeQueued
  refined,       \* the live queries whose refinements were replaced
  shown,         \* LiveQuery.current
  cached,        \* the cache's result for each plan, as it was received
  laid,          \* what the engine's own writes lay over it
  asks,          \* where each one-shot query is
  micro,         \* the microtasks queued
  batch,         \* RemoteSourceBackbone.batch
  net,           \* the requests under way
  heard,         \* ghost: the changes whose events arrived
  newest,        \* ghost: the newest result the cache had for each plan
  disturbed,     \* ghost: the live queries whose rows changed under a recompute
  mounts, faults, cuts, writes   \* counters for the bounds

views == <<mounted, kids, waiting, refined, shown>>
bounds == <<scene, mounts, faults, cuts, writes>>
client == <<channels, views, cached, laid, asks, micro, batch, net, heard, newest, disturbed,
            bounds>>
vars == <<feedVars, client>>
others == <<feedVars, channels, views, cached, laid, asks, batch, net, heard, newest,
            disturbed, bounds>>

----------------------------------------------------------------------------
(* Channels.  `behind` is a ghost: the channel was told of a change while  *)
(* its refresh was under way with an answer from before the change.        *)

NoChannel == [stored |-> FALSE, refs |-> 0, timer |-> FALSE, refreshing |-> FALSE,
              synced |-> FALSE, online |-> TRUE, error |-> FALSE, last |-> Unknown,
              behind |-> FALSE]
Channel == [stored: BOOLEAN, refs: Nat, timer: BOOLEAN, refreshing: BOOLEAN,
            synced: BOOLEAN, online: BOOLEAN, error: BOOLEAN, last: Results,
            behind: BOOLEAN]

\* A plan sent for a channel, for a query, or for a channel that is gone.
Gone == "gone"
Calls == [by: Queries \cup {"channel", Gone}, plan: Plans]
Call(by, p) == [by |-> by, plan |-> p]

Store == [channels |-> channels, batch |-> batch]
Stored(S) == {p \in Plans : S.channels[p].stored}

\* Mutant: a refresh under way does not keep another from starting.
Bug_RefreshesAgain(S, P) ==
  [channels |-> [p \in Plans |-> IF p \in P THEN [S.channels[p] EXCEPT !.refreshing = TRUE,
                                                                       !.behind = FALSE]
                                 ELSE S.channels[p]],
   batch |-> S.batch \o SetToSeq({Call("channel", p) : p \in P})]

\* SyncChannel.refresh of the channels of P, up to its await.
Refresh(S, P) ==
  LET idle == {p \in P : ~S.channels[p].refreshing}
  IN [channels |-> [p \in Plans |->
                      IF p \in idle THEN [S.channels[p] EXCEPT !.refreshing = TRUE,
                                                               !.behind = FALSE]
                      ELSE S.channels[p]],
      batch |-> S.batch \o SetToSeq({Call("channel", p) : p \in idle})]

\* A channel with one user more, and with n less: the last arms the timer.
Taken(ch) == [ch EXCEPT !.stored = TRUE, !.refs = @ + 1, !.timer = FALSE]
Left(ch, n) == [ch EXCEPT !.refs = @ - n, !.timer = @ \/ ch.refs = n]

Acquire(S, p) ==
  LET held == [S EXCEPT !.channels[p] = Taken(@)]
  IN IF scene.forever /\ S.channels[p].synced THEN held ELSE Refresh(held, {p})

\* Release n[p] times the channel of each p.
Release(S, n) ==
  [S EXCEPT !.channels = [p \in Plans |-> IF n[p] = 0 THEN S.channels[p]
                                          ELSE Left(S.channels[p], n[p])]]

\* The live queries a change of state of these channels wakes.
Listeners(P) == {v \in mounted : PlanOf[v] \in P}
Stirred(S) == Listeners({p \in Plans : S.channels[p].refreshing # channels[p].refreshing})

KeepsStore(S) == channels' = S.channels /\ batch' = S.batch

----------------------------------------------------------------------------
(* The cache and the microtasks.                                           *)

\* The plans the cache keeps nothing for, by the mode of their resource.
CanFulfill(p) ==
  LET mode == ModeOf[ResourceOf[p]]
  IN mode # "connection" /\ (Shape[p] \in {"named", "one"} \/ mode \in {"snapshot", "collection"})
Declined == {p \in Plans : ~CanFulfill(p)}

\* A result kept as it came, under its plan key.
KeptWhole(p) == Shape[p] = "named" \/ ModeOf[ResourceOf[p]] = "snapshot"

\* The rows of a plan: as received, with the engine's own writes on top.
Visible(p) == Overlaid[<<p, cached[p], laid[p]>>]

\* MemoryCacheBackbone.read: the result and how much of it is known.
Known(p, n) ==
  CASE n = Unknown -> "unknown"
    [] n # Unknown /\ (KeptWhole(p) \/ Shape[p] = "where") -> "complete"
    [] OTHER -> IF <<p, n>> \in Vacant THEN "unknown"
                ELSE IF Shape[p] = "one" THEN "complete" ELSE "partial"
Reads(p) == [rows |-> Visible(p), coverage |-> Known(p, Visible(p))]
NoRead == [rows |-> Unknown, coverage |-> "none"]

ChildPlanFor(spec, p, n) ==
  IF n = Unknown \/ <<p, n>> \in Vacant THEN NoPlan ELSE ChildPlan[<<spec, p, n>>]

\* The live queries of a resource: their own, and the targets of their
\* relations.  Those that are mounted are subscribed to it.
Concerned(resource) ==
  {v \in Views : \/ ResourceOf[PlanOf[v]] = resource
                 \/ \E i \in DOMAIN Includes[v] : TargetOf[Includes[v][i]] = resource}
Subscribed(resource) == mounted \cap Concerned(resource)

\* The head of the queue goes on: at once, or behind what is queued.
Now(task) == <<task>> \o Tail(micro)
Later(task) == Append(Tail(micro), task)
Rest == Tail(micro)

\* Mutant: a recompute under way counts as a queued one.
Bug_Joined(tasks, queued, woken) ==
  LET running == {tasks[i].view : i \in {j \in DOMAIN tasks : tasks[j].job # "start"
                                                    /\ "view" \in DOMAIN tasks[j]}}
  IN /\ waiting' = queued \cup (woken \ running)
     /\ micro' = tasks \o SetToSeq({[job |-> "start", view |-> v, now |-> FALSE] :
                                    v \in woken \ (queued \cup running)})

\* scheduleRecompute of the woken, on top of the tasks and of the queued.
Schedule(tasks, queued, woken) ==
  /\ waiting' = queued \cup woken
  /\ micro' = tasks \o SetToSeq({[job |-> "start", view |-> v, now |-> FALSE] :
                                 v \in woken \ queued})

Quiet == micro = <<>>
Task == Head(micro)
Runs(job) == micro # <<>> /\ Task.job = job
Turn == [job |-> "app", now |-> FALSE]

\* The application calls: in a turn of its own, or in the one that runs.
Calling == Quiet \/ Runs("app")
Open == IF Quiet THEN <<Turn>> ELSE micro

----------------------------------------------------------------------------
(* Live queries.                                                           *)

\* A recompute of v is under way.
Recomputes == {"base", "include", "derive", "show"}
RecomputeOf(task, v) == task.job \in Recomputes /\ task.view = v

Blank == [rows |-> Unknown, kids |-> <<>>, refined |-> FALSE, status |-> "loading",
          coverage |-> "unknown", refreshing |-> FALSE, error |-> FALSE]

Holds(v, p) ==
  (IF PlanOf[v] = p THEN 1 ELSE 0)
  + Cardinality({spec \in DOMAIN kids[v] : kids[v][spec] = p})

\* The application's turn ends.
Leave == Runs("app") /\ micro' = Rest /\ UNCHANGED others

\* subscribe, of the first listener: activate.
Mount(v) ==
  /\ Calling
  /\ v \in scene.uses \ mounted /\ mounts < scene.mounts
  /\ mounts' = mounts + 1
  /\ mounted' = mounted \cup {v}
  /\ LET S == Acquire(Store, PlanOf[v])
     IN KeepsStore(S) /\ Schedule(Open, waiting, Stirred(S) \cup {v})
  /\ UNCHANGED <<feedVars, kids, refined, shown, cached, laid, asks, net, heard, newest,
                 disturbed, writes, scene, faults, cuts>>

\* Mutant: the channels of the relations are released, and kept in the map.
Bug_KeepsKids(v) ==
  /\ Calling
  /\ v \in mounted
  /\ mounted' = mounted \ {v}
  /\ KeepsStore(Release(Store, [p \in Plans |-> Holds(v, p)]))
  /\ micro' = Open
  /\ UNCHANGED <<feedVars, kids, waiting, refined, shown, cached, laid, asks, net, heard,
                 newest, disturbed, bounds>>

\* The last listener leaves: deactivate.
Unmount(v) ==
  /\ Calling
  /\ v \in mounted
  /\ mounted' = mounted \ {v}
  /\ KeepsStore(Release(Store, [p \in Plans |-> Holds(v, p)]))
  /\ kids' = [kids EXCEPT ![v] = <<>>]
  /\ micro' = Open
  /\ UNCHANGED <<feedVars, waiting, refined, shown, cached, laid, asks, net, heard, newest,
                 disturbed, bounds>>

\* A render hands over its refinements, new or not: refine.  A render of
\* its own accord is left out unless it brings new ones.
Refine(v) ==
  /\ Calling
  /\ v \in mounted
  /\ refined' \in {refined, refined \cup ({v} \cap scene.refines)}
  /\ Quiet => refined' # refined
  /\ Schedule(Open, waiting, {v})
  /\ UNCHANGED <<feedVars, channels, mounted, kids, shown, cached, laid, asks, batch, net,
                 heard, newest, disturbed, bounds>>

\* The queued recompute starts: computeState up to its read of the cache.
Start ==
  /\ Runs("start")
  /\ LET v == Task.view
     IN /\ waiting' = waiting \ {v}
        /\ disturbed' = disturbed \ {w \in {v} : \A i \in DOMAIN Rest : ~RecomputeOf(Rest[i], w)}
        /\ micro' = IF PlanOf[v] \in Declined
                    THEN Now([job |-> "base", view |-> v, read |-> NoRead, now |-> TRUE])
                    ELSE Later([job |-> "base", view |-> v, read |-> Reads(PlanOf[v]),
                                now |-> FALSE])
  /\ UNCHANGED <<feedVars, channels, mounted, kids, refined, shown, cached, laid, asks, batch,
                 net, heard, newest, bounds>>

\* The channel's state is looked at, and the rows are chosen.
Base ==
  /\ Runs("base")
  /\ LET v == Task.view
         held == IF v \in mounted THEN channels[PlanOf[v]] ELSE NoChannel
     IN micro' = Now([job |-> "include", view |-> v, held |-> held, kids |-> <<>>,
                      coverage |-> Task.read.coverage, now |-> TRUE,
                      rows |-> IF Task.read.coverage # "none" THEN Task.read.rows
                               ELSE held.last])
  /\ UNCHANGED others

\* Mutant: a live query that is no longer active takes channels, too.
Bug_TakesAnyway(v, spec, plan) ==
  LET has == spec \in DOMAIN kids[v]
      old == IF has THEN kids[v][spec] ELSE NoPlan
  IN IF old = plan THEN Store
     ELSE LET freed == IF has THEN Release(Store, [p \in Plans |-> IF p = old THEN 1 ELSE 0])
                       ELSE Store
          IN IF plan = NoPlan THEN freed ELSE Acquire(freed, plan)

\* ensureChildChannel: follow the base rows, while active.
ChildChannel(v, spec, plan) ==
  LET has == spec \in DOMAIN kids[v]
      old == IF has THEN kids[v][spec] ELSE NoPlan
  IN IF v \notin mounted \/ old = plan THEN Store
     ELSE LET freed == IF has THEN Release(Store, [p \in Plans |-> IF p = old THEN 1 ELSE 0])
                       ELSE Store
          IN IF plan = NoPlan THEN freed ELSE Acquire(freed, plan)

\* withIncludes, one relation: its channel, then its rows from the cache.
Include ==
  /\ Runs("include")
  /\ Len(Task.kids) < Len(Includes[Task.view])
  /\ LET v == Task.view
         spec == Includes[v][Len(Task.kids) + 1]
         plan == ChildPlanFor(spec, PlanOf[v], Task.rows)
         S == ChildChannel(v, spec, plan)
         read == plan # NoPlan /\ plan \notin Declined
         next == [Task EXCEPT !.kids = Append(@, IF read THEN Visible(plan) ELSE Unknown),
                              !.now = ~read]
     IN /\ KeepsStore(S)
        /\ kids' = IF v \notin mounted THEN kids
                   ELSE [kids EXCEPT ![v] =
                           [t \in (DOMAIN @ \cup {spec}) \ {s \in {spec} : plan = NoPlan} |->
                              IF t = spec THEN plan ELSE @[t]]]
        /\ Schedule(IF read THEN Later(next) ELSE Now(next), waiting, Stirred(S))
  /\ UNCHANGED <<feedVars, mounted, refined, shown, cached, laid, asks, net, heard, newest,
                 disturbed, bounds>>

\* The rows are joined; computeState awaits them (one record has none).
Join ==
  /\ Runs("include")
  /\ Len(Task.kids) = Len(Includes[Task.view])
  /\ LET one == Shape[PlanOf[Task.view]] = "one"
         next == [Task EXCEPT !.job = "derive", !.now = one]
     IN micro' = IF one THEN Now(next) ELSE Later(next)
  /\ UNCHANGED others

\* deriveStatus, of a query that some source serves.
DeriveStatus(coverage, held) ==
  IF ~held.online THEN "offline"
  ELSE IF ~held.refreshing /\ (held.synced \/ coverage = "complete") THEN "fresh"
  ELSE IF coverage = "unknown" THEN "loading" ELSE "stale"

State(v, rows, related, cover, held) ==
  LET coverage == IF cover # "none" THEN cover
                  ELSE IF held.synced THEN "complete" ELSE "unknown"
  IN [rows |-> rows, kids |-> related, refined |-> v \in refined,
      status |-> DeriveStatus(coverage, held), coverage |-> coverage,
      refreshing |-> held.refreshing, error |-> held.error]

\* The refinements are applied and the status is derived.
Derive ==
  /\ Runs("derive")
  /\ micro' = Later([job |-> "show", view |-> Task.view, now |-> FALSE,
                     next |-> State(Task.view, Task.rows, Task.kids, Task.coverage, Task.held)])
  /\ UNCHANGED others

\* Mutant: joined rows, which every recompute builds anew, are compared by
\* reference.
Bug_ByReference(a, b) == a.kids = <<>> /\ a = b

\* statesEqual: the rows by reference, or by value when they are joined.
StatesEqual(a, b) ==
  /\ a.status = b.status /\ a.coverage = b.coverage /\ a.refreshing = b.refreshing
  /\ a.error = b.error
  /\ a.rows = b.rows /\ a.kids = b.kids /\ a.refined = b.refined

\* recompute ends: the listeners hear of a state that differs.
Show ==
  /\ Runs("show")
  /\ IF StatesEqual(shown[Task.view], Task.next) THEN micro' = Rest /\ UNCHANGED shown
     ELSE /\ shown' = [shown EXCEPT ![Task.view] = Task.next]
          /\ micro' = IF Task.view \in mounted THEN Later(Turn) ELSE Rest
  /\ UNCHANGED <<feedVars, channels, mounted, kids, waiting, refined, cached, laid, asks, batch,
                 net, heard, newest, disturbed, bounds>>

\* A write of this engine is enqueued, confirmed, rejected or restored, in a
\* microtask of its own: rows of the resource change, for the plans of over,
\* and its subscribers are notified (invalidate).  No plan loses its rows.
OwnWrite(resource, over) ==
  /\ writes < scene.writes /\ ModeOf[resource] \in {"collection", "document"}
  /\ ~Quiet => ~Task.now
  /\ \A p \in scene.written : over[p] # laid[p] =>
       /\ ResourceOf[p] = resource /\ ~KeptWhole(p)
       /\ Visible(p) = Unknown \/ Overlaid[<<p, cached[p], over[p]>>] # Unknown
  /\ writes' = writes + 1
  /\ laid' = [p \in Plans |-> IF p \in scene.written THEN over[p] ELSE laid[p]]
  /\ disturbed' = disturbed \cup {v \in Concerned(resource) : /\ Includes[v] # <<>>
                                       /\ \E i \in DOMAIN micro : RecomputeOf(micro[i], v)}
  /\ Schedule(micro, waiting, Subscribed(resource))
  /\ UNCHANGED <<feedVars, channels, mounted, kids, refined, shown, cached, asks, batch, net,
                 heard, newest, scene, mounts, faults, cuts>>

----------------------------------------------------------------------------
(* One-shot queries and preloads.                                          *)

Unasked == [stage |-> "idle", rows |-> Unknown, kids |-> <<>>]

\* Engine.query of q with its plan: the cache is read, unless it declines the
\* plan, which is then sent at once.
Looking(q, p) ==
  [job |-> "looked", query |-> q, plan |-> p, read |-> Reads(p), now |-> FALSE]

\* query() or preload(): the queries of a bundle start together.
Ask(Q) ==
  /\ Calling
  /\ \A q \in Q : q \in scene.uses /\ asks[q].stage = "idle"
  /\ asks' = [q \in Queries |-> IF q \in Q THEN [asks[q] EXCEPT !.stage = "asking"] ELSE asks[q]]
  /\ micro' = Open \o SetToSeq({Looking(q, PlanOf[q]) :
                                q \in {r \in Q : PlanOf[r] \notin Declined}})
  /\ batch' = batch \o SetToSeq({Call(q, PlanOf[q]) : q \in {r \in Q : PlanOf[r] \in Declined}})
  /\ UNCHANGED <<feedVars, channels, views, cached, laid, net, heard, newest, disturbed,
                 bounds>>

\* The plan asked for is the query's own first, then those of its relations.
Answered(q, first, rows) ==
  IF first THEN [asks EXCEPT ![q].rows = rows, ![q].stage = "joining"]
  ELSE [asks EXCEPT ![q].kids = Append(@, rows), ![q].stage = "joining"]
First(q) == asks[q].stage = "asking"
Failed(q) == [asks EXCEPT ![q].stage = "failed"]

\* usePreload: what the bundle of Q has come to, as Promise.all says.
PreloadState(Q) ==
  CASE \E q \in Q : asks[q].stage = "failed" -> "error"
    [] \A q \in Q : asks[q].stage = "done" -> "ready"
    [] OTHER -> "loading"
Relating(q) == [job |-> "relate", query |-> q, now |-> TRUE]

\* The cache has the full result, or the source is asked.
Looked ==
  /\ Runs("looked")
  /\ LET q == Task.query IN
       IF Task.read.coverage = "complete"
       THEN /\ asks' = Answered(q, First(q), Task.read.rows)
            /\ micro' = Now(Relating(q)) /\ UNCHANGED batch
       ELSE /\ batch' = Append(batch, Call(q, Task.plan))
            /\ micro' = Rest /\ UNCHANGED asks
  /\ UNCHANGED <<feedVars, channels, views, cached, laid, net, heard, newest, disturbed,
                 bounds>>

\* Offline, local data of some coverage will do.
FallBack ==
  /\ Runs("fallback")
  /\ LET q == Task.query IN
       IF Task.read.coverage # "unknown"
       THEN asks' = Answered(q, First(q), Task.read.rows) /\ micro' = Now(Relating(q))
       ELSE asks' = Failed(q) /\ micro' = Rest
  /\ UNCHANGED <<feedVars, channels, views, cached, laid, batch, net, heard, newest, disturbed,
                 bounds>>

\* materialize: query the next relation, if there are rows to relate.
Relate ==
  /\ Runs("relate")
  /\ LET q == Task.query
         at == Len(asks[q].kids) + 1
         done == at > Len(Includes[q])
         plan == IF done THEN NoPlan
                 ELSE ChildPlanFor(Includes[q][at], PlanOf[q], asks[q].rows)
     IN CASE done -> /\ asks' = [asks EXCEPT ![q].stage = "done"]
                     /\ micro' = Rest /\ UNCHANGED batch
          [] ~done /\ plan = NoPlan ->
               /\ asks' = Answered(q, FALSE, Unknown)
               /\ micro' = Now(Task) /\ UNCHANGED batch
          [] OTHER -> /\ asks' = [asks EXCEPT ![q].stage = "relating"]
                      /\ micro' = IF plan \in Declined THEN Rest ELSE Later(Looking(q, plan))
                      /\ batch' = IF plan \in Declined THEN Append(batch, Call(q, plan)) ELSE batch
  /\ UNCHANGED <<feedVars, channels, views, cached, laid, net, heard, newest, disturbed,
                 bounds>>

----------------------------------------------------------------------------
(* The source: batches, answers, and what they do to cache and channels.   *)

Truth(p) == Cardinality({c \in made : c[1] = p})

Got(n) == [verdict |-> "ok", rows |-> n]
Fault(verdict) == [verdict |-> verdict, rows |-> Unknown]
Answers == [verdict: {"ok", "offline", "error"}, rows: Results]

\* The timer of execute fires: what was asked since the last one is sent.
Flush ==
  /\ Quiet /\ batch # <<>>
  /\ net' = Append(net, [calls |-> batch, served |-> FALSE, answers |-> <<>>])
  /\ batch' = <<>>
  /\ UNCHANGED <<feedVars, channels, views, cached, laid, asks, micro, heard, newest, disturbed,
                 bounds>>

\* The server answers a message; it may refuse plans of it.
Serve(i, refused) ==
  /\ Quiet /\ ~net[i].served
  /\ refused # {} => faults < scene.faults
  /\ faults' = IF refused = {} THEN faults ELSE faults + 1
  /\ net' = [net EXCEPT ![i].served = TRUE,
                        ![i].answers = [j \in DOMAIN net[i].calls |->
                           IF j \in refused THEN Fault("error")
                           ELSE Got(Truth(net[i].calls[j].plan))]]
  /\ UNCHANGED <<feedVars, channels, views, cached, laid, asks, micro, batch, heard, newest,
                 disturbed, writes, scene, mounts, cuts>>

Continuations(i, answers) ==
  [j \in DOMAIN net[i].calls |->
     [job |-> "answer", call |-> net[i].calls[j], answer |-> answers[j], now |-> FALSE]]

\* The answers arrive: the promises of the batch are resolved in order.
Respond(i) ==
  /\ Quiet /\ net[i].served
  /\ micro' = Continuations(i, net[i].answers)
  /\ net' = RemoveAt(net, i)
  /\ UNCHANGED <<feedVars, channels, views, cached, laid, asks, batch, heard, newest, disturbed,
                 bounds>>

\* The request fails, before or after the server saw it.
Drop(i) ==
  /\ Quiet /\ faults < scene.faults
  /\ faults' = faults + 1
  /\ micro' = Continuations(i, [j \in DOMAIN net[i].calls |-> Fault("offline")])
  /\ net' = RemoveAt(net, i)
  /\ UNCHANGED <<feedVars, channels, views, cached, laid, asks, batch, heard, newest, disturbed,
                 writes, scene, mounts, cuts>>

Ended == [Task EXCEPT !.job = "ended"]

\* Mutant: the answer to a one-shot query is not kept.
Bug_ForgetsQueries ==
  /\ Runs("answer")
  /\ LET p == Task.call.plan
         keeps == /\ Task.answer.verdict = "ok" /\ p \notin Declined
                  /\ Task.call.by \notin Queries
         next == [Ended EXCEPT !.now = ~keeps]
     IN /\ IF keeps THEN /\ cached' = [cached EXCEPT ![p] = Task.answer.rows]
                         /\ newest' = [newest EXCEPT ![p] =
                                 IF @ < Task.answer.rows THEN Task.answer.rows ELSE @]
           ELSE UNCHANGED <<cached, newest>>
        /\ Schedule(IF keeps THEN Later(next) ELSE Now(next), waiting,
                    IF keeps THEN Subscribed(ResourceOf[p]) ELSE {})
  /\ UNCHANGED <<feedVars, channels, mounted, kids, refined, shown, laid, asks, batch, net,
                 heard, disturbed, bounds>>

\* An answer is ingested, and the resource's subscribers are notified.
Answer ==
  /\ Runs("answer")
  /\ LET p == Task.call.plan
         keeps == Task.answer.verdict = "ok" /\ p \notin Declined
         next == [Ended EXCEPT !.now = ~keeps]
     IN /\ IF keeps THEN /\ cached' = [cached EXCEPT ![p] = Task.answer.rows]
                         /\ newest' = [newest EXCEPT ![p] =
                                 IF @ < Task.answer.rows THEN Task.answer.rows ELSE @]
           ELSE UNCHANGED <<cached, newest>>
        /\ Schedule(IF keeps THEN Later(next) ELSE Now(next), waiting,
                    IF keeps THEN Subscribed(ResourceOf[p]) ELSE {})
  /\ UNCHANGED <<feedVars, channels, mounted, kids, refined, shown, laid, asks, batch, net,
                 heard, disturbed, bounds>>

\* What the end of a refresh leaves of its channel.
Refreshed(ch, answer) ==
  CASE answer.verdict = "ok" -> [ch EXCEPT !.refreshing = FALSE, !.synced = TRUE,
                                   !.online = TRUE, !.error = FALSE, !.last = answer.rows]
    [] answer.verdict = "offline" -> [ch EXCEPT !.refreshing = FALSE, !.online = FALSE]
    [] OTHER -> [ch EXCEPT !.refreshing = FALSE, !.online = TRUE, !.error = TRUE]

\* The refresh of a channel ends, and its listeners hear of it.
EndRefresh ==
  /\ Runs("ended") /\ Task.call.by \in {"channel", Gone}
  /\ LET p == Task.call.plan
         alive == Task.call.by = "channel"
     IN /\ channels' = IF alive THEN [channels EXCEPT ![p] = Refreshed(@, Task.answer)]
                       ELSE channels
        /\ Schedule(Rest, waiting, IF alive THEN Listeners({p}) ELSE {})
  /\ UNCHANGED <<feedVars, mounted, kids, refined, shown, cached, laid, asks, batch, net, heard,
                 newest, disturbed, bounds>>

\* A one-shot query hears from the source.
EndQuery ==
  /\ Runs("ended") /\ Task.call.by \in Queries
  /\ LET q == Task.call.by
         p == Task.call.plan
     IN CASE Task.answer.verdict = "ok" ->
               asks' = Answered(q, First(q), Task.answer.rows) /\ micro' = Now(Relating(q))
          [] Task.answer.verdict = "offline" /\ p \notin Declined ->
               /\ micro' = Later([job |-> "fallback", query |-> q, read |-> Reads(p),
                                  now |-> FALSE])
               /\ UNCHANGED asks
          [] OTHER -> asks' = Failed(q) /\ micro' = Rest
  /\ UNCHANGED <<feedVars, channels, views, cached, laid, batch, net, heard, newest, disturbed,
                 bounds>>

\* The retention of a released channel is over.  What is under way for it
\* goes on, and is no longer anyone's.
Retire(p) ==
  /\ Quiet
  /\ channels[p].timer /\ channels[p].refs <= 0
  /\ channels' = [channels EXCEPT ![p] = NoChannel]
  /\ LET Abandon(calls) == [j \in DOMAIN calls |->
                            IF calls[j] = Call("channel", p) THEN Call(Gone, p) ELSE calls[j]]
     IN /\ batch' = Abandon(batch)
        /\ net' = [i \in DOMAIN net |-> [net[i] EXCEPT !.calls = Abandon(@)]]
  /\ UNCHANGED <<feedVars, views, cached, laid, asks, micro, heard, newest, disturbed, bounds>>

----------------------------------------------------------------------------
(* Change notifications.                                                   *)

\* Another client's write is accepted by an instance.
Edit(s, p) ==
  /\ Quiet /\ p \in scene.edited /\ Cardinality(made) < scene.edits
  /\ Accept(s, <<p, Truth(p) + 1>>)
  /\ UNCHANGED client

\* The refresh under way for p already has an answer from before n.
AnsweredBefore(p, n) ==
  \E i \in DOMAIN net : \E j \in DOMAIN net[i].answers :
     /\ net[i].calls[j] = Call("channel", p)
     /\ net[i].answers[j].verdict = "ok" /\ net[i].answers[j].rows < n

\* Mutant: only channels in use are refreshed.
Bug_InUse(resource) == {p \in Stored(Store) : ResourceOf[p] = resource /\ channels[p].refs > 0}

\* refreshResource: every stored channel of the resource, used or retained.
ChannelsOf(resource) == {p \in Stored(Store) : ResourceOf[p] = resource}

\* An event arrives: the connector hands it to refreshResource.
Hear ==
  /\ Quiet
  /\ Takes(Me)
  /\ LET change == Head(events[Me])
         p == change[1]
         S == Refresh(Store, ChannelsOf(ResourceOf[p]))
         missed == channels[p].refreshing /\ AnsweredBefore(p, change[2])
     IN /\ channels' = IF missed THEN [S.channels EXCEPT ![p].behind = TRUE] ELSE S.channels
        /\ batch' = S.batch
        /\ heard' = heard \cup {change}
        /\ Schedule(micro, waiting, Stirred(S))
  /\ UNCHANGED <<mounted, kids, refined, shown, cached, laid, asks, net, newest, disturbed,
                 bounds>>

Cut ==
  /\ Quiet /\ cuts < scene.cuts
  /\ cuts' = cuts + 1
  /\ Disconnect(Me)
  /\ UNCHANGED <<channels, views, cached, laid, asks, micro, batch, net, heard, newest,
                 disturbed, writes, scene, mounts, faults>>

Reconnects == Quiet /\ (\E s \in Instances : Reconnect(Me, s)) /\ UNCHANGED client

Relays == Quiet /\ (\E s \in Instances : Relay(s)) /\ UNCHANGED client

----------------------------------------------------------------------------
Init ==
  /\ FeedInit
  /\ scene \in Scenes
  /\ channels = [p \in Plans |-> NoChannel]
  /\ mounted = {} /\ waiting = {} /\ refined = {}
  /\ kids = [v \in Views |-> <<>>]
  /\ shown = [v \in Views |-> Blank]
  /\ cached = [p \in Plans |-> Unknown] /\ laid = [p \in Plans |-> 0]
  /\ asks = [q \in Queries |-> Unasked]
  /\ micro = <<>> /\ batch = <<>> /\ net = <<>>
  /\ heard = {} /\ newest = [p \in Plans |-> 0] /\ disturbed = {}
  /\ mounts = 0 /\ faults = 0 /\ cuts = 0 /\ writes = 0

Recompute == Start \/ Base \/ Include \/ Join \/ Derive \/ Show
OneShot == Looked \/ FallBack \/ Relate
Settle == Answer \/ EndRefresh \/ EndQuery
Microtask == Leave \/ Recompute \/ OneShot \/ Settle

Next ==
  \/ \E v \in Views : Mount(v) \/ Unmount(v) \/ Refine(v)
  \/ \E Q \in Bundles : Ask(Q)
  \/ Microtask
  \/ \E resource \in Resources, over \in [scene.written -> Layers] : OwnWrite(resource, over)
  \/ Flush
  \/ \E i \in DOMAIN net : \/ \E refused \in SUBSET DOMAIN net[i].calls : Serve(i, refused)
                           \/ Respond(i) \/ Drop(i)
  \/ \E p \in Plans : Retire(p)
  \/ \E s \in Instances, p \in Plans : Edit(s, p)
  \/ Hear \/ Cut \/ Reconnects \/ Relays

Spec == Init /\ [][Next]_vars

\* The event loop runs what is queued, timers fire, requests are served and
\* answered, the channel delivers, the browser reconnects.
FairSpec ==
  /\ Spec
  /\ WF_vars(Microtask) /\ WF_vars(Flush)
  /\ WF_vars(\E i \in DOMAIN net : Serve(i, {}))
  /\ WF_vars(\E i \in DOMAIN net : Respond(i))
  /\ WF_vars(Hear) /\ WF_vars(Relays) /\ WF_vars(Reconnects)
=============================================================================
