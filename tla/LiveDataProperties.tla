------------------------- MODULE LiveDataProperties -------------------------
(***************************************************************************)
(* What the live queries, the channels and the change feed are for.        *)
(***************************************************************************)
EXTENDS LiveData

\* Every variable is of its type: states of channels, plans held, results.
LiveTypeOK ==
  /\ channels \in [Plans -> Channel]
  /\ mounted \subseteq Views /\ waiting \subseteq Views /\ refined \subseteq Views
  /\ \A v \in Views : DOMAIN kids[v] \subseteq Specs
                      /\ \A spec \in DOMAIN kids[v] : kids[v][spec] \in Plans
  /\ cached \in [Plans -> Results] /\ laid \in [Plans -> Layers]
  /\ \A q \in Queries : asks[q].stage \in {"idle", "asking", "joining", "relating",
                                           "done", "failed"}
  /\ \A i \in DOMAIN batch : batch[i] \in Calls
  /\ \A i \in DOMAIN net : \A j \in DOMAIN net[i].answers : net[i].answers[j] \in Answers

\* Who uses the channel of p: live queries of p, and those that hold it for
\* a relation.
Relations(v, p) == {spec \in DOMAIN kids[v] : kids[v][spec] = p}
Users(p) ==
  {<<v>> : v \in {w \in mounted : PlanOf[w] = p}}
  \cup UNION {{v} \X Relations(v, p) : v \in Views}

(* A channel is kept exactly as long as it is used, through every          *)
(* interleaving of mounts, unmounts and recomputes under way: its refCount *)
(* is the number of its users, so a used channel is never retired, and one *)
(* without users is retired when its timer fires (query-store.ts:104-143). *)
RefsExact ==
  \A p \in Plans :
    /\ channels[p].refs = Cardinality(Users(p))
    /\ Users(p) # {} => channels[p].stored
    /\ channels[p].timer <=> channels[p].stored /\ channels[p].refs = 0

(* "Deduplicates sync channels by plan key": a stored channel is refreshing *)
(* exactly while one refresh of it, and no second, is batched, under way   *)
(* or being taken in (query-store.ts:62-65, 105).                          *)
CallsIn(p, calls) == {i \in DOMAIN calls : calls[i] = Call("channel", p)}
Refreshes(p) ==
  Cardinality(CallsIn(p, batch))
  + Cardinality(UNION {{i} \X CallsIn(p, net[i].calls) : i \in DOMAIN net})
  + Cardinality({i \in DOMAIN micro : /\ micro[i].job \in {"answer", "ended"}
                                      /\ micro[i].call = Call("channel", p)})
OneRefresh ==
  \A p \in Plans : channels[p].stored =>
                     Refreshes(p) = (IF channels[p].refreshing THEN 1 ELSE 0)

\* What a live query derives from the cache and its channel now.
Related(v, rows) ==
  [i \in DOMAIN Includes[v] |->
     LET plan == ChildPlanFor(Includes[v][i], PlanOf[v], rows)
     IN IF plan = NoPlan \/ plan \in Declined THEN Unknown ELSE Visible(plan)]
Derived(v) ==
  LET p == PlanOf[v]
      rows == IF p \in Declined THEN channels[p].last ELSE Visible(p)
  IN State(v, rows, Related(v, rows), IF p \in Declined THEN "none" ELSE Known(p, rows),
           channels[p])

(* When the microtasks are done, every live query shows what the cache and *)
(* its channel say now, relations and status included: no wake-up is lost, *)
(* and no older recompute has the last word (live-query.ts:110-124) - but  *)
(* for a live query with relations whose rows an own write changed while a *)
(* recompute was under way: an older recompute, with more relations to     *)
(* read, then ends after the newer one (lines 160-178).                    *)
ShownIsCurrent == Quiet => \A v \in mounted \ disturbed : shown[v] = Derived(v)

\* Nothing is under way, and the connection stands.
Resting ==
  /\ micro = <<>> /\ batch = <<>> /\ net = <<>>
  /\ stream[Me] # Nowhere /\ events[Me] = <<>>
  /\ \A s \in Instances : bus[s] = <<>>

\* The channel of p has no excuse: its last refresh did not fail, it was
\* not told of a change while an older answer was under way, no older answer
\* came after a newer one, no connection was lost with the last change, and
\* no write of the engine's own is laid over its rows.
NoExcuse(p) ==
  /\ channels[p].online /\ ~channels[p].error /\ ~channels[p].behind
  /\ cached[p] >= newest[p] /\ laid[p] = 0
  /\ cuts = 0 \/ Truth(p) = 0 \/ <<p, Truth(p)>> \in heard

(* "Screens update when anyone changes data": at rest a live query shows   *)
(* the server's newest version of its rows and of the rows it relates,     *)
(* wherever in the deployment they were changed, but for the excuses above *)
(* and the one of ShownIsCurrent (live-updates.mdx:6, 85-88;               *)
(* query-store.ts:152-157).                                                *)
FreshAtRest ==
  Resting =>
    \A v \in mounted \ disturbed :
      /\ NoExcuse(PlanOf[v]) => shown[v].rows = Truth(PlanOf[v])
      /\ \A i \in DOMAIN Includes[v] :
           Includes[v][i] \in DOMAIN kids[v] =>
             LET plan == kids[v][Includes[v][i]]
             IN NoExcuse(plan) /\ plan \notin Declined => shown[v].kids[i] = Truth(plan)

(* "The screen that follows renders from local data": what a preload that  *)
(* is ready asked for is completely known to the cache, the related rows   *)
(* included - windows, plans the cache declines, records that do not exist *)
(* and queries answered offline with partial data aside (engine.ts:183-199).*)
PreloadedIsLocal ==
  \A Q \in Bundles : PreloadState(Q) = "ready" =>
    \A q \in Q :
      /\ PlanOf[q] \notin Declined /\ Shape[PlanOf[q]] = "where"
           => Known(PlanOf[q], Visible(PlanOf[q])) = "complete"
      /\ \A i \in DOMAIN Includes[q] :
           LET plan == ChildPlanFor(Includes[q][i], PlanOf[q], asks[q].rows)
           IN plan # NoPlan /\ plan \notin Declined => Known(plan, Visible(plan)) = "complete"

(* Whatever is mounted, asked, edited and written, and though every render *)
(* refines again, the client and the feeds come to rest again and again:   *)
(* no recompute wakes itself by the render that follows it, no change      *)
(* circles between instances (react/index.tsx:61-63, live-query.ts:        *)
(* 235-241, change-feed.ts:18-19).                                         *)
Settles == []<>Resting
=============================================================================
