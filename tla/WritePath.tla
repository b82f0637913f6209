----------------------------- MODULE WritePath -----------------------------
(***************************************************************************)
(* The write path of one client session: MutationPipeline (the turn gate,  *)
(* version stamps, delivery, the replay queue), the optimistic half of     *)
(* MemoryCacheBackbone (canonical rows and outbox), the request batching   *)
(* of RemoteSourceBackbone, the network, and the server as a sequential    *)
(* executor of plans.  Other clients appear as rival edits of server rows, *)
(* query refreshes as reads that ride in the same batches.                 *)
(*                                                                         *)
(* JavaScript runs a continuation to completion before the next timer or   *)
(* network event: Quiet says that no continuation is left, and guards the  *)
(* actions that such an event starts.  Calls of the application (Issue,    *)
(* FlushNow, Refresh) may come from a continuation, so they are not        *)
(* guarded.                                                                *)
(***************************************************************************)
EXTENDS Integers, Sequences, FiniteSets

CONSTANTS
  Writes,        \* the calls of mutate() in this session
  Records,       \* the record identities they may aim at
  Target,        \* [Writes -> Records]
  Op,            \* [Writes -> Ops]; "opaque" is an action with no run()
  OfflineOk,     \* the action writes whose action is declared offline
  Versioned,     \* the records of resources that declare a version field
  Cached,        \* the records of resources whose plans the cache fulfils
  Sourced,       \* the writes whose plans the engine's source fulfils
  Upserts,       \* a create over an existing record replaces it at the server
  Existing,      \* the records that exist (and are cached) at the start
  Rival,         \* who writes the edits of other clients
  Faults,        \* what the network may do: see FaultKinds
  MaxFaults,     \* bound on failed or refused requests
  MaxRivals,     \* bound on rival edits
  MaxReads       \* bound on refreshes the application starts

Ops == {"patch", "action", "opaque", "create", "delete"}

\* "drop": a request fails before it reaches the server; "lose": a request
\* fails although the server executed, or goes on executing, its plans;
\* "reorder": requests in flight overtake each other, in either direction;
\* "refuse": a whole message is answered with an error.
FaultKinds == {"drop", "lose", "reorder", "refuse"}

ASSUME WritesAssumption ==
  /\ Target \in [Writes -> Records]
  /\ Op \in [Writes -> Ops]
  /\ OfflineOk \subseteq Writes
  /\ IsFiniteSet(Writes)
  /\ Rival \notin Writes

ASSUME EngineAssumption ==
  /\ Versioned \subseteq Records /\ Cached \subseteq Records
  /\ Existing \subseteq Records
  /\ Sourced \subseteq Writes
  /\ Upserts \in BOOLEAN
  /\ Faults \subseteq FaultKinds
  /\ MaxFaults \in Nat /\ MaxRivals \in Nat /\ MaxReads \in Nat

VARIABLES
  pc,            \* where each write is on its way
  turn,          \* the turn gate: writes waiting to start, in call order
  first,         \* isFirstWrite of each write
  base,          \* the baseVersion stamped on its plan, or NoVersion
  outstanding,   \* outstanding[r]: unfinished writes to r
  claimed,       \* keyed writes between their bump(key, +1) and bump(key, -1)
  canonical,     \* the cache's server-confirmed rows
  outbox,        \* the cache's pending mutations
  seq,           \* PendingMutation.seq of each write (0: never queued)
  lastSeq,       \* the cache's seq counter
  batch,         \* RemoteSourceBackbone.batch
  net,           \* requests in flight
  sent,          \* how many requests were sent (their ids)
  arrived,       \* answers whose continuations have not run yet
  replayQueue,   \* writes waiting for the network, in order
  replayTimer,   \* whether the replay timer is armed
  flushing,      \* "idle", "sent" (awaiting answers) or "settling"
  flushBatch,    \* the snapshot the running flush awaits answers for
  outcomes,      \* its results: writes of the snapshot with their answers
  offlineAgain,  \* whether one of them was a network failure
  server,        \* the server's rows
  log,           \* ghost: every write plan the server executed, in order
  faults, rivals, reads   \* counters for the bounds

pipeline == <<pc, turn, first, base, outstanding, claimed>>
cache == <<canonical, outbox, seq, lastSeq>>
replay == <<replayQueue, replayTimer>>
flushVars == <<flushing, flushBatch, outcomes, offlineAgain>>
world == <<server, log>>
bounds == <<faults, rivals, reads>>
vars == <<pipeline, cache, batch, net, sent, arrived, replay, flushVars,
          world, bounds>>

----------------------------------------------------------------------------
(* Rows, plans and answers.  A row keeps what the properties tell apart:   *)
(* whether it exists, its version, and whose writes its content reflects.  *)

NoVersion == -1
Row == [there: BOOLEAN, ver: Nat, by: SUBSET Writes]
NoRow == [there |-> FALSE, ver |-> 0, by |-> {}]

Keyed(w) == Op[w] \in {"patch", "action", "opaque"}
Lowered(w) == Op[w] \in {"patch", "action"}
SameRecord(v, w) == Keyed(v) /\ Keyed(w) /\ Target[v] = Target[w]
Replayable(w) == Op[w] \in {"action", "opaque"} => w \in OfflineOk

Verdicts == {"ok", "conflict", "failed", "refused", "offline"}
Answers == [verdict: Verdicts, row: Row]
Fault(verdict) == [verdict |-> verdict, row |-> NoRow]

Entries == [kind: {"direct", "flush"}, write: Writes]
           \cup [kind: {"read"}, record: Records]
Direct(w) == [kind |-> "direct", write |-> w]
Flush(w) == [kind |-> "flush", write |-> w]
Read(r) == [kind |-> "read", record |-> r]

Requests == [id: Nat, plans: Seq(Entries), answers: Seq(Answers), open: BOOLEAN]

\* The effect of a write on a row of the client: applyToRows.
LocalEffect(w, row) ==
  CASE Op[w] = "create" -> [there |-> TRUE, ver |-> 0, by |-> {w}]
    [] Op[w] = "delete" -> NoRow
    [] Op[w] = "opaque" -> row
    [] OTHER -> IF row.there THEN [row EXCEPT !.by = @ \cup {w}] ELSE row

\* The visible row: the overlay of the outbox on canonical, in seq order.
\* A create or a delete hides what is under it, so the last one decides.
Visible(r) ==
  LET mine == {w \in outbox : Target[w] = r}
      whole == {w \in mine : Op[w] \in {"create", "delete"}}
      last == {w \in whole : \A v \in whole : seq[v] <= seq[w]}
      under == IF last = {} THEN canonical[r]
               ELSE LocalEffect(CHOOSE w \in last : TRUE, NoRow)
      over == {w \in mine : Lowered(w) /\ \A v \in last : seq[w] > seq[v]}
  IN IF under.there THEN [under EXCEPT !.by = @ \cup over] ELSE under

\* What the server answers to a write plan, and the row it leaves: the
\* version check and the bump of applyPatch; opaque actions run the host's
\* handler, which is not asked for a version.
Verdict(w, row) ==
  CASE Op[w] = "create" -> IF row.there /\ ~Upserts THEN "failed" ELSE "ok"
    [] Op[w] = "delete" -> "ok"
    [] OTHER ->
         IF ~row.there THEN "failed"
         ELSE IF Target[w] \in Versioned /\ Lowered(w) /\ base[w] # NoVersion
                 /\ row.ver # base[w]
         THEN "conflict" ELSE "ok"

Effect(w, row) ==
  CASE Op[w] = "create" -> [there |-> TRUE, ver |-> 0, by |-> {w}]
    [] Op[w] = "delete" -> NoRow
    [] Op[w] = "opaque" -> [row EXCEPT !.by = @ \cup {w}]
    [] OTHER -> [row EXCEPT !.by = @ \cup {w},
                            !.ver = IF Target[w] \in Versioned THEN @ + 1 ELSE @]

\* Mutant: the answer is dropped, the plan is applied locally in its place.
Bug_MergedLocally(w, answer, row) == LocalEffect(w, row)

\* Mutant: a confirmed write is not merged.
Bug_NotMerged(w, answer, row) == row

\* mergeCanonical: take the record the server returned, or (for a delete or
\* an opaque action, whose answer is no record) apply the plan locally.
Merged(w, answer, row) ==
  IF Lowered(w) \/ Op[w] = "create" THEN answer.row ELSE LocalEffect(w, row)

\* Mutant: the entry is not taken out of the queue.
Bug_StillQueued(q, w) == q

\* The queue without its entry for w: replayQueue.filter(e => e !== entry).
Without(q, w) ==
  IF \E i \in 1..Len(q) : q[i] = w
  THEN LET i == CHOOSE j \in 1..Len(q) : q[j] = w
       IN SubSeq(q, 1, i - 1) \o SubSeq(q, i + 1, Len(q))
  ELSE q

----------------------------------------------------------------------------
Init ==
  /\ pc = [w \in Writes |-> "idle"]
  /\ turn = <<>>
  /\ first = [w \in Writes |-> FALSE]
  /\ base = [w \in Writes |-> NoVersion]
  /\ outstanding = [r \in Records |-> 0]
  /\ claimed = {}
  /\ server = [r \in Records |->
                 IF r \in Existing THEN [NoRow EXCEPT !.there = TRUE] ELSE NoRow]
  /\ canonical = [r \in Records |-> IF r \in Cached THEN server[r] ELSE NoRow]
  /\ outbox = {}
  /\ seq = [w \in Writes |-> 0]
  /\ lastSeq = 0
  /\ batch = <<>>
  /\ net = {}
  /\ sent = 0
  /\ arrived = <<>>
  /\ replayQueue = <<>>
  /\ replayTimer = FALSE
  /\ flushing = "idle"
  /\ flushBatch = <<>>
  /\ outcomes = <<>>
  /\ offlineAgain = FALSE
  /\ log = <<>>
  /\ faults = 0 /\ rivals = 0 /\ reads = 0

Settled(w) == pc[w] \in {"confirmed", "rejected"}

\* No continuation is left to run: the event loop may take its next event.
Quiet ==
  /\ arrived = <<>>
  /\ turn = <<>>
  /\ flushing # "settling"
  /\ \A w \in Writes :
       /\ pc[w] # "started"
       /\ Settled(w) => w \notin claimed

----------------------------------------------------------------------------
(* mutate(): claim the record, wait for one's turn, stamp, deliver.        *)

\* Mutant: every keyed write is stamped.
Bug_EveryWriteIsFirst(w) == Keyed(w)

\* Mutant: only the queue is consulted, not the writes under way.
Bug_FirstInQueue(w) ==
  Keyed(w) /\ \A i \in 1..Len(replayQueue) : ~SameRecord(replayQueue[i], w)

\* Only the first outstanding write to a record carries a stamp: none is
\* unfinished, none recovered or queued.
IsFirstWrite(w) ==
  /\ Keyed(w)
  /\ outstanding[Target[w]] = 0
  /\ \A i \in 1..Len(replayQueue) : ~SameRecord(replayQueue[i], w)

\* The synchronous part of mutate(): isFirstWrite, bump(key, +1), join the gate.
Issue(w) ==
  /\ pc[w] = "idle"
  /\ pc' = [pc EXCEPT ![w] = "turn"]
  /\ first' = [first EXCEPT ![w] = IsFirstWrite(w)]
  /\ outstanding' = IF Keyed(w) THEN [outstanding EXCEPT ![Target[w]] = @ + 1]
                    ELSE outstanding
  /\ turn' = Append(turn, w)
  /\ claimed' = IF Keyed(w) THEN claimed \cup {w} ELSE claimed
  /\ UNCHANGED <<base, cache, batch, net, sent, arrived, replay, flushVars, world,
                 bounds>>

\* At the head of the gate: withBaseVersion reads the visible record.
Stamp(w) ==
  /\ turn # <<>> /\ Head(turn) = w /\ pc[w] = "turn"
  /\ pc' = [pc EXCEPT ![w] = "stamped"]
  /\ base' = [base EXCEPT ![w] =
       IF first[w] /\ Target[w] \in Versioned \cap Cached /\ Visible(Target[w]).there
       THEN Visible(Target[w]).ver ELSE NoVersion]
  /\ UNCHANGED <<turn, first, outstanding, claimed, cache, batch, net, sent,
                 arrived, replay, flushVars, world, bounds>>

\* deliver() up to its first await: the optimistic entry; the gate opens.
\* The continuation of that await runs before the next write's start.
Deliver(w) ==
  /\ turn # <<>> /\ Head(turn) = w /\ pc[w] = "stamped"
  /\ \A v \in Writes : pc[v] # "started"
  /\ pc' = [pc EXCEPT ![w] = "started"]
  /\ turn' = Tail(turn)
  /\ IF Target[w] \in Cached
     THEN /\ lastSeq' = lastSeq + 1
          /\ seq' = [seq EXCEPT ![w] = lastSeq + 1]
          /\ outbox' = outbox \cup {w}
          /\ UNCHANGED canonical
     ELSE UNCHANGED cache
  /\ UNCHANGED <<first, base, outstanding, claimed, batch, net, sent, arrived,
                 replay, flushVars, world, bounds>>

\* No source for the plan: the cache is authoritative (and without a cache
\* the write fails with NoBackboneError).
DeliverLocally(w) ==
  /\ pc[w] = "started" /\ w \notin Sourced
  /\ pc' = [pc EXCEPT ![w] = IF Target[w] \in Cached THEN "confirmed" ELSE "rejected"]
  /\ outbox' = outbox \ {w}
  /\ canonical' = IF Target[w] \in Cached
                  THEN [canonical EXCEPT ![Target[w]] = LocalEffect(w, @)]
                  ELSE canonical
  /\ UNCHANGED <<turn, first, base, outstanding, claimed, seq, lastSeq, batch,
                 net, sent, arrived, replay, flushVars, world, bounds>>

\* Writes queued behind a network failure go first: queue behind them.
QueueBehind(w) ==
  /\ pc[w] = "started" /\ w \in Sourced
  /\ replayQueue # <<>> /\ Replayable(w)
  /\ pc' = [pc EXCEPT ![w] = "behind"]
  /\ replayQueue' = Append(replayQueue, w)
  /\ replayTimer' = TRUE
  /\ UNCHANGED <<turn, first, base, outstanding, claimed, cache, batch, net,
                 sent, arrived, flushVars, world, bounds>>

\* source.execute(plan): joins the batch of this tick.
Dispatch(w) ==
  /\ pc[w] = "started" /\ w \in Sourced
  /\ replayQueue = <<>> \/ ~Replayable(w)
  /\ pc' = [pc EXCEPT ![w] = "direct"]
  /\ batch' = Append(batch, Direct(w))
  /\ UNCHANGED <<turn, first, base, outstanding, claimed, cache, net, sent,
                 arrived, replay, flushVars, world, bounds>>

\* Mutant: the claim is given back again and again, below zero.
Bug_ReleaseAgain(w) ==
  /\ Settled(w) /\ Keyed(w) /\ outstanding[Target[w]] > -2
  /\ claimed' = claimed \ {w}
  /\ outstanding' = [outstanding EXCEPT ![Target[w]] = @ - 1]
  /\ UNCHANGED <<pc, turn, first, base, cache, batch, net, sent, arrived, replay,
                 flushVars, world, bounds>>

\* Mutant: giving back one claim forgets the record's other claims.
Bug_ReleaseAll(w) ==
  /\ Settled(w) /\ w \in claimed
  /\ claimed' = claimed \ {w}
  /\ outstanding' = [outstanding EXCEPT ![Target[w]] = 0]
  /\ UNCHANGED <<pc, turn, first, base, cache, batch, net, sent, arrived, replay,
                 flushVars, world, bounds>>

\* result.then(() => bump(key, -1)), on either outcome.
Release(w) ==
  /\ Settled(w) /\ w \in claimed
  /\ claimed' = claimed \ {w}
  /\ outstanding' = [outstanding EXCEPT ![Target[w]] = IF @ > 0 THEN @ - 1 ELSE 0]
  /\ UNCHANGED <<pc, turn, first, base, cache, batch, net, sent, arrived, replay,
                 flushVars, world, bounds>>

----------------------------------------------------------------------------
(* The batch, the network and the server.                                  *)

\* The zero-delay timer of RemoteSourceBackbone: one request for the batch.
SendBatch ==
  /\ Quiet /\ batch # <<>>
  /\ sent' = sent + 1
  /\ net' = net \cup {[id |-> sent', plans |-> batch, answers |-> <<>>, open |-> TRUE]}
  /\ batch' = <<>>
  /\ UNCHANGED <<pipeline, cache, arrived, replay, flushVars, world, bounds>>

Executed(q) == Len(q.answers) >= Len(q.plans)
InOrder(q) == "reorder" \in Faults \/ \A p \in net : q.id <= p.id

\* POST: the server executes the plans of a message one after the other.
\* A request nobody waits for is forgotten with its last plan.
ServerExec(q) ==
  /\ q \in net /\ ~Executed(q) /\ InOrder(q)
  /\ LET plan == q.plans[Len(q.answers) + 1]
         AnswerWith(answer) ==
           LET p == [q EXCEPT !.answers = Append(@, answer)]
           IN net' = (net \ {q}) \cup (IF ~p.open /\ Executed(p) THEN {} ELSE {p})
     IN \/ /\ plan.kind = "read"
           /\ AnswerWith([verdict |-> "ok", row |-> server[plan.record]])
           /\ UNCHANGED world
        \/ /\ plan.kind # "read"
           /\ LET w == plan.write
                  r == Target[w]
                  verdict == Verdict(w, server[r])
                  row == IF verdict = "ok" THEN Effect(w, server[r]) ELSE server[r]
              IN /\ AnswerWith([verdict |-> verdict, row |-> row])
                 /\ server' = [server EXCEPT ![r] = row]
                 /\ log' = Append(log, [who |-> w, record |-> r, verdict |-> verdict])
  /\ UNCHANGED <<pipeline, cache, batch, sent, arrived, replay, flushVars, bounds>>

\* What the client hears of every plan of q: f[i] for the i-th.
Hear(q, f) ==
  arrived' = arrived \o [i \in 1..Len(q.plans) |->
                           [entry |-> q.plans[i], answer |-> f[i]]]

\* The response arrives: every settler of the batch is called.
Respond(q) ==
  /\ Quiet /\ q \in net /\ q.open /\ Executed(q) /\ InOrder(q)
  /\ Hear(q, q.answers)
  /\ net' = net \ {q}
  /\ UNCHANGED <<pipeline, cache, batch, sent, replay, flushVars, world, bounds>>

\* fetch fails, or a 5xx: a TransportError for every plan of the batch.
Fail(q) ==
  /\ Quiet /\ q \in net /\ q.open /\ faults < MaxFaults
  /\ faults' = faults + 1
  /\ Hear(q, [i \in 1..Len(q.plans) |-> Fault("offline")])
  /\ \/ /\ "drop" \in Faults /\ q.answers = <<>>
        /\ net' = net \ {q}
     \/ /\ "lose" \in Faults /\ q.answers # <<>>
        /\ net' = net \ {q}
     \/ /\ "lose" \in Faults /\ ~Executed(q)
        /\ net' = (net \ {q}) \cup {[q EXCEPT !.open = FALSE]}
  /\ UNCHANGED <<pipeline, cache, batch, sent, replay, flushVars, world, rivals, reads>>

\* The server refuses the whole message: { ok: false } rejects every plan.
Refuse(q) ==
  /\ Quiet /\ q \in net /\ q.open /\ q.answers = <<>> /\ InOrder(q)
  /\ "refuse" \in Faults /\ faults < MaxFaults
  /\ faults' = faults + 1
  /\ Hear(q, [i \in 1..Len(q.plans) |-> Fault("refused")])
  /\ net' = net \ {q}
  /\ UNCHANGED <<pipeline, cache, batch, sent, replay, flushVars, world, rivals, reads>>

\* Another client's edit of a row.
RivalEdit(r) ==
  /\ rivals < MaxRivals /\ server[r].there
  /\ rivals' = rivals + 1
  /\ server' = [server EXCEPT ![r].ver = IF r \in Versioned THEN @ + 1 ELSE @]
  /\ log' = Append(log, [who |-> Rival, record |-> r, verdict |-> "ok"])
  /\ UNCHANGED <<pipeline, cache, batch, net, sent, arrived, replay, flushVars,
                 faults, reads>>

----------------------------------------------------------------------------
(* Continuations of answered plans, one at a time, in settler order.       *)

Next1 == Head(arrived)
HeadIs(kind) == arrived # <<>> /\ Next1.entry.kind = kind
HeadIsFor(w) == HeadIs("direct") /\ Next1.entry.write = w

\* settle(): drop the outbox entry of w; when confirmed, merge the answer.
SettleConfirmed(w, answer) ==
  /\ pc' = [pc EXCEPT ![w] = "confirmed"]
  /\ outbox' = outbox \ {w}
  /\ canonical' = IF w \in outbox
       THEN [canonical EXCEPT ![Target[w]] = Merged(w, answer, @)]
       ELSE canonical

\* Mutant: the winner of a conflict is not fetched.
Bug_NoWinnerFetched(w, answer) ==
  /\ pc' = [pc EXCEPT ![w] = "rejected"]
  /\ outbox' = outbox \ {w}
  /\ UNCHANGED <<canonical, batch>>

\* Mutant: a rejected write keeps its optimistic entry.
Bug_KeepsOverlay(w, answer) ==
  /\ pc' = [pc EXCEPT ![w] = "rejected"]
  /\ UNCHANGED <<canonical, batch, outbox>>

\* rejectWrite(): drop the outbox entry; a lost conflict also re-fetches the
\* record (refreshRecord), which joins the next batch.
SettleRejected(w, answer) ==
  /\ pc' = [pc EXCEPT ![w] = "rejected"]
  /\ outbox' = outbox \ {w}
  /\ UNCHANGED canonical
  /\ batch' = IF answer.verdict = "conflict"
              THEN Append(batch, Read(Target[w])) ELSE batch

\* A read of one record: ingest what the server answered, ignore an error.
Ingest ==
  /\ HeadIs("read")
  /\ arrived' = Tail(arrived)
  /\ canonical' = IF Next1.entry.record \in Cached /\ Next1.answer.verdict = "ok"
                  THEN [canonical EXCEPT ![Next1.entry.record] = Next1.answer.row]
                  ELSE canonical
  /\ UNCHANGED <<pipeline, outbox, seq, lastSeq, batch, net, sent, replay,
                 flushVars, world, bounds>>

\* Mutant: any answer the server gave counts as a confirmation.
Bug_ConfirmAnyAnswer(w) ==
  /\ HeadIsFor(w) /\ Next1.answer.verdict # "offline"
  /\ arrived' = Tail(arrived)
  /\ SettleConfirmed(w, Next1.answer)
  /\ UNCHANGED <<turn, first, base, outstanding, claimed, seq, lastSeq, batch,
                 net, sent, replay, flushVars, world, bounds>>

\* deliver() after its execute: confirmed.
Confirm(w) ==
  /\ HeadIsFor(w) /\ Next1.answer.verdict = "ok"
  /\ arrived' = Tail(arrived)
  /\ SettleConfirmed(w, Next1.answer)
  /\ UNCHANGED <<turn, first, base, outstanding, claimed, seq, lastSeq, batch,
                 net, sent, replay, flushVars, world, bounds>>

\* deliver() after a TransportError of a replayable write: enqueueReplay.
FallBack(w) ==
  /\ HeadIsFor(w) /\ Next1.answer.verdict = "offline" /\ Replayable(w)
  /\ arrived' = Tail(arrived)
  /\ pc' = [pc EXCEPT ![w] = "queued"]
  /\ replayQueue' = Append(replayQueue, w)
  /\ replayTimer' = TRUE
  /\ UNCHANGED <<turn, first, base, outstanding, claimed, cache, batch, net,
                 sent, flushVars, world, bounds>>

\* deliver() after any other error: rejectWrite.
Reject(w) ==
  /\ HeadIsFor(w) /\ Next1.answer.verdict # "ok"
  /\ Next1.answer.verdict = "offline" => ~Replayable(w)
  /\ arrived' = Tail(arrived)
  /\ SettleRejected(w, Next1.answer)
  /\ UNCHANGED <<turn, first, base, outstanding, claimed, seq, lastSeq, net,
                 sent, replay, flushVars, world, bounds>>

\* A flushed plan was answered; Promise.all resolves with the last of them.
Collect ==
  /\ HeadIs("flush")
  /\ arrived' = Tail(arrived)
  /\ outcomes' = Append(outcomes, [write |-> Next1.entry.write, answer |-> Next1.answer])
  /\ IF Len(outcomes') = Len(flushBatch)
     THEN flushing' = "settling" /\ flushBatch' = <<>>
     ELSE UNCHANGED <<flushing, flushBatch>>
  /\ UNCHANGED <<pipeline, cache, batch, net, sent, replay, offlineAgain, world, bounds>>

----------------------------------------------------------------------------
(* runFlush(): replay the whole queue as one batch, settle entry by entry. *)

\* Mutant: the queue is replayed newest first.
Bug_ReplayReversed ==
  /\ flushing' = "sent"
  /\ flushBatch' = [i \in 1..Len(replayQueue) |-> replayQueue[Len(replayQueue) + 1 - i]]
  /\ outcomes' = <<>>
  /\ offlineAgain' = FALSE
  /\ batch' = batch \o [i \in 1..Len(replayQueue) |->
                          Flush(replayQueue[Len(replayQueue) + 1 - i])]

\* The head of its loop: snapshot the queue and execute every entry.
Replay ==
  /\ flushing' = "sent"
  /\ flushBatch' = replayQueue
  /\ outcomes' = <<>>
  /\ offlineAgain' = FALSE
  /\ batch' = batch \o [i \in 1..Len(replayQueue) |-> Flush(replayQueue[i])]

\* Mutant: a flush that is under way is not shared.
Bug_FlushesAgain ==
  /\ replayQueue # <<>>
  /\ Replay
  /\ UNCHANGED <<pipeline, cache, net, sent, arrived, replay, world, bounds>>

\* flush(), called by the application or on the browser's online event.
FlushNow ==
  /\ flushing = "idle" /\ replayQueue # <<>>
  /\ Replay
  /\ UNCHANGED <<pipeline, cache, net, sent, arrived, replay, world, bounds>>

\* The replay timer: forget it, then flush() (a running flush is shared).
TimerFires ==
  /\ Quiet /\ replayTimer
  /\ replayTimer' = FALSE
  /\ IF flushing = "idle" /\ replayQueue # <<>>
     THEN Replay ELSE UNCHANGED <<batch, flushVars>>
  /\ UNCHANGED <<pipeline, cache, net, sent, arrived, replayQueue, world, bounds>>

\* The loop over the results, for the entry at its head.
Outcome == Head(outcomes).answer
SettlingNext(w) == flushing = "settling" /\ outcomes # <<>> /\ Head(outcomes).write = w
NextOutcome == outcomes' = Tail(outcomes) /\ UNCHANGED <<flushing, flushBatch>>

\* Offline again: the entry stays queued for the next flush.
FlushStaysQueued(w) ==
  /\ SettlingNext(w) /\ Outcome.verdict = "offline"
  /\ offlineAgain' = TRUE
  /\ NextOutcome
  /\ UNCHANGED <<pipeline, cache, batch, net, sent, arrived, replay, world, bounds>>

\* Delivered: leave the queue, confirm.
FlushConfirm(w) ==
  /\ SettlingNext(w) /\ Outcome.verdict = "ok"
  /\ replayQueue' = Without(replayQueue, w)
  /\ SettleConfirmed(w, Outcome)
  /\ NextOutcome
  /\ UNCHANGED <<turn, first, base, outstanding, claimed, seq, lastSeq, batch,
                 net, sent, arrived, replayTimer, offlineAgain, world, bounds>>

\* Refused: leave the queue, reject.
FlushReject(w) ==
  /\ SettlingNext(w) /\ Outcome.verdict \notin {"ok", "offline"}
  /\ replayQueue' = Without(replayQueue, w)
  /\ SettleRejected(w, Outcome)
  /\ NextOutcome
  /\ UNCHANGED <<turn, first, base, outstanding, claimed, seq, lastSeq, net,
                 sent, arrived, replayTimer, offlineAgain, world, bounds>>

\* Mutant: a flush that is offline again schedules no other.
Bug_NoRetry ==
  /\ flushing = "settling" /\ outcomes = <<>>
  /\ \/ /\ offlineAgain \/ replayQueue = <<>>
        /\ flushing' = "idle" /\ offlineAgain' = FALSE
        /\ UNCHANGED <<batch, flushBatch, outcomes>>
     \/ ~offlineAgain /\ replayQueue # <<>> /\ Replay
  /\ UNCHANGED <<pipeline, cache, net, sent, arrived, replay, world, bounds>>

\* After the loop: schedule the next try, or go round for newly queued
\* writes, or finish.
FlushRound ==
  /\ flushing = "settling" /\ outcomes = <<>>
  /\ \/ /\ offlineAgain
        /\ replayTimer' = TRUE
        /\ flushing' = "idle" /\ offlineAgain' = FALSE
        /\ UNCHANGED <<batch, flushBatch, outcomes>>
     \/ /\ ~offlineAgain /\ replayQueue # <<>>
        /\ Replay
        /\ UNCHANGED replayTimer
     \/ /\ ~offlineAgain /\ replayQueue = <<>>
        /\ flushing' = "idle"
        /\ UNCHANGED <<replayTimer, batch, flushBatch, outcomes, offlineAgain>>
  /\ UNCHANGED <<pipeline, cache, net, sent, arrived, replayQueue, world, bounds>>

\* The application (a live query, Engine.query) re-reads one record.
Refresh(r) ==
  /\ reads < MaxReads
  /\ reads' = reads + 1
  /\ batch' = Append(batch, Read(r))
  /\ UNCHANGED <<pipeline, cache, net, sent, arrived, replay, flushVars, world,
                 faults, rivals>>

----------------------------------------------------------------------------
\* Every write is settled and nothing is on its way: the session may rest.
AtRest ==
  /\ \A w \in Writes : Settled(w)
  /\ Quiet /\ batch = <<>> /\ net = {} /\ ~replayTimer
  /\ UNCHANGED vars

WriteSteps(w) ==
  \/ Stamp(w) \/ Deliver(w) \/ DeliverLocally(w) \/ QueueBehind(w) \/ Dispatch(w)
  \/ Release(w) \/ Confirm(w) \/ FallBack(w) \/ Reject(w)
  \/ FlushStaysQueued(w) \/ FlushConfirm(w) \/ FlushReject(w)

Runtime == SendBatch \/ Ingest \/ Collect \/ TimerFires \/ FlushRound
Network == \E q \in net : ServerExec(q) \/ Respond(q)
Misfortune == \E q \in net : Fail(q) \/ Refuse(q)
Environment == FlushNow \/ \E r \in Records : RivalEdit(r) \/ Refresh(r)

Next ==
  \/ \E w \in Writes : Issue(w)
  \/ \E w \in Writes : WriteSteps(w)
  \/ Runtime
  \/ Network
  \/ Misfortune
  \/ Environment
  \/ AtRest

Spec == Init /\ [][Next]_vars

\* The event loop runs every continuation and timer; a request is executed
\* and answered unless the network (MaxFaults times at most) loses it.
FairSpec ==
  /\ Spec
  /\ \A w \in Writes : WF_vars(WriteSteps(w))
  /\ WF_vars(Runtime)
  /\ WF_vars(Network)
=============================================================================
