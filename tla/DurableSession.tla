--------------------------- MODULE DurableSession ---------------------------
(***************************************************************************)
(* Writes across sessions: the outbox of a MemoryCacheBackbone with a      *)
(* storage driver (indexedDbStorage), the replay queue of its              *)
(* MutationPipeline, and an engine that restores the one and adopts it     *)
(* into the other.  A session may end at any moment; what it had on the    *)
(* wire may still run, and what it was saving may or may not be stored.    *)
(*                                                                         *)
(* A write is its place in the order of issue.  Claims, turns and stamps   *)
(* are WritePath's and left out; a cached row is the set of the writes     *)
(* merged into it; attempts and delays only say that a timer is armed.     *)
(* The load is issued before any save of its session, so IndexedDB         *)
(* finishes it first, and saves are stored in the order they were made.    *)
(* Ghosts: dropped, cutOff, after, replaced, fresh, aborted, current.      *)
(***************************************************************************)
EXTENDS Naturals, FiniteSets, SequencesExt

CONSTANTS
  N,           \* how many writes are issued
  Plays,       \* what may happen: the kinds of the writes, and three bounds
  MaxSaves     \* bound: saves under way at once

Writes == 1..N

\* A play bounds the writes issued, the sessions started and the faults met
\* (lost answers, failed loads and failed saves).
\* "action" is one without `offline`; the server rejects a "refused" write;
\* merging what it answers to a "throwing" one throws.
Kinds == {"plain", "action", "refused", "throwing"}

ASSUME DurableAssumption ==
  /\ {N, MaxSaves} \subseteq Nat
  /\ Plays \subseteq [kind: [Writes -> Kinds], writes: 0..N, sessions: Nat \ {0}, faults: Nat]

VARIABLES
  play,        \* one of Plays
  issued,      \* how many have been issued
  session,     \* which session runs
  phase,       \* of engine.ready: "loading", "restored", "running"
  outbox, seq, \* MemoryCacheBackbone's, the entries in the order of their seq
  merged,      \* the writes its canonical rows contain
  timer,       \* persistTimer is armed
  recovered,   \* what `restored` resolved with
  queue,       \* replayQueue
  batch,       \* the batch of currentFlush, empty when there is none
  retry,       \* replayTimer is armed
  disk,        \* the PersistedCache stored, if there is one: a set of at most one
  saves,       \* storage.save calls under way
  wire,        \* requests between client and server
  landed,      \* the writes the server handled, in order of the first time
  twice,       \* those it handled again
  faults,
  dropped,     \* ghost: writes reported as failed, or whose settling threw
  cutOff,      \* ghost: writes whose answer or whose removal may be lost
  after,       \* ghost: the writes recovered when each was issued
  replaced,    \* ghost: what the cache held when the stored state replaced it
  fresh,       \* ghost: this session could not read what is stored
  aborted,     \* ghost: a flush of this session threw
  current      \* ghost: no failed or premature save is the last one

memory == <<outbox, seq, merged, timer>>
replay == <<queue, batch, retry>>
server == <<landed, twice>>
storage == <<disk, saves>>
ghosts == <<dropped, cutOff, after, replaced, fresh, aborted, current>>
vars == <<play, issued, session, phase, memory, recovered, replay, storage, wire, server,
          faults, ghosts>>

----------------------------------------------------------------------------
(* Lists.                                                                  *)

\* The k-th of a set of numbers, and all of them in their order.
Nth(S, k) == CHOOSE n \in S : Cardinality({m \in S : m < n}) = k - 1
Sorted(S) == [k \in 1..Cardinality(S) |-> Nth(S, k)]

\* What is left of a list.
Except(s, ws) ==
  LET kept == Sorted({i \in DOMAIN s : s[i] \notin ws})
  IN [k \in DOMAIN kept |-> s[kept[k]]]

----------------------------------------------------------------------------
(* The server and what reaches it.                                         *)

\* cut tells requests apart that nobody waits for: the fault that left it.
Request(ws, replayed) ==
  [batch |-> ws, from |-> session, replayed |-> replayed, cut |-> 0, ran |-> FALSE]
Awaited(r) == r.from = session /\ r.cut = 0
InFlight == UNION {ToSet(r.batch) : r \in {q \in wire : Awaited(q)}}

\* A batch runs in submission order, whoever still waits for it.  One nobody
\* waits for may as well never arrive: it has no fairness.
Run(r) ==
  /\ r \in wire /\ ~r.ran
  /\ landed' = landed \o Except(r.batch, ToSet(landed))
  /\ twice' = twice \cup (ToSet(r.batch) \cap ToSet(landed))
  /\ wire' = (wire \ {r}) \cup IF Awaited(r) THEN {[r EXCEPT !.ran = TRUE]} ELSE {}
  /\ UNCHANGED <<play, issued, session, phase, memory, recovered, replay, storage, faults,
                 ghosts>>

----------------------------------------------------------------------------
(* The cache: outbox, settling, persistence.                               *)

\* Mutant: the debounce only starts with the session's first change.
Bug_PersistsOnce == timer' = (timer \/ outbox = {})

SchedulePersist == timer' = TRUE

OutboxWrites == {e.write : e \in outbox}
Without(entries, ws) == {e \in entries : e.write \notin ws}

\* Mutant: the counter starts again with the outbox.
Bug_Renumbers(w) == outbox \cup {[seq |-> Cardinality(outbox) + 1, write |-> w]}

Enqueued(w) == outbox \cup {[seq |-> seq + 1, write |-> w]}
Enqueue(w) ==
  /\ seq' = seq + 1 /\ outbox' = Enqueued(w)
  /\ SchedulePersist /\ UNCHANGED merged

\* Mutant: only new entries are saved, not that one has gone.
Bug_SettlesQuietly(confirmed, rejected) ==
  /\ outbox' = Without(outbox, confirmed \cup rejected)
  /\ merged' = merged \cup confirmed
  /\ UNCHANGED <<seq, timer>>

Settle(confirmed, rejected) ==
  /\ outbox' = Without(outbox, confirmed \cup rejected)
  /\ merged' = merged \cup confirmed
  /\ IF confirmed \cup rejected = {} THEN UNCHANGED timer ELSE SchedulePersist
  /\ UNCHANGED seq

\* Mutant: the snapshot leaves out what is on its way to the server.
Bug_SavesIdle ==
  [seq |-> seq, outbox |-> Without(outbox, InFlight), merged |-> merged]

Snapshot == [seq |-> seq, outbox |-> outbox, merged |-> merged]

\* Ghost: the snapshot was taken by a cache that holds what is stored.
Whole == ~fresh /\ (phase # "loading" \/ disk = {})

\* The state is taken when the timer fires, not when it is written.
PersistFires ==
  /\ timer /\ Len(saves) < MaxSaves
  /\ timer' = FALSE
  /\ saves' = Append(saves, [state |-> Snapshot, whole |-> Whole])
  /\ current' = (current \/ phase # "loading" \/ disk = {})
  /\ UNCHANGED <<play, issued, session, phase, outbox, seq, merged, recovered, replay, disk,
                 wire, server, faults, dropped, cutOff, after, replaced, fresh, aborted>>

SaveLands ==
  /\ saves # <<>> /\ phase # "loading"
  /\ disk' = {Head(saves).state} /\ saves' = Tail(saves)
  /\ UNCHANGED <<play, issued, session, phase, memory, recovered, replay, wire, server,
                 faults, ghosts>>

\* Best effort: nothing is tried again before the next change.
SaveFails ==
  /\ saves # <<>> /\ phase # "loading" /\ faults < play.faults
  /\ faults' = faults + 1
  /\ saves' = Tail(saves)
  /\ current' = (current /\ Len(saves) > 1)
  /\ UNCHANGED <<play, issued, session, phase, memory, recovered, replay, disk, wire, server,
                 dropped, cutOff, after, replaced, fresh, aborted>>

----------------------------------------------------------------------------
(* The pipeline: delivery, replay, adoption.                               *)

\* runFlush's loop: the whole queue in one request, or the end.
NextBatch(q, left) ==
  /\ queue' = q
  /\ batch' = q
  /\ wire' = left \cup (IF q = <<>> THEN {} ELSE {Request(q, TRUE)})

\* The retry timer, `online` or flushWrites; one flush at a time.
Flush == IF batch = <<>> THEN NextBatch(queue, wire) ELSE UNCHANGED <<queue, batch, wire>>

RetryFires ==
  /\ retry /\ retry' = FALSE /\ Flush
  /\ UNCHANGED <<play, issued, session, phase, memory, recovered, storage, server, faults,
                 ghosts>>

FlushWrites ==
  /\ queue # <<>> /\ batch = <<>> /\ Flush
  /\ UNCHANGED <<play, issued, session, phase, memory, recovered, retry, storage, server,
                 faults, ghosts>>

EnqueueReplay(ws) == queue' = queue \o ws /\ retry' = TRUE

IsReplayable(w) == play.kind[w] # "action"

\* Mutant: a write does not wait behind those queued.
Bug_RacesAhead(w) ==
  /\ Enqueue(w)
  /\ wire' = wire \cup {Request(<<w>>, FALSE)} /\ UNCHANGED <<queue, retry>>

Deliver(w) ==
  /\ Enqueue(w)
  /\ IF queue # <<>> /\ IsReplayable(w)
     THEN EnqueueReplay(<<w>>) /\ UNCHANGED wire
     ELSE wire' = wire \cup {Request(<<w>>, FALSE)} /\ UNCHANGED <<queue, retry>>

Mutate ==
  /\ issued < play.writes
  /\ issued' = issued + 1
  /\ Deliver(issued')
  /\ after' = [after EXCEPT ![issued'] = IF phase = "running" THEN ToSet(recovered) ELSE {}]
  /\ UNCHANGED <<play, session, phase, recovered, batch, storage, server, faults, dropped,
                 cutOff, replaced, fresh, aborted, current>>

\* The answer to a write sent at once.  A confirm that throws is caught and
\* the write rejected, as the server's rejections are.
DirectAnswer(r) ==
  /\ r \in wire /\ Awaited(r) /\ r.ran /\ ~r.replayed
  /\ LET ws == ToSet(r.batch)
         failed == {w \in ws : play.kind[w] \in {"refused", "throwing"}}
     IN Settle(ws \ failed, failed) /\ dropped' = dropped \cup failed
  /\ wire' = wire \ {r}
  /\ UNCHANGED <<play, issued, session, phase, recovered, replay, storage, server, faults,
                 cutOff, after, replaced, fresh, aborted, current>>

\* The answers to a batch, settled in order.  One whose settling throws has
\* left outbox and queue and ends the flush with nobody to take it up: the
\* answers behind it are forgotten.  settle's invalidate is not reached.
FlushAnswer(r) ==
  LET throws == {i \in DOMAIN r.batch : play.kind[r.batch[i]] = "throwing"}
      upTo == IF throws = {} THEN Len(r.batch) ELSE Min(throws)
      gone == ToSet(SubSeq(r.batch, 1, upTo))
      thrown == {w \in gone : play.kind[w] = "throwing"}
      refused == {w \in gone : play.kind[w] = "refused"}
      left == Except(queue, gone)
  IN /\ r \in wire /\ Awaited(r) /\ r.ran /\ r.replayed
     /\ outbox' = Without(outbox, gone)
     /\ merged' = merged \cup (gone \ (thrown \cup refused))
     /\ IF gone = thrown THEN UNCHANGED timer ELSE SchedulePersist
     /\ dropped' = dropped \cup thrown \cup refused
     /\ IF throws = {}
        THEN NextBatch(left, wire \ {r}) /\ UNCHANGED <<cutOff, aborted, current>>
        ELSE /\ queue' = left /\ batch' = <<>> /\ wire' = wire \ {r}
             /\ cutOff' = cutOff \cup (ToSet(r.batch) \ (gone \ thrown))
             /\ aborted' = TRUE /\ current' = FALSE
     /\ UNCHANGED <<play, issued, session, phase, seq, recovered, retry, storage, server,
                    faults, after, replaced, fresh>>

\* What is left of a request whose client saw a TransportError.
Abandoned(r) ==
  (wire \ {r}) \cup IF r.ran THEN {} ELSE {[r EXCEPT !.cut = faults + 1]}

\* Mutant: after a failed replay nobody tries again.
Bug_GivesUp(r) ==
  /\ r \in wire /\ Awaited(r) /\ r.replayed /\ faults < play.faults
  /\ faults' = faults + 1
  /\ wire' = Abandoned(r)
  /\ batch' = <<>>
  /\ cutOff' = cutOff \cup ToSet(r.batch)
  /\ UNCHANGED <<play, issued, session, phase, memory, recovered, queue, retry, storage,
                 server, dropped, after, replaced, fresh, aborted, current>>

\* TransportError, whether or not the server was reached: a batch stays
\* queued, attempts are counted and the next replay scheduled.
FlushFails(r) ==
  /\ r \in wire /\ Awaited(r) /\ r.replayed /\ faults < play.faults
  /\ faults' = faults + 1
  /\ wire' = Abandoned(r)
  /\ batch' = <<>> /\ retry' = TRUE
  /\ cutOff' = cutOff \cup ToSet(r.batch)
  /\ UNCHANGED <<play, issued, session, phase, memory, recovered, queue, storage, server,
                 dropped, after, replaced, fresh, aborted, current>>

\* A write sent at once is queued, or rejected when it is not replayable.
DirectFails(r) ==
  /\ r \in wire /\ Awaited(r) /\ ~r.replayed /\ faults < play.faults
  /\ faults' = faults + 1
  /\ wire' = Abandoned(r)
  /\ LET lost == {w \in ToSet(r.batch) : ~IsReplayable(w)}
     IN IF lost = {} THEN EnqueueReplay(r.batch) /\ UNCHANGED memory
        ELSE Settle({}, lost) /\ UNCHANGED <<queue, retry>>
  /\ dropped' = dropped \cup {w \in ToSet(r.batch) : ~IsReplayable(w)}
  /\ cutOff' = cutOff \cup ToSet(r.batch)
  /\ UNCHANGED <<play, issued, session, phase, recovered, batch, storage, server, after,
                 replaced, fresh, aborted, current>>

----------------------------------------------------------------------------
(* Sessions.                                                               *)

InOrder(entries) ==
  LET seqs == Sorted({e.seq : e \in entries})
  IN [k \in DOMAIN seqs |-> (CHOOSE e \in entries : e.seq = seqs[k]).write]

\* restore: the stored state replaces what the session has done so far, and
\* is not saved again before the next change.
Restore ==
  /\ phase = "loading" /\ phase' = "restored"
  /\ \/ /\ disk = {} /\ UNCHANGED <<outbox, seq, merged, recovered, current, replaced>>
     \/ \E state \in disk :
          /\ seq' = state.seq /\ merged' = state.merged /\ outbox' = state.outbox
          /\ recovered' = InOrder(state.outbox)
          /\ replaced' = merged \cup OutboxWrites
          /\ current' = (saves = <<>>)
  /\ UNCHANGED <<play, issued, session, timer, replay, storage, wire, server, faults,
                 dropped, cutOff, after, fresh, aborted>>

\* Unreadable state: start fresh.
RestoreFails ==
  /\ phase = "loading" /\ faults < play.faults
  /\ faults' = faults + 1
  /\ phase' = "restored"
  /\ fresh' = TRUE /\ current' = FALSE
  /\ UNCHANGED <<play, issued, session, memory, recovered, replay, storage, wire, server,
                 dropped, cutOff, after, replaced, aborted>>

\* Mutant: recovered writes wait for the next flush.
Bug_AdoptsQuietly ==
  /\ phase = "restored" /\ phase' = "running"
  /\ queue' = recovered \o queue
  /\ UNCHANGED <<play, issued, session, memory, recovered, batch, wire, retry, storage,
                 server, faults, ghosts>>

\* Engine.ready: pipeline.adopt(await cache.restored).  Recovered writes go
\* in front, and are sent whatever their kind.
Adopt ==
  /\ phase = "restored" /\ phase' = "running"
  /\ IF recovered = <<>> THEN UNCHANGED <<queue, batch, wire>>
     ELSE IF batch = <<>> THEN NextBatch(recovered \o queue, wire)
     ELSE queue' = recovered \o queue /\ UNCHANGED <<batch, wire>>
  /\ UNCHANGED <<play, issued, session, memory, recovered, retry, storage, server, faults,
                 ghosts>>

\* The tab is closed or reloaded: of the saves under way the first `stored`
\* are stored.
Crash(stored) ==
  /\ session < play.sessions
  /\ stored \in 0..Len(saves)
  /\ session' = session + 1 /\ phase' = "loading"
  /\ disk' = IF stored = 0 THEN disk ELSE {saves[stored].state}
  /\ saves' = <<>>
  /\ outbox' = {} /\ seq' = 0 /\ merged' = {} /\ timer' = FALSE
  /\ queue' = <<>> /\ batch' = <<>> /\ retry' = FALSE /\ recovered' = <<>>
  /\ cutOff' = cutOff \cup InFlight
               \cup (IF timer \/ saves # <<>> \/ ~current THEN Writes \ OutboxWrites ELSE {})
  /\ replaced' = {} /\ fresh' = FALSE /\ aborted' = FALSE /\ current' = TRUE
  /\ UNCHANGED <<play, issued, wire, server, faults, dropped, after>>

Init ==
  /\ play \in Plays
  /\ issued = 0 /\ session = 1 /\ phase = "loading"
  /\ outbox = {} /\ seq = 0 /\ merged = {} /\ timer = FALSE
  /\ queue = <<>> /\ batch = <<>> /\ retry = FALSE /\ recovered = <<>>
  /\ disk = {} /\ saves = <<>> /\ wire = {} /\ landed = <<>> /\ twice = {}
  /\ faults = 0 /\ dropped = {} /\ cutOff = {} /\ replaced = {}
  /\ after = [w \in Writes |-> {}]
  /\ fresh = FALSE /\ aborted = FALSE /\ current = TRUE

Stored == PersistFires \/ SaveLands
Answered == \E r \in wire : DirectAnswer(r) \/ FlushAnswer(r)
Served == \E r \in wire : Awaited(r) /\ Run(r)
Failed == \E r \in wire : DirectFails(r) \/ FlushFails(r)
Starts == Restore \/ Adopt
Leftover == \E r \in wire : ~Awaited(r) /\ Run(r)
Ends == \E stored \in 0..MaxSaves : Crash(stored)

Next ==
  \/ Mutate \/ Stored \/ SaveFails \/ RetryFires \/ FlushWrites \/ Answered \/ Served
  \/ Failed \/ Leftover \/ Starts \/ RestoreFails \/ Ends

\* Timers fire, storage and server answer what is asked of them.  Nobody has
\* to call flushWrites, and nothing leftover has to arrive.
Fairness ==
  /\ WF_vars(PersistFires) /\ WF_vars(SaveLands) /\ WF_vars(RetryFires)
  /\ WF_vars(Answered) /\ WF_vars(Served) /\ WF_vars(Restore) /\ WF_vars(Adopt)

Spec == Init /\ [][Next]_vars
FairSpec == Spec /\ Fairness
=============================================================================
