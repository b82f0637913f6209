---------------------- MODULE DurableSessionProperties ----------------------
(***************************************************************************)
(* What the guide promises of writes across reloads ("Close the laptop on  *)
(* the train; everything lands when you're back"), and where the code      *)
(* keeps it only with an exception, the exception by name.                 *)
(***************************************************************************)
EXTENDS DurableSession

IsState(state) ==
  /\ state.seq \in 0..N /\ state.merged \subseteq Writes
  /\ \A e \in state.outbox : e.write \in Writes /\ e.seq \in 1..state.seq
  /\ \A e, f \in state.outbox : e.seq = f.seq => e = f

\* Counters stay in range, and in memory, in what is being saved and on disk
\* no two entries ever share a number: the counter outlives its session.
DurableTypeOK ==
  /\ issued \in 0..play.writes /\ session \in 1..play.sessions /\ faults \in 0..play.faults
  /\ phase \in {"loading", "restored", "running"}
  /\ IsState(Snapshot) /\ \A state \in disk : IsState(state)
  /\ \A i \in DOMAIN saves : IsState(saves[i].state)
  /\ {timer, retry, fresh, aborted, current} \subseteq BOOLEAN
  /\ \A r \in wire : ToSet(r.batch) \subseteq 1..issued /\ r.from \in 1..session
  /\ UNION {ToSet(landed), twice, dropped, cutOff, replaced} \subseteq Writes

----------------------------------------------------------------------------
(* Nothing is forgotten.                                                   *)

\* Every entry of the outbox has somebody working for it (a request, the
\* replay queue, or the adoption to come), every queued write is in the
\* outbox and so visible and saved (unless it was issued before the stored
\* state replaced the outbox), none is queued twice, an action that must not
\* be replayed is queued only when it was recovered, and a queue has a flush
\* or a timer (unless a settle that threw ended the flush).
NothingStranded ==
  /\ OutboxWrites \subseteq
       ToSet(queue) \cup InFlight \cup (IF phase = "restored" THEN ToSet(recovered) ELSE {})
  /\ ToSet(queue) \subseteq OutboxWrites \cup replaced
  /\ IsInjective(queue) /\ ToSet(batch) \subseteq ToSet(queue)
  /\ \A w \in ToSet(queue) : play.kind[w] = "action" => w \in ToSet(recovered)
  /\ queue # <<>> => retry \/ batch # <<>> \/ aborted

\* A write that is stored stays stored, as an entry or in the rows, until it
\* is reported as failed, through any number of sessions: unless what was
\* stored is replaced by a session that could not read it or saved before it
\* had, or the write itself was issued before the stored state was restored.
Held(state) == state.merged \cup {e.write : e \in state.outbox}
Holds(states) == UNION {Held(state) : state \in states}
SavedWhole == \E i \in DOMAIN saves : saves[i].whole /\ disk' = {saves[i].state}
KeptOnDisk ==
  [][disk' # disk /\ SavedWhole =>
       Holds(disk) \subseteq Holds(disk') \cup dropped \cup replaced]_vars

\* Once timers and saves are through, what is stored is what the cache
\* holds, unless the last save failed or belongs to the time before the
\* restore.
DiskAgreesAtRest ==
  phase = "running" /\ ~timer /\ saves = <<>> /\ current =>
    disk = {Snapshot} \/ (disk = {} /\ outbox = {} /\ merged = {})

----------------------------------------------------------------------------
(* Once, and in order.                                                     *)

\* The server handles a write twice only when the answer to it was lost, its
\* session ended before the answer or before its removal was saved, or a
\* flush threw before its answer was settled.
RunsOnce == twice \subseteq cutOff

\* "Recovered writes are older than anything queued this session": a
\* replayable write issued once the queue is adopted reaches the server after
\* every write recovered then.
RecoveredLandFirst ==
  \A i \in DOMAIN landed : play.kind[landed[i]] # "action" =>
    \A w \in after[landed[i]] : \E j \in 1..(i - 1) : landed[j] = w

\* "Everything lands": when faults and reloads are over, every write the
\* cache holds is delivered and what is stored has nothing left to replay;
\* unless a flush threw, or the last save did not work out.
ComesToRest ==
  <>[](aborted \/ (outbox = {} /\ queue = <<>>
                   /\ (current => \A state \in disk : state.outbox = {})))
=============================================================================
