------------------------ MODULE WritePathProperties ------------------------
(***************************************************************************)
(* What must hold of the write path.                                       *)
(***************************************************************************)
EXTENDS WritePath

PcStates == {"idle", "turn", "stamped", "started", "direct", "queued", "behind",
             "confirmed", "rejected"}

News == [entry: Entries, answer: Answers]
Results == [write: Writes, answer: Answers]
Events == [who: Writes \cup {Rival}, record: Records, verdict: Verdicts]

\* Types of the state, by component.
PipelineTypeOK ==
  /\ pc \in [Writes -> PcStates]
  /\ turn \in Seq(Writes)
  /\ first \in [Writes -> BOOLEAN]
  /\ base \in [Writes -> Nat \cup {NoVersion}]
  /\ outstanding \in [Records -> Nat]
  /\ claimed \subseteq Writes

CacheTypeOK ==
  /\ canonical \in [Records -> Row]
  /\ outbox \subseteq Writes
  /\ seq \in [Writes -> Nat] /\ lastSeq \in Nat

TransportTypeOK ==
  /\ batch \in Seq(Entries)
  /\ net \subseteq Requests /\ sent \in Nat
  /\ arrived \in Seq(News)

ReplayTypeOK ==
  /\ replayQueue \in Seq(Writes) /\ replayTimer \in BOOLEAN

FlushTypeOK ==
  /\ flushing \in {"idle", "sent", "settling"}
  /\ flushBatch \in Seq(Writes) /\ outcomes \in Seq(Results)
  /\ offlineAgain \in BOOLEAN

WorldTypeOK ==
  /\ server \in [Records -> Row]
  /\ log \in Seq(Events)

BoundsTypeOK ==
  /\ faults \in Nat /\ rivals \in Nat /\ reads \in Nat

\* The state is well typed; in particular the counter of outstanding writes
\* never goes below zero and a stamp is a version some row can have.
TypeOK ==
  /\ PipelineTypeOK /\ CacheTypeOK /\ TransportTypeOK /\ ReplayTypeOK
  /\ FlushTypeOK /\ WorldTypeOK /\ BoundsTypeOK

----------------------------------------------------------------------------
\* How often x occurs in the sequence s, and the plan entry e on its way to
\* and from the server.
Occurrences(s, x) == Cardinality({i \in DOMAIN s : s[i] = x})
Waiting(e) == Occurrences(batch, e)
InFlight(e) ==
  Cardinality(UNION {{<<q.id, i>> : i \in {j \in DOMAIN q.plans : q.plans[j] = e}}
                       : q \in {p \in net : p.open}})
Landed(e) == Cardinality({i \in DOMAIN arrived : arrived[i].entry = e})
Copies(e) == Waiting(e) + InFlight(e) + Landed(e)

\* The answers of the running flush that are for w and not yet dealt with.
Collected(w) == Cardinality({i \in DOMAIN outcomes : outcomes[i].write = w})

\* A write that is neither settled nor still starting is held in exactly one
\* place: its own execute() is under way, or it is one entry of the replay
\* queue.  A flush has one copy of each write of its snapshot on its way or
\* answered, and of none that left the queue, so nothing is lost between
\* batch, request and queue and nothing is sent twice by the client itself.
HeldOnce ==
  \A w \in Writes :
    /\ Copies(Direct(w)) = IF pc[w] = "direct" THEN 1 ELSE 0
    /\ Occurrences(replayQueue, w) = IF pc[w] \in {"queued", "behind"} THEN 1 ELSE 0
    /\ Copies(Flush(w)) = IF flushing = "sent" THEN Occurrences(flushBatch, w) - Collected(w)
                          ELSE 0
    /\ Copies(Flush(w)) + Collected(w) <= Occurrences(replayQueue, w)

\* The optimistic overlay holds exactly the writes that are started and not
\* settled: no outcome leaves a ghost of a finished write on screen, none
\* drops the optimistic effect of a write that is still waiting.
OverlayMatches ==
  outbox = {w \in Writes : /\ Target[w] \in Cached
                           /\ pc[w] \in {"started", "direct", "queued", "behind"}}

\* The writes that have claimed r and not given it back (bump(key, -1)).
Claims(r) == {w \in claimed : Target[w] = r}

\* The counter of outstanding writes counts them.
OutstandingCounts == \A r \in Records : outstanding[r] = Cardinality(Claims(r))

\* Of the unfinished writes to a record at most one carries a version stamp:
\* the comment in mutate() "only the first outstanding write to a record
\* carries a version stamp".
OneStamp ==
  \A v, w \in Writes :
    v # w /\ SameRecord(v, w) /\ {v, w} \subseteq claimed
    => base[v] = NoVersion \/ base[w] = NoVersion

\* OneStamp made inductive: the claims are counted, only the first claim of a
\* record may stamp, and a write that was not issued has left no mark.
ClaimInv ==
  /\ OutstandingCounts
  /\ \A v, w \in claimed : v # w /\ SameRecord(v, w) => ~(first[v] /\ first[w])
  /\ \A w \in Writes : base[w] # NoVersion => first[w]
  /\ \A w \in Writes : pc[w] = "idle" => w \notin claimed /\ base[w] = NoVersion
  /\ \A w \in claimed : Keyed(w)

\* A write in the replay queue will be tried again: the timer is armed or a
\* flush is running, whatever the order of failures, flushes and new writes.
WakeUp == replayQueue # <<>> => replayTimer \/ flushing # "idle"

\* The server took w before v: w's first execution precedes v's.
Ran(w) == \E i \in DOMAIN log : log[i].who = w
RanBefore(w, v) ==
  \E i \in DOMAIN log :
    log[i].who = w /\ \A j \in 1..i : log[j].who # v

\* A write that queued behind waiting writes does not reach the server ahead
\* of any of them ("Writes queued behind a network failure must land first").
QueueKeepsOrder ==
  \A j \in DOMAIN replayQueue : \A i \in 1..(j - 1) :
    pc[replayQueue[j]] = "behind" /\ Ran(replayQueue[j])
      => RanBefore(replayQueue[i], replayQueue[j])

\* A started or confirmed patch stays visible: as long as the server keeps
\* its effect (or has yet to see it) the row on screen shows it, through
\* settling, refreshes and the answers of other writes.
Unreset(r) == \A v \in outbox : Target[v] = r => Lowered(v)
OwnWriteStaysVisible ==
  \A w \in Writes :
    LET r == Target[w]
    IN /\ Lowered(w) /\ r \in Cached /\ w \in Sourced /\ Unreset(r) /\ Visible(r).there
       /\ \/ pc[w] \in {"started", "direct", "queued", "behind"}
          \/ pc[w] = "confirmed" /\ w \in server[r].by
       => w \in Visible(r).by

\* Without rivals no write ever loses a version check ("Your own rapid edits
\* never conflict with themselves").
NoSelfConflict ==
  rivals = 0 => \A i \in DOMAIN log : log[i].verdict # "conflict"

\* Writes reach the server in the order they were issued ("Fire several
\* writes in a row ... and they reach the server in the order you issued
\* them"): none runs there before an earlier one that is still alive.
ArrivalFollowsIssue ==
  \A v, w \in Writes :
    /\ 0 < seq[v] /\ seq[v] < seq[w] /\ {v, w} \subseteq Sourced
    /\ Ran(w) /\ pc[v] # "rejected"
    => RanBefore(v, w)

\* Every write is settled and no request, answer or read is on its way.
Rest == (\A w \in Writes : Settled(w)) /\ Quiet /\ batch = <<>> /\ net = {}

\* Once everything has come to rest, and nobody else edited, the cached row is
\* the server's row, version included: the overlay left nothing behind.  Not
\* so after an opaque action, whose answer is no record, nor for a plan that
\* only the cache took.
ConvergesAtRest ==
  Rest /\ rivals = 0 =>
    \A r \in Cached :
      \/ \E w \in Writes : Target[w] = r /\ (Op[w] = "opaque" \/ w \notin Sourced)
      \/ canonical[r] = server[r]

\* Once everything has come to rest, a record some write lost a conflict on
\* shows at least the version that beat it: the winner has been fetched.
VersionBefore(i) ==
  Cardinality({j \in 1..(i - 1) : log[j].record = log[i].record /\ log[j].verdict = "ok"})
LoserSeesWinner ==
  Rest =>
     \A i \in DOMAIN log :
       log[i].verdict = "conflict" /\ log[i].record \in Cached
         => canonical[log[i].record].ver >= VersionBefore(i)

----------------------------------------------------------------------------
(* The caller's contract.  The authority of a write is the server, or the  *)
(* optimistic entry in the cache for a plan no source fulfils.             *)

Phase(w) ==
  CASE pc[w] = "idle" -> "idle"
    [] pc[w] = "confirmed" -> "resolved"
    [] pc[w] = "rejected" -> "rejected"
    [] OTHER -> "submitted"

\* How often the server executed w with one of these verdicts.
Executions(w, verdicts) ==
  Cardinality({i \in DOMAIN log : log[i].who = w /\ log[i].verdict \in verdicts})

TakenByCache(w) ==
  w \notin Sourced /\ Target[w] \in Cached /\ pc[w] \in {"started", "confirmed"}

Applied(w) == Executions(w, {"ok"}) + (IF TakenByCache(w) THEN 1 ELSE 0)
Declined(w) == Executions(w, Verdicts \ {"ok"})

Contract == INSTANCE WriteContract
  WITH phase <- [w \in Writes |-> Phase(w)],
       applied <- [w \in Writes |-> Applied(w)],
       declined <- [w \in Writes |-> Declined(w)]

\* The authority executes every write at most once, counted; its promise
\* resolves only after exactly one execution that took effect, and rejects
\* only if there was none: holds unless the network loses answers.
KeepsContract == Contract!CSpec

\* Every issued write is settled in the end, however its requests fail.
EveryWriteSettles == \A w \in Writes : pc[w] = "turn" ~> Settled(w)
=============================================================================
