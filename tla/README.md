# ResourceKit: a TLA+ model, checked and partly proved

ResourceKit is a client/server data layer. A client keeps an optimistic
in-memory cache of server records, sends reads and writes as *plans* in
batches, replays writes that met a network failure, and answers queries from
the cache when it can prove that a synced set contains them. A server executes
the plans against a database within the session's access scope, with an
optional version check, and announces changes, on which clients refetch.

Paths below are relative to `src/` of the repository (so `src/core/engine.ts`
is the file `src/src/core/engine.ts` of this tree).

## 1. Inventory

| Component | State | Operations | Interacts with |
|---|---|---|---|
| Mutation pipeline (`core/mutation-pipeline.ts`) | turn gate, `outstanding` counters, `replayQueue`, replay timer and backoff, the running flush | `mutate`, `deliver`, `confirm`, `rejectWrite`, `enqueueReplay`, `flush`, `adopt`, `dispose` | cache (`enqueue`, `settle`, `read`), source (`execute`) |
| Memory cache (`local/memory-cache.ts`) | canonical rows, outbox, `seq`, snapshots of named queries, the pending save | `read`, `ingest`, `enqueue`, `settle`, `restore`, debounced save | coverage index, storage, subscribers |
| Coverage index (`local/coverage.ts`) | covered filters per resource | `covers`, `markCovered`, `snapshot`, `restore` | filter algebra |
| Filter algebra (`plan/filters.ts`) | none | `matchesFilter`, `intersectFilters`, `filterSubsumes` | cache, coverage, server |
| Storage (`local/indexeddb-storage.ts`) | the persisted snapshot | `load`, `save` | cache, `adopt` |
| Remote source (`sync/remote-source.ts`), transport (`sync/transport.ts`) | the batch of this tick | `execute`, `flush` | network |
| Server (`server/index.ts`) | none of its own; the source's rows | `POST`, `handlePlan`, `handleRead`, `handleNamedQuery`, `handleWrite`, `handleAction`, `applyPatch`, SSE | adapters, change feed |
| Source adapters (`adapters/`) | the database | `where`, `one`, `create`, `update`, `delete` | server |
| Change feed (`server/change-feed.ts`, `server/channels.ts`) | listeners, `relaying` flag | `emit`, `on`, relay through pub/sub | other server instances, event streams |
| Live connector (`sync/live.ts`) | the event source | `connect` | engine (`refreshResource`) |
| Query store (`core/query-store.ts`) | channels by plan key, reference counts, GC timers, sync state | `acquire`, `release`, `refresh`, `refreshResource` | source, cache |
| Live query (`core/live-query.ts`, `core/include.ts`) | listeners, active channels, child channels, snapshot | `subscribe`, `refine`, `activate`, `recompute`, `deactivate` | query store, cache subscriptions |
| Engine (`core/engine.ts`) | ready promise, connectors | `query`, `preload`, `mutate`, `flushWrites`, `dispose` | all client parts |

Query builders, resource declarations, validation, protocol schemas and the
React hooks hold no state of their own; `PROJECT.json` says for each what of it
the models contain.

What is hard here is not any one function but what runs between two of their
awaits:

* Writes of one client overlap: each goes its own way through the turn gate,
  an in-flight request, the replay queue or a flush, and each leaves marks (an
  overlay entry, a claim on the record, a stamp) that exactly one other
  continuation must clear.
* Requests fail before or after the server acted, as a whole, and answers of
  different requests overtake each other.
* A version is read before an await and checked, or relied upon, after it: at
  the client and again at the server. A set answer is computed long before it
  is ingested.
* "Complete locally" is a proof about sets made from a small filter algebra,
  which the server uses a second time to narrow queries to an access scope,
  and which every adapter translates into the language of its database.
* Recomputations of live queries suspend at every read of the cache while
  channels are taken, released, refreshed and retired around them.
* Timers (batch, replay, save, retention) race events and each other, and a
  session may end between the server's acceptance and the client's save.
* Change notifications are relayed, suppressed, cut off and missed.

What makes each component correct:

* pipeline: every write is held in one place until it settles, settles once and
  in agreement with what the server did, in the documented order, with at most
  one stamp per record; queued writes are always retried;
* cache: the overlay is exactly the unsettled writes; at rest the rows shown
  are the server's; a covered set is complete;
* storage: what was stored is not forgotten before it is settled, and is not
  executed twice without a reason;
* algebra and adapters: matching, intersection and subsumption agree with the
  plain meaning of a filter, and each database with both;
* server: no row outside the scope is answered or modified, no partial set is
  answered as whole, no accepted write is overwritten unseen, every change is
  announced;
* change feed: a change is told once by every instance;
* live parts: a change that happened before a quiet state is shown in it, and
  a channel is kept exactly as long as somebody uses it.

`PROJECT.json` lists the hazards one by one with the line where each bites.

## 2. Modules

```
                                    WriteContract <-refined by-+
writes of one session      WritePath <-- WritePathProperties --+-- MCWritePath
                               ^---------- WritePathProofs <-- WriteAnswersProofs
writes across sessions     DurableSession <-- DurableSessionProperties <-- MCDurableSession
                               ^---------- DurableSessionProofs

filters                    FilterAlgebra <-- FilterAlgebraProofs
reads of one session         ^-- ReadCache <-- ReadCacheProperties <-- MCReadCache
                             |                    ^-- ReadCacheProofs (and FilterAlgebraProofs)
the server                   ^-- SourceFilters <-- ResourceServer <-- ResourceServerProperties
                                                     ^-- MCResourceServer
                                                     ^-- ResourceServerProofs (and FilterAlgebraProofs)
                           VersionedRegister <-refined by- ResourceServer

the deployment             ChangeFeed -refines-> ChangeBroadcast
                             ^
live reading               LiveData <-- LiveDataProperties <-- MCLiveData
and the feeds' proofs                       ^-- LiveDataProofs <-- LiveShownProofs
```

Each module of code is seen by the others through a smaller copy of itself:
WritePath and ReadCache have a server that handles a plan in one step, because
ResourceServer says what becomes of plans that overlap; ReadCache is the cache
of one collection without the overlay, which is WritePath's; LiveData tells
results apart by a version because what is in them is ReadCache's subject;
DurableSession leaves the stamps and turns to WritePath.

### WritePath: the write path of one session

State and code correspond one to one: `turn` is the gate, `outstanding` the
counter map, `replayQueue`/`replayTimer`, `outbox`/`seq`/`canonical` the cache,
`batch` the remote source, `net` the requests in flight, `flushing`,
`flushBatch`, `outcomes` the local variables of `runFlush`. `pc[w]` is where
the continuation of a write stands.

*Granularity.* JavaScript runs a continuation to its next await. An action is
one such continuation: `Issue` is the synchronous part of `mutate`, `Stamp`
its version read, `Deliver` the enqueue of the optimistic entry,
`DeliverLocally`/`QueueBehind`/`Dispatch` the branch that follows, `Confirm`,
`FallBack`, `Reject` what follows the answer, `Collect` to `FlushRound` the
flush. `Quiet` holds when no continuation is left; timers and network events
are guarded by it. Calls of the application are not, since a callback may make
them.

*Data.* A row is whether it exists, its version, and the set of writes whose
effect it shows. That is what the properties tell apart; field values are not.
The server's answer to an action with no `run()` is the host's own value, not a
record, so such an answer is merged by applying the plan locally, as the code
does. Backoff lengths are left out (a timer is armed or not).

*Network.* `Faults` selects what may happen, `MaxFaults` how often: `drop` (the
request never arrives), `lose` (it was or goes on being executed, the answer is
lost), `reorder`, `refuse` (the endpoint answers `{ ok: false }`). `reorder`
is not counted.

*Server.* Plans of a message are executed one after the other, each atomically;
other clients are `RivalEdit`.

`WriteContract` is the abstract specification of what `mutate()` promises: a
submitted write is taken or declined by its authority once at most, resolves
only after it was taken, rejects only if it never will be. It counts
(`applied`, `declined`), so a second execution is no step of it. `KeepsContract`
is the refinement: the counts are the entries of the server's log, or, for a
write that only the cache takes, whether it settled there (`Executions`,
`TakenByCache`). It is about networks that lose no answer; with `"lose"` among
the faults the code does run a write twice, and TLC finds the property violated.

### DurableSession: writes over reloads

The outbox of a cache with a storage driver, the replay queue, and an engine
that restores the one and adopts it into the other. `Crash` ends a session at
any moment: of the saves under way some are stored, requests on the wire may
still arrive (`Leftover`) and nobody waits for their answers. Every variable of
the client is a variable of the code or its timer; `phase` is how far
`engine.ready` has come.

`PersistFires` takes the snapshot when the debounce ends, `SaveLands` stores
it; `SaveFails` and `RestoreFails` are the two `catch` blocks. `Restore`
replaces outbox, counter and rows by what was stored, whatever the session has
done until then; `Adopt` puts the recovered writes in front of the queue and
flushes. `FlushAnswer` follows `runFlush` through a settle that throws: the
flush ends there, with nobody to take it up. Of the four kinds of writes one is
ordinary, one is an action not declared `offline`, one is rejected by the
server and one throws when its answer is merged.

*Assumed.* IndexedDB answers in the order it is asked, so a load issued at
start-up is done before the session's own saves are; one tab uses a store at a
time. A write is its place in the order of issue; claims, stamps and conflict
data are WritePath's.

### FilterAlgebra and ReadCache: the read side

`FilterAlgebra` translates `plan/filters.ts` function by function. A scalar is
a type and a place in the order of that type; the list of `in` is a set; a
filter given as a bare scalar is the one with only `eq`. Strings that read as
numbers are left out (JavaScript orders them among numbers); NaN cannot come
over the wire. `a ?? b` is `Coalesce`, which takes null for absent as the
operator does.

`ReadCache` has the canonical rows of one collection, the covered filters and
plans under way to a server that grants the session a `policy`: a scope and a
row cap. `Issue`, `Execute`, `Receive` are a plan leaving, being handled, and
its answer being ingested or settled; several may be under way. The optimistic
overlay belongs to WritePath and is left out; a write reaches the rows when its
answer settles. Order is left out, so the rows of a window are any of its size.

Ghosts: `seen` (in a call) and `synced` are the server's rows as of an answer,
`late` and `touched` say what rivals edited since the client last heard of it.
They let `CoverageExact` say what coverage can mean while others write: the
code promises completeness as of the last sync and relies on live
notifications for the rest.

### SourceFilters and ResourceServer: the server over its sources

`SourceFilters` has, for each adapter, what its database makes of a condition,
an order and a column: SQL's three-valued comparisons, SQLite's booleans stored
as numbers and coerced back, Mongo's null that also finds missing fields. What a
database does is external; what is sent to it is the adapter's code.

`ResourceServer` runs any number of sync messages at once, each a batch of
plans, each plan a chain of awaits: `Post`, `Context`, `Begin` (registry,
supported operations, backbone, rule, in the order of `handlePlan`), the access
rule, then `Find`/`Scan`, `Named`, or `Current` and `Write`, then `Written`,
which announces. Redis reads a set key by key (`Scan`) and patches by a get and
a set (`Write`, then `Set`). Stripe creates and deletes where its API object has
the call (`offers`) and declines otherwise. An action is its `run()`, if its
definition has one, lowered to a patch (`Lower`; it may throw), and else an
implementation of the server's (`ImplWrites`, `ImplReturns`, `ImplFails`), which
may be missing or throw halfway: both are answered `internal`, a `ResourceError`
with its own code. `worlds` are the ways a server may be set up: source,
operations, registration, rule, scopes, version field, row cap.

*Assumed.* A source holds one row of an identity, and an insert of a second is
refused. The adapters leave that to the database: for the SQL ones the identity
is the primary key, for Mongo a unique index, which the adapter does not make.

`VersionedRegister` is what the optimistic check promises: a write based on a
version is accepted only at that version, and only if no other write based on it
has won (`won` has the base and the author of each winner since the record was
created); an accepted write changes the fields it names and moves the version on
by one. The code checks the version on a
record it read before an await and patches without a condition, so the promise
ends for a record two requests have raced for (`raced`); there a write still
changes only the fields it names, except when a Redis patch was overtaken
between its get and its set (`torn`). The ghosts say which records these are,
and `late` marks a handler between its look at the record and its write when
another write lands.

### ChangeFeed: the deployment

The feeds of all instances, the pub/sub channel between them and the event
streams of the clients. `Emit` calls every listener of a feed, the one that
publishes among them, which keeps quiet while `relaying`; the flag is set and
reset in one synchronous step, so it is a parameter of `Emit` and no variable.
`ChangeBroadcast` is the abstract specification: no instance tells of a change
that was not made, or of one change twice. A stream that is cut comes back, at
any instance, without what it missed.

### LiveData: one engine that reads

Live queries, the channels they share, one-shot queries, preloads, the cache as
they see it, request batches, and the changes of other clients arriving through
a ChangeFeed of two instances. `micro` is the queue of microtasks: an await puts
the rest of its function at the end, a synchronous continuation goes on at once
(`now`), and every step of `recompute`, `withIncludes`, `query` and `refresh` is
an action of its own, run in the order the event loop runs it. Timers, answers
and events wait for `Quiet`. The application calls in a turn of its own or in
the render that follows a change. Every render of a live query hands it the
latest refinements (`Refine`), as `useSynced` does in an effect without
dependencies; that ends only because a render follows a change of the state and
the states are compared (`StatesEqual`).

The engine's own writes change what the cache shows of a result, without an
answer of the source: `OwnWrite` lays something over a plan (`laid`, `Overlaid`,
read by `Visible`) or takes it off, in a microtask of its own among the others,
and wakes the live queries of the resource. So rows do change while a recompute
runs. When such a write is issued, settled or rejected is WritePath's subject.

A result is the number of changes its plan has seen; `Unknown` is none. Plans
are taken to be disjoint. A message is answered by the server at one moment.
All plans are served by the source (the branch of `deriveStatus` for one that
is not is left out).

Ghosts: `behind` marks a channel that was told of a change while its refresh
was under way with an older answer, `newest` is the newest answer the cache had
for a plan, `heard` are the changes the client was told of, `disturbed` are the
live queries with relations whose rows an own write changed while a recompute of
them was under way.

## 3. Runs

| Run | Instance | Question |
|---|---|---|
| `calm` | 3 patches of one versioned record, faultless in-order network, 1 rival, 1 refresh | no self-conflict, no flicker, the loser is shown the winner |
| `storm` | 2 patches and an action that is not replayable, one record, drops, refusals, reordering, 2 faults | where writes are held, overlay, counters, stamps, contract |
| `lost` | 2 patches, drops and lost answers, 3 faults, fairness | queued writes are watched, keep order, every write settles |
| `life` | create, patch, delete of one record, an action only the cache takes on another, a patch of a third that no cache holds; 1 drop | at rest cache = server; contract |
| `overtaken` (violation) | 3 patches, 1 drop | arrival in the order of issue |
| `self_conflict` (violation) | 3 patches, 1 drop | no self-conflict |
| `durable` | 3 writes over a restart, 2 over two with a fault, a write of any kind before a patch or an action over one with a fault | nothing stored is forgotten or stranded, nothing runs twice without cause, recovered writes land first, everything lands |
| `coverage` | 2 records, 3 overlapping sets, a window, a single read, 3 writes; public with cap 2, or scoped with cap 1; 3 plans, 1 rival edit, in order | types, exact answers, scope, exact coverage, coverage only grows |
| `outdated` (violation) | the same, answers may overtake each other, no rival | complete once everything is answered |
| `null_scope` (violation) | a null query within a scope that lists null or gives a range | exact answers |
| `server` | 2 messages of up to 3 plans at once, 2 records, 13 worlds over all sources | versioned register (of the patches based on one version one wins), acknowledged writes, scope, exact sets, announcements |
| `live` | 5 live queries, 3 one-shot queries, 6 plans, 2 instances, in 15 scenes | reference counts, one refresh, nothing shown is outdated, preloads, broadcast, coming to rest |

*Why these bounds are enough to be interesting.*

* The pipeline tells apart the first outstanding write, one in flight, one
  queued, one issued later: three writes to one record produce every pair of
  those at once, and the version check needs a third to see a stale stamp. Two
  faults make a flush fail again after a delivery failed; three (in `lost`, with
  two writes) let an answer be lost twice. `life` needs five writes because a
  create, a patch and a delete of one record hide each other in the overlay, and a
  write whose authority is the cache is taken if its record is there and declined
  if it is not.
* `durable`: a write can be stored, adopted, on the wire and landed when the
  session ends; a second is issued before or after the load, a third after the
  adoption. A second restart lets what was adopted be recovered again. Two saves
  under way overtake nothing but may both be cut off.
* For the read side, two records make a set that holds one and lacks the other;
  three plans are a set, a write and a second set (or two sets and the query
  inside them), which is the shortest history in which a dropped row, a lost
  coverage entry or an outdated answer shows. The scope shares both ends with
  the interval that is asked for, once inclusive against exclusive on each side.
  The row cap is met exactly and passed by one.
* `server`: a race needs two requests and one record; the second record makes
  sets, windows and caps. A batch of two updates based on consecutive versions
  lets one message lose to the other at either. One scope cuts the values so
  that a patch can move a record in, out, or neither.
* `live`: each scene is one of the situations the code was written for (a
  remount while the retention runs, a relation whose rows change, two
  notifications in a row, a cut, a failing refresh, a query that fails and falls
  back, a preload that shares a plan, a record that does not exist, a resource
  that is never cached, an own write over the rows of a query with relations or
  of one without, an edit of a related row under a mounted query); within it
  everything interleaves. Two edits are needed
  for an old answer to replace a new one.

Every passing property has a mutant: a definition named `Bug_...` beside the
code's own, a plausible slip (a reversed replay, a second decrement, an end
that comes back inclusive, a check that is skipped, a released channel that
stays in the map), with which the run reports the property violated.

`CHECK_DEADLOCK` is left on for the write path, the read cache and the server: a
session may rest only when all is settled (`AtRest`), a server when every
message is answered (`AllDone`). `durable` and `live` turn it off: a session
with no more writes to issue and an application with nothing more to do really
stop; that they stop only with everything done is `ComesToRest` and `Settles`.

*Fairness.* Weak fairness only, of what a runtime does by itself:

* `lost`: the continuations of writes, timers, and the network. Each request is
  executed and answered unless it fails, and `MaxFaults` bounds the failures: a
  client that is offline for ever settles nothing, in the code as in the model.
* `durable`: the save and replay timers, saves, answers and execution of
  requests somebody waits for, restoring and adopting. Not `flushWrites`, which
  nobody has to call, nor requests of a session that has ended.
* `live`: microtasks, the batch timer, serving and answering, delivery of
  events, the relay and the browser's reconnection. Not the retention timer.

The application, rivals, failures, cuts and crashes are not fair: nothing
depends on them.

## 4. Properties that hold with an exception

Some promises hold only with an exception that the property names, because the
code does otherwise. The properties say that there is no *other* exception. The
guides quoted are in `docs/content/docs/guides`.

* `KeepsRegister`: records two requests raced for. `applyPatch` compares the
  version on a record read before an await (`server/index.ts:291`), and the
  patch itself is unconditional: two requests based on one version can both be
  accepted, which `conflicts.mdx:26-29` and 50 deny. That the winners of one base
  in `won` are one, stated without the exception, is violated on the instance of
  `server` by the shortest such race: 13 states. On Redis even fields the write
  does not name may be lost.
* `AcknowledgedLanded`: a record that was raced for; a patch of a record deleted
  meanwhile is answered null as if done (`server/index.ts:402`).
* `AnnouncedIsCurrent`: an implementation that fails after it wrote
  (`server/index.ts:367`, `silent`) has changed a record nobody hears of.
* `FoundIsMeant`: which of the records without the ordering field a window shows
  or leaves out; the sources put null at different ends.
* `KeepsContract`, `RunsOnce`: an answer that is lost. The write is replayed
  and runs twice (`mutation-pipeline.ts:237`).
* `ShownIsCurrent`: an own write changes the rows of a live query with relations
  while a recompute of it is under way (`disturbed`). The older recompute has more
  relations to read, ends after the newer one and shows its rows, until something
  else changes (`live-query.ts:160-178`): after a patch and a delete of the only
  issue, the deleted issue. `react/index.tsx:39-40` has screens "updated
  automatically after every mutation". Without the exception TLC finds `live`
  violated in 33 states.
* `FreshAtRest`: (a) a change notification during a refresh is dropped although
  the answer under way may be older than the change (`query-store.ts:65`,
  `behind`); (b) an older answer may arrive after a newer one (`newest`); (c) the
  last refresh failed; (d) the stream was cut with the last change; (e) the rows
  are `disturbed`, or a write of the engine's own is laid over them.
* `KeptOnDisk`, `DiskAgreesAtRest`: a save whose debounce ends before the load
  has replaces what was stored (`memory-cache.ts:324`), as does one of a session
  that could not read it; and `restore` replaces what the session had issued
  before.
* `NothingStranded`, `ComesToRest`: a settle that throws inside a flush ends it
  with the rest of the queue unwatched (`mutation-pipeline.ts:163`). And an action
  not declared `offline` is sent again by `adopt` when it was recovered from
  storage (`mutation-pipeline.ts:101-115`), though it is rejected when the network
  fails and `offline.mdx:72` says that such an action does not replay.

Two sentences of the guides are looser than the code and no property is about
them. `bundles.mdx:76` says that after a preload the query "answers from cache
with no request": it does answer from the cache (`PreloadedIsLocal`), but
mounting it takes a channel, and `ensureFresh` refreshes one that did not sync
itself within `staleTime` (`query-store.ts:50-60`), covered or not.
`live-updates.mdx:27` says "Queries nobody is looking at don't refetch": a
channel without users is refreshed on a change until its retention ends
(`ChannelsOf`).

## 5. What is proved

TLAPS checks these for every value of the constants (any number of writes,
records, filters, messages, instances, sessions, faults), from the modules'
named assumptions only.

Write path (`WritePathProofs`):

* `TypeCorrect`: `Spec => []TypeOK`.
* `OutstandingExact`, `StampedOnce`: the counter counts the claims, and at most
  one unfinished write of a record is stamped. `OneStamp` alone is not
  inductive: whether a stamp may be set is decided at `Issue` (`first`) and
  done at `Stamp`, several steps later. `ClaimInv` adds that the counter is
  exact, that two claimed writes of one record are not both `first`, that only
  a `first` write has a stamp, and that an idle write has left no mark; then
  `outstanding = 0` at `Issue` implies that nobody claims the record.
* `QueueIsWatched`: a non-empty queue has an armed timer or a running flush.
* `WritesAreHeld`, `OverlayExact`: a write is held in one place, and the overlay
  is that of the writes held. The copies of a plan are counted over the batch,
  the requests somebody waits for and the answers (`CopiesAre`); each step is
  shown to move copies and lose none (`CopiesSent`, `CopiesServed`,
  `CopiesHeard`), to add one (`CopiesJoin`) or to take one (`CopiesTaken`).
  `HeldInv` adds to `HeldOnce` that requests have ids of their own and that an
  idle flush has no answers left. When the last answer of a flush is collected
  no copy is left on its way, because as many answers as entries came and none
  twice (`AllCollected`). `OverlayMatches` needs it in one place: a write that
  falls back to the queue was direct, so it was in the overlay.
* `ContractKept`: the step simulation of `WriteContract`. For every place a plan
  can be in, `ContractInv` says what the server's log holds of its write: a plan
  in the batch, or in a request before its answer, was not executed
  (`BatchIsNew`, `RequestsTell`); an answer that is in a request, has arrived or
  was collected tells what became of it (`RequestsTell`, `ArrivedTell`,
  `OutcomesTell`); a write in none of these has left no trace (`RestIsNew`).
  By `HeldInv` the plan the server takes is the only one of its write
  (`OnlyCopy`), so the log, which had no entry of it (`OnceInv`), gets its first,
  and the counts of the contract are 0 and become 1, of one write at a time
  (`CountsAre`, `CountsGrow`). The premise, that `"lose"` is no fault
  of the instance, is where the code does apply a write twice: the client
  replays what the server executed when the answer was lost.
* `QueuedRunInOrder` (`QueueKeepsOrder`), whatever the network does. Which of two
  queued writes runs first is decided by the plans that wait or travel together:
  `OrderInv` says of the batch and of every request, one nobody waits for
  included, that where the replay of the later write is, the replay of the
  earlier one is before it (`Orderly`), and that a write that has not got as far
  as the queue has no plan anywhere and did not run (`EarlyInv`). A write is in
  the queue once (`QueuedOnce`, from `HeldInv`), so "before" stays what it was as
  entries leave it (`WithoutOrder`).

What the order of the answers gives (`WriteAnswersProofs`):

* `RetriedConverges` and `RetriedVisible` say what the cache comes to
  (`ConvergesAtRest`, `OwnWriteStaysVisible`) where requests fail only on their way
  to the server, or are refused, and the writes that fail are all replayed
  (`Retried`): any number of drops, refusals, flushes and replays. The answers
  then reach the client along three stages, and each keeps its order: those of the
  one request the server is at (`Served`), those that arrived, and those a running
  flush collected (`Told`). `StageMoves` lists what a step can do to them: the
  server says one more, a request lands, a flush gathers an answer, the client
  takes the first that was collected or that arrived, or none of this.
  `SettlesInv`: from the cached row over the three stages one gets to the server's
  row, and what a read brings is what the answers before it had left
  (`LeadsOn`, `Ends`, `Trails`). The hard case is that answers pass others: those
  held back by a flush are applied after reads that arrived later. A read changes
  nothing then, because its row is that of the answers before it. An answer to a
  write would, and none does: `DirectsFirst` says that the plans of writes that go
  out on their own are ahead of every replay, in the batch and in the requests, and
  are heard of before a flush collects a success. `RetainsInv`: a confirmed edit
  that the server keeps is in the cache's row and in every later row of the three
  stages; an edit a stage tells of is in all that comes after it.
  `SteadyInv` collects what both rest on: one place for each plan (`HeldInv`), the
  overlay (`OverlayMatches`), only the oldest request has answers (`Prompt`).
* `NeverSelfConflicts` and `LosersSeeWinners` (`NoSelfConflict`, `LoserSeesWinner`)
  are about requests that are neither lost nor overtaken: in the first the server
  may refuse them (`Reliable`: `Faults` is at most `{"refuse"}`), in the second it
  answers each (`Faults = {}`). Reordering alone breaks both. Then nothing is
  replayed (`ReliableInv`), and the answers on their way form one `Line`: what
  arrived, and behind it the answers of the request being served. A step adds an
  answer at its end, takes the first, or leaves it alone (`LineMoves`).
  `RisingInv`: versions count the successes, and rise from the cache along the line
  to the server; `LoserInv`: the version that beat a write is in the cache, or its
  conflict is in the line, or the read it asks for waits or is in the line. For
  `NoSelfConflict` the order of the plans matters: the first write to a record goes
  through `mutate` before all that wait behind it, so its plan is ahead of theirs
  (`FirstInv`, from `TurnInv`); a version of the cache that is not the server's is
  followed by the news of an edit (`CurrentInv`), whose write still claims the
  record, so the first write is stamped with the server's version, and no edit
  comes between (`StampInv`).

  The premises are needed: TLC finds the properties violated without them, with
  one exception. That no answer is lost is a premise of the proof of
  `RetriedVisible`, and `Storm.cfg` with three patches and `Faults = {"lose"}`
  shows no counterexample; `ConvergesAtRest` is violated there, and both are
  where requests overtake each other (`Faults = {"reorder"}`). With a lost
  request, `NoSelfConflict` is the finding of section 6. An action that must not
  be replayed overtakes the queue, joins the batch of the flush, and is
  confirmed while the flush still settles: the cache ends with the flush's older
  row (`Storm.cfg` with `Faults = {"drop"}` and `ConvergesAtRest` or
  `OwnWriteStaysVisible`). That is what the second part of `Retried` excludes.
  The read that `LoserSeesWinner` needs may be lost or refused. A create over a
  row that is there fails, and the patch behind it was stamped with the version
  of the row it would have made; `NeverSelfConflicts` excludes creates of
  versioned records in the cache (`NotCreated`). `RetriedVisible` excludes
  creates and deletes that only the cache takes (`PatchedLocally`): they say
  nothing of the server's row. `LosersSeeWinners` is about records that are only
  edited (`OnlyEdited`): an opaque action succeeds without a new version, a
  created row starts from none. The instance of `calm` meets all premises; that
  of `life`, which loses requests and replays them, meets `Retried`.

Durable session (`DurableSessionProofs`), all six safety properties of the run:

* `StoredStaysStored`, an action property about two states of the disk. What is
  stored next was taken from the cache earlier, so the invariant (`KeptInv`)
  orders everything by what it holds: each save under way holds at least what
  the one before it does (`SavesInOrder`), the cache at least what the newest
  save does (`CacheIsNewest`), less what was reported as failed or replaced;
  before the restore only a session that found nothing stored has a save that
  counts (`BeforeRestore`); and the disk holds at most one state (`AtMostOne`).
* `CountersStayInRange`, `WritesAreNotStranded`, `DiskCatchesUp`,
  `WritesRunOnce`, `RecoveredGoFirst` rest on one invariant, `SessionInv`. None
  of the five is inductive: what may be sent next depends on what is stored, on
  who waits for which request, and on the order of the lists. `WireInv`: the
  requests somebody waits for are the batch and single writes that are in no
  other place. `QueueInv`: queue, requests and recovered writes do not share a
  write (in the phase in which they could), and none of them shares one with
  what is stored while the load is under way. `DiskInv`: what the timer does not
  have to save is the last save under way, or stored. `OnceInv` goes from
  `twice` back to everything that can still be sent: whatever is queued outside
  the batch, recovered, or stored before a load and has been sent before is in
  `cutOff` (`Excused`). The hard step is `SoundCrash`, where the stored entries
  become what may be sent: either a save was due, then everything not in the
  outbox is excused, or by `DiskInv` what is stored is the outbox, whose writes
  are all queued, on the wire or recovered. `OrderInv`: every list, and the
  outbox in the order of its numbers (`StateSound`), has a write behind all
  those it was issued after, or the server has them (`Ordered`); lists keep that
  when they are joined, filtered or read from an outbox (`JoinedOrdered`,
  `LeftOverOrdered`, `InOrderOf`).

Filter algebra (`FilterAlgebraProofs`): `SubsumesSound`, `SubsumesTransitive`,
`ScopeIsKept` (no query widens a scope), `IntersectExact` (the intersection
is exact) and `NormalizeExact` (the canonical form means what the filter says).
They rest on `SimplifyExact`: simplification keeps the meaning of
every part of a condition and makes an equality stand alone (`Canonical`).
`IntersectExact` has the premise `Combinable`: the first filter has no null
equality, and bounds of one side are of one type. `ScopeIsKept` needs neither,
because where the code loses something it loses the query's part and not the
scope's. The premises are exactly the cases in which the code is not exact.

Source filters (`ResourceServerProofs`): `TranslationsExact`, every adapter finds
exactly what the algebra matches, for a field that is there (or a column that is
null), a filter of the column's type with comparable bounds and, in SQL, no null
in a list. Each premise is a case where a source does differ. `SourcesKeepScope`
adds the intersection: whatever the query, the scope's conditions survive both
the intersection and the translation.

Read cache (`ReadCacheProofs`): `CacheTypeCorrect`,
`StaysInScope` (`Spec => []OnlyInScope`, for scopes whose bounds are
comparable) and `CoverageNeverLost` (`Spec => CoverageGrows`). The invariant of
`StaysInScope` is that rows under way to the cache are in scope as well as
those in it (`ScopeInv`); it is preserved because every answer is a refusal or
rows the scope admits (`AnswerShape`), by `ScopeIsKept`. `CoverageNeverLost`
needs only types and transitivity.

`AnswersAreExact` (`Spec => []AnswersExact`) has the premise `ExactFilters`:
bounds of a range are comparable, and scopes and queries are combined without
loss; the instance of `coverage` meets it (`ExactAssumption`, which TLC
evaluates), that of `null_scope` does not. Its
invariant (`FitInv`) says of every answer under way what it says of the rows it
was computed from. `CoverageIsExact` (`Spec => []CoverageExact`) needs in
addition that answers arrive in order (`InOrder`; run `outdated` shows why).
`ChainInv` links the states of the server as the client will learn of them:
from the last sync through the rows each call in turn was answered from to the
server now, two neighbours differ only in the record of the call between them
or in what a rival edited (`late`, then `touched`). Then an answer that is
received changes the rows as the server's changed (`CoverageReceived`).

Server (`ResourceServerProofs`): `ServerKeepsRegister`, the step simulation of
`VersionedRegister`, by which at most one patch wins at a base of a record that
was not raced for, and `ChangesAreAnnounced` (`Spec => []AnnouncedIsCurrent`).
The invariant (`ServerInv`) says what a handler may rely on across its awaits:
where no two raced, the record is past every base somebody won at; as long as no
other write has landed (`~late`) the record a handler looked at is the one in the
source and its stamp is that record's version and one (`Based`), and
a Redis handler that is not `torn` still holds the record it read. A patch that
lands is then a `Write` or `WriteIf` of the register, a late one a `RacedWrite`,
a torn one a `TornWrite` (`PatchLands`); `Overtaken` shows that a write makes
every handler it invalidates late.

`ServerKeepsTypes`, `UpdatesLand` and `AnswersStayInScope` (the types,
`AcknowledgedLanded` and `AnswersInScope`) share a second invariant,
`AnsweringInv`. None of the three is inductive: what a plan is owed is known
when its answer goes out, and was decided some awaits before. `Answering`
carries it along the phases of a handler. A plan that is searched for has
something in common with the scope (`Askable`); a write on its way is the one
its plan asked for, and what it would make of the record the handler looked at
is within the scope, unless the handler is late (`Carries`); the rows of an
announced write, and of every answer given, are right (`Right`: they have the
fields that were sent, and are granted). `TellStarts` to `TellEnds` are the
steps. Being raced for only grows, so what is right stays right (`StaysRight`).
A search is in scope by `SourcesKeepScope`: what a source finds for the
intersection matches the scope, though the translation may be inexact for the
query's part. The premise `ScopesAreReadable` of `AnswersStayInScope` lists when
a scope means what it says: bounds of one side are comparable; on a database no
scope names null, which there also finds, or fails to find, a missing field; and
SQLite, which has numbers for booleans, holds one type in a column
(`TypedStore` shows that writes keep it so). The run's module assumes the same of
its instance (`ReadableAssumption`), so TLC evaluates it there.

`SearchesFindWhatIsMeant` (`FoundIsMeant`) is the other direction as well: on one
field every source decides what the condition says (`FieldExact`), the
intersection of query and scope is exact and names nothing that neither of them
names (`NarrowedForm`, `IntersectExact`), so the rows found are those meant
(`FoundIsExact`), and a window leaves out none that was due before one it shows,
in whatever order the source puts null (`WindowShows`). Its premise
`QueriesAreReadable` says of the queries what `ScopesAreReadable` says of the
scopes, and that the two combine without loss; TLC evaluates both.

Live reading (`LiveDataProofs`): `ChannelsAreCounted` (`Spec => []RefsExact`).
`RefInv` adds that the users of a channel are finitely many and that relations
are kept per live query. Each step that moves a user moves the count by as much:
a mount adds one (`RefMount`), an unmount takes all that a live query holds,
its own channel and those of its relations (`RefUnmount`, `CardMine`), a
recompute exchanges one relation's channel or, when its live query was
unmounted meanwhile, none (`RefInclude`, `ChildCounts`); retirement finds no
user (`RefRetire`).

`LiveKeepsTypes` and `RefreshesAreShared` (the types, `OneRefresh`) rest on
`LiveInv`: `RefInv`, the types of everything queued and sent (`TypeInv`), those
of the feed, and `OneEach`. `OneRefresh` counts what is under way for a channel
in three queues; `OneEach` says the same of channels and one-shot queries
without counting: what is under way for one is nowhere, or in exactly one of the
batch, one message and the microtasks (`Single`). Microtasks run, batches are
sent, messages answered; each moves the one thing there is, or brings the first
(`EachStarting`, `QueryMoves`). A retired channel leaves what is under way to
nobody (`OrphansSame`). The sequences are only seen through the set their
elements are in (`None`, `One`), because what a queue holds is decided by
recursion, which the provers cannot follow; `SetToSeqIs`, `CatHas` and `HeadHas`
are all they need.

`PreloadsStayLocal` (`PreloadedIsLocal`) adds `PreInv`: a query that seeks
something has its call, its message or its task ask for just that (`RightCall`,
`RightTask`), what its task read the cache knows, and so is all it joined
(`Fine`). It relies on the cache forgetting nothing (`KeepsHaving`), which is so
while the memory cache has no eviction.

What live queries show (`LiveShownProofs`): `LiveQueriesShowTheLatest`
(`ShownIsCurrent`) adds `RecomputeInv`. Several recomputes of one live query can
be under way, started by different wake-ups, and each publishes when it ends.
The invariant says of every live query that it waits for a recompute, or shows
what it should (`Settled`), or has a newest recompute (`Coming`) that holds what
cache and channel say now and has taken the channels of the relations it is past
(`FollowsTo`). A recompute is at a stage, and the newest is behind the others in
the queue at no later a stage, or before them at an earlier one (`Ahead`), so it
ends last. That is not enough by itself: a recompute whose relation needs no
read goes on without giving up its turn and could draw level with an older one
that does need it. `TasksInv` excludes this: all recomputes have the same rows
but for those begun before anything was received, so they find the same
relations to read (`ShownInclude`). An answer, which changes the rows, comes
when no recompute runs (`QueueInv`), or is about a plan the cache keeps, whose
rows are not the channel's (`ShownEndRefresh`). An own write changes them at any
moment, which is what the exception `disturbed` is for: of a live query in it
nothing is claimed (`Firm`), a write leaves the rows of every other one or finds
no recompute of it (`ShownOwnWrite`), and a query without relations has nothing
to read between its rows and its end, so its recomputes end in their order.
`PlainStep`, `Onward` and `PipeStep` are the kinds of step.

`ScreensAreFreshAtRest` (`FreshAtRest`) adds `FreshInv`: what a live query shows
is what the cache has, so it remains to say that this is the server's newest.
A change is told to the client on three ways, its own instance's bus, another's
and its stream; while no connection was lost each change was heard of or is on
one of them (`FedInv`). What came from the server is no newer than what the
server has (`RowsInv`). An answer under way to a refresh of a channel is as new
as every change the client has heard of, or the channel is marked behind
(`AnswersInv`, `Sound`): a change heard of while the channel refreshes marks it,
one heard of while it does not starts a refresh whose answer is yet to be made.
So a channel whose refresh ended without an excuse is as new as what was heard
of (`ChannelsInv`), and at rest all was heard of (`LevelAtRest`). All of this is
about what was received (`Had`); an own write leaves that alone, and where nothing
is laid over a plan it is what is shown (`NothingLaid`). The invariant
holds a claim on answers in three queues; the lemmas on `None` and `One` that
`RefreshesAreShared` uses carry it.

Change feed (the first part of `LiveDataProofs`): `FeedKeepsBroadcast`. The
invariant (`FeedInv`) counts a message once on its way to each instance: what is
on the way to an instance from another was made, was not told there yet, and is
not there twice.

Every safety property of a passing run is stated by a theorem. Only model-checked
are the liveness properties `EveryWriteSettles`, `ComesToRest` and `Settles`:
fairness is beyond the prover's reach.

## 6. Findings

1. `overtaken`: writes do not always arrive in the order of issue. The replay
   queue is consulted, the requests in flight are not.
2. `self_conflict`: for the same reason a client can lose a version check to
   its own later edit: the queued first write keeps its old stamp.
3. `null_scope`: `intersectConditions` drops a query's equality with null.
4. `outdated`: an answer computed before an own write and received after it
   takes the written row away while coverage calls the set complete.

The exceptions of section 4 are further differences between what the guides say
and what the code does; each is stated in a passing property rather than shown
by a run of its own.

## 7. Not modelled

* `dispose` of the pipeline and the engine: it clears timers and listeners when
  the application ends.
* A response of an unknown shape, with its reason among the hazards of
  `PROJECT.json`; a cache whose read fails in `mutate`.
* A store that holds several rows of one identity: a Mongo collection without a
  unique index, where a replayed create inserts a second document.
* In LiveData, an own write that takes the rows or the coverage of an answered
  plan away (`OwnWrite` changes what is shown of a result and never makes it
  unknown). Snapshots of named queries that `restore` brings back: it notifies the
  resources of the rows only (`memory-cache.ts:295-302`).
* Coverage snapshots over a reload: they are restored together with the rows
  they speak of.
* Plans of one client that overlap in their rows, in LiveData; a plan no source
  serves; heartbeats of event streams.
* Headers and body parsing, wire encodings, backoff lengths, immutable builders,
  type declarations, React's scheduling: no state of interest here.
* Docs and playground: not program logic.

## 8. Plan

Done: the write path, the read side, the server, the change feed with live
reading, and durable sessions, each with its run; the theorems of section 5.

Left, in order of worth:

1. LiveData over ReadCache's rows instead of versions, for plans that overlap.
