------------------------ MODULE DurableSessionProofs ------------------------
(***************************************************************************)
(* What the guide promises of writes across reloads, for every number of   *)
(* writes, sessions, faults and saves under way, and whatever kinds the    *)
(* writes are of.                                                          *)
(*                                                                         *)
(* First, what is stored stays stored.  The property speaks of two states  *)
(* of the disk, and what is stored next was taken from the cache earlier:  *)
(* the invariant orders everything by what it holds, the disk, the saves   *)
(* in their order, the cache, as far as they were taken from a cache that  *)
(* knows what is stored.                                                   *)
(*                                                                         *)
(* Then what the pipeline does with it: nothing is stranded, what is       *)
(* stored catches up with the cache, nothing runs twice but what is        *)
(* excused, and what was recovered lands first.  One invariant holds it    *)
(* together (Session): of every write, where it may be sent from, whether  *)
(* it has been sent, and which writes it is behind.                        *)
(***************************************************************************)
EXTENDS DurableSessionProperties, SequenceTheorems, FiniteSetTheorems, TLAPS

----------------------------------------------------------------------------
(* Lists of anything.                                                      *)

IsList(s) == s \in Seq(ToSet(s))

LEMMA ListOf ==
  ASSUME NEW T, NEW s, s \in Seq(T)
  PROVE  IsList(s) /\ Len(s) \in Nat /\ DOMAIN s = 1..Len(s)
<1>1. Len(s) \in Nat /\ s \in [1..Len(s) -> T]
  OBVIOUS
<1>2. DOMAIN s = 1..Len(s) /\ \A i \in 1..Len(s) : s[i] \in ToSet(s)
  BY <1>1 DEF ToSet
<1>3. s \in [1..Len(s) -> ToSet(s)]
  BY <1>1, <1>2
<1> QED
  BY <1>1, <1>2, <1>3 DEF IsList

LEMMA ListAppend ==
  ASSUME NEW s, IsList(s), NEW x
  PROVE  /\ IsList(Append(s, x))
         /\ DOMAIN s = 1..Len(s) /\ Len(s) \in Nat
         /\ DOMAIN Append(s, x) = 1..(Len(s) + 1)
         /\ \A i \in DOMAIN s : Append(s, x)[i] = s[i]
         /\ Append(s, x)[Len(s) + 1] = x
<1> DEFINE T == ToSet(s) \cup {x}
<1>1. s \in Seq(T)
  <2>1. s \in [1..Len(s) -> ToSet(s)] /\ Len(s) \in Nat
    BY DEF IsList
  <2> QED
    BY <2>1
<1>2. /\ Append(s, x) \in Seq(T)
      /\ Len(Append(s, x)) = Len(s) + 1
      /\ \A i \in 1..Len(s) : Append(s, x)[i] = s[i]
      /\ Append(s, x)[Len(s) + 1] = x
  BY <1>1
<1>3. DOMAIN s = 1..Len(s) /\ Len(s) \in Nat /\ DOMAIN Append(s, x) = 1..(Len(s) + 1)
  BY <1>1, <1>2
<1>4. IsList(Append(s, x))
  BY <1>2, ListOf
<1> QED
  BY <1>2, <1>3, <1>4

LEMMA ListTail ==
  ASSUME NEW s, IsList(s), s # <<>>
  PROVE  /\ IsList(Tail(s)) /\ Head(s) = s[1] /\ 1 \in DOMAIN s
         /\ \A i \in DOMAIN Tail(s) :
              i + 1 \in DOMAIN s /\ Tail(s)[i] = s[i + 1] /\ i \in Nat /\ i >= 1
<1>1. s \in Seq(ToSet(s))
  BY DEF IsList
<1>2. /\ Tail(s) \in Seq(ToSet(s)) /\ Len(s) \in Nat /\ Len(s) >= 1
      /\ DOMAIN s = 1..Len(s) /\ DOMAIN Tail(s) = 1..(Len(s) - 1)
      /\ \A i \in 1..(Len(s) - 1) : Tail(s)[i] = s[i + 1]
      /\ Len(Tail(s)) = Len(s) - 1
  BY <1>1
<1>4. IsList(Tail(s))
  BY <1>2, ListOf
<1>5. Head(s) = s[1]
  BY <1>1
<1> QED
  BY <1>2, <1>4, <1>5

LEMMA ListEmpty == IsList(<<>>) /\ DOMAIN <<>> = {}
BY DEF IsList

----------------------------------------------------------------------------
(* The invariant, of a disk, saves, what the cache holds, the excused, the *)
(* phase and whether the session is fresh.                                 *)

\* What a state that knows what is stored must hold of an older one.
Under(older, newer, excused) == older \subseteq newer \cup excused

AtMostOne(d) == \A s, t \in d : s = t

\* The cache is the newest.
CacheIsNewest(d, sv, mem, ex, dr, ph, fr) ==
  ~fr /\ (ph # "loading" \/ d = {}) =>
    /\ Under(Holds(d), mem, dr \cup ex)
    /\ \A i \in DOMAIN sv : Under(Held(sv[i].state), mem, dr \cup ex)

\* A whole save is newer than those before it and than the disk.
SavesInOrder(d, sv, ex, dr) ==
  \A j \in DOMAIN sv : sv[j].whole =>
    /\ Under(Holds(d), Held(sv[j].state), dr \cup ex)
    /\ \A i \in DOMAIN sv : i < j => Under(Held(sv[i].state), Held(sv[j].state), dr \cup ex)

\* Before the restore all the saves are older than the cache, in their order,
\* and none is whole if anything is stored.
BeforeRestore(d, sv, mem, dr, ph) ==
  ph = "loading" =>
    /\ \A i \in DOMAIN sv : Under(Held(sv[i].state), mem, dr)
    /\ \A i, j \in DOMAIN sv : i < j => Under(Held(sv[i].state), Held(sv[j].state), dr)
    /\ d # {} => \A i \in DOMAIN sv : ~sv[i].whole

Kept(d, sv, mem, ex, dr, ph, fr) ==
  /\ AtMostOne(d) /\ IsList(sv)
  /\ CacheIsNewest(d, sv, mem, ex, dr, ph, fr)
  /\ SavesInOrder(d, sv, ex, dr)
  /\ BeforeRestore(d, sv, mem, dr, ph)

Cache == Held(Snapshot)
KeptInv == Kept(disk, saves, Cache, replaced, dropped, phase, fresh)

\* The cache works on, and what it lets go of is excused.
LEMMA CacheGoesOn ==
  ASSUME NEW d, NEW sv, NEW mem, NEW ex, NEW dr, NEW ph, NEW fr,
         NEW mem2, NEW ex2, NEW dr2, NEW ph2,
         Kept(d, sv, mem, ex, dr, ph, fr),
         ex \subseteq ex2, dr \subseteq dr2, mem \subseteq mem2 \cup dr2,
         ph2 = "loading" <=> ph = "loading"
  PROVE  Kept(d, sv, mem2, ex2, dr2, ph2, fr)
<1>1. CacheIsNewest(d, sv, mem2, ex2, dr2, ph2, fr)
  BY DEF Kept, CacheIsNewest, Under
<1>2. SavesInOrder(d, sv, ex2, dr2)
  BY DEF Kept, SavesInOrder, Under
<1>3. BeforeRestore(d, sv, mem2, dr2, ph2)
  BY DEF Kept, BeforeRestore, Under
<1> QED
  BY <1>1, <1>2, <1>3 DEF Kept

\* A save begins.
LEMMA SaveBegins ==
  ASSUME NEW d, NEW sv, NEW state, NEW whole, NEW ex, NEW dr, NEW ph, NEW fr,
         Kept(d, sv, Held(state), ex, dr, ph, fr),
         whole => ~fr /\ (ph # "loading" \/ d = {})
  PROVE  Kept(d, Append(sv, [state |-> state, whole |-> whole]), Held(state), ex, dr, ph, fr)
<1> DEFINE new == [state |-> state, whole |-> whole]
           sv2 == Append(sv, new)
<1>1. IsList(sv)
  BY DEF Kept
<1>2. /\ IsList(sv2) /\ DOMAIN sv = 1..Len(sv) /\ Len(sv) \in Nat
      /\ DOMAIN sv2 = 1..(Len(sv) + 1)
      /\ \A i \in DOMAIN sv : sv2[i] = sv[i]
      /\ sv2[Len(sv) + 1] = new
  BY <1>1, ListAppend
<1>3. new.state = state /\ (new.whole <=> whole)
  OBVIOUS
<1> HIDE DEF new, sv2
<1>4. CacheIsNewest(d, sv2, Held(state), ex, dr, ph, fr)
  BY <1>2, <1>3 DEF Kept, CacheIsNewest, Under
<1>5. SavesInOrder(d, sv2, ex, dr)
  <2> SUFFICES ASSUME NEW j \in DOMAIN sv2, sv2[j].whole
               PROVE  /\ Under(Holds(d), Held(sv2[j].state), dr \cup ex)
                      /\ \A i \in DOMAIN sv2 : i < j =>
                           Under(Held(sv2[i].state), Held(sv2[j].state), dr \cup ex)
    BY DEF SavesInOrder
  <2>1. CASE j \in DOMAIN sv
    <3>1. \A i \in DOMAIN sv2 : i < j => i \in DOMAIN sv
      BY <1>2, <2>1
    <3> QED
      BY <1>2, <2>1, <3>1 DEF Kept, SavesInOrder
  <2>2. CASE j = Len(sv) + 1
    <3>1. ~fr /\ (ph # "loading" \/ d = {})
      BY <1>2, <1>3, <2>2
    <3>2. \A i \in DOMAIN sv2 : i < j => i \in DOMAIN sv
      BY <1>2, <2>2
    <3>3. /\ Under(Holds(d), Held(state), dr \cup ex)
          /\ \A i \in DOMAIN sv : Under(Held(sv[i].state), Held(state), dr \cup ex)
      BY <3>1 DEF Kept, CacheIsNewest
    <3>4. sv2[j].state = state
      BY <1>2, <1>3, <2>2
    <3>5. Under(Holds(d), Held(sv2[j].state), dr \cup ex)
      BY <3>3, <3>4
    <3>6. ASSUME NEW i \in DOMAIN sv2, i < j
          PROVE  Under(Held(sv2[i].state), Held(sv2[j].state), dr \cup ex)
      <4>1. i \in DOMAIN sv /\ sv2[i] = sv[i]
        BY <1>2, <3>2, <3>6
      <4> QED
        BY <3>3, <3>4, <4>1
    <3> QED
      BY <3>5, <3>6
  <2>3. j \in DOMAIN sv \/ j = Len(sv) + 1
    BY <1>2
  <2> QED
    BY <2>1, <2>2, <2>3
<1>6. BeforeRestore(d, sv2, Held(state), dr, ph)
  <2> SUFFICES ASSUME ph = "loading"
               PROVE  /\ \A i \in DOMAIN sv2 : Under(Held(sv2[i].state), Held(state), dr)
                      /\ \A i, j \in DOMAIN sv2 : i < j =>
                           Under(Held(sv2[i].state), Held(sv2[j].state), dr)
                      /\ d # {} => \A i \in DOMAIN sv2 : ~sv2[i].whole
    BY DEF BeforeRestore
  <2>1. BeforeRestore(d, sv, Held(state), dr, ph)
    BY DEF Kept
  <2>2. \A i \in DOMAIN sv2 : Under(Held(sv2[i].state), Held(state), dr)
    BY <1>2, <1>3, <2>1 DEF BeforeRestore, Under
  <2>3. \A i, j \in DOMAIN sv2 : i < j => Under(Held(sv2[i].state), Held(sv2[j].state), dr)
    <3> SUFFICES ASSUME NEW i \in DOMAIN sv2, NEW j \in DOMAIN sv2, i < j
                 PROVE  Under(Held(sv2[i].state), Held(sv2[j].state), dr)
      OBVIOUS
    <3>1. i \in DOMAIN sv
      BY <1>2
    <3>2. CASE j \in DOMAIN sv
      BY <1>2, <2>1, <3>1, <3>2 DEF BeforeRestore
    <3>3. CASE j = Len(sv) + 1
      BY <1>2, <1>3, <2>1, <3>1, <3>3 DEF BeforeRestore
    <3> QED
      BY <1>2, <3>2, <3>3
  <2>4. d # {} => \A i \in DOMAIN sv2 : ~sv2[i].whole
    BY <1>2, <1>3, <2>1 DEF BeforeRestore
  <2> QED
    BY <2>1, <2>2, <2>3, <2>4 DEF BeforeRestore
<1>7. IsList(sv2) /\ AtMostOne(d)
  BY <1>2 DEF Kept
<1> QED
  BY <1>4, <1>5, <1>6, <1>7 DEF Kept, sv2, new

\* The oldest save ends, stored or not.
LEMMA SaveEnds ==
  ASSUME NEW d, NEW d2, NEW sv, NEW mem, NEW ex, NEW dr, NEW ph, NEW fr,
         Kept(d, sv, mem, ex, dr, ph, fr),
         sv # <<>>, ph # "loading", d2 \in {d, {Head(sv).state}}
  PROVE  Kept(d2, Tail(sv), mem, ex, dr, ph, fr)
<1>1. /\ IsList(Tail(sv)) /\ Head(sv) = sv[1] /\ 1 \in DOMAIN sv
      /\ \A i \in DOMAIN Tail(sv) :
           i + 1 \in DOMAIN sv /\ Tail(sv)[i] = sv[i + 1] /\ i \in Nat /\ i >= 1
  BY ListTail DEF Kept
<1> DEFINE tl == Tail(sv)
<1> HIDE DEF tl
<1>2. Holds({sv[1].state}) = Held(sv[1].state)
  BY DEF Holds
<1>3. AtMostOne(d2)
  BY <1>1 DEF Kept, AtMostOne
<1>4. CacheIsNewest(d2, tl, mem, ex, dr, ph, fr)
  <2> SUFFICES ASSUME ~fr
               PROVE  /\ Under(Holds(d2), mem, dr \cup ex)
                      /\ \A i \in DOMAIN tl : Under(Held(tl[i].state), mem, dr \cup ex)
    BY DEF CacheIsNewest
  <2>1. /\ Under(Holds(d), mem, dr \cup ex)
        /\ \A i \in DOMAIN sv : Under(Held(sv[i].state), mem, dr \cup ex)
    BY DEF Kept, CacheIsNewest
  <2> QED
    BY <1>1, <1>2, <2>1 DEF tl
<1>5. SavesInOrder(d2, tl, ex, dr)
  <2> SUFFICES ASSUME NEW j \in DOMAIN tl, tl[j].whole
               PROVE  /\ Under(Holds(d2), Held(tl[j].state), dr \cup ex)
                      /\ \A i \in DOMAIN tl : i < j =>
                           Under(Held(tl[i].state), Held(tl[j].state), dr \cup ex)
    BY DEF SavesInOrder
  <2>1. j + 1 \in DOMAIN sv /\ tl[j] = sv[j + 1] /\ 1 < j + 1
    BY <1>1 DEF tl
  <2>2. /\ Under(Holds(d), Held(tl[j].state), dr \cup ex)
        /\ \A i \in DOMAIN sv : i < j + 1 => Under(Held(sv[i].state), Held(tl[j].state), dr \cup ex)
    BY <2>1 DEF Kept, SavesInOrder
  <2>3. Under(Holds(d2), Held(tl[j].state), dr \cup ex)
    BY <1>1, <1>2, <2>1, <2>2
  <2>4. ASSUME NEW i \in DOMAIN tl, i < j
        PROVE  Under(Held(tl[i].state), Held(tl[j].state), dr \cup ex)
    <3>1. i + 1 \in DOMAIN sv /\ tl[i] = sv[i + 1] /\ i + 1 < j + 1
      BY <1>1, <2>4 DEF tl
    <3> QED
      BY <2>2, <3>1
  <2> QED
    BY <2>3, <2>4
<1>6. BeforeRestore(d2, tl, mem, dr, ph)
  BY DEF BeforeRestore
<1> QED
  BY <1>1, <1>3, <1>4, <1>5, <1>6 DEF Kept, tl

\* There is nothing to restore: the saves under way are older than the cache.
LEMMA NothingStored ==
  ASSUME NEW sv, NEW mem, NEW ex, NEW dr, NEW fr, Kept({}, sv, mem, ex, dr, "loading", fr)
  PROVE  Kept({}, sv, mem, ex, dr, "restored", fr)
<1>1. Holds({}) = {}
  BY DEF Holds
<1>2. BeforeRestore({}, sv, mem, dr, "loading") /\ IsList(sv)
  BY DEF Kept
<1>3. CacheIsNewest({}, sv, mem, ex, dr, "restored", fr)
  BY <1>1, <1>2 DEF BeforeRestore, CacheIsNewest, Under
<1>4. SavesInOrder({}, sv, ex, dr)
  BY <1>1, <1>2 DEF BeforeRestore, SavesInOrder, Under
<1>5. BeforeRestore({}, sv, mem, dr, "restored") /\ AtMostOne({})
  BY DEF BeforeRestore, AtMostOne
<1> QED
  BY <1>2, <1>3, <1>4, <1>5 DEF Kept

\* The cache becomes what is stored.
LEMMA StateRestored ==
  ASSUME NEW d, NEW sv, NEW mem, NEW ex, NEW dr, NEW fr, NEW state \in d,
         Kept(d, sv, mem, ex, dr, "loading", fr)
  PROVE  Kept(d, sv, Held(state), mem, dr, "restored", fr)
<1>1. Holds(d) = Held(state)
  BY DEF Kept, AtMostOne, Holds
<1>2. BeforeRestore(d, sv, mem, dr, "loading") /\ IsList(sv) /\ AtMostOne(d)
  BY DEF Kept
<1>3. CacheIsNewest(d, sv, Held(state), mem, dr, "restored", fr)
  BY <1>1, <1>2 DEF BeforeRestore, CacheIsNewest, Under
<1>4. SavesInOrder(d, sv, mem, dr)
  BY <1>2 DEF BeforeRestore, SavesInOrder
<1>5. BeforeRestore(d, sv, Held(state), dr, "restored")
  BY DEF BeforeRestore
<1> QED
  BY <1>2, <1>3, <1>4, <1>5 DEF Kept

\* What is stored cannot be read: no save of this session is whole.
LEMMA StateUnreadable ==
  ASSUME NEW d, NEW sv, NEW mem, NEW ex, NEW dr, NEW fr, Kept(d, sv, mem, ex, dr, "loading", fr)
  PROVE  Kept(d, sv, mem, ex, dr, "restored", TRUE)
<1>1. Holds({}) = {}
  BY DEF Holds
<1>2. BeforeRestore(d, sv, mem, dr, "loading") /\ IsList(sv) /\ AtMostOne(d)
  BY DEF Kept
<1>3. CacheIsNewest(d, sv, mem, ex, dr, "restored", TRUE)
  BY DEF CacheIsNewest
<1>4. SavesInOrder(d, sv, ex, dr)
  <2>1. CASE d = {}
    BY <1>1, <1>2, <2>1 DEF BeforeRestore, SavesInOrder, Under
  <2>2. CASE d # {}
    BY <1>2, <2>2 DEF BeforeRestore, SavesInOrder
  <2> QED
    BY <2>1, <2>2
<1>5. BeforeRestore(d, sv, mem, dr, "restored")
  BY DEF BeforeRestore
<1> QED
  BY <1>2, <1>3, <1>4, <1>5 DEF Kept

\* A session begins with an empty cache and no saves.
LEMMA SessionBegins ==
  ASSUME NEW d, NEW dr, AtMostOne(d)
  PROVE  Kept(d, <<>>, {}, {}, dr, "loading", FALSE)
<1>1. CacheIsNewest(d, <<>>, {}, {}, dr, "loading", FALSE)
  <2>1. d = {} => Holds(d) = {}
    BY DEF Holds
  <2> QED
    BY <2>1, ListEmpty DEF CacheIsNewest, Under
<1>2. SavesInOrder(d, <<>>, {}, dr)
  BY ListEmpty DEF SavesInOrder
<1>3. BeforeRestore(d, <<>>, {}, dr, "loading")
  BY ListEmpty DEF BeforeRestore, Under
<1> QED
  BY <1>1, <1>2, <1>3, ListEmpty DEF Kept

----------------------------------------------------------------------------
(* What the cache holds after each of its operations.                      *)

LEMMA CacheHolds == Cache = merged \cup OutboxWrites
BY DEF Cache, Held, Snapshot, OutboxWrites

LEMMA WithoutHolds ==
  ASSUME NEW entries, NEW ws
  PROVE  {e.write : e \in Without(entries, ws)} = {e.write : e \in entries} \ ws
BY DEF Without

LEMMA EnqueueHolds ==
  ASSUME NEW w, Enqueue(w)
  PROVE  Cache' = Cache \cup {w}
<1>1. /\ outbox' = outbox \cup {[seq |-> seq + 1, write |-> w]} /\ merged' = merged
      /\ [seq |-> seq + 1, write |-> w].write = w
  BY DEF Enqueue, Enqueued
<1>2. OutboxWrites' = OutboxWrites \cup {w}
  BY <1>1 DEF OutboxWrites
<1>3. Cache' = merged' \cup OutboxWrites'
  BY DEF Cache, Held, Snapshot, OutboxWrites
<1> QED
  BY <1>1, <1>2, <1>3, CacheHolds

LEMMA SettleHolds ==
  ASSUME NEW gone, NEW confirmed,
         outbox' = Without(outbox, gone), merged' = merged \cup confirmed,
         confirmed \subseteq gone
  PROVE  Cache \subseteq Cache' \cup (gone \ confirmed)
<1>1. OutboxWrites' = OutboxWrites \ gone
  BY WithoutHolds DEF OutboxWrites
<1>2. Cache' = merged' \cup OutboxWrites'
  BY DEF Cache, Held, Snapshot, OutboxWrites
<1> QED
  BY <1>1, <1>2, CacheHolds

----------------------------------------------------------------------------
(* Every step keeps the invariant.                                         *)

LEMMA KeptAtStart == Init => KeptInv
<1> SUFFICES ASSUME Init PROVE KeptInv
  OBVIOUS
<1>1. Cache = {}
  BY CacheHolds DEF Init, OutboxWrites
<1>2. AtMostOne({})
  BY DEF AtMostOne
<1>3. Kept({}, <<>>, {}, {}, dropped, "loading", FALSE)
  BY <1>2, SessionBegins
<1> QED
  BY <1>1, <1>3 DEF Init, KeptInv

\* Steps of the cache, the pipeline and the server.
LEMMA KeptByCache ==
  ASSUME KeptInv, UNCHANGED <<disk, saves, fresh>>,
         replaced \subseteq replaced', dropped \subseteq dropped',
         Cache \subseteq Cache' \cup dropped',
         phase' = "loading" <=> phase = "loading"
  PROVE  KeptInv'
<1>1. Kept(disk, saves, Cache', replaced', dropped', phase', fresh)
  BY CacheGoesOn DEF KeptInv
<1> QED
  BY <1>1 DEF KeptInv

LEMMA KeptByQuietStep ==
  ASSUME KeptInv, UNCHANGED <<disk, saves, outbox, seq, merged, ghosts>>,
         phase' = "loading" <=> phase = "loading"
  PROVE  KeptInv'
<1>1. Cache' = Cache
  BY DEF Cache, Held, Snapshot
<1> QED
  BY <1>1, KeptByCache DEF ghosts

LEMMA KeptByMutate == KeptInv /\ Mutate => KeptInv'
<1> SUFFICES ASSUME KeptInv, Mutate PROVE KeptInv'
  OBVIOUS
<1>1. Enqueue(issued')
  BY DEF Mutate, Deliver
<1>2. Cache' = Cache \cup {issued'}
  BY <1>1, EnqueueHolds
<1>3. UNCHANGED <<disk, saves, fresh, dropped, replaced, phase>>
  BY DEF Mutate, storage
<1> QED
  BY <1>2, <1>3, KeptByCache

LEMMA KeptByDirectAnswer ==
  ASSUME KeptInv, NEW r, DirectAnswer(r)
  PROVE  KeptInv'
<1> DEFINE ws == ToSet(r.batch)
           failed == {w \in ws : play.kind[w] \in {"refused", "throwing"}}
<1>1. /\ Settle(ws \ failed, failed) /\ dropped' = dropped \cup failed
      /\ UNCHANGED <<disk, saves, fresh, replaced, phase>>
  BY DEF DirectAnswer, storage
<1> HIDE DEF ws, failed
<1>2. /\ outbox' = Without(outbox, (ws \ failed) \cup failed)
      /\ merged' = merged \cup (ws \ failed)
  BY <1>1 DEF Settle
<1>3. Cache \subseteq Cache' \cup (((ws \ failed) \cup failed) \ (ws \ failed))
  BY <1>2, SettleHolds
<1> QED
  BY <1>1, <1>3, KeptByCache

LEMMA KeptByFlushAnswer ==
  ASSUME KeptInv, NEW r, FlushAnswer(r)
  PROVE  KeptInv'
<1> DEFINE throws == {i \in DOMAIN r.batch : play.kind[r.batch[i]] = "throwing"}
           upTo == IF throws = {} THEN Len(r.batch) ELSE Min(throws)
           gone == ToSet(SubSeq(r.batch, 1, upTo))
           thrown == {w \in gone : play.kind[w] = "throwing"}
           refused == {w \in gone : play.kind[w] = "refused"}
<1>1. /\ outbox' = Without(outbox, gone)
      /\ merged' = merged \cup (gone \ (thrown \cup refused))
      /\ dropped' = dropped \cup thrown \cup refused
      /\ UNCHANGED <<disk, saves, fresh, replaced, phase>>
  BY DEF FlushAnswer, storage
<1>2. thrown \subseteq gone /\ refused \subseteq gone
  OBVIOUS
<1> HIDE DEF throws, upTo, gone, thrown, refused
<1>3. Cache \subseteq Cache' \cup (gone \ (gone \ (thrown \cup refused)))
  BY <1>1, SettleHolds
<1> QED
  BY <1>1, <1>2, <1>3, KeptByCache

LEMMA KeptByFlushFails ==
  ASSUME KeptInv, NEW r, FlushFails(r)
  PROVE  KeptInv'
<1>1. UNCHANGED <<disk, saves, memory, phase, fresh, replaced, dropped>>
  BY DEF FlushFails, storage
<1>2. Cache' = Cache
  BY <1>1 DEF memory, Cache, Held, Snapshot
<1> QED
  BY <1>1, <1>2, KeptByCache

LEMMA KeptByDirectFails ==
  ASSUME KeptInv, NEW r, DirectFails(r)
  PROVE  KeptInv'
<1> DEFINE lost == {w \in ToSet(r.batch) : ~IsReplayable(w)}
<1>1. /\ UNCHANGED <<disk, saves, phase, fresh, replaced>> /\ dropped' = dropped \cup lost
      /\ UNCHANGED memory \/ Settle({}, lost)
  BY DEF DirectFails, storage
<1> HIDE DEF lost
<1>2. CASE UNCHANGED memory
  <2>1. Cache' = Cache
    BY <1>2 DEF memory, Cache, Held, Snapshot
  <2> QED
    BY <1>1, <2>1, KeptByCache
<1>3. CASE Settle({}, lost)
  <2>1. {} \cup lost = lost
    OBVIOUS
  <2>2. outbox' = Without(outbox, lost) /\ merged' = merged \cup {}
    BY <1>3, <2>1 DEF Settle
  <2>3. Cache \subseteq Cache' \cup (lost \ {})
    BY <2>2, SettleHolds
  <2> QED
    BY <1>1, <2>3, KeptByCache
<1> QED
  BY <1>1, <1>2, <1>3

LEMMA KeptByPersistFires == KeptInv /\ PersistFires => KeptInv'
<1> SUFFICES ASSUME KeptInv, PersistFires PROVE KeptInv'
  OBVIOUS
<1>1. /\ saves' = Append(saves, [state |-> Snapshot, whole |-> Whole])
      /\ UNCHANGED <<disk, outbox, seq, merged, replaced, dropped, phase, fresh>>
  BY DEF PersistFires
<1>2. Cache' = Held(Snapshot)
  BY <1>1 DEF Cache, Held, Snapshot
<1>3. Whole => ~fresh /\ (phase # "loading" \/ disk = {})
  BY DEF Whole
<1>4. Kept(disk, saves, Held(Snapshot), replaced, dropped, phase, fresh)
  BY DEF KeptInv, Cache
<1>5. Kept(disk, saves', Held(Snapshot), replaced, dropped, phase, fresh)
  BY <1>1, <1>3, <1>4, SaveBegins
<1> QED
  BY <1>1, <1>2, <1>5 DEF KeptInv

LEMMA KeptBySaveLands == KeptInv /\ SaveLands => KeptInv'
<1> SUFFICES ASSUME KeptInv, SaveLands PROVE KeptInv'
  OBVIOUS
<1>1. /\ saves # <<>> /\ phase # "loading"
      /\ disk' = {Head(saves).state} /\ saves' = Tail(saves)
      /\ UNCHANGED <<memory, replaced, dropped, phase, fresh>>
  BY DEF SaveLands, ghosts
<1>2. Cache' = Cache
  BY <1>1 DEF memory, Cache, Held, Snapshot
<1>3. Kept(disk', saves', Cache, replaced, dropped, phase, fresh)
  BY <1>1, SaveEnds DEF KeptInv
<1> QED
  BY <1>1, <1>2, <1>3 DEF KeptInv

LEMMA KeptBySaveFails == KeptInv /\ SaveFails => KeptInv'
<1> SUFFICES ASSUME KeptInv, SaveFails PROVE KeptInv'
  OBVIOUS
<1>1. /\ saves # <<>> /\ phase # "loading" /\ saves' = Tail(saves)
      /\ UNCHANGED <<disk, memory, replaced, dropped, phase, fresh>>
  BY DEF SaveFails
<1>2. Cache' = Cache
  BY <1>1 DEF memory, Cache, Held, Snapshot
<1>3. Kept(disk, saves', Cache, replaced, dropped, phase, fresh)
  BY <1>1, SaveEnds DEF KeptInv
<1> QED
  BY <1>1, <1>2, <1>3 DEF KeptInv

LEMMA KeptByRestore == KeptInv /\ Restore => KeptInv'
<1> SUFFICES ASSUME KeptInv, Restore PROVE KeptInv'
  OBVIOUS
<1>1. /\ phase = "loading" /\ phase' = "restored"
      /\ UNCHANGED <<disk, saves, dropped, fresh>>
  BY DEF Restore, storage
<1>2. Kept(disk, saves, Cache, replaced, dropped, "loading", fresh)
  BY <1>1 DEF KeptInv
<1>3. CASE disk = {} /\ UNCHANGED <<outbox, seq, merged, replaced>>
  <2>1. Cache' = Cache
    BY <1>3 DEF Cache, Held, Snapshot
  <2>2. Kept({}, saves, Cache, replaced, dropped, "restored", fresh)
    BY <1>2, <1>3, NothingStored
  <2> QED
    BY <1>1, <1>3, <2>1, <2>2 DEF KeptInv
<1>4. ASSUME NEW state \in disk, seq' = state.seq, merged' = state.merged,
             outbox' = state.outbox, replaced' = merged \cup OutboxWrites
      PROVE  KeptInv'
  <2>1. Cache' = Held(state)
    BY <1>4 DEF Cache, Held, Snapshot
  <2>2. replaced' = Cache
    BY <1>4, CacheHolds
  <2>3. Kept(disk, saves, Held(state), Cache, dropped, "restored", fresh)
    BY <1>2, StateRestored
  <2> QED
    BY <1>1, <2>1, <2>2, <2>3 DEF KeptInv
<1> QED
  BY <1>1, <1>3, <1>4 DEF Restore

LEMMA KeptByRestoreFails == KeptInv /\ RestoreFails => KeptInv'
<1> SUFFICES ASSUME KeptInv, RestoreFails PROVE KeptInv'
  OBVIOUS
<1>1. /\ phase = "loading" /\ phase' = "restored" /\ fresh' = TRUE
      /\ UNCHANGED <<disk, saves, memory, replaced, dropped>>
  BY DEF RestoreFails, storage
<1>2. Cache' = Cache
  BY <1>1 DEF memory, Cache, Held, Snapshot
<1>3. Kept(disk, saves, Cache, replaced, dropped, "restored", TRUE)
  BY <1>1, StateUnreadable DEF KeptInv
<1> QED
  BY <1>1, <1>2, <1>3 DEF KeptInv

LEMMA KeptByCrash ==
  ASSUME KeptInv, NEW stored, Crash(stored)
  PROVE  KeptInv'
<1>1. /\ stored \in 0..Len(saves)
      /\ disk' = IF stored = 0 THEN disk ELSE {saves[stored].state}
      /\ saves' = <<>> /\ outbox' = {} /\ merged' = {} /\ replaced' = {}
      /\ phase' = "loading" /\ fresh' = FALSE /\ dropped' = dropped
  BY DEF Crash
<1>2. IsList(saves) /\ AtMostOne(disk)
  BY DEF KeptInv, Kept
<1>3. disk' = disk \/ \E i \in DOMAIN saves : disk' = {saves[i].state}
  BY <1>1, <1>2 DEF IsList
<1>4. AtMostOne(disk')
  BY <1>2, <1>3 DEF AtMostOne
<1>5. Cache' = {}
  BY <1>1 DEF Cache, Held, Snapshot
<1>6. Kept(disk', <<>>, {}, {}, dropped, "loading", FALSE)
  BY <1>4, SessionBegins
<1> QED
  BY <1>1, <1>5, <1>6 DEF KeptInv

LEMMA KeptByNext == KeptInv /\ [Next]_vars => KeptInv'
<1> SUFFICES ASSUME KeptInv, [Next]_vars PROVE KeptInv'
  OBVIOUS
<1>1. CASE Mutate
  BY <1>1, KeptByMutate
<1>2. CASE Stored
  BY <1>2, KeptByPersistFires, KeptBySaveLands DEF Stored
<1>3. CASE SaveFails
  BY <1>3, KeptBySaveFails
<1>4. CASE RetryFires
  BY <1>4, KeptByQuietStep DEF RetryFires, memory, storage
<1>5. CASE FlushWrites
  BY <1>5, KeptByQuietStep DEF FlushWrites, memory, storage
<1>6. CASE Answered
  BY <1>6, KeptByDirectAnswer, KeptByFlushAnswer DEF Answered
<1>7. CASE Served \/ Leftover
  <2>1. PICK r \in wire : Run(r)
    BY <1>7 DEF Served, Leftover
  <2> QED
    BY <2>1, KeptByQuietStep DEF Run, memory, storage
<1>8. CASE Failed
  BY <1>8, KeptByDirectFails, KeptByFlushFails DEF Failed
<1>9. CASE Starts
  <2>1. Adopt => KeptInv'
    BY KeptByQuietStep DEF Adopt, memory, storage
  <2> QED
    BY <1>9, <2>1, KeptByRestore DEF Starts
<1>10. CASE RestoreFails
  BY <1>10, KeptByRestoreFails
<1>11. CASE Ends
  BY <1>11, KeptByCrash DEF Ends
<1>12. CASE UNCHANGED vars
  BY <1>12, KeptByQuietStep DEF vars, memory, storage
<1> QED
  BY <1>1, <1>2, <1>3, <1>4, <1>5, <1>6, <1>7, <1>8, <1>9, <1>10, <1>11, <1>12 DEF Next

LEMMA WholeSaveKeeps ==
  KeptInv /\ SavedWhole => Holds(disk) \subseteq Holds(disk') \cup dropped \cup replaced
<1> SUFFICES ASSUME KeptInv, NEW i \in DOMAIN saves, saves[i].whole, disk' = {saves[i].state}
             PROVE  Holds(disk) \subseteq Holds(disk') \cup dropped \cup replaced
  BY DEF SavedWhole
<1>1. Under(Holds(disk), Held(saves[i].state), dropped \cup replaced)
  BY DEF KeptInv, Kept, SavesInOrder
<1>2. Holds(disk') = Held(saves[i].state)
  BY DEF Holds
<1> QED
  BY <1>1, <1>2 DEF Under

\* A write that is stored stays stored, as an entry or in the rows, until it
\* is reported as failed, for any number of writes, sessions, saves and faults
\* (MemoryCacheBackbone's persist and restore, under Engine.ready's adoption).
THEOREM StoredStaysStored == Spec => KeptOnDisk
<1>1. KeptInv /\ [Next]_vars =>
        [disk' # disk /\ SavedWhole =>
           Holds(disk) \subseteq Holds(disk') \cup dropped \cup replaced]_vars
  BY WholeSaveKeeps
<1> QED
  BY <1>1, KeptAtStart, KeptByNext, PTL DEF Spec, KeptOnDisk

----------------------------------------------------------------------------
(* Lists in order.                                                         *)

\* A finite set of numbers, in order.
LEMMA SortedOrder ==
  ASSUME NEW S, IsFiniteSet(S), S \subseteq Nat
  PROVE  /\ Cardinality(S) \in Nat /\ DOMAIN Sorted(S) = 1..Cardinality(S)
         /\ \A k \in DOMAIN Sorted(S) : Sorted(S)[k] \in S
         /\ \A n \in S : \E k \in DOMAIN Sorted(S) : Sorted(S)[k] = n
         /\ \A j, k \in DOMAIN Sorted(S) : j < k <=> Sorted(S)[j] < Sorted(S)[k]
<1> DEFINE Below(n) == {m \in S : m < n}
           low(n) == Cardinality(Below(n))
           size == Cardinality(S)
           rank == [n \in S |-> low(n) + 1]
<1>1. size \in Nat /\ IsFiniteSet(1..size) /\ Cardinality(1..size) = size
  BY FS_CardinalityType, FS_Interval
<1>2. ASSUME NEW n \in S
      PROVE  IsFiniteSet(Below(n)) /\ low(n) \in Nat /\ low(n) < size
  <2>1. IsFiniteSet(Below(n)) /\ low(n) <= size /\ (low(n) = size => Below(n) = S)
    BY FS_Subset
  <2>2. n \notin Below(n)
    BY <1>2
  <2>3. low(n) \in Nat
    BY <2>1, FS_CardinalityType
  <2>4. low(n) # size
    BY <2>1, <2>2
  <2> HIDE DEF low, size
  <2> QED
    BY <1>1, <2>1, <2>3, <2>4
<1>3. ASSUME NEW m \in S, NEW n \in S, m < n
      PROVE  low(m) < low(n)
  <2>0. m \in Nat /\ n \in Nat /\ \A x \in S : x \in Nat
    OBVIOUS
  <2>1. Below(m) \subseteq Below(n) /\ m \in Below(n) /\ m \notin Below(m)
    <3>1. \A x \in S : x < m => x < n
      BY <1>3, <2>0
    <3>2. ~(m < m)
      BY <2>0
    <3> QED
      BY <1>3, <3>1, <3>2
  <2>2. low(m) <= low(n) /\ (low(m) = low(n) => Below(m) = Below(n))
    BY <1>2, <2>1, FS_Subset
  <2>3. low(m) # low(n)
    BY <2>1, <2>2
  <2>4. low(m) \in Nat /\ low(n) \in Nat
    BY <1>2
  <2> HIDE DEF low
  <2> QED
    BY <2>2, <2>3, <2>4
<1> HIDE DEF low, size, Below
<1>4. rank \in [S -> 1..size]
  BY <1>1, <1>2
<1>5. rank \in Injection(S, 1..size)
  <2>1. \A m, n \in S : m # n => m < n \/ n < m
    OBVIOUS
  <2>2. \A m, n \in S : rank[m] = rank[n] => m = n
    BY <1>2, <1>3, <2>1
  <2> QED
    BY <1>4, <2>2 DEF Injection, IsInjective
<1>6. rank \in Surjection(S, 1..size)
  BY <1>1, <1>5, FS_Injection DEF size
<1>7. ASSUME NEW k \in 1..size
      PROVE  Nth(S, k) \in S /\ low(Nth(S, k)) = k - 1
  <2>1. PICK n \in S : rank[n] = k
    BY <1>6 DEF Surjection
  <2>2. low(n) = k - 1
    BY <1>2, <2>1
  <2> QED
    BY <2>2 DEF Nth, low, Below
<1>8. DOMAIN Sorted(S) = 1..size /\ \A k \in 1..size : Sorted(S)[k] = Nth(S, k)
  BY DEF Sorted, size
<1>9. \A n \in S : \E k \in 1..size : Sorted(S)[k] = n
  <2> SUFFICES ASSUME NEW n \in S PROVE \E k \in 1..size : Sorted(S)[k] = n
    OBVIOUS
  <2>1. PICK k \in 1..size : low(n) = k - 1
    BY <1>1, <1>2
  <2>2. Nth(S, k) \in S /\ low(Nth(S, k)) = k - 1
    BY <1>7
  <2>3. Nth(S, k) = n
    <3> DEFINE x == Nth(S, k)
    <3>1. x \in S /\ low(x) = low(n) /\ low(n) \in Nat
      BY <1>2, <2>1, <2>2
    <3> HIDE DEF x
    <3>2. ~(x < n) /\ ~(n < x)
      BY <1>3, <3>1
    <3>3. x = n
      BY <3>1, <3>2
    <3> QED
      BY <3>3 DEF x
  <2> QED
    BY <1>8, <2>3
<1>10. \A j, k \in 1..size : j < k <=> Sorted(S)[j] < Sorted(S)[k]
  <2> SUFFICES ASSUME NEW j \in 1..size, NEW k \in 1..size
               PROVE  j < k <=> Nth(S, j) < Nth(S, k)
    BY <1>8
  <2> DEFINE x == Nth(S, j)
             y == Nth(S, k)
  <2>1. x \in S /\ low(x) = j - 1 /\ y \in S /\ low(y) = k - 1
    BY <1>7
  <2> HIDE DEF x, y
  <2>2. x < y => j < k
    BY <1>1, <1>3, <2>1
  <2>3. y < x => k < j
    BY <1>1, <1>3, <2>1
  <2>4. x = y => j = k
    BY <1>1, <2>1
  <2>5. x < y \/ y < x \/ x = y
    BY <2>1
  <2>6. x < y <=> j < k
    BY <1>1, <2>2, <2>3, <2>4, <2>5
  <2> QED
    BY <2>6 DEF x, y
<1>11. \A k \in 1..size : Sorted(S)[k] \in S
  BY <1>7, <1>8
<1> QED
  BY <1>1, <1>8, <1>9, <1>10, <1>11 DEF size

----------------------------------------------------------------------------
(* Lists of writes, and what is behind what.                               *)

\* A write that may be replayed is behind the writes it was issued after.
Behind(x, done, before) ==
  play.kind[x] # "action" => after[x] \subseteq done \cup before
Ordered(s, done) ==
  \A i \in DOMAIN s : Behind(s[i], done, {s[j] : j \in 1..(i - 1)})

LEMMA SeqFacts ==
  ASSUME NEW T, NEW s \in Seq(T)
  PROVE  /\ Len(s) \in Nat /\ DOMAIN s = 1..Len(s) /\ s \in [1..Len(s) -> T]
         /\ ToSet(s) \subseteq T /\ \A i \in DOMAIN s : s[i] \in ToSet(s)
         /\ ToSet(s) = {} <=> s = <<>>
<1>1. Len(s) \in Nat /\ DOMAIN s = 1..Len(s) /\ s \in [1..Len(s) -> T]
  OBVIOUS
<1>2. ToSet(s) \subseteq T /\ \A i \in DOMAIN s : s[i] \in ToSet(s)
  BY <1>1 DEF ToSet
<1>3. s = <<>> => ToSet(s) = {}
  BY DEF ToSet
<1>4. s # <<>> => 1 \in DOMAIN s
  BY <1>1
<1> QED
  BY <1>1, <1>2, <1>3, <1>4

\* One list behind another.
LEMMA Joined ==
  ASSUME NEW T, NEW s \in Seq(T), NEW t \in Seq(T)
  PROVE  /\ s \o t \in Seq(T) /\ ToSet(s \o t) = ToSet(s) \cup ToSet(t)
         /\ Len(s) \in Nat /\ Len(t) \in Nat /\ DOMAIN (s \o t) = 1..(Len(s) + Len(t))
         /\ \A i \in 1..Len(s) : (s \o t)[i] = s[i]
         /\ \A i \in 1..Len(t) : (s \o t)[Len(s) + i] = t[i]
<1> DEFINE u == s \o t
<1>1. /\ u \in Seq(T) /\ Len(s) \in Nat /\ Len(t) \in Nat
      /\ DOMAIN u = 1..(Len(s) + Len(t)) /\ DOMAIN s = 1..Len(s) /\ DOMAIN t = 1..Len(t)
      /\ \A i \in 1..(Len(s) + Len(t)) : u[i] = IF i <= Len(s) THEN s[i] ELSE t[i - Len(s)]
  OBVIOUS
<1> HIDE DEF u
<1>2. /\ \A i \in 1..Len(s) : u[i] = s[i]
      /\ \A i \in 1..Len(t) : u[Len(s) + i] = t[i]
  <2>1. \A i \in 1..Len(s) : u[i] = s[i]
    BY <1>1
  <2>2. ASSUME NEW i \in 1..Len(t) PROVE u[Len(s) + i] = t[i]
    <3>1. /\ Len(s) + i \in 1..(Len(s) + Len(t)) /\ ~(Len(s) + i <= Len(s))
          /\ (Len(s) + i) - Len(s) = i
      BY <1>1
    <3> QED  BY <1>1, <3>1
  <2> QED  BY <2>1, <2>2
<1>3. \A i \in 1..(Len(s) + Len(t)) :
        i \in 1..Len(s) \/ \E j \in 1..Len(t) : i = Len(s) + j
  <2> SUFFICES ASSUME NEW i \in 1..(Len(s) + Len(t)), ~(i \in 1..Len(s))
               PROVE  \E j \in 1..Len(t) : i = Len(s) + j
    OBVIOUS
  <2>1. i - Len(s) \in 1..Len(t) /\ i = Len(s) + (i - Len(s))
    BY <1>1
  <2> QED
    BY <2>1
<1>4. \A i \in 1..Len(s) : i \in 1..(Len(s) + Len(t))
  BY <1>1
<1>5. \A i \in 1..Len(t) : Len(s) + i \in 1..(Len(s) + Len(t))
  BY <1>1
<1>6. ToSet(u) \subseteq ToSet(s) \cup ToSet(t)
  <2> SUFFICES ASSUME NEW i \in DOMAIN u PROVE u[i] \in ToSet(s) \cup ToSet(t)
    BY DEF ToSet
  <2>1. CASE i \in 1..Len(s)
    BY <1>1, <1>2, <2>1 DEF ToSet
  <2>2. CASE i \notin 1..Len(s)
    <3>1. PICK j \in 1..Len(t) : i = Len(s) + j
      BY <1>1, <1>3, <2>2
    <3>2. u[i] = t[j] /\ t[j] \in ToSet(t)
      BY <1>1, <1>2, <3>1 DEF ToSet
    <3> QED
      BY <3>2
  <2> QED
    BY <2>1, <2>2
<1>7. ToSet(s) \subseteq ToSet(u)
  BY <1>1, <1>2, <1>4 DEF ToSet
<1>8. ToSet(t) \subseteq ToSet(u)
  <2> SUFFICES ASSUME NEW i \in DOMAIN t PROVE t[i] \in ToSet(u)
    BY DEF ToSet
  <2>1. Len(s) + i \in DOMAIN u /\ u[Len(s) + i] = t[i]
    BY <1>1, <1>2, <1>5
  <2>2. u[Len(s) + i] \in ToSet(u)
    BY <2>1 DEF ToSet
  <2> QED
    BY <2>1, <2>2
<1> QED
  BY <1>1, <1>2, <1>6, <1>7, <1>8 DEF u

LEMMA JoinedInjective ==
  ASSUME NEW T, NEW s \in Seq(T), NEW t \in Seq(T), IsInjective(s), IsInjective(t),
         ToSet(s) \cap ToSet(t) = {}
  PROVE  IsInjective(s \o t)
<1> DEFINE u == s \o t
<1>1. /\ Len(s) \in Nat /\ Len(t) \in Nat /\ DOMAIN u = 1..(Len(s) + Len(t))
      /\ \A i \in 1..Len(s) : u[i] = s[i] /\ u[i] \in ToSet(s)
      /\ \A i \in 1..Len(t) : u[Len(s) + i] = t[i] /\ t[i] \in ToSet(t)
  BY Joined, SeqFacts
<1> HIDE DEF u
<1>2. /\ \A i, j \in 1..Len(s) : s[i] = s[j] => i = j
      /\ \A i, j \in 1..Len(t) : t[i] = t[j] => i = j
  BY SeqFacts DEF IsInjective
<1>3. ASSUME NEW a \in DOMAIN u, NEW b \in DOMAIN u, u[a] = u[b]
      PROVE  a = b
  <2>1. CASE a \in 1..Len(s) /\ b \in 1..Len(s)
    BY <1>1, <1>2, <1>3, <2>1
  <2>2. CASE a \in 1..Len(s) /\ b \notin 1..Len(s)
    <3>1. b - Len(s) \in 1..Len(t) /\ b = Len(s) + (b - Len(s))
      BY <1>1, <2>2
    <3>2. u[a] \in ToSet(s) /\ u[b] \in ToSet(t)
      BY <1>1, <2>2, <3>1
    <3> QED
      BY <1>3, <3>2
  <2>3. CASE a \notin 1..Len(s) /\ b \in 1..Len(s)
    <3>1. a - Len(s) \in 1..Len(t) /\ a = Len(s) + (a - Len(s))
      BY <1>1, <2>3
    <3>2. u[b] \in ToSet(s) /\ u[a] \in ToSet(t)
      BY <1>1, <2>3, <3>1
    <3> QED
      BY <1>3, <3>2
  <2>4. CASE a \notin 1..Len(s) /\ b \notin 1..Len(s)
    <3>1. /\ a - Len(s) \in 1..Len(t) /\ a = Len(s) + (a - Len(s))
          /\ b - Len(s) \in 1..Len(t) /\ b = Len(s) + (b - Len(s))
      BY <1>1, <2>4
    <3>2. t[a - Len(s)] = t[b - Len(s)]
      BY <1>1, <1>3, <3>1
    <3>3. a - Len(s) = b - Len(s)
      BY <1>2, <3>1, <3>2
    <3> QED
      BY <1>1, <3>1, <3>3
  <2> QED
    BY <2>1, <2>2, <2>3, <2>4
<1> QED
  BY <1>3 DEF IsInjective, u

LEMMA JoinedOrdered ==
  ASSUME NEW T, NEW s \in Seq(T), NEW t \in Seq(T), NEW done, NEW more,
         Ordered(s, done), Ordered(t, more), more \subseteq done \cup ToSet(s)
  PROVE  Ordered(s \o t, done)
<1> DEFINE u == s \o t
           BeforeIn(v, i) == {v[j] : j \in 1..(i - 1)}
<1>1. /\ Len(s) \in Nat /\ Len(t) \in Nat /\ DOMAIN u = 1..(Len(s) + Len(t))
      /\ \A i \in 1..Len(s) : u[i] = s[i]
      /\ \A i \in 1..Len(t) : u[Len(s) + i] = t[i]
      /\ DOMAIN s = 1..Len(s) /\ DOMAIN t = 1..Len(t)
  BY Joined, SeqFacts
<1> HIDE DEF u
<1>2. ASSUME NEW i \in DOMAIN u
      PROVE  Behind(u[i], done, BeforeIn(u, i))
  <2>1. CASE i \in 1..Len(s)
    <3>1. \A j \in 1..(i - 1) : u[j] = s[j]
      BY <1>1, <2>1
    <3>2. BeforeIn(s, i) \subseteq BeforeIn(u, i)
      BY <3>1
    <3>3. Behind(s[i], done, BeforeIn(s, i)) /\ u[i] = s[i]
      BY <1>1, <2>1 DEF Ordered
    <3> QED
      BY <3>2, <3>3 DEF Behind
  <2>2. CASE i \notin 1..Len(s)
    <3> DEFINE k == i - Len(s)
    <3>1. k \in 1..Len(t) /\ i = Len(s) + k
      BY <1>1, <2>2
    <3>2. Behind(t[k], more, BeforeIn(t, k)) /\ u[i] = t[k]
      BY <1>1, <3>1 DEF Ordered
    <3>3. \A j \in 1..(k - 1) : Len(s) + j \in 1..(i - 1) /\ u[Len(s) + j] = t[j]
      BY <1>1, <3>1
    <3>4. BeforeIn(t, k) \subseteq BeforeIn(u, i)
      BY <3>3
    <3>5. \A j \in 1..Len(s) : j \in 1..(i - 1) /\ u[j] = s[j]
      BY <1>1, <3>1
    <3>6. ToSet(s) \subseteq BeforeIn(u, i)
      BY <1>1, <3>5 DEF ToSet
    <3> QED
      BY <3>2, <3>4, <3>6 DEF Behind
  <2> QED
    BY <2>1, <2>2
<1> QED
  BY <1>2 DEF Ordered, u

\* What is left of a list.
LEMMA LeftOver ==
  ASSUME NEW T, NEW s \in Seq(T), NEW ws, NEW q, q = Except(s, ws)
  PROVE  /\ q \in Seq(T) /\ ToSet(q) = ToSet(s) \ ws
         /\ \E at \in [DOMAIN q -> DOMAIN s] :
              /\ \A k \in DOMAIN q : q[k] = s[at[k]]
              /\ \A j, k \in DOMAIN q : j < k <=> at[j] < at[k]
              /\ \A i \in DOMAIN s : s[i] \notin ws => \E k \in DOMAIN q : at[k] = i
<1> DEFINE K == {i \in DOMAIN s : s[i] \notin ws}
           at == Sorted(K)
<1>1. Len(s) \in Nat /\ DOMAIN s = 1..Len(s) /\ \A i \in DOMAIN s : s[i] \in T
  BY SeqFacts
<1>2. K \subseteq Nat /\ K \subseteq DOMAIN s /\ IsFiniteSet(K)
  <2>1. IsFiniteSet(1..Len(s)) /\ K \in SUBSET (1..Len(s))
    BY <1>1, FS_Interval
  <2> QED
    BY <1>1, <2>1, FS_Subset
<1>3. \A i \in DOMAIN s : s[i] \notin ws <=> i \in K
  OBVIOUS
<1>4. q = [k \in DOMAIN at |-> s[at[k]]]
  BY DEF Except
<1> HIDE DEF K, at
<1>5. /\ Cardinality(K) \in Nat /\ DOMAIN at = 1..Cardinality(K)
      /\ \A k \in DOMAIN at : at[k] \in K
      /\ \A i \in K : \E k \in DOMAIN at : at[k] = i
      /\ \A j, k \in DOMAIN at : j < k <=> at[j] < at[k]
  BY <1>2, SortedOrder DEF at
<1>6. at \in [DOMAIN at -> DOMAIN s]
  <2>1. at = [k \in 1..Cardinality(K) |-> Nth(K, k)]
    BY DEF at, Sorted
  <2>2. \A k \in 1..Cardinality(K) : Nth(K, k) \in DOMAIN s
    BY <1>2, <1>5, <2>1
  <2> QED
    BY <2>1, <2>2
<1>7. DOMAIN q = DOMAIN at /\ \A k \in DOMAIN q : q[k] = s[at[k]]
  BY <1>4
<1>8. q \in Seq(T)
  <2>1. q \in [1..Cardinality(K) -> T]
    BY <1>1, <1>2, <1>4, <1>5
  <2> QED
    BY <1>5, <2>1
<1>9. ToSet(q) = ToSet(s) \ ws
  <2>1. ToSet(q) \subseteq ToSet(s) \ ws
    <3> SUFFICES ASSUME NEW k \in DOMAIN q PROVE q[k] \in ToSet(s) \ ws
      BY DEF ToSet
    <3>1. at[k] \in K /\ at[k] \in DOMAIN s /\ q[k] = s[at[k]]
      BY <1>2, <1>5, <1>7
    <3>2. s[at[k]] \notin ws /\ s[at[k]] \in ToSet(s)
      BY <1>3, <3>1 DEF ToSet
    <3> QED
      BY <3>1, <3>2
  <2>2. ToSet(s) \ ws \subseteq ToSet(q)
    BY <1>3, <1>5, <1>7 DEF ToSet
  <2> QED
    BY <2>1, <2>2
<1>10. at \in [DOMAIN q -> DOMAIN s]
  BY <1>6, <1>7
<1> QED
  BY <1>3, <1>5, <1>7, <1>8, <1>9, <1>10

LEMMA LeftOverInjective ==
  ASSUME NEW T, NEW s \in Seq(T), IsInjective(s), NEW ws
  PROVE  IsInjective(Except(s, ws))
<1> DEFINE q == Except(s, ws)
<1>1. PICK at \in [DOMAIN q -> DOMAIN s] :
        /\ \A k \in DOMAIN q : q[k] = s[at[k]]
        /\ \A j, k \in DOMAIN q : j < k <=> at[j] < at[k]
  BY LeftOver
<1>2. q \in Seq(T)
  BY LeftOver
<1>3. DOMAIN q = 1..Len(q) /\ Len(q) \in Nat /\ DOMAIN s = 1..Len(s) /\ Len(s) \in Nat
  BY <1>2, SeqFacts
<1> HIDE DEF q
<1>4. \A j, k \in DOMAIN q : q[j] = q[k] => at[j] = at[k]
  BY <1>1 DEF IsInjective
<1>5. \A j, k \in DOMAIN q : at[j] = at[k] => j = k
  <2> SUFFICES ASSUME NEW j \in DOMAIN q, NEW k \in DOMAIN q, at[j] = at[k]
               PROVE  j = k
    OBVIOUS
  <2>1. at[j] \in Nat /\ j \in Nat /\ k \in Nat
    BY <1>1, <1>3
  <2>2. ~(j < k) /\ ~(k < j)
    BY <1>1, <2>1
  <2> QED
    BY <2>1, <2>2
<1> QED
  BY <1>4, <1>5 DEF IsInjective, q

LEMMA LeftOverOrdered ==
  ASSUME NEW T, NEW s \in Seq(T), NEW ws, NEW done, Ordered(s, done),
         ToSet(s) \cap ws \subseteq done
  PROVE  Ordered(Except(s, ws), done)
<1> DEFINE q == Except(s, ws)
           BeforeIn(v, i) == {v[j] : j \in 1..(i - 1)}
<1>1. PICK at \in [DOMAIN q -> DOMAIN s] :
        /\ \A k \in DOMAIN q : q[k] = s[at[k]]
        /\ \A j, k \in DOMAIN q : j < k <=> at[j] < at[k]
        /\ \A i \in DOMAIN s : s[i] \notin ws => \E k \in DOMAIN q : at[k] = i
  <2>1. q = Except(s, ws)
    OBVIOUS
  <2> HIDE DEF q
  <2> QED
    BY <2>1, LeftOver
<1>2. q \in Seq(T)
  BY LeftOver
<1>3. /\ DOMAIN q = 1..Len(q) /\ Len(q) \in Nat /\ DOMAIN s = 1..Len(s) /\ Len(s) \in Nat
      /\ \A i \in DOMAIN s : s[i] \in ToSet(s)
  BY <1>2, SeqFacts
<1> HIDE DEF q
<1>4. ASSUME NEW k \in DOMAIN q
      PROVE  Behind(q[k], done, BeforeIn(q, k))
  <2>1. at[k] \in DOMAIN s /\ q[k] = s[at[k]] /\ Behind(s[at[k]], done, BeforeIn(s, at[k]))
    BY <1>1 DEF Ordered
  <2>2. ASSUME NEW i \in 1..(at[k] - 1)
        PROVE  s[i] \in done \cup BeforeIn(q, k)
    <3>1. i \in DOMAIN s /\ i < at[k]
      BY <1>3, <2>1
    <3>2. CASE s[i] \in ws
      BY <1>3, <3>1, <3>2
    <3>3. CASE s[i] \notin ws
      <4>1. PICK j \in DOMAIN q : at[j] = i
        BY <1>1, <3>1, <3>3
      <4>2. j \in 1..(k - 1) /\ q[j] = s[i]
        BY <1>1, <1>3, <3>1, <4>1
      <4> QED
        BY <4>2
    <3> QED
      BY <3>2, <3>3
  <2>3. BeforeIn(s, at[k]) \subseteq done \cup BeforeIn(q, k)
    BY <2>2
  <2> QED
    BY <2>1, <2>3 DEF Behind
<1> QED
  BY <1>4 DEF Ordered, q

LEMMA OrderedGrows ==
  ASSUME NEW s, NEW done, NEW more, done \subseteq more, Ordered(s, done)
  PROVE  Ordered(s, more)
BY DEF Ordered, Behind

\* The writes of the entries of an outbox, in their order.
LEMMA InOrderOf ==
  ASSUME NEW entries, NEW q, q = InOrder(entries), IsFiniteSet(entries),
         \A e \in entries : e.seq \in Nat /\ e.write \in Writes,
         \A e, f \in entries : e.seq = f.seq \/ e.write = f.write => e = f
  PROVE  /\ q \in Seq(Writes) /\ ToSet(q) = {e.write : e \in entries} /\ IsInjective(q)
         /\ \A k \in DOMAIN q : \E e \in entries :
              /\ q[k] = e.write
              /\ \A f \in entries : f.seq < e.seq => \E j \in 1..(k - 1) : q[j] = f.write
<1> DEFINE S == {e.seq : e \in entries}
           at == Sorted(S)
           number == [e \in entries |-> e.seq]
           Of(n) == CHOOSE e \in entries : e.seq = n
<1>1. IsFiniteSet(S) /\ S \subseteq Nat
  <2>1. number \in Surjection(entries, S)
    BY DEF Surjection
  <2> QED
    BY <2>1, FS_Surjection
<1>2. ASSUME NEW n \in S
      PROVE  Of(n) \in entries /\ Of(n).seq = n
  BY <1>2
<1>3. q = [k \in DOMAIN at |-> Of(at[k]).write]
  BY DEF InOrder
<1>4. \A e \in entries : e.seq \in S
  OBVIOUS
<1> HIDE DEF S, at
<1>5. /\ Cardinality(S) \in Nat /\ DOMAIN at = 1..Cardinality(S)
      /\ \A k \in DOMAIN at : at[k] \in S /\ at[k] \in Nat
      /\ \A n \in S : \E k \in DOMAIN at : at[k] = n
      /\ \A j, k \in DOMAIN at : j < k <=> at[j] < at[k]
  BY <1>1, SortedOrder DEF at
<1>6. ASSUME NEW k \in DOMAIN at
      PROVE  /\ Of(at[k]) \in entries /\ Of(at[k]).seq = at[k]
             /\ q[k] = Of(at[k]).write /\ q[k] \in Writes
  BY <1>2, <1>3, <1>5
<1>7. \A e \in entries : \E k \in DOMAIN at : e = Of(at[k]) /\ q[k] = e.write
  <2> SUFFICES ASSUME NEW e \in entries
               PROVE  \E k \in DOMAIN at : e = Of(at[k]) /\ q[k] = e.write
    OBVIOUS
  <2>1. PICK k \in DOMAIN at : at[k] = e.seq
    BY <1>4, <1>5
  <2>2. Of(at[k]) = e
    BY <1>6, <2>1
  <2> QED
    BY <1>6, <2>1, <2>2
<1>8. DOMAIN q = DOMAIN at
  BY <1>3
<1> HIDE DEF Of
<1>9. q \in Seq(Writes)
  <2>1. q \in [1..Cardinality(S) -> Writes]
    BY <1>3, <1>5, <1>6
  <2> QED
    BY <1>5, <2>1
<1>10. ToSet(q) = {e.write : e \in entries}
  <2>1. ToSet(q) \subseteq {e.write : e \in entries}
    BY <1>6, <1>8 DEF ToSet
  <2>2. {e.write : e \in entries} \subseteq ToSet(q)
    BY <1>7, <1>8 DEF ToSet
  <2> QED
    BY <2>1, <2>2
<1>11. IsInjective(q)
  <2> SUFFICES ASSUME NEW j \in DOMAIN at, NEW k \in DOMAIN at, q[j] = q[k]
               PROVE  j = k
    BY <1>8 DEF IsInjective
  <2>1. at[j] = at[k]
    BY <1>6
  <2> QED
    BY <1>5, <2>1
<1>12. ASSUME NEW k \in DOMAIN q
       PROVE  \E e \in entries :
                /\ q[k] = e.write
                /\ \A f \in entries : f.seq < e.seq => \E j \in 1..(k - 1) : q[j] = f.write
  <2> DEFINE e == Of(at[k])
  <2>1. e \in entries /\ e.seq = at[k] /\ q[k] = e.write
    BY <1>6, <1>8
  <2>2. ASSUME NEW f \in entries, f.seq < e.seq
        PROVE  \E j \in 1..(k - 1) : q[j] = f.write
    <3>1. PICK j \in DOMAIN at : f = Of(at[j]) /\ q[j] = f.write
      BY <1>7
    <3>2. f.seq = at[j]
      BY <1>6, <3>1
    <3>3. j < k
      BY <1>5, <1>8, <2>1, <2>2, <3>2
    <3>4. j \in 1..(k - 1)
      BY <1>5, <1>8, <3>3
    <3> QED
      BY <3>1, <3>4
  <2> QED
    BY <2>1, <2>2
<1> QED
  BY <1>9, <1>10, <1>11, <1>12

----------------------------------------------------------------------------
(* The invariant of requests, queue, cache and disk.                       *)

KnownWrites == 1..issued
WritesOf(state) == {e.write : e \in state.outbox}

\* A state the cache may take: entries and writes are one to one, and an entry
\* comes after those its write is behind, unless the server has them.
StateSound(state) ==
  /\ state.seq \in 0..issued /\ state.merged \subseteq KnownWrites
  /\ IsFiniteSet(state.outbox)
  /\ \A e \in state.outbox : e.write \in KnownWrites /\ e.seq \in 1..state.seq
  /\ \A e, f \in state.outbox : e.seq = f.seq \/ e.write = f.write => e = f
  /\ \A e \in state.outbox :
       Behind(e.write, ToSet(landed), {f.write : f \in {g \in state.outbox : g.seq < e.seq}})

Requests == [batch: Seq(Writes), from: Nat \ {0}, replayed: BOOLEAN, cut: Nat, ran: BOOLEAN]

TypeInv ==
  /\ play \in Plays
  /\ issued \in 0..play.writes /\ session \in 1..play.sessions /\ faults \in 0..play.faults
  /\ phase \in {"loading", "restored", "running"}
  /\ {timer, retry, fresh, aborted, current} \subseteq BOOLEAN
  /\ {queue, batch, recovered, landed} \subseteq Seq(Writes)
  /\ wire \subseteq Requests
  /\ UNION {twice, dropped, cutOff, replaced} \subseteq Writes
  /\ UNION {ToSet(queue), ToSet(recovered), ToSet(landed)} \subseteq KnownWrites
  /\ \A r \in wire : r.from <= session /\ r.batch # <<>> /\ ToSet(r.batch) \subseteq KnownWrites
  /\ after \in [Writes -> SUBSET KnownWrites]

StatesInv ==
  /\ StateSound(Snapshot) /\ \A state \in disk : StateSound(state)
  /\ \A i \in DOMAIN saves : StateSound(saves[i].state)

\* What is awaited is one batch of the queue and writes that are nowhere else.
WireInv ==
  /\ \A r \in wire : r.ran => ToSet(r.batch) \subseteq ToSet(landed)
  /\ \A r \in wire : Awaited(r) /\ r.replayed => r.batch = batch
  /\ \A r \in wire : Awaited(r) /\ ~r.replayed =>
       /\ Len(r.batch) = 1
       /\ ToSet(r.batch) \cap (ToSet(queue) \cup ToSet(recovered)) = {}
       /\ \A x \in Writes : ToSet(r.batch) \cap after[x] = {}
  /\ \A r, q \in wire : Awaited(r) /\ Awaited(q) /\ r # q => ToSet(r.batch) \cap ToSet(q.batch) = {}
  /\ ToSet(batch) \subseteq ToSet(queue) \cap InFlight

\* Somebody works for every entry.
QueueInv ==
  /\ IsInjective(queue) /\ IsInjective(recovered)
  /\ \A w \in ToSet(queue) : play.kind[w] = "action" => w \in ToSet(recovered)
  /\ queue # <<>> => retry \/ batch # <<>> \/ aborted
  /\ ToSet(queue) \cup InFlight \subseteq OutboxWrites \cup replaced
  /\ OutboxWrites \subseteq
       ToSet(queue) \cup InFlight \cup (IF phase = "restored" THEN ToSet(recovered) ELSE {})
  /\ phase = "loading" =>
       /\ replaced = {} /\ recovered = <<>>
       /\ \A state \in disk : WritesOf(state) \cap (ToSet(queue) \cup InFlight) = {}
  /\ phase = "restored" =>
       /\ ToSet(recovered) \subseteq OutboxWrites
       /\ ToSet(recovered) \cap (ToSet(queue) \cup InFlight) = {}

\* What the timer does not have to save is being saved, or stored.
DiskInv ==
  (phase # "loading" \/ disk = {}) /\ ~timer /\ current =>
    IF saves = <<>> THEN disk = {Snapshot} \/ (disk = {} /\ outbox = {} /\ merged = {})
    ELSE saves[Len(saves)].state = Snapshot

\* What may still be sent has not been, unless it is excused.
Sent(w) == w \in ToSet(landed) \/ \E r \in wire : w \in ToSet(r.batch)
Excused(ws) == \A w \in ws : Sent(w) => w \in cutOff

OnceInv ==
  /\ \A r \in wire : ~r.ran => ToSet(r.batch) \cap ToSet(landed) \subseteq cutOff
  /\ \A r, q \in wire : r # q => ToSet(r.batch) \cap ToSet(q.batch) \subseteq cutOff
  /\ Excused(ToSet(queue) \ ToSet(batch))
  /\ phase = "restored" => Excused(ToSet(recovered))
  /\ phase = "loading" => \A state \in disk : Excused(WritesOf(state))
  /\ twice \subseteq cutOff

\* Queue, requests and server have the writes in their order.
OrderInv ==
  /\ Ordered(queue, ToSet(landed)) /\ Ordered(recovered, ToSet(landed))
  /\ \A r \in wire : Ordered(r.batch, ToSet(landed))
  /\ Ordered(landed, {})
  /\ phase = "running" => ToSet(recovered) \subseteq ToSet(landed) \cup ToSet(queue)
  /\ phase # "loading" => ToSet(recovered) \subseteq ToSet(landed) \cup OutboxWrites

SessionInv ==
  TypeInv /\ StatesInv /\ WireInv /\ QueueInv /\ DiskInv /\ OnceInv /\ OrderInv

----------------------------------------------------------------------------
(* At the start.                                                           *)

LEMMA EmptyList ==
  /\ \A T : <<>> \in Seq(T)
  /\ ToSet(<<>>) = {} /\ IsInjective(<<>>) /\ \A done : Ordered(<<>>, done)
BY DEF ToSet, IsInjective, Ordered

LEMMA PlaySound ==
  ASSUME play \in Plays
  PROVE  /\ play.kind \in [Writes -> Kinds] /\ play.writes \in 0..N /\ play.sessions \in Nat \ {0}
         /\ play.faults \in Nat /\ N \in Nat
BY DurableAssumption

LEMMA StartsSound == Init => SessionInv
<1> SUFFICES ASSUME Init PROVE SessionInv
  OBVIOUS
<1>1. play \in Plays /\ play.writes \in Nat /\ play.sessions \in Nat \ {0} /\ play.faults \in Nat
  BY PlaySound DEF Init
<1>2. TypeInv
  <2>1. {queue, batch, recovered, landed} \subseteq Seq(Writes)
    BY EmptyList DEF Init
  <2>2. UNION {ToSet(queue), ToSet(recovered), ToSet(landed)} = {}
    BY EmptyList DEF Init
  <2>3. after \in [Writes -> SUBSET KnownWrites]
    BY DEF Init
  <2>4. wire = {} /\ UNION {twice, dropped, cutOff, replaced} = {}
    BY DEF Init
  <2>5. issued \in 0..play.writes /\ session \in 1..play.sessions /\ faults \in 0..play.faults
    BY <1>1 DEF Init
  <2>6. {timer, retry, fresh, aborted, current} \subseteq BOOLEAN
    BY DEF Init
  <2> QED
    BY <1>1, <2>1, <2>2, <2>3, <2>4, <2>5, <2>6 DEF Init, TypeInv
<1>3. StatesInv
  BY FS_EmptySet DEF Init, StatesInv, StateSound, Snapshot, KnownWrites
<1>4. WireInv
  BY EmptyList DEF Init, WireInv
<1>5. QueueInv
  <2>1. InFlight = {}
    BY DEF Init, InFlight
  <2> QED
    BY <2>1, EmptyList DEF Init, QueueInv, OutboxWrites
<1>6. DiskInv
  BY DEF Init, DiskInv
<1>7. OnceInv
  BY EmptyList DEF Init, OnceInv, Excused
<1>8. OrderInv
  BY EmptyList DEF Init, OrderInv
<1> QED
  BY <1>2, <1>3, <1>4, <1>5, <1>6, <1>7, <1>8 DEF SessionInv

----------------------------------------------------------------------------
(* What holds on whatever else happens.                                    *)

\* The part of the state the requests and what the server has of it are about.
issuing == <<play, issued, after>>

LEMMA Flying ==
  \A w : w \in InFlight <=> \E r \in wire : Awaited(r) /\ w \in ToSet(r.batch)
BY DEF InFlight

LEMMA SoundStays ==
  ASSUME NEW state, StateSound(state), TypeInv, play' = play, landed' = landed,
         issued' \in Nat, issued <= issued', \A x \in KnownWrites : after'[x] = after[x]
  PROVE  StateSound(state)'
<1>1. issued \in Nat /\ issued' \in Nat
  BY PlaySound DEF TypeInv
<1>2. KnownWrites \subseteq KnownWrites' /\ 0..issued \subseteq 0..issued'
  BY <1>1 DEF KnownWrites
<1>3. \A done, before : \A x \in KnownWrites :
        Behind(x, done, before) => Behind(x, done, before)'
  BY DEF Behind
<1> QED
  BY <1>1, <1>2, <1>3 DEF StateSound

LEMMA SoundLands ==
  ASSUME NEW state, StateSound(state), UNCHANGED issuing, ToSet(landed) \subseteq ToSet(landed')
  PROVE  StateSound(state)'
BY DEF StateSound, issuing, Behind, KnownWrites

----------------------------------------------------------------------------
(* Saving.                                                                 *)

LEMMA PipelineStays ==
  ASSUME SessionInv, UNCHANGED <<issuing, session, phase, outbox, recovered, replay, wire, server,
                                 replaced, cutOff, aborted>>,
         phase # "loading" \/ disk' = disk
  PROVE  WireInv' /\ QueueInv' /\ OnceInv' /\ OrderInv'
<1> USE DEF issuing, replay, server
<1>1. InFlight' = InFlight /\ \A r : Awaited(r)' <=> Awaited(r)
  BY DEF InFlight, Awaited
<1>2. WireInv'
  BY <1>1 DEF SessionInv, WireInv
<1>3. QueueInv'
  BY <1>1 DEF SessionInv, QueueInv, OutboxWrites
<1>4. OnceInv'
  BY DEF SessionInv, OnceInv, Excused, Sent
<1>5. OrderInv'
  BY DEF SessionInv, OrderInv, Ordered, Behind, OutboxWrites
<1> QED
  BY <1>2, <1>3, <1>4, <1>5

LEMMA SoundPersistFires == KeptInv /\ SessionInv /\ PersistFires => SessionInv'
<1> SUFFICES ASSUME KeptInv, SessionInv, PersistFires PROVE SessionInv'
  OBVIOUS
<1>1. /\ saves' = Append(saves, [state |-> Snapshot, whole |-> Whole]) /\ timer' = FALSE
      /\ current' = (current \/ phase # "loading" \/ disk = {})
      /\ UNCHANGED <<issuing, session, phase, outbox, seq, merged, recovered, replay, disk, wire,
                     server, faults, dropped, cutOff, replaced, fresh, aborted>>
  BY DEF PersistFires, issuing
<1>2. IsList(saves)
  BY DEF KeptInv, Kept
<1>3. /\ DOMAIN saves = 1..Len(saves) /\ Len(saves) \in Nat
      /\ DOMAIN saves' = 1..(Len(saves) + 1)
      /\ \A i \in DOMAIN saves : saves'[i] = saves[i]
      /\ saves'[Len(saves) + 1] = [state |-> Snapshot, whole |-> Whole]
      /\ IsList(saves')
  BY <1>1, <1>2, ListAppend
<1>4. saves' # <<>> /\ saves'[Len(saves')].state = Snapshot
  <2>1. Len(saves') = Len(saves) + 1
    BY <1>3 DEF IsList
  <2> QED
    BY <1>3, <2>1
<1>5. Snapshot' = Snapshot
  BY <1>1 DEF Snapshot
<1>6. TypeInv'
  BY <1>1 DEF SessionInv, TypeInv, issuing, KnownWrites, replay, server
<1>7. StatesInv'
  <2>1. \A state : StateSound(state) => StateSound(state)'
    BY <1>1, SoundLands DEF server
  <2>2. ASSUME NEW i \in DOMAIN saves' PROVE StateSound(saves'[i].state)
    BY <1>3 DEF SessionInv, StatesInv
  <2> QED
    BY <1>1, <1>5, <2>1, <2>2 DEF SessionInv, StatesInv
<1>8. DiskInv'
  BY <1>4, <1>5 DEF DiskInv
<1>9. WireInv' /\ QueueInv' /\ OnceInv' /\ OrderInv'
  BY <1>1, PipelineStays
<1> QED
  BY <1>6, <1>7, <1>8, <1>9 DEF SessionInv

\* The oldest save ends: what was being saved last still is.
LEMMA SavesShorten ==
  ASSUME KeptInv, SessionInv, saves # <<>>, saves' = Tail(saves)
  PROVE  /\ Head(saves) = saves[1] /\ 1 \in DOMAIN saves
         /\ \A i \in DOMAIN saves' : i + 1 \in DOMAIN saves /\ saves'[i] = saves[i + 1]
         /\ saves' = <<>> => Len(saves) = 1
         /\ saves' # <<>> => saves'[Len(saves')] = saves[Len(saves)] /\ Len(saves) > 1
<1>1. IsList(saves)
  BY DEF KeptInv, Kept
<1> DEFINE T == ToSet(saves)
<1>2. saves \in Seq(T)
  BY <1>1 DEF IsList
<1> HIDE DEF T
<1>3. /\ saves' \in Seq(T) /\ Len(saves) \in Nat /\ Len(saves) >= 1 /\ Len(saves') = Len(saves) - 1
      /\ \A i \in 1..(Len(saves) - 1) : saves'[i] = saves[i + 1]
      /\ DOMAIN saves = 1..Len(saves) /\ DOMAIN saves' = 1..(Len(saves) - 1)
      /\ Head(saves) = saves[1]
  BY <1>2
<1>4. saves' = <<>> <=> Len(saves') = 0
  BY <1>3
<1> QED
  BY <1>3, <1>4

LEMMA SoundSaveEnds ==
  ASSUME KeptInv, SessionInv, saves # <<>>, phase # "loading", saves' = Tail(saves),
         UNCHANGED <<issuing, session, phase, memory, recovered, replay, wire, server, dropped,
                     cutOff, replaced, fresh, aborted>>,
         faults' \in 0..play.faults, current' \in BOOLEAN,
         \/ disk' = disk /\ current' = (current /\ Len(saves) > 1)
         \/ disk' = {Head(saves).state} /\ current' = current
  PROVE  SessionInv'
<1>1. /\ Head(saves) = saves[1] /\ 1 \in DOMAIN saves
      /\ \A i \in DOMAIN saves' : i + 1 \in DOMAIN saves /\ saves'[i] = saves[i + 1]
      /\ saves' = <<>> => Len(saves) = 1
      /\ saves' # <<>> => saves'[Len(saves')] = saves[Len(saves)] /\ Len(saves) > 1
  BY SavesShorten
<1>2. Snapshot' = Snapshot
  BY DEF Snapshot, memory
<1>3. TypeInv'
  BY DEF SessionInv, TypeInv, issuing, KnownWrites, memory, replay, server
<1>4. StatesInv'
  <2>1. \A state : StateSound(state) => StateSound(state)'
    BY SoundLands DEF server
  <2>2. \A i \in DOMAIN saves' : StateSound(saves'[i].state)
    BY <1>1 DEF SessionInv, StatesInv
  <2>3. \A state \in disk' : StateSound(state)
    BY <1>1 DEF SessionInv, StatesInv
  <2> QED
    BY <1>2, <2>1, <2>2, <2>3 DEF SessionInv, StatesInv
<1>5. DiskInv'
  <2> SUFFICES ASSUME ~timer, current'
               PROVE  IF saves' = <<>> THEN disk' = {Snapshot}
                      ELSE saves'[Len(saves')].state = Snapshot
    BY <1>2 DEF DiskInv, memory
  <2>1. saves[Len(saves)].state = Snapshot
    BY DEF SessionInv, DiskInv
  <2>2. saves' = <<>> => disk' = {Head(saves).state}
    <3>1. saves' = <<>> => ~(Len(saves) > 1)
      BY <1>1
    <3> QED
      BY <3>1, Zenon
  <2> QED
    BY <1>1, <2>1, <2>2
<1>6. WireInv' /\ QueueInv' /\ OnceInv' /\ OrderInv'
  BY PipelineStays DEF memory
<1> QED
  BY <1>3, <1>4, <1>5, <1>6 DEF SessionInv

LEMMA SoundSaveLands == KeptInv /\ SessionInv /\ SaveLands => SessionInv'
BY SoundSaveEnds DEF SaveLands, ghosts, issuing, SessionInv, TypeInv

LEMMA SoundSaveFails == KeptInv /\ SessionInv /\ SaveFails => SessionInv'
<1> SUFFICES ASSUME KeptInv, SessionInv, SaveFails PROVE SessionInv'
  OBVIOUS
<1>1. faults' \in 0..play.faults /\ current' \in BOOLEAN
  BY PlaySound DEF SaveFails, SessionInv, TypeInv
<1> QED
  BY <1>1, SoundSaveEnds DEF SaveFails, issuing

----------------------------------------------------------------------------
(* Sending the queue.                                                      *)

LEMMA RequestMade ==
  ASSUME TypeInv, NEW q \in Seq(Writes), NEW replayed \in BOOLEAN, NEW r, r = Request(q, replayed)
  PROVE  /\ r \in Requests /\ r.batch = q /\ r.from = session /\ r.replayed = replayed
         /\ r.cut = 0 /\ r.ran = FALSE
<1>1. session \in Nat \ {0}
  BY PlaySound DEF TypeInv
<1> QED
  BY <1>1 DEF Request, Requests

\* The queue is sent, and what is left on the wire has nothing of it.
LEMMA BatchSent ==
  ASSUME SessionInv, NEW q \in Seq(Writes), ToSet(q) \subseteq KnownWrites,
         NEW left \in SUBSET wire, NextBatch(q, left),
         UNCHANGED <<issuing, session, recovered, landed>>,
         \A r \in left : Awaited(r) => ~r.replayed /\ ToSet(r.batch) \cap ToSet(q) = {}
  PROVE  /\ WireInv' /\ wire' \subseteq Requests
         /\ \A r \in wire' :
              r.from <= session /\ r.batch # <<>> /\ ToSet(r.batch) \subseteq KnownWrites
         /\ \A w : w \in InFlight' <=>
                     w \in ToSet(q) \/ \E r \in left : Awaited(r) /\ w \in ToSet(r.batch)
         /\ queue' = q /\ batch' = q
<1> DEFINE new == Request(q, TRUE)
<1>1. /\ new \in Requests /\ new.batch = q /\ new.from = session /\ new.replayed = TRUE
      /\ new.cut = 0 /\ new.ran = FALSE
  BY RequestMade DEF SessionInv
<1>2. /\ wire' = left \cup (IF q = <<>> THEN {} ELSE {new}) /\ queue' = q /\ batch' = q
  BY DEF NextBatch
<1>3. \A r : Awaited(r)' <=> Awaited(r)
  BY DEF Awaited
<1>4. Awaited(new)
  BY <1>1 DEF Awaited
<1> HIDE DEF new
<1>5. q = <<>> => ToSet(q) = {}
  BY EmptyList
<1>6. \A w : w \in InFlight' <=>
              w \in ToSet(q) \/ \E r \in left : Awaited(r) /\ w \in ToSet(r.batch)
  <2>1. \A w : w \in InFlight' <=> \E r \in wire' : Awaited(r) /\ w \in ToSet(r.batch)
    BY <1>3 DEF InFlight
  <2> QED
    BY <1>1, <1>2, <1>4, <1>5, <2>1
<1>7. /\ wire' \subseteq Requests
      /\ \A r \in wire' :
           r.from <= session /\ r.batch # <<>> /\ ToSet(r.batch) \subseteq KnownWrites
  <2>1. session \in Nat
    BY PlaySound DEF SessionInv, TypeInv
  <2> QED
    BY <1>1, <1>2, <2>1 DEF SessionInv, TypeInv
<1>8. WireInv'
  <2>1. \A r \in wire' : r.ran => ToSet(r.batch) \subseteq ToSet(landed)
    BY <1>1, <1>2 DEF SessionInv, WireInv
  <2>2. \A r \in wire' : Awaited(r) /\ r.replayed => r.batch = q
    BY <1>1, <1>2
  <2>3. \A r \in wire' : Awaited(r) /\ ~r.replayed =>
          /\ Len(r.batch) = 1
          /\ ToSet(r.batch) \cap (ToSet(q) \cup ToSet(recovered)) = {}
          /\ \A x \in Writes : ToSet(r.batch) \cap after[x] = {}
    BY <1>1, <1>2 DEF SessionInv, WireInv
  <2>4. \A r, p \in wire' : Awaited(r) /\ Awaited(p) /\ r # p =>
          ToSet(r.batch) \cap ToSet(p.batch) = {}
    BY <1>1, <1>2 DEF SessionInv, WireInv
  <2>5. ToSet(q) \subseteq InFlight'
    BY <1>6
  <2> QED
    BY <1>2, <1>3, <2>1, <2>2, <2>3, <2>4, <2>5 DEF WireInv, issuing
<1> QED
  BY <1>2, <1>6, <1>7, <1>8

\* It is sent only once, if what of it has been sent before is excused.
LEMMA BatchSentOnce ==
  ASSUME SessionInv, NEW q \in Seq(Writes), NEW left \in SUBSET wire, NextBatch(q, left),
         landed' = landed, cutOff \subseteq cutOff',
         \A w \in ToSet(q) :
           w \in ToSet(landed) \/ (\E r \in left : w \in ToSet(r.batch)) => w \in cutOff'
  PROVE  /\ \A r \in wire' : ~r.ran => ToSet(r.batch) \cap ToSet(landed) \subseteq cutOff'
         /\ \A r, p \in wire' : r # p => ToSet(r.batch) \cap ToSet(p.batch) \subseteq cutOff'
<1> DEFINE new == Request(q, TRUE)
<1>1. new.batch = q
  BY RequestMade DEF SessionInv
<1>2. wire' = left \cup (IF q = <<>> THEN {} ELSE {new})
  BY DEF NextBatch
<1> HIDE DEF new
<1>3. /\ \A r \in left : ~r.ran => ToSet(r.batch) \cap ToSet(landed) \subseteq cutOff'
      /\ \A r, p \in left : r # p => ToSet(r.batch) \cap ToSet(p.batch) \subseteq cutOff'
  BY DEF SessionInv, OnceInv
<1>4. \A r \in wire' : ~r.ran => ToSet(r.batch) \cap ToSet(landed) \subseteq cutOff'
  BY <1>1, <1>2, <1>3
<1>5. \A r \in left : ToSet(r.batch) \cap ToSet(q) \subseteq cutOff'
  OBVIOUS
<1>6. \A r, p \in wire' : r # p => ToSet(r.batch) \cap ToSet(p.batch) \subseteq cutOff'
  BY <1>1, <1>2, <1>3, <1>5
<1> QED
  BY <1>4, <1>6

\* A flush begins.
LEMMA SoundFlush ==
  ASSUME KeptInv, SessionInv, Flush, retry' \in BOOLEAN,
         retry' \/ queue = <<>> \/ batch # <<>> \/ batch' = queue \/ aborted,
         UNCHANGED <<issuing, session, phase, memory, recovered, storage, server, faults, ghosts>>
  PROVE  SessionInv'
<1>1. Snapshot' = Snapshot
  BY DEF Snapshot, memory
<1>2. StatesInv'
  BY <1>1, SoundLands DEF SessionInv, StatesInv, storage, server
<1>3. DiskInv'
  BY <1>1 DEF SessionInv, DiskInv, memory, storage, ghosts
<1>4. CASE batch = <<>>
  <2>1. NextBatch(queue, wire)
    BY <1>4 DEF Flush
  <2>2. queue \in Seq(Writes) /\ ToSet(queue) \subseteq KnownWrites
    BY DEF SessionInv, TypeInv
  <2>3. \A r \in wire : Awaited(r) => ~r.replayed /\ ToSet(r.batch) \cap ToSet(queue) = {}
    BY <1>4 DEF SessionInv, TypeInv, WireInv
  <2>4. /\ WireInv' /\ wire' \subseteq Requests
        /\ \A r \in wire' :
             r.from <= session /\ r.batch # <<>> /\ ToSet(r.batch) \subseteq KnownWrites
        /\ \A w : w \in InFlight' <=>
                    w \in ToSet(queue) \/ \E r \in wire : Awaited(r) /\ w \in ToSet(r.batch)
        /\ queue' = queue /\ batch' = queue
    BY <2>1, <2>2, <2>3, BatchSent DEF server
  <2>5. TypeInv'
    BY <2>4 DEF SessionInv, TypeInv, issuing, KnownWrites, memory, storage, server, ghosts
  <2>6. InFlight' = InFlight \cup ToSet(queue)
    BY <2>4, Flying
  <2>7. QueueInv'
    <3>1. phase = "restored" => ToSet(recovered) \cap (ToSet(queue) \cup InFlight') = {}
      BY <2>6 DEF SessionInv, QueueInv
    <3>2. phase = "loading" =>
            \A state \in disk : WritesOf(state) \cap (ToSet(queue) \cup InFlight') = {}
      BY <2>6 DEF SessionInv, QueueInv
    <3>3. OutboxWrites' = OutboxWrites
      BY DEF OutboxWrites, memory
    <3>4. queue # <<>> => retry' \/ batch' # <<>> \/ aborted
      BY <2>4
    <3> QED
      BY <2>4, <2>6, <3>1, <3>2, <3>3, <3>4
         DEF SessionInv, QueueInv, issuing, storage, ghosts
  <2>8. Excused(ToSet(queue))
    <3>1. ToSet(batch) = {}
      BY <1>4, EmptyList
    <3> QED
      BY <3>1 DEF SessionInv, OnceInv
  <2>9. /\ \A r \in wire' : ~r.ran => ToSet(r.batch) \cap ToSet(landed) \subseteq cutOff
        /\ \A r, p \in wire' : r # p => ToSet(r.batch) \cap ToSet(p.batch) \subseteq cutOff
    BY <2>1, <2>2, <2>8, BatchSentOnce DEF Excused, Sent, server, ghosts
  <2>10. \A ws : Excused(ws) /\ ws \cap ToSet(queue) = {} => Excused(ws)'
    <3>1. \A w : Sent(w)' => Sent(w) \/ w \in ToSet(queue)
      <4>1. wire' \subseteq wire \cup {Request(queue, TRUE)}
        BY <2>1 DEF NextBatch
      <4>2. Request(queue, TRUE).batch = queue
        BY <2>2, RequestMade DEF SessionInv
      <4> HIDE DEF Request
      <4> QED
        BY <4>1, <4>2 DEF Sent, server
    <3> QED
      BY <3>1 DEF Excused, ghosts
  <2>11. OnceInv'
    <3>1. Excused(ToSet(queue) \ ToSet(batch))'
      BY <2>4 DEF Excused
    <3>2. phase = "restored" => Excused(ToSet(recovered))'
      BY <2>10 DEF SessionInv, QueueInv, OnceInv
    <3>3. phase = "loading" => \A state \in disk : Excused(WritesOf(state))'
      <4> SUFFICES ASSUME phase = "loading", NEW state \in disk PROVE Excused(WritesOf(state))'
        OBVIOUS
      <4>1. Excused(WritesOf(state)) /\ WritesOf(state) \cap ToSet(queue) = {}
        BY DEF SessionInv, QueueInv, OnceInv
      <4> QED
        BY <2>10, <4>1
    <3> QED
      BY <2>9, <3>1, <3>2, <3>3 DEF SessionInv, OnceInv, storage, server, ghosts
  <2>12. OrderInv'
    <3>1. \A s, done : Ordered(s, done) => Ordered(s, done)'
      BY DEF Ordered, Behind, issuing
    <3>2. \A r \in wire' : Ordered(r.batch, ToSet(landed))
      <4>1. wire' \subseteq wire \cup {Request(queue, TRUE)}
        BY <2>1 DEF NextBatch
      <4>2. Request(queue, TRUE).batch = queue
        BY <2>2, RequestMade DEF SessionInv
      <4> QED
        BY <4>1, <4>2 DEF SessionInv, OrderInv
    <3> QED
      BY <2>4, <3>1, <3>2 DEF SessionInv, OrderInv, memory, server, OutboxWrites
  <2> QED
    BY <1>2, <1>3, <2>4, <2>5, <2>7, <2>11, <2>12 DEF SessionInv
<1>5. CASE batch # <<>>
  <2>1. UNCHANGED <<queue, batch, wire>>
    BY <1>5 DEF Flush
  <2>2. TypeInv'
    BY <2>1 DEF SessionInv, TypeInv, issuing, KnownWrites, memory, storage, server, ghosts
  <2>3. InFlight' = InFlight /\ \A r : Awaited(r)' <=> Awaited(r)
    BY <2>1 DEF InFlight, Awaited
  <2>4. WireInv'
    BY <2>1, <2>3 DEF SessionInv, WireInv, issuing, server
  <2>5. QueueInv'
    BY <1>5, <2>1, <2>3
       DEF SessionInv, QueueInv, OutboxWrites, issuing, memory, storage, ghosts
  <2>6. OnceInv'
    BY <2>1 DEF SessionInv, OnceInv, Excused, Sent, storage, server, ghosts
  <2>7. OrderInv'
    BY <2>1 DEF SessionInv, OrderInv, Ordered, Behind, OutboxWrites, issuing, memory, server
  <2> QED
    BY <1>2, <1>3, <2>2, <2>4, <2>5, <2>6, <2>7 DEF SessionInv
<1> QED
  BY <1>4, <1>5

LEMMA SoundRetryFires == KeptInv /\ SessionInv /\ RetryFires => SessionInv'
<1> SUFFICES ASSUME KeptInv, SessionInv, RetryFires PROVE SessionInv'
  OBVIOUS
<1>1. batch # <<>> \/ batch' = queue
  BY DEF RetryFires, Flush, NextBatch
<1> QED
  BY <1>1, SoundFlush DEF RetryFires, issuing, ghosts

LEMMA SoundFlushWrites == KeptInv /\ SessionInv /\ FlushWrites => SessionInv'
<1> SUFFICES ASSUME KeptInv, SessionInv, FlushWrites PROVE SessionInv'
  OBVIOUS
<1>1. batch' = queue
  BY DEF FlushWrites, Flush, NextBatch
<1>2. retry' \in BOOLEAN
  BY DEF FlushWrites, SessionInv, TypeInv
<1> QED
  BY <1>1, <1>2, SoundFlush DEF FlushWrites, issuing, ghosts

----------------------------------------------------------------------------
(* A request is answered or fails.                                         *)

LEMMA KnownAreWrites == TypeInv => KnownWrites \subseteq Writes /\ issued \in Nat
BY PlaySound DEF TypeInv, KnownWrites, Writes

\* The cache lets go of writes.
LEMMA SnapshotShrinks ==
  ASSUME SessionInv, NEW gone, gone \subseteq KnownWrites,
         outbox' = Without(outbox, gone), merged' \subseteq merged \cup gone,
         \A e \in outbox : play.kind[e.write] # "action" =>
           after[e.write] \cap gone \subseteq ToSet(landed),
         UNCHANGED <<issuing, seq, landed>>
  PROVE  StateSound(Snapshot)' /\ OutboxWrites' = OutboxWrites \ gone
<1>1. outbox' \subseteq outbox /\ \A e \in outbox : e \in outbox' <=> e.write \notin gone
  BY DEF Without
<1>2. OutboxWrites' = OutboxWrites \ gone
  BY <1>1 DEF OutboxWrites
<1>3. /\ seq \in 0..issued /\ merged \subseteq KnownWrites
      /\ IsFiniteSet(outbox)
      /\ \A e \in outbox : e.write \in KnownWrites /\ e.seq \in 1..seq
      /\ \A e, f \in outbox : e.seq = f.seq \/ e.write = f.write => e = f
      /\ \A e \in outbox :
           Behind(e.write, ToSet(landed), {f.write : f \in {g \in outbox : g.seq < e.seq}})
  BY DEF SessionInv, StatesInv, StateSound, Snapshot
<1>4. IsFiniteSet(outbox')
  BY <1>1, <1>3, FS_Subset
<1>5. ASSUME NEW e \in outbox'
      PROVE  Behind(e.write, ToSet(landed), {f.write : f \in {g \in outbox' : g.seq < e.seq}})
  <2> SUFFICES ASSUME play.kind[e.write] # "action",
        NEW w \in after[e.write], w \notin ToSet(landed)
               PROVE  \E f \in outbox' : f.seq < e.seq /\ f.write = w
    BY DEF Behind
  <2>1. PICK f \in outbox : f.seq < e.seq /\ f.write = w
    BY <1>1, <1>3 DEF Behind
  <2>2. w \notin gone
    BY <1>1
  <2> QED
    BY <1>1, <2>1, <2>2
<1>6. \A x, done, before : Behind(x, done, before) => Behind(x, done, before)'
  BY DEF Behind, issuing
<1>7. /\ Snapshot'.seq = seq /\ Snapshot'.merged = merged' /\ Snapshot'.outbox = outbox'
  BY DEF Snapshot
<1>8. StateSound(Snapshot)'
  BY <1>1, <1>3, <1>4, <1>5, <1>6, <1>7 DEF StateSound, KnownWrites, issuing
<1> QED
  BY <1>2, <1>8

\* What is left of the request is awaited no longer.
LEMMA RequestEnds ==
  ASSUME TypeInv, NEW r \in wire, wire' \in {wire \ {r}, Abandoned(r)}, session' = session
  PROVE  /\ wire' \subseteq Requests
         /\ \A q \in wire' :
              q.from <= session /\ q.batch # <<>> /\ ToSet(q.batch) \subseteq KnownWrites
         /\ \A q \in wire' : Awaited(q)' <=> Awaited(q)
         /\ \A q \in wire' : \/ q \in wire /\ q # r
                             \/ q.batch = r.batch /\ ~r.ran /\ ~q.ran /\ ~Awaited(q)
         /\ \A q \in wire : q # r => q \in wire'
         /\ \A w : w \in InFlight' <=> \E q \in wire : q # r /\ Awaited(q) /\ w \in ToSet(q.batch)
<1> DEFINE cut == [r EXCEPT !.cut = faults + 1]
<1>1. r \in Requests /\ faults \in Nat
  BY PlaySound DEF TypeInv
<1>2. /\ cut \in Requests /\ cut.batch = r.batch /\ cut.from = r.from /\ cut.ran = r.ran
      /\ cut.cut # 0
  BY <1>1 DEF Requests
<1> HIDE DEF cut
<1>3. wire' \subseteq (wire \ {r}) \cup {cut} /\ (cut \in wire' => cut \in wire \ {r} \/ ~r.ran)
  BY DEF Abandoned, cut
<1>4. \A q : Awaited(q)' <=> Awaited(q)
  BY DEF Awaited
<1>5. ~Awaited(cut)
  BY <1>2 DEF Awaited
<1>6. \A q \in wire : q # r => q \in wire'
  BY DEF Abandoned
<1>7. \A q \in wire' : \/ q \in wire /\ q # r
                       \/ q.batch = r.batch /\ ~r.ran /\ ~q.ran /\ ~Awaited(q)
  BY <1>2, <1>3, <1>5
<1>8. \A w : w \in InFlight' <=> \E q \in wire : q # r /\ Awaited(q) /\ w \in ToSet(q.batch)
  <2>1. \A w : w \in InFlight' <=> \E q \in wire' : Awaited(q) /\ w \in ToSet(q.batch)
    BY <1>4 DEF InFlight
  <2> QED
    BY <1>6, <1>7, <2>1
<1>9. /\ wire' \subseteq Requests
      /\ \A q \in wire' :
           q.from <= session /\ q.batch # <<>> /\ ToSet(q.batch) \subseteq KnownWrites
  BY <1>2, <1>3 DEF TypeInv
<1> QED
  BY <1>4, <1>6, <1>7, <1>8, <1>9

\* Of the requests awaited, the batch's is the only one of the replay.
LEMMA OneBatch ==
  ASSUME SessionInv, NEW r \in wire, Awaited(r), r.replayed
  PROVE  /\ r.batch = batch /\ ToSet(batch) \subseteq ToSet(queue) /\ batch # <<>>
         /\ \A q \in wire : Awaited(q) /\ q # r =>
              ~q.replayed /\ ToSet(q.batch) \cap ToSet(queue) = {}
<1>1. r.batch = batch /\ ToSet(batch) \subseteq ToSet(queue) /\ r.batch # <<>> /\
        r.batch \in Seq(Writes)
  BY DEF SessionInv, WireInv, TypeInv, Requests
<1>2. ToSet(r.batch) # {}
  BY <1>1, SeqFacts
<1>3. \A q \in wire : Awaited(q) /\ q # r => ToSet(q.batch) \cap ToSet(r.batch) = {}
  BY DEF SessionInv, WireInv
<1>4. \A q \in wire : Awaited(q) /\ q.replayed => q.batch = r.batch
  BY <1>1 DEF SessionInv, WireInv
<1>5. \A q \in wire : Awaited(q) /\ q # r => ~q.replayed
  BY <1>2, <1>3, <1>4
<1>6. \A q \in wire : Awaited(q) /\ ~q.replayed => ToSet(q.batch) \cap ToSet(queue) = {}
  BY DEF SessionInv, WireInv
<1> QED
  BY <1>1, <1>5, <1>6

\* The wire after a request has ended.
LEMMA WireEnds ==
  ASSUME SessionInv, NEW r \in wire, wire' \in {wire \ {r}, Abandoned(r)},
         UNCHANGED <<issuing, session, recovered, landed>>,
         ToSet(queue') \subseteq ToSet(queue) \cup ToSet(r.batch),
         \/ batch' = <<>> /\ \A q \in wire : Awaited(q) /\ q # r => ~q.replayed
         \/ batch' = batch /\ ~r.replayed /\ ToSet(queue) \subseteq ToSet(queue'),
         Awaited(r)
  PROVE  WireInv'
<1>1. /\ \A q \in wire' : Awaited(q)' <=> Awaited(q)
      /\ \A q \in wire' : \/ q \in wire /\ q # r
                          \/ q.batch = r.batch /\ ~r.ran /\ ~q.ran /\ ~Awaited(q)
      /\ \A w : w \in InFlight' <=> \E q \in wire : q # r /\ Awaited(q) /\ w \in ToSet(q.batch)
  BY RequestEnds DEF SessionInv
<1>2. \A q \in wire : Awaited(q) /\ q # r => ToSet(q.batch) \cap ToSet(r.batch) = {}
  BY DEF SessionInv, WireInv
<1>3. \A q \in wire' : q.ran => ToSet(q.batch) \subseteq ToSet(landed)
  BY <1>1 DEF SessionInv, WireInv
<1>4. \A q \in wire' : Awaited(q) /\ q.replayed => q.batch = batch'
  BY <1>1 DEF SessionInv, WireInv
<1>5. \A q \in wire' : Awaited(q) /\ ~q.replayed =>
        /\ Len(q.batch) = 1
        /\ ToSet(q.batch) \cap (ToSet(queue') \cup ToSet(recovered)) = {}
        /\ \A x \in Writes : ToSet(q.batch) \cap after[x] = {}
  <2> SUFFICES ASSUME NEW q \in wire', Awaited(q), ~q.replayed
               PROVE  /\ Len(q.batch) = 1
                      /\ ToSet(q.batch) \cap (ToSet(queue') \cup ToSet(recovered)) = {}
                      /\ \A x \in Writes : ToSet(q.batch) \cap after[x] = {}
    OBVIOUS
  <2>1. q \in wire /\ q # r
    BY <1>1
  <2>2. /\ Len(q.batch) = 1
        /\ ToSet(q.batch) \cap (ToSet(queue) \cup ToSet(recovered)) = {}
        /\ \A x \in Writes : ToSet(q.batch) \cap after[x] = {}
    BY <2>1 DEF SessionInv, WireInv
  <2>3. ToSet(q.batch) \cap ToSet(r.batch) = {}
    BY <1>2, <2>1
  <2> QED
    BY <2>2, <2>3
<1>6. \A q, p \in wire' : Awaited(q) /\ Awaited(p) /\ q # p =>
        ToSet(q.batch) \cap ToSet(p.batch) = {}
  BY <1>1 DEF SessionInv, WireInv
<1>7. ToSet(batch') \subseteq ToSet(queue') \cap InFlight'
  <2>1. CASE batch' = <<>>
    BY <2>1, EmptyList
  <2>2. CASE batch' = batch /\ ~r.replayed /\ ToSet(queue) \subseteq ToSet(queue')
    <3>1. ToSet(batch) \subseteq ToSet(queue) /\ ToSet(batch) \subseteq InFlight
      BY DEF SessionInv, WireInv
    <3>2. ToSet(r.batch) \cap ToSet(queue) = {}
      BY <2>2 DEF SessionInv, WireInv
    <3>3. ToSet(batch) \subseteq InFlight'
      BY <1>1, <3>1, <3>2, Flying
    <3> QED
      BY <2>2, <3>1, <3>3
  <2> QED
    BY <2>1, <2>2
<1> QED
  BY <1>1, <1>3, <1>4, <1>5, <1>6, <1>7 DEF WireInv, issuing

LEMMA OnceEnds ==
  ASSUME SessionInv, NEW r \in wire, wire' \in {wire \ {r}, Abandoned(r)}, session' = session,
         landed' = landed, cutOff \subseteq cutOff',
         wire' = wire \ {r} \/ ToSet(r.batch) \subseteq cutOff'
  PROVE  /\ \A q \in wire' : ~q.ran => ToSet(q.batch) \cap ToSet(landed) \subseteq cutOff'
         /\ \A q, p \in wire' : q # p => ToSet(q.batch) \cap ToSet(p.batch) \subseteq cutOff'
         /\ \A ws : Excused(ws) => Excused(ws)'
<1>1. \A q \in wire' : \/ q \in wire /\ q # r
                       \/ q.batch = r.batch /\ ~r.ran /\ ~q.ran /\ ~Awaited(q)
  BY RequestEnds DEF SessionInv
<1>2. wire' = wire \ {r} => wire' \subseteq wire
  OBVIOUS
<1>3. /\ \A q \in wire : ~q.ran => ToSet(q.batch) \cap ToSet(landed) \subseteq cutOff
      /\ \A q, p \in wire : q # p => ToSet(q.batch) \cap ToSet(p.batch) \subseteq cutOff
  BY DEF SessionInv, OnceInv
<1>4. \A q \in wire' : ~q.ran => ToSet(q.batch) \cap ToSet(landed) \subseteq cutOff'
  BY <1>1, <1>3
<1>5. \A q, p \in wire' : q # p => ToSet(q.batch) \cap ToSet(p.batch) \subseteq cutOff'
  <2>1. CASE wire' = wire \ {r}
    BY <1>2, <1>3, <2>1
  <2>2. CASE ToSet(r.batch) \subseteq cutOff'
    BY <1>1, <1>3, <2>2
  <2> QED
    BY <2>1, <2>2
<1>6. \A w : Sent(w)' => Sent(w)
  BY <1>1 DEF Sent
<1>7. \A ws : Excused(ws) => Excused(ws)'
  BY <1>6 DEF Excused
<1> QED
  BY <1>4, <1>5, <1>7

LEMMA SoundFlushFails ==
  ASSUME KeptInv, SessionInv, NEW r, FlushFails(r)
  PROVE  SessionInv'
<1>1. /\ r \in wire /\ Awaited(r) /\ r.replayed /\ faults' = faults + 1 /\ faults < play.faults
      /\ wire' = Abandoned(r) /\ batch' = <<>> /\ retry' = TRUE /\
           cutOff' = cutOff \cup ToSet(r.batch)
      /\ UNCHANGED <<issuing, session, phase, memory, recovered, queue, storage, server, dropped,
                     replaced, fresh, aborted, current>>
  BY DEF FlushFails, issuing
<1>2. /\ r.batch = batch /\ ToSet(batch) \subseteq ToSet(queue)
      /\ \A q \in wire : Awaited(q) /\ q # r => ~q.replayed /\ ToSet(q.batch) \cap ToSet(queue) = {}
  BY <1>1, OneBatch
<1>3. /\ wire' \subseteq Requests
      /\ \A q \in wire' :
           q.from <= session /\ q.batch # <<>> /\ ToSet(q.batch) \subseteq KnownWrites
      /\ \A w : w \in InFlight' <=> \E q \in wire : q # r /\ Awaited(q) /\ w \in ToSet(q.batch)
  BY <1>1, RequestEnds DEF SessionInv
<1>4. ToSet(r.batch) \subseteq Writes
  BY <1>1, KnownAreWrites DEF SessionInv, TypeInv
<1>5. TypeInv'
  <2>1. faults' \in 0..play.faults
    BY <1>1, PlaySound DEF SessionInv, TypeInv
  <2>2. batch' \in Seq(Writes)
    BY <1>1, EmptyList
  <2>3. cutOff' \subseteq Writes
    BY <1>1, <1>4 DEF SessionInv, TypeInv
  <2> QED
    BY <1>1, <1>3, <2>1, <2>2, <2>3
       DEF SessionInv, TypeInv, issuing, KnownWrites, memory, storage, server
<1>6. Snapshot' = Snapshot
  BY <1>1 DEF Snapshot, memory
<1>7. StatesInv'
  BY <1>1, <1>6, SoundLands DEF SessionInv, StatesInv, storage, server
<1>8. DiskInv'
  BY <1>1, <1>6 DEF SessionInv, DiskInv, memory, storage
<1>9. WireInv'
  BY <1>1, <1>2, WireEnds DEF server
<1>10. QueueInv'
  <2>1. InFlight' \subseteq InFlight /\ InFlight \subseteq InFlight' \cup ToSet(queue)
    BY <1>2, <1>3, Flying
  <2> QED
    BY <1>1, <2>1 DEF SessionInv, QueueInv, OutboxWrites, issuing, memory, storage
<1>11. OnceInv'
  <2>1. /\ \A q \in wire' : ~q.ran => ToSet(q.batch) \cap ToSet(landed) \subseteq cutOff'
        /\ \A q, p \in wire' : q # p => ToSet(q.batch) \cap ToSet(p.batch) \subseteq cutOff'
        /\ \A ws : Excused(ws) => Excused(ws)'
    BY <1>1, OnceEnds DEF server
  <2>2. Excused(ToSet(queue) \ ToSet(batch))'
    <3>1. \A w \in ToSet(queue) \ ToSet(batch) : Sent(w)' => w \in cutOff'
      BY <2>1 DEF SessionInv, OnceInv, Excused
    <3> QED
      BY <1>1, <1>2, <3>1 DEF Excused
  <2> QED
    BY <1>1, <2>1, <2>2 DEF SessionInv, OnceInv, storage, server
<1>12. OrderInv'
  <2>1. \A s, done : Ordered(s, done) => Ordered(s, done)'
    BY <1>1 DEF Ordered, Behind, issuing
  <2>2. \A q \in wire' : Ordered(q.batch, ToSet(landed))
    <3>1. \A q \in wire' : \E p \in wire : q.batch = p.batch
      BY <1>1, RequestEnds DEF SessionInv
    <3> QED
      BY <3>1 DEF SessionInv, OrderInv
  <2> QED
    BY <1>1, <2>1, <2>2 DEF SessionInv, OrderInv, memory, server, OutboxWrites
<1> QED
  BY <1>5, <1>7, <1>8, <1>9, <1>10, <1>11, <1>12 DEF SessionInv

LEMMA FirstPart ==
  ASSUME NEW T, NEW s \in Seq(T), NEW n \in 1..Len(s)
  PROVE  /\ ToSet(SubSeq(s, 1, n)) \subseteq ToSet(s) /\ ToSet(SubSeq(s, 1, n)) # {}
         /\ n = Len(s) => ToSet(SubSeq(s, 1, n)) = ToSet(s)
<1> DEFINE t == SubSeq(s, 1, n)
<1>1. Len(s) \in Nat /\ DOMAIN s = 1..Len(s) /\ \A i \in DOMAIN s : s[i] \in T
  BY SeqFacts
<1>2. /\ n \in Int /\ 1 \in Int /\ 1 <= n /\ n - 1 + 1 = n
      /\ \A i \in 1..n : i \in DOMAIN s /\ s[i] \in T /\ 1 + i - 1 = i
  BY <1>1
<1>3. /\ t \in Seq(T) /\ Len(t) = n /\ \A i \in 1..n : t[i] = s[i]
  BY <1>2, SubSeqProperties
<1> HIDE DEF t
<1>4. DOMAIN t = 1..n /\ 1 \in DOMAIN t
  BY <1>2, <1>3
<1>5. ToSet(t) \subseteq ToSet(s) /\ ToSet(t) # {}
  BY <1>2, <1>3, <1>4 DEF ToSet
<1>6. n = Len(s) => ToSet(s) \subseteq ToSet(t)
  BY <1>1, <1>3, <1>4 DEF ToSet
<1> QED
  BY <1>5, <1>6 DEF t

\* What settling the answers to a batch takes away: a first part of it, all
\* of it if nothing throws.
LEMMA PartSettled ==
  ASSUME NEW T, NEW s \in Seq(T), s # <<>>, NEW bad, bad \subseteq DOMAIN s, NEW upTo,
         upTo = IF bad = {} THEN Len(s) ELSE Min(bad), NEW gone, gone = ToSet(SubSeq(s, 1, upTo))
  PROVE  /\ gone \subseteq ToSet(s) /\ gone # {}
         /\ bad = {} => gone = ToSet(s)
<1>1. Len(s) \in Nat /\ DOMAIN s = 1..Len(s) /\ Len(s) >= 1
  OBVIOUS
<1>2. upTo \in 1..Len(s)
  <2>1. CASE bad = {}
    BY <1>1, <2>1
  <2>2. CASE bad # {}
    <3>1. IsFiniteSet(1..Len(s)) /\ bad \in SUBSET (1..Len(s))
      BY <1>1, FS_Interval
    <3>2. IsFiniteSet(bad) /\ bad \subseteq Nat
      BY <1>1, <3>1, FS_Subset
    <3> DEFINE at == Sorted(bad)
    <3>3. /\ Cardinality(bad) \in Nat /\ DOMAIN at = 1..Cardinality(bad)
          /\ \A k \in DOMAIN at : at[k] \in bad
          /\ \A n \in bad : \E k \in DOMAIN at : at[k] = n
          /\ \A j, k \in DOMAIN at : j < k <=> at[j] < at[k]
      BY <3>2, SortedOrder
    <3> HIDE DEF at
    <3>4. 1 \in DOMAIN at
      BY <2>2, <3>3
    <3>5. \A n \in bad : at[1] <= n
      <4> SUFFICES ASSUME NEW n \in bad PROVE at[1] <= n
        OBVIOUS
      <4>1. PICK k \in DOMAIN at : at[k] = n
        BY <3>3
      <4>2. k = 1 \/ 1 < k
        BY <3>3
      <4>3. at[1] \in Nat /\ n \in Nat
        BY <3>2, <3>3, <3>4
      <4> QED
        BY <3>3, <3>4, <4>1, <4>2, <4>3
    <3>6. Min(bad) \in bad
      BY <3>3, <3>4, <3>5 DEF Min
    <3> QED
      BY <1>1, <2>2, <3>6
  <2> QED
    BY <2>1, <2>2
<1>3. bad = {} => upTo = Len(s)
  OBVIOUS
<1> QED
  BY <1>2, <1>3, FirstPart

LEMMA SoundFlushAnswer ==
  ASSUME KeptInv, SessionInv, NEW r, FlushAnswer(r)
  PROVE  SessionInv'
<1> DEFINE throws == {i \in DOMAIN r.batch : play.kind[r.batch[i]] = "throwing"}
           upTo == IF throws = {} THEN Len(r.batch) ELSE Min(throws)
           gone == ToSet(SubSeq(r.batch, 1, upTo))
           thrown == {w \in gone : play.kind[w] = "throwing"}
           refused == {w \in gone : play.kind[w] = "refused"}
           left == Except(queue, gone)
<1>1. /\ r \in wire /\ Awaited(r) /\ r.ran /\ r.replayed
      /\ outbox' = Without(outbox, gone)
      /\ merged' = merged \cup (gone \ (thrown \cup refused))
      /\ IF gone = thrown THEN UNCHANGED timer ELSE timer' = TRUE
      /\ dropped' = dropped \cup thrown \cup refused
      /\ IF throws = {}
         THEN NextBatch(left, wire \ {r}) /\ UNCHANGED <<cutOff, aborted, current>>
         ELSE /\ queue' = left /\ batch' = <<>> /\ wire' = wire \ {r}
              /\ cutOff' = cutOff \cup (ToSet(r.batch) \ (gone \ thrown))
              /\ aborted' = TRUE /\ current' = FALSE
      /\ UNCHANGED <<issuing, session, phase, seq, recovered, retry, storage, server, faults,
                     replaced, fresh>>
  BY DEF FlushAnswer, SchedulePersist, issuing
<1>2. /\ r.batch = batch /\ ToSet(batch) \subseteq ToSet(queue) /\ batch # <<>>
      /\ \A q \in wire : Awaited(q) /\ q # r => ~q.replayed /\ ToSet(q.batch) \cap ToSet(queue) = {}
  BY <1>1, OneBatch
<1>3. /\ r.batch \in Seq(Writes) /\ ToSet(r.batch) \subseteq KnownWrites
      /\ ToSet(r.batch) \subseteq ToSet(landed)
  BY <1>1 DEF SessionInv, TypeInv, WireInv, Requests
<1>4. gone \subseteq ToSet(r.batch) /\ gone # {} /\ (throws = {} => gone = ToSet(r.batch))
  <2>1. throws \subseteq DOMAIN r.batch /\ r.batch # <<>>
    BY <1>2
  <2> HIDE DEF throws
  <2> QED
    BY <1>3, <2>1, PartSettled
<1>5. throws = {} => thrown = {}
  <2>1. throws = {} => \A w \in ToSet(r.batch) : play.kind[w] # "throwing"
    BY DEF ToSet
  <2> QED
    BY <1>4, <2>1
<1>6. thrown \subseteq gone /\ refused \subseteq gone
  OBVIOUS
<1>7. /\ queue \in Seq(Writes) /\ IsInjective(queue) /\ Ordered(queue, ToSet(landed))
  BY DEF SessionInv, TypeInv, QueueInv, OrderInv
<1>8. left \in Seq(Writes) /\ ToSet(left) = ToSet(queue) \ gone /\ IsInjective(left)
  BY <1>7, LeftOver, LeftOverInjective
<1>9. Ordered(left, ToSet(landed))
  BY <1>3, <1>4, <1>7, LeftOverOrdered
<1> HIDE DEF throws, upTo, gone, thrown, refused, left
<1>10. queue' = left /\ cutOff \subseteq cutOff'
  BY <1>1 DEF NextBatch
<1>11. StateSound(Snapshot)' /\ OutboxWrites' = OutboxWrites \ gone
  <2>1. gone \subseteq KnownWrites /\ gone \subseteq ToSet(landed)
    BY <1>3, <1>4
  <2>2. merged' \subseteq merged \cup gone
    BY <1>1
  <2> QED
    BY <1>1, <2>1, <2>2, SnapshotShrinks DEF server
<1>12. StatesInv'
  BY <1>1, <1>11, SoundLands DEF SessionInv, StatesInv, storage, server
<1>13. DiskInv'
  <2>1. throws = {} => timer'
    BY <1>1, <1>4, <1>5
  <2>2. throws # {} => ~current'
    BY <1>1
  <2> QED
    BY <2>1, <2>2 DEF DiskInv
<1>14. /\ WireInv' /\ wire' \subseteq Requests /\ batch' \in Seq(Writes)
       /\ \A q \in wire' :
            q.from <= session /\ q.batch # <<>> /\ ToSet(q.batch) \subseteq KnownWrites
       /\ InFlight' \subseteq (InFlight \ gone) \cup ToSet(left)
       /\ InFlight \subseteq InFlight' \cup ToSet(r.batch)
       /\ throws = {} => batch' = left
  <2>1. CASE throws = {}
    <3>1. NextBatch(left, wire \ {r}) /\ wire \ {r} \in SUBSET wire
      BY <1>1, <2>1
    <3>2. ToSet(left) \subseteq KnownWrites
      BY <1>8 DEF SessionInv, TypeInv
    <3>3. \A q \in wire \ {r} : Awaited(q) => ~q.replayed /\ ToSet(q.batch) \cap ToSet(left) = {}
      BY <1>2, <1>8
    <3>4. /\ WireInv' /\ wire' \subseteq Requests
          /\ \A q \in wire' :
               q.from <= session /\ q.batch # <<>> /\ ToSet(q.batch) \subseteq KnownWrites
          /\ \A w : w \in InFlight' <=>
                      w \in ToSet(left) \/ \E q \in wire \ {r} : Awaited(q) /\ w \in ToSet(q.batch)
          /\ queue' = left /\ batch' = left
      BY <1>1, <1>8, <3>1, <3>2, <3>3, BatchSent DEF server
    <3>5. \A q \in wire \ {r} : Awaited(q) => ToSet(q.batch) \cap gone = {}
      BY <1>2, <1>4
    <3> QED
      BY <1>8, <3>4, <3>5, Flying
  <2>2. CASE throws # {}
    <3>1. wire' = wire \ {r} /\ batch' = <<>>
      BY <1>1, <2>2
    <3>2. /\ wire' \subseteq Requests
          /\ \A q \in wire' :
               q.from <= session /\ q.batch # <<>> /\ ToSet(q.batch) \subseteq KnownWrites
          /\ \A w : w \in InFlight' <=> \E q \in wire : q # r /\ Awaited(q) /\ w \in ToSet(q.batch)
      BY <1>1, <3>1, RequestEnds DEF SessionInv
    <3>3. WireInv'
      BY <1>1, <1>2, <1>8, <1>10, <3>1, WireEnds DEF server
    <3>4. \A q \in wire : Awaited(q) /\ q # r => ToSet(q.batch) \cap gone = {}
      BY <1>2, <1>4
    <3> QED
      BY <2>2, <3>1, <3>2, <3>3, <3>4, EmptyList, Flying
  <2> QED
    BY <2>1, <2>2
<1>15. TypeInv'
  <2>1. gone \subseteq Writes /\ ToSet(r.batch) \subseteq Writes /\ KnownWrites \subseteq Writes
    BY <1>3, <1>4, KnownAreWrites DEF SessionInv
  <2>2. ToSet(left) \subseteq KnownWrites
    BY <1>8 DEF SessionInv, TypeInv
  <2>3. dropped' \subseteq Writes /\ cutOff' \subseteq Writes
    BY <1>1, <1>6, <2>1 DEF SessionInv, TypeInv
  <2>4. {timer', aborted', current'} \subseteq BOOLEAN
    BY <1>1 DEF SessionInv, TypeInv
  <2> QED
    BY <1>1, <1>8, <1>10, <1>14, <2>2, <2>3, <2>4
       DEF SessionInv, TypeInv, issuing, KnownWrites, storage, server
<1>16. QueueInv'
  <2>1. phase = "restored" => ToSet(recovered) \cap gone = {}
    BY <1>2, <1>4 DEF SessionInv, QueueInv
  <2>2. ToSet(left) \subseteq ToSet(queue)
    BY <1>8
  <2>3. left # <<>> => retry \/ batch' # <<>> \/ aborted'
    BY <1>1, <1>14
  <2>4. \A w \in ToSet(left) : play.kind[w] = "action" => w \in ToSet(recovered)
    BY <2>2 DEF SessionInv, QueueInv
  <2>5. ToSet(left) \cup InFlight' \subseteq OutboxWrites' \cup replaced
    BY <1>8, <1>11, <1>14 DEF SessionInv, QueueInv
  <2>6. OutboxWrites' \subseteq
          ToSet(left) \cup InFlight' \cup (IF phase = "restored" THEN ToSet(recovered) ELSE {})
    <3>1. ToSet(r.batch) \subseteq ToSet(left) \cup gone
      BY <1>2, <1>8
    <3> QED
      BY <1>8, <1>11, <1>14, <3>1 DEF SessionInv, QueueInv
  <2>7. phase = "loading" =>
          /\ replaced = {} /\ recovered = <<>>
          /\ \A state \in disk : WritesOf(state) \cap (ToSet(left) \cup InFlight') = {}
    BY <1>14, <2>2 DEF SessionInv, QueueInv
  <2>8. phase = "restored" =>
          /\ ToSet(recovered) \subseteq OutboxWrites'
          /\ ToSet(recovered) \cap (ToSet(left) \cup InFlight') = {}
    BY <1>11, <1>14, <2>1, <2>2 DEF SessionInv, QueueInv
  <2> QED
    BY <1>1, <1>8, <1>10, <2>3, <2>4, <2>5, <2>6, <2>7, <2>8
       DEF SessionInv, QueueInv, issuing, storage
<1>17. /\ \A q \in wire' : ~q.ran => ToSet(q.batch) \cap ToSet(landed) \subseteq cutOff'
       /\ \A q, p \in wire' : q # p => ToSet(q.batch) \cap ToSet(p.batch) \subseteq cutOff'
       /\ \A w : Sent(w)' => Sent(w) \/ w \in ToSet(left)
       /\ \A w \in ToSet(left) \ ToSet(batch') : Sent(w)' => w \in cutOff'
  <2>1. \A w \in ToSet(queue) \ ToSet(batch) : Sent(w) => w \in cutOff
    BY DEF SessionInv, OnceInv, Excused
  <2>2. CASE throws = {}
    <3>1. NextBatch(left, wire \ {r}) /\ wire \ {r} \in SUBSET wire
      BY <1>1, <2>2
    <3>2. ToSet(left) = ToSet(queue) \ ToSet(batch)
      BY <1>2, <1>4, <1>8, <2>2
    <3>3. \A w \in ToSet(left) :
            w \in ToSet(landed) \/ (\E q \in wire \ {r} : w \in ToSet(q.batch)) => w \in cutOff'
      BY <1>10, <2>1, <3>2 DEF Sent
    <3>4. /\ \A q \in wire' : ~q.ran => ToSet(q.batch) \cap ToSet(landed) \subseteq cutOff'
          /\ \A q, p \in wire' : q # p => ToSet(q.batch) \cap ToSet(p.batch) \subseteq cutOff'
      BY <1>1, <1>8, <1>10, <3>1, <3>3, BatchSentOnce DEF server
    <3>5. \A w : Sent(w)' => Sent(w) \/ w \in ToSet(left)
      <4>1. wire' \subseteq wire \cup {Request(left, TRUE)}
        BY <3>1 DEF NextBatch
      <4>2. Request(left, TRUE).batch = left
        BY <1>8, RequestMade DEF SessionInv
      <4> HIDE DEF Request
      <4> QED
        BY <1>1, <4>1, <4>2 DEF Sent, server
    <3> QED
      BY <1>14, <2>2, <3>4, <3>5
  <2>3. CASE throws # {}
    <3>1. wire' = wire \ {r} /\ batch' = <<>>
      BY <1>1, <2>3
    <3>2. /\ \A q \in wire' : ~q.ran => ToSet(q.batch) \cap ToSet(landed) \subseteq cutOff'
          /\ \A q, p \in wire' : q # p => ToSet(q.batch) \cap ToSet(p.batch) \subseteq cutOff'
      BY <1>1, <1>10, <3>1, OnceEnds DEF server
    <3>3. \A w : Sent(w)' => Sent(w)
      BY <1>1, <3>1 DEF Sent, server
    <3>4. ToSet(batch) \ gone \subseteq cutOff'
      BY <1>1, <1>2, <2>3
    <3> QED
      BY <1>8, <1>10, <2>1, <3>2, <3>3, <3>4
  <2> QED
    BY <2>2, <2>3
<1>18. OnceInv'
  <2>1. ToSet(left) \subseteq ToSet(queue)
    BY <1>8
  <2>2. \A ws : Excused(ws) /\ ws \cap ToSet(queue) = {} => Excused(ws)'
    BY <1>10, <1>17, <2>1 DEF Excused
  <2>3. phase = "restored" => Excused(ToSet(recovered))'
    BY <1>1, <2>2 DEF SessionInv, QueueInv, OnceInv
  <2>4. phase = "loading" => \A state \in disk : Excused(WritesOf(state))'
    <3> SUFFICES ASSUME phase = "loading", NEW state \in disk PROVE Excused(WritesOf(state))'
      OBVIOUS
    <3>1. Excused(WritesOf(state)) /\ WritesOf(state) \cap ToSet(queue) = {}
      BY DEF SessionInv, QueueInv, OnceInv
    <3> QED
      BY <2>2, <3>1
  <2>5. Excused(ToSet(queue) \ ToSet(batch))'
    BY <1>10, <1>17 DEF Excused
  <2> QED
    BY <1>1, <1>10, <1>17, <2>3, <2>4, <2>5 DEF SessionInv, OnceInv, storage, server
<1>19. OrderInv'
  <2>1. \A s, done : Ordered(s, done) => Ordered(s, done)'
    BY <1>1 DEF Ordered, Behind, issuing
  <2>2. \A q \in wire' : Ordered(q.batch, ToSet(landed))
    <3>1. CASE throws = {}
      <4>1. NextBatch(left, wire \ {r})
        BY <1>1, <3>1
      <4>2. wire' \subseteq wire \cup {Request(left, TRUE)}
        BY <4>1 DEF NextBatch
      <4>3. Request(left, TRUE).batch = left
        BY <1>8, RequestMade DEF SessionInv
      <4> QED
        BY <1>9, <4>2, <4>3 DEF SessionInv, OrderInv
    <3>2. CASE throws # {}
      BY <1>1, <3>2 DEF SessionInv, OrderInv
    <3> QED
      BY <3>1, <3>2
  <2>3. gone \subseteq ToSet(landed)
    BY <1>3, <1>4
  <2> QED
    BY <1>1, <1>8, <1>9, <1>10, <1>11, <2>1, <2>2, <2>3 DEF SessionInv, OrderInv, server
<1> QED
  BY <1>12, <1>13, <1>14, <1>15, <1>16, <1>18, <1>19 DEF SessionInv

\* A write sent at once has left the outbox, confirmed or rejected.
LEMMA DirectDone ==
  ASSUME KeptInv, SessionInv, NEW r \in wire, Awaited(r), ~r.replayed,
         wire' \in {wire \ {r}, Abandoned(r)},
           wire' = wire \ {r} \/ ToSet(r.batch) \subseteq cutOff',
         outbox' = Without(outbox, ToSet(r.batch)), merged' \subseteq merged \cup ToSet(r.batch),
         timer' = TRUE, cutOff \subseteq cutOff', cutOff' \subseteq Writes,
           dropped' \subseteq Writes,
         faults' \in 0..play.faults,
         UNCHANGED <<issuing, session, phase, seq, recovered, replay, storage, server, replaced,
                     fresh, aborted, current>>
  PROVE  SessionInv'
<1> DEFINE ws == ToSet(r.batch)
<1>1. /\ ws \subseteq KnownWrites
      /\ ws \cap (ToSet(queue) \cup ToSet(recovered)) = {} /\ \A x \in Writes :
           ws \cap after[x] = {}
      /\ \A q \in wire : Awaited(q) /\ q # r => ToSet(q.batch) \cap ws = {}
  BY DEF SessionInv, TypeInv, WireInv
<1> HIDE DEF ws
<1>2. StateSound(Snapshot)' /\ OutboxWrites' = OutboxWrites \ ws
  <2>1. \A e \in outbox : e.write \in Writes
    BY KnownAreWrites DEF SessionInv, StatesInv, StateSound, Snapshot
  <2>2. \A e \in outbox : after[e.write] \cap ws \subseteq ToSet(landed)
    BY <1>1, <2>1
  <2> QED
    BY <1>1, <2>2, SnapshotShrinks DEF ws, server
<1>3. /\ wire' \subseteq Requests
      /\ \A q \in wire' :
           q.from <= session /\ q.batch # <<>> /\ ToSet(q.batch) \subseteq KnownWrites
      /\ \A w : w \in InFlight' <=> \E q \in wire : q # r /\ Awaited(q) /\ w \in ToSet(q.batch)
      /\ \A q \in wire' : \E p \in wire : q.batch = p.batch
  BY RequestEnds DEF SessionInv
<1>4. TypeInv'
  BY <1>3 DEF SessionInv, TypeInv, issuing, KnownWrites, replay, storage, server
<1>5. StatesInv'
  BY <1>2, SoundLands DEF SessionInv, StatesInv, storage, server
<1>6. DiskInv'
  BY DEF DiskInv
<1>7. WireInv'
  BY WireEnds DEF replay, server
<1>8. QueueInv'
  <2>1. InFlight' \subseteq InFlight \ ws /\ InFlight \subseteq InFlight' \cup ws
    BY <1>1, <1>3, Flying DEF ws
  <2> QED
    BY <1>1, <1>2, <2>1 DEF SessionInv, QueueInv, issuing, replay, storage
<1>9. OnceInv'
  <2>1. /\ \A q \in wire' : ~q.ran => ToSet(q.batch) \cap ToSet(landed) \subseteq cutOff'
        /\ \A q, p \in wire' : q # p => ToSet(q.batch) \cap ToSet(p.batch) \subseteq cutOff'
        /\ \A s : Excused(s) => Excused(s)'
    BY OnceEnds DEF server
  <2>2. Excused(ToSet(queue) \ ToSet(batch))'
    <3>1. \A w \in ToSet(queue) \ ToSet(batch) : Sent(w)' => w \in cutOff'
      BY <2>1 DEF SessionInv, OnceInv, Excused
    <3> QED
      BY <3>1 DEF Excused, replay
  <2> QED
    BY <2>1, <2>2 DEF SessionInv, OnceInv, storage, server
<1>10. OrderInv'
  <2>1. \A s, done : Ordered(s, done) => Ordered(s, done)'
    BY DEF Ordered, Behind, issuing
  <2>2. \A q \in wire' : Ordered(q.batch, ToSet(landed))
    BY <1>3 DEF SessionInv, OrderInv
  <2> QED
    BY <1>1, <1>2, <2>1, <2>2 DEF SessionInv, OrderInv, replay, server
<1> QED
  BY <1>4, <1>5, <1>6, <1>7, <1>8, <1>9, <1>10 DEF SessionInv

\* The request of a write sent at once has one write.
LEMMA DirectIsOne ==
  ASSUME SessionInv, NEW r \in wire, Awaited(r), ~r.replayed
  PROVE  /\ r.batch \in Seq(Writes) /\ IsInjective(r.batch) /\ Ordered(r.batch, ToSet(landed))
         /\ \E w \in Writes : ToSet(r.batch) = {w}
<1>1. r.batch \in Seq(Writes) /\ Len(r.batch) = 1 /\ Ordered(r.batch, ToSet(landed))
  BY DEF SessionInv, TypeInv, Requests, WireInv, OrderInv
<1>2. DOMAIN r.batch = {1} /\ r.batch[1] \in Writes
  BY <1>1
<1>3. ToSet(r.batch) = {r.batch[1]}
  BY <1>2 DEF ToSet
<1> QED
  BY <1>1, <1>2, <1>3 DEF IsInjective

LEMMA SoundDirectAnswer ==
  ASSUME KeptInv, SessionInv, NEW r, DirectAnswer(r)
  PROVE  SessionInv'
<1> DEFINE ws == ToSet(r.batch)
           failed == {w \in ws : play.kind[w] \in {"refused", "throwing"}}
<1>1. /\ r \in wire /\ Awaited(r) /\ r.ran /\ ~r.replayed
      /\ Settle(ws \ failed, failed) /\ dropped' = dropped \cup failed /\ wire' = wire \ {r}
      /\ UNCHANGED <<issuing, session, phase, recovered, replay, storage, server, faults,
                     cutOff, replaced, fresh, aborted, current>>
  BY DEF DirectAnswer, issuing
<1>2. failed \subseteq ws
  OBVIOUS
<1>3. ws # {} /\ ws \subseteq Writes
  BY <1>1, DirectIsOne
<1> HIDE DEF failed, ws
<1>4. (ws \ failed) \cup failed = ws
  BY <1>2
<1>5. outbox' = Without(outbox, ws) /\ merged' \subseteq merged \cup ws /\ timer' = TRUE /\
        seq' = seq
  BY <1>1, <1>3, <1>4 DEF Settle, SchedulePersist
<1>6. cutOff' \subseteq Writes /\ dropped' \subseteq Writes /\ faults' \in 0..play.faults
  BY <1>1, <1>2, <1>3 DEF SessionInv, TypeInv
<1> QED
  BY <1>1, <1>5, <1>6, DirectDone DEF ws

LEMMA SoundDirectFails ==
  ASSUME KeptInv, SessionInv, NEW r, DirectFails(r)
  PROVE  SessionInv'
<1> DEFINE ws == ToSet(r.batch)
           lost == {w \in ws : ~IsReplayable(w)}
<1>1. /\ r \in wire /\ Awaited(r) /\ ~r.replayed /\ faults < play.faults /\ faults' = faults + 1
      /\ wire' = Abandoned(r)
      /\ IF lost = {} THEN EnqueueReplay(r.batch) /\ UNCHANGED memory
         ELSE Settle({}, lost) /\ UNCHANGED <<queue, retry>>
      /\ dropped' = dropped \cup lost /\ cutOff' = cutOff \cup ws
      /\ UNCHANGED <<issuing, session, phase, recovered, batch, storage, server, replaced, fresh,
                     aborted, current>>
  BY DEF DirectFails, issuing
<1>2. PICK w \in Writes : ws = {w}
  BY <1>1, DirectIsOne
<1>3. /\ r.batch \in Seq(Writes) /\ IsInjective(r.batch) /\ Ordered(r.batch, ToSet(landed))
      /\ ws \cap (ToSet(queue) \cup ToSet(recovered)) = {} /\ ws \subseteq KnownWrites
  BY <1>1, DirectIsOne DEF SessionInv, TypeInv, WireInv
<1>4. lost = {} \/ lost = ws
  BY <1>2
<1>5. lost = {} => \A v \in ws : play.kind[v] # "action"
  BY DEF IsReplayable
<1> HIDE DEF ws, lost
<1>6. /\ cutOff' \subseteq Writes /\ cutOff \subseteq cutOff' /\ dropped' \subseteq Writes
      /\ faults' \in 0..play.faults
  BY <1>1, <1>2, <1>4, PlaySound DEF SessionInv, TypeInv
<1>7. CASE lost = ws
  <2>1. lost # {} /\ {} \cup ws = ws
    BY <1>2, <1>7
  <2>2. outbox' = Without(outbox, ws) /\ merged' \subseteq merged \cup ws /\ timer' = TRUE /\
          seq' = seq
    BY <1>1, <1>7, <2>1 DEF Settle, SchedulePersist
  <2>3. UNCHANGED replay
    BY <1>1, <2>1 DEF replay
  <2> QED
    BY <1>1, <1>6, <2>2, <2>3, DirectDone DEF ws
<1>8. CASE lost = {}
  <2>1. queue' = queue \o r.batch /\ retry' = TRUE /\ UNCHANGED memory
    BY <1>1, <1>8 DEF EnqueueReplay
  <2>2. /\ queue \in Seq(Writes) /\ IsInjective(queue) /\ Ordered(queue, ToSet(landed))
        /\ ToSet(queue) \subseteq KnownWrites
    BY DEF SessionInv, TypeInv, QueueInv, OrderInv
  <2>3. queue' \in Seq(Writes) /\ ToSet(queue') = ToSet(queue) \cup ws
    BY <1>3, <2>1, <2>2, Joined DEF ws
  <2>4. IsInjective(queue')
    BY <1>3, <2>1, <2>2, JoinedInjective DEF ws
  <2>5. Ordered(queue', ToSet(landed))
    BY <1>3, <2>1, <2>2, JoinedOrdered
  <2>6. /\ wire' \subseteq Requests
        /\ \A q \in wire' :
             q.from <= session /\ q.batch # <<>> /\ ToSet(q.batch) \subseteq KnownWrites
        /\ \A v : v \in InFlight' <=> \E q \in wire : q # r /\ Awaited(q) /\ v \in ToSet(q.batch)
        /\ \A q \in wire' : \E p \in wire : q.batch = p.batch
    BY <1>1, RequestEnds DEF SessionInv
  <2>7. TypeInv'
    <3>1. ToSet(queue') \subseteq KnownWrites
      BY <1>3, <2>2, <2>3
    <3> QED
      BY <1>1, <1>6, <2>1, <2>3, <2>6, <3>1
         DEF SessionInv, TypeInv, issuing, KnownWrites, memory, storage, server
  <2>8. Snapshot' = Snapshot
    BY <2>1 DEF Snapshot, memory
  <2>9. StatesInv'
    BY <1>1, <2>8, SoundLands DEF SessionInv, StatesInv, storage, server
  <2>10. DiskInv'
    BY <1>1, <2>1, <2>8 DEF SessionInv, DiskInv, memory, storage
  <2>11. WireInv'
    BY <1>1, <2>3, WireEnds DEF ws, server
  <2>12. QueueInv'
    <3>1. InFlight' \subseteq InFlight \ ws /\ InFlight \subseteq InFlight' \cup ws /\
            ws \subseteq InFlight
      <4>1. \A q \in wire : Awaited(q) /\ q # r => ToSet(q.batch) \cap ws = {}
        BY <1>1 DEF SessionInv, WireInv, ws
      <4> QED
        BY <1>1, <2>6, <4>1, Flying DEF ws
    <3>2. \A v \in ToSet(queue') : play.kind[v] = "action" => v \in ToSet(recovered)
      BY <1>5, <1>8, <2>3 DEF SessionInv, QueueInv
    <3>3. phase = "loading" =>
            \A state \in disk : WritesOf(state) \cap (ToSet(queue') \cup InFlight') = {}
      BY <2>3, <3>1 DEF SessionInv, QueueInv
    <3>4. phase = "restored" => ToSet(recovered) \cap (ToSet(queue') \cup InFlight') = {}
      BY <2>3, <3>1 DEF SessionInv, QueueInv
    <3>5. OutboxWrites' = OutboxWrites
      BY <2>1 DEF OutboxWrites, memory
    <3>6. ToSet(queue') \cup InFlight' \subseteq OutboxWrites \cup replaced
      BY <2>3, <3>1 DEF SessionInv, QueueInv
    <3>7. OutboxWrites \subseteq
            ToSet(queue') \cup InFlight' \cup (IF phase = "restored" THEN ToSet(recovered) ELSE {})
      BY <2>3, <3>1 DEF SessionInv, QueueInv
    <3> QED
      BY <1>1, <2>1, <2>4, <3>2, <3>3, <3>4, <3>5, <3>6, <3>7
         DEF SessionInv, QueueInv, issuing, storage
  <2>13. OnceInv'
    <3>1. /\ \A q \in wire' : ~q.ran => ToSet(q.batch) \cap ToSet(landed) \subseteq cutOff'
          /\ \A q, p \in wire' : q # p => ToSet(q.batch) \cap ToSet(p.batch) \subseteq cutOff'
          /\ \A s : Excused(s) => Excused(s)'
      BY <1>1, OnceEnds DEF server, ws
    <3>2. Excused(ToSet(queue) \ ToSet(batch))'
      <4>1. \A v \in ToSet(queue) \ ToSet(batch) : Sent(v)' => v \in cutOff'
        BY <3>1 DEF SessionInv, OnceInv, Excused
      <4> QED
        BY <1>1, <2>3, <4>1 DEF Excused
    <3> QED
      BY <1>1, <3>1, <3>2 DEF SessionInv, OnceInv, storage, server
  <2>14. OrderInv'
    <3>1. \A s, done : Ordered(s, done) => Ordered(s, done)'
      BY <1>1 DEF Ordered, Behind, issuing
    <3>2. \A q \in wire' : Ordered(q.batch, ToSet(landed))
      BY <2>6 DEF SessionInv, OrderInv
    <3>3. ToSet(queue) \subseteq ToSet(queue')
      BY <2>3
    <3> QED
      BY <1>1, <2>1, <2>5, <3>1, <3>2, <3>3 DEF SessionInv, OrderInv, memory, server, OutboxWrites
  <2> QED
    BY <2>7, <2>9, <2>10, <2>11, <2>12, <2>13, <2>14 DEF SessionInv
<1> QED
  BY <1>4, <1>7, <1>8

----------------------------------------------------------------------------
(* A write is issued; a request runs.                                      *)

\* Lists of known writes are in order whatever is issued.
LEMMA OrderedStays ==
  ASSUME play' = play, \A x \in KnownWrites : after'[x] = after[x]
  PROVE  \A s, done : ToSet(s) \subseteq KnownWrites /\ Ordered(s, done) => Ordered(s, done)'
<1>1. \A s : \A i \in DOMAIN s : s[i] \in ToSet(s)
  BY DEF ToSet
<1> QED
  BY <1>1 DEF Ordered, Behind

LEMMA SingleList ==
  ASSUME NEW T, NEW w \in T
  PROVE  <<w>> \in Seq(T) /\ ToSet(<<w>>) = {w} /\ IsInjective(<<w>>) /\ Len(<<w>>) = 1
         /\ <<w>> # <<>> /\ DOMAIN <<w>> = {1} /\ <<w>>[1] = w
<1>1. DOMAIN <<w>> = {1} /\ <<w>>[1] = w
  OBVIOUS
<1> QED
  BY <1>1 DEF ToSet, IsInjective

LEMMA SoundMutate == KeptInv /\ SessionInv /\ Mutate => SessionInv'
<1> SUFFICES ASSUME KeptInv, SessionInv, Mutate PROVE SessionInv'
  OBVIOUS
<1> DEFINE w == issued + 1
           behind == IF phase = "running" THEN ToSet(recovered) ELSE {}
           entry == [seq |-> seq + 1, write |-> w]
           single == <<w>>
           direct == Request(single, FALSE)
<1>1. /\ issued < play.writes /\ issued' = w
      /\ after' = [after EXCEPT ![w] = behind]
      /\ seq' = seq + 1 /\ outbox' = outbox \cup {entry} /\ merged' = merged /\ timer' = TRUE
      /\ \/ /\ queue # <<>> /\ IsReplayable(w) /\ queue' = queue \o single /\ retry' = TRUE
            /\ wire' = wire
         \/ /\ ~(queue # <<>> /\ IsReplayable(w)) /\ wire' = wire \cup {direct}
            /\ UNCHANGED <<queue, retry>>
      /\ UNCHANGED <<play, session, phase, recovered, batch, storage, server, faults, dropped,
                     cutOff, replaced, fresh, aborted, current>>
  BY DEF Mutate, Deliver, Enqueue, Enqueued, SchedulePersist, EnqueueReplay
<1>2. /\ issued \in Nat /\ w \in Nat /\ w \in 1..play.writes /\ w \in Writes /\ w \notin KnownWrites
      /\ KnownWrites \subseteq KnownWrites' /\ w \in KnownWrites'
      /\ issued' \in 0..play.writes
  BY <1>1, PlaySound DEF SessionInv, TypeInv, Writes, KnownWrites
<1>3. /\ after \in [Writes -> SUBSET KnownWrites] /\ behind \subseteq KnownWrites
      /\ KnownWrites \subseteq Writes
  BY KnownAreWrites DEF SessionInv, TypeInv
<1>4. /\ after' \in [Writes -> SUBSET KnownWrites] /\ after'[w] = behind
      /\ \A x \in KnownWrites : after'[x] = after[x]
      /\ \A x \in Writes : x # w => after'[x] = after[x]
  BY <1>1, <1>2, <1>3
<1>5. /\ single \in Seq(Writes) /\ ToSet(single) = {w} /\ IsInjective(single) /\ Len(single) = 1
      /\ single # <<>> /\ DOMAIN single = {1} /\ single[1] = w
  BY <1>2, SingleList
<1>7. entry.seq = seq + 1 /\ entry.write = w
  OBVIOUS
<1> HIDE DEF w, behind, entry, single
<1>6. /\ direct \in Requests /\ direct.batch = single /\ direct.from = session
      /\ direct.replayed = FALSE /\ direct.cut = 0 /\ direct.ran = FALSE
  BY <1>5, RequestMade DEF SessionInv
<1> HIDE DEF direct
<1>8. \A r : Awaited(r)' <=> Awaited(r)
  BY <1>1 DEF Awaited
<1>9. Awaited(direct)
  BY <1>6 DEF Awaited
<1>10. OutboxWrites' = OutboxWrites \cup {w}
  BY <1>1, <1>7 DEF OutboxWrites
<1>11. /\ \A q \in wire' :
            q \in wire \/ (q = direct /\ ~(queue # <<>> /\ IsReplayable(w)) /\ queue' = queue)
       /\ wire \subseteq wire'
  BY <1>1
<1>12. /\ queue \in Seq(Writes) /\ ToSet(queue) \subseteq KnownWrites /\ IsInjective(queue)
       /\ ToSet(recovered) \subseteq KnownWrites /\ ToSet(landed) \subseteq KnownWrites
       /\ \A r \in wire : ToSet(r.batch) \subseteq KnownWrites /\ r.batch # <<>>
       /\ recovered \in Seq(Writes)
  BY DEF SessionInv, TypeInv, QueueInv
<1>13. /\ queue' \in Seq(Writes) /\ IsInjective(queue')
       /\ ToSet(queue) \subseteq ToSet(queue') /\ ToSet(queue') \subseteq ToSet(queue) \cup {w}
       /\ w \in ToSet(queue') => IsReplayable(w) /\ retry' /\ wire' = wire
       /\ w \in ToSet(queue') \/ direct \in wire'
  <2>1. CASE queue' = queue \o single /\ wire' = wire /\ IsReplayable(w) /\ retry'
    <3>1. ToSet(queue) \cap ToSet(single) = {}
      BY <1>2, <1>5, <1>12
    <3> QED
      BY <1>5, <1>12, <2>1, <3>1, Joined, JoinedInjective
  <2>2. CASE queue' = queue /\ wire' = wire \cup {direct}
    BY <1>2, <1>12, <2>2
  <2> QED
    BY <1>1, <2>1, <2>2
<1>14. TypeInv'
  <2>1. wire' \subseteq Requests
        /\ \A r \in wire' :
             r.from <= session /\ r.batch # <<>> /\ ToSet(r.batch) \subseteq KnownWrites'
    <3>1. direct.from <= session
      BY <1>6, PlaySound DEF SessionInv, TypeInv
    <3> QED
      BY <1>2, <1>5, <1>6, <1>11, <3>1 DEF SessionInv, TypeInv
  <2>2. UNION {ToSet(queue'), ToSet(recovered), ToSet(landed)} \subseteq KnownWrites'
    BY <1>2, <1>12, <1>13
  <2>3. after' \in [Writes -> SUBSET KnownWrites']
    BY <1>2, <1>4
  <2>4. {timer', retry'} \subseteq BOOLEAN
    BY <1>1 DEF SessionInv, TypeInv
  <2> QED
    BY <1>1, <1>2, <1>13, <2>1, <2>2, <2>3, <2>4 DEF SessionInv, TypeInv, storage, server
<1>15. StatesInv'
  <2>1. \A state : StateSound(state) => StateSound(state)'
    <3>1. issued' \in Nat /\ issued <= issued'
      BY <1>1, <1>2 DEF w
    <3> QED
      BY <1>1, <1>4, <3>1, SoundStays DEF SessionInv, server
  <2>2. /\ seq \in 0..issued /\ merged \subseteq KnownWrites /\ IsFiniteSet(outbox)
        /\ \A e \in outbox : e.write \in KnownWrites /\ e.seq \in 1..seq
        /\ \A e, f \in outbox : e.seq = f.seq \/ e.write = f.write => e = f
        /\ \A e \in outbox :
             Behind(e.write, ToSet(landed), {f.write : f \in {g \in outbox : g.seq < e.seq}})
    BY DEF SessionInv, StatesInv, StateSound, Snapshot
  <2>3. seq' \in 0..issued' /\ seq \in Nat /\ \A e \in outbox : e.seq \in 1..seq' /\ e.seq < seq + 1
    BY <1>1, <1>2, <2>2 DEF w
  <2>4. IsFiniteSet(outbox')
    BY <1>1, <2>2, FS_AddElement
  <2>5. \A e \in outbox' : e.write \in KnownWrites' /\ e.seq \in 1..seq'
    <3>1. entry.write \in KnownWrites' /\ entry.seq \in 1..seq'
      BY <1>1, <1>2, <1>7, <2>3
    <3>2. \A e \in outbox : e.write \in KnownWrites' /\ e.seq \in 1..seq'
      BY <1>2, <2>2, <2>3
    <3> QED
      BY <1>1, <3>1, <3>2
  <2>6. \A e, f \in outbox' : e.seq = f.seq \/ e.write = f.write => e = f
    <3>1. \A e \in outbox : e.seq # entry.seq /\ e.write # entry.write
      BY <1>2, <1>7, <2>2, <2>3
    <3> QED
      BY <1>1, <2>2, <3>1
  <2>7. ASSUME NEW e \in outbox', play.kind[e.write] # "action",
               NEW v \in after'[e.write], v \notin ToSet(landed)
        PROVE  \E f \in outbox' : f.seq < e.seq /\ f.write = v
    <3>1. CASE e \in outbox
      <4>1. v \in after[e.write]
        BY <1>4, <2>2, <2>7, <3>1
      <4>2. PICK f \in outbox : f.seq < e.seq /\ f.write = v
        BY <2>2, <2>7, <3>1, <4>1 DEF Behind
      <4> QED
        BY <1>1, <4>2
    <3>2. CASE e = entry
      <4>1. v \in behind
        BY <1>4, <1>7, <2>7, <3>2
      <4>2. v \in OutboxWrites
        BY <2>7, <4>1 DEF SessionInv, OrderInv, behind
      <4>3. PICK f \in outbox : f.write = v
        BY <4>2 DEF OutboxWrites
      <4> QED
        BY <1>1, <1>7, <2>3, <3>2, <4>3
    <3> QED
      BY <1>1, <2>7, <3>1, <3>2
  <2>8. Snapshot'.seq = seq' /\ Snapshot'.merged = merged /\ Snapshot'.outbox = outbox'
    BY <1>1 DEF Snapshot
  <2>9. merged \subseteq KnownWrites'
    BY <1>2, <2>2
  <2>10. ASSUME NEW e \in outbox'
         PROVE  Behind(e.write, ToSet(landed), {f.write : f \in {g \in outbox : g.seq < e.seq}})'
    <3>1. ASSUME play.kind[e.write] # "action", NEW v \in after'[e.write], v \notin ToSet(landed)
          PROVE  v \in {f.write : f \in {g \in outbox' : g.seq < e.seq}}
      BY <2>7, <3>1
    <3> QED
      BY <1>1, <3>1 DEF Behind, server
  <2>11. StateSound(Snapshot)'
    BY <2>3, <2>4, <2>5, <2>6, <2>8, <2>9, <2>10 DEF StateSound
  <2> QED
    BY <1>1, <2>1, <2>11 DEF SessionInv, StatesInv, storage
<1>16. DiskInv'
  BY <1>1 DEF DiskInv
<1>17. InFlight \subseteq InFlight' /\ InFlight' \subseteq InFlight \cup {w} /\
         w \in ToSet(queue') \cup InFlight'
       /\ w \notin InFlight
  <2>1. \A v : v \in InFlight' <=> \E q \in wire' : Awaited(q) /\ v \in ToSet(q.batch)
    BY <1>8 DEF InFlight
  <2>2. InFlight \subseteq InFlight'
    BY <1>11, <2>1, Flying
  <2>3. InFlight' \subseteq InFlight \cup {w}
    BY <1>5, <1>6, <1>11, <2>1, Flying
  <2>4. w \in ToSet(queue') \cup InFlight'
    BY <1>5, <1>6, <1>9, <1>13, <2>1
  <2>5. w \notin InFlight
    BY <1>2, <1>12, Flying
  <2> QED
    BY <2>2, <2>3, <2>4, <2>5
<1>18. WireInv'
  <2>1. \A r \in wire' : r.ran => ToSet(r.batch) \subseteq ToSet(landed)
    BY <1>6, <1>11 DEF SessionInv, WireInv
  <2>2. \A r \in wire' : Awaited(r) /\ r.replayed => r.batch = batch
    BY <1>6, <1>11 DEF SessionInv, WireInv
  <2>3. ASSUME NEW r \in wire', Awaited(r), ~r.replayed
        PROVE  /\ Len(r.batch) = 1
               /\ ToSet(r.batch) \cap (ToSet(queue') \cup ToSet(recovered)) = {}
               /\ \A x \in Writes : ToSet(r.batch) \cap after'[x] = {}
    <3>1. CASE r \in wire
      <4>1. /\ Len(r.batch) = 1
            /\ ToSet(r.batch) \cap (ToSet(queue) \cup ToSet(recovered)) = {}
            /\ \A x \in Writes : ToSet(r.batch) \cap after[x] = {}
        BY <2>3, <3>1 DEF SessionInv, WireInv
      <4>2. w \notin ToSet(r.batch)
        BY <1>2, <1>12, <3>1
      <4>3. ToSet(r.batch) \cap behind = {}
        BY <4>1 DEF behind
      <4> QED
        BY <1>4, <1>13, <4>1, <4>2, <4>3
    <3>2. CASE r = direct /\ queue' = queue
      <4>1. ToSet(r.batch) = {w} /\ Len(r.batch) = 1
        BY <1>5, <1>6, <3>2
      <4> QED
        BY <1>2, <1>4, <1>12, <3>2, <4>1
    <3> QED
      BY <1>11, <3>1, <3>2
  <2>4. \A r, q \in wire' : Awaited(r) /\ Awaited(q) /\ r # q =>
          ToSet(r.batch) \cap ToSet(q.batch) = {}
    <3>1. \A r \in wire : w \notin ToSet(r.batch)
      BY <1>2, <1>12
    <3>2. \A r, q \in wire : Awaited(r) /\ Awaited(q) /\ r # q =>
            ToSet(r.batch) \cap ToSet(q.batch) = {}
      BY DEF SessionInv, WireInv
    <3>3. \A r \in wire : ToSet(r.batch) \cap ToSet(direct.batch) = {}
      BY <1>5, <1>6, <3>1
    <3>4. \A r \in wire' : r \in wire \/ r = direct
      BY <1>11
    <3> QED
      BY <3>2, <3>3, <3>4
  <2>5. ToSet(batch) \subseteq ToSet(queue') \cap InFlight'
    BY <1>13, <1>17 DEF SessionInv, WireInv
  <2> QED
    BY <1>1, <1>8, <2>1, <2>2, <2>3, <2>4, <2>5 DEF WireInv, server
<1>19. QueueInv'
  <2>1. \A v \in ToSet(queue') : play.kind[v] = "action" => v \in ToSet(recovered)
    BY <1>13 DEF SessionInv, QueueInv, IsReplayable
  <2>2. queue' # <<>> => retry' \/ batch # <<>> \/ aborted
    BY <1>1 DEF SessionInv, QueueInv
  <2>3. ToSet(queue') \cup InFlight' \subseteq OutboxWrites' \cup replaced
    BY <1>10, <1>13, <1>17 DEF SessionInv, QueueInv
  <2>4. OutboxWrites' \subseteq
          ToSet(queue') \cup InFlight' \cup (IF phase = "restored" THEN ToSet(recovered) ELSE {})
    BY <1>10, <1>13, <1>17 DEF SessionInv, QueueInv
  <2>5. phase = "loading" =>
          /\ replaced = {} /\ recovered = <<>>
          /\ \A state \in disk : WritesOf(state) \cap (ToSet(queue') \cup InFlight') = {}
    <3>1. \A state \in disk : w \notin WritesOf(state)
      BY <1>2 DEF SessionInv, StatesInv, StateSound, WritesOf
    <3> QED
      BY <1>13, <1>17, <3>1 DEF SessionInv, QueueInv
  <2>6. phase = "restored" =>
          /\ ToSet(recovered) \subseteq OutboxWrites'
          /\ ToSet(recovered) \cap (ToSet(queue') \cup InFlight') = {}
    BY <1>2, <1>10, <1>12, <1>13, <1>17 DEF SessionInv, QueueInv
  <2> QED
    BY <1>1, <1>13, <2>1, <2>2, <2>3, <2>4, <2>5, <2>6 DEF SessionInv, QueueInv, storage
<1>20. \A v : Sent(v)' => Sent(v) \/ v = w
  BY <1>1, <1>5, <1>6, <1>11 DEF Sent, server
<1>21. ~Sent(w)
  BY <1>2, <1>12 DEF Sent
<1>22. OnceInv'
  <2>1. \A r \in wire' : ~r.ran => ToSet(r.batch) \cap ToSet(landed) \subseteq cutOff
    BY <1>2, <1>5, <1>6, <1>11, <1>12 DEF SessionInv, OnceInv
  <2>2. \A r, q \in wire' : r # q => ToSet(r.batch) \cap ToSet(q.batch) \subseteq cutOff
    <3>1. \A r \in wire : w \notin ToSet(r.batch)
      BY <1>2, <1>12
    <3> QED
      BY <1>5, <1>6, <1>11, <3>1 DEF SessionInv, OnceInv
  <2>3. Excused(ToSet(queue) \ ToSet(batch))'
    <3>1. \A v \in ToSet(queue') \ ToSet(batch) : Sent(v)' => v \in cutOff
      <4> SUFFICES ASSUME NEW v \in ToSet(queue') \ ToSet(batch), Sent(v)' PROVE v \in cutOff
        OBVIOUS
      <4>1. CASE v = w
        <5>1. wire' = wire
          BY <1>13, <4>1
        <5>2. Sent(w)
          BY <1>1, <4>1, <5>1 DEF Sent, server
        <5> QED
          BY <1>21, <5>2
      <4>2. CASE v # w
        BY <1>13, <1>20, <4>2 DEF SessionInv, OnceInv, Excused
      <4> QED
        BY <4>1, <4>2
    <3> QED
      BY <1>1, <3>1 DEF Excused
  <2>4. \A ws : Excused(ws) /\ w \notin ws => Excused(ws)'
    BY <1>1, <1>20 DEF Excused
  <2>5. phase = "restored" => Excused(ToSet(recovered))'
    BY <1>1, <1>2, <1>12, <2>4 DEF SessionInv, OnceInv
  <2>6. phase = "loading" => \A state \in disk : Excused(WritesOf(state))'
    <3>1. \A state \in disk : w \notin WritesOf(state)
      BY <1>2 DEF SessionInv, StatesInv, StateSound, WritesOf
    <3> QED
      BY <2>4, <3>1 DEF SessionInv, OnceInv
  <2> QED
    BY <1>1, <2>1, <2>2, <2>3, <2>5, <2>6 DEF SessionInv, OnceInv, storage, server
<1>23. OrderInv'
  <2>1. \A s, done : ToSet(s) \subseteq KnownWrites /\ Ordered(s, done) => Ordered(s, done)'
    BY <1>1, <1>4, OrderedStays
  <2>2. /\ Ordered(queue, ToSet(landed)) /\ Ordered(recovered, ToSet(landed)) /\ Ordered(landed, {})
        /\ \A r \in wire : Ordered(r.batch, ToSet(landed))
        /\ phase = "running" => ToSet(recovered) \subseteq ToSet(landed) \cup ToSet(queue)
        /\ phase # "loading" => ToSet(recovered) \subseteq ToSet(landed) \cup OutboxWrites
    BY DEF SessionInv, OrderInv
  <2>3. behind \subseteq ToSet(landed) \cup ToSet(queue)
    BY <2>2 DEF behind
  <2>4. ASSUME queue' = queue \o single
        PROVE  Ordered(queue, ToSet(landed))'
    <3>1. /\ Len(queue) \in Nat /\ DOMAIN queue = 1..Len(queue)
          /\ DOMAIN queue' = 1..(Len(queue) + 1)
          /\ \A i \in 1..Len(queue) : queue'[i] = queue[i]
          /\ queue'[Len(queue) + 1] = w
      <4>1. /\ Len(queue) \in Nat /\ DOMAIN queue = 1..Len(queue)
            /\ DOMAIN queue' = 1..(Len(queue) + Len(single))
            /\ \A i \in 1..Len(queue) : queue'[i] = queue[i]
            /\ \A i \in 1..Len(single) : queue'[Len(queue) + i] = single[i]
        BY <1>5, <1>12, <2>4, Joined, SeqFacts
      <4> QED
        BY <1>5, <4>1
    <3> SUFFICES ASSUME NEW i \in DOMAIN queue', play.kind[queue'[i]] # "action",
                        NEW v \in after'[queue'[i]], v \notin ToSet(landed)
                 PROVE  \E j \in 1..(i - 1) : queue'[j] = v
      <4>1. /\ play' = play /\ landed' = landed
        BY <1>1 DEF server
      <4> QED
        BY <4>1 DEF Ordered, Behind
    <3>2. CASE i \in 1..Len(queue)
      <4>1. queue'[i] = queue[i] /\ queue[i] \in ToSet(queue)
        BY <3>1, <3>2 DEF ToSet
      <4>2. v \in after[queue[i]]
        BY <1>4, <1>12, <4>1
      <4>3. PICK j \in 1..(i - 1) : queue[j] = v
        BY <2>2, <3>1, <3>2, <4>1, <4>2 DEF Ordered, Behind
      <4>4. j \in 1..Len(queue)
        BY <3>1, <3>2
      <4> QED
        BY <3>1, <4>3, <4>4
    <3>3. CASE i = Len(queue) + 1
      <4>1. v \in behind
        BY <1>4, <3>1, <3>3
      <4>2. PICK j \in DOMAIN queue : queue[j] = v
        BY <2>3, <4>1 DEF ToSet
      <4> QED
        BY <3>1, <3>3, <4>2
    <3> QED
      BY <3>1, <3>2, <3>3
  <2>5. Ordered(queue, ToSet(landed))'
    <3>1. queue' = queue => Ordered(queue, ToSet(landed))'
      <4> SUFFICES ASSUME queue' = queue PROVE Ordered(queue, ToSet(landed))'
        OBVIOUS
      <4>1. play' = play /\ landed' = landed
        BY <1>1 DEF server
      <4>2. \A i \in DOMAIN queue : queue[i] \in ToSet(queue)
        BY DEF ToSet
      <4>3. \A i \in DOMAIN queue : after'[queue[i]] = after[queue[i]]
        BY <1>4, <1>12, <4>2
      <4> QED
        BY <2>2, <4>1, <4>3 DEF Ordered, Behind
    <3> QED
      BY <1>1, <2>4, <3>1
  <2>6. Ordered(recovered, ToSet(landed))' /\ Ordered(landed, {})'
    BY <1>1, <1>12, <1>4, <2>2 DEF server, Ordered, Behind, ToSet
  <2>7. \A r \in wire' : Ordered(r.batch, ToSet(landed))'
    <3>1. \A r \in wire : Ordered(r.batch, ToSet(landed))'
      BY <1>1, <1>12, <2>1, <2>2 DEF server
    <3>2. ASSUME ~(queue # <<>> /\ IsReplayable(w)), NEW r \in wire', r.batch = single
          PROVE  Ordered(r.batch, ToSet(landed))'
      <4>1. play.kind[w] # "action" => behind \subseteq ToSet(landed)
        <5>1. play.kind[w] # "action" => ToSet(queue) = {}
          BY <3>2, EmptyList DEF IsReplayable
        <5> QED
          BY <2>3, <5>1
      <4>2. /\ DOMAIN r.batch = {1} /\ r.batch[1] = w /\ after'[w] = behind /\ play' = play
            /\ landed' = landed
        BY <1>1, <1>4, <1>5, <3>2 DEF server
      <4> QED
        BY <4>1, <4>2 DEF Ordered, Behind
    <3> QED
      BY <1>6, <1>11, <3>1, <3>2
  <2>8. phase = "running" => ToSet(recovered) \subseteq ToSet(landed) \cup ToSet(queue')
    BY <1>13, <2>2
  <2>9. phase # "loading" => ToSet(recovered) \subseteq ToSet(landed) \cup OutboxWrites'
    BY <1>10, <2>2
  <2> QED
    BY <1>1, <2>5, <2>6, <2>7, <2>8, <2>9 DEF OrderInv, server
<1> QED
  BY <1>14, <1>15, <1>16, <1>18, <1>19, <1>22, <1>23 DEF SessionInv


\* A request runs, whoever waits for it.
LEMMA SoundRun ==
  ASSUME KeptInv, SessionInv, NEW r, Run(r)
  PROVE  SessionInv'
<1> DEFINE new == Except(r.batch, ToSet(landed))
           ran == [r EXCEPT !.ran = TRUE]
<1>1. /\ r \in wire /\ ~r.ran
      /\ landed' = landed \o new
      /\ twice' = twice \cup (ToSet(r.batch) \cap ToSet(landed))
      /\ wire' = (wire \ {r}) \cup IF Awaited(r) THEN {ran} ELSE {}
      /\ UNCHANGED <<issuing, session, phase, memory, recovered, replay, storage, faults, ghosts>>
  BY DEF Run, issuing, ghosts
<1>2. r \in Requests /\ r.batch \in Seq(Writes) /\ landed \in Seq(Writes)
      /\ ToSet(r.batch) \subseteq KnownWrites /\ ToSet(landed) \subseteq KnownWrites
      /\ KnownWrites \subseteq Writes
  BY <1>1, KnownAreWrites DEF SessionInv, TypeInv, Requests
<1>3. /\ ran \in Requests /\ ran.batch = r.batch /\ ran.from = r.from /\ ran.cut = r.cut
      /\ ran.replayed = r.replayed /\ ran.ran = TRUE
  BY <1>2 DEF Requests
<1>4. new \in Seq(Writes) /\ ToSet(new) = ToSet(r.batch) \ ToSet(landed)
  BY <1>2, LeftOver
<1>5. Ordered(r.batch, ToSet(landed)) /\ Ordered(landed, {})
  BY <1>1 DEF SessionInv, OrderInv
<1>6. Ordered(new, ToSet(landed))
  BY <1>2, <1>5, LeftOverOrdered
<1> HIDE DEF new, ran
<1>7. landed' \in Seq(Writes) /\ ToSet(landed') = ToSet(landed) \cup ToSet(r.batch)
  BY <1>1, <1>2, <1>4, Joined
<1>8. Ordered(landed', {})
  BY <1>1, <1>2, <1>4, <1>5, <1>6, JoinedOrdered
<1>9. \A q : Awaited(q)' <=> Awaited(q)
  BY <1>1 DEF Awaited
<1>10. Awaited(ran) <=> Awaited(r)
  BY <1>3 DEF Awaited
<1>11. /\ \A q \in wire' : (q \in wire /\ q # r) \/ (q = ran /\ Awaited(r))
       /\ \A q \in wire : q # r => q \in wire'
       /\ Awaited(r) => ran \in wire'
  BY <1>1
<1>12. InFlight' = InFlight
  <2>1. \A v : v \in InFlight' <=> \E q \in wire' : Awaited(q) /\ v \in ToSet(q.batch)
    BY <1>9 DEF InFlight
  <2>2. \A v : v \in InFlight' => v \in InFlight
    BY <1>1, <1>3, <1>11, <2>1, Flying
  <2>3. \A v : v \in InFlight => v \in InFlight'
    BY <1>3, <1>10, <1>11, <2>1, Flying
  <2> QED
    BY <2>2, <2>3
<1>13. Snapshot' = Snapshot
  BY <1>1 DEF Snapshot, memory
<1>14. TypeInv'
  <2>1. /\ wire' \subseteq Requests
        /\ \A q \in wire' :
             q.from <= session /\ q.batch # <<>> /\ ToSet(q.batch) \subseteq KnownWrites
    BY <1>1, <1>3, <1>11 DEF SessionInv, TypeInv
  <2>2. twice' \subseteq Writes
    BY <1>1, <1>2 DEF SessionInv, TypeInv
  <2> QED
    BY <1>1, <1>2, <1>7, <2>1, <2>2
       DEF SessionInv, TypeInv, issuing, KnownWrites, memory, replay, storage, ghosts
<1>15. StatesInv'
  <2>1. \A state : StateSound(state) => StateSound(state)'
    BY <1>1, <1>7, SoundLands
  <2> QED
    BY <1>1, <1>13, <2>1 DEF SessionInv, StatesInv, storage
<1>16. WireInv'
  <2>1. \A q \in wire' : q.ran => ToSet(q.batch) \subseteq ToSet(landed')
    BY <1>3, <1>7, <1>11 DEF SessionInv, WireInv
  <2>2. \A q \in wire' : Awaited(q) /\ q.replayed => q.batch = batch
    BY <1>1, <1>3, <1>11 DEF SessionInv, WireInv
  <2>3. \A q \in wire' : Awaited(q) /\ ~q.replayed =>
          /\ Len(q.batch) = 1
          /\ ToSet(q.batch) \cap (ToSet(queue) \cup ToSet(recovered)) = {}
          /\ \A x \in Writes : ToSet(q.batch) \cap after[x] = {}
    BY <1>1, <1>3, <1>11 DEF SessionInv, WireInv
  <2>4. \A q, p \in wire' : Awaited(q) /\ Awaited(p) /\ q # p =>
          ToSet(q.batch) \cap ToSet(p.batch) = {}
    BY <1>1, <1>3, <1>11 DEF SessionInv, WireInv
  <2> QED
    BY <1>1, <1>9, <1>12, <2>1, <2>2, <2>3, <2>4 DEF SessionInv, WireInv, replay, issuing
<1>17. QueueInv'
  BY <1>1, <1>12 DEF SessionInv, QueueInv, OutboxWrites, issuing, memory, replay, storage, ghosts
<1>18. DiskInv'
  BY <1>1, <1>13 DEF SessionInv, DiskInv, memory, storage, ghosts
<1>19. OnceInv'
  <2>1. \A q \in wire : q # r => ToSet(q.batch) \cap ToSet(r.batch) \subseteq cutOff
    BY <1>1 DEF SessionInv, OnceInv
  <2>2. \A q \in wire' : ~q.ran => ToSet(q.batch) \cap ToSet(landed') \subseteq cutOff
    BY <1>3, <1>7, <1>11, <2>1 DEF SessionInv, OnceInv
  <2>3. \A q, p \in wire' : q # p => ToSet(q.batch) \cap ToSet(p.batch) \subseteq cutOff
    BY <1>3, <1>11, <2>1 DEF SessionInv, OnceInv
  <2>4. \A ws : Excused(ws) => Excused(ws)'
    <3>1. \A w : Sent(w)' => Sent(w)
      BY <1>1, <1>3, <1>7, <1>11 DEF Sent
    <3> QED
      BY <1>1, <3>1 DEF Excused, ghosts
  <2>5. twice' \subseteq cutOff
    BY <1>1 DEF SessionInv, OnceInv
  <2>6. Excused(ToSet(queue) \ ToSet(batch))'
    BY <1>1, <2>4 DEF SessionInv, OnceInv, Excused, replay
  <2>7. phase = "restored" => Excused(ToSet(recovered))'
    BY <1>1, <2>4 DEF SessionInv, OnceInv, Excused
  <2>8. phase = "loading" => \A state \in disk : Excused(WritesOf(state))'
    BY <2>4 DEF SessionInv, OnceInv
  <2> QED
    BY <1>1, <2>2, <2>3, <2>5, <2>6, <2>7, <2>8 DEF OnceInv, storage, ghosts
<1>20. OrderInv'
  <2>1. \A s : Ordered(s, ToSet(landed)) => Ordered(s, ToSet(landed'))
    BY <1>7, OrderedGrows
  <2>2. \A s, done : Ordered(s, done) => Ordered(s, done)'
    BY <1>1 DEF Ordered, Behind, issuing
  <2>3. \A q \in wire' : Ordered(q.batch, ToSet(landed'))
    BY <1>3, <1>5, <1>11, <2>1 DEF SessionInv, OrderInv
  <2>4. Ordered(queue, ToSet(landed')) /\ Ordered(recovered, ToSet(landed'))
    BY <2>1 DEF SessionInv, OrderInv
  <2>5. /\ phase = "running" => ToSet(recovered) \subseteq ToSet(landed') \cup ToSet(queue)
        /\ phase # "loading" => ToSet(recovered) \subseteq ToSet(landed') \cup OutboxWrites
    BY <1>7 DEF SessionInv, OrderInv
  <2> QED
    BY <1>1, <1>8, <2>2, <2>3, <2>4, <2>5 DEF OrderInv, replay, memory, OutboxWrites
<1> QED
  BY <1>14, <1>15, <1>16, <1>17, <1>18, <1>19, <1>20 DEF SessionInv

----------------------------------------------------------------------------
(* The stored state is restored and adopted.                               *)

\* States have the fields of a snapshot and no others.
Copy(state) == [seq |-> state.seq, outbox |-> state.outbox, merged |-> state.merged]
CopiesInv ==
  /\ \A state \in disk : state = Copy(state)
  /\ \A i \in DOMAIN saves : saves[i].state = Copy(saves[i].state)

LEMMA CopiesStart == Init => CopiesInv
BY DEF Init, CopiesInv

LEMMA CopiesStay == KeptInv /\ SessionInv /\ CopiesInv /\ [Next]_vars => CopiesInv'
<1> SUFFICES ASSUME KeptInv, SessionInv, CopiesInv, [Next]_vars PROVE CopiesInv'
  OBVIOUS
<1>1. IsList(saves)
  BY DEF KeptInv, Kept
<1>2. CASE UNCHANGED storage
  BY <1>2 DEF storage, CopiesInv
<1>3. CASE PersistFires
  <2>1. /\ DOMAIN saves' = 1..(Len(saves) + 1) /\ DOMAIN saves = 1..Len(saves) /\ Len(saves) \in Nat
        /\ \A i \in DOMAIN saves : saves'[i] = saves[i]
        /\ saves'[Len(saves) + 1] = [state |-> Snapshot, whole |-> Whole]
    BY <1>1, <1>3, ListAppend DEF PersistFires
  <2>2. Snapshot = Copy(Snapshot)
    BY DEF Snapshot, Copy
  <2>3. \A i \in DOMAIN saves' : i \in DOMAIN saves \/ i = Len(saves) + 1
    BY <2>1
  <2> QED
    BY <1>3, <2>1, <2>2, <2>3 DEF PersistFires, CopiesInv
<1>4. CASE SaveLands \/ SaveFails
  <2>1. /\ Head(saves) = saves[1] /\ 1 \in DOMAIN saves
        /\ \A i \in DOMAIN saves' : i + 1 \in DOMAIN saves /\ saves'[i] = saves[i + 1]
    BY <1>4, SavesShorten DEF SaveLands, SaveFails
  <2> QED
    BY <1>4, <2>1 DEF SaveLands, SaveFails, CopiesInv
<1>5. CASE Ends
  <2>1. PICK stored \in 0..MaxSaves : Crash(stored)
    BY <1>5 DEF Ends
  <2>2. DOMAIN saves = 1..Len(saves) /\ Len(saves) \in Nat
    BY <1>1, ListOf DEF IsList
  <2>3. /\ saves' = <<>> /\ stored \in 0..Len(saves)
        /\ disk' = disk \/ (stored # 0 /\ disk' = {saves[stored].state})
    BY <2>1 DEF Crash
  <2>4. stored # 0 => stored \in DOMAIN saves
    BY <2>2, <2>3
  <2> QED
    BY <2>3, <2>4 DEF CopiesInv
<1>6. CASE Mutate \/ RetryFires \/ FlushWrites \/ Starts \/ RestoreFails
  BY <1>2, <1>6 DEF Mutate, RetryFires, FlushWrites, Starts, Restore, Adopt, RestoreFails
<1>7. CASE Answered \/ Served \/ Failed \/ Leftover
  <2>1. ASSUME NEW r, DirectAnswer(r) PROVE UNCHANGED storage
    BY <2>1 DEF DirectAnswer
  <2>2. ASSUME NEW r, FlushAnswer(r) PROVE UNCHANGED storage
    BY <2>2 DEF FlushAnswer
  <2>3. ASSUME NEW r, DirectFails(r) \/ FlushFails(r) \/ Run(r) PROVE UNCHANGED storage
    BY <2>3 DEF DirectFails, FlushFails, Run
  <2> QED
    BY <1>2, <1>7, <2>1, <2>2, <2>3 DEF Answered, Served, Failed, Leftover
<1>8. CASE UNCHANGED vars
  BY <1>2, <1>8 DEF vars
<1> QED
  BY <1>3, <1>4, <1>5, <1>6, <1>7, <1>8 DEF Next, Stored

\* Nothing was stored, or it could not be read.
LEMMA SoundRestoresNothing ==
  ASSUME KeptInv, SessionInv, phase = "loading", phase' = "restored",
         UNCHANGED <<issuing, session, memory, recovered, replay, storage, wire, server, dropped,
                     cutOff, replaced, aborted>>,
         faults' \in 0..play.faults, fresh' \in BOOLEAN,
         current' = FALSE \/ (disk = {} /\ current' = current)
  PROVE  SessionInv'
<1>1. recovered = <<>> /\ ToSet(recovered) = {}
  BY EmptyList DEF SessionInv, QueueInv
<1>2. InFlight' = InFlight /\ \A r : Awaited(r)' <=> Awaited(r)
  BY DEF InFlight, Awaited
<1>3. Snapshot' = Snapshot
  BY DEF Snapshot, memory
<1>4. TypeInv'
  BY DEF SessionInv, TypeInv, issuing, KnownWrites, memory, replay, storage, server
<1>5. StatesInv'
  BY <1>3, SoundLands DEF SessionInv, StatesInv, storage, server
<1>6. WireInv'
  BY <1>2 DEF SessionInv, WireInv, replay, server, issuing
<1>7. QueueInv'
  BY <1>1, <1>2 DEF SessionInv, QueueInv, OutboxWrites, replay, memory, issuing
<1>8. DiskInv'
  BY <1>3 DEF SessionInv, DiskInv, memory, storage
<1>9. OnceInv'
  BY <1>1 DEF SessionInv, OnceInv, Excused, Sent, replay, server
<1>10. OrderInv'
  BY <1>1 DEF SessionInv, OrderInv, Ordered, Behind, OutboxWrites, replay, server, memory, issuing
<1> QED
  BY <1>4, <1>5, <1>6, <1>7, <1>8, <1>9, <1>10 DEF SessionInv

LEMMA SoundRestoreFails == KeptInv /\ SessionInv /\ RestoreFails => SessionInv'
<1> SUFFICES ASSUME KeptInv, SessionInv, RestoreFails PROVE SessionInv'
  OBVIOUS
<1>1. faults' \in 0..play.faults
  BY PlaySound DEF RestoreFails, SessionInv, TypeInv
<1> QED
  BY <1>1, SoundRestoresNothing DEF RestoreFails, issuing

LEMMA SoundRestore == KeptInv /\ SessionInv /\ CopiesInv /\ Restore => SessionInv'
<1> SUFFICES ASSUME KeptInv, SessionInv, CopiesInv, Restore PROVE SessionInv'
  OBVIOUS
<1>1. CASE disk = {} /\ UNCHANGED <<outbox, seq, merged, recovered, current, replaced>>
  <2>1. faults' \in 0..play.faults /\ fresh' \in BOOLEAN
    BY DEF Restore, SessionInv, TypeInv
  <2> QED
    BY <1>1, <2>1, SoundRestoresNothing DEF Restore, issuing, memory
<1>2. ASSUME NEW state \in disk,
             /\ seq' = state.seq /\ merged' = state.merged /\ outbox' = state.outbox
             /\ recovered' = InOrder(state.outbox)
             /\ replaced' = merged \cup OutboxWrites
             /\ current' = (saves = <<>>)
      PROVE  SessionInv'
  <2>1. /\ phase = "loading" /\ phase' = "restored"
        /\ UNCHANGED <<issuing, session, timer, replay, storage, wire, server, faults, dropped,
                       cutOff, fresh, aborted>>
    BY DEF Restore, issuing
  <2>2. StateSound(state)
    BY <1>2 DEF SessionInv, StatesInv
  <2>3. KnownWrites \subseteq Writes /\ issued \in Nat
    BY KnownAreWrites DEF SessionInv
  <2>4. /\ IsFiniteSet(state.outbox) /\ state.merged \subseteq KnownWrites
        /\ \A e \in state.outbox : e.write \in KnownWrites /\ e.write \in Writes /\ e.seq \in Nat
        /\ \A e, f \in state.outbox : e.seq = f.seq \/ e.write = f.write => e = f
        /\ \A e \in state.outbox :
             Behind(e.write, ToSet(landed), {f.write : f \in {g \in state.outbox : g.seq < e.seq}})
    <3>1. /\ state.seq \in 0..issued
          /\ \A e \in state.outbox : e.write \in KnownWrites /\ e.seq \in 1..state.seq
      BY <2>2 DEF StateSound
    <3>2. \A e \in state.outbox : e.write \in KnownWrites /\ e.write \in Writes /\ e.seq \in Nat
      BY <2>3, <3>1
    <3> QED
      BY <2>2, <3>2 DEF StateSound
  <2>5. /\ recovered' \in Seq(Writes) /\ ToSet(recovered') = {e.write : e \in state.outbox}
        /\ IsInjective(recovered')
        /\ \A k \in DOMAIN recovered' : \E e \in state.outbox :
             /\ recovered'[k] = e.write
             /\ \A f \in state.outbox : f.seq < e.seq =>
                  \E j \in 1..(k - 1) : recovered'[j] = f.write
    <3>1. recovered' = InOrder(state.outbox) /\ \A e \in state.outbox :
            e.seq \in Nat /\ e.write \in Writes
      BY <1>2, <2>4
    <3>2. \A e, f \in state.outbox : e.seq = f.seq \/ e.write = f.write => e = f
      BY <2>4
    <3>3. IsFiniteSet(state.outbox)
      BY <2>4
    <3> DEFINE entries == state.outbox
               list == InOrder(entries)
    <3>4. list = InOrder(entries) /\ IsFiniteSet(entries)
      BY <3>3
    <3>5. \A e \in entries : e.seq \in Nat /\ e.write \in Writes
      BY <3>1
    <3>6. \A e, f \in entries : e.seq = f.seq \/ e.write = f.write => e = f
      BY <3>2
    <3> HIDE DEF entries, list
    <3>7. /\ list \in Seq(Writes) /\ ToSet(list) = {e.write : e \in entries} /\ IsInjective(list)
          /\ \A k \in DOMAIN list : \E e \in entries :
               /\ list[k] = e.write
               /\ \A f \in entries : f.seq < e.seq => \E j \in 1..(k - 1) : list[j] = f.write
      BY <3>4, <3>5, <3>6, InOrderOf
    <3>8. recovered' = list
      BY <3>1 DEF list, entries
    <3> USE DEF entries
    <3> QED
      BY <3>7, <3>8
  <2>6. /\ ToSet(recovered') = WritesOf(state) /\ ToSet(recovered') \subseteq KnownWrites
        /\ OutboxWrites' = WritesOf(state)
    BY <1>2, <2>4, <2>5 DEF WritesOf, OutboxWrites
  <2>7. /\ WritesOf(state) \cap (ToSet(queue) \cup InFlight) = {} /\ Excused(WritesOf(state))
        /\ replaced = {} /\ recovered = <<>> /\ ToSet(recovered) = {}
    BY <1>2, <2>1, EmptyList DEF SessionInv, QueueInv, OnceInv
  <2>8. InFlight' = InFlight /\ \A r : Awaited(r)' <=> Awaited(r)
    BY <2>1 DEF InFlight, Awaited
  <2>9. state = Copy(state) /\ Snapshot' = state
    BY <1>2 DEF CopiesInv, Copy, Snapshot
  <2>10. TypeInv'
    <3>1. replaced' \subseteq Writes
      <4>1. merged \subseteq KnownWrites /\ OutboxWrites \subseteq KnownWrites
        BY DEF SessionInv, StatesInv, StateSound, Snapshot, OutboxWrites
      <4> QED
        BY <1>2, <2>3, <4>1
    <3>2. current' \in BOOLEAN
      BY <1>2
    <3> QED
      BY <2>1, <2>5, <2>6, <3>1, <3>2
         DEF SessionInv, TypeInv, issuing, KnownWrites, replay, storage, server
  <2>11. StatesInv'
    <3>1. \A s : StateSound(s) => StateSound(s)'
      BY <2>1, SoundLands DEF server
    <3> QED
      BY <2>1, <2>2, <2>9, <3>1 DEF SessionInv, StatesInv, storage
  <2>12. WireInv'
    <3>1. \A r \in wire : Awaited(r) => ToSet(r.batch) \cap ToSet(recovered') = {}
      BY <2>6, <2>7, Flying
    <3> QED
      BY <2>1, <2>8, <3>1 DEF SessionInv, WireInv, replay, server, issuing
  <2>13. QueueInv'
    <3>1. \A w \in ToSet(queue) : play.kind[w] # "action"
      BY <2>7 DEF SessionInv, QueueInv
    <3>2. ToSet(queue) \cup InFlight \subseteq replaced'
      BY <1>2, <2>7 DEF SessionInv, QueueInv
    <3> QED
      BY <2>1, <2>5, <2>6, <2>7, <2>8, <3>1, <3>2 DEF SessionInv, QueueInv, replay, issuing
  <2>14. DiskInv'
    <3>1. disk = {state}
      BY <1>2 DEF KeptInv, Kept, AtMostOne
    <3> QED
      BY <1>2, <2>1, <2>9, <3>1 DEF DiskInv, storage
  <2>15. OnceInv'
    <3>1. Excused(ToSet(recovered'))
      BY <2>6, <2>7
    <3> QED
      BY <2>1, <3>1 DEF SessionInv, OnceInv, Excused, Sent, replay, server
  <2>16. OrderInv'
    <3>1. Ordered(recovered', ToSet(landed))
      <4> SUFFICES ASSUME NEW k \in DOMAIN recovered', play.kind[recovered'[k]] # "action",
                          NEW v \in after[recovered'[k]], v \notin ToSet(landed)
                   PROVE  \E j \in 1..(k - 1) : recovered'[j] = v
        BY DEF Ordered, Behind
      <4>1. PICK e \in state.outbox :
              /\ recovered'[k] = e.write
              /\ \A f \in state.outbox : f.seq < e.seq =>
                   \E j \in 1..(k - 1) : recovered'[j] = f.write
        BY <2>5
      <4>2. PICK f \in state.outbox : f.seq < e.seq /\ f.write = v
        BY <2>4, <4>1 DEF Behind
      <4> QED
        BY <4>1, <4>2
    <3>2. \A s, done : Ordered(s, done) => Ordered(s, done)'
      BY <2>1 DEF Ordered, Behind, issuing
    <3>3. Ordered(recovered, ToSet(landed))'
      BY <2>1, <3>1 DEF Ordered, Behind, issuing, server
    <3> QED
      BY <2>1, <2>6, <3>2, <3>3 DEF SessionInv, OrderInv, replay, server
  <2> QED
    BY <2>10, <2>11, <2>12, <2>13, <2>14, <2>15, <2>16 DEF SessionInv
<1> QED
  BY <1>1, <1>2 DEF Restore

\* Recovered writes go in front, and are sent unless a flush is on.
LEMMA SoundAdopt == KeptInv /\ SessionInv /\ Adopt => SessionInv'
<1> SUFFICES ASSUME KeptInv, SessionInv, Adopt PROVE SessionInv'
  OBVIOUS
<1> DEFINE q == recovered \o queue
<1>1. /\ phase = "restored" /\ phase' = "running"
      /\ \/ recovered = <<>> /\ UNCHANGED <<queue, batch, wire>>
         \/ recovered # <<>> /\ batch = <<>> /\ NextBatch(q, wire)
         \/ recovered # <<>> /\ batch # <<>> /\ queue' = q /\ UNCHANGED <<batch, wire>>
      /\ UNCHANGED <<issuing, session, memory, recovered, retry, storage, server, faults, ghosts>>
  BY DEF Adopt, issuing, ghosts
<1>2. /\ queue \in Seq(Writes) /\ recovered \in Seq(Writes)
      /\ ToSet(queue) \subseteq KnownWrites /\ ToSet(recovered) \subseteq KnownWrites
      /\ IsInjective(queue) /\ IsInjective(recovered)
      /\ ToSet(recovered) \subseteq OutboxWrites
      /\ ToSet(recovered) \cap (ToSet(queue) \cup InFlight) = {}
      /\ ToSet(queue) \cup InFlight \subseteq OutboxWrites \cup replaced
      /\ OutboxWrites \subseteq ToSet(queue) \cup InFlight \cup ToSet(recovered)
  BY <1>1 DEF SessionInv, TypeInv, QueueInv
<1>3. Excused(ToSet(recovered)) /\ Excused(ToSet(queue) \ ToSet(batch))
  BY <1>1 DEF SessionInv, OnceInv
<1>4. Ordered(queue, ToSet(landed)) /\ Ordered(recovered, ToSet(landed)) /\ Ordered(landed, {})
  BY DEF SessionInv, OrderInv
<1>5. q \in Seq(Writes) /\ ToSet(q) = ToSet(recovered) \cup ToSet(queue)
  BY <1>2, Joined
<1>6. IsInjective(q)
  BY <1>2, JoinedInjective
<1>7. Ordered(q, ToSet(landed))
  BY <1>2, <1>4, JoinedOrdered
<1> HIDE DEF q
<1>8. Snapshot' = Snapshot /\ OutboxWrites' = OutboxWrites
  BY <1>1 DEF Snapshot, OutboxWrites, memory
<1>9. StatesInv'
  BY <1>1, <1>8, SoundLands DEF SessionInv, StatesInv, storage, server
<1>10. DiskInv'
  BY <1>1, <1>8 DEF SessionInv, DiskInv, memory, storage, ghosts
<1>11. \A s, done : Ordered(s, done) => Ordered(s, done)'
  BY <1>1 DEF Ordered, Behind, issuing
<1>12. CASE UNCHANGED <<batch, wire>> /\ queue' \in {queue, q} /\ ToSet(queue') = ToSet(q)
            /\ (queue' = queue \/ batch # <<>>)
  <2>1. /\ queue' \in Seq(Writes) /\ IsInjective(queue') /\ Ordered(queue', ToSet(landed))
        /\ ToSet(queue') = ToSet(recovered) \cup ToSet(queue)
    BY <1>2, <1>4, <1>5, <1>6, <1>7, <1>12
  <2>2. InFlight' = InFlight /\ \A r : Awaited(r)' <=> Awaited(r)
    BY <1>1, <1>12 DEF InFlight, Awaited
  <2>3. TypeInv'
    BY <1>1, <1>2, <1>12, <2>1
       DEF SessionInv, TypeInv, issuing, KnownWrites, memory, storage, server, ghosts
  <2>4. WireInv'
    BY <1>1, <1>12, <2>1, <2>2 DEF SessionInv, WireInv, server, issuing
  <2>5. QueueInv'
    BY <1>1, <1>2, <1>8, <1>12, <2>1, <2>2 DEF SessionInv, QueueInv, issuing, storage, ghosts
  <2>6. OnceInv'
    <3>1. Excused(ToSet(queue') \ ToSet(batch))
      BY <1>3, <2>1 DEF Excused
    <3> QED
      BY <1>1, <1>12, <3>1 DEF SessionInv, OnceInv, Excused, Sent, storage, server, ghosts
  <2>7. OrderInv'
    <3>1. Ordered(queue, ToSet(landed))'
      BY <1>1, <2>1 DEF Ordered, Behind, issuing, server
    <3> QED
      BY <1>1, <1>4, <1>8, <1>11, <1>12, <2>1, <3>1 DEF SessionInv, OrderInv, server
  <2> QED
    BY <1>9, <1>10, <2>3, <2>4, <2>5, <2>6, <2>7 DEF SessionInv
<1>13. CASE batch = <<>> /\ NextBatch(q, wire)
  <2>1. \A r \in wire : Awaited(r) => ~r.replayed /\ ToSet(r.batch) \cap ToSet(q) = {}
    BY <1>5, <1>13 DEF SessionInv, TypeInv, WireInv
  <2>2. /\ WireInv' /\ wire' \subseteq Requests
        /\ \A r \in wire' :
             r.from <= session /\ r.batch # <<>> /\ ToSet(r.batch) \subseteq KnownWrites
        /\ \A w : w \in InFlight' <=>
                    w \in ToSet(q) \/ \E r \in wire : Awaited(r) /\ w \in ToSet(r.batch)
        /\ queue' = q /\ batch' = q
    BY <1>1, <1>2, <1>5, <1>13, <2>1, BatchSent DEF server
  <2>3. InFlight' = InFlight \cup ToSet(q)
    BY <2>2, Flying
  <2>4. TypeInv'
    BY <1>1, <1>2, <1>5, <2>2
       DEF SessionInv, TypeInv, issuing, KnownWrites, memory, storage, server, ghosts
  <2>5. QueueInv'
    <3>1. q # <<>> => retry' \/ batch' # <<>> \/ aborted'
      BY <2>2
    <3> QED
      BY <1>1, <1>2, <1>5, <1>6, <1>8, <2>2, <2>3, <3>1
         DEF SessionInv, QueueInv, issuing, storage, ghosts
  <2>6. Excused(ToSet(q))
    <3>1. ToSet(batch) = {}
      BY <1>13, EmptyList
    <3> QED
      BY <1>3, <1>5, <3>1 DEF Excused
  <2>7. /\ \A r \in wire' : ~r.ran => ToSet(r.batch) \cap ToSet(landed) \subseteq cutOff
        /\ \A r, p \in wire' : r # p => ToSet(r.batch) \cap ToSet(p.batch) \subseteq cutOff
    BY <1>1, <1>5, <1>13, <2>6, BatchSentOnce DEF Excused, Sent, server, ghosts
  <2>8. OnceInv'
    <3>1. Excused(ToSet(queue) \ ToSet(batch))'
      BY <2>2 DEF Excused
    <3> QED
      BY <1>1, <2>7, <3>1 DEF SessionInv, OnceInv, storage, server, ghosts
  <2>9. OrderInv'
    <3>1. \A r \in wire' : Ordered(r.batch, ToSet(landed))
      <4>1. wire' \subseteq wire \cup {Request(q, TRUE)}
        BY <1>13 DEF NextBatch
      <4>2. Request(q, TRUE).batch = q
        BY <1>5, RequestMade DEF SessionInv
      <4> QED
        BY <1>7, <4>1, <4>2 DEF SessionInv, OrderInv
    <3> QED
      BY <1>1, <1>4, <1>5, <1>7, <1>8, <1>11, <2>2, <3>1 DEF SessionInv, OrderInv, server
  <2> QED
    BY <1>9, <1>10, <2>2, <2>4, <2>5, <2>8, <2>9 DEF SessionInv
<1>14. recovered = <<>> => ToSet(q) = ToSet(queue)
  BY <1>5, EmptyList
<1> QED
  BY <1>1, <1>12, <1>13, <1>14

----------------------------------------------------------------------------
(* A session ends.                                                         *)

LEMMA SoundCrash ==
  ASSUME KeptInv, SessionInv, NEW stored, Crash(stored)
  PROVE  SessionInv'
<1>1. /\ session < play.sessions /\ stored \in 0..Len(saves)
      /\ session' = session + 1 /\ phase' = "loading"
      /\ disk' = IF stored = 0 THEN disk ELSE {saves[stored].state}
      /\ saves' = <<>>
      /\ outbox' = {} /\ seq' = 0 /\ merged' = {} /\ timer' = FALSE
      /\ queue' = <<>> /\ batch' = <<>> /\ retry' = FALSE /\ recovered' = <<>>
      /\ cutOff' = cutOff \cup InFlight
                   \cup (IF timer \/ saves # <<>> \/ ~current THEN Writes \ OutboxWrites ELSE {})
      /\ replaced' = {} /\ fresh' = FALSE /\ aborted' = FALSE /\ current' = TRUE
      /\ UNCHANGED <<issuing, wire, server, faults, dropped>>
  BY DEF Crash, issuing
<1>2. DOMAIN saves = 1..Len(saves) /\ Len(saves) \in Nat
  BY ListOf DEF KeptInv, Kept, IsList
<1>3. stored # 0 => stored \in DOMAIN saves
  BY <1>1, <1>2
<1>4. KnownWrites \subseteq Writes /\ issued \in Nat /\ session \in Nat /\ play.sessions \in Nat
  BY KnownAreWrites, PlaySound DEF SessionInv, TypeInv
<1>5. \A r \in wire : ~Awaited(r)'
  <2>1. \A r \in wire : r.from <= session /\ r.from \in Nat
    BY DEF SessionInv, TypeInv, Requests
  <2>2. \A r \in wire : r.from # session'
    BY <1>1, <1>4, <2>1
  <2> QED
    BY <2>2 DEF Awaited
<1>6. InFlight' = {}
  BY <1>1, <1>5 DEF InFlight
<1>7. InFlight \subseteq KnownWrites
  BY Flying DEF SessionInv, TypeInv
<1>8. TypeInv'
  <2>1. \A r \in wire : r.from <= session'
    <3>1. \A r \in wire : r.from <= session /\ r.from \in Nat
      BY DEF SessionInv, TypeInv, Requests
    <3> QED
      BY <1>1, <1>4, <3>1
  <2>2. session' \in 1..play.sessions
    BY <1>1, <1>4 DEF SessionInv, TypeInv
  <2>3. cutOff' \subseteq Writes
    BY <1>1, <1>4, <1>7 DEF SessionInv, TypeInv
  <2>4. {queue', batch', recovered', landed'} \subseteq Seq(Writes)
    BY <1>1, EmptyList DEF SessionInv, TypeInv, server
  <2>5. UNION {ToSet(queue'), ToSet(recovered'), ToSet(landed')} \subseteq KnownWrites
    BY <1>1, EmptyList DEF SessionInv, TypeInv, server
  <2>6. UNION {twice', dropped', cutOff', replaced'} \subseteq Writes
    BY <1>1, <2>3 DEF SessionInv, TypeInv, server
  <2> QED
    BY <1>1, <2>1, <2>2, <2>4, <2>5, <2>6 DEF SessionInv, TypeInv, issuing, KnownWrites
<1>9. \A state \in disk' : StateSound(state)
  BY <1>1, <1>3 DEF SessionInv, StatesInv
<1>10. StatesInv'
  <2>1. \A state : StateSound(state) => StateSound(state)'
    BY <1>1, SoundLands DEF server
  <2>2. StateSound(Snapshot)'
    <3>1. Snapshot'.seq = 0 /\ Snapshot'.outbox = {} /\ Snapshot'.merged = {}
      BY <1>1 DEF Snapshot
    <3>2. issued' = issued
      BY <1>1 DEF issuing
    <3> QED
      BY <1>4, <3>1, <3>2, FS_EmptySet DEF StateSound
  <2> QED
    BY <1>1, <1>9, <2>1, <2>2 DEF StatesInv
<1>11. WireInv'
  BY <1>1, <1>5, EmptyList DEF SessionInv, WireInv, server
<1>12. QueueInv'
  <2>1. OutboxWrites' = {}
    BY <1>1 DEF OutboxWrites
  <2> QED
    BY <1>1, <1>6, <2>1, EmptyList DEF QueueInv
<1>13. DiskInv'
  BY <1>1 DEF DiskInv
<1>14. \A w \in OutboxWrites : Sent(w) => w \in cutOff'
  <2>1. OutboxWrites \subseteq
          ToSet(queue) \cup InFlight \cup (IF phase = "restored" THEN ToSet(recovered) ELSE {})
    BY DEF SessionInv, QueueInv
  <2>2. ToSet(batch) \subseteq InFlight /\ InFlight \subseteq cutOff' /\ cutOff \subseteq cutOff'
    BY <1>1 DEF SessionInv, WireInv
  <2> QED
    BY <2>1, <2>2 DEF SessionInv, OnceInv, Excused
<1>15. \A state \in disk' : \A w \in WritesOf(state) : Sent(w) => w \in cutOff'
  <2>1. CASE timer \/ saves # <<>> \/ ~current
    <3>1. \A state \in disk' : WritesOf(state) \subseteq Writes
      BY <1>4, <1>9 DEF StateSound, WritesOf
    <3>2. Writes \ OutboxWrites \subseteq cutOff'
      BY <1>1, <2>1
    <3> QED
      BY <1>14, <3>1, <3>2
  <2>2. CASE ~timer /\ saves = <<>> /\ current
    <3>1. disk' = disk
      <4>1. Len(saves) = 0
        BY <2>2
      <4>2. stored = 0
        BY <1>1, <4>1
      <4> QED
        BY <1>1, <4>2
    <3>2. CASE phase = "loading"
      BY <1>1, <3>1, <3>2 DEF SessionInv, OnceInv, Excused
    <3>3. CASE phase # "loading"
      <4>1. disk = {Snapshot} \/ disk = {}
        BY <2>2, <3>3 DEF SessionInv, DiskInv
      <4>2. WritesOf(Snapshot) = OutboxWrites
        BY DEF WritesOf, Snapshot, OutboxWrites
      <4> QED
        BY <1>14, <3>1, <4>1, <4>2
    <3> QED
      BY <3>2, <3>3
  <2> QED
    BY <2>1, <2>2
<1>16. OnceInv'
  <2>1. \A state \in disk' : Excused(WritesOf(state))'
    BY <1>1, <1>15 DEF Excused, Sent, server
  <2>2. cutOff \subseteq cutOff'
    BY <1>1
  <2>3. Excused(ToSet(queue) \ ToSet(batch))'
    BY <1>1, EmptyList DEF Excused
  <2> QED
    BY <1>1, <2>1, <2>2, <2>3 DEF SessionInv, OnceInv, server
<1>17. OrderInv'
  <2>1. \A s, done : Ordered(s, done) => Ordered(s, done)'
    BY <1>1 DEF Ordered, Behind, issuing
  <2> QED
    BY <1>1, <2>1, EmptyList DEF SessionInv, OrderInv, server
<1> QED
  BY <1>8, <1>10, <1>11, <1>12, <1>13, <1>16, <1>17 DEF SessionInv

----------------------------------------------------------------------------
(* Every step.                                                             *)

Session == KeptInv /\ SessionInv /\ CopiesInv

LEMMA SessionNext == Session /\ [Next]_vars => Session'
<1> SUFFICES ASSUME Session, [Next]_vars PROVE Session'
  OBVIOUS
<1>1. KeptInv' /\ CopiesInv'
  BY KeptByNext, CopiesStay DEF Session
<1> USE DEF Session
<1>2. CASE Mutate
  BY <1>1, <1>2, SoundMutate
<1>3. CASE Stored \/ SaveFails
  BY <1>1, <1>3, SoundPersistFires, SoundSaveLands, SoundSaveFails DEF Stored
<1>4. CASE RetryFires \/ FlushWrites
  BY <1>1, <1>4, SoundRetryFires, SoundFlushWrites
<1>5. CASE Answered
  BY <1>1, <1>5, SoundDirectAnswer, SoundFlushAnswer DEF Answered
<1>6. CASE Served \/ Leftover
  BY <1>1, <1>6, SoundRun DEF Served, Leftover
<1>7. CASE Failed
  BY <1>1, <1>7, SoundDirectFails, SoundFlushFails DEF Failed
<1>8. CASE Starts \/ RestoreFails
  BY <1>1, <1>8, SoundRestore, SoundAdopt, SoundRestoreFails DEF Starts
<1>9. CASE Ends
  BY <1>1, <1>9, SoundCrash DEF Ends
<1>10. CASE UNCHANGED vars
  <2>1. Snapshot' = Snapshot /\ faults' = faults
    BY <1>10 DEF vars, memory, Snapshot
  <2>2. /\ UNCHANGED <<issuing, session, phase, outbox, recovered, replay, wire, server, replaced,
                       cutOff, aborted>>
        /\ disk' = disk
    BY <1>10 DEF vars, memory, ghosts, storage, issuing
  <2>3. WireInv' /\ QueueInv' /\ OnceInv' /\ OrderInv'
    BY <2>2, PipelineStays
  <2>4. TypeInv'
    BY <1>10 DEF vars, SessionInv, TypeInv, KnownWrites, memory, replay, storage, server, ghosts
  <2>5. StatesInv'
    BY <1>10, <2>1, <2>2, SoundLands DEF vars, SessionInv, StatesInv, storage, server
  <2>6. DiskInv'
    BY <1>10, <2>1 DEF vars, SessionInv, DiskInv, memory, storage, ghosts
  <2> QED
    BY <1>1, <2>3, <2>4, <2>5, <2>6 DEF SessionInv
<1> QED
  BY <1>2, <1>3, <1>4, <1>5, <1>6, <1>7, <1>8, <1>9, <1>10 DEF Next

LEMMA SessionAlways == Spec => []Session
<1>1. Init => Session
  BY KeptAtStart, StartsSound, CopiesStart DEF Session
<1> QED
  BY <1>1, SessionNext, PTL DEF Spec

----------------------------------------------------------------------------
(* The theorems.                                                           *)

LEMMA StatesAreTyped ==
  ASSUME TypeInv, NEW state, StateSound(state)
  PROVE  IsState(state)
<1>1. issued \in Nat /\ issued <= N /\ KnownWrites \subseteq Writes /\ N \in Nat
  <2>1. issued \in 0..play.writes /\ play.writes \in 0..N /\ N \in Nat
    BY PlaySound DEF TypeInv
  <2> QED
    BY <2>1, KnownAreWrites
<1>2. /\ state.seq \in 0..issued /\ state.merged \subseteq KnownWrites
      /\ \A e \in state.outbox : e.write \in KnownWrites /\ e.seq \in 1..state.seq
      /\ \A e, f \in state.outbox : e.seq = f.seq => e = f
  BY DEF StateSound
<1>3. state.seq \in 0..N
  BY <1>1, <1>2
<1> QED
  BY <1>1, <1>2, <1>3 DEF IsState

\* Counters stay in range and no two entries share a number, in memory, in
\* every save under way and on disk: enqueueWrite counts on from the number
\* `restore` brought back.
THEOREM CountersStayInRange == Spec => []DurableTypeOK
<1>1. Session => DurableTypeOK
  <2> SUFFICES ASSUME Session PROVE DurableTypeOK
    OBVIOUS
  <2>1. TypeInv /\ StatesInv
    BY DEF Session, SessionInv
  <2>2. IsState(Snapshot) /\ (\A state \in disk : IsState(state))
        /\ \A i \in DOMAIN saves : IsState(saves[i].state)
    BY <2>1, StatesAreTyped DEF StatesInv
  <2>3. \A r \in wire : ToSet(r.batch) \subseteq 1..issued /\ r.from \in 1..session
    <3>1. session \in Nat
      BY <2>1, PlaySound DEF TypeInv
    <3>2. \A r \in wire : r.from <= session /\ r.from \in Nat \ {0}
      BY <2>1 DEF TypeInv, Requests
    <3> QED
      BY <2>1, <3>1, <3>2 DEF TypeInv, KnownWrites
  <2>4. ToSet(landed) \subseteq Writes
    BY <2>1, KnownAreWrites DEF TypeInv
  <2> QED
    BY <2>1, <2>2, <2>3, <2>4 DEF DurableTypeOK, TypeInv
<1> QED
  BY <1>1, SessionAlways, PTL

\* Every entry of the outbox has a request, a place in replayQueue or the
\* adoption to come working for it, and a queue has a flush or a timer.
THEOREM WritesAreNotStranded == Spec => []NothingStranded
<1>1. Session => NothingStranded
  BY DEF Session, SessionInv, WireInv, QueueInv, NothingStranded
<1> QED
  BY <1>1, SessionAlways, PTL

\* schedulePersist leaves no change of the cache behind: when no save is due
\* or under way, what is stored is the cache.
THEOREM DiskCatchesUp == Spec => []DiskAgreesAtRest
<1>1. Session => DiskAgreesAtRest
  BY DEF Session, SessionInv, DiskInv, DiskAgreesAtRest
<1> QED
  BY <1>1, SessionAlways, PTL

\* A write is handled a second time only when its answer, or its removal from
\* what is stored, was lost.
THEOREM WritesRunOnce == Spec => []RunsOnce
<1>1. Session => RunsOnce
  BY DEF Session, SessionInv, OnceInv, RunsOnce
<1> QED
  BY <1>1, SessionAlways, PTL

\* pipeline.adopt puts what was recovered before everything replayable issued
\* from then on, in every session.
THEOREM RecoveredGoFirst == Spec => []RecoveredLandFirst
<1>1. Session => RecoveredLandFirst
  <2> SUFFICES ASSUME Session, NEW i \in DOMAIN landed, play.kind[landed[i]] # "action",
                      NEW w \in after[landed[i]]
               PROVE  \E j \in 1..(i - 1) : landed[j] = w
    BY DEF RecoveredLandFirst
  <2>1. Ordered(landed, {})
    BY DEF Session, SessionInv, OrderInv
  <2> QED
    BY <2>1 DEF Ordered, Behind
<1> QED
  BY <1>1, SessionAlways, PTL
=============================================================================
