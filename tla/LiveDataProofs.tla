--------------------------- MODULE LiveDataProofs ---------------------------
(***************************************************************************)
(* What holds of the live side for any application: any live queries,      *)
(* one-shot queries, relations and plans, and any interleaving of mounts,  *)
(* microtasks, requests, faults and events.                                *)
(*                                                                         *)
(* RefsExact is inductive once it is said of finite sets of users.  Every  *)
(* step that changes them is shown to change the count by as much: a mount *)
(* adds one user of one channel, an unmount takes all of a live query, a   *)
(* recompute exchanges one relation's.                                     *)
(*                                                                         *)
(* OneRefresh follows from OneEach: whatever is under way, for a channel   *)
(* that refreshes or a query that waits, is in exactly one place: batched, *)
(* in one message, or one microtask.  Sequences are seen through which of  *)
(* their elements are in a set (None, One), and a step through how many    *)
(* elements of the set it leaves where.                                    *)
(*                                                                         *)
(* PreloadedIsLocal follows from PreInv: what a query seeks is what its    *)
(* call, its message and its task are about, and what it joined the cache  *)
(* knows, which never forgets.                                             *)
(*                                                                         *)
(* The feeds come first, since the live side is built on them.  They       *)
(* implement ChangeBroadcast for any instances, clients and changes:       *)
(* FeedInv says of what is on its way that a message of another instance   *)
(* carries a change that was made, that its receiver was not told of, and  *)
(* that no other such message to this receiver carries.                    *)
(***************************************************************************)
EXTENDS LiveDataProperties, SequenceTheorems, FiniteSetTheorems, TLAPS

----------------------------------------------------------------------------
(* The feeds of the instances.                                             *)

\* The queue to s, what s told and what was made.
Foreign(s, queue, i) == i \in 1..Len(queue) /\ queue[i].origin # s
Waits(s, queue, told, done) ==
  /\ \A i \in 1..Len(queue) : Foreign(s, queue, i) =>
        /\ queue[i].change \in done
        /\ \A k \in 1..Len(told) : told[k] # queue[i].change
  /\ \A i, j \in 1..Len(queue) :
        Foreign(s, queue, i) /\ Foreign(s, queue, j) /\ queue[i].change = queue[j].change
          => i = j
  /\ \A k \in 1..Len(told) : told[k] \in done

FeedInv ==
  /\ made \subseteq Changes
  /\ fired \in [Instances -> Seq(Changes)]
  /\ bus \in [Instances -> Seq(Envelopes)]
  /\ \A s \in Instances : Waits(s, bus[s], fired[s], made)

LEMMA FeedInitially == FeedInit => FeedInv
  BY DEF FeedInit, FeedInv, Waits, Foreign

\* A new change told here, its own message coming back.
LEMMA ToldHere ==
  ASSUME NEW s, NEW queue \in Seq(Envelopes), NEW told \in Seq(Changes),
         NEW done \in SUBSET Changes, NEW c \in Changes, NEW e \in Envelopes,
         Waits(s, queue, told, done), c \notin done, e.origin = s
  PROVE Waits(s, Append(queue, e), Append(told, c), done \cup {c})
<1> DEFINE q == Append(queue, e)
           t == Append(told, c)
<1>1. /\ Len(q) = Len(queue) + 1 /\ Len(queue) \in Nat
      /\ \A i \in 1..Len(queue) : q[i] = queue[i]
      /\ q[Len(queue) + 1] = e
  OBVIOUS
<1>2. /\ Len(t) = Len(told) + 1 /\ Len(told) \in Nat
      /\ \A k \in 1..Len(told) : t[k] = told[k]
      /\ t[Len(told) + 1] = c
  OBVIOUS
<1> HIDE DEF q, t
<1>3. \A i \in 1..Len(q) : Foreign(s, q, i) => i \in 1..Len(queue) /\ Foreign(s, queue, i)
  BY <1>1 DEF Foreign
<1>4. ASSUME NEW i \in 1..Len(q), Foreign(s, q, i)
      PROVE /\ q[i].change \in done
            /\ \A k \in 1..Len(t) : t[k] # q[i].change
  <2>1. i \in 1..Len(queue) /\ q[i] = queue[i] /\ Foreign(s, queue, i)
    BY <1>1, <1>3, <1>4
  <2>2. q[i].change \in done /\ \A k \in 1..Len(told) : told[k] # q[i].change
    BY <2>1 DEF Waits
  <2> QED
    BY <1>2, <2>2
<1>5. \A i, j \in 1..Len(q) :
         Foreign(s, q, i) /\ Foreign(s, q, j) /\ q[i].change = q[j].change => i = j
  BY <1>1, <1>3 DEF Waits
<1>6. \A k \in 1..Len(t) : t[k] \in done \cup {c}
  BY <1>2 DEF Waits
<1>7. Waits(s, q, t, done \cup {c})
  BY <1>4, <1>5, <1>6 DEF Waits
<1> QED
  BY <1>7 DEF q, t

\* A new change on its way to another instance.
LEMMA SentThere ==
  ASSUME NEW s, NEW queue \in Seq(Envelopes), NEW told \in Seq(Changes),
         NEW done \in SUBSET Changes, NEW c \in Changes, NEW e \in Envelopes,
         Waits(s, queue, told, done), c \notin done, e.change = c
  PROVE Waits(s, Append(queue, e), told, done \cup {c})
<1> DEFINE q == Append(queue, e)
<1>1. /\ Len(q) = Len(queue) + 1 /\ Len(queue) \in Nat
      /\ \A i \in 1..Len(queue) : q[i] = queue[i]
      /\ q[Len(queue) + 1] = e
  OBVIOUS
<1> HIDE DEF q
<1>2. \A i \in 1..Len(queue) : Foreign(s, q, i) => Foreign(s, queue, i)
  BY <1>1 DEF Foreign
<1>3. \A i \in 1..Len(q) : i \in 1..Len(queue) \/ (i = Len(queue) + 1 /\ q[i].change = c)
  BY <1>1
<1>4. \A i \in 1..Len(queue) : Foreign(s, q, i) => q[i].change \in done
  BY <1>1, <1>2 DEF Waits
<1>5. ASSUME NEW i \in 1..Len(q), Foreign(s, q, i)
      PROVE q[i].change \in done \cup {c} /\ \A k \in 1..Len(told) : told[k] # q[i].change
  BY <1>1, <1>2, <1>3, <1>5 DEF Waits
<1>6. ASSUME NEW i \in 1..Len(q), NEW j \in 1..Len(q), Foreign(s, q, i), Foreign(s, q, j),
             q[i].change = q[j].change
      PROVE i = j
  <2>1. CASE i \in 1..Len(queue) /\ j \in 1..Len(queue)
    BY <1>1, <1>2, <1>6, <2>1 DEF Waits
  <2> QED
    BY <1>3, <1>4, <1>6, <2>1
<1>7. \A k \in 1..Len(told) : told[k] \in done \cup {c}
  BY DEF Waits
<1>8. Waits(s, q, told, done \cup {c})
  BY <1>5, <1>6, <1>7 DEF Waits
<1> QED
  BY <1>8 DEF q

\* The first message is taken off, and told if it is another's.
LEMMA TakenOff ==
  ASSUME NEW s, NEW queue \in Seq(Envelopes), NEW told \in Seq(Changes),
         NEW done \in SUBSET Changes, queue # <<>>, Waits(s, queue, told, done)
  PROVE /\ Waits(s, Tail(queue), told, done)
        /\ Head(queue).origin # s =>
             /\ Head(queue).change \in done
             /\ \A k \in 1..Len(told) : told[k] # Head(queue).change
             /\ Waits(s, Tail(queue), Append(told, Head(queue).change), done)
<1> DEFINE q == Tail(queue)
           m == Head(queue)
           t == Append(told, m.change)
<1>1. /\ Len(q) = Len(queue) - 1 /\ Len(queue) \in Nat /\ Len(queue) > 0
      /\ \A i \in 1..Len(q) : q[i] = queue[i + 1]
      /\ m = queue[1] /\ m.change \in Changes
  <2>1. /\ Len(q) = Len(queue) - 1 /\ Len(queue) \in Nat /\ Len(queue) > 0
        /\ \A i \in 1..Len(q) : q[i] = queue[i + 1]
        /\ m = queue[1]
    OBVIOUS
  <2>2. queue[1] \in Envelopes
    BY <2>1
  <2> QED
    BY <2>1, <2>2 DEF Envelopes
<1>2. /\ Len(t) = Len(told) + 1 /\ Len(told) \in Nat
      /\ \A k \in 1..Len(told) : t[k] = told[k]
      /\ t[Len(told) + 1] = m.change
  BY <1>1
<1> HIDE DEF q, m, t
<1>3. \A i \in 1..Len(q) : /\ i + 1 \in 1..Len(queue) /\ i + 1 # 1 /\ i \in Int
                           /\ Foreign(s, q, i) => Foreign(s, queue, i + 1)
  BY <1>1 DEF Foreign
<1>4. \A i \in 1..Len(q) : Foreign(s, q, i) =>
         /\ q[i].change \in done
         /\ \A k \in 1..Len(told) : told[k] # q[i].change
  BY <1>1, <1>3 DEF Waits
<1>5. ASSUME NEW i \in 1..Len(q), NEW j \in 1..Len(q), Foreign(s, q, i), Foreign(s, q, j),
             q[i].change = q[j].change
      PROVE i = j
  <2>1. i + 1 = j + 1
    BY <1>1, <1>3, <1>5 DEF Waits
  <2> QED
    BY <2>1
<1>6. Waits(s, q, told, done)
  BY <1>4, <1>5 DEF Waits
<1>7. ASSUME m.origin # s
      PROVE /\ m.change \in done /\ \A k \in 1..Len(told) : told[k] # m.change
            /\ Waits(s, q, t, done)
  <2>1. Foreign(s, queue, 1) /\ 1 \in 1..Len(queue)
    BY <1>1, <1>7 DEF Foreign
  <2>2. m.change \in done /\ \A k \in 1..Len(told) : told[k] # m.change
    BY <1>1, <2>1 DEF Waits
  <2>3. \A i \in 1..Len(q) : Foreign(s, q, i) => q[i].change # m.change
    BY <1>1, <1>3, <2>1 DEF Waits
  <2>4. \A i \in 1..Len(q) : Foreign(s, q, i) => \A k \in 1..Len(t) : t[k] # q[i].change
    BY <1>2, <1>4, <2>3
  <2>5. \A k \in 1..Len(t) : t[k] \in done
    BY <1>2, <2>2 DEF Waits
  <2>6. Waits(s, q, t, done)
    BY <1>4, <1>5, <2>4, <2>5 DEF Waits
  <2> QED
    BY <2>2, <2>6
<1> QED
  BY <1>6, <1>7 DEF q, m, t

----------------------------------------------------------------------------
(* The steps.                                                              *)

LEMMA AcceptKeeps ==
  ASSUME FeedInv, NEW s \in Instances, NEW c \in Changes, Accept(s, c)
  PROVE FeedInv'
<1> DEFINE e == Envelope(s, c)
<1>1. /\ c \notin made /\ made' = made \cup {c}
      /\ fired' = [fired EXCEPT ![s] = Append(@, c)]
      /\ bus' = [t \in Instances |-> Append(bus[t], e)]
  BY DEF Accept, Emit, Published, Publish
<1>2. e \in Envelopes /\ e.origin = s /\ e.change = c
  BY DEF Envelope, Envelopes
<1> HIDE DEF e
<1>3. made' \subseteq Changes /\ fired' \in [Instances -> Seq(Changes)]
  BY <1>1 DEF FeedInv
<1>4. bus' \in [Instances -> Seq(Envelopes)]
  BY <1>1, <1>2 DEF FeedInv
<1>5. ASSUME NEW t \in Instances PROVE Waits(t, bus'[t], fired'[t], made')
  <2>1. /\ bus[t] \in Seq(Envelopes) /\ fired[t] \in Seq(Changes) /\ made \in SUBSET Changes
        /\ Waits(t, bus[t], fired[t], made)
    BY DEF FeedInv
  <2>2. CASE t = s
    <3>1. bus'[t] = Append(bus[t], e) /\ fired'[t] = Append(fired[t], c)
      BY <1>1, <2>2 DEF FeedInv
    <3>2. Waits(t, Append(bus[t], e), Append(fired[t], c), made \cup {c})
      BY <1>1, <1>2, <2>1, <2>2, ToldHere
    <3> QED
      BY <1>1, <3>1, <3>2
  <2>3. CASE t # s
    <3>1. bus'[t] = Append(bus[t], e) /\ fired'[t] = fired[t]
      BY <1>1, <2>3 DEF FeedInv
    <3>2. Waits(t, Append(bus[t], e), fired[t], made \cup {c})
      BY <1>1, <1>2, <2>1, SentThere
    <3> QED
      BY <1>1, <3>1, <3>2
  <2> QED
    BY <2>2, <2>3
<1> QED
  BY <1>3, <1>4, <1>5 DEF FeedInv

LEMMA RelayKeeps ==
  ASSUME FeedInv, NEW s \in Instances, Relay(s)
  PROVE /\ FeedInv'
        /\ \/ UNCHANGED <<made, fired>>
           \/ \E c \in Changes : /\ c \in made
                                 /\ \A k \in 1..Len(fired[s]) : fired[s][k] # c
                                 /\ fired' = [fired EXCEPT ![s] = Append(@, c)]
<1> DEFINE m == Head(bus[s])
<1>1. /\ bus[s] \in Seq(Envelopes) /\ bus[s] # <<>> /\ fired[s] \in Seq(Changes)
      /\ made \in SUBSET Changes /\ made' = made
      /\ Waits(s, bus[s], fired[s], made)
  BY DEF FeedInv, Relay
<1>2. Tail(bus[s]) \in Seq(Envelopes) /\ m \in Envelopes /\ m.change \in Changes
  <2>1. Head(bus[s]) \in Envelopes /\ Tail(bus[s]) \in Seq(Envelopes)
    BY <1>1
  <2> QED
    BY <2>1 DEF Envelopes
<1> HIDE DEF m
<1>3. bus' = [bus EXCEPT ![s] = Tail(@)]
  BY DEF Relay, Emit, Published
<1>4. /\ bus' \in [Instances -> Seq(Envelopes)] /\ bus'[s] = Tail(bus[s])
      /\ \A t \in Instances : t # s => bus'[t] = bus[t]
  BY <1>2, <1>3 DEF FeedInv
<1>5. CASE m.origin = s
  <2>1. UNCHANGED fired
    BY <1>5 DEF Relay, m
  <2>2. Waits(s, bus'[s], fired'[s], made')
    BY <1>1, <1>4, <2>1, TakenOff
  <2>3. \A t \in Instances : Waits(t, bus'[t], fired'[t], made')
    BY <1>1, <1>4, <2>1, <2>2 DEF FeedInv
  <2> QED
    BY <1>1, <1>4, <2>1, <2>3 DEF FeedInv
<1>6. CASE m.origin # s
  <2>1. fired' = [fired EXCEPT ![s] = Append(@, m.change)]
    BY <1>6 DEF Relay, Emit, m
  <2>2. /\ fired' \in [Instances -> Seq(Changes)] /\ fired'[s] = Append(fired[s], m.change)
        /\ \A t \in Instances : t # s => fired'[t] = fired[t]
    BY <1>2, <2>1 DEF FeedInv
  <2>3. /\ m.change \in made /\ \A k \in 1..Len(fired[s]) : fired[s][k] # m.change
        /\ Waits(s, bus'[s], fired'[s], made')
    <3>1. Head(bus[s]).origin # s
      BY <1>6 DEF m
    <3>2. /\ m.change \in made /\ \A k \in 1..Len(fired[s]) : fired[s][k] # m.change
          /\ Waits(s, Tail(bus[s]), Append(fired[s], m.change), made)
      BY <1>1, <3>1, TakenOff DEF m
    <3> QED
      BY <1>1, <1>4, <2>2, <3>2
  <2>4. \A t \in Instances : Waits(t, bus'[t], fired'[t], made')
    BY <1>1, <1>4, <2>2, <2>3 DEF FeedInv
  <2> QED
    BY <1>1, <1>2, <1>4, <2>1, <2>2, <2>3, <2>4 DEF FeedInv
<1> QED
  BY <1>5, <1>6

\* The other steps leave changes and messages alone.
LEMMA OthersKeep ==
  ASSUME FeedInv, UNCHANGED <<made, fired, bus>>
  PROVE FeedInv'
  BY DEF FeedInv

\* Every step of the feeds is a step of the broadcast.
LEMMA FeedStep ==
  ASSUME FeedInv, [FeedNext]_feedVars
  PROVE FeedInv' /\ [Broadcast!Next]_<<made, fired>>
<1>1. ASSUME NEW s \in Instances, NEW c \in Changes, Accept(s, c)
      PROVE FeedInv' /\ [Broadcast!Next]_<<made, fired>>
  <2>1. FeedInv'
    BY <1>1, AcceptKeeps
  <2>2. Broadcast!Make(s, c)
    BY <1>1 DEF Accept, Emit, Broadcast!Make
  <2> QED
    BY <2>1, <2>2 DEF Broadcast!Next
<1>2. ASSUME NEW s \in Instances, Relay(s)
      PROVE FeedInv' /\ [Broadcast!Next]_<<made, fired>>
  <2>1. FeedInv'
    BY <1>2, RelayKeeps
  <2>2. CASE UNCHANGED <<made, fired>>
    BY <2>1, <2>2
  <2>3. ASSUME NEW c \in Changes, c \in made,
               \A k \in 1..Len(fired[s]) : fired[s][k] # c,
               fired' = [fired EXCEPT ![s] = Append(@, c)]
        PROVE Broadcast!Tell(s, c)
    <3>1. fired[s] \in Seq(Changes)
      BY DEF FeedInv
    <3>2. c \notin Broadcast!Range(fired[s])
      BY <2>3, <3>1 DEF Broadcast!Range
    <3> QED
      BY <1>2, <2>3, <3>2 DEF Broadcast!Tell, Relay
  <2> QED
    BY <1>2, <2>1, <2>2, <2>3, RelayKeeps DEF Broadcast!Next
<1>3. CASE UNCHANGED <<made, fired, bus>>
  BY <1>3, OthersKeep
<1> QED
  BY <1>1, <1>2, <1>3 DEF FeedNext, feedVars, Disconnect, Reconnect, Takes

(* Whatever the order of messages, and however clients come and go, the    *)
(* feeds of the instances tell of every change once at most                *)
(* (change-feed.ts:46-66: relaying, origin).                               *)
THEOREM FeedKeepsBroadcast == FeedInit /\ [][FeedNext]_feedVars => KeepsBroadcast
<1>1. FeedInit => Broadcast!Init
  BY DEF FeedInit, Broadcast!Init
<1>2. FeedInv /\ [FeedNext]_feedVars => FeedInv' /\ [Broadcast!Next]_<<made, fired>>
  BY FeedStep
<1> QED
  BY <1>1, <1>2, FeedInitially, PTL DEF KeepsBroadcast, Broadcast!Spec

----------------------------------------------------------------------------
(* Channels and their users.                                               *)

ChannelParts == {"stored", "refs", "timer", "refreshing", "synced", "online", "error", "last",
                 "behind"}
IsChannel(ch) ==
  /\ ch = [part \in ChannelParts |-> ch[part]]
  /\ ch.refs \in Int

\* The state of a channel with the users U.
Counts(ch, U) ==
  /\ IsChannel(ch) /\ IsFiniteSet(U)
  /\ ch.refs = Cardinality(U)
  /\ U # {} => ch.stored
  /\ ch.timer <=> ch.stored /\ ch.refs = 0

RefInv ==
  /\ mounted \subseteq Views
  /\ kids = [v \in Views |-> kids[v]]
  /\ \A v \in Views : IsFiniteSet(DOMAIN kids[v])
  /\ channels = [p \in Plans |-> channels[p]]
  /\ \A p \in Plans : Counts(channels[p], Users(p))

\* A state of all channels.
IsStore(S) ==
  /\ S.channels = [p \in Plans |-> S.channels[p]]
  /\ \A p \in Plans : IsChannel(S.channels[p])

\* The part of a channel the users decide.
Same(ch, of) == ch.refs = of.refs /\ ch.stored = of.stored /\ ch.timer = of.timer

----------------------------------------------------------------------------
(* Operations of the store.                                                *)

LEMMA SameCounts ==
  ASSUME NEW ch, NEW of, NEW U, Counts(of, U), IsChannel(ch), Same(ch, of)
  PROVE  Counts(ch, U)
  BY DEF Counts, Same

LEMMA RefreshKeeps ==
  ASSUME NEW S, IsStore(S), NEW P
  PROVE  /\ IsStore(Refresh(S, P))
         /\ \A p \in Plans : Same(Refresh(S, P).channels[p], S.channels[p])
<1> DEFINE after(p) == [S.channels[p] EXCEPT !.refreshing = TRUE, !.behind = FALSE]
<1>1. ASSUME NEW p \in Plans PROVE IsChannel(after(p)) /\ Same(after(p), S.channels[p])
  BY DEF IsStore, IsChannel, ChannelParts, Same
<1>2. ASSUME NEW p \in Plans PROVE IsChannel(S.channels[p]) /\ Same(S.channels[p], S.channels[p])
  BY DEF IsStore, Same
<1>3. \A p \in Plans : Refresh(S, P).channels[p] \in {after(p), S.channels[p]}
  BY DEF Refresh
<1>4. Refresh(S, P).channels = [p \in Plans |-> Refresh(S, P).channels[p]]
  BY DEF Refresh
<1> HIDE DEF after
<1> QED  BY <1>1, <1>2, <1>3, <1>4 DEF IsStore

LEMMA TakenIsChannel ==
  ASSUME NEW ch, IsChannel(ch)
  PROVE  /\ IsChannel(Taken(ch)) /\ Taken(ch).refs = ch.refs + 1
         /\ Taken(ch).stored = TRUE /\ Taken(ch).timer = FALSE
<1>1. /\ Taken(ch).refs = ch.refs + 1
      /\ Taken(ch).stored = TRUE /\ Taken(ch).timer = FALSE
  BY DEF IsChannel, ChannelParts, Taken
<1>2. DOMAIN Taken(ch) = ChannelParts
  BY DEF IsChannel, Taken
<1>3. Taken(ch) = [part \in ChannelParts |-> Taken(ch)[part]]
  BY <1>2 DEF IsChannel, Taken
<1> QED  BY <1>1, <1>3 DEF IsChannel

LEMMA LeftIsChannel ==
  ASSUME NEW ch, IsChannel(ch), NEW n \in Nat
  PROVE  /\ IsChannel(Left(ch, n)) /\ Left(ch, n).refs = ch.refs - n
         /\ Left(ch, n).stored = ch.stored
         /\ Left(ch, n).timer <=> ch.timer \/ ch.refs = n
<1> DEFINE armed == ch.timer \/ ch.refs = n
<1>1. armed \in BOOLEAN
  OBVIOUS
<1>2. Left(ch, n) = [ch EXCEPT !.refs = @ - n, !.timer = armed]
  BY Zenon DEF Left
<1> HIDE DEF armed
<1>3. /\ Left(ch, n).refs = ch.refs - n
      /\ Left(ch, n).stored = ch.stored /\ Left(ch, n).timer = armed
  BY <1>2 DEF IsChannel, ChannelParts
<1>4. Left(ch, n) = [part \in ChannelParts |-> Left(ch, n)[part]]
  BY <1>2 DEF IsChannel
<1>5. IsChannel(Left(ch, n))
  BY <1>1, <1>3, <1>4 DEF IsChannel
<1> QED  BY <1>3, <1>5 DEF armed

\* acquire: one user more.
LEMMA AcquireCounts ==
  ASSUME NEW S, IsStore(S), "channels" \in DOMAIN S, NEW p
  PROVE  /\ IsStore(Acquire(S, p))
         /\ \A q \in Plans : IF q = p
              THEN /\ Acquire(S, p).channels[q].refs = S.channels[q].refs + 1
                   /\ Acquire(S, p).channels[q].stored = TRUE
                   /\ Acquire(S, p).channels[q].timer = FALSE
              ELSE Same(Acquire(S, p).channels[q], S.channels[q])
<1> DEFINE held == [S EXCEPT !.channels[p] = Taken(@)]
<1>1. held.channels = [S.channels EXCEPT ![p] = Taken(@)]
  OBVIOUS
<1>2. p \in Plans => /\ IsChannel(Taken(S.channels[p]))
                     /\ Taken(S.channels[p]).refs = S.channels[p].refs + 1
                     /\ Taken(S.channels[p]).stored = TRUE
                     /\ Taken(S.channels[p]).timer = FALSE
  BY TakenIsChannel DEF IsStore
<1>3. \A q \in Plans : held.channels[q] = IF q = p THEN Taken(S.channels[q])
                                          ELSE S.channels[q]
  BY <1>1 DEF IsStore
<1>4. held.channels = [q \in Plans |-> held.channels[q]]
  BY <1>1 DEF IsStore
<1>6. Acquire(S, p) = held \/ Acquire(S, p) = Refresh(held, {p})
  BY Zenon DEF Acquire
<1> HIDE DEF held
<1>5. IsStore(held)
  BY <1>2, <1>3, <1>4 DEF IsStore
<1>7. /\ IsStore(Acquire(S, p))
      /\ \A q \in Plans : Same(Acquire(S, p).channels[q], held.channels[q])
  BY <1>5, <1>6, RefreshKeeps DEF Same
<1> QED  BY <1>2, <1>3, <1>7 DEF Same

\* release: n[q] users less of each q.
LEMMA ReleaseCounts ==
  ASSUME NEW S, IsStore(S), "channels" \in DOMAIN S, NEW n \in [Plans -> Nat]
  PROVE  /\ IsStore(Release(S, n)) /\ "channels" \in DOMAIN Release(S, n)
         /\ \A q \in Plans :
              Release(S, n).channels[q] = IF n[q] = 0 THEN S.channels[q]
                                          ELSE Left(S.channels[q], n[q])
<1>1. /\ Release(S, n).channels = [q \in Plans |-> IF n[q] = 0 THEN S.channels[q]
                                                 ELSE Left(S.channels[q], n[q])]
      /\ "channels" \in DOMAIN Release(S, n)
  BY DEF Release
<1>2. \A q \in Plans : IsChannel(S.channels[q]) /\ IsChannel(Left(S.channels[q], n[q]))
  BY LeftIsChannel DEF IsStore
<1> QED  BY <1>1, <1>2 DEF IsStore

----------------------------------------------------------------------------
(* Users come and go.                                                      *)

LEMMA OneMore ==
  ASSUME NEW of, NEW U, Counts(of, U), NEW x, x \notin U,
         NEW ch, IsChannel(ch), ch.refs = of.refs + 1, ch.stored = TRUE, ch.timer = FALSE
  PROVE  Counts(ch, U \cup {x})
<1>1. IsFiniteSet(U \cup {x}) /\ Cardinality(U \cup {x}) = Cardinality(U) + 1
  BY FS_AddElement DEF Counts
<1>2. Cardinality(U) \in Nat
  BY FS_CardinalityType DEF Counts
<1> QED  BY <1>1, <1>2 DEF Counts

LEMMA SomeLess ==
  ASSUME NEW of, NEW U, Counts(of, U), NEW M, M \subseteq U, M # {},
         NEW ch, ch = Left(of, Cardinality(M))
  PROVE  Counts(ch, U \ M)
<1> DEFINE n == Cardinality(M)
<1>1. IsFiniteSet(U) /\ IsFiniteSet(M)
  BY FS_Subset DEF Counts
<1>2. n \in Nat /\ n # 0 /\ Cardinality(U) \in Nat /\ n <= Cardinality(U)
  BY <1>1, FS_CardinalityType, FS_EmptySet, FS_Subset
<1>3. U \cap M = M
  OBVIOUS
<1>4. IsFiniteSet(U \ M) /\ Cardinality(U \ M) = Cardinality(U) - n
  BY <1>1, <1>3, FS_Difference
<1>5. /\ IsChannel(ch) /\ ch.refs = of.refs - n /\ ch.stored = of.stored
      /\ ch.timer <=> of.timer \/ of.refs = n
  BY <1>2, LeftIsChannel DEF Counts
<1>6. of.stored /\ of.refs = Cardinality(U) /\ ~of.timer
  BY <1>2 DEF Counts
<1> HIDE DEF n
<1> QED  BY <1>2, <1>4, <1>5, <1>6 DEF Counts

----------------------------------------------------------------------------
(* The users, of the mounted m and the relations held k.                   *)

Using(m, k, p) ==
  {<<w>> : w \in {u \in m : PlanOf[u] = p}}
  \cup UNION {{w} \X {spec \in DOMAIN k[w] : k[w][spec] = p} : w \in Views}

LEMMA UsersAreUsing ==
  \A p : Users(p) = Using(mounted, kids, p) /\ Users(p)' = Using(mounted', kids', p)
  BY DEF Users, Using, Relations

LEMMA UsingIs ==
  ASSUME NEW m, NEW k, NEW p, NEW x
  PROVE  x \in Using(m, k, p) <=>
           \/ \E w \in m : PlanOf[w] = p /\ x = <<w>>
           \/ \E w \in Views : \E spec \in DOMAIN k[w] : k[w][spec] = p /\ x = <<w, spec>>
<1>1. x \in {<<w>> : w \in {u \in m : PlanOf[u] = p}}
        <=> \E w \in m : PlanOf[w] = p /\ x = <<w>>
  OBVIOUS
<1>2. ASSUME NEW w
      PROVE  x \in {w} \X {spec \in DOMAIN k[w] : k[w][spec] = p}
               <=> \E spec \in DOMAIN k[w] : k[w][spec] = p /\ x = <<w, spec>>
  OBVIOUS
<1>3. x \in UNION {{w} \X {spec \in DOMAIN k[w] : k[w][spec] = p} : w \in Views}
        <=> \E w \in Views : x \in {w} \X {spec \in DOMAIN k[w] : k[w][spec] = p}
  OBVIOUS
<1> QED  BY <1>1, <1>2, <1>3 DEF Using

LEMMA BaseUses ==
  ASSUME NEW m, NEW k, NEW p, NEW v
  PROVE  <<v>> \in Using(m, k, p) <=> v \in m /\ PlanOf[v] = p
<1>1. \A w, spec : <<v>> # <<w, spec>>
  OBVIOUS
<1>2. \A w : <<v>> = <<w>> => v = w
  OBVIOUS
<1> QED  BY <1>1, <1>2, UsingIs

LEMMA RelationUses ==
  ASSUME NEW m, NEW k, NEW p, NEW v, NEW spec
  PROVE  <<v, spec>> \in Using(m, k, p)
           <=> v \in Views /\ spec \in DOMAIN k[v] /\ k[v][spec] = p
<1>1. \A w, other : <<v, spec>> # <<w>> /\ (<<v, spec>> = <<w, other>> => v = w /\ spec = other)
  OBVIOUS
<1> QED  BY <1>1, UsingIs

LEMMA UsingMount ==
  ASSUME NEW m, NEW k, NEW p, NEW v
  PROVE  /\ PlanOf[v] = p => Using(m \cup {v}, k, p) = Using(m, k, p) \cup {<<v>>}
         /\ PlanOf[v] # p => Using(m \cup {v}, k, p) = Using(m, k, p)
<1> DEFINE more == IF PlanOf[v] = p THEN Using(m, k, p) \cup {<<v>>} ELSE Using(m, k, p)
<1>1. ASSUME NEW x PROVE x \in Using(m \cup {v}, k, p) <=> x \in more
  <2>1. CASE \E w : x = <<w>>
    <3> PICK w : x = <<w>>
      BY <2>1
    <3>1. <<w>> \in Using(m \cup {v}, k, p) <=> w \in m \cup {v} /\ PlanOf[w] = p
      BY BaseUses
    <3>2. <<w>> \in Using(m, k, p) <=> w \in m /\ PlanOf[w] = p
      BY BaseUses
    <3>3. <<w>> = <<v>> <=> w = v
      OBVIOUS
    <3> QED  BY <3>1, <3>2, <3>3
  <2>2. CASE ~(\E w : x = <<w>>)
    <3>1. x \in Using(m \cup {v}, k, p) <=> x \in Using(m, k, p)
      BY <2>2, UsingIs
    <3>2. x # <<v>>
      BY <2>2
    <3> QED  BY <3>1, <3>2
  <2> QED  BY <2>1, <2>2
<1> HIDE DEF more
<1>2. Using(m \cup {v}, k, p) = more
  BY <1>1
<1> QED  BY <1>2 DEF more

\* The users v is.
Mine(k, v, p) ==
  {u \in {<<v>>} : PlanOf[v] = p} \cup ({v} \X {spec \in DOMAIN k[v] : k[v][spec] = p})

PerView(k) == k = [w \in Views |-> k[w]]

\* The relations held after v gave up its own.
Emptied(k, v) == [k EXCEPT ![v] = <<>>]

LEMMA UsingUnmount ==
  ASSUME NEW m, NEW k, PerView(k), NEW p, NEW v \in Views
  PROVE  /\ Using(m \ {v}, Emptied(k, v), p) = Using(m, k, p) \ Mine(k, v, p)
         /\ v \in m => Mine(k, v, p) \subseteq Using(m, k, p)
<1> DEFINE after == Emptied(k, v)
<1>1. /\ \A w \in Views : w # v => after[w] = k[w]
      /\ after[v] = <<>>
  BY DEF Emptied, PerView
<1>2. DOMAIN after[v] = {}
  BY <1>1
<1> HIDE DEF after
<1>3. ASSUME NEW x
      PROVE  x \in Mine(k, v, p)
               <=> \/ PlanOf[v] = p /\ x = <<v>>
                   \/ \E spec \in DOMAIN k[v] : k[v][spec] = p /\ x = <<v, spec>>
  BY DEF Mine
<1>4. ASSUME NEW x
      PROVE  x \in Using(m \ {v}, after, p) <=> x \in Using(m, k, p) /\ x \notin Mine(k, v, p)
  <2>1. CASE \E w : x = <<w>>
    <3> PICK w : x = <<w>>
      BY <2>1
    <3>1. /\ x \in Using(m \ {v}, after, p) <=> w \in m \ {v} /\ PlanOf[w] = p
          /\ x \in Using(m, k, p) <=> w \in m /\ PlanOf[w] = p
      BY BaseUses
    <3>2. x \in Mine(k, v, p) <=> w = v /\ PlanOf[v] = p
      BY <1>3
    <3> QED  BY <3>1, <3>2
  <2>2. CASE \E w, spec : x = <<w, spec>>
    <3> PICK w, spec : x = <<w, spec>>
      BY <2>2
    <3>1. <<w, spec>> \in Using(m \ {v}, after, p)
            <=> w \in Views /\ spec \in DOMAIN after[w] /\ after[w][spec] = p
      BY RelationUses
    <3>2. <<w, spec>> \in Using(m, k, p) <=> w \in Views /\ spec \in DOMAIN k[w] /\ k[w][spec] = p
      BY RelationUses
    <3>3. x \in Mine(k, v, p) <=> w = v /\ spec \in DOMAIN k[v] /\ k[v][spec] = p
      BY <1>3
    <3> QED  BY <1>1, <1>2, <3>1, <3>2, <3>3
  <2>3. CASE ~(\E w : x = <<w>>) /\ ~(\E w, spec : x = <<w, spec>>)
    BY <2>3, UsingIs
  <2> QED  BY <2>1, <2>2, <2>3
<1>5. v \in m => Mine(k, v, p) \subseteq Using(m, k, p)
  BY <1>3, UsingIs
<1> QED  BY <1>4, <1>5 DEF after

LEMMA CardMine ==
  ASSUME NEW k, NEW v, NEW p, IsFiniteSet(DOMAIN k[v])
  PROVE  Cardinality(Mine(k, v, p))
           = (IF PlanOf[v] = p THEN 1 ELSE 0)
             + Cardinality({spec \in DOMAIN k[v] : k[v][spec] = p})
<1> DEFINE related == {spec \in DOMAIN k[v] : k[v][spec] = p}
<1>1. IsFiniteSet(related)
  BY FS_Subset
<1>2. IsFiniteSet({v}) /\ Cardinality({v}) = 1
  BY FS_Singleton
<1>3. Cardinality(related) \in Nat
  BY <1>1, FS_CardinalityType
<1> HIDE DEF related
<1>4. IsFiniteSet({v} \X related) /\ Cardinality({v} \X related) = Cardinality(related)
  BY <1>1, <1>2, <1>3, FS_Product
<1>5. <<v>> \notin {v} \X related
  OBVIOUS
<1>6. Mine(k, v, p) = IF PlanOf[v] = p THEN ({v} \X related) \cup {<<v>>} ELSE {v} \X related
  BY DEF Mine, related
<1>7. Cardinality(({v} \X related) \cup {<<v>>}) = Cardinality(related) + 1
  BY <1>4, <1>5, FS_AddElement
<1> QED  BY <1>3, <1>4, <1>6, <1>7 DEF related

\* The relations held after that of v to spec got the plan.
Exchanged(k, v, spec, plan) ==
  [k EXCEPT ![v] = [t \in (DOMAIN @ \cup {spec}) \ {s \in {spec} : plan = NoPlan} |->
                      IF t = spec THEN plan ELSE @[t]]]

LEMMA UsingExchange ==
  ASSUME NEW m, NEW k, PerView(k), NEW v \in Views, NEW spec, NEW plan,
         NEW p, p # NoPlan
  PROVE  Using(m, Exchanged(k, v, spec, plan), p)
           = (Using(m, k, p) \ {<<v, spec>>}) \cup {u \in {<<v, spec>>} : plan = p}
<1> DEFINE after == Exchanged(k, v, spec, plan)
<1>1. /\ \A w \in Views : w # v => after[w] = k[w]
      /\ after[v] = [t \in (DOMAIN k[v] \cup {spec}) \ {s \in {spec} : plan = NoPlan} |->
                       IF t = spec THEN plan ELSE k[v][t]]
  BY DEF Exchanged, PerView
<1> HIDE DEF after
<1>2. ASSUME NEW t
      PROVE  t \in DOMAIN after[v] /\ after[v][t] = p
               <=> IF t = spec THEN plan = p ELSE t \in DOMAIN k[v] /\ k[v][t] = p
  BY <1>1
<1> DEFINE exchanged == (Using(m, k, p) \ {<<v, spec>>}) \cup {u \in {<<v, spec>>} : plan = p}
<1>3. ASSUME NEW x PROVE x \in Using(m, after, p) <=> x \in exchanged
  <2>1. CASE \E w, t : x = <<w, t>>
    <3> PICK w, t : x = <<w, t>>
      BY <2>1
    <3>1. <<w, t>> \in Using(m, after, p)
            <=> w \in Views /\ t \in DOMAIN after[w] /\ after[w][t] = p
      BY RelationUses
    <3>2. <<w, t>> \in Using(m, k, p) <=> w \in Views /\ t \in DOMAIN k[w] /\ k[w][t] = p
      BY RelationUses
    <3>3. <<w, t>> = <<v, spec>> <=> w = v /\ t = spec
      OBVIOUS
    <3>4. CASE w = v
      BY <1>2, <3>1, <3>2, <3>3, <3>4
    <3>5. CASE w # v
      BY <1>1, <3>1, <3>2, <3>3, <3>5
    <3> QED  BY <3>4, <3>5
  <2>2. CASE ~(\E w, t : x = <<w, t>>)
    <3>1. x \in Using(m, after, p) <=> x \in Using(m, k, p)
      BY <2>2, UsingIs
    <3>2. x # <<v, spec>>
      BY <2>2
    <3> QED  BY <3>1, <3>2
  <2> QED  BY <2>1, <2>2
<1> HIDE DEF exchanged
<1>4. Using(m, after, p) = exchanged
  BY <1>3
<1> QED  BY <1>4 DEF after, exchanged

----------------------------------------------------------------------------
(* The steps.                                                              *)

LEMMA StoreIsStore ==
  ASSUME RefInv
  PROVE  IsStore(Store) /\ "channels" \in DOMAIN Store /\ Store.channels = channels
  BY DEF RefInv, IsStore, Store, Counts

\* A step that moves no user, and of the channels only what no count is.
LEMMA NoUserMoves ==
  ASSUME RefInv, UNCHANGED <<mounted, kids>>,
         channels' = [p \in Plans |-> channels'[p]],
         \A p \in Plans : IsChannel(channels'[p]) /\ Same(channels'[p], channels[p])
  PROVE  RefInv'
<1>1. ASSUME NEW p \in Plans PROVE Counts(channels[p], Users(p)) /\ Users(p)' = Users(p)
  BY UsersAreUsing DEF RefInv
<1>2. ASSUME NEW p \in Plans PROVE Counts(channels'[p], Users(p)')
  BY <1>1, SameCounts
<1> QED  BY <1>2 DEF RefInv

LEMMA ChannelsKept ==
  ASSUME RefInv, UNCHANGED <<mounted, kids, channels>>
  PROVE  RefInv'
<1>1. \A p \in Plans : IsChannel(channels[p]) /\ Same(channels[p], channels[p])
  BY DEF RefInv, Counts, Same
<1>2. channels' = [p \in Plans |-> channels'[p]]
  BY DEF RefInv
<1> QED  BY <1>1, <1>2, NoUserMoves

LEMMA RefMount ==
  ASSUME RefInv, NEW v \in Views, Mount(v)
  PROVE  RefInv'
<1> DEFINE S == Acquire(Store, PlanOf[v])
<1>1. /\ v \notin mounted /\ mounted' = mounted \cup {v} /\ kids' = kids
      /\ channels' = S.channels
  BY DEF Mount, KeepsStore
<1>2. /\ IsStore(S)
      /\ \A q \in Plans : IF q = PlanOf[v]
           THEN /\ S.channels[q].refs = channels[q].refs + 1
                /\ S.channels[q].stored = TRUE /\ S.channels[q].timer = FALSE
           ELSE Same(S.channels[q], channels[q])
  <2>1. IsStore(Store) /\ "channels" \in DOMAIN Store /\ Store.channels = channels
    BY StoreIsStore
  <2>2. /\ IsStore(S)
        /\ \A q \in Plans : IF q = PlanOf[v]
             THEN /\ S.channels[q].refs = Store.channels[q].refs + 1
                  /\ S.channels[q].stored = TRUE /\ S.channels[q].timer = FALSE
             ELSE Same(S.channels[q], Store.channels[q])
    BY <2>1, AcquireCounts
  <2> HIDE DEF S
  <2> QED  BY <2>1, <2>2
<1> HIDE DEF S
<1>3. ASSUME NEW p \in Plans PROVE Counts(channels'[p], Users(p)')
  <2>1. Counts(channels[p], Users(p)) /\ IsChannel(S.channels[p])
    BY <1>2 DEF RefInv, IsStore
  <2>2. CASE p = PlanOf[v]
    <3>1. <<v>> \notin Users(p)
      BY <1>1, BaseUses, UsersAreUsing
    <3>0. Using(mounted \cup {v}, kids, p) = Using(mounted, kids, p) \cup {<<v>>}
      <4>1. Using(mounted \cup {v}, kids, PlanOf[v])
              = Using(mounted, kids, PlanOf[v]) \cup {<<v>>}
        BY UsingMount
      <4> QED  BY <2>2, <4>1
    <3>2. Users(p)' = Users(p) \cup {<<v>>}
      BY <1>1, <3>0, UsersAreUsing
    <3>3. /\ S.channels[p].refs = channels[p].refs + 1
          /\ S.channels[p].stored = TRUE /\ S.channels[p].timer = FALSE
      BY <1>2, <2>2
    <3>4. Counts(S.channels[p], Users(p) \cup {<<v>>})
      BY <2>1, <3>1, <3>3, OneMore
    <3> QED  BY <1>1, <3>2, <3>4
  <2>3. CASE p # PlanOf[v]
    <3>0. Using(mounted \cup {v}, kids, p) = Using(mounted, kids, p)
      BY <2>3, UsingMount
    <3>1. Users(p)' = Users(p)
      BY <1>1, <3>0, UsersAreUsing
    <3> QED  BY <1>1, <1>2, <2>1, <2>3, <3>1, SameCounts
  <2> QED  BY <2>2, <2>3
<1>4. channels' = [p \in Plans |-> channels'[p]]
  BY <1>1, <1>2 DEF IsStore
<1> QED  BY <1>1, <1>3, <1>4 DEF RefInv

LEMMA RefUnmount ==
  ASSUME RefInv, NEW v \in Views, Unmount(v)
  PROVE  RefInv'
<1> DEFINE n == [p \in Plans |-> Holds(v, p)]
           S == Release(Store, n)
<1>1. /\ v \in mounted /\ mounted' = mounted \ {v}
      /\ kids' = Emptied(kids, v) /\ channels' = S.channels
  BY DEF Unmount, KeepsStore, Emptied
<1>2. \A p : Holds(v, p) = Cardinality(Mine(kids, v, p))
  BY CardMine DEF RefInv, Holds
<1>3. ASSUME NEW p \in Plans
      PROVE  /\ Users(p)' = Users(p) \ Mine(kids, v, p)
             /\ Mine(kids, v, p) \subseteq Users(p)
  <2>1. PerView(kids)
    BY DEF RefInv, PerView
  <2>2. /\ Using(mounted \ {v}, Emptied(kids, v), p)
             = Using(mounted, kids, p) \ Mine(kids, v, p)
        /\ Mine(kids, v, p) \subseteq Using(mounted, kids, p)
    BY <1>1, <2>1, UsingUnmount
  <2> QED  BY <1>1, <2>2, UsersAreUsing
<1>4. ASSUME NEW p \in Plans
      PROVE  /\ IsFiniteSet(Mine(kids, v, p)) /\ Holds(v, p) \in Nat
             /\ Holds(v, p) = 0 <=> Mine(kids, v, p) = {}
  <2>1. IsFiniteSet(Mine(kids, v, p))
    BY <1>3, FS_Subset DEF RefInv, Counts
  <2> QED  BY <1>2, <2>1, FS_CardinalityType, FS_EmptySet
<1>5. n \in [Plans -> Nat] /\ \A p \in Plans : n[p] = Holds(v, p)
  BY <1>4
<1> HIDE DEF n
<1>6. /\ IsStore(S)
      /\ \A p \in Plans : S.channels[p] = IF n[p] = 0 THEN channels[p] ELSE Left(channels[p], n[p])
  BY <1>5, StoreIsStore, ReleaseCounts
<1> HIDE DEF S
<1>7. ASSUME NEW p \in Plans PROVE Counts(channels'[p], Users(p)')
  <2>1. Counts(channels[p], Users(p))
    BY DEF RefInv
  <2>2. CASE Mine(kids, v, p) = {}
    BY <1>1, <1>3, <1>4, <1>5, <1>6, <2>1, <2>2
  <2>3. CASE Mine(kids, v, p) # {}
    <3>1. S.channels[p] = Left(channels[p], Cardinality(Mine(kids, v, p)))
      BY <1>2, <1>4, <1>5, <1>6, <2>3
    <3> QED  BY <1>1, <1>3, <2>1, <2>3, <3>1, SomeLess
  <2> QED  BY <2>2, <2>3
<1>8. channels' = [p \in Plans |-> channels'[p]]
  BY <1>1, <1>6 DEF IsStore
<1>9. /\ mounted' \subseteq Views /\ kids' = [w \in Views |-> kids'[w]]
      /\ \A w \in Views : kids'[w] = IF w = v THEN <<>> ELSE kids[w]
  BY <1>1 DEF RefInv, Emptied
<1>10. DOMAIN <<>> = {}
  OBVIOUS
<1>11. \A w \in Views : IsFiniteSet(DOMAIN kids'[w])
  BY <1>9, <1>10, FS_EmptySet DEF RefInv
<1> QED  BY <1>7, <1>8, <1>9, <1>11 DEF RefInv

LEMMA OneLess ==
  ASSUME NEW of, NEW U, Counts(of, U), NEW x \in U
  PROVE  Counts(Left(of, 1), U \ {x})
<1>1. Cardinality({x}) = 1
  BY FS_Singleton
<1> QED  BY <1>1, SomeLess

\* A recompute exchanges the channel it holds for one relation.
LEMMA ChildCounts ==
  ASSUME RefInv, NEW v \in mounted, NEW spec, NEW plan
  PROVE  LET S == ChildChannel(v, spec, plan)
             after(p) == (Users(p) \ {<<v, spec>>}) \cup {u \in {<<v, spec>>} : plan = p}
         IN IsStore(S) /\ \A p \in Plans : Counts(S.channels[p], after(p))
<1> DEFINE has == spec \in DOMAIN kids[v]
           old == IF has THEN kids[v][spec] ELSE NoPlan
           n == [p \in Plans |-> IF p = old THEN 1 ELSE 0]
           freed == IF has THEN Release(Store, n) ELSE Store
           S == ChildChannel(v, spec, plan)
           x == <<v, spec>>
           after(p) == (Users(p) \ {x}) \cup {u \in {x} : plan = p}
<1>0. v \in Views
  BY DEF RefInv
<1>1. ASSUME NEW p \in Plans PROVE x \in Users(p) <=> has /\ old = p
  BY <1>0, RelationUses, UsersAreUsing
<1>2. IsStore(Store) /\ "channels" \in DOMAIN Store /\ Store.channels = channels
  BY StoreIsStore
<1>3. n \in [Plans -> Nat] /\ \A p \in Plans : n[p] = IF p = old THEN 1 ELSE 0
  OBVIOUS
<1>4. S = IF old = plan THEN Store ELSE IF plan = NoPlan THEN freed ELSE Acquire(freed, plan)
  BY DEF ChildChannel
<1>5. \A p \in Plans : p # NoPlan
  BY LiveAssumption
<1>6. freed = Store \/ freed = Release(Store, n)
  OBVIOUS
<1>7. has => freed = Release(Store, n)
  OBVIOUS
<1>8. ~has => freed = Store /\ old = NoPlan
  OBVIOUS
<1> HIDE DEF n, freed, S, has, old
<1>9. IsStore(freed) /\ "channels" \in DOMAIN freed
  BY <1>2, <1>3, <1>6, ReleaseCounts
<1>10. ASSUME NEW p \in Plans
       PROVE  freed.channels[p] = IF p = old THEN Left(channels[p], 1) ELSE channels[p]
  <2>1. CASE has
    <3>1. Release(Store, n).channels[p] = IF n[p] = 0 THEN Store.channels[p]
                                          ELSE Left(Store.channels[p], n[p])
      BY <1>2, <1>3, ReleaseCounts
    <3> QED  BY <1>2, <1>3, <1>7, <2>1, <3>1
  <2>2. CASE ~has
    BY <1>2, <1>5, <1>8, <2>2
  <2> QED  BY <2>1, <2>2
<1>11. ASSUME NEW p \in Plans PROVE Counts(channels[p], Users(p))
  BY DEF RefInv
<1>12. ASSUME NEW p \in Plans PROVE Counts(freed.channels[p], Users(p) \ {x})
  <2>1. CASE p = old
    <3>1. x \in Users(p)
      BY <1>1, <1>5, <1>8, <2>1
    <3>2. Counts(Left(channels[p], 1), Users(p) \ {x})
      BY <1>11, <3>1, OneLess
    <3> QED  BY <1>10, <2>1, <3>2
  <2>2. CASE p # old
    <3>1. Users(p) \ {x} = Users(p)
      BY <1>1, <2>2
    <3> QED  BY <1>10, <1>11, <2>2, <3>1
  <2> QED  BY <2>1, <2>2
<1> HIDE DEF x
<1>13. CASE old = plan
  <2>1. S = Store
    BY <1>4, <1>13
  <2>2. ASSUME NEW p \in Plans PROVE after(p) = Users(p)
    BY <1>1, <1>5, <1>8, <1>13
  <2>3. ASSUME NEW p \in Plans PROVE Counts(S.channels[p], after(p))
    BY <1>2, <1>11, <2>1, <2>2
  <2> QED  BY <1>2, <2>1, <2>3 DEF S, x
<1>14. CASE old # plan /\ plan = NoPlan
  <2>1. S = freed
    BY <1>4, <1>14
  <2>2. ASSUME NEW p \in Plans PROVE after(p) = Users(p) \ {x}
    BY <1>5, <1>14
  <2>3. ASSUME NEW p \in Plans PROVE Counts(S.channels[p], after(p))
    BY <1>12, <2>1, <2>2
  <2> QED  BY <1>9, <2>1, <2>3 DEF S, x
<1>15. CASE old # plan /\ plan # NoPlan
  <2>1. S = Acquire(freed, plan)
    BY <1>4, <1>15
  <2>1a. /\ IsStore(Acquire(freed, plan))
         /\ \A q \in Plans : IF q = plan
              THEN /\ Acquire(freed, plan).channels[q].refs = freed.channels[q].refs + 1
                   /\ Acquire(freed, plan).channels[q].stored = TRUE
                   /\ Acquire(freed, plan).channels[q].timer = FALSE
              ELSE Same(Acquire(freed, plan).channels[q], freed.channels[q])
    BY ONLY <1>9, AcquireCounts
  <2>2. /\ IsStore(S)
        /\ \A q \in Plans : IF q = plan
             THEN /\ S.channels[q].refs = freed.channels[q].refs + 1
                  /\ S.channels[q].stored = TRUE /\ S.channels[q].timer = FALSE
             ELSE Same(S.channels[q], freed.channels[q])
    BY ONLY <2>1, <2>1a
  <2>3. ASSUME NEW p \in Plans PROVE Counts(S.channels[p], after(p))
    <3>1. IsChannel(S.channels[p])
      BY <2>2 DEF IsStore
    <3>2. CASE p = plan
      <4>1. /\ S.channels[p].refs = freed.channels[p].refs + 1
            /\ S.channels[p].stored = TRUE /\ S.channels[p].timer = FALSE
        BY <2>2, <3>2
      <4>2. x \notin Users(p) \ {x}
        OBVIOUS
      <4>3. Counts(S.channels[p], (Users(p) \ {x}) \cup {x})
        BY <1>12, <3>1, <4>1, <4>2, OneMore
      <4>4. after(p) = (Users(p) \ {x}) \cup {x}
        BY <3>2
      <4> QED  BY <4>3, <4>4
    <3>3. CASE p # plan
      <4>1. Same(S.channels[p], freed.channels[p])
        BY <2>2, <3>3
      <4>2. Counts(S.channels[p], Users(p) \ {x})
        BY <1>12, <3>1, <4>1, SameCounts
      <4>3. after(p) = Users(p) \ {x}
        BY <3>3
      <4> QED  BY <4>2, <4>3
    <3> QED  BY <3>2, <3>3
  <2> QED  BY <2>2, <2>3 DEF S, x
<1> QED  BY <1>13, <1>14, <1>15

LEMMA RefInclude ==
  ASSUME RefInv, Include
  PROVE  RefInv'
<1> DEFINE v == Task.view
           spec == Includes[v][Len(Task.kids) + 1]
           plan == ChildPlanFor(spec, PlanOf[v], Task.rows)
           S == ChildChannel(v, spec, plan)
<1>1. /\ mounted' = mounted /\ channels' = S.channels
      /\ kids' = IF v \notin mounted THEN kids ELSE Exchanged(kids, v, spec, plan)
  BY DEF Include, KeepsStore, Exchanged
<1> HIDE DEF v, spec, plan
<1>2. CASE v \notin mounted
  <2>1. S = Store
    BY <1>2 DEF ChildChannel
  <2>2. channels' = channels /\ kids' = kids
    BY <1>1, <1>2, <2>1, StoreIsStore
  <2> QED  BY <1>1, <2>2, ChannelsKept
<1>3. CASE v \in mounted
  <2> DEFINE after(p) == (Users(p) \ {<<v, spec>>}) \cup {u \in {<<v, spec>>} : plan = p}
  <2>1. IsStore(S) /\ \A p \in Plans : Counts(S.channels[p], after(p))
    BY <1>3, ChildCounts
  <2> HIDE DEF S
  <2>2. v \in Views /\ PerView(kids)
    BY <1>3 DEF RefInv, PerView
  <2>3. ASSUME NEW p \in Plans PROVE Users(p)' = after(p)
    <3>1. p # NoPlan
      BY LiveAssumption
    <3>2. Using(mounted, Exchanged(kids, v, spec, plan), p)
            = (Using(mounted, kids, p) \ {<<v, spec>>}) \cup {u \in {<<v, spec>>} : plan = p}
      BY <2>2, <3>1, UsingExchange
    <3> QED  BY <1>1, <1>3, <3>2, UsersAreUsing
  <2> HIDE DEF after
  <2>4. ASSUME NEW p \in Plans PROVE Counts(channels'[p], Users(p)')
    BY <1>1, <2>1, <2>3
  <2>5. channels' = [p \in Plans |-> channels'[p]]
    BY <1>1, <2>1 DEF IsStore
  <2>6. /\ PerView(kids')
        /\ \A w \in Views : w # v => kids'[w] = kids[w]
        /\ DOMAIN kids'[v] \subseteq DOMAIN kids[v] \cup {spec}
    BY <1>1, <1>3, <2>2 DEF Exchanged, PerView
  <2>7. IsFiniteSet(DOMAIN kids[v] \cup {spec})
    BY <2>2, FS_AddElement DEF RefInv
  <2>8. IsFiniteSet(DOMAIN kids'[v])
    BY <2>6, <2>7, FS_Subset
  <2>9. \A w \in Views : IsFiniteSet(DOMAIN kids'[w])
    BY <2>6, <2>8 DEF RefInv
  <2> QED  BY <1>1, <2>4, <2>5, <2>6, <2>9 DEF RefInv, PerView
<1> QED  BY <1>2, <1>3

LEMMA RefRetire ==
  ASSUME RefInv, NEW p \in Plans, Retire(p)
  PROVE  RefInv'
<1>1. /\ channels[p].timer /\ channels[p].refs <= 0 /\ UNCHANGED <<mounted, kids>>
      /\ channels' = [channels EXCEPT ![p] = NoChannel]
  BY DEF Retire, views
<1>2. Counts(channels[p], Users(p))
  BY DEF RefInv
<1>3. Users(p) = {}
  BY <1>1, <1>2, FS_EmptySet DEF Counts
<1>4. Counts(NoChannel, {})
  <2>1. IsChannel(NoChannel)
    BY DEF IsChannel, NoChannel, ChannelParts
  <2> QED  BY <2>1, FS_EmptySet DEF Counts, NoChannel
<1>5. /\ channels' = [q \in Plans |-> channels'[q]]
      /\ channels'[p] = NoChannel /\ \A q \in Plans : q # p => channels'[q] = channels[q]
  BY <1>1 DEF RefInv
<1>6. ASSUME NEW q \in Plans PROVE Users(q)' = Users(q)
  BY <1>1, UsersAreUsing
<1>7. ASSUME NEW q \in Plans PROVE Counts(channels'[q], Users(q)')
  BY <1>3, <1>4, <1>5, <1>6 DEF RefInv
<1> QED  BY <1>1, <1>5, <1>7 DEF RefInv

LEMMA RefreshedKeeps ==
  ASSUME NEW ch, IsChannel(ch), NEW answer
  PROVE  IsChannel(Refreshed(ch, answer)) /\ Same(Refreshed(ch, answer), ch)
<1>1. CASE answer.verdict = "ok"
  BY <1>1 DEF IsChannel, ChannelParts, Same, Refreshed
<1>2. CASE answer.verdict = "offline"
  BY <1>2 DEF IsChannel, ChannelParts, Same, Refreshed
<1>3. CASE answer.verdict # "ok" /\ answer.verdict # "offline"
  BY <1>3 DEF IsChannel, ChannelParts, Same, Refreshed
<1> QED  BY <1>1, <1>2, <1>3

LEMMA RefEndRefresh ==
  ASSUME RefInv, EndRefresh
  PROVE  RefInv'
<1> DEFINE q == Task.call.plan
           answer == Task.answer
<1>1. /\ UNCHANGED <<mounted, kids>>
      /\ channels' = channels \/ channels' = [channels EXCEPT ![q] = Refreshed(@, answer)]
  BY DEF EndRefresh
<1>2. ASSUME NEW p \in Plans
      PROVE  /\ IsChannel(channels[p]) /\ Same(channels[p], channels[p])
             /\ IsChannel(Refreshed(channels[p], answer))
             /\ Same(Refreshed(channels[p], answer), channels[p])
  BY RefreshedKeeps DEF RefInv, Counts, Same
<1> HIDE DEF q, answer
<1>3. channels' = [p \in Plans |-> channels'[p]]
  BY <1>1 DEF RefInv
<1>4. \A p \in Plans : channels'[p] \in {channels[p], Refreshed(channels[p], answer)}
  BY <1>1 DEF RefInv
<1>5. \A p \in Plans : IsChannel(channels'[p]) /\ Same(channels'[p], channels[p])
  BY <1>2, <1>4
<1> QED  BY <1>1, <1>3, <1>5, NoUserMoves

LEMMA RefHear ==
  ASSUME RefInv, Hear
  PROVE  RefInv'
<1> DEFINE q == Head(events[Me])[1]
           P == ChannelsOf(ResourceOf[q])
           S == Refresh(Store, P)
           told(ch) == [ch EXCEPT !.behind = TRUE]
<1>1. /\ UNCHANGED <<mounted, kids>>
      /\ channels' = S.channels \/ channels' = [S.channels EXCEPT ![q] = told(@)]
  BY DEF Hear
<1> HIDE DEF P
<1>2. IsStore(S) /\ \A p \in Plans : Same(S.channels[p], channels[p])
  BY StoreIsStore, RefreshKeeps
<1> HIDE DEF q, S
<1>3. ASSUME NEW p \in Plans
      PROVE  IsChannel(told(S.channels[p])) /\ Same(told(S.channels[p]), channels[p])
  BY <1>2 DEF IsStore, IsChannel, ChannelParts, Same
<1>4. channels' = [p \in Plans |-> channels'[p]]
  BY <1>1, <1>2 DEF IsStore
<1>5. \A p \in Plans : channels'[p] \in {S.channels[p], told(S.channels[p])}
  BY <1>1, <1>2 DEF IsStore
<1> HIDE DEF told
<1>6. \A p \in Plans : IsChannel(channels'[p]) /\ Same(channels'[p], channels[p])
  BY <1>2, <1>3, <1>5 DEF IsStore
<1> QED  BY <1>1, <1>4, <1>6, NoUserMoves

LEMMA RefStep ==
  ASSUME RefInv, [Next]_vars
  PROVE  RefInv'
<1>1. CASE \E v \in Views : Mount(v)
  BY <1>1, RefMount
<1>2. CASE \E v \in Views : Unmount(v)
  BY <1>2, RefUnmount
<1>3. CASE Include
  BY <1>3, RefInclude
<1>4. CASE \E p \in Plans : Retire(p)
  BY <1>4, RefRetire
<1>5. CASE EndRefresh
  BY <1>5, RefEndRefresh
<1>6. CASE Hear
  BY <1>6, RefHear
<1>7. CASE \E v \in Views : Refine(v)
  BY <1>7, ChannelsKept DEF Refine
<1>8. CASE \E Q \in Bundles : Ask(Q)
  BY <1>8, ChannelsKept DEF Ask, views
<1>8a. CASE \E r \in Resources, over \in [scene.written -> Layers] : OwnWrite(r, over)
  BY <1>8a, ChannelsKept DEF OwnWrite
<1>9. CASE Leave \/ Start \/ Base \/ Join \/ Derive \/ Show
  BY <1>9, ChannelsKept DEF Leave, Start, Base, Join, Derive, Show, others, views
<1>10. CASE Looked \/ FallBack \/ Relate \/ Answer \/ EndQuery
  BY <1>10, ChannelsKept DEF Looked, FallBack, Relate, Answer, EndQuery, views
<1>11. CASE \/ Flush
             \/ \E i \in DOMAIN net :
                  \/ \E refused \in SUBSET DOMAIN net[i].calls : Serve(i, refused)
                  \/ Respond(i) \/ Drop(i)
  BY <1>11, ChannelsKept DEF Flush, Serve, Respond, Drop, views
<1>12. CASE (\E s \in Instances, p \in Plans : Edit(s, p)) \/ Cut \/ Reconnects \/ Relays
  BY <1>12, ChannelsKept DEF Edit, Cut, Reconnects, Relays, client, views
<1>13. CASE UNCHANGED vars
  BY <1>13, ChannelsKept DEF vars, client, views
<1> QED  BY <1>1, <1>2, <1>3, <1>4, <1>5, <1>6, <1>7, <1>8, <1>8a, <1>9, <1>10, <1>11, <1>12,
            <1>13 DEF Next, Microtask, Recompute, OneShot, Settle

LEMMA RefStart ==
  ASSUME Init
  PROVE  RefInv
<1>1. /\ mounted = {} /\ kids = [v \in Views |-> <<>>]
      /\ channels = [p \in Plans |-> NoChannel]
  BY DEF Init
<1>2. DOMAIN <<>> = {}
  OBVIOUS
<1>3. ASSUME NEW p \in Plans PROVE Users(p) = {}
  BY <1>1, <1>2, UsingIs, UsersAreUsing
<1>4. Counts(NoChannel, {})
  <2>1. IsChannel(NoChannel)
    BY DEF IsChannel, NoChannel, ChannelParts
  <2> QED  BY <2>1, FS_EmptySet DEF Counts, NoChannel
<1>5. \A p \in Plans : Counts(channels[p], Users(p))
  BY <1>1, <1>3, <1>4
<1>6. \A v \in Views : IsFiniteSet(DOMAIN kids[v])
  BY <1>1, <1>2, FS_EmptySet
<1>7. channels = [p \in Plans |-> channels[p]] /\ kids = [v \in Views |-> kids[v]]
  BY <1>1
<1> QED  BY <1>1, <1>5, <1>6, <1>7 DEF RefInv

\* The count of a channel is the number of the live queries and relations
\* that use it; a used channel is stored, and exactly a stored one without
\* users has its timer armed (query-store.ts:104-143, live-query.ts:232-262).
THEOREM ChannelsAreCounted == Spec => []RefsExact
<1>1. RefInv => RefsExact
  BY DEF RefInv, RefsExact, Counts
<1> QED  BY <1>1, RefStart, RefStep, PTL DEF Spec

----------------------------------------------------------------------------
(* Sequences: what a queue has of a set of things.                         *)

None(s, D) == \A i \in DOMAIN s : s[i] \notin D
One(s, D) == \E i \in DOMAIN s : s[i] \in D /\ \A j \in DOMAIN s : s[j] \in D => j = i

LEMMA SetToSeqIs ==
  ASSUME NEW S, IsFiniteSet(S)
  PROVE  /\ SetToSeq(S) \in Seq(S)
         /\ \A x \in S : \E i \in DOMAIN SetToSeq(S) : SetToSeq(S)[i] = x
         /\ \A i, j \in DOMAIN SetToSeq(S) : SetToSeq(S)[i] = SetToSeq(S)[j] => i = j
<1> DEFINE n == Cardinality(S)
<1>1. n \in Nat /\ ExistsBijection(1..n, S)
  BY FS_CardinalityType
<1> HIDE DEF n
<1>2. PICK f : f \in Bijection(1..n, S)
  BY <1>1 DEF ExistsBijection
<1>3. f \in [1..n -> S] /\ IsInjective(f)
  BY <1>2 DEF Bijection, Injection
<1>4. SetToSeq(S) \in [1..n -> S] /\ IsInjective(SetToSeq(S))
  BY <1>3 DEF SetToSeq, n
<1> DEFINE s == SetToSeq(S)
<1> HIDE DEF s
<1>5. s \in Injection(1..n, S)
  BY <1>4 DEF Injection, s
<1>6. IsFiniteSet(1..n) /\ Cardinality(1..n) = n
  BY <1>1, FS_Interval
<1>7. s \in Surjection(1..n, S)
  BY <1>5, <1>6, FS_Injection DEF n
<1>8. \A x \in S : \E i \in 1..n : s[i] = x
  BY <1>7 DEF Surjection
<1>9. s \in Seq(S) /\ DOMAIN s = 1..n
  BY <1>1, <1>4 DEF s
<1>10. \A i, j \in DOMAIN s : s[i] = s[j] => i = j
  BY <1>4 DEF s, IsInjective
<1> QED  BY <1>8, <1>9, <1>10 DEF s

LEMMA CatIs ==
  ASSUME NEW X, NEW s \in Seq(X), NEW t \in Seq(X)
  PROVE  /\ s \o t \in Seq(X) /\ Len(s \o t) = Len(s) + Len(t)
         /\ \A i \in 1..Len(s) : (s \o t)[i] = s[i]
         /\ \A i \in 1..Len(t) : (s \o t)[Len(s) + i] = t[i]
         /\ \A i \in (Len(s) + 1)..(Len(s) + Len(t)) : (s \o t)[i] = t[i - Len(s)]
<1>1. s \o t \in Seq(X) /\ Len(s \o t) = Len(s) + Len(t)
  OBVIOUS
<1>2. \A i \in 1..Len(s) : (s \o t)[i] = s[i]
  OBVIOUS
<1>3. \A i \in (Len(s) + 1)..(Len(s) + Len(t)) : (s \o t)[i] = t[i - Len(s)]
  OBVIOUS
<1>4. ASSUME NEW i \in 1..Len(t) PROVE (s \o t)[Len(s) + i] = t[i]
  OBVIOUS
<1> QED  BY <1>1, <1>2, <1>3, <1>4

LEMMA CatHas ==
  ASSUME NEW X, NEW s \in Seq(X), NEW t \in Seq(X), NEW D
  PROVE  /\ None(s \o t, D) <=> None(s, D) /\ None(t, D)
         /\ One(s \o t, D) <=> \/ One(s, D) /\ None(t, D)
                               \/ None(s, D) /\ One(t, D)
<1> DEFINE u == s \o t
<1>1. /\ u \in Seq(X) /\ Len(u) = Len(s) + Len(t)
      /\ \A i \in 1..Len(s) : u[i] = s[i]
      /\ \A i \in 1..Len(t) : u[Len(s) + i] = t[i]
      /\ \A i \in (Len(s) + 1)..(Len(s) + Len(t)) : u[i] = t[i - Len(s)]
  BY CatIs
<1>2. /\ Len(s) \in Nat /\ Len(t) \in Nat
      /\ DOMAIN s = 1..Len(s) /\ DOMAIN t = 1..Len(t) /\ DOMAIN u = 1..(Len(s) + Len(t))
  BY <1>1
<1> HIDE DEF u
<1> DEFINE low == 1..Len(s)
           high == (Len(s) + 1)..(Len(s) + Len(t))
<1>3. DOMAIN u = low \cup high /\ \A i \in low, j \in high : i # j
  BY <1>2
<1>4. \A i \in high : i - Len(s) \in DOMAIN t /\ u[i] = t[i - Len(s)]
  BY <1>1, <1>2
<1>5. \A i \in DOMAIN t : Len(s) + i \in high /\ u[Len(s) + i] = t[i] /\ (Len(s) + i) - Len(s) = i
  BY <1>1, <1>2
<1>6. \A i, j \in high : i - Len(s) = j - Len(s) => i = j
  BY <1>2
<1>7. \A i \in low : i \in DOMAIN s /\ u[i] = s[i]
  BY <1>1, <1>2
<1>8. DOMAIN s = low
  BY <1>2
<1> HIDE DEF low, high
<1>9. None(u, D) <=> None(s, D) /\ None(t, D)
  BY <1>3, <1>4, <1>5, <1>7, <1>8 DEF None
<1>10. ASSUME One(u, D) PROVE (One(s, D) /\ None(t, D)) \/ (None(s, D) /\ One(t, D))
  <2>1. PICK i \in DOMAIN u : u[i] \in D /\ \A j \in DOMAIN u : u[j] \in D => j = i
    BY <1>10 DEF One
  <2>2. CASE i \in low
    <3>1. One(s, D)
      BY <1>3, <1>7, <1>8, <2>1, <2>2 DEF One
    <3>2. None(t, D)
      BY <1>3, <1>5, <2>1, <2>2 DEF None
    <3> QED  BY <3>1, <3>2
  <2>3. CASE i \in high
    <3>1. None(s, D)
      BY <1>3, <1>7, <1>8, <2>1, <2>3 DEF None
    <3>2. \A j \in DOMAIN t : t[j] \in D => j = i - Len(s)
      BY <1>3, <1>5, <2>1
    <3>3. One(t, D)
      BY <1>4, <2>1, <2>3, <3>2 DEF One
    <3> QED  BY <3>1, <3>3
  <2> QED  BY <1>3, <2>1, <2>2, <2>3
<1>11. ASSUME One(s, D), None(t, D) PROVE One(u, D)
  BY <1>3, <1>4, <1>7, <1>8, <1>11 DEF One, None
<1>12. ASSUME None(s, D), One(t, D) PROVE One(u, D)
  <2>1. PICK i \in DOMAIN t : t[i] \in D /\ \A j \in DOMAIN t : t[j] \in D => j = i
    BY <1>12 DEF One
  <2>2. \A j \in low : u[j] \notin D
    BY <1>7, <1>8, <1>12 DEF None
  <2>3. \A j \in high : u[j] \in D => j - Len(s) = i
    BY <1>4, <2>1
  <2>4. \A j \in high : u[j] \in D => j = Len(s) + i
    BY <1>5, <1>6, <2>1, <2>3
  <2> QED  BY <1>3, <1>5, <2>1, <2>2, <2>4 DEF One
<1> QED  BY <1>9, <1>10, <1>11, <1>12 DEF u

LEMMA UnitHas ==
  ASSUME NEW x, NEW D
  PROVE  (None(<<x>>, D) <=> x \notin D) /\ (One(<<x>>, D) <=> x \in D)
<1>1. DOMAIN <<x>> = {1} /\ <<x>>[1] = x
  OBVIOUS
<1> QED  BY <1>1 DEF None, One

LEMMA EmptyHas ==
  ASSUME NEW D
  PROVE  None(<<>>, D) /\ ~One(<<>>, D)
  BY DEF None, One

LEMMA NotBoth ==
  ASSUME NEW s, NEW D
  PROVE  ~(None(s, D) /\ One(s, D))
  BY DEF None, One

\* A queue, by its head and the rest.
LEMMA HeadHas ==
  ASSUME NEW X, NEW s \in Seq(X), s # <<>>, NEW D
  PROVE  /\ Tail(s) \in Seq(X) /\ Head(s) \in X
         /\ None(s, D) <=> Head(s) \notin D /\ None(Tail(s), D)
         /\ One(s, D) <=> \/ Head(s) \in D /\ None(Tail(s), D)
                          \/ Head(s) \notin D /\ One(Tail(s), D)
<1>1. Tail(s) \in Seq(X) /\ Head(s) \in X /\ <<Head(s)>> \in Seq(X)
  OBVIOUS
<1>2. s = <<Head(s)>> \o Tail(s)
  BY HeadTailProperties, ConcatProperties, SeqEqual
<1> DEFINE h == <<Head(s)>>
           t == Tail(s)
<1>3. /\ None(h \o t, D) <=> None(h, D) /\ None(t, D)
      /\ One(h \o t, D) <=> (One(h, D) /\ None(t, D)) \/ (None(h, D) /\ One(t, D))
  BY <1>1, CatHas
<1>4. (None(h, D) <=> Head(s) \notin D) /\ (One(h, D) <=> Head(s) \in D)
  BY UnitHas
<1> QED  BY <1>1, <1>2, <1>3, <1>4

\* The head goes on as t, or is gone, and tasks not of D are queued.
LEMMA GoesOnHas ==
  ASSUME NEW X, NEW s \in Seq(X), s # <<>>, NEW t \in X, NEW D, NEW more \in Seq(X),
         None(more, D)
  PROVE  /\ (<<t>> \o Tail(s)) \o more \in Seq(X)
         /\ Append(Tail(s), t) \o more \in Seq(X)
         /\ Tail(s) \o more \in Seq(X)
         /\ None((<<t>> \o Tail(s)) \o more, D) <=> t \notin D /\ None(Tail(s), D)
         /\ None(Append(Tail(s), t) \o more, D) <=> t \notin D /\ None(Tail(s), D)
         /\ None(Tail(s) \o more, D) <=> None(Tail(s), D)
         /\ One((<<t>> \o Tail(s)) \o more, D) <=> \/ t \in D /\ None(Tail(s), D)
                                                   \/ t \notin D /\ One(Tail(s), D)
         /\ One(Append(Tail(s), t) \o more, D) <=> \/ t \in D /\ None(Tail(s), D)
                                                   \/ t \notin D /\ One(Tail(s), D)
         /\ One(Tail(s) \o more, D) <=> One(Tail(s), D)
<1> DEFINE r == Tail(s)
           u == <<t>>
<1>1. r \in Seq(X) /\ u \in Seq(X)
  OBVIOUS
<1>2. Append(r, t) = r \o u
  BY <1>1, AppendIsConcat
<1>3. (None(u, D) <=> t \notin D) /\ (One(u, D) <=> t \in D)
  BY UnitHas
<1>4. ~One(more, D)
  BY NotBoth
<1> HIDE DEF r, u
<1>5. /\ u \o r \in Seq(X) /\ r \o u \in Seq(X)
      /\ None(u \o r, D) <=> None(u, D) /\ None(r, D)
      /\ None(r \o u, D) <=> None(u, D) /\ None(r, D)
      /\ One(u \o r, D) <=> (One(u, D) /\ None(r, D)) \/ (None(u, D) /\ One(r, D))
      /\ One(r \o u, D) <=> (One(u, D) /\ None(r, D)) \/ (None(u, D) /\ One(r, D))
  BY <1>1, CatIs, CatHas
<1>6. ASSUME NEW x \in Seq(X)
      PROVE  /\ x \o more \in Seq(X) /\ (None(x \o more, D) <=> None(x, D))
             /\ (One(x \o more, D) <=> One(x, D))
  BY <1>4, <1>6, CatIs, CatHas
<1> QED  BY <1>1, <1>2, <1>3, <1>5, <1>6 DEF r, u

LEMMA SetHas ==
  ASSUME NEW S, IsFiniteSet(S), NEW D
  PROVE  /\ None(SetToSeq(S), D) <=> S \cap D = {}
         /\ \A x : S \cap D = {x} => One(SetToSeq(S), D)
<1> DEFINE s == SetToSeq(S)
<1>1. /\ s \in Seq(S) /\ \A x \in S : \E i \in DOMAIN s : s[i] = x
      /\ \A i, j \in DOMAIN s : s[i] = s[j] => i = j
  BY SetToSeqIs
<1> HIDE DEF s
<1>2. \A i \in DOMAIN s : s[i] \in S
  BY <1>1
<1>3. None(s, D) <=> S \cap D = {}
  BY <1>1, <1>2 DEF None
<1>4. ASSUME NEW x, S \cap D = {x} PROVE One(s, D)
  <2>1. x \in S /\ x \in D /\ \A y \in S : y \in D => y = x
    BY <1>4
  <2>2. PICK i \in DOMAIN s : s[i] = x
    BY <1>1, <2>1
  <2>3. \A j \in DOMAIN s : s[j] \in D => j = i
    BY <1>1, <1>2, <2>1, <2>2
  <2> QED  BY <2>1, <2>2, <2>3 DEF One
<1> QED  BY <1>3, <1>4 DEF s

----------------------------------------------------------------------------
(* What a channel operation does to the store.                             *)

WideChannel ==
  [stored: BOOLEAN, refs: Int, timer: BOOLEAN, refreshing: BOOLEAN, synced: BOOLEAN,
   online: BOOLEAN, error: BOOLEAN, last: Results, behind: BOOLEAN]

IsWide(S) ==
  /\ S = [channels |-> S.channels, batch |-> S.batch]
  /\ S.channels \in [Plans -> WideChannel] /\ S.batch \in Seq(Calls)

\* The calls for the channels of W.
CallsFor(W) == {Call("channel", p) : p \in W}

\* A refresh of each of W starts; others keep what a live query sees.
Opened(a, b, starts) ==
  /\ b.refreshing = (a.refreshing \/ starts)
  /\ starts => ~a.refreshing /\ b.stored /\ ~b.behind
  /\ ~starts => b.behind = a.behind
  /\ b.synced = a.synced /\ b.online = a.online /\ b.error = a.error /\ b.last = a.last
  /\ a.stored => b.stored
  /\ b.stored /\ ~a.stored => b.refreshing \/ b.synced
Opens(S, R, W) ==
  /\ W \subseteq Plans /\ IsFiniteSet(W)
  /\ R.batch = IF W = {} THEN S.batch ELSE S.batch \o SetToSeq(CallsFor(W))
  /\ \A p \in Plans : Opened(S.channels[p], R.channels[p], p \in W)

LEMMA CallsForIs ==
  ASSUME NEW W \in SUBSET Plans, IsFiniteSet(W)
  PROVE  /\ IsFiniteSet(CallsFor(W)) /\ CallsFor(W) \subseteq Calls
         /\ SetToSeq(CallsFor(W)) \in Seq(Calls)
<1>1. CallsFor(W) \subseteq Calls
  BY DEF CallsFor, Calls, Call
<1> DEFINE f == [p \in W |-> Call("channel", p)]
<1>2. f \in Surjection(W, CallsFor(W))
  BY DEF Surjection, CallsFor
<1>3. IsFiniteSet(CallsFor(W))
  BY <1>2, FS_Surjection
<1>4. SetToSeq(CallsFor(W)) \in Seq(CallsFor(W))
  BY <1>3, SetToSeqIs
<1> QED  BY <1>1, <1>3, <1>4, SeqMonotonic

LEMMA TakenIs ==
  ASSUME NEW ch \in WideChannel
  PROVE  /\ Taken(ch) \in WideChannel /\ Taken(ch).stored = TRUE
         /\ Taken(ch).refreshing = ch.refreshing /\ Taken(ch).behind = ch.behind
         /\ Taken(ch).synced = ch.synced /\ Taken(ch).online = ch.online
         /\ Taken(ch).error = ch.error /\ Taken(ch).last = ch.last
<1>1. Taken(ch) = [ch EXCEPT !.stored = TRUE, !.refs = ch.refs + 1, !.timer = FALSE]
  BY DEF Taken
<1>2. ch.refs + 1 \in Int
  BY DEF WideChannel
<1> QED  BY <1>1, <1>2 DEF WideChannel

LEMMA LeftIs ==
  ASSUME NEW ch \in WideChannel, NEW n \in Nat
  PROVE  Left(ch, n) \in WideChannel /\ Opened(ch, Left(ch, n), FALSE)
         /\ Left(ch, n).stored = ch.stored
<1> DEFINE armed == ch.timer \/ ch.refs = n
           less == ch.refs - n
<1>1. armed \in BOOLEAN /\ less \in Int
  BY DEF WideChannel
<1>2. Left(ch, n) = [ch EXCEPT !.refs = less, !.timer = armed]
  BY Zenon DEF Left
<1> HIDE DEF armed, less
<1> QED  BY <1>1, <1>2 DEF WideChannel, Opened

LEMMA RefreshOpens ==
  ASSUME NEW S, IsWide(S), NEW P \in SUBSET Plans, IsFiniteSet(P),
         \A p \in P : S.channels[p].stored
  PROVE  /\ IsWide(Refresh(S, P))
         /\ Opens(S, Refresh(S, P), {p \in P : ~S.channels[p].refreshing})
         /\ \A p \in Plans : Refresh(S, P).channels[p].stored = S.channels[p].stored
<1> DEFINE idle == {p \in P : ~S.channels[p].refreshing}
           R == Refresh(S, P)
           after(p) == [S.channels[p] EXCEPT !.refreshing = TRUE, !.behind = FALSE]
<1>1. idle \subseteq Plans /\ IsFiniteSet(idle)
  BY FS_Subset
<1>2. /\ R = [channels |-> R.channels, batch |-> R.batch]
      /\ R.channels = [p \in Plans |-> IF p \in idle THEN after(p) ELSE S.channels[p]]
      /\ R.batch = S.batch \o SetToSeq(CallsFor(idle))
  BY DEF Refresh, CallsFor
<1>3. ASSUME NEW p \in Plans
      PROVE  /\ S.channels[p] \in WideChannel /\ after(p) \in WideChannel
             /\ Opened(S.channels[p], S.channels[p], FALSE)
             /\ ~S.channels[p].refreshing /\ S.channels[p].stored
                  => Opened(S.channels[p], after(p), TRUE)
             /\ after(p).stored = S.channels[p].stored
  BY DEF IsWide, WideChannel, Opened
<1>4. idle = {} => R.batch = S.batch
  <2> SUFFICES ASSUME idle = {} PROVE R.batch = S.batch
    OBVIOUS
  <2>1. CallsFor(idle) = {}
    BY DEF CallsFor
  <2>2. SetToSeq({}) \in Seq({}) 
    BY FS_EmptySet, SetToSeqIs
  <2>3. SetToSeq({}) = <<>>
    BY <2>2
  <2> QED  BY <1>2, <2>1, <2>3, ConcatEmptySeq DEF IsWide
<1>5. SetToSeq(CallsFor(idle)) \in Seq(Calls)
  BY <1>1, CallsForIs
<1>6. R.batch \in Seq(Calls)
  <2>1. S.batch \in Seq(Calls)
    BY DEF IsWide
  <2>2. S.batch \o SetToSeq(CallsFor(idle)) \in Seq(Calls)
    BY <1>5, <2>1, CatIs
  <2> QED  BY <1>2, <2>2
<1> HIDE DEF R, after
<1>7. R.channels \in [Plans -> WideChannel]
  BY <1>2, <1>3
<1>8. IsWide(R)
  BY <1>2, <1>6, <1>7 DEF IsWide
<1>9. ASSUME NEW p \in Plans PROVE Opened(S.channels[p], R.channels[p], p \in idle)
  <2>1. CASE p \in idle
    BY <1>2, <1>3, <2>1
  <2>2. CASE p \notin idle
    <3>1. R.channels[p] = S.channels[p] /\ (p \in idle) = FALSE
      BY <1>2, <2>2
    <3> QED  BY <1>3, <3>1
  <2> QED  BY <2>1, <2>2
<1>10. Opens(S, R, idle)
  BY <1>1, <1>2, <1>4, <1>9 DEF Opens
<1>11. \A p \in Plans : R.channels[p].stored = S.channels[p].stored
  BY <1>2, <1>3
<1> QED  BY <1>8, <1>10, <1>11 DEF R

LEMMA AcquireOpens ==
  ASSUME NEW S, IsWide(S), NEW p \in Plans
  PROVE  \E W : /\ IsWide(Acquire(S, p)) /\ Opens(S, Acquire(S, p), W)
                /\ \A r \in Plans : Acquire(S, p).channels[r].stored
                                      <=> S.channels[r].stored \/ r = p
                /\ W \subseteq {p}
<1> DEFINE held == [S EXCEPT !.channels[p] = Taken(@)]
           R == Acquire(S, p)
<1>1. /\ held.channels = [S.channels EXCEPT ![p] = Taken(@)]
      /\ held.batch = S.batch
      /\ held = [channels |-> held.channels, batch |-> held.batch]
  BY DEF IsWide
<1>2. ASSUME NEW r \in Plans
      PROVE  /\ Taken(S.channels[r]) \in WideChannel
             /\ Taken(S.channels[r]).stored
             /\ Taken(S.channels[r]).refreshing = S.channels[r].refreshing
             /\ Taken(S.channels[r]).behind = S.channels[r].behind
             /\ Taken(S.channels[r]).synced = S.channels[r].synced
             /\ Taken(S.channels[r]).online = S.channels[r].online
             /\ Taken(S.channels[r]).error = S.channels[r].error
             /\ Taken(S.channels[r]).last = S.channels[r].last
  BY TakenIs DEF IsWide
<1>3. R = IF scene.forever /\ S.channels[p].synced THEN held ELSE Refresh(held, {p})
  BY DEF Acquire
<1> HIDE DEF held, R
<1>4. /\ \A r \in Plans : held.channels[r] = IF r = p THEN Taken(S.channels[p])
                                           ELSE S.channels[r]
      /\ held.channels \in [Plans -> WideChannel]
  BY <1>1, <1>2 DEF IsWide
<1>5. IsWide(held)
  BY <1>1, <1>4 DEF IsWide
<1>6. CASE scene.forever /\ S.channels[p].synced
  <2>1. R = held
    BY <1>3, <1>6
  <2>2. ASSUME NEW r \in Plans PROVE Opened(S.channels[r], R.channels[r], r \in {})
    <3>1. S.channels[r] \in WideChannel /\ S.channels[p] \in WideChannel
      BY DEF IsWide
    <3>2. CASE r = p
      BY <1>2, <1>4, <1>6, <2>1, <3>1, <3>2 DEF Opened, WideChannel
    <3>3. CASE r # p
      BY <1>4, <2>1, <3>1, <3>3 DEF Opened, WideChannel
    <3> QED  BY <3>2, <3>3
  <2>3. Opens(S, R, {})
    BY <1>1, <2>1, <2>2, FS_EmptySet DEF Opens
  <2>4. \A r \in Plans : R.channels[r].stored <=> S.channels[r].stored \/ r = p
    BY <1>2, <1>4, <2>1
  <2> QED  BY <1>5, <2>1, <2>3, <2>4 DEF R
<1>7. CASE ~(scene.forever /\ S.channels[p].synced)
  <2> DEFINE W == {r \in {p} : ~held.channels[r].refreshing}
  <2>1. R = Refresh(held, {p})
    BY <1>3, <1>7
  <2>2. /\ IsWide(R) /\ Opens(held, R, W)
        /\ \A r \in Plans : R.channels[r].stored = held.channels[r].stored
    <3>1. IsFiniteSet({p}) /\ \A r \in {p} : held.channels[r].stored
      BY <1>2, <1>4, FS_Singleton
    <3> QED  BY <1>5, <2>1, <3>1, RefreshOpens
  <2> HIDE DEF W
  <2>3. ASSUME NEW r \in Plans PROVE Opened(S.channels[r], R.channels[r], r \in W)
    <3>1. /\ S.channels[r] \in WideChannel /\ held.channels[r] \in WideChannel
          /\ R.channels[r] \in WideChannel
      BY <1>5, <2>2 DEF IsWide
    <3>2. Opened(held.channels[r], R.channels[r], r \in W)
      BY <2>2 DEF Opens
    <3>3. CASE r = p
      <4>1. R.channels[r].refreshing
        BY <3>1, <3>2, <3>3 DEF Opened, W, WideChannel
      <4> QED  BY <1>2, <1>4, <3>1, <3>2, <3>3, <4>1 DEF Opened, WideChannel
    <3>4. CASE r # p
      BY <1>4, <3>1, <3>2, <3>4 DEF Opened, WideChannel
    <3> QED  BY <3>3, <3>4
  <2>4. Opens(S, R, W)
    BY <1>1, <2>2, <2>3 DEF Opens
  <2>5. \A r \in Plans : R.channels[r].stored <=> S.channels[r].stored \/ r = p
    BY <1>2, <1>4, <2>2
  <2> QED  BY <2>2, <2>4, <2>5 DEF R, W
<1> QED  BY <1>6, <1>7

LEMMA ReleaseOpens ==
  ASSUME NEW S, IsWide(S), NEW n \in [Plans -> Nat]
  PROVE  /\ IsWide(Release(S, n)) /\ Opens(S, Release(S, n), {})
         /\ \A r \in Plans : Release(S, n).channels[r].stored = S.channels[r].stored
<1> DEFINE R == Release(S, n)
<1>0. S = [channels |-> S.channels, batch |-> S.batch]
  BY DEF IsWide
<1>1. /\ R.channels = [p \in Plans |-> IF n[p] = 0 THEN S.channels[p]
                                     ELSE Left(S.channels[p], n[p])]
      /\ R.batch = S.batch /\ R = [channels |-> R.channels, batch |-> R.batch]
  BY <1>0 DEF Release
<1>2. ASSUME NEW p \in Plans
      PROVE  /\ Left(S.channels[p], n[p]) \in WideChannel
             /\ Opened(S.channels[p], Left(S.channels[p], n[p]), FALSE)
             /\ Opened(S.channels[p], S.channels[p], FALSE)
             /\ S.channels[p] \in WideChannel
             /\ Left(S.channels[p], n[p]).stored = S.channels[p].stored
  <2>1. S.channels[p] \in WideChannel /\ n[p] \in Nat
    BY DEF IsWide
  <2>2. Opened(S.channels[p], S.channels[p], FALSE)
    BY <2>1 DEF WideChannel, Opened
  <2> QED  BY <2>1, <2>2, LeftIs
<1> HIDE DEF R
<1>3. R.channels \in [Plans -> WideChannel]
  BY <1>1, <1>2
<1>4. IsWide(R)
  BY <1>1, <1>3 DEF IsWide
<1>5. ASSUME NEW p \in Plans PROVE Opened(S.channels[p], R.channels[p], p \in {})
  <2>1. (p \in {}) = FALSE
    OBVIOUS
  <2> QED  BY <1>1, <1>2, <2>1
<1>6. Opens(S, R, {})
  BY <1>1, <1>5, FS_EmptySet DEF Opens
<1> QED  BY <1>1, <1>2, <1>4, <1>6 DEF R

\* Nothing is opened.
LEMMA NothingOpens ==
  ASSUME NEW S, IsWide(S)
  PROVE  Opens(S, S, {})
<1>1. ASSUME NEW p \in Plans PROVE Opened(S.channels[p], S.channels[p], p \in {})
  <2>1. S.channels[p] \in WideChannel /\ (p \in {}) = FALSE
    BY DEF IsWide
  <2> QED  BY <2>1 DEF Opened, WideChannel
<1> QED  BY <1>1, FS_EmptySet DEF Opens

LEMMA ThenOpens ==
  ASSUME NEW S, IsWide(S), NEW T, IsWide(T), Opens(S, T, {}), NEW R, IsWide(R),
         NEW W, Opens(T, R, W)
  PROVE  Opens(S, R, W)
<1>1. ASSUME NEW p \in Plans PROVE Opened(S.channels[p], R.channels[p], p \in W)
  <2>1. /\ S.channels[p] \in WideChannel /\ T.channels[p] \in WideChannel
        /\ R.channels[p] \in WideChannel /\ (p \in {}) = FALSE
    BY DEF IsWide
  <2>2. Opened(S.channels[p], T.channels[p], FALSE) /\ Opened(T.channels[p], R.channels[p], p \in W)
    BY <2>1 DEF Opens
  <2> QED  BY <2>1, <2>2 DEF Opened, WideChannel
<1>2. T.batch = S.batch
  BY DEF Opens
<1> QED  BY <1>1, <1>2 DEF Opens

LEMMA ChildOpens ==
  ASSUME IsWide(Store), NEW v, NEW spec, NEW plan \in Plans \cup {NoPlan}
  PROVE  \E W : /\ IsWide(ChildChannel(v, spec, plan))
                /\ Opens(Store, ChildChannel(v, spec, plan), W)
                /\ \A r \in Plans : ChildChannel(v, spec, plan).channels[r].stored
                                      => Store.channels[r].stored \/ r = plan
<1> DEFINE has == spec \in DOMAIN kids[v]
           old == IF has THEN kids[v][spec] ELSE NoPlan
           n == [p \in Plans |-> IF p = old THEN 1 ELSE 0]
           freed == IF has THEN Release(Store, n) ELSE Store
           S == ChildChannel(v, spec, plan)
<1>1. n \in [Plans -> Nat]
  OBVIOUS
<1>2. S = IF v \notin mounted \/ old = plan THEN Store
          ELSE IF plan = NoPlan THEN freed ELSE Acquire(freed, plan)
  BY DEF ChildChannel
<1>3. freed = Store \/ freed = Release(Store, n)
  OBVIOUS
<1> HIDE DEF n, freed, S
<1>4. /\ IsWide(Release(Store, n)) /\ Opens(Store, Release(Store, n), {})
      /\ \A r \in Plans : Release(Store, n).channels[r].stored = Store.channels[r].stored
  BY <1>1, ReleaseOpens
<1>5. Opens(Store, Store, {})
  BY NothingOpens
<1>6. IsWide(freed) /\ Opens(Store, freed, {})
  BY <1>3, <1>4, <1>5
<1>7. \A r \in Plans : freed.channels[r].stored = Store.channels[r].stored
  BY <1>3, <1>4
<1>8. CASE S = Store
  BY <1>5, <1>8 DEF S
<1>9. CASE S = freed
  BY <1>6, <1>7, <1>9 DEF S
<1>10. CASE S = Acquire(freed, plan) /\ plan \in Plans
  <2>1. PICK W : /\ IsWide(Acquire(freed, plan)) /\ Opens(freed, Acquire(freed, plan), W)
                 /\ \A r \in Plans : Acquire(freed, plan).channels[r].stored
                                       <=> freed.channels[r].stored \/ r = plan
    BY <1>6, <1>10, AcquireOpens
  <2>2. Opens(Store, S, W)
    BY <1>6, <1>10, <2>1, ThenOpens
  <2> QED  BY <1>7, <1>10, <2>1, <2>2 DEF S
<1> QED  BY <1>2, <1>8, <1>9, <1>10

----------------------------------------------------------------------------
(* Types.                                                                  *)

Coverages == {"none", "unknown", "partial", "complete"}
Readings == [rows: Results, coverage: Coverages]
States == [rows: Results, kids: Seq(Results), refined: BOOLEAN,
           status: {"offline", "fresh", "loading", "stale"},
           coverage: Coverages, refreshing: BOOLEAN, error: BOOLEAN]
Asks == [stage: {"idle", "asking", "joining", "relating", "done", "failed"}, rows: Results,
         kids: Seq(Results)]
Replies == {a \in Answers : a.verdict = "ok" => a.rows \in Versions}
Messages == [calls: Seq(Calls), served: BOOLEAN, answers: Seq(Replies)]

Turns == {Turn}
Starts == [job: {"start"}, view: Views, now: {FALSE}]
Bases == [job: {"base"}, view: Views, read: Readings, now: BOOLEAN]
Joinings == [job: {"include", "derive"}, view: Views, held: Channel, kids: Seq(Results),
             coverage: Coverages, rows: Results, now: BOOLEAN]
Shows == [job: {"show"}, view: Views, next: States, now: {FALSE}]
Looks == [job: {"looked"}, query: Queries, plan: Plans, read: Readings, now: {FALSE}]
Falls == [job: {"fallback"}, query: Queries, read: Readings, now: {FALSE}]
Relates == [job: {"relate"}, query: Queries, now: {TRUE}]
Incoming == [job: {"answer"}, call: Calls, answer: Replies, now: {FALSE}]
Endings == [job: {"ended"}, call: Calls, answer: Replies, now: BOOLEAN]
Tasks == Turns \cup Starts \cup Bases \cup Joinings \cup Shows \cup Looks \cup Falls
         \cup Relates \cup Incoming \cup Endings

ChannelsTyped ==
  /\ channels \in [Plans -> Channel]
  /\ IsFiniteSet({p \in Plans : channels[p].stored})
ViewsTyped ==
  /\ mounted \subseteq Views /\ IsFiniteSet(mounted)
  /\ waiting \subseteq Views /\ refined \subseteq Views
  /\ shown \in [Views -> States]
  /\ \A v \in Views : /\ DOMAIN kids[v] \subseteq Specs
                      /\ \A spec \in DOMAIN kids[v] : kids[v][spec] \in Plans
CacheTyped ==
  /\ cached \in [Plans -> Results] /\ newest \in [Plans -> Versions]
  /\ laid \in [Plans -> Layers] /\ asks \in [Queries -> Asks]
NetTyped ==
  /\ batch \in Seq(Calls) /\ net \in Seq(Messages)
  /\ \A i \in DOMAIN net : DOMAIN net[i].answers = IF net[i].served THEN DOMAIN net[i].calls
                                                   ELSE {}
SceneTyped ==
  /\ scene \in Scene /\ IsFiniteSet(made) /\ made \subseteq Changes
  /\ Cardinality(made) <= scene.edits
TypeInv ==
  /\ ChannelsTyped /\ ViewsTyped /\ CacheTyped /\ NetTyped /\ SceneTyped
  /\ micro \in Seq(Tasks)

\* The jobs tell the tasks apart.
LEMMA TaskIs ==
  ASSUME NEW t \in Tasks
  PROVE  /\ t.job = "start" => t \in Starts
         /\ t.job = "base" => t \in Bases
         /\ t.job \in {"include", "derive"} => t \in Joinings
         /\ t.job = "show" => t \in Shows
         /\ t.job = "looked" => t \in Looks
         /\ t.job = "fallback" => t \in Falls
         /\ t.job = "relate" => t \in Relates
         /\ t.job = "answer" => t \in Incoming
         /\ t.job = "ended" => t \in Endings
         /\ t.job = "app" => t = Turn
         /\ t.now \in BOOLEAN
<1>1. t \in Turns => t.job = "app" /\ t = Turn /\ t.now \in BOOLEAN
  <2>1. Turn.job = "app" /\ Turn.now = FALSE
    BY DEF Turn
  <2> QED  BY <2>1 DEF Turns
<1>2. t \in Starts => t.job = "start" /\ t.now \in BOOLEAN
  BY DEF Starts
<1>3. t \in Bases => t.job = "base" /\ t.now \in BOOLEAN
  BY DEF Bases
<1>4. t \in Joinings => t.job \in {"include", "derive"} /\ t.now \in BOOLEAN
  BY DEF Joinings
<1>5. t \in Shows => t.job = "show" /\ t.now \in BOOLEAN
  BY DEF Shows
<1>6. t \in Looks => t.job = "looked" /\ t.now \in BOOLEAN
  BY DEF Looks
<1>7. t \in Falls => t.job = "fallback" /\ t.now \in BOOLEAN
  BY DEF Falls
<1>8. t \in Relates => t.job = "relate" /\ t.now \in BOOLEAN
  BY DEF Relates
<1>9. t \in Incoming => t.job = "answer" /\ t.now \in BOOLEAN
  BY DEF Incoming
<1>10. t \in Endings => t.job = "ended" /\ t.now \in BOOLEAN
  BY DEF Endings
<1> QED  BY <1>1, <1>2, <1>3, <1>4, <1>5, <1>6, <1>7, <1>8, <1>9, <1>10 DEF Tasks

LEMMA HeadIs ==
  ASSUME micro \in Seq(Tasks), micro # <<>>
  PROVE  Task \in Tasks /\ Rest \in Seq(Tasks) /\ Task = micro[1]
  BY DEF Task, Rest

\* scheduleRecompute of the woken queues a start for each not yet waiting.
StartOf(v) == [job |-> "start", view |-> v, now |-> FALSE]

LEMMA Scheduled ==
  ASSUME NEW tasks \in Seq(Tasks), NEW queued, NEW woken \in SUBSET Views, IsFiniteSet(woken),
         Schedule(tasks, queued, woken)
  PROVE  /\ waiting' = queued \cup woken
         /\ micro' \in Seq(Tasks)
         /\ \E ss \in Seq(Starts) : /\ micro' = tasks \o ss
                                    /\ \A v \in woken \ queued : \E i \in DOMAIN ss : ss[i].view = v
<1> DEFINE S == {StartOf(v) : v \in woken \ queued}
           ss == SetToSeq(S)
<1>1. waiting' = queued \cup woken /\ micro' = tasks \o ss
  BY DEF Schedule, StartOf
<1>2. S \subseteq Starts
  <2>1. \A v \in Views : StartOf(v) \in Starts
    BY DEF StartOf, Starts
  <2> QED  BY <2>1
<1>3. IsFiniteSet(S)
  <2> DEFINE f == [v \in woken \ queued |-> StartOf(v)]
  <2>1. IsFiniteSet(woken \ queued)
    BY FS_Subset
  <2>2. f \in Surjection(woken \ queued, S)
    BY DEF Surjection
  <2> QED  BY <2>1, <2>2, FS_Surjection
<1>4. ss \in Seq(S) /\ \A x \in S : \E i \in DOMAIN ss : ss[i] = x
  BY <1>3, SetToSeqIs
<1>5. \A v \in woken \ queued : StartOf(v) \in S /\ StartOf(v).view = v
  BY DEF StartOf
<1> HIDE DEF S, ss
<1>6. ss \in Seq(Starts)
  BY <1>2, <1>4, SeqMonotonic
<1>7. ss \in Seq(Tasks)
  <2>1. Starts \subseteq Tasks
    BY DEF Tasks
  <2> QED  BY <1>6, <2>1, SeqMonotonic
<1>8. tasks \o ss \in Seq(Tasks)
  BY <1>7, CatIs
<1>9. \A v \in woken \ queued : \E i \in DOMAIN ss : ss[i].view = v
  <2> SUFFICES ASSUME NEW v \in woken \ queued PROVE \E i \in DOMAIN ss : ss[i].view = v
    OBVIOUS
  <2>1. PICK i \in DOMAIN ss : ss[i] = StartOf(v)
    BY <1>4, <1>5
  <2> QED  BY <1>5, <2>1
<1>10. micro' \in Seq(Tasks)
  BY <1>1, <1>8
<1> QED  BY <1>1, <1>6, <1>9, <1>10

\* What the tasks of a queue are after scheduleRecompute of the woken.
Queues(tasks, queued, woken) ==
  /\ waiting' = queued \cup woken
  /\ micro' \in Seq(Tasks)
  /\ \E ss \in Seq(Starts) : /\ micro' = tasks \o ss
                             /\ \A v \in woken \ queued : \E i \in DOMAIN ss : ss[i].view = v

\* Opens, but for the ghost.
Seen(a, b, starts) ==
  /\ b.refreshing = (a.refreshing \/ starts)
  /\ starts => ~a.refreshing /\ b.stored
  /\ b.synced = a.synced /\ b.online = a.online /\ b.error = a.error /\ b.last = a.last
  /\ a.stored => b.stored
  /\ b.stored /\ ~a.stored => b.refreshing \/ b.synced
Starting(W) ==
  /\ W \subseteq Plans /\ IsFiniteSet(W)
  /\ IsWide(Store')
  /\ batch' = IF W = {} THEN batch ELSE batch \o SetToSeq(CallsFor(W))
  /\ \A p \in Plans : Seen(channels[p], channels'[p], p \in W)
  /\ IsFiniteSet({p \in Plans : channels'[p].stored})
\* The ghost, where no change is heard of.
Forgets(W) == \A p \in Plans : channels'[p].behind = (p \notin W /\ channels[p].behind)

LEMMA StoreIsWide ==
  ASSUME TypeInv
  PROVE  IsWide(Store)
<1>1. Channel \subseteq WideChannel
  BY DEF Channel, WideChannel
<1> QED  BY <1>1 DEF TypeInv, ChannelsTyped, NetTyped, IsWide, Store

LEMMA StirredIs ==
  ASSUME IsWide(Store), NEW S, IsWide(S), NEW W, Opens(Store, S, W)
  PROVE  Stirred(S) = Listeners(W)
<1>1. ASSUME NEW p \in Plans PROVE S.channels[p].refreshing # channels[p].refreshing <=> p \in W
  <2>1. S.channels[p] \in WideChannel /\ channels[p] \in WideChannel
    BY DEF IsWide, Store
  <2>2. Opened(channels[p], S.channels[p], p \in W)
    BY DEF Opens, Store
  <2> QED  BY <2>1, <2>2 DEF Opened, WideChannel
<1>2. W \subseteq Plans
  BY DEF Opens
<1>3. {p \in Plans : S.channels[p].refreshing # channels[p].refreshing} = W
  BY <1>1, <1>2
<1> QED  BY <1>3 DEF Stirred

LEMMA KeepsStarts ==
  ASSUME TypeInv, NEW S, IsWide(S), NEW W, Opens(Store, S, W), KeepsStore(S), NEW x,
         \A r \in Plans : S.channels[r].stored => channels[r].stored \/ r = x
  PROVE  Starting(W) /\ Forgets(W)
<1>1. IsWide(Store)
  BY StoreIsWide
<1>2. /\ channels' = S.channels /\ batch' = S.batch
      /\ Store.channels = channels /\ Store.batch = batch
  BY DEF KeepsStore, Store
<1>3. IsWide(Store')
  BY <1>2 DEF Store, IsWide
<1>4. ASSUME NEW p \in Plans
      PROVE  /\ Seen(channels[p], channels'[p], p \in W)
             /\ channels'[p].behind = (p \notin W /\ channels[p].behind)
  <2>1. S.channels[p] \in WideChannel /\ channels[p] \in WideChannel
    BY <1>1 DEF IsWide, Store
  <2>2. Opened(channels[p], S.channels[p], p \in W)
    BY <1>2 DEF Opens
  <2> QED  BY <1>2, <2>1, <2>2 DEF Opened, Seen, WideChannel
<1>5. IsFiniteSet({p \in Plans : channels'[p].stored})
  <2> DEFINE U == {p \in Plans : channels[p].stored}
  <2>1. IsFiniteSet(U)
    BY DEF TypeInv, ChannelsTyped
  <2>2. IsFiniteSet(U \cup {x})
    BY <2>1, FS_AddElement
  <2>3. {p \in Plans : channels'[p].stored} \subseteq U \cup {x}
    BY <1>2
  <2> QED  BY <2>2, <2>3, FS_Subset
<1>6. /\ W \subseteq Plans /\ IsFiniteSet(W)
      /\ batch' = IF W = {} THEN batch ELSE batch \o SetToSeq(CallsFor(W))
  BY <1>2 DEF Opens
<1> QED  BY <1>3, <1>4, <1>5, <1>6 DEF Starting, Forgets

LEMMA ListenersAre ==
  ASSUME TypeInv, NEW P
  PROVE  Listeners(P) \subseteq Views /\ IsFiniteSet(Listeners(P))
  BY FS_Subset DEF TypeInv, ViewsTyped, Listeners

LEMMA OpenTyped ==
  ASSUME TypeInv
  PROVE  Open \in Seq(Tasks)
<1>1. Turn \in Tasks
  BY DEF Tasks, Turns
<1> QED  BY <1>1 DEF TypeInv, Open

LEMMA MountDoes ==
  ASSUME TypeInv, NEW v \in Views, Mount(v)
  PROVE  \E W : Starting(W) /\ Forgets(W) /\ Queues(Open, waiting, Listeners(W) \cup {v})
<1>1. PlanOf[v] \in Plans /\ IsWide(Store)
  BY LiveAssumption, StoreIsWide
<1> DEFINE S == Acquire(Store, PlanOf[v])
<1>2. PICK W : /\ IsWide(S) /\ Opens(Store, S, W)
               /\ \A r \in Plans : S.channels[r].stored
                                     <=> Store.channels[r].stored \/ r = PlanOf[v]
  BY <1>1, AcquireOpens
<1>3. KeepsStore(S) /\ Schedule(Open, waiting, Stirred(S) \cup {v})
  BY DEF Mount
<1> HIDE DEF S
<1>4. Store.channels = channels
  BY DEF Store
<1>5. Starting(W) /\ Forgets(W)
  BY <1>2, <1>3, <1>4, KeepsStarts
<1>6. Stirred(S) = Listeners(W)
  BY <1>1, <1>2, StirredIs
<1>7. Listeners(W) \cup {v} \in SUBSET Views /\ IsFiniteSet(Listeners(W) \cup {v})
  BY ListenersAre, FS_AddElement
<1>8. Queues(Open, waiting, Listeners(W) \cup {v})
  BY <1>3, <1>6, <1>7, OpenTyped, Scheduled DEF Queues
<1> QED  BY <1>5, <1>8

LEMMA UnmountDoes ==
  ASSUME TypeInv, RefInv, NEW v \in Views, Unmount(v)
  PROVE  Starting({}) /\ Forgets({}) /\ micro' = Open /\ UNCHANGED waiting
<1> DEFINE n == [p \in Plans |-> Holds(v, p)]
           S == Release(Store, n)
<1>1. KeepsStore(S) /\ micro' = Open /\ UNCHANGED waiting
  BY DEF Unmount
<1>2. n \in [Plans -> Nat]
  <2>1. ASSUME NEW p \in Plans PROVE Holds(v, p) \in Nat
    <3>1. IsFiniteSet({spec \in DOMAIN kids[v] : kids[v][spec] = p})
      BY FS_Subset DEF RefInv
    <3>2. Cardinality({spec \in DOMAIN kids[v] : kids[v][spec] = p}) \in Nat
      BY <3>1, FS_CardinalityType
    <3> QED  BY <3>2 DEF Holds
  <2> QED  BY <2>1
<1> HIDE DEF n
<1>3. /\ IsWide(S) /\ Opens(Store, S, {})
      /\ \A r \in Plans : S.channels[r].stored = Store.channels[r].stored
  BY <1>2, StoreIsWide, ReleaseOpens
<1> HIDE DEF S
<1>4. Store.channels = channels
  BY DEF Store
<1> QED  BY <1>1, <1>3, <1>4, KeepsStarts

CanRead(plan) == plan # NoPlan /\ plan \notin Declined
NextSpec == Includes[Task.view][Len(Task.kids) + 1]
NextPlan == ChildPlanFor(NextSpec, PlanOf[Task.view], Task.rows)
Kid(plan) == IF CanRead(plan) THEN Visible(plan) ELSE Unknown
NextTask == [Task EXCEPT !.kids = Append(@, Kid(NextPlan)), !.now = ~CanRead(NextPlan)]

LEMMA ResultsAre ==
  /\ Unknown \in Results /\ Versions \subseteq Results /\ Unknown \notin Versions
  /\ Unknown \in Nat /\ Results \subseteq Nat
  BY LiveAssumption DEF Unknown, Results, Versions

LEMMA ChildPlanTyped ==
  ASSUME NEW spec \in Specs, NEW p \in Plans, NEW n \in Results
  PROVE  ChildPlanFor(spec, p, n) \in Plans \cup {NoPlan}
<1>1. n # Unknown => ChildPlan[<<spec, p, n>>] \in Plans \cup {NoPlan}
  BY LiveAssumption DEF Results
<1> QED  BY <1>1 DEF ChildPlanFor

LEMMA IncludesTyped ==
  ASSUME NEW u \in Views \cup Queries
  PROVE  /\ Includes[u] \in Seq(Specs) /\ PlanOf[u] \in Plans /\ Len(Includes[u]) \in Nat
         /\ \A i \in 1..Len(Includes[u]) : Includes[u][i] \in Specs
<1>1. Includes[u] \in Seq(Specs) /\ PlanOf[u] \in Plans
  BY LiveAssumption
<1> QED  BY <1>1

LEMMA VisibleTyped ==
  ASSUME CacheTyped, NEW p \in Plans
  PROVE  Visible(p) \in Results
<1>1. cached[p] \in Results /\ laid[p] \in Layers
  BY DEF CacheTyped
<1>2. <<p, cached[p], laid[p]>> \in Plans \X Results \X Layers
  BY <1>1
<1> QED  BY <1>2, LiveAssumption DEF Visible

LEMMA KidTyped ==
  ASSUME CacheTyped, NEW plan \in Plans \cup {NoPlan}
  PROVE  Kid(plan) \in Results
  BY ResultsAre, VisibleTyped DEF Kid, CanRead

LEMMA NextTyped ==
  ASSUME TypeInv, Runs("include"), Len(Task.kids) < Len(Includes[Task.view])
  PROVE  /\ Task \in Joinings /\ Task.view \in Views /\ Rest \in Seq(Tasks) /\ micro # <<>>
         /\ NextSpec \in Specs /\ NextPlan \in Plans \cup {NoPlan}
         /\ NextTask \in Joinings
         /\ NextTask.job = "include" /\ NextTask.view = Task.view /\ NextTask.held = Task.held
         /\ NextTask.rows = Task.rows /\ NextTask.coverage = Task.coverage
         /\ NextTask.kids = Append(Task.kids, Kid(NextPlan))
         /\ NextTask.now = ~CanRead(NextPlan)
<1>1. micro # <<>> /\ Task.job = "include"
  BY DEF Runs
<1>2. Task \in Joinings /\ Rest \in Seq(Tasks)
  BY <1>1, HeadIs, TaskIs DEF TypeInv
<1>3. /\ Task.view \in Views /\ Task.kids \in Seq(Results) /\ Task.rows \in Results
  BY <1>2 DEF Joinings
<1>4. Len(Task.kids) + 1 \in 1..Len(Includes[Task.view])
  BY <1>3, IncludesTyped
<1>5. NextSpec \in Specs
  BY <1>3, <1>4, IncludesTyped DEF NextSpec
<1>6. NextPlan \in Plans \cup {NoPlan}
  BY <1>3, <1>5, IncludesTyped, ChildPlanTyped DEF NextPlan
<1>7. Append(Task.kids, Kid(NextPlan)) \in Seq(Results)
  BY <1>3, <1>6, KidTyped DEF TypeInv
<1>8. CanRead(NextPlan) \in BOOLEAN
  BY DEF CanRead
<1> DEFINE k == Append(Task.kids, Kid(NextPlan))
           b == ~CanRead(NextPlan)
<1>9. NextTask = [Task EXCEPT !.kids = k, !.now = b]
  BY DEF NextTask
<1>10. k \in Seq(Results) /\ b \in BOOLEAN
  BY <1>7, <1>8
<1> HIDE DEF k, b
<1>11. /\ NextTask \in Joinings
       /\ NextTask.job = Task.job /\ NextTask.view = Task.view /\ NextTask.held = Task.held
       /\ NextTask.rows = Task.rows /\ NextTask.coverage = Task.coverage
       /\ NextTask.kids = k /\ NextTask.now = b
  BY <1>2, <1>9, <1>10 DEF Joinings
<1> QED  BY <1>1, <1>2, <1>3, <1>5, <1>6, <1>11 DEF k, b

LEMMA GoOnTyped ==
  ASSUME micro \in Seq(Tasks), micro # <<>>, NEW t \in Tasks
  PROVE  Now(t) \in Seq(Tasks) /\ Later(t) \in Seq(Tasks) /\ Rest \in Seq(Tasks)
<1>1. Rest \in Seq(Tasks)
  BY HeadIs
<1>2. <<t>> \in Seq(Tasks)
  OBVIOUS
<1> QED  BY <1>1, <1>2, CatIs, AppendProperties DEF Now, Later, Rest

LEMMA IncludeDoes ==
  ASSUME TypeInv, Include
  PROVE  /\ Runs("include") /\ Len(Task.kids) < Len(Includes[Task.view])
         /\ kids' = IF Task.view \notin mounted THEN kids
                    ELSE Exchanged(kids, Task.view, NextSpec, NextPlan)
         /\ \E W : /\ Starting(W) /\ Forgets(W)
                   /\ Queues(IF CanRead(NextPlan) THEN Later(NextTask) ELSE Now(NextTask),
                             waiting, Listeners(W))
<1> DEFINE S == ChildChannel(Task.view, NextSpec, NextPlan)
           tasks == IF CanRead(NextPlan) THEN Later(NextTask) ELSE Now(NextTask)
<1>1. Runs("include") /\ Len(Task.kids) < Len(Includes[Task.view])
  BY DEF Include
<1>2. /\ NextPlan \in Plans \cup {NoPlan} /\ NextTask \in Joinings /\ micro # <<>>
  BY <1>1, NextTyped
<1>3. IsWide(Store)
  BY StoreIsWide
<1>4. PICK W : /\ IsWide(S) /\ Opens(Store, S, W)
               /\ \A r \in Plans : S.channels[r].stored => Store.channels[r].stored \/ r = NextPlan
  BY <1>2, <1>3, ChildOpens
<1>5. /\ KeepsStore(S) /\ Schedule(tasks, waiting, Stirred(S))
      /\ kids' = IF Task.view \notin mounted THEN kids
                 ELSE Exchanged(kids, Task.view, NextSpec, NextPlan)
  BY DEF Include, NextTask, NextPlan, NextSpec, Kid, CanRead, Exchanged
<1>6. tasks \in Seq(Tasks)
  <2>1. NextTask \in Tasks
    BY <1>2 DEF Tasks
  <2> QED  BY <1>2, <2>1, GoOnTyped DEF TypeInv
<1> HIDE DEF S, tasks
<1>7. Store.channels = channels
  BY DEF Store
<1>8. Starting(W) /\ Forgets(W)
  BY <1>4, <1>5, <1>7, KeepsStarts
<1>9. Stirred(S) = Listeners(W)
  BY <1>3, <1>4, StirredIs
<1>10. Queues(tasks, waiting, Listeners(W))
  BY <1>5, <1>6, <1>9, ListenersAre, Scheduled DEF Queues
<1> QED  BY <1>1, <1>5, <1>8, <1>10 DEF tasks

LEMMA EventTyped ==
  ASSUME TypeInv, events[Me] \in Seq(made), events[Me] # <<>>
  PROVE  /\ Head(events[Me]) \in made /\ Head(events[Me])[1] \in Plans
         /\ Head(events[Me])[2] \in Versions
<1>1. Head(events[Me]) \in made
  OBVIOUS
<1>2. Head(events[Me]) \in Plans \X (1..MaxWrites)
  BY <1>1, LiveAssumption DEF TypeInv, SceneTyped
<1> QED  BY <1>1, <1>2, LiveAssumption DEF Versions

LEMMA HearDoes ==
  ASSUME TypeInv, events[Me] \in Seq(made), Hear
  PROVE  LET change == Head(events[Me])
             p == change[1]
             idle == {r \in ChannelsOf(ResourceOf[p]) : ~channels[r].refreshing}
             missed == channels[p].refreshing /\ AnsweredBefore(p, change[2])
         IN /\ Starting(idle) /\ Queues(<<>>, waiting, Listeners(idle))
            /\ \A r \in Plans : channels'[r].behind =
                 \/ (missed /\ r = p) \/ (r \notin idle /\ channels[r].behind)
<1> DEFINE change == Head(events[Me])
           p == change[1]
           P == ChannelsOf(ResourceOf[p])
           idle == {r \in P : ~channels[r].refreshing}
           missed == channels[p].refreshing /\ AnsweredBefore(p, change[2])
           S == Refresh(Store, P)
<1>1. /\ Quiet /\ events[Me] # <<>>
      /\ channels' = IF missed THEN [S.channels EXCEPT ![p].behind = TRUE] ELSE S.channels
      /\ batch' = S.batch /\ Schedule(micro, waiting, Stirred(S))
  BY DEF Hear, Takes
<1>2. change \in made /\ p \in Plans
  BY <1>1, EventTyped
<1>3. Store.channels = channels /\ Store.batch = batch /\ IsWide(Store)
  BY StoreIsWide DEF Store
<1>4. P \subseteq {r \in Plans : channels[r].stored}
  BY <1>3 DEF ChannelsOf, Stored
<1>5. IsFiniteSet(P) /\ P \subseteq Plans /\ \A r \in P : Store.channels[r].stored
  BY <1>3, <1>4, FS_Subset DEF TypeInv, ChannelsTyped
<1> HIDE DEF P
<1>6. /\ IsWide(S) /\ Opens(Store, S, idle)
      /\ \A r \in Plans : S.channels[r].stored = channels[r].stored
  BY <1>3, <1>5, RefreshOpens
<1> HIDE DEF S, idle, change, p
<1>7. missed \in BOOLEAN
  <2>1. channels[p].refreshing \in BOOLEAN
    BY <1>2 DEF TypeInv, ChannelsTyped, Channel
  <2> QED  BY <2>1 DEF AnsweredBefore
<1> HIDE DEF missed
<1>8. channels' \in [Plans -> WideChannel]
  <2>1. S.channels \in [Plans -> WideChannel]
    BY <1>6 DEF IsWide
  <2>2. [S.channels[p] EXCEPT !.behind = TRUE] \in WideChannel
    BY <1>2, <2>1 DEF WideChannel
  <2> QED  BY <1>1, <2>1, <2>2
<1>9. IsWide(Store')
  <2>1. S.batch \in Seq(Calls)
    BY <1>6 DEF IsWide
  <2> QED  BY <1>1, <1>8, <2>1 DEF Store, IsWide
<1>10. ASSUME NEW r \in Plans
       PROVE  /\ Seen(channels[r], channels'[r], r \in idle)
              /\ channels'[r].stored = channels[r].stored
              /\ channels'[r].behind = \/ (missed /\ r = p)
                                       \/ (r \notin idle /\ channels[r].behind)
  <2>1. /\ S.channels[r] \in WideChannel /\ channels[r] \in WideChannel
        /\ S.channels \in [Plans -> WideChannel]
    BY <1>3, <1>6 DEF IsWide
  <2>2. Opened(channels[r], S.channels[r], r \in idle)
    BY <1>3, <1>6 DEF Opens
  <2>3. channels'[r] = IF missed /\ r = p THEN [S.channels[r] EXCEPT !.behind = TRUE]
                       ELSE S.channels[r]
    BY <1>1, <1>2, <1>7, <2>1
  <2>4. CASE missed /\ r = p
    BY <1>6, <2>1, <2>2, <2>3, <2>4 DEF Opened, Seen, WideChannel
  <2>5. CASE ~(missed /\ r = p)
    BY <1>6, <2>1, <2>2, <2>3, <2>5 DEF Opened, Seen, WideChannel
  <2> QED  BY <2>4, <2>5
<1>11. {r \in Plans : channels'[r].stored} = {r \in Plans : channels[r].stored}
  BY <1>10
<1>12. Starting(idle)
  <2>1. /\ idle \subseteq Plans /\ IsFiniteSet(idle)
        /\ batch' = IF idle = {} THEN batch ELSE batch \o SetToSeq(CallsFor(idle))
    BY <1>1, <1>3, <1>6 DEF Opens
  <2>2. IsFiniteSet({r \in Plans : channels'[r].stored})
    BY <1>11 DEF TypeInv, ChannelsTyped
  <2> QED  BY <1>9, <1>10, <2>1, <2>2 DEF Starting
<1>13. Stirred(S) = Listeners(idle)
  BY <1>3, <1>6, StirredIs
<1>14. micro = <<>> /\ micro \in Seq(Tasks)
  BY <1>1 DEF Quiet, TypeInv
<1>15. Queues(<<>>, waiting, Listeners(idle))
  <2>1. Schedule(micro, waiting, Listeners(idle))
    BY <1>1, <1>13
  <2>2. micro \in Seq(Tasks) /\ Listeners(idle) \in SUBSET Views /\ IsFiniteSet(Listeners(idle))
    BY <1>14, ListenersAre
  <2>3. Queues(micro, waiting, Listeners(idle))
    BY <2>1, <2>2, Scheduled DEF Queues
  <2> QED  BY <1>14, <2>3
<1> QED  BY <1>10, <1>12, <1>15 DEF idle, P, change, p, missed

\* The tasks a recompute goes on as.
BaseOf(v) ==
  IF PlanOf[v] \in Declined THEN [job |-> "base", view |-> v, read |-> NoRead, now |-> TRUE]
  ELSE [job |-> "base", view |-> v, read |-> Reads(PlanOf[v]), now |-> FALSE]
HeldBy(v) == IF v \in mounted THEN channels[PlanOf[v]] ELSE NoChannel
IncludeOf(t) ==
  [job |-> "include", view |-> t.view, held |-> HeldBy(t.view), kids |-> <<>>,
   coverage |-> t.read.coverage, now |-> TRUE,
   rows |-> IF t.read.coverage # "none" THEN t.read.rows ELSE HeldBy(t.view).last]
DeriveOf(t) == [t EXCEPT !.job = "derive", !.now = Shape[PlanOf[t.view]] = "one"]
ShowOf(t) ==
  [job |-> "show", view |-> t.view, now |-> FALSE,
   next |-> State(t.view, t.rows, t.kids, t.coverage, t.held)]

LEMMA ReadsTyped ==
  ASSUME CacheTyped, NEW p \in Plans
  PROVE  Reads(p) \in Readings /\ NoRead \in Readings
<1>1. \A n : Known(p, n) \in {"unknown", "complete", "partial"}
  BY DEF Known
<1> QED  BY <1>1, ResultsAre, VisibleTyped DEF Reads, NoRead, Readings, Coverages

LEMMA NoChannelTyped == NoChannel \in Channel
  BY ResultsAre DEF NoChannel, Channel

LEMMA StateTyped ==
  ASSUME NEW v, NEW rows \in Results, NEW related \in Seq(Results), NEW cover \in Coverages,
         NEW held \in Channel
  PROVE  State(v, rows, related, cover, held) \in States
<1> DEFINE coverage == IF cover # "none" THEN cover
                       ELSE IF held.synced THEN "complete" ELSE "unknown"
           r == v \in refined
           d == DeriveStatus(coverage, held)
<1>1. coverage \in Coverages
  BY DEF Coverages
<1>2. d \in {"offline", "fresh", "loading", "stale"}
  BY DEF DeriveStatus
<1>3. r \in BOOLEAN
  OBVIOUS
<1>4. held.refreshing \in BOOLEAN /\ held.error \in BOOLEAN
  BY DEF Channel
<1>5. State(v, rows, related, cover, held)
        = [rows |-> rows, kids |-> related, refined |-> r, status |-> d, coverage |-> coverage,
           refreshing |-> held.refreshing, error |-> held.error]
  BY DEF State
<1> HIDE DEF coverage, r, d
<1> QED  BY <1>1, <1>2, <1>3, <1>4, <1>5 DEF States

LEMMA BaseTyped ==
  ASSUME TypeInv, NEW v \in Views
  PROVE  BaseOf(v) \in Bases /\ (BaseOf(v).now <=> PlanOf[v] \in Declined)
<1>1. PlanOf[v] \in Plans
  BY IncludesTyped
<1>2. Reads(PlanOf[v]) \in Readings /\ NoRead \in Readings
  BY <1>1, ReadsTyped DEF TypeInv
<1>3. CASE PlanOf[v] \in Declined
  BY <1>2, <1>3 DEF BaseOf, Bases
<1>4. CASE PlanOf[v] \notin Declined
  <2> DEFINE read == Reads(PlanOf[v])
             b == BaseOf(v)
  <2>1. b = [job |-> "base", view |-> v, read |-> read, now |-> FALSE]
    BY <1>4 DEF BaseOf
  <2>2. read \in Readings
    BY <1>2
  <2> HIDE DEF read, b
  <2>3. b \in Bases
    BY <2>1, <2>2 DEF Bases
  <2>4. b.now = FALSE
    BY <2>1
  <2> QED  BY <1>4, <2>3, <2>4 DEF b
<1> QED  BY <1>3, <1>4

LEMMA IncludeTyped ==
  ASSUME TypeInv, NEW t \in Bases
  PROVE  IncludeOf(t) \in Joinings
<1>1. t.view \in Views /\ t.read \in Readings /\ PlanOf[t.view] \in Plans
  BY IncludesTyped DEF Bases
<1>2. HeldBy(t.view) \in Channel
  BY <1>1, NoChannelTyped DEF HeldBy, TypeInv, ChannelsTyped
<1>3. t.read.coverage \in Coverages /\ t.read.rows \in Results /\ HeldBy(t.view).last \in Results
  BY <1>1, <1>2 DEF Readings, Channel
<1>4. <<>> \in Seq(Results)
  OBVIOUS
<1> DEFINE rows == IF t.read.coverage # "none" THEN t.read.rows ELSE HeldBy(t.view).last
<1>5. rows \in Results
  BY <1>3
<1>6. IncludeOf(t) = [job |-> "include", view |-> t.view, held |-> HeldBy(t.view), kids |-> <<>>,
                      coverage |-> t.read.coverage, now |-> TRUE, rows |-> rows]
  BY DEF IncludeOf
<1> HIDE DEF rows
<1> QED  BY <1>1, <1>2, <1>3, <1>4, <1>5, <1>6 DEF Joinings

LEMMA DeriveTyped ==
  ASSUME NEW t \in Joinings
  PROVE  /\ DeriveOf(t) \in Joinings /\ DeriveOf(t).job = "derive"
         /\ DeriveOf(t).view = t.view /\ DeriveOf(t).kids = t.kids /\ DeriveOf(t).held = t.held
         /\ DeriveOf(t).rows = t.rows /\ DeriveOf(t).coverage = t.coverage
         /\ DeriveOf(t).now = (Shape[PlanOf[t.view]] = "one")
<1> DEFINE one == Shape[PlanOf[t.view]] = "one"
<1>1. DeriveOf(t) = [t EXCEPT !.job = "derive", !.now = one] /\ one \in BOOLEAN
  BY DEF DeriveOf
<1> HIDE DEF one
<1>2. /\ DeriveOf(t) \in Joinings /\ DeriveOf(t).job = "derive"
      /\ DeriveOf(t).view = t.view /\ DeriveOf(t).kids = t.kids /\ DeriveOf(t).held = t.held
      /\ DeriveOf(t).rows = t.rows /\ DeriveOf(t).coverage = t.coverage
      /\ DeriveOf(t).now = one
  BY <1>1 DEF Joinings
<1> QED  BY <1>2 DEF one

LEMMA ShowTyped ==
  ASSUME NEW t \in Joinings
  PROVE  ShowOf(t) \in Shows
<1>1. /\ t.view \in Views /\ t.rows \in Results /\ t.kids \in Seq(Results)
      /\ t.coverage \in Coverages /\ t.held \in Channel
  BY DEF Joinings
<1>2. State(t.view, t.rows, t.kids, t.coverage, t.held) \in States
  BY <1>1, StateTyped
<1> QED  BY <1>1, <1>2 DEF ShowOf, Shows

LEMMA StartDoes ==
  ASSUME TypeInv, Start
  PROVE  /\ Runs("start") /\ Task \in Starts /\ BaseOf(Task.view) \in Bases
         /\ waiting' = waiting \ {Task.view}
         /\ micro' = IF PlanOf[Task.view] \in Declined THEN Now(BaseOf(Task.view))
                     ELSE Later(BaseOf(Task.view))
<1>1. Runs("start") /\ micro # <<>> /\ Task.job = "start"
  BY DEF Start, Runs
<1>2. Task \in Starts
  BY <1>1, HeadIs, TaskIs DEF TypeInv
<1>3. BaseOf(Task.view) \in Bases
  BY <1>2, BaseTyped DEF Starts
<1> QED  BY <1>1, <1>2, <1>3 DEF Start, BaseOf

LEMMA BaseDoes ==
  ASSUME TypeInv, Base
  PROVE  /\ Runs("base") /\ Task \in Bases /\ IncludeOf(Task) \in Joinings
         /\ micro' = Now(IncludeOf(Task)) /\ UNCHANGED others
<1>1. Runs("base") /\ micro # <<>> /\ Task.job = "base"
  BY DEF Base, Runs
<1>2. Task \in Bases
  BY <1>1, HeadIs, TaskIs DEF TypeInv
<1>3. IncludeOf(Task) \in Joinings
  BY <1>2, IncludeTyped
<1> QED  BY <1>1, <1>2, <1>3 DEF Base, IncludeOf, HeldBy

LEMMA JoinDoes ==
  ASSUME TypeInv, Join
  PROVE  /\ Runs("include") /\ Task \in Joinings /\ Len(Task.kids) = Len(Includes[Task.view])
         /\ DeriveOf(Task) \in Joinings
         /\ micro' = IF Shape[PlanOf[Task.view]] = "one" THEN Now(DeriveOf(Task))
                     ELSE Later(DeriveOf(Task))
         /\ UNCHANGED others
<1>1. Runs("include") /\ micro # <<>> /\ Task.job = "include"
  BY DEF Join, Runs
<1>2. Task \in Joinings
  BY <1>1, HeadIs, TaskIs DEF TypeInv
<1>3. DeriveOf(Task) \in Joinings
  BY <1>2, DeriveTyped
<1> QED  BY <1>1, <1>2, <1>3 DEF Join, DeriveOf

LEMMA DeriveDoes ==
  ASSUME TypeInv, Derive
  PROVE  /\ Runs("derive") /\ Task \in Joinings /\ ShowOf(Task) \in Shows
         /\ micro' = Later(ShowOf(Task)) /\ UNCHANGED others
<1>1. Runs("derive") /\ micro # <<>> /\ Task.job = "derive"
  BY DEF Derive, Runs
<1>2. Task \in Joinings
  BY <1>1, HeadIs, TaskIs DEF TypeInv
<1>3. ShowOf(Task) \in Shows
  BY <1>2, ShowTyped
<1> QED  BY <1>1, <1>2, <1>3 DEF Derive, ShowOf

\* A recompute ends: what is shown then is what it came to.
LEMMA EqualStates ==
  ASSUME NEW a \in States, NEW b \in States, StatesEqual(a, b)
  PROVE  a = b
  BY DEF States, StatesEqual

LEMMA ShowDoes ==
  ASSUME TypeInv, Show
  PROVE  /\ Runs("show") /\ Task \in Shows
         /\ shown' = [shown EXCEPT ![Task.view] = Task.next]
         /\ micro' = Rest \/ micro' = Later(Turn)
         /\ UNCHANGED <<channels, mounted, kids, waiting, refined, cached, laid, newest, asks, batch,
              net>>
<1>1. Runs("show") /\ micro # <<>> /\ Task.job = "show"
  BY DEF Show, Runs
<1>2. Task \in Shows
  BY <1>1, HeadIs, TaskIs DEF TypeInv
<1>3. Task.view \in Views /\ Task.next \in States /\ shown \in [Views -> States]
  BY <1>2 DEF Shows, TypeInv, ViewsTyped
<1>4. shown' = [shown EXCEPT ![Task.view] = Task.next]
  <2>1. CASE StatesEqual(shown[Task.view], Task.next)
    <3>1. shown[Task.view] = Task.next
      BY <1>3, <2>1, EqualStates
    <3>2. shown' = shown
      BY <2>1 DEF Show
    <3> QED  BY <1>3, <3>1, <3>2
  <2>2. CASE ~StatesEqual(shown[Task.view], Task.next)
    BY <2>2 DEF Show
  <2> QED  BY <2>1, <2>2
<1>5. micro' = Rest \/ micro' = Later(Turn)
  BY DEF Show
<1> QED  BY <1>1, <1>2, <1>4, <1>5 DEF Show

LEMMA TruthIs ==
  ASSUME SceneTyped, NEW p
  PROVE  Truth(p) \in Versions
<1> DEFINE C == {c \in made : c[1] = p}
<1>1. IsFiniteSet(made) /\ C \subseteq made /\ Cardinality(made) <= scene.edits
  BY DEF SceneTyped
<1>2. IsFiniteSet(C) /\ Cardinality(C) <= Cardinality(made)
  BY <1>1, FS_Subset
<1>3. Cardinality(C) \in Nat /\ Cardinality(made) \in Nat
  BY <1>1, <1>2, FS_CardinalityType
<1>4. scene.edits \in Versions
  BY DEF SceneTyped, Scene
<1> HIDE DEF C
<1>5. Cardinality(C) \in Versions
  BY <1>1, <1>2, <1>3, <1>4, LiveAssumption DEF Versions
<1> QED  BY <1>5 DEF Truth, C

\* One-shot queries.
LookOf(q) == Looking(q, PlanOf[q])
Sent(Q) == {Call(q, PlanOf[q]) : q \in {r \in Q : PlanOf[r] \in Declined}}
Read(Q) == {LookOf(q) : q \in {r \in Q : PlanOf[r] \notin Declined}}

LEMMA LookingTyped ==
  ASSUME CacheTyped, NEW q \in Queries, NEW p \in Plans
  PROVE  Looking(q, p) \in Looks /\ Call(q, p) \in Calls
<1>1. Reads(p) \in Readings
  BY ReadsTyped
<1> QED  BY <1>1 DEF Looking, Looks, Call, Calls

LEMMA AskTyped ==
  ASSUME CacheTyped, NEW Q \in Bundles
  PROVE  /\ IsFiniteSet(Sent(Q)) /\ IsFiniteSet(Read(Q))
         /\ Sent(Q) \subseteq Calls /\ Read(Q) \subseteq Looks
         /\ SetToSeq(Sent(Q)) \in Seq(Calls) /\ SetToSeq(Read(Q)) \in Seq(Tasks)
         /\ SetToSeq(Read(Q)) \in Seq(Looks)
<1>1. Q \subseteq Queries /\ IsFiniteSet(Q)
  BY LiveAssumption
<1>2. ASSUME NEW q \in Q
      PROVE  Call(q, PlanOf[q]) \in Calls /\ LookOf(q) \in Looks
  BY <1>1, IncludesTyped, LookingTyped DEF LookOf
<1>3. Sent(Q) \subseteq Calls /\ Read(Q) \subseteq Looks
  BY <1>2 DEF Sent, Read
<1> DEFINE D == {r \in Q : PlanOf[r] \in Declined}
           E == {r \in Q : PlanOf[r] \notin Declined}
           f == [q \in D |-> Call(q, PlanOf[q])]
           g == [q \in E |-> LookOf(q)]
<1>4. IsFiniteSet(D) /\ IsFiniteSet(E)
  BY <1>1, FS_Subset
<1>5. f \in Surjection(D, Sent(Q)) /\ g \in Surjection(E, Read(Q))
  BY DEF Surjection, Sent, Read
<1> HIDE DEF D, E, f, g
<1>6. IsFiniteSet(Sent(Q)) /\ IsFiniteSet(Read(Q))
  BY <1>4, <1>5, FS_Surjection
<1>7. SetToSeq(Sent(Q)) \in Seq(Sent(Q)) /\ SetToSeq(Read(Q)) \in Seq(Read(Q))
  BY <1>6, SetToSeqIs
<1>8. SetToSeq(Sent(Q)) \in Seq(Calls)
  BY <1>3, <1>7, SeqMonotonic
<1>9. SetToSeq(Read(Q)) \in Seq(Looks)
  BY <1>3, <1>7, SeqMonotonic
<1>10. SetToSeq(Read(Q)) \in Seq(Tasks)
  <2>1. Looks \subseteq Tasks
    BY DEF Tasks
  <2> QED  BY <1>9, <2>1, SeqMonotonic
<1> QED  BY <1>3, <1>6, <1>8, <1>9, <1>10

LEMMA AskDoes ==
  ASSUME TypeInv, NEW Q \in Bundles, Ask(Q)
  PROVE  /\ Calling /\ Q \subseteq Queries
         /\ \A q \in Q : asks[q].stage = "idle"
         /\ asks' = [q \in Queries |-> IF q \in Q THEN [asks[q] EXCEPT !.stage = "asking"]
                                       ELSE asks[q]]
         /\ batch' = batch \o SetToSeq(Sent(Q)) /\ batch' \in Seq(Calls)
         /\ micro' = Open \o SetToSeq(Read(Q)) /\ micro' \in Seq(Tasks)
         /\ UNCHANGED <<channels, views, cached, laid, newest, net, heard>>
<1>1. /\ Calling /\ \A q \in Q : asks[q].stage = "idle"
      /\ asks' = [q \in Queries |-> IF q \in Q THEN [asks[q] EXCEPT !.stage = "asking"]
                                    ELSE asks[q]]
      /\ batch' = batch \o SetToSeq(Sent(Q))
      /\ micro' = Open \o SetToSeq(Read(Q))
      /\ UNCHANGED <<channels, views, cached, laid, newest, net, heard>>
  BY DEF Ask, Sent, Read, LookOf
<1>2. batch' \in Seq(Calls)
  <2>1. batch \in Seq(Calls) /\ SetToSeq(Sent(Q)) \in Seq(Calls)
    BY AskTyped DEF TypeInv, NetTyped
  <2>2. batch \o SetToSeq(Sent(Q)) \in Seq(Calls)
    BY <2>1, CatIs
  <2> QED  BY <1>1, <2>2
<1>3. micro' \in Seq(Tasks)
  <2>1. Open \in Seq(Tasks) /\ SetToSeq(Read(Q)) \in Seq(Tasks)
    BY OpenTyped, AskTyped DEF TypeInv
  <2>2. Open \o SetToSeq(Read(Q)) \in Seq(Tasks)
    BY <2>1, CatIs
  <2> QED  BY <1>1, <2>2
<1>4. Q \subseteq Queries
  BY LiveAssumption
<1> QED  BY <1>1, <1>2, <1>3, <1>4

LEMMA AnsweredTyped ==
  ASSUME CacheTyped, NEW q \in Queries, NEW first \in BOOLEAN, NEW rows \in Results
  PROVE  /\ Answered(q, first, rows) \in [Queries -> Asks]
         /\ \A r \in Queries \ {q} : Answered(q, first, rows)[r] = asks[r]
         /\ Answered(q, first, rows)[q].stage = "joining"
         /\ first => /\ Answered(q, first, rows)[q].rows = rows
                     /\ Answered(q, first, rows)[q].kids = asks[q].kids
         /\ ~first => /\ Answered(q, first, rows)[q].rows = asks[q].rows
                      /\ Answered(q, first, rows)[q].kids = Append(asks[q].kids, rows)
<1>1. asks \in [Queries -> Asks] /\ asks[q] \in Asks
  BY DEF CacheTyped
<1> DEFINE more == Append(asks[q].kids, rows)
           one == [asks[q] EXCEPT !.rows = rows, !.stage = "joining"]
           two == [asks[q] EXCEPT !.kids = more, !.stage = "joining"]
<1>2. more \in Seq(Results)
  BY <1>1 DEF Asks
<1>3. Answered(q, first, rows) = IF first THEN [asks EXCEPT ![q] = one]
                                 ELSE [asks EXCEPT ![q] = two]
  BY <1>1 DEF Answered
<1>4. one \in Asks /\ one.stage = "joining" /\ one.rows = rows /\ one.kids = asks[q].kids
  BY <1>1 DEF Asks
<1> HIDE DEF more
<1>5. two \in Asks /\ two.stage = "joining" /\ two.rows = asks[q].rows /\ two.kids = more
  BY <1>1, <1>2 DEF Asks
<1> HIDE DEF one, two
<1>6. CASE first
  BY <1>1, <1>3, <1>4, <1>6
<1>7. CASE ~first
  BY <1>1, <1>3, <1>5, <1>7 DEF more
<1> QED  BY <1>6, <1>7

LEMMA FailedTyped ==
  ASSUME CacheTyped, NEW q \in Queries,
         NEW stage \in {"idle", "asking", "joining", "relating", "done", "failed"}
  PROVE  [asks EXCEPT ![q].stage = stage] \in [Queries -> Asks]
  BY DEF CacheTyped, Asks

LEMMA RelatingTyped ==
  ASSUME NEW q \in Queries
  PROVE  Relating(q) \in Relates
  BY DEF Relating, Relates

LEMMA LookedDoes ==
  ASSUME TypeInv, Looked
  PROVE  /\ Runs("looked") /\ Task \in Looks /\ Task.query \in Queries
         /\ IF Task.read.coverage = "complete"
            THEN /\ asks' = Answered(Task.query, First(Task.query), Task.read.rows)
                 /\ micro' = Now(Relating(Task.query)) /\ batch' = batch
            ELSE /\ batch' = Append(batch, Call(Task.query, Task.plan)) /\ asks' = asks
                 /\ micro' = Rest
         /\ asks' \in [Queries -> Asks] /\ batch' \in Seq(Calls)
         /\ UNCHANGED <<channels, views, cached, laid, newest, net, heard>>
<1>1. Runs("looked") /\ micro # <<>> /\ Task.job = "looked"
  BY DEF Looked, Runs
<1>2. Task \in Looks
  BY <1>1, HeadIs, TaskIs DEF TypeInv
<1>3. Task.query \in Queries /\ Task.plan \in Plans /\ Task.read.rows \in Results
  BY <1>2 DEF Looks, Readings
<1>4. /\ IF Task.read.coverage = "complete"
         THEN /\ asks' = Answered(Task.query, First(Task.query), Task.read.rows)
              /\ micro' = Now(Relating(Task.query)) /\ batch' = batch
         ELSE /\ batch' = Append(batch, Call(Task.query, Task.plan)) /\ asks' = asks
              /\ micro' = Rest
      /\ UNCHANGED <<channels, views, cached, laid, newest, net, heard>>
  BY DEF Looked
<1>5. /\ Answered(Task.query, First(Task.query), Task.read.rows) \in [Queries -> Asks]
      /\ Call(Task.query, Task.plan) \in Calls
  BY <1>3, AnsweredTyped, LookingTyped DEF TypeInv, First
<1>6. asks \in [Queries -> Asks] /\ batch \in Seq(Calls)
  BY DEF TypeInv, CacheTyped, NetTyped
<1>7. Append(batch, Call(Task.query, Task.plan)) \in Seq(Calls)
  BY <1>5, <1>6, AppendProperties
<1> QED  BY <1>1, <1>2, <1>3, <1>4, <1>5, <1>6, <1>7

LEMMA FallBackDoes ==
  ASSUME TypeInv, FallBack
  PROVE  /\ Runs("fallback") /\ Task \in Falls /\ Task.query \in Queries
         /\ IF Task.read.coverage # "unknown"
            THEN /\ asks' = Answered(Task.query, First(Task.query), Task.read.rows)
                 /\ micro' = Now(Relating(Task.query))
            ELSE asks' = Failed(Task.query) /\ micro' = Rest
         /\ asks' \in [Queries -> Asks]
         /\ UNCHANGED <<channels, views, cached, laid, newest, batch, net, heard>>
<1>1. Runs("fallback") /\ micro # <<>> /\ Task.job = "fallback"
  BY DEF FallBack, Runs
<1>2. Task \in Falls
  BY <1>1, HeadIs, TaskIs DEF TypeInv
<1>3. Task.query \in Queries /\ Task.read.rows \in Results
  BY <1>2 DEF Falls, Readings
<1>4. /\ IF Task.read.coverage # "unknown"
         THEN /\ asks' = Answered(Task.query, First(Task.query), Task.read.rows)
              /\ micro' = Now(Relating(Task.query))
         ELSE asks' = Failed(Task.query) /\ micro' = Rest
      /\ UNCHANGED <<channels, views, cached, laid, newest, batch, net, heard>>
  BY DEF FallBack
<1>5. Answered(Task.query, First(Task.query), Task.read.rows) \in [Queries -> Asks]
  BY <1>3, AnsweredTyped DEF TypeInv, First
<1>6. Failed(Task.query) \in [Queries -> Asks]
  BY <1>3, FailedTyped DEF TypeInv, Failed
<1> QED  BY <1>1, <1>2, <1>3, <1>4, <1>5, <1>6

\* The plan a query asks for: its own, then those of its relations.
NextWanted(q) ==
  ChildPlanFor(Includes[q][Len(asks[q].kids) + 1], PlanOf[q], asks[q].rows)
AllJoined(q) == Len(asks[q].kids) >= Len(Includes[q])

LEMMA RelateDoes ==
  ASSUME TypeInv, Relate
  PROVE  /\ Runs("relate") /\ Task \in Relates /\ Task.query \in Queries
         /\ Task = Relating(Task.query)
         /\ ~AllJoined(Task.query) => NextWanted(Task.query) \in Plans \cup {NoPlan}
         /\ \/ /\ AllJoined(Task.query)
               /\ asks' = [asks EXCEPT ![Task.query].stage = "done"]
               /\ micro' = Rest /\ batch' = batch
            \/ /\ ~AllJoined(Task.query) /\ NextWanted(Task.query) = NoPlan
               /\ asks' = Answered(Task.query, FALSE, Unknown)
               /\ micro' = Now(Task) /\ batch' = batch
            \/ /\ ~AllJoined(Task.query) /\ NextWanted(Task.query) \in Declined
               /\ NextWanted(Task.query) # NoPlan
               /\ asks' = [asks EXCEPT ![Task.query].stage = "relating"]
               /\ micro' = Rest
               /\ batch' = Append(batch, Call(Task.query, NextWanted(Task.query)))
            \/ /\ ~AllJoined(Task.query) /\ NextWanted(Task.query) \notin Declined
               /\ NextWanted(Task.query) # NoPlan
               /\ asks' = [asks EXCEPT ![Task.query].stage = "relating"]
               /\ micro' = Later(Looking(Task.query, NextWanted(Task.query))) /\ batch' = batch
         /\ asks' \in [Queries -> Asks] /\ batch' \in Seq(Calls)
         /\ UNCHANGED <<channels, views, cached, laid, newest, net, heard>>
<1>1. Runs("relate") /\ micro # <<>> /\ Task.job = "relate"
  BY DEF Relate, Runs
<1>2. Task \in Relates
  BY <1>1, HeadIs, TaskIs DEF TypeInv
<1> DEFINE q == Task.query
           plan == NextWanted(q)
<1>3. q \in Queries /\ Task = Relating(q)
  BY <1>2 DEF Relates, Relating
<1>4. asks \in [Queries -> Asks] /\ batch \in Seq(Calls)
  BY DEF TypeInv, CacheTyped, NetTyped
<1>5. asks[q].kids \in Seq(Results) /\ asks[q].rows \in Results /\ Len(asks[q].kids) \in Nat
  BY <1>3, <1>4 DEF Asks
<1>6. Includes[q] \in Seq(Specs) /\ Len(Includes[q]) \in Nat /\ PlanOf[q] \in Plans
  BY <1>3, IncludesTyped
<1>7. AllJoined(q) <=> Len(asks[q].kids) + 1 > Len(Includes[q])
  BY <1>5, <1>6 DEF AllJoined
<1>8. ~AllJoined(q) => plan \in Plans \cup {NoPlan}
  <2> SUFFICES ASSUME ~AllJoined(q) PROVE plan \in Plans \cup {NoPlan}
    OBVIOUS
  <2>1. Len(asks[q].kids) + 1 \in 1..Len(Includes[q])
    BY <1>5, <1>6, <1>7
  <2>2. Includes[q][Len(asks[q].kids) + 1] \in Specs
    BY <1>3, <2>1, IncludesTyped
  <2> QED  BY <1>5, <1>6, <2>2, ChildPlanTyped DEF NextWanted
<1>9. \/ /\ AllJoined(q)
         /\ asks' = [asks EXCEPT ![q].stage = "done"]
         /\ micro' = Rest /\ batch' = batch
      \/ /\ ~AllJoined(q) /\ plan = NoPlan
         /\ asks' = Answered(q, FALSE, Unknown)
         /\ micro' = Now(Task) /\ batch' = batch
      \/ /\ ~AllJoined(q) /\ plan \in Declined /\ plan # NoPlan
         /\ asks' = [asks EXCEPT ![q].stage = "relating"]
         /\ micro' = Rest /\ batch' = Append(batch, Call(q, plan))
      \/ /\ ~AllJoined(q) /\ plan \notin Declined /\ plan # NoPlan
         /\ asks' = [asks EXCEPT ![q].stage = "relating"]
         /\ micro' = Later(Looking(q, plan)) /\ batch' = batch
  <2>1. CASE AllJoined(q)
    BY <1>7, <2>1 DEF Relate
  <2>2. CASE ~AllJoined(q) /\ plan = NoPlan
    BY <1>7, <2>2 DEF Relate, NextWanted
  <2>3. CASE ~AllJoined(q) /\ plan # NoPlan
    BY <1>7, <2>3 DEF Relate, NextWanted
  <2> QED  BY <2>1, <2>2, <2>3
<1> HIDE DEF q, plan
<1>10. UNCHANGED <<channels, views, cached, laid, newest, net, heard>>
  BY DEF Relate
<1>11. /\ [asks EXCEPT ![q].stage = "done"] \in [Queries -> Asks]
       /\ [asks EXCEPT ![q].stage = "relating"] \in [Queries -> Asks]
       /\ Answered(q, FALSE, Unknown) \in [Queries -> Asks]
  BY <1>3, FailedTyped, AnsweredTyped, ResultsAre DEF TypeInv
<1>12. ~AllJoined(q) /\ plan # NoPlan => Append(batch, Call(q, plan)) \in Seq(Calls)
  <2> SUFFICES ASSUME ~AllJoined(q), plan # NoPlan PROVE Append(batch, Call(q, plan)) \in Seq(Calls)
    OBVIOUS
  <2>1. Call(q, plan) \in Calls
    BY <1>3, <1>8, LookingTyped DEF TypeInv
  <2> QED  BY <1>4, <2>1, AppendProperties
<1>13. asks' \in [Queries -> Asks] /\ batch' \in Seq(Calls)
  BY <1>4, <1>9, <1>11, <1>12
<1> QED  BY <1>1, <1>2, <1>3, <1>8, <1>9, <1>10, <1>13 DEF q, plan

\* The source.
Message(calls) == [calls |-> calls, served |-> FALSE, answers |-> <<>>]

LEMMA FlushDoes ==
  ASSUME TypeInv, Flush
  PROVE  /\ Quiet /\ net' = Append(net, Message(batch)) /\ batch' = <<>>
         /\ Message(batch) \in Messages /\ NetTyped'
         /\ UNCHANGED <<channels, views, cached, laid, newest, asks, micro, heard>>
<1>1. /\ Quiet /\ net' = Append(net, Message(batch)) /\ batch' = <<>>
      /\ UNCHANGED <<channels, views, cached, laid, newest, asks, micro, heard>>
  BY DEF Flush, Message
<1>2. <<>> \in Seq(Replies) /\ <<>> \in Seq(Calls) /\ DOMAIN <<>> = {}
  OBVIOUS
<1>3. Message(batch) \in Messages
  BY <1>2 DEF Message, Messages, TypeInv, NetTyped
<1> DEFINE m == Message(batch)
<1>4. m.served = FALSE /\ DOMAIN m.answers = {}
  BY <1>2 DEF Message
<1> HIDE DEF m
<1>5. net \in Seq(Messages) /\ m \in Messages
  BY <1>3 DEF TypeInv, NetTyped, m
<1>6. /\ Append(net, m) \in Seq(Messages)
      /\ \A i \in DOMAIN Append(net, m) : IF i \in DOMAIN net THEN Append(net, m)[i] = net[i]
                                          ELSE Append(net, m)[i] = m
  BY <1>5
<1>7. NetTyped'
  BY <1>1, <1>2, <1>4, <1>6 DEF NetTyped, TypeInv, m
<1> QED  BY <1>1, <1>3, <1>7

LEMMA MessageIs ==
  ASSUME TypeInv, NEW i \in DOMAIN net
  PROVE  /\ net \in Seq(Messages) /\ net[i] \in Messages
         /\ net[i].calls \in Seq(Calls) /\ net[i].answers \in Seq(Replies)
         /\ net[i].served \in BOOLEAN
<1>1. net \in Seq(Messages)
  BY DEF TypeInv, NetTyped
<1>2. net[i] \in Messages
  BY <1>1
<1> QED  BY <1>1, <1>2 DEF Messages

LEMMA ServeDoes ==
  ASSUME TypeInv, NEW i \in DOMAIN net, NEW refused, Serve(i, refused)
  PROVE  /\ Quiet /\ ~net[i].served /\ NetTyped'
         /\ DOMAIN net' = DOMAIN net /\ \A k \in DOMAIN net \ {i} : net'[k] = net[k]
         /\ net'[i].calls = net[i].calls /\ net'[i].served = TRUE
         /\ net'[i].answers = [j \in DOMAIN net[i].calls |->
                                 IF j \in refused THEN Fault("error")
                                 ELSE Got(Truth(net[i].calls[j].plan))]
         /\ UNCHANGED <<channels, views, cached, laid, newest, asks, micro, batch, heard>>
<1> DEFINE answers == [j \in DOMAIN net[i].calls |->
                         IF j \in refused THEN Fault("error")
                         ELSE Got(Truth(net[i].calls[j].plan))]
<1>1. /\ Quiet /\ ~net[i].served
      /\ net' = [net EXCEPT ![i].served = TRUE, ![i].answers = answers]
      /\ UNCHANGED <<channels, views, cached, laid, newest, asks, micro, batch, heard>>
  BY DEF Serve
<1>2. net \in Seq(Messages) /\ net[i] \in Messages /\ net[i].calls \in Seq(Calls)
  BY MessageIs
<1>3. ASSUME NEW j \in DOMAIN net[i].calls PROVE answers[j] \in Replies
  <2>1. Truth(net[i].calls[j].plan) \in Versions
    BY TruthIs DEF TypeInv
  <2>2. Fault("error") \in Replies /\ Got(Truth(net[i].calls[j].plan)) \in Replies
    BY <2>1, ResultsAre DEF Fault, Got, Replies, Answers
  <2> QED  BY <2>2
<1>4. answers \in Seq(Replies) /\ DOMAIN answers = DOMAIN net[i].calls
  BY <1>2, <1>3, IsASeq
<1> HIDE DEF answers
<1> DEFINE m == [net[i] EXCEPT !.served = TRUE, !.answers = answers]
<1>5. /\ m \in Messages /\ m.calls = net[i].calls /\ m.served = TRUE
      /\ m.answers = answers
  BY <1>2, <1>4 DEF Messages
<1>6. net' = [net EXCEPT ![i] = m]
  BY <1>1
<1> HIDE DEF m
<1>7. /\ net' \in Seq(Messages) /\ DOMAIN net' = DOMAIN net /\ net'[i] = m
      /\ \A k \in DOMAIN net \ {i} : net'[k] = net[k]
  BY <1>2, <1>5, <1>6
<1>8. \A k \in DOMAIN net' : DOMAIN net'[k].answers = IF net'[k].served THEN DOMAIN net'[k].calls
                                                      ELSE {}
  BY <1>4, <1>5, <1>7 DEF TypeInv, NetTyped
<1>9. NetTyped'
  BY <1>1, <1>7, <1>8 DEF NetTyped, TypeInv
<1> QED  BY <1>1, <1>5, <1>7, <1>9 DEF answers

LEMMA RemoveIs ==
  ASSUME NEW X, NEW s \in Seq(X), NEW i \in DOMAIN s
  PROVE  /\ RemoveAt(s, i) \in Seq(X) /\ Len(RemoveAt(s, i)) = Len(s) - 1
         /\ \A k \in DOMAIN RemoveAt(s, i) : RemoveAt(s, i)[k] = s[IF k < i THEN k ELSE k + 1]
<1> DEFINE a == SubSeq(s, 1, i - 1)
           b == SubSeq(s, i + 1, Len(s))
<1>1. i \in 1..Len(s) /\ Len(s) \in Nat
  OBVIOUS
<1>2. a \in Seq(X) /\ Len(a) = i - 1 /\ \A k \in 1..(i - 1) : a[k] = s[k]
  BY <1>1
<1>3. b \in Seq(X) /\ Len(b) = Len(s) - i /\ \A k \in 1..(Len(s) - i) : b[k] = s[i + k]
  BY <1>1
<1>4. RemoveAt(s, i) = a \o b
  BY DEF RemoveAt
<1> HIDE DEF a, b
<1>5. /\ a \o b \in Seq(X) /\ Len(a \o b) = Len(a) + Len(b)
      /\ \A k \in 1..Len(a) : (a \o b)[k] = a[k]
      /\ \A k \in (Len(a) + 1)..(Len(a) + Len(b)) : (a \o b)[k] = b[k - Len(a)]
  <2>1. a \in Seq(X) /\ b \in Seq(X)
    BY <1>2, <1>3
  <2> QED  BY ONLY <2>1, CatIs
<1> DEFINE u == a \o b
<1>6. u \in Seq(X) /\ Len(u) = Len(s) - 1 /\ DOMAIN u = 1..(Len(s) - 1)
  <2>1. u \in Seq(X) /\ Len(u) = Len(a) + Len(b)
    BY ONLY <1>5 DEF u
  <2>2. Len(a) + Len(b) = Len(s) - 1
    BY ONLY <1>1, <1>2, <1>3
  <2> HIDE DEF u
  <2> QED  BY ONLY <2>1, <2>2
<1> HIDE DEF u
<1>7. ASSUME NEW k \in 1..(Len(s) - 1) PROVE u[k] = s[IF k < i THEN k ELSE k + 1]
  <2>1. CASE k < i
    <3>1. k \in 1..(i - 1) /\ k \in 1..Len(a)
      BY <1>1, <1>2, <2>1
    <3> QED  BY <1>2, <1>5, <2>1, <3>1 DEF u
  <2>2. CASE ~(k < i)
    <3>1. /\ k \in (Len(a) + 1)..(Len(a) + Len(b)) /\ k - Len(a) \in 1..(Len(s) - i)
          /\ i + (k - Len(a)) = k + 1
      BY <1>1, <1>2, <1>3, <2>2
    <3>2. u[k] = b[k - Len(a)]
      BY <1>5, <3>1 DEF u
    <3> QED  BY <1>3, <2>2, <3>1, <3>2
  <2> QED  BY <2>1, <2>2
<1> QED  BY <1>4, <1>6, <1>7 DEF u

ArrivalOf(call, answer) == [job |-> "answer", call |-> call, answer |-> answer, now |-> FALSE]

\* The answers to a message arrive, or none does.
LEMMA ArrivesDoes ==
  ASSUME TypeInv, NEW i \in DOMAIN net, Respond(i) \/ Drop(i)
  PROVE  /\ Quiet /\ NetTyped' /\ net' = RemoveAt(net, i)
         /\ micro' \in Seq(Incoming) /\ DOMAIN micro' = DOMAIN net[i].calls
         /\ \A j \in DOMAIN micro' : /\ micro'[j].call = net[i].calls[j]
                                     /\ micro'[j].answer.verdict = "ok" =>
                                          /\ j \in DOMAIN net[i].answers
                                          /\ micro'[j].answer = net[i].answers[j]
         /\ UNCHANGED <<channels, views, cached, laid, newest, asks, batch, heard>>
<1>1. /\ Quiet /\ net' = RemoveAt(net, i)
      /\ UNCHANGED <<channels, views, cached, laid, newest, asks, batch, heard>>
  BY DEF Respond, Drop
<1>2. net \in Seq(Messages) /\ net[i] \in Messages /\ net[i].calls \in Seq(Calls)
  BY MessageIs
<1>3. NetTyped'
  <2>1. /\ net' \in Seq(Messages) /\ Len(net') = Len(net) - 1
        /\ \A k \in DOMAIN net' : net'[k] = net[IF k < i THEN k ELSE k + 1]
    BY <1>1, <1>2, RemoveIs
  <2>2. ASSUME NEW k \in DOMAIN net' PROVE \E l \in DOMAIN net : net'[k] = net[l]
    <3>1. k \in 1..(Len(net) - 1) /\ Len(net) \in Nat /\ i \in 1..Len(net)
      BY <1>2, <2>1
    <3>2. (IF k < i THEN k ELSE k + 1) \in DOMAIN net
      BY <1>2, <3>1
    <3> QED  BY <2>1, <3>2
  <2>3. \A k \in DOMAIN net' : DOMAIN net'[k].answers = IF net'[k].served THEN DOMAIN net'[k].calls
                                                        ELSE {}
    BY <2>2 DEF TypeInv, NetTyped
  <2> QED  BY <1>1, <2>1, <2>3 DEF NetTyped, TypeInv
<1>4. \E answers : /\ micro' = Continuations(i, answers)
                   /\ \A j \in DOMAIN net[i].calls : answers[j] \in Replies
                   /\ \A j \in DOMAIN net[i].calls : answers[j].verdict = "ok" =>
                          j \in DOMAIN net[i].answers /\ answers[j] = net[i].answers[j]
  <2>1. CASE Respond(i)
    <3>1. micro' = Continuations(i, net[i].answers) /\ net[i].served
      BY <2>1 DEF Respond
    <3>2. net[i].answers \in Seq(Replies) /\ DOMAIN net[i].answers = DOMAIN net[i].calls
      BY <1>2, <3>1 DEF Messages, TypeInv, NetTyped
    <3>3. \A j \in DOMAIN net[i].calls : net[i].answers[j] \in Replies
      BY <3>2
    <3> QED  BY <3>1, <3>2, <3>3
  <2>2. CASE Drop(i)
    <3> DEFINE answers == [j \in DOMAIN net[i].calls |-> Fault("offline")]
    <3>1. micro' = Continuations(i, answers)
      BY <2>2 DEF Drop
    <3>2. Fault("offline") \in Replies /\ Fault("offline").verdict # "ok"
      BY ResultsAre DEF Fault, Replies, Answers
    <3>3. \A j \in DOMAIN net[i].calls : answers[j] = Fault("offline")
      OBVIOUS
    <3> HIDE DEF answers
    <3> QED  BY <3>1, <3>2, <3>3
  <2> QED  BY <2>1, <2>2
<1>5. PICK answers : /\ micro' = Continuations(i, answers)
                     /\ \A j \in DOMAIN net[i].calls : answers[j] \in Replies
                     /\ \A j \in DOMAIN net[i].calls : answers[j].verdict = "ok" =>
                            j \in DOMAIN net[i].answers /\ answers[j] = net[i].answers[j]
  BY <1>4
<1>6. micro' = [j \in DOMAIN net[i].calls |-> ArrivalOf(net[i].calls[j], answers[j])]
  BY <1>5 DEF Continuations, ArrivalOf
<1>7. ASSUME NEW j \in DOMAIN net[i].calls
      PROVE  /\ ArrivalOf(net[i].calls[j], answers[j]) \in Incoming
             /\ ArrivalOf(net[i].calls[j], answers[j]).call = net[i].calls[j]
             /\ ArrivalOf(net[i].calls[j], answers[j]).answer = answers[j]
  <2>1. net[i].calls[j] \in Calls /\ answers[j] \in Replies
    BY <1>2, <1>5
  <2> QED  BY <2>1 DEF ArrivalOf, Incoming
<1>8. DOMAIN micro' = DOMAIN net[i].calls /\ DOMAIN net[i].calls = 1..Len(net[i].calls)
  BY <1>2, <1>6
<1>9. \A j \in DOMAIN net[i].calls : micro'[j] = ArrivalOf(net[i].calls[j], answers[j])
  BY <1>6
<1>10. micro' \in Seq(Incoming)
  <2>1. \A j \in 1..Len(net[i].calls) : ArrivalOf(net[i].calls[j], answers[j]) \in Incoming
    BY <1>7, <1>8
  <2>2. micro' = [j \in 1..Len(net[i].calls) |-> ArrivalOf(net[i].calls[j], answers[j])]
    BY <1>6, <1>8
  <2>3. Len(net[i].calls) \in Nat
    BY <1>2
  <2> QED  BY <2>1, <2>2, <2>3, IsASeq
<1> QED  BY <1>1, <1>3, <1>5, <1>7, <1>8, <1>9, <1>10

\* What the end of an answer is, and what is kept of it.
Keeps(t) == t.answer.verdict = "ok" /\ t.call.plan \notin Declined
EndOf(t) == [t EXCEPT !.job = "ended", !.now = ~Keeps(t)]

LEMMA EndTyped ==
  ASSUME NEW t \in Incoming
  PROVE  /\ EndOf(t) \in Endings /\ EndOf(t).job = "ended" /\ EndOf(t).call = t.call
         /\ EndOf(t).answer = t.answer /\ (EndOf(t).now <=> ~Keeps(t))
         /\ t.call \in Calls /\ t.call.plan \in Plans /\ t.answer \in Replies
         /\ t.answer.verdict = "ok" => t.answer.rows \in Versions
<1> DEFINE b == ~Keeps(t)
<1>1. b \in BOOLEAN /\ EndOf(t) = [t EXCEPT !.job = "ended", !.now = b]
  BY DEF Keeps, EndOf
<1> HIDE DEF b
<1>2. /\ EndOf(t) \in Endings /\ EndOf(t).job = "ended" /\ EndOf(t).call = t.call
      /\ EndOf(t).answer = t.answer /\ EndOf(t).now = b
  BY <1>1 DEF Incoming, Endings
<1>3. t.call \in Calls /\ t.answer \in Replies
  BY DEF Incoming
<1>4. t.call.plan \in Plans /\ (t.answer.verdict = "ok" => t.answer.rows \in Versions)
  BY <1>3 DEF Calls, Replies
<1> QED  BY <1>2, <1>3, <1>4 DEF b

LEMMA SubscribedAre ==
  ASSUME TypeInv, NEW resource
  PROVE  Subscribed(resource) \subseteq Views /\ IsFiniteSet(Subscribed(resource))
<1>1. Subscribed(resource) \subseteq mounted
  BY DEF Subscribed
<1> QED  BY <1>1, FS_Subset DEF TypeInv, ViewsTyped

LEMMA AnswerDoes ==
  ASSUME TypeInv, Answer
  PROVE  /\ Runs("answer") /\ Task \in Incoming /\ EndOf(Task) \in Endings
         /\ IF Keeps(Task)
            THEN /\ Task.answer.rows \in Versions
                 /\ cached' = [cached EXCEPT ![Task.call.plan] = Task.answer.rows]
                 /\ newest' = [newest EXCEPT ![Task.call.plan] =
                                 IF @ < Task.answer.rows THEN Task.answer.rows ELSE @]
                 /\ Queues(Later(EndOf(Task)), waiting, Subscribed(ResourceOf[Task.call.plan]))
            ELSE /\ UNCHANGED <<cached, newest>>
                 /\ Queues(Now(EndOf(Task)), waiting, {})
         /\ CacheTyped'
         /\ UNCHANGED <<channels, mounted, kids, refined, shown, laid, asks, batch, net, heard,
                        feedVars>>
<1>1. Runs("answer") /\ micro # <<>> /\ Task.job = "answer"
  BY DEF Answer, Runs
<1>2. Task \in Incoming
  BY <1>1, HeadIs, TaskIs DEF TypeInv
<1>3. /\ EndOf(Task) \in Endings /\ Task.call.plan \in Plans
      /\ Task.answer.verdict = "ok" => Task.answer.rows \in Versions
  BY <1>2, EndTyped
<1>4. EndOf(Task) \in Tasks
  BY <1>3 DEF Tasks
<1>5. Later(EndOf(Task)) \in Seq(Tasks) /\ Now(EndOf(Task)) \in Seq(Tasks)
  BY <1>1, <1>4, GoOnTyped DEF TypeInv
<1>6. UNCHANGED <<channels, mounted, kids, refined, shown, laid, asks, batch, net, heard,
                  feedVars>>
  BY DEF Answer
<1>7. /\ cached \in [Plans -> Results] /\ newest \in [Plans -> Versions]
      /\ laid \in [Plans -> Layers] /\ asks \in [Queries -> Asks]
  BY DEF TypeInv, CacheTyped
<1>8. CASE Keeps(Task)
  <2>1. /\ cached' = [cached EXCEPT ![Task.call.plan] = Task.answer.rows]
        /\ newest' = [newest EXCEPT ![Task.call.plan] =
                        IF @ < Task.answer.rows THEN Task.answer.rows ELSE @]
        /\ Schedule(Later(EndOf(Task)), waiting, Subscribed(ResourceOf[Task.call.plan]))
    BY <1>8 DEF Answer, Keeps, EndOf, Ended
  <2>2. Task.answer.rows \in Versions
    BY <1>3, <1>8 DEF Keeps
  <2> DEFINE woken == Subscribed(ResourceOf[Task.call.plan])
             tasks == Later(EndOf(Task))
  <2>5. woken \in SUBSET Views /\ IsFiniteSet(woken)
    BY SubscribedAre
  <2>6. Schedule(tasks, waiting, woken) /\ tasks \in Seq(Tasks)
    BY <1>5, <2>1
  <2> HIDE DEF woken, tasks
  <2>7. Queues(tasks, waiting, woken)
    BY <2>5, <2>6, Scheduled DEF Queues
  <2>3. Queues(Later(EndOf(Task)), waiting, Subscribed(ResourceOf[Task.call.plan]))
    BY <2>7 DEF woken, tasks
  <2>4. cached' \in [Plans -> Results] /\ newest' \in [Plans -> Versions]
    BY <1>7, <2>1, <2>2, ResultsAre
  <2> QED  BY <1>1, <1>2, <1>3, <1>6, <1>7, <1>8, <2>1, <2>2, <2>3, <2>4 DEF CacheTyped
<1>9. CASE ~Keeps(Task)
  <2>1. /\ UNCHANGED <<cached, newest>> /\ Schedule(Now(EndOf(Task)), waiting, {})
    BY <1>9 DEF Answer, Keeps, EndOf, Ended
  <2>2. {} \in SUBSET Views /\ IsFiniteSet({})
    BY FS_EmptySet
  <2>3. Queues(Now(EndOf(Task)), waiting, {})
    BY <1>5, <2>1, <2>2, Scheduled DEF Queues
  <2> QED  BY <1>1, <1>2, <1>3, <1>6, <1>7, <1>9, <2>1, <2>3 DEF CacheTyped
<1> QED  BY <1>8, <1>9

\* A refresh ends: the channel is as its answer leaves it.
Alive(t) == t.call.by = "channel"

LEMMA RefreshedTyped ==
  ASSUME NEW ch \in WideChannel, NEW answer \in Replies
  PROVE  /\ Refreshed(ch, answer) \in WideChannel /\ ~Refreshed(ch, answer).refreshing
         /\ Refreshed(ch, answer).stored = ch.stored /\ Refreshed(ch, answer).behind = ch.behind
         /\ IF answer.verdict = "ok"
            THEN /\ Refreshed(ch, answer).synced /\ Refreshed(ch, answer).online
                 /\ ~Refreshed(ch, answer).error /\ Refreshed(ch, answer).last = answer.rows
            ELSE /\ Refreshed(ch, answer).synced = ch.synced
                 /\ Refreshed(ch, answer).last = ch.last
                 /\ ~Refreshed(ch, answer).online \/ Refreshed(ch, answer).error
<1>1. answer.rows \in Results
  BY DEF Replies, Answers
<1>2. CASE answer.verdict = "ok"
  BY <1>1, <1>2 DEF WideChannel, Refreshed
<1>3. CASE answer.verdict = "offline"
  BY <1>3 DEF WideChannel, Refreshed
<1>4. CASE answer.verdict # "ok" /\ answer.verdict # "offline"
  BY <1>4 DEF WideChannel, Refreshed
<1> QED  BY <1>2, <1>3, <1>4

LEMMA EndRefreshDoes ==
  ASSUME TypeInv, EndRefresh
  PROVE  /\ Runs("ended") /\ Task \in Endings /\ Task.call.by \in {"channel", Gone}
         /\ Task.call.plan \in Plans /\ Task.answer \in Replies
         /\ channels' = IF Alive(Task)
                        THEN [channels EXCEPT ![Task.call.plan] = Refreshed(@, Task.answer)]
                        ELSE channels
         /\ channels' \in [Plans -> WideChannel]
         /\ \A p \in Plans : channels'[p].stored = channels[p].stored
         /\ Queues(Rest, waiting, IF Alive(Task) THEN Listeners({Task.call.plan}) ELSE {})
         /\ UNCHANGED <<mounted, kids, refined, shown, cached, laid, newest, asks, batch, net, heard,
              feedVars>>
<1>1. Runs("ended") /\ micro # <<>> /\ Task.job = "ended" /\ Task.call.by \in {"channel", Gone}
  BY DEF EndRefresh, Runs
<1>2. Task \in Endings /\ Rest \in Seq(Tasks)
  BY <1>1, HeadIs, TaskIs DEF TypeInv
<1>3. Task.call \in Calls /\ Task.answer \in Replies
  BY <1>2 DEF Endings
<1>4. Task.call.plan \in Plans
  BY <1>3 DEF Calls
<1> DEFINE woken == IF Alive(Task) THEN Listeners({Task.call.plan}) ELSE {}
<1>5. /\ channels' = IF Alive(Task)
                     THEN [channels EXCEPT ![Task.call.plan] = Refreshed(@, Task.answer)]
                     ELSE channels
      /\ Schedule(Rest, waiting, woken)
      /\ UNCHANGED <<mounted, kids, refined, shown, cached, laid, newest, asks, batch, net, heard,
           feedVars>>
  BY DEF EndRefresh, Alive
<1>6. woken \in SUBSET Views /\ IsFiniteSet(woken)
  BY ListenersAre, FS_EmptySet
<1> HIDE DEF woken
<1>7. Queues(Rest, waiting, woken)
  BY <1>2, <1>5, <1>6, Scheduled DEF Queues
<1>8. channels \in [Plans -> WideChannel]
  BY StoreIsWide DEF IsWide, Store
<1>9. /\ Refreshed(channels[Task.call.plan], Task.answer) \in WideChannel
      /\ Refreshed(channels[Task.call.plan], Task.answer).stored = channels[Task.call.plan].stored
  BY <1>3, <1>4, <1>8, RefreshedTyped
<1>10. /\ channels' \in [Plans -> WideChannel]
       /\ \A p \in Plans : channels'[p].stored = channels[p].stored
  BY <1>4, <1>5, <1>8, <1>9
<1> QED  BY <1>1, <1>2, <1>3, <1>4, <1>5, <1>7, <1>10 DEF woken

FallOf(t) ==
  [job |-> "fallback", query |-> t.call.by, read |-> Reads(t.call.plan), now |-> FALSE]

LEMMA EndQueryDoes ==
  ASSUME TypeInv, EndQuery
  PROVE  /\ Runs("ended") /\ Task \in Endings /\ Task.call.by \in Queries
         /\ Task.call.plan \in Plans /\ Task.answer \in Replies
         /\ \/ /\ Task.answer.verdict = "ok"
               /\ asks' = Answered(Task.call.by, First(Task.call.by), Task.answer.rows)
               /\ micro' = Now(Relating(Task.call.by))
            \/ /\ Task.answer.verdict = "offline" /\ Task.call.plan \notin Declined
               /\ asks' = asks /\ micro' = Later(FallOf(Task)) /\ FallOf(Task) \in Falls
            \/ /\ Task.answer.verdict # "ok"
               /\ asks' = Failed(Task.call.by) /\ micro' = Rest
         /\ asks' \in [Queries -> Asks]
         /\ UNCHANGED <<channels, views, cached, laid, newest, batch, net, heard, feedVars>>
<1>1. Runs("ended") /\ micro # <<>> /\ Task.job = "ended" /\ Task.call.by \in Queries
  BY DEF EndQuery, Runs
<1>2. Task \in Endings /\ Rest \in Seq(Tasks)
  BY <1>1, HeadIs, TaskIs DEF TypeInv
<1>3. Task.call \in Calls /\ Task.answer \in Replies
  BY <1>2 DEF Endings
<1>4. Task.call.plan \in Plans /\ Task.answer.rows \in Results
  BY <1>3 DEF Calls, Replies, Answers
<1>5. UNCHANGED <<channels, views, cached, laid, newest, batch, net, heard, feedVars>>
  BY DEF EndQuery
<1>6. \/ /\ Task.answer.verdict = "ok"
         /\ asks' = Answered(Task.call.by, First(Task.call.by), Task.answer.rows)
         /\ micro' = Now(Relating(Task.call.by))
      \/ /\ Task.answer.verdict = "offline" /\ Task.call.plan \notin Declined
         /\ asks' = asks /\ micro' = Later(FallOf(Task))
      \/ /\ Task.answer.verdict # "ok"
         /\ asks' = Failed(Task.call.by) /\ micro' = Rest
  BY DEF EndQuery, FallOf
<1>7. /\ Answered(Task.call.by, First(Task.call.by), Task.answer.rows) \in [Queries -> Asks]
      /\ Failed(Task.call.by) \in [Queries -> Asks] /\ asks \in [Queries -> Asks]
  BY <1>1, <1>4, AnsweredTyped, FailedTyped DEF TypeInv, CacheTyped, First, Failed
<1>8. FallOf(Task) \in Falls
  BY <1>1, <1>4, ReadsTyped DEF TypeInv, FallOf, Falls
<1> QED  BY <1>1, <1>2, <1>3, <1>4, <1>5, <1>6, <1>7, <1>8

\* A retired channel's calls are no longer anyone's.
Orphan(call, p) == IF call = Call("channel", p) THEN Call(Gone, p) ELSE call
Orphans(calls, p) == [j \in DOMAIN calls |-> Orphan(calls[j], p)]

LEMMA OrphansTyped ==
  ASSUME NEW calls \in Seq(Calls), NEW p \in Plans
  PROVE  Orphans(calls, p) \in Seq(Calls) /\ DOMAIN Orphans(calls, p) = DOMAIN calls
<1>1. Call(Gone, p) \in Calls
  BY DEF Call, Calls
<1>2. DOMAIN calls = 1..Len(calls) /\ Len(calls) \in Nat
  OBVIOUS
<1>3. \A j \in 1..Len(calls) : Orphan(calls[j], p) \in Calls
  BY <1>1, <1>2 DEF Orphan
<1>4. Orphans(calls, p) = [j \in 1..Len(calls) |-> Orphan(calls[j], p)]
  BY <1>2 DEF Orphans
<1>5. Orphans(calls, p) \in Seq(Calls)
  BY <1>2, <1>3, <1>4, IsASeq
<1> QED  BY <1>2, <1>4, <1>5

LEMMA RetireDoes ==
  ASSUME TypeInv, NEW p \in Plans, Retire(p)
  PROVE  /\ Quiet /\ channels[p].timer /\ channels[p].refs <= 0
         /\ channels' = [channels EXCEPT ![p] = NoChannel]
         /\ channels' \in [Plans -> WideChannel]
         /\ \A r \in Plans : channels'[r].stored => channels[r].stored
         /\ batch' = Orphans(batch, p) /\ NetTyped'
         /\ DOMAIN net' = DOMAIN net
         /\ \A i \in DOMAIN net : /\ net'[i].calls = Orphans(net[i].calls, p)
                                  /\ net'[i].answers = net[i].answers
         /\ UNCHANGED <<views, cached, laid, newest, asks, micro, heard, feedVars>>
<1>1. /\ Quiet /\ channels[p].timer /\ channels[p].refs <= 0
      /\ channels' = [channels EXCEPT ![p] = NoChannel]
      /\ batch' = Orphans(batch, p)
      /\ net' = [i \in DOMAIN net |-> [net[i] EXCEPT !.calls = Orphans(net[i].calls, p)]]
      /\ UNCHANGED <<views, cached, laid, newest, asks, micro, heard, feedVars>>
  BY DEF Retire, Orphans, Orphan
<1>2. channels' \in [Plans -> WideChannel] /\ NoChannel.stored = FALSE
  <2>1. channels \in [Plans -> WideChannel]
    BY StoreIsWide DEF IsWide, Store
  <2>2. NoChannel \in WideChannel /\ NoChannel.stored = FALSE
    BY ResultsAre DEF NoChannel, WideChannel
  <2> QED  BY <1>1, <2>1, <2>2
<1>3. \A r \in Plans : channels'[r].stored => channels[r].stored
  BY <1>1, <1>2 DEF TypeInv, ChannelsTyped
<1>4. batch' \in Seq(Calls)
  BY <1>1, OrphansTyped DEF TypeInv, NetTyped
<1>5. ASSUME NEW i \in DOMAIN net
      PROVE  /\ net'[i] \in Messages /\ net'[i].calls = Orphans(net[i].calls, p)
             /\ net'[i].answers = net[i].answers /\ net'[i].served = net[i].served
             /\ DOMAIN net'[i].calls = DOMAIN net[i].calls
  <2> DEFINE calls == Orphans(net[i].calls, p)
  <2>1. net[i] \in Messages /\ calls \in Seq(Calls) /\ DOMAIN calls = DOMAIN net[i].calls
    BY MessageIs, OrphansTyped
  <2> HIDE DEF calls
  <2>2. net'[i] = [net[i] EXCEPT !.calls = calls]
    BY <1>1 DEF calls
  <2>3. /\ net'[i] \in Messages /\ net'[i].calls = calls
        /\ net'[i].answers = net[i].answers /\ net'[i].served = net[i].served
    BY <2>1, <2>2 DEF Messages
  <2> QED  BY <2>1, <2>3 DEF calls
<1>6. DOMAIN net' = DOMAIN net
  BY <1>1
<1>7. net' \in Seq(Messages)
  <2>1. DOMAIN net = 1..Len(net) /\ Len(net) \in Nat
    BY DEF TypeInv, NetTyped
  <2> DEFINE m(i) == net'[i]
  <2>2. \A i \in 1..Len(net) : m(i) \in Messages
    BY <1>5, <2>1
  <2>3. net' = [i \in 1..Len(net) |-> m(i)]
    BY <1>1, <2>1
  <2> HIDE DEF m
  <2>4. [i \in 1..Len(net) |-> m(i)] \in Seq(Messages)
    BY <2>1, <2>2, IsASeq
  <2> QED  BY <2>3, <2>4
<1>8. \A i \in DOMAIN net' : DOMAIN net'[i].answers = IF net'[i].served THEN DOMAIN net'[i].calls
                                                      ELSE {}
  BY <1>5, <1>6 DEF TypeInv, NetTyped
<1>9. NetTyped'
  BY <1>4, <1>7, <1>8 DEF NetTyped
<1> QED  BY <1>1, <1>2, <1>3, <1>5, <1>6, <1>9

LEMMA RefineDoes ==
  ASSUME TypeInv, NEW v \in Views, Refine(v)
  PROVE  /\ v \in mounted /\ refined' \in {refined, refined \cup {v}}
         /\ Queues(Open, waiting, {v})
         /\ UNCHANGED <<channels, mounted, kids, shown, cached, laid, newest, asks, batch, net, heard,
                        feedVars>>
<1>1. /\ v \in mounted /\ refined' \in {refined, refined \cup {v}}
      /\ Schedule(Open, waiting, {v})
      /\ UNCHANGED <<channels, mounted, kids, shown, cached, laid, newest, asks, batch, net, heard,
                     feedVars>>
  BY DEF Refine
<1>2. {v} \in SUBSET Views /\ IsFiniteSet({v})
  BY FS_Singleton
<1>3. Queues(Open, waiting, {v})
  BY <1>1, <1>2, OpenTyped, Scheduled DEF Queues
<1> QED  BY <1>1, <1>3

\* An own write: rows change, those that read them are woken.
LEMMA OwnWriteDoes ==
  ASSUME TypeInv, NEW r, NEW over \in [scene.written -> Layers], OwnWrite(r, over)
  PROVE  /\ Queues(micro, waiting, Subscribed(r)) /\ Subscribed(r) \in SUBSET Views
         /\ ~Quiet => ~Task.now
         /\ laid' \in [Plans -> Layers]
         /\ \A p \in Plans : ResourceOf[p] # r => laid'[p] = laid[p]
         /\ \A p \in Plans : Visible(p) # Unknown => Visible(p)' # Unknown
         /\ disturbed' = disturbed \cup {v \in Concerned(r) :
              Includes[v] # <<>> /\ \E i \in DOMAIN micro : RecomputeOf(micro[i], v)}
         /\ UNCHANGED <<channels, mounted, kids, refined, shown, cached, newest, asks, batch,
                        net, heard, feedVars>>
<1>1. /\ ~Quiet => ~Task.now
      /\ \A p \in scene.written : over[p] # laid[p] =>
           /\ ResourceOf[p] = r
           /\ Visible(p) = Unknown \/ Overlaid[<<p, cached[p], over[p]>>] # Unknown
      /\ laid' = [p \in Plans |-> IF p \in scene.written THEN over[p] ELSE laid[p]]
      /\ disturbed' = disturbed \cup {v \in Concerned(r) :
           Includes[v] # <<>> /\ \E i \in DOMAIN micro : RecomputeOf(micro[i], v)}
      /\ Schedule(micro, waiting, Subscribed(r))
      /\ UNCHANGED <<channels, mounted, kids, refined, shown, cached, newest, asks, batch,
                     net, heard, feedVars>>
  BY DEF OwnWrite
<1>2. micro \in Seq(Tasks)
  BY DEF TypeInv
<1>3. Subscribed(r) \in SUBSET Views /\ IsFiniteSet(Subscribed(r))
  BY SubscribedAre
<1> DEFINE woken == Subscribed(r)
           tasks == micro
<1>4. woken \in SUBSET Views /\ IsFiniteSet(woken) /\ tasks \in Seq(Tasks)
      /\ Schedule(tasks, waiting, woken)
  BY <1>1, <1>2, <1>3
<1>5. Queues(micro, waiting, Subscribed(r))
  <2> HIDE DEF woken, tasks
  <2>1. Queues(tasks, waiting, woken)
    BY <1>4, Scheduled DEF Queues
  <2> QED  BY <2>1 DEF woken, tasks
<1>6. laid \in [Plans -> Layers]
  BY DEF TypeInv, CacheTyped
<1>7. laid' \in [Plans -> Layers]
  BY <1>1, <1>6
<1>8. ASSUME NEW p \in Plans, ResourceOf[p] # r PROVE laid'[p] = laid[p]
  BY <1>1, <1>8
<1>9. ASSUME NEW p \in Plans, Visible(p) # Unknown PROVE Visible(p)' # Unknown
  <2>1. Visible(p)' = Overlaid[<<p, cached[p], laid'[p]>>]
    BY <1>1 DEF Visible
  <2>2. CASE laid'[p] = laid[p]
    BY <1>9, <2>1, <2>2 DEF Visible
  <2>3. CASE laid'[p] # laid[p]
    BY <1>1, <1>9, <2>1, <2>3
  <2> QED  BY <2>2, <2>3
<1> QED  BY <1>1, <1>3, <1>5, <1>7, <1>8, <1>9

LEMMA LeaveDoes ==
  ASSUME TypeInv, Leave
  PROVE  Runs("app") /\ micro # <<>> /\ Task = Turn /\ micro' = Rest /\ UNCHANGED others
<1>1. Runs("app") /\ micro # <<>> /\ Task.job = "app" /\ micro' = Rest /\ UNCHANGED others
  BY DEF Leave, Runs
<1> QED  BY <1>1, HeadIs, TaskIs DEF TypeInv

----------------------------------------------------------------------------
(* What the feeds carry was made.                                          *)

FeedTyped ==
  /\ bus \in [Instances -> Seq([origin: Instances, change: made])]
  /\ events \in [Clients -> Seq(made)]
  /\ stream \in [Clients -> Instances \cup {Nowhere}]

LEMMA FeedStarts == FeedInit => FeedTyped
<1> SUFFICES ASSUME FeedInit PROVE FeedTyped
  OBVIOUS
<1>1. <<>> \in Seq([origin: Instances, change: made]) /\ <<>> \in Seq(made)
  OBVIOUS
<1>2. stream \in [Clients -> Instances \cup {Nowhere}]
  BY FeedAssumption DEF FeedInit
<1> QED  BY <1>1, <1>2 DEF FeedInit, FeedTyped

LEMMA WiderFeed ==
  ASSUME FeedTyped, NEW more, made \subseteq more
  PROVE  /\ bus \in [Instances -> Seq([origin: Instances, change: more])]
         /\ events \in [Clients -> Seq(more)]
<1>1. [origin: Instances, change: made] \subseteq [origin: Instances, change: more]
  OBVIOUS
<1>2. /\ Seq([origin: Instances, change: made]) \subseteq Seq([origin: Instances, change: more])
      /\ Seq(made) \subseteq Seq(more)
  BY <1>1, SeqMonotonic
<1> QED  BY <1>2 DEF FeedTyped

\* An event is told to the clients of an instance, and perhaps sent on.
LEMMA EmitTyped ==
  ASSUME NEW known, NEW s \in Instances, NEW c \in known, NEW relaying \in BOOLEAN,
         NEW before \in [Instances -> Seq([origin: Instances, change: known])],
         events \in [Clients -> Seq(known)], Emit(s, c, relaying, before)
  PROVE  /\ bus' \in [Instances -> Seq([origin: Instances, change: known])]
         /\ events' \in [Clients -> Seq(known)]
<1>1. Envelope(s, c) \in [origin: Instances, change: known]
  BY DEF Envelope
<1>2. /\ bus' = Published(s, c, relaying, before)
      /\ events' = [k \in Clients |-> IF stream[k] = s THEN Append(events[k], c) ELSE events[k]]
  BY DEF Emit
<1>3. \A k \in Clients : events[k] \in Seq(known) /\ Append(events[k], c) \in Seq(known)
  OBVIOUS
<1>4. \A t \in Instances : /\ before[t] \in Seq([origin: Instances, change: known])
                           /\ Append(before[t], Envelope(s, c))
                                \in Seq([origin: Instances, change: known])
  <2> DEFINE E == [origin: Instances, change: known]
             e == Envelope(s, c)
  <2>1. e \in E /\ before \in [Instances -> Seq(E)]
    BY <1>1
  <2> HIDE DEF E, e
  <2>2. \A t \in Instances : before[t] \in Seq(E) /\ Append(before[t], e) \in Seq(E)
    BY <2>1
  <2> QED  BY <2>2 DEF E, e
<1>5. Published(s, c, relaying, before) \in [Instances -> Seq([origin: Instances, change: known])]
  BY <1>4 DEF Published, Publish
<1> QED  BY <1>2, <1>3, <1>5

LEMMA FeedMoves ==
  ASSUME FeedTyped, Next
  PROVE  FeedTyped' /\ made \subseteq made'
<1>1. CASE UNCHANGED feedVars
  BY <1>1 DEF FeedTyped, feedVars
<1>2. ASSUME NEW s \in Instances,
        NEW p \in Plans, Edit(s, p) PROVE FeedTyped' /\ made \subseteq made'
  <2> DEFINE c == <<p, Truth(p) + 1>>
             more == made \cup {c}
  <2>1. made' = more /\ Emit(s, c, FALSE, bus) /\ stream' = stream
    BY <1>2 DEF Edit, Accept
  <2>2. made \subseteq more /\ c \in more
    OBVIOUS
  <2> HIDE DEF more, c
  <2>3. /\ bus \in [Instances -> Seq([origin: Instances, change: more])]
        /\ events \in [Clients -> Seq(more)]
    BY <2>2, WiderFeed
  <2>4. /\ bus' \in [Instances -> Seq([origin: Instances, change: more])]
        /\ events' \in [Clients -> Seq(more)]
    BY <2>1, <2>2, <2>3, EmitTyped
  <2> QED  BY <2>1, <2>2, <2>4 DEF FeedTyped
<1>3. CASE Hear
  <2>1. /\ events[Me] # <<>> /\ events' = [events EXCEPT ![Me] = Tail(@)]
        /\ UNCHANGED <<made, bus, stream>>
    BY <1>3 DEF Hear, Takes
  <2>2. \A k \in Clients : events[k] \in Seq(made) /\ (events[k] # <<>> =>
          Tail(events[k]) \in Seq(made))
    BY DEF FeedTyped
  <2>3. events' \in [Clients -> Seq(made)]
    BY <2>1, <2>2 DEF FeedTyped
  <2> QED  BY <2>1, <2>3 DEF FeedTyped
<1>4. CASE Cut
  <2>1. /\ events' = [events EXCEPT ![Me] = <<>>] /\ stream' = [stream EXCEPT ![Me] = Nowhere]
        /\ UNCHANGED <<made, bus>>
    BY <1>4 DEF Cut, Disconnect
  <2>2. <<>> \in Seq(made)
    OBVIOUS
  <2> QED  BY <2>1, <2>2 DEF FeedTyped
<1>5. CASE Reconnects
  <2>1. PICK s \in Instances : Reconnect(Me, s)
    BY <1>5 DEF Reconnects
  <2>2. stream' = [stream EXCEPT ![Me] = s] /\ UNCHANGED <<made, bus, events>>
    BY <2>1 DEF Reconnect
  <2> QED  BY <2>2 DEF FeedTyped
<1>6. CASE Relays
  <2>1. PICK s \in Instances : Relay(s)
    BY <1>6 DEF Relays
  <2> DEFINE e == Head(bus[s])
             before == [bus EXCEPT ![s] = Tail(@)]
  <2>2. /\ bus[s] # <<>> /\ UNCHANGED <<made, stream>>
        /\ IF e.origin = s THEN bus' = before /\ UNCHANGED events
           ELSE Emit(s, e.change, TRUE, before)
    BY <2>1 DEF Relay
  <2>3. /\ bus \in [Instances -> Seq([origin: Instances, change: made])]
        /\ events \in [Clients -> Seq(made)]
    BY DEF FeedTyped
  <2>4. /\ e \in [origin: Instances, change: made]
        /\ Tail(bus[s]) \in Seq([origin: Instances, change: made])
    <3> DEFINE E == [origin: Instances, change: made]
    <3>1. bus[s] \in Seq(E) /\ bus[s] # <<>>
      BY <2>2, <2>3
    <3> HIDE DEF E
    <3>2. Head(bus[s]) \in E /\ Tail(bus[s]) \in Seq(E)
      BY <3>1
    <3> QED  BY <3>2 DEF E
  <2>5. before \in [Instances -> Seq([origin: Instances, change: made])]
    BY <2>3, <2>4
  <2>6. e.change \in made
    BY <2>4
  <2> HIDE DEF e, before
  <2>7. CASE e.origin = s
    BY <2>2, <2>5, <2>7 DEF FeedTyped
  <2>8. CASE e.origin # s
    <3>1. Emit(s, e.change, TRUE, before)
      BY <2>2, <2>8
    <3>2. /\ bus' \in [Instances -> Seq([origin: Instances, change: made])]
          /\ events' \in [Clients -> Seq(made)]
      BY <2>3, <2>5, <2>6, <3>1, EmitTyped
    <3> QED  BY <2>2, <3>2 DEF FeedTyped
  <2> QED  BY <2>7, <2>8
<1>7. ASSUME NEW v \in Views, Mount(v) \/ Unmount(v) \/ Refine(v) PROVE UNCHANGED feedVars
  BY <1>7 DEF Mount, Unmount, Refine
<1>8. ASSUME NEW Q \in Bundles, Ask(Q) PROVE UNCHANGED feedVars
  BY <1>8 DEF Ask
<1>8a. ASSUME NEW r, NEW over, OwnWrite(r, over) PROVE UNCHANGED feedVars
  BY <1>8a DEF OwnWrite
<1>9. CASE Microtask
  BY <1>1, <1>9 DEF Microtask, Leave, Recompute, Start, Base, Include, Join, Derive, Show,
                    OneShot, Looked, FallBack, Relate, Settle, Answer, EndRefresh, EndQuery,
                    others
<1>10. CASE Flush
  BY <1>1, <1>10 DEF Flush
<1>11. ASSUME NEW i \in DOMAIN net, NEW refused, Serve(i, refused) PROVE UNCHANGED feedVars
  BY <1>11 DEF Serve
<1>12. ASSUME NEW i \in DOMAIN net, Respond(i) \/ Drop(i) PROVE UNCHANGED feedVars
  BY <1>12 DEF Respond, Drop
<1>13. ASSUME NEW p \in Plans, Retire(p) PROVE UNCHANGED feedVars
  BY <1>13 DEF Retire
<1> QED
  BY <1>1, <1>2, <1>3, <1>4, <1>5, <1>6, <1>7, <1>8, <1>8a, <1>9, <1>10, <1>11, <1>12, <1>13
     DEF Next

----------------------------------------------------------------------------
(* The types are kept.                                                     *)

LEMMA Retyped ==
  ASSUME TypeInv, RefInv', Next,
         channels' \in [Plans -> WideChannel], IsFiniteSet({p \in Plans : channels'[p].stored}),
         ViewsTyped', CacheTyped', NetTyped', made' = made, micro' \in Seq(Tasks)
  PROVE  TypeInv'
<1>1. ASSUME NEW p \in Plans PROVE channels'[p] \in Channel
  <2>1. Counts(channels'[p], Users(p)')
    BY DEF RefInv
  <2>2. channels'[p].refs \in Nat
    BY <2>1, FS_CardinalityType DEF Counts
  <2> QED  BY <2>2 DEF WideChannel, Channel
<1>2. ChannelsTyped'
  BY <1>1 DEF ChannelsTyped
<1>3. scene' = scene
  BY DEF Next, Mount, Unmount, Refine, Ask, Microtask, Leave, Recompute, Start, Base, Include,
         Join, Derive, Show, OneShot, Looked, FallBack, Relate, Settle, Answer, EndRefresh,
         EndQuery, OwnWrite, Flush, Serve, Respond, Drop, Retire, Edit, Hear, Cut, Reconnects, Relays,
         others, client, bounds
<1>4. SceneTyped'
  BY <1>3 DEF TypeInv, SceneTyped
<1> QED  BY <1>2, <1>4 DEF TypeInv

\* A step that leaves the channels alone.
LEMMA RetypedHere ==
  ASSUME TypeInv, RefInv', Next, channels' = channels,
         ViewsTyped', CacheTyped', NetTyped', made' = made, micro' \in Seq(Tasks)
  PROVE  TypeInv'
<1>1. channels' \in [Plans -> WideChannel]
  BY StoreIsWide DEF IsWide, Store
<1>2. {p \in Plans : channels'[p].stored} = {p \in Plans : channels[p].stored}
  OBVIOUS
<1>3. IsFiniteSet({p \in Plans : channels'[p].stored})
  BY <1>2 DEF TypeInv, ChannelsTyped
<1> QED  BY <1>1, <1>3, Retyped

LEMMA ViewsKept ==
  ASSUME TypeInv, UNCHANGED <<mounted, kids, refined, shown>>, waiting' \subseteq Views
  PROVE  ViewsTyped'
  BY DEF TypeInv, ViewsTyped
LEMMA CacheKept ==
  ASSUME TypeInv, UNCHANGED <<cached, laid, newest>>, asks' \in [Queries -> Asks]
  PROVE  CacheTyped'
  BY DEF TypeInv, CacheTyped
LEMMA AsksKept ==
  ASSUME TypeInv, UNCHANGED asks
  PROVE  asks' \in [Queries -> Asks]
  BY DEF TypeInv, CacheTyped
LEMMA NetKept ==
  ASSUME TypeInv, UNCHANGED net, batch' \in Seq(Calls)
  PROVE  NetTyped'
  BY DEF TypeInv, NetTyped
LEMMA BatchKept ==
  ASSUME TypeInv, UNCHANGED <<batch, net>>
  PROVE  NetTyped' /\ batch' \in Seq(Calls)
  BY DEF TypeInv, NetTyped

LEMMA StartingTyped ==
  ASSUME NEW W, Starting(W)
  PROVE  /\ channels' \in [Plans -> WideChannel] /\ batch' \in Seq(Calls)
         /\ IsFiniteSet({p \in Plans : channels'[p].stored})
  BY DEF Starting, IsWide, Store

LEMMA QueuesTyped ==
  ASSUME TypeInv, NEW tasks, NEW woken \in SUBSET Views, Queues(tasks, waiting, woken)
  PROVE  micro' \in Seq(Tasks) /\ waiting' \subseteq Views
  BY DEF Queues, TypeInv, ViewsTyped

LEMMA TypeMount ==
  ASSUME TypeInv, RefInv', Next, NEW v \in Views, Mount(v)
  PROVE  TypeInv'
<1>1. PICK W : Starting(W) /\ Queues(Open, waiting, Listeners(W) \cup {v})
  BY MountDoes
<1>2. /\ mounted' = mounted \cup {v}
      /\ UNCHANGED <<kids, refined, shown, cached, laid, newest, asks, net, made>>
  BY DEF Mount, feedVars
<1>3. Listeners(W) \cup {v} \in SUBSET Views
  BY ListenersAre
<1>4. micro' \in Seq(Tasks) /\ waiting' \subseteq Views
  BY <1>1, <1>3, QueuesTyped
<1>5. IsFiniteSet(mounted')
  BY <1>2, FS_AddElement DEF TypeInv, ViewsTyped
<1>6. ViewsTyped'
  BY <1>2, <1>4, <1>5 DEF TypeInv, ViewsTyped
<1>7. CacheTyped'
  BY <1>2, AsksKept, CacheKept
<1>8. NetTyped'
  BY <1>1, <1>2, StartingTyped, NetKept
<1> QED  BY <1>1, <1>2, <1>4, <1>6, <1>7, <1>8, StartingTyped, Retyped

LEMMA TypeUnmount ==
  ASSUME TypeInv, RefInv, RefInv', Next, NEW v \in Views, Unmount(v)
  PROVE  TypeInv'
<1>1. Starting({}) /\ micro' = Open /\ UNCHANGED waiting
  BY UnmountDoes
<1>2. /\ mounted' = mounted \ {v} /\ kids' = [kids EXCEPT ![v] = <<>>]
      /\ UNCHANGED <<refined, shown, cached, laid, newest, asks, net, made>>
  BY DEF Unmount, feedVars
<1>3. micro' \in Seq(Tasks)
  BY <1>1, OpenTyped
<1>4. IsFiniteSet(mounted')
  BY <1>2, FS_Subset DEF TypeInv, ViewsTyped
<1>5. \A w \in Views : kids'[w] = IF w = v THEN <<>> ELSE kids[w]
  BY <1>2 DEF RefInv
<1>6. DOMAIN <<>> = {}
  OBVIOUS
<1>7. ViewsTyped'
  BY <1>1, <1>2, <1>4, <1>5, <1>6 DEF TypeInv, ViewsTyped
<1>8. CacheTyped'
  BY <1>2, AsksKept, CacheKept
<1>9. NetTyped'
  BY <1>1, <1>2, StartingTyped, NetKept
<1> QED  BY <1>1, <1>2, <1>3, <1>7, <1>8, <1>9, StartingTyped, Retyped

LEMMA TypeRefine ==
  ASSUME TypeInv, RefInv', Next, NEW v \in Views, Refine(v)
  PROVE  TypeInv'
<1>1. /\ refined' \in {refined, refined \cup {v}} /\ Queues(Open, waiting, {v})
      /\ UNCHANGED <<channels, mounted, kids, shown, cached, laid, newest, asks, batch, net, made>>
  BY RefineDoes DEF feedVars
<1>2. micro' \in Seq(Tasks) /\ waiting' \subseteq Views
  BY <1>1, QueuesTyped
<1>3. ViewsTyped'
  BY <1>1, <1>2 DEF TypeInv, ViewsTyped
<1> QED  BY <1>1, <1>2, <1>3, AsksKept, CacheKept, BatchKept, RetypedHere

LEMMA TypeOwnWrite ==
  ASSUME TypeInv, RefInv', Next, NEW r, NEW over \in [scene.written -> Layers], OwnWrite(r, over)
  PROVE  TypeInv'
<1>1. /\ Queues(micro, waiting, Subscribed(r)) /\ Subscribed(r) \in SUBSET Views
      /\ laid' \in [Plans -> Layers]
      /\ UNCHANGED <<channels, mounted, kids, refined, shown, cached, newest, asks, batch, net,
                     made>>
  BY OwnWriteDoes DEF feedVars
<1>2. micro' \in Seq(Tasks) /\ waiting' \subseteq Views
  BY <1>1, QueuesTyped
<1>3. CacheTyped'
  BY <1>1 DEF TypeInv, CacheTyped
<1> QED  BY <1>1, <1>2, <1>3, ViewsKept, BatchKept, RetypedHere

LEMMA TypeAsk ==
  ASSUME TypeInv, RefInv', Next, NEW Q \in Bundles, Ask(Q)
  PROVE  TypeInv'
<1>1. /\ asks' = [q \in Queries |-> IF q \in Q THEN [asks[q] EXCEPT !.stage = "asking"]
                                    ELSE asks[q]]
      /\ batch' \in Seq(Calls) /\ micro' \in Seq(Tasks)
      /\ UNCHANGED <<channels, views, cached, laid, newest, net, heard>>
  BY AskDoes
<1>2. asks' \in [Queries -> Asks]
  <2>1. \A q \in Queries : asks[q] \in Asks /\ [asks[q] EXCEPT !.stage = "asking"] \in Asks
    BY DEF TypeInv, CacheTyped, Asks
  <2> QED  BY <1>1, <2>1
<1>3. CacheTyped' /\ NetTyped'
  BY <1>1, <1>2, CacheKept, NetKept
<1>4. ViewsTyped'
  BY <1>1 DEF TypeInv, ViewsTyped, views
<1>5. made' = made
  BY DEF Ask, feedVars
<1> QED  BY <1>1, <1>3, <1>4, <1>5, RetypedHere

\* A microtask that goes on as t, or is gone.
LEMMA TypeGoesOn ==
  ASSUME TypeInv, RefInv', Next, micro # <<>>, NEW t \in Tasks,
         micro' \in {Now(t), Later(t), Rest},
         UNCHANGED <<channels, mounted, kids, refined, cached, laid, newest, net, made>>,
         waiting' \subseteq Views, shown' \in [Views -> States],
         asks' \in [Queries -> Asks], batch' \in Seq(Calls)
  PROVE  TypeInv'
<1>1. micro' \in Seq(Tasks)
  BY GoOnTyped DEF TypeInv
<1>2. ViewsTyped'
  BY DEF TypeInv, ViewsTyped
<1> QED  BY <1>1, <1>2, CacheKept, NetKept, RetypedHere

LEMMA TypeRecompute ==
  ASSUME TypeInv, RefInv', Next, Leave \/ Start \/ Base \/ Join \/ Derive \/ Show
  PROVE  TypeInv'
<1>1. /\ asks \in [Queries -> Asks] /\ batch \in Seq(Calls) /\ waiting \subseteq Views
      /\ shown \in [Views -> States]
  BY DEF TypeInv, ViewsTyped, CacheTyped, NetTyped
<1>2. Turn \in Tasks
  BY DEF Tasks, Turns
<1>3. CASE Leave
  <2>1. micro # <<>> /\ micro' = Rest /\ UNCHANGED others
    BY <1>3, LeaveDoes
  <2> QED  BY <1>1, <1>2, <2>1, TypeGoesOn DEF others, views, feedVars
<1>4. CASE Start
  <2>1. /\ micro # <<>> /\ BaseOf(Task.view) \in Tasks
        /\ micro' \in {Now(BaseOf(Task.view)), Later(BaseOf(Task.view))}
        /\ waiting' \subseteq Views
    BY <1>1, <1>4, StartDoes DEF Runs, Tasks
  <2>2. UNCHANGED <<channels, mounted, kids, refined, cached, laid, newest, net, made, shown, asks,
          batch>>
    BY <1>4 DEF Start, feedVars
  <2> QED  BY <1>1, <2>1, <2>2, TypeGoesOn
<1>5. CASE Base
  <2>1. /\ micro # <<>> /\ IncludeOf(Task) \in Tasks /\ micro' = Now(IncludeOf(Task))
        /\ UNCHANGED others
    BY <1>5, BaseDoes DEF Runs, Tasks
  <2> QED  BY <1>1, <2>1, TypeGoesOn DEF others, views, feedVars
<1>6. CASE Join
  <2>1. /\ micro # <<>> /\ DeriveOf(Task) \in Tasks /\ UNCHANGED others
        /\ micro' \in {Now(DeriveOf(Task)), Later(DeriveOf(Task))}
    BY <1>6, JoinDoes DEF Runs, Tasks
  <2> QED  BY <1>1, <2>1, TypeGoesOn DEF others, views, feedVars
<1>7. CASE Derive
  <2>1. micro # <<>> /\ ShowOf(Task) \in Tasks /\ micro' = Later(ShowOf(Task)) /\ UNCHANGED others
    BY <1>7, DeriveDoes DEF Runs, Tasks
  <2> QED  BY <1>1, <2>1, TypeGoesOn DEF others, views, feedVars
<1>8. CASE Show
  <2>1. /\ micro # <<>>
        /\ micro' \in {Rest, Later(Turn)}
        /\ Task \in Shows /\ shown' = [shown EXCEPT ![Task.view] = Task.next]
        /\ UNCHANGED <<channels, mounted, kids, waiting, refined, cached, laid, newest, asks, batch, net>>
    BY <1>8, ShowDoes DEF Runs
  <2>2. shown' \in [Views -> States]
    BY <1>1, <2>1 DEF Shows
  <2>3. made' = made
    BY <1>8 DEF Show, feedVars
  <2> QED  BY <1>1, <1>2, <2>1, <2>2, <2>3, TypeGoesOn
<1> QED  BY <1>3, <1>4, <1>5, <1>6, <1>7, <1>8

LEMMA TypeInclude ==
  ASSUME TypeInv, RefInv, RefInv', Next, Include
  PROVE  TypeInv'
<1>1. /\ Runs("include") /\ Len(Task.kids) < Len(Includes[Task.view])
      /\ kids' = IF Task.view \notin mounted THEN kids
                 ELSE Exchanged(kids, Task.view, NextSpec, NextPlan)
  BY IncludeDoes
<1>2. PICK W : /\ Starting(W)
               /\ Queues(IF CanRead(NextPlan) THEN Later(NextTask) ELSE Now(NextTask),
                         waiting, Listeners(W))
  BY IncludeDoes
<1>3. UNCHANGED <<mounted, refined, shown, cached, laid, newest, asks, net, made>>
  BY DEF Include, feedVars
<1>4. micro' \in Seq(Tasks) /\ waiting' \subseteq Views
  BY <1>2, QueuesTyped, ListenersAre
<1>5. NextSpec \in Specs /\ NextPlan \in Plans \cup {NoPlan} /\ Task.view \in Views
  BY <1>1, NextTyped
<1>6. ASSUME NEW v \in Views
      PROVE  DOMAIN kids'[v] \subseteq Specs /\ \A spec \in DOMAIN kids'[v] :
        kids'[v][spec] \in Plans
  <2> DEFINE D == (DOMAIN kids[v] \cup {NextSpec}) \ {s \in {NextSpec} : NextPlan = NoPlan}
  <2>1. DOMAIN kids[v] \subseteq Specs /\ \A spec \in DOMAIN kids[v] : kids[v][spec] \in Plans
    BY DEF TypeInv, ViewsTyped
  <2>2. CASE kids'[v] = kids[v]
    BY <2>1, <2>2
  <2>3. CASE kids'[v] = [t \in D |-> IF t = NextSpec THEN NextPlan ELSE kids[v][t]]
    <3>1. DOMAIN kids'[v] = D
      BY <2>3
    <3>2. D \subseteq Specs
      BY <1>5, <2>1
    <3>3. ASSUME NEW t \in D PROVE kids'[v][t] \in Plans
      <4>1. kids'[v][t] = IF t = NextSpec THEN NextPlan ELSE kids[v][t]
        BY <2>3
      <4> QED  BY <1>5, <2>1, <4>1
    <3> QED  BY <3>1, <3>2, <3>3
  <2>4. \/ kids'[v] = kids[v]
        \/ kids'[v] = [t \in D |-> IF t = NextSpec THEN NextPlan ELSE kids[v][t]]
    <3>1. CASE Task.view \notin mounted
      BY <1>1, <3>1
    <3>2. CASE Task.view \in mounted
      <4>1. kids' = Exchanged(kids, Task.view, NextSpec, NextPlan)
        BY <1>1, <3>2
      <4>2. v # Task.view => kids'[v] = kids[v]
        <5>1. v # Task.view /\ v \in DOMAIN kids => kids'[v] = kids[v]
          BY <4>1 DEF Exchanged
        <5> QED  BY <5>1 DEF RefInv
      <4>3. v = Task.view =>
              kids'[v] = [t \in D |-> IF t = NextSpec THEN NextPlan ELSE kids[v][t]]
        <5>1. v = Task.view /\ v \in DOMAIN kids =>
              kids'[v] = [t \in D |-> IF t = NextSpec THEN NextPlan ELSE kids[v][t]]
          BY <4>1 DEF Exchanged
        <5> QED  BY <5>1 DEF RefInv
      <4> QED  BY <4>2, <4>3
    <3> QED  BY <3>1, <3>2
  <2> QED  BY <2>2, <2>3, <2>4
<1>7. ViewsTyped'
  BY <1>3, <1>4, <1>6 DEF TypeInv, ViewsTyped
<1>8. CacheTyped'
  BY <1>3, AsksKept, CacheKept
<1>9. NetTyped'
  BY <1>2, <1>3, StartingTyped, NetKept
<1> QED  BY <1>2, <1>3, <1>4, <1>7, <1>8, <1>9, StartingTyped, Retyped

LEMMA TypeOneShot ==
  ASSUME TypeInv, RefInv', Next, Looked \/ FallBack \/ Relate
  PROVE  TypeInv'
<1>1. batch \in Seq(Calls) /\ waiting \subseteq Views /\ shown \in [Views -> States]
  BY DEF TypeInv, ViewsTyped, NetTyped
<1>2. CASE Looked
  <2>1. /\ micro # <<>> /\ Task.query \in Queries /\ micro' \in {Now(Relating(Task.query)), Rest}
        /\ asks' \in [Queries -> Asks] /\ batch' \in Seq(Calls)
        /\ UNCHANGED <<channels, views, cached, laid, newest, net>>
    BY <1>2, LookedDoes DEF Runs
  <2>2. made' = made
    BY <1>2 DEF Looked, feedVars
  <2>3. Relating(Task.query) \in Tasks
    BY <2>1, RelatingTyped DEF Tasks
  <2> QED  BY <1>1, <2>1, <2>2, <2>3, TypeGoesOn DEF views
<1>3. CASE FallBack
  <2>1. /\ micro # <<>> /\ Task.query \in Queries /\ micro' \in {Now(Relating(Task.query)), Rest}
        /\ asks' \in [Queries -> Asks]
        /\ UNCHANGED <<channels, views, cached, laid, newest, batch, net>>
    BY <1>3, FallBackDoes DEF Runs
  <2>2. made' = made
    BY <1>3 DEF FallBack, feedVars
  <2>3. Relating(Task.query) \in Tasks
    BY <2>1, RelatingTyped DEF Tasks
  <2> QED  BY <1>1, <2>1, <2>2, <2>3, TypeGoesOn DEF views
<1>4. CASE Relate
  <2> DEFINE look == Looking(Task.query, NextWanted(Task.query))
  <2>1. /\ micro # <<>> /\ Task \in Tasks /\ Task.query \in Queries
        /\ asks' \in [Queries -> Asks] /\ batch' \in Seq(Calls)
        /\ UNCHANGED <<channels, views, cached, laid, newest, net>>
    BY <1>4, RelateDoes, HeadIs DEF Runs, TypeInv
  <2>2. made' = made
    BY <1>4 DEF Relate, feedVars
  <2>3. \/ micro' \in {Now(Task), Rest}
        \/ NextWanted(Task.query) \in Plans /\ micro' = Later(look)
    BY <1>4, RelateDoes
  <2>4. NextWanted(Task.query) \in Plans => look \in Tasks
    BY <2>1, LookingTyped DEF Tasks, TypeInv
  <2> HIDE DEF look
  <2>5. CASE micro' \in {Now(Task), Rest}
    BY <1>1, <2>1, <2>2, <2>5, TypeGoesOn DEF views
  <2>6. CASE NextWanted(Task.query) \in Plans /\ micro' = Later(look)
    BY <1>1, <2>1, <2>2, <2>4, <2>6, TypeGoesOn DEF views
  <2> QED  BY <2>3, <2>5, <2>6
<1> QED  BY <1>2, <1>3, <1>4

LEMMA TypeSettle ==
  ASSUME TypeInv, RefInv', Next, Answer \/ EndRefresh \/ EndQuery
  PROVE  TypeInv'
<1>1. batch \in Seq(Calls) /\ waiting \subseteq Views /\ shown \in [Views -> States]
  BY DEF TypeInv, ViewsTyped, NetTyped
<1>2. CASE Answer
  <2>1. /\ CacheTyped'
        /\ UNCHANGED <<channels, mounted, kids, refined, shown, asks, batch, net, made>>
    BY <1>2, AnswerDoes DEF feedVars
  <2>2. \/ Queues(Later(EndOf(Task)), waiting, Subscribed(ResourceOf[Task.call.plan]))
        \/ Queues(Now(EndOf(Task)), waiting, {})
    BY <1>2, AnswerDoes
  <2>3. micro' \in Seq(Tasks) /\ waiting' \subseteq Views
    <3>1. {} \in SUBSET Views /\ Subscribed(ResourceOf[Task.call.plan]) \in SUBSET Views
      BY SubscribedAre
    <3> QED  BY <2>2, <3>1, QueuesTyped
  <2> QED  BY <2>1, <2>3, ViewsKept, BatchKept, RetypedHere
<1>3. CASE EndRefresh
  <2>1. /\ channels' \in [Plans -> WideChannel]
        /\ \A p \in Plans : channels'[p].stored = channels[p].stored
        /\ Queues(Rest, waiting, IF Alive(Task) THEN Listeners({Task.call.plan}) ELSE {})
        /\ UNCHANGED <<mounted, kids, refined, shown, cached, laid, newest, asks, batch, net, made>>
    BY <1>3, EndRefreshDoes DEF feedVars
  <2>2. micro' \in Seq(Tasks) /\ waiting' \subseteq Views
    <3>1. (IF Alive(Task) THEN Listeners({Task.call.plan}) ELSE {}) \in SUBSET Views
      BY ListenersAre
    <3> QED  BY <2>1, <3>1, QueuesTyped
  <2>3. {p \in Plans : channels'[p].stored} = {p \in Plans : channels[p].stored}
    BY <2>1
  <2>4. IsFiniteSet({p \in Plans : channels'[p].stored})
    BY <2>3 DEF TypeInv, ChannelsTyped
  <2> QED  BY <2>1, <2>2, <2>4, ViewsKept, AsksKept, CacheKept, BatchKept, Retyped
<1>4. CASE EndQuery
  <2>1. /\ micro # <<>> /\ Task.call.by \in Queries
        /\ asks' \in [Queries -> Asks]
        /\ UNCHANGED <<channels, views, cached, laid, newest, batch, net, made>>
    BY <1>4, EndQueryDoes DEF Runs, feedVars
  <2>2. \/ micro' \in {Now(Relating(Task.call.by)), Rest}
        \/ micro' = Later(FallOf(Task)) /\ FallOf(Task) \in Falls
    BY <1>4, EndQueryDoes
  <2>3. Relating(Task.call.by) \in Tasks /\ (FallOf(Task) \in Falls => FallOf(Task) \in Tasks)
    BY <2>1, RelatingTyped DEF Tasks
  <2>4. CASE micro' \in {Now(Relating(Task.call.by)), Rest}
    BY <1>1, <2>1, <2>3, <2>4, TypeGoesOn DEF views
  <2>5. CASE micro' = Later(FallOf(Task)) /\ FallOf(Task) \in Falls
    BY <1>1, <2>1, <2>3, <2>5, TypeGoesOn DEF views
  <2> QED  BY <2>2, <2>4, <2>5
<1> QED  BY <1>2, <1>3, <1>4

LEMMA TypeSource ==
  ASSUME TypeInv, RefInv', Next,
         \/ Flush
         \/ \E i \in DOMAIN net : \/ \E refused \in SUBSET DOMAIN net[i].calls : Serve(i, refused)
                                  \/ Respond(i) \/ Drop(i)
  PROVE  TypeInv'
<1>1. /\ NetTyped'
      /\ UNCHANGED <<channels, views, cached, laid, newest, asks>>
  BY FlushDoes, ServeDoes, ArrivesDoes
<1>2. made' = made
  BY DEF Flush, Serve, Respond, Drop, feedVars
<1>3. micro' \in Seq(Tasks)
  <2>1. CASE UNCHANGED micro
    BY <2>1 DEF TypeInv
  <2>2. CASE \E i \in DOMAIN net : Respond(i) \/ Drop(i)
    <3>1. micro' \in Seq(Incoming) /\ Incoming \subseteq Tasks
      BY <2>2, ArrivesDoes DEF Tasks
    <3> QED  BY <3>1, SeqMonotonic
  <2> QED  BY <2>1, <2>2, FlushDoes, ServeDoes
<1>4. ViewsTyped'
  BY <1>1 DEF TypeInv, ViewsTyped, views
<1> QED  BY <1>1, <1>2, <1>3, <1>4, AsksKept, CacheKept, RetypedHere

LEMMA TypeRetire ==
  ASSUME TypeInv, RefInv', Next, NEW p \in Plans, Retire(p)
  PROVE  TypeInv'
<1>1. /\ channels' \in [Plans -> WideChannel] /\ NetTyped'
      /\ \A r \in Plans : channels'[r].stored => channels[r].stored
      /\ UNCHANGED <<views, cached, laid, newest, asks, micro, made>>
  BY RetireDoes DEF feedVars
<1>2. {r \in Plans : channels'[r].stored} \subseteq {r \in Plans : channels[r].stored}
  BY <1>1
<1>3. IsFiniteSet({r \in Plans : channels'[r].stored})
  BY <1>2, FS_Subset DEF TypeInv, ChannelsTyped
<1>4. ViewsTyped'
  BY <1>1 DEF TypeInv, ViewsTyped, views
<1>5. micro' \in Seq(Tasks)
  BY <1>1 DEF TypeInv
<1> QED  BY <1>1, <1>3, <1>4, <1>5, AsksKept, CacheKept, Retyped

LEMMA TypeEdit ==
  ASSUME TypeInv, NEW s \in Instances, NEW p \in Plans, Edit(s, p)
  PROVE  TypeInv'
<1> DEFINE c == <<p, Truth(p) + 1>>
<1>1. /\ Cardinality(made) < scene.edits /\ made' = made \cup {c} /\ c \notin made
      /\ UNCHANGED client
  BY DEF Edit, Accept
<1>2. /\ IsFiniteSet(made') /\ Cardinality(made') = Cardinality(made) + 1
      /\ Cardinality(made) \in Nat
  BY <1>1, FS_AddElement, FS_CardinalityType DEF TypeInv, SceneTyped
<1>3. scene.edits \in Versions /\ MaxWrites \in Nat
  BY LiveAssumption DEF TypeInv, SceneTyped, Scene
<1>4. Cardinality(made') <= scene.edits
  BY <1>1, <1>2, <1>3 DEF Versions
<1>5. Truth(p) + 1 \in 1..MaxWrites
  <2>1. {d \in made : d[1] = p} \subseteq made
    OBVIOUS
  <2>2. Truth(p) <= Cardinality(made) /\ Truth(p) \in Nat
    BY <2>1, FS_Subset, FS_CardinalityType DEF Truth, TypeInv, SceneTyped
  <2> QED  BY <1>1, <1>2, <1>3, <2>2 DEF Versions
<1>6. made' \subseteq Changes
  BY <1>1, <1>5, LiveAssumption DEF TypeInv, SceneTyped
<1>7. SceneTyped'
  BY <1>1, <1>2, <1>4, <1>6 DEF TypeInv, SceneTyped, client, bounds
<1> QED
  BY <1>1, <1>7 DEF TypeInv, ChannelsTyped, ViewsTyped, CacheTyped, NetTyped, client, views

LEMMA TypeHear ==
  ASSUME TypeInv, FeedTyped, RefInv', Next, Hear
  PROVE  TypeInv'
<1>1. events[Me] \in Seq(made)
  BY LiveAssumption DEF FeedTyped
<1>2. \E W : Starting(W) /\ Queues(<<>>, waiting, Listeners(W))
  BY <1>1, HearDoes
<1>3. PICK W : Starting(W) /\ Queues(<<>>, waiting, Listeners(W))
  BY <1>2
<1>4. UNCHANGED <<mounted, kids, refined, shown, cached, laid, newest, asks, net, made>>
  BY DEF Hear, Takes
<1>5. micro' \in Seq(Tasks) /\ waiting' \subseteq Views
  BY <1>3, QueuesTyped, ListenersAre
<1> QED  BY <1>3, <1>4, <1>5, ViewsKept, AsksKept, CacheKept, StartingTyped, NetKept, Retyped

LEMMA TypeFeed ==
  ASSUME TypeInv, RefInv', Next, Cut \/ Reconnects \/ Relays
  PROVE  TypeInv'
<1>1. UNCHANGED <<channels, views, cached, laid, newest, asks, micro, batch, net, made>>
  BY DEF Cut, Disconnect, Reconnects, Reconnect, Relays, Relay, Emit, client
<1>2. ViewsTyped' /\ micro' \in Seq(Tasks)
  BY <1>1 DEF TypeInv, ViewsTyped, views
<1> QED  BY <1>1, <1>2, AsksKept, CacheKept, BatchKept, RetypedHere

LEMMA TypeStep ==
  ASSUME TypeInv, FeedTyped, RefInv, RefInv', Next
  PROVE  TypeInv'
<1>1. ASSUME NEW v \in Views, Mount(v) \/ Unmount(v) \/ Refine(v) PROVE TypeInv'
  BY <1>1, TypeMount, TypeUnmount, TypeRefine
<1>2. ASSUME NEW Q \in Bundles, Ask(Q) PROVE TypeInv'
  BY <1>2, TypeAsk
<1>2a. ASSUME NEW r, NEW over \in [scene.written -> Layers], OwnWrite(r, over) PROVE TypeInv'
  BY <1>2a, TypeOwnWrite
<1>3. CASE Microtask
  BY <1>3, TypeRecompute, TypeInclude, TypeOneShot, TypeSettle
     DEF Microtask, Recompute, OneShot, Settle
<1>4. CASE \/ Flush
           \/ \E i \in DOMAIN net : \/ \E refused \in SUBSET DOMAIN net[i].calls : Serve(i, refused)
                                    \/ Respond(i) \/ Drop(i)
  BY <1>4, TypeSource
<1>5. ASSUME NEW p \in Plans, Retire(p) PROVE TypeInv'
  BY <1>5, TypeRetire
<1>6. ASSUME NEW s \in Instances, NEW p \in Plans, Edit(s, p) PROVE TypeInv'
  BY <1>6, TypeEdit
<1>7. CASE Hear \/ Cut \/ Reconnects \/ Relays
  BY <1>7, TypeHear, TypeFeed
<1> QED  BY <1>1, <1>2, <1>2a, <1>3, <1>4, <1>5, <1>6, <1>7 DEF Next

LEMMA TypeStart ==
  ASSUME Init
  PROVE  TypeInv
<1>1. channels = [p \in Plans |-> NoChannel] /\ NoChannel.stored = FALSE
  BY DEF Init, NoChannel
<1>2. {p \in Plans : channels[p].stored} = {}
  BY <1>1
<1>3. ChannelsTyped
  BY <1>1, <1>2, NoChannelTyped, FS_EmptySet DEF ChannelsTyped
<1>4. Blank \in States
  BY ResultsAre DEF Blank, States, Coverages
<1>5. DOMAIN <<>> = {}
  OBVIOUS
<1>6. ViewsTyped
  BY <1>4, <1>5, FS_EmptySet DEF Init, ViewsTyped
<1>7. 0 \in Versions /\ Unknown \in Results
  BY ResultsAre, LiveAssumption DEF Versions
<1>8. <<>> \in Seq(Results) /\ <<>> \in Seq(Calls) /\ <<>> \in Seq(Messages) /\ <<>> \in Seq(Tasks)
  OBVIOUS
<1>9. Unasked \in Asks
  BY <1>7, <1>8 DEF Unasked, Asks
<1>10. CacheTyped
  BY <1>7, <1>9, LiveAssumption DEF Init, CacheTyped
<1>11. NetTyped
  BY <1>5, <1>8 DEF Init, NetTyped
<1>12. SceneTyped
  <2>1. scene \in Scene /\ made = {} /\ scene.edits \in Nat
    BY LiveAssumption DEF Init, FeedInit, Scene, Versions
  <2>2. IsFiniteSet({}) /\ Cardinality({}) = 0
    BY FS_EmptySet
  <2> QED  BY <2>1, <2>2 DEF SceneTyped
<1>13. micro \in Seq(Tasks)
  BY <1>8 DEF Init
<1> QED  BY <1>3, <1>6, <1>10, <1>11, <1>12, <1>13 DEF TypeInv

----------------------------------------------------------------------------
(* One request for each channel that refreshes, and one step for each      *)
(* query under way: one call of C that is batched or sent, or one task of  *)
(* T that takes its answer in.                                             *)

Tokens(C, Q) ==
  {t \in Tasks : \/ t.job \in {"answer", "ended"} /\ t.call \in C
                 \/ t.job \in {"looked", "fallback", "relate"} /\ t.query \in Q}
NetNone(C) == \A i \in DOMAIN net : None(net[i].calls, C)
NetOne(C) == \E i \in DOMAIN net : /\ One(net[i].calls, C)
                                   /\ \A k \in DOMAIN net \ {i} : None(net[k].calls, C)
Nothing(C, T) == None(batch, C) /\ NetNone(C) /\ None(micro, T)
Single(C, T) ==
  \/ One(batch, C) /\ NetNone(C) /\ None(micro, T)
  \/ None(batch, C) /\ NetOne(C) /\ None(micro, T)
  \/ None(batch, C) /\ NetNone(C) /\ One(micro, T)

ChannelCalls(p) == {Call("channel", p)}
ChannelTasks(p) == Tokens({Call("channel", p)}, {})
QueryCalls(q) == {c \in Calls : c.by = q}
QueryTasks(q) == Tokens({c \in Calls : c.by = q}, {q})
Underway == {"asking", "joining", "relating"}

OneEach ==
  /\ \A p \in Plans : IF channels[p].refreshing THEN Single(ChannelCalls(p), ChannelTasks(p))
                      ELSE Nothing(ChannelCalls(p), ChannelTasks(p))
  /\ \A q \in Queries : IF asks[q].stage \in Underway THEN Single(QueryCalls(q), QueryTasks(q))
                        ELSE Nothing(QueryCalls(q), QueryTasks(q))

MicroSame(T) == (None(micro', T) <=> None(micro, T)) /\ (One(micro', T) <=> One(micro, T))
BatchSame(C) == (None(batch', C) <=> None(batch, C)) /\ (One(batch', C) <=> One(batch, C))
NetSame(C) == (NetNone(C)' <=> NetNone(C)) /\ (NetOne(C)' <=> NetOne(C))
Kept(C, T) ==
  /\ Nothing(C, T) => Nothing(C, T)'
  /\ Single(C, T) => Single(C, T)'

LEMMA SameKept ==
  ASSUME NEW C, NEW T, MicroSame(T), BatchSame(C), NetSame(C)
  PROVE  Kept(C, T)
  BY DEF MicroSame, BatchSame, NetSame, Kept, Nothing, Single

LEMMA NotTokens ==
  ASSUME NEW t, NEW C, NEW Q,
         t.job \notin {"answer", "ended", "looked", "fallback", "relate"}
  PROVE  t \notin Tokens(C, Q)
  BY DEF Tokens

LEMMA StartsAreNone ==
  ASSUME NEW ss \in Seq(Starts), NEW C, NEW Q
  PROVE  ss \in Seq(Tasks) /\ None(ss, Tokens(C, Q))
<1>1. Starts \subseteq Tasks
  BY DEF Tasks
<1>4. \A i \in DOMAIN ss : ss[i] \in Starts
  OBVIOUS
<1>2. \A i \in DOMAIN ss : ss[i].job = "start"
  BY <1>4 DEF Starts
<1>3. \A i \in DOMAIN ss : ss[i] \notin Tokens(C, Q)
  BY <1>2, NotTokens
<1> QED  BY <1>1, <1>3, SeqMonotonic DEF None

LEMMA NothingMore == \A X : \A s \in Seq(X) : s \o <<>> = s
  OBVIOUS

\* The head goes on as a task of T if it was one, and starts are queued.
LEMMA GoesOnSame ==
  ASSUME micro \in Seq(Tasks), micro # <<>>, NEW t \in Tasks, NEW C, NEW Q,
         NEW ss \in Seq(Starts), micro' = Now(t) \o ss \/ micro' = Later(t) \o ss,
         t \in Tokens(C, Q) <=> Task \in Tokens(C, Q)
  PROVE  MicroSame(Tokens(C, Q))
<1> DEFINE T == Tokens(C, Q)
<1>1. ss \in Seq(Tasks) /\ None(ss, T)
  BY StartsAreNone
<1>2. t \in T <=> Head(micro) \in T
  BY DEF Task
<1> HIDE DEF T
<1>3. /\ None((<<t>> \o Tail(micro)) \o ss, T) <=> t \notin T /\ None(Tail(micro), T)
      /\ None(Append(Tail(micro), t) \o ss, T) <=> t \notin T /\ None(Tail(micro), T)
      /\ One((<<t>> \o Tail(micro)) \o ss, T) <=> \/ t \in T /\ None(Tail(micro), T)
                                                  \/ t \notin T /\ One(Tail(micro), T)
      /\ One(Append(Tail(micro), t) \o ss, T) <=> \/ t \in T /\ None(Tail(micro), T)
                                                  \/ t \notin T /\ One(Tail(micro), T)
  BY <1>1, GoesOnHas
<1>4. /\ None(micro, T) <=> Head(micro) \notin T /\ None(Tail(micro), T)
      /\ One(micro, T) <=> \/ Head(micro) \in T /\ None(Tail(micro), T)
                           \/ Head(micro) \notin T /\ One(Tail(micro), T)
  BY HeadHas
<1>5. \/ micro' = (<<t>> \o Tail(micro)) \o ss
      \/ micro' = Append(Tail(micro), t) \o ss
  BY DEF Now, Later
<1> QED  BY <1>2, <1>3, <1>4, <1>5 DEF MicroSame, T

\* The head is gone, and starts are queued.
LEMMA GoneSame ==
  ASSUME micro \in Seq(Tasks), micro # <<>>, NEW C, NEW Q, NEW ss \in Seq(Starts),
         micro' = Rest \o ss
  PROVE  /\ Task \notin Tokens(C, Q) => MicroSame(Tokens(C, Q))
         /\ Task \in Tokens(C, Q) /\ One(micro, Tokens(C, Q)) => None(micro', Tokens(C, Q))
<1> DEFINE T == Tokens(C, Q)
<1>1. ss \in Seq(Tasks) /\ None(ss, T)
  BY StartsAreNone
<1> HIDE DEF T
<1>2. Turn \in Tasks
  BY DEF Tasks, Turns
<1>3. /\ None(Tail(micro) \o ss, T) <=> None(Tail(micro), T)
      /\ One(Tail(micro) \o ss, T) <=> One(Tail(micro), T)
  BY <1>1, <1>2, GoesOnHas
<1>4. /\ None(micro, T) <=> Head(micro) \notin T /\ None(Tail(micro), T)
      /\ One(micro, T) <=> \/ Head(micro) \in T /\ None(Tail(micro), T)
                           \/ Head(micro) \notin T /\ One(Tail(micro), T)
  BY HeadHas
<1> QED  BY <1>3, <1>4 DEF MicroSame, Rest, Task, T

\* The application's turn opens, or goes on.
LEMMA OpenSame ==
  ASSUME TypeInv, NEW C, NEW Q, NEW more \in Seq(Tasks), None(more, Tokens(C, Q)),
         micro' = Open \o more
  PROVE  MicroSame(Tokens(C, Q))
<1> DEFINE T == Tokens(C, Q)
<1>1. Turn \notin T
  BY NotTokens DEF Turn
<1> HIDE DEF T
<1>2. (None(Open, T) <=> None(micro, T)) /\ (One(Open, T) <=> One(micro, T))
  <2>1. CASE micro = <<>>
    BY <1>1, <2>1, UnitHas, EmptyHas DEF Open, Quiet
  <2>2. CASE micro # <<>>
    BY <2>2 DEF Open, Quiet
  <2> QED  BY <2>1, <2>2
<1>3. /\ None(micro', T) <=> None(Open, T) /\ None(more, T)
      /\ One(micro', T) <=> \/ One(Open, T) /\ None(more, T)
                            \/ None(Open, T) /\ One(more, T)
  BY OpenTyped, CatHas
<1>4. None(more, T)
  BY DEF T
<1> QED  BY <1>2, <1>3, <1>4, NotBoth DEF MicroSame, T

LEMMA NetStays ==
  ASSUME NEW C, net' = net
  PROVE  NetSame(C)
  BY DEF NetSame, NetNone, NetOne

\* Refreshes start: their calls are batched.
LEMMA StartingFlows ==
  ASSUME TypeInv, NEW W, Starting(W), net' = net, NEW C, NEW T, MicroSame(T)
  PROVE  /\ CallsFor(W) \cap C = {} => Kept(C, T)
         /\ \A x : CallsFor(W) \cap C = {x} /\ Nothing(C, T) => Single(C, T)'
<1> DEFINE calls == SetToSeq(CallsFor(W))
<1>1. /\ W \subseteq Plans /\ IsFiniteSet(W) /\ batch \in Seq(Calls)
      /\ batch' = IF W = {} THEN batch ELSE batch \o calls
  BY DEF Starting, TypeInv, NetTyped
<1>2. IsFiniteSet(CallsFor(W)) /\ calls \in Seq(Calls)
  BY <1>1, CallsForIs
<1>3. /\ None(calls, C) <=> CallsFor(W) \cap C = {}
      /\ \A x : CallsFor(W) \cap C = {x} => One(calls, C)
  BY <1>2, SetHas
<1>4. W = {} => CallsFor(W) = {}
  BY DEF CallsFor
<1>5. /\ None(batch \o calls, C) <=> None(batch, C) /\ None(calls, C)
      /\ One(batch \o calls, C) <=> \/ One(batch, C) /\ None(calls, C)
                                    \/ None(batch, C) /\ One(calls, C)
  BY <1>1, <1>2, CatHas
<1> HIDE DEF calls
<1>6. CallsFor(W) \cap C = {} => BatchSame(C)
  <2>1. CASE W = {}
    BY <1>1, <2>1 DEF BatchSame
  <2>2. CASE W # {}
    BY <1>1, <1>3, <1>5, <2>2, NotBoth DEF BatchSame
  <2> QED  BY <2>1, <2>2
<1>7. NetSame(C)
  BY NetStays
<1>8. ASSUME NEW x, CallsFor(W) \cap C = {x}, Nothing(C, T) PROVE Single(C, T)'
  <2>1. W # {}
    BY <1>4, <1>8
  <2>2. One(batch', C)
    BY <1>1, <1>3, <1>5, <1>8, <2>1 DEF Nothing
  <2>3. NetNone(C)' /\ None(micro', T)
    BY <1>7, <1>8 DEF NetSame, MicroSame, Nothing
  <2> QED  BY <2>2, <2>3 DEF Single
<1> QED  BY <1>6, <1>7, <1>8, SameKept

\* Whose token a task and a call are.
LEMMA Owners ==
  ASSUME NEW t \in Tasks
  PROVE  /\ t.job \in {"answer", "ended"} =>
              /\ t.call \in Calls
              /\ \A p : t \in ChannelTasks(p) <=> t.call = Call("channel", p)
              /\ \A q : t \in QueryTasks(q) <=> t.call.by = q
         /\ t.job \in {"looked", "fallback", "relate"} =>
              /\ t.query \in Queries
              /\ \A p : t \notin ChannelTasks(p)
              /\ \A q : t \in QueryTasks(q) <=> t.query = q
<1>1. ASSUME t.job \in {"answer", "ended"}
      PROVE  /\ t.call \in Calls
             /\ \A p : t \in ChannelTasks(p) <=> t.call = Call("channel", p)
             /\ \A q : t \in QueryTasks(q) <=> t.call.by = q
  <2>1. t.call \in Calls
    BY <1>1, TaskIs DEF Incoming, Endings
  <2> QED  BY <1>1, <2>1 DEF ChannelTasks, QueryTasks, Tokens
<1>2. ASSUME t.job \in {"looked", "fallback", "relate"}
      PROVE  /\ t.query \in Queries
             /\ \A p : t \notin ChannelTasks(p)
             /\ \A q : t \in QueryTasks(q) <=> t.query = q
  <2>1. t.query \in Queries
    BY <1>2, TaskIs DEF Looks, Falls, Relates
  <2> QED  BY <1>2, <2>1 DEF ChannelTasks, QueryTasks, Tokens
<1> QED  BY <1>1, <1>2

LEMMA CallOwners ==
  ASSUME NEW call \in Calls
  PROVE  /\ \A p : call \in ChannelCalls(p) <=> call = Call("channel", p)
         /\ \A q : call \in QueryCalls(q) <=> call.by = q
  BY DEF ChannelCalls, QueryCalls

LEMMA CallsDiffer ==
  /\ \A p, r : Call("channel", p) = Call("channel", r) <=> p = r
  /\ \A p : Call("channel", p).by \notin Queries /\ Call(Gone, p).by \notin Queries
  /\ \A p, r : Call(Gone, p) # Call("channel", r)
  /\ \A q \in Queries : \A p, r : /\ Call(q, p) # Call("channel", r) /\ Call(q, p).by = q
                                  /\ Call(q, p) # Call(Gone, r)
<1>1. "channel" \notin Queries /\ "gone" \notin Queries
  BY LiveAssumption
<1> QED  BY <1>1 DEF Call, Gone

\* What all tokens keep, each keeps.
SameForAll ==
  /\ \A C, Q : MicroSame(Tokens(C, Q))
  /\ \A C : BatchSame(C) /\ NetSame(C)

LEMMA EachKept ==
  ASSUME OneEach,
         \A p \in Plans : /\ channels'[p].refreshing <=> channels[p].refreshing
                          /\ Kept(ChannelCalls(p), ChannelTasks(p)),
         \A q \in Queries : /\ asks'[q].stage \in Underway <=> asks[q].stage \in Underway
                            /\ Kept(QueryCalls(q), QueryTasks(q))
  PROVE  OneEach'
<1>1. ASSUME NEW p \in Plans
      PROVE  IF channels'[p].refreshing THEN Single(ChannelCalls(p), ChannelTasks(p))'
             ELSE Nothing(ChannelCalls(p), ChannelTasks(p))'
  BY DEF OneEach, Kept
<1>2. ASSUME NEW q \in Queries
      PROVE  IF asks'[q].stage \in Underway THEN Single(QueryCalls(q), QueryTasks(q))'
             ELSE Nothing(QueryCalls(q), QueryTasks(q))'
  BY DEF OneEach, Kept
<1> QED  BY <1>1, <1>2 DEF OneEach

LEMMA EachSame ==
  ASSUME OneEach, SameForAll, channels' = channels, asks' = asks
  PROVE  OneEach'
<1>1. \A C, Q : Kept(C, Tokens(C, Q))
  BY SameKept DEF SameForAll
<1>2. \A p : Kept(ChannelCalls(p), ChannelTasks(p))
  <2> TAKE p
  <2>1. Kept(ChannelCalls(p), Tokens(ChannelCalls(p), {}))
    BY <1>1
  <2> QED  BY <2>1 DEF ChannelCalls, ChannelTasks
<1>3. \A q : Kept(QueryCalls(q), QueryTasks(q))
  <2> TAKE q
  <2>1. Kept(QueryCalls(q), Tokens(QueryCalls(q), {q}))
    BY <1>1
  <2> QED  BY <2>1 DEF QueryCalls, QueryTasks
<1> QED  BY <1>2, <1>3, EachKept

LEMMA EachStarting ==
  ASSUME TypeInv, OneEach, NEW W, Starting(W), net' = net, asks' = asks,
         \A C, Q : MicroSame(Tokens(C, Q))
  PROVE  OneEach'
<1>1. \A C, Q : /\ CallsFor(W) \cap C = {} => Kept(C, Tokens(C, Q))
                /\ \A x : CallsFor(W) \cap C = {x} /\ Nothing(C, Tokens(C, Q))
                            => Single(C, Tokens(C, Q))'
  BY StartingFlows
<1>2. ASSUME NEW p \in Plans
      PROVE  IF channels'[p].refreshing THEN Single(ChannelCalls(p), ChannelTasks(p))'
             ELSE Nothing(ChannelCalls(p), ChannelTasks(p))'
  <2>1. Seen(channels[p], channels'[p], p \in W)
    BY DEF Starting
  <2>2. channels[p].refreshing \in BOOLEAN /\ channels'[p].refreshing \in BOOLEAN
    BY StartingTyped DEF TypeInv, ChannelsTyped, Channel, WideChannel
  <2>3. CASE p \in W
    <3>1. CallsFor(W) \cap ChannelCalls(p) = {Call("channel", p)}
      BY <2>3 DEF CallsFor, ChannelCalls
    <3>2. ~channels[p].refreshing /\ channels'[p].refreshing
      BY <2>1, <2>2, <2>3 DEF Seen
    <3>3. Nothing(ChannelCalls(p), ChannelTasks(p))
      BY <3>2 DEF OneEach
    <3>4. Nothing(ChannelCalls(p), Tokens(ChannelCalls(p), {}))
      BY <3>3 DEF ChannelCalls, ChannelTasks
    <3>5. Single(ChannelCalls(p), Tokens(ChannelCalls(p), {}))'
      BY <1>1, <3>1, <3>4
    <3> QED  BY <3>2, <3>5 DEF ChannelCalls, ChannelTasks
  <2>4. CASE p \notin W
    <3>1. CallsFor(W) \cap ChannelCalls(p) = {}
      BY <2>4, CallsDiffer DEF CallsFor, ChannelCalls
    <3>2. channels'[p].refreshing <=> channels[p].refreshing
      BY <2>1, <2>2, <2>4 DEF Seen
    <3>3. Kept(ChannelCalls(p), Tokens(ChannelCalls(p), {}))
      BY <1>1, <3>1
    <3>4. Kept(ChannelCalls(p), ChannelTasks(p))
      BY <3>3 DEF ChannelCalls, ChannelTasks
    <3> QED  BY <3>2, <3>4 DEF OneEach, Kept
  <2> QED  BY <2>3, <2>4
<1>3. ASSUME NEW q \in Queries
      PROVE  IF asks'[q].stage \in Underway THEN Single(QueryCalls(q), QueryTasks(q))'
             ELSE Nothing(QueryCalls(q), QueryTasks(q))'
  <2>1. CallsFor(W) \cap QueryCalls(q) = {}
    BY CallsDiffer DEF CallsFor, QueryCalls
  <2>2. Kept(QueryCalls(q), Tokens(QueryCalls(q), {q}))
    BY <1>1, <2>1
  <2>3. Kept(QueryCalls(q), QueryTasks(q))
    BY <2>2 DEF QueryCalls, QueryTasks
  <2> QED  BY <2>3 DEF OneEach, Kept
<1> QED  BY <1>2, <1>3 DEF OneEach

\* Starts of the woken are no tokens.
LEMMA QueuesSame ==
  ASSUME micro \in Seq(Tasks), micro # <<>>, NEW t \in Tasks, NEW woken, NEW queued,
         NEW C, NEW Q, t \in Tokens(C, Q) <=> Task \in Tokens(C, Q),
         Queues(Now(t), queued, woken) \/ Queues(Later(t), queued, woken)
  PROVE  MicroSame(Tokens(C, Q))
<1>1. PICK ss \in Seq(Starts) : micro' = Now(t) \o ss \/ micro' = Later(t) \o ss
  BY DEF Queues
<1> QED  BY <1>1, GoesOnSame

LEMMA TurnsSame ==
  ASSUME micro \in Seq(Tasks), micro # <<>>, NEW t \in Tasks,
         NEW C, NEW Q, t \in Tokens(C, Q) <=> Task \in Tokens(C, Q),
         micro' = Now(t) \/ micro' = Later(t)
  PROVE  MicroSame(Tokens(C, Q))
<1>1. Now(t) \in Seq(Tasks) /\ Later(t) \in Seq(Tasks) /\ <<>> \in Seq(Starts)
  BY GoOnTyped
<1>2. Now(t) \o <<>> = Now(t) /\ Later(t) \o <<>> = Later(t)
  BY <1>1, NothingMore
<1>3. micro' = Now(t) \o <<>> \/ micro' = Later(t) \o <<>>
  BY <1>2
<1> QED  BY <1>1, <1>3, GoesOnSame

LEMMA EndsSame ==
  ASSUME micro \in Seq(Tasks), micro # <<>>, NEW C, NEW Q, micro' = Rest
  PROVE  /\ Task \notin Tokens(C, Q) => MicroSame(Tokens(C, Q))
         /\ Task \in Tokens(C, Q) /\ One(micro, Tokens(C, Q)) => None(micro', Tokens(C, Q))
<1>1. Rest \in Seq(Tasks) /\ <<>> \in Seq(Starts)
  BY HeadIs
<1>2. micro' = Rest \o <<>>
  BY <1>1, NothingMore
<1> QED  BY <1>1, <1>2, GoneSame

LEMMA OpensSame ==
  ASSUME TypeInv, NEW queued, NEW woken, NEW C, NEW Q,
         micro' = Open \/ Queues(Open, queued, woken)
  PROVE  MicroSame(Tokens(C, Q))
<1>1. Open \in Seq(Tasks) /\ <<>> \in Seq(Starts)
  BY OpenTyped
<1>2. Open \o <<>> = Open
  BY <1>1, NothingMore
<1>3. PICK ss \in Seq(Starts) : micro' = Open \o ss
  BY <1>1, <1>2 DEF Queues
<1> QED  BY <1>3, StartsAreNone, OpenSame

NoTokenJobs == {"app", "start", "base", "include", "derive", "show"}
LEMMA NoTokens ==
  ASSUME NEW t, t.job \in NoTokenJobs
  PROVE  \A C, Q : t \notin Tokens(C, Q)
  BY NotTokens DEF NoTokenJobs

LEMMA EachOpen ==
  ASSUME TypeInv, RefInv, OneEach, NEW v \in Views, Mount(v) \/ Unmount(v) \/ Refine(v)
  PROVE  OneEach'
<1>1. CASE Mount(v)
  <2>1. PICK W : Starting(W) /\ Queues(Open, waiting, Listeners(W) \cup {v})
    BY <1>1, MountDoes
  <2>2. net' = net /\ asks' = asks
    BY <1>1 DEF Mount
  <2>3. \A C, Q : MicroSame(Tokens(C, Q))
    BY <2>1, OpensSame
  <2> QED  BY <2>1, <2>2, <2>3, EachStarting
<1>2. CASE Unmount(v)
  <2>1. Starting({}) /\ micro' = Open
    BY <1>2, UnmountDoes
  <2>2. net' = net /\ asks' = asks
    BY <1>2 DEF Unmount
  <2>3. \A C, Q : MicroSame(Tokens(C, Q))
    BY <2>1, OpensSame
  <2> QED  BY <2>1, <2>2, <2>3, EachStarting
<1>3. CASE Refine(v)
  <2>1. Queues(Open, waiting, {v}) /\ UNCHANGED <<channels, asks, batch, net>>
    BY <1>3, RefineDoes
  <2>2. \A C, Q : MicroSame(Tokens(C, Q))
    BY <2>1, OpensSame
  <2>3. SameForAll
    BY <2>1, <2>2, NetStays DEF SameForAll, BatchSame
  <2> QED  BY <2>1, <2>3, EachSame
<1> QED  BY <1>1, <1>2, <1>3

LEMMA StartsAndTurns ==
  /\ \A t \in Starts : t.job \in NoTokenJobs
  /\ Turn.job \in NoTokenJobs
  BY DEF Starts, Turn, NoTokenJobs

\* A task of a live query goes on as another, or ends.
LEMMA ViewGoesOn ==
  ASSUME TypeInv, Leave \/ Start \/ Base \/ Join \/ Derive \/ Show
  PROVE  \/ micro' = Rest
         \/ \E t \in Tasks : t.job \in NoTokenJobs /\ (micro' = Now(t) \/ micro' = Later(t))
<1>1. CASE Leave
  BY <1>1, LeaveDoes
<1>2. CASE Start
  <2>1. /\ BaseOf(Task.view) \in Bases
        /\ micro' = Now(BaseOf(Task.view)) \/ micro' = Later(BaseOf(Task.view))
    BY <1>2, StartDoes
  <2> QED  BY <2>1 DEF Tasks, Bases, NoTokenJobs
<1>3. CASE Base
  <2>1. IncludeOf(Task) \in Joinings /\ micro' = Now(IncludeOf(Task))
    BY <1>3, BaseDoes
  <2> QED  BY <2>1 DEF Tasks, Joinings, NoTokenJobs
<1>4. CASE Join
  <2>1. /\ DeriveOf(Task) \in Joinings
        /\ micro' = Now(DeriveOf(Task)) \/ micro' = Later(DeriveOf(Task))
    BY <1>4, JoinDoes
  <2> QED  BY <2>1 DEF Tasks, Joinings, NoTokenJobs
<1>5. CASE Derive
  <2>1. ShowOf(Task) \in Shows /\ micro' = Later(ShowOf(Task))
    BY <1>5, DeriveDoes
  <2> QED  BY <2>1 DEF Tasks, Shows, NoTokenJobs
<1>6. CASE Show
  <2>1. Turn \in Tasks /\ Turn.job \in NoTokenJobs
    BY StartsAndTurns DEF Tasks, Turns
  <2> QED  BY <1>6, <2>1, ShowDoes
<1> QED  BY <1>1, <1>2, <1>3, <1>4, <1>5, <1>6

LEMMA EachRecompute ==
  ASSUME TypeInv, OneEach, Leave \/ Start \/ Base \/ Join \/ Derive \/ Show
  PROVE  OneEach'
<1>1. /\ micro \in Seq(Tasks) /\ micro # <<>> /\ Task.job \in NoTokenJobs
      /\ UNCHANGED <<channels, asks, batch, net>>
  BY DEF TypeInv, Leave, Start, Base, Join, Derive, Show, Runs, others, NoTokenJobs
<1>2. \/ micro' = Rest
      \/ \E t \in Tasks : t.job \in NoTokenJobs /\ (micro' = Now(t) \/ micro' = Later(t))
  BY ViewGoesOn
<1>3. ASSUME NEW C, NEW Q PROVE MicroSame(Tokens(C, Q))
  <2>1. Task \notin Tokens(C, Q)
    BY <1>1, NoTokens
  <2>2. CASE micro' = Rest
    BY <1>1, <2>1, <2>2, EndsSame
  <2>3. ASSUME NEW t \in Tasks, t.job \in NoTokenJobs, micro' = Now(t) \/ micro' = Later(t)
        PROVE  MicroSame(Tokens(C, Q))
    <3>1. t \notin Tokens(C, Q)
      BY <2>3, NoTokens
    <3> QED  BY <1>1, <2>1, <2>3, <3>1, TurnsSame
  <2> QED  BY <1>2, <2>2, <2>3
<1>4. SameForAll
  BY <1>1, <1>3, NetStays DEF SameForAll, BatchSame
<1> QED  BY <1>1, <1>4, EachSame

LEMMA EachInclude ==
  ASSUME TypeInv, OneEach, Include
  PROVE  OneEach'
<1>1. /\ Runs("include") /\ Len(Task.kids) < Len(Includes[Task.view])
  BY IncludeDoes
<1>2. PICK W : /\ Starting(W)
               /\ Queues(IF CanRead(NextPlan) THEN Later(NextTask) ELSE Now(NextTask),
                         waiting, Listeners(W))
  BY IncludeDoes
<1>3. net' = net /\ asks' = asks
  BY DEF Include
<1>4. NextTask \in Tasks /\ NextTask.job = "include" /\ micro # <<>> /\ micro \in Seq(Tasks)
  BY <1>1, NextTyped DEF TypeInv, Tasks
<1>5. ASSUME NEW C, NEW Q PROVE MicroSame(Tokens(C, Q))
  <2>1. Task \notin Tokens(C, Q) /\ NextTask \notin Tokens(C, Q)
    BY <1>1, <1>4, NoTokens DEF Runs, NoTokenJobs
  <2>2. \/ Queues(Now(NextTask), waiting, Listeners(W))
        \/ Queues(Later(NextTask), waiting, Listeners(W))
    BY <1>2
  <2> QED  BY <1>4, <2>1, <2>2, QueuesSame
<1> QED  BY <1>2, <1>3, <1>5, EachStarting

LEMMA EachHear ==
  ASSUME TypeInv, FeedTyped, OneEach, Hear
  PROVE  OneEach'
<1>1. events[Me] \in Seq(made)
  BY LiveAssumption DEF FeedTyped
<1>2. \E W : Starting(W) /\ Queues(<<>>, waiting, Listeners(W))
  BY <1>1, HearDoes
<1>3. PICK W : Starting(W) /\ Queues(<<>>, waiting, Listeners(W))
  BY <1>2
<1>4. micro = <<>> /\ net' = net /\ asks' = asks
  BY DEF Hear, Quiet
<1>5. PICK ss \in Seq(Starts) : micro' = <<>> \o ss
  BY <1>3 DEF Queues
<1>6. ASSUME NEW C, NEW Q PROVE MicroSame(Tokens(C, Q))
  <2>1. ss \in Seq(Tasks) /\ None(ss, Tokens(C, Q)) /\ micro' = ss
    BY <1>5, StartsAreNone
  <2> QED  BY <1>4, <2>1, EmptyHas, NotBoth DEF MicroSame
<1> QED  BY <1>3, <1>4, <1>6, EachStarting

LEMMA EachAnswer ==
  ASSUME TypeInv, OneEach, Answer
  PROVE  OneEach'
<1>1. /\ micro \in Seq(Tasks) /\ micro # <<>> /\ Task \in Incoming /\ EndOf(Task) \in Endings
      /\ UNCHANGED <<channels, asks, batch, net>>
  BY AnswerDoes DEF Runs, TypeInv
<1>2. PICK woken : \/ Queues(Later(EndOf(Task)), waiting, woken)
                   \/ Queues(Now(EndOf(Task)), waiting, woken)
  BY AnswerDoes
<1>3. EndOf(Task) \in Tasks /\ Task \in Tasks
  BY <1>1 DEF Tasks
<1>4. EndOf(Task).job = "ended" /\ Task.job = "answer" /\ EndOf(Task).call = Task.call
  BY <1>1, EndTyped DEF Incoming
<1>5. \A C, Q : EndOf(Task) \in Tokens(C, Q) <=> Task \in Tokens(C, Q)
  BY <1>3, <1>4 DEF Tokens
<1>6. \A C, Q : MicroSame(Tokens(C, Q))
  BY <1>1, <1>2, <1>3, <1>5, QueuesSame
<1>7. SameForAll
  BY <1>1, <1>6, NetStays DEF SameForAll, BatchSame
<1> QED  BY <1>1, <1>7, EachSame

\* A token among the microtasks is the one there is.
LEMMA TokenHere ==
  ASSUME NEW C, NEW T, micro \in Seq(Tasks), micro # <<>>, Task \in T
  PROVE  /\ ~Nothing(C, T)
         /\ Single(C, T) => None(batch, C) /\ NetNone(C) /\ One(micro, T)
<1>1. ~None(micro, T)
  BY HeadHas DEF Task
<1> QED  BY <1>1 DEF Nothing, Single

LEMMA EachEndRefresh ==
  ASSUME TypeInv, OneEach, EndRefresh
  PROVE  OneEach'
<1>1. /\ micro \in Seq(Tasks) /\ micro # <<>> /\ Task.job = "ended"
      /\ Task.call.by \in {"channel", Gone}
      /\ Task \in Tasks /\ Task.call.plan \in Plans /\ Task.answer \in Replies
      /\ UNCHANGED <<asks, batch, net>>
  BY EndRefreshDoes, HeadIs DEF Runs, TypeInv
<1>2. PICK woken : Queues(Rest, waiting, woken)
  BY EndRefreshDoes
<1>3. PICK ss \in Seq(Starts) : micro' = Rest \o ss
  BY <1>2 DEF Queues
<1>4. \A C : BatchSame(C) /\ NetSame(C)
  BY <1>1, NetStays DEF BatchSame
<1>5. ASSUME NEW q \in Queries
      PROVE  IF asks'[q].stage \in Underway THEN Single(QueryCalls(q), QueryTasks(q))'
             ELSE Nothing(QueryCalls(q), QueryTasks(q))'
  <2>1. "channel" # q /\ Gone # q
    BY LiveAssumption DEF Gone
  <2>2. Task \notin QueryTasks(q)
    BY <1>1, <2>1, Owners
  <2>3. MicroSame(QueryTasks(q))
    BY <1>1, <1>3, <2>2, GoneSame DEF QueryTasks
  <2>4. Kept(QueryCalls(q), QueryTasks(q))
    BY <1>4, <2>3, SameKept
  <2> QED  BY <1>1, <2>4 DEF OneEach, Kept
<1>6. ASSUME NEW p \in Plans
      PROVE  IF channels'[p].refreshing THEN Single(ChannelCalls(p), ChannelTasks(p))'
             ELSE Nothing(ChannelCalls(p), ChannelTasks(p))'
  <2>1. CASE Alive(Task) /\ p = Task.call.plan
    <3>1. Task.call = Call("channel", p)
      BY <1>1, <2>1, Owners DEF Calls, Call, Alive
    <3>2. Task \in ChannelTasks(p)
      BY <1>1, <3>1, Owners
    <3>3. /\ None(batch, ChannelCalls(p)) /\ NetNone(ChannelCalls(p)) /\ One(micro, ChannelTasks(p))
      BY <1>1, <3>2, TokenHere DEF OneEach
    <3>4. None(micro', ChannelTasks(p))
      BY <1>1, <1>3, <3>2, <3>3, GoneSame DEF ChannelTasks
    <3>5. Nothing(ChannelCalls(p), ChannelTasks(p))'
      BY <1>4, <3>3, <3>4 DEF Nothing, BatchSame, NetSame
    <3>6. ~channels'[p].refreshing
      <4>1. channels[p] \in WideChannel /\ channels \in [Plans -> WideChannel]
        BY StoreIsWide DEF IsWide, Store
      <4>2. channels'[p] = Refreshed(channels[p], Task.answer)
        BY <2>1, <4>1, EndRefreshDoes
      <4> QED  BY <1>1, <4>1, <4>2, RefreshedTyped
    <3> QED  BY <3>5, <3>6
  <2>2. CASE ~(Alive(Task) /\ p = Task.call.plan)
    <3>1. Task.call # Call("channel", p)
      BY <2>2 DEF Call, Alive
    <3>2. Task \notin ChannelTasks(p)
      BY <1>1, <3>1, Owners
    <3>3. MicroSame(ChannelTasks(p))
      BY <1>1, <1>3, <3>2, GoneSame DEF ChannelTasks
    <3>4. Kept(ChannelCalls(p), ChannelTasks(p))
      BY <1>4, <3>3, SameKept
    <3>5. channels'[p] = channels[p]
      BY <1>1, <2>2, EndRefreshDoes
    <3> QED  BY <3>4, <3>5 DEF OneEach, Kept
  <2> QED  BY <2>1, <2>2
<1> QED  BY <1>5, <1>6 DEF OneEach

\* A query's own task, and none of another.
Owns(t, q) ==
  \/ t.job \in {"answer", "ended"} /\ t.call.by = q
  \/ t.job \in {"looked", "fallback", "relate"} /\ t.query = q

LEMMA OwnsIs ==
  ASSUME NEW t \in Tasks, NEW q \in Queries, Owns(t, q)
  PROVE  /\ t \in QueryTasks(q) /\ \A r : r # q => t \notin QueryTasks(r)
         /\ \A p : t \notin ChannelTasks(p)
<1>1. CASE t.job \in {"answer", "ended"}
  <2>1. t.call.by = q
    BY <1>1 DEF Owns
  <2>2. \A p : t.call # Call("channel", p)
    BY <2>1, CallsDiffer
  <2> QED  BY <1>1, <2>1, <2>2, Owners
<1>2. CASE t.job \in {"looked", "fallback", "relate"}
  <2>1. t.query = q
    BY <1>2 DEF Owns
  <2> QED  BY <1>2, <2>1, Owners
<1> QED  BY <1>1, <1>2 DEF Owns

LEMMA AppendSame ==
  ASSUME batch \in Seq(Calls), NEW call \in Calls, batch' = Append(batch, call), NEW C
  PROVE  /\ call \notin C => BatchSame(C)
         /\ call \in C /\ None(batch, C) => One(batch', C)
<1> DEFINE one == <<call>>
<1>1. one \in Seq(Calls) /\ batch' = batch \o one
  OBVIOUS
<1>2. (None(one, C) <=> call \notin C) /\ (One(one, C) <=> call \in C)
  BY UnitHas
<1> HIDE DEF one
<1>3. /\ None(batch \o one, C) <=> None(batch, C) /\ None(one, C)
      /\ One(batch \o one, C) <=> \/ One(batch, C) /\ None(one, C)
                                  \/ None(batch, C) /\ One(one, C)
  BY <1>1, CatHas
<1> QED  BY <1>1, <1>2, <1>3, NotBoth DEF BatchSame

\* A query goes on: with another task, at its end, or to the source.
GoesOn(q) ==
  \E t \in Tasks : /\ Owns(t, q) /\ (micro' = Now(t) \/ micro' = Later(t))
                   /\ batch' = batch /\ asks'[q].stage \in Underway
Ends(q) == micro' = Rest /\ batch' = batch /\ asks'[q].stage \notin Underway
AsksSource(q) ==
  \E p \in Plans : /\ micro' = Rest /\ batch' = Append(batch, Call(q, p))
                   /\ asks'[q].stage \in Underway

LEMMA QueryMoves ==
  ASSUME TypeInv, OneEach, NEW q \in Queries, micro # <<>>, Owns(Task, q),
         channels' = channels, net' = net, \A r \in Queries \ {q} : asks'[r] = asks[r],
         GoesOn(q) \/ Ends(q) \/ AsksSource(q)
  PROVE  OneEach'
<1>1. micro \in Seq(Tasks) /\ Task \in Tasks /\ batch \in Seq(Calls)
  BY HeadIs DEF TypeInv, NetTyped
<1>2. /\ Task \in QueryTasks(q) /\ \A r : r # q => Task \notin QueryTasks(r)
      /\ \A p : Task \notin ChannelTasks(p)
  BY <1>1, OwnsIs
<1>3. \A C : NetSame(C)
  BY NetStays
<1>4. /\ None(batch, QueryCalls(q)) /\ NetNone(QueryCalls(q)) /\ One(micro, QueryTasks(q))
      /\ asks[q].stage \in Underway
  BY <1>1, <1>2, TokenHere DEF OneEach
<1>5. \A p : BatchSame(ChannelCalls(p)) /\ MicroSame(ChannelTasks(p))
  <2> TAKE p
  <2>1. CASE GoesOn(q)
    <3>1. PICK t \in Tasks : Owns(t, q) /\ (micro' = Now(t) \/ micro' = Later(t)) /\ batch' = batch
      BY <2>1 DEF GoesOn
    <3>2. t \notin ChannelTasks(p)
      BY <3>1, OwnsIs
    <3> QED  BY <1>1, <1>2, <3>1, <3>2, TurnsSame DEF BatchSame, ChannelTasks
  <2>2. CASE Ends(q)
    BY <1>1, <1>2, <2>2, EndsSame DEF Ends, BatchSame, ChannelTasks
  <2>3. CASE AsksSource(q)
    <3>1. PICK r \in Plans : micro' = Rest /\ batch' = Append(batch, Call(q, r))
      BY <2>3 DEF AsksSource
    <3>2. Call(q, r) \in Calls /\ Call(q, r) \notin ChannelCalls(p)
      BY CallsDiffer DEF Calls, Call, ChannelCalls
    <3> QED  BY <1>1, <1>2, <3>1, <3>2, AppendSame, EndsSame DEF ChannelTasks
  <2> QED  BY <2>1, <2>2, <2>3
<1>6. ASSUME NEW r \in Queries, r # q PROVE BatchSame(QueryCalls(r)) /\ MicroSame(QueryTasks(r))
  <2>1. CASE GoesOn(q)
    <3>1. PICK t \in Tasks : Owns(t, q) /\ (micro' = Now(t) \/ micro' = Later(t)) /\ batch' = batch
      BY <2>1 DEF GoesOn
    <3>2. t \notin QueryTasks(r)
      BY <1>6, <3>1, OwnsIs
    <3> QED  BY <1>1, <1>2, <1>6, <3>1, <3>2, TurnsSame DEF BatchSame, QueryTasks
  <2>2. CASE Ends(q)
    BY <1>1, <1>2, <1>6, <2>2, EndsSame DEF Ends, BatchSame, QueryTasks
  <2>3. CASE AsksSource(q)
    <3>1. PICK p \in Plans : micro' = Rest /\ batch' = Append(batch, Call(q, p))
      BY <2>3 DEF AsksSource
    <3>2. Call(q, p) \in Calls /\ Call(q, p) \notin QueryCalls(r)
      BY <1>6, CallsDiffer DEF Calls, Call, QueryCalls
    <3> QED  BY <1>1, <1>2, <1>6, <3>1, <3>2, AppendSame, EndsSame DEF QueryTasks
  <2> QED  BY <2>1, <2>2, <2>3
<1>7. ASSUME NEW p \in Plans
      PROVE  IF channels'[p].refreshing THEN Single(ChannelCalls(p), ChannelTasks(p))'
             ELSE Nothing(ChannelCalls(p), ChannelTasks(p))'
  <2>1. Kept(ChannelCalls(p), ChannelTasks(p))
    BY <1>3, <1>5, SameKept
  <2> QED  BY <2>1 DEF OneEach, Kept
<1>8. ASSUME NEW r \in Queries
      PROVE  IF asks'[r].stage \in Underway THEN Single(QueryCalls(r), QueryTasks(r))'
             ELSE Nothing(QueryCalls(r), QueryTasks(r))'
  <2>1. CASE r # q
    <3>1. Kept(QueryCalls(r), QueryTasks(r))
      BY <1>3, <1>6, <2>1, SameKept
    <3> QED  BY <2>1, <3>1 DEF OneEach, Kept
  <2>2. CASE r = q /\ GoesOn(q)
    <3>1. PICK t \in Tasks :
            /\ Owns(t, q) /\ (micro' = Now(t) \/ micro' = Later(t)) /\ batch' = batch
                             /\ asks'[q].stage \in Underway
      BY <2>2 DEF GoesOn
    <3>2. t \in QueryTasks(q)
      BY <3>1, OwnsIs
    <3>3. MicroSame(QueryTasks(q)) /\ BatchSame(QueryCalls(q))
      BY <1>1, <1>2, <3>1, <3>2, TurnsSame DEF BatchSame, QueryTasks
    <3> QED  BY <1>3, <1>4, <2>2, <3>1, <3>3 DEF Single, MicroSame, BatchSame, NetSame
  <2>3. CASE r = q /\ Ends(q)
    <3>1. None(micro', QueryTasks(q))
      BY <1>1, <1>2, <1>4, <2>3, EndsSame DEF Ends, QueryTasks
    <3> QED  BY <1>3, <1>4, <2>3, <3>1 DEF Ends, Nothing, NetSame
  <2>4. CASE r = q /\ AsksSource(q)
    <3>1. PICK p \in Plans : /\ micro' = Rest /\ batch' = Append(batch, Call(q, p))
                             /\ asks'[q].stage \in Underway
      BY <2>4 DEF AsksSource
    <3>2. Call(q, p) \in Calls /\ Call(q, p) \in QueryCalls(q)
      BY CallsDiffer DEF Calls, Call, QueryCalls
    <3>3. One(batch', QueryCalls(q))
      BY <1>1, <1>4, <3>1, <3>2, AppendSame
    <3>4. None(micro', QueryTasks(q))
      BY <1>1, <1>2, <1>4, <3>1, EndsSame DEF QueryTasks
    <3> QED  BY <1>3, <1>4, <2>4, <3>1, <3>3, <3>4 DEF Single, NetSame
  <2> QED  BY <2>1, <2>2, <2>3, <2>4
<1> QED  BY <1>7, <1>8 DEF OneEach

LEMMA RelatingOwned ==
  ASSUME NEW q \in Queries
  PROVE  Relating(q) \in Tasks /\ Owns(Relating(q), q)
<1>1. Relating(q) \in Tasks
  BY RelatingTyped DEF Tasks
<1> QED  BY <1>1 DEF Owns, Relating

LEMMA JoiningUnderway ==
  ASSUME CacheTyped, NEW q \in Queries, NEW first \in BOOLEAN, NEW rows \in Results,
         asks' = Answered(q, first, rows)
  PROVE  asks'[q].stage \in Underway /\ \A r \in Queries \ {q} : asks'[r] = asks[r]
  BY AnsweredTyped DEF Underway

LEMMA StageIs ==
  ASSUME CacheTyped, NEW q \in Queries, NEW stage, asks' = [asks EXCEPT ![q].stage = stage]
  PROVE  asks'[q].stage = stage /\ \A r \in Queries \ {q} : asks'[r] = asks[r]
  BY DEF CacheTyped, Asks

LEMMA EachOneShot ==
  ASSUME TypeInv, OneEach, Looked \/ FallBack \/ Relate
  PROVE  OneEach'
<1> DEFINE q == Task.query
<1>1. /\ CacheTyped /\ q \in Queries /\ micro # <<>> /\ Owns(Task, q)
      /\ UNCHANGED <<channels, net>>
  BY LookedDoes, FallBackDoes, RelateDoes DEF TypeInv, Runs, Owns
<1>2. /\ Relating(q) \in Tasks /\ Owns(Relating(q), q)
  BY <1>1, RelatingOwned
<1>3. First(q) \in BOOLEAN
  BY DEF First
<1>4. CASE Looked
  <2>1. /\ Task.read.rows \in Results /\ Task.plan \in Plans
        /\ IF Task.read.coverage = "complete"
           THEN /\ asks' = Answered(q, First(q), Task.read.rows)
                /\ micro' = Now(Relating(q)) /\ batch' = batch
           ELSE /\ batch' = Append(batch, Call(q, Task.plan)) /\ asks' = asks
                /\ micro' = Rest
    BY <1>4, LookedDoes DEF Looks, Readings
  <2>2. CASE Task.read.coverage = "complete"
    <3>1. asks'[q].stage \in Underway /\ \A r \in Queries \ {q} : asks'[r] = asks[r]
      BY <1>1, <1>3, <2>1, <2>2, JoiningUnderway
    <3>2. GoesOn(q)
      BY <1>2, <2>1, <2>2, <3>1 DEF GoesOn
    <3> QED  BY <1>1, <3>1, <3>2, QueryMoves
  <2>3. CASE Task.read.coverage # "complete"
    <3>1. asks[q].stage \in Underway
      BY <1>1, OwnsIs, HeadIs, TokenHere DEF OneEach, TypeInv
    <3>2. AsksSource(q)
      BY <2>1, <2>3, <3>1 DEF AsksSource
    <3> QED  BY <1>1, <2>1, <2>3, <3>2, QueryMoves
  <2> QED  BY <2>2, <2>3
<1>5. CASE FallBack
  <2>1. /\ Task.read.rows \in Results /\ batch' = batch
        /\ IF Task.read.coverage # "unknown"
           THEN /\ asks' = Answered(q, First(q), Task.read.rows)
                /\ micro' = Now(Relating(q))
           ELSE asks' = Failed(q) /\ micro' = Rest
    BY <1>5, FallBackDoes DEF Falls, Readings
  <2>2. CASE Task.read.coverage # "unknown"
    <3>1. asks'[q].stage \in Underway /\ \A r \in Queries \ {q} : asks'[r] = asks[r]
      BY <1>1, <1>3, <2>1, <2>2, JoiningUnderway
    <3>2. GoesOn(q)
      BY <1>2, <2>1, <2>2, <3>1 DEF GoesOn
    <3> QED  BY <1>1, <3>1, <3>2, QueryMoves
  <2>3. CASE Task.read.coverage = "unknown"
    <3>1. asks'[q].stage = "failed" /\ \A r \in Queries \ {q} : asks'[r] = asks[r]
      BY <1>1, <2>1, <2>3, StageIs DEF Failed
    <3>2. Ends(q)
      BY <2>1, <2>3, <3>1 DEF Ends, Underway
    <3> QED  BY <1>1, <3>1, <3>2, QueryMoves
  <2> QED  BY <2>2, <2>3
<1>6. CASE Relate
  <2> DEFINE plan == NextWanted(q)
  <2>0. Task \in Tasks /\ ~AllJoined(q) => plan \in Plans \cup {NoPlan}
    BY <1>6, RelateDoes
  <2>1. CASE asks' = [asks EXCEPT ![q].stage = "done"] /\ micro' = Rest /\ batch' = batch
    <3>1. asks'[q].stage = "done" /\ \A r \in Queries \ {q} : asks'[r] = asks[r]
      BY <1>1, <2>1, StageIs
    <3>2. Ends(q)
      BY <2>1, <3>1 DEF Ends, Underway
    <3> QED  BY <1>1, <3>1, <3>2, QueryMoves
  <2>2. CASE asks' = Answered(q, FALSE, Unknown) /\ micro' = Now(Task) /\ batch' = batch
    <3>1. asks'[q].stage \in Underway /\ \A r \in Queries \ {q} : asks'[r] = asks[r]
      BY <1>1, <2>2, JoiningUnderway, ResultsAre
    <3>2. Task \in Tasks
      BY <1>1, HeadIs DEF TypeInv
    <3>3. GoesOn(q)
      BY <1>1, <2>2, <3>1, <3>2 DEF GoesOn
    <3> QED  BY <1>1, <3>1, <3>3, QueryMoves
  <2>3. CASE /\ plan \in Plans /\ asks' = [asks EXCEPT ![q].stage = "relating"]
             /\ micro' = Rest /\ batch' = Append(batch, Call(q, plan))
    <3>1. asks'[q].stage = "relating" /\ \A r \in Queries \ {q} : asks'[r] = asks[r]
      BY <1>1, <2>3, StageIs
    <3>2. AsksSource(q)
      BY <2>3, <3>1 DEF AsksSource, Underway
    <3> QED  BY <1>1, <3>1, <3>2, QueryMoves
  <2>4. CASE /\ plan \in Plans /\ asks' = [asks EXCEPT ![q].stage = "relating"]
             /\ micro' = Later(Looking(q, plan)) /\ batch' = batch
    <3>1. asks'[q].stage = "relating" /\ \A r \in Queries \ {q} : asks'[r] = asks[r]
      BY <1>1, <2>4, StageIs
    <3>2. Looking(q, plan) \in Tasks /\ Owns(Looking(q, plan), q)
      BY <1>1, <2>4, LookingTyped DEF Tasks, Owns, Looking
    <3>3. GoesOn(q)
      BY <2>4, <3>1, <3>2 DEF GoesOn, Underway
    <3> QED  BY <1>1, <3>1, <3>3, QueryMoves
  <2> HIDE DEF plan
  <2>5. \/ asks' = [asks EXCEPT ![q].stage = "done"] /\ micro' = Rest /\ batch' = batch
        \/ asks' = Answered(q, FALSE, Unknown) /\ micro' = Now(Task) /\ batch' = batch
        \/ /\ plan \in Plans /\ asks' = [asks EXCEPT ![q].stage = "relating"]
           /\ micro' = Rest /\ batch' = Append(batch, Call(q, plan))
        \/ /\ plan \in Plans /\ asks' = [asks EXCEPT ![q].stage = "relating"]
           /\ micro' = Later(Looking(q, plan)) /\ batch' = batch
    BY <1>6, RelateDoes DEF plan
  <2> QED  BY <2>1, <2>2, <2>3, <2>4, <2>5
<1> QED  BY <1>4, <1>5, <1>6

LEMMA EachEndQuery ==
  ASSUME TypeInv, OneEach, EndQuery
  PROVE  OneEach'
<1> DEFINE q == Task.call.by
<1>1. /\ CacheTyped /\ q \in Queries /\ micro # <<>> /\ Owns(Task, q) /\ First(q) \in BOOLEAN
      /\ UNCHANGED <<channels, net>> /\ batch' = batch /\ Task.answer.rows \in Results
  BY EndQueryDoes DEF TypeInv, Runs, Owns, Replies, Answers, First
<1>2. CASE asks' = Answered(q, First(q), Task.answer.rows) /\ micro' = Now(Relating(q))
  <2>1. asks'[q].stage \in Underway /\ \A r \in Queries \ {q} : asks'[r] = asks[r]
    BY <1>1, <1>2, JoiningUnderway
  <2>2. GoesOn(q)
    BY <1>1, <1>2, <2>1, RelatingOwned DEF GoesOn
  <2> QED  BY <1>1, <2>1, <2>2, QueryMoves
<1>3. CASE asks' = asks /\ micro' = Later(FallOf(Task)) /\ FallOf(Task) \in Falls
  <2>1. asks[q].stage \in Underway
    BY <1>1, OwnsIs, HeadIs, TokenHere DEF OneEach, TypeInv
  <2>2. FallOf(Task) \in Tasks /\ Owns(FallOf(Task), q)
    BY <1>3 DEF Tasks, Owns, FallOf
  <2>3. GoesOn(q)
    BY <1>1, <1>3, <2>1, <2>2 DEF GoesOn
  <2> QED  BY <1>1, <1>3, <2>3, QueryMoves
<1>4. CASE asks' = Failed(q) /\ micro' = Rest
  <2>1. asks'[q].stage = "failed" /\ \A r \in Queries \ {q} : asks'[r] = asks[r]
    BY <1>1, <1>4, StageIs DEF Failed
  <2>2. Ends(q)
    BY <1>1, <1>4, <2>1 DEF Ends, Underway
  <2> QED  BY <1>1, <2>1, <2>2, QueryMoves
<1> QED  BY <1>2, <1>3, <1>4, EndQueryDoes

LEMMA EachAsk ==
  ASSUME TypeInv, OneEach, NEW Q \in Bundles, Ask(Q)
  PROVE  OneEach'
<1> DEFINE sent == Sent(Q)
           read == Read(Q)
<1>1. /\ Q \subseteq Queries /\ \A q \in Q : asks[q].stage = "idle"
      /\ asks' = [q \in Queries |-> IF q \in Q THEN [asks[q] EXCEPT !.stage = "asking"]
                                    ELSE asks[q]]
      /\ batch' = batch \o SetToSeq(sent) /\ micro' = Open \o SetToSeq(read)
      /\ channels' = channels /\ net' = net
  BY AskDoes
<1>2. /\ IsFiniteSet(sent) /\ IsFiniteSet(read) /\ sent \subseteq Calls /\ read \subseteq Looks
      /\ SetToSeq(sent) \in Seq(Calls) /\ SetToSeq(read) \in Seq(Tasks)
  BY AskTyped DEF TypeInv
<1>3. \A C : NetSame(C)
  BY <1>1, NetStays
<1>4. ASSUME NEW C, NEW T
      PROVE  /\ None(SetToSeq(sent), C) <=> sent \cap C = {}
             /\ \A x : sent \cap C = {x} => One(SetToSeq(sent), C)
             /\ None(SetToSeq(read), T) <=> read \cap T = {}
             /\ \A x : read \cap T = {x} => One(SetToSeq(read), T)
  BY <1>2, SetHas
<1>5. ASSUME NEW C
      PROVE  /\ sent \cap C = {} => BatchSame(C)
             /\ \A x : sent \cap C = {x} /\ None(batch, C) => One(batch', C)
  <2>1. batch \in Seq(Calls)
    BY DEF TypeInv, NetTyped
  <2> DEFINE new == SetToSeq(sent)
  <2>2. /\ None(new, C) <=> sent \cap C = {}
        /\ \A x : sent \cap C = {x} => One(new, C)
    BY <1>4
  <2>3. batch' = batch \o new /\ new \in Seq(Calls)
    BY <1>1, <1>2
  <2> HIDE DEF new, sent
  <2>4. /\ None(batch \o new, C) <=> None(batch, C) /\ None(new, C)
        /\ One(batch \o new, C) <=> \/ One(batch, C) /\ None(new, C)
                                    \/ None(batch, C) /\ One(new, C)
    BY <2>1, <2>3, CatHas
  <2> QED  BY <2>2, <2>3, <2>4, NotBoth DEF BatchSame
<1>6. ASSUME NEW C, NEW P
      PROVE  /\ read \cap Tokens(C, P) = {} => MicroSame(Tokens(C, P))
             /\ \A x : read \cap Tokens(C, P) = {x} /\ None(micro, Tokens(C, P))
                         => One(micro', Tokens(C, P))
  <2> DEFINE new == SetToSeq(read)
             T == Tokens(C, P)
  <2>1. /\ None(new, T) <=> read \cap T = {}
        /\ \A x : read \cap T = {x} => One(new, T)
    BY <1>4
  <2>2. micro' = Open \o new /\ new \in Seq(Tasks)
    BY <1>1, <1>2
  <2> HIDE DEF new, read
  <2>3. read \cap T = {} => MicroSame(T)
    BY <2>1, <2>2, OpenSame
  <2>4. Turn \notin T
    BY NotTokens DEF Turn
  <2> HIDE DEF T
  <2>5. None(micro, T) => None(Open, T)
    BY <2>4, UnitHas DEF Open
  <2>6. /\ None(Open \o new, T) <=> None(Open, T) /\ None(new, T)
        /\ One(Open \o new, T) <=> \/ One(Open, T) /\ None(new, T)
                                   \/ None(Open, T) /\ One(new, T)
    BY <2>2, OpenTyped, CatHas
  <2>7. \A x : read \cap T = {x} /\ None(micro, T) => One(micro', T)
    BY <2>1, <2>2, <2>5, <2>6
  <2> QED  BY <2>3, <2>7 DEF T
<1>7. ASSUME NEW r \in Queries, r \notin Q
      PROVE  sent \cap QueryCalls(r) = {} /\ read \cap QueryTasks(r) = {}
  <2>1. \A q \in Q : Call(q, PlanOf[q]) \notin QueryCalls(r)
    <3>1. \A q \in Q : Call(q, PlanOf[q]).by = q
      BY DEF Call
    <3> QED  BY <1>7, <3>1 DEF QueryCalls
  <2>2. \A q \in Q : LookOf(q) \notin QueryTasks(r)
    BY <1>7 DEF QueryTasks, Tokens, LookOf, Looking
  <2> QED  BY <2>1, <2>2 DEF Sent, Read
<1>8. ASSUME NEW p PROVE sent \cap ChannelCalls(p) = {} /\ read \cap ChannelTasks(p) = {}
  <2>1. \A q \in Q : Call(q, PlanOf[q]) \notin ChannelCalls(p)
    BY <1>1, CallsDiffer DEF ChannelCalls
  <2>2. \A q \in Q : LookOf(q) \notin ChannelTasks(p)
    BY DEF ChannelTasks, Tokens, LookOf, Looking
  <2> QED  BY <2>1, <2>2 DEF Sent, Read
<1>9. ASSUME NEW q \in Q
      PROVE  IF PlanOf[q] \in Declined
             THEN sent \cap QueryCalls(q) = {Call(q, PlanOf[q])} /\ read \cap QueryTasks(q) = {}
             ELSE sent \cap QueryCalls(q) = {} /\ read \cap QueryTasks(q) = {LookOf(q)}
  <2>1. \A r \in Q : Call(r, PlanOf[r]) \in QueryCalls(q) <=> r = q
    <3>1. \A r \in Q : Call(r, PlanOf[r]) \in Calls
      BY <1>1, IncludesTyped DEF Call, Calls
    <3> QED  BY <3>1 DEF QueryCalls, Call
  <2>2. \A r \in Q : PlanOf[r] \notin Declined => (LookOf(r) \in QueryTasks(q) <=> r = q)
    <3>1. \A r \in Q : PlanOf[r] \notin Declined => LookOf(r) \in Tasks
      BY <1>2 DEF Read, Tasks
    <3> QED  BY <3>1 DEF QueryTasks, Tokens, LookOf, Looking
  <2> QED  BY <2>1, <2>2 DEF Sent, Read
<1> HIDE DEF sent, read
<1>10. ASSUME NEW p \in Plans
       PROVE  IF channels'[p].refreshing THEN Single(ChannelCalls(p), ChannelTasks(p))'
              ELSE Nothing(ChannelCalls(p), ChannelTasks(p))'
  <2>1. BatchSame(ChannelCalls(p)) /\ MicroSame(ChannelTasks(p))
    BY <1>5, <1>6, <1>8 DEF ChannelTasks
  <2>2. Kept(ChannelCalls(p), ChannelTasks(p))
    BY <1>3, <2>1, SameKept
  <2> QED  BY <1>1, <2>2 DEF OneEach, Kept
<1>11. ASSUME NEW q \in Queries
       PROVE  IF asks'[q].stage \in Underway THEN Single(QueryCalls(q), QueryTasks(q))'
              ELSE Nothing(QueryCalls(q), QueryTasks(q))'
  <2>1. CASE q \notin Q
    <3>1. BatchSame(QueryCalls(q)) /\ MicroSame(QueryTasks(q))
      BY <1>5, <1>6, <1>7, <2>1 DEF QueryTasks
    <3>2. Kept(QueryCalls(q), QueryTasks(q))
      BY <1>3, <3>1, SameKept
    <3>3. asks'[q] = asks[q]
      BY <1>1, <2>1
    <3> QED  BY <3>2, <3>3 DEF OneEach, Kept
  <2>2. CASE q \in Q
    <3>1. Nothing(QueryCalls(q), QueryTasks(q))
      BY <1>1, <2>2 DEF OneEach, Underway
    <3>2. asks'[q].stage \in Underway
      <4>1. asks[q] \in Asks
        BY DEF TypeInv, CacheTyped
      <4> QED  BY <1>1, <2>2, <4>1 DEF Underway, Asks
    <3>3. CASE PlanOf[q] \in Declined
      <4>1. One(batch', QueryCalls(q)) /\ MicroSame(QueryTasks(q))
        BY <1>5, <1>6, <1>9, <2>2, <3>1, <3>3 DEF QueryTasks, Nothing
      <4> QED  BY <1>3, <3>1, <3>2, <4>1 DEF Nothing, Single, MicroSame, NetSame
    <3>4. CASE PlanOf[q] \notin Declined
      <4>1. BatchSame(QueryCalls(q)) /\ One(micro', QueryTasks(q))
        BY <1>5, <1>6, <1>9, <2>2, <3>1, <3>4 DEF QueryTasks, Nothing
      <4> QED  BY <1>3, <3>1, <3>2, <4>1 DEF Nothing, Single, BatchSame, NetSame
    <3> QED  BY <3>3, <3>4
  <2> QED  BY <2>1, <2>2
<1> QED  BY <1>10, <1>11 DEF OneEach

LEMMA EachFlush ==
  ASSUME TypeInv, OneEach, Flush
  PROVE  OneEach'
<1> DEFINE m == Message(batch)
<1>1. /\ net' = Append(net, m) /\ batch' = <<>> /\ m \in Messages /\ m.calls = batch
      /\ UNCHANGED <<channels, asks, micro>> /\ net \in Seq(Messages)
  BY FlushDoes DEF Message, TypeInv, NetTyped
<1> HIDE DEF m
<1> DEFINE k == Len(net) + 1
<1>2. /\ DOMAIN net' = DOMAIN net \cup {k} /\ k \notin DOMAIN net /\ net'[k] = m
      /\ \A i \in DOMAIN net : net'[i] = net[i]
  BY <1>1
<1> HIDE DEF k
<1>3. ASSUME NEW C, NEW T PROVE micro' = micro => Kept(C, T)
  <2>1. None(batch', C)
    BY <1>1, EmptyHas
  <2>2. NetNone(C)' <=> NetNone(C) /\ None(batch, C)
    BY <1>1, <1>2 DEF NetNone
  <2>3. NetNone(C) /\ One(batch, C) => NetOne(C)'
    <3> SUFFICES ASSUME NetNone(C), One(batch, C) PROVE NetOne(C)'
      OBVIOUS
    <3>1. One(net'[k].calls, C) /\ \A i \in DOMAIN net' \ {k} : None(net'[i].calls, C)
      BY <1>1, <1>2 DEF NetNone
    <3> QED  BY <1>2, <3>1 DEF NetOne
  <2>4. NetOne(C) /\ None(batch, C) => NetOne(C)'
    <3> SUFFICES ASSUME NetOne(C), None(batch, C) PROVE NetOne(C)'
      OBVIOUS
    <3>1. PICK i \in DOMAIN net : One(net[i].calls, C) /\ \A j \in DOMAIN net \ {i} :
            None(net[j].calls, C)
      BY DEF NetOne
    <3>2. One(net'[i].calls, C) /\ \A j \in DOMAIN net' \ {i} : None(net'[j].calls, C)
      BY <1>1, <1>2, <3>1
    <3> QED  BY <1>2, <3>1, <3>2 DEF NetOne
  <2> QED  BY <2>1, <2>2, <2>3, <2>4 DEF Kept, Nothing, Single
<1> QED  BY <1>1, <1>3, EachKept

\* Messages change, and what they carry of C does not.
LEMMA NetRelabelled ==
  ASSUME NEW C, DOMAIN net' = DOMAIN net,
         \A i \in DOMAIN net : /\ None(net'[i].calls, C) <=> None(net[i].calls, C)
                               /\ One(net'[i].calls, C) <=> One(net[i].calls, C)
  PROVE  NetSame(C)
<1>1. NetNone(C)' <=> NetNone(C)
  BY DEF NetNone
<1>2. NetOne(C)' <=> NetOne(C)
  BY DEF NetOne
<1> QED  BY <1>1, <1>2 DEF NetSame

LEMMA EachServe ==
  ASSUME TypeInv, OneEach, NEW i \in DOMAIN net, NEW refused, Serve(i, refused)
  PROVE  OneEach'
<1>1. /\ DOMAIN net' = DOMAIN net /\ \A k \in DOMAIN net : net'[k].calls = net[k].calls
      /\ UNCHANGED <<channels, asks, micro, batch>>
  BY ServeDoes
<1>2. \A C : NetSame(C)
  BY <1>1, NetRelabelled
<1>3. SameForAll
  BY <1>1, <1>2 DEF SameForAll, MicroSame, BatchSame
<1> QED  BY <1>1, <1>3, EachSame

LEMMA OrphansSame ==
  ASSUME NEW calls, NEW p, NEW C, Call("channel", p) \notin C, Call(Gone, p) \notin C
  PROVE  /\ None(Orphans(calls, p), C) <=> None(calls, C)
         /\ One(Orphans(calls, p), C) <=> One(calls, C)
<1>1. /\ DOMAIN Orphans(calls, p) = DOMAIN calls
      /\ \A j \in DOMAIN calls : Orphans(calls, p)[j] = Orphan(calls[j], p)
  BY DEF Orphans
<1>2. \A j \in DOMAIN calls : Orphan(calls[j], p) \in C <=> calls[j] \in C
  BY DEF Orphan
<1> QED  BY <1>1, <1>2 DEF None, One

LEMMA EachRetire ==
  ASSUME TypeInv, OneEach, NEW p \in Plans, Retire(p)
  PROVE  OneEach'
<1>1. /\ micro = <<>> /\ channels' = [channels EXCEPT ![p] = NoChannel]
      /\ batch' = Orphans(batch, p) /\ DOMAIN net' = DOMAIN net
      /\ \A i \in DOMAIN net : net'[i].calls = Orphans(net[i].calls, p)
      /\ UNCHANGED <<asks, micro>>
  BY RetireDoes DEF Quiet, views
<1>2. ASSUME NEW C, NEW T, Call("channel", p) \notin C, Call(Gone, p) \notin C PROVE Kept(C, T)
  <2>1. BatchSame(C) /\ NetSame(C) /\ MicroSame(T)
    BY <1>1, <1>2, OrphansSame, NetRelabelled DEF BatchSame, MicroSame
  <2> QED  BY <2>1, SameKept
<1>3. ASSUME NEW r \in Plans, r # p
      PROVE  IF channels'[r].refreshing THEN Single(ChannelCalls(r), ChannelTasks(r))'
             ELSE Nothing(ChannelCalls(r), ChannelTasks(r))'
  <2>1. Kept(ChannelCalls(r), ChannelTasks(r))
    BY <1>2, <1>3, CallsDiffer DEF ChannelCalls
  <2>2. channels'[r] = channels[r]
    BY <1>1, <1>3 DEF TypeInv, ChannelsTyped
  <2> QED  BY <2>1, <2>2 DEF OneEach, Kept
<1>4. ~channels'[p].refreshing /\ Nothing(ChannelCalls(p), ChannelTasks(p))'
  <2>1. \A calls : None(Orphans(calls, p), ChannelCalls(p))
    BY CallsDiffer DEF None, Orphans, Orphan, ChannelCalls
  <2>2. None(batch', ChannelCalls(p)) /\ NetNone(ChannelCalls(p))'
    BY <1>1, <2>1 DEF NetNone
  <2>3. None(micro', ChannelTasks(p))
    BY <1>1, EmptyHas
  <2>4. ~channels'[p].refreshing
    BY <1>1 DEF NoChannel, TypeInv, ChannelsTyped
  <2> QED  BY <2>2, <2>3, <2>4 DEF Nothing
<1>5. ASSUME NEW q \in Queries
      PROVE  IF asks'[q].stage \in Underway THEN Single(QueryCalls(q), QueryTasks(q))'
             ELSE Nothing(QueryCalls(q), QueryTasks(q))'
  <2>1. Kept(QueryCalls(q), QueryTasks(q))
    BY <1>2, CallsDiffer DEF QueryCalls
  <2> QED  BY <1>1, <2>1 DEF OneEach, Kept
<1> QED  BY <1>3, <1>4, <1>5 DEF OneEach

LEMMA EachArrives ==
  ASSUME TypeInv, OneEach, NEW i \in DOMAIN net, Respond(i) \/ Drop(i)
  PROVE  OneEach'
<1>1. /\ micro = <<>> /\ net' = RemoveAt(net, i) /\ net \in Seq(Messages)
      /\ micro' \in Seq(Incoming) /\ DOMAIN micro' = DOMAIN net[i].calls
      /\ \A j \in DOMAIN micro' : micro'[j].call = net[i].calls[j]
      /\ UNCHANGED <<channels, asks, batch>>
  BY ArrivesDoes, MessageIs DEF Quiet
<1>2. /\ Len(net') = Len(net) - 1 /\ net' \in Seq(Messages)
      /\ \A k \in DOMAIN net' : net'[k] = net[IF k < i THEN k ELSE k + 1]
  BY <1>1, RemoveIs
<1>3. DOMAIN net' = 1..(Len(net) - 1) /\ DOMAIN net = 1..Len(net) /\ Len(net) \in Nat
  BY <1>1, <1>2
<1>4. ASSUME NEW k \in DOMAIN net'
      PROVE  \E j \in DOMAIN net \ {i} : net'[k] = net[j]
  <2>1. (IF k < i THEN k ELSE k + 1) \in DOMAIN net \ {i}
    BY <1>3
  <2> QED  BY <1>2, <2>1
<1>5. ASSUME NEW C, NEW T, None(micro, T),
             \A j \in DOMAIN micro' : micro'[j] \in T <=> net[i].calls[j] \in C
      PROVE  Kept(C, T)
  <2>1. /\ None(micro', T) <=> None(net[i].calls, C)
        /\ One(micro', T) <=> One(net[i].calls, C)
    BY <1>1, <1>5 DEF None, One
  <2>2. NetNone(C) => NetNone(C)' /\ None(micro', T)
    BY <1>4, <2>1 DEF NetNone
  <2>3. NetOne(C) => \/ NetNone(C)' /\ One(micro', T)
                     \/ NetOne(C)' /\ None(micro', T)
    <3> SUFFICES ASSUME NetOne(C) PROVE \/ NetNone(C)' /\ One(micro', T)
                                        \/ NetOne(C)' /\ None(micro', T)
      OBVIOUS
    <3>1. PICK k \in DOMAIN net : One(net[k].calls, C) /\ \A j \in DOMAIN net \ {k} :
            None(net[j].calls, C)
      BY DEF NetOne
    <3>2. CASE k = i
      <4>1. NetNone(C)'
        BY <1>4, <3>1, <3>2 DEF NetNone
      <4> QED  BY <2>1, <3>1, <3>2, <4>1
    <3>3. CASE k # i
      <4> DEFINE l == IF k < i THEN k ELSE k - 1
      <4>1. l \in DOMAIN net' /\ (IF l < i THEN l ELSE l + 1) = k
        BY <1>3, <3>3
      <4>2. \A j \in DOMAIN net' : j # l => (IF j < i THEN j ELSE j + 1) \in DOMAIN net \ {k}
        BY <1>3, <3>3
      <4> HIDE DEF l
      <4>3. net'[l] = net[k]
        BY <1>2, <4>1
      <4>4. \A j \in DOMAIN net' \ {l} : None(net'[j].calls, C)
        BY <1>2, <3>1, <4>2
      <4>5. NetOne(C)'
        BY <3>1, <4>1, <4>3, <4>4 DEF NetOne
      <4>6. None(micro', T)
        BY <2>1, <3>1, <3>3
      <4> QED  BY <4>5, <4>6
    <3> QED  BY <3>2, <3>3
  <2>4. None(batch', C) <=> None(batch, C)
    BY <1>1
  <2>5. One(batch', C) <=> One(batch, C)
    BY <1>1
  <2>6. ~One(micro, T)
    BY <1>5, NotBoth
  <2> QED  BY <2>2, <2>3, <2>4, <2>5, <2>6 DEF Kept, Nothing, Single
<1>6. ASSUME NEW j \in DOMAIN micro'
      PROVE  /\ \A p : micro'[j] \in ChannelTasks(p) <=> net[i].calls[j] \in ChannelCalls(p)
             /\ \A q : micro'[j] \in QueryTasks(q) <=> net[i].calls[j] \in QueryCalls(q)
  <2>1. micro'[j] \in Incoming
    BY <1>1
  <2>2. micro'[j] \in Tasks /\ micro'[j].job = "answer" /\ micro'[j].call = net[i].calls[j]
    BY <1>1, <2>1 DEF Tasks, Incoming
  <2> QED  BY <2>2, Owners, CallOwners
<1>7. \A T : None(micro, T)
  BY <1>1, EmptyHas
<1>8. /\ \A p : Kept(ChannelCalls(p), ChannelTasks(p))
      /\ \A q : Kept(QueryCalls(q), QueryTasks(q))
  BY <1>5, <1>6, <1>7
<1> QED  BY <1>1, <1>8, EachKept

\* Starts are queued behind all.
LEMMA MoreSame ==
  ASSUME TypeInv, NEW C, NEW Q, NEW ss \in Seq(Starts), micro' = micro \o ss
  PROVE  MicroSame(Tokens(C, Q))
<1> DEFINE T == Tokens(C, Q)
<1>1. ss \in Seq(Tasks) /\ None(ss, T) /\ micro \in Seq(Tasks)
  BY StartsAreNone DEF TypeInv
<1> HIDE DEF T
<1>2. /\ None(micro', T) <=> None(micro, T) /\ None(ss, T)
      /\ One(micro', T) <=> \/ One(micro, T) /\ None(ss, T)
                            \/ None(micro, T) /\ One(ss, T)
  BY <1>1, CatHas
<1> QED  BY <1>1, <1>2, NotBoth DEF MicroSame, T

LEMMA EachOwnWrite ==
  ASSUME TypeInv, OneEach, NEW r, NEW over \in [scene.written -> Layers], OwnWrite(r, over)
  PROVE  OneEach'
<1>1. Queues(micro, waiting, Subscribed(r)) /\ UNCHANGED <<channels, asks, batch, net>>
  BY OwnWriteDoes
<1>2. PICK ss \in Seq(Starts) : micro' = micro \o ss
  BY <1>1 DEF Queues
<1>3. \A C, Q : MicroSame(Tokens(C, Q))
  BY <1>2, MoreSame
<1>4. SameForAll
  BY <1>1, <1>3, NetStays DEF SameForAll, BatchSame
<1> QED  BY <1>1, <1>4, EachSame

LEMMA EachFeed ==
  ASSUME OneEach, (\E s \in Instances, p \in Plans : Edit(s, p)) \/ Cut \/ Reconnects \/ Relays
  PROVE  OneEach'
<1>1. UNCHANGED <<channels, asks, micro, batch, net>>
  BY DEF Edit, Cut, Reconnects, Relays, client
<1>2. SameForAll
  BY <1>1, NetStays DEF SameForAll, MicroSame, BatchSame
<1> QED  BY <1>1, <1>2, EachSame

LEMMA EachStep ==
  ASSUME TypeInv, FeedTyped, RefInv, OneEach, Next
  PROVE  OneEach'
<1>1. ASSUME NEW v \in Views, Mount(v) \/ Unmount(v) \/ Refine(v) PROVE OneEach'
  BY <1>1, EachOpen
<1>2. ASSUME NEW Q \in Bundles, Ask(Q) PROVE OneEach'
  BY <1>2, EachAsk
<1>3. CASE Microtask
  BY <1>3, EachRecompute, EachInclude, EachOneShot, EachAnswer, EachEndRefresh, EachEndQuery
     DEF Microtask, Recompute, OneShot, Settle
<1>4. CASE Flush
  BY <1>4, EachFlush
<1>5. ASSUME NEW i \in DOMAIN net, NEW refused, Serve(i, refused) PROVE OneEach'
  BY <1>5, EachServe
<1>6. ASSUME NEW i \in DOMAIN net, Respond(i) \/ Drop(i) PROVE OneEach'
  BY <1>6, EachArrives
<1>7. ASSUME NEW p \in Plans, Retire(p) PROVE OneEach'
  BY <1>7, EachRetire
<1>8. CASE Hear
  BY <1>8, EachHear
<1>9. CASE (\E s \in Instances, p \in Plans : Edit(s, p)) \/ Cut \/ Reconnects \/ Relays
  BY <1>9, EachFeed
<1>10. ASSUME NEW r \in Resources, NEW over \in [scene.written -> Layers], OwnWrite(r, over)
       PROVE  OneEach'
  BY <1>10, EachOwnWrite
<1> QED  BY <1>1, <1>2, <1>3, <1>4, <1>5, <1>6, <1>7, <1>8, <1>9, <1>10 DEF Next

LEMMA EachStart ==
  ASSUME Init
  PROVE  OneEach
<1>1. /\ batch = <<>> /\ net = <<>> /\ micro = <<>> /\ asks = [q \in Queries |-> Unasked]
      /\ channels = [p \in Plans |-> NoChannel]
  BY DEF Init
<1>2. \A C, T : Nothing(C, T)
  <2>1. \A D : None(<<>>, D)
    BY EmptyHas
  <2>2. DOMAIN <<>> = {}
    OBVIOUS
  <2> QED  BY <1>1, <2>1, <2>2 DEF Nothing, NetNone
<1>3. ~NoChannel.refreshing /\ Unasked.stage \notin Underway
  BY DEF NoChannel, Unasked, Underway
<1> QED  BY <1>1, <1>2, <1>3 DEF OneEach

LEMMA LiveStutters ==
  ASSUME UNCHANGED vars
  PROVE  /\ TypeInv => TypeInv'
         /\ FeedTyped => FeedTyped'
         /\ OneEach => OneEach'
<1>1. UNCHANGED <<made, bus, events, stream, scene, channels, mounted, kids, waiting, refined,
                  shown, cached, laid, asks, micro, batch, net, newest>>
  BY DEF vars, feedVars, client, views, bounds
<1>2. TypeInv => TypeInv'
  BY <1>1 DEF TypeInv, ChannelsTyped, ViewsTyped, CacheTyped, NetTyped, SceneTyped
<1>3. FeedTyped => FeedTyped'
  BY <1>1 DEF FeedTyped
<1>4. OneEach => OneEach'
  <2>1. SameForAll
    BY <1>1, NetStays DEF SameForAll, MicroSame, BatchSame
  <2> QED  BY <1>1, <2>1, EachSame
<1> QED  BY <1>2, <1>3, <1>4

\* The places of the queue that hold one of D.
LEMMA PlacesOf ==
  ASSUME NEW s, NEW D
  PROVE  /\ None(s, D) => Cardinality({i \in DOMAIN s : s[i] \in D}) = 0
         /\ One(s, D) => Cardinality({i \in DOMAIN s : s[i] \in D}) = 1
<1> DEFINE P == {i \in DOMAIN s : s[i] \in D}
<1>1. None(s, D) => P = {}
  BY DEF None
<1>2. ASSUME One(s, D) PROVE \E i : P = {i}
  <2>1. PICK i \in DOMAIN s : s[i] \in D /\ \A j \in DOMAIN s : s[j] \in D => j = i
    BY <1>2 DEF One
  <2>2. P = {i}
    BY <2>1
  <2> QED  BY <2>2
<1> QED  BY <1>1, <1>2, FS_EmptySet, FS_Singleton

LEMMA CallPlaces ==
  ASSUME NEW p
  PROVE  \A calls : CallsIn(p, calls) = {i \in DOMAIN calls : calls[i] \in ChannelCalls(p)}
  BY DEF CallsIn, ChannelCalls

LEMMA NetPlaces ==
  ASSUME NEW p
  PROVE  /\ NetNone(ChannelCalls(p))
              => Cardinality(UNION {{i} \X CallsIn(p, net[i].calls) : i \in DOMAIN net}) = 0
         /\ NetOne(ChannelCalls(p))
              => Cardinality(UNION {{i} \X CallsIn(p, net[i].calls) : i \in DOMAIN net}) = 1
<1> DEFINE D == ChannelCalls(p)
           U == UNION {{i} \X CallsIn(p, net[i].calls) : i \in DOMAIN net}
<1>1. \A x : x \in U <=> \E i \in DOMAIN net : \E j \in DOMAIN net[i].calls :
                            x = <<i, j>> /\ net[i].calls[j] \in D
  BY CallPlaces
<1> HIDE DEF U, D
<1>2. NetNone(D) => U = {}
  BY <1>1 DEF NetNone, None
<1>3. ASSUME NetOne(D) PROVE \E x : U = {x}
  <2>1. PICK i \in DOMAIN net : /\ One(net[i].calls, D)
                                /\ \A k \in DOMAIN net \ {i} : None(net[k].calls, D)
    BY <1>3 DEF NetOne
  <2>2. PICK j \in DOMAIN net[i].calls :
          /\ net[i].calls[j] \in D
          /\ \A k \in DOMAIN net[i].calls : net[i].calls[k] \in D => k = j
    BY <2>1 DEF One
  <2>3. \A x : x \in U <=> x = <<i, j>>
    BY <1>1, <2>1, <2>2 DEF None
  <2>4. U = {<<i, j>>}
    BY <2>3
  <2> QED  BY <2>4
<1>4. NetNone(D) => Cardinality(U) = 0
  BY <1>2, FS_EmptySet
<1>5. NetOne(D) => Cardinality(U) = 1
  BY <1>3, FS_Singleton
<1> QED  BY <1>4, <1>5 DEF U, D

LEMMA TaskPlaces ==
  ASSUME micro \in Seq(Tasks), NEW p
  PROVE  {i \in DOMAIN micro : /\ micro[i].job \in {"answer", "ended"}
                               /\ micro[i].call = Call("channel", p)}
           = {i \in DOMAIN micro : micro[i] \in ChannelTasks(p)}
<1>1. \A i \in DOMAIN micro : micro[i] \in Tasks
  OBVIOUS
<1> QED  BY <1>1 DEF ChannelTasks, Tokens

LEMMA OneRefreshEach ==
  ASSUME TypeInv, OneEach
  PROVE  OneRefresh
<1> SUFFICES ASSUME NEW p \in Plans
             PROVE  Refreshes(p) = (IF channels[p].refreshing THEN 1 ELSE 0)
  BY DEF OneRefresh
<1> DEFINE a == Cardinality(CallsIn(p, batch))
           b == Cardinality(UNION {{i} \X CallsIn(p, net[i].calls) : i \in DOMAIN net})
           c == Cardinality({i \in DOMAIN micro : /\ micro[i].job \in {"answer", "ended"}
                                                  /\ micro[i].call = Call("channel", p)})
           C == ChannelCalls(p)
           T == ChannelTasks(p)
<1>1. (None(batch, C) => a = 0) /\ (One(batch, C) => a = 1)
  BY PlacesOf, CallPlaces
<1>2. (NetNone(C) => b = 0) /\ (NetOne(C) => b = 1)
  BY NetPlaces
<1>3. (None(micro, T) => c = 0) /\ (One(micro, T) => c = 1)
  BY TaskPlaces, PlacesOf DEF TypeInv
<1>4. Refreshes(p) = a + b + c
  BY DEF Refreshes
<1>5. IF channels[p].refreshing THEN Single(C, T) ELSE Nothing(C, T)
  BY DEF OneEach
<1> HIDE DEF a, b, c, C, T
<1> QED  BY <1>1, <1>2, <1>3, <1>4, <1>5 DEF Single, Nothing

LEMMA LiveTypes ==
  ASSUME TypeInv
  PROVE  LiveTypeOK
<1>1. \A q \in Queries : asks[q].stage \in {"idle", "asking", "joining", "relating",
                                            "done", "failed"}
  BY DEF TypeInv, CacheTyped, Asks
<1>2. \A i \in DOMAIN net : \A j \in DOMAIN net[i].answers : net[i].answers[j] \in Answers
  <2> TAKE i \in DOMAIN net
  <2>1. net[i] \in Messages
    BY DEF TypeInv, NetTyped
  <2>2. net[i].answers \in Seq(Replies)
    BY <2>1 DEF Messages
  <2> QED  BY <2>2 DEF Replies
<1>3. \A i \in DOMAIN batch : batch[i] \in Calls
  BY DEF TypeInv, NetTyped
<1> QED  BY <1>1, <1>2, <1>3 DEF TypeInv, ChannelsTyped, ViewsTyped, CacheTyped, LiveTypeOK

LiveInv == RefInv /\ FeedTyped /\ TypeInv /\ OneEach

LEMMA LiveStays == Spec => []LiveInv
<1>1. Init => LiveInv
  BY RefStart, TypeStart, EachStart, FeedStarts DEF LiveInv, Init
<1>2. LiveInv /\ [Next]_vars => LiveInv'
  BY RefStep, TypeStep, FeedMoves, EachStep, LiveStutters DEF LiveInv
<1> QED  BY <1>1, <1>2, PTL DEF Spec

\* States of channels, plans held, results, queues and messages are of their
\* types, whatever the application, the network and the feed do.
THEOREM LiveKeepsTypes == Spec => []LiveTypeOK
<1>1. LiveInv => LiveTypeOK
  BY LiveTypes DEF LiveInv
<1> QED  BY <1>1, LiveStays, PTL

\* A stored channel is refreshing exactly while one refresh of it, and no
\* second, is batched, under way or being taken in: mounts, relations and
\* events that ask again join it, and a channel retired while it refreshes
\* leaves the request to nobody (query-store.ts:62-65, 105).
THEOREM RefreshesAreShared == Spec => []OneRefresh
<1>1. LiveInv => OneRefresh
  BY OneRefreshEach DEF LiveInv
<1> QED  BY <1>1, LiveStays, PTL

----------------------------------------------------------------------------
(* What a step brings into the queue and into the calls under way.         *)

Brings(X) == \A D : None(micro, D) /\ X \cap D = {} => None(micro', D)
CallsBring(X) ==
  \A D : None(batch, D) /\ NetNone(D) /\ X \cap D = {} =>
           None(batch', D) /\ \A i \in DOMAIN net' : None(net'[i].calls, D)

LEMMA NoneOf ==
  ASSUME NEW X, NEW s \in Seq(X), NEW D, X \cap D = {}
  PROVE  None(s, D)
<1>1. \A i \in DOMAIN s : s[i] \in X
  OBVIOUS
<1> QED  BY <1>1 DEF None

LEMMA GoesOnBrings ==
  ASSUME micro \in Seq(Tasks), micro # <<>>, NEW t \in Tasks, NEW queued, NEW woken,
         \/ Queues(Now(t), queued, woken) \/ Queues(Later(t), queued, woken)
         \/ micro' = Now(t) \/ micro' = Later(t)
  PROVE  Brings({t} \cup Starts)
<1>1. PICK ss \in Seq(Starts) : micro' = Now(t) \o ss \/ micro' = Later(t) \o ss
  <2>1. Now(t) \in Seq(Tasks) /\ Later(t) \in Seq(Tasks) /\ <<>> \in Seq(Starts)
    BY GoOnTyped
  <2>2. Now(t) \o <<>> = Now(t) /\ Later(t) \o <<>> = Later(t)
    BY <2>1, NothingMore
  <2> QED  BY <2>1, <2>2 DEF Queues
<1> SUFFICES ASSUME NEW D, None(micro, D), ({t} \cup Starts) \cap D = {} PROVE None(micro', D)
  BY DEF Brings
<1>2. ss \in Seq(Tasks) /\ None(ss, D) /\ t \notin D
  <2>1. Starts \subseteq Tasks /\ Starts \cap D = {}
    BY DEF Tasks
  <2> QED  BY <2>1, NoneOf, SeqMonotonic
<1>3. None(Tail(micro), D)
  BY HeadHas
<1>4. /\ None((<<t>> \o Tail(micro)) \o ss, D) <=> t \notin D /\ None(Tail(micro), D)
      /\ None(Append(Tail(micro), t) \o ss, D) <=> t \notin D /\ None(Tail(micro), D)
  BY <1>2, GoesOnHas
<1> QED  BY <1>1, <1>2, <1>3, <1>4 DEF Now, Later

LEMMA GoneBrings ==
  ASSUME micro \in Seq(Tasks), micro # <<>>, NEW queued, NEW woken,
         micro' = Rest \/ Queues(Rest, queued, woken)
  PROVE  Brings(Starts)
<1>1. PICK ss \in Seq(Starts) : micro' = Rest \o ss
  <2>1. Rest \in Seq(Tasks) /\ <<>> \in Seq(Starts)
    BY HeadIs
  <2>2. Rest \o <<>> = Rest
    BY <2>1, NothingMore
  <2> QED  BY <2>1, <2>2 DEF Queues
<1> SUFFICES ASSUME NEW D, None(micro, D), Starts \cap D = {} PROVE None(micro', D)
  BY DEF Brings
<1>2. ss \in Seq(Tasks) /\ None(ss, D)
  <2>1. Starts \subseteq Tasks
    BY DEF Tasks
  <2> QED  BY <2>1, NoneOf, SeqMonotonic
<1>3. None(Rest, D) /\ Rest \in Seq(Tasks)
  BY HeadHas, HeadIs DEF Rest
<1>4. None(Rest \o ss, D)
  BY <1>2, <1>3, CatHas
<1> QED  BY <1>1, <1>4

LEMMA OpenBrings ==
  ASSUME TypeInv, NEW more \in Seq(Tasks), NEW X, \A i \in DOMAIN more : more[i] \in X,
         micro' = Open \o more
  PROVE  Brings({Turn} \cup X)
<1> SUFFICES ASSUME NEW D, None(micro, D), ({Turn} \cup X) \cap D = {} PROVE None(micro', D)
  BY DEF Brings
<1>1. None(more, D) /\ Turn \notin D
  BY DEF None
<1>2. None(Open, D)
  <2>1. CASE micro = <<>>
    BY <1>1, <2>1, UnitHas DEF Open, Quiet
  <2>2. CASE micro # <<>>
    BY <2>2 DEF Open, Quiet
  <2> QED  BY <2>1, <2>2
<1> QED  BY <1>1, <1>2, OpenTyped, CatHas

LEMMA OpensBring ==
  ASSUME TypeInv, NEW queued, NEW woken, micro' = Open \/ Queues(Open, queued, woken)
  PROVE  Brings({Turn} \cup Starts)
<1>1. Open \in Seq(Tasks) /\ <<>> \in Seq(Starts)
  BY OpenTyped
<1>2. Open \o <<>> = Open
  BY <1>1, NothingMore
<1>3. PICK ss \in Seq(Starts) : micro' = Open \o ss
  BY <1>1, <1>2 DEF Queues
<1>4. ss \in Seq(Tasks) /\ \A i \in DOMAIN ss : ss[i] \in Starts
  BY SeqMonotonic DEF Tasks
<1> QED  BY <1>3, <1>4, OpenBrings

LEMMA CallsStay ==
  ASSUME UNCHANGED <<batch, net>>
  PROVE  CallsBring({})
  BY DEF CallsBring, NetNone

LEMMA StartingBrings ==
  ASSUME TypeInv, NEW W, Starting(W), net' = net
  PROVE  CallsBring(CallsFor(W))
<1> SUFFICES ASSUME NEW D, None(batch, D), NetNone(D), CallsFor(W) \cap D = {}
             PROVE  None(batch', D) /\ \A i \in DOMAIN net' : None(net'[i].calls, D)
  BY DEF CallsBring
<1> DEFINE calls == SetToSeq(CallsFor(W))
<1>1. /\ W \subseteq Plans /\ IsFiniteSet(W) /\ batch \in Seq(Calls)
      /\ batch' = IF W = {} THEN batch ELSE batch \o calls
  BY DEF Starting, TypeInv, NetTyped
<1>2. IsFiniteSet(CallsFor(W)) /\ calls \in Seq(Calls)
  BY <1>1, CallsForIs
<1>3. None(calls, D)
  BY <1>2, SetHas
<1> HIDE DEF calls
<1>4. None(batch \o calls, D)
  BY <1>1, <1>2, <1>3, CatHas
<1> QED  BY <1>1, <1>4 DEF NetNone

LEMMA FlushBrings ==
  ASSUME TypeInv, Flush
  PROVE  CallsBring({})
<1> SUFFICES ASSUME NEW D, None(batch, D), NetNone(D)
             PROVE  None(batch', D) /\ \A i \in DOMAIN net' : None(net'[i].calls, D)
  BY DEF CallsBring
<1> DEFINE m == Message(batch)
<1>1. /\ net' = Append(net, m) /\ batch' = <<>> /\ m \in Messages /\ m.calls = batch
      /\ net \in Seq(Messages)
  BY FlushDoes DEF Message, TypeInv, NetTyped
<1> HIDE DEF m
<1>2. \A i \in DOMAIN net' : net'[i] = m \/ (i \in DOMAIN net /\ net'[i] = net[i])
  BY <1>1
<1> QED  BY <1>1, <1>2, EmptyHas DEF NetNone

LEMMA ServeBrings ==
  ASSUME TypeInv, NEW i \in DOMAIN net, NEW refused, Serve(i, refused)
  PROVE  CallsBring({})
<1>1. /\ DOMAIN net' = DOMAIN net /\ \A k \in DOMAIN net : net'[k].calls = net[k].calls
      /\ batch' = batch
  BY ServeDoes
<1> QED  BY <1>1 DEF CallsBring, NetNone

LEMMA ArriveBrings ==
  ASSUME TypeInv, NEW i \in DOMAIN net, Respond(i) \/ Drop(i)
  PROVE  CallsBring({})
<1>1. net' = RemoveAt(net, i) /\ net \in Seq(Messages) /\ batch' = batch
  BY ArrivesDoes, MessageIs
<1>2. /\ Len(net') = Len(net) - 1 /\ net' \in Seq(Messages)
      /\ \A k \in DOMAIN net' : net'[k] = net[IF k < i THEN k ELSE k + 1]
  BY <1>1, RemoveIs
<1>3. DOMAIN net' = 1..(Len(net) - 1) /\ DOMAIN net = 1..Len(net) /\ Len(net) \in Nat
  BY <1>1, <1>2
<1>4. \A k \in DOMAIN net' : (IF k < i THEN k ELSE k + 1) \in DOMAIN net
  BY <1>3
<1> QED  BY <1>1, <1>2, <1>4 DEF CallsBring, NetNone

LEMMA RetireBrings ==
  ASSUME TypeInv, NEW p \in Plans, Retire(p)
  PROVE  CallsBring({Call(Gone, p)})
<1> SUFFICES ASSUME NEW D, None(batch, D), NetNone(D), Call(Gone, p) \notin D
             PROVE  None(batch', D) /\ \A i \in DOMAIN net' : None(net'[i].calls, D)
  BY DEF CallsBring
<1>1. /\ batch' = Orphans(batch, p) /\ DOMAIN net' = DOMAIN net
      /\ \A i \in DOMAIN net : net'[i].calls = Orphans(net[i].calls, p)
  BY RetireDoes
<1>2. \A calls : None(calls, D) => None(Orphans(calls, p), D)
  BY DEF None, Orphans, Orphan
<1> QED  BY <1>1, <1>2 DEF NetNone

----------------------------------------------------------------------------
(* What a query under way seeks is asked of the cache or of the source,    *)
(* and what it joined the cache knows.                                     *)

Has(p) == Visible(p) # Unknown
HasNext(p) == Overlaid[<<p, cached'[p], laid'[p]>>] # Unknown
KidOf(q, i) == ChildPlanFor(Includes[q][i], PlanOf[q], asks[q].rows)
Seeks(q) == asks[q].stage \in {"asking", "relating"}
Wants(q) == IF asks[q].stage = "asking" THEN PlanOf[q] ELSE NextWanted(q)
Drew(p, read) == read.coverage = Known(p, read.rows) /\ (read.rows # Unknown => Has(p))

RightCall(q, c) == Seeks(q) /\ c.plan = Wants(q)
RightTask(q, t) ==
  /\ t.job \in {"answer", "ended"} => RightCall(q, t.call)
  /\ t.job = "ended" /\ Keeps(t) => Has(t.call.plan)
  /\ t.job = "looked" => Seeks(q) /\ t.plan = Wants(q) /\ Drew(t.plan, t.read)
  /\ t.job = "fallback" => Seeks(q) /\ Wants(q) \in Plans /\ Drew(Wants(q), t.read)
  /\ t.job = "relate" => asks[q].stage = "joining"
WrongCalls(q) == {c \in QueryCalls(q) : ~RightCall(q, c)}
WrongTasks(q) == {t \in QueryTasks(q) : ~RightTask(q, t)}
Fine(q) ==
  /\ Len(asks[q].kids) <= Len(Includes[q])
  /\ asks[q].stage \in {"idle", "asking"} => asks[q].kids = <<>>
  /\ asks[q].stage \in {"joining", "relating", "done"} /\ PlanOf[q] \notin Declined =>
       Has(PlanOf[q])
  /\ asks[q].stage = "relating" => ~AllJoined(q)
  /\ asks[q].stage = "done" => AllJoined(q)
  /\ \A i \in DOMAIN asks[q].kids : CanRead(KidOf(q, i)) => Has(KidOf(q, i))
PreInv ==
  \A q \in Queries : /\ Fine(q) /\ None(batch, WrongCalls(q)) /\ NetNone(WrongCalls(q))
                     /\ None(micro, WrongTasks(q))
KeepsHaving == \A p \in Plans : Has(p) => HasNext(p)

LEMMA AskIs ==
  ASSUME TypeInv, NEW q \in Queries
  PROVE  /\ asks[q] \in Asks /\ asks[q].kids \in Seq(Results) /\ asks[q].rows \in Results
         /\ Len(asks[q].kids) \in Nat /\ DOMAIN asks[q].kids = 1..Len(asks[q].kids)
         /\ \A i \in 1..Len(Includes[q]) : KidOf(q, i) \in Plans \cup {NoPlan}
<1>1. asks[q] \in Asks
  BY DEF TypeInv, CacheTyped
<1>2. asks[q].kids \in Seq(Results) /\ asks[q].rows \in Results
  BY <1>1 DEF Asks
<1>3. \A i \in 1..Len(Includes[q]) : KidOf(q, i) \in Plans \cup {NoPlan}
  BY <1>2, IncludesTyped, ChildPlanTyped DEF KidOf
<1> QED  BY <1>1, <1>2, <1>3

\* A query nothing happens to.
LEMMA StaysFine ==
  ASSUME TypeInv, NEW q \in Queries, asks'[q] = asks[q], KeepsHaving
  PROVE  /\ Fine(q) => Fine(q)'
         /\ WrongCalls(q)' = WrongCalls(q)
         /\ WrongTasks(q)' \subseteq WrongTasks(q)
<1>1. /\ Seeks(q)' <=> Seeks(q)
      /\ Wants(q)' = Wants(q)
      /\ \A i : KidOf(q, i)' = KidOf(q, i)
      /\ AllJoined(q)' <=> AllJoined(q)
  BY DEF Seeks, Wants, KidOf, NextWanted, AllJoined
<1>2. \A c : RightCall(q, c)' <=> RightCall(q, c)
  BY <1>1 DEF RightCall
<1>3. WrongCalls(q)' = WrongCalls(q)
  BY <1>2 DEF WrongCalls
<1>4. \A p \in Plans : \A read : Drew(p, read) => Drew(p, read)'
  BY DEF Drew, KeepsHaving, Has, HasNext, Visible
<1>5. ASSUME NEW t \in QueryTasks(q), RightTask(q, t)
      PROVE  RightTask(q, t)'
  <2>0. t \in Tasks
    BY DEF QueryTasks, Tokens
  <2>1. /\ t.job \in {"answer", "ended"} => RightCall(q, t.call)'
        /\ t.job = "relate" => asks'[q].stage = "joining"
    BY <1>2, <1>5 DEF RightTask
  <2>2. t.job = "ended" /\ Keeps(t) => Has(t.call.plan)'
    <3> SUFFICES ASSUME t.job = "ended", Keeps(t) PROVE Has(t.call.plan)'
      OBVIOUS
    <3>1. t.call \in Calls
      BY <2>0, Owners
    <3>2. t.call.plan \in Plans
      BY <3>1 DEF Calls
    <3> QED  BY <1>5, <3>2 DEF RightTask, KeepsHaving, Has, HasNext, Visible
  <2>3. t.job = "looked" => Seeks(q)' /\ t.plan = Wants(q)' /\ Drew(t.plan, t.read)'
    <3> SUFFICES ASSUME t.job = "looked"
                 PROVE  Seeks(q)' /\ t.plan = Wants(q)' /\ Drew(t.plan, t.read)'
      OBVIOUS
    <3>1. t \in Looks
      BY <2>0, TaskIs
    <3>2. t.plan \in Plans
      BY <3>1 DEF Looks
    <3> QED  BY <1>1, <1>4, <1>5, <3>2 DEF RightTask
  <2>4. t.job = "fallback" => Seeks(q)' /\ Wants(q)' \in Plans /\ Drew(Wants(q), t.read)'
    <3> SUFFICES ASSUME t.job = "fallback"
                 PROVE  Seeks(q)' /\ Wants(q)' \in Plans /\ Drew(Wants(q), t.read)'
      OBVIOUS
    <3>1. Seeks(q) /\ Wants(q) \in Plans /\ Drew(Wants(q), t.read)
      BY <1>5 DEF RightTask
    <3> QED  BY <1>1, <1>4, <3>1
  <2> QED  BY <2>1, <2>2, <2>3, <2>4 DEF RightTask, Keeps
<1>6. WrongTasks(q)' \subseteq WrongTasks(q)
  <2>1. QueryTasks(q)' = QueryTasks(q)
    BY DEF QueryTasks
  <2> QED  BY <1>5, <2>1 DEF WrongTasks
<1>7. ASSUME Fine(q) PROVE Fine(q)'
  <2>1. PlanOf[q] \in Plans
    BY IncludesTyped
  <2>2. \A i \in DOMAIN asks[q].kids : CanRead(KidOf(q, i)) => KidOf(q, i) \in Plans
    BY <1>7, AskIs, IncludesTyped DEF Fine, CanRead
  <2>3. \A i \in DOMAIN asks[q].kids : CanRead(KidOf(q, i)) => HasNext(KidOf(q, i))
    BY <1>7, <2>2 DEF Fine, KeepsHaving
  <2>4. asks[q].stage \in {"joining", "relating", "done"} /\ PlanOf[q] \notin Declined
          => HasNext(PlanOf[q])
    BY <1>7, <2>1 DEF Fine, KeepsHaving
  <2> QED  BY <1>1, <1>7, <2>3, <2>4 DEF Fine, Has, HasNext, Visible, CanRead
<1> QED  BY <1>3, <1>6, <1>7

LEMMA Narrower ==
  ASSUME NEW D, NEW E, E \subseteq D
  PROVE  /\ \A s : None(s, D) => None(s, E)
         /\ NetNone(D) => NetNone(E)
  BY DEF None, NetNone

LEMMA PreSame ==
  ASSUME TypeInv, PreInv, asks' = asks, KeepsHaving,
         NEW X, CallsBring(X), \A q \in Queries : X \cap QueryCalls(q) = {},
         NEW Y, Brings(Y), \A q \in Queries : Y \cap WrongTasks(q)' = {}
  PROVE  PreInv'
<1> SUFFICES ASSUME NEW q \in Queries
             PROVE  /\ Fine(q)' /\ None(batch', WrongCalls(q)')
                    /\ \A i \in DOMAIN net' : None(net'[i].calls, WrongCalls(q)')
                    /\ None(micro', WrongTasks(q)')
  BY DEF PreInv, NetNone
<1>1. /\ Fine(q) /\ None(batch, WrongCalls(q)) /\ NetNone(WrongCalls(q))
      /\ None(micro, WrongTasks(q))
  BY DEF PreInv
<1>2. /\ Fine(q)' /\ WrongCalls(q)' = WrongCalls(q) /\ WrongTasks(q)' \subseteq WrongTasks(q)
  BY <1>1, StaysFine
<1>3. X \cap WrongCalls(q) = {}
  BY DEF WrongCalls
<1>4. None(batch', WrongCalls(q)) /\ \A i \in DOMAIN net' : None(net'[i].calls, WrongCalls(q))
  BY <1>1, <1>3 DEF CallsBring
<1> DEFINE E == WrongTasks(q)'
<1>5. None(micro, E) /\ Y \cap E = {}
  BY <1>1, <1>2, Narrower
<1> HIDE DEF E
<1>6. None(micro', E)
  BY <1>5 DEF Brings
<1> QED  BY <1>2, <1>4, <1>6 DEF E

\* What is no token of a query is no wrong one.
LEMMA NeverWrong ==
  ASSUME NEW q
  PROVE  /\ \A t : t.job \in NoTokenJobs => t \notin WrongTasks(q) /\ t \notin WrongTasks(q)'
         /\ Starts \cap WrongTasks(q) = {} /\ Starts \cap WrongTasks(q)' = {}
         /\ Turn \notin WrongTasks(q) /\ Turn \notin WrongTasks(q)'
<1>1. QueryTasks(q)' = QueryTasks(q)
  BY DEF QueryTasks
<1>2. WrongTasks(q) \subseteq QueryTasks(q) /\ WrongTasks(q)' \subseteq QueryTasks(q)
  BY <1>1 DEF WrongTasks
<1>3. \A t : t.job \in NoTokenJobs => t \notin QueryTasks(q)
  BY NoTokens DEF QueryTasks
<1>4. \A t \in Starts : t.job \in NoTokenJobs
  BY DEF Starts, NoTokenJobs
<1>5. Turn.job \in NoTokenJobs
  BY DEF Turn, NoTokenJobs
<1> QED  BY <1>2, <1>3, <1>4, <1>5

LEMMA KnownIs ==
  ASSUME NEW p, NEW n
  PROVE  Known(p, n) # "unknown" => n # Unknown
  BY DEF Known

\* A query joins what it asked for.
LEMMA FirstJoined ==
  ASSUME TypeInv, NEW q \in Queries, NEW rows \in Results, Fine(q), asks[q].stage = "asking",
         PlanOf[q] \notin Declined => Has(PlanOf[q]),
         asks' = Answered(q, TRUE, rows), UNCHANGED <<cached, laid>>
  PROVE  Fine(q)'
<1>1. /\ asks'[q].stage = "joining" /\ asks'[q].kids = asks[q].kids
  BY AnsweredTyped DEF TypeInv
<1>2. asks[q].kids = <<>> /\ Len(<<>>) = 0 /\ DOMAIN <<>> = {}
  BY DEF Fine
<1>3. Len(Includes[q]) \in Nat
  BY IncludesTyped
<1> QED  BY <1>1, <1>2, <1>3 DEF Fine, Has, HasNext, Visible

LEMMA NextJoined ==
  ASSUME TypeInv, NEW q \in Queries, NEW rows \in Results, Fine(q),
         asks[q].stage \in {"joining", "relating"}, ~AllJoined(q),
         CanRead(NextWanted(q)) => Has(NextWanted(q)),
         asks' = Answered(q, FALSE, rows), UNCHANGED <<cached, laid>>
  PROVE  Fine(q)'
<1> DEFINE s == asks[q].kids
           n == Len(s)
           m == Len(Includes[q])
<1>1. /\ asks'[q].stage = "joining" /\ asks'[q].rows = asks[q].rows
      /\ asks'[q].kids = Append(s, rows)
  BY AnsweredTyped DEF TypeInv
<1>2. s \in Seq(Results) /\ n \in Nat /\ m \in Nat /\ DOMAIN s = 1..n
  BY AskIs, IncludesTyped
<1>3. n < m
  BY <1>2 DEF AllJoined
<1>4. KidOf(q, n + 1) = NextWanted(q)
  BY DEF KidOf, NextWanted
<1> HIDE DEF n
<1>5. Len(Append(s, rows)) = n + 1 /\ DOMAIN Append(s, rows) = 1..(n + 1)
  BY <1>2, AppendProperties DEF n
<1>6. \A i : KidOf(q, i)' = KidOf(q, i)
  BY <1>1 DEF KidOf
<1>7. \A i \in 1..n : CanRead(KidOf(q, i)) => Has(KidOf(q, i))
  BY <1>2 DEF Fine
<1>8. \A i \in 1..(n + 1) : i \in 1..n \/ i = n + 1
  BY <1>2
<1>9. \A i \in 1..(n + 1) : CanRead(KidOf(q, i)) => Has(KidOf(q, i))
  BY <1>4, <1>7, <1>8
<1>10. \A i \in DOMAIN asks'[q].kids : CanRead(KidOf(q, i))' => Has(KidOf(q, i))'
  BY <1>1, <1>5, <1>6, <1>9 DEF CanRead, Has, HasNext, Visible
<1>11. PlanOf[q] \notin Declined => Has(PlanOf[q])'
  BY DEF Fine, Has, HasNext, Visible
<1>12. n + 1 <= m
  BY <1>2, <1>3
<1>13. Len(asks'[q].kids) <= Len(Includes[q])
  BY <1>1, <1>5, <1>12
<1> QED  BY <1>1, <1>10, <1>11, <1>13 DEF Fine

LEMMA WantedJoined ==
  ASSUME TypeInv, NEW q \in Queries, NEW rows \in Results, Fine(q), Seeks(q),
         CanRead(Wants(q)) => Has(Wants(q)),
         asks' = Answered(q, First(q), rows), UNCHANGED <<cached, laid>>
  PROVE  Fine(q)' /\ asks'[q].stage = "joining"
<1>1. asks'[q].stage = "joining"
  BY AnsweredTyped DEF TypeInv, First
<1>2. CASE asks[q].stage = "asking"
  <2>1. First(q) = TRUE /\ Wants(q) = PlanOf[q] /\ PlanOf[q] # NoPlan
    BY <1>2, IncludesTyped, LiveAssumption DEF First, Wants
  <2> QED  BY <1>1, <1>2, <2>1, FirstJoined DEF CanRead
<1>3. CASE asks[q].stage = "relating"
  <2>1. First(q) = FALSE /\ Wants(q) = NextWanted(q) /\ ~AllJoined(q)
    BY <1>3 DEF First, Wants, Fine
  <2> QED  BY <1>1, <1>3, <2>1, NextJoined
<1> QED  BY <1>2, <1>3 DEF Seeks

LEMMA StageFine ==
  ASSUME TypeInv, NEW q \in Queries, NEW stage, Fine(q),
         stage = "failed" \/ (stage = "done" /\ AllJoined(q) /\ asks[q].stage = "joining")
           \/ (stage = "relating" /\ ~AllJoined(q) /\ asks[q].stage = "joining"),
         asks' = [asks EXCEPT ![q].stage = stage], UNCHANGED <<cached, laid>>
  PROVE  Fine(q)' /\ asks'[q].stage = stage /\ NextWanted(q)' = NextWanted(q)
<1>1. /\ asks'[q].stage = stage /\ asks'[q].rows = asks[q].rows /\ asks'[q].kids = asks[q].kids
  BY DEF TypeInv, CacheTyped, Asks
<1>2. /\ \A i : KidOf(q, i)' = KidOf(q, i)
      /\ AllJoined(q)' <=> AllJoined(q)
      /\ NextWanted(q)' = NextWanted(q)
  BY <1>1 DEF KidOf, AllJoined, NextWanted
<1>3. \A p : Has(p)' <=> Has(p)
  BY DEF Has, HasNext, Visible
<1>4. \A i \in DOMAIN asks'[q].kids : CanRead(KidOf(q, i))' => Has(KidOf(q, i))'
  BY <1>1, <1>2, <1>3 DEF Fine, CanRead
<1> QED  BY <1>1, <1>2, <1>3, <1>4 DEF Fine

\* A query moves: it ends, goes on with a task, or asks the source.
TakesTask(q, t) ==
  /\ Owns(t, q) /\ RightTask(q, t)' /\ (micro' = Now(t) \/ micro' = Later(t)) /\ batch' = batch
SendsCall(q, c) ==
  /\ c.by = q /\ RightCall(q, c)' /\ micro' = Rest /\ batch' = Append(batch, c)
Stops == micro' = Rest /\ batch' = batch

LEMMA PreMoves ==
  ASSUME TypeInv, OneEach, PreInv, NEW q \in Queries, micro # <<>>, Owns(Task, q),
         UNCHANGED <<cached, laid>>, net' = net, \A r \in Queries \ {q} : asks'[r] = asks[r], Fine(q)',
         Stops \/ (\E t \in Tasks : TakesTask(q, t)) \/ (\E c \in Calls : SendsCall(q, c))
  PROVE  PreInv'
<1>1. micro \in Seq(Tasks) /\ Task \in Tasks /\ Rest \in Seq(Tasks) /\ batch \in Seq(Calls)
  BY HeadIs DEF TypeInv, NetTyped
<1>2. Task \in QueryTasks(q)
  BY <1>1, OwnsIs
<1>3. /\ None(batch, QueryCalls(q)) /\ NetNone(QueryCalls(q)) /\ One(micro, QueryTasks(q))
  BY <1>1, <1>2, TokenHere DEF OneEach
<1>4. ASSUME NEW D PROVE /\ None(micro, D) <=> Task \notin D /\ None(Rest, D)
                         /\ One(micro, D) /\ Task \in D => None(Rest, D)
  BY <1>1, HeadHas, NotBoth DEF Task, Rest
<1>5. None(Rest, QueryTasks(q))
  BY <1>2, <1>3, <1>4
<1>6. ASSUME NEW t \in Tasks, micro' = Now(t) \/ micro' = Later(t), NEW D
      PROVE  None(micro', D) <=> t \notin D /\ None(Rest, D)
  <2>1. /\ None((<<t>> \o Tail(micro)) \o <<>>, D) <=> t \notin D /\ None(Tail(micro), D)
        /\ None(Append(Tail(micro), t) \o <<>>, D) <=> t \notin D /\ None(Tail(micro), D)
    <3>1. <<>> \in Seq(Tasks) /\ None(<<>>, D)
      BY EmptyHas
    <3> QED  BY <1>1, <3>1, GoesOnHas
  <2>2. Now(t) \in Seq(Tasks) /\ Later(t) \in Seq(Tasks)
    BY <1>1, GoOnTyped
  <2>3. Now(t) \o <<>> = Now(t) /\ Later(t) \o <<>> = Later(t)
    BY <2>2, NothingMore
  <2> QED  BY <1>6, <2>1, <2>3 DEF Now, Later, Rest
<1>7. ASSUME NEW c \in Calls, batch' = Append(batch, c), NEW D
      PROVE  None(batch', D) <=> None(batch, D) /\ c \notin D
  <2>1. <<c>> \in Seq(Calls) /\ batch' = batch \o <<c>>
    BY <1>1, <1>7
  <2> QED  BY <1>1, <2>1, CatHas, UnitHas
<1>8. ASSUME NEW r \in Queries, r # q
      PROVE  /\ Fine(r)' /\ None(batch', WrongCalls(r)') /\ NetNone(WrongCalls(r))'
             /\ None(micro', WrongTasks(r)')
  <2>1. KeepsHaving
    BY DEF KeepsHaving, Has, HasNext, Visible
  <2>2. /\ Fine(r) /\ None(batch, WrongCalls(r)) /\ NetNone(WrongCalls(r))
        /\ None(micro, WrongTasks(r))
    BY DEF PreInv
  <2>3. /\ Fine(r)' /\ WrongCalls(r)' = WrongCalls(r) /\ WrongTasks(r)' \subseteq WrongTasks(r)
    BY <1>8, <2>1, <2>2, StaysFine
  <2> DEFINE E == WrongTasks(r)'
  <2>4. None(micro, E) /\ E \subseteq QueryTasks(r)
    <3>1. WrongTasks(r) \subseteq QueryTasks(r)
      BY DEF WrongTasks
    <3> QED  BY <2>2, <2>3, <3>1, Narrower
  <2>5. None(Rest, E)
    BY <1>4, <2>4
  <2>6. \A t \in Tasks : Owns(t, q) => t \notin E
    BY <1>8, <2>4, OwnsIs
  <2> HIDE DEF E
  <2>7. None(micro', E)
    BY <1>6, <2>5, <2>6 DEF Stops, TakesTask, SendsCall
  <2>8. \A c \in Calls : c.by = q => c \notin WrongCalls(r)
    BY <1>8 DEF WrongCalls, QueryCalls
  <2>9. None(batch', WrongCalls(r))
    BY <1>7, <2>2, <2>8 DEF Stops, TakesTask, SendsCall
  <2>10. NetNone(WrongCalls(r))'
    <3>1. \A i \in DOMAIN net' : None(net'[i].calls, WrongCalls(r)')
      BY <2>2, <2>3 DEF NetNone
    <3> QED  BY <3>1 DEF NetNone
  <2> QED  BY <2>3, <2>7, <2>9, <2>10 DEF E
<1>9. /\ None(batch', WrongCalls(q)') /\ NetNone(WrongCalls(q))' /\ None(micro', WrongTasks(q)')
  <2> DEFINE E == WrongTasks(q)'
             C == WrongCalls(q)'
  <2>1. E \subseteq QueryTasks(q) /\ C \subseteq QueryCalls(q)
    BY DEF WrongTasks, WrongCalls, QueryTasks, QueryCalls
  <2>2. None(Rest, E) /\ None(batch, C) /\ NetNone(C)
    BY <1>3, <1>5, <2>1, Narrower
  <2>3. \A t \in Tasks : TakesTask(q, t) => t \notin E
    BY DEF TakesTask, WrongTasks
  <2>4. \A c \in Calls : SendsCall(q, c) => c \notin C
    BY DEF SendsCall, WrongCalls
  <2>5. \A i \in DOMAIN net' : None(net'[i].calls, C)
    BY <2>2 DEF NetNone
  <2> HIDE DEF E, C
  <2>6. None(micro', E)
    BY <1>6, <2>2, <2>3 DEF Stops, TakesTask, SendsCall
  <2>7. None(batch', C)
    BY <1>7, <2>2, <2>4 DEF Stops, TakesTask, SendsCall
  <2> QED  BY <2>5, <2>6, <2>7 DEF E, C, NetNone
<1>10. ASSUME NEW r \in Queries
       PROVE  /\ Fine(r)' /\ None(batch', WrongCalls(r)') /\ NetNone(WrongCalls(r))'
              /\ None(micro', WrongTasks(r)')
  BY <1>8, <1>9
<1> QED  BY <1>10 DEF PreInv

LEMMA RunsRight ==
  ASSUME TypeInv, PreInv, NEW q \in Queries, micro # <<>>, Owns(Task, q)
  PROVE  Task \in Tasks /\ RightTask(q, Task) /\ Fine(q)
<1>1. micro \in Seq(Tasks) /\ Task \in Tasks
  BY HeadIs DEF TypeInv
<1>2. Task \in QueryTasks(q)
  BY <1>1, OwnsIs
<1>3. None(micro, WrongTasks(q)) /\ Fine(q)
  BY DEF PreInv
<1>4. Task \notin WrongTasks(q)
  BY <1>1, <1>3, HeadHas DEF Task
<1> QED  BY <1>1, <1>2, <1>3, <1>4 DEF WrongTasks

\* A query that joined an answer relates next.
LEMMA PreJoins ==
  ASSUME TypeInv, OneEach, PreInv, NEW q \in Queries, micro # <<>>, Owns(Task, q),
         UNCHANGED <<cached, laid>>, net' = net, batch' = batch, NEW rows \in Results,
         Seeks(q), CanRead(Wants(q)) => Has(Wants(q)),
         asks' = Answered(q, First(q), rows), micro' = Now(Relating(q))
  PROVE  PreInv'
<1>1. Fine(q)
  BY RunsRight
<1>2. Fine(q)' /\ asks'[q].stage = "joining"
  BY <1>1, WantedJoined
<1>3. \A r \in Queries \ {q} : asks'[r] = asks[r]
  <2>1. First(q) \in BOOLEAN
    BY DEF First
  <2> QED  BY <2>1, JoiningUnderway DEF TypeInv
<1>4. PICK t \in Tasks : t = Relating(q) /\ Owns(t, q)
  BY RelatingOwned
<1>5. t.job = "relate"
  BY <1>4 DEF Relating
<1>6. TakesTask(q, t)
  BY <1>2, <1>4, <1>5 DEF TakesTask, RightTask
<1> QED  BY <1>2, <1>3, <1>6, PreMoves

LEMMA PreFails ==
  ASSUME TypeInv, OneEach, PreInv, NEW q \in Queries, micro # <<>>, Owns(Task, q),
         UNCHANGED <<cached, laid>>, net' = net, batch' = batch, asks' = Failed(q), micro' = Rest
  PROVE  PreInv'
<1>1. Fine(q)
  BY RunsRight
<1>2. asks' = [asks EXCEPT ![q].stage = "failed"]
  BY DEF Failed
<1>3. Fine(q)' /\ \A r \in Queries \ {q} : asks'[r] = asks[r]
  BY <1>1, <1>2, StageFine, StageIs DEF TypeInv
<1> QED  BY <1>3, PreMoves DEF Stops

LEMMA PreLooked ==
  ASSUME TypeInv, OneEach, PreInv, Looked
  PROVE  PreInv'
<1>1. PICK q \in Queries : q = Task.query
  BY LookedDoes
<1>2. /\ micro # <<>> /\ Owns(Task, q) /\ UNCHANGED <<cached, laid, net>> /\ Task \in Looks
      /\ Task.job = "looked"
  BY <1>1, LookedDoes DEF Runs, Owns
<1>3. RightTask(q, Task) /\ Fine(q)
  BY <1>2, RunsRight
<1>4. /\ Seeks(q) /\ Task.plan = Wants(q) /\ Task.plan \in Plans
      /\ Task.read.coverage = Known(Task.plan, Task.read.rows)
      /\ Task.read.rows # Unknown => Has(Task.plan)
      /\ Task.read.rows \in Results
  BY <1>2, <1>3 DEF RightTask, Drew, Looks, Readings
<1>5. CASE Task.read.coverage = "complete"
  <2>1. asks' = Answered(q, First(q), Task.read.rows) /\ micro' = Now(Relating(q)) /\ batch' = batch
    BY <1>1, <1>5, LookedDoes
  <2>2. Has(Wants(q))
    BY <1>4, <1>5, KnownIs
  <2> QED  BY <1>2, <1>4, <2>1, <2>2, PreJoins
<1>6. CASE Task.read.coverage # "complete"
  <2>1. /\ batch' = Append(batch, Call(q, Task.plan)) /\ asks' = asks /\ micro' = Rest
    BY <1>1, <1>6, LookedDoes
  <2>2. PICK c \in Calls : c = Call(q, Task.plan)
    BY <1>4 DEF Call, Calls
  <2>3. KeepsHaving
    BY <1>2 DEF KeepsHaving, Has, HasNext, Visible
  <2>4. Fine(q)'
    BY <1>3, <2>1, <2>3, StaysFine
  <2>5. Seeks(q)' /\ Wants(q)' = Wants(q)
    BY <1>4, <2>1 DEF Seeks, Wants, NextWanted
  <2>6. c.by = q /\ c.plan = Wants(q)
    BY <1>4, <2>2 DEF Call
  <2>7. SendsCall(q, c)
    BY <2>1, <2>2, <2>5, <2>6 DEF SendsCall, RightCall
  <2> QED  BY <1>2, <2>1, <2>4, <2>7, PreMoves
<1> QED  BY <1>5, <1>6

LEMMA PreFallBack ==
  ASSUME TypeInv, OneEach, PreInv, FallBack
  PROVE  PreInv'
<1>1. PICK q \in Queries : q = Task.query
  BY FallBackDoes
<1>2. /\ micro # <<>> /\ Owns(Task, q) /\ UNCHANGED <<cached, laid, net, batch>> /\ Task \in Falls
      /\ Task.job = "fallback"
  BY <1>1, FallBackDoes DEF Runs, Owns
<1>3. RightTask(q, Task) /\ Fine(q)
  BY <1>2, RunsRight
<1>4. /\ Seeks(q) /\ Wants(q) \in Plans
      /\ Task.read.coverage = Known(Wants(q), Task.read.rows)
      /\ Task.read.rows # Unknown => Has(Wants(q))
      /\ Task.read.rows \in Results
  BY <1>2, <1>3 DEF RightTask, Drew, Falls, Readings
<1>5. CASE Task.read.coverage # "unknown"
  <2>1. asks' = Answered(q, First(q), Task.read.rows) /\ micro' = Now(Relating(q))
    BY <1>1, <1>5, FallBackDoes
  <2>2. Has(Wants(q))
    BY <1>4, <1>5, KnownIs
  <2> QED  BY <1>2, <1>4, <2>1, <2>2, PreJoins
<1>6. CASE Task.read.coverage = "unknown"
  <2>1. asks' = Failed(q) /\ micro' = Rest
    BY <1>1, <1>6, FallBackDoes
  <2> QED  BY <1>2, <2>1, PreFails
<1> QED  BY <1>5, <1>6

LEMMA PreRelate ==
  ASSUME TypeInv, OneEach, PreInv, Relate
  PROVE  PreInv'
<1>1. PICK q \in Queries : q = Task.query
  BY RelateDoes
<1>2. /\ micro # <<>> /\ Owns(Task, q) /\ UNCHANGED <<cached, laid, net>> /\ Task.job = "relate"
      /\ Task = Relating(q)
  BY <1>1, RelateDoes DEF Runs, Owns
<1>3. RightTask(q, Task) /\ Fine(q) /\ Task \in Tasks
  BY <1>2, RunsRight
<1>4. asks[q].stage = "joining" /\ CacheTyped
  BY <1>2, <1>3 DEF RightTask, TypeInv
<1>5. PICK p : p = NextWanted(q)
  OBVIOUS
<1>6. CASE /\ AllJoined(q) /\ asks' = [asks EXCEPT ![q].stage = "done"] /\ micro' = Rest
           /\ batch' = batch
  <2>1. \A r \in Queries \ {q} : asks'[r] = asks[r]
    BY <1>4, <1>6, StageIs
  <2>2. Fine(q)'
    BY <1>2, <1>3, <1>4, <1>6, StageFine
  <2> QED  BY <1>2, <1>6, <2>1, <2>2, PreMoves DEF Stops
<1>7. CASE /\ ~AllJoined(q) /\ p = NoPlan /\ asks' = Answered(q, FALSE, Unknown)
           /\ micro' = Now(Task) /\ batch' = batch
  <2>1. ~CanRead(NextWanted(q)) /\ Unknown \in Results
    BY <1>5, <1>7, ResultsAre DEF CanRead
  <2>2. Fine(q)'
    BY <1>2, <1>3, <1>4, <1>7, <2>1, NextJoined
  <2>3. asks'[q].stage = "joining" /\ \A r \in Queries \ {q} : asks'[r] = asks[r]
    BY <1>4, <1>7, <2>1, AnsweredTyped
  <2>4. PICK t \in Tasks : t = Task /\ Owns(t, q) /\ t.job = "relate"
    BY <1>2, <1>3
  <2>5. TakesTask(q, t)
    BY <1>7, <2>3, <2>4 DEF TakesTask, RightTask
  <2> QED  BY <1>2, <2>2, <2>3, <2>5, PreMoves
<1>8. CASE /\ ~AllJoined(q) /\ p \in Plans /\ asks' = [asks EXCEPT ![q].stage = "relating"]
           /\ \/ micro' = Rest /\ batch' = Append(batch, Call(q, p))
              \/ micro' = Later(Looking(q, p)) /\ batch' = batch
  <2>1. /\ Fine(q)' /\ \A r \in Queries \ {q} : asks'[r] = asks[r]
        /\ asks'[q].stage = "relating" /\ NextWanted(q)' = p
    <3>1. \A r \in Queries \ {q} : asks'[r] = asks[r]
      BY <1>4, <1>8, StageIs
    <3>2. Fine(q)' /\ asks'[q].stage = "relating" /\ NextWanted(q)' = NextWanted(q)
      BY <1>2, <1>3, <1>4, <1>8, StageFine
    <3> QED  BY <1>5, <3>1, <3>2
  <2>2. Seeks(q)' /\ Wants(q)' = p
    BY <2>1 DEF Seeks, Wants
  <2>3. CASE micro' = Rest /\ batch' = Append(batch, Call(q, p))
    <3>1. PICK c \in Calls : c = Call(q, p)
      BY <1>8 DEF Call, Calls
    <3>2. c.by = q /\ c.plan = p
      BY <3>1 DEF Call
    <3>3. SendsCall(q, c)
      BY <2>2, <2>3, <3>1, <3>2 DEF SendsCall, RightCall
    <3> QED  BY <1>2, <2>1, <3>3, PreMoves
  <2>4. CASE micro' = Later(Looking(q, p)) /\ batch' = batch
    <3>1. PICK t \in Tasks : t = Looking(q, p)
      BY <1>4, <1>8, LookingTyped DEF Tasks
    <3>2. t.job = "looked" /\ t.query = q /\ t.plan = p /\ t.read = Reads(p)
      BY <3>1 DEF Looking
    <3>3. Drew(p, t.read)'
      BY <1>2, <3>2 DEF Drew, Reads, Has, HasNext, Visible
    <3>4. RightTask(q, t)'
      BY <2>2, <3>2, <3>3 DEF RightTask
    <3>5. TakesTask(q, t)
      BY <2>4, <3>1, <3>2, <3>4 DEF TakesTask, Owns
    <3> QED  BY <1>2, <2>1, <3>5, PreMoves
  <2> QED  BY <1>8, <2>3, <2>4
<1> QED  BY <1>1, <1>5, <1>6, <1>7, <1>8, RelateDoes

LEMMA PreEndQuery ==
  ASSUME TypeInv, OneEach, PreInv, EndQuery
  PROVE  PreInv'
<1>1. PICK q \in Queries : q = Task.call.by
  BY EndQueryDoes
<1>2. /\ micro # <<>> /\ Owns(Task, q) /\ UNCHANGED <<cached, laid, net, batch>>
      /\ Task.job = "ended" /\ Task.call.plan \in Plans /\ Task.answer.rows \in Results
  BY <1>1, EndQueryDoes DEF Runs, Owns, Replies, Answers
<1>3. RightTask(q, Task) /\ Fine(q)
  BY <1>2, RunsRight
<1>4. Seeks(q) /\ Task.call.plan = Wants(q) /\ (Keeps(Task) => Has(Wants(q)))
  BY <1>2, <1>3 DEF RightTask, RightCall
<1>5. CASE /\ Task.answer.verdict = "ok"
           /\ asks' = Answered(q, First(q), Task.answer.rows) /\ micro' = Now(Relating(q))
  <2>1. CanRead(Wants(q)) => Has(Wants(q))
    BY <1>4, <1>5 DEF Keeps, CanRead
  <2> QED  BY <1>2, <1>4, <1>5, <2>1, PreJoins
<1>6. CASE asks' = asks /\ micro' = Later(FallOf(Task)) /\ FallOf(Task) \in Falls
  <2>1. PICK t \in Tasks : t = FallOf(Task)
    BY <1>6 DEF Tasks
  <2>2. t.job = "fallback" /\ t.query = q /\ t.read = Reads(Wants(q))
    BY <1>1, <1>4, <2>1 DEF FallOf
  <2>3. KeepsHaving
    BY <1>2 DEF KeepsHaving, Has, HasNext, Visible
  <2>4. Fine(q)'
    BY <1>3, <1>6, <2>3, StaysFine
  <2>5. Seeks(q)' /\ Wants(q)' = Wants(q) /\ Wants(q) \in Plans
    BY <1>2, <1>4, <1>6 DEF Seeks, Wants, NextWanted
  <2>6. Drew(Wants(q), t.read)'
    BY <1>2, <2>2, <2>5 DEF Drew, Reads, Has, HasNext, Visible
  <2>7. RightTask(q, t)'
    BY <2>2, <2>5, <2>6 DEF RightTask
  <2>8. TakesTask(q, t)
    BY <1>2, <1>6, <2>1, <2>2, <2>7 DEF TakesTask, Owns
  <2> QED  BY <1>2, <1>6, <2>4, <2>8, PreMoves
<1>7. CASE asks' = Failed(q) /\ micro' = Rest
  BY <1>2, <1>7, PreFails
<1> QED  BY <1>1, <1>5, <1>6, <1>7, EndQueryDoes

\* Steps that bring neither a query's task nor its call.
LEMMA PreOthers ==
  ASSUME TypeInv, PreInv, asks' = asks, UNCHANGED <<cached, laid>>,
         NEW X, CallsBring(X), \A c \in X : c.by \notin Queries,
         NEW Y, Brings(Y), \A t \in Y : t.job \in NoTokenJobs
  PROVE  PreInv'
<1>1. KeepsHaving
  BY DEF KeepsHaving, Has, HasNext, Visible
<1>2. \A q \in Queries : X \cap QueryCalls(q) = {}
  BY DEF QueryCalls
<1>3. ASSUME NEW q \in Queries PROVE Y \cap WrongTasks(q)' = {}
  <2>1. \A t : t.job \in NoTokenJobs => t \notin WrongTasks(q)'
    BY NeverWrong
  <2> QED  BY <2>1
<1> QED  BY <1>1, <1>2, <1>3, PreSame

LEMMA ChannelsCall ==
  ASSUME NEW W
  PROVE  \A c \in CallsFor(W) : c.by \notin Queries
  BY CallsDiffer DEF CallsFor

LEMMA PreOpen ==
  ASSUME TypeInv, RefInv, PreInv, NEW v \in Views, Mount(v) \/ Unmount(v) \/ Refine(v)
  PROVE  PreInv'
<1>1. PICK Y : Y = {Turn} \cup Starts
  OBVIOUS
<1>2. \A t \in Y : t.job \in NoTokenJobs
  BY <1>1, StartsAndTurns
<1>3. CASE Mount(v)
  <2>1. PICK W : Starting(W) /\ Queues(Open, waiting, Listeners(W) \cup {v})
    BY <1>3, MountDoes
  <2>2. net' = net /\ asks' = asks /\ UNCHANGED <<cached, laid>>
    BY <1>3 DEF Mount
  <2>3. Brings(Y) /\ CallsBring(CallsFor(W))
    BY <1>1, <2>1, <2>2, OpensBring, StartingBrings
  <2> QED  BY <1>2, <2>2, <2>3, ChannelsCall, PreOthers
<1>4. CASE Unmount(v)
  <2>1. Starting({}) /\ micro' = Open
    BY <1>4, UnmountDoes
  <2>2. net' = net /\ asks' = asks /\ UNCHANGED <<cached, laid>>
    BY <1>4 DEF Unmount
  <2>3. Brings(Y) /\ CallsBring(CallsFor({}))
    BY <1>1, <2>1, <2>2, OpensBring, StartingBrings
  <2> QED  BY <1>2, <2>2, <2>3, ChannelsCall, PreOthers
<1>5. CASE Refine(v)
  <2>1. Queues(Open, waiting, {v}) /\ UNCHANGED <<asks, cached, laid, batch, net>>
    BY <1>5, RefineDoes
  <2>2. Brings(Y) /\ CallsBring({})
    BY <1>1, <2>1, OpensBring, CallsStay
  <2> QED  BY <1>2, <2>1, <2>2, PreOthers
<1> QED  BY <1>3, <1>4, <1>5

LEMMA PreRecompute ==
  ASSUME TypeInv, PreInv, Leave \/ Start \/ Base \/ Join \/ Derive \/ Show
  PROVE  PreInv'
<1>1. /\ micro \in Seq(Tasks) /\ micro # <<>> /\ UNCHANGED <<asks, cached, laid, batch, net>>
  BY DEF TypeInv, Leave, Start, Base, Join, Derive, Show, Runs, others
<1>2. CallsBring({})
  BY <1>1, CallsStay
<1>3. CASE micro' = Rest
  BY <1>1, <1>2, <1>3, GoneBrings, StartsAndTurns, PreOthers
<1>4. ASSUME NEW t \in Tasks, t.job \in NoTokenJobs, micro' = Now(t) \/ micro' = Later(t)
      PROVE  PreInv'
  <2>1. PICK Y : Y = {t} \cup Starts
    OBVIOUS
  <2>2. Brings(Y)
    BY <1>1, <1>4, <2>1, GoesOnBrings
  <2>3. \A x \in Y : x.job \in NoTokenJobs
    BY <1>4, <2>1, StartsAndTurns
  <2> QED  BY <1>1, <1>2, <2>2, <2>3, PreOthers
<1> QED  BY <1>3, <1>4, ViewGoesOn

LEMMA PreInclude ==
  ASSUME TypeInv, PreInv, Include
  PROVE  PreInv'
<1>1. /\ Runs("include") /\ Len(Task.kids) < Len(Includes[Task.view])
  BY IncludeDoes
<1>2. PICK W : /\ Starting(W)
               /\ Queues(IF CanRead(NextPlan) THEN Later(NextTask) ELSE Now(NextTask),
                         waiting, Listeners(W))
  BY IncludeDoes
<1>3. net' = net /\ asks' = asks /\ UNCHANGED <<cached, laid>>
  BY DEF Include
<1>4. PICK t \in Tasks : t = NextTask /\ t.job = "include"
  BY <1>1, NextTyped DEF TypeInv, Tasks
<1>5. micro # <<>> /\ micro \in Seq(Tasks)
  BY <1>1 DEF TypeInv, Runs
<1>6. \/ Queues(Now(t), waiting, Listeners(W))
      \/ Queues(Later(t), waiting, Listeners(W))
  BY <1>2, <1>4
<1>7. PICK Y : Y = {t} \cup Starts
  OBVIOUS
<1>8. Brings(Y)
  BY <1>5, <1>6, <1>7, GoesOnBrings
<1>9. \A x \in Y : x.job \in NoTokenJobs
  BY <1>4, <1>7, StartsAndTurns DEF NoTokenJobs
<1>10. CallsBring(CallsFor(W))
  BY <1>2, <1>3, StartingBrings
<1> QED  BY <1>3, <1>8, <1>9, <1>10, ChannelsCall, PreOthers

LEMMA PreEndRefresh ==
  ASSUME TypeInv, PreInv, EndRefresh
  PROVE  PreInv'
<1>1. /\ micro \in Seq(Tasks) /\ micro # <<>> /\ UNCHANGED <<asks, cached, laid, batch, net>>
  BY EndRefreshDoes DEF TypeInv, Runs
<1>2. CallsBring({}) /\ Brings(Starts)
  BY <1>1, CallsStay, EndRefreshDoes, GoneBrings
<1> QED  BY <1>1, <1>2, StartsAndTurns, PreOthers

LEMMA PreHear ==
  ASSUME TypeInv, FeedTyped, PreInv, Hear
  PROVE  PreInv'
<1>1. events[Me] \in Seq(made)
  BY LiveAssumption DEF FeedTyped
<1>2. \E W : Starting(W) /\ Queues(<<>>, waiting, Listeners(W))
  BY <1>1, HearDoes
<1>3. PICK W : Starting(W) /\ Queues(<<>>, waiting, Listeners(W))
  BY <1>2
<1>4. micro = <<>> /\ net' = net /\ asks' = asks /\ UNCHANGED <<cached, laid>>
  BY DEF Hear, Quiet
<1>5. PICK ss \in Seq(Starts) : micro' = <<>> \o ss
  BY <1>3 DEF Queues
<1>6. Brings(Starts)
  <2> SUFFICES ASSUME NEW D, Starts \cap D = {} PROVE None(micro', D)
    BY DEF Brings
  <2>1. ss \in Seq(Tasks) /\ None(ss, D) /\ micro' = ss
    <3>1. ss \in Seq(Tasks) /\ micro' = ss
      BY <1>5, StartsAreNone
    <3> QED  BY <3>1, NoneOf
  <2> QED  BY <2>1
<1>7. CallsBring(CallsFor(W))
  BY <1>3, <1>4, StartingBrings
<1> QED  BY <1>4, <1>6, <1>7, ChannelsCall, StartsAndTurns, PreOthers

LEMMA PreSource ==
  ASSUME TypeInv, PreInv,
         \/ Flush \/ \E i \in DOMAIN net : \E refused : Serve(i, refused)
         \/ \E p \in Plans : Retire(p)
         \/ (\E s \in Instances, p \in Plans : Edit(s, p)) \/ Cut \/ Reconnects \/ Relays
  PROVE  PreInv'
<1>1. UNCHANGED <<asks, micro, cached, laid>>
  BY DEF Flush, Serve, Retire, Edit, Cut, Reconnects, Relays, client
<1>2. Brings({})
  BY <1>1 DEF Brings
<1>3. CASE Flush \/ \E i \in DOMAIN net : \E refused : Serve(i, refused)
  BY <1>1, <1>2, <1>3, FlushBrings, ServeBrings, PreOthers
<1>4. ASSUME NEW p \in Plans, Retire(p) PROVE PreInv'
  BY <1>1, <1>2, <1>4, RetireBrings, CallsDiffer, PreOthers
<1>5. CASE (\E s \in Instances, p \in Plans : Edit(s, p)) \/ Cut \/ Reconnects \/ Relays
  <2>1. UNCHANGED <<batch, net>>
    BY <1>5 DEF Edit, Cut, Reconnects, Relays, client
  <2> QED  BY <1>1, <1>2, <2>1, CallsStay, PreOthers
<1> QED  BY <1>3, <1>4, <1>5

LEMMA PreAnswer ==
  ASSUME TypeInv, PreInv, Answer
  PROVE  PreInv'
<1>1. /\ micro \in Seq(Tasks) /\ micro # <<>> /\ Task \in Incoming /\ Task.job = "answer"
      /\ UNCHANGED <<asks, batch, net>>
  BY AnswerDoes DEF Runs, TypeInv
<1>2. PICK woken : \/ Queues(Later(EndOf(Task)), waiting, woken)
                   \/ Queues(Now(EndOf(Task)), waiting, woken)
  BY AnswerDoes
<1>3. PICK e \in Tasks : e = EndOf(Task)
  BY <1>1, EndTyped DEF Tasks
<1>4. e.job = "ended" /\ e.call = Task.call /\ (Keeps(e) <=> Keeps(Task)) /\ e.call.plan \in Plans
  BY <1>1, <1>3, EndTyped DEF Keeps
<1>5. PICK Y : Y = {e} \cup Starts
  OBVIOUS
<1>6. Brings(Y) /\ CallsBring({})
  BY <1>1, <1>2, <1>3, <1>5, GoesOnBrings, CallsStay
<1>7. /\ CacheTyped /\ laid' = laid
      /\ \A p \in Plans : cached'[p] = cached[p] \/ cached'[p] \in Versions
  BY AnswerDoes, ResultsAre DEF TypeInv, CacheTyped
<1>11. \A p \in Plans : cached'[p] \in Versions => HasNext(p)
  BY <1>7, LiveAssumption DEF CacheTyped, HasNext
<1>8. KeepsHaving
  BY <1>7, <1>11 DEF KeepsHaving, Has, HasNext, Visible
<1>12. Keeps(Task) => cached'[Task.call.plan] \in Versions
  BY <1>4, <1>7, AnswerDoes, ResultsAre DEF CacheTyped
<1>9. Keeps(Task) => HasNext(Task.call.plan)
  BY <1>4, <1>11, <1>12
<1>10. ASSUME NEW q \in Queries PROVE Y \cap WrongTasks(q)' = {}
  <2>1. Starts \cap WrongTasks(q)' = {}
    BY NeverWrong
  <2>2. ASSUME e.call.by = q PROVE RightTask(q, e)'
    <3>1. Owns(Task, q)
      BY <1>1, <1>4, <2>2 DEF Owns
    <3>2. RightCall(q, e.call)
      BY <1>1, <1>4, <3>1, RunsRight DEF RightTask
    <3>3. RightCall(q, e.call)'
      BY <1>1, <3>2 DEF RightCall, Seeks, Wants, NextWanted
    <3> QED  BY <1>4, <1>9, <3>3 DEF RightTask, Has, HasNext, Visible, Keeps
  <2>3. e \in QueryTasks(q) => e.call.by = q
    BY <1>4, Owners
  <2>4. e \notin WrongTasks(q)'
    BY <2>2, <2>3 DEF WrongTasks, QueryTasks
  <2> QED  BY <1>5, <2>1, <2>4
<1> QED  BY <1>1, <1>6, <1>8, <1>10, PreSame

LEMMA PreArrives ==
  ASSUME TypeInv, PreInv, NEW i \in DOMAIN net, Respond(i) \/ Drop(i)
  PROVE  PreInv'
<1>1. /\ micro' \in Seq(Incoming) /\ DOMAIN micro' = DOMAIN net[i].calls
      /\ \A j \in DOMAIN micro' : micro'[j].call = net[i].calls[j]
      /\ UNCHANGED <<asks, cached, laid>>
  BY ArrivesDoes
<1>2. PICK Y : Y = {micro'[j] : j \in DOMAIN micro'}
  OBVIOUS
<1>3. Brings(Y)
  BY <1>2 DEF Brings, None
<1>4. CallsBring({}) /\ KeepsHaving
  BY <1>1, ArriveBrings DEF KeepsHaving, Has, HasNext, Visible
<1>5. ASSUME NEW q \in Queries, NEW j \in DOMAIN micro' PROVE micro'[j] \notin WrongTasks(q)'
  <2>1. PICK t \in Incoming : t = micro'[j]
    BY <1>1
  <2>2. t.job = "answer" /\ t \in Tasks /\ t.call = net[i].calls[j] /\ j \in DOMAIN net[i].calls
    BY <1>1, <2>1 DEF Incoming, Tasks
  <2>3. t.call \notin WrongCalls(q)
    BY <2>2 DEF PreInv, NetNone, None
  <2>4. t.call \in Calls
    BY <2>2, Owners
  <2>5. t.call.by = q => RightCall(q, t.call)
    BY <2>3, <2>4 DEF WrongCalls, QueryCalls
  <2>6. t.call.by = q => RightCall(q, t.call)'
    BY <1>1, <2>5 DEF RightCall, Seeks, Wants, NextWanted
  <2>7. t.call.by = q => RightTask(q, t)'
    BY <2>2, <2>6 DEF RightTask
  <2>8. t \in QueryTasks(q) => t.call.by = q
    BY <2>2, Owners
  <2> QED  BY <2>1, <2>7, <2>8 DEF WrongTasks, QueryTasks
<1>6. \A q \in Queries : Y \cap WrongTasks(q)' = {}
  BY <1>2, <1>5
<1> QED  BY <1>1, <1>3, <1>4, <1>6, PreSame

\* The queries of a bundle start together.
LEMMA PreAsk ==
  ASSUME TypeInv, OneEach, PreInv, NEW Q \in Bundles, Ask(Q)
  PROVE  PreInv'
<1> DEFINE sent == Sent(Q)
           read == Read(Q)
<1>1. /\ Q \subseteq Queries /\ \A q \in Q : asks[q].stage = "idle"
      /\ asks' = [q \in Queries |-> IF q \in Q THEN [asks[q] EXCEPT !.stage = "asking"]
                                    ELSE asks[q]]
      /\ batch' = batch \o SetToSeq(sent) /\ micro' = Open \o SetToSeq(read)
      /\ net' = net /\ UNCHANGED <<cached, laid>>
  BY AskDoes
<1>2. /\ IsFiniteSet(sent) /\ IsFiniteSet(read) /\ sent \subseteq Calls /\ read \subseteq Looks
      /\ SetToSeq(sent) \in Seq(Calls) /\ SetToSeq(read) \in Seq(Tasks)
  BY AskTyped DEF TypeInv
<1>3. KeepsHaving
  BY <1>1 DEF KeepsHaving, Has, HasNext, Visible
<1>4. ASSUME NEW D, None(batch, D), sent \cap D = {} PROVE None(batch', D)
  <2>1. None(SetToSeq(sent), D) /\ batch \in Seq(Calls)
    BY <1>2, <1>4, SetHas DEF TypeInv, NetTyped
  <2> QED  BY <1>1, <1>2, <1>4, <2>1, CatHas
<1>5. ASSUME NEW D, None(micro, D), Turn \notin D, read \cap D = {} PROVE None(micro', D)
  <2>1. None(SetToSeq(read), D)
    BY <1>2, <1>5, SetHas
  <2>2. None(Open, D)
    BY <1>5, UnitHas DEF Open
  <2> QED  BY <1>1, <1>2, <2>1, <2>2, OpenTyped, CatHas
<1>6. \A x \in sent : \E q \in Q : x = Call(q, PlanOf[q]) /\ x.by = q /\ x.plan = PlanOf[q]
  BY DEF Sent, Call
<1>7. \A x \in read : \E q \in Q : /\ x = LookOf(q) /\ x.job = "looked" /\ x.query = q
                                   /\ x.plan = PlanOf[q] /\ x.read = Reads(PlanOf[q])
  BY DEF Read, LookOf, Looking
<1>8. \A x \in sent : x \in Calls
  BY <1>2
<1>9. \A x \in read : x \in Tasks
  BY <1>2 DEF Tasks
<1> HIDE DEF sent, read
<1>10. ASSUME NEW q \in Queries, q \in Q
       PROVE  /\ Fine(q)' /\ None(batch', WrongCalls(q)') /\ NetNone(WrongCalls(q))'
              /\ None(micro', WrongTasks(q)')
  <2>1. asks[q] \in Asks /\ asks[q].stage = "idle" /\ asks[q].kids = <<>>
    BY <1>1, <1>10 DEF TypeInv, CacheTyped, PreInv, Fine
  <2>2. asks'[q].stage = "asking" /\ asks'[q].kids = <<>> /\ Len(<<>>) = 0 /\ DOMAIN <<>> = {}
    <3>1. asks'[q] = [asks[q] EXCEPT !.stage = "asking"]
      BY <1>1, <1>10
    <3>2. asks'[q].stage = "asking" /\ asks'[q].kids = asks[q].kids
      BY <2>1, <3>1 DEF Asks
    <3> QED  BY <2>1, <3>2
  <2>3. Len(Includes[q]) \in Nat
    BY IncludesTyped
  <2>4. Fine(q)'
    BY <2>2, <2>3 DEF Fine
  <2>5. Seeks(q)' /\ Wants(q)' = PlanOf[q]
    BY <2>2 DEF Seeks, Wants
  <2>6. Nothing(QueryCalls(q), QueryTasks(q))
    BY <2>1 DEF OneEach, Underway
  <2> DEFINE E == WrongTasks(q)'
             C == WrongCalls(q)'
  <2>7. E \subseteq QueryTasks(q) /\ C \subseteq QueryCalls(q)
    BY DEF WrongTasks, WrongCalls, QueryTasks, QueryCalls
  <2>8. None(batch, C) /\ NetNone(C) /\ None(micro, E)
    BY <2>6, <2>7, Narrower DEF Nothing
  <2>9. ASSUME NEW x \in sent PROVE x \notin C
    <3>1. x.by = q => x.plan = PlanOf[q]
      BY <1>6
    <3>2. x.by = q => RightCall(q, x)'
      BY <2>5, <3>1 DEF RightCall
    <3> QED  BY <3>2 DEF WrongCalls, QueryCalls
  <2>10. ASSUME NEW x \in read PROVE x \notin E
    <3>1. PICK r \in Q : /\ x.job = "looked" /\ x.query = r
                         /\ x.plan = PlanOf[r] /\ x.read = Reads(PlanOf[r])
      BY <1>7
    <3>2. x.query = q => Drew(x.plan, x.read)'
      BY <1>1, <3>1 DEF Drew, Reads, Has, HasNext, Visible
    <3>3. x.query = q => RightTask(q, x)'
      BY <2>5, <3>1, <3>2 DEF RightTask
    <3>4. x \in QueryTasks(q) => x.query = q
      BY <1>9, <3>1, Owners
    <3> QED  BY <3>3, <3>4 DEF WrongTasks, QueryTasks
  <2>11. Turn \notin E
    BY NeverWrong
  <2>12. \A i \in DOMAIN net' : None(net'[i].calls, C)
    BY <1>1, <2>8 DEF NetNone
  <2> HIDE DEF E, C
  <2>13. None(batch', C) /\ None(micro', E)
    BY <1>4, <1>5, <2>8, <2>9, <2>10, <2>11
  <2> QED  BY <2>4, <2>12, <2>13 DEF E, C, NetNone
<1>11. ASSUME NEW q \in Queries, q \notin Q
       PROVE  /\ Fine(q)' /\ None(batch', WrongCalls(q)') /\ NetNone(WrongCalls(q))'
              /\ None(micro', WrongTasks(q)')
  <2>1. asks'[q] = asks[q]
    BY <1>1, <1>11
  <2>2. /\ Fine(q) /\ None(batch, WrongCalls(q)) /\ NetNone(WrongCalls(q))
        /\ None(micro, WrongTasks(q))
    BY DEF PreInv
  <2>3. /\ Fine(q)' /\ WrongCalls(q)' = WrongCalls(q) /\ WrongTasks(q)' \subseteq WrongTasks(q)
    BY <1>3, <2>1, <2>2, StaysFine
  <2> DEFINE E == WrongTasks(q)'
             C == WrongCalls(q)'
  <2>4. None(batch, C) /\ NetNone(C) /\ None(micro, E)
    BY <2>2, <2>3, Narrower
  <2>5. \A x \in sent : x \notin C
    <3>1. \A x \in sent : x.by # q
      BY <1>6, <1>11
    <3> QED  BY <3>1 DEF WrongCalls, QueryCalls
  <2>6. ASSUME NEW x \in read PROVE x \notin E
    <3>1. x.job = "looked" /\ x.query # q
      BY <1>7, <1>11
    <3>2. x \notin QueryTasks(q)
      BY <1>9, <3>1, Owners
    <3> QED  BY <3>2 DEF WrongTasks, QueryTasks
  <2>7. Turn \notin E
    BY NeverWrong
  <2>8. \A i \in DOMAIN net' : None(net'[i].calls, C)
    BY <1>1, <2>4 DEF NetNone
  <2> HIDE DEF E, C
  <2>9. None(batch', C) /\ None(micro', E)
    BY <1>4, <1>5, <2>4, <2>5, <2>6, <2>7
  <2> QED  BY <2>3, <2>8, <2>9 DEF E, C, NetNone
<1>12. ASSUME NEW q \in Queries
       PROVE  /\ Fine(q)' /\ None(batch', WrongCalls(q)') /\ NetNone(WrongCalls(q))'
              /\ None(micro', WrongTasks(q)')
  BY <1>10, <1>11
<1> QED  BY <1>12 DEF PreInv

LEMMA PreOwnWrite ==
  ASSUME TypeInv, PreInv, NEW r, NEW over \in [scene.written -> Layers], OwnWrite(r, over)
  PROVE  PreInv'
<1>1. /\ Queues(micro, waiting, Subscribed(r)) /\ UNCHANGED <<asks, cached, batch, net>>
      /\ \A p \in Plans : Visible(p) # Unknown => Visible(p)' # Unknown
  BY OwnWriteDoes
<1>2. KeepsHaving
  BY <1>1 DEF KeepsHaving, Has, HasNext, Visible
<1>3. PICK ss \in Seq(Starts) : micro' = micro \o ss
  BY <1>1 DEF Queues
<1>4. Brings(Starts)
  <2> SUFFICES ASSUME NEW D, None(micro, D), Starts \cap D = {} PROVE None(micro', D)
    BY DEF Brings
  <2>1. ss \in Seq(Tasks) /\ None(ss, D)
    BY StartsAreNone, NoneOf
  <2> QED  BY <1>3, <2>1, CatHas DEF TypeInv
<1>5. CallsBring({})
  BY <1>1, CallsStay
<1>6. \A q \in Queries : Starts \cap WrongTasks(q)' = {}
  BY NeverWrong
<1> QED  BY <1>1, <1>2, <1>4, <1>5, <1>6, PreSame

LEMMA PreStep ==
  ASSUME LiveInv, PreInv, Next
  PROVE  PreInv'
<1> USE DEF LiveInv
<1>1. ASSUME NEW v \in Views, Mount(v) \/ Unmount(v) \/ Refine(v) PROVE PreInv'
  BY <1>1, PreOpen
<1>2. ASSUME NEW Q \in Bundles, Ask(Q) PROVE PreInv'
  BY <1>2, PreAsk
<1>3. CASE Microtask
  BY <1>3, PreRecompute, PreInclude, PreLooked, PreFallBack, PreRelate, PreAnswer,
     PreEndRefresh, PreEndQuery DEF Microtask, Recompute, OneShot, Settle
<1>4. CASE \/ Flush \/ \E i \in DOMAIN net : \E refused : Serve(i, refused)
           \/ \E p \in Plans : Retire(p)
           \/ (\E s \in Instances, p \in Plans : Edit(s, p)) \/ Cut \/ Reconnects \/ Relays
  BY <1>4, PreSource
<1>5. ASSUME NEW i \in DOMAIN net, Respond(i) \/ Drop(i) PROVE PreInv'
  BY <1>5, PreArrives
<1>6. CASE Hear
  BY <1>6, PreHear
<1>7. ASSUME NEW r \in Resources, NEW over \in [scene.written -> Layers], OwnWrite(r, over)
      PROVE  PreInv'
  BY <1>7, PreOwnWrite
<1> QED  BY <1>1, <1>2, <1>3, <1>4, <1>5, <1>6, <1>7 DEF Next

LEMMA PreStart ==
  ASSUME Init
  PROVE  PreInv
<1>1. /\ batch = <<>> /\ net = <<>> /\ micro = <<>> /\ asks = [q \in Queries |-> Unasked]
  BY DEF Init
<1>2. \A q \in Queries : Len(Includes[q]) \in Nat
  BY IncludesTyped
<1>3. Len(<<>>) = 0 /\ DOMAIN <<>> = {}
  OBVIOUS
<1>4. \A D : None(batch, D) /\ NetNone(D) /\ None(micro, D)
  BY <1>1, EmptyHas DEF NetNone
<1>5. ASSUME NEW q \in Queries PROVE Fine(q)
  <2>1. asks[q].stage = "idle" /\ asks[q].kids = <<>>
    BY <1>1 DEF Unasked
  <2> QED  BY <1>2, <1>3, <2>1 DEF Fine
<1> QED  BY <1>4, <1>5 DEF PreInv

LEMMA PreStutters ==
  ASSUME TypeInv, PreInv, UNCHANGED vars
  PROVE  PreInv'
<1>1. UNCHANGED <<asks, micro, cached, laid, batch, net>>
  BY DEF vars, client
<1>2. Brings({})
  BY <1>1 DEF Brings
<1> QED  BY <1>1, <1>2, CallsStay, PreOthers

\* A relation asks for all the rows related.
LEMMA KidIsWhole ==
  ASSUME NEW spec \in Specs, NEW p \in Plans, NEW n \in Results, ChildPlanFor(spec, p, n) # NoPlan
  PROVE  /\ Shape[ChildPlanFor(spec, p, n)] = "where"
         /\ ResourceOf[ChildPlanFor(spec, p, n)] = TargetOf[spec]
<1> DEFINE c == <<spec, p, n>>
<1>1. n # Unknown /\ ChildPlanFor(spec, p, n) = ChildPlan[c]
  BY DEF ChildPlanFor
<1>2. c \in Specs \X Plans \X Versions /\ c[1] = spec
  BY <1>1 DEF Results
<1>3. c \in DOMAIN ChildPlan
  BY <1>2, LiveAssumption
<1> HIDE DEF c
<1> QED  BY <1>1, <1>2, <1>3, LiveAssumption

LEMMA PreShows ==
  ASSUME TypeInv, PreInv
  PROVE  PreloadedIsLocal
<1> SUFFICES ASSUME NEW Q \in Bundles, PreloadState(Q) = "ready", NEW q \in Q
             PROVE  /\ PlanOf[q] \notin Declined /\ Shape[PlanOf[q]] = "where"
                         => Known(PlanOf[q], Visible(PlanOf[q])) = "complete"
                    /\ \A i \in DOMAIN Includes[q] :
                         CanRead(KidOf(q, i)) =>
                           Known(KidOf(q, i), Visible(KidOf(q, i))) = "complete"
  BY DEF PreloadedIsLocal, CanRead, KidOf
<1>1. q \in Queries /\ asks[q].stage = "done"
  BY LiveAssumption DEF PreloadState
<1>2. Fine(q) /\ AllJoined(q)
  BY <1>1 DEF PreInv, Fine
<1>3. \A p \in Plans : Shape[p] = "where" /\ Has(p) => Known(p, Visible(p)) = "complete"
  BY DEF Known, Has
<1>4. PlanOf[q] \notin Declined /\ Shape[PlanOf[q]] = "where"
        => Known(PlanOf[q], Visible(PlanOf[q])) = "complete"
  BY <1>1, <1>2, <1>3, IncludesTyped DEF Fine
<1>5. ASSUME NEW i \in DOMAIN Includes[q], CanRead(KidOf(q, i))
      PROVE  Known(KidOf(q, i), Visible(KidOf(q, i))) = "complete"
  <2>1. /\ Len(Includes[q]) \in Nat /\ DOMAIN Includes[q] = 1..Len(Includes[q])
        /\ Len(asks[q].kids) \in Nat /\ DOMAIN asks[q].kids = 1..Len(asks[q].kids)
    BY <1>1, IncludesTyped, AskIs
  <2>2. i \in DOMAIN asks[q].kids
    BY <1>2, <2>1 DEF AllJoined
  <2>3. Has(KidOf(q, i))
    BY <1>2, <1>5, <2>2 DEF Fine
  <2>4. KidOf(q, i) \in Plans
    BY <1>1, <1>5, <2>1, AskIs DEF CanRead
  <2>5. Shape[KidOf(q, i)] = "where"
    <3>1. /\ Includes[q][i] \in Specs /\ PlanOf[q] \in Plans /\ asks[q].rows \in Results
          /\ KidOf(q, i) # NoPlan
      BY <1>1, <1>5, <2>1, IncludesTyped, AskIs DEF CanRead
    <3> QED  BY <3>1, KidIsWhole DEF KidOf
  <2> QED  BY <1>3, <2>3, <2>4, <2>5
<1> QED  BY <1>4, <1>5

\* What a preload that is ready asked for is completely known to the cache:
\* what it wanted was read there whole, or answered and ingested first, and
\* nothing takes it away again (engine.ts:183-199).
THEOREM PreloadsStayLocal == Spec => []PreloadedIsLocal
<1>1. Init => PreInv
  BY PreStart
<1>2. LiveInv /\ PreInv /\ [Next]_vars => PreInv'
  BY PreStep, PreStutters DEF LiveInv
<1>3. LiveInv /\ PreInv => PreloadedIsLocal
  BY PreShows DEF LiveInv
<1> QED  BY <1>1, <1>2, <1>3, LiveStays, PTL DEF Spec

=============================================================================
