----------------------------- MODULE ChangeFeed -----------------------------
(***************************************************************************)
(* The change feeds of a deployment: one ChangeFeed per server instance,   *)
(* bridged by syncVia over one pub/sub channel, and the Server-Sent Event  *)
(* streams by which clients follow the instance they are connected to.     *)
(*                                                                         *)
(* The channel delivers every message to every subscriber, the publisher   *)
(* included, in the order of publication (Redis pub/sub).  A feed calls    *)
(* its listeners synchronously, so `relaying` is true only within one      *)
(* step: it is a parameter of Emit.  A stream is cut when the connection   *)
(* is lost, a proxy times out or the instance goes away; the browser then  *)
(* reconnects, to any instance, and is not told what it missed.            *)
(***************************************************************************)
EXTENDS Sequences, Functions

CONSTANTS
  Instances,     \* the server processes
  Changes,       \* the accepted writes that may happen
  Clients,       \* the engines that connect to `events`
  Nowhere,       \* the place of a client without a connection
  Homes          \* where the clients may be connected at the start

ASSUME FeedAssumption ==
  Nowhere \notin Instances /\ Homes \subseteq [Clients -> Instances]

VARIABLES
  made,          \* ghost: the writes accepted so far
  fired,         \* ghost: the calls of each feed's emit, in order
  bus,           \* the channel's messages on their way to each instance
  stream,        \* the instance each client is connected to
  events         \* the events on their way to each client

feedVars == <<made, fired, bus, stream, events>>

Envelopes == [origin: Instances, change: Changes]
Envelope(s, c) == [origin |-> s, change |-> c]

FeedInit ==
  /\ made = {}
  /\ fired = [s \in Instances |-> <<>>]
  /\ bus = [s \in Instances |-> <<>>]
  /\ stream \in Homes
  /\ events = [k \in Clients |-> <<>>]

\* The channel hands a message to every subscriber, the publisher included.
Publish(waiting, message) == [t \in Instances |-> Append(waiting[t], message)]

\* Mutant: what was received is published again.
Bug_Republished(s, c, relaying, waiting) == Publish(waiting, Envelope(s, c))

\* syncVia's own listener: publish, but not what is being relayed.
Published(s, c, relaying, waiting) ==
  IF relaying THEN waiting ELSE Publish(waiting, Envelope(s, c))

\* emit: every listener of the feed of s is called with c.
Emit(s, c, relaying, waiting) ==
  /\ fired' = [fired EXCEPT ![s] = Append(@, c)]
  /\ events' = [k \in Clients |->
                  IF stream[k] = s THEN Append(events[k], c) ELSE events[k]]
  /\ bus' = Published(s, c, relaying, waiting)

\* An instance accepted a write.
Accept(s, c) ==
  /\ c \notin made
  /\ made' = made \cup {c}
  /\ Emit(s, c, FALSE, bus)
  /\ UNCHANGED stream

\* A message of the channel reaches an instance, which ignores its own.
Relay(s) ==
  /\ bus[s] # <<>>
  /\ LET message == Head(bus[s])
         waiting == [bus EXCEPT ![s] = Tail(@)]
     IN IF message.origin = s
        THEN bus' = waiting /\ UNCHANGED <<fired, events>>
        ELSE Emit(s, message.change, TRUE, waiting)
  /\ UNCHANGED <<made, stream>>

\* The connection is lost, with the events under way.
Disconnect(k) ==
  /\ stream[k] # Nowhere
  /\ stream' = [stream EXCEPT ![k] = Nowhere]
  /\ events' = [events EXCEPT ![k] = <<>>]
  /\ UNCHANGED <<made, fired, bus>>

Reconnect(k, s) ==
  /\ stream[k] = Nowhere
  /\ stream' = [stream EXCEPT ![k] = s]
  /\ UNCHANGED <<made, fired, bus, events>>

\* The client takes the next event off its stream.
Takes(k) ==
  /\ events[k] # <<>>
  /\ events' = [events EXCEPT ![k] = Tail(@)]
  /\ UNCHANGED <<made, fired, bus, stream>>

FeedNext ==
  \/ \E s \in Instances, c \in Changes : Accept(s, c)
  \/ \E s \in Instances : Relay(s)
  \/ \E k \in Clients : Disconnect(k) \/ Takes(k)
  \/ \E k \in Clients, s \in Instances : Reconnect(k, s)

FeedSpec == FeedInit /\ [][FeedNext]_feedVars

Broadcast == INSTANCE ChangeBroadcast WITH told <- fired

(* However the instances exchange them, a change is told once by each of   *)
(* them: no loops and no double-fires through the channel.                 *)
KeepsBroadcast == Broadcast!Spec
=============================================================================
