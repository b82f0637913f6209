-------------------------- MODULE MCDurableSession --------------------------
(***************************************************************************)
(* Three writes over a restart, two over two.                              *)
(***************************************************************************)
EXTENDS DurableSessionProperties

OfKinds(first, second, ws, ss, fs) ==
  {[kind |-> <<k, l, "plain">>, writes |-> ws, sessions |-> ss, faults |-> fs] :
     k \in first, l \in second}
P == {"plain"}
SmallPlays ==
  OfKinds(P, P, 3, 2, 0) \cup OfKinds(P, P, 2, 3, 1)
  \cup OfKinds(Kinds, {"plain", "action"}, 2, 2, 1)
=============================================================================
