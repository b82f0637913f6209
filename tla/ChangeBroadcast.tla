-------------------------- MODULE ChangeBroadcast --------------------------
(***************************************************************************)
(* What the change feeds of a deployment promise together: a change is     *)
(* made at one instance, and no instance tells its listeners of a change   *)
(* that was not made, or of one change a second time.                      *)
(***************************************************************************)
EXTENDS Sequences, Functions

CONSTANTS
  Instances,     \* the server processes
  Changes        \* the accepted writes that may happen

VARIABLES
  made,          \* the writes accepted so far
  told           \* what each instance told its listeners, in order

Init ==
  /\ made = {}
  /\ told = [s \in Instances |-> <<>>]

Make(s, c) ==
  /\ c \notin made
  /\ made' = made \cup {c}
  /\ told' = [told EXCEPT ![s] = Append(@, c)]

Tell(s, c) ==
  /\ c \in made /\ c \notin Range(told[s])
  /\ told' = [told EXCEPT ![s] = Append(@, c)]
  /\ UNCHANGED made

Next == \E s \in Instances, c \in Changes : Make(s, c) \/ Tell(s, c)

Spec == Init /\ [][Next]_<<made, told>>
=============================================================================
