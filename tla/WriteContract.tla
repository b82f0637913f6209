--------------------------- MODULE WriteContract ---------------------------
(***************************************************************************)
(* What mutate() promises its caller, with no queue, no network and no     *)
(* cache: a submitted write is taken or declined by its authority at most  *)
(* once in all, the promise resolves only after it took effect exactly     *)
(* once, and rejects only if it had no effect and will have none.          *)
(***************************************************************************)
EXTENDS Naturals

CONSTANT Writes

VARIABLES
  phase,              \* [Writes -> {"idle", "submitted", "resolved", "rejected"}]
  applied, declined   \* [Writes -> Nat]: how often the authority did so

cvars == <<phase, applied, declined>>

CInit ==
  /\ phase = [w \in Writes |-> "idle"]
  /\ applied = [w \in Writes |-> 0]
  /\ declined = [w \in Writes |-> 0]

Submit(w) ==
  /\ phase[w] = "idle"
  /\ phase' = [phase EXCEPT ![w] = "submitted"]
  /\ UNCHANGED <<applied, declined>>

\* The authority takes the write, or declines it, and not a second time.
Decide(w) ==
  /\ phase[w] = "submitted" /\ applied[w] = 0 /\ declined[w] = 0
  /\ \/ applied' = [applied EXCEPT ![w] = @ + 1] /\ UNCHANGED declined
     \/ declined' = [declined EXCEPT ![w] = @ + 1] /\ UNCHANGED applied
  /\ UNCHANGED phase

Resolve(w) ==
  /\ phase[w] = "submitted" /\ applied[w] = 1
  /\ phase' = [phase EXCEPT ![w] = "resolved"]
  /\ UNCHANGED <<applied, declined>>

\* The write was declined, or it failed before it reached the authority.
RejectIt(w) ==
  /\ phase[w] = "submitted" /\ applied[w] = 0
  /\ phase' = [phase EXCEPT ![w] = "rejected"]
  /\ UNCHANGED <<applied, declined>>

CNext == \E w \in Writes : Submit(w) \/ Decide(w) \/ Resolve(w) \/ RejectIt(w)
CSpec == CInit /\ [][CNext]_cvars
=============================================================================
