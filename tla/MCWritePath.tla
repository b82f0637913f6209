---------------------------- MODULE MCWritePath ----------------------------
(***************************************************************************)
(* Small instances of the write path: three writes to one record, or a     *)
(* record's life beside writes that no server takes.                       *)
(***************************************************************************)
EXTENDS WritePathProperties

CONSTANTS w1, w2, w3, w4, w5, r1, r2, r3

\* Three rapid edits of one versioned record.
RapidTarget == [w \in Writes |-> r1]
RapidOp == [w \in Writes |-> "patch"]

\* Two patches and an action that must not be replayed, on one record.
StormOp == [w \in Writes |-> IF w = w3 THEN "action" ELSE "patch"]

\* A record's life: created, patched and deleted; and on two other records an
\* action that only the cache takes and a patch that nobody takes.
LifeTarget == [w \in Writes |-> CASE w = w4 -> r2 [] w = w5 -> r3 [] OTHER -> r1]
LifeOp == [w \in Writes |-> CASE w = w1 -> "create" [] w = w2 -> "patch"
                              [] w = w3 -> "delete" [] w = w4 -> "action"
                              [] w = w5 -> "patch"]
=============================================================================
