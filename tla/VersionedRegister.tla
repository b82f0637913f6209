------------------------- MODULE VersionedRegister -------------------------
(***************************************************************************)
(* What the optimistic check promises of a collection of records: a write  *)
(* that names a base version is accepted only if the record is still at    *)
(* it and no other write based on it has won, so that of all writes based  *)
(* on one version at most one wins, and an accepted write changes the      *)
(* fields it names and moves the version on by one.                        *)
(*                                                                         *)
(* The promise is void about a record once two requests have raced for it: *)
(* then its version may be anything, though a write still only changes the *)
(* fields it names.  On a torn record not even that is left.               *)
(***************************************************************************)
EXTENDS Integers

CONSTANTS
  Records,     \* identities
  Nothing,     \* no record
  Fresh,       \* the rows a record may be created with
  Changes      \* the changes of writes: some fields with their values

VARIABLES
  register,    \* [Records -> rows or Nothing]; a row is [data, version]
  won,         \* the winners since the record was created: [base, by], the
               \* version a write named and who wrote it
  raced, torn  \* records whose promises are void

rvars == <<register, won, raced, torn>>

Sound == raced' = raced /\ torn' = torn

Overwrite(data, change) ==
  [fd \in DOMAIN data |-> IF fd \in DOMAIN change THEN change[fd] ELSE data[fd]]

Put(id, row) == register' = [register EXCEPT ![id] = row]

Create(id) ==
  /\ \E row \in Fresh : Put(id, row)
  /\ won' = [won EXCEPT ![id] = {}]
  /\ Sound

Delete(id) ==
  /\ Put(id, Nothing)
  /\ won' = [won EXCEPT ![id] = {}]
  /\ Sound

\* A write at any version, and one of `who` that names a base: nobody has won
\* at that base before, and afterwards `who` has.
Write(id, change) ==
  /\ register[id] # Nothing
  /\ Put(id, [data |-> Overwrite(register[id].data, change),
              version |-> register[id].version + 1])
  /\ won' = won
  /\ Sound

WriteIf(id, change, base, who) ==
  /\ register[id] # Nothing /\ register[id].version = base
  /\ \A winner \in won[id] : winner.base # base
  /\ Put(id, [data |-> Overwrite(register[id].data, change), version |-> base + 1])
  /\ won' = [won EXCEPT ![id] = @ \cup {[base |-> base, by |-> who]}]
  /\ Sound

\* Only this record's entries change.
OnlyAbout(id) ==
  /\ \A other \in Records \ {id} : register'[other] = register[other] /\ won'[other] = won[other]
  /\ raced' \subseteq raced \cup {id} /\ raced \subseteq raced'
  /\ torn' \subseteq torn \cup {id} /\ torn \subseteq torn'

RacedWrite(id, change) ==
  /\ id \in raced'
  /\ OnlyAbout(id)
  /\ \/ register'[id] = register[id]
     \/ /\ register[id] # Nothing /\ register'[id] # Nothing
        /\ register'[id].data = Overwrite(register[id].data, change)

TornWrite(id) == id \in torn' /\ OnlyAbout(id)

RInit ==
  /\ won = [id \in Records |-> {}]
  /\ raced \subseteq Records /\ torn = {}

RNext ==
  \E id \in Records :
    \/ Create(id)
    \/ Delete(id)
    \/ \E change \in Changes :
         \/ Write(id, change)
         \/ \E new \in won'[id] \ won[id] : WriteIf(id, change, new.base, new.by)
         \/ RacedWrite(id, change)
    \/ TornWrite(id)

RSpec == RInit /\ [][RNext]_rvars
=============================================================================
