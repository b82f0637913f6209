----------------------------- MODULE MCLiveData -----------------------------
(***************************************************************************)
(* A small application: a list of issues (board) whose rows relate to two  *)
(* sets of users, the users they relate to at first (people), the latest   *)
(* issues (top), an account that does not exist at first (profile) and a   *)
(* price that is never cached (ticker), and queries of some of these.      *)
(***************************************************************************)
EXTENDS LiveDataProperties

CONSTANTS list, ann, bob, latest, account, price, issue, user, stock, setting, author, reviewer,
          board, people, top, profile, ticker, peek, glance, quote, s1, s2, engine, none

MCPlans == {list, ann, bob, latest, account, price}
MCResources == {issue, user, stock, setting}
MCResourceOf ==
  [p \in MCPlans |-> IF p \in {list, latest} THEN issue ELSE IF p = price THEN stock
               ELSE IF p = account THEN setting ELSE user]
MCModeOf ==
  [r \in MCResources |-> IF r = stock THEN "connection" ELSE IF r = setting THEN "document"
                        ELSE "collection"]
MCShape ==
  [p \in MCPlans |-> IF p = latest THEN "window" ELSE IF p = account THEN "one" ELSE "where"]
MCVacant == {<<account, 0>>, <<latest, 0>>, <<list, 2>>}
MCSpecs == {author, reviewer}
MCTargetOf == [spec \in MCSpecs |-> user]
\* Before an edit the issues relate to ann twice, after it to bob once.
MCChildPlan ==
  [c \in MCSpecs \X MCPlans \X (0..MaxWrites) |->
     IF c[2] # list THEN none
     ELSE IF c[3] = 0 THEN ann ELSE IF c[1] = author THEN bob ELSE none]
MCViews == {board, people, top, profile, ticker}
MCQueries == {peek, glance, quote}
MCPlanOf ==
  [u \in MCViews \cup MCQueries |->
     CASE u \in {board, peek} -> list [] u = people -> ann [] u \in {top, glance} -> latest
       [] u = profile -> account [] OTHER -> price]
MCIncludes ==
  [u \in MCViews \cup MCQueries |->
     IF u = board THEN <<author, reviewer>> ELSE IF u = peek THEN <<author>> ELSE <<>>]
MCBundles == {{peek}, {glance}, {quote}, {peek, glance}}
MCChanges == MCPlans \X (1..MaxWrites)
MCHomes == {[k \in {engine} |-> s1]}

\* An own write deletes the issues, or is a change of a user.
MCLayers == {0, 1}
MCOverlaid ==
  [c \in MCPlans \X (0..(MaxWrites + 1)) \X MCLayers |->
     IF c[3] = 1 /\ c[2] <= MaxWrites THEN 2 ELSE c[2]]

\* Limits: on mounts, edits, failures, cuts and own writes.
Plays(uses, edited, written, forever, refines, limits) ==
  [uses |-> uses, edited |-> edited, written |-> written, forever |-> forever,
   refines |-> refines, mounts |-> limits[1], edits |-> limits[2], faults |-> limits[3],
   cuts |-> limits[4], writes |-> limits[5]]
MCScenes ==
  {Plays({board}, {list}, {}, FALSE, {board}, <<1, 1, 0, 0, 0>>),
   Plays({people}, {ann}, {}, FALSE, {}, <<2, 1, 0, 0, 0>>),
   Plays({people}, {ann}, {}, TRUE, {}, <<2, 1, 1, 0, 0>>),
   Plays({people}, {ann}, {}, FALSE, {}, <<1, 2, 0, 0, 0>>),
   Plays({people}, {ann}, {}, FALSE, {}, <<1, 1, 1, 1, 0>>),
   Plays({people, peek}, {ann}, {}, FALSE, {}, <<1, 1, 0, 0, 0>>),
   Plays({board, peek}, {}, {}, FALSE, {}, <<1, 0, 1, 0, 0>>),
   Plays({board, people}, {}, {}, FALSE, {board}, <<2, 0, 0, 0, 0>>),
   Plays({top, glance}, {latest}, {}, FALSE, {}, <<1, 1, 1, 0, 0>>),
   Plays({profile}, {account}, {}, FALSE, {}, <<1, 1, 0, 0, 0>>),
   Plays({ticker, quote}, {price}, {}, FALSE, {}, <<1, 0, 1, 0, 0>>),
   Plays({peek, glance}, {}, {}, FALSE, {}, <<0, 0, 1, 0, 0>>),
   Plays({board}, {}, {list}, FALSE, {}, <<1, 0, 0, 0, 2>>),
   Plays({people}, {}, {ann}, FALSE, {}, <<1, 0, 0, 0, 2>>),
   Plays({board}, {ann}, {}, FALSE, {}, <<1, 1, 0, 0, 0>>)}
=============================================================================
