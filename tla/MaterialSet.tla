---------------------------- MODULE MaterialSet ----------------------------
(***************************************************************************)
(* What the overlay material table of the player chams promises its        *)
(* callers: a set of materials that only grows, with room for only so many.*)
(* As long as the set is not full, an insertion lands, a lookup that starts*)
(* after it finds the material, and a lookup never finds a material that   *)
(* nobody added.  A lookup that overlaps an insertion may answer either    *)
(* way.  Once the set is full it stays full: an insertion may be dropped   *)
(* and a lookup may find too much, but never too little.                   *)
(***************************************************************************)
CONSTANTS Threads, Materials

VARIABLES
  members,  \* the materials added so far
  full,     \* has every place been promised to some insertion
  call,     \* the operation each thread is in
  mat,      \* its argument
  owed,     \* was the argument a member when the operation started
  answer    \* what the thread's last lookup returned

vars == <<members, full, call, mat, owed, answer>>

Init ==
  /\ members = {}
  /\ full = FALSE
  /\ call = [t \in Threads |-> "idle"]
  /\ mat \in [Threads -> Materials]
  /\ owed = [t \in Threads |-> FALSE]
  /\ answer = [t \in Threads |-> "none"]

Start(t, m, operation) ==
  /\ call[t] = "idle"
  /\ call' = [call EXCEPT ![t] = operation]
  /\ mat' = [mat EXCEPT ![t] = m]
  /\ owed' = [owed EXCEPT ![t] = m \in members]
  /\ answer' = [answer EXCEPT ![t] = "none"]
  /\ UNCHANGED <<members, full>>

Find(t, found) ==
  /\ call[t] = "find"
  /\ found => mat[t] \in members \/ full
  /\ ~found => ~owed[t]
  /\ answer' = [answer EXCEPT ![t] = IF found THEN "yes" ELSE "no"]
  /\ call' = [call EXCEPT ![t] = "idle"]
  /\ UNCHANGED <<members, full, mat, owed>>

\* The argument is a member when an insertion returns, whether this thread
\* put it there or found it.
Add(t) ==
  /\ call[t] = "add"
  /\ members' = members \cup {mat[t]}
  /\ call' = [call EXCEPT ![t] = "idle"]
  /\ UNCHANGED <<full, mat, owed, answer>>

\* An insertion takes the last place.
FillUp(t) ==
  /\ call[t] = "add"
  /\ full' = TRUE
  /\ UNCHANGED <<members, call, mat, owed, answer>>

\* An insertion that finds no place returns all the same.
Drop(t) ==
  /\ call[t] = "add"
  /\ full
  /\ call' = [call EXCEPT ![t] = "idle"]
  /\ UNCHANGED <<members, full, mat, owed, answer>>

Next ==
  \E t \in Threads :
    \/ \E m \in Materials, operation \in {"find", "add"} : Start(t, m, operation)
    \/ \E found \in BOOLEAN : Find(t, found)
    \/ Add(t)
    \/ FillUp(t)
    \/ Drop(t)

Spec == Init /\ [][Next]_vars
=============================================================================
