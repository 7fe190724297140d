-------------------------- MODULE OverlayMaterials --------------------------
(***************************************************************************)
(* The lock-free table of overlay materials in player.chams.cpp.  The      *)
(* engine's render threads run on_generate_primitives, which adds a        *)
(* material, and on_sort_primitives, which looks materials up, at once and *)
(* without a lock.  A step below is one access to shared memory: the load  *)
(* of the count, the load of a slot, the fetch_add that claims a slot, the *)
(* store that publishes it, the fetch_sub that gives back a claim beyond   *)
(* the table.  Every access names one location, and x86 keeps the order of *)
(* a thread's loads and of its stores, so an interleaving of these steps is*)
(* what the build can do.                                                  *)
(***************************************************************************)
EXTENDS Integers, FiniteSets

CONSTANTS
  Threads,     \* render threads
  Materials,   \* material pointers an overlay layer can use
  Capacity,    \* k_max_overlay_materials
  NoMaterial   \* the zero of a slot that was never stored

ASSUME CapacityAssumption == Capacity \in Nat \ {0}
ASSUME MaterialAssumption == NoMaterial \notin Materials
ASSUME ThreadAssumption == IsFiniteSet(Threads)

VARIABLES
  slots,    \* m_overlay_materials
  count,    \* m_overlay_material_count
  pc,       \* where each thread is
  mat,      \* its argument
  limit,    \* the count it loaded on entry
  pos,      \* i, the slot it reads next; idx, once it has claimed one
  owed,     \* history: was its argument published when its call began
  answer    \* what its last lookup returned

vars == <<slots, count, pc, mat, limit, pos, owed, answer>>

Slots == 0 .. Capacity - 1
Members == {slots[s] : s \in Slots} \ {NoMaterial}

TypeOK ==
  /\ slots \in [Slots -> Materials \cup {NoMaterial}]
  /\ count \in Nat
  /\ pc \in [Threads -> {"idle", "find", "add", "store", "retract"}]
  /\ mat \in [Threads -> Materials]
  /\ limit \in [Threads -> Nat]
  /\ pos \in [Threads -> Nat]
  /\ owed \in [Threads -> BOOLEAN]
  /\ answer \in [Threads -> {"none", "yes", "no"}]

Init ==
  /\ slots = [s \in Slots |-> NoMaterial]
  /\ count = 0
  /\ pc = [t \in Threads |-> "idle"]
  /\ mat \in [Threads -> Materials]
  /\ limit = [t \in Threads |-> 0]
  /\ pos = [t \in Threads |-> 0]
  /\ owed = [t \in Threads |-> FALSE]
  /\ answer = [t \in Threads |-> "none"]

-----------------------------------------------------------------------------
\* Both operations begin by loading the count, once.
Enter(t, m, operation) ==
  /\ pc[t] = "idle"
  /\ pc' = [pc EXCEPT ![t] = operation]
  /\ mat' = [mat EXCEPT ![t] = m]
  /\ limit' = [limit EXCEPT ![t] = count]
  /\ pos' = [pos EXCEPT ![t] = 0]
  /\ owed' = [owed EXCEPT ![t] = m \in Members]
  /\ answer' = [answer EXCEPT ![t] = "none"]
  /\ UNCHANGED <<slots, count>>

\* What a load of slot s can return.  The scan is bounded by the count and
\* not by the array, and the count may exceed the capacity for a moment: a
\* load past the array can return anything.
Loads(s) == IF s \in Slots THEN {slots[s]} ELSE Materials \cup {NoMaterial}

\* Mutated forms used to test the properties stand before what they mutate.
ScanNextBlind(t) ==
  /\ pc[t] \in {"find", "add"}
  /\ pos[t] < limit[t]
  /\ pos' = [pos EXCEPT ![t] = pos[t] + 1]
  /\ UNCHANGED <<slots, count, pc, mat, limit, owed, answer>>

ScanNextSkips(t) ==
  /\ pc[t] \in {"find", "add"}
  /\ pos[t] < limit[t]
  /\ \E v \in Loads(pos[t]) : v # mat[t]
  /\ pos' = [pos EXCEPT ![t] = pos[t] + 2]
  /\ UNCHANGED <<slots, count, pc, mat, limit, owed, answer>>

\* One turn of the scan that does not match.
ScanNext(t) ==
  /\ pc[t] \in {"find", "add"}
  /\ pos[t] < limit[t]
  /\ \E v \in Loads(pos[t]) : v # mat[t]
  /\ pos' = [pos EXCEPT ![t] = pos[t] + 1]
  /\ UNCHANGED <<slots, count, pc, mat, limit, owed, answer>>

ScanHitAny(t) ==
  /\ pc[t] \in {"find", "add"}
  /\ pos[t] < limit[t]
  /\ Loads(pos[t]) # {NoMaterial}
  /\ pc' = [pc EXCEPT ![t] = "idle"]
  /\ answer' = IF pc[t] = "find" THEN [answer EXCEPT ![t] = "yes"] ELSE answer
  /\ UNCHANGED <<slots, count, mat, limit, pos, owed>>

\* A match ends either operation; add_overlay_material returns nothing.
ScanHit(t) ==
  /\ pc[t] \in {"find", "add"}
  /\ pos[t] < limit[t]
  /\ mat[t] \in Loads(pos[t])
  /\ pc' = [pc EXCEPT ![t] = "idle"]
  /\ answer' = IF pc[t] = "find" THEN [answer EXCEPT ![t] = "yes"] ELSE answer
  /\ UNCHANGED <<slots, count, mat, limit, pos, owed>>

FindMiss(t) ==
  /\ pc[t] = "find"
  /\ pos[t] >= limit[t]
  /\ pc' = [pc EXCEPT ![t] = "idle"]
  /\ answer' = [answer EXCEPT ![t] = "no"]
  /\ UNCHANGED <<slots, count, mat, limit, pos, owed>>

ClaimLoadedCount(t) ==
  /\ pc[t] = "add"
  /\ pos[t] >= limit[t]
  /\ pos' = [pos EXCEPT ![t] = limit[t]]
  /\ count' = limit[t] + 1
  /\ pc' = [pc EXCEPT ![t] = IF limit[t] < Capacity THEN "store" ELSE "retract"]
  /\ UNCHANGED <<slots, mat, limit, owed, answer>>

\* fetch_add: the old count is the index this thread owns, if there is one.
Claim(t) ==
  /\ pc[t] = "add"
  /\ pos[t] >= limit[t]
  /\ pos' = [pos EXCEPT ![t] = count]
  /\ count' = count + 1
  /\ pc' = [pc EXCEPT ![t] = IF count < Capacity THEN "store" ELSE "retract"]
  /\ UNCHANGED <<slots, mat, limit, owed, answer>>

Store(t) ==
  /\ pc[t] = "store"
  /\ slots' = [slots EXCEPT ![pos[t]] = mat[t]]
  /\ pc' = [pc EXCEPT ![t] = "idle"]
  /\ UNCHANGED <<count, mat, limit, pos, owed, answer>>

RetractToLoaded(t) ==
  /\ pc[t] = "retract"
  /\ count' = limit[t]
  /\ pc' = [pc EXCEPT ![t] = "idle"]
  /\ UNCHANGED <<slots, mat, limit, pos, owed, answer>>

Retract(t) ==
  /\ pc[t] = "retract"
  /\ count' = count - 1
  /\ pc' = [pc EXCEPT ![t] = "idle"]
  /\ UNCHANGED <<slots, mat, limit, pos, owed, answer>>

Next ==
  \E t \in Threads :
    \/ \E m \in Materials, operation \in {"find", "add"} : Enter(t, m, operation)
    \/ ScanNext(t)
    \/ ScanHit(t)
    \/ FindMiss(t)
    \/ Claim(t)
    \/ Store(t)
    \/ Retract(t)

Spec == Init /\ [][Next]_vars

-----------------------------------------------------------------------------
\* The threads that hold a claim beyond the table.
Retracting == {t \in Threads : pc[t] = "retract"}

\* Claims beyond the table are on top of a full count, so that giving them
\* back never uncovers a slot.
ClaimsBeyondTable ==
  Retracting # {} => count >= Capacity + Cardinality(Retracting)

\* A lookup whose material was published when it began has the slot ahead.
OwedAhead ==
  \A t \in Threads : pc[t] = "find" /\ owed[t] =>
    \E s \in Slots : pos[t] <= s /\ s < limit[t] /\ slots[s] = mat[t]

\* Two threads never own one slot, and the slot a thread owns is still empty:
\* add_overlay_material may store without looking (player.chams.cpp:889-893).
SlotsOwnedOnce ==
  \A t \in Threads : pc[t] = "store" =>
    /\ pos[t] \in Slots
    /\ slots[pos[t]] = NoMaterial
    /\ \A u \in Threads \ {t} : pc[u] = "store" => pos[u] # pos[t]

\* The count covers every published slot and every claimed one, even while
\* other threads give back the claims that did not fit (fetch_sub at :897).
CountCoversEntries ==
  /\ \A s \in Slots : slots[s] # NoMaterial => s < count
  /\ \A t \in Threads : pc[t] = "store" => pos[t] < count

\* A lookup that began after its material was published finds it: the sort
\* never takes a known overlay primitive for a regular one.
NeverMissed == \A t \in Threads : answer[t] = "no" => ~owed[t]

\* Two threads may add one material at once, each having missed the other's
\* store; no thread adds it twice, so the copies are bounded by the threads.
CopiesBounded ==
  \A m \in Materials :
    Cardinality({s \in Slots : slots[s] = m}) <= Cardinality(Threads)

\* The table as the abstract set: places are promised by claims, so it is full
\* when the count reaches the capacity, and a claim is part of an insertion.
AbstractCall ==
  [t \in Threads |-> IF pc[t] \in {"store", "retract"} THEN "add" ELSE pc[t]]
Abstract == INSTANCE MaterialSet
  WITH members <- Members, full <- count >= Capacity, call <- AbstractCall

\* The table implements the growing set: every step is a step of MaterialSet
\* or changes nothing its callers can see (player.chams.cpp:862-899).
ImplementsMaterialSet == Abstract!Spec
=============================================================================
