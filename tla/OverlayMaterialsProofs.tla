----------------------- MODULE OverlayMaterialsProofs -----------------------
(***************************************************************************)
(* The safety of the overlay material table for any number of threads,     *)
(* materials and slots.                                                    *)
(***************************************************************************)
EXTENDS OverlayMaterials, FiniteSetTheorems, TLAPS

\* The inductive invariant.  SlotsOwnedOnce needs CountCoversEntries, which a
\* fetch_sub keeps only because of ClaimsBeyondTable; OwedAhead is what
\* NeverMissed says of a lookup that is still running.
IInv ==
  /\ TypeOK
  /\ SlotsOwnedOnce
  /\ CountCoversEntries
  /\ ClaimsBeyondTable
  /\ OwedAhead
  /\ NeverMissed

USE CapacityAssumption, MaterialAssumption, ThreadAssumption

-----------------------------------------------------------------------------
\* The initial table is empty and unclaimed.
LEMMA InitIInv == Init => IInv
<1> SUFFICES ASSUME Init PROVE IInv
  OBVIOUS
<1>1. TypeOK
  BY DEF Init, TypeOK, Slots
<1>2. SlotsOwnedOnce /\ CountCoversEntries
  BY DEF Init, SlotsOwnedOnce, CountCoversEntries, Slots
<1>3. ClaimsBeyondTable
  BY DEF Init, ClaimsBeyondTable, Retracting
<1>4. OwedAhead /\ NeverMissed
  BY DEF Init, OwedAhead, NeverMissed
<1> QED
  BY <1>1, <1>2, <1>3, <1>4 DEF IInv

\* Every step keeps the types.
LEMMA TypeStep == TypeOK /\ SlotsOwnedOnce /\ ClaimsBeyondTable /\ [Next]_vars => TypeOK'
<1> SUFFICES ASSUME TypeOK, SlotsOwnedOnce, ClaimsBeyondTable, [Next]_vars
             PROVE  TypeOK'
  OBVIOUS
<1> USE DEF TypeOK
<1>1. ASSUME NEW t \in Threads, NEW m \in Materials,
             NEW operation \in {"find", "add"}, Enter(t, m, operation)
      PROVE  TypeOK'
  BY <1>1 DEF Enter
<1>2. ASSUME NEW t \in Threads, ScanNext(t) PROVE TypeOK'
  BY <1>2 DEF ScanNext
<1>3. ASSUME NEW t \in Threads, ScanHit(t) PROVE TypeOK'
  BY <1>3 DEF ScanHit
<1>4. ASSUME NEW t \in Threads, FindMiss(t) PROVE TypeOK'
  BY <1>4 DEF FindMiss
<1>5. ASSUME NEW t \in Threads, Claim(t) PROVE TypeOK'
  BY <1>5 DEF Claim
<1>6. ASSUME NEW t \in Threads, Store(t) PROVE TypeOK'
  BY <1>6 DEF Store, SlotsOwnedOnce
<1>7. ASSUME NEW t \in Threads, Retract(t) PROVE TypeOK'
  <2>1. t \in Retracting
    BY <1>7 DEF Retract, Retracting
  <2>2. IsFiniteSet(Retracting)
    BY FS_Subset DEF Retracting
  <2>3. Cardinality(Retracting) \in Nat
    BY <2>2, FS_CardinalityType
  <2>4. count - 1 \in Nat
    BY <2>1, <2>3 DEF ClaimsBeyondTable
  <2> QED
    BY <1>7, <2>4 DEF Retract
<1>8. CASE UNCHANGED vars
  BY <1>8 DEF vars
<1> QED
  BY <1>1, <1>2, <1>3, <1>4, <1>5, <1>6, <1>7, <1>8 DEF Next

\* How the set of retracting threads changes: a claim beyond the table adds
\* one, a retraction removes it, and no other step changes the set.
LEMMA RetractingStep ==
  ASSUME IInv, NEW t \in Threads
  PROVE  /\ IsFiniteSet(Retracting)
         /\ Cardinality(Retracting) \in Nat
         /\ Claim(t) /\ count < Capacity => Retracting' = Retracting
         /\ Claim(t) /\ ~(count < Capacity)
              => /\ Retracting' = Retracting \cup {t}
                 /\ Cardinality(Retracting') = Cardinality(Retracting) + 1
         /\ Retract(t)
              => /\ Retracting' = Retracting \ {t}
                 /\ Cardinality(Retracting') = Cardinality(Retracting) - 1
                 /\ count >= Capacity + Cardinality(Retracting)
<1> USE DEF IInv, TypeOK
<1>1. IsFiniteSet(Retracting) /\ Cardinality(Retracting) \in Nat
  BY FS_Subset, FS_CardinalityType DEF Retracting
<1>2. ASSUME Claim(t), count < Capacity PROVE Retracting' = Retracting
  BY <1>2 DEF Claim, Retracting
<1>3. ASSUME Claim(t), ~(count < Capacity)
      PROVE  /\ Retracting' = Retracting \cup {t}
             /\ Cardinality(Retracting') = Cardinality(Retracting) + 1
  <2>1. t \notin Retracting /\ Retracting' = Retracting \cup {t}
    BY <1>3 DEF Claim, Retracting
  <2> QED
    BY <1>1, <2>1, FS_AddElement
<1>4. ASSUME Retract(t)
      PROVE  /\ Retracting' = Retracting \ {t}
             /\ Cardinality(Retracting') = Cardinality(Retracting) - 1
             /\ count >= Capacity + Cardinality(Retracting)
  <2>1. t \in Retracting /\ Retracting' = Retracting \ {t}
    BY <1>4 DEF Retract, Retracting
  <2> QED
    BY <1>1, <2>1, FS_RemoveElement DEF ClaimsBeyondTable
<1> QED
  BY <1>1, <1>2, <1>3, <1>4

\* Whoever retracts finds a count that stays full without its claim.
LEMMA RetractKeepsFull ==
  ASSUME IInv, NEW t \in Threads, Retract(t)
  PROVE  count - 1 >= Capacity
<1>1. /\ Retracting' = Retracting \ {t}
      /\ Cardinality(Retracting') = Cardinality(Retracting) - 1
      /\ count >= Capacity + Cardinality(Retracting)
      /\ IsFiniteSet(Retracting)
      /\ Cardinality(Retracting) \in Nat
  BY RetractingStep
<1>2. t \in Retracting
  BY DEF Retract, Retracting
<1>3. Cardinality(Retracting) # 0
  BY <1>1, <1>2, FS_EmptySet
<1> QED
  BY <1>1, <1>3 DEF IInv, TypeOK

-----------------------------------------------------------------------------
\* Slots stay owned once and covered by the count.
LEMMA OwnershipStep ==
  ASSUME IInv, [Next]_vars
  PROVE  SlotsOwnedOnce' /\ CountCoversEntries' /\ ClaimsBeyondTable'
<1> USE DEF IInv, TypeOK
<1>a. TypeOK'
  BY TypeStep
<1>1. ASSUME NEW t \in Threads, NEW m \in Materials,
             NEW operation \in {"find", "add"}, Enter(t, m, operation)
      PROVE  SlotsOwnedOnce' /\ CountCoversEntries' /\ ClaimsBeyondTable'
  <2>1. Retracting' = Retracting
    BY <1>1 DEF Enter, Retracting
  <2> QED
    BY <1>1, <2>1 DEF Enter, SlotsOwnedOnce, CountCoversEntries, ClaimsBeyondTable
<1>2. ASSUME NEW t \in Threads, ScanNext(t) \/ ScanHit(t) \/ FindMiss(t)
      PROVE  SlotsOwnedOnce' /\ CountCoversEntries' /\ ClaimsBeyondTable'
  <2>1. Retracting' = Retracting
    BY <1>2 DEF ScanNext, ScanHit, FindMiss, Retracting
  <2> QED
    BY <1>2, <2>1 DEF ScanNext, ScanHit, FindMiss,
                      SlotsOwnedOnce, CountCoversEntries, ClaimsBeyondTable
<1>3. ASSUME NEW t \in Threads, Claim(t)
      PROVE  SlotsOwnedOnce' /\ CountCoversEntries' /\ ClaimsBeyondTable'
  <2>1. SlotsOwnedOnce'
    BY <1>3 DEF Claim, SlotsOwnedOnce, CountCoversEntries, Slots
  <2>2. CountCoversEntries'
    BY <1>3 DEF Claim, CountCoversEntries, Slots
  <2>3. CASE count < Capacity
    <3>1. Retracting' = Retracting /\ Cardinality(Retracting) \in Nat
      BY <1>3, <2>3, RetractingStep
    <3>2. ClaimsBeyondTable'
      BY <1>3, <3>1 DEF Claim, ClaimsBeyondTable
    <3> QED
      BY <2>1, <2>2, <3>2
  <2>4. CASE ~(count < Capacity)
    <3>1. /\ Cardinality(Retracting') = Cardinality(Retracting) + 1
          /\ Cardinality(Retracting) \in Nat
          /\ IsFiniteSet(Retracting)
      BY <1>3, <2>4, RetractingStep
    <3>2. Retracting = {} => Cardinality(Retracting) = 0
      BY FS_EmptySet
    <3>3. count + 1 >= Capacity + Cardinality(Retracting')
      BY <2>4, <3>1, <3>2 DEF ClaimsBeyondTable
    <3>4. ClaimsBeyondTable'
      BY <1>3, <3>3 DEF Claim, ClaimsBeyondTable
    <3> QED
      BY <2>1, <2>2, <3>4
  <2> QED
    BY <2>3, <2>4
<1>4. ASSUME NEW t \in Threads, Store(t)
      PROVE  SlotsOwnedOnce' /\ CountCoversEntries' /\ ClaimsBeyondTable'
  <2>1. Retracting' = Retracting
    BY <1>4 DEF Store, Retracting
  <2>2. SlotsOwnedOnce'
    BY <1>4 DEF Store, SlotsOwnedOnce
  <2>3. CountCoversEntries'
    BY <1>4 DEF Store, CountCoversEntries, SlotsOwnedOnce
  <2> QED
    BY <1>4, <2>1, <2>2, <2>3 DEF Store, ClaimsBeyondTable
<1>5. ASSUME NEW t \in Threads, Retract(t)
      PROVE  SlotsOwnedOnce' /\ CountCoversEntries' /\ ClaimsBeyondTable'
  <2>1. /\ Retracting' = Retracting \ {t}
        /\ Cardinality(Retracting') = Cardinality(Retracting) - 1
        /\ count >= Capacity + Cardinality(Retracting)
        /\ Cardinality(Retracting) \in Nat
    BY <1>5, RetractingStep
  <2>2. count - 1 >= Capacity
    BY <1>5, RetractKeepsFull
  <2>3. SlotsOwnedOnce'
    BY <1>5 DEF Retract, SlotsOwnedOnce
  <2>4. CountCoversEntries'
    BY <1>5, <2>2 DEF Retract, CountCoversEntries, SlotsOwnedOnce, Slots
  <2>5. ClaimsBeyondTable'
    BY <1>5, <2>1 DEF Retract, ClaimsBeyondTable
  <2> QED
    BY <2>3, <2>4, <2>5
<1>6. CASE UNCHANGED vars
  BY <1>6 DEF vars, SlotsOwnedOnce, CountCoversEntries, ClaimsBeyondTable, Retracting
<1> QED
  BY <1>1, <1>2, <1>3, <1>4, <1>5, <1>6 DEF Next

\* A step changes a slot only if it was empty.
LEMMA SlotsKept ==
  ASSUME IInv, [Next]_vars
  PROVE  \A s \in Slots : slots[s] # NoMaterial => slots'[s] = slots[s]
<1> USE DEF IInv, TypeOK
<1>1. ASSUME NEW t \in Threads, Store(t)
      PROVE  \A s \in Slots : slots[s] # NoMaterial => slots'[s] = slots[s]
  BY <1>1 DEF Store, SlotsOwnedOnce
<1>2. slots' = slots \/ \E t \in Threads : Store(t)
  BY DEF Next, Enter, ScanNext, ScanHit, FindMiss, Claim, Retract, vars
<1> QED
  BY <1>1, <1>2

\* A running lookup keeps the slot it owes its caller ahead of it, so it
\* cannot run off the end of its scan without meeting it.
LEMMA LookupStep ==
  ASSUME IInv, [Next]_vars
  PROVE  OwedAhead' /\ NeverMissed'
<1> USE DEF IInv, TypeOK
<1>a. \A s \in Slots : slots[s] # NoMaterial => slots'[s] = slots[s]
  BY SlotsKept
<1>1. ASSUME NEW t \in Threads, NEW m \in Materials,
             NEW operation \in {"find", "add"}, Enter(t, m, operation)
      PROVE  OwedAhead' /\ NeverMissed'
  <2>1. ASSUME m \in Members
        PROVE  \E s \in Slots : 0 <= s /\ s < count /\ slots[s] = m
    BY <2>1 DEF Members, CountCoversEntries, Slots
  <2>2. OwedAhead'
    BY <1>1, <2>1 DEF Enter, OwedAhead
  <2>3. NeverMissed'
    BY <1>1 DEF Enter, NeverMissed
  <2> QED
    BY <2>2, <2>3
<1>2. ASSUME NEW t \in Threads, ScanNext(t)
      PROVE  OwedAhead' /\ NeverMissed'
  <2>1. ASSUME pc[t] = "find", owed[t]
        PROVE  \E s \in Slots : pos[t] + 1 <= s /\ s < limit[t] /\ slots[s] = mat[t]
    <3>1. PICK s \in Slots : pos[t] <= s /\ s < limit[t] /\ slots[s] = mat[t]
      BY <2>1 DEF OwedAhead
    <3>2. s # pos[t]
      BY <1>2, <3>1 DEF ScanNext, Loads
    <3> QED
      BY <3>1, <3>2 DEF Slots
  <2>2. OwedAhead'
    BY <1>2, <2>1 DEF ScanNext, OwedAhead
  <2> QED
    BY <1>2, <2>2 DEF ScanNext, NeverMissed
<1>3. ASSUME NEW t \in Threads, ScanHit(t)
      PROVE  OwedAhead' /\ NeverMissed'
  BY <1>3 DEF ScanHit, OwedAhead, NeverMissed
<1>4. ASSUME NEW t \in Threads, FindMiss(t)
      PROVE  OwedAhead' /\ NeverMissed'
  <2>1. ~owed[t]
    BY <1>4 DEF FindMiss, OwedAhead, Slots
  <2> QED
    BY <1>4, <2>1 DEF FindMiss, OwedAhead, NeverMissed
<1>5. ASSUME NEW t \in Threads, Claim(t) \/ Retract(t)
      PROVE  OwedAhead' /\ NeverMissed'
  BY <1>5 DEF Claim, Retract, OwedAhead, NeverMissed
<1>6. ASSUME NEW t \in Threads, Store(t)
      PROVE  OwedAhead' /\ NeverMissed'
  BY <1>6, <1>a DEF Store, OwedAhead, NeverMissed
<1>7. CASE UNCHANGED vars
  BY <1>7 DEF vars, OwedAhead, NeverMissed
<1> QED
  BY <1>1, <1>2, <1>3, <1>4, <1>5, <1>6, <1>7 DEF Next

LEMMA IInvStep == IInv /\ [Next]_vars => IInv'
<1> SUFFICES ASSUME IInv, [Next]_vars PROVE IInv'
  OBVIOUS
<1>1. TypeOK'
  BY TypeStep DEF IInv
<1>2. SlotsOwnedOnce' /\ CountCoversEntries' /\ ClaimsBeyondTable'
  BY OwnershipStep
<1>3. OwedAhead' /\ NeverMissed'
  BY LookupStep
<1> QED
  BY <1>1, <1>2, <1>3 DEF IInv

LEMMA Invariance == Spec => []IInv
BY InitIInv, IInvStep, PTL DEF Spec

\* A call that loaded a full count runs while the table is full.
LoadedFull == \A t \in Threads : limit[t] >= Capacity => count >= Capacity

\* The count falls only by a retraction, and never below the capacity.
LEMMA LoadedFullStep == IInv /\ LoadedFull /\ [Next]_vars => LoadedFull'
<1> SUFFICES ASSUME IInv, LoadedFull, [Next]_vars PROVE LoadedFull'
  OBVIOUS
<1> USE DEF IInv, TypeOK, LoadedFull
<1>1. ASSUME NEW t \in Threads, NEW m \in Materials,
             NEW operation \in {"find", "add"}, Enter(t, m, operation)
      PROVE  LoadedFull'
  BY <1>1 DEF Enter
<1>2. ASSUME NEW t \in Threads,
             ScanNext(t) \/ ScanHit(t) \/ FindMiss(t) \/ Claim(t) \/ Store(t)
      PROVE  LoadedFull'
  BY <1>2 DEF ScanNext, ScanHit, FindMiss, Claim, Store
<1>3. ASSUME NEW t \in Threads, Retract(t) PROVE LoadedFull'
  BY <1>3, RetractKeepsFull DEF Retract
<1>4. CASE UNCHANGED vars
  BY <1>4 DEF vars
<1> QED
  BY <1>1, <1>2, <1>3, <1>4 DEF Next

LEMMA LoadedFullInvariance == Spec => []LoadedFull
<1>1. Init => LoadedFull
  BY DEF Init, LoadedFull
<1> QED
  BY <1>1, LoadedFullStep, Invariance, PTL DEF Spec

-----------------------------------------------------------------------------
\* The table's variables keep their types: in particular the count never goes
\* negative, whatever is claimed and given back.
THEOREM TypeCorrect == Spec => []TypeOK
BY Invariance, PTL DEF IInv

\* No two threads ever own one slot and no thread stores over another's
\* material (player.chams.cpp:889-893), for any number of threads.
THEOREM SlotOwnership == Spec => []SlotsOwnedOnce
BY Invariance, PTL DEF IInv

\* Giving back claims beyond the table never uncovers a published slot.
THEOREM CountCovers == Spec => []CountCoversEntries
BY Invariance, PTL DEF IInv

\* A lookup that begins after its material was published finds it.
THEOREM LookupComplete == Spec => []NeverMissed
BY Invariance, PTL DEF IInv

-----------------------------------------------------------------------------
(***************************************************************************)
(* The table does not keep who stored what, so the argument for            *)
(* CopiesBounded names an author for every slot: a thread that stored a    *)
(* material and adds it again has its own slot ahead of it and meets it    *)
(* before it can claim another.                                            *)
(***************************************************************************)
Authors(own) ==
  /\ own \in [Slots -> Threads \cup {NoMaterial}]
  /\ \A s \in Slots : slots[s] # NoMaterial => own[s] \in Threads
  /\ \A r, s \in Slots :
       slots[r] # NoMaterial /\ slots[r] = slots[s] /\ own[r] = own[s] => r = s
  /\ \A s \in Slots, t \in Threads : slots[s] = mat[t] /\ own[s] = t =>
       /\ pc[t] = "add" => pos[t] <= s /\ s < limit[t]
       /\ pc[t] # "store"

Authored == \E own \in [Slots -> Threads \cup {NoMaterial}] : Authors(own)

\* Any step but a store leaves every author what he was.
LEMMA AuthorsKept ==
  ASSUME IInv, NEW own, Authors(own), [Next]_vars,
         ~ \E t \in Threads : Store(t)
  PROVE  Authors(own)'
<1> USE DEF IInv, TypeOK, Authors
<1>1. ASSUME NEW t \in Threads, NEW m \in Materials,
             NEW operation \in {"find", "add"}, Enter(t, m, operation)
      PROVE  Authors(own)'
  <2>1. \A s \in Slots : slots[s] = m => 0 <= s /\ s < count
    BY DEF CountCoversEntries, Slots
  <2> QED
    BY <1>1, <2>1 DEF Enter
<1>2. ASSUME NEW t \in Threads, ScanNext(t) PROVE Authors(own)'
  <2>1. ASSUME NEW s \in Slots, slots[s] = mat[t], pos[t] <= s PROVE pos[t] + 1 <= s
    <3>1. s # pos[t]
      BY <1>2, <2>1 DEF ScanNext, Loads
    <3> QED
      BY <2>1, <3>1 DEF Slots
  <2> QED
    BY <1>2, <2>1 DEF ScanNext
<1>3. ASSUME NEW t \in Threads, ScanHit(t) \/ FindMiss(t) \/ Retract(t) PROVE Authors(own)'
  BY <1>3 DEF ScanHit, FindMiss, Retract
<1>4. ASSUME NEW t \in Threads, Claim(t) PROVE Authors(own)'
  <2>1. \A s \in Slots : ~(slots[s] = mat[t] /\ own[s] = t)
    BY <1>4 DEF Claim, Slots
  <2> QED
    BY <1>4, <2>1 DEF Claim
<1>5. CASE UNCHANGED vars
  BY <1>5 DEF vars
<1> QED
  BY <1>1, <1>2, <1>3, <1>4, <1>5 DEF Next

\* A store makes its thread the author of the slot.
LEMMA AuthorsStore ==
  ASSUME IInv, NEW own, Authors(own), NEW t \in Threads, Store(t)
  PROVE  Authored'
<1> USE DEF IInv, TypeOK, Authors
<1>1. pos[t] \in Slots /\ slots[pos[t]] = NoMaterial
  BY DEF Store, SlotsOwnedOnce
<1>2. PICK new \in [Slots -> Threads \cup {NoMaterial}] :
        \A s \in Slots : new[s] = IF s = pos[t] THEN t ELSE own[s]
  <2>1. [own EXCEPT ![pos[t]] = t] \in [Slots -> Threads \cup {NoMaterial}]
    OBVIOUS
  <2> QED
    BY <1>1, <2>1
<1>3. /\ \A s \in Slots : slots'[s] = IF s = pos[t] THEN mat[t] ELSE slots[s]
      /\ pc' = [pc EXCEPT ![t] = "idle"] /\ mat' = mat /\ pos' = pos /\ limit' = limit
  BY <1>1 DEF Store
<1>4. pc[t] = "store" /\ mat[t] \in Materials
  BY DEF Store
<1>5. \A s \in Slots : slots'[s] # NoMaterial => new[s] \in Threads
  BY <1>2, <1>3
<1>6. ASSUME NEW r \in Slots, NEW s \in Slots,
             slots'[r] # NoMaterial, slots'[r] = slots'[s], new[r] = new[s]
      PROVE  r = s
  BY <1>2, <1>3, <1>4, <1>6
<1>7. ASSUME NEW s \in Slots, NEW u \in Threads, slots'[s] = mat'[u], new[s] = u
      PROVE  /\ pc'[u] = "add" => pos'[u] <= s /\ s < limit'[u]
             /\ pc'[u] # "store"
  <2>1. CASE u = t
    BY <1>3, <2>1
  <2>2. CASE u # t
    BY <1>2, <1>3, <1>7, <2>2
  <2> QED
    BY <2>1, <2>2
<1>8. Authors(new)'
  BY <1>2, <1>5, <1>6, <1>7
<1> QED
  BY <1>2, <1>8 DEF Authored

LEMMA AuthoredInvariance == Spec => []Authored
<1>1. Init => Authored
  <2> SUFFICES ASSUME Init PROVE Authored
    OBVIOUS
  <2> DEFINE nobody == [s \in Slots |-> NoMaterial]
  <2>1. nobody \in [Slots -> Threads \cup {NoMaterial}]
    OBVIOUS
  <2>2. \A s \in Slots : slots[s] = NoMaterial
    BY DEF Init
  <2>3. \A t \in Threads : mat[t] # NoMaterial
    BY DEF Init
  <2> HIDE DEF nobody
  <2>4. Authors(nobody)
    BY <2>1, <2>2, <2>3 DEF Authors
  <2> QED
    BY <2>1, <2>4 DEF Authored
<1>2. IInv /\ Authored /\ [Next]_vars => Authored'
  <2> SUFFICES ASSUME IInv, Authored, [Next]_vars PROVE Authored'
    OBVIOUS
  <2>1. PICK own \in [Slots -> Threads \cup {NoMaterial}] : Authors(own)
    BY DEF Authored
  <2>2. CASE \E t \in Threads : Store(t)
    BY <2>1, <2>2, AuthorsStore
  <2>3. CASE ~ \E t \in Threads : Store(t)
    <3>1. Authors(own)'
      BY <2>1, <2>3, AuthorsKept
    <3> QED
      BY <3>1 DEF Authored, Authors
  <2> QED
    BY <2>2, <2>3
<1> QED
  BY <1>1, <1>2, Invariance, PTL DEF Spec

\* Two slots of one material have two authors: the table never holds more
\* copies of a material than there are threads (player.chams.cpp:878-893).
THEOREM CopiesByThreads == Spec => []CopiesBounded
<1>1. IInv /\ Authored => CopiesBounded
  <2> SUFFICES ASSUME IInv, Authored, NEW m \in Materials,
                      Cardinality(Threads) < Cardinality({s \in Slots : slots[s] = m})
               PROVE  FALSE
    <3>1. IsFiniteSet(Slots)
      BY FS_Interval DEF Slots
    <3>2. \A n \in Materials : IsFiniteSet({s \in Slots : slots[s] = n})
      BY <3>1, FS_Subset
    <3> QED
      BY <3>2, FS_CardinalityType DEF CopiesBounded
  <2> DEFINE S == {s \in Slots : slots[s] = m}
  <2>1. IsFiniteSet(S)
    <3>1. IsFiniteSet(Slots)
      BY FS_Interval DEF Slots
    <3> QED
      BY <3>1, FS_Subset
  <2>2. PICK own \in [Slots -> Threads \cup {NoMaterial}] : Authors(own)
    BY DEF Authored
  <2> DEFINE f == [s \in S |-> own[s]]
  <2>3. f \in [S -> Threads]
    BY <2>2 DEF Authors
  <2>4. Cardinality(Threads) < Cardinality(S)
    OBVIOUS
  <2>5. \A r, s \in S : own[r] = own[s] => r = s
    BY <2>2 DEF Authors
  <2>6. \A s \in S : f[s] = own[s]
    OBVIOUS
  <2> HIDE DEF f, S
  <2>7. \E r, s \in S : r # s /\ f[r] = f[s]
    BY <2>1, <2>3, <2>4, FS_PigeonHole
  <2> QED
    BY <2>5, <2>6, <2>7
<1> QED
  BY <1>1, Invariance, AuthoredInvariance, PTL

-----------------------------------------------------------------------------
\* The refinement: each step of the table is a step of the set or none.
LEMMA RefinementInit == Init => Abstract!Init
<1> SUFFICES ASSUME Init PROVE Abstract!Init
  OBVIOUS
<1>1. Members = {}
  BY DEF Init, Members
<1>2. ~(count >= Capacity)
  BY DEF Init
<1>3. AbstractCall = [t \in Threads |-> "idle"]
  BY DEF Init, AbstractCall
<1> QED
  BY <1>1, <1>2, <1>3 DEF Init, Abstract!Init

LEMMA RefinementStep ==
  ASSUME IInv, IInv', LoadedFull, [Next]_vars
  PROVE  [Abstract!Next]_Abstract!vars
<1> USE DEF IInv, TypeOK
<1>1. ASSUME NEW t \in Threads, NEW m \in Materials,
             NEW operation \in {"find", "add"}, Enter(t, m, operation)
      PROVE  Abstract!Start(t, m, operation)
  <2>1. Members' = Members
    BY <1>1 DEF Enter, Members
  <2>2. AbstractCall' = [AbstractCall EXCEPT ![t] = operation]
    BY <1>1 DEF Enter, AbstractCall
  <2> QED
    BY <1>1, <2>1, <2>2 DEF Enter, AbstractCall, Abstract!Start
<1>2. ASSUME NEW t \in Threads, ScanNext(t)
      PROVE  UNCHANGED Abstract!vars
  BY <1>2 DEF ScanNext, Members, AbstractCall, Abstract!vars
<1>3. ASSUME NEW t \in Threads, ScanHit(t)
      PROVE  Abstract!Find(t, TRUE) \/ Abstract!Add(t) \/ Abstract!Drop(t)
  <2>1. Members' = Members
    BY <1>3 DEF ScanHit, Members
  <2>2. mat[t] \in Members \/ count >= Capacity
    <3>1. CASE pos[t] \in Slots
      BY <1>3, <3>1 DEF ScanHit, Loads, Members
    <3>2. CASE pos[t] \notin Slots
      BY <1>3, <3>2 DEF ScanHit, LoadedFull, Slots
    <3> QED
      BY <3>1, <3>2
  <2>3. AbstractCall' = [AbstractCall EXCEPT ![t] = "idle"]
    BY <1>3 DEF ScanHit, AbstractCall
  <2>4. CASE pc[t] = "find"
    BY <1>3, <2>1, <2>2, <2>3, <2>4 DEF ScanHit, AbstractCall, Abstract!Find
  <2>5. CASE pc[t] = "add" /\ mat[t] \in Members
    <3>1. Members' = Members \cup {mat[t]}
      BY <2>1, <2>5
    <3>2. AbstractCall[t] = "add"
      BY <2>5 DEF AbstractCall
    <3> QED
      BY <1>3, <2>3, <2>5, <3>1, <3>2 DEF ScanHit, Abstract!Add
  <2>6. CASE pc[t] = "add" /\ count >= Capacity
    BY <1>3, <2>1, <2>3, <2>6 DEF ScanHit, AbstractCall, Abstract!Drop
  <2> QED
    BY <1>3, <2>2, <2>4, <2>5, <2>6 DEF ScanHit
<1>4. ASSUME NEW t \in Threads, FindMiss(t)
      PROVE  Abstract!Find(t, FALSE)
  <2>1. Members' = Members
    BY <1>4 DEF FindMiss, Members
  <2>2. AbstractCall' = [AbstractCall EXCEPT ![t] = "idle"]
    BY <1>4 DEF FindMiss, AbstractCall
  <2>3. ~owed[t]
    BY <1>4 DEF FindMiss, OwedAhead, Slots
  <2> QED
    BY <1>4, <2>1, <2>2, <2>3 DEF FindMiss, AbstractCall, Abstract!Find
<1>5. ASSUME NEW t \in Threads, Claim(t)
      PROVE  Abstract!FillUp(t) \/ UNCHANGED Abstract!vars
  <2>1. Members' = Members
    BY <1>5 DEF Claim, Members
  <2>2. AbstractCall' = AbstractCall /\ AbstractCall[t] = "add"
    BY <1>5 DEF Claim, AbstractCall
  <2>3. CASE (count' >= Capacity) = (count >= Capacity)
    BY <1>5, <2>1, <2>2, <2>3 DEF Claim, Abstract!vars
  <2>4. CASE (count' >= Capacity) # (count >= Capacity)
    BY <1>5, <2>1, <2>2, <2>4 DEF Claim, Abstract!FillUp
  <2> QED
    BY <2>3, <2>4
<1>6. ASSUME NEW t \in Threads, Store(t)
      PROVE  Abstract!Add(t)
  <2>1. pos[t] \in Slots /\ slots[pos[t]] = NoMaterial
    BY <1>6 DEF Store, SlotsOwnedOnce
  <2>2. Members' = Members \cup {mat[t]}
    BY <1>6, <2>1 DEF Store, Members
  <2>3. AbstractCall' = [AbstractCall EXCEPT ![t] = "idle"] /\ AbstractCall[t] = "add"
    BY <1>6 DEF Store, AbstractCall
  <2> QED
    BY <1>6, <2>2, <2>3 DEF Store, Abstract!Add
<1>7. ASSUME NEW t \in Threads, Retract(t)
      PROVE  Abstract!Drop(t)
  <2>1. count >= Capacity /\ count' >= Capacity
    <3>1. count - 1 >= Capacity
      BY <1>7, RetractKeepsFull
    <3> QED
      BY <1>7, <3>1 DEF Retract
  <2>2. Members' = Members
    BY <1>7 DEF Retract, Members
  <2>3. AbstractCall' = [AbstractCall EXCEPT ![t] = "idle"] /\ AbstractCall[t] = "add"
    BY <1>7 DEF Retract, AbstractCall
  <2> QED
    BY <1>7, <2>1, <2>2, <2>3 DEF Retract, Abstract!Drop
<1>8. CASE UNCHANGED vars
  BY <1>8 DEF vars, Members, AbstractCall, Abstract!vars
<1>9. ASSUME NEW t \in Threads,
             \/ Abstract!Find(t, TRUE)
             \/ Abstract!Find(t, FALSE)
             \/ Abstract!Add(t)
             \/ Abstract!FillUp(t)
             \/ Abstract!Drop(t)
      PROVE  Abstract!Next
  BY <1>9, Zenon DEF Abstract!Next
<1>10. ASSUME NEW t \in Threads, NEW m \in Materials,
              NEW operation \in {"find", "add"}, Abstract!Start(t, m, operation)
       PROVE  Abstract!Next
  BY <1>10, Zenon DEF Abstract!Next
<1>11. CASE Next
  <2>1. ASSUME NEW t \in Threads,
               \/ \E m \in Materials, operation \in {"find", "add"} : Enter(t, m, operation)
               \/ ScanHit(t) \/ FindMiss(t) \/ Store(t) \/ Retract(t)
        PROVE  Abstract!Next
    BY <2>1, <1>1, <1>3, <1>4, <1>6, <1>7, <1>9, <1>10
  <2>2. ASSUME NEW t \in Threads, ScanNext(t) \/ Claim(t)
        PROVE  Abstract!Next \/ UNCHANGED Abstract!vars
    BY <2>2, <1>2, <1>5, <1>9
  <2> QED
    BY <1>11, <2>1, <2>2, Zenon DEF Next
<1> QED
  BY <1>8, <1>11

\* The lock-free table implements the growing set for any number of render
\* threads, materials and slots (player.chams.cpp:862-899).
THEOREM Refinement == Spec => ImplementsMaterialSet
<1>1. Init => Abstract!Init
  BY RefinementInit
<1>2. IInv /\ IInv' /\ LoadedFull /\ [Next]_vars => [Abstract!Next]_Abstract!vars
  BY RefinementStep
<1> QED
  BY <1>1, <1>2, Invariance, LoadedFullInvariance, PTL
     DEF Spec, ImplementsMaterialSet, Abstract!Spec
=============================================================================
