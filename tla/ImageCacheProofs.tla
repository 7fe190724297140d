--------------------------- MODULE ImageCacheProofs ---------------------------
(***************************************************************************)
(* The image cache for any images, archives and number of flushes: the     *)
(* types with the bound on the queued jobs, that a state tells what data   *)
(* the entry has, and that an image is read and decoded once.              *)
(***************************************************************************)
EXTENDS ImageCache, TLAPS

USE ArchiveAssumption, FlushesAssumption

Data == {"sound", "broken"}
States == {"absent", "idle", "loading", "decoded", "ready", "failed"}

CacheTypes ==
  /\ state \in [Images -> States]
  /\ pixels \in [Images -> BOOLEAN]
  /\ texture \in [Images -> BOOLEAN]
  /\ stream \in [Archives -> {"closed", "open", "bad"}]
  /\ lock \in {"free", "menu", "job"}
  /\ menu \in {"idle", "lookup", "read", "submit"}
  /\ image \in Images
  /\ data \in Data
  /\ jobs \in [Images -> [Data -> Nat]]
  /\ flushed \in 0 .. Flushes
  /\ closing \in BOOLEAN

\* The menu works on an entry only under the mutex, and a job only outside it.
MutexInv == lock = "menu" <=> menu # "idle"

\* Decodes of an image that are still to be done: queued, about to be queued by
\* the menu, and the one of the job that holds the mutex.
AtMenu(k) == IF menu = "submit" /\ image = k THEN 1 ELSE 0
AtJob(k) == IF lock = "job" /\ image = k THEN 1 ELSE 0
Work(k) == Pending(k) + AtMenu(k) + AtJob(k)

\* An entry that is new, or not there, has started no decode.
Fresh(k) == state[k] = "absent" \/ (menu = "read" /\ image = k)

\* A flush makes every image new once more.  Without one, an image with a decode
\* still to be done is loading.
WorkAt(k) ==
  /\ Work(k) <= flushed + (IF Fresh(k) THEN 0 ELSE 1)
  /\ flushed = 0 /\ Work(k) > 0 => state[k] = "loading"

WorkInv == \A k \in Images : WorkAt(k)

CacheInv == CacheTypes /\ MutexInv /\ StateTellsData /\ WorkInv

LEMMA WorkTypes ==
  ASSUME CacheTypes, NEW k \in Images
  PROVE  Pending(k) \in Nat /\ AtMenu(k) \in 0 .. 1 /\ AtJob(k) \in 0 .. 1 /\ Work(k) \in Nat
<1>1. jobs[k]["sound"] \in Nat /\ jobs[k]["broken"] \in Nat
  BY DEF CacheTypes, Data
<1>2. Pending(k) \in Nat /\ AtMenu(k) \in 0 .. 1 /\ AtJob(k) \in 0 .. 1
  BY <1>1 DEF Pending, AtMenu, AtJob
<1> QED
  BY <1>2 DEF Work

LEMMA CacheInit == Init => CacheInv
<1> SUFFICES ASSUME Init PROVE CacheInv
  OBVIOUS
<1>1. /\ state = [k \in Images |-> "absent"] /\ lock = "free" /\ menu = "idle"
      /\ flushed = 0
  BY DEF Init
<1>2. jobs = [k \in Images |-> [d \in Data |-> 0]]
  BY DEF Init, Data
<1>3. CacheTypes
  <2>1. jobs \in [Images -> [Data -> Nat]]
    BY <1>2
  <2>2. pixels \in [Images -> BOOLEAN] /\ texture \in [Images -> BOOLEAN] /\ closing \in BOOLEAN
    BY DEF Init
  <2>3. stream \in [Archives -> {"closed", "open", "bad"}] /\ image \in Images /\ data \in Data
    BY DEF Init, Data
  <2>4. state \in [Images -> States]
    BY <1>1 DEF States
  <2> QED
    BY <1>1, <2>1, <2>2, <2>3, <2>4 DEF CacheTypes
<1>4. ASSUME NEW k \in Images PROVE Work(k) = 0 /\ Fresh(k)
  <2>1. jobs[k]["sound"] = 0 /\ jobs[k]["broken"] = 0
    BY <1>2 DEF Data
  <2> QED
    BY <1>1, <2>1 DEF Work, Pending, AtMenu, AtJob, Fresh
<1> QED
  BY <1>1, <1>3, <1>4 DEF CacheInv, MutexInv, StateTellsData, WorkInv, WorkAt

LEMMA TypesNext ==
  ASSUME CacheTypes, [Next]_vars
  PROVE  CacheTypes'
<1> USE DEF CacheTypes, States, Data
<1>1. ASSUME NEW k \in Images, Ask(k) PROVE CacheTypes'
  BY <1>1 DEF Ask, entry
<1>2. CASE Answer
  BY <1>2 DEF Answer, Leave, entry
<1>3. CASE Finalize
  BY <1>3 DEF Finalize, Leave
<1>4. CASE Insert
  BY <1>4 DEF Insert
<1>5. CASE ReadNothing
  BY <1>5 DEF ReadNothing, Leave
<1>6. CASE ReadFile
  BY <1>6 DEF ReadFile
<1>7. CASE Submit
  BY <1>7 DEF Submit, Leave, entry
<1>8. ASSUME NEW k \in Images, NEW d \in {"sound", "broken"}, Begin(k, d) PROVE CacheTypes'
  BY <1>8 DEF Begin, entry
<1>9. CASE Decode
  BY <1>9 DEF Decode
<1>10. CASE Flush
  BY <1>10 DEF Flush
<1>11. CASE CloseArchives
  BY <1>11 DEF CloseArchives, entry
<1>12. CASE UNCHANGED vars
  BY <1>12 DEF vars
<1> QED
  BY <1>1, <1>2, <1>3, <1>4, <1>5, <1>6, <1>7, <1>8, <1>9, <1>10, <1>11, <1>12
     DEF Next, Menu, Job

\* Only a flush takes an entry's data away, and it takes the state with it.
LEMMA DataNext ==
  ASSUME CacheTypes, StateTellsData, [Next]_vars
  PROVE  StateTellsData'
<1> USE DEF CacheTypes, StateTellsData
<1>1. CASE UNCHANGED entry
  BY <1>1 DEF entry
<1>2. CASE Finalize
  BY <1>2 DEF Finalize
<1>3. CASE Insert \/ ReadNothing \/ ReadFile
  BY <1>3 DEF Insert, ReadNothing, ReadFile
<1>4. CASE Decode
  BY <1>4 DEF Decode
<1>5. CASE Flush
  BY <1>5 DEF Flush
<1> QED
  BY <1>1, <1>2, <1>3, <1>4, <1>5
     DEF Next, Menu, Job, Ask, Answer, Submit, Begin, CloseArchives, vars, entry

LEMMA MutexNext ==
  ASSUME CacheTypes, MutexInv, [Next]_vars
  PROVE  MutexInv'
BY DEF CacheTypes, MutexInv, Next, Menu, Job, Ask, Answer, Finalize, Insert, ReadNothing,
       ReadFile, Submit, Begin, Decode, Flush, CloseArchives, Leave, vars

\* The decodes of an image over a step.  Most steps leave them as they are, or
\* drop the one that is done.
LEMMA WorkNext ==
  ASSUME CacheInv, CacheTypes', [Next]_vars
  PROVE  WorkInv'
<1> USE DEF CacheInv, Leave
<1> SUFFICES ASSUME NEW k \in Images PROVE WorkAt(k)'
  BY DEF WorkInv
<1>1. /\ Pending(k) \in Nat /\ AtMenu(k) \in 0 .. 1 /\ AtJob(k) \in 0 .. 1
      /\ flushed \in Nat
      /\ Work(k) <= flushed + (IF Fresh(k) THEN 0 ELSE 1)
      /\ flushed = 0 /\ Work(k) > 0 => state[k] = "loading"
  BY WorkTypes DEF WorkInv, WorkAt, CacheTypes
<1>2. ASSUME NEW j \in Images, Ask(j) PROVE WorkAt(k)'
  <2>1. Pending(k)' = Pending(k) /\ AtMenu(k)' = AtMenu(k) /\ AtJob(k)' = AtJob(k)
    BY <1>2 DEF Ask, Pending, AtMenu, AtJob, MutexInv
  <2> QED
    BY <1>1, <1>2, <2>1 DEF Ask, WorkAt, Work, Fresh, entry
<1>3. CASE Answer
  <2>1. Pending(k)' = Pending(k) /\ AtMenu(k)' = AtMenu(k) /\ AtJob(k)' = AtJob(k)
    BY <1>3 DEF Answer, Pending, AtMenu, AtJob, MutexInv
  <2> QED
    BY <1>1, <1>3, <2>1 DEF Answer, WorkAt, Work, Fresh, entry
<1>4. CASE Finalize
  <2>1. Pending(k)' = Pending(k) /\ AtMenu(k)' = AtMenu(k) /\ AtJob(k)' = AtJob(k)
    BY <1>4 DEF Finalize, Pending, AtMenu, AtJob, MutexInv
  <2> QED
    BY <1>1, <1>4, <2>1 DEF Finalize, WorkAt, Work, Fresh, CacheTypes
<1>5. CASE Insert
  <2>1. Pending(k)' = Pending(k) /\ AtMenu(k)' = AtMenu(k) /\ AtJob(k)' = AtJob(k)
    BY <1>5 DEF Insert, Pending, AtMenu, AtJob, MutexInv
  <2> QED
    BY <1>1, <1>5, <2>1 DEF Insert, WorkAt, Work, Fresh, CacheTypes
<1>6. CASE ReadNothing
  <2>1. Pending(k)' = Pending(k) /\ AtMenu(k)' = AtMenu(k) /\ AtJob(k)' = AtJob(k)
    BY <1>6 DEF ReadNothing, Pending, AtMenu, AtJob, MutexInv
  <2> QED
    BY <1>1, <1>6, <2>1 DEF ReadNothing, WorkAt, Work, Fresh, CacheTypes
<1>7. CASE ReadFile
  <2>1. /\ Pending(k)' = Pending(k) /\ AtJob(k)' = AtJob(k)
        /\ AtMenu(k) = 0 /\ AtMenu(k)' = IF image = k THEN 1 ELSE 0
    BY <1>7 DEF ReadFile, Pending, AtMenu, AtJob, MutexInv
  <2> QED
    BY <1>1, <1>7, <2>1 DEF ReadFile, WorkAt, Work, Fresh, CacheTypes
<1>8. CASE Submit
  <2>1. /\ Pending(k)' = Pending(k) + (IF image = k THEN 1 ELSE 0)
        /\ AtJob(k)' = AtJob(k)
        /\ AtMenu(k) = (IF image = k THEN 1 ELSE 0) /\ AtMenu(k)' = 0
    BY <1>8 DEF Submit, Pending, AtMenu, AtJob, MutexInv, CacheTypes, Data
  <2> QED
    BY <1>1, <1>8, <2>1 DEF Submit, WorkAt, Work, Fresh, entry
<1>9. ASSUME NEW j \in Images, NEW d \in Data, Begin(j, d) PROVE WorkAt(k)'
  <2>1. /\ Pending(k)' = Pending(k) - (IF j = k THEN 1 ELSE 0)
        /\ AtMenu(k)' = 0 /\ AtMenu(k) = 0
        /\ AtJob(k) = 0 /\ AtJob(k)' = IF j = k THEN 1 ELSE 0
    BY <1>9 DEF Begin, Pending, AtMenu, AtJob, MutexInv, CacheTypes, Data
  <2> QED
    BY <1>1, <1>9, <2>1 DEF Begin, WorkAt, Work, Fresh, entry, MutexInv
<1>10. CASE Decode
  <2>1. /\ Pending(k)' = Pending(k) /\ AtMenu(k)' = AtMenu(k)
        /\ AtJob(k) = (IF image = k THEN 1 ELSE 0) /\ AtJob(k)' = 0
    BY <1>10 DEF Decode, Pending, AtMenu, AtJob
  <2> QED
    BY <1>1, <1>10, <2>1 DEF Decode, WorkAt, Work, Fresh, CacheTypes
<1>11. CASE Flush
  <2>1. Pending(k)' = Pending(k) /\ AtMenu(k)' = AtMenu(k) /\ AtJob(k)' = AtJob(k)
    BY <1>11 DEF Flush, Pending, AtMenu, AtJob
  <2> QED
    BY <1>1, <1>11, <2>1 DEF Flush, WorkAt, Work, Fresh
<1>12. CASE CloseArchives \/ UNCHANGED vars
  <2>1. Pending(k)' = Pending(k) /\ AtMenu(k)' = AtMenu(k) /\ AtJob(k)' = AtJob(k)
    BY <1>12 DEF CloseArchives, vars, Pending, AtMenu, AtJob
  <2> QED
    BY <1>1, <1>12, <2>1 DEF CloseArchives, vars, entry, WorkAt, Work, Fresh
<1> QED
  BY <1>2, <1>3, <1>4, <1>5, <1>6, <1>7, <1>8, <1>9, <1>10, <1>11, <1>12
     DEF Next, Menu, Job, Data

LEMMA CacheInvariant == Spec => []CacheInv
<1>1. Init => CacheInv
  BY CacheInit
<1>2. CacheInv /\ [Next]_vars => CacheInv'
  BY TypesNext, DataNext, MutexNext, WorkNext DEF CacheInv
<1> QED
  BY <1>1, <1>2, PTL DEF Spec

\* The types; a queue never holds more decodes of an image than the cache was
\* filled times.
THEOREM ImageCacheTypeOK == Spec => []TypeOK
<1>1. CacheInv => TypeOK
  <2> SUFFICES ASSUME CacheInv PROVE TypeOK
    OBVIOUS
  <2>1. ASSUME NEW k \in Images, NEW d \in Data PROVE jobs[k][d] \in 0 .. Flushes + 1
    <3>1. jobs[k]["sound"] \in Nat /\ jobs[k]["broken"] \in Nat
      BY DEF CacheInv, CacheTypes, Data
    <3>2. AtMenu(k) \in 0 .. 1 /\ AtJob(k) \in 0 .. 1 /\ Work(k) <= Flushes + 1
      BY WorkTypes DEF CacheInv, WorkInv, WorkAt, CacheTypes
    <3> QED
      BY <3>1, <3>2 DEF Work, Pending, Data
  <2>2. jobs \in [Images -> [Data -> 0 .. Flushes + 1]]
    BY <2>1 DEF CacheInv, CacheTypes
  <2> QED
    BY <2>2 DEF CacheInv, CacheTypes, States, Data, TypeOK
<1> QED
  BY <1>1, CacheInvariant, PTL

\* econ_item_system.cpp: an image that is ready has a texture and a decoded one
\* has pixels, however late the job of an earlier request comes.
THEOREM ImageCacheStateTellsData == Spec => []StateTellsData
<1>1. CacheInv => StateTellsData
  BY DEF CacheInv
<1> QED
  BY <1>1, CacheInvariant, PTL

\* econ_item_system.cpp: while the cache is not flushed an image is queued for
\* decoding at most once, and only while it is loading.
THEOREM ImageCacheDecodedOnce == Spec => []DecodedOnce
<1>1. CacheInv => DecodedOnce
  <2> SUFFICES ASSUME CacheInv, flushed = 0, NEW k \in Images
               PROVE  Pending(k) <= 1 /\ (Pending(k) = 1 => state[k] = "loading")
    BY DEF DecodedOnce
  <2> QED
    BY WorkTypes DEF CacheInv, WorkInv, WorkAt, Work
<1> QED
  BY <1>1, CacheInvariant, PTL
=============================================================================
