------------------------------- MODULE JobPool -------------------------------
(***************************************************************************)
(* utilities/threadpool: jobs that are handed to the engine's thread pool, *)
(* their reference counts, the three ways to wait for one, and parallel_for*)
(* that splits a range into chunks.  One thread calls parallel_for while a *)
(* job that somebody started with run and forgot competes for the workers. *)
(* The pool itself is the engine's: it takes a reference to a job, runs it,*)
(* publishes its end in two steps and drops the reference.                 *)
(***************************************************************************)
EXTENDS Integers, FiniteSets

CONSTANTS
  Workers,    \* number of the pool's threads
  MaxTotal,   \* bound: length of the range
  MaxCores,   \* bound: std::thread::hardware_concurrency
  MaxMinimum  \* bound: min_chunk_size

\* Assumed of the constants where the module is used.
WorkersAssumption == Workers \in Nat \ {0}
BoundAssumption == MaxTotal \in Nat /\ MaxCores \in Nat /\ MaxMinimum \in Nat \ {0}

VARIABLES
  total,     \* end - begin of the call; begin is 0
  cores,     \* hardware_concurrency
  minChunk,  \* min_chunk_size
  pc,        \* where the calling thread is
  at,        \* the job it submits or waits for
  snapshot,  \* what it read from the completion counter
  status,    \* status word of each job; "none" is one not made yet
  counter,   \* completion counter or event of each job
  refs,      \* reference count of each job
  waitMode,  \* which of its completion objects the pool has set up
  runs       \* history: how often the body was run for each element

vars == <<total, cores, minChunk, pc, at, snapshot, status, counter, refs, waitMode, runs>>
call == <<total, cores, minChunk>>

Forgotten == 0
Jobs == 0 .. MaxTotal
Elements == 0 .. MaxTotal - 1
Most(a, b) == IF a > b THEN a ELSE b
Least(a, b) == IF a < b THEN a ELSE b

\* The chunk arithmetic of parallel_for.
ChunkSize == Most((total + Most(cores, 1) - 1) \div Most(cores, 1), minChunk)
NumChunks == (total + ChunkSize - 1) \div ChunkSize

\* Mutated forms used to test the properties stand before what they mutate.
ChunkOverlaps(j) == (j - 1) * ChunkSize .. Least(j * ChunkSize, total - 1)

\* Chunk j of those that become jobs, and the last one, which the caller runs.
Chunk(j) == (j - 1) * ChunkSize .. Least(j * ChunkSize, total) - 1
LastChunk == (NumChunks - 1) * ChunkSize .. total - 1

Body(range) == runs' = [e \in Elements |-> IF e \in range THEN runs[e] + 1 ELSE runs[e]]

Init ==
  /\ total \in 0 .. MaxTotal
  /\ cores \in 0 .. MaxCores
  /\ minChunk \in 1 .. MaxMinimum
  /\ pc = "enter"
  /\ at = 1
  /\ snapshot = 0
  /\ status = [j \in Jobs |-> "none"]
  /\ counter = [j \in Jobs |-> 0]
  /\ refs = [j \in Jobs |-> 0]
  /\ waitMode \in [Jobs -> {"event", "counter", "spin"}]
  /\ \A j, k \in Jobs : waitMode[j] = waitMode[k]
  /\ runs = [e \in Elements |-> 0]

-----------------------------------------------------------------------------
\* run: the job is made with the one reference of its handle, the pool takes
\* another and queues it.
Made(j) ==
  /\ refs' = [refs EXCEPT ![j] = 2]
  /\ status' = [status EXCEPT ![j] = "queued"]

\* run whose handle is dropped at once.
RunAndForget ==
  /\ status[Forgotten] = "none"
  /\ refs' = [refs EXCEPT ![Forgotten] = 1]
  /\ status' = [status EXCEPT ![Forgotten] = "queued"]
  /\ UNCHANGED <<call, pc, at, snapshot, counter, waitMode, runs>>

\* parallel_for: an empty range, a single chunk, or jobs for all but the last.
Enter ==
  /\ pc = "enter"
  /\ IF total = 0
     THEN pc' = "returned" /\ UNCHANGED runs
     ELSE IF NumChunks <= 1
     THEN pc' = "returned" /\ Body(0 .. total - 1)
     ELSE pc' = "submit" /\ UNCHANGED runs
  /\ UNCHANGED <<call, at, snapshot, status, counter, refs, waitMode>>

Submit ==
  /\ pc = "submit"
  /\ at < NumChunks
  /\ Made(at)
  /\ at' = at + 1
  /\ UNCHANGED <<call, pc, snapshot, counter, waitMode, runs>>

RunLastChunk ==
  /\ pc = "submit"
  /\ at = NumChunks
  /\ Body(LastChunk)
  /\ at' = 1
  /\ pc' = "wait"
  /\ UNCHANGED <<call, snapshot, status, counter, refs, waitMode>>

-----------------------------------------------------------------------------
\* job::wait for the job the caller is at, then for the next one.
Waited ==
  /\ at' = at + 1
  /\ pc' = "wait"

WaitEvent ==
  /\ pc = "wait" /\ at < NumChunks
  /\ waitMode[at] = "event"
  /\ counter[at] = 1
  /\ Waited
  /\ UNCHANGED <<call, snapshot, status, counter, refs, waitMode, runs>>

\* Spinning and the loop around WaitOnAddress look at the status word.
WaitSeesIdle ==
  /\ pc = "wait" /\ at < NumChunks
  /\ waitMode[at] \in {"counter", "spin"}
  /\ status[at] = "idle"
  /\ Waited
  /\ UNCHANGED <<call, snapshot, status, counter, refs, waitMode, runs>>

WaitSeesBusy ==
  /\ pc = "wait" /\ at < NumChunks
  /\ waitMode[at] = "counter"
  /\ status[at] # "idle"
  /\ pc' = "busy"
  /\ UNCHANGED <<call, at, snapshot, status, counter, refs, waitMode, runs>>

WaitReadsCounter ==
  /\ pc = "busy"
  /\ snapshot' = counter[at]
  /\ pc' = "asleep"
  /\ UNCHANGED <<call, at, status, counter, refs, waitMode, runs>>

\* WaitOnAddress returns when the counter is not the snapshot, or after 1 ms.
WakesOnChange ==
  /\ pc = "asleep"
  /\ counter[at] # snapshot
  /\ pc' = "wait"
  /\ UNCHANGED <<call, at, snapshot, status, counter, refs, waitMode, runs>>

WakesOnTimeoutNever == FALSE

WakesOnTimeout ==
  /\ pc = "asleep"
  /\ counter[at] = snapshot
  /\ pc' = "wait"
  /\ UNCHANGED <<call, at, snapshot, status, counter, refs, waitMode, runs>>

ReturnUnwaited ==
  /\ pc = "wait"
  /\ pc' = "returned"
  /\ refs' = [j \in Jobs |-> IF j \in 1 .. NumChunks - 1 THEN refs[j] - 1 ELSE refs[j]]
  /\ UNCHANGED <<call, at, snapshot, status, counter, waitMode, runs>>

\* The vector of handles is destroyed, each dropping its reference.
Return ==
  /\ pc = "wait" /\ at = NumChunks
  /\ pc' = "returned"
  /\ refs' = [j \in Jobs |-> IF j \in 1 .. NumChunks - 1 THEN refs[j] - 1 ELSE refs[j]]
  /\ UNCHANGED <<call, at, snapshot, status, counter, waitMode, runs>>

-----------------------------------------------------------------------------
\* The engine's pool: any queued job, as long as a worker is free.
Running == {j \in Jobs : status[j] = "running"}

PoolStarts(j) ==
  /\ status[j] = "queued"
  /\ Cardinality(Running) < Workers
  /\ status' = [status EXCEPT ![j] = "running"]
  /\ UNCHANGED <<call, pc, at, snapshot, counter, refs, waitMode, runs>>

\* The end of a job is published in its status word, then in its completion
\* object; then the pool's reference is dropped.
PoolFinishes(j) ==
  /\ status[j] = "running"
  /\ status' = [status EXCEPT ![j] = "idle"]
  /\ IF j = Forgotten THEN UNCHANGED runs ELSE Body(Chunk(j))
  /\ UNCHANGED <<call, pc, at, snapshot, counter, refs, waitMode>>

PoolSignals(j) ==
  /\ status[j] = "idle"
  /\ counter[j] = 0
  /\ counter' = [counter EXCEPT ![j] = 1]
  /\ refs' = [refs EXCEPT ![j] = refs[j] - 1]
  /\ UNCHANGED <<call, pc, at, snapshot, status, waitMode, runs>>

Caller ==
  \/ Enter \/ Submit \/ RunLastChunk
  \/ WaitEvent \/ WaitSeesIdle \/ WaitSeesBusy \/ WaitReadsCounter
  \/ WakesOnChange \/ WakesOnTimeout
  \/ Return

Pool(j) == PoolStarts(j) \/ PoolFinishes(j) \/ PoolSignals(j)

Next ==
  \/ RunAndForget
  \/ Caller
  \/ \E j \in Jobs : Pool(j)

Spec == Init /\ [][Next]_vars

\* The caller is scheduled, a 1 ms timeout runs out, and the pool has threads
\* that take every queued job in turn.
FairSpec == Spec /\ WF_vars(Caller) /\ \A j \in Jobs : SF_vars(Pool(j))

-----------------------------------------------------------------------------
TypeOK ==
  /\ total \in 0 .. MaxTotal
  /\ pc \in {"enter", "submit", "wait", "busy", "asleep", "returned"}
  /\ at \in 1 .. MaxTotal + 1
  /\ snapshot \in {0, 1}
  /\ status \in [Jobs -> {"none", "queued", "running", "idle"}]
  /\ counter \in [Jobs -> {0, 1}]
  /\ refs \in [Jobs -> 0 .. 2]
  /\ Cardinality(Running) <= Workers
  /\ runs \in [Elements -> Nat]

\* When parallel_for returns, the body has been run exactly once for every
\* element, however the range was split.
EveryElementOnce ==
  pc = "returned" =>
    \A e \in Elements : runs[e] = IF e < total THEN 1 ELSE 0

\* The jobs capture the caller's body by reference: none is queued or running
\* once parallel_for has returned.  The caller only looks at a job it still
\* holds a reference to, and no job is freed before it has run, the forgotten
\* one included.
NothingDangles ==
  /\ pc = "returned" => \A j \in Jobs \ {Forgotten} : status[j] \in {"none", "idle"}
  /\ pc \in {"wait", "busy", "asleep"} =>
       \A j \in Jobs : j \in at .. NumChunks - 1 => refs[j] > 0
  /\ \A j \in Jobs : status[j] \in {"queued", "running"} => refs[j] > 0

\* parallel_for returns although a completion may fall between the look at the
\* status word and the read of the counter, so that its wakeup is lost.
CallReturns == <>(pc = "returned")
=============================================================================
