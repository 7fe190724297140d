------------------------- MODULE CrashReporterProofs -------------------------
(***************************************************************************)
(* One report, a whole dump and an unbroken filter chain, for any number   *)
(* of faulting threads, of host filters, and of faults and installations.  *)
(***************************************************************************)
EXTENDS CrashReporter, TLAPS

Labels == {"run", "vectored", "rearmed", "search", "claim", "fill",
           "spawn", "wait", "inline", "chain", "host", "exit"}
OwnerLabels == {"fill", "spawn", "wait", "inline"}

\* Nothing of a report exists before the claim, nothing of a writer before the
\* report, and an owner waits only for a report that was begun.
ReportSound ==
  /\ ~claimed => reports = 0 /\ request.thread = Nobody /\ Owners = {}
  /\ reports = 0 => writer.who = Nobody /\ writer.attempt = "none"
  /\ \A t \in Owners : pc[t] \in {"wait", "inline"} => reports = 1

\* While there is something left to write the thread of the request stands
\* still, unless its wait ran out; only an attempt that runs leaves a part.
OwnerWaits ==
  /\ writer.attempt \in Attempts \cup {"open"} =>
       \/ timedOut
       \/ request.thread \in Threads /\ pc[request.thread] \in {"wait", "inline"}
  /\ dump = "partial" => writer.attempt \in Attempts

\* Unless two threads were at it, a thread between the exchange and the store
\* is the only one, and holds the filter displaced last, or there is no newer one.
Handover ==
  ~raced =>
    /\ \A t, u \in Threads : pc[t] = "rearmed" /\ pc[u] = "rearmed" => t = u
    /\ \A t \in Threads : pc[t] = "rearmed" =>
         IF displaced[t] = "ours" THEN previous = newest ELSE displaced[t] = newest
    /\ (\A t \in Threads : pc[t] # "rearmed") => previous = newest

\* The inductive invariant: what the report needs, and what the chain needs.
ReportInv == OneReport /\ ReportSound /\ OwnerWaits /\ DumpLeftWhole
IInv == TypeOK /\ ReportInv /\ Handover

USE HostAssumption, ThreadAssumption, BoundAssumption DEF Nobody

-----------------------------------------------------------------------------
\* At the attach no thread faults and the host's filter is the displaced one.
LEMMA InitIInv == Init => IInv
<1> SUFFICES ASSUME Init PROVE IInv
  OBVIOUS
<1>1. TypeOK
  BY DEF Init, TypeOK, Faults, NoFault, Reasons, Attempts
<1>2. Owners = {}
  BY DEF Init, Owners
<1>3. ReportInv
  BY <1>2 DEF Init, ReportInv, OneReport, ReportSound, OwnerWaits, DumpLeftWhole, Attempts
<1>4. Handover
  BY DEF Init, Handover
<1> QED
  BY <1>1, <1>3, <1>4 DEF IInv

Onwards == {"search", "chain", "host", "exit", "run"}

\* A thread that leaves record_crash goes on to one of five places, never back
\* into the report.
LEMMA ResumeOnwards ==
  ASSUME TypeOK, NEW t \in Threads, Resume(t)
  PROVE  /\ \E label \in Onwards : pc' = [pc EXCEPT ![t] = label]
         /\ back' \in [Threads -> Reasons]
<1>1. back[t] \in Reasons
  BY DEF TypeOK
<1>2. \E label \in Onwards : pc' = [pc EXCEPT ![t] = label]
  BY <1>1 DEF Resume, Goto, Reasons, Onwards
<1>3. back' \in [Threads -> Reasons]
  BY DEF Resume, TypeOK, Reasons
<1> QED
  BY <1>2, <1>3

-----------------------------------------------------------------------------
\* Every step keeps the types.
LEMMA TypeStep == TypeOK /\ [Next]_vars => TypeOK'
<1> SUFFICES ASSUME TypeOK, [Next]_vars PROVE TypeOK'
  OBVIOUS
<1> USE DEF TypeOK
<1>1. ASSUME NEW t \in Threads, NEW f \in Faults, Raise(t, f) PROVE TypeOK'
  BY <1>1 DEF Raise, NewEvent, Goto, filters, report
<1>2. ASSUME NEW t \in Threads, Snapshot(t) \/ Terminate(t) PROVE TypeOK'
  BY <1>2 DEF Snapshot, Terminate, NewEvent, Goto, filters, report, Reasons
<1>3. ASSUME NEW t \in Threads,
             VectoredProbe(t) \/ VectoredRearm(t) \/ Chain(t) \/ HostTerminates(t) \/ Exit(t)
      PROVE  TypeOK'
  <2>1. CASE VectoredRearm(t)
    <3>1. raced' \in BOOLEAN
      BY <2>1 DEF VectoredRearm
    <3>2. newest' \in Hosts
      BY <2>1 DEF VectoredRearm
    <3> QED
      BY <2>1, <3>1, <3>2 DEF VectoredRearm, Goto, report
  <2>2. CASE VectoredProbe(t) \/ Chain(t) \/ Exit(t)
    BY <2>2 DEF VectoredProbe, Chain, Exit, Goto, filters, report
  <2>3. CASE HostTerminates(t)
    BY <2>3 DEF HostTerminates, Goto, filters, report, Reasons
  <2> QED
    BY <1>3, <2>1, <2>2, <2>3
<1>4. ASSUME NEW t \in Threads, VectoredStore(t) PROVE TypeOK'
  BY <1>4 DEF VectoredStore, Goto, report, Reasons
<1>5. ASSUME NEW t \in Threads, Search(t) PROVE TypeOK'
  <2>1. NoFault \in Faults
    BY DEF NoFault, Faults
  <2>2. \E label \in {"run", "claim", "host"} : pc' = [pc EXCEPT ![t] = label]
    BY <1>5 DEF Search, Goto
  <2>3. back' \in [Threads -> Reasons]
    BY <1>5 DEF Search, Reasons
  <2>4. fault' \in [Threads -> Faults]
    BY <1>5, <2>1 DEF Search
  <2>5. pc' \in [Threads -> Labels]
    BY <2>2 DEF Labels
  <2>6. UNCHANGED <<displaced, filters, report, exiter, events>>
    BY <1>5 DEF Search
  <2> QED
    BY <2>3, <2>4, <2>5, <2>6 DEF Labels, filters, report
<1>6. ASSUME NEW t \in Threads, ClaimLost(t) \/ ReportDone(t) \/ WaitTimesOut(t)
      PROVE  TypeOK'
  <2>1. Resume(t)
    BY <1>6 DEF ClaimLost, ReportDone, WaitTimesOut
  <2>2. PICK label \in Onwards : pc' = [pc EXCEPT ![t] = label]
    BY <2>1, ResumeOnwards
  <2>3. pc' \in [Threads -> Labels] /\ back' \in [Threads -> Reasons]
    BY <2>1, <2>2, ResumeOnwards DEF Onwards, Labels
  <2> QED
    BY <1>6, <2>3 DEF ClaimLost, ReportDone, WaitTimesOut, filters, report, Labels
<1>7. ASSUME NEW t \in Threads, ClaimWon(t) \/ FillRequest(t) PROVE TypeOK'
  <2>1. CASE ClaimWon(t)
    BY <2>1 DEF ClaimWon, Goto, filters
  <2>2. CASE FillRequest(t)
    <3>1. back[t] \in Reasons
      OBVIOUS
    <3> QED
      BY <2>2, <3>1 DEF FillRequest, Goto, filters
  <2> QED
    BY <1>7, <2>1, <2>2
<1>8. ASSUME NEW t \in Threads, StartWorker(t) \/ WorkerFails(t) PROVE TypeOK'
  BY <1>8 DEF StartWorker, WorkerFails, Goto, filters
<1>9. ASSUME NEW h \in Hosts, HostInstalls(h) PROVE TypeOK'
  BY <1>9 DEF HostInstalls, report
<1>10. CASE OpenDump \/ DumpWritten \/ DumpFails
  BY <1>10 DEF OpenDump, DumpWritten, DumpFails, WriteStep, filters, Attempts
<1>11. CASE UNCHANGED vars
  BY <1>11 DEF vars
<1> QED
  BY <1>1, <1>2, <1>3, <1>4, <1>5, <1>6, <1>7, <1>8, <1>9, <1>10, <1>11
  DEF Next, ThreadStep

-----------------------------------------------------------------------------
\* A thread moves outside the report.
Outside(t) ==
  /\ Alive
  /\ pc[t] \notin OwnerLabels
  /\ \E label \in Labels \ OwnerLabels : pc' = [pc EXCEPT ![t] = label]
  /\ UNCHANGED <<report, exiter>>

\* These are the steps of record_crash's callers, and of a thread whose claim
\* came too late.
LEMMA OutsideSteps ==
  ASSUME TypeOK, NEW t \in Threads,
         \/ \E f \in Faults : Raise(t, f)
         \/ Snapshot(t) \/ Terminate(t) \/ VectoredProbe(t) \/ VectoredRearm(t)
         \/ VectoredStore(t) \/ Search(t) \/ ClaimLost(t) \/ Chain(t) \/ HostTerminates(t)
  PROVE  Outside(t)
<1> USE DEF Outside, OwnerLabels, Labels, Goto, report
<1>1. CASE \/ \E f \in Faults : Raise(t, f)
           \/ Snapshot(t) \/ Terminate(t) \/ VectoredProbe(t) \/ VectoredRearm(t)
           \/ Chain(t) \/ HostTerminates(t)
  BY <1>1 DEF Raise, Snapshot, Terminate, NewEvent, VectoredProbe, VectoredRearm, Chain,
              HostTerminates
<1>2. CASE VectoredStore(t)
  BY <1>2 DEF VectoredStore
<1>3. CASE Search(t)
  BY <1>3 DEF Search
<1>4. CASE ClaimLost(t)
  <2>1. PICK label \in Onwards : pc' = [pc EXCEPT ![t] = label]
    BY <1>4, ResumeOnwards DEF ClaimLost
  <2>2. label \in Labels \ OwnerLabels
    BY DEF Onwards
  <2> QED
    BY <1>4, <2>1, <2>2 DEF ClaimLost
<1> QED
  BY <1>1, <1>2, <1>3, <1>4

\* Such a move neither touches the report nor its owner.
LEMMA OutsideKeepsReport ==
  ASSUME TypeOK, ReportInv, NEW t \in Threads, Outside(t)
  PROVE  ReportInv'
<1>1. /\ claimed' = claimed /\ request' = request /\ writer' = writer /\ dump' = dump
      /\ reports' = reports /\ timedOut' = timedOut /\ exiter' = exiter
  BY DEF Outside, report
<1>2. \A u \in Threads :
        pc[u] \in OwnerLabels \/ pc'[u] \in OwnerLabels => u # t /\ pc'[u] = pc[u]
  BY DEF Outside, TypeOK
<1>3. Owners' = Owners
  BY <1>2 DEF Owners, OwnerLabels
<1>4. \A u \in Owners : pc'[u] = pc[u]
  BY <1>2 DEF Owners, OwnerLabels
<1>5. OneReport'
  BY <1>1, <1>3, <1>4 DEF ReportInv, OneReport
<1>6. ReportSound'
  BY <1>1, <1>3, <1>4 DEF ReportInv, ReportSound
<1>7. OwnerWaits'
  <2>1. ASSUME request.thread \in Threads, pc[request.thread] \in {"wait", "inline"}
        PROVE  pc'[request.thread] \in {"wait", "inline"}
    BY <1>2, <2>1 DEF OwnerLabels
  <2> QED
    BY <1>1, <2>1 DEF ReportInv, OwnerWaits
<1>8. DumpLeftWhole'
  BY <1>1 DEF ReportInv, DumpLeftWhole, Alive
<1> QED
  BY <1>5, <1>6, <1>7, <1>8 DEF ReportInv

\* The owner's own steps: it claims, fills, starts a writer and leaves.
LEMMA OwnerKeepsReport ==
  ASSUME TypeOK, ReportInv, NEW t \in Threads,
         \/ ClaimWon(t) \/ FillRequest(t) \/ StartWorker(t) \/ WorkerFails(t)
         \/ ReportDone(t) \/ WaitTimesOut(t)
  PROVE  ReportInv'
<1> USE DEF ReportInv
<1>1. CASE ClaimWon(t)
  <2>1. /\ pc' = [pc EXCEPT ![t] = "fill"] /\ claimed' /\ request.thread = Nobody
        /\ Owners = {} /\ reports = 0
    BY <1>1 DEF ClaimWon, Goto, ReportSound
  <2>2. Owners' = {t}
    BY <2>1 DEF Owners, TypeOK
  <2>3. /\ request' = request /\ writer' = writer /\ dump' = dump /\ Alive /\ Alive'
        /\ reports' = reports /\ timedOut' = timedOut
    BY <1>1 DEF ClaimWon, Alive
  <2>4. pc'[t] = "fill" /\ t # Nobody
    BY <2>1 DEF TypeOK
  <2>5. OneReport' /\ ReportSound'
    BY <2>1, <2>2, <2>3, <2>4 DEF OneReport, ReportSound
  <2>6. OwnerWaits' /\ DumpLeftWhole'
    BY <2>1, <2>3 DEF ReportSound, OwnerWaits, DumpLeftWhole, Attempts
  <2> QED
    BY <2>5, <2>6
<1>2. CASE FillRequest(t)
  <2>1. /\ pc[t] = "fill" /\ pc' = [pc EXCEPT ![t] = "spawn"]
        /\ request' = [thread |-> t, reason |-> back[t]]
        /\ claimed' = claimed /\ writer' = writer /\ dump' = dump /\ Alive /\ Alive'
        /\ reports' = reports /\ timedOut' = timedOut
    BY <1>2 DEF FillRequest, Goto, Alive
  <2>2. t \in Owners /\ claimed /\ reports = 0 /\ Owners = {t}
    BY <2>1 DEF Owners, OneReport
  <2>3. Owners' = {t} /\ pc'[t] = "spawn" /\ t # Nobody /\ request'.thread = t
    BY <2>1, <2>2 DEF Owners, TypeOK
  <2>4. OneReport' /\ ReportSound'
    BY <2>1, <2>2, <2>3 DEF OneReport, ReportSound
  <2>5. OwnerWaits' /\ DumpLeftWhole'
    BY <2>1, <2>2 DEF ReportSound, OwnerWaits, DumpLeftWhole, Attempts
  <2> QED
    BY <2>4, <2>5
<1>3. CASE StartWorker(t) \/ WorkerFails(t)
  <2>1. /\ pc[t] = "spawn" /\ \E label \in {"wait", "inline"} : pc' = [pc EXCEPT ![t] = label]
        /\ writer'.attempt = "open" /\ writer'.who # Nobody /\ reports' = reports + 1
        /\ claimed' = claimed /\ request' = request /\ dump' = dump /\ Alive /\ Alive'
        /\ timedOut' = timedOut
    BY <1>3 DEF StartWorker, WorkerFails, Goto, Alive
  <2>2. /\ t \in Owners /\ claimed /\ reports = 0 /\ Owners = {t} /\ request.thread = t
    BY <2>1 DEF Owners, OneReport
  <2>3. Owners' = {t} /\ pc'[t] \in {"wait", "inline"} /\ t # Nobody
    BY <2>1, <2>2 DEF Owners, TypeOK
  <2>4. OneReport' /\ ReportSound'
    BY <2>1, <2>2, <2>3 DEF OneReport, ReportSound
  <2>5. writer.attempt = "none" /\ dump # "partial"
    BY <2>2 DEF ReportSound, OwnerWaits, Attempts
  <2>6. OwnerWaits' /\ DumpLeftWhole'
    BY <2>1, <2>2, <2>3, <2>5 DEF OwnerWaits, DumpLeftWhole
  <2> QED
    BY <2>4, <2>6
<1>4. CASE ReportDone(t) \/ WaitTimesOut(t)
  <2>1. PICK label \in Onwards : pc' = [pc EXCEPT ![t] = label]
    BY <1>4, ResumeOnwards DEF ReportDone, WaitTimesOut
  <2>2. /\ pc[t] \in {"wait", "inline"} /\ (writer.attempt = "done" \/ timedOut')
        /\ writer' = writer /\ claimed' = claimed /\ request' = request /\ dump' = dump
        /\ reports' = reports /\ Alive /\ Alive'
    BY <1>4 DEF ReportDone, WaitTimesOut, report, Alive
  <2>3. t \in Owners /\ claimed /\ Owners = {t}
    BY <2>2 DEF Owners, OneReport
  <2>4. reports = 1
    BY <2>2, <2>3 DEF ReportSound
  <2>5. Owners' = {}
    BY <2>1, <2>3 DEF Owners, Onwards, TypeOK
  <2>6. OneReport' /\ ReportSound'
    BY <2>2, <2>3, <2>4, <2>5 DEF OneReport, ReportSound
  <2>7. OwnerWaits' /\ DumpLeftWhole'
    BY <2>2 DEF OwnerWaits, DumpLeftWhole, Attempts
  <2> QED
    BY <2>6, <2>7
<1> QED
  BY <1>1, <1>2, <1>3, <1>4

\* The writer's steps: its owner stands still.
LEMMA WriterKeepsReport ==
  ASSUME TypeOK, ReportInv, OpenDump \/ DumpWritten \/ DumpFails
  PROVE  ReportInv'
<1> USE DEF ReportInv
<1>1. /\ writer.attempt \in Attempts \cup {"open"} /\ writer'.attempt # "none"
      /\ writer'.who = writer.who
      /\ dump' = "partial" => writer'.attempt \in Attempts
      /\ pc' = pc /\ claimed' = claimed /\ request' = request /\ reports' = reports
      /\ timedOut' = timedOut /\ Alive /\ Alive'
  BY DEF OpenDump, DumpWritten, DumpFails, WriteStep, Attempts, Alive, TypeOK, OwnerWaits
<1>2. Owners' = Owners /\ reports # 0
  BY <1>1 DEF Owners, ReportSound, Attempts
<1>3. OneReport' /\ ReportSound'
  BY <1>1, <1>2 DEF OneReport, ReportSound
<1>4. OwnerWaits' /\ DumpLeftWhole'
  BY <1>1 DEF OwnerWaits, DumpLeftWhole
<1> QED
  BY <1>3, <1>4

\* The end of the process: its thread does not own a report.
LEMMA ExitKeepsReport ==
  ASSUME TypeOK, ReportInv, NEW t \in Threads, Exit(t)
  PROVE  ReportInv'
<1> USE DEF ReportInv
<1>1. /\ pc[t] = "exit" /\ pc' = pc /\ exiter' = t
      /\ claimed' = claimed /\ request' = request /\ writer' = writer /\ dump' = dump
      /\ reports' = reports /\ timedOut' = timedOut
  BY DEF Exit, report
<1>2. Owners' = Owners
  BY <1>1 DEF Owners
<1>3. OneReport' /\ ReportSound' /\ OwnerWaits'
  BY <1>1, <1>2 DEF OneReport, ReportSound, OwnerWaits
<1>4. DumpLeftWhole'
  BY <1>1 DEF OwnerWaits, DumpLeftWhole
<1> QED
  BY <1>3, <1>4

\* Every step keeps what the report needs.
LEMMA ReportStep == TypeOK /\ ReportInv /\ [Next]_vars => ReportInv'
<1> SUFFICES ASSUME TypeOK, ReportInv, [Next]_vars PROVE ReportInv'
  OBVIOUS
<1>1. ASSUME NEW t \in Threads,
             \/ \E f \in Faults : Raise(t, f)
             \/ Snapshot(t) \/ Terminate(t) \/ VectoredProbe(t) \/ VectoredRearm(t)
             \/ VectoredStore(t) \/ Search(t) \/ ClaimLost(t) \/ Chain(t) \/ HostTerminates(t)
      PROVE  ReportInv'
  BY <1>1, OutsideSteps, OutsideKeepsReport
<1>2. ASSUME NEW t \in Threads,
             \/ ClaimWon(t) \/ FillRequest(t) \/ StartWorker(t) \/ WorkerFails(t)
             \/ ReportDone(t) \/ WaitTimesOut(t)
      PROVE  ReportInv'
  BY <1>2, OwnerKeepsReport
<1>3. ASSUME NEW t \in Threads, Exit(t) PROVE ReportInv'
  BY <1>3, ExitKeepsReport
<1>4. CASE OpenDump \/ DumpWritten \/ DumpFails
  BY <1>4, WriterKeepsReport
<1>5. CASE UNCHANGED <<pc, report, exiter>>
  BY <1>5 DEF ReportInv, OneReport, ReportSound, OwnerWaits, DumpLeftWhole, Owners, Alive, report
<1>6. ASSUME NEW h \in Hosts, HostInstalls(h) PROVE ReportInv'
  BY <1>5, <1>6 DEF HostInstalls
<1>7. CASE UNCHANGED vars
  BY <1>5, <1>7 DEF vars, report
<1> QED
  BY <1>1, <1>2, <1>3, <1>4, <1>6, <1>7 DEF Next, ThreadStep

-----------------------------------------------------------------------------
\* A step of a thread that is neither at the exchange nor at the store leaves
\* the chain of filters alone.
LEMMA ElsewhereKeepsChain ==
  ASSUME TypeOK, Handover, NEW t \in Threads, pc[t] # "rearmed",
         NEW label \in Labels \ {"rearmed"}, pc' = [pc EXCEPT ![t] = label],
         UNCHANGED <<displaced, previous, newest, raced>>
  PROVE  Handover'
<1>1. \A u \in Threads : pc'[u] = "rearmed" <=> pc[u] = "rearmed"
  BY DEF TypeOK
<1> QED
  BY <1>1 DEF Handover

\* Every step keeps the chain, or is one of two that race.
LEMMA ChainStep == TypeOK /\ Handover /\ [Next]_vars => Handover'
<1> SUFFICES ASSUME TypeOK, Handover, [Next]_vars PROVE Handover'
  OBVIOUS
<1>1. ASSUME NEW t \in Threads, VectoredRearm(t) PROVE Handover'
  <2>1. /\ pc' = [pc EXCEPT ![t] = "rearmed"]
        /\ displaced' = [displaced EXCEPT ![t] = filter] /\ previous' = previous
        /\ newest' = IF filter = "ours" THEN newest ELSE filter
        /\ raced' = (raced \/ \E u \in Threads : pc[u] = "rearmed")
    BY <1>1 DEF VectoredRearm, Goto
  <2> SUFFICES ASSUME ~raced' PROVE Handover'
    BY DEF Handover
  <2>2. (\A u \in Threads : pc[u] # "rearmed") /\ previous = newest
    BY <2>1 DEF Handover
  <2>3. pc'[t] = "rearmed" /\ displaced'[t] = filter
    BY <2>1 DEF TypeOK
  <2>4. \A u \in Threads : pc'[u] = "rearmed" => u = t
    BY <2>1, <2>2 DEF TypeOK
  <2> QED
    BY <2>1, <2>2, <2>3, <2>4 DEF Handover
<1>2. ASSUME NEW t \in Threads, VectoredStore(t) PROVE Handover'
  <2>1. /\ pc[t] = "rearmed" /\ newest' = newest /\ raced' = raced
        /\ previous' = IF displaced[t] = "ours" THEN previous ELSE displaced[t]
        /\ \E label \in {"claim", "search"} : pc' = [pc EXCEPT ![t] = label]
    BY <1>2 DEF VectoredStore, Goto
  <2> SUFFICES ASSUME ~raced PROVE Handover'
    BY <2>1 DEF Handover
  <2>2. \A u \in Threads : pc'[u] # "rearmed"
    BY <2>1 DEF Handover, TypeOK
  <2>3. previous' = newest'
    BY <2>1 DEF Handover
  <2> QED
    BY <2>2, <2>3 DEF Handover
<1>3. ASSUME NEW t \in Threads, NEW f \in Faults, Raise(t, f) PROVE Handover'
  <2>1. "vectored" \in Labels \ {"rearmed"} /\ pc' = [pc EXCEPT ![t] = "vectored"]
    BY <1>3 DEF Raise, Goto, Labels
  <2> QED
    BY <1>3, <2>1, ElsewhereKeepsChain DEF Raise, NewEvent, filters
<1>4. ASSUME NEW t \in Threads,
             \/ Snapshot(t) \/ Terminate(t) \/ VectoredProbe(t) \/ Search(t) \/ ClaimLost(t)
             \/ ClaimWon(t) \/ FillRequest(t) \/ StartWorker(t) \/ WorkerFails(t)
             \/ ReportDone(t) \/ WaitTimesOut(t) \/ Chain(t) \/ HostTerminates(t)
      PROVE  Handover'
  <2>1. PICK label \in Labels \ {"rearmed"} : pc' = [pc EXCEPT ![t] = label]
    <3>1. CASE Resume(t)
      BY <3>1, ResumeOnwards DEF Onwards, Labels
    <3>2. CASE ~Resume(t)
      BY <1>4, <3>2 DEF Snapshot, Terminate, VectoredProbe, Search, ClaimLost, ClaimWon,
         FillRequest, StartWorker, WorkerFails, ReportDone, WaitTimesOut, Chain,
         HostTerminates, Goto, Labels
    <3> QED
      BY <3>1, <3>2
  <2>2. pc[t] # "rearmed" /\ UNCHANGED <<displaced, previous, newest, raced>>
    BY <1>4 DEF Snapshot, Terminate, NewEvent, VectoredProbe, Search, ClaimLost, ClaimWon,
       FillRequest, StartWorker, WorkerFails, ReportDone, WaitTimesOut, Chain,
       HostTerminates, filters
  <2> QED
    BY <2>1, <2>2, ElsewhereKeepsChain
<1>5. CASE UNCHANGED <<pc, displaced, previous, newest, raced>>
  BY <1>5 DEF Handover
<1>6. ASSUME NEW t \in Threads, Exit(t) PROVE Handover'
  BY <1>5, <1>6 DEF Exit, filters
<1>7. ASSUME NEW h \in Hosts, HostInstalls(h) PROVE Handover'
  BY <1>5, <1>7 DEF HostInstalls
<1>8. CASE OpenDump \/ DumpWritten \/ DumpFails
  BY <1>5, <1>8 DEF OpenDump, DumpWritten, DumpFails, WriteStep, filters
<1>9. CASE UNCHANGED vars
  BY <1>5, <1>9 DEF vars
<1> QED
  BY <1>1, <1>2, <1>3, <1>4, <1>6, <1>7, <1>8, <1>9 DEF Next, ThreadStep

-----------------------------------------------------------------------------
\* Every reachable state satisfies the inductive invariant.
LEMMA AlwaysIInv == Spec => []IInv
<1>1. IInv /\ [Next]_vars => IInv'
  BY TypeStep, ReportStep, ChainStep DEF IInv
<1> QED
  BY <1>1, InitIInv, PTL DEF Spec

\* The variables of the crash capture keep their types.
THEOREM TypeCorrect == Spec => []TypeOK
<1>1. IInv => TypeOK
  BY DEF IInv
<1> QED
  BY <1>1, AlwaysIInv, PTL

\* However many threads fault at once, one of them owns the only report.
THEOREM ReportOwned == Spec => []OneReport
<1>1. IInv => OneReport
  BY DEF IInv, ReportInv
<1> QED
  BY <1>1, AlwaysIInv, PTL

\* The owner of the report cannot end the process before the dump is whole,
\* unless its wait ran out.
THEOREM DumpWhole == Spec => []DumpLeftWhole
<1>1. IInv => DumpLeftWhole
  BY DEF IInv, ReportInv
<1> QED
  BY <1>1, AlwaysIInv, PTL

\* The last-chance filter chains to the host filter displaced last, unless two
\* threads stood between the exchange and the store at once.
THEOREM HostHears == Spec => []HostHearsUnlessRaced
<1>1. IInv => HostHearsUnlessRaced
  BY DEF IInv, Handover, HostHearsUnlessRaced, HostStillHears
<1> QED
  BY <1>1, AlwaysIInv, PTL
=============================================================================
