---------------------------- MODULE CrashReporter ----------------------------
(***************************************************************************)
(* Crash capture: the vectored and the last-chance exception filters and   *)
(* the two diagnostic hooks of entry.cpp, and record_crash, the dump worker*)
(* and write_minidump of diag.hpp, in the DEV build, the one that records. *)
(*                                                                         *)
(* Any thread of the process may fault.  A fault first passes the vectored *)
(* filter; then a handler further up may swallow it, the engine's own fatal*)
(* handler may catch it and write a dump, or nobody does and the last-     *)
(* chance filter of the process runs.  All of them meet in record_crash,   *)
(* which only the first caller gets past.                                  *)
(***************************************************************************)
EXTENDS Naturals

CONSTANTS
  Threads,    \* threads that may fault
  Hosts,      \* last-chance filters other parts of the process install
  MaxFaults,  \* bound: faults, snapshots and terminations in a behaviour
  MaxInstalls \* bound: filters the hosts install after the attach

ASSUME HostAssumption == Hosts # {} /\ "ours" \notin Hosts
ASSUME ThreadAssumption == "nobody" \notin Threads
ASSUME BoundAssumption == MaxFaults \in Nat /\ MaxInstalls \in Nat

VARIABLES
  pc,         \* where each thread is
  fault,      \* the fault it handles, until a handler is found
  back,       \* where record_crash returns to, and why it was called; then "snapshot"
  displaced,  \* displaced_filter, between the exchange and the store, else "ours"
  filter,     \* the process-wide last-chance filter
  previous,   \* g_previous_exception_filter
  newest,     \* history: the host filter displaced last
  raced,      \* history: did two threads stand between exchange and store at once
  claimed,    \* g_crash_claimed
  request,    \* g_crash_request: the thread it is about and why
  writer,     \* who runs record_crash_impl, and the attempt it is at
  dump,       \* the dump file
  reports,    \* history: how often record_crash_impl was entered
  timedOut,   \* history: the 30 s wait for the worker ran out
  exiter,     \* the thread that ended the process
  events,     \* counts against MaxFaults
  installs    \* counts against MaxInstalls

vars == <<pc, fault, back, displaced, filter, previous, newest, raced, claimed, request,
          writer, dump, reports, timedOut, exiter, events, installs>>

filters == <<filter, previous, newest, raced, installs>>
report == <<claimed, request, writer, dump, reports, timedOut>>

Nobody == "nobody"
Reasons == {"self", "unhandled", "fatal", "snapshot", "terminate"}
Faults == [inModule : BOOLEAN, probed : BOOLEAN, fate : {"handled", "fatal", "unhandled"}]
NoFault == [inModule |-> FALSE, probed |-> FALSE, fate |-> "handled"]
Attempts == {"rich", "safe", "minimal"}

Init ==
  /\ pc = [t \in Threads |-> "run"]
  /\ fault = [t \in Threads |-> NoFault]
  /\ back = [t \in Threads |-> "snapshot"]
  /\ displaced = [t \in Threads |-> "ours"]
  /\ filter = "ours"
  /\ previous \in Hosts
  /\ newest = previous
  /\ raced = FALSE
  /\ claimed = FALSE
  /\ request = [thread |-> Nobody, reason |-> "none"]
  /\ writer = [who |-> Nobody, attempt |-> "none"]
  /\ dump = "none"
  /\ reports = 0
  /\ timedOut = FALSE
  /\ exiter = Nobody
  /\ events = 0
  /\ installs = 0

Goto(t, label) == pc' = [pc EXCEPT ![t] = label]
Alive == exiter = Nobody
-----------------------------------------------------------------------------
\* Something happens to a running thread.
NewEvent(t) ==
  /\ Alive
  /\ pc[t] = "run"
  /\ events < MaxFaults
  /\ events' = events + 1

\* A serious exception is raised.  A probe is a handled read of the module.
Raise(t, f) ==
  /\ NewEvent(t)
  /\ f.probed => f.inModule /\ f.fate = "handled"
  /\ fault' = [fault EXCEPT ![t] = f]
  /\ Goto(t, "vectored")
  /\ UNCHANGED <<back, displaced, filters, report, exiter>>

\* The input code asks for a snapshot when its helpers are missing and goes on.
Snapshot(t) ==
  /\ NewEvent(t)
  /\ back' = [back EXCEPT ![t] = "snapshot"]
  /\ Goto(t, "claim")
  /\ UNCHANGED <<fault, displaced, filters, report, exiter>>

\* TerminateProcess on ourselves takes a snapshot before the original runs.
Terminate(t) ==
  /\ NewEvent(t)
  /\ back' = [back EXCEPT ![t] = "terminate"]
  /\ Goto(t, "claim")
  /\ UNCHANGED <<fault, displaced, filters, report, exiter>>

\* The host or Steam replaces the last-chance filter.
HostInstalls(h) ==
  /\ Alive
  /\ installs < MaxInstalls
  /\ filter' = h
  /\ installs' = installs + 1
  /\ UNCHANGED <<pc, fault, back, displaced, previous, newest, raced, report, exiter, events>>

-----------------------------------------------------------------------------
\* Mutated forms used to test the properties stand before what they mutate.
VectoredRearmForgets(t) ==
  /\ Alive
  /\ pc[t] = "vectored"
  /\ ~fault[t].probed
  /\ displaced' = [displaced EXCEPT ![t] = "ours"]
  /\ filter' = "ours"
  /\ newest' = IF filter = "ours" THEN newest ELSE filter
  /\ raced' = (raced \/ \E u \in Threads : pc[u] = "rearmed")
  /\ Goto(t, "rearmed")
  /\ UNCHANGED <<fault, back, previous, installs, report, exiter, events>>

\* diag_vectored_exception_filter: re-arm the last-chance filter, unless a
\* probe expects this fault.
VectoredProbe(t) ==
  /\ Alive
  /\ pc[t] = "vectored"
  /\ fault[t].probed
  /\ Goto(t, "search")
  /\ UNCHANGED <<fault, back, displaced, filters, report, exiter, events>>

VectoredRearm(t) ==
  /\ Alive
  /\ pc[t] = "vectored"
  /\ ~fault[t].probed
  /\ displaced' = [displaced EXCEPT ![t] = filter]
  /\ filter' = "ours"
  /\ newest' = IF filter = "ours" THEN newest ELSE filter
  /\ raced' = (raced \/ \E u \in Threads : pc[u] = "rearmed")
  /\ Goto(t, "rearmed")
  /\ UNCHANGED <<fault, back, previous, installs, report, exiter, events>>

\* The displaced host filter is kept; a fault of this module is recorded at
\* once, whoever may handle it later.
VectoredStore(t) ==
  /\ Alive
  /\ pc[t] = "rearmed"
  /\ previous' = IF displaced[t] = "ours" THEN previous ELSE displaced[t]
  /\ displaced' = [displaced EXCEPT ![t] = "ours"]
  /\ IF fault[t].inModule
     THEN Goto(t, "claim") /\ back' = [back EXCEPT ![t] = "self"]
     ELSE Goto(t, "search") /\ UNCHANGED back
  /\ UNCHANGED <<fault, filter, newest, raced, installs, report, exiter, events>>

\* The search for a handler.  An unhandled fault reaches whichever filter is
\* installed at that moment.
Search(t) ==
  /\ Alive
  /\ pc[t] = "search"
  /\ \/ /\ fault[t].fate = "handled"
        /\ Goto(t, "run") /\ UNCHANGED back
     \/ /\ fault[t].fate = "fatal"
        /\ Goto(t, "claim") /\ back' = [back EXCEPT ![t] = "fatal"]
     \/ /\ fault[t].fate = "unhandled" /\ filter = "ours"
        /\ Goto(t, "claim") /\ back' = [back EXCEPT ![t] = "unhandled"]
     \/ /\ fault[t].fate = "unhandled" /\ filter # "ours"
        /\ Goto(t, "host") /\ UNCHANGED back
  /\ fault' = [fault EXCEPT ![t] = NoFault]
  /\ UNCHANGED <<displaced, filters, report, exiter, events>>

-----------------------------------------------------------------------------
\* record_crash.  Where its caller goes on: the vectored filter continues the
\* search, the last-chance filter chains to the filter it displaced, the
\* engine's fatal handler and TerminateProcess end the process.
Resume(t) ==
  /\ Goto(t, CASE back[t] = "self" -> "search"
               [] back[t] = "unhandled" -> "chain"
               [] back[t] = "fatal" -> "host"
               [] back[t] = "terminate" -> "exit"
               [] OTHER -> "run")
  /\ back' = [back EXCEPT ![t] = "snapshot"]

ClaimLost(t) ==
  /\ Alive
  /\ pc[t] = "claim"
  /\ claimed
  /\ Resume(t)
  /\ UNCHANGED <<fault, displaced, filters, report, exiter, events>>

ClaimWonUnchecked(t) ==
  /\ Alive
  /\ pc[t] = "claim"
  /\ claimed' = TRUE
  /\ Goto(t, "fill")
  /\ UNCHANGED <<fault, back, displaced, filters, request, writer, dump, reports,
                 timedOut, exiter, events>>

ClaimWon(t) ==
  /\ Alive
  /\ pc[t] = "claim"
  /\ ~claimed
  /\ claimed' = TRUE
  /\ Goto(t, "fill")
  /\ UNCHANGED <<fault, back, displaced, filters, request, writer, dump, reports,
                 timedOut, exiter, events>>

FillRequest(t) ==
  /\ Alive
  /\ pc[t] = "fill"
  /\ request' = [thread |-> t, reason |-> back[t]]
  /\ Goto(t, "spawn")
  /\ UNCHANGED <<fault, back, displaced, filters, claimed, writer, dump, reports,
                 timedOut, exiter, events>>

StartWorkerDetached(t) ==
  /\ Alive
  /\ pc[t] = "spawn"
  /\ writer' = [who |-> "worker", attempt |-> "open"]
  /\ reports' = reports + 1
  /\ Resume(t)
  /\ UNCHANGED <<fault, displaced, filters, claimed, request, dump, timedOut,
                 exiter, events>>

StartWorker(t) ==
  /\ Alive
  /\ pc[t] = "spawn"
  /\ writer' = [who |-> "worker", attempt |-> "open"]
  /\ reports' = reports + 1
  /\ Goto(t, "wait")
  /\ UNCHANGED <<fault, back, displaced, filters, claimed, request, dump, timedOut,
                 exiter, events>>

\* CreateThread failed: the faulting thread writes the dump itself.
WorkerFails(t) ==
  /\ Alive
  /\ pc[t] = "spawn"
  /\ writer' = [who |-> t, attempt |-> "open"]
  /\ reports' = reports + 1
  /\ Goto(t, "inline")
  /\ UNCHANGED <<fault, back, displaced, filters, claimed, request, dump, timedOut,
                 exiter, events>>

ReportDone(t) ==
  /\ Alive
  /\ pc[t] \in {"wait", "inline"}
  /\ writer.attempt = "done"
  /\ Resume(t)
  /\ UNCHANGED <<fault, displaced, filters, report, exiter, events>>

WaitTimesOut(t) ==
  /\ Alive
  /\ pc[t] = "wait"
  /\ writer.attempt # "done"
  /\ timedOut' = TRUE
  /\ Resume(t)
  /\ UNCHANGED <<fault, displaced, filters, claimed, request, writer, dump,
                 reports, exiter, events>>

-----------------------------------------------------------------------------
\* write_minidump, run by the worker or by the faulting thread.
WriteStep(attempt, file) ==
  /\ Alive
  /\ writer' = [writer EXCEPT !.attempt = attempt]
  /\ dump' = file
  /\ UNCHANGED <<pc, fault, back, displaced, filters, claimed, request, reports,
                 timedOut, exiter, events>>

\* The file is created empty, or cannot be: then nothing is written.
OpenDump ==
  /\ writer.attempt = "open"
  /\ WriteStep("rich", "partial") \/ WriteStep("done", dump)

DumpWritten ==
  /\ writer.attempt \in Attempts
  /\ WriteStep("done", "complete")

\* A failed attempt is retried on the emptied file with a simpler dump; the
\* file of the last one is deleted.
DumpFails ==
  \/ writer.attempt = "rich" /\ WriteStep("safe", "partial")
  \/ writer.attempt = "safe" /\ WriteStep("minimal", "partial")
  \/ writer.attempt = "minimal" /\ WriteStep("done", "none")

-----------------------------------------------------------------------------
\* The last-chance filter hands the exception to the filter it displaced.
Chain(t) ==
  /\ Alive
  /\ pc[t] = "chain"
  /\ Goto(t, "host")
  /\ UNCHANGED <<fault, back, displaced, filters, report, exiter, events>>

\* A host filter, and the engine's fatal handler once its dump is written,
\* terminate the process; that call goes through our hook too.
HostTerminates(t) ==
  /\ Alive
  /\ pc[t] = "host"
  /\ back' = [back EXCEPT ![t] = "terminate"]
  /\ Goto(t, "claim")
  /\ UNCHANGED <<fault, displaced, filters, report, exiter, events>>

Exit(t) ==
  /\ Alive
  /\ pc[t] = "exit"
  /\ exiter' = t
  /\ UNCHANGED <<pc, fault, back, displaced, filters, report, events>>

ThreadStep(t) ==
  \/ VectoredProbe(t) \/ VectoredRearm(t) \/ VectoredStore(t) \/ Search(t)
  \/ ClaimLost(t) \/ ClaimWon(t) \/ FillRequest(t) \/ StartWorker(t) \/ WorkerFails(t)
  \/ ReportDone(t) \/ WaitTimesOut(t)
  \/ Chain(t) \/ HostTerminates(t) \/ Exit(t)

Next ==
  \/ \E t \in Threads :
       \/ \E f \in Faults : Raise(t, f)
       \/ Snapshot(t)
       \/ Terminate(t)
       \/ ThreadStep(t)
  \/ \E h \in Hosts : HostInstalls(h)
  \/ OpenDump \/ DumpWritten \/ DumpFails

Spec == Init /\ [][Next]_vars

-----------------------------------------------------------------------------
TypeOK ==
  /\ pc \in [Threads -> {"run", "vectored", "rearmed", "search", "claim", "fill",
                         "spawn", "wait", "inline", "chain", "host", "exit"}]
  /\ fault \in [Threads -> Faults]
  /\ back \in [Threads -> Reasons]
  /\ displaced \in [Threads -> Hosts \cup {"ours"}]
  /\ filter \in Hosts \cup {"ours"}
  /\ previous \in Hosts
  /\ newest \in Hosts
  /\ raced \in BOOLEAN
  /\ claimed \in BOOLEAN
  /\ request \in [thread : Threads \cup {Nobody}, reason : Reasons \cup {"none"}]
  /\ writer \in [who : Threads \cup {"worker", Nobody},
                 attempt : Attempts \cup {"none", "open", "done"}]
  /\ dump \in {"none", "partial", "complete"}
  /\ reports \in Nat
  /\ timedOut \in BOOLEAN
  /\ exiter \in Threads \cup {Nobody}
  /\ events \in Nat
  /\ installs \in Nat

\* However many threads fault at once, one of them owns the report: it alone
\* fills the request, once, and starts the writer (diag.hpp:661-665).  The
\* worker reads the request even after its owner stopped waiting for it.
Owners == {t \in Threads : pc[t] \in {"fill", "spawn", "wait", "inline"}}

OneReport ==
  /\ \A t, u \in Owners : t = u
  /\ Owners # {} => claimed
  /\ reports <= 1
  /\ \A t \in Owners : pc[t] \in {"fill", "spawn"} => reports = 0
  /\ \A t \in Owners : pc[t] = "fill" <=> request.thread # t
  /\ writer.who # Nobody => request.thread # Nobody
  /\ request.thread # Nobody => request.thread \in Owners \/ reports = 1

\* A dump file left half-written means the process was ended by a thread that
\* did not own the report, or that the wait for the worker ran out.
DumpLeftWhole ==
  ~Alive /\ dump = "partial" => timedOut \/ exiter # request.thread

\* entry.cpp:157-159: "preserve the displaced handler so the host still receives
\* the crash after us".  Once every exchange has been followed by its store, the
\* filter the last-chance filter chains to is the host filter displaced last.
HostStillHears ==
  (\A t \in Threads : pc[t] # "rearmed") => previous = newest

\* What the code does keep of that: however often threads fault and hosts install
\* their filters, only two threads between exchange and store at once lose one.
HostHearsUnlessRaced == raced \/ HostStillHears
=============================================================================
