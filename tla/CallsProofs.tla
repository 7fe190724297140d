----------------------------- MODULE CallsProofs -----------------------------
(***************************************************************************)
(* The safety of the calls that take several steps, for any number of      *)
(* primitives, jobs, hooks, threads, resizes and entities.  The components *)
(* share no variable, so each has an inductive invariant of its own, and   *)
(* every step of the whole is a step of one component or leaves its        *)
(* variables alone.  The sections follow the components: the simulation of *)
(* a command, the swap chain, the installation of the hooks, parallel_for, *)
(* the sort of a list, the layers of an object, the entity cache.          *)
(***************************************************************************)
EXTENDS Calls, Sequences, TLAPS

-----------------------------------------------------------------------------
\* A behaviour starts, and goes on, as one of each component.
LEMMA ComponentsInit ==
  Init => /\ Sort!Init /\ Start!Init /\ Simulate!Init
          /\ Draw!Init /\ Jobs!Init /\ Cache!Init
  BY DEF Init, SortIdle, JobsIdle, StartIdle

LEMMA ComponentsNext ==
  [Next]_vars => /\ [Sort!Next]_sortVars
                 /\ [Layers!Next]_layersVars
                 /\ [Start!Next]_startVars
                 /\ [Simulate!Next]_simulateVars
                 /\ [Draw!Next]_drawVars
                 /\ [Jobs!Next]_jobsVars
                 /\ [Cache!Next]_cacheVars
  BY DEF Next, vars, SortStep, LayersStep, JobsStep, StartStep, SimulateStep, DrawStep,
         CacheStep

-----------------------------------------------------------------------------
(***************************************************************************)
(* prediction::simulate.                                                   *)
(***************************************************************************)

\* Places at which the engine was told nothing of a prediction, or was told
\* that it is over.
Outside == {"idle", "guarded", "scene", "callback", "restore", "swallowed", "return"}

\* LeavesEngineAsFound speaks of the ends of a call alone; in between, the guard
\* holds all of the memory, whatever was written to it, a finished move stays
\* until the callback has read it, and outside of the move the engine does not
\* predict unless a fault was swallowed in one.
SimulateInv ==
  /\ place \in Simulate!Guarded \cup {"idle", "restore", "swallowed", "return"}
  /\ memory \in [Simulate!Memory -> {"engine", "simulation"}]
  /\ {predicting, pawnSet, context, result, lost} \subseteq BOOLEAN
  /\ entries = IF place = "idle" THEN {} ELSE Simulate!Memory
  /\ place = "idle" => \A c \in Simulate!Memory : memory[c] = "engine"
  /\ place \in Outside => lost \/ ~(predicting \/ pawnSet \/ context)
  /\ place \in {"close", "callback"} => \A c \in Simulate!Moved : memory[c] = "simulation"
  /\ place = "restore" \/ (place = "idle" /\ result) => read = "all"

LEMMA SimulateInvInit == Simulate!Init => SimulateInv
  BY DEF Simulate!Init, SimulateInv, Outside, Simulate!Memory, Simulate!Own,
         Simulate!Ground, Simulate!Moved

LEMMA SimulateInvStep == SimulateInv /\ [Simulate!Next]_simulateVars => SimulateInv'
<1> SUFFICES ASSUME SimulateInv, [Simulate!Next]_simulateVars PROVE SimulateInv'
  OBVIOUS
<1> USE DEF SimulateInv, Outside, Simulate!Goes, Simulate!Writes, Simulate!engine,
            Simulate!Guarded, Simulate!Closing
<1>1. CASE Simulate!Refuse
  BY <1>1 DEF Simulate!Refuse
<1>2. CASE Simulate!Begin
  BY <1>2 DEF Simulate!Begin, Simulate!Saved
<1>3. CASE Simulate!SetScene
  BY <1>3 DEF Simulate!SetScene
<1>4. CASE Simulate!SetPawn \/ Simulate!SetState \/ Simulate!SetupContext
  BY <1>4 DEF Simulate!SetPawn, Simulate!SetState, Simulate!SetupContext
<1>5. CASE Simulate!NoMoveData
  BY <1>5 DEF Simulate!NoMoveData
<1>6. CASE Simulate!SetupMove
  BY <1>6 DEF Simulate!SetupMove
<1>7. CASE Simulate!Process
  BY <1>7 DEF Simulate!Process, Simulate!Moved, Simulate!Memory
<1>8. CASE Simulate!ClearState \/ Simulate!ResetPawn
  BY <1>8 DEF Simulate!ClearState, Simulate!ResetPawn
<1>9. CASE Simulate!CleanupContext
  BY <1>9 DEF Simulate!CleanupContext, Simulate!Closed
<1>10. CASE Simulate!CallbackStarts
  BY <1>10 DEF Simulate!CallbackStarts
<1>11. CASE Simulate!CallbackEnds
  BY <1>11 DEF Simulate!CallbackEnds
<1>12. CASE Simulate!Fault
  BY <1>12 DEF Simulate!Fault
<1>13. CASE Simulate!Restore
  BY <1>13 DEF Simulate!Restore
<1>14. CASE UNCHANGED simulateVars
  BY <1>14 DEF simulateVars
<1> QED
  BY <1>1, <1>2, <1>3, <1>4, <1>5, <1>6, <1>7, <1>8, <1>9, <1>10, <1>11, <1>12, <1>13, <1>14
  DEF Simulate!Next

\* prediction.cpp:302-410: whichever way a simulation ends, the engine finds its
\* own memory again and predicts no more, unless a fault was swallowed in the
\* middle of a move, and the callback reads a finished move.
THEOREM SimulateLeavesEngineAsFound == Spec => []LeavesEngineAsFound
<1>1. Init => SimulateInv
  BY ComponentsInit, SimulateInvInit
<1>2. SimulateInv /\ [Next]_vars => SimulateInv'
  BY ComponentsNext, SimulateInvStep
<1>3. SimulateInv => LeavesEngineAsFound
  BY DEF SimulateInv, LeavesEngineAsFound, Simulate!LeavesEngineAsFound, Outside,
         Simulate!Moved, Simulate!Memory
<1> QED
  BY <1>1, <1>2, <1>3, PTL DEF Spec

-----------------------------------------------------------------------------
(***************************************************************************)
(* The swap chain and the detach.                                          *)
(***************************************************************************)

\* The order of the resets, as what each number of them means.
LEMMA ResetOrder ==
  ASSUME resets \in 0 .. Len(Draw!Resets)
  PROVE  /\ Draw!WasReset("wnd_proc") <=> resets >= 1
         /\ Draw!WasReset("om_set_render_targets") <=> resets >= 2
         /\ Draw!WasReset("present") <=> resets >= 3
         /\ Draw!WasReset("resize_buffers") <=> resets >= 4
<1>1. /\ Len(Draw!Resets) = 4
      /\ Draw!Resets[1] = "wnd_proc" /\ Draw!Resets[2] = "om_set_render_targets"
      /\ Draw!Resets[3] = "present" /\ Draw!Resets[4] = "resize_buffers"
  BY DEF Draw!Resets
<1>2. resets \in {0, 1, 2, 3, 4}
  BY <1>1
<1> QED
  BY <1>1, <1>2 DEF Draw!WasReset

\* TargetFollowsBuffers needs to know that no view is held from the moment the
\* hook on ResizeBuffers gave it up until the call is over; LateHooksGone, that
\* a late hook is gone from its own reset on and not only after the last one.
DrawInv ==
  /\ buffers \in Nat
  /\ resets \in 0 .. Len(Draw!Resets)
  /\ late \in [Draw!Late -> {"none", "made", "on"}]
  /\ frame \in {"resizing", "resized", "crashed"} => target = Draw!NoView
  /\ Draw!TargetFollowsBuffers
  /\ \A h \in Draw!Late \ remade : Draw!WasReset(h) => late[h] = "none"

LEMMA DrawInvInit == Draw!Init => DrawInv
<1> SUFFICES ASSUME Draw!Init PROVE DrawInv
  OBVIOUS
<1>1. resets \in 0 .. Len(Draw!Resets)
  BY DEF Draw!Init, Draw!Resets
<1> QED
  BY <1>1, ResetOrder DEF Draw!Init, DrawInv, Draw!TargetFollowsBuffers, Draw!Late

\* An attempt to get a view gets one of the present buffers or is on record.
LEMMA ViewOrMissed ==
  ASSUME Draw!CreateView
  PROVE  target' = buffers \/ (target' = Draw!NoView /\ missed')
<1>1. PICK made \in BOOLEAN : /\ target' = IF made THEN buffers ELSE Draw!NoView
                              /\ missed' = ~made
  BY DEF Draw!CreateView
<1>2. CASE made
  BY <1>1, <1>2, Zenon
<1>3. CASE ~made
  BY <1>1, <1>3, Zenon
<1> QED
  BY <1>2, <1>3

\* A refused resize counts as blocked only when a view was held.
LEMMA BlockedOnlyByView ==
  ASSUME Draw!Refuses
  PROVE  blocked' => blocked \/ target # Draw!NoView
BY Zenon DEF Draw!Refuses

LEMMA DrawInvStep == DrawInv /\ [Draw!Next]_drawVars => DrawInv'
<1> SUFFICES ASSUME DrawInv, [Draw!Next]_drawVars PROVE DrawInv'
  OBVIOUS
<1> USE DEF DrawInv, Draw!TargetFollowsBuffers, Draw!Goes, Draw!NoView
<1>1. ASSUME UNCHANGED resets
      PROVE  \A h : Draw!WasReset(h)' = Draw!WasReset(h)
  BY <1>1 DEF Draw!WasReset
<1>2. CASE Draw!FirstPresent
  BY <1>1, <1>2, ViewOrMissed DEF Draw!FirstPresent
<1>3. CASE Draw!Present
  BY <1>1, <1>3 DEF Draw!Present
<1>4. ASSUME NEW h \in Draw!Late, NEW from, NEW to, Draw!MakeHook(h, from, to),
             {from, to} \subseteq {"drawn", "window hooked", "out"}
      PROVE  DrawInv'
  BY <1>1, <1>4 DEF Draw!MakeHook, Draw!Hooked
<1>5. CASE Draw!HookWindow \/ Draw!HookTargets
  BY <1>4, <1>5 DEF Draw!HookWindow, Draw!HookTargets, Draw!Late
<1>6. CASE Draw!ResizeBegins
  BY <1>1, <1>6 DEF Draw!ResizeBegins, Draw!Released
<1>7. CASE Draw!EngineResizes
  BY <1>1, <1>7, BlockedOnlyByView
  DEF Draw!EngineResizes, Draw!Replaces, Draw!Refuses, Draw!Skipped
<1>8. CASE Draw!ResizeEnds \/ Draw!ResizeEndsEarly
  BY <1>1, <1>8, ViewOrMissed DEF Draw!ResizeEnds, Draw!ResizeEndsEarly
<1>9. CASE Draw!GameResizes
  <2>1. CASE Draw!Replaces
    BY <1>1, <1>9, <2>1 DEF Draw!GameResizes, Draw!Replaces
  <2>2. CASE Draw!Refuses
    BY <1>1, <1>9, <2>2, BlockedOnlyByView DEF Draw!GameResizes, Draw!Refuses
  <2> QED
    BY <1>9, <2>1, <2>2 DEF Draw!GameResizes
<1>10. CASE Draw!Detach
  <2>1. resets' \in 0 .. Len(Draw!Resets) /\ resets' = resets + 1
    BY <1>10 DEF Draw!Detach, Draw!Resets
  <2>2. \A h : Draw!WasReset(h)' <=> Draw!WasReset(h) \/ h = Draw!Resets[resets + 1]
    BY <2>1 DEF Draw!WasReset
  <2> QED
    BY <1>10, <2>1, <2>2 DEF Draw!Detach, Draw!Cleared
<1>11. CASE UNCHANGED drawVars
  BY <1>1, <1>11 DEF drawVars
<1> QED
  BY <1>2, <1>3, <1>5, <1>6, <1>7, <1>8, <1>9, <1>10, <1>11 DEF Draw!Next

LEMMA DrawInvariant == Spec => []DrawInv
<1>1. Init => DrawInv
  BY ComponentsInit, DrawInvInit
<1>2. DrawInv /\ [Next]_vars => DrawInv'
  BY ComponentsNext, DrawInvStep
<1> QED
  BY <1>1, <1>2, PTL DEF Spec

\* context.cpp:75-150, cheat.cpp:154-165: frames are drawn to the buffers that
\* the swap chain has now, and the library refuses no resize while its hook on
\* ResizeBuffers is there.
THEOREM DrawTargetFollowsBuffers == Spec => []TargetFollowsBuffers
<1>1. DrawInv => TargetFollowsBuffers
  BY DEF DrawInv, TargetFollowsBuffers
<1> QED
  BY <1>1, DrawInvariant, PTL

\* cheat.cpp:84-128, 134-149: after the detach the hooks that frames make late
\* are gone, unless a frame that went on meanwhile made them again.
THEOREM DrawLateHooksGone == Spec => []LateHooksGone
<1>1. DrawInv => LateHooksGone
  <2> SUFFICES ASSUME DrawInv, resets = Len(Draw!Resets), NEW h \in Draw!Late \ remade
               PROVE  late[h] = "none"
    BY DEF LateHooksGone, Draw!LateHooksGone
  <2>1. resets = 4
    BY DEF Draw!Resets
  <2> QED
    BY <2>1, ResetOrder DEF DrawInv, Draw!Late
<1> QED
  BY <1>1, DrawInvariant, PTL

-----------------------------------------------------------------------------
(***************************************************************************)
(* The installation of the hooks.                                          *)
(***************************************************************************)

\* Places of the installing thread: hooking, and taking hooks back.
Building == {"check", "create", "build", "enable", "patching"}
Undoing == {"reset", "restoring", "free", "clear"}
CallPlaces == {"out", "prologue", "detour", "jump", "trampoline", "reached", "skipped", "crashed"}

InstallerTypes ==
  /\ installer \in [at : Building \cup Undoing \cup {"rollback", "done"}, hook : Start!Hooks]
  /\ installed \in {"running", "ready", "failed"}
  /\ installed = "running" <=> installer.at # "done"

StartTypes ==
  /\ InstallerTypes
  /\ code \in [Start!Hooks -> {"original", "torn", "patched"}]
  /\ trampoline \in [Start!Hooks -> {"none", "live", "freed"}]
  /\ enabled \subseteq hooked /\ hooked \subseteq Start!Hooks /\ stuck \subseteq Start!Hooks
  /\ call \in [Callers -> [at : CallPlaces, hook : Nat]]
  /\ \A t \in Callers : call[t].at # "out" => call[t].hook \in Start!Hooks

\* A hook that was created and is not enabled.
Bare(h) == h \in hooked \ enabled /\ code[h] = "original" /\ trampoline[h] = "live"

\* The hook the installer is at, by the place where it is.
AtHook(h) ==
  /\ installer.at \in {"check", "create"} => Start!Off(h)
  /\ installer.at = "check" /\ h <= Required => h = 1
  /\ installer.at = "build" => h \notin hooked /\ code[h] = "original" /\ trampoline[h] = "live"
  /\ installer.at = "enable" => Bare(h)
  /\ installer.at = "patching" => h \in hooked \ enabled /\ trampoline[h] = "live"
  /\ installer.at = "rollback" => Start!Off(h) \/ Bare(h)
  /\ installer.at = "reset" => Start!On(h) \/ Start!Off(h) \/ Bare(h)
  /\ installer.at = "restoring" => h \in hooked /\ trampoline[h] = "live"
  /\ installer.at = "free" => h \in hooked /\ trampoline[h] = "live"
  /\ installer.at = "clear" => h \in hooked /\ trampoline[h] = "freed"
  /\ installer.at \in {"patching", "restoring"} => code[h] = "torn"
  /\ installer.at \in {"free", "clear"} => code[h] = "original" \/ h \in stuck
  /\ installer.at \notin {"free", "clear"} => h \notin stuck

\* AllOrNothing speaks of the end of the installation; before it, earlier groups
\* are settled, later ones are untouched, and the entries of the present group
\* are on up to the one being made, or reset up to the one being undone.
Settled(h) ==
  IF h <= Required THEN Start!On(h) /\ h \notin stuck
  ELSE h \in stuck \/ Start!On(h) \/ Start!Off(h)

InstallInv ==
  LET h == installer.hook
      group == Start!Group(h)
  IN /\ \A k \in Start!Hooks \ group :
          /\ k < h => Settled(k)
          /\ k > h => Start!Off(k) /\ k \notin stuck
     /\ installer.at # "done" => AtHook(h)
     /\ installer.at \in Building \cup {"rollback"} =>
          \A k \in group : /\ k < h => Start!On(k) /\ k \notin stuck
                           /\ k > h => Start!Off(k) /\ k \notin stuck
     /\ installer.at \in Undoing =>
          \A k \in group : /\ k < h => k \in stuck \/ Start!Off(k)
                           /\ k > h => /\ k \notin stuck
                                       /\ Start!On(k) \/ Start!Off(k) \/ Bare(k)
     /\ Start!AllOrNothing

\* What a thread in the middle of a call relies on, unless it was caught there or
\* the hook could not be restored: the bytes it runs are the original ones, the
\* trampoline it is to run, or runs, is there.
CallerInv ==
  \A t \in Callers \ caught :
    LET h == call[t].hook
    IN h \notin stuck =>
         /\ call[t].at = "prologue" => code[h] = "original"
         /\ call[t].at \in {"detour", "jump", "trampoline"} =>
              h \in hooked /\ trampoline[h] = "live"
         /\ call[t].at \notin {"skipped", "crashed"}

StartInv == StartTypes /\ InstallInv /\ CallerInv

USE StartAssumption DEF Start!HooksAssumption

LEMMA StartInvInit == Start!Init => StartInv
<1> SUFFICES ASSUME Start!Init PROVE StartInv
  OBVIOUS
<1> USE DEF Start!Init, Start!Hooks, Start!Outside, Start!NoCall
<1>1. StartTypes
  BY DEF StartTypes, InstallerTypes, Building, CallPlaces
<1>2. InstallInv
  BY DEF InstallInv, Start!Group, Start!Off, AtHook, Building, Undoing, Start!AllOrNothing
<1>3. CallerInv
  BY DEF CallerInv
<1> QED
  BY <1>1, <1>2, <1>3 DEF StartInv

\* While a hook is installed its bytes are whole, and a jump leads to a trampoline.
LEMMA PatchedIsOn ==
  ASSUME StartTypes, InstallInv, NEW h \in Start!Hooks, code[h] = "patched"
  PROVE  h \in stuck \/ Start!On(h)
BY DEF StartTypes, InstallerTypes, InstallInv, AtHook, Settled, Bare, Building, Undoing, Start!AllOrNothing,
       Start!Off, Start!Group, Start!Hooks

-----------------------------------------------------------------------------
\* The game's threads change nothing but their calls.
LEMMA GameStepKeepsHooks ==
  ASSUME NEW t \in Callers, Start!GameStep(t)
  PROVE  UNCHANGED <<found, code, hooked, enabled, trampoline, installer, installed, stuck>>
BY DEF Start!GameStep, Start!Call, Start!Prologue, Start!CallOriginal, Start!Jump,
       Start!Original, Start!RunsTrampoline, Start!Goes, Start!Return

LEMMA GameStepInv ==
  ASSUME StartInv, NEW t \in Callers, Start!GameStep(t)
  PROVE  StartInv'
<1> USE DEF StartInv, StartTypes, InstallerTypes, CallPlaces
<1>1. UNCHANGED <<found, code, hooked, enabled, trampoline, installer, installed, stuck>>
  BY GameStepKeepsHooks
<1>2. InstallInv'
  BY <1>1 DEF InstallInv, AtHook, Settled, Bare, Start!AllOrNothing, Start!On, Start!Off
<1> SUFFICES StartTypes' /\ CallerInv'
  BY <1>2
<1>3. ASSUME NEW h \in Start!Hooks, Start!Call(t, h)
      PROVE  StartTypes' /\ CallerInv'
  <2>1. /\ call' \in [Callers -> [at : CallPlaces, hook : Nat]]
        /\ call'[t].hook = h
        /\ \A u \in Callers \ {t} : call'[u] = call[u]
    BY <1>3 DEF Start!Call, Start!Hooks
  <2>2. call'[t].at = CASE code[h] = "original" -> "prologue"
                        [] code[h] = "patched" -> "detour"
                        [] OTHER -> "crashed"
    BY <1>3 DEF Start!Call
  <2>3. caught \subseteq caught' /\ (code[h] = "torn" => t \in caught')
    BY <1>3 DEF Start!Call
  <2>4. StartTypes'
    BY <1>1, <2>1
  <2>5. code[h] = "patched" => h \in stuck \/ (h \in hooked /\ trampoline[h] = "live")
    BY PatchedIsOn DEF Start!On
  <2>6. CallerInv'
    BY <1>1, <2>1, <2>2, <2>3, <2>5 DEF CallerInv
  <2> QED
    BY <2>4, <2>6
<1>4. ASSUME NEW to \in {"reached", "skipped", "crashed", "jump", "trampoline"},
             call[t].at \in {"prologue", "detour", "jump", "trampoline"},
             call' = [call EXCEPT ![t].at = to], caught' = caught,
             to \in {"skipped", "crashed"} => t \in caught \/ call[t].hook \in stuck,
             to \in {"jump", "trampoline"} => call[t].at # "prologue"
      PROVE  StartTypes' /\ CallerInv'
  <2>1. /\ call' \in [Callers -> [at : CallPlaces, hook : Nat]]
        /\ call'[t].at = to /\ call'[t].hook = call[t].hook
        /\ \A u \in Callers \ {t} : call'[u] = call[u]
    BY <1>4
  <2>2. StartTypes'
    BY <1>1, <1>4, <2>1
  <2>3. CallerInv'
    BY <1>1, <1>4, <2>1 DEF CallerInv
  <2> QED
    BY <2>2, <2>3
<1>5. CASE Start!Prologue(t)
  <2> DEFINE to == IF code[call[t].hook] = "original" THEN "reached" ELSE "crashed"
  <2>1. call[t].at = "prologue" /\ call' = [call EXCEPT ![t].at = to] /\ caught' = caught
    BY <1>5 DEF Start!Prologue, Start!Goes
  <2>2. to = "crashed" => t \in caught \/ call[t].hook \in stuck
    BY <2>1 DEF CallerInv
  <2>3. to \in {"reached", "crashed"}
    OBVIOUS
  <2> HIDE DEF to
  <2> QED
    BY <1>4, <2>1, <2>2, <2>3
<1>6. CASE Start!CallOriginal(t)
  <2> DEFINE to == IF call[t].hook \in hooked THEN "jump" ELSE "skipped"
  <2>1. call[t].at = "detour" /\ call' = [call EXCEPT ![t].at = to] /\ caught' = caught
    BY <1>6 DEF Start!CallOriginal, Start!Goes
  <2>2. to = "skipped" => t \in caught \/ call[t].hook \in stuck
    BY <2>1 DEF CallerInv
  <2>3. to \in {"jump", "skipped"}
    OBVIOUS
  <2> HIDE DEF to
  <2> QED
    BY <1>4, <2>1, <2>2, <2>3
<1>7. ASSUME NEW from \in {"jump", "trampoline"}, NEW next \in {"trampoline", "reached"},
             Start!RunsTrampoline(t, from, next)
      PROVE  StartTypes' /\ CallerInv'
  <2> DEFINE to == IF trampoline[call[t].hook] = "live" THEN next ELSE "crashed"
  <2>1. call[t].at = from /\ call' = [call EXCEPT ![t].at = to] /\ caught' = caught
    BY <1>7 DEF Start!RunsTrampoline, Start!Goes
  <2>2. to = "crashed" => t \in caught \/ call[t].hook \in stuck
    BY <2>1 DEF CallerInv
  <2>3. to \in {next, "crashed"}
    OBVIOUS
  <2> HIDE DEF to
  <2> QED
    BY <1>4, <2>1, <2>2, <2>3
<1>8. CASE Start!Jump(t) \/ Start!Original(t)
  BY <1>7, <1>8 DEF Start!Jump, Start!Original
<1>9. CASE Start!Return(t)
  <2>1. /\ call' = [call EXCEPT ![t] = Start!NoCall] /\ caught' = caught \ {t}
    BY <1>9 DEF Start!Return
  <2>2. StartTypes'
    BY <1>1, <2>1 DEF Start!NoCall
  <2>3. CallerInv'
    BY <1>1, <2>1 DEF CallerInv, Start!NoCall
  <2> QED
    BY <2>2, <2>3
<1> QED
  BY <1>3, <1>5, <1>6, <1>8, <1>9 DEF Start!GameStep

-----------------------------------------------------------------------------
\* manager::create is left: the installation is over, or the next group follows.
LEMMA LeaveTo ==
  ASSUME InstallerTypes, NEW h, h = installer.hook,
         NEW from \in Building \cup Undoing, NEW failed \in BOOLEAN, Start!Leave(from, failed)
  PROVE  /\ InstallerTypes'
         /\ \/ /\ failed /\ h <= Required
               /\ installer' = [at |-> "done", hook |-> h] /\ installed' = "failed"
            \/ /\ ~(failed /\ h <= Required)
               /\ h >= Required => h = Required + Features
               /\ h < Required => Features = 0
               /\ installer' = [at |-> "done", hook |-> h] /\ installed' = "ready"
            \/ /\ ~(failed /\ h <= Required)
               /\ installed' = "running"
               /\ installer' = [at |-> "check", hook |-> IF h <= Required THEN Required + 1 ELSE h + 1]
<1>1. h \in Start!Hooks /\ installed = "running"
  BY DEF InstallerTypes, Start!Leave, Start!Installs, Building, Undoing
<1> QED
  BY <1>1 DEF InstallerTypes, Start!Leave, Start!Installs, Start!Hooks, Building, Undoing

\* That keeps the invariant when the group was hooked, or was given back, as a
\* whole.
LEMMA LeaveInv ==
  ASSUME InstallerTypes, NEW h, h = installer.hook,
         NEW from \in Building \cup Undoing, NEW failed \in BOOLEAN, Start!Leave(from, failed),
         \A k \in Start!Hooks \ Start!Group(h) :
           /\ k < h => Settled(k)'
           /\ k > h => Start!Off(k)' /\ k \notin stuck',
         \A k \in Start!Group(h) :
           /\ failed => k \in stuck' \/ Start!Off(k)'
           /\ ~failed => Start!On(k)' /\ k \notin stuck'
  PROVE  InstallInv'
<1>1. h \in Start!Hooks
  BY DEF InstallerTypes
<1>2. CASE failed /\ h <= Required
  <2>1. installer' = [at |-> "done", hook |-> h] /\ installed' = "failed"
    BY <1>1, <1>2, LeaveTo DEF Start!Hooks
  <2>2. Start!AllOrNothing'
    BY <1>1, <1>2, <2>1 DEF Start!AllOrNothing, Start!Group, Start!Hooks
  <2> QED
    BY <2>1, <2>2 DEF InstallInv, Building, Undoing
<1>3. CASE /\ ~(failed /\ h <= Required)
           /\ installer' = [at |-> "done", hook |-> h] /\ installed' = "ready"
           /\ h >= Required => h = Required + Features
           /\ h < Required => Features = 0
  <2>1. Start!AllOrNothing'
    BY <1>1, <1>3 DEF Start!AllOrNothing, Start!Group, Start!Hooks, Settled
  <2> QED
    BY <1>3, <2>1 DEF InstallInv, Building, Undoing
<1>4. CASE /\ ~(failed /\ h <= Required)
           /\ installed' = "running"
           /\ installer' = [at |-> "check", hook |-> IF h <= Required THEN Required + 1 ELSE h + 1]
  <2>1. PICK n \in Start!Hooks : /\ n = IF h <= Required THEN Required + 1 ELSE h + 1
                                 /\ installer' = [at |-> "check", hook |-> n]
    BY <1>4, LeaveTo DEF InstallerTypes
  <2>2. \A k \in Start!Hooks : /\ k < n => Settled(k)'
                               /\ k >= n => Start!Off(k)' /\ k \notin stuck'
    BY <1>1, <1>4, <2>1 DEF Start!Hooks, Start!Group, Settled
  <2>3. Start!AllOrNothing'
    BY <1>4, <2>1 DEF Start!AllOrNothing
  <2>4. AtHook(n)'
    BY <1>1, <2>1, <2>2 DEF AtHook, Start!Hooks
  <2>5. Start!Group(n) = {n}
    BY <1>1, <2>1 DEF Start!Hooks, Start!Group
  <2> QED
    BY <2>1, <2>2, <2>3, <2>4, <2>5 DEF InstallInv, Building, Undoing, Start!Hooks
<1> QED
  BY <1>2, <1>3, <1>4, LeaveTo

\* A step of the installer that stays with its hook leaves the others alone.
SameHook(k) ==
  /\ k \in hooked' <=> k \in hooked
  /\ k \in enabled' <=> k \in enabled
  /\ k \in stuck' <=> k \in stuck
  /\ code'[k] = code[k] /\ trampoline'[k] = trampoline[k]

LEMMA StayInv ==
  ASSUME InstallerTypes, InstallInv, NEW h \in Start!Hooks, h = installer.hook,
         NEW from, NEW to, Start!Installs(from, to, h), installed' = installed,
         \/ from \in Building /\ to \in Building \cup {"rollback"}
         \/ from \in Undoing /\ to \in Undoing,
         \A k \in Start!Hooks \ {h} : SameHook(k),
         AtHook(h)'
  PROVE  InstallInv' /\ InstallerTypes' /\ call' = call
<1>1. /\ installer.at = from /\ installer' = [at |-> to, hook |-> h] /\ call' = call
      /\ installer'.at = to /\ installer'.hook = h /\ to # "done"
  BY DEF Start!Installs, Building, Undoing
<1>2. InstallerTypes' /\ installed = "running"
  BY <1>1 DEF InstallerTypes, Building, Undoing
<1>3. \A k \in Start!Hooks \ {h} :
        /\ Start!On(k)' <=> Start!On(k)
        /\ Start!Off(k)' <=> Start!Off(k)
        /\ Bare(k)' <=> Bare(k)
        /\ Settled(k)' <=> Settled(k)
  BY DEF SameHook, Start!On, Start!Off, Bare, Settled
<1>4. h \in Start!Group(h) /\ Start!Group(h) \subseteq Start!Hooks
  BY DEF Start!Group, Start!Hooks
<1>5. \A k \in Start!Hooks \ Start!Group(h) :
        /\ k < h => Settled(k)'
        /\ k > h => Start!Off(k)' /\ k \notin stuck'
  BY <1>3, <1>4 DEF InstallInv, SameHook
<1>6. to \in Building \cup {"rollback"} =>
        \A k \in Start!Group(h) : /\ k < h => Start!On(k)' /\ k \notin stuck'
                                  /\ k > h => Start!Off(k)' /\ k \notin stuck'
  BY <1>1, <1>3, <1>4 DEF InstallInv, SameHook, Building, Undoing, Start!Hooks
<1>7. to \in Undoing =>
        \A k \in Start!Group(h) : /\ k < h => k \in stuck' \/ Start!Off(k)'
                                  /\ k > h => /\ k \notin stuck'
                                              /\ Start!On(k)' \/ Start!Off(k)' \/ Bare(k)'
  BY <1>1, <1>3, <1>4 DEF InstallInv, SameHook, Building, Undoing, Start!Hooks
<1>8. Start!AllOrNothing'
  BY <1>1, <1>2 DEF Start!AllOrNothing
<1> QED
  BY <1>1, <1>2, <1>5, <1>6, <1>7, <1>8 DEF InstallInv

\* One that goes on to the next hook of its group.
LEMMA NextInv ==
  ASSUME InstallerTypes, InstallInv, NEW h \in Start!Hooks, h = installer.hook, h < Required,
         NEW from, NEW to, Start!Installs(from, to, h + 1), installed' = installed,
         \/ from = "patching" /\ to = "create" /\ Start!On(h)' /\ h \notin stuck'
         \/ from \in Undoing /\ to = "reset" /\ (h \in stuck' \/ Start!Off(h)'),
         \A k \in Start!Hooks \ {h} : SameHook(k)
  PROVE  InstallInv' /\ InstallerTypes' /\ call' = call
<1>1. /\ installer.at = from /\ installer' = [at |-> to, hook |-> h + 1] /\ call' = call
      /\ installer'.at = to /\ installer'.hook = h + 1 /\ to # "done"
      /\ h + 1 \in Start!Hooks
  BY DEF Start!Installs, Start!Hooks
<1>2. InstallerTypes' /\ installed = "running"
  BY <1>1 DEF InstallerTypes, Building, Undoing
<1>3. \A k \in Start!Hooks \ {h} :
        /\ Start!On(k)' <=> Start!On(k)
        /\ Start!Off(k)' <=> Start!Off(k)
        /\ Bare(k)' <=> Bare(k)
  BY DEF SameHook, Start!On, Start!Off, Bare
<1>4. Start!Group(h) = 1 .. Required /\ Start!Group(h + 1) = 1 .. Required
  BY <1>1 DEF Start!Group, Start!Hooks
<1>5. \A k \in Start!Hooks \ 1 .. Required : Start!Off(k)' /\ k \notin stuck'
  BY <1>3, <1>4 DEF InstallInv, SameHook, Start!Hooks
<1>6. to = "create" =>
        \A k \in 1 .. Required : /\ k < h + 1 => Start!On(k)' /\ k \notin stuck'
                                 /\ k >= h + 1 => Start!Off(k)' /\ k \notin stuck'
  BY <1>1, <1>3, <1>4 DEF InstallInv, SameHook, Building, Undoing, Start!Hooks
<1>7. to = "reset" =>
        \A k \in 1 .. Required :
          /\ k < h + 1 => k \in stuck' \/ Start!Off(k)'
          /\ k >= h + 1 => k \notin stuck' /\ (Start!On(k)' \/ Start!Off(k)' \/ Bare(k)')
  BY <1>1, <1>3, <1>4 DEF InstallInv, SameHook, Building, Undoing, Start!Hooks
<1>8. Start!AllOrNothing' /\ AtHook(h + 1)'
  BY <1>1, <1>2, <1>6, <1>7 DEF Start!AllOrNothing, AtHook, Start!Hooks
<1> QED
  BY <1>1, <1>2, <1>4, <1>5, <1>6, <1>7, <1>8
  DEF InstallInv, Building, Undoing, Start!Hooks

\* An entry was reset: the next one follows, or the group is left unhooked.
LEMMA ResetInv ==
  ASSUME InstallerTypes, InstallInv, NEW h \in Start!Hooks, h = installer.hook,
         NEW from \in Undoing, Start!NextReset(from),
         \A k \in Start!Hooks \ {h} : SameHook(k),
         h \in stuck' \/ Start!Off(h)'
  PROVE  InstallInv' /\ InstallerTypes' /\ call' = call
<1>1. CASE h < Required
  BY <1>1, NextInv DEF Start!NextReset
<1>2. CASE ~(h < Required)
  <2>1. Start!Leave(from, TRUE) /\ installer.at = from /\ call' = call
    BY <1>2 DEF Start!NextReset, Start!Leave, Start!Installs
  <2>2. \A k \in Start!Hooks \ {h} :
          /\ Start!On(k)' <=> Start!On(k)
          /\ Start!Off(k)' <=> Start!Off(k)
          /\ Settled(k)' <=> Settled(k)
    BY DEF SameHook, Start!On, Start!Off, Settled
  <2>3. \A k \in Start!Hooks \ Start!Group(h) :
          /\ k < h => Settled(k)'
          /\ k > h => Start!Off(k)' /\ k \notin stuck'
    BY <2>2 DEF InstallInv, SameHook, Start!Group, Start!Hooks
  <2>4. \A k \in Start!Group(h) : k = h \/ (k < h /\ k \in Start!Hooks)
    BY <1>2 DEF Start!Group, Start!Hooks
  <2>5. \A k \in Start!Group(h) : k \in stuck' \/ Start!Off(k)'
    BY <2>1, <2>2, <2>4 DEF InstallInv, SameHook
  <2>6. InstallInv'
    BY <2>1, <2>3, <2>5, LeaveInv
  <2>7. InstallerTypes'
    BY <2>1, LeaveTo
  <2> QED
    BY <2>1, <2>6, <2>7
<1> QED
  BY <1>1, <1>2

\* The roll-back begins at the first entry of the group.
LEMMA UndoInv ==
  ASSUME InstallerTypes, InstallInv, Start!ToFirst
  PROVE  InstallInv' /\ InstallerTypes' /\ call' = call
<1>1. PICK h \in Start!Hooks : h = installer.hook
  BY DEF InstallerTypes
<1>2. PICK first : first = IF h <= Required THEN 1 ELSE h
  OBVIOUS
<1>3. /\ Start!Same /\ installed' = installed /\ call' = call /\ installer.at = "rollback"
      /\ installer' = [at |-> "reset", hook |-> first] /\ first \in Start!Hooks
      /\ installer'.at = "reset" /\ installer'.hook = first
  BY <1>1, <1>2 DEF Start!ToFirst, Start!Installs, Start!Hooks
<1>4. InstallerTypes' /\ installed = "running"
  BY <1>3 DEF InstallerTypes, Undoing
<1>5. \A k : /\ Start!On(k)' <=> Start!On(k)
             /\ Start!Off(k)' <=> Start!Off(k)
             /\ Bare(k)' <=> Bare(k)
             /\ Settled(k)' <=> Settled(k)
  BY <1>3 DEF Start!Same, Settled, Bare, Start!On, Start!Off
<1>6. CASE h <= Required
  <2>1. first = 1 /\ Start!Group(h) = 1 .. Required /\ Start!Group(first) = 1 .. Required
    BY <1>1, <1>2, <1>6 DEF Start!Group
  <2>2. \A k \in 1 .. Required : k \notin stuck /\ (Start!On(k) \/ Start!Off(k) \/ Bare(k))
    BY <1>1, <1>3, <2>1 DEF InstallInv, AtHook, Start!Hooks
  <2>3. \A k \in Start!Hooks \ 1 .. Required : k > h /\ Start!Off(k) /\ k \notin stuck
    BY <1>1, <1>6, <2>1 DEF InstallInv, Start!Hooks
  <2>4. AtHook(1)' /\ Start!AllOrNothing'
    BY <1>3, <1>4, <1>5, <2>1, <2>2 DEF Start!Same, AtHook, Start!AllOrNothing
  <2> QED
    BY <1>3, <1>4, <1>5, <2>1, <2>2, <2>3, <2>4
    DEF Start!Same, InstallInv, Building, Undoing, Start!Hooks
<1>7. CASE ~(h <= Required)
  <2>1. first = h /\ Start!Group(first) = {h}
    BY <1>1, <1>2, <1>7 DEF Start!Group
  <2> QED
    BY <1>1, <1>3, <1>4, <1>5, <2>1
    DEF Start!Same, InstallInv, AtHook, Building, Undoing, Start!Hooks, Start!AllOrNothing
<1> QED
  BY <1>6, <1>7

\* Every step of the installer keeps the types and the state of every hook.
LEMMA InstallStepInv ==
  ASSUME StartTypes, InstallInv, Start!Install
  PROVE  StartTypes' /\ InstallInv'
<1> USE DEF StartTypes, Start!Same
<1>0. PICK h \in Start!Hooks : h = installer.hook
  BY DEF InstallerTypes
<1> DEFINE group == Start!Group(h)
<1>1. h \in group /\ group \subseteq Start!Hooks
  BY <1>0 DEF Start!Group, Start!Hooks
<1>2. CASE Start!CheckFails
  <2>1. Start!Leave("check", TRUE) /\ Start!Same
    BY <1>2 DEF Start!CheckFails
  <2>2. \A k \in Start!Hooks \ group :
          /\ k < h => Settled(k)'
          /\ k > h => Start!Off(k)' /\ k \notin stuck'
    BY <1>0, <2>1 DEF InstallInv, Settled, Start!On, Start!Off
  <2>3. \A k \in group : Start!Off(k)'
    BY <1>0, <1>1, <2>1
    DEF InstallInv, AtHook, Start!Leave, Start!Installs, Building, Start!Group, Start!Hooks, Start!Off
  <2> HIDE DEF group
  <2>4. InstallInv'
    BY <1>0, <2>1, <2>2, <2>3, LeaveInv DEF Building, group
  <2>5. InstallerTypes' /\ call' = call
    BY <1>0, <2>1, LeaveTo DEF Building, Start!Leave, Start!Installs
  <2> QED
    BY <2>1, <2>4, <2>5
<1> HIDE DEF group
<1> USE DEF AtHook, Bare, Building, Undoing
<1>3. CASE Start!CheckPasses
  <2>1. Start!Installs("check", "create", h) /\ installed' = installed
    BY <1>0, <1>3 DEF Start!CheckPasses
  <2>2. AtHook(h)'
    BY <1>0, <1>3, <2>1 DEF Start!CheckPasses, Start!Installs, InstallInv, Start!Off, Start!On
  <2>3. \A k \in Start!Hooks \ {h} : SameHook(k)
    BY <1>0, <1>3 DEF Start!CheckPasses, SameHook
  <2>4. InstallInv' /\ InstallerTypes' /\ call' = call
    BY <1>0, <2>1, <2>2, <2>3, StayInv
  <2> QED
    BY <1>0, <1>3, <2>4 DEF Start!CheckPasses
<1>4. CASE Start!Unusable
  <2>1. Start!Installs("create", "rollback", h) /\ installed' = installed
    BY <1>0, <1>4 DEF Start!Unusable
  <2>2. AtHook(h)'
    BY <1>0, <1>4, <2>1 DEF Start!Unusable, Start!Installs, InstallInv, Start!Off, Start!On
  <2>3. \A k \in Start!Hooks \ {h} : SameHook(k)
    BY <1>0, <1>4 DEF Start!Unusable, SameHook
  <2>4. InstallInv' /\ InstallerTypes' /\ call' = call
    BY <1>0, <2>1, <2>2, <2>3, StayInv
  <2> QED
    BY <1>0, <1>4, <2>4 DEF Start!Unusable
<1>5. CASE Start!Allocate
  <2>1. Start!Installs("create", "build", h) /\ installed' = installed
    BY <1>0, <1>5 DEF Start!Allocate
  <2>2. AtHook(h)'
    BY <1>0, <1>5, <2>1 DEF Start!Allocate, Start!Installs, InstallInv, Start!Off, Start!On
  <2>3. \A k \in Start!Hooks \ {h} : SameHook(k)
    BY <1>0, <1>5 DEF Start!Allocate, SameHook
  <2>4. InstallInv' /\ InstallerTypes' /\ call' = call
    BY <1>0, <2>1, <2>2, <2>3, StayInv
  <2> QED
    BY <1>0, <1>5, <2>4 DEF Start!Allocate
<1>6. CASE Start!BuildFails
  <2>1. Start!Installs("build", "rollback", h) /\ installed' = installed
    BY <1>0, <1>6 DEF Start!BuildFails
  <2>2. AtHook(h)'
    BY <1>0, <1>6, <2>1 DEF Start!BuildFails, Start!Installs, InstallInv, Start!Off, Start!On
  <2>3. \A k \in Start!Hooks \ {h} : SameHook(k)
    BY <1>0, <1>6 DEF Start!BuildFails, SameHook
  <2>4. InstallInv' /\ InstallerTypes' /\ call' = call
    BY <1>0, <2>1, <2>2, <2>3, StayInv
  <2> QED
    BY <1>0, <1>6, <2>4 DEF Start!BuildFails
<1>7. CASE Start!Build
  <2>1. Start!Installs("build", "enable", h) /\ installed' = installed
    BY <1>0, <1>7 DEF Start!Build
  <2>2. AtHook(h)'
    BY <1>0, <1>7, <2>1 DEF Start!Build, Start!Installs, InstallInv, Start!Off, Start!On
  <2>3. \A k \in Start!Hooks \ {h} : SameHook(k)
    BY <1>0, <1>7 DEF Start!Build, SameHook
  <2>4. InstallInv' /\ InstallerTypes' /\ call' = call
    BY <1>0, <2>1, <2>2, <2>3, StayInv
  <2> QED
    BY <1>0, <1>7, <2>4 DEF Start!Build
<1>8. CASE Start!ProtectFails
  <2>1. Start!Installs("enable", "rollback", h) /\ installed' = installed
    BY <1>0, <1>8 DEF Start!ProtectFails
  <2>2. AtHook(h)'
    BY <1>0, <1>8, <2>1 DEF Start!ProtectFails, Start!Installs, InstallInv, Start!Off, Start!On
  <2>3. \A k \in Start!Hooks \ {h} : SameHook(k)
    BY <1>0, <1>8 DEF Start!ProtectFails, SameHook
  <2>4. InstallInv' /\ InstallerTypes' /\ call' = call
    BY <1>0, <2>1, <2>2, <2>3, StayInv
  <2> QED
    BY <1>0, <1>8, <2>4 DEF Start!ProtectFails
<1>9. CASE Start!Patch
  <2>1. Start!Installs("enable", "patching", h) /\ installed' = installed
    BY <1>0, <1>9 DEF Start!Patch
  <2>2. AtHook(h)'
    BY <1>0, <1>9, <2>1 DEF Start!Patch, Start!Installs, InstallInv, Start!Off, Start!On
  <2>3. \A k \in Start!Hooks \ {h} : SameHook(k)
    BY <1>0, <1>9 DEF Start!Patch, SameHook
  <2>4. InstallInv' /\ InstallerTypes' /\ call' = call
    BY <1>0, <2>1, <2>2, <2>3, StayInv
  <2> QED
    BY <1>0, <1>9, <2>4 DEF Start!Patch
<1>10. CASE Start!DisableSkipped
  <2>1. Start!Installs("reset", "free", h) /\ installed' = installed
    BY <1>0, <1>10 DEF Start!DisableSkipped
  <2>2. AtHook(h)'
    BY <1>0, <1>10, <2>1 DEF Start!DisableSkipped, Start!Installs, InstallInv, Start!Off, Start!On
  <2>3. \A k \in Start!Hooks \ {h} : SameHook(k)
    BY <1>0, <1>10 DEF Start!DisableSkipped, SameHook
  <2>4. InstallInv' /\ InstallerTypes' /\ call' = call
    BY <1>0, <2>1, <2>2, <2>3, StayInv
  <2> QED
    BY <1>0, <1>10, <2>4 DEF Start!DisableSkipped
<1>11. CASE Start!DisableFails
  <2>1. Start!Installs("reset", "free", h) /\ installed' = installed
    BY <1>0, <1>11 DEF Start!DisableFails
  <2>2. AtHook(h)'
    BY <1>0, <1>11, <2>1 DEF Start!DisableFails, Start!Installs, InstallInv, Start!Off, Start!On
  <2>3. \A k \in Start!Hooks \ {h} : SameHook(k)
    BY <1>0, <1>11 DEF Start!DisableFails, SameHook
  <2>4. InstallInv' /\ InstallerTypes' /\ call' = call
    BY <1>0, <2>1, <2>2, <2>3, StayInv
  <2> QED
    BY <1>0, <1>11, <2>4 DEF Start!DisableFails
<1>12. CASE Start!Restore
  <2>1. Start!Installs("reset", "restoring", h) /\ installed' = installed
    BY <1>0, <1>12 DEF Start!Restore
  <2>2. AtHook(h)'
    BY <1>0, <1>12, <2>1 DEF Start!Restore, Start!Installs, InstallInv, Start!Off, Start!On
  <2>3. \A k \in Start!Hooks \ {h} : SameHook(k)
    BY <1>0, <1>12 DEF Start!Restore, SameHook
  <2>4. InstallInv' /\ InstallerTypes' /\ call' = call
    BY <1>0, <2>1, <2>2, <2>3, StayInv
  <2> QED
    BY <1>0, <1>12, <2>4 DEF Start!Restore
<1>13. CASE Start!Restored
  <2>1. Start!Installs("restoring", "free", h) /\ installed' = installed
    BY <1>0, <1>13 DEF Start!Restored
  <2>2. AtHook(h)'
    BY <1>0, <1>13, <2>1 DEF Start!Restored, Start!Installs, InstallInv, Start!Off, Start!On
  <2>3. \A k \in Start!Hooks \ {h} : SameHook(k)
    BY <1>0, <1>13 DEF Start!Restored, SameHook
  <2>4. InstallInv' /\ InstallerTypes' /\ call' = call
    BY <1>0, <2>1, <2>2, <2>3, StayInv
  <2> QED
    BY <1>0, <1>13, <2>4 DEF Start!Restored
<1>14. CASE Start!Free
  <2>1. Start!Installs("free", "clear", h) /\ installed' = installed
    BY <1>0, <1>14 DEF Start!Free
  <2>2. AtHook(h)'
    BY <1>0, <1>14, <2>1 DEF Start!Free, Start!Installs, InstallInv, Start!Off, Start!On
  <2>3. \A k \in Start!Hooks \ {h} : SameHook(k)
    BY <1>0, <1>14 DEF Start!Free, SameHook
  <2>4. InstallInv' /\ InstallerTypes' /\ call' = call
    BY <1>0, <2>1, <2>2, <2>3, StayInv
  <2> QED
    BY <1>0, <1>14, <2>4 DEF Start!Free
<1>15. CASE Start!Patched
  <2>1. \A k \in Start!Hooks \ {h} : SameHook(k)
    BY <1>0, <1>15 DEF Start!Patched, SameHook
  <2>2. installer.at = "patching" /\ call' = call
    BY <1>0, <1>15 DEF Start!Patched, Start!Leave, Start!Installs
  <2>3. Start!On(h)' /\ h \notin stuck'
    BY <1>0, <1>15, <2>2 DEF Start!Patched, Start!On, InstallInv
  <2>4. CASE h < Required
    <3>1. Start!Installs("patching", "create", h + 1) /\ installed' = installed
      BY <1>0, <1>15, <2>4 DEF Start!Patched
    <3>2. InstallInv' /\ InstallerTypes'
      BY <1>0, <2>1, <2>3, <2>4, <3>1, NextInv
    <3> QED
      BY <1>0, <1>15, <2>2, <2>3, <3>2 DEF Start!Patched, Start!On
  <2>5. CASE ~(h < Required)
    <3>1. Start!Leave("patching", FALSE)
      BY <1>0, <1>15, <2>5 DEF Start!Patched
    <3>2. \A k \in Start!Hooks \ {h} :
            /\ Start!On(k)' <=> Start!On(k)
            /\ Start!Off(k)' <=> Start!Off(k)
            /\ Settled(k)' <=> Settled(k)
      BY <2>1 DEF SameHook, Start!On, Start!Off, Settled
    <3>3. \A k \in Start!Hooks \ group :
            /\ k < h => Settled(k)'
            /\ k > h => Start!Off(k)' /\ k \notin stuck'
      BY <1>0, <1>1, <2>1, <3>2 DEF InstallInv, SameHook, group
    <3>4. \A k \in group : k = h \/ (k < h /\ k \in Start!Hooks)
      BY <1>0, <2>5 DEF group, Start!Group, Start!Hooks
    <3>5. \A k \in group : Start!On(k)' /\ k \notin stuck'
      BY <1>0, <2>1, <2>2, <2>3, <3>2, <3>4 DEF InstallInv, SameHook, group
    <3>6. InstallInv' /\ InstallerTypes'
      BY <1>0, <3>1, <3>3, <3>5, LeaveInv, LeaveTo DEF group
    <3> QED
      BY <1>0, <1>15, <2>2, <2>3, <3>6 DEF Start!Patched, Start!On
  <2> QED
    BY <2>4, <2>5
<1>16. CASE Start!ToFirst
  <2>1. InstallInv' /\ InstallerTypes' /\ call' = call
    BY <1>16, UndoInv
  <2> QED
    BY <1>16, <2>1 DEF Start!ToFirst
<1>17. CASE Start!ResetInvalid
  <2>1. Start!NextReset("reset") /\ installer.at = "reset" /\ Start!Same
    BY <1>17 DEF Start!ResetInvalid, Start!NextReset, Start!Leave, Start!Installs
  <2>2. Start!Off(h)' /\ \A k \in Start!Hooks \ {h} : SameHook(k)
    BY <1>0, <1>17, <2>1 DEF Start!ResetInvalid, InstallInv, Start!On, Start!Off, SameHook
  <2>3. InstallInv' /\ InstallerTypes' /\ call' = call
    BY <1>0, <2>1, <2>2, ResetInv
  <2> QED
    BY <2>1, <2>3
<1>18. CASE Start!Clear
  <2>1. Start!NextReset("clear") /\ installer.at = "clear"
    BY <1>18 DEF Start!Clear, Start!NextReset, Start!Leave, Start!Installs
  <2>2. \A k \in Start!Hooks \ {h} : SameHook(k)
    BY <1>0, <1>18 DEF Start!Clear, SameHook
  <2>3. h \in stuck' \/ Start!Off(h)'
    BY <1>0, <1>18, <2>1 DEF Start!Clear, InstallInv, Start!Off
  <2>4. InstallInv' /\ InstallerTypes' /\ call' = call
    BY <1>0, <2>1, <2>2, <2>3, ResetInv
  <2> QED
    BY <1>0, <1>18, <2>4 DEF Start!Clear
<1> QED
  BY <1>2, <1>3, <1>4, <1>5, <1>6, <1>7, <1>8, <1>9, <1>10, <1>11, <1>12, <1>13, <1>14,
     <1>15, <1>16, <1>17, <1>18 DEF Start!Install

\* What the installer does under a thread in the middle of a call is on record.
LEMMA InstallKeepsCallers ==
  ASSUME StartInv, Start!Install, call' = call
  PROVE  CallerInv'
<1> USE DEF StartInv, StartTypes
<1>1. PICK h \in Start!Hooks : h = installer.hook
  BY DEF InstallerTypes
<1>2. installer.at # "done" => AtHook(h)
  BY <1>1 DEF InstallInv
<1> SUFFICES ASSUME NEW t \in Callers \ caught', NEW k, k = call[t].hook, k \notin stuck'
             PROVE  /\ call[t].at = "prologue" => code'[k] = "original"
                    /\ call[t].at \in {"detour", "jump", "trampoline"} =>
                         k \in hooked' /\ trampoline'[k] = "live"
                    /\ call[t].at \notin {"skipped", "crashed"}
  BY DEF CallerInv
<1>3. ASSUME caught \subseteq caught', stuck \subseteq stuck'
      PROVE  /\ call[t].at = "prologue" => code[k] = "original"
             /\ call[t].at \in {"detour", "jump", "trampoline"} =>
                  k \in hooked /\ trampoline[k] = "live"
             /\ call[t].at \notin {"skipped", "crashed"}
  BY <1>3 DEF CallerInv
<1>4. CASE Start!Same
  BY <1>3, <1>4 DEF Start!Same
<1>5. CASE Start!Allocate
  BY <1>1, <1>3, <1>5 DEF Start!Allocate
<1>6. CASE Start!BuildFails
  BY <1>1, <1>2, <1>3, <1>6 DEF Start!BuildFails, Start!Installs, AtHook
<1>7. CASE Start!Build
  BY <1>1, <1>3, <1>7 DEF Start!Build
<1>8. CASE Start!Patch
  BY <1>1, <1>3, <1>8 DEF Start!Patch, Start!Inside
<1>9. CASE Start!Patched
  <2>1. installer.at = "patching"
    BY <1>9 DEF Start!Patched, Start!Leave, Start!Installs
  <2> QED
    BY <1>1, <1>2, <1>3, <1>9, <2>1 DEF Start!Patched, AtHook
<1>10. CASE Start!DisableFails
  BY <1>1, <1>3, <1>10 DEF Start!DisableFails
<1>11. CASE Start!Restore
  BY <1>1, <1>2, <1>3, <1>11
  DEF Start!Restore, Start!Installs, AtHook, Bare, Start!On, Start!Off
<1>12. CASE Start!Restored
  BY <1>1, <1>2, <1>3, <1>12 DEF Start!Restored, Start!Installs, AtHook
<1>13. CASE Start!Free
  BY <1>1, <1>3, <1>13 DEF Start!Free, Start!Inside
<1>14. CASE Start!Clear
  <2>1. installer.at = "clear"
    BY <1>14 DEF Start!Clear, Start!NextReset, Start!Leave, Start!Installs
  <2> QED
    BY <1>1, <1>2, <1>3, <1>14, <2>1 DEF Start!Clear, AtHook
<1> QED
  BY <1>4, <1>5, <1>6, <1>7, <1>8, <1>9, <1>10, <1>11, <1>12, <1>13, <1>14
  DEF Start!Install, Start!CheckFails, Start!CheckPasses, Start!Unusable, Start!ProtectFails,
      Start!ToFirst, Start!ResetInvalid, Start!DisableSkipped

LEMMA StartInvariant == Spec => []StartInv
<1>1. Init => StartInv
  BY ComponentsInit, StartInvInit
<1>2. StartInv /\ [Start!Next]_startVars => StartInv'
  <2> SUFFICES ASSUME StartInv, [Start!Next]_startVars PROVE StartInv'
    OBVIOUS
  <2>1. CASE Start!Install
    <3>1. call' = call
      BY <2>1 DEF Start!Install, Start!CheckFails, Start!CheckPasses, Start!Unusable,
         Start!Allocate, Start!BuildFails, Start!Build, Start!ProtectFails, Start!Patch,
         Start!Patched, Start!ToFirst, Start!ResetInvalid, Start!DisableSkipped,
         Start!DisableFails, Start!Restore, Start!Restored, Start!Free, Start!Clear,
         Start!NextReset, Start!Leave, Start!Installs
    <3> QED
      BY <2>1, <3>1, InstallStepInv, InstallKeepsCallers DEF StartInv
  <2>2. ASSUME NEW t \in Callers, Start!GameStep(t) PROVE StartInv'
    BY <2>2, GameStepInv
  <2>3. CASE UNCHANGED startVars
    BY <2>3 DEF startVars, StartInv, StartTypes, InstallerTypes, InstallInv, CallerInv,
       AtHook, Settled, Bare, Start!AllOrNothing, Start!On, Start!Off
  <2> QED
    BY <2>1, <2>2, <2>3 DEF Start!Next
<1>3. StartInv /\ [Next]_vars => StartInv'
  BY <1>2, ComponentsNext
<1> QED
  BY <1>1, <1>3, PTL DEF Spec

\* jmp.cpp:308-331, hooking.hpp:14-25: for any number of hooks and threads, a call
\* of a function that is being hooked or rolled back reaches the original,
\* unless its bytes or trampoline changed while it was on them or a hook could
\* not be restored.
THEOREM StartCallsReachEngine == Spec => []CallsReachEngine
<1>1. StartInv => CallsReachEngine
  BY DEF StartInv, CallerInv, CallsReachEngine, Start!CallsReachEngine
<1> QED
  BY <1>1, StartInvariant, PTL

\* manager.cpp:9-57, cheat.cpp:16-81: for any number of hooks, a group is hooked as
\* a whole or not at all, and a start that failed leaves the game unhooked.
THEOREM StartAllOrNothing == Spec => []AllOrNothing
<1>1. StartInv => AllOrNothing
  BY DEF StartInv, InstallInv, AllOrNothing
<1> QED
  BY <1>1, StartInvariant, PTL

-----------------------------------------------------------------------------
(***************************************************************************)
(* parallel_for and its jobs.                                              *)
(***************************************************************************)

LEMMA DivBounds ==
  ASSUME NEW a \in Nat, NEW c \in Nat \ {0}
  PROVE  a \div c \in Nat /\ (a \div c) * c <= a /\ a < (a \div c) * c + c
OBVIOUS

LEMMA TimesMonotonic ==
  ASSUME NEW a \in Nat, NEW b \in Nat, NEW c \in Nat, a <= b
  PROVE  a * c <= b * c
OBVIOUS

LEMMA TimesNext ==
  ASSUME NEW a \in Int, NEW c \in Int
  PROVE  a * c \in Int /\ (a + 1) * c = a * c + c /\ (a - 1) * c = a * c - c
OBVIOUS

\* The quotient is the one number whose multiples frame the dividend.
LEMMA DivUnique ==
  ASSUME NEW a \in Nat, NEW c \in Nat \ {0}, NEW q \in Nat, q * c <= a, a < q * c + c
  PROVE  a \div c = q
<1>1. PICK d \in Nat : d = a \div c /\ d * c <= a /\ a < d * c + c
  BY DivBounds
<1>2. ~(d + 1 <= q)
  BY <1>1, TimesMonotonic, TimesNext
<1>3. ~(q + 1 <= d)
  BY <1>1, TimesMonotonic, TimesNext
<1> QED
  BY <1>1, <1>2, <1>3

USE JobsAssumption DEF Jobs!WorkersAssumption, Jobs!BoundAssumption

CallTypes == total \in 0 .. MaxRange /\ cores \in Nat /\ minChunk \in Nat \ {0}

\* The chunks are not empty, cover the range, and are at most as many as elements.
LEMMA ChunksCover ==
  ASSUME CallTypes
  PROVE  /\ Jobs!ChunkSize \in Nat \ {0}
         /\ Jobs!NumChunks \in 0 .. total
         /\ total <= Jobs!NumChunks * Jobs!ChunkSize
         /\ (Jobs!NumChunks - 1) * Jobs!ChunkSize < total \/ total = 0
<1> USE DEF CallTypes
<1>1. PICK n \in Nat \ {0} : n = Jobs!Most(cores, 1)
  BY DEF Jobs!Most
<1>2. (total + n - 1) \div n \in Nat
  BY DivBounds
<1>3. PICK c \in Nat \ {0} : c = Jobs!ChunkSize
  BY <1>1, <1>2 DEF Jobs!ChunkSize, Jobs!Most
<1>4. PICK k \in Nat : k = Jobs!NumChunks /\ k * c <= total + c - 1 /\ total + c - 1 < k * c + c
  BY <1>3, DivBounds DEF Jobs!NumChunks
<1>5. total <= k * c /\ (k - 1) * c <= total - 1
  BY <1>4, TimesNext
<1>6. k <= total
  <2>1. CASE k = 0
    BY <2>1
  <2>2. CASE k # 0
    <3>1. (k - 1) * 1 <= (k - 1) * c
      BY <2>2
    <3> QED
      BY <1>5, <3>1, TimesNext
  <2> QED
    BY <2>1, <2>2
<1> QED
  BY <1>3, <1>4, <1>5, <1>6, TimesNext

\* The chunk of an element, by its number.
Owner(e) == e \div Jobs!ChunkSize + 1

LEMMA OwnerOfChunk ==
  ASSUME CallTypes, NEW e \in 0 .. total - 1
  PROVE  /\ Owner(e) \in 1 .. Jobs!NumChunks
         /\ \A j \in 1 .. Jobs!NumChunks - 1 : e \in Jobs!Chunk(j) <=> Owner(e) = j
         /\ e \in Jobs!LastChunk <=> Owner(e) = Jobs!NumChunks
<1>1. PICK c \in Nat \ {0}, k \in Nat :
        /\ c = Jobs!ChunkSize /\ k = Jobs!NumChunks
        /\ total <= k * c /\ (k - 1) * c < total
  BY ChunksCover DEF CallTypes
<1>2. PICK q \in Nat : /\ q = e \div c /\ Owner(e) = q + 1
                       /\ q * c <= e /\ e < q * c + c
  BY <1>1, DivBounds DEF CallTypes, Owner
<1>3. q < k
  BY <1>1, <1>2, TimesMonotonic DEF CallTypes
<1>4. \A j \in Nat \ {0} : (j - 1) * c <= e /\ e < j * c <=> q = j - 1
  <2> SUFFICES ASSUME NEW j \in Nat \ {0} PROVE (j - 1) * c <= e /\ e < j * c <=> q = j - 1
    OBVIOUS
  <2>1. j * c = (j - 1) * c + c /\ (j - 1) * c \in Nat
    BY TimesNext
  <2>2. q = j - 1 => (j - 1) * c <= e /\ e < j * c
    BY <1>2, <2>1
  <2>3. (j - 1) * c <= e /\ e < j * c => q = j - 1
    <3>1. e \in Nat /\ j - 1 \in Nat
      BY DEF CallTypes
    <3>2. (j - 1) * c <= e /\ e < (j - 1) * c + c => e \div c = j - 1
      BY <3>1, DivUnique
    <3> QED
      BY <1>2, <2>1, <3>2
  <2> QED
    BY <2>2, <2>3
<1>5. ASSUME NEW j \in 1 .. k - 1 PROVE e \in Jobs!Chunk(j) <=> Owner(e) = j
  <2>1. j * c \in Nat /\ (j - 1) * c \in Nat
    BY TimesNext
  <2>2. e \in Jobs!Chunk(j) <=> (j - 1) * c <= e /\ e < j * c
    BY <1>1, <2>1 DEF Jobs!Chunk, Jobs!Least, CallTypes
  <2> QED
    BY <1>2, <1>4, <2>2
<1>6. e \in Jobs!LastChunk <=> Owner(e) = k
  <2>1. k # 0 /\ k * c \in Nat /\ (k - 1) * c \in Nat
    BY <1>3, TimesNext
  <2>2. e \in Jobs!LastChunk <=> (k - 1) * c <= e
    BY <1>1, <2>1 DEF Jobs!LastChunk, CallTypes
  <2> QED
    BY <1>1, <1>2, <1>4, <2>1, <2>2 DEF CallTypes
<1> QED
  BY <1>1, <1>2, <1>3, <1>5, <1>6

-----------------------------------------------------------------------------
Waits == {"wait", "busy", "asleep"}

\* A handle of the caller counts until it returns, a job until the pool is done.
HandleRef(j) == IF j # Jobs!Forgotten /\ status[j] # "none" /\ waiting # "returned" THEN 1 ELSE 0
PoolRef(j) == IF status[j] # "none" /\ counter[j] = 0 THEN 1 ELSE 0

JobsTypes ==
  /\ CallTypes
  /\ waiting \in {"enter", "submit", "returned"} \cup Waits
  /\ at \in Nat \ {0}
  /\ status \in [Jobs!Jobs -> {"none", "queued", "running", "idle"}]
  /\ counter \in [Jobs!Jobs -> {0, 1}]
  /\ refs \in [Jobs!Jobs -> Int]
  /\ runs \in [Jobs!Elements -> Int]

\* NothingDangles: the references are accounted for, the jobs before the caller's
\* have been queued or, once it waits, are done.
CountsInv ==
  \A j \in Jobs!Jobs : /\ refs[j] = HandleRef(j) + PoolRef(j)
                       /\ counter[j] = 1 => status[j] = "idle"

QueueInv ==
  /\ waiting = "enter" => at = 1
  /\ waiting = "submit" => at \in 1 .. Jobs!NumChunks /\ Jobs!NumChunks > 1
  /\ waiting \in Waits => at \in 1 .. Jobs!NumChunks
  /\ waiting \in {"busy", "asleep"} => at < Jobs!NumChunks
  /\ \A j \in Jobs!Jobs \ {Jobs!Forgotten} :
       /\ waiting = "enter" => status[j] = "none"
       /\ waiting = "submit" => (status[j] = "none" <=> j >= at)
       /\ waiting \in Waits => /\ status[j] = "none" <=> j >= Jobs!NumChunks
                               /\ j < at => status[j] = "idle"
       /\ waiting = "returned" => status[j] \in {"none", "idle"}

\* EveryElementOnce: until the caller returns, the elements of a chunk have been
\* done exactly when the chunk has.
ChunkDone(j) == IF j < Jobs!NumChunks THEN status[j] = "idle" ELSE waiting \in Waits

RunsInv ==
  /\ waiting = "enter" => \A e \in Jobs!Elements : runs[e] = 0
  /\ waiting \in {"submit"} \cup Waits =>
       \A e \in Jobs!Elements : runs[e] = IF e < total /\ ChunkDone(Owner(e)) THEN 1 ELSE 0
  /\ Jobs!EveryElementOnce

JobsInv == JobsTypes /\ CountsInv /\ QueueInv /\ RunsInv

LEMMA JobsInvInit == Jobs!Init => JobsInv
<1> SUFFICES ASSUME Jobs!Init PROVE JobsInv
  OBVIOUS
<1> USE DEF Jobs!Init, Jobs!Jobs, Jobs!Elements, Waits
<1>1. JobsTypes
  BY DEF JobsTypes, CallTypes
<1>2. CountsInv
  BY DEF CountsInv, HandleRef, PoolRef
<1>3. QueueInv
  BY DEF QueueInv
<1>4. RunsInv
  BY DEF RunsInv, Jobs!EveryElementOnce
<1> QED
  BY <1>1, <1>2, <1>3, <1>4 DEF JobsInv

\* The range and its chunks do not change during a call.
LEMMA ChunksKept ==
  ASSUME UNCHANGED Jobs!call
  PROVE  /\ CallTypes' <=> CallTypes
         /\ Jobs!ChunkSize' = Jobs!ChunkSize /\ Jobs!NumChunks' = Jobs!NumChunks
         /\ \A j : Jobs!Chunk(j)' = Jobs!Chunk(j)
         /\ \A e : Owner(e)' = Owner(e)
BY DEF Jobs!call, CallTypes, Jobs!ChunkSize, Jobs!NumChunks, Jobs!Chunk, Owner

\* A wait, or a return from one, keeps everything but where the caller is.
LEMMA WaitStepInv ==
  ASSUME JobsInv, waiting \in Waits, waiting' \in Waits,
         UNCHANGED <<Jobs!call, status, counter, refs, runs>>,
         at' \in 1 .. Jobs!NumChunks,
         waiting' \in {"busy", "asleep"} => at' < Jobs!NumChunks,
         at' = at \/ (at' = at + 1 /\ status[at] = "idle")
  PROVE  JobsInv'
<1> USE DEF JobsInv, Waits
<1>1. UNCHANGED Jobs!call /\ CallTypes
  BY DEF JobsTypes
<1>2. /\ CallTypes' /\ Jobs!NumChunks' = Jobs!NumChunks /\ \A e : Owner(e)' = Owner(e)
      /\ Jobs!NumChunks \in Nat
  BY <1>1, ChunksKept, ChunksCover
<1>3. JobsTypes'
  BY <1>2 DEF JobsTypes
<1>4. CountsInv'
  BY DEF CountsInv, HandleRef, PoolRef
<1>5. QueueInv'
  <2>1. \A j \in Jobs!Jobs : j < at' => j < at \/ j = at
    BY DEF JobsTypes, Jobs!Jobs
  <2>2. \A j \in Jobs!Jobs \ {Jobs!Forgotten} :
          /\ status[j] = "none" <=> j >= Jobs!NumChunks
          /\ j < at' => status[j] = "idle"
    BY <2>1 DEF QueueInv
  <2> QED
    BY <1>2, <2>2 DEF QueueInv
<1>6. RunsInv'
  BY <1>1, <1>2 DEF RunsInv, Jobs!EveryElementOnce, ChunkDone, Jobs!call
<1> QED
  BY <1>3, <1>4, <1>5, <1>6

LEMMA CallerInvStep ==
  ASSUME JobsInv, Jobs!Caller
  PROVE  JobsInv'
<1> USE DEF JobsInv, Waits
<1>1. UNCHANGED Jobs!call /\ CallTypes
  BY DEF JobsTypes, Jobs!Caller, Jobs!Enter, Jobs!Submit, Jobs!RunLastChunk, Jobs!WaitEvent,
     Jobs!WaitSeesIdle, Jobs!WaitSeesBusy, Jobs!WaitReadsCounter, Jobs!WakesOnChange,
     Jobs!WakesOnTimeout, Jobs!Return
<1>2. /\ CallTypes' /\ UNCHANGED <<total, cores, minChunk>>
      /\ Jobs!NumChunks' = Jobs!NumChunks /\ \A e : Owner(e)' = Owner(e)
      /\ Jobs!NumChunks \in 0 .. total /\ total \in 0 .. MaxRange
      /\ total # 0 => Jobs!NumChunks > 0
  <2>1. Jobs!NumChunks = 0 => total <= 0 * Jobs!ChunkSize
    BY <1>1, ChunksCover
  <2> QED
    BY <1>1, <2>1, ChunksKept, ChunksCover DEF CallTypes, Jobs!call
<1>3. \A e \in 0 .. total - 1 : e \in Jobs!Elements /\ Owner(e) \in 1 .. Jobs!NumChunks
  BY <1>1, <1>2, OwnerOfChunk DEF Jobs!Elements
<1>4. CASE Jobs!Enter
  <2>1. waiting = "enter" /\ UNCHANGED <<at, status, counter, refs>>
    BY <1>4 DEF Jobs!Enter
  <2>2. waiting' \in {"returned", "submit"} /\ (waiting' = "submit" => Jobs!NumChunks > 1)
    BY <1>2, <1>4 DEF Jobs!Enter
  <2>3. runs' \in [Jobs!Elements -> Int] /\ \A e \in Jobs!Elements :
          runs'[e] = IF waiting' = "returned" /\ e < total THEN 1 ELSE 0
    BY <1>2, <1>4, <2>1 DEF Jobs!Enter, Jobs!Body, RunsInv, JobsTypes, Jobs!Elements
  <2>4. JobsTypes' /\ CountsInv'
    BY <1>2, <2>1, <2>2, <2>3 DEF JobsTypes, CountsInv, QueueInv, HandleRef, PoolRef
  <2>5. QueueInv'
    BY <1>2, <2>1, <2>2 DEF QueueInv, JobsTypes, Jobs!Jobs, Jobs!Forgotten
  <2>6. waiting' = "submit" => \A e \in Jobs!Elements : ~(e < total /\ ChunkDone(Owner(e))')
    BY <1>2, <1>3, <2>1 DEF QueueInv, ChunkDone, Jobs!Elements, Jobs!Jobs, Jobs!Forgotten
  <2>7. RunsInv'
    BY <1>2, <2>2, <2>3, <2>6 DEF RunsInv, Jobs!EveryElementOnce
  <2> QED
    BY <2>4, <2>5, <2>7
<1>5. CASE Jobs!Submit
  <2>1. /\ waiting = "submit" /\ waiting' = "submit" /\ at' = at + 1 /\ at < Jobs!NumChunks
        /\ at \in Jobs!Jobs \ {Jobs!Forgotten} /\ UNCHANGED <<counter, runs>>
        /\ refs' = [refs EXCEPT ![at] = 2] /\ status' = [status EXCEPT ![at] = "queued"]
    BY <1>2, <1>5 DEF Jobs!Submit, Jobs!Made, Jobs!Jobs, Jobs!Forgotten, JobsTypes
  <2>2. status[at] = "none" /\ counter[at] = 0
    BY <2>1 DEF QueueInv, CountsInv, JobsTypes
  <2>3. JobsTypes'
    BY <1>2, <2>1 DEF JobsTypes
  <2>4. CountsInv'
    BY <2>1, <2>2 DEF JobsTypes, CountsInv, HandleRef, PoolRef
  <2>5. QueueInv'
    BY <1>2, <2>1 DEF QueueInv, JobsTypes, Jobs!Jobs
  <2>6. \A e \in 0 .. total - 1 : ChunkDone(Owner(e))' <=> ChunkDone(Owner(e))
    BY <1>2, <1>3, <2>1, <2>2 DEF ChunkDone, JobsTypes, Jobs!Jobs
  <2>7. RunsInv'
    BY <1>2, <2>1, <2>6 DEF RunsInv, Jobs!EveryElementOnce, Jobs!Elements
  <2> QED
    BY <2>3, <2>4, <2>5, <2>7
<1>6. CASE Jobs!RunLastChunk
  <2>1. /\ waiting = "submit" /\ waiting' = "wait" /\ at = Jobs!NumChunks /\ at' = 1
        /\ UNCHANGED <<status, counter, refs>>
        /\ runs' = [e \in Jobs!Elements |-> IF e \in Jobs!LastChunk THEN runs[e] + 1 ELSE runs[e]]
    BY <1>6 DEF Jobs!RunLastChunk, Jobs!Body
  <2>2. JobsTypes'
    BY <1>2, <2>1 DEF JobsTypes
  <2>3. CountsInv'
    BY <2>1 DEF CountsInv, HandleRef, PoolRef
  <2>4. QueueInv'
    BY <1>2, <2>1 DEF QueueInv, Jobs!Jobs, Jobs!Forgotten
  <2>5. ASSUME NEW e \in Jobs!Elements
        PROVE  runs'[e] = IF e < total /\ ChunkDone(Owner(e))' THEN 1 ELSE 0
    <3>1. CASE e < total
      <4>1. e \in 0 .. total - 1 /\ Owner(e) \in 1 .. Jobs!NumChunks
        BY <1>2, <1>3, <3>1 DEF Jobs!Elements
      <4>2. e \in Jobs!LastChunk <=> Owner(e) = Jobs!NumChunks
        BY <1>1, <4>1, OwnerOfChunk
      <4> QED
        BY <1>2, <2>1, <3>1, <4>1, <4>2 DEF RunsInv, ChunkDone
    <3>2. CASE ~(e < total)
      BY <1>2, <2>1, <3>2 DEF RunsInv, Jobs!LastChunk, Jobs!Elements
    <3> QED
      BY <3>1, <3>2
  <2>6. RunsInv'
    BY <1>2, <2>1, <2>5 DEF RunsInv, Jobs!EveryElementOnce
  <2> QED
    BY <2>2, <2>3, <2>4, <2>6
<1>7. CASE Jobs!WaitEvent
  BY <1>2, <1>7, WaitStepInv
  DEF Jobs!WaitEvent, Jobs!Waited, QueueInv, CountsInv, JobsTypes, Jobs!Jobs
<1>8. CASE Jobs!WaitSeesIdle
  BY <1>2, <1>8, WaitStepInv
  DEF Jobs!WaitSeesIdle, Jobs!Waited, QueueInv, JobsTypes
<1>9. CASE Jobs!WaitSeesBusy
  BY <1>2, <1>9, WaitStepInv DEF Jobs!WaitSeesBusy, QueueInv
<1>10. CASE Jobs!WaitReadsCounter
  BY <1>2, <1>10, WaitStepInv DEF Jobs!WaitReadsCounter, QueueInv
<1>11. CASE Jobs!WakesOnChange \/ Jobs!WakesOnTimeout
  BY <1>2, <1>11, WaitStepInv DEF Jobs!WakesOnChange, Jobs!WakesOnTimeout, QueueInv
<1>12. CASE Jobs!Return
  <2>1. /\ waiting = "wait" /\ waiting' = "returned" /\ at = Jobs!NumChunks
        /\ UNCHANGED <<at, status, counter, runs>>
        /\ refs' = [j \in Jobs!Jobs |-> IF j \in 1 .. Jobs!NumChunks - 1 THEN refs[j] - 1 ELSE refs[j]]
    BY <1>12 DEF Jobs!Return
  <2>2. JobsTypes'
    BY <1>2, <2>1 DEF JobsTypes
  <2>3. \A j \in Jobs!Jobs \ {Jobs!Forgotten} :
          /\ status[j] \in {"none", "idle"}
          /\ j \in 1 .. Jobs!NumChunks - 1 <=> status[j] # "none"
    BY <1>2, <2>1 DEF QueueInv, JobsTypes, Jobs!Jobs, Jobs!Forgotten
  <2>4. CountsInv'
    BY <2>1, <2>3 DEF CountsInv, HandleRef, PoolRef, JobsTypes, Jobs!Jobs, Jobs!Forgotten
  <2>5. QueueInv'
    BY <2>1, <2>3 DEF QueueInv
  <2>6. \A e \in 0 .. total - 1 : ChunkDone(Owner(e))
    BY <1>2, <1>3, <2>1 DEF ChunkDone, QueueInv, Jobs!Jobs, Jobs!Forgotten
  <2>7. RunsInv'
    BY <1>2, <2>1, <2>6 DEF RunsInv, Jobs!EveryElementOnce, Jobs!Elements
  <2> QED
    BY <2>2, <2>4, <2>5, <2>7
<1> QED
  BY <1>4, <1>5, <1>6, <1>7, <1>8, <1>9, <1>10, <1>11, <1>12 DEF Jobs!Caller

\* A job of the caller is queued between the submission and the return, so it is
\* one that runs a chunk.
LEMMA BusyJob ==
  ASSUME JobsInv, NEW j \in Jobs!Jobs \ {Jobs!Forgotten}, status[j] \in {"queued", "running"}
  PROVE  waiting \in {"submit"} \cup Waits /\ j \in 1 .. Jobs!NumChunks - 1
<1>1. Jobs!NumChunks \in Nat
  BY ChunksCover DEF JobsInv, JobsTypes, CallTypes
<1> QED
  BY <1>1 DEF JobsInv, JobsTypes, QueueInv, Waits, Jobs!Jobs, Jobs!Forgotten

LEMMA PoolInvStep ==
  ASSUME JobsInv, NEW j \in Jobs!Jobs, Jobs!Pool(j)
  PROVE  JobsInv'
<1> USE DEF JobsInv
<1>1. UNCHANGED <<total, cores, minChunk, waiting, at>> /\ UNCHANGED Jobs!call /\ CallTypes
  BY DEF JobsTypes, Jobs!Pool, Jobs!PoolStarts, Jobs!PoolFinishes, Jobs!PoolSignals, Jobs!call
<1>2. /\ CallTypes' /\ Jobs!NumChunks' = Jobs!NumChunks /\ \A e : Owner(e)' = Owner(e)
      /\ Jobs!NumChunks \in 0 .. total /\ total \in 0 .. MaxRange
  BY <1>1, ChunksKept, ChunksCover DEF CallTypes
<1>3. \A e \in 0 .. total - 1 : e \in Jobs!Elements /\ Owner(e) \in 1 .. Jobs!NumChunks
  BY <1>1, <1>2, OwnerOfChunk DEF Jobs!Elements
<1>4. CASE Jobs!PoolStarts(j)
  <2>1. /\ status[j] = "queued" /\ status' = [status EXCEPT ![j] = "running"]
        /\ UNCHANGED <<counter, refs, runs>>
    BY <1>4 DEF Jobs!PoolStarts
  <2>2. JobsTypes' /\ CountsInv'
    BY <1>1, <1>2, <2>1 DEF JobsTypes, CountsInv, HandleRef, PoolRef
  <2>3. QueueInv'
    BY <1>1, <1>2, <2>1 DEF QueueInv, JobsTypes
  <2>4. \A k \in Jobs!Jobs : status'[k] = "idle" <=> status[k] = "idle"
    BY <2>1 DEF JobsTypes
  <2>5. \A e \in 0 .. total - 1 : ChunkDone(Owner(e))' <=> ChunkDone(Owner(e))
    BY <1>1, <1>2, <1>3, <2>4 DEF ChunkDone, Jobs!Jobs
  <2>6. RunsInv'
    BY <1>1, <1>2, <2>1, <2>5 DEF RunsInv, Jobs!EveryElementOnce, Jobs!Elements
  <2> QED
    BY <2>2, <2>3, <2>6
<1>5. CASE Jobs!PoolFinishes(j)
  <2>1. /\ status[j] = "running" /\ status' = [status EXCEPT ![j] = "idle"]
        /\ UNCHANGED <<counter, refs>>
        /\ runs' = IF j = Jobs!Forgotten THEN runs
                   ELSE [e \in Jobs!Elements |-> IF e \in Jobs!Chunk(j) THEN runs[e] + 1 ELSE runs[e]]
    BY <1>5 DEF Jobs!PoolFinishes, Jobs!Body
  <2>2. JobsTypes'
    BY <1>1, <1>2, <2>1 DEF JobsTypes
  <2>3. CountsInv'
    BY <1>1, <2>1 DEF JobsTypes, CountsInv, HandleRef, PoolRef
  <2>4. QueueInv'
    BY <1>1, <1>2, <2>1 DEF QueueInv, JobsTypes
  <2>5. CASE j = Jobs!Forgotten
    <3>1. \A e \in 0 .. total - 1 : ChunkDone(Owner(e))' <=> ChunkDone(Owner(e))
      BY <1>1, <1>2, <1>3, <2>1, <2>5 DEF ChunkDone, Jobs!Forgotten, Jobs!Jobs, JobsTypes
    <3>2. RunsInv'
      BY <1>1, <1>2, <2>1, <2>5, <3>1 DEF RunsInv, Jobs!EveryElementOnce, Jobs!Elements
    <3> QED
      BY <2>2, <2>3, <2>4, <3>2
  <2>6. CASE j # Jobs!Forgotten
    <3>1. waiting \in {"submit"} \cup Waits /\ j \in 1 .. Jobs!NumChunks - 1
      BY <2>1, <2>6, BusyJob
    <3>2. ASSUME NEW e \in Jobs!Elements
          PROVE  runs'[e] = IF e < total /\ ChunkDone(Owner(e))' THEN 1 ELSE 0
      <4>1. CASE e < total
        <5>1. e \in 0 .. total - 1 /\ Owner(e) \in 1 .. Jobs!NumChunks
          BY <1>2, <1>3, <4>1 DEF Jobs!Elements
        <5>2. e \in Jobs!Chunk(j) <=> Owner(e) = j
          BY <1>1, <3>1, <5>1, OwnerOfChunk
        <5>3. ChunkDone(Owner(e))' <=> ChunkDone(Owner(e)) \/ Owner(e) = j
          BY <1>1, <1>2, <2>1, <3>1, <5>1 DEF ChunkDone, JobsTypes, Jobs!Jobs
        <5>4. Owner(e) = j => ~ChunkDone(Owner(e))
          BY <1>2, <2>1, <3>1 DEF ChunkDone
        <5> QED
          BY <2>1, <2>6, <3>1, <4>1, <5>2, <5>3, <5>4 DEF RunsInv
      <4>2. CASE ~(e < total)
        <5>1. j * Jobs!ChunkSize \in Int /\ (j - 1) * Jobs!ChunkSize \in Int
          BY <1>1, ChunksCover, TimesNext DEF Jobs!Jobs
        <5>2. e \notin Jobs!Chunk(j)
          BY <1>2, <4>2, <5>1 DEF Jobs!Chunk, Jobs!Least, Jobs!Elements
        <5> QED
          BY <2>1, <2>6, <3>1, <4>2, <5>2 DEF RunsInv
      <4> QED
        BY <4>1, <4>2
    <3>3. RunsInv'
      BY <1>1, <3>1, <3>2 DEF RunsInv, Jobs!EveryElementOnce, Waits
    <3> QED
      BY <2>2, <2>3, <2>4, <3>3
  <2> QED
    BY <2>5, <2>6
<1>6. CASE Jobs!PoolSignals(j)
  <2>1. /\ status[j] = "idle" /\ counter[j] = 0
        /\ counter' = [counter EXCEPT ![j] = 1] /\ refs' = [refs EXCEPT ![j] = refs[j] - 1]
        /\ UNCHANGED <<status, runs>>
    BY <1>6 DEF Jobs!PoolSignals
  <2>2. JobsTypes' /\ CountsInv'
    BY <1>1, <1>2, <2>1 DEF JobsTypes, CountsInv, HandleRef, PoolRef
  <2>3. QueueInv' /\ RunsInv'
    BY <1>1, <1>2, <2>1 DEF QueueInv, RunsInv, Jobs!EveryElementOnce, ChunkDone
  <2> QED
    BY <2>2, <2>3
<1> QED
  BY <1>4, <1>5, <1>6 DEF Jobs!Pool

LEMMA JobsInvariant == Spec => []JobsInv
<1>1. Init => JobsInv
  BY ComponentsInit, JobsInvInit
<1>2. JobsInv /\ [Jobs!Next]_jobsVars => JobsInv'
  <2> SUFFICES ASSUME JobsInv, [Jobs!Next]_jobsVars PROVE JobsInv'
    OBVIOUS
  <2>1. CASE Jobs!RunAndForget
    <3>1. /\ status[0] = "none" /\ 0 \in Jobs!Jobs
          /\ refs' = [refs EXCEPT ![0] = 1] /\ status' = [status EXCEPT ![0] = "queued"]
          /\ UNCHANGED <<total, cores, minChunk, waiting, at, counter, runs>>
          /\ UNCHANGED Jobs!call
      BY <2>1 DEF Jobs!RunAndForget, Jobs!Forgotten, Jobs!call, Jobs!Jobs
    <3>2. /\ CallTypes /\ CallTypes' /\ Jobs!NumChunks' = Jobs!NumChunks
          /\ \A e : Owner(e)' = Owner(e)
      BY <3>1, ChunksKept DEF JobsInv, JobsTypes
    <3>3. \A e \in 0 .. total - 1 : Owner(e) \in 1 .. Jobs!NumChunks
      BY <3>2, OwnerOfChunk
    <3>4. JobsTypes' /\ CountsInv'
      BY <3>1, <3>2 DEF JobsInv, JobsTypes, CountsInv, HandleRef, PoolRef, Jobs!Forgotten
    <3>5. QueueInv'
      BY <3>1, <3>2 DEF JobsInv, QueueInv, JobsTypes, Jobs!Forgotten
    <3>6. \A e \in 0 .. total - 1 : ChunkDone(Owner(e))' <=> ChunkDone(Owner(e))
      BY <3>1, <3>2, <3>3 DEF ChunkDone, JobsInv, JobsTypes
    <3>7. RunsInv'
      BY <3>1, <3>2, <3>6
      DEF JobsInv, JobsTypes, CallTypes, RunsInv, Jobs!EveryElementOnce, Jobs!Elements
    <3> QED
      BY <3>4, <3>5, <3>7 DEF JobsInv
  <2>2. CASE Jobs!Caller
    BY <2>2, CallerInvStep
  <2>3. ASSUME NEW j \in Jobs!Jobs, Jobs!Pool(j) PROVE JobsInv'
    BY <2>3, PoolInvStep
  <2>4. CASE UNCHANGED jobsVars
    BY <2>4 DEF jobsVars, JobsInv, JobsTypes, CallTypes, CountsInv, QueueInv, RunsInv, HandleRef,
       PoolRef, ChunkDone, Owner, Jobs!EveryElementOnce, Jobs!ChunkSize, Jobs!NumChunks
  <2> QED
    BY <2>1, <2>2, <2>3, <2>4 DEF Jobs!Next
<1>3. JobsInv /\ [Next]_vars => JobsInv'
  BY <1>2, ComponentsNext
<1> QED
  BY <1>1, <1>3, PTL DEF Spec

\* threadpool.cpp:234-259: for every length of the range, number of cores and
\* smallest chunk, parallel_for runs its body exactly once for every element.
THEOREM JobsEveryElementOnce == Spec => []EveryElementOnce
<1>1. JobsInv => EveryElementOnce
  BY DEF JobsInv, RunsInv, EveryElementOnce
<1> QED
  BY <1>1, JobsInvariant, PTL

\* threadpool.cpp:245-263: no job of a call that returned is queued or running,
\* and no job is freed while somebody looks at it or runs it.
THEOREM JobsNothingDangles == Spec => []NothingDangles
<1>1. JobsInv => NothingDangles
  <2> SUFFICES ASSUME JobsInv PROVE Jobs!NothingDangles
    BY DEF NothingDangles
  <2> USE DEF JobsInv, JobsTypes, CountsInv, QueueInv, HandleRef, PoolRef
  <2>1. waiting = "returned" => \A j \in Jobs!Jobs \ {Jobs!Forgotten} : status[j] \in {"none", "idle"}
    OBVIOUS
  <2>2. ASSUME NEW j \in Jobs!Jobs, waiting \in Waits, j \in at .. Jobs!NumChunks - 1
        PROVE  refs[j] > 0
    <3>1. Jobs!NumChunks \in Nat
      BY ChunksCover DEF CallTypes
    <3>2. j \in Jobs!Jobs \ {Jobs!Forgotten} /\ ~(j >= Jobs!NumChunks) /\ waiting # "returned"
      BY <2>2, <3>1 DEF Waits, Jobs!Jobs, Jobs!Forgotten
    <3>3. status[j] # "none"
      BY <2>2, <3>2
    <3> QED
      BY <3>2, <3>3
  <2>3. \A j \in Jobs!Jobs : status[j] \in {"queued", "running"} => refs[j] > 0
    OBVIOUS
  <2> QED
    BY <2>1, <2>2, <2>3 DEF Jobs!NothingDangles, Waits
<1> QED
  BY <1>1, JobsInvariant, PTL

-----------------------------------------------------------------------------
(***************************************************************************)
(* The sort of the primitives.                                             *)
(***************************************************************************)

Entry == [mat : Materials \cup {NoMaterial}, place : Nat]
Places == 1 .. Len(original)

\* An answer agrees with what the table knew before the call and knows now.
Answered(k) ==
  /\ k \in Places /\ asked[k] \in BOOLEAN
  /\ Sort!SurelyOverlay(original[k]) => asked[k]
  /\ Sort!SurelyRegular(original[k]) => ~asked[k]

\* The properties speak of the end of the call.  Until then the list is the
\* engine's; the pre-scan's bounds enclose the entries it has passed that are
\* settled; the answers hold for settled entries; and while the copy is written
\* back, the entries before the present one are those of the sorted copy.
SortInv ==
  /\ knownAtStart \subseteq known
  /\ Len(original) \in Nat
  /\ original \in [Places -> Entry] /\ list \in [Places -> Entry]
  /\ \A k \in Places : original[k].place = k
  /\ sorting \in {"enter", "prescan", "copy", "partition"} => list = original
  /\ sorting = "enter" => i = 1 /\ firstOverlay = Len(original) + 1 /\ lastRegular = 0
  /\ sorting = "prescan" =>
       /\ {i, firstOverlay, lastRegular} \subseteq Nat
       /\ \A k \in Places : k < i =>
            /\ Sort!SurelyOverlay(original[k]) => firstOverlay <= k
            /\ Sort!SurelyRegular(original[k]) => k <= lastRegular
       /\ firstOverlay <= i \/ firstOverlay = Len(original) + 1
  /\ sorting = "copy" => asked = [k \in {} |-> FALSE]
  /\ sorting = "partition" => \A k \in DOMAIN asked : Answered(k)
  /\ sorting \in {"copy", "partition"} => i = 1
  /\ sorting = "write" =>
       /\ i \in Nat \ {0} /\ \A k \in Places : Answered(k)
       /\ \A k \in Places : k < i => list[k] = Sort!Sorted[k]
  /\ Sort!NothingLost /\ Sort!StablePartition

LEMMA AsSequence ==
  ASSUME NEW n \in Nat, NEW S, NEW f \in [1 .. n -> S]
  PROVE  f \in Seq(S) /\ Len(f) = n /\ DOMAIN f = 1 .. n
OBVIOUS

\* One half of the copy: entries of the engine's, up to the m-th, in their order,
\* namely those that were answered with b.
Half(m, b, half) ==
  /\ half \in Seq(Entry)
  /\ \A k \in 1 .. Len(half) :
       /\ half[k].place \in 1 .. m /\ asked[half[k].place] = b
       /\ half[k] = original[half[k].place]
  /\ \A k, l \in 1 .. Len(half) : half[k].place < half[l].place => k < l
  /\ \A j \in 1 .. m : asked[j] = b => \E k \in 1 .. Len(half) : half[k] = original[j]

Halves(m, v) ==
  /\ v = [regular |-> v.regular, overlay |-> v.overlay]
  /\ Half(m, FALSE, v.regular) /\ Half(m, TRUE, v.overlay)
  /\ Len(v.regular) + Len(v.overlay) = m

HalvesTurn(m, v) ==
  IF asked[m] THEN [v EXCEPT !.overlay = Append(@, original[m])]
  ELSE [v EXCEPT !.regular = Append(@, original[m])]

Halving == INSTANCE Loops
  WITH Size <- Len(original), Base <- [regular |-> <<>>, overlay |-> <<>>],
       Turn <- HalvesTurn, Holds <- Halves

LEMMA PartedIsLoop == Sort!Parted = Halving!Run
BY Zenon DEF Sort!Parted, Halving!Run, HalvesTurn

\* What every half is a part of.
Engines ==
  /\ Len(original) \in Nat /\ original \in [Places -> Entry]
  /\ \A k \in Places : original[k].place = k /\ asked[k] \in BOOLEAN

LEMMA Appended ==
  ASSUME NEW S, NEW l \in Seq(S), NEW e \in S
  PROVE  /\ Append(l, e) \in Seq(S)
         /\ Len(l) \in Nat /\ Len(Append(l, e)) = Len(l) + 1
         /\ Append(l, e)[Len(l) + 1] = e
         /\ \A k \in 1 .. Len(l) : Append(l, e)[k] = l[k]
OBVIOUS

\* The half that the m-th entry belongs to takes it.
LEMMA HalfGrows ==
  ASSUME Engines, NEW m \in Places, NEW b \in BOOLEAN, asked[m] = b,
         NEW half, Half(m - 1, b, half)
  PROVE  Half(m, b, Append(half, original[m]))
<1>1. Len(original) \in Nat /\ m \in Nat /\ original[m] \in Entry /\ original[m].place = m
  BY DEF Engines, Places
<1> DEFINE new == Append(half, original[m])
<1>2. /\ new \in Seq(Entry) /\ Len(half) \in Nat /\ Len(new) = Len(half) + 1
      /\ new[Len(half) + 1] = original[m]
      /\ \A k \in 1 .. Len(half) : new[k] = half[k]
  BY <1>1, Appended DEF Half
<1> HIDE DEF new
<1>3. \A k : k \in 1 .. Len(new) <=> k \in 1 .. Len(half) \/ k = Len(half) + 1
  BY <1>2
<1>4. \A j : j \in 1 .. m <=> j \in 1 .. m - 1 \/ j = m
  BY <1>1 DEF Places
<1>5. ASSUME NEW k \in 1 .. Len(new)
      PROVE  /\ new[k].place \in 1 .. m /\ asked[new[k].place] = b
             /\ new[k] = original[new[k].place]
  <2>1. CASE k \in 1 .. Len(half)
    BY <1>2, <1>4, <2>1 DEF Half
  <2>2. CASE k = Len(half) + 1
    BY <1>1, <1>2, <1>4, <2>2
  <2> QED
    BY <1>3, <2>1, <2>2
<1>6. ASSUME NEW k \in 1 .. Len(new), NEW l \in 1 .. Len(new), new[k].place < new[l].place
      PROVE  k < l
  <2>1. CASE k \in 1 .. Len(half) /\ l \in 1 .. Len(half)
    BY <1>2, <1>6, <2>1 DEF Half
  <2>2. CASE l = Len(half) + 1
    <3>1. k # l
      BY <1>1, <1>2, <1>6, <2>2
    <3> QED
      BY <1>2, <1>3, <2>2, <3>1
  <2>3. CASE k = Len(half) + 1 /\ l \in 1 .. Len(half)
    <3>1. new[k].place = m /\ new[l].place \in 1 .. m - 1
      BY <1>1, <1>2, <2>3 DEF Half
    <3> QED
      BY <1>1, <1>6, <3>1
  <2> QED
    BY <1>3, <2>1, <2>2, <2>3
<1>7. ASSUME NEW j \in 1 .. m, asked[j] = b
      PROVE  \E k \in 1 .. Len(new) : new[k] = original[j]
  <2>1. CASE j = m
    BY <1>2, <1>3, <2>1
  <2>2. CASE j \in 1 .. m - 1
    <3>1. PICK k \in 1 .. Len(half) : half[k] = original[j]
      BY <1>7, <2>2 DEF Half
    <3> QED
      BY <1>2, <1>3, <3>1
  <2> QED
    BY <1>4, <2>1, <2>2
<1> QED
  BY <1>2, <1>5, <1>6, <1>7 DEF Half, new

\* The other stays as it is.
LEMMA HalfStays ==
  ASSUME Engines, NEW m \in Places, NEW b \in BOOLEAN, asked[m] # b,
         NEW half, Half(m - 1, b, half)
  PROVE  Half(m, b, half)
<1>1. \A j : j \in 1 .. m <=> j \in 1 .. m - 1 \/ j = m
  BY DEF Places, Engines
<1> QED
  BY <1>1 DEF Half

LEMMA HalvesKeep ==
  ASSUME Engines, NEW m \in Places, NEW v, Halves(m - 1, v)
  PROVE  Halves(m, HalvesTurn(m, v))
<1>1. /\ original[m] \in Entry /\ asked[m] \in BOOLEAN /\ m \in Nat
  BY DEF Engines, Places
<1>2. v.regular \in Seq(Entry) /\ v.overlay \in Seq(Entry)
      /\ v = [regular |-> v.regular, overlay |-> v.overlay]
      /\ Len(v.regular) + Len(v.overlay) = m - 1
  BY DEF Halves, Half
<1>3. CASE asked[m]
  <2>1. HalvesTurn(m, v) = [regular |-> v.regular, overlay |-> Append(v.overlay, original[m])]
    BY <1>2, <1>3 DEF HalvesTurn
  <2>2. Half(m, FALSE, v.regular) /\ Half(m, TRUE, Append(v.overlay, original[m]))
    BY <1>1, <1>3, HalfGrows, HalfStays DEF Halves
  <2>3. Len(v.regular) + Len(Append(v.overlay, original[m])) = m
    <3>1. Len(Append(v.overlay, original[m])) = Len(v.overlay) + 1
          /\ Len(v.overlay) \in Nat /\ Len(v.regular) \in Nat
      BY <1>1, <1>2, Appended
    <3> QED
      BY <1>1, <1>2, <3>1
  <2> DEFINE w == HalvesTurn(m, v)
  <2>4. w = [regular |-> w.regular, overlay |-> w.overlay]
        /\ w.regular = v.regular /\ w.overlay = Append(v.overlay, original[m])
    BY <2>1
  <2> HIDE DEF w
  <2>5. Halves(m, w)
    BY <2>2, <2>3, <2>4 DEF Halves
  <2> QED
    BY <2>5 DEF w
<1>4. CASE ~asked[m]
  <2>1. HalvesTurn(m, v) = [regular |-> Append(v.regular, original[m]), overlay |-> v.overlay]
    BY <1>2, <1>4 DEF HalvesTurn
  <2>2. Half(m, FALSE, Append(v.regular, original[m])) /\ Half(m, TRUE, v.overlay)
    BY <1>1, <1>4, HalfGrows, HalfStays DEF Halves
  <2>3. Len(Append(v.regular, original[m])) + Len(v.overlay) = m
    <3>1. Len(Append(v.regular, original[m])) = Len(v.regular) + 1
          /\ Len(v.overlay) \in Nat /\ Len(v.regular) \in Nat
      BY <1>1, <1>2, Appended
    <3> QED
      BY <1>1, <1>2, <3>1
  <2> DEFINE w == HalvesTurn(m, v)
  <2>4. w = [regular |-> w.regular, overlay |-> w.overlay]
        /\ w.overlay = v.overlay /\ w.regular = Append(v.regular, original[m])
    BY <2>1
  <2> HIDE DEF w
  <2>5. Halves(m, w)
    BY <2>2, <2>3, <2>4 DEF Halves
  <2> QED
    BY <2>5 DEF w
<1> QED
  BY <1>3, <1>4

\* The sorted copy: every entry of the engine's once, the regular ones before the
\* overlays, each kind in the engine's order.
LEMMA SortedFacts ==
  ASSUME Engines
  PROVE  /\ Sort!Sorted \in [Places -> Entry]
         /\ \A k \in Places : /\ Sort!Sorted[k].place \in Places
                              /\ Sort!Sorted[k] = original[Sort!Sorted[k].place]
         /\ \A j \in Places : \E k \in Places : Sort!Sorted[k] = original[j]
         /\ \A k, l \in Places :
              asked[Sort!Sorted[k].place] /\ ~asked[Sort!Sorted[l].place] => l < k
         /\ \A k, l \in Places :
              asked[Sort!Sorted[k].place] = asked[Sort!Sorted[l].place]
              /\ Sort!Sorted[k].place < Sort!Sorted[l].place => k < l
<1>1. Len(original) \in Nat
  BY DEF Engines
<1>2. Halves(0, [regular |-> <<>>, overlay |-> <<>>])
  BY DEF Halves, Half
<1>3. \A m \in 1 .. Len(original) : \A v : Halves(m - 1, v) => Halves(m, HalvesTurn(m, v))
  BY HalvesKeep DEF Places
<1>4. \A m \in 0 .. Len(original) : Halves(m, Halving!Run[m])
  <2> HIDE DEF Halves, HalvesTurn
  <2> QED
    BY <1>1, <1>2, <1>3, Halving!LoopInvariant
<1>5. Halves(Len(original), Sort!Parted[Len(original)])
  BY <1>1, <1>4, PartedIsLoop
<1> DEFINE v == Sort!Parted[Len(original)]
           R == v.regular
           O == v.overlay
<1>6. Sort!Sorted = R \o O
  BY DEF Sort!Sorted
<1>7. Half(Len(original), FALSE, R) /\ Half(Len(original), TRUE, O)
      /\ Len(R) + Len(O) = Len(original)
  BY <1>5 DEF Halves
<1> HIDE DEF v, R, O
<1>8. R \in Seq(Entry) /\ O \in Seq(Entry) /\ Len(R) \in Nat /\ Len(O) \in Nat
  BY <1>7 DEF Half
<1> DEFINE S == Sort!Sorted
<1>9. /\ \A k \in 1 .. Len(R) : S[k] = R[k]
      /\ \A k \in 1 .. Len(O) : S[Len(R) + k] = O[k]
      /\ S \in Seq(Entry) /\ Len(S) = Len(original)
  BY <1>6, <1>7, <1>8
<1>10. S \in [Places -> Entry]
  BY <1>1, <1>9 DEF Places
<1>11. ASSUME NEW k \in Places
       PROVE  \/ k \in 1 .. Len(R) /\ S[k] = R[k]
              \/ \E j \in 1 .. Len(O) : k = Len(R) + j /\ S[k] = O[j]
  <2>1. CASE k \in 1 .. Len(R)
    BY <1>9, <2>1
  <2>2. CASE k \notin 1 .. Len(R)
    <3>1. k - Len(R) \in 1 .. Len(O) /\ k = Len(R) + (k - Len(R))
      BY <1>1, <1>7, <1>8, <2>2 DEF Places
    <3> QED
      BY <1>9, <3>1
  <2> QED
    BY <2>1, <2>2
<1> HIDE DEF S
<1>12. ASSUME NEW k \in Places
       PROVE  /\ S[k].place \in Places /\ S[k] = original[S[k].place]
              /\ asked[S[k].place] = FALSE => k \in 1 .. Len(R) /\ S[k] = R[k]
              /\ asked[S[k].place] = TRUE =>
                   \E j \in 1 .. Len(O) : k = Len(R) + j /\ S[k] = O[j]
  <2>1. CASE k \in 1 .. Len(R) /\ S[k] = R[k]
    <3>1. S[k].place \in Places /\ S[k] = original[S[k].place] /\ asked[S[k].place] = FALSE
      BY <1>7, <2>1 DEF Half, Places
    <3> QED
      BY <2>1, <3>1
  <2>2. CASE \E j \in 1 .. Len(O) : k = Len(R) + j /\ S[k] = O[j]
    <3>1. S[k].place \in Places /\ S[k] = original[S[k].place] /\ asked[S[k].place] = TRUE
      BY <1>7, <2>2 DEF Half, Places
    <3> QED
      BY <2>2, <3>1
  <2> QED
    BY <1>11, <2>1, <2>2
<1>13. ASSUME NEW j \in Places PROVE \E k \in Places : S[k] = original[j]
  <2>1. asked[j] \in BOOLEAN
    BY DEF Engines
  <2>2. CASE asked[j] = FALSE
    <3>1. PICK k \in 1 .. Len(R) : R[k] = original[j]
      BY <1>7, <2>2 DEF Half, Places
    <3>2. k \in Places
      BY <1>1, <1>7, <1>8 DEF Places
    <3> QED
      BY <1>9, <3>1, <3>2 DEF S
  <2>3. CASE asked[j] = TRUE
    <3>1. PICK k \in 1 .. Len(O) : O[k] = original[j]
      BY <1>7, <2>3 DEF Half, Places
    <3>2. Len(R) + k \in Places
      BY <1>1, <1>7, <1>8 DEF Places
    <3> QED
      BY <1>9, <3>1, <3>2 DEF S
  <2> QED
    BY <2>1, <2>2, <2>3
<1>14. ASSUME NEW k \in Places, NEW l \in Places, asked[S[k].place] = TRUE, asked[S[l].place] = FALSE
       PROVE  l < k
  <2>1. PICK j \in 1 .. Len(O) : k = Len(R) + j
    BY <1>12, <1>14
  <2>2. l \in 1 .. Len(R)
    BY <1>12, <1>14
  <2> QED
    BY <1>8, <2>1, <2>2
<1>15. ASSUME NEW k \in Places, NEW l \in Places, asked[S[k].place] = asked[S[l].place],
              S[k].place < S[l].place
       PROVE  k < l
  <2>1. asked[S[k].place] \in BOOLEAN
    BY <1>12 DEF Engines
  <2>2. CASE asked[S[k].place] = FALSE
    BY <1>7, <1>12, <1>15, <2>2 DEF Half
  <2>3. CASE asked[S[k].place] = TRUE
    <3>1. PICK a \in 1 .. Len(O) : k = Len(R) + a /\ S[k] = O[a]
      BY <1>12, <2>3
    <3>2. PICK b \in 1 .. Len(O) : l = Len(R) + b /\ S[l] = O[b]
      BY <1>12, <1>15, <2>3
    <3>3. a < b
      BY <1>7, <1>15, <3>1, <3>2 DEF Half
    <3> QED
      BY <1>8, <3>1, <3>2, <3>3
  <2> QED
    BY <2>1, <2>2, <2>3
<1>16. \A k \in Places : asked[S[k].place] \in BOOLEAN
  BY <1>12 DEF Engines
<1>17. \A k, l \in Places : asked[S[k].place] /\ ~asked[S[l].place] => l < k
  BY <1>14, <1>16
<1> QED
  BY <1>10, <1>12, <1>13, <1>15, <1>17 DEF S

LEMMA ListSize ==
  ASSUME SortInv
  PROVE  /\ Sort!Total = Len(original) /\ Len(list) = Len(original)
         /\ DOMAIN list = Places /\ DOMAIN original = Places
BY AsSequence DEF SortInv, Sort!Total, Places

\* A call that ends with the list as it was.
LEMMA EndsUntouched ==
  ASSUME SortInv, list = original,
         UNCHANGED <<list, original>>
  PROVE  Sort!NothingLost' /\ Sort!EngineOrderKept'
<1>1. DOMAIN list' = Places /\ list' = original
  BY ListSize
<1>2. Sort!EngineOrderKept'
  BY <1>1 DEF Sort!EngineOrderKept, SortInv
<1>3. Sort!NothingLost'
  BY DEF Sort!NothingLost
<1> QED
  BY <1>2, <1>3

\* Nothing that is settled is in the wrong place, if all is regular or all is an
\* overlay as far as it was asked.
LEMMA EndsAlike ==
  ASSUME SortInv, list = original, UNCHANGED <<list, original, known, knownAtStart>>,
         \A k, l \in Places : Sort!SurelyOverlay(original[k]) /\ Sort!SurelyRegular(original[l]) => l < k
  PROVE  Sort!NothingLost' /\ Sort!StablePartition'
<1>1. DOMAIN list' = Places /\ list' = original
  BY ListSize
<1>2. Sort!OverlaysDrawnLast'
  BY <1>1 DEF Sort!OverlaysDrawnLast, Sort!SurelyOverlay, Sort!SurelyRegular
<1> QED
  BY <1>2, EndsUntouched DEF Sort!StablePartition

\* A step that does not end the call leaves the properties to the end.
LEMMA GoesOn ==
  ASSUME sorting' # "done"
  PROVE  Sort!NothingLost' /\ Sort!StablePartition'
BY DEF Sort!NothingLost, Sort!StablePartition, Sort!OverlaysDrawnLast, Sort!EngineOrderKept

\* The call ends with the sorted copy in the list.
LEMMA EndsSorted ==
  ASSUME SortInv, Sort!WriteEnds
  PROVE  Sort!NothingLost' /\ Sort!StablePartition'
<1>1. /\ sorting = "write" /\ i \in Nat /\ i > Len(original)
      /\ UNCHANGED <<known, knownAtStart, list, original>>
  BY ListSize DEF Sort!WriteEnds, SortInv
<1>2. Engines
  BY <1>1 DEF SortInv, Engines, Answered
<1>3. \A k \in Places : k < i
  BY <1>1, <1>2 DEF Engines, Places
<1>4. \A k \in Places : list[k] = Sort!Sorted[k]
  BY <1>1, <1>3 DEF SortInv
<1>5. \A k \in Places : /\ list[k].place \in Places /\ list[k] = original[list[k].place]
                        /\ Answered(list[k].place)
  BY <1>1, <1>2, <1>4, SortedFacts DEF SortInv
<1>6. DOMAIN list' = Places /\ DOMAIN original' = Places /\ Len(list') = Len(original')
  BY <1>1, ListSize
<1>7. Sort!NothingLost'
  <2>1. \A j \in Places : \E k \in Places : list[k] = original[j]
    BY <1>2, <1>4, SortedFacts
  <2>2. {list[k] : k \in Places} = {original[k] : k \in Places}
    BY <1>5, <2>1
  <2> QED
    BY <1>1, <1>6, <2>2 DEF Sort!NothingLost
<1>8. Sort!OverlaysDrawnLast'
  <2>1. ASSUME NEW k \in Places, NEW l \in Places,
               Sort!SurelyOverlay(list[k]), Sort!SurelyRegular(list[l])
        PROVE  l < k
    <3>1. asked[list[k].place] /\ ~asked[list[l].place]
      BY <1>5, <2>1 DEF Answered
    <3> QED
      BY <1>2, <1>4, <3>1, SortedFacts
  <2> QED
    BY <1>1, <1>6, <2>1 DEF Sort!OverlaysDrawnLast, Sort!SurelyOverlay, Sort!SurelyRegular
<1>9. Sort!EngineOrderKept'
  <2>1. ASSUME NEW k \in Places, NEW l \in Places,
               Sort!Settled(list[k]), Sort!Settled(list[l]),
               Sort!SurelyOverlay(list[k]) <=> Sort!SurelyOverlay(list[l]),
               list[k].place < list[l].place
        PROVE  k < l
    <3>1. asked[list[k].place] = asked[list[l].place]
      <4>1. CASE Sort!SurelyOverlay(list[k])
        BY <1>5, <2>1, <4>1 DEF Answered
      <4>2. CASE ~Sort!SurelyOverlay(list[k])
        BY <1>5, <2>1, <4>2 DEF Answered, Sort!Settled
      <4> QED
        BY <4>1, <4>2
    <3> QED
      BY <1>2, <1>4, <2>1, <3>1, SortedFacts
  <2> QED
    BY <1>1, <1>6, <2>1
       DEF Sort!EngineOrderKept, Sort!Settled, Sort!SurelyOverlay, Sort!SurelyRegular
<1> QED
  BY <1>7, <1>8, <1>9 DEF Sort!StablePartition

\* The table grows: fewer entries are settled, and nothing else changes.
LEMMA GrowKeeps ==
  ASSUME SortInv, NEW m, Sort!Grow(m)
  PROVE  SortInv'
<1>1. /\ known \subseteq known'
      /\ UNCHANGED <<knownAtStart, list, original, sorting, i, firstOverlay, lastRegular, asked, fault>>
  BY DEF Sort!Grow, Sort!scan
<1>2. \A p : (Sort!SurelyOverlay(p)' <=> Sort!SurelyOverlay(p))
             /\ (Sort!SurelyRegular(p)' => Sort!SurelyRegular(p))
             /\ (Sort!Settled(p)' => Sort!Settled(p))
  BY <1>1 DEF Sort!SurelyOverlay, Sort!SurelyRegular, Sort!Settled
<1>3. Sort!NothingLost' /\ Sort!StablePartition'
  <2>1. Sort!NothingLost'
    <3>1. Sort!NothingLost
      BY DEF SortInv
    <3> QED
      BY <1>1, <3>1 DEF Sort!NothingLost
  <2>2. Sort!OverlaysDrawnLast'
    BY <1>1, <1>2 DEF SortInv, Sort!StablePartition, Sort!OverlaysDrawnLast, Sort!Total
  <2>3. Sort!EngineOrderKept'
    BY <1>1, <1>2 DEF SortInv, Sort!StablePartition, Sort!EngineOrderKept
  <2> QED
    BY <2>1, <2>2, <2>3 DEF Sort!StablePartition
<1>4. \A k : Answered(k) => Answered(k)'
  BY <1>1, <1>2 DEF Answered, Places
<1>5. Places' = Places /\ Sort!Sorted' = Sort!Sorted
  BY <1>1 DEF Places, Sort!Sorted, Sort!Parted
<1> QED
  BY <1>1, <1>2, <1>3, <1>4, <1>5 DEF SortInv

LEMMA SortStepInv ==
  ASSUME SortInv, Sort!Call
  PROVE  SortInv'
<1>0. /\ Sort!Total = Len(original) /\ Len(original) \in Nat
      /\ DOMAIN list = Places /\ Places = 1 .. Len(original)
  BY ListSize DEF SortInv, Places
<1>1. UNCHANGED <<known, knownAtStart, original>>
  BY DEF Sort!Call, Sort!Enter, Sort!PrescanStops, Sort!PrescanEntry, Sort!PrescanEnds, Sort!Copy,
         Sort!Ask, Sort!PartitionEnds, Sort!Write, Sort!WriteEnds
<1>2. /\ Places' = Places
      /\ \A p : /\ Sort!SurelyOverlay(p)' <=> Sort!SurelyOverlay(p)
                /\ Sort!SurelyRegular(p)' <=> Sort!SurelyRegular(p)
  BY <1>1 DEF Places, Sort!SurelyOverlay, Sort!SurelyRegular
<1>3. CASE Sort!Enter
  <2>1. sorting = "enter" /\ list = original /\ i = 1 /\ firstOverlay = Len(original) + 1
        /\ lastRegular = 0 /\ UNCHANGED <<list, i, firstOverlay, lastRegular, asked, fault>>
    BY <1>3 DEF Sort!Enter, Sort!scan, SortInv
  <2>2. CASE sorting' = "prescan"
    <3>1. Sort!NothingLost' /\ Sort!StablePartition'
      BY <2>2, GoesOn
    <3> QED
      BY <1>0, <1>1, <1>2, <2>1, <2>2, <3>1 DEF SortInv
  <2>3. CASE sorting' = "done"
    <3>1. Sort!OverlaysDrawnLast'
      <4>1. CASE Sort!Total \in {0, 1} \/ Sort!Total > MaxTotal
        <5>1. ~(Sort!Total \in 2 .. MaxTotal)
          BY <1>0, <4>1, SortAssumption DEF Sort!LengthAssumption
        <5>2. Sort!Total' = Sort!Total
          BY <2>1 DEF Sort!Total
        <5> QED
          BY <5>1, <5>2 DEF Sort!OverlaysDrawnLast
      <4>2. CASE known = {}
        BY <1>1, <1>2, <4>2 DEF SortInv, Sort!OverlaysDrawnLast, Sort!SurelyOverlay
      <4> QED
        BY <1>3, <2>3, <4>1, <4>2 DEF Sort!Enter
    <3>2. Sort!NothingLost' /\ Sort!StablePartition'
      BY <1>1, <2>1, <3>1, EndsUntouched DEF Sort!StablePartition
    <3> QED
      BY <1>1, <1>2, <2>1, <2>3, <3>2 DEF SortInv
  <2> QED
    BY <1>3, <2>2, <2>3 DEF Sort!Enter
<1>4. CASE Sort!PrescanStops
  <2>1. sorting' = "done" /\ fault' # "none" /\ list = original
        /\ UNCHANGED <<list, i, firstOverlay, lastRegular, asked>>
    BY <1>4 DEF Sort!PrescanStops, Sort!scan, SortInv
  <2>2. Sort!NothingLost' /\ Sort!StablePartition'
    BY <1>1, <2>1, EndsUntouched DEF Sort!StablePartition, Sort!OverlaysDrawnLast
  <2> QED
    BY <1>1, <1>2, <2>1, <2>2 DEF SortInv
<1>5. CASE Sort!PrescanEntry
  <2>1. sorting = "prescan" /\ sorting' = "prescan" /\ i' = i + 1 /\ i <= Len(original)
        /\ list = original /\ UNCHANGED <<list, asked, fault>>
        /\ {i, firstOverlay, lastRegular} \subseteq Nat
        /\ (firstOverlay <= i \/ firstOverlay = Len(original) + 1)
    BY <1>0, <1>5 DEF Sort!PrescanEntry, SortInv
  <2>2. CASE list[i].mat \in known
    <3>1. /\ firstOverlay' = IF firstOverlay = Len(original) + 1 THEN i ELSE firstOverlay
          /\ lastRegular' = lastRegular
      BY <1>0, <1>5, <2>2 DEF Sort!PrescanEntry
    <3>2. firstOverlay' \in Nat /\ firstOverlay' <= i /\ firstOverlay' <= firstOverlay
      BY <1>0, <2>1, <3>1
    <3>3. ASSUME NEW k \in Places, k < i'
          PROVE  /\ Sort!SurelyOverlay(original[k]) => firstOverlay' <= k
                 /\ Sort!SurelyRegular(original[k]) => k <= lastRegular'
      <4>1. CASE k < i
        BY <2>1, <3>1, <3>2, <4>1 DEF SortInv, Places
      <4>2. CASE k = i
        BY <2>1, <2>2, <3>2, <4>2 DEF Sort!SurelyRegular
      <4> QED
        BY <1>0, <2>1, <3>3, <4>1, <4>2
    <3>4. Sort!NothingLost' /\ Sort!StablePartition'
      BY <2>1, GoesOn
    <3>5. firstOverlay' <= i' /\ i' \in Nat
      BY <2>1, <3>2
    <3> QED
      BY <1>1, <1>2, <2>1, <3>1, <3>2, <3>3, <3>4, <3>5 DEF SortInv
  <2>3. CASE list[i].mat \notin known
    <3>1. lastRegular' = i /\ firstOverlay' = firstOverlay
      BY <1>5, <2>3 DEF Sort!PrescanEntry
    <3>2. ASSUME NEW k \in Places, k < i'
          PROVE  /\ Sort!SurelyOverlay(original[k]) => firstOverlay' <= k
                 /\ Sort!SurelyRegular(original[k]) => k <= lastRegular'
      <4>1. CASE k < i
        BY <2>1, <3>1, <4>1 DEF SortInv, Places
      <4>2. CASE k = i
        BY <2>1, <2>3, <3>1, <4>2 DEF SortInv, Sort!SurelyOverlay
      <4> QED
        BY <1>0, <2>1, <3>2, <4>1, <4>2
    <3>3. Sort!NothingLost' /\ Sort!StablePartition'
      BY <2>1, GoesOn
    <3>4. firstOverlay' <= i' \/ firstOverlay' = Len(original) + 1
      BY <1>0, <2>1, <3>1
    <3> QED
      BY <1>1, <1>2, <2>1, <3>1, <3>2, <3>3, <3>4 DEF SortInv
  <2> QED
    BY <2>2, <2>3
<1>6. CASE Sort!PrescanEnds
  <2>1. sorting = "prescan" /\ i > Len(original) /\ i' = 1 /\ list = original
        /\ asked' = [k \in {} |-> FALSE]
        /\ UNCHANGED <<list, firstOverlay, lastRegular, fault>>
        /\ {i, firstOverlay, lastRegular} \subseteq Nat
        /\ sorting' = IF lastRegular < firstOverlay THEN "done" ELSE "copy"
    BY <1>0, <1>6 DEF Sort!PrescanEnds, Sort!scan, SortInv
  <2>2. CASE sorting' = "done"
    <3>1. \A k, l \in Places :
            Sort!SurelyOverlay(original[k]) /\ Sort!SurelyRegular(original[l]) => l < k
      <4>1. lastRegular < firstOverlay
        BY <2>1, <2>2
      <4>2. \A k \in Places : k < i
        BY <1>0, <2>1
      <4>3. \A k \in Places : /\ k \in Nat
                              /\ Sort!SurelyOverlay(original[k]) => firstOverlay <= k
                              /\ Sort!SurelyRegular(original[k]) => k <= lastRegular
        BY <1>0, <2>1, <4>2 DEF SortInv
      <4> QED
        BY <2>1, <4>1, <4>3
    <3>2. Sort!NothingLost' /\ Sort!StablePartition'
      BY <1>1, <2>1, <3>1, EndsAlike
    <3> QED
      BY <1>1, <1>2, <2>1, <2>2, <3>2 DEF SortInv
  <2>3. CASE sorting' = "copy"
    <3>1. Sort!NothingLost' /\ Sort!StablePartition'
      BY <2>3, GoesOn
    <3> QED
      BY <1>1, <1>2, <2>1, <2>3, <3>1 DEF SortInv
  <2> QED
    BY <2>1, <2>2, <2>3
<1>7. CASE Sort!Copy
  <2>1. sorting = "copy" /\ list = original /\ i = 1 /\ asked = [k \in {} |-> FALSE]
        /\ UNCHANGED <<list, i, firstOverlay, lastRegular, asked>>
    BY <1>7 DEF Sort!Copy, Sort!scan, SortInv
  <2>2. CASE sorting' = "partition"
    <3>1. Sort!NothingLost' /\ Sort!StablePartition'
      BY <2>2, GoesOn
    <3>2. \A k \in DOMAIN asked' : Answered(k)'
      BY <2>1
    <3> QED
      BY <1>1, <1>2, <2>1, <2>2, <3>1, <3>2 DEF SortInv
  <2>3. CASE sorting' = "done" /\ fault' = "read"
    <3>1. Sort!NothingLost' /\ Sort!StablePartition'
      BY <1>1, <2>1, <2>3, EndsUntouched DEF Sort!StablePartition, Sort!OverlaysDrawnLast
    <3> QED
      BY <1>1, <1>2, <2>1, <2>3, <3>1 DEF SortInv
  <2> QED
    BY <1>7, <2>2, <2>3 DEF Sort!Copy
<1>8. ASSUME NEW k \in DOMAIN list, Sort!Ask(k) PROVE SortInv'
  <2>1. sorting = "partition" /\ sorting' = "partition" /\ list = original /\ i = 1
        /\ asked' = [j \in DOMAIN asked \cup {k} |->
                       IF j = k THEN list[k].mat \in known ELSE asked[j]]
        /\ UNCHANGED <<list, i, firstOverlay, lastRegular, fault>>
    BY <1>8 DEF Sort!Ask, Sort!scan, SortInv
  <2>2. ASSUME NEW j \in DOMAIN asked' PROVE Answered(j)'
    <3>1. CASE j = k
      <4>0. asked'[k] = (original[k].mat \in known)
        BY <2>1, Zenon
      <4>1. asked'[k] \in BOOLEAN
        <5>1. CASE original[k].mat \in known
          <6>1. asked'[k] = TRUE
            BY <4>0, <5>1, Zenon
          <6> QED
            BY <6>1
        <5>2. CASE original[k].mat \notin known
          <6>1. (original[k].mat \in known) = FALSE
            BY <5>2
          <6>2. asked'[k] = FALSE
            BY <4>0, <6>1, Zenon
          <6> QED
            BY <6>2
        <5> QED
          BY <5>1, <5>2
      <4>2. asked'[k] <=> original[k].mat \in known
        BY <4>0, Zenon
      <4> QED
        BY <1>0, <1>1, <1>2, <3>1, <4>1, <4>2
           DEF Answered, SortInv, Sort!SurelyOverlay, Sort!SurelyRegular
    <3>2. CASE j # k
      <4>1. asked'[j] = asked[j] /\ Answered(j)
        BY <2>1, <3>2 DEF SortInv
      <4> QED
        BY <1>1, <1>2, <4>1 DEF Answered
    <3> QED
      BY <3>1, <3>2
  <2>3. Sort!NothingLost' /\ Sort!StablePartition'
    BY <2>1, GoesOn
  <2> QED
    BY <1>1, <1>2, <2>1, <2>2, <2>3 DEF SortInv
<1>9. CASE Sort!PartitionEnds
  <2>1. sorting = "partition" /\ list = original /\ i = 1 /\ DOMAIN asked = Places
        /\ UNCHANGED <<list, i, firstOverlay, lastRegular, asked, fault>>
    BY <1>0, <1>9 DEF Sort!PartitionEnds, Sort!scan, SortInv
  <2>2. \A k \in Places : Answered(k)
    BY <2>1 DEF SortInv
  <2>3. CASE \A k, l \in Places : asked[k] = asked[l]
    <3>1. sorting' = "done"
      BY <1>0, <1>9, <2>3 DEF Sort!PartitionEnds
    <3>2. \A k, l \in Places :
            ~(Sort!SurelyOverlay(original[k]) /\ Sort!SurelyRegular(original[l]))
      BY <2>2, <2>3 DEF Answered
    <3>3. Sort!NothingLost' /\ Sort!StablePartition'
      BY <1>1, <2>1, <3>2, EndsAlike
    <3> QED
      BY <1>1, <1>2, <2>1, <3>1, <3>3 DEF SortInv
  <2>4. CASE ~(\A k, l \in Places : asked[k] = asked[l])
    <3>1. sorting' = "write"
      BY <1>0, <1>9, <2>4 DEF Sort!PartitionEnds
    <3>2. Sort!NothingLost' /\ Sort!StablePartition'
      BY <3>1, GoesOn
    <3>3. \A k \in Places : Answered(k)'
      BY <1>1, <1>2, <2>1, <2>2 DEF Answered
    <3>4. \A k \in Places : ~(k < i)
      BY <1>0, <2>1
    <3> QED
      BY <1>1, <1>2, <2>1, <3>1, <3>2, <3>3, <3>4 DEF SortInv
  <2> QED
    BY <2>3, <2>4
<1>10. CASE Sort!Write
  <2>1. sorting = "write" /\ i \in Places /\ (\A k \in Places : Answered(k))
        /\ UNCHANGED <<firstOverlay, lastRegular, asked>>
    BY <1>0, <1>10 DEF Sort!Write, Sort!scan, SortInv
  <2>2. Engines
    BY <1>0, <2>1 DEF SortInv, Engines, Answered
  <2>3. Sort!Sorted' = Sort!Sorted
    BY <1>1, <2>1 DEF Sort!Sorted, Sort!Parted
  <2>4. \A k \in Places : Answered(k)'
    BY <1>1, <1>2, <2>1 DEF Answered
  <2>5. CASE list' = [list EXCEPT ![i] = Sort!Sorted[i]] /\ i' = i + 1 /\ UNCHANGED <<sorting, fault>>
    <3>1. Sort!Sorted[i] \in Entry
      BY <2>1, <2>2, SortedFacts
    <3>2. list' \in [Places -> Entry]
      BY <2>5, <3>1 DEF SortInv
    <3>3. ASSUME NEW k \in Places, k < i' PROVE list'[k] = Sort!Sorted[k]
      <4>1. k < i \/ k = i
        BY <1>0, <2>1, <2>5, <3>3
      <4> QED
        BY <2>1, <2>5, <4>1 DEF SortInv
    <3>4. Sort!NothingLost' /\ Sort!StablePartition'
      BY <2>1, <2>5, GoesOn
    <3>5. i' \in Nat \ {0}
      BY <1>0, <2>1, <2>5
    <3> QED
      BY <1>1, <1>2, <2>1, <2>3, <2>4, <2>5, <3>2, <3>3, <3>4, <3>5 DEF SortInv
  <2>6. CASE sorting' = "done" /\ fault' = "write" /\ UNCHANGED <<list, i>>
    <3>1. Sort!NothingLost' /\ Sort!StablePartition'
      BY <2>6 DEF Sort!NothingLost, Sort!StablePartition, Sort!OverlaysDrawnLast,
                  Sort!EngineOrderKept
    <3> QED
      BY <1>1, <1>2, <2>6, <3>1 DEF SortInv
  <2> QED
    BY <1>10, <2>5, <2>6 DEF Sort!Write
<1>11. CASE Sort!WriteEnds
  <2>1. sorting' = "done" /\ UNCHANGED <<list, i, firstOverlay, lastRegular, asked, fault>>
    BY <1>11 DEF Sort!WriteEnds, Sort!scan
  <2>2. Sort!NothingLost' /\ Sort!StablePartition'
    BY <1>11, EndsSorted
  <2> QED
    BY <1>1, <1>2, <2>1, <2>2 DEF SortInv
<1> QED
  BY <1>3, <1>4, <1>5, <1>6, <1>7, <1>8, <1>9, <1>10, <1>11 DEF Sort!Call

LEMMA SortInit == Sort!Init => SortInv
<1> SUFFICES ASSUME Sort!Init PROVE SortInv
  OBVIOUS
<1> USE DEF Sort!Init
<1>1. PICK n \in 0 .. MaxLength : \E f \in [1 .. n -> Materials \cup {NoMaterial}] :
        list = [k \in 1 .. n |-> [mat |-> f[k], place |-> k]]
  BY DEF Sort!Lists
<1>2. PICK f \in [1 .. n -> Materials \cup {NoMaterial}] :
        list = [k \in 1 .. n |-> [mat |-> f[k], place |-> k]]
  BY <1>1
<1>3. n \in Nat
  BY SortAssumption DEF Sort!LengthAssumption
<1>4. list \in [1 .. n -> Entry] /\ \A k \in 1 .. n : list[k].place = k
  BY <1>2, <1>3 DEF Entry
<1>5. Len(list) = n
  BY <1>3, <1>4, AsSequence
<1>6. Sort!NothingLost /\ Sort!StablePartition
  BY DEF Sort!NothingLost, Sort!StablePartition, Sort!OverlaysDrawnLast, Sort!EngineOrderKept
<1> QED
  BY <1>3, <1>4, <1>5, <1>6 DEF SortInv, Places, Sort!Total

LEMMA SortInvariant == Spec => []SortInv
<1>1. Init => SortInv
  BY ComponentsInit, SortInit
<1>2. SortInv /\ [Next]_vars => SortInv'
  <2> SUFFICES ASSUME SortInv, [Next]_vars PROVE SortInv'
    OBVIOUS
  <2>1. [Sort!Next]_sortVars
    BY ComponentsNext
  <2>2. CASE Sort!Next
    BY <2>2, SortStepInv, GrowKeeps DEF Sort!Next
  <2>3. CASE UNCHANGED sortVars
    <3>1. UNCHANGED <<known, knownAtStart, list, original, sorting, i, firstOverlay, lastRegular,
                      asked, fault>>
      BY <2>3 DEF sortVars
    <3>2. Places' = Places /\ Sort!Sorted' = Sort!Sorted
      BY <3>1 DEF Places, Sort!Sorted, Sort!Parted
    <3>3. \A p : /\ Sort!SurelyOverlay(p)' <=> Sort!SurelyOverlay(p)
                 /\ Sort!SurelyRegular(p)' <=> Sort!SurelyRegular(p)
      BY <3>1 DEF Sort!SurelyOverlay, Sort!SurelyRegular
    <3>4. \A k : Answered(k)' <=> Answered(k)
      BY <3>1, <3>2, <3>3 DEF Answered
    <3>5. (Sort!NothingLost /\ Sort!StablePartition)'
      <4>1. Sort!NothingLost /\ Sort!OverlaysDrawnLast /\ Sort!EngineOrderKept
        BY DEF SortInv, Sort!StablePartition
      <4>2. Sort!NothingLost'
        BY <3>1, <4>1 DEF Sort!NothingLost
      <4>3. Sort!OverlaysDrawnLast'
        BY <3>1, <3>3, <4>1 DEF Sort!OverlaysDrawnLast, Sort!Total
      <4>4. Sort!EngineOrderKept'
        BY <3>1, <3>3, <4>1 DEF Sort!EngineOrderKept, Sort!Settled
      <4> QED
        BY <4>2, <4>3, <4>4 DEF Sort!StablePartition
    <3> QED
      BY <3>1, <3>2, <3>3, <3>4, <3>5 DEF SortInv
  <2> QED
    BY <2>1, <2>2, <2>3
<1> QED
  BY <1>1, <1>2, PTL DEF Spec

\* player.chams.cpp:249-339: a sort that ends without a failed write leaves the
\* engine every primitive it had, each once, however long the list is and
\* whatever the table learns meanwhile.
THEOREM SortNothingLost == Spec => []NothingLost
<1>1. SortInv => NothingLost
  BY DEF SortInv, NothingLost
<1> QED
  BY <1>1, SortInvariant, PTL

\* player.chams.cpp:278-329: overlays that were known before the sort are behind
\* all that is unknown after it, and primitives that share their fate keep the
\* engine's order, although every entry is asked about twice.
THEOREM SortStablePartition == Spec => []StablePartition
<1>1. SortInv => StablePartition
  BY DEF SortInv, StablePartition
<1> QED
  BY <1>1, SortInvariant, PTL

-----------------------------------------------------------------------------
(***************************************************************************)
(* The layers of the primitives.                                           *)
(***************************************************************************)

\* The two arrays as one buffer, which is what the code's indices mean.
Filled == Len(fixed) + Len(overflow)
Slot(k) == IF k <= Len(fixed) THEN fixed[k] ELSE overflow[k - Len(fixed)]

\* The calls still to make: a ghost is counted, generated in any layers and
\* marked without anything between, and the object itself comes last.
TodoOk(q) ==
  /\ q \in Seq([object : Layers!Ghosts \cup {"own"}, layer : Layers!Layers \cup {"count", "mark"}])
  /\ \A k \in 1 .. Len(q) :
       /\ q[k].object = "own" =>
            q[k].layer \in Layers!Layers /\ (k < Len(q) => q[k + 1].object = "own")
       /\ q[k].object # "own" /\ q[k].layer = "mark" /\ k < Len(q) =>
            q[k + 1].layer = "count" \/ q[k + 1].object = "own"
       /\ q[k].object # "own" /\ q[k].layer # "mark" =>
            k < Len(q) /\ q[k + 1].object = q[k].object /\ q[k + 1].layer # "count"

\* In the middle of a ghost that was counted.
Amid(q) == Len(q) > 0 /\ q[1].object # "own" /\ q[1].layer # "count"

\* The overflow array is used when the fixed one is full.  In the middle of a
\* ghost all from its count on is of that ghost, and what of any ghost is not yet
\* marked is there; at any other time, unless something failed, nothing of a
\* ghost is left unmarked.
LayersInv ==
  /\ fixed \in Seq(Layers!Primitive) /\ overflow \in Seq(Layers!Primitive)
  /\ Len(overflow) > 0 => Len(fixed) >= FixedCapacity
  /\ since \in Int /\ spoiled \in BOOLEAN
  /\ stray = {}
  /\ TodoOk(todo)
  /\ \A k \in 1 .. Filled :
       /\ Slot(k).mat \in {"engine", Slot(k).layer}
       /\ ~spoiled /\ Slot(k).layer # "plain" => Slot(k).mat = Slot(k).layer
       /\ Slot(k).last => Slot(k).object \in Layers!Ghosts
  /\ Amid(todo) =>
       /\ since <= Filled
       /\ since >= 0 =>
            \A k \in 1 .. Filled : k > since => Slot(k).object = todo[1].object
       /\ ~spoiled =>
            /\ since >= 0
            /\ \A k \in 1 .. Filled :
                 Slot(k).object \in Layers!Ghosts /\ ~Slot(k).last => k > since
  /\ ~Amid(todo) /\ ~spoiled =>
       \A k \in 1 .. Filled : Slot(k).object \in Layers!Ghosts => Slot(k).last

\* The addresses that a range of indices stands for, in either array.
LEMMA Hits ==
  ASSUME NEW from \in Nat, NEW to \in Int, NEW nFixed \in Nat, NEW addresses,
         addresses = Layers!Addresses(from, to, nFixed)
  PROVE  /\ \A k \in 1 .. nFixed : Layers!Hit(addresses, "fixed", k) <=> k - 1 \in from .. to - 1
         /\ \A k \in Nat \ {0} :
              Layers!Hit(addresses, "overflow", k) <=> nFixed + k - 1 \in from .. to - 1
         /\ \A nOverflow \in Nat :
              to <= nFixed + nOverflow => Layers!Outside(addresses, nFixed, nOverflow) = {}
<1>0. ASSUME NEW index \in from .. to - 1, NEW array, NEW k \in Nat,
             [array |-> array, at |-> k - 1] = Layers!At(index, nFixed)
      PROVE  /\ array = "fixed" => k - 1 = index
             /\ array = "overflow" => k - 1 = index - nFixed
  <2>1. CASE index < nFixed
    <3>1. Layers!At(index, nFixed) = [array |-> "fixed", at |-> index]
      BY <2>1 DEF Layers!At
    <3>2. array = "fixed" /\ k - 1 = index
      BY <1>0, <3>1
    <3> QED
      BY <3>2
  <2>2. CASE ~(index < nFixed)
    <3>1. Layers!At(index, nFixed) = [array |-> "overflow", at |-> index - nFixed]
      BY <2>2 DEF Layers!At
    <3>2. array = "overflow" /\ k - 1 = index - nFixed
      BY <1>0, <3>1
    <3> QED
      BY <3>2
  <2> QED
    BY <2>1, <2>2
<1>1. ASSUME NEW k \in 1 .. nFixed
      PROVE  Layers!Hit(addresses, "fixed", k) <=> k - 1 \in from .. to - 1
  <2>1. CASE Layers!Hit(addresses, "fixed", k)
    <3>1. PICK index \in from .. to - 1 : [array |-> "fixed", at |-> k - 1] = Layers!At(index, nFixed)
      BY <2>1 DEF Layers!Hit, Layers!Addresses
    <3>2. k - 1 = index
      BY <1>0, <3>1
    <3> QED
      BY <2>1, <3>2
  <2>2. CASE k - 1 \in from .. to - 1
    <3>1. Layers!At(k - 1, nFixed) = [array |-> "fixed", at |-> k - 1]
      BY DEF Layers!At
    <3> QED
      BY <2>2, <3>1 DEF Layers!Hit, Layers!Addresses
  <2> QED
    BY <2>1, <2>2
<1>2. ASSUME NEW k \in Nat \ {0}
      PROVE  Layers!Hit(addresses, "overflow", k) <=> nFixed + k - 1 \in from .. to - 1
  <2>1. CASE Layers!Hit(addresses, "overflow", k)
    <3>1. PICK index \in from .. to - 1 :
            [array |-> "overflow", at |-> k - 1] = Layers!At(index, nFixed)
      BY <2>1 DEF Layers!Hit, Layers!Addresses
    <3>2. k - 1 = index - nFixed
      BY <1>0, <3>1
    <3> QED
      BY <2>1, <3>2
  <2>2. CASE nFixed + k - 1 \in from .. to - 1
    <3>1. Layers!At(nFixed + k - 1, nFixed) = [array |-> "overflow", at |-> k - 1]
      BY DEF Layers!At
    <3> QED
      BY <2>2, <3>1 DEF Layers!Hit, Layers!Addresses
  <2> QED
    BY <2>1, <2>2
<1>3. ASSUME NEW nOverflow \in Nat, to <= nFixed + nOverflow
      PROVE  Layers!Outside(addresses, nFixed, nOverflow) = {}
  <2>1. ASSUME NEW index \in from .. to - 1
        PROVE  LET a == Layers!At(index, nFixed)
               IN  ~(a.at >= IF a.array = "fixed" THEN nFixed ELSE nOverflow)
    BY <1>3 DEF Layers!At
  <2> QED
    BY <2>1 DEF Layers!Outside, Layers!Addresses
<1> QED
  BY <1>1, <1>2, <1>3

\* No address at all, when a probe has failed.
LEMMA NoHits ==
  /\ \A k : ~Layers!Hit({}, "fixed", k) /\ ~Layers!Hit({}, "overflow", k)
  /\ \A nFixed, nOverflow : Layers!Outside({}, nFixed, nOverflow) = {}
BY DEF Layers!Hit, Layers!Outside

LEMMA CountsRight ==
  ASSUME NEW nFixed \in Nat, NEW nOverflow \in Nat, NEW c \in Layers!Reads(nFixed, nOverflow)
  PROVE  c = -1 \/ c = nFixed + nOverflow
BY DEF Layers!Reads, Layers!CountOf

\* The next call of the handler.
LEMMA TodoAdvances ==
  ASSUME TodoOk(todo), todo # <<>>, NEW rest, rest = Tail(todo)
  PROVE  /\ Len(todo) >= 1 /\ Head(todo) = todo[1]
         /\ TodoOk(rest)
         /\ Len(rest) = Len(todo) - 1
         /\ Len(rest) > 0 => rest[1] = todo[2]
         /\ todo[1].object = "own" => ~Amid(rest)
         /\ todo[1].object # "own" /\ todo[1].layer = "mark" => ~Amid(rest)
         /\ todo[1].object # "own" /\ todo[1].layer # "mark" =>
              Amid(rest) /\ rest[1].object = todo[1].object
<1>1. todo \in Seq([object : Layers!Ghosts \cup {"own"}, layer : Layers!Layers \cup {"count", "mark"}])
  BY DEF TodoOk
<1>2. /\ Len(todo) \in Nat /\ Len(todo) >= 1 /\ Head(todo) = todo[1]
      /\ rest \in Seq([object : Layers!Ghosts \cup {"own"}, layer : Layers!Layers \cup {"count", "mark"}])
      /\ Len(rest) = Len(todo) - 1
      /\ \A k \in 1 .. Len(rest) : rest[k] = todo[k + 1]
  BY <1>1
<1>3. \A k \in 1 .. Len(rest) : k + 1 \in 1 .. Len(todo) /\ (k < Len(rest) <=> k + 1 < Len(todo))
  BY <1>2
<1>4. TodoOk(rest)
  <2> SUFFICES ASSUME NEW k \in 1 .. Len(rest)
               PROVE  /\ rest[k].object = "own" =>
                           rest[k].layer \in Layers!Layers
                           /\ (k < Len(rest) => rest[k + 1].object = "own")
                      /\ rest[k].object # "own" /\ rest[k].layer = "mark" /\ k < Len(rest) =>
                           rest[k + 1].layer = "count" \/ rest[k + 1].object = "own"
                      /\ rest[k].object # "own" /\ rest[k].layer # "mark" =>
                           k < Len(rest) /\ rest[k + 1].object = rest[k].object
                           /\ rest[k + 1].layer # "count"
    BY <1>2 DEF TodoOk
  <2>1. k < Len(rest) => k + 1 \in 1 .. Len(rest)
    BY <1>2
  <2>2. rest[k] = todo[k + 1] /\ (k < Len(rest) => rest[k + 1] = todo[(k + 1) + 1])
    BY <1>2, <2>1
  <2> QED
    BY <1>3, <2>2 DEF TodoOk
<1>5. 1 \in 1 .. Len(todo) /\ (Len(rest) > 0 <=> 1 < Len(todo))
      /\ (Len(rest) > 0 => 1 \in 1 .. Len(rest) /\ rest[1] = todo[1 + 1])
  BY <1>2
<1> QED
  BY <1>2, <1>4, <1>5 DEF TodoOk, Amid

\* What the engine adds to the buffer comes behind all that is there.
Added(nf, no, n, p) ==
  /\ nf \in Seq(Layers!Primitive) /\ no \in Seq(Layers!Primitive)
  /\ Len(nf) + Len(no) = Filled + n
  /\ Len(nf) >= Len(fixed)
  /\ Len(no) > 0 => Len(nf) >= FixedCapacity
  /\ \A k \in 1 .. Len(nf) :
       nf[k] = IF k <= Filled THEN Slot(k) ELSE p
  /\ \A k \in 1 .. Len(no) :
       no[k] = IF Len(nf) + k <= Filled THEN Slot(Len(nf) + k) ELSE p

LEMMA CopiesAppended ==
  ASSUME NEW S, NEW l \in Seq(S), NEW n \in Nat, NEW p \in S,
         NEW r, r = l \o [k \in 1 .. n |-> p]
  PROVE  /\ r \in Seq(S) /\ Len(r) = Len(l) + n
         /\ \A k \in 1 .. Len(r) : r[k] = IF k <= Len(l) THEN l[k] ELSE p
<1> DEFINE c == [k \in 1 .. n |-> p]
<1>1. c \in [1 .. n -> S]
  OBVIOUS
<1>2. c \in Seq(S) /\ Len(c) = n /\ \A k \in 1 .. n : c[k] = p
  BY <1>1, AsSequence
<1> HIDE DEF c
<1>3. r = l \o c
  BY DEF c
<1>4. Len(l) \in Nat /\ r \in Seq(S) /\ Len(r) = Len(l) + n
      /\ \A k \in 1 .. Len(r) : r[k] = IF k <= Len(l) THEN l[k] ELSE c[k - Len(l)]
  BY <1>2, <1>3
<1>5. \A k \in 1 .. Len(r) : ~(k <= Len(l)) => k - Len(l) \in 1 .. n
  BY <1>4
<1> QED
  BY <1>2, <1>4, <1>5

LEMMA EngineAdds ==
  ASSUME LayersInv, NEW n \in Nat, NEW p \in Layers!Primitive
  PROVE  Added(Layers!FixedWith(n, p), Layers!OverflowWith(n, p), n, p)
<1> DEFINE room == Layers!Room
           a == Layers!Least(n, room)
           nf == Layers!FixedWith(n, p)
           no == Layers!OverflowWith(n, p)
<1>1. /\ fixed \in Seq(Layers!Primitive) /\ overflow \in Seq(Layers!Primitive)
      /\ Len(fixed) \in Nat /\ Len(overflow) \in Nat /\ FixedCapacity \in Nat
      /\ (Len(overflow) > 0 => Len(fixed) >= FixedCapacity)
  BY LayersAssumption DEF LayersInv, Layers!SizeAssumption
<1>2. /\ room = IF FixedCapacity > Len(fixed) THEN FixedCapacity - Len(fixed) ELSE 0
      /\ room \in Nat /\ a \in 0 .. n /\ a <= room /\ (a < n => a = room)
  BY <1>1 DEF Layers!Room, Layers!Least
<1>3. /\ nf = fixed \o [k \in 1 .. a |-> p]
      /\ no = overflow \o [k \in 1 .. n - a |-> p]
  BY DEF Layers!FixedWith, Layers!OverflowWith, Layers!Copies
<1> HIDE DEF room, a, nf, no
<1>4. a \in Nat /\ n - a \in Nat
  BY <1>2
<1>5. /\ nf \in Seq(Layers!Primitive) /\ Len(nf) = Len(fixed) + a
      /\ \A k \in 1 .. Len(nf) : nf[k] = IF k <= Len(fixed) THEN fixed[k] ELSE p
  BY <1>1, <1>3, <1>4, CopiesAppended
<1>6. /\ no \in Seq(Layers!Primitive) /\ Len(no) = Len(overflow) + (n - a)
      /\ \A k \in 1 .. Len(no) : no[k] = IF k <= Len(overflow) THEN overflow[k] ELSE p
  BY <1>1, <1>3, <1>4, CopiesAppended
<1>7. a > 0 => Len(overflow) = 0
  BY <1>1, <1>2
<1>8. Len(no) > 0 => Len(nf) >= FixedCapacity
  BY <1>1, <1>2, <1>5, <1>6
<1>9. ASSUME NEW k \in 1 .. Len(nf) PROVE nf[k] = IF k <= Filled THEN Slot(k) ELSE p
  BY <1>1, <1>2, <1>5, <1>7 DEF Filled, Slot
<1>10. ASSUME NEW k \in 1 .. Len(no)
       PROVE  no[k] = IF Len(nf) + k <= Filled THEN Slot(Len(nf) + k) ELSE p
  <2>1. CASE Len(overflow) = 0
    BY <1>1, <1>2, <1>5, <1>6, <2>1 DEF Filled
  <2>2. CASE Len(overflow) > 0
    <3>1. a = 0 /\ Len(nf) = Len(fixed)
      BY <1>1, <1>2, <1>5, <1>7, <2>2
    <3>2. Len(nf) + k <= Filled <=> k <= Len(overflow)
      BY <1>1, <3>1 DEF Filled
    <3>3. Slot(Len(nf) + k) = overflow[k]
      BY <1>1, <3>1 DEF Slot
    <3> QED
      BY <1>6, <3>2, <3>3
  <2> QED
    BY <1>1, <2>1, <2>2
<1>11. Len(nf) + Len(no) = Filled + n /\ Len(nf) >= Len(fixed)
  BY <1>1, <1>2, <1>5, <1>6 DEF Filled
<1>12. nf \in Seq(Layers!Primitive) /\ no \in Seq(Layers!Primitive)
  BY <1>5, <1>6
<1>13. Added(nf, no, n, p)
  BY <1>8, <1>9, <1>10, <1>11, <1>12 DEF Added
<1> QED
  BY <1>13 DEF nf, no

Restyled(e, layer) == [e EXCEPT !.mat = layer]

LEMMA PaintedEntries ==
  ASSUME NEW e \in Seq(Layers!Primitive), NEW array, NEW addresses, NEW layer \in Layers!Layers,
         NEW r, r = Layers!Painted(e, array, addresses, layer)
  PROVE  /\ r \in Seq(Layers!Primitive) /\ Len(r) = Len(e)
         /\ \A k \in 1 .. Len(e) :
              r[k] = IF Layers!Hit(addresses, array, k) THEN Restyled(e[k], layer) ELSE e[k]
<1>1. Len(e) \in Nat /\ DOMAIN e = 1 .. Len(e) /\ \A k \in 1 .. Len(e) : e[k] \in Layers!Primitive
  OBVIOUS
<1>2. r = [k \in 1 .. Len(e) |->
             IF Layers!Hit(addresses, array, k) THEN Restyled(e[k], layer) ELSE e[k]]
  BY <1>1 DEF Layers!Painted, Restyled
<1>3. \A k \in 1 .. Len(e) : Restyled(e[k], layer) \in Layers!Primitive
  BY <1>1 DEF Layers!Primitive, Restyled
<1>4. r \in [1 .. Len(e) -> Layers!Primitive]
  BY <1>1, <1>2, <1>3
<1> QED
  BY <1>1, <1>2, <1>4, AsSequence

LEMMA MarkedEntries ==
  ASSUME NEW e \in Seq(Layers!Primitive), NEW array, NEW addresses,
         NEW r, r = Layers!Marked(e, array, addresses)
  PROVE  /\ r \in Seq(Layers!Primitive) /\ Len(r) = Len(e)
         /\ \A k \in 1 .. Len(e) :
              r[k] = IF Layers!Hit(addresses, array, k) THEN [e[k] EXCEPT !.last = TRUE] ELSE e[k]
<1>1. Len(e) \in Nat /\ DOMAIN e = 1 .. Len(e) /\ \A k \in 1 .. Len(e) : e[k] \in Layers!Primitive
  OBVIOUS
<1>2. r = [k \in 1 .. Len(e) |->
             IF Layers!Hit(addresses, array, k) THEN [e[k] EXCEPT !.last = TRUE] ELSE e[k]]
  BY <1>1 DEF Layers!Marked
<1>3. \A k \in 1 .. Len(e) : [e[k] EXCEPT !.last = TRUE] \in Layers!Primitive
  BY <1>1 DEF Layers!Primitive
<1>4. r \in [1 .. Len(e) -> Layers!Primitive]
  BY <1>1, <1>2, <1>3
<1> QED
  BY <1>1, <1>2, <1>4, AsSequence

\* An entry that a call added, with its layer in place if nothing has failed.
Fresh(e, object, layer, failed) ==
  /\ e.object = object /\ e.layer = layer /\ e.last = FALSE
  /\ e.mat \in {"engine", layer}
  /\ ~failed /\ layer # "plain" => e.mat = layer

\* A call of the engine with its layer, on the buffer as one.
LEMMA GenerateSlots ==
  ASSUME LayersInv, NEW object \in Layers!Ghosts \cup {"own"}, NEW layer \in Layers!Layers,
         NEW n \in Nat, NEW loaded \in BOOLEAN, Layers!Generate(object, layer, n, loaded)
  PROVE  /\ fixed' \in Seq(Layers!Primitive) /\ overflow' \in Seq(Layers!Primitive)
         /\ Len(overflow') > 0 => Len(fixed') >= FixedCapacity
         /\ stray' = {}
         /\ spoiled' \in BOOLEAN /\ (~spoiled' => ~spoiled)
         /\ Filled \in Nat /\ Filled' \in Nat /\ Filled' >= Filled
         /\ \A k \in 1 .. Filled : Slot(k)' = Slot(k)
         /\ \A k \in 1 .. Filled' : k > Filled => Fresh(Slot(k)', object, layer, spoiled')
<1> DEFINE p == Layers!Made(object, layer)
           nf == Layers!FixedWith(n, p)
           no == Layers!OverflowWith(n, p)
<1>0. PICK before \in Layers!Reads(Len(fixed), Len(overflow)), after \in Layers!Reads(Len(nf), Len(no)) :
        \E addresses :
          /\ addresses = IF layer # "plain" /\ loaded /\ before >= 0 /\ before < after
                         THEN Layers!Addresses(before, after, Len(nf)) ELSE {}
          /\ IF layer = "overlay" /\ ~loaded
             THEN UNCHANGED <<fixed, overflow, stray>>
             ELSE /\ fixed' = Layers!Painted(nf, "fixed", addresses, layer)
                  /\ overflow' = Layers!Painted(no, "overflow", addresses, layer)
                  /\ stray' = stray \cup Layers!Outside(addresses, Len(nf), Len(no))
          /\ spoiled' = (spoiled \/ ~loaded \/ before = -1 \/ after = -1)
  BY Zenon DEF Layers!Generate
<1>1. PICK addresses :
        /\ addresses = IF layer # "plain" /\ loaded /\ before >= 0 /\ before < after
                       THEN Layers!Addresses(before, after, Len(nf)) ELSE {}
        /\ IF layer = "overlay" /\ ~loaded
           THEN UNCHANGED <<fixed, overflow, stray>>
           ELSE /\ fixed' = Layers!Painted(nf, "fixed", addresses, layer)
                /\ overflow' = Layers!Painted(no, "overflow", addresses, layer)
                /\ stray' = stray \cup Layers!Outside(addresses, Len(nf), Len(no))
        /\ spoiled' = (spoiled \/ ~loaded \/ before = -1 \/ after = -1)
  BY <1>0, Zenon
<1>2. /\ fixed \in Seq(Layers!Primitive) /\ overflow \in Seq(Layers!Primitive) /\ stray = {}
      /\ spoiled \in BOOLEAN /\ Len(fixed) \in Nat /\ Len(overflow) \in Nat /\ Filled \in Nat
      /\ (Len(overflow) > 0 => Len(fixed) >= FixedCapacity)
  BY DEF LayersInv, Filled
<1>3. spoiled' <=> spoiled \/ ~loaded \/ before = -1 \/ after = -1
  BY <1>1, Zenon
<1>4. spoiled' \in BOOLEAN
  BY <1>1, Zenon
<1>5. CASE layer = "overlay" /\ ~loaded
  <2>1. fixed' = fixed /\ overflow' = overflow /\ stray' = stray
    BY <1>1, <1>5
  <2>2. Filled' = Filled /\ \A k : Slot(k)' = Slot(k)
    BY <2>1 DEF Filled, Slot
  <2> QED
    BY <1>2, <1>3, <1>4, <2>1, <2>2
<1>6. CASE ~(layer = "overlay" /\ ~loaded)
  <2>1. p \in Layers!Primitive /\ p.object = object /\ p.layer = layer /\ p.last = FALSE
        /\ p.mat = "engine" /\ Restyled(p, layer).object = object
        /\ Restyled(p, layer).layer = layer /\ Restyled(p, layer).last = FALSE
        /\ Restyled(p, layer).mat = layer
    BY DEF Layers!Made, Layers!Primitive, Restyled
  <2> HIDE DEF p
  <2>2. Added(nf, no, n, p)
    BY <2>1, EngineAdds
  <2> HIDE DEF nf, no
  <2>3. /\ nf \in Seq(Layers!Primitive) /\ no \in Seq(Layers!Primitive)
        /\ Len(nf) \in Nat /\ Len(no) \in Nat /\ Len(nf) + Len(no) = Filled + n
        /\ (Len(no) > 0 => Len(nf) >= FixedCapacity)
    BY <2>2 DEF Added
  <2>4. /\ fixed' = Layers!Painted(nf, "fixed", addresses, layer)
        /\ overflow' = Layers!Painted(no, "overflow", addresses, layer)
        /\ stray' = stray \cup Layers!Outside(addresses, Len(nf), Len(no))
    BY <1>1, <1>6
  <2>5. /\ fixed' \in Seq(Layers!Primitive) /\ Len(fixed') = Len(nf)
        /\ \A k \in 1 .. Len(nf) : fixed'[k] = IF Layers!Hit(addresses, "fixed", k)
                                              THEN Restyled(nf[k], layer) ELSE nf[k]
    BY <2>3, <2>4, PaintedEntries
  <2>6. /\ overflow' \in Seq(Layers!Primitive) /\ Len(overflow') = Len(no)
        /\ \A k \in 1 .. Len(no) : overflow'[k] = IF Layers!Hit(addresses, "overflow", k)
                                                 THEN Restyled(no[k], layer) ELSE no[k]
    <3>1. overflow' = Layers!Painted(no, "overflow", addresses, layer)
      BY <2>4
    <3> QED
      BY <2>3, <3>1, PaintedEntries
  <2>7. Filled' = Filled + n
    BY <2>3, <2>5, <2>6 DEF Filled
  <2>8. before = -1 \/ before = Filled
    BY <1>2, CountsRight DEF Filled
  <2>9. after = -1 \/ after = Filled + n
    BY <2>3, CountsRight
  <2>10. CASE layer # "plain" /\ loaded /\ before >= 0 /\ before < after
    <3>1. before = Filled /\ after = Filled + n /\ addresses = Layers!Addresses(Filled, Filled + n, Len(nf))
      BY <1>1, <1>2, <2>8, <2>9, <2>10
    <3>2. /\ \A k \in 1 .. Len(nf) :
               Layers!Hit(addresses, "fixed", k) <=> k - 1 \in Filled .. Filled + n - 1
          /\ \A k \in Nat \ {0} :
               Layers!Hit(addresses, "overflow", k) <=> Len(nf) + k - 1 \in Filled .. Filled + n - 1
          /\ Layers!Outside(addresses, Len(nf), Len(no)) = {}
      <4>1. PICK to \in Int : to = Filled + n
        BY <1>2
      <4>2. addresses = Layers!Addresses(Filled, to, Len(nf)) /\ to <= Len(nf) + Len(no)
        BY <1>2, <2>3, <3>1, <4>1
      <4>3. /\ \A k \in 1 .. Len(nf) : Layers!Hit(addresses, "fixed", k) <=> k - 1 \in Filled .. to - 1
            /\ \A k \in Nat \ {0} :
                 Layers!Hit(addresses, "overflow", k) <=> Len(nf) + k - 1 \in Filled .. to - 1
            /\ Layers!Outside(addresses, Len(nf), Len(no)) = {}
        BY <1>2, <2>3, <4>2, Hits
      <4> QED
        BY <1>2, <4>1, <4>3
    <3>3. ASSUME NEW k \in 1 .. Filled + n
          PROVE  Slot(k)' = IF k <= Filled THEN Slot(k) ELSE Restyled(p, layer)
      <4>1. CASE k <= Len(nf)
        <5>1. k \in 1 .. Len(nf) /\ Slot(k)' = fixed'[k]
          BY <1>2, <2>3, <2>5, <4>1 DEF Slot
        <5>2. nf[k] = IF k <= Filled THEN Slot(k) ELSE p
          BY <2>2, <5>1 DEF Added
        <5>3. k - 1 \in Filled .. Filled + n - 1 <=> ~(k <= Filled)
          BY <1>2
        <5> QED
          BY <2>5, <3>2, <5>1, <5>2, <5>3
      <4>2. CASE ~(k <= Len(nf))
        <5>1. /\ k - Len(nf) \in 1 .. Len(no) /\ k - Len(nf) \in Nat \ {0}
              /\ Slot(k)' = overflow'[k - Len(nf)]
          BY <1>2, <2>3, <2>5, <4>2 DEF Slot
        <5>2. Len(nf) + (k - Len(nf)) = k
          BY <1>2, <2>3
        <5>3. no[k - Len(nf)] = IF k <= Filled THEN Slot(k) ELSE p
          BY <2>2, <5>1, <5>2 DEF Added
        <5>4. Len(nf) + (k - Len(nf)) - 1 \in Filled .. Filled + n - 1 <=> ~(k <= Filled)
          BY <1>2, <2>3
        <5> QED
          BY <2>6, <3>2, <5>1, <5>3, <5>4
      <4> QED
        BY <4>1, <4>2
    <3>4. stray' = {}
      BY <1>2, <2>4, <3>2
    <3>5. \A k \in 1 .. Filled : Slot(k)' = Slot(k)
      BY <1>2, <3>3
    <3>6. \A k \in 1 .. Filled' : k > Filled => Slot(k)' = Restyled(p, layer)
      BY <1>2, <2>7, <3>3
    <3>7. Filled' \in Nat /\ Filled' >= Filled
      BY <1>2, <2>7
    <3> QED
      BY <1>2, <1>3, <1>4, <2>1, <2>3, <2>5, <2>6, <3>4, <3>5, <3>6, <3>7 DEF Fresh
  <2>11. CASE ~(layer # "plain" /\ loaded /\ before >= 0 /\ before < after)
    <3>1. addresses = {}
      BY <1>1, <2>11
    <3>2. /\ Layers!Outside(addresses, Len(nf), Len(no)) = {}
          /\ \A k : ~Layers!Hit(addresses, "fixed", k) /\ ~Layers!Hit(addresses, "overflow", k)
      BY <3>1, NoHits
    <3>3. ASSUME NEW k \in 1 .. Filled + n
          PROVE  Slot(k)' = IF k <= Filled THEN Slot(k) ELSE p
      <4>1. CASE k <= Len(nf)
        <5>1. k \in 1 .. Len(nf) /\ Slot(k)' = fixed'[k]
          BY <1>2, <2>3, <2>5, <4>1 DEF Slot
        <5> QED
          BY <2>2, <2>5, <3>2, <5>1 DEF Added
      <4>2. CASE ~(k <= Len(nf))
        <5>1. k - Len(nf) \in 1 .. Len(no) /\ Slot(k)' = overflow'[k - Len(nf)]
          BY <1>2, <2>3, <2>5, <4>2 DEF Slot
        <5>2. Len(nf) + (k - Len(nf)) = k
          BY <1>2, <2>3
        <5> QED
          BY <2>2, <2>6, <3>2, <5>1, <5>2 DEF Added
      <4> QED
        BY <4>1, <4>2
    <3>4. ~spoiled' /\ layer # "plain" => n = 0
      BY <1>2, <1>3, <2>8, <2>9, <2>11
    <3>5. stray' = {}
      BY <1>2, <2>4, <3>2
    <3>6. \A k \in 1 .. Filled : Slot(k)' = Slot(k)
      BY <1>2, <3>3
    <3>7. \A k \in 1 .. Filled' : k > Filled =>
            Slot(k)' = p /\ ~(~spoiled' /\ layer # "plain")
      BY <1>2, <2>7, <3>3, <3>4
    <3>8. Filled' \in Nat /\ Filled' >= Filled
      BY <1>2, <2>7
    <3> QED
      BY <1>2, <1>3, <1>4, <2>1, <2>3, <2>5, <2>6, <3>5, <3>6, <3>7, <3>8 DEF Fresh
  <2> QED
    BY <2>10, <2>11
<1> QED
  BY <1>5, <1>6

\* The marking of a ghost.
LEMMA MarkSlots ==
  ASSUME LayersInv, NEW object, Layers!MarkGhost(object)
  PROVE  /\ fixed' \in Seq(Layers!Primitive) /\ overflow' \in Seq(Layers!Primitive)
         /\ Len(fixed') = Len(fixed) /\ Len(overflow') = Len(overflow)
         /\ stray' = {}
         /\ spoiled' \in BOOLEAN /\ (~spoiled' => ~spoiled)
         /\ \A k \in 1 .. Filled :
              /\ Slot(k)'.object = Slot(k).object /\ Slot(k)'.layer = Slot(k).layer
              /\ Slot(k)'.mat = Slot(k).mat
              /\ Slot(k).last => Slot(k)'.last
              /\ Slot(k)'.last => Slot(k).last \/ (since >= 0 /\ k > since)
              /\ ~spoiled' /\ since >= 0 /\ k > since => Slot(k)'.last
<1>0. PICK after \in Layers!Reads(Len(fixed), Len(overflow)) :
        \E addresses :
          /\ addresses = IF since >= 0 /\ since < after
                         THEN Layers!Addresses(since, after, Len(fixed)) ELSE {}
          /\ fixed' = Layers!Marked(fixed, "fixed", addresses)
          /\ overflow' = Layers!Marked(overflow, "overflow", addresses)
          /\ stray' = stray \cup Layers!Outside(addresses, Len(fixed), Len(overflow))
          /\ spoiled' = (spoiled \/ after = -1)
  BY Zenon DEF Layers!MarkGhost
<1>1. PICK addresses :
        /\ addresses = IF since >= 0 /\ since < after
                       THEN Layers!Addresses(since, after, Len(fixed)) ELSE {}
        /\ fixed' = Layers!Marked(fixed, "fixed", addresses)
        /\ overflow' = Layers!Marked(overflow, "overflow", addresses)
        /\ stray' = stray \cup Layers!Outside(addresses, Len(fixed), Len(overflow))
        /\ spoiled' = (spoiled \/ after = -1)
  BY <1>0, Zenon
<1>2. /\ fixed \in Seq(Layers!Primitive) /\ overflow \in Seq(Layers!Primitive) /\ stray = {}
      /\ spoiled \in BOOLEAN /\ Len(fixed) \in Nat /\ Len(overflow) \in Nat /\ Filled \in Nat
      /\ since \in Int
  BY DEF LayersInv, Filled
<1>3. (spoiled' <=> spoiled \/ after = -1) /\ spoiled' \in BOOLEAN
  BY <1>1, Zenon
<1>4. /\ fixed' \in Seq(Layers!Primitive) /\ Len(fixed') = Len(fixed)
      /\ \A k \in 1 .. Len(fixed) : fixed'[k] = IF Layers!Hit(addresses, "fixed", k)
                                               THEN [fixed[k] EXCEPT !.last = TRUE] ELSE fixed[k]
  BY <1>1, <1>2, MarkedEntries
<1>5. /\ overflow' \in Seq(Layers!Primitive) /\ Len(overflow') = Len(overflow)
      /\ \A k \in 1 .. Len(overflow) :
           overflow'[k] = IF Layers!Hit(addresses, "overflow", k)
                          THEN [overflow[k] EXCEPT !.last = TRUE] ELSE overflow[k]
  BY <1>1, <1>2, MarkedEntries
<1>6. after = -1 \/ after = Filled
  BY <1>2, CountsRight DEF Filled
<1>7. /\ Layers!Outside(addresses, Len(fixed), Len(overflow)) = {}
      /\ \A k \in 1 .. Len(fixed) :
           Layers!Hit(addresses, "fixed", k) <=> since >= 0 /\ after = Filled /\ k > since
      /\ \A k \in 1 .. Len(overflow) :
           Layers!Hit(addresses, "overflow", k) <=>
             since >= 0 /\ after = Filled /\ Len(fixed) + k > since
  <2>1. CASE since >= 0 /\ since < after
    <3>1. after = Filled /\ since \in Nat /\ addresses = Layers!Addresses(since, Filled, Len(fixed))
      BY <1>1, <1>2, <1>6, <2>1
    <3>2. /\ \A k \in 1 .. Len(fixed) :
               Layers!Hit(addresses, "fixed", k) <=> k - 1 \in since .. Filled - 1
          /\ \A k \in Nat \ {0} :
               Layers!Hit(addresses, "overflow", k) <=> Len(fixed) + k - 1 \in since .. Filled - 1
          /\ Layers!Outside(addresses, Len(fixed), Len(overflow)) = {}
      <4>1. Filled \in Int /\ Filled <= Len(fixed) + Len(overflow)
        BY <1>2 DEF Filled
      <4> QED
        BY <1>2, <3>1, <4>1, Hits
    <3>3. \A k \in 1 .. Len(fixed) : k - 1 \in since .. Filled - 1 <=> k > since
      BY <1>2, <3>1 DEF Filled
    <3>4. \A k \in 1 .. Len(overflow) :
            k \in Nat \ {0} /\ (Len(fixed) + k - 1 \in since .. Filled - 1 <=> Len(fixed) + k > since)
      BY <1>2, <3>1 DEF Filled
    <3> QED
      BY <2>1, <3>1, <3>2, <3>3, <3>4
  <2>2. CASE ~(since >= 0 /\ since < after)
    <3>1. addresses = {}
      BY <1>1, <2>2
    <3>2. \A k \in 1 .. Len(fixed) : ~(since >= 0 /\ after = Filled /\ k > since)
      BY <1>2, <2>2 DEF Filled
    <3>3. \A k \in 1 .. Len(overflow) : ~(since >= 0 /\ after = Filled /\ Len(fixed) + k > since)
      BY <1>2, <2>2 DEF Filled
    <3> QED
      BY <3>1, <3>2, <3>3, NoHits
  <2> QED
    BY <2>1, <2>2
<1>8. ASSUME NEW k \in 1 .. Filled
      PROVE  /\ Slot(k) \in Layers!Primitive
             /\ Slot(k)' = IF since >= 0 /\ after = Filled /\ k > since
                           THEN [Slot(k) EXCEPT !.last = TRUE] ELSE Slot(k)
  <2>1. CASE k <= Len(fixed)
    <3>1. k \in 1 .. Len(fixed) /\ Slot(k) = fixed[k] /\ Slot(k)' = fixed'[k]
      BY <1>2, <1>4, <2>1 DEF Slot
    <3> QED
      BY <1>2, <1>4, <1>7, <3>1
  <2>2. CASE ~(k <= Len(fixed))
    <3>1. /\ k - Len(fixed) \in 1 .. Len(overflow) /\ Slot(k) = overflow[k - Len(fixed)]
          /\ Slot(k)' = overflow'[k - Len(fixed)]
          /\ Len(fixed) + (k - Len(fixed)) = k
      BY <1>2, <1>4, <2>2 DEF Slot, Filled
    <3>2. Layers!Hit(addresses, "overflow", k - Len(fixed)) <=> since >= 0 /\ after = Filled /\ k > since
      BY <1>7, <3>1
    <3>3. overflow[k - Len(fixed)] \in Layers!Primitive
      BY <1>2, <3>1
    <3> QED
      BY <1>5, <3>1, <3>2, <3>3
  <2> QED
    BY <2>1, <2>2
<1>9. Filled # -1
  BY <1>2
<1> QED
  BY <1>1, <1>2, <1>3, <1>4, <1>5, <1>6, <1>7, <1>8, <1>9 DEF Layers!Primitive

LEMMA GenerateKeeps ==
  ASSUME LayersInv, NEW object \in Layers!Ghosts \cup {"own"}, NEW layer \in Layers!Layers,
         NEW n \in Nat, NEW loaded \in BOOLEAN, Layers!Generate(object, layer, n, loaded)
  PROVE  LayersInv'
<1>1. /\ fixed' \in Seq(Layers!Primitive) /\ overflow' \in Seq(Layers!Primitive)
      /\ (Len(overflow') > 0 => Len(fixed') >= FixedCapacity)
      /\ stray' = {}
      /\ spoiled' \in BOOLEAN /\ (~spoiled' => ~spoiled)
      /\ Filled \in Nat /\ Filled' \in Nat /\ Filled' >= Filled
  BY GenerateSlots
<1>2. \A k \in 1 .. Filled : Slot(k)' = Slot(k)
  BY GenerateSlots
<1>3. \A k \in 1 .. Filled' : k > Filled =>
        /\ Slot(k)'.object = object /\ Slot(k)'.layer = layer /\ Slot(k)'.last = FALSE
        /\ Slot(k)'.mat \in {"engine", layer}
        /\ ~spoiled' /\ layer # "plain" => Slot(k)'.mat = layer
  <2>1. \A k \in 1 .. Filled' : k > Filled => Fresh(Slot(k)', object, layer, spoiled')
    BY GenerateSlots
  <2> QED
    BY <2>1 DEF Fresh
<1>4. todo # <<>> /\ Head(todo) = Layers!Step(object, layer) /\ todo' = Tail(todo) /\ since' = since
  BY DEF Layers!Generate, Layers!Todo
<1>5. /\ TodoOk(todo) /\ Len(todo) >= 1 /\ todo[1].object = object /\ todo[1].layer = layer
      /\ TodoOk(todo')
      /\ object = "own" => ~Amid(todo) /\ ~Amid(todo')
      /\ object # "own" => Amid(todo) /\ Amid(todo') /\ todo'[1].object = object
  <2>1. TodoOk(todo)
    BY DEF LayersInv
  <2>2. layer # "count" /\ layer # "mark"
    BY DEF Layers!Layers
  <2>3. todo[1].object = object /\ todo[1].layer = layer /\ Len(todo) >= 1
    BY <1>4, <2>1, TodoAdvances DEF Layers!Step
  <2>4. Amid(todo) <=> object # "own"
    BY <2>1, <2>2, <2>3 DEF Amid, TodoOk
  <2> QED
    BY <1>4, <2>1, <2>2, <2>3, <2>4, TodoAdvances
<1>6. \A k \in 1 .. Filled' : k \in 1 .. Filled \/ k > Filled
  BY <1>1
<1>7. \A k \in 1 .. Filled' :
        /\ Slot(k)'.mat \in {"engine", Slot(k)'.layer}
        /\ ~spoiled' /\ Slot(k)'.layer # "plain" => Slot(k)'.mat = Slot(k)'.layer
        /\ Slot(k)'.last => Slot(k)'.object \in Layers!Ghosts
  BY <1>1, <1>2, <1>3, <1>6 DEF LayersInv
<1>8. CASE object = "own"
  <2>1. ~spoiled' => \A k \in 1 .. Filled' : Slot(k)'.object \in Layers!Ghosts => Slot(k)'.last
    <3>1. object \notin Layers!Ghosts
      BY <1>8 DEF Layers!Ghosts
    <3> QED
      BY <1>1, <1>2, <1>3, <1>5, <1>6, <1>8, <3>1 DEF LayersInv
  <2> QED
    BY <1>1, <1>4, <1>5, <1>7, <1>8, <2>1 DEF LayersInv
<1>9. CASE object # "own"
  <2>1. /\ since <= Filled
        /\ since >= 0 => \A k \in 1 .. Filled : k > since => Slot(k).object = object
        /\ ~spoiled => since >= 0
        /\ ~spoiled => \A k \in 1 .. Filled :
                         Slot(k).object \in Layers!Ghosts /\ ~Slot(k).last => k > since
    BY <1>5, <1>9 DEF LayersInv
  <2>2. since \in Int
    BY DEF LayersInv
  <2>3. since <= Filled'
    BY <1>1, <2>1, <2>2
  <2>4. since >= 0 => \A k \in 1 .. Filled' : k > since => Slot(k)'.object = object
    BY <1>2, <1>3, <1>6, <2>1
  <2>5. ~spoiled' => \A k \in 1 .. Filled' :
                       Slot(k)'.object \in Layers!Ghosts /\ ~Slot(k)'.last => k > since
    <3>1. \A k \in 1 .. Filled' : k > Filled => k > since
      BY <1>1, <2>1, <2>2
    <3> QED
      BY <1>1, <1>2, <1>6, <2>1, <3>1
  <2> QED
    BY <1>1, <1>4, <1>5, <1>7, <1>9, <2>1, <2>2, <2>3, <2>4, <2>5 DEF LayersInv
<1> QED
  BY <1>8, <1>9

LEMMA CountKeeps ==
  ASSUME LayersInv, NEW object \in Layers!Ghosts, Layers!CountGhost(object)
  PROVE  LayersInv'
<1>1. /\ todo # <<>> /\ Head(todo) = Layers!Step(object, "count") /\ todo' = Tail(todo)
      /\ UNCHANGED <<fixed, overflow, stray>>
      /\ since' \in Layers!Reads(Len(fixed), Len(overflow))
      /\ spoiled' = (spoiled \/ since' = -1)
  BY DEF Layers!CountGhost, Layers!Todo
<1>2. (spoiled' <=> spoiled \/ since' = -1) /\ spoiled' \in BOOLEAN
  BY <1>1, Zenon
<1>3. /\ Len(fixed) \in Nat /\ Len(overflow) \in Nat /\ Filled \in Nat
      /\ TodoOk(todo)
  BY DEF LayersInv, Filled
<1>4. since' = -1 \/ since' = Filled
  BY <1>1, <1>3, CountsRight DEF Filled
<1>5. Filled' = Filled /\ \A k : Slot(k)' = Slot(k)
  BY <1>1 DEF Filled, Slot
<1>6. todo[1].object = object /\ todo[1].layer = "count" /\ object # "own"
  BY <1>1, <1>3, TodoAdvances DEF Layers!Step, Layers!Ghosts
<1>7. TodoOk(todo') /\ ~Amid(todo) /\ Amid(todo')
  <2>1. ~Amid(todo)
    BY <1>6 DEF Amid
  <2> QED
    BY <1>1, <1>3, <1>6, <2>1, TodoAdvances
<1>8. \A k \in 1 .. Filled : ~(k > Filled)
  BY <1>3
<1>9. since' \in Int /\ since' <= Filled /\ (since' >= 0 => since' = Filled)
      /\ (~spoiled' => since' >= 0)
  BY <1>2, <1>3, <1>4
<1>10. ~spoiled' => \A k \in 1 .. Filled : Slot(k).object \in Layers!Ghosts => Slot(k).last
  BY <1>2, <1>7 DEF LayersInv
<1> QED
  BY <1>1, <1>2, <1>5, <1>7, <1>8, <1>9, <1>10 DEF LayersInv

LEMMA MarkKeeps ==
  ASSUME LayersInv, NEW object \in Layers!Ghosts, Layers!MarkGhost(object)
  PROVE  LayersInv'
<1>1. /\ todo # <<>> /\ Head(todo) = Layers!Step(object, "mark") /\ todo' = Tail(todo)
      /\ since' = since
  BY DEF Layers!MarkGhost, Layers!Todo
<1>2. /\ fixed' \in Seq(Layers!Primitive) /\ overflow' \in Seq(Layers!Primitive)
      /\ Len(fixed') = Len(fixed) /\ Len(overflow') = Len(overflow)
      /\ stray' = {}
      /\ spoiled' \in BOOLEAN /\ (~spoiled' => ~spoiled)
  BY MarkSlots
<1>3. \A k \in 1 .. Filled :
        /\ Slot(k)'.object = Slot(k).object /\ Slot(k)'.layer = Slot(k).layer
        /\ Slot(k)'.mat = Slot(k).mat
        /\ Slot(k).last => Slot(k)'.last
        /\ Slot(k)'.last => Slot(k).last \/ (since >= 0 /\ k > since)
        /\ ~spoiled' /\ since >= 0 /\ k > since => Slot(k)'.last
  BY MarkSlots
<1>4. Filled' = Filled
  BY <1>2 DEF Filled
<1>5. todo[1].object = object /\ todo[1].layer = "mark" /\ object # "own" /\ Len(todo) >= 1
      /\ TodoOk(todo)
  BY <1>1, TodoAdvances DEF LayersInv, Layers!Step, Layers!Ghosts
<1>6. TodoOk(todo') /\ Amid(todo) /\ ~Amid(todo')
  <2>1. Amid(todo)
    BY <1>5 DEF Amid, TodoOk
  <2> QED
    BY <1>1, <1>5, <2>1, TodoAdvances
<1>7. \A k \in 1 .. Filled :
        /\ Slot(k)'.mat \in {"engine", Slot(k)'.layer}
        /\ ~spoiled' /\ Slot(k)'.layer # "plain" => Slot(k)'.mat = Slot(k)'.layer
        /\ Slot(k)'.last => Slot(k)'.object \in Layers!Ghosts
  BY <1>2, <1>3, <1>5, <1>6 DEF LayersInv
<1>8. ~spoiled' => \A k \in 1 .. Filled : Slot(k)'.object \in Layers!Ghosts => Slot(k)'.last
  BY <1>2, <1>3, <1>6 DEF LayersInv
<1> QED
  BY <1>1, <1>2, <1>4, <1>6, <1>7, <1>8 DEF LayersInv

-----------------------------------------------------------------------------
\* What the handler has to do, at the start.  The calls of one object:
LEMMA MaybeOne ==
  ASSUME NEW S, NEW e \in S, NEW b
  PROVE  Layers!When(b, <<e>>) \in Seq(S)
<1>1. <<e>> \in Seq(S) /\ <<>> \in Seq(S)
  OBVIOUS
<1> QED
  BY <1>1 DEF Layers!When

LEMMA AppliedCalls ==
  ASSUME NEW cfg, NEW object, NEW force,
         NEW S, S = [object : {object}, layer : Layers!Layers]
  PROVE  Layers!Applied(cfg, object, force) \in Seq(S)
<1>1. ASSUME NEW b, NEW layer \in Layers!Layers
      PROVE  Layers!When(b, <<Layers!Step(object, layer)>>) \in Seq(S)
  <2>1. Layers!Step(object, layer) \in S
    BY DEF Layers!Step
  <2> QED
    BY <2>1, MaybeOne
<1>2. \A q, r \in Seq(S) : q \o r \in Seq(S)
  OBVIOUS
<1> DEFINE q1 == Layers!When(cfg.secondary, <<Layers!Step(object, "secondary")>>)
           q2 == Layers!When(cfg.primary, <<Layers!Step(object, "primary")>>)
           q3 == Layers!When(~cfg.primary /\ ~cfg.secondary /\ (cfg.overlay \/ force),
                             <<Layers!Step(object, "plain")>>)
           q4 == Layers!When(cfg.overlay, <<Layers!Step(object, "overlay")>>)
<1>3. {"secondary", "primary", "plain", "overlay"} \subseteq Layers!Layers
  BY DEF Layers!Layers
<1>4. q1 \in Seq(S) /\ q2 \in Seq(S) /\ q3 \in Seq(S) /\ q4 \in Seq(S)
  BY <1>1, <1>3
<1>5. Layers!Applied(cfg, object, force) = q1 \o q2 \o q3 \o q4
  BY DEF Layers!Applied
<1> HIDE DEF q1, q2, q3, q4
<1>6. q1 \o q2 \in Seq(S)
  BY <1>2, <1>4
<1>7. (q1 \o q2) \o q3 \in Seq(S)
  BY <1>2, <1>4, <1>6
<1>8. ((q1 \o q2) \o q3) \o q4 \in Seq(S)
  BY <1>2, <1>4, <1>7
<1> QED
  BY <1>5, <1>8

\* Calls for the object itself.
Own(q) == q \in Seq([object : {"own"}, layer : Layers!Layers])

LEMMA OwnCalls ==
  ASSUME NEW drawn, NEW cfg, NEW translucent
  PROVE  Own(Layers!Player(drawn, cfg, translucent)) /\ Own(Layers!ViewModel(drawn, cfg))
<1> DEFINE S == [object : {"own"}, layer : Layers!Layers]
<1>1. {"plain", "clone", "overlay"} \subseteq Layers!Layers
  BY DEF Layers!Layers
<1>2. Layers!Applied(cfg, "own", FALSE) \in Seq(S)
  BY AppliedCalls
<1>3. /\ Layers!Step("own", "plain") \in S /\ Layers!Step("own", "clone") \in S
      /\ Layers!Step("own", "overlay") \in S
  BY <1>1 DEF Layers!Step
<1> HIDE DEF S
<1>4. /\ <<Layers!Step("own", "plain")>> \in Seq(S) /\ <<Layers!Step("own", "clone")>> \in Seq(S)
      /\ Layers!When(cfg.overlay, <<Layers!Step("own", "overlay")>>) \in Seq(S)
  BY <1>3, MaybeOne
<1>5. <<Layers!Step("own", "clone")>> \o Layers!When(cfg.overlay, <<Layers!Step("own", "overlay")>>)
        \in Seq(S)
  BY <1>4
<1> QED
  BY <1>2, <1>4, <1>5 DEF Own, Layers!Player, Layers!ViewModel, S

\* Calls for ghosts, one after the other: they end with a mark and begin with a
\* count.
Whole(q) ==
  /\ TodoOk(q)
  /\ \A k \in 1 .. Len(q) : q[k].object # "own"
  /\ Len(q) > 0 => q[1].layer = "count" /\ q[Len(q)].layer = "mark"

LEMMA GhostCalls ==
  ASSUME NEW on, NEW cfg, NEW object \in Layers!Ghosts
  PROVE  Whole(Layers!Ghost(on, cfg, object))
<1> DEFINE S == [object : {object}, layer : Layers!Layers]
           A == Layers!Applied(cfg, object, TRUE)
           q == <<Layers!Step(object, "count")>> \o A \o <<Layers!Step(object, "mark")>>
           T == [object : Layers!Ghosts \cup {"own"}, layer : Layers!Layers \cup {"count", "mark"}]
<1>1. A \in Seq(S)
  BY AppliedCalls
<1> HIDE DEF A
<1>2. Len(A) \in Nat /\ \A k \in 1 .. Len(A) : A[k] \in S
  <2> HIDE DEF S
  <2> QED
    BY <1>1
<1>3. Layers!Step(object, "count") \in T /\ Layers!Step(object, "mark") \in T
  BY DEF Layers!Step
<1>4. A \in Seq(T)
  <2>1. S \subseteq T
    OBVIOUS
  <2> HIDE DEF S, T
  <2> QED
    BY <1>1, <2>1
<1>5. q \in Seq(T) /\ Len(q) = Len(A) + 2
  <2> HIDE DEF T
  <2> QED
    BY <1>3, <1>4
<1>6. /\ q[1] = Layers!Step(object, "count")
      /\ q[Len(A) + 2] = Layers!Step(object, "mark")
      /\ \A k \in 1 .. Len(A) : q[k + 1] = A[k]
  <2> HIDE DEF S, T
  <2> QED
    BY <1>2, <1>3, <1>4
<1> HIDE DEF q
<1>7. ASSUME NEW k \in 1 .. Len(q)
      PROVE  /\ q[k].object = object
             /\ k = 1 <=> q[k].layer = "count"
             /\ k = Len(q) <=> q[k].layer = "mark"
  <2>1. CASE k = 1
    BY <1>2, <1>5, <1>6, <2>1 DEF Layers!Step
  <2>2. CASE k = Len(A) + 2
    BY <1>2, <1>5, <1>6, <2>2 DEF Layers!Step
  <2>3. CASE k \in 2 .. Len(A) + 1
    <3>1. k - 1 \in 1 .. Len(A) /\ (k - 1) + 1 = k
      BY <1>2, <2>3
    <3>2. q[k] \in S
      BY <1>2, <1>6, <3>1
    <3> QED
      BY <1>2, <1>5, <2>3, <3>2 DEF Layers!Layers
  <2> QED
    BY <1>2, <1>5, <2>1, <2>2, <2>3
<1>8. object # "own"
  BY DEF Layers!Ghosts
<1>9. \A k \in 1 .. Len(q) : k # Len(q) => k + 1 \in 1 .. Len(q) /\ k + 1 # 1 /\ k < Len(q)
  BY <1>2, <1>5
<1>10. TodoOk(q)
  BY <1>2, <1>5, <1>7, <1>8, <1>9 DEF TodoOk
<1>11. Whole(q)
  BY <1>2, <1>5, <1>7, <1>8, <1>10 DEF Whole
<1>12. Whole(<<>>)
  BY DEF Whole, TodoOk
<1> QED
  BY <1>11, <1>12 DEF Layers!Ghost, Layers!When, q, A

LEMMA OwnOk ==
  ASSUME NEW q, Own(q)
  PROVE  /\ TodoOk(q) /\ ~Amid(q)
         /\ \A k \in 1 .. Len(q) : q[k].object = "own"
<1>1. Len(q) \in Nat /\ \A k \in 1 .. Len(q) : q[k].object = "own" /\ q[k].layer \in Layers!Layers
  <2> DEFINE S == [object : {"own"}, layer : Layers!Layers]
  <2>1. q \in Seq(S)
    BY DEF Own
  <2> HIDE DEF S
  <2>2. Len(q) \in Nat /\ \A k \in 1 .. Len(q) : q[k] \in S
    BY <2>1
  <2> QED
    BY <2>2 DEF S
<1>2. q \in Seq([object : Layers!Ghosts \cup {"own"}, layer : Layers!Layers \cup {"count", "mark"}])
  <2> DEFINE S == [object : {"own"}, layer : Layers!Layers]
             T == [object : Layers!Ghosts \cup {"own"}, layer : Layers!Layers \cup {"count", "mark"}]
  <2>1. S \subseteq T /\ q \in Seq(S)
    BY DEF Own
  <2> HIDE DEF S, T
  <2>2. q \in Seq(T)
    BY <2>1
  <2> QED
    BY <2>2 DEF T
<1>3. \A k \in 1 .. Len(q) : k < Len(q) => k + 1 \in 1 .. Len(q)
  BY <1>1
<1> QED
  BY <1>1, <1>2, <1>3 DEF TodoOk, Amid

\* Ghosts go before other ghosts and before the object.
LEMMA GhostsThen ==
  ASSUME NEW q, Whole(q), NEW r, TodoOk(r), ~Amid(r), NEW s, s = q \o r
  PROVE  TodoOk(s) /\ ~Amid(s)
<1> DEFINE T == [object : Layers!Ghosts \cup {"own"}, layer : Layers!Layers \cup {"count", "mark"}]
<1>1. q \in Seq(T) /\ r \in Seq(T)
  BY DEF Whole, TodoOk
<1> HIDE DEF T
<1>2. /\ Len(q) \in Nat /\ Len(r) \in Nat /\ s \in Seq(T) /\ Len(s) = Len(q) + Len(r)
      /\ \A k \in 1 .. Len(s) : s[k] = IF k <= Len(q) THEN q[k] ELSE r[k - Len(q)]
  BY <1>1
<1>3. ASSUME NEW k \in 1 .. Len(s)
      PROVE  /\ s[k].object = "own" =>
                  s[k].layer \in Layers!Layers /\ (k < Len(s) => s[k + 1].object = "own")
             /\ s[k].object # "own" /\ s[k].layer = "mark" /\ k < Len(s) =>
                  s[k + 1].layer = "count" \/ s[k + 1].object = "own"
             /\ s[k].object # "own" /\ s[k].layer # "mark" =>
                  k < Len(s) /\ s[k + 1].object = s[k].object /\ s[k + 1].layer # "count"
  <2>1. CASE k < Len(q)
    <3>1. k \in 1 .. Len(q) /\ s[k] = q[k] /\ s[k + 1] = q[k + 1]
      BY <1>2, <2>1
    <3>2. k < Len(s)
      BY <1>2, <2>1
    <3> QED
      BY <2>1, <3>1, <3>2 DEF Whole, TodoOk
  <2>2. CASE k = Len(q)
    <3>1. k \in 1 .. Len(q) /\ s[k] = q[k] /\ Len(q) > 0
      BY <1>2, <2>2
    <3>2. s[k].object # "own" /\ s[k].layer = "mark"
      BY <2>2, <3>1 DEF Whole
    <3>3. k < Len(s) => Len(r) > 0 /\ s[k + 1] = r[1]
      <4>1. k < Len(s) => k + 1 \in 1 .. Len(s) /\ ~(k + 1 <= Len(q)) /\ (k + 1) - Len(q) = 1
                          /\ Len(r) > 0
        BY <1>2, <2>2
      <4> QED
        BY <1>2, <4>1
    <3> QED
      BY <3>2, <3>3 DEF Amid
  <2>3. CASE k > Len(q)
    <3>1. k - Len(q) \in 1 .. Len(r) /\ s[k] = r[k - Len(q)]
          /\ (k < Len(s) <=> k - Len(q) < Len(r))
      BY <1>2, <2>3
    <3>2. k < Len(s) => s[k + 1] = r[(k - Len(q)) + 1]
      <4>1. k < Len(s) => k + 1 \in 1 .. Len(s) /\ ~(k + 1 <= Len(q))
                          /\ (k + 1) - Len(q) = (k - Len(q)) + 1
        BY <1>2, <2>3
      <4> QED
        BY <1>2, <4>1
    <3> QED
      BY <3>1, <3>2 DEF TodoOk
  <2> QED
    BY <1>2, <2>1, <2>2, <2>3
<1>4. TodoOk(s)
  BY <1>2, <1>3 DEF TodoOk, T
<1>5. ~Amid(s)
  <2>1. CASE Len(q) > 0
    <3>1. s[1] = q[1]
      BY <1>2, <2>1
    <3> QED
      BY <2>1, <3>1 DEF Whole, Amid
  <2>2. CASE Len(q) = 0
    <3>1. Len(s) > 0 => 1 \in 1 .. Len(s) /\ ~(1 <= Len(q)) /\ 1 - Len(q) = 1
      BY <1>2, <2>2
    <3>2. Len(s) = Len(r) /\ (Len(s) > 0 => s[1] = r[1])
      BY <1>2, <2>2, <3>1
    <3> QED
      BY <3>2 DEF Amid
  <2> QED
    BY <1>2, <2>1, <2>2
<1> QED
  BY <1>4, <1>5

LEMMA TwoGhosts ==
  ASSUME NEW q, Whole(q), NEW r, Whole(r)
  PROVE  Whole(q \o r)
<1> DEFINE s == q \o r
           T == [object : Layers!Ghosts \cup {"own"}, layer : Layers!Layers \cup {"count", "mark"}]
<1>1. q \in Seq(T) /\ r \in Seq(T) /\ TodoOk(r) /\ ~Amid(r)
  BY DEF Whole, TodoOk, Amid
<1>2. TodoOk(s)
  BY <1>1, GhostsThen
<1> HIDE DEF T
<1>3. /\ Len(q) \in Nat /\ Len(r) \in Nat /\ Len(s) = Len(q) + Len(r)
      /\ \A k \in 1 .. Len(s) : s[k] = IF k <= Len(q) THEN q[k] ELSE r[k - Len(q)]
  BY <1>1
<1> HIDE DEF s
<1>4. \A k \in 1 .. Len(s) : k \in 1 .. Len(q) \/ (~(k <= Len(q)) /\ k - Len(q) \in 1 .. Len(r))
  BY <1>3
<1>5. \A k \in 1 .. Len(s) : s[k].object # "own"
  BY <1>3, <1>4 DEF Whole
<1>6. Len(s) > 0 => s[1].layer = "count"
  <2>1. CASE Len(q) > 0
    BY <1>3, <2>1 DEF Whole
  <2>2. CASE Len(q) = 0 /\ Len(r) > 0
    <3>1. 1 \in 1 .. Len(s) /\ ~(1 <= Len(q)) /\ 1 - Len(q) = 1
      BY <1>3, <2>2
    <3> QED
      BY <1>3, <2>2, <3>1 DEF Whole
  <2> QED
    BY <1>3, <2>1, <2>2
<1>7. Len(s) > 0 => s[Len(s)].layer = "mark"
  <2>1. CASE Len(r) > 0
    <3>1. Len(s) \in 1 .. Len(s) /\ ~(Len(s) <= Len(q)) /\ Len(s) - Len(q) = Len(r)
      BY <1>3, <2>1
    <3> QED
      BY <1>3, <2>1, <3>1 DEF Whole
  <2>2. CASE Len(r) = 0 /\ Len(q) > 0
    BY <1>3, <2>2 DEF Whole
  <2> QED
    BY <1>3, <2>1, <2>2
<1> QED
  BY <1>2, <1>5, <1>6, <1>7 DEF Whole, s

\* Every list of calls that the handler begins with is of that form.
LEMMA TodoStarts ==
  ASSUME Layers!Init
  PROVE  TodoOk(todo) /\ ~Amid(todo)
<1>1. PICK cfg \in Layers!Config, drawn \in BOOLEAN :
        \/ todo = Layers!ViewModel(drawn, cfg)
        \/ \E translucent, backtrack, onshot \in BOOLEAN, ghostCfg \in Layers!Config :
             todo = Layers!Ghost(backtrack, ghostCfg, "backtrack")
                    \o Layers!Ghost(onshot, ghostCfg, "onshot")
                    \o Layers!Player(drawn, cfg, translucent)
  BY DEF Layers!Init
<1>2. CASE todo = Layers!ViewModel(drawn, cfg)
  BY <1>2, OwnCalls, OwnOk
<1>3. ASSUME NEW translucent, NEW backtrack, NEW onshot, NEW ghostCfg,
             todo = Layers!Ghost(backtrack, ghostCfg, "backtrack")
                    \o Layers!Ghost(onshot, ghostCfg, "onshot")
                    \o Layers!Player(drawn, cfg, translucent)
      PROVE  TodoOk(todo) /\ ~Amid(todo)
  <2>1. Whole(Layers!Ghost(backtrack, ghostCfg, "backtrack"))
        /\ Whole(Layers!Ghost(onshot, ghostCfg, "onshot"))
    BY GhostCalls DEF Layers!Ghosts
  <2>2. Whole(Layers!Ghost(backtrack, ghostCfg, "backtrack") \o Layers!Ghost(onshot, ghostCfg, "onshot"))
    BY <2>1, TwoGhosts
  <2>3. TodoOk(Layers!Player(drawn, cfg, translucent))
        /\ ~Amid(Layers!Player(drawn, cfg, translucent))
    BY OwnCalls, OwnOk
  <2> QED
    BY <1>3, <2>2, <2>3, GhostsThen
<1> QED
  BY <1>1, <1>2, <1>3

\* The buffer holds the engine's own entries at most.
LEMMA BufferStarts ==
  ASSUME Layers!Init \/ LayersIdle
  PROVE  /\ fixed \in Seq(Layers!Primitive) /\ overflow \in Seq(Layers!Primitive)
         /\ Len(overflow) > 0 => Len(fixed) >= FixedCapacity
         /\ \A k \in 1 .. Filled : Slot(k) = Layers!Made("other", "plain")
<1> DEFINE p == Layers!Made("other", "plain")
<1>1. p \in Layers!Primitive
  BY DEF Layers!Made, Layers!Primitive, Layers!Layers
<1> HIDE DEF p
<1>2. PICK n \in Nat, m \in Nat : /\ fixed = [k \in 1 .. n |-> p] /\ overflow = [k \in 1 .. m |-> p]
                                  /\ m > 0 => n >= FixedCapacity
  <2>1. CASE LayersIdle
    <3>1. fixed = [k \in 1 .. 0 |-> p] /\ overflow = [k \in 1 .. 0 |-> p]
      BY <2>1 DEF LayersIdle
    <3> QED
      BY <3>1
  <2>2. CASE Layers!Init
    <3>1. PICK n \in Old :
            /\ fixed = [k \in 1 .. Layers!Least(n, FixedCapacity) |-> p]
            /\ overflow = [k \in 1 .. n - Layers!Least(n, FixedCapacity) |-> p]
      BY <2>2 DEF Layers!Init, Layers!Copies, p
    <3>2. n \in Nat /\ FixedCapacity \in Nat
      BY LayersAssumption DEF Layers!SizeAssumption
    <3>3. /\ Layers!Least(n, FixedCapacity) \in Nat /\ n - Layers!Least(n, FixedCapacity) \in Nat
          /\ n - Layers!Least(n, FixedCapacity) > 0 => Layers!Least(n, FixedCapacity) >= FixedCapacity
      BY <3>2 DEF Layers!Least
    <3> QED
      BY <3>1, <3>3
  <2> QED
    BY <2>1, <2>2
<1>3. fixed \in [1 .. n -> Layers!Primitive] /\ overflow \in [1 .. m -> Layers!Primitive]
  BY <1>1, <1>2
<1>4. /\ fixed \in Seq(Layers!Primitive) /\ Len(fixed) = n
      /\ overflow \in Seq(Layers!Primitive) /\ Len(overflow) = m
  BY <1>3, AsSequence
<1>5. ASSUME NEW k \in 1 .. Filled PROVE Slot(k) = p
  <2>1. k <= n => k \in 1 .. n
    BY <1>4 DEF Filled
  <2>2. ~(k <= n) => k - n \in 1 .. m
    BY <1>4 DEF Filled
  <2> QED
    BY <1>2, <1>4, <2>1, <2>2 DEF Slot
<1> QED
  BY <1>2, <1>4, <1>5 DEF p

LEMMA LayersInvariant == Spec => []LayersInv
<1>1. Init => LayersInv
  <2> SUFFICES ASSUME Init PROVE LayersInv
    OBVIOUS
  <2>1. Layers!Init \/ LayersIdle
    BY DEF Init
  <2>2. stray = {} /\ since = -1 /\ spoiled = FALSE
    BY <2>1 DEF Layers!Init, LayersIdle
  <2>3. TodoOk(todo) /\ ~Amid(todo)
    <3>1. CASE LayersIdle
      BY <3>1 DEF LayersIdle, TodoOk, Amid
    <3> QED
      BY <2>1, <3>1, TodoStarts
  <2>4. /\ fixed \in Seq(Layers!Primitive) /\ overflow \in Seq(Layers!Primitive)
        /\ Len(overflow) > 0 => Len(fixed) >= FixedCapacity
        /\ \A k \in 1 .. Filled : Slot(k) = Layers!Made("other", "plain")
    BY <2>1, BufferStarts
  <2>5. \A k \in 1 .. Filled :
          /\ Slot(k).mat = "engine" /\ Slot(k).layer = "plain" /\ Slot(k).last = FALSE
          /\ Slot(k).object \notin Layers!Ghosts
    BY <2>4 DEF Layers!Made, Layers!Ghosts
  <2>6. \A k \in 1 .. Filled :
          /\ Slot(k).mat \in {"engine", Slot(k).layer}
          /\ ~spoiled /\ Slot(k).layer # "plain" => Slot(k).mat = Slot(k).layer
          /\ Slot(k).last => Slot(k).object \in Layers!Ghosts
    BY <2>5
  <2>7. ~Amid(todo) /\ ~spoiled =>
          \A k \in 1 .. Filled : Slot(k).object \in Layers!Ghosts => Slot(k).last
    BY <2>5
  <2>8. since \in Int /\ spoiled \in BOOLEAN /\ stray = {}
    <3>1. since \in Int
      BY <2>2
    <3>2. spoiled \in BOOLEAN
      BY <2>2, Zenon
    <3> QED
      BY <2>2, <3>1, <3>2
  <2> HIDE DEF Amid, TodoOk, Filled, Slot
  <2> QED
    BY <2>3, <2>4, <2>6, <2>7, <2>8 DEF LayersInv
<1>2. LayersInv /\ [Next]_vars => LayersInv'
  <2> SUFFICES ASSUME LayersInv, [Next]_vars PROVE LayersInv'
    OBVIOUS
  <2>1. [Layers!Next]_layersVars
    BY ComponentsNext
  <2>2. ASSUME NEW object \in Layers!Ghosts \cup {"own"}, NEW layer \in Layers!Layers,
               NEW n \in Generated, NEW loaded \in BOOLEAN, Layers!Generate(object, layer, n, loaded)
        PROVE  LayersInv'
    <3>1. n \in Nat
      BY LayersAssumption DEF Layers!SizeAssumption
    <3> QED
      BY <2>2, <3>1, GenerateKeeps
  <2>3. ASSUME NEW object \in Layers!Ghosts, Layers!CountGhost(object) \/ Layers!MarkGhost(object)
        PROVE  LayersInv'
    BY <2>3, CountKeeps, MarkKeeps
  <2>4. CASE UNCHANGED layersVars
    BY <2>4 DEF layersVars, LayersInv, Filled, Slot
  <2> QED
    BY <2>1, <2>2, <2>3, <2>4 DEF Layers!Next
<1> QED
  BY <1>1, <1>2, PTL DEF Spec

\* Every primitive of either array has an index.
LEMMA PresentSlots ==
  ASSUME LayersInv, NEW p \in Layers!Present
  PROVE  \E k \in 1 .. Filled : p = Slot(k)
<1>1. /\ Len(fixed) \in Nat /\ Len(overflow) \in Nat
      /\ DOMAIN fixed = 1 .. Len(fixed) /\ DOMAIN overflow = 1 .. Len(overflow)
  BY DEF LayersInv
<1>2. ASSUME NEW k \in 1 .. Len(fixed), p = fixed[k] PROVE k \in 1 .. Filled /\ p = Slot(k)
  BY <1>1, <1>2 DEF Filled, Slot
<1>3. ASSUME NEW k \in 1 .. Len(overflow), p = overflow[k]
      PROVE  Len(fixed) + k \in 1 .. Filled /\ p = Slot(Len(fixed) + k)
  <2>1. ~(Len(fixed) + k <= Len(fixed)) /\ (Len(fixed) + k) - Len(fixed) = k
    BY <1>1
  <2> QED
    BY <1>1, <1>3, <2>1 DEF Filled, Slot
<1> QED
  BY <1>1, <1>2, <1>3 DEF Layers!Present

\* primitive_buffer.hpp:38-39: no write leaves the entries that the engine has
\* put in either array, however large the arrays are and whatever a call adds.
THEOREM LayersNoStrayWrites == Spec => []NoStrayWrites
<1>1. LayersInv => NoStrayWrites
  BY DEF LayersInv, NoStrayWrites, Layers!NoStrayWrites
<1> QED
  BY <1>1, LayersInvariant, PTL

\* player.chams.cpp:770-860: a layer restyles the primitives of its own engine
\* call, on both sides of the boundary, and none besides.
THEOREM LayersLayersExact == Spec => []LayersExact
<1>1. LayersInv => LayersExact
  <2> SUFFICES ASSUME LayersInv, NEW p \in Layers!Present
               PROVE  /\ p.mat \in {"engine", p.layer}
                      /\ ~spoiled /\ p.layer # "plain" => p.mat = p.layer
    BY DEF LayersExact, Layers!LayersExact
  <2> QED
    BY PresentSlots DEF LayersInv
<1> QED
  BY <1>1, LayersInvariant, PTL

\* player.chams.cpp:112-172: the primitives drawn last are those of the ghosts,
\* and all of them, for every setting of the layers.
THEOREM LayersGhostsDrawnLast == Spec => []GhostsDrawnLast
<1>1. LayersInv => GhostsDrawnLast
  <2> SUFFICES ASSUME LayersInv, NEW p \in Layers!Present
               PROVE  /\ p.last => p.object \in Layers!Ghosts
                      /\ ~spoiled /\ todo = <<>> => (p.object \in Layers!Ghosts => p.last)
    BY DEF GhostsDrawnLast, Layers!GhostsDrawnLast
  <2>1. todo = <<>> => ~Amid(todo)
    BY DEF Amid
  <2> QED
    BY <2>1, PresentSlots DEF LayersInv
<1> QED
  BY <1>1, LayersInvariant, PTL

-----------------------------------------------------------------------------
(***************************************************************************)
(* The cache of the engine's entities.                                     *)
(***************************************************************************)

EntriesOf(s) == {s[k] : k \in DOMAIN s}
IndexedOnce(s) == \A k, l \in DOMAIN s : s[k].index = s[l].index => k = l

\* What waits for the engine: an add for an empty index, one for each index;
\* a removal of an index in use.  A rebuild runs only when nothing waits.
EntitiesPending ==
  /\ \A a \in adding : live[a.index] = NoEntity
  /\ \A a, b \in adding : a.index = b.index => a = b
  /\ \A n \in removing : live[n] # NoEntity
  /\ cursor # -1 => adding = {} /\ removing = {}

\* An add that waits for the engine is in the cache already, if its class was read.
AddsCached ==
  \A a \in adding :
    a.index \notin unread /\ Cache!Cacheable(a.index, a.ptr) => \E c \in Cache!Entries : c.index = a.index /\ c.ptr = a.ptr

\* A rebuild that runs has cached what is behind its cursor, if its class was read.
ScannedBehind ==
  \A n \in Cache!Indices :
    /\ n < cursor /\ live[n] # NoEntity /\ n \notin unread /\ Cache!Cacheable(n, live[n])
    => \E c \in Cache!Entries : c.index = n /\ c.ptr = live[n]

\* The inductive invariant.  CacheFresh needs EntitiesPending; an add that ends
\* keeps CompleteOnceScanned because of AddsCached, and a rebuild that ends
\* because of ScannedBehind.
EntitiesInv ==
  /\ Cache!TypeOK
  /\ EntitiesPending
  /\ Cache!CacheFresh
  /\ AddsCached
  /\ ScannedBehind
  /\ Cache!CompleteOnceScanned

USE CacheAssumption DEF Cache!KindAssumption, Cache!NoEntityAssumption, Cache!IndexAssumption

-----------------------------------------------------------------------------
\* What is cached is an entity under an index of the engine's list.
LEMMA EntryTypes ==
  ASSUME Cache!TypeOK
  PROVE  \A c \in Cache!Entries : c.ptr \in Entities /\ c.index \in Cache!Indices /\ c.index <= MaxIndex
<1> SUFFICES ASSUME NEW k \in DOMAIN cached
             PROVE  /\ cached[k].ptr \in Entities /\ cached[k].index \in Cache!Indices
                    /\ cached[k].index <= MaxIndex
  BY DEF Cache!Entries
<1>1. cached[k] \in Cache!Entry
  BY DEF Cache!TypeOK
<1> QED
  BY <1>1 DEF Cache!Entry, Cache!Indices

\* on_add_entity keeps what is cached and adds at most the new entry.
LEMMA WithEntries ==
  ASSUME Cache!TypeOK, Cache!CacheFresh, NEW n \in Cache!Indices, NEW e \in Entities, NEW readable \in BOOLEAN
  PROVE  /\ Cache!With(n, e, readable) \in Seq(Cache!Entry)
         /\ IndexedOnce(Cache!With(n, e, readable))
         /\ EntriesOf(Cache!With(n, e, readable)) =
              IF readable /\ Cache!Cacheable(n, e) /\ ~Cache!Holds(n)
              THEN Cache!Entries \cup {[ptr |-> e, index |-> n, type |-> Kind[e]]}
              ELSE Cache!Entries
<1> DEFINE new == [ptr |-> e, index |-> n, type |-> Kind[e]]
<1>1. cached \in Seq(Cache!Entry) /\ IndexedOnce(cached)
  BY DEF Cache!TypeOK, Cache!CacheFresh, IndexedOnce
<1>2. CASE ~(readable /\ Cache!Cacheable(n, e) /\ ~Cache!Holds(n))
  BY <1>1, <1>2 DEF Cache!With, EntriesOf, Cache!Entries
<1>3. CASE readable /\ Cache!Cacheable(n, e) /\ ~Cache!Holds(n)
  <2>1. new \in Cache!Entry
    BY <1>3 DEF Cache!Cacheable, Cache!Entry, Cache!Indices
  <2> DEFINE s == Append(cached, new)
  <2>2. Cache!With(n, e, readable) = s
    BY <1>3 DEF Cache!With
  <2>3. /\ s \in Seq(Cache!Entry)
        /\ DOMAIN s = 1 .. Len(cached) + 1
        /\ \A k \in 1 .. Len(cached) : s[k] = cached[k]
        /\ s[Len(cached) + 1] = new
    BY <1>1, <2>1
  <2>4. DOMAIN cached = 1 .. Len(cached) /\ Len(cached) \in Nat
    BY <1>1
  <2> HIDE DEF s
  <2>5. IndexedOnce(s)
    BY <1>1, <1>3, <2>3, <2>4 DEF IndexedOnce, Cache!Holds
  <2>6. EntriesOf(s) = Cache!Entries \cup {new}
    BY <2>3, <2>4 DEF EntriesOf, Cache!Entries
  <2> QED
    BY <1>3, <2>2, <2>3, <2>5, <2>6
<1> QED
  BY <1>2, <1>3

\* on_remove_entity takes out the entry with the index and no other.
LEMMA WithoutEntries ==
  ASSUME Cache!TypeOK, Cache!CacheFresh, NEW n \in Cache!Indices
  PROVE  /\ Cache!Without(n) \in Seq(Cache!Entry)
         /\ IndexedOnce(Cache!Without(n))
         /\ EntriesOf(Cache!Without(n)) = {c \in Cache!Entries : c.index # n}
<1> DEFINE hits == {k \in DOMAIN cached : cached[k].index = n}
           last == Len(cached)
           first == CHOOSE k \in hits : \A l \in hits : k <= l
<1>1. /\ cached \in Seq(Cache!Entry) /\ IndexedOnce(cached)
      /\ DOMAIN cached = 1 .. last /\ last \in Nat
  BY DEF Cache!TypeOK, Cache!CacheFresh, IndexedOnce
<1>2. CASE hits = {}
  BY <1>1, <1>2 DEF Cache!Without, EntriesOf, Cache!Entries
<1>3. CASE hits # {}
  <2>1. /\ first \in 1 .. last
        /\ cached[first].index = n
        /\ \A k \in 1 .. last : cached[k].index = n => k = first
    <3>1. PICK k \in hits : TRUE
      BY <1>3
    <3>2. \A l \in hits : l = k
      BY <1>1, <3>1 DEF IndexedOnce
    <3>3. k \in hits /\ \A l \in hits : k <= l
      BY <1>1, <3>1, <3>2
    <3>4. first \in hits
      BY <3>3
    <3> QED
      BY <1>1, <3>2, <3>4
  <2> HIDE DEF first
  <2> DEFINE moved == [cached EXCEPT ![first] = cached[last]]
             s == SubSeq(moved, 1, last - 1)
  <2>2. Cache!Without(n) = s
    BY <1>3 DEF Cache!Without, first
  <2>3. moved \in Seq(Cache!Entry) /\ Len(moved) = last
    BY <1>1, <2>1
  <2>4. /\ s \in Seq(Cache!Entry)
        /\ DOMAIN s = 1 .. last - 1
        /\ \A k \in 1 .. last - 1 : s[k] = IF k = first THEN cached[last] ELSE cached[k]
    <3>1. s \in Seq(Cache!Entry) /\ Len(s) = last - 1
      BY <1>1, <2>1, <2>3
    <3>2. \A k \in 1 .. last - 1 : s[k] = moved[k]
      BY <1>1, <2>1, <2>3
    <3>3. DOMAIN s = 1 .. last - 1
      BY <3>1
    <3>4. ASSUME NEW k \in 1 .. last - 1
          PROVE  moved[k] = IF k = first THEN cached[last] ELSE cached[k]
      BY <1>1, <2>1
    <3> HIDE DEF s, moved, last
    <3> QED
      BY <3>1, <3>2, <3>3, <3>4
  <2> HIDE DEF s
  <2>5. IndexedOnce(s)
    BY <1>1, <2>1, <2>4 DEF IndexedOnce
  <2>6. EntriesOf(s) \subseteq {c \in Cache!Entries : c.index # n}
    BY <1>1, <2>1, <2>4 DEF EntriesOf, Cache!Entries
  <2>7. ASSUME NEW k \in 1 .. last, cached[k].index # n
        PROVE  cached[k] \in EntriesOf(s)
    <3>1. CASE k = last
      BY <1>1, <2>1, <2>4, <2>7, <3>1 DEF EntriesOf
    <3>2. CASE k # last
      <4>1. k \in 1 .. last - 1
        <5>1. last \in Nat
          BY <1>1
        <5> HIDE DEF last
        <5> QED
          BY <3>2, <5>1
      <4>2. k # first
        BY <2>1, <2>7
      <4>3. k \in DOMAIN s /\ s[k] = cached[k]
        BY <2>4, <4>1, <4>2
      <4> QED
        BY <4>3 DEF EntriesOf
    <3> QED
      BY <3>1, <3>2
  <2>8. {c \in Cache!Entries : c.index # n} \subseteq EntriesOf(s)
    BY <1>1, <2>7 DEF Cache!Entries
  <2> QED
    BY <2>2, <2>4, <2>5, <2>6, <2>8
<1> QED
  BY <1>2, <1>3

-----------------------------------------------------------------------------
\* Nothing is cached and nothing waits when the hooks are installed.
LEMMA EntitiesInvInit == Cache!Init => EntitiesInv
<1> SUFFICES ASSUME Cache!Init PROVE EntitiesInv
  OBVIOUS
<1>1. Cache!TypeOK
  <2>1. cached \in Seq(Cache!Entry)
    BY DEF Cache!Init
  <2>2. cursor \in -1 .. ScanLimit
    BY DEF Cache!Init
  <2> QED
    BY <2>1, <2>2 DEF Cache!Init, Cache!TypeOK
<1>2. EntitiesPending /\ AddsCached
  BY DEF Cache!Init, EntitiesPending, AddsCached
<1>3. Cache!CacheFresh
  BY DEF Cache!Init, Cache!CacheFresh, Cache!Entries
<1>4. ScannedBehind /\ Cache!CompleteOnceScanned
  BY DEF Cache!Init, ScannedBehind, Cache!CompleteOnceScanned, Cache!Indices
<1> QED
  BY <1>1, <1>2, <1>3, <1>4 DEF EntitiesInv

\* An add that the hook has seen keeps the invariant: the index is free in the
\* list and in the cache.
LEMMA AddHookStep ==
  ASSUME EntitiesInv, NEW n \in Cache!Indices, NEW e \in Entities, Cache!AddHook(n, e)
  PROVE  EntitiesInv'
<1> DEFINE a == [index |-> n, ptr |-> e]
<1>1. Cache!TypeOK /\ EntitiesPending /\ Cache!CacheFresh /\ AddsCached
  BY DEF EntitiesInv
<1>2. PICK readable \in BOOLEAN :
        cached' = Cache!With(n, e, readable) /\ unread' = Cache!UnreadAfter(n, readable)
  BY DEF Cache!AddHook
<1>3. /\ cached' \in Seq(Cache!Entry) /\ IndexedOnce(cached')
      /\ Cache!Entries' = IF readable /\ Cache!Cacheable(n, e) /\ ~Cache!Holds(n)
                    THEN Cache!Entries \cup {[ptr |-> e, index |-> n, type |-> Kind[e]]}
                    ELSE Cache!Entries
  <2>1. cached' = Cache!With(n, e, readable)
    BY <1>2
  <2>2. Cache!Entries' = EntriesOf(cached')
    BY DEF Cache!Entries, EntriesOf
  <2> QED
    BY <1>1, <2>1, <2>2, WithEntries
<1>4. adding' = adding \cup {a} /\ live' = live /\ removing' = removing
      /\ cursor = -1 /\ cursor' = -1 /\ scanned' = scanned
  BY DEF Cache!AddHook
<1>5. /\ unread' \subseteq Cache!Indices /\ unread' \ {n} = unread \ {n}
      /\ n \notin unread' => readable
  BY <1>1, <1>2 DEF Cache!UnreadAfter, Cache!TypeOK
<1>6. Cache!TypeOK'
  BY <1>1, <1>3, <1>4, <1>5 DEF Cache!TypeOK
<1>7. EntitiesPending'
  BY <1>1, <1>4 DEF Cache!AddHook, EntitiesPending
<1>8. Cache!CacheFresh'
  <2>1. ASSUME NEW c \in Cache!Entries'
        PROVE  \/ live'[c.index] = c.ptr /\ c.index \notin removing'
               \/ [index |-> c.index, ptr |-> c.ptr] \in adding'
    BY <1>1, <1>3, <1>4, <2>1 DEF Cache!CacheFresh
  <2> QED
    BY <1>3, <2>1 DEF Cache!CacheFresh, IndexedOnce
<1>9. ~Cache!Holds(n)
  <2> SUFFICES ASSUME NEW k \in DOMAIN cached, cached[k].index = n PROVE FALSE
    BY DEF Cache!Holds
  <2>1. cached[k] \in Cache!Entries /\ cached[k].ptr \in Entities
    BY <1>1, EntryTypes DEF Cache!Entries
  <2>2. live[n] = NoEntity /\ \A b \in adding : b.index # n
    BY DEF Cache!AddHook
  <2>3. live[n] # cached[k].ptr
    BY <2>1, <2>2
  <2>4. [index |-> n, ptr |-> cached[k].ptr] \notin adding
    BY <2>2
  <2> QED
    BY <1>1, <2>1, <2>3, <2>4 DEF Cache!CacheFresh
<1>10. AddsCached'
  <2> DEFINE new == [ptr |-> e, index |-> n, type |-> Kind[e]]
  <2>1. ASSUME NEW b \in adding, b.index \notin unread', Cache!Cacheable(b.index, b.ptr)
        PROVE  \E c \in Cache!Entries' : c.index = b.index /\ c.ptr = b.ptr
    <3>1. b.index # n
      BY DEF Cache!AddHook
    <3>2. b.index \notin unread
      BY <1>5, <2>1, <3>1
    <3> QED
      BY <1>1, <1>3, <2>1, <3>2 DEF AddsCached
  <2>2. ASSUME n \notin unread', Cache!Cacheable(n, e)
        PROVE  \E c \in Cache!Entries' : c.index = n /\ c.ptr = e
    <3>1. new \in Cache!Entries' /\ new.index = n /\ new.ptr = e
      BY <1>3, <1>9, <1>5, <2>2
    <3> QED
      BY <3>1
  <2>3. ASSUME NEW b \in adding', b.index \notin unread', Cache!Cacheable(b.index, b.ptr)
        PROVE  \E c \in Cache!Entries' : c.index = b.index /\ c.ptr = b.ptr
    <3>1. b \in adding \/ b = a
      BY <1>4
    <3>2. CASE b \in adding
      BY <2>1, <2>3, <3>2
    <3>3. CASE b = a
      BY <2>2, <2>3, <3>3
    <3> QED
      BY <3>1, <3>2, <3>3
  <2> QED
    BY <2>3 DEF AddsCached, Cache!Cacheable
<1>11. ScannedBehind'
  BY <1>4 DEF ScannedBehind, Cache!Indices
<1>12. Cache!CompleteOnceScanned'
  <2> SUFFICES ASSUME scanned, NEW m \in Cache!Indices, m < ScanLimit, live[m] # NoEntity,
                      m \notin removing, m \notin unread', Cache!Cacheable(m, live[m])
               PROVE  \E c \in Cache!Entries' : c.index = m /\ c.ptr = live[m]
    BY <1>4 DEF Cache!CompleteOnceScanned, Cache!Cacheable
  <2>1. m # n
    BY DEF Cache!AddHook
  <2>2. m \notin unread
    BY <1>5, <2>1
  <2>3. \E c \in Cache!Entries : c.index = m /\ c.ptr = live[m]
    BY <1>4, <2>2 DEF EntitiesInv, Cache!CompleteOnceScanned
  <2> QED
    BY <1>3, <2>3
<1> QED
  BY <1>6, <1>7, <1>8, <1>10, <1>11, <1>12 DEF EntitiesInv

\* The engine's part of an add makes the list say what the cache said already.
LEMMA EngineAddsStep ==
  ASSUME EntitiesInv, NEW a \in adding, Cache!EngineAdds(a)
  PROVE  EntitiesInv'
<1>1. Cache!TypeOK /\ EntitiesPending /\ Cache!CacheFresh /\ AddsCached /\ Cache!CompleteOnceScanned
  BY DEF EntitiesInv
<1>2. /\ live' = [live EXCEPT ![a.index] = a.ptr] /\ adding' = adding \ {a}
      /\ removing' = removing /\ cached' = cached /\ Cache!Entries' = Cache!Entries
      /\ cursor = -1 /\ cursor' = -1 /\ scanned' = scanned /\ unread' = unread
  BY DEF Cache!EngineAdds, Cache!Entries
<1>3. a.index \in Cache!Indices /\ a.ptr \in Entities /\ a = [index |-> a.index, ptr |-> a.ptr]
  BY <1>1 DEF Cache!TypeOK
<1>4. Cache!TypeOK'
  BY <1>1, <1>2, <1>3 DEF Cache!TypeOK
<1>5. EntitiesPending'
  BY <1>1, <1>2, <1>3 DEF Cache!TypeOK, EntitiesPending
<1>6. Cache!CacheFresh'
  <2>1. ASSUME NEW c \in Cache!Entries
        PROVE  \/ live'[c.index] = c.ptr /\ c.index \notin removing
               \/ [index |-> c.index, ptr |-> c.ptr] \in adding'
    <3>1. c.ptr \in Entities /\ c.index \in Cache!Indices
      BY <1>1, EntryTypes
    <3>2. CASE [index |-> c.index, ptr |-> c.ptr] = a
      BY <1>1, <1>2, <1>3, <3>1, <3>2 DEF EntitiesPending, Cache!TypeOK
    <3>3. CASE [index |-> c.index, ptr |-> c.ptr] # a
      BY <1>1, <1>2, <1>3, <3>1, <3>3 DEF Cache!CacheFresh, EntitiesPending, Cache!TypeOK
    <3> QED
      BY <3>2, <3>3
  <2> QED
    BY <1>1, <1>2, <2>1 DEF Cache!CacheFresh
<1>7. AddsCached'
  BY <1>1, <1>2 DEF AddsCached, Cache!Cacheable
<1>8. ScannedBehind'
  BY <1>2 DEF ScannedBehind, Cache!Indices
<1>9. Cache!CompleteOnceScanned'
  <2> SUFFICES ASSUME scanned, NEW n \in Cache!Indices, n < ScanLimit, live'[n] # NoEntity,
                      n \notin removing, n \notin unread, Cache!Cacheable(n, live'[n])
               PROVE  \E c \in Cache!Entries : c.index = n /\ c.ptr = live'[n]
    BY <1>2 DEF Cache!CompleteOnceScanned, Cache!Cacheable
  <2>1. CASE n = a.index
    BY <1>1, <1>2, <1>3, <2>1 DEF AddsCached, Cache!TypeOK
  <2>2. CASE n # a.index
    BY <1>1, <1>2, <1>3, <2>2 DEF Cache!CompleteOnceScanned, Cache!TypeOK
  <2> QED
    BY <2>1, <2>2
<1> QED
  BY <1>4, <1>5, <1>6, <1>7, <1>8, <1>9 DEF EntitiesInv

\* A removal that the hook has seen leaves nothing of its index in the cache.
LEMMA RemoveHookStep ==
  ASSUME EntitiesInv, NEW n \in Cache!Indices, Cache!RemoveHook(n)
  PROVE  EntitiesInv'
<1>1. Cache!TypeOK /\ EntitiesPending /\ Cache!CacheFresh /\ AddsCached /\ Cache!CompleteOnceScanned
  BY DEF EntitiesInv
<1>2. /\ removing' = removing \cup {n} /\ live' = live /\ adding' = adding
      /\ live[n] # NoEntity /\ cursor = -1 /\ cursor' = -1 /\ scanned' = scanned /\ unread' = unread
  BY DEF Cache!RemoveHook
<1>3. /\ cached' \in Seq(Cache!Entry) /\ IndexedOnce(cached')
      /\ Cache!Entries' = {c \in Cache!Entries : c.index # n}
  <2>1. CASE n <= MaxIndex
    BY <1>1, <2>1, WithoutEntries DEF Cache!RemoveHook, Cache!Entries, EntriesOf
  <2>2. CASE ~(n <= MaxIndex)
    <3>1. cached' = cached
      BY <2>2 DEF Cache!RemoveHook
    <3>2. \A c \in Cache!Entries : c.index # n
      BY <1>1, <2>2, EntryTypes
    <3> QED
      BY <1>1, <3>1, <3>2 DEF Cache!Entries, Cache!TypeOK, Cache!CacheFresh, IndexedOnce
  <2> QED
    BY <2>1, <2>2
<1>4. Cache!TypeOK'
  BY <1>1, <1>2, <1>3 DEF Cache!TypeOK
<1>5. EntitiesPending'
  BY <1>1, <1>2 DEF EntitiesPending
<1>6. Cache!CacheFresh'
  BY <1>1, <1>2, <1>3 DEF Cache!CacheFresh, IndexedOnce
<1>7. AddsCached'
  <2> SUFFICES ASSUME NEW a \in adding, a.index \notin unread, Cache!Cacheable(a.index, a.ptr)
               PROVE  \E c \in Cache!Entries' : c.index = a.index /\ c.ptr = a.ptr
    BY <1>2 DEF AddsCached, Cache!Cacheable
  <2>1. a.index # n
    BY <1>1, <1>2 DEF EntitiesPending
  <2> QED
    BY <1>1, <1>3, <2>1 DEF AddsCached
<1>8. ScannedBehind'
  BY <1>2 DEF ScannedBehind, Cache!Indices
<1>9. Cache!CompleteOnceScanned'
  BY <1>1, <1>2, <1>3 DEF Cache!CompleteOnceScanned, Cache!Cacheable
<1> QED
  BY <1>4, <1>5, <1>6, <1>7, <1>8, <1>9 DEF EntitiesInv

\* The engine's part of a removal empties an index the cache has given up.
LEMMA EngineRemovesStep ==
  ASSUME EntitiesInv, NEW n \in removing, Cache!EngineRemoves(n)
  PROVE  EntitiesInv'
<1>1. Cache!TypeOK /\ EntitiesPending /\ Cache!CacheFresh /\ AddsCached /\ Cache!CompleteOnceScanned
  BY DEF EntitiesInv
<1>2. /\ live' = [live EXCEPT ![n] = NoEntity] /\ removing' = removing \ {n}
      /\ adding' = adding /\ cached' = cached /\ Cache!Entries' = Cache!Entries
      /\ cursor = -1 /\ cursor' = -1 /\ scanned' = scanned /\ unread' = unread /\ n \in Cache!Indices
  BY <1>1 DEF Cache!EngineRemoves, Cache!Entries, Cache!TypeOK
<1>3. Cache!TypeOK'
  BY <1>1, <1>2 DEF Cache!TypeOK
<1>4. EntitiesPending'
  BY <1>1, <1>2 DEF EntitiesPending, Cache!TypeOK
<1>5. Cache!CacheFresh'
  <2>1. ASSUME NEW c \in Cache!Entries
        PROVE  \/ live'[c.index] = c.ptr /\ c.index \notin removing'
               \/ [index |-> c.index, ptr |-> c.ptr] \in adding'
    <3>1. c.index \in Cache!Indices
      BY <1>1, EntryTypes
    <3> QED
      BY <1>1, <1>2, <3>1 DEF Cache!CacheFresh, Cache!TypeOK
  <2> QED
    BY <1>1, <1>2, <2>1 DEF Cache!CacheFresh
<1>6. AddsCached'
  BY <1>1, <1>2 DEF AddsCached, Cache!Cacheable
<1>7. ScannedBehind'
  BY <1>2 DEF ScannedBehind, Cache!Indices
<1>8. Cache!CompleteOnceScanned'
  BY <1>1, <1>2 DEF Cache!CompleteOnceScanned, Cache!Cacheable, Cache!TypeOK
<1> QED
  BY <1>3, <1>4, <1>5, <1>6, <1>7, <1>8 DEF EntitiesInv

-----------------------------------------------------------------------------
\* A rebuild caches one index after another while nothing waits.
LEMMA ScanStep ==
  ASSUME EntitiesInv, Cache!StartScan \/ Cache!ScanOne \/ Cache!EndScan
  PROVE  EntitiesInv'
<1>1. Cache!TypeOK /\ EntitiesPending /\ Cache!CacheFresh /\ ScannedBehind
  BY DEF EntitiesInv
<1>2. CASE Cache!StartScan
  <2>1. Cache!Entries' = Cache!Entries /\ Cache!Entries = {}
    BY <1>2 DEF Cache!StartScan, Cache!Entries
  <2>2. Cache!TypeOK' /\ EntitiesPending' /\ Cache!CacheFresh'
    BY <1>1, <1>2, <2>1 DEF Cache!StartScan, Cache!TypeOK, EntitiesPending, Cache!CacheFresh
  <2>3. AddsCached' /\ ScannedBehind' /\ Cache!CompleteOnceScanned'
    BY <1>2 DEF Cache!StartScan, AddsCached, ScannedBehind, Cache!CompleteOnceScanned, Cache!Indices
  <2> QED
    BY <2>2, <2>3 DEF EntitiesInv
<1>3. CASE Cache!EndScan
  <2>1. Cache!Entries' = Cache!Entries /\ cursor = ScanLimit /\ adding = {} /\ removing = {}
    BY <1>1, <1>3 DEF Cache!EndScan, Cache!Entries, EntitiesPending
  <2>2. Cache!TypeOK' /\ EntitiesPending' /\ Cache!CacheFresh'
    BY <1>1, <1>3, <2>1 DEF Cache!EndScan, Cache!TypeOK, EntitiesPending, Cache!CacheFresh
  <2>3. AddsCached' /\ ScannedBehind'
    BY <1>3, <2>1 DEF Cache!EndScan, AddsCached, ScannedBehind, Cache!Indices
  <2>4. Cache!CompleteOnceScanned'
    BY <1>1, <1>3, <2>1 DEF Cache!EndScan, ScannedBehind, Cache!CompleteOnceScanned, Cache!Cacheable
  <2> QED
    BY <2>2, <2>3, <2>4 DEF EntitiesInv
<1>4. CASE Cache!ScanOne
  <2>1. /\ cursor \in 0 .. ScanLimit - 1 /\ cursor \in Cache!Indices /\ cursor' = cursor + 1
        /\ live' = live /\ adding' = {} /\ removing' = {} /\ adding = {} /\ removing = {}
        /\ scanned' = scanned
    BY <1>1, <1>4 DEF Cache!ScanOne, EntitiesPending, Cache!Indices
  <2>2. live[cursor] \in Entities \cup {NoEntity}
    BY <1>1, <2>1 DEF Cache!TypeOK
  <2>3. CASE live[cursor] = NoEntity
    <3>1. cached' = cached /\ Cache!Entries' = Cache!Entries /\ unread' = unread
      BY <1>4, <2>3 DEF Cache!ScanOne, Cache!ScanSlot, Cache!Entries
    <3>2. Cache!TypeOK' /\ EntitiesPending' /\ Cache!CacheFresh'
      BY <1>1, <2>1, <3>1 DEF Cache!TypeOK, EntitiesPending, Cache!CacheFresh
    <3>3. AddsCached' /\ Cache!CompleteOnceScanned'
      BY <2>1 DEF AddsCached, Cache!CompleteOnceScanned
    <3>4. ScannedBehind'
      <4> SUFFICES ASSUME NEW n \in Cache!Indices, n < cursor + 1, live[n] # NoEntity,
                          n \notin unread, Cache!Cacheable(n, live[n])
                   PROVE  \E c \in Cache!Entries : c.index = n /\ c.ptr = live[n]
        BY <2>1, <3>1 DEF ScannedBehind, Cache!Cacheable
      <4>1. n < cursor
        BY <2>1, <2>3 DEF Cache!Indices
      <4> QED
        BY <1>1, <4>1 DEF ScannedBehind
    <3> QED
      BY <3>2, <3>3, <3>4 DEF EntitiesInv
  <2>4. CASE live[cursor] # NoEntity
    <3> DEFINE e == live[cursor]
               new == [ptr |-> e, index |-> cursor, type |-> Kind[e]]
    <3>1. e \in Entities
      BY <2>2, <2>4
    <3>2. PICK readable \in BOOLEAN :
            /\ cached' = Cache!With(cursor, e, readable)
            /\ unread' = Cache!UnreadAfter(cursor, readable)
      BY <1>4, <2>4 DEF Cache!ScanOne, Cache!ScanSlot
    <3>3. /\ unread' \subseteq Cache!Indices /\ unread' \ {cursor} = unread \ {cursor}
          /\ cursor \notin unread' => readable
      BY <1>1, <2>1, <3>2 DEF Cache!UnreadAfter, Cache!TypeOK
    <3>4. /\ cached' \in Seq(Cache!Entry) /\ IndexedOnce(cached')
          /\ Cache!Entries' = IF readable /\ Cache!Cacheable(cursor, e) /\ ~Cache!Holds(cursor)
                        THEN Cache!Entries \cup {new} ELSE Cache!Entries
      <4>1. Cache!Entries' = EntriesOf(cached')
        BY DEF Cache!Entries, EntriesOf
      <4> QED
        BY <1>1, <2>1, <3>1, <3>2, <4>1, WithEntries
    <3>5. Cache!TypeOK' /\ EntitiesPending'
      BY <1>1, <2>1, <3>4, <3>3 DEF Cache!TypeOK, EntitiesPending
    <3>6. Cache!CacheFresh'
      <4>1. ASSUME NEW c \in Cache!Entries'
            PROVE  live'[c.index] = c.ptr /\ c.index \notin removing'
        BY <1>1, <2>1, <3>4, <4>1 DEF Cache!CacheFresh
      <4> QED
        BY <3>4, <4>1 DEF Cache!CacheFresh, IndexedOnce
    <3>7. AddsCached' /\ Cache!CompleteOnceScanned'
      BY <2>1 DEF AddsCached, Cache!CompleteOnceScanned
    <3>8. readable /\ Cache!Cacheable(cursor, e) => \E c \in Cache!Entries' : c.index = cursor /\ c.ptr = e
      <4>1. CASE Cache!Holds(cursor)
        <5>1. PICK c \in Cache!Entries : c.index = cursor
          BY <4>1 DEF Cache!Holds, Cache!Entries
        <5>2. c.ptr = e
          BY <1>1, <2>1, <5>1 DEF Cache!CacheFresh
        <5> QED
          BY <3>4, <5>1, <5>2
      <4>2. CASE readable /\ Cache!Cacheable(cursor, e) /\ ~Cache!Holds(cursor)
        <5>1. new \in Cache!Entries' /\ new.index = cursor /\ new.ptr = e
          BY <3>4, <4>2
        <5> QED
          BY <5>1
      <4> QED
        BY <4>1, <4>2
    <3>9. ScannedBehind'
      <4> SUFFICES ASSUME NEW n \in Cache!Indices, n < cursor + 1, live[n] # NoEntity,
                          n \notin unread', Cache!Cacheable(n, live[n])
                   PROVE  \E c \in Cache!Entries' : c.index = n /\ c.ptr = live[n]
        BY <2>1 DEF ScannedBehind, Cache!Cacheable
      <4>1. CASE n < cursor
        <5>1. \E c \in Cache!Entries : c.index = n /\ c.ptr = live[n]
          BY <1>1, <2>1, <3>3, <4>1 DEF ScannedBehind
        <5> QED
          BY <3>4, <5>1
      <4>2. CASE n = cursor
        BY <3>8, <3>3, <4>2
      <4> QED
        BY <2>1, <4>1, <4>2 DEF Cache!Indices
    <3> QED
      BY <3>5, <3>6, <3>7, <3>9 DEF EntitiesInv
  <2> QED
    BY <2>3, <2>4
<1> QED
  BY <1>2, <1>3, <1>4

\* Every step keeps the inductive invariant.
LEMMA EntitiesInvStep == EntitiesInv /\ [Cache!Next]_cacheVars => EntitiesInv'
<1> SUFFICES ASSUME EntitiesInv, [Cache!Next]_cacheVars PROVE EntitiesInv'
  OBVIOUS
<1>1. ASSUME NEW n \in Cache!Indices, NEW e \in Entities, Cache!AddHook(n, e) PROVE EntitiesInv'
  BY <1>1, AddHookStep
<1>2. ASSUME NEW a \in adding, Cache!EngineAdds(a) PROVE EntitiesInv'
  BY <1>2, EngineAddsStep
<1>3. ASSUME NEW n \in Cache!Indices, Cache!RemoveHook(n) PROVE EntitiesInv'
  BY <1>3, RemoveHookStep
<1>4. ASSUME NEW n \in removing, Cache!EngineRemoves(n) PROVE EntitiesInv'
  BY <1>4, EngineRemovesStep
<1>5. CASE Cache!StartScan \/ Cache!ScanOne \/ Cache!EndScan
  BY <1>5, ScanStep
<1>6. CASE UNCHANGED cacheVars
  BY <1>6 DEF cacheVars, EntitiesInv, Cache!TypeOK, EntitiesPending, Cache!CacheFresh, AddsCached, ScannedBehind,
              Cache!CompleteOnceScanned, Cache!Entries, Cache!Cacheable
<1> QED
  BY <1>1, <1>2, <1>3, <1>4, <1>5, <1>6 DEF Cache!Next

\* Every reachable state of the whole satisfies the inductive invariant.
LEMMA AlwaysEntitiesInv == Spec => []EntitiesInv
<1>1. Init => EntitiesInv
  BY ComponentsInit, EntitiesInvInit
<1>2. EntitiesInv /\ [Next]_vars => EntitiesInv'
  BY ComponentsNext, EntitiesInvStep
<1> QED
  BY <1>1, <1>2, PTL DEF Spec

\* entities.cpp: the vector, the cursor of a rebuild and what waits for the engine
\* keep their types.
THEOREM EntitiesTypeOK == Spec => []Cache!TypeOK
<1>1. EntitiesInv => Cache!TypeOK
  BY DEF EntitiesInv
<1> QED
  BY <1>1, AlwaysEntitiesInv, PTL

\* entities.cpp, cheat.cpp:495-507: the hooks never leave a pointer cached that the
\* engine has dropped, and one index is never cached twice, so that one removal is
\* enough.
THEOREM EntitiesFresh == Spec => []CacheFresh
<1>1. EntitiesInv => CacheFresh
  BY DEF EntitiesInv, CacheFresh
<1> QED
  BY <1>1, AlwaysEntitiesInv, PTL

\* entities.cpp, cheat.cpp:216-221: after a rebuild the hooks alone keep the cache
\* complete.
THEOREM EntitiesComplete == Spec => []CompleteOnceScanned
<1>1. EntitiesInv => CompleteOnceScanned
  BY DEF EntitiesInv, CompleteOnceScanned
<1> QED
  BY <1>1, AlwaysEntitiesInv, PTL
=============================================================================
