------------------------------ MODULE JumpHook ------------------------------
(***************************************************************************)
(* The installation of the hooks (jmp and manager::create of hooking, and  *)
(* cheat::initialize, which asks for a group of required hooks and then for*)
(* one feature hook after the other) while the game's threads call the     *)
(* functions that are being hooked.                                        *)
(*                                                                         *)
(* A hook overwrites the first bytes of its target with a jump to a detour;*)
(* the detour calls the original through a trampoline that holds a copy of *)
(* these bytes.  Nothing stops the other threads meanwhile.                *)
(***************************************************************************)
EXTENDS Integers

CONSTANTS
  Required, \* the number of required hooks, which come first
  Features, \* the number of feature hooks
  Callers   \* threads of the game

HooksAssumption == Required \in Nat \ {0} /\ Features \in Nat

Hooks == 1 .. Required + Features

VARIABLES
  found,      \* the hooks whose address was found
  code,       \* the first bytes of each target
  hooked,     \* the hooks with m_target and m_trampoline
  enabled,    \* m_enabled
  trampoline, \* the memory of each trampoline
  installer,  \* where the installing thread is, and at which hook
  installed,  \* what cheat::initialize returned
  call,       \* the call each thread of the game makes, of which target
  caught,     \* history: threads inside bytes, or a trampoline, that changed under them
  stuck       \* history: hooks whose bytes could not be restored

vars == <<found, code, hooked, enabled, trampoline, installer, installed, call, caught, stuck>>

\* The hooks that the call of manager::create for this hook was given.
Group(h) == IF h <= Required THEN 1 .. Required ELSE {h}

NoCall == [at |-> "out", hook |-> 0]
Outside == [t \in Callers |-> NoCall]

Init ==
  /\ found \in SUBSET Hooks
  /\ code = [h \in Hooks |-> "original"]
  /\ hooked = {} /\ enabled = {}
  /\ trampoline = [h \in Hooks |-> "none"]
  /\ installer = [at |-> "check", hook |-> 1]
  /\ installed = "running"
  /\ call = Outside
  /\ caught = {} /\ stuck = {}

Crashed == \E t \in Callers : call[t].at = "crashed"

\* The installer passes from one place to another; it is the only writer of
\* the code and of the hooks.
Installs(from, to, hook) ==
  /\ ~Crashed
  /\ installer.at = from
  /\ installer' = [at |-> to, hook |-> hook]
  /\ UNCHANGED <<found, call>>

\* The threads whose call is at one of these places of the hook.
Inside(h, places) == {t \in Callers : call[t].hook = h /\ call[t].at \in places}

-----------------------------------------------------------------------------
\* manager::create is left.  Without the required hooks the initialization
\* fails; an unavailable feature hook is skipped.
Leave(from, failed) ==
  LET h == installer.hook
      last == IF h <= Required THEN Required ELSE h
      ends == (failed /\ h <= Required) \/ last = Required + Features
  IN /\ Installs(from, IF ends THEN "done" ELSE "check", IF ends THEN h ELSE last + 1)
     /\ installed' = IF ~ends THEN installed
                     ELSE IF failed /\ h <= Required THEN "failed" ELSE "ready"

Same == UNCHANGED <<code, hooked, enabled, trampoline, caught, stuck>>

\* Every entry of the group must have an address before anything is touched.
CheckFails ==
  /\ ~(Group(installer.hook) \subseteq found)
  /\ Leave("check", TRUE)
  /\ Same

CheckPasses ==
  /\ Group(installer.hook) \subseteq found
  /\ Installs("check", "create", installer.hook)
  /\ UNCHANGED installed /\ Same

\* jmp::create: the jumps at the target are followed and its memory is looked
\* at, a trampoline is allocated and filled.  Each may fail.
Unusable ==
  /\ Installs("create", "rollback", installer.hook)
  /\ UNCHANGED installed /\ Same

Allocate ==
  /\ Installs("create", "build", installer.hook)
  /\ trampoline' = [trampoline EXCEPT ![installer.hook] = "live"]
  /\ UNCHANGED <<code, hooked, enabled, installed, caught, stuck>>

BuildFails ==
  /\ Installs("build", "rollback", installer.hook)
  /\ trampoline' = [trampoline EXCEPT ![installer.hook] = "freed"]
  /\ UNCHANGED <<code, hooked, enabled, installed, caught, stuck>>

Build ==
  /\ Installs("build", "enable", installer.hook)
  /\ hooked' = hooked \cup {installer.hook}
  /\ UNCHANGED <<code, enabled, trampoline, installed, caught, stuck>>

\* jmp::enable: the pages are made writable, which may fail, and the bytes are
\* copied one by one.
ProtectFails ==
  /\ Installs("enable", "rollback", installer.hook)
  /\ UNCHANGED installed /\ Same

Patch ==
  /\ Installs("enable", "patching", installer.hook)
  /\ code' = [code EXCEPT ![installer.hook] = "torn"]
  /\ caught' = caught \cup Inside(installer.hook, {"prologue"})
  /\ UNCHANGED <<hooked, enabled, trampoline, installed, stuck>>

\* The jump is whole.  The next entry of the group, or the end of the call.
Patched ==
  LET h == installer.hook
      group == h < Required
  IN /\ IF group THEN Installs("patching", "create", h + 1) /\ UNCHANGED installed
                 ELSE Leave("patching", FALSE)
     /\ code' = [code EXCEPT ![h] = "patched"]
     /\ enabled' = enabled \cup {h}
     /\ UNCHANGED <<hooked, trampoline, caught, stuck>>

-----------------------------------------------------------------------------
\* The roll-back resets the entries of the group from the first, those that
\* were never created included.
ToFailed ==
  /\ Installs("rollback", "reset", installer.hook)
  /\ UNCHANGED installed /\ Same

ToFirst ==
  /\ Installs("rollback", "reset", IF installer.hook <= Required THEN 1 ELSE installer.hook)
  /\ UNCHANGED installed /\ Same

\* The entry is reset; the next one follows, or manager::create returns false.
NextReset(from) ==
  IF installer.hook < Required
  THEN Installs(from, "reset", installer.hook + 1) /\ UNCHANGED installed
  ELSE Leave(from, TRUE)

ResetInvalid ==
  /\ installer.hook \notin hooked
  /\ NextReset("reset")
  /\ Same

\* jmp::disable, whose result reset does not look at.
DisableSkipped ==
  /\ installer.hook \in hooked \ enabled
  /\ Installs("reset", "free", installer.hook)
  /\ UNCHANGED installed /\ Same

DisableFails ==
  /\ installer.hook \in hooked \cap enabled
  /\ Installs("reset", "free", installer.hook)
  /\ stuck' = stuck \cup {installer.hook}
  /\ UNCHANGED <<code, hooked, enabled, trampoline, installed, caught>>

FreedFirst ==
  /\ installer.hook \in hooked \cap enabled
  /\ Installs("reset", "restoring", installer.hook)
  /\ code' = [code EXCEPT ![installer.hook] = "torn"]
  /\ trampoline' = [trampoline EXCEPT ![installer.hook] = "freed"]
  /\ UNCHANGED <<hooked, enabled, installed, caught, stuck>>

Restore ==
  /\ installer.hook \in hooked \cap enabled
  /\ Installs("reset", "restoring", installer.hook)
  /\ code' = [code EXCEPT ![installer.hook] = "torn"]
  /\ UNCHANGED <<hooked, enabled, trampoline, installed, caught, stuck>>

Restored ==
  /\ Installs("restoring", "free", installer.hook)
  /\ code' = [code EXCEPT ![installer.hook] = "original"]
  /\ enabled' = enabled \ {installer.hook}
  /\ UNCHANGED <<hooked, trampoline, installed, caught, stuck>>

\* The trampoline is freed, and forgotten a step later.
Free ==
  /\ Installs("free", "clear", installer.hook)
  /\ trampoline' = [trampoline EXCEPT ![installer.hook] = "freed"]
  /\ caught' = caught \cup Inside(installer.hook, {"detour", "jump", "trampoline"})
  /\ UNCHANGED <<code, hooked, enabled, installed, stuck>>

Clear ==
  /\ NextReset("clear")
  /\ hooked' = hooked \ {installer.hook}
  /\ enabled' = enabled \ {installer.hook}
  /\ caught' = caught \cup Inside(installer.hook, {"detour"})
  /\ UNCHANGED <<code, trampoline, stuck>>

Install ==
  \/ CheckFails \/ CheckPasses \/ Unusable \/ Allocate \/ BuildFails \/ Build
  \/ ProtectFails \/ Patch \/ Patched
  \/ ToFirst \/ ResetInvalid \/ DisableSkipped \/ DisableFails \/ Restore \/ Restored
  \/ Free \/ Clear

-----------------------------------------------------------------------------
\* A thread of the game, which is at one place of a call, comes to another.
Goes(t, from, to) ==
  /\ ~Crashed
  /\ call[t].at = from
  /\ call' = [call EXCEPT ![t].at = to]
  /\ UNCHANGED <<found, code, hooked, enabled, trampoline, installer, installed, stuck>>

\* It calls a target: it runs the bytes there, or jumps to the detour.  What a
\* jump that is half written does is anyone's guess; it is taken for a crash.
Call(t, h) ==
  /\ ~Crashed
  /\ call[t] = NoCall
  /\ call' = [call EXCEPT ![t] = [hook |-> h,
                at |-> CASE code[h] = "original" -> "prologue"
                         [] code[h] = "patched" -> "detour"
                         [] OTHER -> "crashed"]]
  /\ caught' = IF code[h] = "torn" THEN caught \cup {t} ELSE caught
  /\ UNCHANGED <<found, code, hooked, enabled, trampoline, installer, installed, stuck>>

\* It leaves the bytes that a hook replaces, unless they were replaced under it.
Prologue(t) ==
  /\ Goes(t, "prologue", IF code[call[t].hook] = "original" THEN "reached" ELSE "crashed")
  /\ UNCHANGED caught

\* jmp::call: without a trampoline the original is not called.
CallOriginal(t) ==
  /\ Goes(t, "detour", IF call[t].hook \in hooked THEN "jump" ELSE "skipped")
  /\ UNCHANGED caught

RunsTrampoline(t, from, to) ==
  /\ Goes(t, from, IF trampoline[call[t].hook] = "live" THEN to ELSE "crashed")
  /\ UNCHANGED caught

Jump(t) == RunsTrampoline(t, "jump", "trampoline")
Original(t) == RunsTrampoline(t, "trampoline", "reached")

Return(t) ==
  /\ ~Crashed
  /\ call[t].at \in {"reached", "skipped"}
  /\ call' = [call EXCEPT ![t] = NoCall]
  /\ caught' = caught \ {t}
  /\ UNCHANGED <<found, code, hooked, enabled, trampoline, installer, installed, stuck>>

GameStep(t) ==
  \/ \E h \in Hooks : Call(t, h)
  \/ Prologue(t) \/ CallOriginal(t) \/ Jump(t) \/ Original(t) \/ Return(t)

Next == Install \/ \E t \in Callers : GameStep(t)
Spec == Init /\ [][Next]_vars

-----------------------------------------------------------------------------
TypeOK ==
  /\ found \subseteq Hooks
  /\ code \in [Hooks -> {"original", "torn", "patched"}]
  /\ enabled \subseteq hooked /\ hooked \subseteq Hooks
  /\ trampoline \in [Hooks -> {"none", "live", "freed"}]
  /\ installer.hook \in Hooks
  /\ installed \in {"running", "ready", "failed"}
  /\ caught \subseteq Callers /\ stuck \subseteq Hooks

\* jmp.cpp:308-331, hooking.hpp:14-25: a call of a function that is being
\* hooked or rolled back reaches the original.  Only a call whose bytes or
\* trampoline changed while it was on them, or a hook whose bytes the roll-back
\* could not restore, ends otherwise.
CallsReachEngine ==
  \A t \in Callers :
    call[t].at \in {"skipped", "crashed"} => t \in caught \/ call[t].hook \in stuck

\* manager.cpp:9-57, cheat.cpp:16-81: manager::create hooks all its targets or
\* none, so that a start that failed leaves the game unhooked; a hook that is
\* off is off with its bytes and its memory, except where these bytes could not
\* be restored.
On(h) == h \in hooked /\ h \in enabled /\ code[h] = "patched" /\ trampoline[h] = "live"
Off(h) == h \notin hooked /\ code[h] = "original" /\ trampoline[h] # "live"

AllOrNothing ==
  /\ installer.at = "done" => \A h \in Hooks \ stuck : On(h) \/ Off(h)
  /\ installed = "ready" => \A h \in 1 .. Required : On(h)
  /\ installed = "failed" => \A h \in Hooks \ stuck : Off(h)
=============================================================================
