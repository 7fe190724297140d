---------------------------- MODULE RenderContext ----------------------------
(***************************************************************************)
(* The view of the back buffer that the library draws to, from the first   *)
(* frame on, over resizes of the swap chain, up to the detach (context, the*)
(* hooks on Present and ResizeBuffers, and cheat::shutdown).  Present also *)
(* makes two hooks of its own, and the detach, on another thread, removes  *)
(* these before the hook on Present.                                       *)
(*                                                                         *)
(* The game presents and resizes on one thread.  jmp::reset is a step here *)
(* (JumpHook takes it apart) and restores what it replaced.                *)
(***************************************************************************)
EXTENDS Integers, Sequences

CONSTANT MaxResizes \* bound: resizes of the swap chain

NoView == -1
Late == {"wnd_proc", "om_set_render_targets"} \* hooks that Present makes
Resets == <<"wnd_proc", "om_set_render_targets", "present", "resize_buffers">>

VARIABLES
  buffers,     \* the swap chain's buffers: how often they were resized
  target,      \* m_rtv: the buffers it views, or NoView
  initialized, \* m_initialized, and with it m_device, m_context and m_window
  late,        \* the hooks that Present makes
  frame,       \* where the game's thread is in a call of the swap chain
  resets,      \* how many hooks cheat::shutdown has reset
  missed,      \* history: the last attempt to get buffers or a view of them failed
  remade,      \* history: late hooks that a frame made after they were reset
  blocked      \* history: a resize was refused since a view held the buffers

vars == <<buffers, target, initialized, late, frame, resets, missed, remade, blocked>>

Init ==
  /\ buffers = 0 /\ target = NoView /\ initialized = FALSE
  /\ late = [h \in Late |-> "none"]
  /\ frame = "out"
  /\ resets = 0
  /\ missed = FALSE /\ remade = {} /\ blocked = FALSE

WasReset(h) == \E i \in 1 .. resets : Resets[i] = h

Goes(from, to) == frame = from /\ frame' = to

\* create_rtv, which may get no buffer or no view.
CreateView ==
  \E made \in BOOLEAN :
    /\ target' = IF made THEN buffers ELSE NoView
    /\ missed' = ~made

-----------------------------------------------------------------------------
\* The first frame makes the view, whether it gets one or not.  (Without a
\* device nothing changes, and the next frame tries again.)
FirstPresent ==
  /\ ~WasReset("present") /\ ~initialized
  /\ Goes("out", "drawn")
  /\ initialized' = TRUE
  /\ CreateView
  /\ UNCHANGED <<buffers, late, resets, remade, blocked>>

Present ==
  /\ ~WasReset("present") /\ initialized
  /\ Goes("out", "drawn")
  /\ UNCHANGED <<buffers, target, initialized, late, resets, missed, remade, blocked>>

\* A late hook that is not enabled is created, which may fail, and enabled,
\* which may fail too; one that exists is not created again.
Hooked(h) == IF late[h] = "none" THEN {"none", "made", "on"} ELSE {late[h], "on"}

MakeHook(h, from, to) ==
  /\ Goes(from, to)
  /\ \E made \in Hooked(h) :
       /\ late' = [late EXCEPT ![h] = made]
       /\ remade' = IF WasReset(h) /\ made # "none" THEN remade \cup {h} ELSE remade
  /\ UNCHANGED <<buffers, target, initialized, resets, missed, blocked>>

HookWindow == MakeHook("wnd_proc", "drawn", "window hooked")
HookTargets == MakeHook("om_set_render_targets", "window hooked", "out")

-----------------------------------------------------------------------------
\* The hook on ResizeBuffers gives the view up, before the engine is called.
Kept == target
Released == NoView

ResizeBegins ==
  /\ ~WasReset("resize_buffers")
  /\ Goes("out", "resizing")
  /\ target' = Released
  /\ UNCHANGED <<buffers, initialized, late, resets, missed, remade, blocked>>

\* The engine replaces the buffers, if nobody holds them.
Replaces ==
  /\ target = NoView
  /\ buffers < MaxResizes /\ buffers' = buffers + 1
  /\ UNCHANGED <<target, initialized, late, resets, remade, blocked>>

Refuses ==
  /\ blocked' = (blocked \/ target # NoView)
  /\ UNCHANGED <<buffers, target, initialized, late, resets, remade>>

\* A call without a trampoline is not made, and counts as a success.
Skipped ==
  /\ WasReset("resize_buffers")
  /\ UNCHANGED <<buffers, target, initialized, late, resets, remade, blocked>>

EngineResizes ==
  \/ Goes("resizing", "resized") /\ (Replaces \/ Skipped) /\ UNCHANGED missed
  \/ Goes("resizing", "out") /\ Refuses /\ missed' = TRUE

ResizeEnds ==
  /\ initialized
  /\ Goes("resized", "out")
  /\ CreateView
  /\ UNCHANGED <<buffers, initialized, late, resets, remade, blocked>>

\* Before the first frame there is no device to make a view with, and create_rtv
\* does not ask: it crashes as soon as it gets a buffer.
ResizeEndsEarly ==
  /\ ~initialized
  /\ Goes("resized", "crashed") \/ Goes("resized", "out")
  /\ UNCHANGED <<buffers, target, initialized, late, resets, missed, remade, blocked>>

\* After the detach the game resizes alone.
GameResizes ==
  /\ WasReset("resize_buffers") /\ frame = "out"
  /\ Replaces \/ Refuses
  /\ UNCHANGED <<frame, missed>>

-----------------------------------------------------------------------------
\* jmp::reset of a late hook, enabled or not.
ClearedIfOn(h) == IF late[h] = "on" THEN "none" ELSE late[h]
Cleared(h) == "none"

Detach ==
  /\ frame # "crashed"
  /\ resets < Len(Resets) /\ resets' = resets + 1
  /\ late' = [h \in Late |-> IF h = Resets[resets + 1] THEN Cleared(h) ELSE late[h]]
  /\ UNCHANGED <<buffers, target, initialized, frame, missed, remade, blocked>>

Next ==
  \/ FirstPresent \/ Present \/ HookWindow \/ HookTargets
  \/ ResizeBegins \/ EngineResizes \/ ResizeEnds \/ ResizeEndsEarly
  \/ GameResizes \/ Detach

Spec == Init /\ [][Next]_vars

-----------------------------------------------------------------------------
TypeOK ==
  /\ buffers \in 0 .. MaxResizes /\ target \in {NoView} \cup 0 .. buffers
  /\ late \in [Late -> {"none", "made", "on"}]
  /\ resets \in 0 .. Len(Resets) /\ remade \subseteq Late
  /\ {initialized, missed, blocked} \subseteq BOOLEAN

\* context.cpp:75-150, cheat.cpp:154-165: frames are drawn to the buffers that
\* the swap chain has now, and to none only after an attempt to get them failed;
\* the library stands in the way of no resize while it is attached, and crashes
\* in none after the first frame.
TargetFollowsBuffers ==
  /\ target \in {NoView, buffers}
  /\ initialized /\ target = NoView => missed \/ frame \in {"resizing", "resized"}
  /\ blocked => WasReset("resize_buffers")
  /\ frame = "crashed" => ~initialized

\* cheat.cpp:84-128, 134-149: after the detach the hooks that frames make late are
\* gone, unless a frame that went on meanwhile made them again.
LateHooksGone ==
  resets = Len(Resets) => \A h \in Late \ remade : late[h] = "none"
=============================================================================
