----------------------------- MODULE Prediction -----------------------------
(***************************************************************************)
(* prediction::simulate: the engine runs the current command ahead of time,*)
(* a callback of the combat code reads what would come of it, and then the *)
(* engine's memory is put back.  Every engine call in between, and the     *)
(* callback, may fault; the exception is swallowed.                        *)
(*                                                                         *)
(* All calls come from create_move, one after the other; what the engine   *)
(* does between two of them is left out.                                   *)
(***************************************************************************)
\* The memory involved, grouped by who writes it.
Own == {"clock", "slot", "tick", "player"}     \* written by simulate to set the scene
Ground == {"ground"}                           \* the word at movement_services + 408
Moved == {"pawn", "movement", "weapon"}        \* written by the engine's movement code
Memory == Own \cup Ground \cup Moved

VARIABLES
  place,      \* where the call is; "idle" between calls
  memory,     \* what is in the memory: what the engine left there, or not
  entries,    \* m_entries of the guard: the memory saved
  predicting, \* the engine's prediction state
  pawnSet,    \* the engine predicts for the pawn that simulate set
  context,    \* the command's context is set up in the movement services
  read,       \* what the callback has written for its caller
  result,     \* what the last call returned
  lost        \* history: a fault was swallowed before the engine was told to stop

vars == <<place, memory, entries, predicting, pawnSet, context, read, result, lost>>
engine == <<predicting, pawnSet, context>>

Init ==
  /\ place = "idle"
  /\ memory = [c \in Memory |-> "engine"]
  /\ entries = {}
  /\ predicting = FALSE /\ pawnSet = FALSE /\ context = FALSE
  /\ read = "nothing"
  /\ result = FALSE
  /\ lost = FALSE

Goes(from, to) == place = from /\ place' = to

Writes(cells, by) == memory' = [c \in Memory |-> IF c \in cells THEN by ELSE memory[c]]

-----------------------------------------------------------------------------
\* A helper, a part of the player, or the layout of the origin is missing.
Refuse ==
  /\ Goes("idle", "idle")
  /\ result' = FALSE /\ read' = "nothing"
  /\ UNCHANGED <<memory, entries, engine, lost>>

\* The guard saves everything that it will put back.
SavedWithoutGround == Memory \ Ground
Saved == Memory

Begin ==
  /\ Goes("idle", "guarded")
  /\ entries' = Saved
  /\ read' = "nothing"
  /\ UNCHANGED <<memory, engine, result, lost>>

\* The clock, the players and the tick base are those of the next tick; the
\* prediction slot may be absent.
SetScene ==
  /\ Goes("guarded", "scene")
  /\ \E slot \in {{}, {"slot"}} : Writes((Own \ {"slot"}) \cup slot, "simulation")
  /\ UNCHANGED <<entries, engine, read, result, lost>>

SetPawn ==
  /\ Goes("scene", "pawn set")
  /\ pawnSet' = TRUE
  /\ UNCHANGED <<memory, entries, predicting, context, read, result, lost>>

SetState ==
  /\ Goes("pawn set", "predicting")
  /\ predicting' = TRUE
  /\ UNCHANGED <<memory, entries, pawnSet, context, read, result, lost>>

SetupContext ==
  /\ Goes("predicting", "context")
  /\ context' = TRUE
  /\ UNCHANGED <<memory, entries, predicting, pawnSet, read, result, lost>>

\* Without move data the call closes the simulation and returns.
NoMoveData ==
  /\ Goes("context", "close without a move")
  /\ UNCHANGED <<memory, entries, engine, read, result, lost>>

SetupMove ==
  /\ Goes("context", "move set up")
  /\ Writes(Ground, "simulation")
  /\ UNCHANGED <<entries, engine, read, result, lost>>

\* The movement, the weapon and the end of the move; then simulation_player is
\* nobody again.
Process ==
  /\ Goes("move set up", "close")
  /\ Writes(Moved \cup {"player"}, "simulation")
  /\ UNCHANGED <<entries, engine, read, result, lost>>

-----------------------------------------------------------------------------
\* The prediction state, the pawn and the context are given back in this order.
Closing == {"close", "close without a move"}
Closed(from) == IF from = "close" THEN "callback" ELSE "return"

ClearState ==
  /\ place \in Closing /\ predicting
  /\ predicting' = FALSE
  /\ UNCHANGED <<place, memory, entries, pawnSet, context, read, result, lost>>

ResetPawn ==
  /\ place \in Closing /\ ~predicting /\ pawnSet
  /\ pawnSet' = FALSE
  /\ UNCHANGED <<place, memory, entries, predicting, context, read, result, lost>>

CleanupContext ==
  /\ place \in Closing /\ ~predicting /\ ~pawnSet
  /\ context' = FALSE
  /\ place' = Closed(place)
  /\ UNCHANGED <<memory, entries, predicting, pawnSet, read, result, lost>>

\* The callback reads what the move made of the pawn, value after value.
CallbackStarts ==
  /\ Goes("callback", "callback")
  /\ read = "nothing" /\ read' = "partly"
  /\ UNCHANGED <<memory, entries, engine, result, lost>>

CallbackEnds ==
  /\ Goes("callback", "restore")
  /\ read = "partly" /\ read' = "all"
  /\ UNCHANGED <<memory, entries, engine, result, lost>>

\* What a step writes may be written in part when it faults.
Pending ==
  CASE place = "guarded" -> Own
    [] place = "context" -> Ground
    [] place = "move set up" -> Moved \cup {"player"}
    [] OTHER -> {}

Guarded == {"guarded", "scene", "pawn set", "predicting", "context", "move set up",
            "callback"} \cup Closing

\* The exception is swallowed wherever it is raised; nothing tells the engine
\* that the prediction is over.
Fault ==
  /\ place \in Guarded
  /\ place' = "swallowed"
  /\ \E written \in SUBSET Pending : Writes(written, "simulation")
  /\ lost' = (lost \/ predicting \/ pawnSet \/ context)
  /\ UNCHANGED <<entries, engine, read, result>>

\* The guard puts back what it saved: after the simulation, after a swallowed
\* exception, and from its destructor when the call returns early.
Restore ==
  /\ place \in {"restore", "swallowed", "return"}
  /\ place' = "idle"
  /\ Writes(entries, "engine")
  /\ entries' = {}
  /\ result' = (place = "restore")
  /\ UNCHANGED <<engine, read, lost>>

Next ==
  \/ Refuse \/ Begin \/ SetScene \/ SetPawn \/ SetState \/ SetupContext
  \/ NoMoveData \/ SetupMove \/ Process
  \/ ClearState \/ ResetPawn \/ CleanupContext
  \/ CallbackStarts \/ CallbackEnds \/ Fault \/ Restore

Spec == Init /\ [][Next]_vars

-----------------------------------------------------------------------------
TypeOK ==
  /\ place \in Guarded \cup {"idle", "restore", "swallowed", "return"}
  /\ memory \in [Memory -> {"engine", "simulation"}]
  /\ entries \subseteq Memory
  /\ {predicting, pawnSet, context, result, lost} \subseteq BOOLEAN
  /\ read \in {"nothing", "partly", "all"}

\* prediction.cpp:302-410: whichever way a call ends, the engine finds its own
\* memory again, and only an exception in the middle of a move leaves it in
\* prediction; meanwhile the callback reads the finished move, after the engine
\* was told that it is over and before the memory is put back.
LeavesEngineAsFound ==
  /\ place = "idle" => entries = {} /\ \A c \in Memory : memory[c] = "engine"
  /\ place \in {"idle", "callback"} => lost \/ ~(predicting \/ pawnSet \/ context)
  /\ place = "callback" => \A c \in Moved : memory[c] = "simulation"
  /\ place = "idle" /\ result => read = "all"
=============================================================================
