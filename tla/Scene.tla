-------------------------------- MODULE Scene --------------------------------
(***************************************************************************)
(* What the library keeps in the engine across frames - ghosts of players, *)
(* a light, a weather effect - under the hooks on the frame and on the end *)
(* of a level, and at the detach of the library, which another thread does *)
(* while frames go on.                                                     *)
(***************************************************************************)
EXTENDS SceneObjects, DynamicLight, Weather

VARIABLES
  level,     \* "none", "running", or "ending" between hook and teardown
  players,   \* the pawns in the game
  on,        \* the features that are switched on in the settings
  used,      \* bound: the features whose switch is touched
  attached,  \* how far the detach is
  outlived,  \* history: something was remembered when its level was torn down
  late       \* history: a frame made something during the detach

sceneVars == <<level, players, on, used, attached, outlived, late>>
vars == <<ghostVars, lightVars, weatherVars, sceneVars>>

Features == {Kinds, {"light"}, {"weather"}}

Init ==
  /\ GhostInit /\ LightInit /\ WeatherInit
  /\ level = "none" /\ players = {}
  /\ on = {} /\ used \in Features
  /\ attached = "attached"
  /\ outlived = FALSE /\ late = FALSE

Hooked == attached # "gone"
Running == level = "running"

-----------------------------------------------------------------------------
\* The menu, on the render thread.
Toggle(f) ==
  /\ on' = IF f \in on THEN on \ {f} ELSE on \cup {f}
  /\ UNCHANGED <<ghostVars, lightVars, weatherVars, level, players, used, attached, outlived, late>>

Present ==
  /\ Hooked
  /\ Publish("light" \in on)
  /\ UNCHANGED <<ghostVars, weatherVars, sceneVars>>

TypeChosen(t) ==
  /\ "weather" \in used
  /\ ChooseType(t)
  /\ UNCHANGED <<ghostVars, lightVars, sceneVars>>

-----------------------------------------------------------------------------
\* What a feature that is never switched on would read does not matter.
\* frame_stage_notify at stage 6: the light before the engine's part, the ghosts
\* after it, and these only with a local player and a camera.
Stage6(alive, camera) ==
  /\ Hooked /\ level # "ending"
  /\ alive \/ camera => Running
  /\ \E read \in {manager, NoManager}, given, placed, written \in BOOLEAN :
       /\ "light" \in used \/ (read = manager /\ given /\ placed /\ written)
       /\ LightFrame(read, alive, given, placed, written)
  /\ \/ /\ camera
        /\ \E wanted \in SUBSET players, faded \in SUBSET {g.pawn : g \in ghosts} :
             GhostFrame(on, alive, wanted, faded)
     \/ ~camera /\ UNCHANGED ghostVars
  /\ late' = (late \/ (attached # "attached" /\ ghosts' # {}))
  /\ UNCHANGED <<weatherVars, level, players, on, used, attached, outlived>>

\* At stage 7 the weather.
Stage7 ==
  /\ Hooked /\ Running
  /\ "weather" \in used
  /\ \E rules, has \in BOOLEAN : WeatherFrame("weather" \in on, rules, has)
  /\ late' = (late \/ (attached = "released" /\ effect' # NoEffect))
  /\ UNCHANGED <<ghostVars, lightVars, level, players, on, used, attached, outlived>>

CreateMove(p) ==
  /\ Hooked /\ Running
  /\ p \in players
  /\ Push(p, "onshot" \in on)
  /\ UNCHANGED <<lightVars, weatherVars, sceneVars>>

\* The hook on level_shutdown releases the light alone, then the engine tears
\* the level down.
LevelShutdown ==
  /\ Hooked /\ Running
  /\ level' = "ending"
  /\ LightLevelShutdown
  /\ UNCHANGED <<ghostVars, weatherVars, players, on, used, attached, outlived, late>>

TearDown ==
  /\ level = "ending"
  /\ level' = "none"
  /\ EngineFreesAll /\ EngineManager(NoManager) /\ EngineStopsAll
  /\ players' = {}
  /\ outlived' = (outlived \/ ghosts # {} \/ effect # NoEffect)
  /\ UNCHANGED <<on, used, attached, late>>

LevelStarts ==
  /\ level = "none"
  /\ level' = "running"
  /\ \E m \in Managers : EngineManager(m)
  /\ UNCHANGED <<ghostVars, weatherVars, players, on, used, attached, outlived, late>>

-----------------------------------------------------------------------------
\* DllMain at the detach, step by step on the thread that unloads the library.
Detach ==
  /\ \/ /\ attached = "attached" /\ attached' = "ghosts released"
        /\ GhostShutdown
        /\ UNCHANGED weatherVars
     \/ /\ attached = "ghosts released" /\ attached' = "released"
        /\ \E has \in BOOLEAN : WeatherRelease(has)
        /\ UNCHANGED ghostVars
     \/ /\ attached = "released" /\ attached' = "gone"
        /\ UNCHANGED <<ghostVars, weatherVars>>
  /\ UNCHANGED <<lightVars, level, players, on, used, outlived, late>>

\* The engine and the game, each with what the used features can see.
PlayersChange ==
  /\ Running /\ used = Kinds
  /\ players' \in SUBSET Pawns
  /\ UNCHANGED <<ghostVars, lightVars, weatherVars, level, on, used, attached, outlived, late>>

EngineStep ==
  /\ \/ /\ used = Kinds
        /\ \E a \in Addresses : EngineMakes(a) \/ EngineFrees(a)
        /\ UNCHANGED <<lightVars, weatherVars>>
     \/ /\ EngineLights \/ EngineExpires
        /\ UNCHANGED <<ghostVars, weatherVars>>
     \/ /\ "weather" \in used
        /\ \/ \E e \in Effects : EngineStarts(e) \/ EngineStops(e)
           \/ Running /\ \E t \in Rounds : NewRound(t)
        /\ UNCHANGED <<ghostVars, lightVars>>
  /\ UNCHANGED sceneVars

Next ==
  \/ \E f \in used : Toggle(f)
  \/ Present
  \/ \E t \in Types : TypeChosen(t)
  \/ \E alive, camera \in BOOLEAN : Stage6(alive, camera)
  \/ Stage7
  \/ \E p \in Pawns : CreateMove(p)
  \/ LevelShutdown \/ TearDown \/ LevelStarts
  \/ Detach
  \/ PlayersChange
  \/ EngineStep

Spec == Init /\ [][Next]_vars

-----------------------------------------------------------------------------
\* player.chams.cpp:341-617, cheat.cpp:614-622: every object the library has put
\* into the scene is remembered by exactly one entry of the two maps, through
\* which it is destroyed and recognised by the hook on the primitives, and an
\* entry's object is alive; until ghosts outlive their level.
GhostsKnown ==
  Hooked /\ ~outlived =>
    /\ Own = {g.at : g \in ghosts}
    /\ \A g, h \in ghosts : g.at = h.at \/ (g.kind = h.kind /\ g.pawn = h.pawn) => g = h

\* dlight.cpp:93-94, misc.hpp:440: a lit entry is the remembered one of the
\* present manager, and no lit entry is left for the teardown of its level,
\* unless a failed read or write made the library forget it; render threads
\* recolour its scene object and no other before it expires.
LightOwned ==
  /\ light = "lit" /\ ~faulted => lightEntry /\ lightManager = manager
  /\ level = "ending" /\ ~faulted => light # "lit"
  /\ lightSeen /\ ~expired => light = "lit"

\* weather.cpp:32-41, 118-121: however type, round and switch change there is at
\* most one effect of the weather, the remembered one, unless the particle
\* manager was missing at a release or the effect outlived its level.
OneEffect ==
  ~outlived /\ ~leaked => {e \in Effects : effects[e] = "own"} = {effect} \ {NoEffect}

\* entry.cpp:554-557: the library leaves no ghost and no effect behind, unless a
\* frame made one between the release and the removal of the hooks.
LeavesNothing ==
  ~Hooked /\ ~late /\ ~outlived /\ ~leaked =>
    Own = {} /\ \A e \in Effects : effects[e] # "own"

\* cheat.cpp:938: the feature-owned scene objects are released before the engine
\* tears their parents down.
ReleasedAtLevelEnd == level = "ending" => Own = {} /\ light # "lit"
=============================================================================
