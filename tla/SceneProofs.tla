----------------------------- MODULE SceneProofs -----------------------------
(***************************************************************************)
(* What the library keeps in the engine across frames: the four safety     *)
(* properties of Scene, for any set of players, addresses, managers,       *)
(* effects and rounds.  Ghosts, light and weather have an invariant each,  *)
(* and what the library has left behind at the end follows from them.      *)
(***************************************************************************)
EXTENDS Scene, TLAPS

USE ManagerAssumption, EffectAssumption

Attached == {"attached", "ghosts released", "released", "gone"}

-----------------------------------------------------------------------------
(***************************************************************************)
(* The ghosts.                                                             *)
(***************************************************************************)

\* What is remembered is what is there, once.
GhostsMatch ==
  /\ Own = {g.at : g \in ghosts}
  /\ \A g, h \in ghosts : g.at = h.at \/ (g.kind = h.kind /\ g.pawn = h.pawn) => g = h

\* The hooks need not be there for it: without them nothing changes the ghosts.
GhostInv ==
  /\ mesh \in [Addresses -> {"free", "own", "foreign", "dying"}]
  /\ ghosts \subseteq Ghost
  /\ pending \subseteq Pawns
  /\ ~outlived => GhostsMatch

\* An object that is destroyed is the library's own no more, and the others stay.
LEMMA LeftOwn ==
  ASSUME mesh \in [Addresses -> {"free", "own", "foreign", "dying"}], NEW gone, NEW a \in Addresses
  PROVE  /\ Left(gone)[a] \in {"free", "own", "foreign", "dying"}
         /\ Left(gone)[a] = "own" <=> mesh[a] = "own" /\ ~\E g \in gone : g.at = a
BY DEF Left, Destroyed

\* Created objects have free addresses, one each, and kind and pawn as asked.
LEMMA CreatedGhosts ==
  ASSUME NEW asked, asked \subseteq Kinds \X Pawns, NEW new \in Created(asked)
  PROVE  /\ new \subseteq Ghost
         /\ \A g \in new : mesh[g.at] = "free" /\ <<g.kind, g.pawn>> \in asked
         /\ \A g, h \in new : g.at = h.at \/ (g.kind = h.kind /\ g.pawn = h.pawn) => g = h
<1> DEFINE Free == {a \in Addresses : mesh[a] = "free"}
           Objects(made, f) == {[kind |-> x[1], pawn |-> x[2], at |-> f[x]] : x \in made}
<1>1. PICK made \in SUBSET asked : \E f \in Injection(made, Free) : new = Objects(made, f)
  <2>1. Created(asked) = UNION {{Objects(made, f) : f \in Injection(made, Free)} : made \in SUBSET asked}
    BY DEF Created
  <2> HIDE DEF Objects, Free
  <2> QED
    BY <2>1
<1>2. PICK f \in Injection(made, Free) : new = Objects(made, f)
  BY <1>1
<1>3. /\ f \in [made -> Free]
      /\ \A x, y \in made : f[x] = f[y] => x = y
  BY DEF Injection, IsInjective
<1>4. \A x \in made : x = <<x[1], x[2]>> /\ x[1] \in Kinds /\ x[2] \in Pawns
  OBVIOUS
<1> QED
  BY <1>2, <1>3, <1>4 DEF Ghost

LEMMA GhostFrameInv ==
  ASSUME GhostInv, NEW alive \in BOOLEAN, NEW wanted \in SUBSET Pawns, NEW faded,
         outlived' = outlived, GhostFrame(on, alive, wanted, faded)
  PROVE  GhostInv'
<1> DEFINE traced == IF "backtrack" \in on /\ alive THEN wanted ELSE {}
           shot == IF "onshot" \in on THEN pending ELSE {}
           Stays(g) == IF g.kind = "backtrack" THEN g.pawn \in traced
                       ELSE "onshot" \in on /\ g.pawn \notin pending \cup faded
           gone == {g \in ghosts : ~Stays(g)}
           traces == {p \in traced : ~\E g \in ghosts : g.kind = "backtrack" /\ g.pawn = p}
           asked == ({"backtrack"} \X traces) \cup ({"onshot"} \X shot)
<1>1. PICK new \in Created(asked) :
        /\ ghosts' = (ghosts \ gone) \cup new
        /\ mesh' = [a \in Addresses |-> IF \E g \in new : g.at = a THEN "own" ELSE Left(gone)[a]]
        /\ pending' = {}
  BY DEF GhostFrame
<1>2. /\ new \subseteq Ghost
      /\ \A g \in new : mesh[g.at] = "free" /\ <<g.kind, g.pawn>> \in asked
      /\ \A g, h \in new : g.at = h.at \/ (g.kind = h.kind /\ g.pawn = h.pawn) => g = h
  <2>1. asked \subseteq Kinds \X Pawns
    BY DEF GhostInv, Kinds
  <2> HIDE DEF asked
  <2> QED
    BY <2>1, CreatedGhosts
\* A new ghost takes no pawn of its kind that an old one keeps.
<1>3. \A g \in new, h \in ghosts \ gone : ~(g.kind = h.kind /\ g.pawn = h.pawn)
  BY <1>2 DEF GhostInv, Ghost, Kinds
<1> HIDE DEF gone, asked
<1>4. gone \subseteq ghosts
  BY DEF gone
<1>5. /\ mesh' \in [Addresses -> {"free", "own", "foreign", "dying"}]
      /\ ghosts' \subseteq Ghost
  BY <1>1, <1>2, LeftOwn DEF GhostInv
<1>6. ASSUME ~outlived PROVE GhostsMatch'
  <2>1. GhostsMatch
    BY <1>6 DEF GhostInv
  <2>2. \A a \in Addresses :
          mesh'[a] = "own" <=> \/ \E g \in new : g.at = a
                               \/ mesh[a] = "own" /\ ~\E g \in gone : g.at = a
    BY <1>1, LeftOwn DEF GhostInv
  <2>3. \A a \in Addresses : mesh[a] = "own" <=> \E g \in ghosts : g.at = a
    BY <2>1 DEF GhostsMatch, Own
  <2>4. \A a \in Addresses :
          mesh[a] = "own" /\ ~(\E g \in gone : g.at = a) <=> \E g \in ghosts \ gone : g.at = a
    BY <1>4, <2>1, <2>3 DEF GhostsMatch
  <2>5. \A a \in Addresses : mesh'[a] = "own" <=> \E g \in ghosts' : g.at = a
    BY <1>1, <2>2, <2>4
  <2>6. Own' = {g.at : g \in ghosts'}
    BY <1>5, <2>5 DEF Own, Ghost
  <2>7. \A g \in new, h \in ghosts \ gone : g.at # h.at
    BY <1>2, <2>3 DEF GhostInv, Ghost
  <2>8. \A g, h \in ghosts' : g.at = h.at \/ (g.kind = h.kind /\ g.pawn = h.pawn) => g = h
    BY <1>1, <1>2, <1>3, <2>1, <2>7 DEF GhostsMatch
  <2> QED
    BY <2>6, <2>8 DEF GhostsMatch
<1> QED
  BY <1>1, <1>5, <1>6 DEF GhostInv

LEMMA GhostShutdownInv ==
  ASSUME GhostInv, outlived' = outlived, GhostShutdown
  PROVE  GhostInv'
<1>1. ghosts' = {} /\ pending' = {} /\ mesh' = Left(ghosts)
  BY DEF GhostShutdown
<1>2. mesh' \in [Addresses -> {"free", "own", "foreign", "dying"}]
  BY <1>1, LeftOwn DEF GhostInv, Left, Destroyed
<1>3. ASSUME ~outlived PROVE Own' = {}
  BY <1>1, <1>3, LeftOwn DEF GhostInv, GhostsMatch, Own
<1> QED
  BY <1>1, <1>2, <1>3 DEF GhostInv, GhostsMatch

-----------------------------------------------------------------------------
(***************************************************************************)
(* The light.                                                              *)
(***************************************************************************)

\* LightOwned is about lit entries.  A dressed one is lit in the next step, an
\* entry implies a manager, and a light that was lost track of has no remembered
\* scene object.
LightInv ==
  /\ level \in {"none", "running", "ending"}
  /\ manager \in Managers \cup {NoManager}
  /\ level = "none" => manager = NoManager
  /\ light # "none" => manager # NoManager
  /\ light \in Shown /\ ~faulted => lightEntry /\ lightManager = manager
  /\ level = "ending" /\ ~faulted => light \notin Shown
  /\ lightSeen /\ ~expired => light = "lit"
  /\ faulted => ~lightSeen

LEMMA RetireInv ==
  ASSUME LightInv, Retire, level' \in {"running", "ending"} \/ level' = level
  PROVE  LightInv'
BY DEF LightInv, Retire, Forget, Shown

LEMMA LoseInv ==
  ASSUME LightInv, Lose, level # "ending", level' = level
  PROVE  LightInv'
<1>1. faulted' <=> faulted \/ light \in Shown
  BY Zenon DEF Lose
<1> QED
  BY <1>1 DEF LightInv, Lose, Forget, Shown

LEMMA SubmitInv ==
  ASSUME LightInv, level # "ending", level' = level,
         NEW given \in BOOLEAN, NEW placed \in BOOLEAN, NEW written \in BOOLEAN,
         manager # NoManager, Submit(manager, given, placed, written)
  PROVE  LightInv'
<1> DEFINE current == Current(manager)
           slot == IF current THEN light ELSE IF given THEN "blank" ELSE light
<1>1. UNCHANGED manager /\ (slot \in Shown => current /\ slot = light) /\ (slot = "lit" => light = "lit")
  BY DEF Submit, Current, Shown
<1>2. current => slot = light
  OBVIOUS
<1>3. \/ /\ light' = slot /\ lightManager' = manager
         /\ current => lightEntry'
         /\ lightSeen' => current /\ lightSeen
         /\ lightSeen' /\ ~expired' => ~expired
         /\ ~faulted'
      \/ /\ light' = IF slot = "blank" THEN "dressed" ELSE slot
         /\ lightManager' = manager /\ lightEntry' /\ (lightSeen' <=> slot = "lit")
         /\ ~faulted'
      \/ light' = slot /\ Forget /\ (faulted' <=> slot \in Shown)
  BY Zenon DEF Submit
<1> HIDE DEF current, slot
<1> QED
  BY <1>1, <1>2, <1>3 DEF LightInv, Forget, Shown

LEMMA LightFrameInv ==
  ASSUME LightInv, level # "ending", level' = level,
         NEW read \in {manager, NoManager}, NEW alive \in BOOLEAN,
         NEW given \in BOOLEAN, NEW placed \in BOOLEAN, NEW written \in BOOLEAN,
         LightFrame(read, alive, given, placed, written)
  PROVE  LightInv'
<1>1. CASE RetireIfSame(read)
  BY <1>1, RetireInv, LoseInv DEF RetireIfSame
<1>2. CASE Lose
  BY <1>2, LoseInv
<1>3. CASE read # NoManager /\ Submit(read, given, placed, written)
  BY <1>3, SubmitInv
<1> QED
  BY <1>1, <1>2, <1>3 DEF LightFrame

\* The engine's steps, of which a new manager and the teardown touch the level.
LEMMA EngineLightInv ==
  ASSUME LightInv
  PROVE  /\ EngineLights \/ EngineExpires => (level' = level => LightInv')
         /\ \A enabled : Publish(enabled) => (level' = level => LightInv')
         /\ EngineManager(NoManager) /\ level = "ending" /\ level' = "none" => LightInv'
         /\ \A m \in Managers :
              EngineManager(m) /\ level = "none" /\ level' = "running" => LightInv'
<1>1. ASSUME EngineLights, level' = level PROVE LightInv'
  BY <1>1 DEF LightInv, EngineLights, remembered, Shown
<1>2. ASSUME EngineExpires, level' = level PROVE LightInv'
  <2>1. expired' <=> lightSeen
    BY <1>2, Zenon DEF EngineExpires
  <2> QED
    BY <1>2, <2>1 DEF LightInv, EngineExpires, remembered, Shown
<1>3. ASSUME NEW enabled, Publish(enabled), level' = level PROVE LightInv'
  BY <1>3 DEF LightInv, Publish, remembered, Shown
<1>4. ASSUME EngineManager(NoManager), level = "ending", level' = "none" PROVE LightInv'
  BY <1>4 DEF LightInv, EngineManager, remembered, Shown
<1>5. ASSUME NEW m \in Managers, EngineManager(m), level = "none", level' = "running"
      PROVE  LightInv'
  BY <1>5 DEF LightInv, EngineManager, remembered, Shown
<1> QED
  BY <1>1, <1>2, <1>3, <1>4, <1>5

-----------------------------------------------------------------------------
(***************************************************************************)
(* The weather.                                                            *)
(***************************************************************************)

OwnEffects == {e \in Effects : effects[e] = "own"}

WeatherInv ==
  /\ effects \in [Effects -> {"free", "own", "foreign"}]
  /\ effect \in Effects \cup {NoEffect}
  /\ ~outlived /\ ~leaked => OwnEffects = {effect} \ {NoEffect}

\* What was released is destroyed, or its loss is on record.
LEMMA ReleasedInv ==
  ASSUME WeatherInv, NEW has \in BOOLEAN
  PROVE  /\ Released(has) \in [Effects -> {"free", "own", "foreign"}]
         /\ ~outlived /\ ~leaked /\ ~(effect # NoEffect /\ ~has /\ effects[effect] = "own") =>
              \A e \in Effects : Released(has)[e] # "own"
BY DEF WeatherInv, Released, OwnEffects

LEMMA LeakedKept ==
  ASSUME NEW has \in BOOLEAN,
         leaked' = (leaked \/ (effect # NoEffect /\ ~has /\ effects[effect] = "own")), ~leaked'
  PROVE  ~leaked /\ ~(effect # NoEffect /\ ~has /\ effects[effect] = "own")
BY Zenon

LEMMA ReleaseInv ==
  ASSUME WeatherInv, NEW has \in BOOLEAN, Release(has), outlived' = outlived
  PROVE  WeatherInv' /\ effect' = NoEffect
BY ReleasedInv, LeakedKept DEF WeatherInv, OwnEffects, Release

LEMMA WeatherFrameInv ==
  ASSUME WeatherInv, NEW switched \in BOOLEAN, NEW rules \in BOOLEAN, NEW has \in BOOLEAN,
         WeatherFrame(switched, rules, has), outlived' = outlived
  PROVE  WeatherInv'
<1>1. CASE ~switched \/ ~rules
  BY <1>1, ReleaseInv DEF WeatherFrame
<1>2. CASE UNCHANGED <<effects, effect, leaked>>
  BY <1>2 DEF WeatherInv, OwnEffects
<1>3. CASE /\ Create(IF Changed THEN Released(has) ELSE effects, has)
           /\ leaked' = (leaked \/ (effect # NoEffect /\ ~has /\ effects[effect] = "own"))
           /\ Changed \/ effect = NoEffect
  <2> DEFINE before == IF Changed THEN Released(has) ELSE effects
  <2>1. PICK e \in {NoEffect} \cup {k \in Effects : has /\ before[k] = "free"} :
          /\ effect' = e
          /\ effects' = [k \in Effects |-> IF k = e THEN "own" ELSE before[k]]
    BY <1>3 DEF Create
  <2>2. before \in [Effects -> {"free", "own", "foreign"}]
    BY ReleasedInv DEF WeatherInv
  <2>3. ASSUME ~outlived, ~leaked' PROVE \A k \in Effects : before[k] # "own"
    BY <1>3, <2>3, ReleasedInv, LeakedKept DEF WeatherInv, OwnEffects
  <2> HIDE DEF before
  <2> QED
    BY <2>1, <2>2, <2>3 DEF WeatherInv, OwnEffects
<1> QED
  BY <1>1, <1>2, <1>3 DEF WeatherFrame

\* The engine's own effects, and the game's rounds, do not touch the library's.
LEMMA EngineWeatherInv ==
  ASSUME WeatherInv, outlived' = outlived
  PROVE  /\ \A e \in Effects : EngineStarts(e) \/ EngineStops(e) => WeatherInv'
         /\ \A t : NewRound(t) \/ ChooseType(t) => WeatherInv'
<1>1. ASSUME NEW e \in Effects, EngineStarts(e) PROVE WeatherInv'
  BY <1>1 DEF WeatherInv, OwnEffects, EngineStarts
<1>2. ASSUME NEW e \in Effects, EngineStops(e) PROVE WeatherInv'
  BY <1>2 DEF WeatherInv, OwnEffects, EngineStops
<1>3. ASSUME NEW t, NewRound(t) \/ ChooseType(t) PROVE WeatherInv'
  BY <1>3 DEF WeatherInv, OwnEffects, NewRound, ChooseType
<1> QED
  BY <1>1, <1>2, <1>3

\* Nor do its objects and the shots that are queued change the ghosts.
LEMMA EngineGhostInv ==
  ASSUME GhostInv, outlived' = outlived
  PROVE  /\ \A a \in Addresses : EngineMakes(a) \/ EngineFrees(a) => GhostInv'
         /\ \A p \in Pawns : \A switched : Push(p, switched) => GhostInv'
<1>1. ASSUME NEW a \in Addresses, EngineMakes(a) PROVE GhostInv'
  <2>1. Own' = Own
    BY <1>1 DEF GhostInv, Own, EngineMakes
  <2> QED
    BY <1>1, <2>1 DEF GhostInv, GhostsMatch, EngineMakes
<1>2. ASSUME NEW a \in Addresses, EngineFrees(a) PROVE GhostInv'
  <2>1. Own' = Own
    BY <1>2 DEF GhostInv, Own, EngineFrees
  <2> QED
    BY <1>2, <2>1 DEF GhostInv, GhostsMatch, EngineFrees
<1>3. ASSUME NEW p \in Pawns, NEW switched, Push(p, switched) PROVE GhostInv'
  BY <1>3 DEF GhostInv, GhostsMatch, Own, Push
<1> QED
  BY <1>1, <1>2, <1>3

-----------------------------------------------------------------------------
(***************************************************************************)
(* The scene.                                                              *)
(***************************************************************************)

\* What was released stays released, unless a frame made something after it.
LeftInv ==
  /\ attached # "attached" /\ ~late => ghosts = {}
  /\ attached \in {"released", "gone"} /\ ~late => effect = NoEffect

SceneInv ==
  /\ players \subseteq Pawns
  /\ attached \in Attached
  /\ GhostInv
  /\ LightInv
  /\ WeatherInv
  /\ LeftInv

LEMMA SceneInit == Init => SceneInv
<1> SUFFICES ASSUME Init PROVE SceneInv
  OBVIOUS
<1>1. GhostInv
  BY DEF Init, GhostInit, GhostInv, GhostsMatch, Own
<1>2. LightInv
  BY DEF Init, LightInit, LightInv, Shown
<1>3. WeatherInv
  BY DEF Init, WeatherInit, WeatherInv, OwnEffects
<1> QED
  BY <1>1, <1>2, <1>3 DEF SceneInv, LeftInv, Init, GhostInit, Attached

\* The parts that a step does not touch.
LEMMA GhostsStay ==
  ASSUME GhostInv, UNCHANGED ghostVars, outlived' = outlived
  PROVE  GhostInv'
BY DEF GhostInv, GhostsMatch, Own, ghostVars

LEMMA LightStays ==
  ASSUME LightInv, UNCHANGED lightVars, level' = level
  PROVE  LightInv'
BY DEF LightInv, lightVars

LEMMA WeatherStays ==
  ASSUME WeatherInv, UNCHANGED weatherVars, outlived' = outlived
  PROVE  WeatherInv'
BY DEF WeatherInv, OwnEffects, weatherVars

LEMMA Stage6Inv ==
  ASSUME SceneInv, NEW alive \in BOOLEAN, NEW camera \in BOOLEAN, Stage6(alive, camera)
  PROVE  SceneInv'
<1> USE DEF SceneInv
<1>1. LightInv'
  BY LightFrameInv DEF Stage6
<1>2. GhostInv'
  <2>1. CASE UNCHANGED ghostVars
    BY <2>1, GhostsStay DEF Stage6
  <2>2. CASE \E wanted \in SUBSET players, faded \in SUBSET {g.pawn : g \in ghosts} :
               GhostFrame(on, alive, wanted, faded)
    <3>1. PICK wanted \in SUBSET players, faded \in SUBSET {g.pawn : g \in ghosts} :
            GhostFrame(on, alive, wanted, faded)
      BY <2>2
    <3>2. wanted \in SUBSET Pawns /\ outlived' = outlived
      BY DEF Stage6
    <3> QED
      BY <3>1, <3>2, GhostFrameInv
  <2> QED
    BY <2>1, <2>2 DEF Stage6
<1>3. WeatherInv'
  BY WeatherStays DEF Stage6
<1>4. late' <=> late \/ (attached # "attached" /\ ghosts' # {})
  BY Zenon DEF Stage6
<1>5. LeftInv'
  BY <1>4 DEF LeftInv, Stage6, weatherVars
<1> QED
  BY <1>1, <1>2, <1>3, <1>5 DEF Stage6

LEMMA Stage7Inv ==
  ASSUME SceneInv, Stage7
  PROVE  SceneInv'
<1> USE DEF SceneInv
<1>1. PICK rules \in BOOLEAN, has \in BOOLEAN : WeatherFrame("weather" \in on, rules, has)
  BY DEF Stage7
<1>2. WeatherInv'
  <2>1. ("weather" \in on) \in BOOLEAN /\ outlived' = outlived
    BY DEF Stage7
  <2> QED
    BY <1>1, <2>1, WeatherFrameInv
<1>3. late' <=> late \/ (attached = "released" /\ effect' # NoEffect)
  BY Zenon DEF Stage7
<1>4. LeftInv'
  BY <1>3 DEF LeftInv, Stage7, Hooked, ghostVars
<1> QED
  BY <1>2, <1>4, GhostsStay, LightStays DEF Stage7

LEMMA LevelInv ==
  ASSUME SceneInv, LevelShutdown \/ TearDown \/ LevelStarts
  PROVE  SceneInv'
<1> USE DEF SceneInv
<1>1. CASE LevelShutdown
  BY <1>1, RetireInv, GhostsStay, WeatherStays
     DEF LevelShutdown, LightLevelShutdown, LeftInv, ghostVars, weatherVars
<1>2. CASE TearDown
  <2>1. outlived' <=> outlived \/ ghosts # {} \/ effect # NoEffect
    BY <1>2, Zenon DEF TearDown
  <2>2. GhostInv'
    BY <1>2, <2>1 DEF TearDown, EngineFreesAll, GhostInv, GhostsMatch, Own
  <2>3. WeatherInv'
    BY <1>2, <2>1 DEF TearDown, EngineStopsAll, WeatherInv, OwnEffects
  <2>4. LightInv'
    BY <1>2, EngineLightInv DEF TearDown
  <2>5. LeftInv'
    BY <1>2 DEF TearDown, EngineFreesAll, EngineStopsAll, LeftInv
  <2> QED
    BY <1>2, <2>2, <2>3, <2>4, <2>5 DEF TearDown
<1>3. CASE LevelStarts
  BY <1>3, EngineLightInv, GhostsStay, WeatherStays
     DEF LevelStarts, LeftInv, ghostVars, weatherVars
<1> QED
  BY <1>1, <1>2, <1>3

LEMMA DetachInv ==
  ASSUME SceneInv, Detach
  PROVE  SceneInv'
<1> USE DEF SceneInv
<1>1. LightInv'
  BY LightStays DEF Detach
<1>2. CASE attached = "attached" /\ attached' = "ghosts released" /\ GhostShutdown /\ UNCHANGED weatherVars
  <2>1. GhostInv' /\ WeatherInv'
    BY <1>2, GhostShutdownInv, WeatherStays DEF Detach
  <2> QED
    BY <1>1, <1>2, <2>1 DEF Detach, GhostShutdown, LeftInv, Attached
<1>3. CASE /\ attached = "ghosts released" /\ attached' = "released"
           /\ \E has \in BOOLEAN : WeatherRelease(has)
           /\ UNCHANGED ghostVars
  <2>1. GhostInv'
    BY <1>3, GhostsStay DEF Detach
  <2>2. WeatherInv' /\ effect' = NoEffect
    BY <1>3, ReleaseInv DEF Detach, WeatherRelease
  <2> QED
    BY <1>1, <1>3, <2>1, <2>2 DEF Detach, LeftInv, Attached, ghostVars
<1>4. CASE attached = "released" /\ attached' = "gone" /\ UNCHANGED <<ghostVars, weatherVars>>
  <2>1. GhostInv' /\ WeatherInv'
    BY <1>4, GhostsStay, WeatherStays DEF Detach
  <2> QED
    BY <1>1, <1>4, <2>1 DEF Detach, LeftInv, Attached, ghostVars, weatherVars
<1> QED
  BY <1>2, <1>3, <1>4 DEF Detach

LEMMA EngineStepInv ==
  ASSUME SceneInv, EngineStep
  PROVE  SceneInv'
<1> USE DEF SceneInv
<1>1. UNCHANGED sceneVars
  BY DEF EngineStep
<1>2. CASE \E a \in Addresses : (EngineMakes(a) \/ EngineFrees(a)) /\ UNCHANGED <<lightVars, weatherVars>>
  <2>1. GhostInv' /\ LightInv' /\ WeatherInv'
    BY <1>1, <1>2, EngineGhostInv, LightStays, WeatherStays DEF sceneVars
  <2>2. LeftInv'
    BY <1>1, <1>2 DEF LeftInv, sceneVars, weatherVars, EngineMakes, EngineFrees
  <2> QED
    BY <1>1, <2>1, <2>2 DEF sceneVars
<1>3. CASE (EngineLights \/ EngineExpires) /\ UNCHANGED <<ghostVars, weatherVars>>
  <2>1. GhostInv' /\ LightInv' /\ WeatherInv'
    BY <1>1, <1>3, EngineLightInv, GhostsStay, WeatherStays DEF sceneVars
  <2> QED
    BY <1>1, <1>3, <2>1 DEF LeftInv, sceneVars, weatherVars, ghostVars
<1>4. CASE /\ (\E e \in Effects : EngineStarts(e) \/ EngineStops(e)) \/ (\E t \in Rounds : NewRound(t))
           /\ UNCHANGED <<ghostVars, lightVars>>
  <2>1. GhostInv' /\ LightInv' /\ WeatherInv'
    BY <1>1, <1>4, EngineWeatherInv, GhostsStay, LightStays DEF sceneVars
  <2>2. LeftInv'
    BY <1>1, <1>4 DEF LeftInv, sceneVars, ghostVars, EngineStarts, EngineStops, NewRound
  <2> QED
    BY <1>1, <2>1, <2>2 DEF sceneVars
<1> QED
  BY <1>2, <1>3, <1>4 DEF EngineStep

LEMMA SceneNext ==
  ASSUME SceneInv, [Next]_vars
  PROVE  SceneInv'
<1> USE DEF SceneInv
<1>1. ASSUME NEW f \in used, Toggle(f) PROVE SceneInv'
  BY <1>1, GhostsStay, LightStays, WeatherStays
     DEF Toggle, LeftInv, ghostVars, weatherVars
<1>2. CASE Present
  BY <1>2, EngineLightInv, GhostsStay, WeatherStays
     DEF Present, LeftInv, ghostVars, weatherVars, sceneVars
<1>3. ASSUME NEW t \in Types, TypeChosen(t) PROVE SceneInv'
  <2>1. GhostInv' /\ LightInv' /\ WeatherInv'
    BY <1>3, EngineWeatherInv, GhostsStay, LightStays DEF TypeChosen, sceneVars
  <2> QED
    BY <1>3, <2>1 DEF TypeChosen, ChooseType, LeftInv, ghostVars, sceneVars
<1>4. ASSUME NEW p \in Pawns, CreateMove(p) PROVE SceneInv'
  <2>1. GhostInv' /\ LightInv' /\ WeatherInv'
    BY <1>4, EngineGhostInv, LightStays, WeatherStays DEF CreateMove, sceneVars
  <2> QED
    BY <1>4, <2>1 DEF CreateMove, Push, LeftInv, weatherVars, sceneVars
<1>5. CASE PlayersChange
  BY <1>5, GhostsStay, LightStays, WeatherStays
     DEF PlayersChange, LeftInv, ghostVars, weatherVars
<1>6. CASE UNCHANGED vars
  BY <1>6, GhostsStay, LightStays, WeatherStays
     DEF vars, sceneVars, LeftInv, ghostVars, weatherVars
<1> QED
  BY <1>1, <1>2, <1>3, <1>4, <1>5, <1>6,
     Stage6Inv, Stage7Inv, LevelInv, DetachInv, EngineStepInv DEF Next

LEMMA SceneInvariant == Spec => []SceneInv
<1>1. Init => SceneInv
  BY SceneInit
<1>2. SceneInv /\ [Next]_vars => SceneInv'
  BY SceneNext
<1> QED
  BY <1>1, <1>2, PTL DEF Spec

\* player.chams.cpp:341-617, cheat.cpp:614-622: as long as no ghost outlived its
\* level, the library's objects in the scene are the remembered ones, one for
\* each, whatever shots, deaths, failures to create and reused addresses do.
THEOREM SceneGhostsKnown == Spec => []GhostsKnown
<1>1. SceneInv => GhostsKnown
  BY DEF SceneInv, GhostInv, GhostsMatch, GhostsKnown
<1> QED
  BY <1>1, SceneInvariant, PTL

\* dlight.cpp:93-94, misc.hpp:440: the lit entry is the remembered one of the
\* present manager and is gone before the teardown, as long as no failed read or
\* write made the library forget it, and the scene object that render threads
\* recolour is the lit entry's until it expires.
THEOREM SceneLightOwned == Spec => []LightOwned
<1>1. SceneInv => LightOwned
  BY DEF SceneInv, LightInv, Shown, LightOwned
<1> QED
  BY <1>1, SceneInvariant, PTL

\* weather.cpp:32-41, 118-121: there is at most one effect, and the remembered
\* one, however settings, rounds and levels change.
THEOREM SceneOneEffect == Spec => []OneEffect
<1>1. SceneInv => OneEffect
  BY DEF SceneInv, WeatherInv, OwnEffects, OneEffect
<1> QED
  BY <1>1, SceneInvariant, PTL

\* entry.cpp:554-557: once the hooks are gone nothing of the library's is left,
\* unless a frame made it after the release that should have destroyed it.
THEOREM SceneLeavesNothing == Spec => []LeavesNothing
<1>1. SceneInv => LeavesNothing
  BY DEF SceneInv, GhostInv, GhostsMatch, WeatherInv, OwnEffects, LeftInv, Attached,
         Hooked, LeavesNothing
<1> QED
  BY <1>1, SceneInvariant, PTL
=============================================================================
