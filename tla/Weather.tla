------------------------------- MODULE Weather -------------------------------
(***************************************************************************)
(* The particle effect of the weather: the engine's particle manager owns  *)
(* the effects and hands out their indices; the library remembers one index*)
(* and makes the effect anew when the weather or the round changes.        *)
(***************************************************************************)
EXTENDS Naturals

CONSTANTS
  Effects,   \* indices of particle effects, without NoEffect
  NoEffect,  \* invalid_effect_index
  Types,     \* types of weather
  Rounds     \* round start times, with 0

ASSUME EffectAssumption == NoEffect \notin Effects /\ 0 \in Rounds /\ Types # {}

VARIABLES
  effects,   \* what the particle manager has under each index
  round,     \* the game's round start time
  type,      \* the setting
  effect,    \* m_effect_index
  lastType,  \* m_last_particle_type
  lastRound, \* m_last_round_start_time
  leaked     \* history: an effect was forgotten while there was no manager

weatherVars == <<effects, round, type, effect, lastType, lastRound, leaked>>

None == "none"

WeatherInit ==
  /\ effects = [e \in Effects |-> "free"]
  /\ round = 0 /\ lastRound = 0
  /\ type = CHOOSE t \in Types : TRUE
  /\ lastType = None
  /\ effect = NoEffect
  /\ leaked = FALSE

ChooseType(t) ==
  /\ type' = t
  /\ UNCHANGED <<effects, round, effect, lastType, lastRound, leaked>>

\* Mutated forms used to test the properties stand before what they mutate.
\* A new type comes on top of the old effect.
ReleasedSameType(has) ==
  IF effect = NoEffect \/ ~has \/ lastType # type THEN effects
  ELSE [effects EXCEPT ![effect] = "free"]

\* release_particles destroys whatever has the remembered index, if it finds
\* the manager, and forgets it in any case.
Released(has) ==
  IF effect = NoEffect \/ ~has THEN effects ELSE [effects EXCEPT ![effect] = "free"]

Release(has) ==
  /\ effects' = Released(has)
  /\ effect' = NoEffect
  /\ leaked' = (leaked \/ (effect # NoEffect /\ ~has /\ effects[effect] = "own"))

Changed == round # lastRound \/ (effect # NoEffect /\ lastType # type)

\* create_particle, with the manager there and an index handed out or not.
Create(before, has) ==
  \E e \in {NoEffect} \cup {k \in Effects : has /\ before[k] = "free"} :
    /\ effect' = e
    /\ effects' = [k \in Effects |-> IF k = e THEN "own" ELSE before[k]]
    /\ lastType' = IF has THEN type ELSE IF effect = NoEffect THEN lastType ELSE None

\* on_frame_stage_notify; rules and has tell if the game's rules and the
\* particle manager are found.
WeatherFrame(on, rules, has) ==
  /\ IF ~on \/ ~rules
     THEN /\ Release(has)
          /\ lastType' = IF ~on \/ effect # NoEffect THEN None ELSE lastType
          /\ UNCHANGED lastRound
     ELSE /\ lastRound' = round
          /\ IF effect # NoEffect /\ ~Changed
             THEN UNCHANGED <<effects, effect, lastType, leaked>>
             ELSE /\ Create(IF Changed THEN Released(has) ELSE effects, has)
                  /\ leaked' = (leaked \/ (effect # NoEffect /\ ~has /\ effects[effect] = "own"))
  /\ UNCHANGED <<round, type>>

\* release, at the detach.
WeatherRelease(has) ==
  /\ Release(has)
  /\ lastType' = IF effect # NoEffect THEN None ELSE lastType
  /\ UNCHANGED <<round, type, lastRound>>

-----------------------------------------------------------------------------
EngineStarts(e) ==
  /\ effects[e] = "free"
  /\ effects' = [effects EXCEPT ![e] = "foreign"]
  /\ UNCHANGED <<round, type, effect, lastType, lastRound, leaked>>

EngineStops(e) ==
  /\ effects[e] = "foreign"
  /\ effects' = [effects EXCEPT ![e] = "free"]
  /\ UNCHANGED <<round, type, effect, lastType, lastRound, leaked>>

EngineStopsAll ==
  /\ effects' = [e \in Effects |-> "free"]
  /\ leaked' = FALSE
  /\ UNCHANGED <<round, type, effect, lastType, lastRound>>

NewRound(t) ==
  /\ round' = t
  /\ UNCHANGED <<effects, type, effect, lastType, lastRound, leaked>>
=============================================================================
