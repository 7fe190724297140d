----------------------------- MODULE DynamicLight -----------------------------
(***************************************************************************)
(* The light at the local player's feet.  The engine's light manager owns  *)
(* an entry under the library's key, makes a scene object of it while it is*)
(* refreshed, and lets it expire.  The library remembers manager and entry *)
(* between frames; render threads recolour the remembered scene object.    *)
(***************************************************************************)
CONSTANTS
  Managers,   \* addresses the light manager can have
  NoManager   \* the null address

ASSUME ManagerAssumption == NoManager \notin Managers

VARIABLES
  manager,      \* the engine's light manager
  light,        \* its entry under k_light_key
  lightManager, \* m_manager
  lightEntry,   \* is m_entry an entry
  lightSeen,    \* is m_scene_object an object
  published,    \* m_config.enabled
  faulted,      \* history: an entry that is drawn was forgotten and not found again
  expired       \* history: the remembered scene object expired

lightVars == <<manager, light, lightManager, lightEntry, lightSeen, published, faulted, expired>>
remembered == <<lightManager, lightEntry, lightSeen>>

LightInit ==
  /\ manager = NoManager
  /\ light = "none"
  /\ lightManager = NoManager /\ lightEntry = FALSE /\ lightSeen = FALSE
  /\ published = FALSE
  /\ faulted = FALSE /\ expired = FALSE

\* on_present
Publish(enabled) ==
  /\ published' = enabled
  /\ UNCHANGED <<manager, light, remembered, faulted, expired>>

\* Entries that are drawn, or will be in the engine's part of the stage.
Shown == {"dressed", "lit"}

Forget == lightManager' = NoManager /\ lightEntry' = FALSE /\ lightSeen' = FALSE

Lose ==
  /\ Forget
  /\ expired' = FALSE
  /\ faulted' = (faulted \/ light \in Shown)
  /\ UNCHANGED <<manager, light, published>>

\* retire_entry: allocating the key again takes the scene object off its entry
\* and blanks it.
Retire ==
  /\ light' = IF lightEntry /\ lightManager # NoManager /\ light # "none" THEN "blank" ELSE light
  /\ Forget
  /\ expired' = FALSE
  /\ UNCHANGED <<manager, published, faulted>>

\* An entry of a manager that is not the remembered one is not touched.
RetireIfSame(read) == IF read = lightManager THEN Retire ELSE Lose

\* A manager or key other than the remembered one makes a new entry, or none
\* when the manager is full.
Current(read) == read = lightManager /\ lightEntry /\ light # "none"

Submit(read, given, placed, written) ==
  LET entry == IF Current(read) THEN TRUE ELSE given
      slot == IF Current(read) THEN light ELSE IF given THEN "blank" ELSE light
      seen == Current(read) /\ lightSeen
  IN  /\ ~given => light = "none" \/ Current(read)
      /\ UNCHANGED <<manager, published>>
      /\ \/ /\ ~(entry /\ placed)
            /\ light' = slot
            /\ lightManager' = read /\ lightEntry' = entry /\ lightSeen' = seen
            /\ faulted' = FALSE /\ expired' = (expired /\ seen)
         \/ /\ entry /\ placed /\ written
            /\ light' = IF slot = "blank" THEN "dressed" ELSE slot
            /\ lightManager' = read /\ lightEntry' = TRUE /\ lightSeen' = (slot = "lit")
            /\ faulted' = FALSE /\ expired' = FALSE
         \/ /\ entry /\ placed /\ ~written
            /\ light' = slot
            /\ Forget
            /\ faulted' = (slot \in Shown) /\ expired' = FALSE

\* on_frame_stage_notify.  The manager is read anew, and the read may fail; the
\* place of the player and the writes to the entry may fail too.
LightFrame(read, alive, given, placed, written) ==
  /\ read \in {manager, NoManager}
  /\ \/ ~published /\ RetireIfSame(read)
     \/ published /\ read = NoManager /\ Lose
     \/ published /\ read # NoManager /\ ~alive /\ RetireIfSame(read)
     \/ published /\ read # NoManager /\ alive /\ Submit(read, given, placed, written)

\* Mutated forms used to test the properties stand before what they mutate.
LightLevelShutdownForgets ==
  /\ Forget
  /\ expired' = FALSE
  /\ UNCHANGED <<manager, light, published, faulted>>

\* on_level_shutdown
LightLevelShutdown == Retire

-----------------------------------------------------------------------------
\* The engine's part of the stage makes the scene object of a dressed entry.
EngineLights ==
  /\ light = "dressed"
  /\ light' = "lit"
  /\ UNCHANGED <<manager, remembered, published, faulted, expired>>

\* An entry that was not refreshed for k_entry_lifetime.
EngineExpires ==
  /\ light # "none"
  /\ light' = "none"
  /\ expired' = lightSeen
  /\ faulted' = FALSE
  /\ UNCHANGED <<manager, remembered, published>>

EngineManager(m) ==
  /\ manager' = m
  /\ light' = "none"
  /\ faulted' = FALSE
  /\ UNCHANGED <<remembered, published, expired>>
=============================================================================
