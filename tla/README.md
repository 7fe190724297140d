# A TLA+ development for velocity-cs2

`src/cs2/velocity-cs2/project` is a library that lives inside the process of a
game. It draws a menu and overlays, keeps settings and configs, and hangs hooks
into the engine's functions. Nearly all of its code therefore runs on threads
that it did not create, between calls of an engine it does not control. This
directory specifies the machinery that has to survive this: the data that
threads of the engine share, the bookkeeping that follows the engine's own, the
crash reporter, the jobs, the caches, the binds and the configs, the objects it
keeps in the engine's scene, the tracker that matches the server's events to
shots, the installation of the hooks, the simulation of a command ahead of time, and the
view of the back buffer. It holds TLA+ modules, TLC configurations that check them on small instances,
and proofs that TLAPS checks for all instances.

Paths below are relative to `src/cs2/velocity-cs2/project/`.

## 1. The system

### Components, their state and how they interact

| Component | Source | State | Operations | Talks to |
|---|---|---|---|---|
| Overlay material table | `core/features/esp/player/player.chams.cpp:862-899`, `esp.hpp:69-77` | 16 atomic slots and an atomic count | `add_overlay_material`, `is_overlay_material` | written by `apply_overlay`, read by `on_sort_primitives`, both on any render thread |
| Primitive sort | `player.chams.cpp:249-339` | the engine's list, locals | `on_sort_primitives` | the table above; the engine's list through guarded reads and writes |
| Primitive layers | `player.chams.cpp:28-247, 770-860`, `primitive_buffer.hpp` | the engine's two-array output buffer | `on_generate_primitives`, `apply_config`, `apply_layer`, `apply_overlay`, `apply_clone` | the engine's `GeneratePrimitives`, called once per layer |
| Scene objects | `player.chams.cpp:341-768` | two maps from pawns to copies of players, for backtrack and on-shot, and a queue of shots to show | `create`, `destroy`, `update`, `push`, `shutdown`, look-ups | mesh and scene system of the engine; the frame, `create_move`, the detach; the hook on the primitives looks copies up |
| Dynamic light | `core/features/misc/impl/dlight.cpp` | published settings, the remembered manager, entry and scene object | `on_present`, `on_frame_stage_notify`, `retire_entry`, `on_level_shutdown`, `apply_scene_color` | the engine's light manager; the render thread recolours |
| Weather | `core/features/world/impl/weather.cpp` | the index of the effect, the type and the round it was made for | `on_frame_stage_notify`, `create_particle`, `release_particles`, `release` | the engine's particle manager, the game rules |
| Shot tracker | `core/features/misc/impl/impacts.cpp` | shot records, the active fire, queued miss lines | `on_boom`, `on_shot_committed`, `on_command_finalized`, `on_weapon_fire`, `on_bullet_impact`, `parse_event`, `check_misses`, `flush_miss_outputs` | `create_move`, the server's events, the frame, console and chat |
| Crash reporter | `utilities/diag.hpp`, `entry.cpp` | the claim of the one report, the request, the process-wide last-chance filter and the filter it displaced | vectored filter, last-chance filter, hooks on `MiniDumpWriteDump` and `TerminateProcess`, `record_crash`, dump worker | every thread of the process, other parts of the process that install filters, DbgHelp |
| Entity cache | `core/systems/impl/entities.cpp` | the vector of known entities | `on_add_entity`, `on_remove_entity`, `force_update`, look-ups | hooks on the engine's entity list (`core/hooks/impl/cheat.cpp:495-507`), the frame (`:216-221`) |
| Job pool adapter | `utilities/threadpool/threadpool.cpp` | jobs with hand-made reference counts | `run`, `parallel_for`, `run_batch`, `run_sync`, `job::wait` | the thread pool of `tier0.dll` |
| Skin image cache | `core/features/changer/impl/econ_item_system.cpp:104-189, 561-745` | image entries with a state each, open archives, one mutex | `get_skin_image`, `request_decode`, `finalize_texture`, `read_vpk`, `flush_skin_images` | the menu on the render thread, decode jobs on the job pool |
| Key binds | `external/xdraw/xui/xui.cpp`, `core/settings.hpp` | value, activity, key and mode of each setting, key states | `feed_wndproc`, `binds::process`, check boxes and their popup, `finalize_binds` | window messages, the frame, the menu, loads of configs |
| Config store | `external/config.hpp` | live values, two baselines, files, share codes | `to_json`, `from_json`, deltas, `save`, `load`, export, import | key binds (activity), the config page |
| Config page | `core/rendering/impl/menu/menu.config.cpp` | list, selected row, dialog, questions | every button of `draw_config` | the config store and the directory it writes |
| Hook lifecycle | `utilities/hooking/impl/jmp.cpp`, `manager.cpp`, `core/hooks/impl/cheat.cpp:16-81`, `entry.cpp` | the bytes of each target, its trampoline, `m_target`, `m_trampoline`, `m_enabled` | `jmp::create`, `enable`, `disable`, `reset`, `call`, `manager::create`, `cheat::initialize` | the game's threads, which run through the targets meanwhile |
| Prediction | `core/systems/impl/prediction.cpp` | saved entries of the guard, the engine's prediction state | `simulate`, `state_guard` | the engine's movement code; the callback of `rage.cpp:266-274` reads the result |
| Rendering context | `core/rendering/impl/context.cpp`, `core/hooks/impl/cheat.cpp:83-88, 130-165` | device and window, the view of the back buffer, two hooks that `present` makes | `on_present`, `on_resize_buffers`, `on_resize_buffers_post`, `create_rtv`, `present`, `resize_buffers`, `cheat::shutdown` | the swap chain of the game; the detach on another thread |
| Event listeners, local snapshot, materials and clones, name changer | `core/systems/impl`, `core/features/misc` | small state machines against the engine | see section 3 | the engine |
| Combat, movement, other features, overlays, the sending of input, menu drawing, memory, math, vendored libraries | rest of `core`, `utilities`, `external` | mostly none | | |

`PROJECT.json` lists all of these with their status.

### What is hard about it

* *Threads.* Render threads call `on_generate_primitives` and
  `on_sort_primitives` at once, without a lock. Any thread may fault. Decode
  jobs meet the menu. The engine's pool completes a job in two steps while the
  caller waits on it.
* *Callbacks inside callbacks.* The entity hooks run before the engine's own
  part, which may add and remove further entities.
* *Failure in the middle.* Every access to the engine's memory is a guarded read
  or write that may fail. Saves are cut short, threads cannot be created, waits
  run out.
* *Boundaries.* 16 slots for more materials, one index over two arrays, chunks of
  a range that do not divide it.
* *Events without an identity.* The server's reports of a shot carry no command
  number, come late and in more than one order, or not at all.
* *Objects of the engine.* The engine deletes and reuses what the library remembers
  by address or index, with a round, a level, or a manager that moved.
* *State that outlives what it was read from.* A selection by row number, the
  previous state of a key nobody uses any more, an entity index that was reused,
  a code that was made against another baseline.

### What makes each component correct

* Overlay table: one owner per slot, a count that covers what was published, a
  look-up that never misses what was there when it began.
* Sort: nothing lost or doubled, overlays last, the engine's order kept.
* Layers: a layer paints all and only what its own engine call added, on both
  sides of the boundary between the arrays.
* Crash reporter: one report, a whole dump, the host still hears of the crash.
* Entity cache: fresh, no index twice, complete after a scan but for entities whose
  class could not be read.
* Job pool: every element once, no use after free, no wait without end.
* Image cache: decoded once, a state that tells the truth about the data, no
  image that loads for ever.
* Binds: exclusive settings stay exclusive, a press toggles once, the last press
  wins.
* Config store: a load gives what the file says and nothing of a damaged file, an
  import gives what the author had, a field that throws disturbs no other, and
  activity follows the loaded value.
* Config page: creating never overwrites, saving hits what was clicked.
* Scene objects, light, weather: what is in the engine is what is remembered; one
  copy per pawn and feature, one effect, no light left for a teardown; nothing is
  left behind at the detach.
* Shot tracker: an event never confirms another shot, a shot has one verdict, no
  record stays.
* Hooks: a call of a function that is being hooked reaches the original; a group
  is hooked as a whole or not at all; a start that failed leaves the game unhooked.
* Rendering context: frames go to the buffers the swap chain has now, no resize is
  hindered, hooks made late are removed.
* Prediction: whichever way it ends, the engine's memory is as before and the
  engine is told that the prediction is over; a result is read from a finished
  move.

## 2. The modules

Each module models whole handlers; the comment at its head says what it is
about. Definitions that a comment calls *mutated forms* take no part in the
specification: they are plausible mistakes in the code, used to show that each
property can fail (`PROJECT.json`, "mutants"). `PROJECT.json`, "map", names the
source lines of each definition.

**OverlayMaterials** - one step per access to shared memory. `Enter` loads the
count, `ScanNext`/`ScanHit` load a slot, `Claim` is the `fetch_add`, `Store` the
publication, `Retract` the `fetch_sub` of a claim that did not fit. The scan is
bounded by the count and not by the array, and the count exceeds the capacity
while a claim is being given back; a load past the array yields any value
(`Loads`). `owed` and `answer` are history.

**MaterialSet** - what the table promises: a set that only grows, with a flag
`full` that stays set. Insertions land and look-ups are exact until it is full;
from then on an insertion may be dropped and a look-up may find too much, never
too little. `OverlayMaterials!ImplementsMaterialSet` is the refinement, with
`members` the set of stored materials and `full` when the count has reached the
capacity.

**PrimitiveSort** - one call of `on_sort_primitives`: bounds, pre-scan with its
early ends, copy, partition, write-back, each access fallible. The set of overlay
materials is that of OverlayMaterials and grows under the call (`Grow`). The
partition asks for entries in any order, once each; `Parted` runs over the answers
and gives the two halves that `Sorted` joins.

**PrimitiveLayers** - one call of `on_generate_primitives` as a list of engine
calls (`todo`), built by `Player`, `ViewModel`, `Ghost` and `Applied` the way the
handler and `apply_config` do, and executed by `Generate`, `CountGhost` and
`MarkGhost`. The buffer keeps its two arrays and the address arithmetic of
`primitive_output_buffer::at`; each probe may fail, each material may be missing.

**CrashReporter** - `pc` follows a thread from the fault through the vectored
filter (`VectoredRearm`, then `VectoredStore`: the exchange and the store of what
it displaced are separate steps), the search for a handler, `record_crash`
(`ClaimWon`/`ClaimLost`, `FillRequest`, `StartWorker`/`WorkerFails`, the wait and
its time-out), the last-chance filter and the end of the process. `OpenDump`,
`DumpWritten` and `DumpFails` are `write_minidump` with its three attempts.
Locals are reset when they go out of scope, which changes no behaviour.

**EntityCache** - `AddHook`/`RemoveHook` change the cache, `EngineAdds`/
`EngineRemoves` are the engine's part afterwards; hooks nest, so others come in
between. `StartScan`, `ScanOne`, `EndScan` are `force_update`. Entities that
lived before the attach are in the initial state. The guarded reads behind a class
name may fail whenever an entity is added or scanned (`readable` of `With`); the
code then leaves the entity out and does not come back to it before the cache is
empty. `unread` is history: the indices to which that happened last.

**JobPool** - the chunk arithmetic of `parallel_for`, the reference counts of
`run`, the three ways to wait (event, `WaitOnAddress` on a counter with its
time-out, spinning), and a pool that finishes a job in two steps: the status
word, then the completion object.

**ImageCache** - the menu's request (`Ask`, `Answer`, `Finalize`, `Insert`,
`ReadNothing`, `ReadFile`, `Submit`), a job (`Begin`, `Decode`), and the flush,
which empties entries and archives in two steps. A read that comes up short
leaves the archive's stream failed, in which all later reads yield zeros.

**Binds** - `Process` is `binds::process` with its order of settings, modes and
exclusion (`Processed` is its loop, setting by setting, from `Live` on);
`KeyDown`/`KeyUp` are window messages, `EndFrame` drops the presses of
a frame; `Click`, `AssignKey`, `ClearKey` and `NextMode` are the menu, `Load` a
config with `finalize_binds`.

**ConfigStore** - settings and fields of one or two parts (`Wide`) over `ToJson` and
`FromJson`, in kinds by what a blank profile and a failed read make of them; two
baselines, a file that `SaveCuts` empties and `SaveWrites` fills or tears, a
restart at any point, files of other versions (`Bring`), and share codes: the
program's own (`Export`), differences by others from either baseline (`Receive`)
and whole configs (`ReceiveWhole`), which `Import` tells apart as `import_payload`
does. What comes in may hold fields in other forms than this version writes
(`FormsOf`, `Foreign`): a part is of another type (`Odd`) or missing (`Absent`).
`json_to_field` swallows what such a part throws, where it stands: a setting keeps
what was set before the throw and misses its activity update (`SettingFrom`,
`Activity`), a field of several parts keeps the rest of its old ones, and the map
of skins has been cleared (`Unread`); the load still succeeds. `source` and the
code's `of` are history: what the writer meant to keep.

**ConfigMenu** - each button of the page as an action, the refresh at the start
of a frame (`ListingOf` is the listing, name by name), the directory, and changes to
it from outside.

**ShotTracker** - `CreateMove` is what one command does to the tracker:
`on_boom` (`Boomed`), `on_shot_committed` (`Committed`) and
`on_command_finalized` (`Finalized`), then the limit (`Trim`). A command may be
run again before it is sent. The server turns an attack into nothing or into
weapon_fire, impacts and a hurt (`Sent`, external); `WeaponFire`, `BulletImpact`
and `PlayerHurt` match them (`FireIndex`, `ImpactIndex`, `HurtIndex`).
`CheckMisses` is `check_misses` with its five time-outs, called by each frame and
each impact: `Survivors` are the records its loop keeps, in their order (`Sift`), and
`Verdicts` the lines of those it tells as misses; `Flush` is the console quota and the
chat's retries. `of`, `hurt`, `missed`, `told`, `strays` and `evicted` are history. What
the model takes for granted: one command per unit of time; weapon_fire exactly one measured round trip
after its command; the events of one shot before the weapon_fire of the next, and
at most `Late` after their own; `Late` is not above the grace period plus the
finalization delay, and what `ServerAssumption` says of it below; a bullet of Ragebot hurts its target or nobody, in a body part
(a hit group above 0); one impact per rifle bullet; all three logs are on. An
attack that leaves no record at all (`strays`), or whose record was pushed out of the
full tracker (`evicted`), may have its events taken for another shot's, and the
properties say so (`Unrecorded`). Markers, drawing, report_hit and the
geometry of a miss are left out.

**SceneObjects, DynamicLight, Weather** and **Scene** - the first three hold the
state and handlers of one feature and the part of the engine it talks to; `Scene`
composes them under the hooks of `cheat.cpp`: `Stage6` and `Stage7` of
`frame_stage_notify` with the light before the copies, `CreateMove`,
`LevelShutdown` followed by the engine's `TearDown`, and the three steps of
`Detach`, which another thread does while frames go on. *SceneObjects*: an address
is free, the library's, someone else's, or being deleted; `object::destroy` acts on
whatever lies there, unless it is being deleted. *DynamicLight*: the entry is
"blank" when it was allocated, "dressed" when the library has written it, "lit"
when the engine has made its scene object; reading the manager, placing the light
and writing the entry may each fail. *Weather*: the manager may be missing and a
creation may yield no index. One feature is switched on in a behaviour (`used`),
since the three share no state but the level and the hooks. No frames run between
the hook on the end of a level and the teardown. A read of freed memory has no
effect. The histories `outlived`, `leaked`, `faulted`, `expired` and `late` mark
the cases in which the code gives up what it remembers.

**JumpHook** - one start of the library: `CheckFails`/`CheckPasses` is the check of a
group in `manager::create`, `Unusable` to `Build` are `jmp::create`, `ProtectFails`
to `Patched` are `jmp::enable`, `ToFirst` to `Clear` the roll-back with
`jmp::reset` and `jmp::disable` inside it; `Leave` is what `cheat::initialize` does
with the result. The required hooks are one group, each feature hook is a group of
its own. Patching and restoring take two steps, between which the bytes are torn.
Threads of the game call the targets all along: `Call` is the engine's,
`Prologue` runs the bytes of the target, `CallOriginal`, `Jump` and `Original`
are `jmp::call` and the trampoline. History: `caught` holds the threads that were
inside bytes or a trampoline when these changed, which nothing in the code
prevents; `stuck` the hooks whose bytes the roll-back could not restore. Taken for
granted: targets are distinct, a half-written jump crashes who runs it, the
detour does nothing but call the original.

**Prediction** - one action per stage of `prediction::simulate`: `Begin` fills the
guard, `SetScene` to `Process` run the engine's movement code, `ClearState`,
`ResetPawn` and `CleanupContext` give the engine's state back, the callback reads,
`Restore` is the guard. `Fault` is an exception in any of these, which the
handler swallows, with what the step was writing written in part; `lost` is the
history of a fault that came before the engine was told that the prediction is
over. Taken for granted: the engine's movement code writes nothing but the memory
that lines 179-291 save (`Moved`); all simulations come from `create_move`, so the
mutex has one user; what the engine does between two simulations is left out.

**RenderContext** - `FirstPresent` is `context::initialize`, `Present` a later frame,
`HookWindow` and `HookTargets` the two hooks that `cheat::present` makes after
it. `ResizeBegins`, `EngineResizes` and `ResizeEnds` are the hook on
`ResizeBuffers` around the engine's call, which may be refused, or skipped when the
hook was reset on the way. `Detach` resets one hook after the other in the order of
`cheat::shutdown`, on another thread; `GameResizes` is the game alone afterwards.
`buffers` counts resizes, and `target` names the buffers that `m_rtv` views.
History: `missed` marks a failed attempt to get buffers or a view, `remade` the
hooks that a frame made after they were reset, `blocked` a resize that the library
stood in the way of. Two things the model shows about the code: a resize before
the first frame runs `create_rtv` without a device and crashes
(`ResizeEndsEarly`); and `context::shutdown`, which would give the view up, has no
caller, so that the game's resizes are refused after the detach. Taken for granted:
one swap chain, presented and resized on one thread; the game binds its own
targets before it resizes, so the pipeline does not hold the view.

**Calls** and **Settings** - compositions by INSTANCE. A behaviour of `Calls` is one
call of `PrimitiveSort`, of `PrimitiveLayers` or of `JobPool`, one start with
`JumpHook`, a row of simulations of `Prediction`, frames and resizes of
`RenderContext`, or adds, removes and rebuilds of `EntityCache`; a behaviour of
`Settings` uses the binds, the files or the codes of the config store, or the page, and
the others rest.
The parts share no variable, so a property of the composition is the property of
its part.

**Loops** - the rule by which a loop of the code, written as a recursive function, is
proved: what holds at the start and is kept by every turn holds of the result.

The `MC*` modules give the constants their values, and the `*Proofs` modules hold
the theorems of section 5.

## 3. Plan

Done, in this order: OverlayMaterials with MaterialSet and its proofs, because it
is the one lock-free structure; CrashReporter and EntityCache, each with its
proofs; PrimitiveSort and PrimitiveLayers; JobPool and ImageCache; Binds, ConfigStore, ConfigMenu;
ShotTracker; SceneObjects, DynamicLight and Weather, composed by Scene; JumpHook,
Prediction and RenderContext; Calls and Settings, which check independent parts in one run each.
Then the theorems: every safety property that a passing run checks is proved.

Modules that remain worth writing:

1. The start order of `entry.cpp` around JumpHook: the crash filter before the
   hooks, and the rest of the detach.
2. *LocalSnapshot* (`systems/impl/local.cpp`): the double publication read by
   render threads.
3. *MaterialClones* (`systems/impl/materials.cpp`), *EventListeners*
   (`systems/impl/events.cpp`): objects the engine owns and the library remembers,
   and objects of the library that the engine remembers.

Abstract specifications worth stating: a map from index to entity for
EntityCache; a one-shot log for CrashReporter; for ShotTracker, a ledger that
knows each event's command.

## 4. The runs

| Run | Bounds | What it shows |
|---|---|---|
| Overlay | 3 threads, 2 materials, 4 slots, symmetry | `SlotsOwnedOnce`, `CountCoversEntries`, `CopiesBounded`, and `ImplementsMaterialSet` |
| Crash | 2 threads, 2 hosts, 3 events, 2 installs, symmetry | `OneReport`, `DumpLeftWhole`, `HostHearsUnlessRaced` |
| CrashRace | 2 threads, 2 events, 2 installs | a violation of `HostStillHears` |
| Calls | sort: lists up to 4, limit 3, 3 materials; layers: 2 fixed entries, calls that add 0 or 2, limit 6; jobs: ranges up to 4, up to 3 cores, minimum chunk 1 or 2, 2 workers; start: 2 required hooks, 1 feature hook, 2 threads of the game; draw: 2 resizes; entities: 4, one of each class, indices 0-3, scan limit 2, any class name unreadable at any time | `NothingLost`, `StablePartition`; `NoStrayWrites`, `LayersExact`, `GhostsDrawnLast`; `EveryElementOnce`, `NothingDangles`, `CallReturns`; `CallsReachEngine`, `AllOrNothing`; `LeavesEngineAsFound`; `TargetFollowsBuffers`, `LateHooksGone`; `CacheFresh`, `CompleteOnceScanned` |
| ImageCache | 2 images in one archive, 2 flushes | `StateTellsData`, `DecodedOnce`, `LoadingEnds` |
| Settings | binds: 2 settings, 2 keys, 3 configs; store: a setting, a number of two parts and a map, 1 key, 2 modes, 3 authors, 5 objects with fields in other forms, files or codes; page: 3 files, names that are file names | `Exclusive`, `TogglesOncePerHold`, `LastPressWins`; `ImportRestores`, `LoadKeepsToFile`, `ToggleInStep`; `CreateOverwritesNone`, `SaveHitsSelected` |
| ConfigMenuName | the page with a name that a path cannot hold | a violation of `CreateOverwritesNone` |
| Shots | 1 victim, 2 commands, 2 weapons, 9 units of time, 2 records | `RightShot`, `OneVerdict`, `NoStaleShot` |
| ShotsMiss | the same | a violation of `KeepsOneLogPerMiss` |
| ShotsOlder | 3 commands, 5 units, 3 records, events without delay, a fire accepted up to 4 units after its command | a violation of `LeavesGap` |
| Scene | 2 pawns, 3 addresses, 2 managers, 2 effects, 2 types, 2 round times, symmetry | `GhostsKnown`, `LightOwned`, `OneEffect`, `LeavesNothing` |
| SceneLevel | the same | a violation of `ReleasedAtLevelEnd` |

Types are proved with the invariants of section 5, and none is a property of a run.

**Why the bounds are enough.** *Overlay*: three threads on four slots and two
materials give six possible copies, so the table fills, up to three claims stand
beyond it at once, copies appear, and a scan runs past the array; the proofs
remove the bounds. *Crash*: two threads are what the claim, the filter and the
end of the process can be raced by; three events leave one for a second fault of
a thread that came back. *EntityCache*: two indices inside the scan, one only the hook
can cache, one out of range; an index can be reused while both an add and a
remove are pending. *Sort*: three is the longest list that is sorted, four is one
too many; three materials have one regular and two overlays, so the table can
learn one between two questions. *Layers*: with two fixed entries and calls that
add two, a layer lies before, across and behind the boundary, and a count of
seven is insane. *JobPool*: every chunking of up to four elements, including zero
cores, one chunk, and a last chunk that is short. *JumpHook*: the second
required hook makes the roll-back pass a hook that is on, the one that failed, and,
if the first fails, one that was never made; the feature hook is skipped after a
success; two threads can be inside the same hook or in two. *Prediction* has no
constants: its memory is grouped by who writes it. *RenderContext*: with two resizes
one can come before the first frame, and one can be skipped while the hook is removed
and follow after the detach. *ImageCache*: two flushes let a
job outlive two generations of its entry; two images share the stream of the
archive. *Binds*: two settings may share a key. *ConfigStore*: one field of each
kind of baseline handling; a third author without a key; the objects in other forms
throw at the value, at the key and at the mode of a setting, at the first and at the
second part of a number, and at the map; no step reads both the file and the code, so
a behaviour uses one of them. *ConfigMenu*: a name
before, between and behind the others. *Shots*: two commands let each event meet a
record that is older or younger than its own, and two records are one too few for
two commands and an anonymous token, so the tracker overflows; a unit is half a
second, in which the time-outs are between one and three units as in the code at
low latency, so that a late impact or hurt finds a shot that has timed out but is
not told yet; a fire may be one unit later than the round trip, so a shot the server
rejected is a candidate for the fire of the next; nine units outlast the longest life
of a record. *ShotsOlder* needs three commands and the ratio of `max_fire_age` to a
short round trip (0.5 s to about 0.1 s), so that a shot the server rejected is still a
candidate when two others have been made. *Scene*: three
addresses leave one for a foreign object beside two copies, two pawns exchange
addresses; two managers, effects, types and round times are what a change needs.

**Deadlock** is checked except where the program really stops: calls that
return once and a process that crashed (Calls) and a process that ended (Crash).

**Fairness.** Two runs check liveness. *Calls*: the caller of `parallel_for` is weakly fair, since
the scheduler runs it and `WaitOnAddress` has a time-out of 1 ms; each job is
strongly fair in the pool, since the pool's threads take every queued job in the
end although other jobs keep them busy. *ImageCache*: whoever holds the mutex goes
on (weak fairness of the menu's and the job's steps; neither blocks while it holds
the mutex), and a job that waits for the mutex gets it in the end although the
menu takes it in every frame (strong fairness of `Begin`). Windows' locks hand
over eventually; nothing is assumed of how often the menu asks, or of flushes.
The other components promise nothing that has to happen: the crash reporter's
wait is bounded by the time-out of the call and by nothing of its own.

**Violations.** *CrashRace*: the comment in `entry.cpp:157-159` promises that the
host still receives the crash; with two faults at once the exchange of one thread
and the store of the other interleave, and the filter that is kept is not the one
displaced last. `HostHearsUnlessRaced` shows that nothing else breaks the promise.
*ConfigMenuName*: the page says that a config is created under a name of its own
and that only saving overwrites, and only the selected config
(`menu.config.cpp:315-317`); the test compares names, while `file_path` maps
several names to one file. *ShotsMiss*: the comment in `impacts.cpp:1760-1764`
promises one console line per real miss; the quota is counted after the missed shot
has left the tracker, so the line of a miss with no other shot in flight is
dropped. *ShotsOlder*: the comment in `impacts.cpp:477-482` says that a missing fire leaves a gap
instead of shifting the evidence of B onto A. The server rejects A; the fire of an attack
that left no committed record comes when B has just been committed, and confirms B, whose
age is closer to the round trip than A's; B's own fire then finds only A.
*SceneLevel*: the comment in `cheat.cpp:938` says that scene objects of
the features are released before the engine tears their parents down; only the
light is, and the copies of players are still in the scene and in the maps.

## 5. What is proved

`OverlayMaterialsProofs` proves, for every set of materials, every finite set of
threads and every positive capacity:

* `Refinement`: the table implements `MaterialSet`.
* `SlotOwnership`, `CountCovers`, `CopiesByThreads`, `LookupComplete`, `TypeCorrect`.

The assumptions are `CapacityAssumption`, `MaterialAssumption` (the null slot is
no material) and `ThreadAssumption` (finitely many threads, so that claims can be
counted).

*The argument.* `SlotsOwnedOnce` is not inductive: a claim hands out the count as
a slot, so the count must be above every published and every owned slot
(`CountCoversEntries`). That in turn is threatened only by a retraction, which
lowers the count. It is harmless because a retracting thread's own claim is still
on top: `ClaimsBeyondTable` says that with n retracting threads the count is at
least the capacity plus n, so lowering it once leaves it at the capacity or above
(`RetractKeepsFull`). The proof counts the retracting threads as a finite set
(`RetractingStep`). `NeverMissed` is not inductive either: while a look-up runs,
`OwedAhead` keeps the slot it owes its caller between its position and its limit,
which holds because a published slot never changes (`SlotsKept`). `IInv` is the
conjunction. For the refinement, `LoadedFull` adds that a call which loaded a full
count runs while the table is full, so that a match past the array is covered by
what `MaterialSet` allows. `RefinementStep` then has one step per action: `Store`
is `Add`, `Retract` is `Drop`, `Claim` is `FillUp` when it takes the last slot and
a stutter otherwise, a scan's turn is a stutter, a match is `Find`, `Add` or
`Drop`, a miss is `Find`.

`CopiesByThreads` (`CopiesBounded`) is about who stored what, which the table does not
keep. Its proof gives every slot an author (`Authors`): two slots of one material have
two authors, because a thread that has stored a material and adds it again still has its
own slot ahead of it, and meets it before it can claim another. The authors are
quantified in the invariant (`Authored`), so the model needs no history for them.

`CrashReporterProofs` proves, for any number of threads, hosts, faults and
installations: `ReportOwned` (`OneReport`), `DumpWhole` (`DumpLeftWhole`),
`HostHears` (`HostHearsUnlessRaced`) and `TypeCorrect`. The assumptions: "nobody" is
no thread, "ours" is no host's filter, the process had a filter at the attach.

*The argument.* A thread is either outside `record_crash` past the claim or owns
the report (`Outside`, `OutsideSteps`, `OutsideKeepsReport`), so only six actions
need a proof of their own (`OwnerKeepsReport`). `OneReport` needs `ReportSound`:
before the claim nothing of a report exists, so whoever wins it finds an empty
request. `DumpLeftWhole` needs `OwnerWaits`: while an attempt is left to make, the
thread the request names is at the wait, unless that ran out; the thread that
ends the process is not at the wait. `HostHearsUnlessRaced` needs `Handover`: one
thread alone between exchange and store holds the filter displaced last.

`CallsProofs` proves the properties of all parts of `Calls`. The parts share no
variable: `ComponentsInit` and `ComponentsNext` say that a behaviour of the whole is,
for each part, one of that part, and each part has an inductive invariant of its own.
The assumptions are those of the parts, named in `Calls`: `SortAssumption` to
`CacheAssumption`.

* *Prediction* (`SimulateLeavesEngineAsFound`). `SimulateInv` says at each place of the
  call what the guard holds, and that outside of the engine's move the engine does not
  predict unless a fault was swallowed in one.
* *RenderContext* (`DrawTargetFollowsBuffers`, `DrawLateHooksGone`). `DrawInv`: while the
  swap chain resizes there is no view, and a hook that was reset is not there unless a
  frame made it again.
* *JumpHook* (`StartCallsReachEngine`, `StartAllOrNothing`), for any number of hooks and
  threads. `InstallInv` says of the group at hand what the hooks before and behind the
  present one are like: on before it while hooking, off or stuck before it while taking
  back; everything outside of the group is settled or untouched. `CallerInv` says of a
  thread that was not caught which bytes and which trampoline it relies on; the steps of
  the installer keep that, since a thread that stands where bytes change is caught.
* *JobPool* (`JobsEveryElementOnce`, `JobsNothingDangles`), for any range, number of
  cores, smallest chunk and number of workers. The arithmetic comes first: `ChunksCover`
  and `OwnerOfChunk` show from the bounds of integer division that the chunks split the
  range, each element in the chunk `Owner`. Then `CountsInv` accounts for every
  reference of a job, `QueueInv` for the jobs that the caller has made and waited for,
  and `RunsInv` for what each finished chunk has run.
* *PrimitiveSort* (`SortNothingLost`, `SortStablePartition`), for lists of any length.
  The answers to the two questions about an entry may differ; `SortInv` keeps what every
  answer must agree with, the bounds of the pre-scan, and how far the copy is written
  back. `Halves` is the invariant of the partition's loop.
* *PrimitiveLayers* (`LayersNoStrayWrites`, `LayersLayersExact`,
  `LayersGhostsDrawnLast`), for arrays of any size. `Slot` reads the two arrays as one
  buffer, in which the addresses of a layer are the interval between its two readings.
  `TodoOk` describes the lists of engine calls that the handler makes: a ghost is counted,
  generated and marked without anything between. `LayersInv` then needs to speak only of
  the ghost that is being made (`Amid`).
* *EntityCache* (`EntitiesFresh`, `EntitiesComplete`, `EntitiesTypeOK`), for every set of
  entities, every size of the engine's list and every scan limit that fits the cache.

*The argument.* `WithEntries` and `WithoutEntries` say what the append and the
swap-and-pop do to the cached entries; the swap is right only because an index is
cached once, which is part of `CacheFresh`. `CacheFresh` itself is not inductive:
an add that ends must find its index free and not about to be removed
(`EntitiesPending`). `CompleteOnceScanned` needs that an add that is still on its way
to the engine is cached already if its class was read (`AddsCached`), so that the engine's part, which
does not look at the cache, completes it; and that a running rebuild has cached
what is behind its cursor (`ScannedBehind`), which no hook disturbs because hooks
and frame share the game thread.

`SceneProofs` proves `SceneGhostsKnown`, `SceneLightOwned`, `SceneOneEffect` and
`SceneLeavesNothing`, for any pawns, addresses, managers and effects. The assumptions:
"no manager" and "no effect" are none. `GhostsMatch` is `GhostsKnown` with what makes it
inductive: no two remembered copies share an address, or a pawn and a feature. `LightInv`
adds to `LightOwned` the light that is allocated but not shown yet. `LeavesNothing`
holds because after the release only a frame that runs before its hook is gone can make
something, and such a frame is marked `late`.

`ImageCacheProofs` proves `ImageCacheStateTellsData`, `ImageCacheDecodedOnce` and
`ImageCacheTypeOK`, for any images, archives and flushes. The argument counts the work on
an image (`Work`): its queued jobs, the one the menu is about to queue, and the one that
holds the mutex. A flush makes an image new once more, so there is at most one piece of
work more than there were flushes.

`SettingsProofs` proves the eight properties of `Settings`, for any fields, settings,
keys and files: `SettingsImportRestores`, `SettingsLoadKeepsToFile` and
`SettingsToggleInStep` are action properties of ConfigStore, for any objects with fields in
other forms. `FormRead` says what `FromJson` makes of any form: a value of its kind, each
part of which is as it was or as it came, in step unless reading it threw. `RoundTrip` says
that what `ToJson` wrote never throws and is read as it was written. `StoreInv` says of a
file or a code that its fields are forms, that those its author meant to keep are as
`ToJson` wrote them, and that what a difference lacks is the baseline's. An import sets a
field twice, and `BaselineSets` says that after the first time nothing of the live profile
is left but the activity of binds.
`SettingsExclusive`, `SettingsTogglesOncePerHold` and `SettingsLastPressWins` are about
Binds, `SettingsSaveHitsSelected` and `SettingsCreateOverwritesNone` about ConfigMenu.
`BindsInv` adds to `TogglesOncePerHold` that a key which has been answered is remembered
as down until it is let go. The last press wins whatever the order of the settings:
`LoopKeeps` says of the loop that a winning press has won or that its setting is still to
come and nothing has touched the pair. `PageInv` says that the list holds every file of
the directory unless somebody else changed it since it was read, and ties the selected row
to the clicked file while the list stays as it is. `SettingsCreateOverwritesNone` has a hypothesis,
`NamesAreFiles`: no name that is typed stands for another file. The code does not check
that, and the run *ConfigMenuName* shows what happens without it.

`ShotTrackerProofs` proves `TrackerNoStaleShot`, `TrackerRightShot`, `TrackerOneVerdict`
and `TrackerTypeOK`, for any number of commands and victims, any size of the tracker and
any time-outs that relate as `TimeoutAssumption` says: the round trip is within `FireAge`, which is below the window
for impacts, and below the absolute time-out, which is not below that of an uncommitted
intent. In the code that is so at every latency: each direction is below one second
(`impacts.cpp:445-449, 1824-1833`), `FireAge` is clamped to at most 2 s and the window is
2.5 s, and the absolute time-out is one second plus twice the outgoing latency. The
assumption on `Late` is one on the server, named in section 2. `NoStaleShot` bounds the age of a record,
while the code counts each time-out from the last evidence. `TrackerInv` therefore bounds
for each kind of record how late its evidence may have come (`Timed`): a fire within
`FireAge`, an impact within the window, a commitment in the unit in which the record
was made (`Made`, since a command is repeated only before it is sent); a sweep leaves
each time-out passed by at most one unit, the length of a frame.

`TrackerRightShot` and `TrackerOneVerdict` also need what the shots' own events have to
find: `ServerAssumption` says that a shot takes time, and that its last event comes while
the record is still within the window for impacts, before the absolute time-out with the
finalization delay, and before a hit's tombstone is removed (1 s in the code). The window
of 2.5 s leaves half a second for `Late` above a round trip of 2 s, and more below.
`TrackerOneVerdict` needs room for two records (`RoomAssumption`; 128 in the code),
because one command can leave its record and a token behind it, and a tracker of one
would push the record out while its command is still being run again.

`EvidenceInv` is the invariant of `RightShot`. `RightShot` is not inductive: that an
event goes to the right record depends on where all the other records stand. So
every group of events on the wire whose command has no unrecorded attack before it has
a record that awaits it (`Own`, `Awaits`): of its command, committed one round trip before
the group is due, with no event of another, fired once the group is, active while
the group is told of, and with no time-out that could run out before the group's last event.
Records stand in the order of their commands, and no two share a command, or a time below
the bound of the clock (`InOrder`, `Spaced`), so the age closest to the round trip is that of the own record in
`FireIndex`; no record has evidence of a shot that is still to come (`Past`), and
what was struck last is the record of the shot that is being told of (`Latest`), so the
four searches of `ImpactIndex` and of `HurtIndex` find it. Each handler of a
command keeps the invariant in turn, with a command that is run again and a full tracker
as cases of their own.

`VerdictInv` is the invariant of `OneVerdict`. A command with a verdict has no record any
more and never gets one (`Finished`); one that was hurt is not lost and its record is
resolved (`Judged`), which again needs `Own`: the hurt must find its record, told of or not.
A line of a miss is the only one of its command, waiting or told, and
no channel has heard of it before (`Lined`). The invariant goes on to attacks without a
record, since the verdict of a command may depend on the attacks before it alone
(`Below`), while its own record may be missing. The sweep, the misses it tells and the
flush each keep some members of a list in their order; `SiftFacts` says so once for all.

`Loops` proves `LoopInvariant`. The induction theorems of the library take an operator as
a parameter and cannot be used here; the rule is proved from the natural numbers
being well-founded (`LeastNumber`), and a module instantiates it with the turns and the
invariant of its loop. It serves the partition of PrimitiveSort, `binds::process` and the
listing of the directory.

*Only model-checked.* `CallReturns` and `LoadingEnds`: liveness under fairness and
`ENABLED` are outside what the prover handles and stay with TLC. What a recursive function
computes for every input is proved only as far as an invariant of its loop says it.

## 6. What is not modelled, and why

* Aiming, movement and what a simulated command computes are floating-point
  computations over the game's data, which TLC does not evaluate, and outside the runtime this
  development is about.
* Drawing, layout, fonts, logging, addresses, patterns and protobuf encoding keep
  little state or none. Most lines of the repository are of this kind: embedded
  fonts, particles and vendored code alone are two thirds of it.
* Compression, base64 and the word encoding of share codes are left out of
  ConfigStore: a code or a file is whole or it is not. Of a field in another form the
  model keeps which parts are read; that a number of another type, or out of range, is
  converted rather than refused is left out (such a number is a value like others), and so
  are the parts of one entry of the map of skins and two keys of one object that name one
  field.
* What `ImportRestores`, `LoadKeepsToFile` and `ToggleInStep` do not promise is what the
  code does not either: a setting that threw on the way stays half applied, with a toggle
  that may be out of step (`config.hpp:360-371`), and fields that a file or a whole config
  does not have keep the live values. Likewise `CompleteOnceScanned` leaves out entities
  whose class could not be read.
* The engine (pool, primitive generation, entity list, exception dispatch) is
  external; its actions model how the code here uses it and are marked so.
* Handles and the list-chunk cache of the entity system; a change of the layer
  settings during a call of `on_generate_primitives`; mouse buttons as keys; an
  exception thrown by a chunk's body; look-ups of copies on other threads while an
  update changes their map; the light's entry at the detach, which expires by itself;
  hits without a hit group, as by grenades, which match no shot. `PROJECT.json`, "hazards", says of each
  hazard which property covers it or why none does.
* Vendored libraries and the separate injector tool.
