-------------------------------- MODULE Calls --------------------------------
(***************************************************************************)
(* The calls that take several steps and then return: the hook that sorts a*)
(* list of primitives, the hook that lets the engine generate the          *)
(* primitives of an object layer by layer, parallel_for, the installation  *)
(* of the hooks, the simulation of a command, the calls of the swap chain, *)
(* and the hooks on the engine's entity list with the rebuild of the cache.*)
(* A behaviour makes one kind of call; what the others work on does not    *)
(* change meanwhile.                                                       *)
(***************************************************************************)
EXTENDS Integers

CONSTANTS
  Materials, NoMaterial, Overlays, MaxTotal, MaxLength, \* of PrimitiveSort
  FixedCapacity, SaneLimit, Generated, Old,             \* of PrimitiveLayers
  Workers, MaxRange, MaxCores, MaxMinimum,              \* of JobPool
  Required, Features, Callers,                          \* of JumpHook
  MaxResizes,                                           \* of RenderContext
  Entities, NoEntity, Kind, MaxIndex, ScanLimit, HighestIndex \* of EntityCache

VARIABLES
  calling,   \* which of the calls is made
  known, knownAtStart, list, original, sorting, i, firstOverlay, lastRegular, asked, fault,
  fixed, overflow, stray, todo, since, spoiled,
  total, cores, minChunk, waiting, at, snapshot, status, counter, refs, waitMode, runs,
  found, code, hooked, enabled, trampoline, installer, installed, call, caught, stuck,
  place, memory, entries, predicting, pawnSet, context, read, result, lost,
  buffers, target, initialized, late, frame, resets, missed, remade, blocked,
  live, adding, removing, cached, cursor, scanned, unread

Sort == INSTANCE PrimitiveSort WITH pc <- sorting
Layers == INSTANCE PrimitiveLayers
Jobs == INSTANCE JobPool WITH pc <- waiting, MaxTotal <- MaxRange
Start == INSTANCE JumpHook
Simulate == INSTANCE Prediction
Draw == INSTANCE RenderContext
Cache == INSTANCE EntityCache

ASSUME SortAssumption == Sort!MaterialAssumption /\ Sort!LengthAssumption
ASSUME LayersAssumption == Layers!SizeAssumption
ASSUME JobsAssumption == Jobs!WorkersAssumption /\ Jobs!BoundAssumption
ASSUME StartAssumption == Start!HooksAssumption
ASSUME CacheAssumption ==
  Cache!KindAssumption /\ Cache!NoEntityAssumption /\ Cache!IndexAssumption

sortVars == <<known, knownAtStart, list, original, sorting, i, firstOverlay, lastRegular, asked, fault>>
layersVars == <<fixed, overflow, stray, todo, since, spoiled>>
jobsVars == <<total, cores, minChunk, waiting, at, snapshot, status, counter, refs, waitMode, runs>>
startVars == <<found, code, hooked, enabled, trampoline, installer, installed, call, caught, stuck>>
simulateVars == <<place, memory, entries, predicting, pawnSet, context, read, result, lost>>
drawVars == <<buffers, target, initialized, late, frame, resets, missed, remade, blocked>>
cacheVars == <<live, adding, removing, cached, cursor, scanned, unread>>
vars == <<calling, sortVars, layersVars, jobsVars, startVars, simulateVars, drawVars, cacheVars>>

\* No list, no call of the engine to make, no range.
SortIdle == Sort!Init /\ known = {} /\ list = <<>>
LayersIdle ==
  /\ fixed = <<>> /\ overflow = <<>> /\ stray = {}
  /\ todo = <<>> /\ since = -1 /\ spoiled = FALSE
JobsIdle ==
  /\ Jobs!Init
  /\ total = 0 /\ cores = 0 /\ minChunk = 1
  /\ \A j \in DOMAIN waitMode : waitMode[j] = "spin"
StartIdle == Start!Init /\ found = {}
CacheIdle == Cache!Init /\ \A k \in Cache!Indices : live[k] = NoEntity

Init ==
  /\ Simulate!Init /\ Draw!Init /\ Cache!Init
  /\ calling = "entities" \/ CacheIdle
  /\ \/ calling = "sort" /\ JobsIdle /\ LayersIdle /\ StartIdle /\ Sort!Init
     \/ calling = "layers" /\ JobsIdle /\ SortIdle /\ StartIdle /\ Layers!Init
     \/ calling = "jobs" /\ SortIdle /\ LayersIdle /\ StartIdle /\ Jobs!Init
     \/ calling = "start" /\ JobsIdle /\ SortIdle /\ LayersIdle /\ Start!Init
     \/ calling \in {"simulate", "draw", "entities"} /\ JobsIdle /\ SortIdle /\ LayersIdle /\ StartIdle

SortStep ==
  /\ calling = "sort" /\ Sort!Next
  /\ UNCHANGED <<calling, layersVars, jobsVars, startVars, simulateVars, drawVars, cacheVars>>
LayersStep ==
  /\ calling = "layers" /\ Layers!Next
  /\ UNCHANGED <<calling, sortVars, jobsVars, startVars, simulateVars, drawVars, cacheVars>>
JobsStep ==
  /\ calling = "jobs" /\ Jobs!Next
  /\ UNCHANGED <<calling, sortVars, layersVars, startVars, simulateVars, drawVars, cacheVars>>
StartStep ==
  /\ calling = "start" /\ Start!Next
  /\ UNCHANGED <<calling, sortVars, layersVars, jobsVars, simulateVars, drawVars, cacheVars>>
SimulateStep ==
  /\ calling = "simulate" /\ Simulate!Next
  /\ UNCHANGED <<calling, sortVars, layersVars, jobsVars, startVars, drawVars, cacheVars>>
DrawStep ==
  /\ calling = "draw" /\ Draw!Next
  /\ UNCHANGED <<calling, sortVars, layersVars, jobsVars, startVars, simulateVars, cacheVars>>
CacheStep ==
  /\ calling = "entities" /\ Cache!Next
  /\ UNCHANGED <<calling, sortVars, layersVars, jobsVars, startVars, simulateVars, drawVars>>

Next ==
  \/ SortStep \/ LayersStep \/ JobsStep \/ StartStep \/ SimulateStep \/ DrawStep
  \/ CacheStep

\* The fairness of parallel_for's caller and of the engine's pool, see JobPool.
Spec ==
  /\ Init /\ [][Next]_vars
  /\ WF_vars(JobsStep /\ Jobs!Caller)
  /\ \A j \in 0 .. MaxRange : SF_vars(JobsStep /\ Jobs!Pool(j))

-----------------------------------------------------------------------------
\* player.chams.cpp:249-339: a sort that ends without a failed write leaves the
\* engine every primitive it had, each once, whatever other threads add to the
\* table between the two times it asks.
NothingLost == Sort!NothingLost

\* player.chams.cpp:278-329: no primitive whose overlay material was known
\* before the sort stands before one whose material is still unknown after it,
\* and primitives that share their fate keep the engine's order.
StablePartition == Sort!StablePartition

\* primitive_buffer.hpp:38-39: the two arrays are not one allocation, and no
\* write leaves the entries that the engine has put in either.
NoStrayWrites == Layers!NoStrayWrites

\* player.chams.cpp:770-860: a layer restyles the primitives of its own engine
\* call, on both sides of the boundary, all of them unless a probe failed, and
\* none besides.
LayersExact == Layers!LayersExact

\* player.chams.cpp:112-172: the primitives drawn last are those of the ghosts,
\* and all of them.
GhostsDrawnLast == Layers!GhostsDrawnLast

\* threadpool.cpp:234-259: parallel_for runs its body exactly once for every
\* element, however the range is split.
EveryElementOnce == Jobs!EveryElementOnce

\* threadpool.cpp:245-263: no job of a call that returned is queued or running,
\* and no job is freed too early, the forgotten one included.
NothingDangles == Jobs!NothingDangles

\* threadpool.cpp:100-119: parallel_for returns, although a wakeup can be lost.
CallReturns == calling = "jobs" => Jobs!CallReturns

\* jmp.cpp:308-331, hooking.hpp:14-25: a call of a function that is being
\* hooked, or rolled back, reaches the original, unless its bytes or trampoline
\* changed while it was on them.
CallsReachEngine == Start!CallsReachEngine

\* manager.cpp:9-57, cheat.cpp:16-81: a group is hooked as a whole or not at
\* all, and a start that failed leaves the game unhooked.
AllOrNothing == Start!AllOrNothing

\* prediction.cpp:302-410: whichever way a simulation ends, the engine finds its
\* own memory again, and the callback reads a finished move.
LeavesEngineAsFound == Simulate!LeavesEngineAsFound

\* context.cpp:75-150, cheat.cpp:154-165: frames are drawn to the buffers that
\* the swap chain has now, and the library stands in the way of no resize.
TargetFollowsBuffers == Draw!TargetFollowsBuffers

\* cheat.cpp:84-128, 134-149: after the detach the hooks that frames make late
\* are gone, unless a frame that went on meanwhile made them again.
LateHooksGone == Draw!LateHooksGone

\* entities.cpp, cheat.cpp:495-507: no index is cached twice, and what the cache
\* says of an index is what the engine's list says, or what the add on its way to
\* the engine will make it say.
CacheFresh == Cache!CacheFresh

\* entities.cpp, cheat.cpp:216-221: once a rebuild has run, every supported entity
\* it can reach is cached, whatever the hooks have done since, but for those whose
\* class name could not be read when they were added or scanned.
CompleteOnceScanned == Cache!CompleteOnceScanned
=============================================================================
