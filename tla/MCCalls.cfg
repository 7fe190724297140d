\* Sort: lists of up to four primitives over one regular and two overlay
\* materials; three is the longest list the call sorts.
\* Layers: a fixed array of two entries and engine calls that add none or two, so
\* that layers lie before the boundary, across it and behind it; seven entries
\* are an insane count.
\* Jobs: ranges of up to four elements on up to three cores and two pool threads,
\* with each way of waiting.
\* Start: a group of two required hooks, one feature hook, two threads.
\* Draw: two resizes.
\* Entities: four, one of an unsupported class, on four indices: two that a rebuild
\* reaches, one that only the hook can cache, one out of range.
CONSTANTS
  Materials = {regular, glow, outline}
  NoMaterial = NoMaterial
  Overlays = {glow, outline}
  MaxTotal = 3
  MaxLength = 4
  FixedCapacity = 2
  SaneLimit = 6
  Generated = {0, 2}
  Old = {0, 1}
  Workers = 2
  MaxRange = 4
  MaxCores = 3
  MaxMinimum = 2
  Required = 2
  Features = 1
  Callers = {caller1, caller2}
  MaxResizes = 2
  e1 = e1
  e2 = e2
  e3 = e3
  e4 = e4
  Entities = {e1, e2, e3, e4}
  NoEntity = NoEntity
  Kind <- Kinds
  ScanLimit = 2
  MaxIndex = 2
  HighestIndex = 3
SPECIFICATION Spec
\* A call returns once, and the table is finite.
CHECK_DEADLOCK FALSE
INVARIANT NothingLost
INVARIANT StablePartition
INVARIANT NoStrayWrites
INVARIANT LayersExact
INVARIANT GhostsDrawnLast
INVARIANT EveryElementOnce
INVARIANT NothingDangles
INVARIANT CallsReachEngine
INVARIANT AllOrNothing
INVARIANT LeavesEngineAsFound
INVARIANT TargetFollowsBuffers
INVARIANT LateHooksGone
INVARIANT CacheFresh
INVARIANT CompleteOnceScanned
PROPERTY CallReturns
