CONSTANTS
  v1 = v1
  Victims = {v1}
  NoVictim = NoVictim
  MaxCommand = 3
  MaxTime = 5
  MaxPending = 3
  Rtt = 1
  Late = 0
  FireAge = 4
  Window = 6
  Grace = 1
  Absolute = 5
  Uncommitted = 1
  Tombstone = 2
  Finalization = 1
  ChatLife = 1
SPECIFICATION Spec
INVARIANT LeavesGap
