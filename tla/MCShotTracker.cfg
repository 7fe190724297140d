CONSTANTS
  v1 = v1
  Victims = {v1}
  NoVictim = NoVictim
  MaxCommand = 2
  MaxTime = 9
  MaxPending = 2
  Rtt = 1
  Late = 2
  FireAge = 2
  Window = 3
  Grace = 1
  Absolute = 2
  Uncommitted = 1
  Tombstone = 2
  Finalization = 1
  ChatLife = 2
SPECIFICATION Spec
INVARIANT RightShot
INVARIANT OneVerdict
INVARIANT NoStaleShot
