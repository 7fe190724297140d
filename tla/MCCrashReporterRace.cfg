\* Two threads fault at once while two hosts install their filters.
CONSTANTS
  Threads = {t1, t2}
  Hosts = {h1, h2}
  MaxFaults = 2
  MaxInstalls = 2
SPECIFICATION Spec
\* The process may end, and a model that has used up its faults stops.
CHECK_DEADLOCK FALSE
INVARIANT HostStillHears
