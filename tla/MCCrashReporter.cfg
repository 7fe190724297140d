\* Two threads, three faults, snapshots or terminations, and two hosts that
\* install two filters.
CONSTANTS
  Threads = {t1, t2}
  Hosts = {h1, h2}
  MaxFaults = 3
  MaxInstalls = 2
SPECIFICATION Spec
SYMMETRY Alike
\* The process may end, and a model that has used up its faults stops.
CHECK_DEADLOCK FALSE
INVARIANT OneReport
INVARIANT DumpLeftWhole
INVARIANT HostHearsUnlessRaced
