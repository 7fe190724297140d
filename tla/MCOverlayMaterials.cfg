\* Three threads and two materials on four slots: more copies than slots, so
\* the table fills, and up to three threads hold a claim beyond it at once.
CONSTANTS
  Threads = {t1, t2, t3}
  Materials = {m1, m2}
  Capacity = 4
  NoMaterial = NoMaterial
SYMMETRY ThreadsAndMaterialsAlike
SPECIFICATION Spec
INVARIANT SlotsOwnedOnce
INVARIANT CountCoversEntries
INVARIANT CopiesBounded
PROPERTY ImplementsMaterialSet
