SPECIFICATION Spec
CONSTANTS
  Files <- AllFiles
  Sorted <- InOrder
  Typed <- UncleanNames
  PathOf <- UncleanPath
INVARIANTS
  CreateOverwritesNone
