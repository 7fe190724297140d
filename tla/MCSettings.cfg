CONSTANTS
  l = l
  r = r
  Left = l
  Right = r
  Order <- TwoSettings
  BindKeys = {1, 2}
  Saved <- SavedPair
  glow = glow
  range = range
  gone = gone
  skins = skins
  Odd = Odd
  Absent = Absent
  Fields = {glow, range, skins}
  KindOf <- Kinds
  Wide = {range}
  Foreign <- Strange
  Keys = {1}
  StoreModes = {"toggle", "hold_on"}
  Authors <- Others
  Numbers = {0, 1}
  Factory <- Built
  Retired = {gone}
  Known = {glow, skins}
  Files <- AllFiles
  Sorted <- InOrder
  Typed <- CleanNames
  PathOf <- CleanPath
SPECIFICATION Spec
INVARIANTS
  Exclusive
  TogglesOncePerHold
  CreateOverwritesNone
  SaveHitsSelected
PROPERTIES
  LastPressWins
  ImportRestores
  
  ToggleInStep
