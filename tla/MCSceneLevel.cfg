CONSTANTS
  p1 = p1
  p2 = p2
  a1 = a1
  a2 = a2
  a3 = a3
  e1 = e1
  e2 = e2
  Pawns = {p1, p2}
  Addresses = {a1, a2, a3}
  m1 = m1
  m2 = m2
  Managers = {m1, m2}
  NoManager = NoManager
  Effects = {e1, e2}
  NoEffect = NoEffect
  Types = {"snow", "rain"}
  Rounds = {0, 1}
SPECIFICATION Spec
SYMMETRY Symmetry
INVARIANT ReleasedAtLevelEnd
