------------------------------- MODULE MCScene -------------------------------
EXTENDS Scene, TLC

CONSTANTS p1, p2, a1, a2, a3, m1, m2, e1, e2

Symmetry ==
  Permutations(Pawns) \cup Permutations(Addresses) \cup Permutations(Managers)
  \cup Permutations(Effects)
=============================================================================
