------------------------- MODULE MCOverlayMaterials -------------------------
EXTENDS OverlayMaterials, TLC

ThreadsAndMaterialsAlike == Permutations(Threads) \cup Permutations(Materials)
=============================================================================
