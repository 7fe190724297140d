--------------------------- MODULE MCShotTracker ---------------------------
EXTENDS ShotTracker

CONSTANT v1
=============================================================================
