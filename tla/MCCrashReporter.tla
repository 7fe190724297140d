-------------------------- MODULE MCCrashReporter --------------------------
EXTENDS CrashReporter, TLC

Alike == Permutations(Threads) \cup Permutations(Hosts)
=============================================================================
