------------------------------- MODULE MCCalls -------------------------------
EXTENDS Calls, TLC

CONSTANTS e1, e2, e3, e4

Kinds == (e1 :> "player") @@ (e2 :> "item") @@ (e3 :> "projectile") @@ (e4 :> "unknown")
=============================================================================
