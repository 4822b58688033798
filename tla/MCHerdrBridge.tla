---------------------------- MODULE MCHerdrBridge ----------------------------
(* Values of the constants of HerdrBridge for the model checker.           *)
EXTENDS HerdrBridge, TLC

CONSTANTS j1, j2, m1, b1, b2, c1, c2

OneMachine == (j1 :> m1) @@ (j2 :> m1)
OneJob == j1 :> m1
Daemons == (b1 :> m1) @@ (b2 :> m1)
OneDaemon == b1 :> m1

Symmetry == Permutations(Calls) \cup Permutations(Bridges)
===============================================================================
