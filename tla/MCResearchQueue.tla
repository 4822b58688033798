--------------------------- MODULE MCResearchQueue ---------------------------
(* Values of the constants of ResearchQueue for the model checker.         *)
EXTENDS ResearchQueue, TLC

CONSTANTS j1, j2, k1

SameKey == (j1 :> k1) @@ (j2 :> k1)
===============================================================================
