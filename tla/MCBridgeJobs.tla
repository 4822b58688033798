---------------------------- MODULE MCBridgeJobs ----------------------------
(* Values of the constants of BridgeJobs for the model checker.            *)
EXTENDS BridgeJobs, TLC

CONSTANTS j1, j2, m1, m2

OneMachine == (j1 :> m1) @@ (j2 :> m1)

\* The routes treat "blocked" as they treat "failed": posting one will do.
FewOutcomes == \A c \in Calls : call[c].body.outcome # "blocked"

Symmetry == Permutations(Calls)
===============================================================================
