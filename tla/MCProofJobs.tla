----------------------------- MODULE MCProofJobs -----------------------------
(* Values of the constants of ProofJobs for the model checker.             *)
EXTENDS ProofJobs, TLC

CONSTANTS j1, j2, a1

OneAgenda == (j1 :> a1) @@ (j2 :> a1)
===============================================================================
