-------------------------- MODULE MCResearchActivity --------------------------
(***************************************************************************)
(* An instance of ResearchActivity for TLC: two rival first records of an  *)
(* activity, rival successors of one of them, a correction of its result   *)
(* and a rewrite of it, and a record of another activity.                  *)
(***************************************************************************)
EXTENDS ResearchActivity, TLC, FiniteSets

CONSTANTS run, other, none, i1, i2

Revision(id, activity, time, state, supersedes, corrected) ==
  [id |-> id, activity |-> activity, kind |-> "simulation",
   observed |-> time, reviewed |-> time, state |-> state,
   supersedes |-> supersedes, corrected |-> corrected]

Plan       == Revision("plan", run, 1, "planned", none, FALSE)
RivalPlan  == Revision("rival", run, 1, "planned", none, FALSE)
Edited     == Revision("plan", run, 2, "planned", none, FALSE)
Success    == Revision("success", run, 2, "completed", "plan", FALSE)
Failure    == Revision("failure", run, 2, "failed", "plan", FALSE)
Correction == Revision("correction", run, 3, "completed", "success", TRUE)
Reversal   == Revision("reversal", run, 3, "failed", "success", TRUE)
Elsewhere  == Revision("elsewhere", other, 1, "running", none, FALSE)

SomeRecords ==
  {Plan, RivalPlan, Edited, Success, Failure, Correction, Reversal, Elsewhere}

Symmetry == Permutations({i1, i2})
=============================================================================
