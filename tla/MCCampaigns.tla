----------------------------- MODULE MCCampaigns -----------------------------
(***************************************************************************)
(* Instances of Campaigns for TLC: an accuracy-only campaign, whose        *)
(* triplets have two cells.                                                *)
(***************************************************************************)
EXTENDS Campaigns, TLC

CONSTANTS base, distill, pair

\* The runner fails its cells itself; operators complete them, with the scores or
\* with an empty body.
SomeResults ==
  {[status |-> "completed", scored |-> TRUE],
   [status |-> "completed", scored |-> FALSE]}

OnePair == base :> pair @@ distill :> pair

Symmetry == Permutations({base, distill})
=============================================================================
