----------------------------- MODULE ProofAgenda -----------------------------
(***************************************************************************)
(* What the proof jobs promise to whoever pays for them, with no lease, no *)
(* visit, no stored batch id and no operator: an agenda has at most one    *)
(* open job, a job buys at most one inference and only while it is open,   *)
(* and it is closed, once and for good, only when nothing it bought is     *)
(* still running.  A candidate is shown only if the job's own inference    *)
(* produced it, and a job is shown as cancelled only if it bought nothing  *)
(* or the provider cancelled what it bought.                               *)
(* ProofJobs implements this specification.                                *)
(***************************************************************************)
CONSTANTS
    Jobs,        \* job ids
    AgendaOf     \* the agenda a job belongs to

VARIABLES
    state,       \* state[j]: "new", "open", or how the job j was closed
    inference    \* inference[j]: what the job j has bought

vars == <<state, inference>>

Init ==
    /\ state = [j \in Jobs |-> "new"]
    /\ inference = [j \in Jobs |-> "none"]

Open(j) ==
    /\ state[j] = "new"
    /\ \A k \in Jobs : AgendaOf[k] = AgendaOf[j] => state[k] # "open"
    /\ state' = [state EXCEPT ![j] = "open"]
    /\ UNCHANGED inference

Buy(j) ==
    /\ state[j] = "open" /\ inference[j] = "none"
    /\ inference' = [inference EXCEPT ![j] = "running"]
    /\ UNCHANGED state

\* The provider refuses the request, or its inference ends or is cancelled.
End(j, end) ==
    /\ inference[j] = "running"
    /\ inference' = [inference EXCEPT ![j] = end]
    /\ UNCHANGED state

Close(j, how) ==
    /\ state[j] = "open" /\ inference[j] # "running"
    /\ how = "candidate_ready" => inference[j] = "candidate_ready"
    /\ how = "cancelled" => inference[j] \in {"none", "cancelled"}
    /\ state' = [state EXCEPT ![j] = how]
    /\ UNCHANGED inference

Next ==
    \E j \in Jobs :
        \/ Open(j) \/ Buy(j)
        \/ \E end \in {"refused", "failed", "cancelled", "candidate_ready"} : End(j, end)
        \/ \E how \in {"cancelled", "failed", "candidate_ready"} : Close(j, how)

Spec == Init /\ [][Next]_vars
===============================================================================
