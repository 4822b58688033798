------------------------------ MODULE JobBoard ------------------------------
(***************************************************************************)
(* What the herdr bridge promises about jobs, with no request, no          *)
(* statement, no clock and no claim token: a job is posted once and given  *)
(* to a machine once, to a machine that has no other; it then ends once,   *)
(* with the outcome its machine reported or with nobody knowing what       *)
(* became of it.  Messages to the machines may be lost: a machine that is  *)
(* told it holds a job was given it, and one that is told its outcome was  *)
(* recorded reported the one the board shows.  BridgeJobs implements this  *)
(* specification.                                                          *)
(***************************************************************************)
CONSTANTS
    Jobs,        \* job ids
    MachineOf,   \* the machine a job is meant for
    Outcomes     \* what a machine may report

VARIABLES
    state,       \* state[j]: where the job j is
    offered,     \* the jobs whose hand-out is on its way to the machine
    confirmed    \* the <<job, outcome>> whose receipt is on its way

vars == <<state, offered, confirmed>>

Init ==
    /\ state = [j \in Jobs |-> "new"]
    /\ offered = {}
    /\ confirmed = {}

Post(j) ==
    /\ state[j] = "new"
    /\ state' = [state EXCEPT ![j] = "waiting"]
    /\ UNCHANGED <<offered, confirmed>>

HandOut(j) ==
    /\ state[j] = "waiting"
    /\ \A k \in Jobs : MachineOf[k] = MachineOf[j] => state[k] # "held"
    /\ state' = [state EXCEPT ![j] = "held"]
    /\ offered' = offered \/ offered' = offered \cup {j}
    /\ UNCHANGED confirmed

Report(j, o) ==
    /\ state[j] = "held"
    /\ state' = [state EXCEPT ![j] = o]
    /\ confirmed' = confirmed \/ confirmed' = confirmed \cup {<<j, o>>}
    /\ UNCHANGED offered

\* Nobody waits for these jobs any longer, and none of them runs again.
GiveUp(gone) ==
    /\ gone # {} /\ \A j \in gone : state[j] = "held"
    /\ state' = [j \in Jobs |-> IF j \in gone THEN "unknown" ELSE state[j]]
    /\ UNCHANGED <<offered, confirmed>>

\* A machine reports again what it has reported.
Confirm(j) ==
    /\ state[j] \in Outcomes
    /\ confirmed' = confirmed \cup {<<j, state[j]>>}
    /\ UNCHANGED <<state, offered>>

\* A message arrives, or is lost.
Arrive ==
    /\ \/ (\E j \in offered : offered' = offered \ {j}) /\ UNCHANGED confirmed
       \/ (\E r \in confirmed : confirmed' = confirmed \ {r}) /\ UNCHANGED offered
    /\ UNCHANGED state

Next ==
    \/ \E j \in Jobs : Post(j) \/ HandOut(j) \/ Confirm(j)
    \/ \E j \in Jobs, o \in Outcomes : Report(j, o)
    \/ \E gone \in SUBSET Jobs : GiveUp(gone)
    \/ Arrive

Spec == Init /\ [][Next]_vars
===============================================================================
