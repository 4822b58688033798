---------------------------- MODULE ScheduleBudget ----------------------------
(***************************************************************************)
(* What the daily budget of a schedule promises, with no ledger object, no *)
(* compare-and-set and no redelivery: within one UTC day a schedule admits *)
(* a task at most once and only if the task's GPU-hour reservation still   *)
(* fits a published daily cap, and it starts a job at most once for each   *)
(* admission.  TasksConsumer implements this specification.                *)
(***************************************************************************)
EXTENDS Naturals

CONSTANTS
    Tasks,        \* Cloud Tasks tasks, by task name
    Schedules,    \* the schedule names that have a budget
    ScheduleOf,   \* the schedule a task is charged to
    Days,         \* UTC dates
    Policies      \* the budgets an operator may publish: [cap, hours]

VARIABLES
    reserved,     \* reserved[s][day]: the GPU-hours promised so far
    admitted,     \* admitted[s][day]: the tasks that hold a reservation
    starts        \* the reservations <<task, day>> a job was started for

vars == <<reserved, admitted, starts>>

Init ==
    /\ reserved = [s \in Schedules |-> [n \in Days |-> 0]]
    /\ admitted = [s \in Schedules |-> [n \in Days |-> {}]]
    /\ starts = {}

Admit(t, n, p) ==
    LET s == ScheduleOf[t] IN
    /\ t \notin admitted[s][n]
    /\ reserved[s][n] + p.hours <= p.cap
    /\ reserved' = [reserved EXCEPT ![s][n] = @ + p.hours]
    /\ admitted' = [admitted EXCEPT ![s][n] = @ \cup {t}]
    /\ UNCHANGED starts

Start(t, n) ==
    /\ t \in admitted[ScheduleOf[t]][n]
    /\ <<t, n>> \notin starts
    /\ starts' = starts \cup {<<t, n>>}
    /\ UNCHANGED <<reserved, admitted>>

Next ==
    \E t \in {u \in Tasks : ScheduleOf[u] \in Schedules}, n \in Days :
        \/ \E p \in Policies : Admit(t, n, p)
        \/ Start(t, n)

Spec == Init /\ [][Next]_vars
===============================================================================
