---------------------------- MODULE TasksConsumer ----------------------------
(***************************************************************************)
(* gcp/tasks-consumer: the HTTP service that Cloud Tasks calls to start    *)
(* Cloud Run jobs, with the GCS ledger that bounds the GPU-hours a         *)
(* schedule may reserve in one UTC day.                                    *)
(*                                                                         *)
(* An element of Deliveries is one HTTP request of Cloud Tasks to /run.    *)
(* Its handler is the path of handle_run and GcsBudgetLedger::reserve; pc  *)
(* names the await the handler has reached, so that between two of its     *)
(* steps other handlers, the clock, an operator and Cloud Tasks may act.   *)
(* Cloud Tasks, the bucket and Cloud Run are external.                     *)
(***************************************************************************)
EXTENDS Naturals, Sequences, FiniteSets

CONSTANTS
    Tasks,         \* Cloud Tasks tasks, by task name
    Schedules,     \* schedule names, other than "manual"
    Unscheduled,   \* the schedule of a manual or legacy dispatch
    ScheduleOf,    \* the schedule_name of a task's payload
    ControlPlane,  \* the tasks whose target job is not an MLIP backend
    Policies,      \* policy files an operator may publish
    Deliveries,    \* HTTP requests
    LastDay,       \* the UTC dates are 0..LastDay
    CasAttempts,   \* compare-and-set attempts of one reservation: 8
    MaxFailures    \* attempts after which Cloud Tasks drops a task

ASSUME TaskAssumption ==
    /\ Tasks # {}
    /\ Unscheduled \notin Schedules
    /\ ScheduleOf \in [Tasks -> Schedules \cup {Unscheduled}]
    /\ ControlPlane \subseteq Tasks

ASSUME BoundAssumption ==
    /\ LastDay \in Nat
    /\ CasAttempts \in Nat \ {0}
    /\ MaxFailures \in Nat \ {0}

Days == 0 .. LastDay

\* "active" stands for the whole of SchedulePolicy::validate that does not
\* look at the budget: schema, name, no-silent-retry, cost basis, backend.
Policy == [active : BOOLEAN, cap : Nat, hours : Nat]

ASSUME PolicyAssumption == Policies \subseteq Policy

Reservation == [task : Tasks, hours : Nat]

\* A ledger object with its generation; generation 0 is "no such object".
Ledger == [gen : Nat, reserved : Nat, rows : Seq(Reservation)]

NoLedger == [gen |-> 0, reserved |-> 0, rows |-> <<>>]

Phase == {"idle", "check", "reserve", "metadata", "media", "write", "run",
          "orphaned", "done"}

VARIABLES
    today,       \* the UTC date
    ledger,      \* ledger[s][day]: the object <schedule>/<day>.json
    published,   \* published[s]: the policy file of s
    queued,      \* the tasks Cloud Tasks still has to deliver
    failures,    \* failures[t]: the failed attempts Cloud Tasks counted
    pc,          \* pc[d]: the phase of request d
    req,         \* req[d]: task name and retry count, from the headers
    heard,       \* heard[d]: Cloud Tasks still waits for the answer to d
    plan,        \* plan[d]: the policy and the date d reserves under
    snap,        \* snap[d]: generation read, and the ledger d will write on
    tries,       \* tries[d]: compare-and-set attempts that were refused
    started      \* the requests for which Cloud Run started a job

external == <<today, ledger, published>>
delivery == <<queued, failures, heard>>
local == <<req, plan, snap, tries>>
vars == <<today, ledger, published, queued, failures, pc, req, heard, plan,
          snap, tries, started>>

-------------------------------------------------------------------------------
Governed(t) == ScheduleOf[t] \in Schedules /\ t \notin ControlPlane

Scheduled(t) == ScheduleOf[t] \in Schedules

Active(d) == pc[d] \notin {"idle", "orphaned", "done"}

\* SchedulePolicy::validate.
Valid(p) == p.active /\ 0 < p.hours /\ p.hours <= p.cap

\* The ledger object d works on.
Current(d) == ledger[ScheduleOf[req[d].task]][plan[d].day]

HasRow(rows, t) == \E i \in DOMAIN rows : rows[i].task = t

Row(d) == [task |-> req[d].task, hours |-> plan[d].policy.hours]

-------------------------------------------------------------------------------
(* What the answer to a request does to its task.  Cloud Tasks deletes the *)
(* task on a 2xx answer and counts a failed attempt on any other, unless   *)
(* it has stopped waiting for this request.                                *)

Acknowledge(d) ==
    /\ pc' = [pc EXCEPT ![d] = "done"]
    /\ queued' = IF heard[d] THEN queued \ {req[d].task} ELSE queued
    /\ heard' = [heard EXCEPT ![d] = FALSE]
    /\ UNCHANGED failures

CountFailure(t) ==
    /\ failures' = [failures EXCEPT ![t] = @ + 1]
    /\ queued' = IF failures[t] + 1 >= MaxFailures THEN queued \ {t} ELSE queued

FailAttempt(d) ==
    /\ IF heard[d] /\ req[d].task \in queued
       THEN CountFailure(req[d].task)
       ELSE UNCHANGED <<failures, queued>>
    /\ heard' = [heard EXCEPT ![d] = FALSE]

Refuse(d) ==
    /\ pc' = [pc EXCEPT ![d] = "done"]
    /\ FailAttempt(d)

-------------------------------------------------------------------------------
NoPolicy == [active |-> FALSE, cap |-> 0, hours |-> 0]

AnyTask == CHOOSE t \in Tasks : TRUE

Init ==
    /\ today = 0
    /\ ledger = [s \in Schedules |-> [n \in Days |-> NoLedger]]
    /\ published \in [Schedules -> Policies]
    /\ queued = Tasks
    /\ failures = [t \in Tasks |-> 0]
    /\ pc = [d \in Deliveries |-> "idle"]
    /\ req = [d \in Deliveries |-> [task |-> AnyTask, retry |-> 0]]
    /\ heard = [d \in Deliveries |-> FALSE]
    /\ plan = [d \in Deliveries |-> [policy |-> NoPolicy, day |-> 0]]
    /\ snap = [d \in Deliveries |-> NoLedger]
    /\ tries = [d \in Deliveries |-> 0]
    /\ started = {}

-------------------------------------------------------------------------------
(* The environment: the clock, the operator and Cloud Tasks.               *)

NewDay ==
    /\ today < LastDay
    /\ today' = today + 1
    /\ UNCHANGED <<ledger, published, delivery, local, pc, started>>

Publish(s, p) ==
    /\ published[s] # p
    /\ published' = [published EXCEPT ![s] = p]
    /\ UNCHANGED <<today, ledger, delivery, local, pc, started>>

\* Cloud Tasks delivers at least once: it may send a task again before it
\* has heard the answer to an earlier request for it.
Deliver(d, t) ==
    /\ pc[d] = "idle"
    /\ t \in queued
    /\ pc' = [pc EXCEPT ![d] = "check"]
    /\ req' = [req EXCEPT ![d] = [task |-> t, retry |-> failures[t]]]
    /\ heard' = [heard EXCEPT ![d] = TRUE]
    /\ UNCHANGED <<external, queued, failures, plan, snap, tries, started>>

\* The attempt's deadline passes; the handler does not notice.
Deadline(d) ==
    /\ Active(d)
    /\ heard[d]
    /\ FailAttempt(d)
    /\ UNCHANGED <<external, local, pc, started>>

\* The consumer's instance dies.  A ledger write already on its way may
\* still be applied, and so may a jobs.run call.
Crash(d) ==
    /\ Active(d)
    /\ pc' = [pc EXCEPT ![d] = IF @ = "write" THEN "orphaned" ELSE "done"]
    /\ FailAttempt(d)
    /\ \/ started' = started
       \/ pc[d] = "run" /\ started' = started \cup {d}
    /\ UNCHANGED <<external, local>>

-------------------------------------------------------------------------------
(* handle_run, before the reservation.                                     *)

\* Malformed request, target not in the catalog, OIDC key not available:
\* every answer of this kind is a 4xx, which Cloud Tasks retries.
Reject(d) ==
    /\ pc[d] = "check"
    /\ Refuse(d)
    /\ UNCHANGED <<external, local, started>>

CatalogUnavailable(d) ==
    /\ pc[d] = "check"
    /\ IF Scheduled(req[d].task) THEN Acknowledge(d) ELSE Refuse(d)
    /\ UNCHANGED <<external, local, started>>

\* Owner-noted manual, legacy and control-plane dispatches need no budget.
AdmitUngoverned(d) ==
    /\ pc[d] = "check"
    /\ ~Governed(req[d].task)
    /\ pc' = [pc EXCEPT ![d] = "run"]
    /\ UNCHANGED <<external, delivery, local, started>>

PolicyUnavailable(d) ==
    /\ pc[d] = "check"
    /\ Governed(req[d].task)
    /\ Acknowledge(d)
    /\ UNCHANGED <<external, local, started>>

LoadPolicy(d) ==
    /\ pc[d] = "check"
    /\ Governed(req[d].task)
    /\ LET p == published[ScheduleOf[req[d].task]] IN
       \/ /\ ~Valid(p)
          /\ Refuse(d)
          /\ UNCHANGED plan
       \/ /\ Valid(p)
          /\ req[d].retry > 0
          /\ Acknowledge(d)
          /\ UNCHANGED plan
       \/ /\ Valid(p)
          /\ req[d].retry = 0
          /\ plan' = [plan EXCEPT ![d].policy = p]
          /\ pc' = [pc EXCEPT ![d] = "reserve"]
          /\ UNCHANGED delivery
    /\ UNCHANGED <<external, req, snap, tries, started>>

-------------------------------------------------------------------------------
(* GcsBudgetLedger::reserve.  Any of its calls may fail; the error is      *)
(* acknowledged, which uses up the task.                                   *)

BeginReserve(d) ==
    /\ pc[d] = "reserve"
    /\ plan' = [plan EXCEPT ![d].day = today]
    /\ pc' = [pc EXCEPT ![d] = "metadata"]
    /\ UNCHANGED <<external, delivery, req, snap, tries, started>>

\* Deviation: no look for the task's own reservation.
DecideWithoutDuplicateCheck(d, g, doc) ==
    LET next == doc.reserved + plan[d].policy.hours IN
    \/ /\ next > plan[d].policy.cap
       /\ Acknowledge(d)
       /\ UNCHANGED snap
    \/ /\ next <= plan[d].policy.cap
       /\ snap' = [snap EXCEPT ![d] = [gen |-> g, reserved |-> doc.reserved,
                                       rows |-> doc.rows]]
       /\ pc' = [pc EXCEPT ![d] = "write"]
       /\ UNCHANGED delivery

\* Deviation: the cap is compared with the hours reserved so far.
DecideBeforeAdding(d, g, doc) ==
    \/ /\ HasRow(doc.rows, req[d].task) \/ doc.reserved >= plan[d].policy.cap
       /\ Acknowledge(d)
       /\ UNCHANGED snap
    \/ /\ ~HasRow(doc.rows, req[d].task)
       /\ doc.reserved < plan[d].policy.cap
       /\ snap' = [snap EXCEPT ![d] = [gen |-> g, reserved |-> doc.reserved,
                                       rows |-> doc.rows]]
       /\ pc' = [pc EXCEPT ![d] = "write"]
       /\ UNCHANGED delivery

\* The decision taken on a document that was read with generation g.
Decide(d, g, doc) ==
    LET next == doc.reserved + plan[d].policy.hours IN
    \/ /\ HasRow(doc.rows, req[d].task) \/ next > plan[d].policy.cap
       /\ Acknowledge(d)
       /\ UNCHANGED snap
    \/ /\ ~HasRow(doc.rows, req[d].task)
       /\ next <= plan[d].policy.cap
       /\ snap' = [snap EXCEPT ![d] = [gen |-> g, reserved |-> doc.reserved,
                                       rows |-> doc.rows]]
       /\ pc' = [pc EXCEPT ![d] = "write"]
       /\ UNCHANGED delivery

ReadMetadata(d) ==
    /\ pc[d] = "metadata"
    /\ \/ /\ Current(d).gen = 0
          /\ Decide(d, 0, NoLedger)
       \/ /\ Current(d).gen > 0
          /\ snap' = [snap EXCEPT ![d].gen = Current(d).gen]
          /\ pc' = [pc EXCEPT ![d] = "media"]
          /\ UNCHANGED delivery
    /\ UNCHANGED <<external, req, plan, tries, started>>

\* A second request: the document may be newer than the generation.
ReadMedia(d) ==
    /\ pc[d] = "media"
    /\ Decide(d, snap[d].gen, Current(d))
    /\ UNCHANGED <<external, req, plan, tries, started>>

\* Deviation: the write carries no generation.
ApplyWriteUnconditionally(d) ==
    ledger' = [ledger EXCEPT ![ScheduleOf[req[d].task]][plan[d].day] =
        [gen |-> @.gen + 1,
         reserved |-> snap[d].reserved + plan[d].policy.hours,
         rows |-> Append(snap[d].rows, Row(d))]]

\* The bucket applies a write only if the generation is still the one read.
ApplyWrite(d) ==
    /\ Current(d).gen = snap[d].gen
    /\ ledger' = [ledger EXCEPT ![ScheduleOf[req[d].task]][plan[d].day] =
           [gen |-> snap[d].gen + 1,
            reserved |-> snap[d].reserved + plan[d].policy.hours,
            rows |-> Append(snap[d].rows, Row(d))]]

WriteAccepted(d) ==
    /\ pc[d] = "write"
    /\ ApplyWrite(d)
    /\ pc' = [pc EXCEPT ![d] = "run"]
    /\ UNCHANGED <<today, published, delivery, local, started>>

\* Deviation: a write may be refused though nobody wrote.
WriteRefusedForNothing(d) ==
    /\ pc[d] = "write"
    /\ tries' = [tries EXCEPT ![d] = @ + 1]
    /\ \/ /\ tries[d] + 1 < CasAttempts
          /\ pc' = [pc EXCEPT ![d] = "metadata"]
          /\ UNCHANGED delivery
       \/ /\ tries[d] + 1 = CasAttempts
          /\ Acknowledge(d)
    /\ UNCHANGED <<external, req, plan, snap, started>>

\* Deviation: the next attempt keeps the generation and counts nothing.
WriteRefusedKeepsGeneration(d) ==
    /\ pc[d] = "write"
    /\ Current(d).gen # snap[d].gen
    /\ pc' = [pc EXCEPT ![d] = "media"]
    /\ UNCHANGED <<external, delivery, local, started>>

WriteRefused(d) ==
    /\ pc[d] = "write"
    /\ Current(d).gen # snap[d].gen
    /\ tries' = [tries EXCEPT ![d] = @ + 1]
    /\ \/ /\ tries[d] + 1 < CasAttempts
          /\ pc' = [pc EXCEPT ![d] = "metadata"]
          /\ UNCHANGED delivery
       \/ /\ tries[d] + 1 = CasAttempts
          /\ Acknowledge(d)
    /\ UNCHANGED <<external, req, plan, snap, started>>

\* Deviation: a write without a response is taken for a reservation.
WriteUnansweredRuns(d) ==
    /\ pc[d] = "write"
    /\ pc' = [pc EXCEPT ![d] = "run"]
    /\ UNCHANGED <<external, delivery, local, started>>

\* No response within the client's timeout, though the write may be applied.
WriteUnanswered(d) ==
    /\ pc[d] = "write"
    /\ pc' = [pc EXCEPT ![d] = "orphaned"]
    /\ queued' = IF heard[d] THEN queued \ {req[d].task} ELSE queued
    /\ heard' = [heard EXCEPT ![d] = FALSE]
    /\ UNCHANGED <<external, failures, local, started>>

OrphanApplied(d) ==
    /\ pc[d] = "orphaned"
    /\ ApplyWrite(d)
    /\ pc' = [pc EXCEPT ![d] = "done"]
    /\ UNCHANGED <<today, published, delivery, local, started>>

ReserveFails(d) ==
    /\ pc[d] \in {"reserve", "metadata", "media"}
    /\ Acknowledge(d)
    /\ UNCHANGED <<external, local, started>>

-------------------------------------------------------------------------------
(* handle_run, after admission: one call of jobs.run.                      *)

RunAccepted(d) ==
    /\ pc[d] = "run"
    /\ started' = started \cup {d}
    /\ Acknowledge(d)
    /\ UNCHANGED <<external, local>>

\* Deviation: a failed jobs.run is final for every task.
RunFailsForGood(d) ==
    /\ pc[d] = "run"
    /\ started' \in {started, started \cup {d}}
    /\ Acknowledge(d)
    /\ UNCHANGED <<external, local>>

\* An error from jobs.run, which may have started the job all the same.
\* With a reservation the error is final; without one Cloud Tasks retries.
RunFails(d) ==
    /\ pc[d] = "run"
    /\ started' \in {started, started \cup {d}}
    /\ IF Governed(req[d].task) THEN Acknowledge(d) ELSE Refuse(d)
    /\ UNCHANGED <<external, local>>

Handle(d) ==
    \/ Reject(d) \/ CatalogUnavailable(d) \/ AdmitUngoverned(d)
    \/ PolicyUnavailable(d) \/ LoadPolicy(d)
    \/ BeginReserve(d) \/ ReadMetadata(d) \/ ReadMedia(d)
    \/ WriteAccepted(d) \/ WriteRefused(d) \/ WriteUnanswered(d)
    \/ ReserveFails(d)
    \/ RunAccepted(d) \/ RunFails(d)

Environment(d) ==
    \/ \E t \in Tasks : Deliver(d, t)
    \/ Deadline(d) \/ Crash(d) \/ OrphanApplied(d)

Next ==
    \/ NewDay
    \/ \E s \in Schedules, p \in Policies : Publish(s, p)
    \/ \E d \in Deliveries : Handle(d) \/ Environment(d)

\* The runtime keeps polling a handler's future until it completes.
Spec == Init /\ [][Next]_vars /\ \A d \in Deliveries : WF_vars(Handle(d))

-------------------------------------------------------------------------------
(* Properties.                                                             *)

\* Every variable stays in the set of values it is meant for.
TypeOK ==
    /\ today \in Days
    /\ ledger \in [Schedules -> [Days -> Ledger]]
    /\ published \in [Schedules -> Policies]
    /\ queued \subseteq Tasks
    /\ failures \in [Tasks -> Nat]
    /\ pc \in [Deliveries -> Phase]
    /\ req \in [Deliveries -> [task : Tasks, retry : Nat]]
    /\ heard \in [Deliveries -> BOOLEAN]
    /\ plan \in [Deliveries -> [policy : Policy, day : Days]]
    /\ snap \in [Deliveries -> Ledger]
    /\ tries \in [Deliveries -> 0 .. CasAttempts]
    /\ started \subseteq Deliveries

\* The deliveries that were given GPU-hours and may have used them.
Holders ==
    {d \in Deliveries : /\ Governed(req[d].task)
                        /\ pc[d] = "run" \/ d \in started}

\* A GPU job of a schedule is started only on a reservation that is on
\* record in that schedule's ledger, and no two jobs are started on the same
\* reservation, whatever handlers, redeliveries and crashes interleave
\* (reserve's duplicate check and compare-and-set, budget.rs:251-290).
StartsAreReserved ==
    /\ \A d \in Holders : HasRow(Current(d).rows, req[d].task)
    /\ \A d, e \in Holders :
          d # e /\ req[d].task = req[e].task => plan[d].day # plan[e].day

\* The jobs that were started on reservations of schedule s for day n.
JobsOf(s, n) ==
    {d \in started : Governed(req[d].task) /\ ScheduleOf[req[d].task] = s /\ plan[d].day = n}

\* The bill of a day is bounded: however often the operator changes the policy
\* between the reservations, and whatever sizes the jobs have, the jobs of any size
\* and more that a schedule starts on one day's ledger fit the largest cap.
DailyJobsFitTheCap ==
    LET valid == {r \in Policies : Valid(r)} IN
    \A s \in Schedules, n \in Days, p, q \in valid :
        (\A r \in valid : r.cap <= q.cap)
            => p.hours * Cardinality({d \in JobsOf(s, n) : plan[d].policy.hours >= p.hours})
                  <= q.cap

\* No reservation is ever recorded twice in one ledger: the task names in a
\* document are distinct.
RowsDistinct ==
    \A s \in Schedules, n \in Days :
        LET rows == ledger[s][n].rows IN
        \A i, j \in DOMAIN rows : rows[i].task = rows[j].task => i = j

\* A ledger only grows, one reservation at a time: a step that replaces a
\* document keeps every row of the document it really replaces, adds one row
\* and adds its hours, and the new total fits the cap of a policy that the
\* writing request had loaded.  A lost update or a stale write breaks this.
AppendsOneReservation ==
    \A s \in Schedules, n \in Days :
        LET old == ledger[s][n]  new == ledger'[s][n] IN
        new # old =>
            \E d \in Deliveries :
               LET p == plan[d].policy IN
               /\ ScheduleOf[req[d].task] = s /\ plan[d].day = n
               /\ new = [gen |-> old.gen + 1,
                         reserved |-> old.reserved + p.hours,
                         rows |-> Append(old.rows, Row(d))]
               /\ new.reserved <= p.cap

LedgerAppendOnly == [][AppendsOneReservation]_ledger

\* A compare-and-set attempt is refused only because another reservation was
\* recorded meanwhile: "contended after 8 attempts" never happens to a ledger
\* that nobody else is using.
ContentionMeansProgress ==
    \A d \in Deliveries :
        Governed(req[d].task) => tries[d] <= Len(Current(d).rows)

\* A dispatch without a schedule is at-least-once: its task leaves the queue
\* only when a job was started for it or Cloud Tasks has used up its attempts,
\* so an unavailable catalog or a failing jobs.run never swallows it.
NoUnscheduledTaskLost ==
    \A t \in Tasks : ~Scheduled(t) /\ t \notin queued =>
        failures[t] >= MaxFailures \/ \E d \in started : req[d].task = t

\* reserve's loop and handle_run terminate: every request is answered or
\* dies, however the reservations of others interleave with its own.
EveryRequestEnds ==
    \A d \in Deliveries : Active(d) ~> ~Active(d)

\* Each step is a step of ScheduleBudget, or changes nothing it can see.
Budget == INSTANCE ScheduleBudget WITH
    reserved <- [s \in Schedules |-> [n \in Days |-> ledger[s][n].reserved]],
    admitted <- [s \in Schedules |-> [n \in Days |->
                    {t \in Tasks : HasRow(ledger[s][n].rows, t)}]],
    starts <- {<<req[d].task, plan[d].day>> :
                  d \in {e \in started : Governed(req[e].task)}}

ImplementsScheduleBudget == Budget!Spec
===============================================================================
