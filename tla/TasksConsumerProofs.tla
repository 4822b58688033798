------------------------- MODULE TasksConsumerProofs -------------------------
(***************************************************************************)
(* Proofs about TasksConsumer, for every set of tasks, schedules, policies *)
(* and deliveries, every number of days and every bound on the attempts.   *)
(***************************************************************************)
EXTENDS TasksConsumer, FiniteSetTheorems, TLAPS

USE DEF external, delivery, local

LEMMA AnyTaskIsATask == AnyTask \in Tasks
  BY TaskAssumption DEF AnyTask

LEMMA GovernedSchedule ==
  ASSUME NEW t \in Tasks, Governed(t)
  PROVE  ScheduleOf[t] \in Schedules
  BY DEF Governed

LEMMA PoliciesArePolicies == \A p \in Policies : p \in Policy
  BY PolicyAssumption

-------------------------------------------------------------------------------
(* Type correctness.                                                       *)

\* A request in the reservation loop is for a task with a budget: the state
\* that TypeOK needs to know that the loop's ledger object exists.
LoopGoverned ==
    \A d \in Deliveries :
        pc[d] \in {"reserve", "metadata", "media", "write", "orphaned"} =>
            Governed(req[d].task)

TypeInv == TypeOK /\ LoopGoverned

LEMMA TypeInit == Init => TypeInv
  <1> SUFFICES ASSUME Init PROVE TypeInv
    OBVIOUS
  <1>1. NoLedger \in Ledger
    BY DEF NoLedger, Ledger
  <1>2. NoPolicy \in Policy
    BY DEF NoPolicy, Policy
  <1>3. 0 \in Days /\ 0 \in 0 .. CasAttempts
    BY BoundAssumption DEF Days
  <1>4. TypeOK
    BY <1>1, <1>2, <1>3, AnyTaskIsATask DEF Init, TypeOK, Phase
  <1>5. LoopGoverned
    BY DEF Init, LoopGoverned
  <1>6. QED
    BY <1>4, <1>5 DEF TypeInv

\* What an answer does to the variables of Cloud Tasks.
DeliveryTypes ==
    /\ queued \subseteq Tasks
    /\ failures \in [Tasks -> Nat]
    /\ heard \in [Deliveries -> BOOLEAN]

LEMMA AcknowledgeType ==
  ASSUME TypeOK, NEW d \in Deliveries, Acknowledge(d)
  PROVE  DeliveryTypes' /\ pc' = [pc EXCEPT ![d] = "done"]
  BY DEF TypeOK, Acknowledge, DeliveryTypes

LEMMA FailAttemptType ==
  ASSUME TypeOK, NEW d \in Deliveries, FailAttempt(d)
  PROVE  DeliveryTypes'
  <1>1. req[d].task \in Tasks
    BY DEF TypeOK
  <1>2. queued' \subseteq Tasks /\ failures' \in [Tasks -> Nat]
    <2>1. CASE heard[d] /\ req[d].task \in queued
      <3>1. CountFailure(req[d].task)
        BY <2>1 DEF FailAttempt
      <3>2. QED
        BY <1>1, <3>1 DEF TypeOK, CountFailure
    <2>2. CASE ~(heard[d] /\ req[d].task \in queued)
      BY <2>2 DEF TypeOK, FailAttempt
    <2>3. QED
      BY <2>1, <2>2
  <1>3. heard' \in [Deliveries -> BOOLEAN]
    BY DEF TypeOK, FailAttempt
  <1>4. QED
    BY <1>2, <1>3 DEF DeliveryTypes

LEMMA RefuseType ==
  ASSUME TypeOK, NEW d \in Deliveries, Refuse(d)
  PROVE  DeliveryTypes' /\ pc' = [pc EXCEPT ![d] = "done"]
  BY FailAttemptType DEF Refuse

\* The object a request in the loop works on is a ledger object.
LEMMA CurrentType ==
  ASSUME TypeOK, NEW d \in Deliveries, Governed(req[d].task)
  PROVE  /\ ScheduleOf[req[d].task] \in Schedules
         /\ plan[d].day \in Days
         /\ Current(d) \in Ledger
  BY DEF TypeOK, Governed, Current

LEMMA ApplyWriteType ==
  ASSUME TypeOK, NEW d \in Deliveries, Governed(req[d].task), ApplyWrite(d)
  PROVE  ledger' \in [Schedules -> [Days -> Ledger]]
  <1>1. Row(d) \in Reservation
    BY DEF TypeOK, Row, Reservation, Policy
  <1>2. Append(snap[d].rows, Row(d)) \in Seq(Reservation)
    BY <1>1 DEF TypeOK, Ledger
  <1>3. [gen |-> snap[d].gen + 1,
         reserved |-> snap[d].reserved + plan[d].policy.hours,
         rows |-> Append(snap[d].rows, Row(d))] \in Ledger
    BY <1>2 DEF TypeOK, Ledger, Policy
  <1>4. QED
    BY <1>3, CurrentType DEF TypeOK, ApplyWrite

LEMMA DecideType ==
  ASSUME TypeOK, NEW d \in Deliveries, NEW g \in Nat, NEW doc \in Ledger,
         Decide(d, g, doc)
  PROVE  /\ DeliveryTypes'
         /\ snap' \in [Deliveries -> Ledger]
         /\ \E p \in {"done", "write"} : pc' = [pc EXCEPT ![d] = p]
  <1>1. CASE Acknowledge(d) /\ UNCHANGED snap
    BY <1>1, AcknowledgeType DEF TypeOK
  <1>2. CASE /\ snap' = [snap EXCEPT ![d] = [gen |-> g, reserved |-> doc.reserved,
                                             rows |-> doc.rows]]
             /\ pc' = [pc EXCEPT ![d] = "write"]
             /\ UNCHANGED <<queued, failures, heard>>
    BY <1>2 DEF TypeOK, DeliveryTypes, Ledger
  <1>3. QED
    BY <1>1, <1>2 DEF Decide

\* Moving one request to a phase, with its header and the others' unchanged,
\* keeps LoopGoverned if the phase is outside the loop or the request is
\* governed.
LEMMA PhaseChange ==
  ASSUME TypeInv, NEW d \in Deliveries, NEW p \in Phase,
         pc' = [pc EXCEPT ![d] = p], UNCHANGED req,
         p \in {"done", "run", "check"} \/ Governed(req[d].task)
  PROVE  LoopGoverned' /\ pc' \in [Deliveries -> Phase]
  BY DEF TypeInv, TypeOK, LoopGoverned, Phase

LEMMA TypeStep == TypeInv /\ [Next]_vars => TypeInv'
  <1> SUFFICES ASSUME TypeInv, [Next]_vars PROVE TypeInv'
    OBVIOUS
  <1>0. TypeOK /\ LoopGoverned
    BY DEF TypeInv
  <1>a. {"done", "run", "reserve", "metadata", "media", "write", "orphaned"} \subseteq Phase
    BY DEF Phase
  <1>1. CASE NewDay
    BY <1>0, <1>1, BoundAssumption DEF NewDay, Days, TypeInv, TypeOK, LoopGoverned
  <1>2. ASSUME NEW s \in Schedules, NEW p \in Policies, Publish(s, p)
        PROVE  TypeInv'
    BY <1>0, <1>2 DEF Publish, TypeInv, TypeOK, LoopGoverned
  <1>3. ASSUME NEW d \in Deliveries, Handle(d)
        PROVE  TypeInv'
    <2>1. CASE Reject(d)
      BY <1>0, <1>a, <2>1, RefuseType, PhaseChange
         DEF Reject, TypeInv, TypeOK, DeliveryTypes
    <2>2. CASE CatalogUnavailable(d)
      BY <1>0, <1>a, <2>2, RefuseType, AcknowledgeType, PhaseChange
         DEF CatalogUnavailable, TypeInv, TypeOK, DeliveryTypes
    <2>3. CASE AdmitUngoverned(d)
      BY <1>0, <1>a, <2>3, PhaseChange
         DEF AdmitUngoverned, TypeInv, TypeOK
    <2>4. CASE PolicyUnavailable(d)
      BY <1>0, <1>a, <2>4, AcknowledgeType, PhaseChange
         DEF PolicyUnavailable, TypeInv, TypeOK, DeliveryTypes
    <2>5. CASE LoadPolicy(d)
      <3> DEFINE q == published[ScheduleOf[req[d].task]]
      <3>1. Governed(req[d].task) /\ q \in Policy
        BY <1>0, <2>5, PoliciesArePolicies DEF LoadPolicy, Governed, TypeOK
      <3>2. CASE (Refuse(d) \/ Acknowledge(d)) /\ UNCHANGED plan
        BY <1>0, <1>a, <2>5, <3>2, RefuseType, AcknowledgeType, PhaseChange
           DEF LoadPolicy, TypeInv, TypeOK, DeliveryTypes
      <3>3. CASE /\ plan' = [plan EXCEPT ![d].policy = q]
                 /\ pc' = [pc EXCEPT ![d] = "reserve"]
                 /\ UNCHANGED <<queued, failures, heard>>
        <4>1. plan' \in [Deliveries -> [policy : Policy, day : Days]]
          BY <1>0, <3>1, <3>3 DEF TypeOK
        <4>2. QED
          BY <1>0, <1>a, <2>5, <3>1, <3>3, <4>1, PhaseChange
             DEF LoadPolicy, TypeInv, TypeOK
      <3>4. QED
        BY <2>5, <3>2, <3>3 DEF LoadPolicy
    <2>6. CASE BeginReserve(d)
      <3>1. Governed(req[d].task)
        BY <1>0, <2>6 DEF BeginReserve, LoopGoverned
      <3>2. plan' \in [Deliveries -> [policy : Policy, day : Days]]
        BY <1>0, <2>6 DEF TypeOK, BeginReserve
      <3>3. QED
        BY <1>0, <1>a, <2>6, <3>1, <3>2, PhaseChange
           DEF BeginReserve, TypeInv, TypeOK
    <2>7. CASE ReadMetadata(d)
      <3>1. Governed(req[d].task)
        BY <1>0, <2>7 DEF ReadMetadata, LoopGoverned
      <3>2. CASE Decide(d, 0, NoLedger)
        <4>1. NoLedger \in Ledger
          BY DEF NoLedger, Ledger
        <4>2. QED
          BY <1>0, <1>a, <2>7, <3>1, <3>2, <4>1, DecideType, PhaseChange
             DEF ReadMetadata, TypeInv, TypeOK, DeliveryTypes
      <3>3. CASE /\ snap' = [snap EXCEPT ![d].gen = Current(d).gen]
                 /\ pc' = [pc EXCEPT ![d] = "media"]
                 /\ UNCHANGED <<queued, failures, heard>>
        <4>1. snap' \in [Deliveries -> Ledger]
          BY <1>0, <3>1, <3>3, CurrentType DEF TypeOK, Ledger
        <4>2. QED
          BY <1>0, <1>a, <2>7, <3>1, <3>3, <4>1, PhaseChange
             DEF ReadMetadata, TypeInv, TypeOK
      <3>4. QED
        BY <2>7, <3>2, <3>3 DEF ReadMetadata
    <2>8. CASE ReadMedia(d)
      <3>1. Governed(req[d].task)
        BY <1>0, <2>8 DEF ReadMedia, LoopGoverned
      <3>2. snap[d].gen \in Nat /\ Current(d) \in Ledger
        BY <1>0, <3>1, CurrentType DEF TypeOK, Ledger
      <3>3. QED
        BY <1>0, <1>a, <2>8, <3>1, <3>2, DecideType, PhaseChange
           DEF ReadMedia, TypeInv, TypeOK, DeliveryTypes
    <2>9. CASE WriteAccepted(d)
      <3>1. Governed(req[d].task)
        BY <1>0, <2>9 DEF WriteAccepted, LoopGoverned
      <3>2. QED
        BY <1>0, <1>a, <2>9, <3>1, ApplyWriteType, PhaseChange
           DEF WriteAccepted, TypeInv, TypeOK
    <2>10. CASE WriteRefused(d)
      <3>1. Governed(req[d].task)
        BY <1>0, <2>10 DEF WriteRefused, LoopGoverned
      <3>2. tries' \in [Deliveries -> 0 .. CasAttempts]
        BY <1>0, <2>10, BoundAssumption DEF WriteRefused, TypeOK
      <3>3. QED
        BY <1>0, <1>a, <2>10, <3>1, <3>2, AcknowledgeType, PhaseChange
           DEF WriteRefused, TypeInv, TypeOK, DeliveryTypes
    <2>11. CASE WriteUnanswered(d)
      <3>1. Governed(req[d].task)
        BY <1>0, <2>11 DEF WriteUnanswered, LoopGoverned
      <3>2. queued' \subseteq Tasks /\ heard' \in [Deliveries -> BOOLEAN]
        BY <1>0, <2>11 DEF WriteUnanswered, TypeOK
      <3>3. QED
        BY <1>0, <1>a, <2>11, <3>1, <3>2, PhaseChange
           DEF WriteUnanswered, TypeInv, TypeOK
    <2>12. CASE ReserveFails(d)
      BY <1>0, <1>a, <2>12, AcknowledgeType, PhaseChange
         DEF ReserveFails, TypeInv, TypeOK, DeliveryTypes
    <2>13. CASE RunAccepted(d)
      BY <1>0, <1>a, <2>13, AcknowledgeType, PhaseChange
         DEF RunAccepted, TypeInv, TypeOK, DeliveryTypes
    <2>14. CASE RunFails(d)
      BY <1>0, <1>a, <2>14, RefuseType, AcknowledgeType, PhaseChange
         DEF RunFails, TypeInv, TypeOK, DeliveryTypes
    <2>15. QED
      BY <1>3, <2>1, <2>2, <2>3, <2>4, <2>5, <2>6, <2>7, <2>8, <2>9, <2>10,
         <2>11, <2>12, <2>13, <2>14 DEF Handle
  <1>4. ASSUME NEW d \in Deliveries, Environment(d)
        PROVE  TypeInv'
    <2>1. ASSUME NEW t \in Tasks, Deliver(d, t)
          PROVE  TypeInv'
      BY <1>0, <2>1 DEF Deliver, TypeInv, TypeOK, LoopGoverned, Phase
    <2>2. CASE Deadline(d)
      BY <1>0, <2>2, FailAttemptType
         DEF Deadline, TypeInv, TypeOK, LoopGoverned, DeliveryTypes
    <2>3. CASE Crash(d)
      <3>1. CASE pc[d] = "write"
        <4>1. Governed(req[d].task) /\ pc' = [pc EXCEPT ![d] = "orphaned"]
          BY <1>0, <2>3, <3>1 DEF Crash, LoopGoverned
        <4>2. QED
          BY <1>0, <1>a, <2>3, <4>1, FailAttemptType, PhaseChange
             DEF Crash, TypeInv, TypeOK, DeliveryTypes
      <3>2. CASE pc[d] # "write"
        <4>1. pc' = [pc EXCEPT ![d] = "done"]
          BY <1>0, <2>3, <3>2 DEF Crash
        <4>2. QED
          BY <1>0, <1>a, <2>3, <4>1, FailAttemptType, PhaseChange
             DEF Crash, TypeInv, TypeOK, DeliveryTypes
      <3>3. QED
        BY <3>1, <3>2
    <2>4. CASE OrphanApplied(d)
      <3>1. Governed(req[d].task)
        BY <1>0, <2>4 DEF OrphanApplied, LoopGoverned
      <3>2. QED
        BY <1>0, <1>a, <2>4, <3>1, ApplyWriteType, PhaseChange
           DEF OrphanApplied, TypeInv, TypeOK
    <2>5. QED
      BY <1>4, <2>1, <2>2, <2>3, <2>4 DEF Environment
  <1>5. CASE UNCHANGED vars
    BY <1>0, <1>5 DEF vars, TypeInv, TypeOK, LoopGoverned
  <1>6. QED
    BY <1>1, <1>2, <1>3, <1>4, <1>5 DEF Next

\* The variables keep their types in every behaviour of the consumer.
THEOREM TypeCorrect == Spec => []TypeOK
  <1>1. TypeInv => TypeOK
    BY DEF TypeInv
  <1>2. QED
    BY <1>1, TypeInit, TypeStep, PTL DEF Spec

-------------------------------------------------------------------------------
(* The inductive invariant behind the budget.  The document a request is   *)
(* about to write extends what the bucket holds whenever the generations   *)
(* agree, even though generation and document were read separately: the    *)
(* document may only be newer than the generation, and then the write is   *)
(* refused.                                                                *)

LedgerInv ==
    \A s \in Schedules, n \in Days :
        /\ ledger[s][n].gen = Len(ledger[s][n].rows)
        /\ ledger[s][n].gen = 0 => ledger[s][n] = NoLedger

RequestInv(d) ==
    /\ pc[d] \in {"idle", "check", "reserve"} => tries[d] = 0
    /\ d \in started => pc[d] = "done"
    /\ Governed(req[d].task) => tries[d] <= Current(d).gen
    /\ pc[d] \in {"media", "write", "orphaned"} => snap[d].gen <= Current(d).gen
    /\ pc[d] \in {"media", "write"} => tries[d] <= snap[d].gen
    /\ pc[d] \in {"reserve", "metadata", "media", "write", "orphaned"} =>
          plan[d].policy \in Policies
    /\ pc[d] \in {"write", "orphaned"} =>
          /\ snap[d].gen = Current(d).gen => snap[d] = Current(d)
          /\ ~HasRow(snap[d].rows, req[d].task)
          /\ snap[d].reserved + plan[d].policy.hours <= plan[d].policy.cap

IInv ==
    /\ TypeInv
    /\ LedgerInv
    /\ RowsDistinct
    /\ \A d \in Deliveries : RequestInv(d)
    /\ StartsAreReserved

\* A document is kept or replaced by a later one with all of its rows.
LedgerGrows ==
    \A s \in Schedules, n \in Days :
        \/ ledger'[s][n] = ledger[s][n]
        \/ /\ ledger[s][n].gen < ledger'[s][n].gen
           /\ \A t \in Tasks : HasRow(ledger[s][n].rows, t)
                                   => HasRow(ledger'[s][n].rows, t)

\* The document that the write of request d makes.
Written(d) ==
    [gen |-> Current(d).gen + 1,
     reserved |-> Current(d).reserved + plan[d].policy.hours,
     rows |-> Append(Current(d).rows, Row(d))]

LEMMA HasRowAppend ==
  ASSUME NEW rows \in Seq(Reservation), NEW r \in Reservation, NEW t \in Tasks
  PROVE  HasRow(Append(rows, r), t) <=> HasRow(rows, t) \/ r.task = t
  <1>1. /\ DOMAIN rows = 1 .. Len(rows) /\ Len(rows) \in Nat
        /\ DOMAIN Append(rows, r) = 1 .. (Len(rows) + 1)
        /\ \A i \in 1 .. Len(rows) : Append(rows, r)[i] = rows[i]
        /\ Append(rows, r)[Len(rows) + 1] = r
    OBVIOUS
  <1>2. QED
    BY <1>1 DEF HasRow

\* What an applied write does to the ledger.
LEMMA WriteEffect ==
  ASSUME TypeInv, LedgerInv, RowsDistinct, NEW d \in Deliveries, RequestInv(d),
         pc[d] \in {"write", "orphaned"}, ApplyWrite(d)
  PROVE  /\ Governed(req[d].task)
         /\ ledger' = [ledger EXCEPT ![ScheduleOf[req[d].task]][plan[d].day]
                                       = Written(d)]
         /\ Written(d).reserved <= plan[d].policy.cap
         /\ ~HasRow(Current(d).rows, req[d].task)
         /\ HasRow(Written(d).rows, req[d].task)
         /\ LedgerGrows
         /\ LedgerInv'
         /\ RowsDistinct'
  <1> DEFINE s == ScheduleOf[req[d].task]
             n == plan[d].day
  <1>1. /\ Governed(req[d].task) /\ TypeOK
        /\ req[d].task \in Tasks /\ s \in Schedules /\ n \in Days
    BY CurrentType DEF TypeInv, LoopGoverned, TypeOK
  <1>2. snap[d] = Current(d)
    BY DEF RequestInv, ApplyWrite
  <1>3. ledger' = [ledger EXCEPT ![s][n] = Written(d)]
    BY <1>2 DEF ApplyWrite, Written
  <1>4. Written(d).reserved <= plan[d].policy.cap
    BY <1>2 DEF RequestInv, Written
  <1>5. ~HasRow(Current(d).rows, req[d].task)
    BY <1>2 DEF RequestInv
  <1>6. Current(d) \in Ledger /\ Row(d) \in Reservation
    BY <1>1, CurrentType DEF TypeOK, Row, Reservation, Policy
  <1>7. Current(d).rows \in Seq(Reservation) /\ Current(d).gen \in Nat
    BY <1>6 DEF Ledger
  <1>8. \A t \in Tasks : HasRow(Written(d).rows, t)
                            <=> HasRow(Current(d).rows, t) \/ req[d].task = t
    BY <1>6, <1>7, HasRowAppend DEF Written, Row
  <1>9. \A m \in Schedules, k \in Days :
           ledger'[m][k] = IF m = s /\ k = n THEN Written(d) ELSE ledger[m][k]
    BY <1>1, <1>3 DEF TypeOK
  <1>10. Written(d).gen = Current(d).gen + 1
    BY DEF Written
  <1>11. LedgerGrows
    <2>1. ledger[s][n] = Current(d)
      BY DEF Current
    <2>2. Current(d).gen < Written(d).gen
      BY <1>7, <1>10
    <2>3. ASSUME NEW m \in Schedules, NEW k \in Days
          PROVE  \/ ledger'[m][k] = ledger[m][k]
                 \/ m = s /\ k = n /\ ledger'[m][k] = Written(d)
      BY <1>9
    <2>4. QED
      BY <1>8, <2>1, <2>2, <2>3 DEF LedgerGrows
  <1>12. LedgerInv'
    <2>1. Written(d).gen = Len(Written(d).rows) /\ Written(d).gen # 0
      <3>1. Len(Append(Current(d).rows, Row(d))) = Len(Current(d).rows) + 1
        BY <1>6, <1>7
      <3>2. Current(d).gen = Len(Current(d).rows)
        BY <1>1 DEF LedgerInv, Current
      <3>3. QED
        BY <1>7, <3>1, <3>2 DEF Written
    <2>2. QED
      BY <1>9, <2>1 DEF LedgerInv
  <1>13. RowsDistinct'
    <2> DEFINE R == Current(d).rows
               A == Append(R, Row(d))
    <2>1. /\ DOMAIN R = 1 .. Len(R) /\ Len(R) \in Nat
          /\ DOMAIN A = 1 .. (Len(R) + 1)
          /\ \A i \in 1 .. Len(R) : A[i] = R[i]
          /\ A[Len(R) + 1] = Row(d)
      BY <1>6, <1>7
    <2>2. \A i \in DOMAIN R : R[i].task # req[d].task
      BY <1>5 DEF HasRow
    <2>3. \A i, j \in DOMAIN R : R[i].task = R[j].task => i = j
      BY <1>1 DEF RowsDistinct, Current
    <2>4. Row(d).task = req[d].task
      BY DEF Row
    <2>5. \A i, j \in DOMAIN A : A[i].task = A[j].task => i = j
      BY <2>1, <2>2, <2>3, <2>4
    <2> HIDE DEF A
    <2>6. ASSUME NEW m \in Schedules, NEW k \in Days
          PROVE  \A i, j \in DOMAIN ledger'[m][k].rows :
                    ledger'[m][k].rows[i].task = ledger'[m][k].rows[j].task => i = j
      <3>1. CASE m = s /\ k = n
        <4>1. ledger'[m][k] = Written(d)
          BY <1>9, <3>1
        <4>2. Written(d).rows = A
          BY DEF Written, A
        <4>3. QED
          BY <2>5, <4>1, <4>2
      <3>2. CASE ~(m = s /\ k = n)
        <4>1. ledger'[m][k] = ledger[m][k]
          BY <1>9, <3>2
        <4>2. \A i, j \in DOMAIN ledger[m][k].rows :
                 ledger[m][k].rows[i].task = ledger[m][k].rows[j].task => i = j
          BY DEF RowsDistinct
        <4>3. QED
          BY <4>1, <4>2
      <3>3. QED
        BY <3>1, <3>2
    <2>7. QED
      BY <2>6 DEF RowsDistinct
  <1>14. QED
    BY <1>1, <1>3, <1>4, <1>5, <1>8, <1>11, <1>12, <1>13

\* The part of the invariant about a request that a step leaves alone.
LEMMA RequestFrame ==
  ASSUME IInv, TypeInv', LedgerGrows, NEW e \in Deliveries,
         pc'[e] = pc[e], req'[e] = req[e], plan'[e] = plan[e],
         snap'[e] = snap[e], tries'[e] = tries[e],
         e \in started' => e \in started
  PROVE  RequestInv(e)'
  <1>1. RequestInv(e) /\ TypeOK /\ TypeOK'
    BY DEF IInv, TypeInv
  <1>2. CASE ~Governed(req[e].task)
    <2>1. pc[e] \notin {"media", "write", "orphaned"}
      BY <1>2 DEF IInv, TypeInv, LoopGoverned
    <2>2. QED
      BY <1>1, <1>2, <2>1 DEF RequestInv
  <1>3. CASE Governed(req[e].task)
    <2>1. /\ ScheduleOf[req[e].task] \in Schedules /\ plan[e].day \in Days
          /\ Current(e)' = ledger'[ScheduleOf[req[e].task]][plan[e].day]
      BY <1>1, <1>3, CurrentType DEF Current
    <2>2. Current(e)' = Current(e) \/ Current(e).gen < Current(e)'.gen
      BY <2>1 DEF LedgerGrows, Current
    <2>3. Current(e).gen \in Nat /\ Current(e)'.gen \in Nat
      <3>1. Current(e) \in Ledger
        BY <1>1, <1>3, CurrentType
      <3>2. Current(e)' \in Ledger
        BY <1>1, <2>1 DEF TypeOK
      <3>3. QED
        BY <3>1, <3>2 DEF Ledger
    <2>4. snap[e].gen \in Nat /\ tries[e] \in Nat
      BY <1>1, BoundAssumption DEF TypeOK, Ledger
    <2>5. QED
      BY <1>1, <2>2, <2>3, <2>4 DEF RequestInv
  <1>4. QED
    BY <1>2, <1>3

\* A step that grows the ledger and makes no new holder keeps the starts
\* reserved.
LEMMA HoldersFrame ==
  ASSUME IInv, TypeInv', LedgerGrows,
         \A e \in Holders' :
            e \in Holders /\ req'[e] = req[e] /\ plan'[e] = plan[e]
  PROVE  StartsAreReserved'
  <1>1. TypeOK /\ StartsAreReserved
    BY DEF IInv, TypeInv
  <1>2. ASSUME NEW e \in Holders'
        PROVE  HasRow(Current(e).rows, req[e].task)'
    <2>1. /\ e \in Holders /\ e \in Deliveries /\ Governed(req[e].task)
          /\ req'[e] = req[e] /\ plan'[e] = plan[e]
      BY <1>2 DEF Holders
    <2>2. /\ ScheduleOf[req[e].task] \in Schedules /\ plan[e].day \in Days
          /\ req[e].task \in Tasks
      BY <1>1, <2>1, CurrentType DEF TypeOK
    <2>3. HasRow(ledger'[ScheduleOf[req[e].task]][plan[e].day].rows, req[e].task)
      BY <1>1, <2>1, <2>2 DEF StartsAreReserved, LedgerGrows, Current
    <2>4. QED
      BY <2>1, <2>3 DEF HasRow, Current
  <1>3. \A d, e \in Holders' : d # e /\ req'[d].task = req'[e].task
                                  => plan'[d].day # plan'[e].day
    BY <1>1 DEF StartsAreReserved
  <1>4. QED
    BY <1>2, <1>3 DEF StartsAreReserved

LEMMA LedgerSame ==
  ASSUME LedgerInv, RowsDistinct, UNCHANGED ledger
  PROVE  LedgerGrows /\ LedgerInv' /\ RowsDistinct'
  BY DEF LedgerGrows, LedgerInv, RowsDistinct

\* The step of one request.
OthersSame(d) ==
    \A e \in Deliveries : e # d =>
        /\ pc'[e] = pc[e] /\ req'[e] = req[e] /\ plan'[e] = plan[e]
        /\ snap'[e] = snap[e] /\ tries'[e] = tries[e]
        /\ e \in started' <=> e \in started

\* The invariant survives a step of request d that keeps the ledger's
\* invariants and its own, if d becomes no new holder by it.
LEMMA OneRequest ==
  ASSUME IInv, TypeInv', NEW d \in Deliveries, OthersSame(d),
         LedgerGrows, LedgerInv', RowsDistinct', RequestInv(d)',
         d \in Holders' => /\ d \in Holders
                           /\ req'[d] = req[d] /\ plan'[d] = plan[d]
  PROVE  IInv'
  <1>1. \A e \in Deliveries : RequestInv(e)'
    <2> SUFFICES ASSUME NEW e \in Deliveries PROVE RequestInv(e)'
      OBVIOUS
    <2>1. CASE e = d
      BY <2>1
    <2>2. CASE e # d
      BY <2>2, RequestFrame DEF OthersSame
    <2>3. QED
      BY <2>1, <2>2
  <1>2. \A e \in Holders' : e \in Holders /\ req'[e] = req[e] /\ plan'[e] = plan[e]
    BY DEF OthersSame, Holders
  <1>3. StartsAreReserved'
    BY <1>2, HoldersFrame
  <1>4. QED
    BY <1>1, <1>3 DEF IInv

\* A request that ends, having made no write, with or without a job started.
LEMMA Finish ==
  ASSUME IInv, TypeInv', NEW d \in Deliveries,
         UNCHANGED <<ledger, req, plan, snap>>,
         pc' = [pc EXCEPT ![d] = "done"],
         tries' = [tries EXCEPT ![d] = tries'[d]],
         Governed(req[d].task) => tries'[d] <= Current(d).gen,
         started' = started \/ (started' = started \cup {d} /\ pc[d] = "run")
  PROVE  IInv'
  <1>1. TypeOK /\ LedgerInv /\ RowsDistinct /\ RequestInv(d)
    BY DEF IInv, TypeInv
  <1>2. OthersSame(d) /\ pc'[d] = "done"
    BY <1>1 DEF TypeOK, OthersSame
  <1>3. Current(d)' = Current(d)
    BY DEF Current
  <1>4. RequestInv(d)'
    BY <1>2, <1>3 DEF RequestInv
  <1>5. d \in Holders' => /\ d \in Holders
                          /\ req'[d] = req[d] /\ plan'[d] = plan[d]
    BY <1>2 DEF Holders
  <1>6. QED
    BY <1>1, <1>2, <1>4, <1>5, LedgerSame, OneRequest

\* A request that moves on inside the handler without touching the ledger.
LEMMA Advance ==
  ASSUME IInv, TypeInv', NEW d \in Deliveries, NEW p,
         UNCHANGED <<ledger, started>>, pc' = [pc EXCEPT ![d] = p],
         OthersSame(d), RequestInv(d)',
         p = "run" => ~Governed(req'[d].task),
         d \notin started
  PROVE  IInv'
  <1>1. TypeOK /\ LedgerInv /\ RowsDistinct
    BY DEF IInv, TypeInv
  <1>2. d \notin Holders'
    BY <1>1 DEF Holders, TypeOK
  <1>3. QED
    BY <1>1, <1>2, LedgerSame, OneRequest

\* A request whose write is applied.
LEMMA Write ==
  ASSUME IInv, TypeInv', NEW d \in Deliveries, pc[d] \in {"write", "orphaned"},
         ApplyWrite(d), UNCHANGED <<req, plan, snap, tries, started>>,
         \/ pc' = [pc EXCEPT ![d] = "run"]
         \/ pc' = [pc EXCEPT ![d] = "done"]
  PROVE  IInv'
  <1>1. TypeInv /\ TypeOK /\ LedgerInv /\ RowsDistinct /\ RequestInv(d)
    BY DEF IInv, TypeInv
  <1>2. /\ Governed(req[d].task)
        /\ ledger' = [ledger EXCEPT ![ScheduleOf[req[d].task]][plan[d].day]
                                      = Written(d)]
        /\ ~HasRow(Current(d).rows, req[d].task)
        /\ HasRow(Written(d).rows, req[d].task)
        /\ LedgerGrows /\ LedgerInv' /\ RowsDistinct'
    BY <1>1, WriteEffect
  <1>3. /\ req[d].task \in Tasks
        /\ ScheduleOf[req[d].task] \in Schedules /\ plan[d].day \in Days
        /\ Current(d) \in Ledger
    BY <1>1, <1>2, CurrentType DEF TypeOK
  <1>4. Current(d)' = Written(d)
    BY <1>1, <1>2, <1>3 DEF TypeOK, Current
  <1>5. OthersSame(d) /\ pc'[d] \in {"run", "done"} /\ d \notin started
    BY <1>1 DEF TypeOK, OthersSame, RequestInv
  <1>6. RequestInv(d)'
    <2>1. tries[d] <= Current(d).gen + 1
      BY <1>1, <1>2, <1>3, BoundAssumption DEF RequestInv, TypeOK, Ledger
    <2>2. QED
      BY <1>4, <1>5, <2>1 DEF RequestInv, Written
  <1>7. \A e \in Deliveries : RequestInv(e)'
    <2> SUFFICES ASSUME NEW e \in Deliveries, e # d PROVE RequestInv(e)'
      BY <1>6
    <2>1. QED
      BY <1>2, <1>5, RequestFrame DEF OthersSame
  <1>8. \A e \in Holders' \ {d} : e \in Holders /\ req'[e] = req[e] /\ plan'[e] = plan[e]
    BY <1>5 DEF OthersSame, Holders
  <1>9. ASSUME NEW e \in Holders, req[e].task = req[d].task
        PROVE  plan[e].day # plan[d].day
    BY <1>2, <1>9 DEF IInv, StartsAreReserved, Current
  <1>10. ASSUME NEW e \in Holders'
         PROVE  HasRow(Current(e).rows, req[e].task)'
    <2>1. CASE e = d
      BY <1>2, <1>4, <2>1 DEF HasRow
    <2>2. CASE e # d
      <3>1. e \in Holders /\ e \in Deliveries /\ Governed(req[e].task)
        BY <1>8, <2>2 DEF Holders
      <3>2. /\ ScheduleOf[req[e].task] \in Schedules /\ plan[e].day \in Days
            /\ req[e].task \in Tasks
        BY <1>1, <3>1, CurrentType DEF TypeOK
      <3>3. HasRow(ledger'[ScheduleOf[req[e].task]][plan[e].day].rows, req[e].task)
        BY <1>2, <3>1, <3>2 DEF IInv, StartsAreReserved, LedgerGrows, Current
      <3>4. QED
        BY <3>3 DEF HasRow, Current
    <2>3. QED
      BY <2>1, <2>2
  <1>11. \A e, f \in Holders' : e # f /\ req'[e].task = req'[f].task
                                   => plan'[e].day # plan'[f].day
    BY <1>8, <1>9 DEF IInv, StartsAreReserved
  <1>12. StartsAreReserved'
    BY <1>10, <1>11 DEF StartsAreReserved
  <1>13. QED
    BY <1>2, <1>7, <1>12 DEF IInv

\* The end of a request whose attempts and header stay as they are.
LEMMA Ends ==
  ASSUME IInv, TypeInv', NEW d \in Deliveries,
         UNCHANGED <<ledger, req, plan, snap, tries>>,
         pc' = [pc EXCEPT ![d] = "done"],
         started' = started \/ (started' = started \cup {d} /\ pc[d] = "run")
  PROVE  IInv'
  <1>1. TypeOK /\ RequestInv(d)
    BY DEF IInv, TypeInv
  <1>2. tries' = [tries EXCEPT ![d] = tries'[d]]
    BY <1>1 DEF TypeOK
  <1>3. Governed(req[d].task) => tries'[d] <= Current(d).gen
    BY <1>1 DEF RequestInv
  <1>4. QED
    BY <1>2, <1>3, Finish

\* reserve's decision, on the document that goes with generation g.
LEMMA Decision ==
  ASSUME IInv, TypeInv', NEW d \in Deliveries, NEW g \in Nat, NEW doc \in Ledger,
         Decide(d, g, doc), UNCHANGED <<ledger, req, plan, tries, started>>,
         Governed(req[d].task), pc[d] \in {"metadata", "media"},
         tries[d] <= g, g <= Current(d).gen,
         g = Current(d).gen => [doc EXCEPT !.gen = g] = Current(d)
  PROVE  IInv'
  <1>1. TypeOK /\ RequestInv(d)
    BY DEF IInv, TypeInv
  <1>2. CASE Acknowledge(d) /\ UNCHANGED snap
    BY <1>2, Ends DEF Acknowledge
  <1>3. CASE /\ ~HasRow(doc.rows, req[d].task)
             /\ doc.reserved + plan[d].policy.hours <= plan[d].policy.cap
             /\ snap' = [snap EXCEPT ![d] = [gen |-> g, reserved |-> doc.reserved,
                                             rows |-> doc.rows]]
             /\ pc' = [pc EXCEPT ![d] = "write"]
    <2>1. snap'[d] = [gen |-> g, reserved |-> doc.reserved, rows |-> doc.rows]
      BY <1>1, <1>3 DEF TypeOK
    <2>2. [doc EXCEPT !.gen = g] = snap'[d]
      BY <2>1 DEF Ledger
    <2>3. OthersSame(d) /\ pc'[d] = "write" /\ d \notin started
      BY <1>1, <1>3 DEF TypeOK, OthersSame, RequestInv
    <2>4. Current(d)' = Current(d)
      BY DEF Current
    <2>5. RequestInv(d)'
      <3>1. HasRow(snap[d].rows, req[d].task)' = HasRow(doc.rows, req[d].task)
        BY <2>1 DEF HasRow
      <3>2. QED
        BY <1>1, <1>3, <2>1, <2>2, <2>3, <2>4, <3>1 DEF RequestInv
    <2>6. QED
      BY <1>3, <2>3, <2>5, Advance
  <1>4. QED
    BY <1>2, <1>3 DEF Decide

LEMMA Start == Init => IInv
  <1> SUFFICES ASSUME Init PROVE IInv
    OBVIOUS
  <1>1. TypeInv
    BY TypeInit
  <1>2. NoLedger.rows = <<>> /\ NoLedger.gen = 0 /\ Len(<<>>) = 0 /\ DOMAIN <<>> = {}
    BY DEF NoLedger
  <1>3. LedgerInv
    BY <1>2 DEF Init, LedgerInv
  <1>4. RowsDistinct
    BY <1>2 DEF Init, RowsDistinct
  <1>5. ASSUME NEW d \in Deliveries
        PROVE  RequestInv(d)
    <2>1. Governed(req[d].task) => Current(d).gen = 0
      BY <1>1, <1>2, CurrentType DEF Init, Current, TypeInv
    <2>2. QED
      BY <2>1 DEF Init, RequestInv
  <1>6. StartsAreReserved
    BY DEF Init, StartsAreReserved, Holders
  <1>7. QED
    BY <1>1, <1>3, <1>4, <1>5, <1>6 DEF IInv

LEMMA Step == IInv /\ [Next]_vars => IInv'
  <1> SUFFICES ASSUME IInv, [Next]_vars PROVE IInv'
    OBVIOUS
  <1>1. /\ TypeInv' /\ TypeInv /\ TypeOK /\ LoopGoverned /\ LedgerInv /\ RowsDistinct
        /\ \A d \in Deliveries : RequestInv(d)
    BY TypeStep DEF IInv, TypeInv
  <1>2. ASSUME UNCHANGED <<ledger, local, pc, started>>
        PROVE  IInv'
    <2>1. LedgerGrows /\ LedgerInv' /\ RowsDistinct'
      BY <1>1, <1>2, LedgerSame
    <2>2. \A e \in Deliveries : RequestInv(e)'
      BY <1>1, <1>2, <2>1, RequestFrame
    <2>3. StartsAreReserved'
      BY <1>1, <1>2, <2>1, HoldersFrame DEF Holders
    <2>4. QED
      BY <1>1, <2>1, <2>2, <2>3 DEF IInv
  <1>3. CASE NewDay
    BY <1>2, <1>3 DEF NewDay
  <1>4. ASSUME NEW s \in Schedules, NEW p \in Policies, Publish(s, p)
        PROVE  IInv'
    BY <1>2, <1>4 DEF Publish
  <1>5. ASSUME NEW d \in Deliveries, Handle(d)
        PROVE  IInv'
    <2>1. CASE Reject(d)
      BY <1>1, <2>1, Ends DEF Reject, Refuse
    <2>2. CASE CatalogUnavailable(d)
      BY <1>1, <2>2, Ends DEF CatalogUnavailable, Refuse, Acknowledge
    <2>3. CASE AdmitUngoverned(d)
      <3>1. OthersSame(d) /\ pc'[d] = "run" /\ d \notin started
        BY <1>1, <2>3 DEF AdmitUngoverned, TypeOK, OthersSame, RequestInv
      <3>2. RequestInv(d)'
        BY <1>1, <2>3, <3>1 DEF AdmitUngoverned, RequestInv
      <3>3. QED
        BY <1>1, <2>3, <3>1, <3>2, Advance DEF AdmitUngoverned
    <2>4. CASE PolicyUnavailable(d)
      BY <1>1, <2>4, Ends DEF PolicyUnavailable, Acknowledge
    <2>5. CASE LoadPolicy(d)
      <3>1. CASE (Refuse(d) \/ Acknowledge(d)) /\ UNCHANGED plan
        BY <1>1, <2>5, <3>1, Ends DEF LoadPolicy, Refuse, Acknowledge
      <3>2. CASE /\ plan' = [plan EXCEPT ![d].policy = published[ScheduleOf[req[d].task]]]
                 /\ pc' = [pc EXCEPT ![d] = "reserve"]
        <4>1. OthersSame(d) /\ pc'[d] = "reserve" /\ d \notin started
          BY <1>1, <2>5, <3>2 DEF LoadPolicy, TypeOK, OthersSame, RequestInv
        <4>2. plan'[d].day = plan[d].day
          BY <1>1, <3>2 DEF TypeOK
        <4>3. Current(d)' = Current(d)
          BY <2>5, <4>2 DEF LoadPolicy, Current
        <4>4. plan'[d].policy \in Policies
          <5>1. ScheduleOf[req[d].task] \in Schedules
            BY <2>5 DEF LoadPolicy, Governed
          <5>2. plan'[d].policy = published[ScheduleOf[req[d].task]]
            BY <1>1, <3>2 DEF TypeOK
          <5>3. QED
            BY <1>1, <5>1, <5>2 DEF TypeOK
        <4>5. RequestInv(d)'
          BY <1>1, <2>5, <4>1, <4>3, <4>4 DEF LoadPolicy, RequestInv
        <4>6. QED
          BY <1>1, <2>5, <3>2, <4>1, <4>5, Advance DEF LoadPolicy
      <3>3. QED
        BY <2>5, <3>1, <3>2 DEF LoadPolicy
    <2>6. CASE BeginReserve(d)
      <3>1. OthersSame(d) /\ pc'[d] = "metadata" /\ d \notin started
        BY <1>1, <2>6 DEF BeginReserve, TypeOK, OthersSame, RequestInv
      <3>2. tries'[d] = 0
        BY <1>1, <2>6 DEF BeginReserve, RequestInv
      <3>3. Governed(req'[d].task)
        BY <1>1, <2>6 DEF BeginReserve, LoopGoverned
      <3>4. Current(d)'.gen \in Nat
        <4>1. /\ ScheduleOf[req'[d].task] \in Schedules /\ plan'[d].day \in Days
              /\ ledger' \in [Schedules -> [Days -> Ledger]]
          BY <1>1, <3>3 DEF TypeInv, TypeOK, Governed
        <4>2. Current(d)' \in Ledger
          BY <4>1 DEF Current
        <4>3. QED
          BY <4>2 DEF Ledger
      <3>5. plan'[d].policy \in Policies
        <4>1. plan'[d].policy = plan[d].policy
          BY <1>1, <2>6 DEF BeginReserve, TypeOK
        <4>2. plan[d].policy \in Policies
          BY <1>1, <2>6 DEF BeginReserve, RequestInv
        <4>3. QED
          BY <4>1, <4>2
      <3>6. RequestInv(d)'
        BY <3>1, <3>2, <3>4, <3>5, <2>6 DEF RequestInv, BeginReserve
      <3>7. QED
        BY <1>1, <2>6, <3>1, <3>6, Advance DEF BeginReserve
    <2>7. CASE ReadMetadata(d)
      <3>1. Governed(req[d].task) /\ Current(d) \in Ledger
        BY <1>1, <2>7, CurrentType DEF ReadMetadata, LoopGoverned
      <3>2. ScheduleOf[req[d].task] \in Schedules /\ plan[d].day \in Days
        BY <1>1, <3>1, CurrentType
      <3>3. CASE Current(d).gen = 0 /\ Decide(d, 0, NoLedger)
        <4>1. Current(d) = NoLedger
          BY <1>1, <3>2, <3>3 DEF LedgerInv, Current
        <4>2. NoLedger \in Ledger /\ [NoLedger EXCEPT !.gen = 0] = NoLedger
          BY DEF NoLedger, Ledger
        <4>3. tries[d] <= 0
          BY <1>1, <3>1, <3>3 DEF RequestInv
        <4>4. QED
          BY <1>1, <2>7, <3>1, <3>3, <4>1, <4>2, <4>3, Decision DEF ReadMetadata
      <3>4. CASE /\ snap' = [snap EXCEPT ![d].gen = Current(d).gen]
                 /\ pc' = [pc EXCEPT ![d] = "media"]
        <4>1. OthersSame(d) /\ pc'[d] = "media" /\ d \notin started
          BY <1>1, <2>7, <3>4 DEF ReadMetadata, TypeOK, OthersSame, RequestInv
        <4>2. snap'[d].gen = Current(d).gen
          BY <1>1, <3>4 DEF TypeOK, Ledger
        <4>3. Current(d)' = Current(d) /\ Current(d).gen \in Nat
          BY <2>7, <3>1 DEF ReadMetadata, Current, Ledger
        <4>4. RequestInv(d)'
          BY <1>1, <2>7, <3>1, <4>1, <4>2, <4>3 DEF ReadMetadata, RequestInv
        <4>5. QED
          BY <1>1, <2>7, <3>4, <4>1, <4>4, Advance DEF ReadMetadata
      <3>5. QED
        BY <2>7, <3>3, <3>4 DEF ReadMetadata
    <2>8. CASE ReadMedia(d)
      <3>1. Governed(req[d].task) /\ Current(d) \in Ledger
        BY <1>1, <2>8, CurrentType DEF ReadMedia, LoopGoverned
      <3>2. snap[d].gen \in Nat
        BY <1>1 DEF TypeOK, Ledger
      <3>3. tries[d] <= snap[d].gen /\ snap[d].gen <= Current(d).gen
        BY <1>1, <2>8 DEF ReadMedia, RequestInv
      <3>4. snap[d].gen = Current(d).gen
               => [Current(d) EXCEPT !.gen = snap[d].gen] = Current(d)
        BY <3>1 DEF Ledger
      <3>5. QED
        BY <1>1, <2>8, <3>1, <3>2, <3>3, <3>4, Decision DEF ReadMedia
    <2>9. CASE WriteAccepted(d)
      BY <1>1, <2>9, Write DEF WriteAccepted
    <2>10. CASE WriteRefused(d)
      <3>1. Governed(req[d].task) /\ Current(d).gen \in Nat
        BY <1>1, <2>10, CurrentType DEF WriteRefused, LoopGoverned, Ledger
      <3>2. tries[d] + 1 <= Current(d).gen /\ tries'[d] = tries[d] + 1
        <4>1. tries[d] <= snap[d].gen /\ snap[d].gen < Current(d).gen
          BY <1>1, <2>10, <3>1 DEF WriteRefused, RequestInv, TypeOK, Ledger
        <4>2. tries[d] \in Nat /\ snap[d].gen \in Nat
          BY <1>1, BoundAssumption DEF TypeOK, Ledger
        <4>3. tries'[d] = tries[d] + 1
          BY <1>1, <2>10 DEF TypeOK, WriteRefused
        <4>4. QED
          BY <3>1, <4>1, <4>2, <4>3
      <3>3. tries' = [tries EXCEPT ![d] = tries'[d]]
        BY <2>10, <3>2 DEF WriteRefused
      <3>4. CASE Acknowledge(d)
        BY <1>1, <2>10, <3>2, <3>3, <3>4, Finish DEF WriteRefused, Acknowledge
      <3>5. CASE pc' = [pc EXCEPT ![d] = "metadata"]
        <4>1. OthersSame(d) /\ pc'[d] = "metadata" /\ d \notin started
          BY <1>1, <2>10, <3>5 DEF WriteRefused, TypeOK, OthersSame, RequestInv
        <4>2. Current(d)' = Current(d)
          BY <2>10 DEF WriteRefused, Current
        <4>3. RequestInv(d)'
          BY <1>1, <2>10, <3>2, <4>1, <4>2 DEF WriteRefused, RequestInv
        <4>4. QED
          BY <1>1, <2>10, <3>5, <4>1, <4>3, Advance DEF WriteRefused
      <3>6. QED
        BY <2>10, <3>4, <3>5 DEF WriteRefused
    <2>11. CASE WriteUnanswered(d)
      <3>1. OthersSame(d) /\ pc'[d] = "orphaned" /\ d \notin started
        BY <1>1, <2>11 DEF WriteUnanswered, TypeOK, OthersSame, RequestInv
      <3>2. RequestInv(d)'
        BY <1>1, <2>11, <3>1 DEF WriteUnanswered, RequestInv, Current, HasRow
      <3>3. QED
        BY <1>1, <2>11, <3>1, <3>2, Advance DEF WriteUnanswered
    <2>12. CASE ReserveFails(d)
      BY <1>1, <2>12, Ends DEF ReserveFails, Acknowledge
    <2>13. CASE RunAccepted(d)
      BY <1>1, <2>13, Ends DEF RunAccepted, Acknowledge
    <2>14. CASE RunFails(d)
      BY <1>1, <2>14, Ends DEF RunFails, Refuse, Acknowledge
    <2>15. QED
      BY <1>5, <2>1, <2>2, <2>3, <2>4, <2>5, <2>6, <2>7, <2>8, <2>9, <2>10,
         <2>11, <2>12, <2>13, <2>14 DEF Handle
  <1>6. ASSUME NEW d \in Deliveries, Environment(d)
        PROVE  IInv'
    <2>1. ASSUME NEW t \in Tasks, Deliver(d, t)
          PROVE  IInv'
      <3>1. OthersSame(d) /\ pc'[d] = "check" /\ d \notin started
        BY <1>1, <2>1 DEF Deliver, TypeOK, OthersSame, RequestInv
      <3>2. tries'[d] = 0
        BY <1>1, <2>1 DEF Deliver, RequestInv
      <3>3. Governed(req'[d].task) => Current(d)'.gen \in Nat
        BY SMTT(20), <1>1 DEF TypeInv, TypeOK, Current, Ledger, Governed
      <3>4. RequestInv(d)'
        BY <2>1, <3>1, <3>2, <3>3 DEF Deliver, RequestInv
      <3>5. QED
        BY <1>1, <2>1, <3>1, <3>4, Advance DEF Deliver
    <2>2. CASE Deadline(d)
      BY <1>2, <2>2 DEF Deadline
    <2>3. CASE Crash(d)
      <3>1. CASE pc[d] = "write"
        <4>1. UNCHANGED <<ledger, local, started>> /\ pc' = [pc EXCEPT ![d] = "orphaned"]
          BY <1>1, <2>3, <3>1 DEF Crash
        <4>2. OthersSame(d) /\ pc'[d] = "orphaned" /\ d \notin started
          BY <1>1, <3>1, <4>1 DEF TypeOK, OthersSame, RequestInv
        <4>3. RequestInv(d)'
          BY <1>1, <3>1, <4>1, <4>2 DEF RequestInv, Current, HasRow
        <4>4. QED
          BY <1>1, <4>1, <4>2, <4>3, Advance
      <3>2. CASE pc[d] # "write"
        BY <1>1, <2>3, <3>2, Ends DEF Crash
      <3>3. QED
        BY <3>1, <3>2
    <2>4. CASE OrphanApplied(d)
      BY <1>1, <2>4, Write DEF OrphanApplied
    <2>5. QED
      BY <1>6, <2>1, <2>2, <2>3, <2>4 DEF Environment
  <1>7. CASE UNCHANGED vars
    BY <1>2, <1>7 DEF vars
  <1>8. QED
    BY <1>3, <1>4, <1>5, <1>6, <1>7 DEF Next

-------------------------------------------------------------------------------
\* Every GPU job of a schedule is started on a reservation of its own, which
\* the schedule's ledger holds.
THEOREM EveryStartIsReserved == Spec => []StartsAreReserved
  <1>1. IInv => StartsAreReserved
    BY DEF IInv
  <1>2. QED
    BY <1>1, Start, Step, PTL DEF Spec

\* No document ever names a task twice.
THEOREM NoReservationTwice == Spec => []RowsDistinct
  <1>1. IInv => RowsDistinct
    BY DEF IInv
  <1>2. QED
    BY <1>1, Start, Step, PTL DEF Spec

\* A refused write is always due to another recorded reservation.
THEOREM RefusalsAreProgress == Spec => []ContentionMeansProgress
  <1>1. IInv => ContentionMeansProgress
    <2> SUFFICES ASSUME IInv, NEW d \in Deliveries, Governed(req[d].task)
                 PROVE  tries[d] <= Len(Current(d).rows)
      BY DEF ContentionMeansProgress
    <2>1. TypeOK /\ LedgerInv /\ RequestInv(d)
      BY DEF IInv, TypeInv
    <2>2. Current(d).gen = Len(Current(d).rows)
      BY <2>1, CurrentType DEF LedgerInv, Current
    <2>3. QED
      BY <2>1, <2>2 DEF RequestInv
  <1>2. QED
    BY <1>1, Start, Step, PTL DEF Spec

-------------------------------------------------------------------------------
(* Steps seen through the ledger and the started jobs.                     *)

LEMMA StepShape ==
  ASSUME IInv, [Next]_vars
  PROVE  /\ \A e \in started : req'[e] = req[e] /\ plan'[e] = plan[e]
         /\ \/ UNCHANGED <<ledger, started>>
            \/ /\ UNCHANGED started
               /\ \E d \in Deliveries :
                     pc[d] \in {"write", "orphaned"} /\ ApplyWrite(d)
            \/ /\ UNCHANGED <<ledger, req, plan>>
               /\ \E d \in Deliveries :
                     pc[d] = "run" /\ started' = started \cup {d}
  <1>1. /\ TypeInv /\ TypeOK
        /\ \A d \in Deliveries : RequestInv(d)
    BY DEF IInv, TypeInv
  <1>2. \A e \in started : e \in Deliveries /\ pc[e] = "done"
    BY <1>1 DEF RequestInv, TypeOK
  <1>3. CASE NewDay \/ UNCHANGED vars \/ \E s \in Schedules, p \in Policies : Publish(s, p)
    BY <1>3 DEF NewDay, Publish, vars
  <1>4. ASSUME NEW d \in Deliveries, Handle(d)
        PROVE  /\ \A e \in started : req'[e] = req[e] /\ plan'[e] = plan[e]
               /\ \/ UNCHANGED <<ledger, started>>
                  \/ UNCHANGED started /\ pc[d] = "write" /\ ApplyWrite(d)
                  \/ /\ UNCHANGED <<ledger, req, plan>>
                     /\ pc[d] = "run" /\ started' = started \cup {d}
    <2>1. CASE Reject(d) \/ CatalogUnavailable(d) \/ AdmitUngoverned(d) \/ PolicyUnavailable(d)
      BY <2>1 DEF Reject, CatalogUnavailable, AdmitUngoverned, PolicyUnavailable
    <2>2. CASE LoadPolicy(d) \/ BeginReserve(d)
      <3>1. d \notin started
        BY <1>2, <2>2 DEF LoadPolicy, BeginReserve
      <3>2. \A e \in started : plan'[e] = plan[e]
        BY <1>1, <1>2, <2>2, <3>1 DEF LoadPolicy, BeginReserve, TypeOK
      <3>3. QED
        BY <2>2, <3>2 DEF LoadPolicy, BeginReserve
    <2>3. CASE ReadMetadata(d) \/ ReadMedia(d) \/ WriteRefused(d) \/ WriteUnanswered(d) \/ ReserveFails(d)
      BY <2>3 DEF ReadMetadata, ReadMedia, WriteRefused, WriteUnanswered, ReserveFails
    <2>4. CASE WriteAccepted(d)
      BY <2>4 DEF WriteAccepted
    <2>5. CASE RunAccepted(d) \/ RunFails(d)
      BY <2>5 DEF RunAccepted, RunFails
    <2>6. QED
      BY <1>4, <2>1, <2>2, <2>3, <2>4, <2>5 DEF Handle
  <1>5. ASSUME NEW d \in Deliveries, Environment(d)
        PROVE  /\ \A e \in started : req'[e] = req[e] /\ plan'[e] = plan[e]
               /\ \/ UNCHANGED <<ledger, started>>
                  \/ UNCHANGED started /\ pc[d] = "orphaned" /\ ApplyWrite(d)
                  \/ /\ UNCHANGED <<ledger, req, plan>>
                     /\ pc[d] = "run" /\ started' = started \cup {d}
    <2>1. ASSUME NEW t \in Tasks, Deliver(d, t)
          PROVE  /\ UNCHANGED <<ledger, started, plan>>
                 /\ \A e \in started : req'[e] = req[e]
      BY <1>1, <1>2, <2>1 DEF Deliver, TypeOK
    <2>2. CASE Deadline(d) \/ Crash(d) \/ OrphanApplied(d)
      BY <2>2 DEF Deadline, Crash, OrphanApplied
    <2>3. QED
      BY <1>5, <2>1, <2>2 DEF Environment
  <1>6. QED
    BY <1>3, <1>4, <1>5 DEF Next

\* Every change of a document appends one reservation that fits the cap the
\* writer was given.
THEOREM LedgerOnlyGrowsWithinCap == Spec => LedgerAppendOnly
  <1>1. IInv /\ [Next]_vars => [AppendsOneReservation]_ledger
    <2> SUFFICES ASSUME IInv, [Next]_vars, ledger' # ledger
                 PROVE  AppendsOneReservation
      OBVIOUS
    <2>1. PICK d \in Deliveries : pc[d] \in {"write", "orphaned"} /\ ApplyWrite(d)
      BY StepShape
    <2>2. TypeInv /\ TypeOK /\ LedgerInv /\ RowsDistinct /\ RequestInv(d)
      BY DEF IInv, TypeInv
    <2>3. /\ Governed(req[d].task)
          /\ ledger' = [ledger EXCEPT ![ScheduleOf[req[d].task]][plan[d].day]
                                        = Written(d)]
          /\ Written(d).reserved <= plan[d].policy.cap
      BY <2>1, <2>2, WriteEffect
    <2>4. ScheduleOf[req[d].task] \in Schedules /\ plan[d].day \in Days
      BY <2>2, <2>3, CurrentType
    <2>5. ASSUME NEW s \in Schedules, NEW n \in Days,
                 ledger'[s][n] # ledger[s][n]
          PROVE  /\ ScheduleOf[req[d].task] = s /\ plan[d].day = n
                 /\ ledger'[s][n] = Written(d)
      BY <2>2, <2>3, <2>4, <2>5 DEF TypeOK
    <2>6. ASSUME NEW s \in Schedules, NEW n \in Days,
                 ledger'[s][n] # ledger[s][n]
          PROVE  /\ ledger'[s][n] = [gen |-> ledger[s][n].gen + 1,
                        reserved |-> ledger[s][n].reserved + plan[d].policy.hours,
                        rows |-> Append(ledger[s][n].rows, Row(d))]
                 /\ ledger'[s][n].reserved <= plan[d].policy.cap
      <3>1. /\ ScheduleOf[req[d].task] = s /\ plan[d].day = n
            /\ ledger'[s][n] = Written(d)
        BY <2>5, <2>6
      <3>2. Current(d) = ledger[s][n]
        BY <3>1 DEF Current
      <3>3. QED
        BY <2>3, <3>1, <3>2 DEF Written
    <2>7. QED
      BY <2>5, <2>6 DEF AppendsOneReservation
  <1>2. QED
    BY <1>1, Start, Step, PTL DEF Spec, LedgerAppendOnly

-------------------------------------------------------------------------------
(* Refinement of ScheduleBudget.                                           *)

\* A started job with a reservation is a start of the abstract budget.
StartedReservations ==
    {<<req[d].task, plan[d].day>> : d \in {e \in started : Governed(req[e].task)}}

\* The other two variables of the abstract budget.
ReservedHours == [s \in Schedules |-> [n \in Days |-> ledger[s][n].reserved]]

AdmittedTasks ==
    [s \in Schedules |-> [n \in Days |-> {t \in Tasks : HasRow(ledger[s][n].rows, t)}]]

LEMMA UpdateNested ==
  ASSUME NEW S, NEW N, NEW f, NEW g, NEW v, NEW s \in S, NEW n \in N,
         f = [i \in S |-> [k \in N |-> f[i][k]]],
         g = [i \in S |-> [k \in N |-> g[i][k]]],
         \A i \in S, k \in N : g[i][k] = IF i = s /\ k = n THEN v ELSE f[i][k]
  PROVE  g = [f EXCEPT ![s][n] = v]
  <1> DEFINE h == [f EXCEPT ![s][n] = v]
  <1>1. \A i \in S : f[i] = [k \in N |-> f[i][k]]
    OBVIOUS
  <1>2. /\ h = [i \in S |-> IF i = s THEN [f[s] EXCEPT ![n] = v] ELSE f[i]]
        /\ [f[s] EXCEPT ![n] = v] = [k \in N |-> IF k = n THEN v ELSE f[s][k]]
    BY <1>1
  <1>3. ASSUME NEW i \in S PROVE h[i] = g[i]
    <2>1. g[i] = [k \in N |-> IF i = s /\ k = n THEN v ELSE f[i][k]]
      OBVIOUS
    <2>2. CASE i = s
      BY <1>2, <2>1, <2>2
    <2>3. CASE i # s
      BY <1>1, <1>2, <2>1, <2>3
    <2>4. QED
      BY <2>2, <2>3
  <1> HIDE DEF h
  <1>4. h = g
    BY <1>2, <1>3
  <1>5. QED
    BY <1>4 DEF h

LEMMA RefineInit == Init => Budget!Init
  <1> SUFFICES ASSUME Init PROVE Budget!Init
    OBVIOUS
  <1>1. NoLedger.reserved = 0 /\ NoLedger.rows = <<>> /\ DOMAIN <<>> = {}
    BY DEF NoLedger
  <1>2. \A t \in Tasks : ~HasRow(<<>>, t)
    BY <1>1 DEF HasRow
  <1>3. [s \in Schedules |-> [n \in Days |-> ledger[s][n].reserved]]
           = [s \in Schedules |-> [n \in Days |-> 0]]
    BY <1>1 DEF Init
  <1>4. [s \in Schedules |-> [n \in Days |-> {t \in Tasks : HasRow(ledger[s][n].rows, t)}]]
           = [s \in Schedules |-> [n \in Days |-> {}]]
    BY <1>1, <1>2 DEF Init
  <1>5. StartedReservations = {}
    BY DEF Init, StartedReservations
  <1>6. QED
    BY <1>3, <1>4, <1>5 DEF Budget!Init, StartedReservations

LEMMA RefineStep == IInv /\ [Next]_vars => [Budget!Next]_(Budget!vars)
  <1> SUFFICES ASSUME IInv, [Next]_vars PROVE [Budget!Next]_(Budget!vars)
    OBVIOUS
  <1>1. /\ TypeInv /\ TypeOK /\ LedgerInv /\ RowsDistinct /\ StartsAreReserved
        /\ \A d \in Deliveries : RequestInv(d)
    BY DEF IInv, TypeInv
  <1>2. \A e \in started : req'[e] = req[e] /\ plan'[e] = plan[e]
    BY StepShape
  <1>3. ASSUME started' = started
        PROVE  StartedReservations' = StartedReservations
    BY <1>2, <1>3 DEF StartedReservations
  <1>4. CASE UNCHANGED <<ledger, started>>
    <2>1. UNCHANGED StartedReservations
      BY <1>3, <1>4
    <2>2. UNCHANGED Budget!vars
      BY <1>4, <2>1 DEF Budget!vars, StartedReservations, HasRow
    <2>3. QED
      BY <2>2
  <1>5. ASSUME NEW d \in Deliveries, pc[d] \in {"write", "orphaned"},
               ApplyWrite(d), UNCHANGED started
        PROVE  Budget!Next
    <2>1. /\ Governed(req[d].task)
          /\ ledger' = [ledger EXCEPT ![ScheduleOf[req[d].task]][plan[d].day] = Written(d)]
          /\ Written(d).reserved <= plan[d].policy.cap
          /\ ~HasRow(Current(d).rows, req[d].task)
      BY <1>1, <1>5, WriteEffect
    <2>2. PICK t \in Tasks, m \in Schedules, n \in Days, p \in Policies, w \in {Written(d)} :
              /\ t = req[d].task /\ m = ScheduleOf[t]
              /\ n = plan[d].day /\ p = plan[d].policy /\ w = Written(d)
      BY <1>1, <1>5, <2>1, CurrentType DEF TypeOK, RequestInv
    <2>3. /\ Current(d) \in Ledger /\ Current(d) = ledger[m][n]
          /\ Row(d) \in Reservation /\ Row(d).task = t
      BY <1>1, <2>1, <2>2, CurrentType
         DEF TypeOK, Row, Reservation, Policy, Current
    <2>4. /\ w.rows = Append(ledger[m][n].rows, Row(d))
          /\ w.reserved = ledger[m][n].reserved + p.hours
          /\ w.reserved <= p.cap
      BY <2>1, <2>2, <2>3 DEF Written
    <2>5. \A u \in Tasks : HasRow(w.rows, u) <=> HasRow(ledger[m][n].rows, u) \/ u = t
      BY <2>3, <2>4, HasRowAppend DEF Ledger
    <2>6. \A i \in Schedules, k \in Days :
             ledger'[i][k] = IF i = m /\ k = n THEN w ELSE ledger[i][k]
      BY <1>1, <2>1, <2>2 DEF TypeOK
    <2>7. UNCHANGED StartedReservations
      BY <1>3, <1>5
    <2>8. ReservedHours' = [ReservedHours EXCEPT ![m][n] = ReservedHours[m][n] + p.hours]
      <3>1. \A i \in Schedules, k \in Days :
               ReservedHours'[i][k] = IF i = m /\ k = n THEN ReservedHours[m][n] + p.hours
                                                       ELSE ReservedHours[i][k]
        BY <2>4, <2>6 DEF ReservedHours
      <3>2. /\ ReservedHours = [i \in Schedules |-> [k \in Days |-> ReservedHours[i][k]]]
            /\ ReservedHours' = [i \in Schedules |-> [k \in Days |-> ReservedHours'[i][k]]]
        BY DEF ReservedHours
      <3>3. QED
        BY <3>1, <3>2, UpdateNested
    <2>9. {u \in Tasks : HasRow(w.rows, u)}
             = {u \in Tasks : HasRow(ledger[m][n].rows, u)} \cup {t}
      BY <2>5
    <2>10. /\ AdmittedTasks' = [AdmittedTasks EXCEPT ![m][n] = AdmittedTasks[m][n] \cup {t}]
           /\ t \notin AdmittedTasks[m][n]
      <3>1. AdmittedTasks[m][n] = {u \in Tasks : HasRow(ledger[m][n].rows, u)}
        BY DEF AdmittedTasks
      <3>2. \A i \in Schedules, k \in Days :
               AdmittedTasks'[i][k] = IF i = m /\ k = n THEN AdmittedTasks[m][n] \cup {t}
                                                       ELSE AdmittedTasks[i][k]
        BY <2>6, <2>9, <3>1 DEF AdmittedTasks
      <3>3. /\ AdmittedTasks = [i \in Schedules |-> [k \in Days |-> AdmittedTasks[i][k]]]
            /\ AdmittedTasks' = [i \in Schedules |-> [k \in Days |-> AdmittedTasks'[i][k]]]
        BY DEF AdmittedTasks
      <3>4. t \notin AdmittedTasks[m][n]
        BY <2>1, <2>2, <2>3, <3>1
      <3>5. QED
        BY <3>2, <3>3, <3>4, UpdateNested
    <2>11. ReservedHours[m][n] + p.hours <= p.cap
      BY <2>4 DEF ReservedHours
    <2>12. Budget!Admit(t, n, p)
      BY <2>2, <2>7, <2>8, <2>10, <2>11
         DEF Budget!Admit, StartedReservations, AdmittedTasks, ReservedHours
    <2>13. QED
      BY <2>2, <2>12 DEF Budget!Next
  <1>6. ASSUME NEW d \in Deliveries, UNCHANGED <<ledger, req, plan>>,
               pc[d] = "run", started' = started \cup {d}
        PROVE  [Budget!Next]_(Budget!vars)
    <2>1. CASE ~Governed(req[d].task)
      <3>1. UNCHANGED StartedReservations
        BY <1>6, <2>1 DEF StartedReservations
      <3>2. UNCHANGED Budget!vars
        BY <1>6, <3>1 DEF Budget!vars, StartedReservations, HasRow
      <3>3. QED
        BY <3>2
    <2>2. CASE Governed(req[d].task)
      <3>1. PICK t \in Tasks, n \in Days :
                t = req[d].task /\ n = plan[d].day /\ ScheduleOf[t] \in Schedules
        BY <1>1, <2>2, CurrentType DEF TypeOK
      <3>2. d \in Holders
        BY <1>6, <2>2 DEF Holders
      <3>3. t \in AdmittedTasks[ScheduleOf[t]][n]
        BY <1>1, <3>1, <3>2 DEF StartsAreReserved, Current, AdmittedTasks
      <3>4. d \notin started
        BY <1>1, <1>6 DEF RequestInv
      <3>5. \A e \in started : Governed(req[e].task) /\ req[e].task = t => plan[e].day # n
        BY <1>1, <3>1, <3>2, <3>4 DEF StartsAreReserved, Holders, TypeOK
      <3>6. <<t, n>> \notin StartedReservations
        BY <3>5 DEF StartedReservations
      <3>7. StartedReservations' = StartedReservations \cup {<<t, n>>}
        BY <1>6, <2>2, <3>1 DEF StartedReservations
      <3>8. UNCHANGED <<ReservedHours, AdmittedTasks>>
        BY <1>6 DEF ReservedHours, AdmittedTasks, HasRow
      <3>9. Budget!Start(t, n)
        BY <3>3, <3>6, <3>7, <3>8
           DEF Budget!Start, StartedReservations, AdmittedTasks, ReservedHours
      <3>10. Budget!Next
        BY <3>1, <3>9 DEF Budget!Next
      <3>11. QED
        BY <3>10
    <2>3. QED
      BY <2>1, <2>2
  <1>7. QED
    BY <1>4, <1>5, <1>6, StepShape

\* The consumer implements the abstract daily budget.
THEOREM Implements == Spec => ImplementsScheduleBudget
  <1>1. QED
    BY RefineInit, RefineStep, Start, Step, PTL
       DEF Spec, ImplementsScheduleBudget, Budget!Spec
-------------------------------------------------------------------------------
(* Tasks without a schedule.                                               *)

\* What a step may do to Cloud Tasks and Cloud Run: failures are only counted,
\* started requests keep their task, and a task without a schedule leaves the
\* queue for one of two reasons.
FailuresGrow == \A t \in Tasks : failures'[t] >= failures[t]

StartsStay == \A d \in started : d \in started' /\ req'[d] = req[d]

DepartureExplained ==
    \A t \in queued \ queued' :
        \/ Scheduled(t)
        \/ failures'[t] >= MaxFailures
        \/ \E d \in started' : req'[d].task = t

TaskStep == FailuresGrow /\ StartsStay /\ DepartureExplained

LEMMA FailedAttempt ==
  ASSUME TypeOK, NEW d \in Deliveries, FailAttempt(d)
  PROVE  FailuresGrow /\ DepartureExplained
  <1>1. CASE heard[d] /\ req[d].task \in queued
    <2>1. CountFailure(req[d].task)
      BY <1>1 DEF FailAttempt
    <2>2. req[d].task \in Tasks /\ failures \in [Tasks -> Nat] /\ MaxFailures \in Nat
      BY BoundAssumption DEF TypeOK
    <2>3. /\ failures' = [failures EXCEPT ![req[d].task] = @ + 1]
          /\ queued' = IF failures[req[d].task] + 1 >= MaxFailures
                       THEN queued \ {req[d].task} ELSE queued
      BY <2>1 DEF CountFailure
    <2>4. QED
      BY <2>2, <2>3 DEF FailuresGrow, DepartureExplained
  <1>2. CASE ~(heard[d] /\ req[d].task \in queued)
    BY <1>2 DEF TypeOK, FailAttempt, FailuresGrow, DepartureExplained
  <1>3. QED
    BY <1>1, <1>2

LEMMA Acknowledged ==
  ASSUME TypeOK, NEW d \in Deliveries, Acknowledge(d),
         \/ Scheduled(req[d].task)
         \/ d \in started' /\ req' = req
  PROVE  FailuresGrow /\ DepartureExplained
  BY DEF TypeOK, Acknowledge, FailuresGrow, DepartureExplained

LEMMA Undisturbed ==
  ASSUME TypeOK, UNCHANGED <<queued, failures>>
  PROVE  FailuresGrow /\ DepartureExplained
  BY DEF TypeOK, FailuresGrow, DepartureExplained

LEMMA HandlerTaskStep ==
  ASSUME IInv, NEW d \in Deliveries, Handle(d)
  PROVE  TaskStep
  <1> USE DEF Governed, Scheduled, TaskStep
  <1>1. TypeOK /\ LoopGoverned
    BY DEF IInv, TypeInv
  <1>2. StartsStay
    BY DEF StartsStay, Handle, Reject, CatalogUnavailable, AdmitUngoverned,
           PolicyUnavailable, LoadPolicy, BeginReserve, ReadMetadata, ReadMedia,
           WriteAccepted, WriteRefused, WriteUnanswered, ReserveFails,
           RunAccepted, RunFails
  <1>3. CASE Reject(d) \/ CatalogUnavailable(d)
    BY <1>1, <1>2, <1>3, FailedAttempt, Acknowledged DEF Reject, CatalogUnavailable, Refuse
  <1>4. CASE PolicyUnavailable(d) \/ LoadPolicy(d)
    BY <1>1, <1>2, <1>4, FailedAttempt, Acknowledged, Undisturbed
       DEF PolicyUnavailable, LoadPolicy, Refuse
  <1>5. CASE AdmitUngoverned(d) \/ BeginReserve(d) \/ WriteAccepted(d)
    BY <1>1, <1>2, <1>5, Undisturbed DEF AdmitUngoverned, BeginReserve, WriteAccepted
  <1>6. CASE \/ ReadMetadata(d) \/ ReadMedia(d) \/ WriteRefused(d) \/ ReserveFails(d)
    <2>1. Scheduled(req[d].task)
      BY <1>1, <1>6
         DEF LoopGoverned, ReadMetadata, ReadMedia, WriteRefused, ReserveFails
    <2>2. Acknowledge(d) \/ UNCHANGED <<queued, failures>>
      BY <1>6 DEF ReadMetadata, ReadMedia, WriteRefused, ReserveFails, Decide
    <2>3. QED
      BY <1>1, <1>2, <2>1, <2>2, Acknowledged, Undisturbed
  <1>7. CASE WriteUnanswered(d)
    <2>1. Scheduled(req[d].task)
      BY <1>1, <1>7 DEF LoopGoverned, WriteUnanswered
    <2>2. QED
      BY <1>1, <1>2, <1>7, <2>1
         DEF WriteUnanswered, TypeOK, FailuresGrow, DepartureExplained
  <1>8. CASE RunAccepted(d)
    BY <1>1, <1>2, <1>8, Acknowledged DEF RunAccepted
  <1>9. CASE RunFails(d)
    BY <1>1, <1>2, <1>9, FailedAttempt, Acknowledged DEF RunFails, Refuse
  <1>10. QED
    BY <1>2, <1>3, <1>4, <1>5, <1>6, <1>7, <1>8, <1>9 DEF Handle

LEMMA EveryTaskStep == IInv /\ [Next]_vars => TaskStep
  <1> SUFFICES ASSUME IInv, [Next]_vars PROVE TaskStep
    OBVIOUS
  <1>1. TypeOK /\ \A d \in started : d \in Deliveries /\ pc[d] = "done"
    BY DEF IInv, TypeInv, TypeOK, RequestInv
  <1>2. CASE NewDay \/ (\E s \in Schedules, p \in Policies : Publish(s, p))
             \/ UNCHANGED vars
    BY <1>1, <1>2, Undisturbed DEF NewDay, Publish, vars, TaskStep, StartsStay
  <1>3. ASSUME NEW d \in Deliveries, NEW t \in Tasks, Deliver(d, t)
        PROVE  TaskStep
    BY <1>1, <1>3, Undisturbed DEF Deliver, TypeOK, TaskStep, StartsStay
  <1>4. ASSUME NEW d \in Deliveries, Deadline(d) \/ Crash(d)
        PROVE  TaskStep
    BY <1>1, <1>4, FailedAttempt DEF Deadline, Crash, TaskStep, StartsStay
  <1>5. ASSUME NEW d \in Deliveries, OrphanApplied(d)
        PROVE  TaskStep
    BY <1>1, <1>5, Undisturbed DEF OrphanApplied, TaskStep, StartsStay
  <1>6. QED
    BY <1>2, <1>3, <1>4, <1>5, HandlerTaskStep DEF Next, Environment

\* A task without a schedule leaves the queue only when a job was started for
\* it or Cloud Tasks has used up its attempts.
THEOREM UnscheduledTasksStay == Spec => []NoUnscheduledTaskLost
  <1>1. Init => NoUnscheduledTaskLost
    BY DEF Init, NoUnscheduledTaskLost
  <1>2. IInv /\ NoUnscheduledTaskLost /\ [Next]_vars => NoUnscheduledTaskLost'
    <2> SUFFICES ASSUME IInv, NoUnscheduledTaskLost, [Next]_vars,
                        NEW t \in Tasks, ~Scheduled(t), t \notin queued'
                 PROVE  \/ failures'[t] >= MaxFailures
                        \/ \E d \in started' : req'[d].task = t
      BY DEF NoUnscheduledTaskLost, Scheduled
    <2>1. TaskStep /\ TypeOK /\ TypeOK'
      BY EveryTaskStep, Step DEF IInv, TypeInv
    <2>2. CASE t \in queued
      BY <2>1, <2>2 DEF TaskStep, DepartureExplained
    <2>3. CASE t \notin queued /\ failures[t] >= MaxFailures
      <3>1. failures[t] \in Nat /\ failures'[t] \in Nat /\ MaxFailures \in Nat
        BY <2>1, BoundAssumption DEF TypeOK
      <3>2. QED
        BY <2>1, <2>3, <3>1 DEF TaskStep, FailuresGrow
    <2>4. CASE \E d \in started : req[d].task = t
      BY <2>1, <2>4 DEF TaskStep, StartsStay
    <2>5. QED
      BY <2>2, <2>3, <2>4 DEF NoUnscheduledTaskLost
  <1>3. QED
    BY <1>1, <1>2, Start, Step, PTL DEF Spec

-------------------------------------------------------------------------------
(* The bill of a day.                                                      *)

ValidPolicies == {r \in Policies : Valid(r)}

\* The rows of jobs of h hours and more.
RowsOfSize(rows, h) == {i \in DOMAIN rows : rows[i].hours >= h}

\* A request in the reservation loop has loaded a valid policy; the rows of a ledger
\* have been charged what they say, nothing beyond a cap of c, and the row of a
\* started job says what its policy said.
ValidPlans ==
    \A d \in Deliveries :
        pc[d] \in {"reserve", "metadata", "media", "write", "orphaned"} =>
            plan[d].policy \in ValidPolicies

RowsAreCharged(h) ==
    \A s \in Schedules, n \in Days :
        h * Cardinality(RowsOfSize(ledger[s][n].rows, h)) <= ledger[s][n].reserved

WithinCap(c) == \A s \in Schedules, n \in Days : ledger[s][n].reserved <= c

JobsAreCharged ==
    \A d \in Holders : \E i \in DOMAIN Current(d).rows : Current(d).rows[i] = Row(d)

BillInv ==
    /\ ValidPlans
    /\ \A h \in Nat : RowsAreCharged(h)
    /\ \A c \in Nat : (\A r \in ValidPolicies : r.cap <= c) => WithinCap(c)
    /\ JobsAreCharged

LEMMA BillInit == Init => BillInv
  <1> SUFFICES ASSUME Init PROVE BillInv
    OBVIOUS
  <1>1. \A s \in Schedules, n \in Days : ledger[s][n].reserved = 0 /\ ledger[s][n].rows = <<>>
    BY DEF Init, NoLedger
  <1>2. \A h \in Nat : h * 0 <= 0
    OBVIOUS
  <1>3. \A h \in Nat : RowsOfSize(<<>>, h) = {}
    BY DEF RowsOfSize
  <1>4. Cardinality({}) = 0
    BY FS_EmptySet
  <1>5. \A h \in Nat : RowsAreCharged(h)
    BY <1>1, <1>2, <1>3, <1>4 DEF RowsAreCharged
  <1>6. \A c \in Nat : WithinCap(c)
    BY <1>1 DEF WithinCap
  <1>7. ValidPlans /\ JobsAreCharged
    BY DEF Init, ValidPlans, JobsAreCharged, Holders
  <1>8. QED
    BY <1>5, <1>6, <1>7 DEF BillInv

LEMMA Interval ==
  ASSUME NEW k \in Nat
  PROVE  IsFiniteSet(1 .. k) /\ Cardinality(1 .. k) = k
  <1>1. 1 \in Int /\ k \in Int
    OBVIOUS
  <1>2. /\ IsFiniteSet(1 .. k)
        /\ Cardinality(1 .. k) = IF 1 > k THEN 0 ELSE k - 1 + 1
    BY <1>1, FS_Interval, Zenon
  <1>3. QED
    BY <1>2

\* One row more is at most one more of its size.
LEMMA RowsOfSizeAppend ==
  ASSUME NEW rows \in Seq(Reservation), NEW r \in Reservation, NEW h \in Nat
  PROVE  /\ IsFiniteSet(RowsOfSize(rows, h))
         /\ Cardinality(RowsOfSize(rows, h)) \in Nat
         /\ Cardinality(RowsOfSize(Append(rows, r), h)) =
               Cardinality(RowsOfSize(rows, h)) + (IF r.hours >= h THEN 1 ELSE 0)
  <1> DEFINE k == Len(rows) + 1
  <1>1. /\ DOMAIN rows = 1 .. Len(rows) /\ Len(rows) \in Nat
        /\ DOMAIN Append(rows, r) = 1 .. k
        /\ \A i \in 1 .. Len(rows) : Append(rows, r)[i] = rows[i]
        /\ Append(rows, r)[k] = r
    OBVIOUS
  <1>2. IsFiniteSet(RowsOfSize(rows, h))
    <2>1. RowsOfSize(rows, h) \subseteq 1 .. Len(rows)
      BY <1>1 DEF RowsOfSize
    <2>2. IsFiniteSet(1 .. Len(rows))
      BY <1>1, Interval
    <2>3. QED
      BY <2>1, <2>2, FS_Subset
  <1>3. Cardinality(RowsOfSize(rows, h)) \in Nat
    BY <1>2, FS_CardinalityType
  <1>4. k \notin RowsOfSize(rows, h)
    BY <1>1 DEF RowsOfSize
  <1>5. CASE r.hours >= h
    <2>1. RowsOfSize(Append(rows, r), h) = RowsOfSize(rows, h) \cup {k}
      BY <1>1, <1>5 DEF RowsOfSize
    <2>2. QED
      BY <1>2, <1>3, <1>4, <1>5, <2>1, FS_AddElement
  <1>6. CASE ~(r.hours >= h)
    <2>1. RowsOfSize(Append(rows, r), h) = RowsOfSize(rows, h)
      BY <1>1, <1>6 DEF RowsOfSize
    <2>2. QED
      BY <1>2, <1>3, <1>6, <2>1
  <1>7. QED
    BY <1>2, <1>3, <1>5, <1>6

LEMMA PlansStayValid ==
  ASSUME IInv, ValidPlans, [Next]_vars
  PROVE  ValidPlans'
  <1> USE DEF ValidPlans
  <1>1. TypeOK
    BY DEF IInv, TypeInv
  <1>2. CASE NewDay \/ UNCHANGED vars \/ \E s \in Schedules, p \in Policies : Publish(s, p)
    BY <1>2 DEF NewDay, Publish, vars
  <1>3. ASSUME NEW d \in Deliveries, NEW t \in Tasks, Deliver(d, t)
        PROVE  ValidPlans'
    BY <1>1, <1>3 DEF Deliver, TypeOK
  <1>4. ASSUME NEW d \in Deliveries, Deadline(d) \/ Crash(d) \/ OrphanApplied(d)
        PROVE  ValidPlans'
    BY <1>1, <1>4 DEF Deadline, Crash, OrphanApplied, TypeOK
  <1>5. ASSUME NEW d \in Deliveries, Reject(d) \/ CatalogUnavailable(d) \/ PolicyUnavailable(d)
        PROVE  ValidPlans'
    BY <1>1, <1>5
       DEF Reject, CatalogUnavailable, PolicyUnavailable, Acknowledge, Refuse, TypeOK
  <1>6. ASSUME NEW d \in Deliveries, LoadPolicy(d)
        PROVE  ValidPlans'
    <2>1. published[ScheduleOf[req[d].task]] \in Policies
      BY <1>1, <1>6, GovernedSchedule DEF LoadPolicy, TypeOK
    <2>2. CASE UNCHANGED plan /\ (Refuse(d) \/ Acknowledge(d))
      BY <1>1, <1>6, <2>2 DEF Acknowledge, Refuse, TypeOK
    <2>3. CASE /\ Valid(published[ScheduleOf[req[d].task]])
               /\ plan' = [plan EXCEPT ![d].policy = published[ScheduleOf[req[d].task]]]
               /\ pc' = [pc EXCEPT ![d] = "reserve"]
      BY <1>1, <2>1, <2>3 DEF TypeOK, ValidPolicies
    <2>4. QED
      BY <1>6, <2>2, <2>3 DEF LoadPolicy
  <1>7. ASSUME NEW d \in Deliveries, BeginReserve(d)
        PROVE  ValidPlans'
    BY <1>1, <1>7 DEF BeginReserve, TypeOK
  <1>8. ASSUME NEW d \in Deliveries,
               ReadMetadata(d) \/ ReadMedia(d) \/ WriteRefused(d) \/ WriteUnanswered(d)
               \/ ReserveFails(d)
        PROVE  ValidPlans'
    BY <1>1, <1>8
       DEF ReadMetadata, ReadMedia, WriteRefused, WriteUnanswered, ReserveFails, Decide,
           Acknowledge, TypeOK
  <1>9. ASSUME NEW d \in Deliveries,
               AdmitUngoverned(d) \/ WriteAccepted(d) \/ RunAccepted(d) \/ RunFails(d)
        PROVE  ValidPlans'
    BY <1>1, <1>9
       DEF AdmitUngoverned, WriteAccepted, RunAccepted, RunFails, Acknowledge, Refuse, TypeOK
  <1>10. QED
    BY <1>2, <1>3, <1>4, <1>5, <1>6, <1>7, <1>8, <1>9 DEF Next, Handle, Environment

\* A request becomes a holder by its own write only, and keeps its plan.
LEMMA NewHolders ==
  ASSUME IInv, [Next]_vars, NEW e \in Holders'
  PROVE  /\ req'[e] = req[e] /\ plan'[e] = plan[e]
         /\ e \in Holders \/ (pc[e] = "write" /\ ApplyWrite(e))
  <1>1. TypeOK /\ \A d \in Deliveries : RequestInv(d)
    BY DEF IInv, TypeInv
  <1>2. e \in Deliveries /\ Governed(req'[e].task) /\ (pc'[e] = "run" \/ e \in started')
    BY DEF Holders
  <1>3. e \in started => pc[e] = "done"
    BY <1>1, <1>2 DEF RequestInv
  <1> USE DEF TypeOK, Holders
  <1>4. CASE NewDay \/ UNCHANGED vars \/ \E s \in Schedules, p \in Policies : Publish(s, p)
    BY <1>2, <1>4 DEF NewDay, Publish, vars
  <1>5. ASSUME NEW d \in Deliveries, NEW t \in Tasks, Deliver(d, t)
        PROVE  UNCHANGED plan /\ req'[e] = req[e] /\ e \in Holders
    BY <1>1, <1>2, <1>3, <1>5 DEF Deliver
  <1>6. ASSUME NEW d \in Deliveries, Deadline(d) \/ Crash(d) \/ OrphanApplied(d)
        PROVE  UNCHANGED <<req, plan>> /\ e \in Holders
    BY <1>1, <1>2, <1>3, <1>6 DEF Deadline, Crash, OrphanApplied
  <1>7. ASSUME NEW d \in Deliveries,
               Reject(d) \/ CatalogUnavailable(d) \/ PolicyUnavailable(d) \/ AdmitUngoverned(d)
        PROVE  UNCHANGED <<req, plan>> /\ e \in Holders
    BY <1>1, <1>2, <1>3, <1>7
       DEF Reject, CatalogUnavailable, PolicyUnavailable, AdmitUngoverned, Acknowledge, Refuse
  <1>8. ASSUME NEW d \in Deliveries, LoadPolicy(d) \/ BeginReserve(d)
        PROVE  UNCHANGED req /\ plan'[e] = plan[e] /\ e \in Holders
    BY <1>1, <1>2, <1>3, <1>8 DEF LoadPolicy, BeginReserve, Acknowledge, Refuse
  <1>9. ASSUME NEW d \in Deliveries,
               ReadMetadata(d) \/ ReadMedia(d) \/ WriteRefused(d) \/ WriteUnanswered(d)
               \/ ReserveFails(d)
        PROVE  UNCHANGED <<req, plan>> /\ e \in Holders
    BY <1>1, <1>2, <1>3, <1>9
       DEF ReadMetadata, ReadMedia, WriteRefused, WriteUnanswered, ReserveFails, Decide,
           Acknowledge
  <1>10. ASSUME NEW d \in Deliveries, WriteAccepted(d)
         PROVE  /\ UNCHANGED <<req, plan>>
                /\ e \in Holders \/ (pc[e] = "write" /\ ApplyWrite(e))
    <2>1. CASE e = d
      BY <1>10, <2>1 DEF WriteAccepted
    <2>2. CASE e # d
      BY <1>1, <1>2, <1>10, <2>2 DEF WriteAccepted
    <2>3. QED
      BY <2>1, <2>2
  <1>11. ASSUME NEW d \in Deliveries, RunAccepted(d) \/ RunFails(d)
         PROVE  UNCHANGED <<req, plan>> /\ e \in Holders
    BY <1>1, <1>2, <1>3, <1>11 DEF RunAccepted, RunFails, Acknowledge, Refuse
  <1>12. QED
    BY <1>4, <1>5, <1>6, <1>7, <1>8, <1>9, <1>10, <1>11 DEF Next, Handle, Environment

LEMMA AppendedRows ==
  ASSUME NEW rows \in Seq(Reservation), NEW r \in Reservation
  PROVE  /\ \A i \in DOMAIN rows :
              i \in DOMAIN Append(rows, r) /\ Append(rows, r)[i] = rows[i]
         /\ \E i \in DOMAIN Append(rows, r) : Append(rows, r)[i] = r
  <1>1. /\ DOMAIN rows = 1 .. Len(rows) /\ Len(rows) \in Nat
        /\ DOMAIN Append(rows, r) = 1 .. (Len(rows) + 1)
        /\ \A i \in 1 .. Len(rows) : Append(rows, r)[i] = rows[i]
        /\ Append(rows, r)[Len(rows) + 1] = r
    OBVIOUS
  <1>2. Len(rows) + 1 \in DOMAIN Append(rows, r)
    BY <1>1
  <1>3. QED
    BY <1>1, <1>2

\* The rows of a ledger stay as they are when one is appended.
LEMMA ChargesStay ==
  ASSUME IInv, JobsAreCharged, [Next]_vars
  PROVE  JobsAreCharged'
  <1> SUFFICES ASSUME NEW e \in Holders'
               PROVE  \E i \in DOMAIN Current(e)'.rows : Current(e)'.rows[i] = Row(e)'
    BY DEF JobsAreCharged
  <1>1. /\ TypeInv /\ TypeOK /\ LedgerInv /\ RowsDistinct
        /\ \A d \in Deliveries : RequestInv(d)
    BY DEF IInv, TypeInv
  <1>2. /\ e \in Deliveries /\ Governed(req[e].task)
        /\ req'[e] = req[e] /\ plan'[e] = plan[e]
        /\ e \in Holders \/ (pc[e] = "write" /\ ApplyWrite(e))
    BY NewHolders DEF Holders
  <1>3. PICK m \in Schedules, k \in Days :
            /\ m = ScheduleOf[req[e].task] /\ k = plan[e].day
            /\ Current(e) = ledger[m][k] /\ Current(e)' = ledger'[m][k]
    BY <1>1, <1>2, CurrentType DEF Current
  <1>4. Row(e)' = Row(e)
    BY <1>2 DEF Row
  <1>5. ASSUME NEW d \in Deliveries, pc[d] \in {"write", "orphaned"}, ApplyWrite(d)
        PROVE  /\ ledger'[m][k] = ledger[m][k] \/ ledger'[m][k] = Written(d)
               /\ ledger'[m][k] # ledger[m][k] => Current(d) = ledger[m][k]
               /\ d = e => ledger'[m][k] = Written(d)
               /\ Row(d) \in Reservation
    <2>1. /\ Governed(req[d].task)
          /\ ledger' = [ledger EXCEPT ![ScheduleOf[req[d].task]][plan[d].day] = Written(d)]
      BY <1>1, <1>5, WriteEffect
    <2>2. ScheduleOf[req[d].task] \in Schedules /\ plan[d].day \in Days
      BY <1>1, <2>1, CurrentType
    <2>3. Row(d) \in Reservation
      BY <1>1 DEF TypeOK, Row, Reservation, Policy
    <2>4. QED
      BY <1>1, <1>3, <2>1, <2>2, <2>3 DEF TypeOK, Current
  <1>6. ledger[m][k].rows \in Seq(Reservation)
    BY SMTT(20), <1>1 DEF TypeOK, Ledger
  <1>7. CASE pc[e] = "write" /\ ApplyWrite(e)
    <2>1. ledger'[m][k] = Written(e) /\ Row(e) \in Reservation
      BY <1>2, <1>5, <1>7
    <2>2. Written(e).rows = Append(ledger[m][k].rows, Row(e))
      BY <1>3 DEF Written
    <2>3. \E i \in DOMAIN Append(ledger[m][k].rows, Row(e)) :
             Append(ledger[m][k].rows, Row(e))[i] = Row(e)
      BY <1>6, <2>1, AppendedRows
    <2>4. ledger'[m][k].rows = Append(ledger[m][k].rows, Row(e))
      BY <2>1, <2>2
    <2>5. QED
      BY <1>3, <1>4, <2>3, <2>4
  <1>8. CASE e \in Holders
    <2>1. PICK i \in DOMAIN ledger[m][k].rows : ledger[m][k].rows[i] = Row(e)
      BY <1>3, <1>8 DEF JobsAreCharged
    <2>2. CASE ledger'[m][k] = ledger[m][k]
      BY <1>3, <1>4, <2>1, <2>2
    <2>3. CASE ledger'[m][k] # ledger[m][k]
      <3>1. PICK d \in Deliveries : pc[d] \in {"write", "orphaned"} /\ ApplyWrite(d)
        BY <2>3, StepShape
      <3>2. /\ ledger'[m][k] = Written(d) /\ Current(d) = ledger[m][k]
            /\ Row(d) \in Reservation
        BY <1>5, <2>3, <3>1
      <3>3. Written(d).rows = Append(ledger[m][k].rows, Row(d))
        BY <3>2 DEF Written
      <3>4. /\ i \in DOMAIN Append(ledger[m][k].rows, Row(d))
            /\ Append(ledger[m][k].rows, Row(d))[i] = Row(e)
        BY <1>6, <2>1, <3>2, AppendedRows
      <3>5. ledger'[m][k].rows = Append(ledger[m][k].rows, Row(d))
        BY <3>2, <3>3
      <3>6. QED
        BY <1>3, <1>4, <3>4, <3>5
    <2>4. QED
      BY <2>2, <2>3
  <1>9. QED
    BY <1>2, <1>7, <1>8

LEMMA BillStep == IInv /\ BillInv /\ [Next]_vars => BillInv'
  <1> SUFFICES ASSUME IInv, BillInv, [Next]_vars PROVE BillInv'
    OBVIOUS
  <1>1. ValidPlans' /\ JobsAreCharged'
    BY PlansStayValid, ChargesStay DEF BillInv
  <1>2. CASE UNCHANGED ledger
    BY <1>1, <1>2 DEF BillInv, RowsAreCharged, WithinCap
  <1>3. CASE ledger' # ledger
    <2>1. PICK d \in Deliveries : pc[d] \in {"write", "orphaned"} /\ ApplyWrite(d)
      BY <1>3, StepShape
    <2>2. TypeInv /\ TypeOK /\ LedgerInv /\ RowsDistinct /\ RequestInv(d)
      BY DEF IInv, TypeInv
    <2>3. /\ Governed(req[d].task)
          /\ ledger' = [ledger EXCEPT ![ScheduleOf[req[d].task]][plan[d].day] = Written(d)]
          /\ Written(d).reserved <= plan[d].policy.cap
      BY <2>1, <2>2, WriteEffect
    <2>4. PICK p \in ValidPolicies : p = plan[d].policy
      BY <2>1 DEF BillInv, ValidPlans
    <2>5. PICK m \in Schedules, k \in Days :
              m = ScheduleOf[req[d].task] /\ k = plan[d].day /\ Current(d) = ledger[m][k]
      BY <2>2, <2>3, CurrentType DEF Current
    <2>6. /\ ledger'[m][k] = Written(d)
          /\ \A s \in Schedules, n \in Days :
                ledger'[s][n] = Written(d) \/ ledger'[s][n] = ledger[s][n]
      BY <2>2, <2>3, <2>5 DEF TypeOK
    <2>7. /\ ledger[m][k].rows \in Seq(Reservation) /\ ledger[m][k].reserved \in Nat
          /\ p.hours \in Nat /\ p.cap \in Nat
      BY SMTT(20), <2>2, <2>4 DEF TypeOK, Ledger, Policy
    <2>8. /\ Written(d).reserved = ledger[m][k].reserved + p.hours
          /\ Written(d).rows = Append(ledger[m][k].rows, Row(d))
          /\ Row(d) \in Reservation /\ Row(d).hours = p.hours
      BY <2>2, <2>4, <2>5 DEF Written, Row, TypeOK, Reservation, Policy
    <2>9. ASSUME NEW h \in Nat
          PROVE  RowsAreCharged(h)'
      <3>1. RowsAreCharged(h)
        BY DEF BillInv
      <3> DEFINE old == Cardinality(RowsOfSize(ledger[m][k].rows, h))
                 new == Cardinality(RowsOfSize(Written(d).rows, h))
      <3>2. old \in Nat /\ new = old + (IF p.hours >= h THEN 1 ELSE 0)
        BY <2>7, <2>8, RowsOfSizeAppend
      <3>3. h * old <= ledger[m][k].reserved
        BY <3>1 DEF RowsAreCharged
      <3> HIDE DEF old, new
      <3>4. \A a \in Nat : h * (a + 1) = h * a + h /\ h * a \in Nat
        OBVIOUS
      <3>5. h * new <= Written(d).reserved
        <4>1. CASE p.hours >= h
          <5>1. h * new = h * old + h /\ h * old \in Nat
            BY <3>2, <3>4, <4>1
          <5>2. QED
            BY <2>7, <2>8, <3>3, <4>1, <5>1
        <4>2. CASE ~(p.hours >= h)
          <5>1. new = old /\ h * old \in Nat
            BY <3>2, <3>4, <4>2
          <5>2. QED
            BY <2>7, <2>8, <3>3, <5>1
        <4>3. QED
          BY <4>1, <4>2
      <3>6. QED
        BY <2>6, <3>1, <3>5 DEF RowsAreCharged, new
    <2>10. ASSUME NEW c \in Nat, \A r \in ValidPolicies : r.cap <= c
           PROVE  WithinCap(c)'
      <3>1. WithinCap(c) /\ p.cap <= c
        BY <2>10 DEF BillInv
      <3>2. Written(d).reserved <= c
        BY <2>3, <2>4, <2>7, <2>8, <3>1
      <3>3. QED
        BY <2>6, <3>1, <3>2 DEF WithinCap
    <2>11. QED
      BY <1>1, <2>9, <2>10 DEF BillInv
  <1>4. QED
    BY <1>2, <1>3

\* Every job of a day has a row of its own, of its own size, in that day's ledger.
LEMMA JobsHaveRows ==
  ASSUME IInv, BillInv, NEW s \in Schedules, NEW n \in Days, NEW h \in Nat
  PROVE  LET jobs == Cardinality({d \in JobsOf(s, n) : plan[d].policy.hours >= h})
             rows == Cardinality(RowsOfSize(ledger[s][n].rows, h))
         IN  jobs \in Nat /\ rows \in Nat /\ jobs <= rows
  <1> DEFINE rows == ledger[s][n].rows
             jobs == {d \in JobsOf(s, n) : plan[d].policy.hours >= h}
             f == [d \in jobs |-> CHOOSE i \in DOMAIN rows : rows[i] = Row(d)]
  <1>1. TypeOK /\ StartsAreReserved /\ rows \in Seq(Reservation) /\ JobsAreCharged
    BY SMTT(20) DEF IInv, TypeInv, TypeOK, Ledger, BillInv
  <1>2. ASSUME NEW d \in jobs
        PROVE  f[d] \in RowsOfSize(rows, h) /\ rows[f[d]] = Row(d)
    <2>1. d \in Holders /\ Current(d) = ledger[s][n]
      BY <1>1 DEF JobsOf, Holders, TypeOK, Current
    <2>2. \E i \in DOMAIN rows : rows[i] = Row(d)
      BY <1>1, <2>1 DEF JobsAreCharged
    <2>3. f[d] \in DOMAIN rows /\ rows[f[d]] = Row(d)
      BY <2>2
    <2>4. Row(d).hours >= h
      BY DEF Row
    <2>5. QED
      BY <2>3, <2>4 DEF RowsOfSize
  <1>3. ASSUME NEW d \in jobs, NEW e \in jobs, f[d] = f[e]
        PROVE  d = e
    <2>1. d \in Holders /\ e \in Holders /\ plan[d].day = plan[e].day
      BY <1>1 DEF JobsOf, Holders, TypeOK
    <2>2. req[d].task = req[e].task
      <3>1. Row(d) = Row(e)
        BY <1>2, <1>3
      <3>2. Row(d).task = req[d].task /\ Row(e).task = req[e].task
        BY DEF Row
      <3>3. QED
        BY <3>1, <3>2
    <2>3. QED
      BY <1>1, <2>1, <2>2 DEF StartsAreReserved
  <1>4. f \in [jobs -> RowsOfSize(rows, h)]
    BY <1>2
  <1>5. f \in Injection(jobs, RowsOfSize(rows, h))
    BY <1>3, <1>4 DEF Injection, IsInjective
  <1>6. IsFiniteSet(RowsOfSize(rows, h))
    <2>1. RowsOfSize(rows, h) \subseteq 1 .. Len(rows) /\ Len(rows) \in Nat
      BY <1>1 DEF RowsOfSize
    <2>2. QED
      BY <2>1, Interval, FS_Subset
  <1> HIDE DEF f, jobs
  <1>7. /\ Cardinality(jobs) \in Nat /\ Cardinality(RowsOfSize(rows, h)) \in Nat
        /\ Cardinality(jobs) <= Cardinality(RowsOfSize(rows, h))
    BY <1>5, <1>6, FS_Injection, FS_CardinalityType
  <1>8. QED
    BY <1>7 DEF jobs

\* The jobs of any size and more that a schedule starts in a day fit the largest
\* cap its policies allow, however requests, redeliveries, crashes, lost answers and
\* changes of the policy interleave (budget.rs:246-290, main.rs:471-563).
THEOREM DailyBillIsBounded == Spec => []DailyJobsFitTheCap
  <1>1. IInv /\ BillInv => DailyJobsFitTheCap
    <2> SUFFICES ASSUME IInv, BillInv, NEW s \in Schedules, NEW n \in Days,
                        NEW p \in ValidPolicies, NEW q \in ValidPolicies,
                        \A r \in ValidPolicies : r.cap <= q.cap
                 PROVE  p.hours * Cardinality({d \in JobsOf(s, n) :
                                                 plan[d].policy.hours >= p.hours}) <= q.cap
      BY DEF DailyJobsFitTheCap, ValidPolicies
    <2> DEFINE h == p.hours
               jobs == Cardinality({d \in JobsOf(s, n) : plan[d].policy.hours >= h})
               rows == Cardinality(RowsOfSize(ledger[s][n].rows, h))
    <2>1. h \in Nat /\ q.cap \in Nat
      BY PoliciesArePolicies DEF ValidPolicies, Policy
    <2>2. RowsAreCharged(h) /\ WithinCap(q.cap)
      BY <2>1 DEF BillInv
    <2>3. /\ ledger[s][n].reserved \in Nat
          /\ h * rows <= ledger[s][n].reserved /\ ledger[s][n].reserved <= q.cap
      BY <2>2 DEF RowsAreCharged, WithinCap, IInv, TypeInv, TypeOK, Ledger
    <2>4. jobs \in Nat /\ rows \in Nat /\ jobs <= rows
      BY <2>1, JobsHaveRows
    <2> HIDE DEF h, jobs, rows
    <2>5. \A g, a, b \in Nat : a <= b => g * a <= g * b /\ g * a \in Nat /\ g * b \in Nat
      OBVIOUS
    <2>6. h * jobs <= h * rows /\ h * jobs \in Nat /\ h * rows \in Nat
      BY <2>1, <2>4, <2>5
    <2>7. h * jobs <= q.cap
      BY <2>1, <2>3, <2>6
    <2>8. QED
      BY <2>7 DEF h, jobs
  <1>2. QED
    BY <1>1, BillInit, BillStep, Start, Step, PTL DEF Spec


-------------------------------------------------------------------------------
(* How long a request may take: the safety half of EveryRequestEnds.       *)

\* The awaits that the request d has left at most: three for each compare-and-set
\* attempt, one for jobs.run, and two before the first attempt.
StepsLeft(d) ==
    LET attempts == 3 * (CasAttempts - tries[d]) IN
    CASE pc[d] = "idle"     -> attempts + 4
      [] pc[d] = "check"    -> attempts + 3
      [] pc[d] = "reserve"  -> attempts + 2
      [] pc[d] = "metadata" -> attempts + 1
      [] pc[d] = "media"    -> attempts
      [] pc[d] = "write"    -> attempts - 1
      [] pc[d] = "run"      -> 1
      [] OTHER              -> 0

\* A request that may still write has an attempt left.
AttemptInv ==
    \A d \in Deliveries :
        pc[d] \in {"idle", "check", "reserve", "metadata", "media", "write"} =>
            tries[d] < CasAttempts

\* No step takes a request away from its answer, and each of its own brings it
\* nearer.
RunsDown ==
    \A d \in Deliveries :
        /\ StepsLeft(d)' <= StepsLeft(d)
        /\ Handle(d) => StepsLeft(d)' < StepsLeft(d)

\* The phases a request may go to from its own, with the attempts it has used.
Moves(d) ==
    LET own == \/ pc[d] = "check" /\ pc'[d] \in {"run", "reserve"}
               \/ pc[d] = "reserve" /\ pc'[d] = "metadata"
               \/ pc[d] = "metadata" /\ pc'[d] \in {"media", "write"}
               \/ pc[d] = "media" /\ pc'[d] = "write"
               \/ pc[d] = "write" /\ pc'[d] = "run"
               \/ Active(d) /\ pc'[d] \in {"done", "orphaned"}
    IN
    \/ own /\ tries'[d] = tries[d]
    \/ /\ pc[d] = "write" /\ tries'[d] = tries[d] + 1
       /\ \/ pc'[d] = "metadata" /\ tries'[d] < CasAttempts
          \/ pc'[d] = "done"

LEMMA HandlerMoves ==
  ASSUME TypeOK, NEW d \in Deliveries, Handle(d)
  PROVE  /\ Moves(d)
         /\ \A e \in Deliveries \ {d} : pc'[e] = pc[e] /\ tries'[e] = tries[e]
  <1> USE DEF TypeOK, Moves, Active, Phase
  <1>1. CASE Reject(d) \/ CatalogUnavailable(d) \/ AdmitUngoverned(d)
             \/ PolicyUnavailable(d) \/ LoadPolicy(d)
    BY <1>1 DEF Reject, CatalogUnavailable, AdmitUngoverned, PolicyUnavailable,
                LoadPolicy, Acknowledge, Refuse
  <1>2. CASE BeginReserve(d) \/ ReadMetadata(d) \/ ReadMedia(d) \/ ReserveFails(d)
    BY <1>2 DEF BeginReserve, ReadMetadata, ReadMedia, ReserveFails, Decide, Acknowledge
  <1>3. CASE WriteAccepted(d) \/ WriteUnanswered(d)
    BY <1>3 DEF WriteAccepted, WriteUnanswered
  <1>4. CASE WriteRefused(d)
    <2>1. tries[d] \in 0 .. CasAttempts /\ tries'[d] = tries[d] + 1
      BY <1>4 DEF WriteRefused
    <2>2. QED
      BY <1>4, <2>1 DEF WriteRefused, Acknowledge
  <1>5. CASE RunAccepted(d) \/ RunFails(d)
    BY <1>5 DEF RunAccepted, RunFails, Acknowledge, Refuse
  <1>6. QED
    BY <1>1, <1>2, <1>3, <1>4, <1>5 DEF Handle

LEMMA MovesRunDown ==
  ASSUME TypeOK, AttemptInv, NEW d \in Deliveries, Moves(d)
  PROVE  StepsLeft(d)' < StepsLeft(d)
  <1>1. tries[d] \in Nat /\ CasAttempts \in Nat /\ CasAttempts >= 1
    BY BoundAssumption DEF TypeOK
  <1> USE DEF StepsLeft, Moves, Active, AttemptInv
  <1>2. CASE pc[d] = "check" \/ pc[d] = "reserve" \/ pc[d] = "metadata" \/ pc[d] = "media"
    BY <1>1, <1>2
  <1>3. CASE pc[d] = "write"
    BY <1>1, <1>3
  <1>4. CASE pc[d] = "run"
    BY <1>1, <1>4
  <1>5. pc[d] \in Phase
    BY DEF TypeOK
  <1>6. QED
    BY <1>2, <1>3, <1>4, <1>5 DEF Phase

LEMMA AttemptsStay ==
  ASSUME TypeOK, AttemptInv, [Next]_vars
  PROVE  AttemptInv' /\ RunsDown
  <1>1. \A d \in Deliveries : tries[d] \in Nat /\ CasAttempts \in Nat /\ CasAttempts >= 1
    BY BoundAssumption DEF TypeOK
  <1>2. ASSUME NEW e \in Deliveries, pc'[e] = pc[e], tries'[e] = tries[e]
        PROVE  StepsLeft(e)' <= StepsLeft(e)
    <2>1. StepsLeft(e)' = StepsLeft(e) /\ StepsLeft(e) \in Int
      BY <1>1, <1>2 DEF StepsLeft
    <2>2. QED
      BY <2>1
  <1>3. ASSUME NEW d \in Deliveries, Handle(d)
        PROVE  /\ AttemptInv'
               /\ \A e \in Deliveries : StepsLeft(e)' <= StepsLeft(e)
    <2>1. /\ Moves(d)
          /\ \A e \in Deliveries \ {d} : pc'[e] = pc[e] /\ tries'[e] = tries[e]
      BY <1>3, HandlerMoves
    <2>2. StepsLeft(d)' < StepsLeft(d)
      BY <2>1, MovesRunDown
    <2>3. StepsLeft(d) \in Int /\ StepsLeft(d)' \in Int
      BY <1>1, <2>1 DEF StepsLeft, Moves
    <2>4. \A e \in Deliveries : StepsLeft(e)' <= StepsLeft(e)
      BY <1>2, <2>1, <2>2, <2>3
    <2>5. AttemptInv'
      BY <2>1 DEF AttemptInv, Moves, Active
    <2>6. QED
      BY <2>4, <2>5
  <1>4. ASSUME NEW d \in Deliveries, Environment(d)
        PROVE  /\ AttemptInv'
               /\ \A e \in Deliveries : StepsLeft(e)' <= StepsLeft(e)
    <2>1. /\ UNCHANGED tries
          /\ \A e \in Deliveries \ {d} : pc'[e] = pc[e]
          /\ \/ pc'[d] = pc[d]
             \/ pc[d] = "idle" /\ pc'[d] = "check"
             \/ pc'[d] \in {"orphaned", "done"}
      BY <1>4 DEF Environment, Deliver, Deadline, Crash, OrphanApplied, TypeOK
    <2>2. StepsLeft(d)' <= StepsLeft(d)
      BY <1>1, <2>1 DEF StepsLeft, AttemptInv
    <2>3. \A e \in Deliveries : StepsLeft(e)' <= StepsLeft(e)
      BY <1>2, <2>1, <2>2
    <2>4. AttemptInv'
      BY <2>1 DEF AttemptInv
    <2>5. QED
      BY <2>3, <2>4
  <1>5. ASSUME UNCHANGED <<pc, tries>>
        PROVE  /\ AttemptInv'
               /\ \A e \in Deliveries : StepsLeft(e)' <= StepsLeft(e)
    BY <1>2, <1>5 DEF AttemptInv
  <1>6. \/ UNCHANGED <<pc, tries>>
        \/ \E d \in Deliveries : Handle(d) \/ Environment(d)
    BY DEF Next, NewDay, Publish, vars
  <1>7. /\ AttemptInv'
        /\ \A e \in Deliveries : StepsLeft(e)' <= StepsLeft(e)
    BY <1>3, <1>4, <1>5, <1>6
  <1>8. ASSUME NEW d \in Deliveries, Handle(d)
        PROVE  StepsLeft(d)' < StepsLeft(d)
    BY <1>8, HandlerMoves, MovesRunDown
  <1>9. QED
    BY <1>7, <1>8 DEF RunsDown

\* A delivered request is answered after at most three awaits for each
\* compare-and-set attempt and three more, whatever other requests, the clock,
\* the operator and Cloud Tasks do in between (main.rs:231-565, budget.rs:248-292).
THEOREM RequestsRunDown ==
    Spec => /\ []\A d \in Deliveries : StepsLeft(d) \in 0 .. 3 * CasAttempts + 4
            /\ [][RunsDown]_vars
  <1>1. Init => AttemptInv
    BY BoundAssumption DEF Init, AttemptInv
  <1>2. TypeOK /\ AttemptInv /\ [Next]_vars => AttemptInv' /\ [RunsDown]_vars
    BY AttemptsStay
  <1>3. TypeOK /\ AttemptInv =>
          \A d \in Deliveries : StepsLeft(d) \in 0 .. 3 * CasAttempts + 4
    <2> SUFFICES ASSUME TypeOK, AttemptInv, NEW d \in Deliveries
                 PROVE  StepsLeft(d) \in 0 .. 3 * CasAttempts + 4
      OBVIOUS
    <2>1. tries[d] \in Nat /\ CasAttempts \in Nat /\ tries[d] <= CasAttempts
      BY BoundAssumption DEF TypeOK
    <2>2. QED
      BY <2>1 DEF StepsLeft, AttemptInv
  <1>4. QED
    BY <1>1, <1>2, <1>3, TypeCorrect, PTL DEF Spec
===============================================================================
