-------------------------- MODULE ProofJobsProofs --------------------------
(***************************************************************************)
(* Proofs about ProofJobs, for every number of jobs, agendas, visits,      *)
(* requests and faults.                                                    *)
(***************************************************************************)
EXTENDS ProofJobs, TLAPS

Known == {"running", "canceling"} \cup Result

Pending == {"submitting", "cancel_requested", "completion_unknown"}

\* What the row of a job says about the provider.
JobInv(j) ==
    /\ posts[j] <= 1 /\ cancels[j] <= 1
    /\ posts[j] = 0 <=> batch[j] = "none"
    /\ row[j].status \in {"absent", "queued"} => batch[j] = "none"
    /\ row[j].status = "absent" => ~row[j].active
    /\ row[j].batch \in {None, j}
    /\ row[j].batch = j => batch[j] \in Known
    /\ ~row[j].cancelSent => cancels[j] = 0
    /\ ~row[j].active /\ batch[j] \notin {"none", "refused"} =>
          row[j].batch = j /\ batch[j] \in Result
    /\ row[j].status = "candidate_ready" => batch[j] = "candidate_ready"
    /\ row[j].status = "cancelled" => batch[j] \in {"none", "cancelled"}

\* What a visit may rely on, also after it has lost its lease.
VisitInv(v) ==
    LET j == visit[v].job IN
    /\ visit[v].at # "idle" => row[j].status # "absent"
    /\ visit[v].at = "reserve" /\ Holds(v) => row[j].status = "queued"
    /\ visit[v].at = "post" =>
          batch[j] = "none" /\ row[j].active /\ row[j].status \in Pending
    /\ visit[v].at = "posted" => batch[j] # "none"
    /\ visit[v].at = "record" => batch[j] \in Known
    /\ visit[v].at = "refused" => batch[j] = "refused"
    /\ visit[v].at = "unknown" => row[j].status # "queued"
    /\ visit[v].at \in {"cancel", "send", "read", "observe", "close"} => row[j].batch = j
    /\ visit[v].at = "send" => row[j].cancelSent /\ cancels[j] = 0
    /\ visit[v].seen \in Result => batch[j] = visit[v].seen
    /\ visit[v].at = "close" => visit[v].seen \in Result

\* One visit at a time is about to post a job, and one to post its cancellation.
OneSender ==
    \A v, w \in Visits :
        v # w /\ visit[v].job = visit[w].job =>
            /\ ~(visit[v].at = "post" /\ visit[w].at = "post")
            /\ ~(visit[v].at = "send" /\ visit[w].at = "send")

\* proof_one_active_agenda.
OneActive ==
    \A j, k \in Jobs :
        j # k /\ AgendaOf[j] = AgendaOf[k] => ~(row[j].active /\ row[k].active)

IInv ==
    /\ TypeOK
    /\ \A j \in Jobs : JobInv(j)
    /\ \A v \in Visits : VisitInv(v)
    /\ OneSender
    /\ OneActive

\* A statement of the visit v, done or not, after which it is at "at".
Statement(v, r, at) ==
    /\ row' = r
    /\ Goto(v, at)
    /\ faults' \in 0..Faults
    /\ UNCHANGED <<provider, operator>>

-------------------------------------------------------------------------------
(* Types.                                                                  *)

LEMMA ConstantTypes ==
  SomeJob \in Jobs /\ NoRow \in Row /\ Idle \in Visit /\ NoRequest \in Operator
  BY ProofAssumption
  DEF SomeJob, NoRow, Idle, NoRequest, Row, Status, Visit, Phase, Batch, Operator

LEMMA GotoTypes ==
  ASSUME TypeOK, NEW v \in Visits, NEW at \in Phase, Goto(v, at)
  PROVE  visit' \in [Visits -> Visit]
  <1>1. visit \in [Visits -> Visit] /\ visit[v] \in Visit
    BY DEF TypeOK
  <1>2. [visit[v] EXCEPT !.at = at,
                         !.seen = IF at = "close" THEN visit[v].seen ELSE "none"] \in Visit
    BY <1>1 DEF Visit, Batch
  <1>3. QED
    BY <1>1, <1>2 DEF Goto

LEMMA RowTypes ==
  ASSUME TypeOK, NEW j \in Jobs, NEW r \in Row
  PROVE  [row EXCEPT ![j] = r] \in [Jobs -> Row]
  BY DEF TypeOK

LEMMA FieldTypes ==
  ASSUME TypeOK, NEW j \in Jobs, NEW s \in Status
  PROVE  /\ [row EXCEPT ![j].status = s] \in [Jobs -> Row]
         /\ \A a \in BOOLEAN :
               [row EXCEPT ![j] = [@ EXCEPT !.status = s, !.active = a]] \in [Jobs -> Row]
         /\ [row EXCEPT ![j] = [@ EXCEPT !.status = s, !.batch = j]] \in [Jobs -> Row]
         /\ [row EXCEPT ![j] = [@ EXCEPT !.batch = j, !.status = s, !.active = FALSE]]
               \in [Jobs -> Row]
         /\ [row EXCEPT ![j].cancelSent = TRUE] \in [Jobs -> Row]
         /\ [row EXCEPT ![j].lapsed = TRUE] \in [Jobs -> Row]
         /\ \A t \in Visits \cup {None} :
               [row EXCEPT ![j] = [@ EXCEPT !.token = t, !.lapsed = FALSE]] \in [Jobs -> Row]
  <1>1. row \in [Jobs -> Row] /\ row[j] \in Row
    BY DEF TypeOK
  <1>2. /\ [row[j] EXCEPT !.status = s] \in Row
        /\ \A a \in BOOLEAN : [row[j] EXCEPT !.status = s, !.active = a] \in Row
        /\ [row[j] EXCEPT !.status = s, !.batch = j] \in Row
        /\ [row[j] EXCEPT !.batch = j, !.status = s, !.active = FALSE] \in Row
        /\ [row[j] EXCEPT !.cancelSent = TRUE] \in Row
        /\ [row[j] EXCEPT !.lapsed = TRUE] \in Row
        /\ \A t \in Visits \cup {None} : [row[j] EXCEPT !.token = t, !.lapsed = FALSE] \in Row
    BY <1>1 DEF Row
  <1>3. QED
    BY <1>1, <1>2

LEMMA ReleaseInv ==
  ASSUME TypeOK, NEW v \in Visits, Goto(v, "release"), row'[visit[v].job].status # "absent"
  PROVE  VisitInv(v)'
  <1>1. visit'[v] = [visit[v] EXCEPT !.at = "release", !.seen = "none"] /\ visit[v] \in Visit
    BY DEF TypeOK, Goto
  <1>2. QED
    BY <1>1 DEF VisitInv, Result

LEMMA InitInv == Init => IInv
  <1>0. SUFFICES ASSUME Init PROVE IInv
    OBVIOUS
  <1>1. TypeOK
    BY <1>0, ConstantTypes, ProofAssumption DEF Init, TypeOK, Batch
  <1>2. \A j \in Jobs : JobInv(j)
    <2>1. ASSUME NEW j \in Jobs PROVE JobInv(j)
      <3>1. row[j] = NoRow /\ batch[j] = "none" /\ posts[j] = 0 /\ cancels[j] = 0
        BY <1>0 DEF Init
      <3>2. QED
        BY <3>1, ProofAssumption DEF JobInv, NoRow
    <2>2. QED
      BY <2>1
  <1>3. \A v \in Visits : VisitInv(v)
    BY <1>0, ConstantTypes DEF Init, VisitInv, Idle
  <1>4. OneSender /\ OneActive
    BY <1>0 DEF Init, OneSender, OneActive, Idle, NoRow
  <1>5. QED
    BY <1>1, <1>2, <1>3, <1>4 DEF IInv

-------------------------------------------------------------------------------
(* Every statement and every request keeps the invariant.                  *)

LEMMA EnqueueStep ==
  ASSUME IInv, NEW j \in Jobs,
         Enqueue(j)
  PROVE  IInv'
  <1>1. TypeOK'
    <2>1. visit' \in [Visits -> Visit]
      BY DEF IInv, TypeOK, Enqueue
    <2>2. row' \in [Jobs -> Row]
      BY FieldTypes DEF IInv, Enqueue, Status
    <2>3. posts' \in [Jobs -> Nat] /\ cancels' \in [Jobs -> Nat] /\ batch' \in [Jobs -> Batch]
      BY DEF IInv, TypeOK, Enqueue, provider
    <2>4. operator' \in [Operators -> Operator] /\ faults' \in 0..Faults
      BY DEF IInv, TypeOK, Enqueue
    <2>5. QED
      BY <2>1, <2>2, <2>3, <2>4 DEF TypeOK
  <1>2. ASSUME NEW k \in Jobs
        PROVE  JobInv(k)'
    BY DEF IInv, JobInv, Enqueue, provider
  <1>3. ASSUME NEW w \in Visits
        PROVE  VisitInv(w)'
    BY DEF IInv, VisitInv, Enqueue, provider, Holds
  <1>4. OneSender'
    BY DEF IInv, OneSender, Enqueue
  <1>5. OneActive'
    BY DEF IInv, OneActive, Enqueue
  <1>6. QED
    BY <1>1, <1>2, <1>3, <1>4, <1>5 DEF IInv

LEMMA CancelStep ==
  ASSUME IInv, NEW o \in Operators,
         Cancel(o)
  PROVE  IInv'
  <1>1. TypeOK'
    <2>1. visit' \in [Visits -> Visit]
      BY DEF IInv, TypeOK, Cancel
    <2>2. row' \in [Jobs -> Row]
      <3>1. operator[o].job \in Jobs
        BY DEF IInv, TypeOK, Operator
      <3>2. "cancelled" \in Status /\ "cancel_requested" \in Status
        BY DEF Status, Result
      <3>3. QED
        BY <3>1, <3>2, FieldTypes DEF IInv, TypeOK, Cancel, Cancelled
    <2>3. posts' \in [Jobs -> Nat] /\ cancels' \in [Jobs -> Nat] /\ batch' \in [Jobs -> Batch]
      BY DEF IInv, TypeOK, Cancel, provider
    <2>4. operator' \in [Operators -> Operator] /\ faults' \in 0..Faults
      BY ConstantTypes DEF IInv, TypeOK, Cancel
    <2>5. QED
      BY <2>1, <2>2, <2>3, <2>4 DEF TypeOK
  <1>2. ASSUME NEW k \in Jobs
        PROVE  JobInv(k)'
    BY DEF IInv, TypeOK, JobInv, Cancel, Cancelled, provider, Visit
  <1>3. ASSUME NEW w \in Visits
        PROVE  VisitInv(w)'
    <2>1. operator[o].job \in Jobs /\ visit[w].job \in Jobs /\ visit' = visit
      BY DEF IInv, TypeOK, Operator, Visit, Cancel
    <2>2. CASE row' = row
      BY <2>1, <2>2 DEF IInv, VisitInv, Cancel, provider, Holds
    <2>3. CASE row' # row
      <3>1. PICK j \in Jobs : j = operator[o].job
        BY <2>1
      <3>2. PICK r \in Row : r = row[j]
        BY <3>1 DEF IInv, TypeOK
      <3>3. row \in [Jobs -> Row] /\ visit[w] \in Visit /\ JobInv(j) /\ VisitInv(w)
        BY DEF IInv, TypeOK
      <3>4. CASE r.status = "queued"
        <4>1. row' = [row EXCEPT ![j] = [@ EXCEPT !.status = "cancelled", !.active = FALSE]]
          BY <2>3, <3>1, <3>2, <3>4 DEF Cancel, Cancelled
        <4>2. row'[j] = [r EXCEPT !.status = "cancelled", !.active = FALSE]
          BY <3>2, <3>3, <4>1
        <4>3. /\ row'[j].status = "cancelled" /\ ~row'[j].active
              /\ \A k \in Jobs : k # j => row'[k] = row[k]
          BY <3>3, <4>1, <4>2
        <4>4. batch[j] = "none" /\ r.batch # j
          BY <3>1, <3>2, <3>3, <3>4 DEF JobInv, Known, Result
        <4>5. CASE visit[w].job # j
          BY <2>1, <3>3, <4>3, <4>5 DEF VisitInv, Cancel, provider, Holds
        <4>6. CASE visit[w].job = j
          <5>1. /\ visit[w].at \notin {"post", "cancel", "send", "read", "observe", "close"}
                /\ visit[w].seen \notin Result
            BY <3>2, <3>3, <3>4, <4>4, <4>6 DEF VisitInv, Pending, Result
          <5>2. QED
            BY <2>1, <3>3, <4>3, <4>6, <5>1 DEF VisitInv, Cancel, provider, Holds
        <4>7. QED
          BY <4>5, <4>6
      <3>5. CASE r.status # "queued"
        <4>1. row' = [row EXCEPT ![j].status = "cancel_requested"]
          BY <2>3, <3>1, <3>2, <3>5 DEF Cancel, Cancelled
        <4>2. row'[j] = [r EXCEPT !.status = "cancel_requested"]
          BY <3>2, <3>3, <4>1
        <4>3. /\ row'[j].status = "cancel_requested" /\ row'[j].token = r.token
              /\ row'[j].active = r.active /\ row'[j].batch = r.batch
              /\ row'[j].cancelSent = r.cancelSent
              /\ \A k \in Jobs : k # j => row'[k] = row[k]
          BY <3>3, <4>1, <4>2 DEF Row
        <4>4. QED
          BY <2>1, <3>2, <3>3, <3>5, <4>3 DEF VisitInv, Cancel, provider, Holds, Pending
      <3>6. QED
        BY <3>4, <3>5
    <2>4. QED
      BY <2>2, <2>3
  <1>4. OneSender'
    BY DEF IInv, OneSender, Cancel
  <1>5. OneActive'
    BY DEF IInv, OneActive, Cancel, Cancelled
  <1>6. QED
    BY <1>1, <1>2, <1>3, <1>4, <1>5 DEF IInv

LEMMA RecoverStep ==
  ASSUME IInv, NEW o \in Operators,
         Recover(o)
  PROVE  IInv'
  <1>1. TypeOK'
    <2>1. visit' \in [Visits -> Visit]
      BY DEF IInv, TypeOK, Recover
    <2>2. row' \in [Jobs -> Row]
      <3>1. operator[o].job \in Jobs /\ operator[o].batch = operator[o].job
        BY DEF IInv, TypeOK, Operator, Recover, Matches
      <3>2. batch[operator[o].job] \in Status
        BY <3>1 DEF Recover, Matches, Status
      <3>3. QED
        BY <3>1, <3>2, FieldTypes DEF IInv, TypeOK, Recover, Recovered
    <2>3. posts' \in [Jobs -> Nat] /\ cancels' \in [Jobs -> Nat] /\ batch' \in [Jobs -> Batch]
      BY DEF IInv, TypeOK, Recover, provider
    <2>4. operator' \in [Operators -> Operator] /\ faults' \in 0..Faults
      BY ConstantTypes DEF IInv, TypeOK, Recover
    <2>5. QED
      BY <2>1, <2>2, <2>3, <2>4 DEF TypeOK
  <1>2. ASSUME NEW k \in Jobs
        PROVE  JobInv(k)'
    BY DEF IInv, TypeOK, JobInv, Recover, Recovered, Matches, provider, Known, Result
  <1>3. ASSUME NEW w \in Visits
        PROVE  VisitInv(w)'
    <2>1. operator[o].job \in Jobs /\ visit[w].job \in Jobs /\ visit' = visit
      BY DEF IInv, TypeOK, Operator, Visit, Recover
    <2>2. CASE row' = row
      BY <2>1, <2>2 DEF IInv, VisitInv, Recover, provider, Holds
    <2>3. CASE row' # row
      <3>1. LET j == operator[o].job IN
            /\ Unconfirmed(j) /\ batch[j] \in Result
            /\ row' = [row EXCEPT ![j] = [@ EXCEPT !.batch = j,
                                                   !.status = batch[j],
                                                   !.active = FALSE]]
        BY <2>3 DEF Recover, Recovered, Matches
      <3>2. QED
        <4>1. CASE visit[w].job = operator[o].job
          <5>1. LET j == visit[w].job IN
                /\ row[j].status = "completion_unknown" /\ row[j].batch = None
                /\ row'[j].active = FALSE /\ row'[j].status \in Result /\ row'[j].batch = j
                /\ row'[j].cancelSent = row[j].cancelSent
                /\ batch[j] \in Result /\ batch' = batch /\ cancels' = cancels
            BY <2>1, <3>1, <4>1 DEF IInv, TypeOK, Recover, provider, Unconfirmed
          <5>2. VisitInv(w)
            BY DEF IInv
          <5>3. QED
            BY <2>1, <5>1, <5>2 DEF VisitInv, Holds, Result
        <4>2. CASE visit[w].job # operator[o].job
          <5>1. /\ row'[visit[w].job] = row[visit[w].job]
                /\ batch' = batch /\ cancels' = cancels
            BY <2>1, <3>1, <4>2 DEF Recover, provider
          <5>2. QED
            BY <2>1, <5>1 DEF IInv, VisitInv, Holds
        <4>3. QED
          BY <4>1, <4>2
    <2>4. QED
      BY <2>2, <2>3
  <1>4. OneSender'
    BY DEF IInv, OneSender, Recover
  <1>5. OneActive'
    BY DEF IInv, OneActive, Recover, Recovered
  <1>6. QED
    BY <1>1, <1>2, <1>3, <1>4, <1>5 DEF IInv

LEMMA LapseStep ==
  ASSUME IInv, NEW j \in Jobs,
         Lapse(j)
  PROVE  IInv'
  <1>1. TypeOK'
    <2>1. visit' \in [Visits -> Visit]
      BY DEF IInv, TypeOK, Lapse
    <2>2. row' \in [Jobs -> Row]
      BY FieldTypes DEF IInv, TypeOK, Lapse, Visit, Status
    <2>3. posts' \in [Jobs -> Nat] /\ cancels' \in [Jobs -> Nat] /\ batch' \in [Jobs -> Batch]
      BY DEF IInv, TypeOK, Lapse, provider
    <2>4. operator' \in [Operators -> Operator] /\ faults' \in 0..Faults
      BY ProofAssumption DEF IInv, TypeOK, Lapse, Fault
    <2>5. QED
      BY <2>1, <2>2, <2>3, <2>4 DEF TypeOK
  <1>2. ASSUME NEW k \in Jobs
        PROVE  JobInv(k)'
    BY DEF IInv, JobInv, Lapse, provider
  <1>3. ASSUME NEW w \in Visits
        PROVE  VisitInv(w)'
    BY DEF IInv, VisitInv, Lapse, provider, Holds
  <1>4. OneSender'
    BY DEF IInv, OneSender, Lapse
  <1>5. OneActive'
    BY DEF IInv, OneActive, Lapse
  <1>6. QED
    BY <1>1, <1>2, <1>3, <1>4, <1>5 DEF IInv

LEMMA ProvideStep ==
  ASSUME IInv, NEW j \in Jobs,
         Provide(j)
  PROVE  IInv'
  <1>1. TypeOK'
    <2>1. visit' \in [Visits -> Visit]
      BY DEF IInv, TypeOK, Provide
    <2>2. row' \in [Jobs -> Row]
      BY DEF IInv, TypeOK, Provide
    <2>3. posts' \in [Jobs -> Nat] /\ cancels' \in [Jobs -> Nat] /\ batch' \in [Jobs -> Batch]
      BY DEF IInv, TypeOK, Provide, Batch
    <2>4. operator' \in [Operators -> Operator] /\ faults' \in 0..Faults
      BY DEF IInv, TypeOK, Provide
    <2>5. QED
      BY <2>1, <2>2, <2>3, <2>4 DEF TypeOK
  <1>2. ASSUME NEW k \in Jobs
        PROVE  JobInv(k)'
    BY DEF IInv, TypeOK, JobInv, Provide, Known, Result
  <1>3. ASSUME NEW w \in Visits
        PROVE  VisitInv(w)'
    BY DEF IInv, TypeOK, VisitInv, Provide, Holds, Known, Visit, Result
  <1>4. OneSender'
    BY DEF IInv, OneSender, Provide
  <1>5. OneActive'
    BY DEF IInv, OneActive, Provide
  <1>6. QED
    BY <1>1, <1>2, <1>3, <1>4, <1>5 DEF IInv

LEMMA LeaseStep ==
  ASSUME IInv, NEW v \in Visits, NEW j \in Jobs,
         Lease(v, j)
  PROVE  IInv'
  <1>1. TypeOK'
    <2>1. visit' \in [Visits -> Visit]
      BY DEF IInv, TypeOK, Lease, FirstPhase, Visit, Phase, Batch
    <2>2. row' \in [Jobs -> Row]
      BY FieldTypes DEF IInv, TypeOK, Lease, Visit, Status
    <2>3. posts' \in [Jobs -> Nat] /\ cancels' \in [Jobs -> Nat] /\ batch' \in [Jobs -> Batch]
      BY DEF IInv, TypeOK, Lease, provider
    <2>4. operator' \in [Operators -> Operator] /\ faults' \in 0..Faults
      BY DEF IInv, TypeOK, Lease
    <2>5. QED
      BY <2>1, <2>2, <2>3, <2>4 DEF TypeOK
  <1>2. ASSUME NEW k \in Jobs
        PROVE  JobInv(k)'
    BY DEF IInv, JobInv, Lease, provider
  <1>3. ASSUME NEW w \in Visits
        PROVE  VisitInv(w)'
    <2>1. CASE w = v
      BY <2>1 DEF IInv, JobInv, VisitInv, Lease, FirstPhase, provider, Result
    <2>2. CASE w # v
      BY <2>2 DEF IInv, VisitInv, Lease, provider, Holds
    <2>3. QED
      BY <2>1, <2>2
  <1>4. OneSender'
    BY DEF IInv, OneSender, Lease, FirstPhase
  <1>5. OneActive'
    BY DEF IInv, OneActive, Lease
  <1>6. QED
    BY <1>1, <1>2, <1>3, <1>4, <1>5 DEF IInv

LEMMA LeaveStep ==
  ASSUME IInv, NEW v \in Visits, NEW f \in 0..Faults,
         row' = row, visit' = [visit EXCEPT ![v] = Idle], faults' = f,
         UNCHANGED <<provider, operator>>
  PROVE  IInv'
  <1>1. TypeOK'
    <2>1. visit' \in [Visits -> Visit]
      BY ConstantTypes DEF IInv, TypeOK
    <2>2. row' \in [Jobs -> Row]
      BY DEF IInv, TypeOK
    <2>3. posts' \in [Jobs -> Nat] /\ cancels' \in [Jobs -> Nat] /\ batch' \in [Jobs -> Batch]
      BY DEF IInv, TypeOK, provider
    <2>4. operator' \in [Operators -> Operator] /\ faults' \in 0..Faults
      BY DEF IInv, TypeOK
    <2>5. QED
      BY <2>1, <2>2, <2>3, <2>4 DEF TypeOK
  <1>2. ASSUME NEW k \in Jobs
        PROVE  JobInv(k)'
    BY DEF IInv, JobInv, provider
  <1>3. ASSUME NEW w \in Visits
        PROVE  VisitInv(w)'
    <2>1. CASE w = v
      BY <2>1 DEF IInv, VisitInv, Idle, provider, Holds, Result
    <2>2. CASE w # v
      BY <2>2 DEF IInv, VisitInv, provider, Holds
    <2>3. QED
      BY <2>1, <2>2
  <1>4. OneSender'
    BY DEF IInv, OneSender, Idle
  <1>5. OneActive'
    BY DEF IInv, OneActive
  <1>6. QED
    BY <1>1, <1>2, <1>3, <1>4, <1>5 DEF IInv

LEMMA NothingStep ==
  ASSUME IInv, NEW v \in Visits,
         visit[v].at # "idle", Statement(v, row, "release")
  PROVE  IInv'
  <1>1. TypeOK'
    <2>1. visit' \in [Visits -> Visit]
      BY GotoTypes DEF IInv, TypeOK, Statement, provider, Visit, Phase, Batch
    <2>2. row' \in [Jobs -> Row]
      BY DEF IInv, TypeOK, Statement
    <2>3. posts' \in [Jobs -> Nat] /\ cancels' \in [Jobs -> Nat] /\ batch' \in [Jobs -> Batch]
      BY DEF IInv, TypeOK, Statement, provider
    <2>4. operator' \in [Operators -> Operator] /\ faults' \in 0..Faults
      BY DEF IInv, TypeOK, Statement
    <2>5. QED
      BY <2>1, <2>2, <2>3, <2>4 DEF TypeOK
  <1>2. ASSUME NEW k \in Jobs
        PROVE  JobInv(k)'
    BY DEF IInv, JobInv, Statement, provider
  <1>3. ASSUME NEW w \in Visits
        PROVE  VisitInv(w)'
    <2>1. CASE w = v
      <3>1. row'[visit[v].job].status # "absent"
        BY DEF IInv, VisitInv, Statement
      <3>2. QED
        BY <2>1, <3>1, ReleaseInv DEF IInv, Statement
    <2>2. CASE w # v
      BY <2>2 DEF IInv, VisitInv, Statement, Goto, provider, Holds
    <2>3. QED
      BY <2>1, <2>2
  <1>4. OneSender'
    BY DEF IInv, OneSender, Statement, Goto
  <1>5. OneActive'
    BY DEF IInv, OneActive, Statement
  <1>6. QED
    BY <1>1, <1>2, <1>3, <1>4, <1>5 DEF IInv

LEMMA ReservedStep ==
  ASSUME IInv, NEW v \in Visits, NEW at \in {"post", "release"},
         visit[v].at = "reserve", Statement(v, Reserved(v), at), at = "post" => Reservable(v)
  PROVE  IInv'
  <1>1. TypeOK'
    <2>1. visit' \in [Visits -> Visit]
      BY GotoTypes DEF IInv, TypeOK, Statement, provider, Visit, Phase, Batch
    <2>2. row' \in [Jobs -> Row]
      BY FieldTypes DEF IInv, TypeOK, Statement, Reserved, Visit, Status
    <2>3. posts' \in [Jobs -> Nat] /\ cancels' \in [Jobs -> Nat] /\ batch' \in [Jobs -> Batch]
      BY DEF IInv, TypeOK, Statement, provider
    <2>4. operator' \in [Operators -> Operator] /\ faults' \in 0..Faults
      BY DEF IInv, TypeOK, Statement
    <2>5. QED
      BY <2>1, <2>2, <2>3, <2>4 DEF TypeOK
  <1>2. ASSUME NEW k \in Jobs
        PROVE  JobInv(k)'
    BY DEF IInv, JobInv, Statement, Reserved, provider
  <1>3. ASSUME NEW w \in Visits
        PROVE  VisitInv(w)'
    <2>1. CASE w = v
      BY <2>1
      DEF IInv, TypeOK, JobInv, VisitInv, Statement, Goto, Reserved, Reservable, provider,
          Holds, Pending, Visit, Result
    <2>2. CASE w # v
      <3>1. visit'[w] = visit[w] /\ UNCHANGED <<batch, posts, cancels>>
        BY <2>2 DEF IInv, TypeOK, Statement, Goto, provider
      <3>2. visit[w].job \in Jobs /\ VisitInv(w)
        BY DEF IInv, TypeOK, Visit
      <3>3. \A k \in Jobs :
               \/ row'[k] = row[k]
               \/ /\ row[k].status = "queued" /\ row'[k].status = "submitting"
                  /\ row'[k].active = row[k].active /\ row'[k].token = row[k].token
                  /\ row'[k].batch = row[k].batch
                  /\ row'[k].cancelSent = row[k].cancelSent
                  /\ row[k].token = v
        BY DEF IInv, TypeOK, Statement, Reserved, Reservable, Holds, Row, Visit
      <3>4. QED
        BY <2>2, <3>1, <3>2, <3>3 DEF VisitInv, Holds, Pending
    <2>3. QED
      BY <2>1, <2>2
  <1>4. OneSender'
    BY DEF IInv, VisitInv, OneSender, Statement, Goto, Reservable, Pending
  <1>5. OneActive'
    BY DEF IInv, OneActive, Statement, Reserved
  <1>6. QED
    BY <1>1, <1>2, <1>3, <1>4, <1>5 DEF IInv

LEMMA ClosedStep ==
  ASSUME IInv, NEW v \in Visits, NEW status \in Result,
         visit[v].at \in {"reserve", "refused", "close"},
         status # "failed" => visit[v].at = "close" /\ visit[v].seen = status,
         Statement(v, Closed(v, status), "release")
  PROVE  IInv'
  <1>1. TypeOK'
    <2>1. visit' \in [Visits -> Visit]
      BY GotoTypes DEF IInv, TypeOK, Statement, provider, Visit, Phase, Batch
    <2>2. row' \in [Jobs -> Row]
      BY FieldTypes DEF IInv, TypeOK, Statement, Closed, Visit, Status, Result
    <2>3. posts' \in [Jobs -> Nat] /\ cancels' \in [Jobs -> Nat] /\ batch' \in [Jobs -> Batch]
      BY DEF IInv, TypeOK, Statement, provider
    <2>4. operator' \in [Operators -> Operator] /\ faults' \in 0..Faults
      BY DEF IInv, TypeOK, Statement
    <2>5. QED
      BY <2>1, <2>2, <2>3, <2>4 DEF TypeOK
  <1>2. ASSUME NEW k \in Jobs
        PROVE  JobInv(k)'
    <2>1. JobInv(k) /\ VisitInv(v) /\ row \in [Jobs -> Row]
      BY DEF IInv, TypeOK
    <2>2. CASE row'[k] = row[k]
      BY <2>1, <2>2 DEF JobInv, Statement, provider
    <2>3. CASE row'[k] # row[k]
      <3>1. /\ k = visit[v].job /\ Holds(v)
            /\ row'[k] = [row[k] EXCEPT !.status = status, !.active = FALSE]
        BY <2>1, <2>3 DEF Statement, Closed
      <3>2. status # "failed" => batch[k] = status
        BY <2>1, <3>1 DEF VisitInv
      <3>3. QED
        BY <2>1, <3>1, <3>2 DEF JobInv, VisitInv, Holds, Row, Statement, provider, Result
    <2>4. QED
      BY <2>2, <2>3
  <1>3. ASSUME NEW w \in Visits
        PROVE  VisitInv(w)'
    <2>1. CASE w = v
      <3>1. row'[visit[v].job].status # "absent"
        BY DEF IInv, VisitInv, Statement, Closed, Result
      <3>2. QED
        BY <2>1, <3>1, ReleaseInv DEF IInv, Statement
    <2>2. CASE w # v
      BY <2>2
      DEF IInv, TypeOK, VisitInv, Statement, Goto, Closed, provider, Holds, Pending,
          Visit, Result
    <2>3. QED
      BY <2>1, <2>2
  <1>4. OneSender'
    BY DEF IInv, OneSender, Statement, Goto
  <1>5. OneActive'
    BY DEF IInv, OneActive, Statement, Closed
  <1>6. QED
    BY <1>1, <1>2, <1>3, <1>4, <1>5 DEF IInv

LEMMA PostStep ==
  ASSUME IInv, NEW v \in Visits,
         Post(v)
  PROVE  IInv'
  <1>1. TypeOK'
    <2>1. visit' \in [Visits -> Visit]
      BY GotoTypes DEF IInv, TypeOK, Post, Visit, Phase, Batch
    <2>2. row' \in [Jobs -> Row]
      BY DEF IInv, TypeOK, Post
    <2>3. posts' \in [Jobs -> Nat] /\ cancels' \in [Jobs -> Nat] /\ batch' \in [Jobs -> Batch]
      BY DEF IInv, TypeOK, Post, Batch, Visit
    <2>4. operator' \in [Operators -> Operator] /\ faults' \in 0..Faults
      BY DEF IInv, TypeOK, Post
    <2>5. QED
      BY <2>1, <2>2, <2>3, <2>4 DEF TypeOK
  <1>2. ASSUME NEW k \in Jobs
        PROVE  JobInv(k)'
    <2>1. CASE k = visit[v].job
      <3>1. /\ batch[k] = "none" /\ row[k].active /\ row[k].status \in Pending
            /\ row' = row /\ cancels' = cancels
        BY <2>1 DEF IInv, VisitInv, Post
      <3>2. posts[k] = 0 /\ row[k].batch # k
        BY <3>1 DEF IInv, JobInv, Known, Result
      <3>3. posts'[k] = 1 /\ batch'[k] = "sent"
        BY <2>1, <3>2 DEF IInv, TypeOK, Post
      <3>4. QED
        BY <3>1, <3>2, <3>3 DEF IInv, JobInv, Pending
    <2>2. CASE k # visit[v].job
      BY <2>2 DEF IInv, JobInv, Post
    <2>3. QED
      BY <2>1, <2>2
  <1>3. ASSUME NEW w \in Visits
        PROVE  VisitInv(w)'
    <2>1. CASE w = v
      BY <2>1 DEF IInv, TypeOK, VisitInv, Post, Goto, Visit, Result
    <2>2. CASE w # v
      BY <2>2 DEF IInv, VisitInv, OneSender, Post, Goto, Holds, Known, Result
    <2>3. QED
      BY <2>1, <2>2
  <1>4. OneSender'
    BY DEF IInv, OneSender, Post, Goto
  <1>5. OneActive'
    BY DEF IInv, OneActive, Post
  <1>6. QED
    BY <1>1, <1>2, <1>3, <1>4, <1>5 DEF IInv

LEMMA PostAnsweredStep ==
  ASSUME IInv, NEW v \in Visits,
         PostAnswered(v)
  PROVE  IInv'
  <1>1. TypeOK'
    <2>1. visit' \in [Visits -> Visit]
      BY GotoTypes DEF IInv, TypeOK, PostAnswered, provider, Visit, Phase, Batch
    <2>2. row' \in [Jobs -> Row]
      BY DEF IInv, TypeOK, PostAnswered
    <2>3. posts' \in [Jobs -> Nat] /\ cancels' \in [Jobs -> Nat] /\ batch' \in [Jobs -> Batch]
      BY DEF IInv, TypeOK, PostAnswered, provider
    <2>4. operator' \in [Operators -> Operator] /\ faults' \in 0..Faults
      BY DEF IInv, TypeOK, PostAnswered
    <2>5. QED
      BY <2>1, <2>2, <2>3, <2>4 DEF TypeOK
  <1>2. ASSUME NEW k \in Jobs
        PROVE  JobInv(k)'
    BY DEF IInv, JobInv, PostAnswered, provider
  <1>3. ASSUME NEW w \in Visits
        PROVE  VisitInv(w)'
    <2>1. CASE w = v
      <3>1. visit[v].job \in Jobs /\ batch[visit[v].job] \in Batch \ {"none", "sent"}
        BY DEF IInv, TypeOK, Visit, VisitInv, PostAnswered
      <3>2. row[visit[v].job].status # "absent"
        BY DEF IInv, VisitInv, PostAnswered
      <3>3. QED
        BY <2>1, <3>1, <3>2
        DEF IInv, VisitInv, PostAnswered, Goto, provider, Batch, Known, Result
    <2>2. CASE w # v
      BY <2>2 DEF IInv, VisitInv, PostAnswered, Goto, provider, Holds
    <2>3. QED
      BY <2>1, <2>2
  <1>4. OneSender'
    BY DEF IInv, OneSender, PostAnswered, Goto
  <1>5. OneActive'
    BY DEF IInv, OneActive, PostAnswered
  <1>6. QED
    BY <1>1, <1>2, <1>3, <1>4, <1>5 DEF IInv

LEMMA UnconfirmedStep ==
  ASSUME IInv, NEW v \in Visits,
         visit[v].at \in {"posted", "record"}, Statement(v, row, "unknown")
  PROVE  IInv'
  <1>1. TypeOK'
    <2>1. visit' \in [Visits -> Visit]
      BY GotoTypes DEF IInv, TypeOK, Statement, provider, Visit, Phase, Batch
    <2>2. row' \in [Jobs -> Row]
      BY DEF IInv, TypeOK, Statement
    <2>3. posts' \in [Jobs -> Nat] /\ cancels' \in [Jobs -> Nat] /\ batch' \in [Jobs -> Batch]
      BY DEF IInv, TypeOK, Statement, provider
    <2>4. operator' \in [Operators -> Operator] /\ faults' \in 0..Faults
      BY DEF IInv, TypeOK, Statement
    <2>5. QED
      BY <2>1, <2>2, <2>3, <2>4 DEF TypeOK
  <1>2. ASSUME NEW k \in Jobs
        PROVE  JobInv(k)'
    BY DEF IInv, JobInv, Statement, provider
  <1>3. ASSUME NEW w \in Visits
        PROVE  VisitInv(w)'
    <2>1. CASE w = v
      <3>1. visit[v].job \in Jobs /\ batch[visit[v].job] # "none"
        BY DEF IInv, TypeOK, Visit, VisitInv, Known, Result
      <3>2. row[visit[v].job].status \notin {"absent", "queued"}
        BY <3>1 DEF IInv, JobInv
      <3>3. QED
        BY <2>1, <3>2 DEF IInv, TypeOK, VisitInv, Statement, Goto, Result
    <2>2. CASE w # v
      BY <2>2 DEF IInv, VisitInv, Statement, Goto, provider, Holds
    <2>3. QED
      BY <2>1, <2>2
  <1>4. OneSender'
    BY DEF IInv, OneSender, Statement, Goto
  <1>5. OneActive'
    BY DEF IInv, OneActive, Statement
  <1>6. QED
    BY <1>1, <1>2, <1>3, <1>4, <1>5 DEF IInv

LEMMA RecordedStep ==
  ASSUME IInv, NEW v \in Visits, NEW at \in {"unknown", "release"},
         visit[v].at = "record", Statement(v, Recorded(v), at)
  PROVE  IInv'
  <1>1. TypeOK'
    <2>1. visit' \in [Visits -> Visit]
      BY GotoTypes DEF IInv, TypeOK, Statement, provider, Visit, Phase, Batch
    <2>2. row' \in [Jobs -> Row]
      BY FieldTypes DEF IInv, TypeOK, Statement, Recorded, Visit, Status
    <2>3. posts' \in [Jobs -> Nat] /\ cancels' \in [Jobs -> Nat] /\ batch' \in [Jobs -> Batch]
      BY DEF IInv, TypeOK, Statement, provider
    <2>4. operator' \in [Operators -> Operator] /\ faults' \in 0..Faults
      BY DEF IInv, TypeOK, Statement
    <2>5. QED
      BY <2>1, <2>2, <2>3, <2>4 DEF TypeOK
  <1>2. ASSUME NEW k \in Jobs
        PROVE  JobInv(k)'
    BY DEF IInv, JobInv, VisitInv, Statement, Recorded, provider
  <1>3. ASSUME NEW w \in Visits
        PROVE  VisitInv(w)'
    <2>1. CASE w = v
      <3>1. visit[v].job \in Jobs /\ batch[visit[v].job] \in Known
        BY DEF IInv, TypeOK, Visit, VisitInv
      <3>2. row[visit[v].job].status \notin {"absent", "queued"}
        BY <3>1 DEF IInv, JobInv, Known, Result
      <3>3. row'[visit[v].job].status \notin {"absent", "queued"}
        BY <3>1, <3>2 DEF Statement, Recorded
      <3>4. CASE at = "release"
        BY <2>1, <3>3, <3>4, ReleaseInv DEF IInv, Statement
      <3>5. CASE at = "unknown"
        BY <2>1, <3>3, <3>5 DEF IInv, TypeOK, VisitInv, Statement, Goto, Result
      <3>6. QED
        BY <3>4, <3>5
    <2>2. CASE w # v
      <3>1. /\ visit[v].job \in Jobs /\ visit[w].job \in Jobs /\ visit'[w] = visit[w]
            /\ batch[visit[v].job] \in Known /\ batch' = batch /\ cancels' = cancels
        BY <2>2 DEF IInv, TypeOK, Visit, VisitInv, Statement, Goto, provider
      <3>2. CASE row' = row
        BY <3>1, <3>2 DEF IInv, VisitInv, Holds
      <3>3. CASE row' # row
        <4>1. /\ row[visit[v].job].token = v
              /\ row' = [row EXCEPT ![visit[v].job] =
                            [@ EXCEPT !.status = IF row[visit[v].job].status = "cancel_requested"
                                              THEN "cancel_requested" ELSE "processing",
                                      !.batch = visit[v].job]]
          BY <3>3 DEF Statement, Recorded, Holds
        <4>2. QED
          <5>1. CASE visit[w].job = visit[v].job
            <6>1. LET j == visit[w].job IN
                  /\ row[j].token = v /\ row'[j].token = v
                  /\ row'[j].status \in {"cancel_requested", "processing"}
                  /\ row'[j].batch = j /\ row'[j].cancelSent = row[j].cancelSent
              BY <3>1, <4>1, <5>1 DEF IInv, TypeOK
            <6>2. VisitInv(w)
              BY DEF IInv
            <6>3. QED
              BY <2>2, <3>1, <5>1, <6>1, <6>2 DEF VisitInv, Holds, Known, Result
          <5>2. CASE visit[w].job # visit[v].job
            <6>1. row'[visit[w].job] = row[visit[w].job]
              BY <3>1, <4>1, <5>2
            <6>2. QED
              BY <3>1, <6>1 DEF IInv, VisitInv, Holds
          <5>3. QED
            BY <5>1, <5>2
      <3>4. QED
        BY <3>2, <3>3
    <2>3. QED
      BY <2>1, <2>2
  <1>4. OneSender'
    BY DEF IInv, OneSender, Statement, Goto
  <1>5. OneActive'
    BY DEF IInv, OneActive, Statement, Recorded
  <1>6. QED
    BY <1>1, <1>2, <1>3, <1>4, <1>5 DEF IInv

LEMMA MarkedUnknownStep ==
  ASSUME IInv, NEW v \in Visits,
         visit[v].at = "unknown", Statement(v, MarkedUnknown(v), "release")
  PROVE  IInv'
  <1>1. TypeOK'
    <2>1. visit' \in [Visits -> Visit]
      BY GotoTypes DEF IInv, TypeOK, Statement, provider, Visit, Phase, Batch
    <2>2. row' \in [Jobs -> Row]
      BY FieldTypes DEF IInv, TypeOK, Statement, MarkedUnknown, Visit, Status
    <2>3. posts' \in [Jobs -> Nat] /\ cancels' \in [Jobs -> Nat] /\ batch' \in [Jobs -> Batch]
      BY DEF IInv, TypeOK, Statement, provider
    <2>4. operator' \in [Operators -> Operator] /\ faults' \in 0..Faults
      BY DEF IInv, TypeOK, Statement
    <2>5. QED
      BY <2>1, <2>2, <2>3, <2>4 DEF TypeOK
  <1>2. ASSUME NEW k \in Jobs
        PROVE  JobInv(k)'
    BY DEF IInv, JobInv, Statement, MarkedUnknown, provider
  <1>3. ASSUME NEW w \in Visits
        PROVE  VisitInv(w)'
    <2>1. CASE w = v
      BY <2>1 DEF IInv, VisitInv, Statement, Goto, MarkedUnknown, provider, Result
    <2>2. CASE w # v
      BY <2>2
      DEF IInv, TypeOK, VisitInv, Statement, Goto, MarkedUnknown, provider, Holds, Pending
    <2>3. QED
      BY <2>1, <2>2
  <1>4. OneSender'
    BY DEF IInv, OneSender, Statement, Goto
  <1>5. OneActive'
    BY DEF IInv, OneActive, Statement, MarkedUnknown
  <1>6. QED
    BY <1>1, <1>2, <1>3, <1>4, <1>5 DEF IInv

LEMMA CancelReservedStep ==
  ASSUME IInv, NEW v \in Visits, NEW at \in {"send", "read", "release"},
         visit[v].at = "cancel", Statement(v, CancelReserved(v), at),
         at = "send" => CancelReservable(v)
  PROVE  IInv'
  <1>1. TypeOK'
    <2>1. visit' \in [Visits -> Visit]
      BY GotoTypes DEF IInv, TypeOK, Statement, provider, Visit, Phase, Batch
    <2>2. row' \in [Jobs -> Row]
      BY FieldTypes DEF IInv, TypeOK, Statement, CancelReserved, Visit, Status
    <2>3. posts' \in [Jobs -> Nat] /\ cancels' \in [Jobs -> Nat] /\ batch' \in [Jobs -> Batch]
      BY DEF IInv, TypeOK, Statement, provider
    <2>4. operator' \in [Operators -> Operator] /\ faults' \in 0..Faults
      BY DEF IInv, TypeOK, Statement
    <2>5. QED
      BY <2>1, <2>2, <2>3, <2>4 DEF TypeOK
  <1>2. ASSUME NEW k \in Jobs
        PROVE  JobInv(k)'
    BY DEF IInv, JobInv, Statement, CancelReserved, provider
  <1>3. ASSUME NEW w \in Visits
        PROVE  VisitInv(w)'
    <2>1. CASE w = v
      BY <2>1
      DEF IInv, TypeOK, JobInv, VisitInv, Statement, Goto, CancelReserved,
          CancelReservable, provider, Visit, Result
    <2>2. CASE w # v
      BY <2>2
      DEF IInv, TypeOK, VisitInv, Statement, Goto, CancelReserved, provider, Holds, Visit
    <2>3. QED
      BY <2>1, <2>2
  <1>4. OneSender'
    BY DEF IInv, VisitInv, OneSender, Statement, Goto, CancelReservable
  <1>5. OneActive'
    BY DEF IInv, OneActive, Statement, CancelReserved
  <1>6. QED
    BY <1>1, <1>2, <1>3, <1>4, <1>5 DEF IInv

LEMMA SendCancelStep ==
  ASSUME IInv, NEW v \in Visits,
         SendCancel(v)
  PROVE  IInv'
  <1>1. TypeOK'
    <2>1. visit' \in [Visits -> Visit]
      BY GotoTypes DEF IInv, TypeOK, SendCancel, Visit, Phase, Batch
    <2>2. row' \in [Jobs -> Row]
      BY DEF IInv, TypeOK, SendCancel
    <2>3. posts' \in [Jobs -> Nat] /\ cancels' \in [Jobs -> Nat] /\ batch' \in [Jobs -> Batch]
      BY DEF IInv, TypeOK, SendCancel, Batch, Visit
    <2>4. operator' \in [Operators -> Operator] /\ faults' \in 0..Faults
      BY DEF IInv, TypeOK, SendCancel
    <2>5. QED
      BY <2>1, <2>2, <2>3, <2>4 DEF TypeOK
  <1>2. ASSUME NEW k \in Jobs
        PROVE  JobInv(k)'
    BY DEF IInv, TypeOK, JobInv, VisitInv, SendCancel, Known, Result
  <1>3. ASSUME NEW w \in Visits
        PROVE  VisitInv(w)'
    <2>1. CASE w = v
      BY <2>1 DEF IInv, TypeOK, VisitInv, SendCancel, Goto, Result
    <2>2. CASE w # v
      BY <2>2
      DEF IInv, TypeOK, VisitInv, OneSender, SendCancel, Goto, Holds, Known, Visit, Result
    <2>3. QED
      BY <2>1, <2>2
  <1>4. OneSender'
    BY DEF IInv, OneSender, SendCancel, Goto
  <1>5. OneActive'
    BY DEF IInv, OneActive, SendCancel
  <1>6. QED
    BY <1>1, <1>2, <1>3, <1>4, <1>5 DEF IInv

LEMMA ReadStep ==
  ASSUME IInv, NEW v \in Visits,
         Read(v)
  PROVE  IInv'
  <1>1. TypeOK'
    <2>1. visit' \in [Visits -> Visit]
      BY ConstantTypes, GotoTypes DEF IInv, TypeOK, Read, provider, Visit, Phase, Batch
    <2>2. row' \in [Jobs -> Row]
      BY DEF IInv, TypeOK, Read
    <2>3. posts' \in [Jobs -> Nat] /\ cancels' \in [Jobs -> Nat] /\ batch' \in [Jobs -> Batch]
      BY DEF IInv, TypeOK, Read, provider
    <2>4. operator' \in [Operators -> Operator] /\ faults' \in 0..Faults
      BY DEF IInv, TypeOK, Read
    <2>5. QED
      BY <2>1, <2>2, <2>3, <2>4 DEF TypeOK
  <1>2. ASSUME NEW k \in Jobs
        PROVE  JobInv(k)'
    BY DEF IInv, JobInv, Read, provider
  <1>3. ASSUME NEW w \in Visits
        PROVE  VisitInv(w)'
    <2>1. CASE w = v
      BY <2>1 DEF IInv, VisitInv, Read, provider
    <2>2. CASE w # v
      BY <2>2 DEF IInv, VisitInv, Read, provider, Holds
    <2>3. QED
      BY <2>1, <2>2
  <1>4. OneSender'
    BY DEF IInv, OneSender, Read
  <1>5. OneActive'
    BY DEF IInv, OneActive, Read
  <1>6. QED
    BY <1>1, <1>2, <1>3, <1>4, <1>5 DEF IInv

LEMMA ObservedStep ==
  ASSUME IInv, NEW v \in Visits, NEW at \in {"close", "release"},
         visit[v].at = "observe", Statement(v, Observed(v), at),
         at = "close" => visit[v].seen \in Result
  PROVE  IInv'
  <1>1. TypeOK'
    <2>1. visit' \in [Visits -> Visit]
      BY GotoTypes DEF IInv, TypeOK, Statement, provider, Visit, Phase, Batch
    <2>2. row' \in [Jobs -> Row]
      BY FieldTypes DEF IInv, TypeOK, Statement, Observed, Visit, Status
    <2>3. posts' \in [Jobs -> Nat] /\ cancels' \in [Jobs -> Nat] /\ batch' \in [Jobs -> Batch]
      BY DEF IInv, TypeOK, Statement, provider
    <2>4. operator' \in [Operators -> Operator] /\ faults' \in 0..Faults
      BY DEF IInv, TypeOK, Statement
    <2>5. QED
      BY <2>1, <2>2, <2>3, <2>4 DEF TypeOK
  <1>2. ASSUME NEW k \in Jobs
        PROVE  JobInv(k)'
    BY DEF IInv, JobInv, Statement, Observed, provider
  <1>3. ASSUME NEW w \in Visits
        PROVE  VisitInv(w)'
    <2>1. CASE w = v
      BY <2>1 DEF IInv, VisitInv, Statement, Goto, Observed, provider, Result
    <2>2. CASE w # v
      BY <2>2
      DEF IInv, TypeOK, JobInv, VisitInv, Statement, Goto, Observed, provider, Holds,
          Known, Visit, Result
    <2>3. QED
      BY <2>1, <2>2
  <1>4. OneSender'
    BY DEF IInv, OneSender, Statement, Goto
  <1>5. OneActive'
    BY DEF IInv, OneActive, Statement, Observed
  <1>6. QED
    BY <1>1, <1>2, <1>3, <1>4, <1>5 DEF IInv

LEMMA ReleaseStep ==
  ASSUME IInv, NEW v \in Visits,
         Release(v)
  PROVE  IInv'
  <1>1. TypeOK'
    <2>1. visit' \in [Visits -> Visit]
      BY ConstantTypes DEF IInv, TypeOK, Release
    <2>2. row' \in [Jobs -> Row]
      BY FieldTypes DEF IInv, TypeOK, Release, Released, Idle, Visit, Status
    <2>3. posts' \in [Jobs -> Nat] /\ cancels' \in [Jobs -> Nat] /\ batch' \in [Jobs -> Batch]
      BY DEF IInv, TypeOK, Release, provider
    <2>4. operator' \in [Operators -> Operator] /\ faults' \in 0..Faults
      BY DEF IInv, TypeOK, Release
    <2>5. QED
      BY <2>1, <2>2, <2>3, <2>4 DEF TypeOK
  <1>2. ASSUME NEW k \in Jobs
        PROVE  JobInv(k)'
    BY DEF IInv, JobInv, Release, Released, provider
  <1>3. ASSUME NEW w \in Visits
        PROVE  VisitInv(w)'
    <2>1. CASE w = v
      BY <2>1 DEF IInv, TypeOK, VisitInv, Release, Idle, Result
    <2>2. CASE w # v
      BY <2>2, ProofAssumption
      DEF IInv, TypeOK, VisitInv, Release, Released, provider, Holds, Visit
    <2>3. QED
      BY <2>1, <2>2
  <1>4. OneSender'
    BY DEF IInv, OneSender, Release, Idle
  <1>5. OneActive'
    BY DEF IInv, OneActive, Release, Released
  <1>6. QED
    BY <1>1, <1>2, <1>3, <1>4, <1>5 DEF IInv

LEMMA FaultTypes ==
  ASSUME TypeOK, Fault \/ UNCHANGED faults
  PROVE  faults' \in 0..Faults
  BY ProofAssumption DEF TypeOK, Fault

LEMMA AdvanceStep ==
  ASSUME IInv, NEW v \in Visits, Advance(v)
  PROVE  IInv'
  <1>1. CASE Reserve(v)
    <2>1. CASE Reservable(v)
      BY <1>1, <2>1, FaultTypes, ReservedStep DEF IInv, Reserve, Statement
    <2>2. CASE ~Reservable(v)
      BY <1>1, <2>2, FaultTypes, ReservedStep DEF IInv, Reserve, Statement
    <2>3. QED
      BY <2>1, <2>2
  <1>2. CASE BudgetReduced(v) \/ Refused(v)
    BY <1>2, FaultTypes, ClosedStep DEF IInv, BudgetReduced, Refused, Statement, Result
  <1>3. CASE Post(v) \/ PostAnswered(v) \/ SendCancel(v) \/ Read(v) \/ Release(v)
    BY <1>3, PostStep, PostAnsweredStep, SendCancelStep, ReadStep, ReleaseStep
  <1>4. CASE Record(v)
    BY <1>4, FaultTypes, RecordedStep DEF IInv, Record, Statement
  <1>5. CASE MarkUnknown(v)
    BY <1>5, FaultTypes, MarkedUnknownStep DEF IInv, MarkUnknown, Statement
  <1>6. CASE ReserveCancel(v)
    <2>1. CASE CancelReservable(v)
      BY <1>6, <2>1, FaultTypes, CancelReservedStep DEF IInv, ReserveCancel, Statement
    <2>2. CASE ~CancelReservable(v)
      BY <1>6, <2>2, FaultTypes, CancelReservedStep DEF IInv, ReserveCancel, Statement
    <2>3. QED
      BY <2>1, <2>2
  <1>7. CASE Observe(v)
    <2>1. CASE visit[v].seen \in Result
      BY <1>7, <2>1, FaultTypes, ObservedStep DEF IInv, Observe, Statement
    <2>2. CASE visit[v].seen \notin Result
      BY <1>7, <2>2, FaultTypes, ObservedStep DEF IInv, Observe, Statement
    <2>3. QED
      BY <2>1, <2>2
  <1>8. CASE Close(v)
    <2>1. visit[v].seen \in Result /\ "failed" \in Result
      BY <1>8 DEF IInv, VisitInv, Close, Result
    <2>2. faults' \in 0..Faults
      BY <1>8, FaultTypes DEF IInv, Close
    <2>3. QED
      BY <1>8, <2>1, <2>2, ClosedStep DEF Close, Statement
  <1>9. QED
    BY <1>1, <1>2, <1>3, <1>4, <1>5, <1>6, <1>7, <1>8 DEF Advance

LEMMA StatementFailsStep ==
  ASSUME IInv, NEW v \in Visits, StatementFails(v)
  PROVE  IInv'
  <1>1. faults' \in 0..Faults
    BY FaultTypes DEF IInv, StatementFails
  <1>2. \A at : Goto(v, at) => Statement(v, row', at)
    BY <1>1 DEF StatementFails, Statement
  <1>3. CASE row' = row
    <2>1. visit[v].at \in {"reserve", "record", "refused", "unknown", "cancel", "observe", "close"}
      BY DEF StatementFails, Effects
    <2>2. QED
      BY <1>2, <1>3, <2>1, NothingStep, UnconfirmedStep DEF StatementFails
  <1>4. CASE row' # row
    <2>1. row' \in Effects(v)
      BY <1>4 DEF StatementFails
    <2>2. CASE visit[v].at = "record"
      BY <1>2, <2>1, <2>2, RecordedStep DEF StatementFails, Effects
    <2>3. CASE visit[v].at = "unknown"
      BY <1>2, <2>1, <2>3, MarkedUnknownStep DEF StatementFails, Effects
    <2>4. CASE visit[v].at = "cancel"
      BY <1>2, <2>1, <2>4, CancelReservedStep DEF StatementFails, Effects
    <2>5. CASE visit[v].at = "observe"
      BY <1>2, <2>1, <2>5, ObservedStep DEF StatementFails, Effects
    <2>6. CASE visit[v].at \in {"reserve", "refused"}
      BY <1>2, <2>1, <2>6, ReservedStep, ClosedStep DEF StatementFails, Effects, Result
    <2>7. CASE visit[v].at = "close"
      <3>1. visit[v].seen \in Result /\ "failed" \in Result
        BY <2>7 DEF IInv, VisitInv, Result
      <3>2. QED
        BY <1>2, <2>1, <2>7, <3>1, ClosedStep DEF StatementFails, Effects
    <2>8. QED
      BY <2>1, <2>2, <2>3, <2>4, <2>5, <2>6, <2>7 DEF Effects
  <1>5. QED
    BY <1>3, <1>4

LEMMA DisturbStep ==
  ASSUME IInv, NEW v \in Visits, Disturb(v)
  PROVE  IInv'
  <1>1. faults' \in 0..Faults
    BY FaultTypes DEF IInv, Disturb, PostLost, StatementFails, ReadFails, VisitEnds
  <1>2. CASE PostLost(v)
    BY <1>1, <1>2, UnconfirmedStep DEF PostLost, Statement
  <1>3. CASE StatementFails(v)
    BY <1>3, StatementFailsStep
  <1>4. CASE ReadFails(v)
    BY <1>1, <1>4, NothingStep DEF ReadFails, Statement
  <1>5. CASE VisitEnds(v)
    BY <1>1, <1>5, LeaveStep DEF VisitEnds
  <1>6. QED
    BY <1>2, <1>3, <1>4, <1>5 DEF Disturb

LEMMA RequestStep ==
  ASSUME IInv, NEW o \in Operators, NEW j \in Jobs, NEW b \in Jobs,
         LoadToCancel(o, j) \/ LoadToRecover(o, j, b) \/ Abandon(o)
  PROVE  IInv'
  <1>1. UNCHANGED <<row, batch, posts, cancels, visit, faults>>
    BY DEF LoadToCancel, LoadToRecover, Abandon, provider
  <1>2. operator' \in [Operators -> Operator]
    BY ConstantTypes DEF IInv, TypeOK, Operator, LoadToCancel, LoadToRecover, Abandon
  <1>3. QED
    BY <1>1, <1>2 DEF IInv, TypeOK, JobInv, VisitInv, Holds, OneSender, OneActive

LEMMA NextInv == IInv /\ [Next]_vars => IInv'
  <1>1. SUFFICES ASSUME IInv, [Next]_vars PROVE IInv'
    OBVIOUS
  <1>2. CASE Operate
    BY <1>1, <1>2, EnqueueStep, CancelStep, RecoverStep, RequestStep, ProofAssumption
    DEF Operate
  <1>3. CASE \E v \in Visits : Advance(v) \/ Disturb(v) \/ \E j \in Jobs : Lease(v, j)
    BY <1>1, <1>3, AdvanceStep, DisturbStep, LeaseStep
  <1>4. CASE \E j \in Jobs : Lapse(j) \/ Provide(j)
    BY <1>1, <1>4, LapseStep, ProvideStep
  <1>5. CASE UNCHANGED vars
    BY <1>1, <1>5 DEF vars, IInv, TypeOK, JobInv, VisitInv, Holds, OneSender, OneActive
  <1>6. QED
    BY <1>1, <1>2, <1>3, <1>4, <1>5 DEF Next

THEOREM Inductive == Spec => []IInv
  BY InitInv, NextInv, PTL DEF Spec

-------------------------------------------------------------------------------
(* The properties.                                                         *)

\* Type correctness.
THEOREM TypeCorrect == Spec => []TypeOK
  <1>1. IInv => TypeOK
    BY DEF IInv
  <1>2. QED
    BY <1>1, Inductive, PTL

\* A job is posted to the provider at most once, and so is its cancellation.
THEOREM NeverPostedTwice == Spec => []SubmittedOnce
  <1>1. IInv => SubmittedOnce
    BY DEF IInv, JobInv, SubmittedOnce
  <1>2. QED
    BY <1>1, Inductive, PTL

\* A job holds its agenda until its inference is known to be over.
THEOREM AgendaIsReserved == Spec => []ReservationKept
  <1>1. IInv => ReservationKept
    BY DEF IInv, JobInv, ReservationKept
  <1>2. QED
    BY <1>1, Inductive, PTL

\* A job shows its own batch and its own candidate.
THEOREM ResultsAreOwn == Spec => []ResultIsOwn
  <1>1. IInv => ResultIsOwn
    BY DEF IInv, JobInv, ResultIsOwn
  <1>2. QED
    BY <1>1, Inductive, PTL

\* At most one inference of an agenda is in flight.
THEOREM AgendasAreExclusive == Spec => []OneInferencePerAgenda
  <1>1. ASSUME IInv, NEW j \in Jobs, batch[j] \in {"sent", "running", "canceling"}
        PROVE  row[j].active
    BY <1>1 DEF IInv, JobInv, Result
  <1>2. IInv => OneInferencePerAgenda
    BY <1>1 DEF IInv, OneActive, OneInferencePerAgenda
  <1>3. QED
    BY <1>2, Inductive, PTL

Kept(j) ==
    /\ ~row'[j].active
    /\ row'[j].status = row[j].status /\ row'[j].batch = row[j].batch

LEMMA VisitKeeps ==
  ASSUME IInv, NEW v \in Visits, Advance(v) \/ Disturb(v), NEW j \in Jobs, ~row[j].active
  PROVE  Kept(j)
  <1>1. row \in [Jobs -> Row] /\ visit[v].job \in Jobs
    BY DEF IInv, TypeOK, Visit
  <1>2. row' \in {row, Released(v)} \cup Effects(v)
    BY DEF Advance, Disturb, Reserve, BudgetReduced, Post, PostAnswered, Record, Refused,
       MarkUnknown, ReserveCancel, SendCancel, Read, Observe, Close, Release, PostLost,
       StatementFails, ReadFails, VisitEnds, Effects
  <1>3. CASE row' \in {row, Released(v)}
    <2>1. CASE row' = row
      BY <2>1 DEF Kept
    <2>2. CASE row' # row
      <3>1. PICK k \in Jobs :
              row' = [row EXCEPT ![k] = [@ EXCEPT !.token = None, !.lapsed = FALSE]]
        BY <1>1, <1>3, <2>2 DEF Released
      <3>2. PICK r \in Row : r = row[k]
        BY <1>1
      <3>3. /\ row'[k] = [r EXCEPT !.token = None, !.lapsed = FALSE]
            /\ j # k => row'[j] = row[j]
        BY <1>1, <3>1, <3>2
      <3>4. QED
        BY <3>2, <3>3 DEF Kept, Row
    <2>3. QED
      BY <2>1, <2>2
  <1>4. CASE row' \in Effects(v)
    <2>1. CASE Holds(v)
      <3>1. visit[v].job # j
        BY <2>1 DEF Holds
      <3>2. row'[j] = row[j]
        BY <1>1, <1>4, <3>1
        DEF Effects, Reserved, Closed, Recorded, MarkedUnknown, CancelReserved, Observed
      <3>3. QED
        BY <3>2 DEF Kept
    <2>2. CASE ~Holds(v)
      <3>1. row' = row
        BY <1>4, <2>2
        DEF Effects, Reserved, Reservable, Closed, Recorded, MarkedUnknown,
            CancelReserved, CancelReservable, Observed
      <3>2. QED
        BY <3>1 DEF Kept
    <2>3. QED
      BY <2>1, <2>2
  <1>5. QED
    BY <1>2, <1>3, <1>4

LEMMA OperatorKeeps ==
  ASSUME IInv, Operate, NEW j \in Jobs, row[j].status # "absent", ~row[j].active
  PROVE  Kept(j)
  <1>1. row \in [Jobs -> Row] /\ \A o \in Operators : operator[o].job \in Jobs
    BY DEF IInv, TypeOK, Operator
  <1>2. CASE \E k \in Jobs : Enqueue(k)
    BY <1>1, <1>2 DEF Enqueue, Kept
  <1>3. CASE \E o \in Operators : Cancel(o)
    BY <1>1, <1>3 DEF Cancel, Cancelled, Kept
  <1>4. CASE \E o \in Operators : Recover(o)
    BY <1>1, <1>4 DEF Recover, Recovered, Unconfirmed, Kept
  <1>5. CASE row' = row
    BY <1>5 DEF Kept
  <1>6. QED
    BY <1>2, <1>3, <1>4, <1>5 DEF Operate, LoadToCancel, LoadToRecover, Abandon

\* Once a job is closed, no late visit and no late request changes its outcome.
THEOREM ClosedStaysClosed == Spec => ClosedIsFinal
  <1>1. ASSUME IInv, [Next]_vars
        PROVE  [\A j \in Jobs : row[j].status # "absent" /\ ~row[j].active =>
                   /\ ~row'[j].active
                   /\ row'[j].status = row[j].status /\ row'[j].batch = row[j].batch]_vars
    <2>1. ASSUME NEW k \in Jobs, row[k].status # "absent", ~row[k].active
          PROVE  Kept(k)
      <3>1. row \in [Jobs -> Row]
        BY <1>1 DEF IInv, TypeOK
      <3>2. CASE Operate
        BY <1>1, <2>1, <3>2, OperatorKeeps
      <3>3. CASE \E v \in Visits : Advance(v) \/ Disturb(v)
        BY <1>1, <2>1, <3>3, VisitKeeps
      <3>4. CASE \E v \in Visits, j \in Jobs : Lease(v, j)
        BY <2>1, <3>1, <3>4 DEF Lease, Kept
      <3>5. CASE \E j \in Jobs : Lapse(j)
        BY <2>1, <3>1, <3>5 DEF Lapse, Kept
      <3>6. CASE row' = row
        BY <2>1, <3>6 DEF Kept
      <3>7. QED
        BY <1>1, <3>2, <3>3, <3>4, <3>5, <3>6 DEF Next, Provide, vars
    <2>2. QED
      BY <2>1 DEF Kept
  <1>2. QED
    BY <1>1, Inductive, PTL DEF Spec, ClosedIsFinal

-------------------------------------------------------------------------------
(* Refinement of ProofAgenda.                                              *)

LEMMA StageOf ==
  ASSUME IInv, NEW j \in Jobs
  PROVE  /\ Stage(j) = "open" <=> row[j].active
         /\ Stage(j) = "new" <=> row[j].status = "absent"
         /\ ~row[j].active /\ row[j].status # "absent" => Stage(j) = row[j].status
  <1>1. row[j].status \in Status /\ row[j].active \in BOOLEAN /\ JobInv(j)
    BY DEF IInv, TypeOK, Row
  <1>2. /\ row[j].status = "absent" => ~row[j].active
        /\ row[j].status \notin {"new", "open"}
    BY <1>1 DEF JobInv, Status, Result
  <1>3. CASE row[j].status = "absent"
    BY <1>2, <1>3 DEF Stage
  <1>4. CASE row[j].status # "absent" /\ row[j].active
    BY <1>4 DEF Stage
  <1>5. CASE row[j].status # "absent" /\ ~row[j].active
    <2>1. Stage(j) = row[j].status
      BY <1>5 DEF Stage
    <2>2. QED
      BY <1>2, <1>5, <2>1
  <1>6. QED
    BY <1>3, <1>4, <1>5

\* A job that is closed, while what it bought stays as it is.
LEMMA CloseRefines ==
  ASSUME IInv, NEW j \in Jobs, NEW r \in Row, row' = [row EXCEPT ![j] = r], UNCHANGED batch,
         row[j].active, ~r.active, batch[j] \notin {"sent", "running", "canceling"},
         r.status \in {"cancelled", "failed", "candidate_ready"},
         r.status = "candidate_ready" => batch[j] = "candidate_ready",
         r.status = "cancelled" => batch[j] \in {"none", "cancelled"}
  PROVE  Agenda!Next
  <1>1. row' [j] = r /\ \A k \in Jobs \ {j} : row'[k] = row[k]
    BY DEF IInv, TypeOK
  <1>2. Stage(j) = "open" /\ Stage(j)' = r.status
    BY <1>1, StageOf DEF Stage
  <1>3. [k \in Jobs |-> Stage(k)]' = [[k \in Jobs |-> Stage(k)] EXCEPT ![j] = r.status]
    <2>1. \A k \in Jobs \ {j} : Stage(k)' = Stage(k)
      BY <1>1 DEF Stage
    <2>2. QED
      BY <1>2, <2>1
  <1>4. Inference(j) = batch[j] /\ UNCHANGED [k \in Jobs |-> Inference(k)]
    BY DEF Inference
  <1>5. Inference(j) # "running"
    BY <1>4
  <1>6. Agenda!Close(j, r.status)
    BY <1>2, <1>3, <1>4, <1>5 DEF Agenda!Close
  <1>7. QED
    BY <1>6 DEF Agenda!Next

\* A row that is neither opened nor closed.
LEMMA SameStage ==
  ASSUME IInv, NEW j \in Jobs, NEW r \in Row, row' = [row EXCEPT ![j] = r], UNCHANGED batch,
         r.active = row[j].active, r.status = row[j].status \/ row[j].active,
         r.status # "absent", row[j].status # "absent"
  PROVE  UNCHANGED Agenda!vars
  <1>1. row'[j] = r /\ \A k \in Jobs \ {j} : row'[k] = row[k]
    BY DEF IInv, TypeOK
  <1>2. \A k \in Jobs : Stage(k)' = Stage(k)
    BY <1>1 DEF Stage
  <1>3. \A k \in Jobs : Inference(k)' = Inference(k)
    BY DEF Inference
  <1>4. QED
    BY <1>2, <1>3 DEF Agenda!vars

LEMMA SameTable ==
  ASSUME UNCHANGED row, UNCHANGED batch
  PROVE  UNCHANGED Agenda!vars
  BY DEF Agenda!vars, Stage, Inference

LEMMA EnqueueOpens ==
  ASSUME IInv, NEW j \in Jobs, Enqueue(j)
  PROVE  Agenda!Next
  <1>1. row \in [Jobs -> Row] /\ row[j] \in Row
    BY DEF IInv, TypeOK
  <1>2. /\ row'[j] = [row[j] EXCEPT !.status = "queued", !.active = TRUE]
        /\ \A k \in Jobs \ {j} : row'[k] = row[k]
    BY <1>1 DEF Enqueue
  <1>3. row'[j].status = "queued" /\ row'[j].active
    BY <1>1, <1>2 DEF Row
  <1>4. Stage(j) = "new" /\ Stage(j)' = "open"
    BY <1>3, StageOf DEF Stage, Enqueue
  <1>5. [k \in Jobs |-> Stage(k)]' = [[k \in Jobs |-> Stage(k)] EXCEPT ![j] = "open"]
    <2>1. \A k \in Jobs \ {j} : Stage(k)' = Stage(k)
      BY <1>2 DEF Stage
    <2>2. QED
      BY <1>4, <2>1
  <1>6. \A k \in Jobs : AgendaOf[k] = AgendaOf[j] => Stage(k) # "open"
    BY StageOf DEF Enqueue
  <1>7. UNCHANGED [k \in Jobs |-> Inference(k)]
    BY DEF Enqueue, provider, Inference
  <1>8. Agenda!Open(j)
    BY <1>4, <1>5, <1>6, <1>7 DEF Agenda!Open
  <1>9. QED
    BY <1>8 DEF Agenda!Next

LEMMA CancelRefines ==
  ASSUME IInv, NEW o \in Operators, Cancel(o)
  PROVE  [Agenda!Next]_(Agenda!vars)
  <1>1. PICK j \in Jobs : j = operator[o].job
    BY DEF IInv, TypeOK, Operator
  <1>2. row \in [Jobs -> Row] /\ row[j] \in Row /\ JobInv(j) /\ UNCHANGED batch
    BY DEF IInv, TypeOK, Cancel, provider
  <1>3. CASE row[j].active /\ row[j].status = "queued"
    <2>1. PICK r : r = [row[j] EXCEPT !.status = "cancelled", !.active = FALSE]
      OBVIOUS
    <2>2. r \in Row /\ r.status = "cancelled" /\ ~r.active
      BY <1>2, <2>1 DEF Row, Status, Result
    <2>3. row' = [row EXCEPT ![j] = r]
      BY <1>1, <1>2, <1>3, <2>1 DEF Cancel, Cancelled
    <2>4. batch[j] = "none"
      BY <1>2, <1>3 DEF JobInv
    <2>5. QED
      BY <1>2, <1>3, <2>2, <2>3, <2>4, CloseRefines
  <1>4. CASE row[j].active /\ row[j].status # "queued"
    <2>1. PICK r : r = [row[j] EXCEPT !.status = "cancel_requested"]
      OBVIOUS
    <2>2. r \in Row /\ r.status = "cancel_requested" /\ r.active
      BY <1>2, <1>4, <2>1 DEF Row, Status
    <2>3. row' = [row EXCEPT ![j] = r]
      BY <1>1, <1>2, <1>4, <2>1 DEF Cancel, Cancelled
    <2>4. row[j].status # "absent"
      BY <1>2, <1>4 DEF JobInv
    <2>5. QED
      BY <1>2, <1>4, <2>2, <2>3, <2>4, SameStage
  <1>5. CASE ~row[j].active
    BY <1>1, <1>2, <1>5, SameTable DEF Cancel, Cancelled
  <1>6. QED
    BY <1>3, <1>4, <1>5

LEMMA RecoverRefines ==
  ASSUME IInv, NEW o \in Operators, Recover(o)
  PROVE  [Agenda!Next]_(Agenda!vars)
  <1>1. PICK j \in Jobs : j = operator[o].job /\ j = operator[o].batch
    BY DEF IInv, TypeOK, Operator, Recover, Matches
  <1>2. row \in [Jobs -> Row] /\ row[j] \in Row /\ UNCHANGED batch /\ batch[j] \in Result
    BY <1>1 DEF IInv, TypeOK, Recover, Matches, provider
  <1>3. CASE row' = row
    BY <1>2, <1>3, SameTable
  <1>4. CASE row' # row
    <2>1. PICK r : r = [row[j] EXCEPT !.batch = j, !.status = batch[j], !.active = FALSE]
      OBVIOUS
    <2>2. r \in Row /\ r.status = batch[j] /\ ~r.active
      BY <1>2, <2>1 DEF Row, Status, Result
    <2>3. row[j].active /\ row' = [row EXCEPT ![j] = r]
      BY <1>1, <1>2, <1>4, <2>1 DEF Recover, Recovered, Unconfirmed
    <2>4. QED
      BY <1>2, <2>2, <2>3, CloseRefines DEF Result
  <1>5. QED
    BY <1>3, <1>4

\* A visit's statement that closes its job: never while its inference runs.
LEMMA ClosedRefines ==
  ASSUME IInv, NEW v \in Visits, NEW how \in Result,
         row' = Closed(v, how), UNCHANGED batch,
         \/ visit[v].at \in {"reserve", "refused"} /\ how = "failed"
         \/ visit[v].at = "close" /\ how \in {"failed", visit[v].seen}
  PROVE  [Agenda!Next]_(Agenda!vars)
  <1>1. PICK j \in Jobs : j = visit[v].job
    BY DEF IInv, TypeOK, Visit
  <1>2. row \in [Jobs -> Row] /\ row[j] \in Row /\ JobInv(j) /\ VisitInv(v)
    BY DEF IInv, TypeOK
  <1>3. CASE ~Holds(v)
    BY <1>3, SameTable DEF Closed
  <1>4. CASE Holds(v)
    <2>1. PICK r : r = [row[j] EXCEPT !.status = how, !.active = FALSE]
      OBVIOUS
    <2>2. r \in Row /\ r.status = how /\ ~r.active
      BY <1>2, <2>1 DEF Row, Status, Result
    <2>3. row[j].active /\ row' = [row EXCEPT ![j] = r]
      BY <1>1, <1>2, <1>4, <2>1 DEF Closed, Holds
    <2>4. /\ batch[j] \notin {"sent", "running", "canceling"}
          /\ how # "failed" => batch[j] = how
      BY <1>1, <1>2, <1>4 DEF VisitInv, JobInv, Result
    <2>5. QED
      BY <2>2, <2>3, <2>4, CloseRefines DEF Result
  <1>5. QED
    BY <1>3, <1>4

\* The other statements of a visit leave an open job open.
LEMMA StatementKeepsStage ==
  ASSUME IInv, NEW v \in Visits, visit[v].at # "idle", UNCHANGED batch,
         row' \in {Reserved(v), Recorded(v), MarkedUnknown(v), CancelReserved(v),
                   Observed(v), Released(v)}
  PROVE  UNCHANGED Agenda!vars
  <1>1. PICK j \in Jobs : j = visit[v].job
    BY DEF IInv, TypeOK, Visit
  <1>2. row \in [Jobs -> Row] /\ row[j] \in Row /\ row[j].status # "absent"
    BY <1>1 DEF IInv, TypeOK, VisitInv
  <1>3. CASE row' = row
    BY <1>3, SameTable
  <1>4. CASE row' # row
    <2>1. PICK r : row' = [row EXCEPT ![j] = r]
          /\ \/ Holds(v) /\ r \in {[row[j] EXCEPT !.status = "submitting"],
                    [row[j] EXCEPT !.status = "cancel_requested", !.batch = j],
                    [row[j] EXCEPT !.status = "processing", !.batch = j],
                    [row[j] EXCEPT !.status = "completion_unknown"],
                    [row[j] EXCEPT !.cancelSent = TRUE],
                    [row[j] EXCEPT !.status = "cancel_requested"],
                    [row[j] EXCEPT !.status = "processing"]}
             \/ r = [row[j] EXCEPT !.token = None, !.lapsed = FALSE]
      <3>1. CASE row' = Reserved(v)
        BY <1>1, <1>2, <1>4, <3>1 DEF Reserved, Reservable
      <3>2. CASE row' = Recorded(v)
        BY <1>1, <1>2, <1>4, <3>2 DEF Recorded
      <3>3. CASE row' = MarkedUnknown(v)
        BY <1>1, <1>2, <1>4, <3>3 DEF MarkedUnknown
      <3>4. CASE row' = CancelReserved(v)
        BY <1>1, <1>2, <1>4, <3>4 DEF CancelReserved, CancelReservable
      <3>5. CASE row' = Observed(v)
        BY <1>1, <1>2, <1>4, <3>5 DEF Observed
      <3>6. CASE row' = Released(v)
        BY <1>1, <1>2, <1>4, <3>6 DEF Released
      <3>7. QED
        BY <3>1, <3>2, <3>3, <3>4, <3>5, <3>6
    <2>2. Holds(v) => row[j].active
      BY <1>1 DEF Holds
    <2>3. /\ r \in Row /\ r.active = row[j].active /\ r.status # "absent"
          /\ r.status = row[j].status \/ row[j].active
      BY <1>2, <2>1, <2>2 DEF Row, Status
    <2>4. QED
      BY <1>2, <2>1, <2>3, SameStage
  <1>5. QED
    BY <1>3, <1>4

\* The POST of a job buys its one inference.
LEMMA PostBuys ==
  ASSUME IInv, NEW v \in Visits, Post(v)
  PROVE  Agenda!Next
  <1>1. PICK j \in Jobs : j = visit[v].job
    BY DEF IInv, TypeOK, Visit
  <1>2. row[j].active /\ batch[j] = "none" /\ batch \in [Jobs -> Batch]
    BY <1>1 DEF IInv, TypeOK, VisitInv, Post
  <1>3. Stage(j) = "open" /\ UNCHANGED [k \in Jobs |-> Stage(k)]
    BY <1>2, StageOf DEF Post, Stage
  <1>4. Inference(j) = "none" /\ Inference(j)' = "running"
    BY <1>1, <1>2 DEF Inference, Post
  <1>5. [k \in Jobs |-> Inference(k)]' = [[k \in Jobs |-> Inference(k)] EXCEPT ![j] = "running"]
    <2>1. \A k \in Jobs \ {j} : Inference(k)' = Inference(k)
      BY <1>1, <1>2 DEF Inference, Post
    <2>2. QED
      BY <1>4, <2>1
  <1>6. Agenda!Buy(j)
    BY <1>3, <1>4, <1>5 DEF Agenda!Buy
  <1>7. QED
    BY <1>6 DEF Agenda!Next

LEMMA ProvideEnds ==
  ASSUME IInv, NEW j \in Jobs, Provide(j)
  PROVE  [Agenda!Next]_(Agenda!vars)
  <1>1. batch \in [Jobs -> Batch] /\ UNCHANGED row
    BY DEF IInv, TypeOK, Provide
  <1>2. UNCHANGED [k \in Jobs |-> Stage(k)]
    BY <1>1 DEF Stage
  <1>3. PICK b \in {"running", "refused"} \cup Result : batch' = [batch EXCEPT ![j] = b]
    BY DEF Provide
  <1>4. Inference(j) = "running" /\ Inference(j)' = b
    BY <1>1, <1>3 DEF Inference, Provide, Result
  <1>5. [k \in Jobs |-> Inference(k)]' = [[k \in Jobs |-> Inference(k)] EXCEPT ![j] = b]
    <2>1. \A k \in Jobs \ {j} : Inference(k)' = Inference(k)
      BY <1>1, <1>3 DEF Inference
    <2>2. QED
      BY <1>4, <2>1
  <1>6. CASE b = "running"
    BY <1>2, <1>4, <1>5, <1>6 DEF Agenda!vars
  <1>7. CASE b # "running"
    <2>1. Agenda!End(j, b)
      BY <1>2, <1>4, <1>5 DEF Agenda!End
    <2>2. QED
      BY <1>7, <2>1 DEF Agenda!Next, Result
  <1>8. QED
    BY <1>6, <1>7

\* A cancellation leaves the inference running as far as money is concerned.
LEMMA CancelKeepsRunning ==
  ASSUME IInv, NEW v \in Visits, SendCancel(v)
  PROVE  UNCHANGED Agenda!vars
  <1>1. batch \in [Jobs -> Batch] /\ UNCHANGED row
    BY DEF IInv, TypeOK, SendCancel
  <1>2. \A k \in Jobs : Inference(k)' = Inference(k)
    BY <1>1 DEF SendCancel, Inference
  <1>3. QED
    BY <1>1, <1>2 DEF Agenda!vars, Stage

LEMMA VisitRefines ==
  ASSUME IInv, NEW v \in Visits, Advance(v) \/ Disturb(v)
  PROVE  [Agenda!Next]_(Agenda!vars)
  <1>1. CASE UNCHANGED row /\ UNCHANGED batch
    BY <1>1, SameTable
  <1>2. CASE Post(v)
    BY <1>2, PostBuys
  <1>3. CASE SendCancel(v)
    BY <1>3, CancelKeepsRunning
  <1>4. CASE /\ visit[v].at # "idle" /\ UNCHANGED batch
             /\ row' \in {Reserved(v), Recorded(v), MarkedUnknown(v), CancelReserved(v),
                          Observed(v), Released(v)}
    BY <1>4, StatementKeepsStage
  <1>5. ASSUME UNCHANGED batch,
               \/ visit[v].at \in {"reserve", "refused"} /\ row' = Closed(v, "failed")
               \/ /\ visit[v].at = "close"
                  /\ row' \in {Closed(v, "failed"), Closed(v, visit[v].seen)}
        PROVE  [Agenda!Next]_(Agenda!vars)
    <2>1. visit[v].at = "close" => visit[v].seen \in Result
      BY DEF IInv, VisitInv, Result
    <2>2. QED
      BY <1>5, <2>1, ClosedRefines DEF Result
  <1>6. CASE Reserve(v) \/ Record(v) \/ MarkUnknown(v) \/ ReserveCancel(v) \/ Observe(v)
             \/ Release(v)
    BY <1>4, <1>6
    DEF Reserve, Record, MarkUnknown, ReserveCancel, Observe, Release, provider
  <1>7. CASE BudgetReduced(v) \/ Refused(v) \/ Close(v)
    BY <1>5, <1>7 DEF BudgetReduced, Refused, Close, provider
  <1>8. CASE PostAnswered(v) \/ Read(v) \/ PostLost(v) \/ ReadFails(v) \/ VisitEnds(v)
    BY <1>1, <1>8 DEF PostAnswered, Read, PostLost, ReadFails, VisitEnds, provider
  <1>9. CASE StatementFails(v)
    <2>1. UNCHANGED batch /\ row' \in {row} \cup Effects(v)
      BY <1>9 DEF StatementFails, provider
    <2>2. CASE row' \in Effects(v)
      BY <1>4, <1>5, <2>1, <2>2 DEF Effects
    <2>3. QED
      BY <1>1, <2>1, <2>2
  <1>10. QED
    BY <1>2, <1>3, <1>6, <1>7, <1>8, <1>9 DEF Advance, Disturb

LEMMA AgendaStep == IInv /\ [Next]_vars => [Agenda!Next]_(Agenda!vars)
  <1> SUFFICES ASSUME IInv, [Next]_vars PROVE [Agenda!Next]_(Agenda!vars)
    OBVIOUS
  <1>1. row \in [Jobs -> Row]
    BY DEF IInv, TypeOK
  <1>2. CASE UNCHANGED row /\ UNCHANGED batch
    BY <1>2, SameTable
  <1>3. CASE Operate
    <2>1. CASE \E j \in Jobs : Enqueue(j)
      BY <2>1, EnqueueOpens
    <2>2. CASE \E o \in Operators : Cancel(o) \/ Recover(o)
      BY <2>2, CancelRefines, RecoverRefines
    <2>3. QED
      BY <1>2, <1>3, <2>1, <2>2 DEF Operate, LoadToCancel, LoadToRecover, Abandon, provider
  <1>4. CASE \E v \in Visits : Advance(v) \/ Disturb(v)
    BY <1>4, VisitRefines
  <1>5. ASSUME NEW v \in Visits, NEW j \in Jobs, Lease(v, j)
        PROVE  [Agenda!Next]_(Agenda!vars)
    <2>1. PICK r : r = [row[j] EXCEPT !.token = v, !.lapsed = FALSE]
      OBVIOUS
    <2>2. r \in Row /\ r.active = row[j].active /\ r.status = row[j].status
      BY <1>1, <2>1 DEF Row
    <2>3. row' = [row EXCEPT ![j] = r] /\ UNCHANGED batch /\ row[j].active
      BY <1>1, <1>5, <2>1 DEF Lease, provider
    <2>4. row[j].status # "absent"
      BY <2>3 DEF IInv, JobInv
    <2>5. QED
      BY <2>2, <2>3, <2>4, SameStage
  <1>6. ASSUME NEW j \in Jobs, Lapse(j)
        PROVE  [Agenda!Next]_(Agenda!vars)
    <2>1. PICK r : r = [row[j] EXCEPT !.lapsed = TRUE]
      OBVIOUS
    <2>2. r \in Row /\ r.active = row[j].active /\ r.status = row[j].status
      BY <1>1, <2>1 DEF Row
    <2>3. row' = [row EXCEPT ![j] = r] /\ UNCHANGED batch /\ row[j].active
      BY <1>1, <1>6, <2>1 DEF Lapse, provider
    <2>4. row[j].status # "absent"
      BY <2>3 DEF IInv, JobInv
    <2>5. QED
      BY <2>2, <2>3, <2>4, SameStage
  <1>7. CASE UNCHANGED vars
    BY <1>2, <1>7 DEF vars
  <1>8. QED
    BY <1>3, <1>4, <1>5, <1>6, <1>7, ProvideEnds DEF Next

LEMMA AgendaInit == Init => Agenda!Init
  <1> SUFFICES ASSUME Init PROVE Agenda!Init
    OBVIOUS
  <1>1. \A j \in Jobs : Stage(j) = "new" /\ Inference(j) = "none"
    BY DEF Init, NoRow, Stage, Inference
  <1>2. QED
    BY <1>1 DEF Agenda!Init

\* The table of proof jobs and the provider's batches implement the agenda: for
\* any number of visits, operators and faults, an agenda has one open job, a job
\* buys one inference while it is open, and it is closed once, when nothing it
\* bought is running, with what its own inference gave (proofJobs.ts:35-141).
THEOREM KeepsTheAgenda == Spec => ImplementsProofAgenda
  <1>1. QED
    BY AgendaInit, AgendaStep, Inductive, PTL
    DEF Spec, ImplementsProofAgenda, Agenda!Spec

-------------------------------------------------------------------------------
(* A visit ends.                                                           *)

\* The steps that a visit has left at most.
VisitLeft(v) ==
    CASE visit[v].at = "idle" -> 0
      [] visit[v].at = "release" -> 1
      [] visit[v].at \in {"unknown", "refused", "close"} -> 2
      [] visit[v].at \in {"record", "observe"} -> 3
      [] visit[v].at \in {"posted", "read"} -> 4
      [] visit[v].at \in {"post", "send"} -> 5
      [] OTHER -> 6

\* Only a lease starts a visit, and each step of a visit brings it nearer to its
\* end, whether it succeeds or not, with the job it began with.
VisitsRunDown ==
    \A v \in Visits :
        /\ Advance(v) \/ Disturb(v) => VisitLeft(v)' < VisitLeft(v)
        /\ visit[v].at # "idle" =>
              /\ VisitLeft(v)' <= VisitLeft(v)
              /\ visit'[v].at # "idle" => visit'[v].job = visit[v].job

LEMMA VisitLeftType ==
  ASSUME NEW v \in Visits
  PROVE  VisitLeft(v) \in 0..6 /\ VisitLeft(v)' \in 0..6
  BY DEF VisitLeft

LEMMA VisitAdvances ==
  ASSUME TypeOK, NEW v \in Visits, Advance(v) \/ Disturb(v)
  PROVE  /\ VisitLeft(v)' < VisitLeft(v)
         /\ visit'[v].at # "idle" => visit'[v].job = visit[v].job
         /\ \A w \in Visits \ {v} : visit'[w] = visit[w]
  <1>1. visit[v] \in Visit /\ visit \in [Visits -> Visit]
    BY DEF TypeOK
  <1>2. ASSUME NEW at \in Phase, Goto(v, at)
        PROVE  /\ visit'[v].at = at /\ visit'[v].job = visit[v].job
               /\ \A w \in Visits \ {v} : visit'[w] = visit[w]
    BY <1>1, <1>2 DEF Goto, Visit
  <1>3. CASE Reserve(v) \/ BudgetReduced(v) \/ Post(v)
    <2>1. PICK at \in Phase : Goto(v, at) /\ at \in {"post", "posted", "release"}
                               /\ (at = "posted" => visit[v].at = "post")
                               /\ visit[v].at \in {"reserve", "post"}
                               /\ (visit[v].at = "post" => at = "posted")
      BY <1>3 DEF Reserve, BudgetReduced, Post, Phase
    <2>2. QED
      BY <1>2, <2>1 DEF VisitLeft
  <1>4. CASE PostAnswered(v) \/ PostLost(v)
    <2>1. PICK at \in Phase : Goto(v, at) /\ at \in {"refused", "record", "unknown"}
      BY <1>4 DEF PostAnswered, PostLost, Phase
    <2>2. QED
      BY <1>2, <1>4, <2>1 DEF PostAnswered, PostLost, VisitLeft
  <1>5. CASE Record(v) \/ Refused(v) \/ MarkUnknown(v) \/ Close(v) \/ ReadFails(v)
    <2>1. Goto(v, "release") /\ "release" \in Phase
      BY <1>5 DEF Record, Refused, MarkUnknown, Close, ReadFails, Phase
    <2>2. QED
      BY <1>2, <1>5, <2>1
      DEF Record, Refused, MarkUnknown, Close, ReadFails, VisitLeft
  <1>6. CASE ReserveCancel(v) \/ SendCancel(v)
    <2>1. PICK at \in Phase : Goto(v, at) /\ at \in {"send", "read"}
                               /\ (visit[v].at = "send" => at = "read")
      BY <1>6 DEF ReserveCancel, SendCancel, Phase
    <2>2. QED
      BY <1>2, <1>6, <2>1 DEF ReserveCancel, SendCancel, VisitLeft
  <1>7. CASE Read(v)
    <2>1. /\ visit'[v].at = "observe" /\ visit'[v].job = visit[v].job
          /\ \A w \in Visits \ {v} : visit'[w] = visit[w]
      BY <1>1, <1>7 DEF Read, Visit
    <2>2. QED
      BY <1>7, <2>1 DEF Read, VisitLeft
  <1>8. CASE Observe(v)
    <2>1. PICK at \in Phase : Goto(v, at) /\ at \in {"close", "release"}
      BY <1>8 DEF Observe, Phase
    <2>2. QED
      BY <1>2, <1>8, <2>1 DEF Observe, VisitLeft
  <1>9. CASE StatementFails(v)
    <2>1. visit[v].at \in {"reserve", "record", "refused", "unknown", "cancel",
                          "observe", "close"}
      BY <1>9 DEF StatementFails, Effects
    <2>2. PICK at \in Phase : Goto(v, at) /\ at \in {"unknown", "release"}
                               /\ (at = "unknown" => visit[v].at = "record")
      BY <1>9 DEF StatementFails, Phase
    <2>3. QED
      BY <1>2, <2>1, <2>2 DEF VisitLeft
  <1>10. CASE Release(v) \/ VisitEnds(v)
    <2>1. /\ visit' = [visit EXCEPT ![v] = Idle]
          /\ visit[v].at # "idle"
      BY <1>10 DEF Release, VisitEnds
    <2>2. /\ visit'[v].at = "idle"
          /\ \A w \in Visits \ {v} : visit'[w] = visit[w]
      BY <1>1, <2>1 DEF Idle
    <2>3. QED
      BY <2>1, <2>2, VisitLeftType DEF VisitLeft
  <1>11. QED
    BY <1>3, <1>4, <1>5, <1>6, <1>7, <1>8, <1>9, <1>10 DEF Advance, Disturb

LEMMA StepRunsDown ==
  ASSUME TypeOK, [Next]_vars
  PROVE  VisitsRunDown
  <1> SUFFICES ASSUME NEW v \in Visits, visit[v].at # "idle"
               PROVE  /\ VisitLeft(v)' <= VisitLeft(v)
                      /\ visit'[v].at # "idle" => visit'[v].job = visit[v].job
    BY VisitAdvances DEF VisitsRunDown
  <1> DEFINE Goal == /\ VisitLeft(v)' <= VisitLeft(v)
                     /\ visit'[v].at # "idle" => visit'[v].job = visit[v].job
  <1>1. CASE visit'[v] = visit[v]
    <2>1. VisitLeft(v)' = VisitLeft(v)
      BY <1>1 DEF VisitLeft
    <2>2. QED
      BY <1>1, <2>1, VisitLeftType
  <1>2. ASSUME NEW w \in Visits, Advance(w) \/ Disturb(w)
        PROVE  Goal
    <2>1. CASE w = v
      BY <1>2, <2>1, VisitAdvances, VisitLeftType
    <2>2. CASE w # v
      BY <1>1, <1>2, <2>2, VisitAdvances
    <2>3. QED
      BY <2>1, <2>2
  <1>3. ASSUME NEW w \in Visits, NEW j \in Jobs, Lease(w, j)
        PROVE  Goal
    <2>1. w # v
      BY <1>3 DEF Lease
    <2>2. visit'[v] = visit[v]
      BY <1>3, <2>1 DEF Lease, TypeOK
    <2>3. QED
      BY <1>1, <2>2
  <1>4. CASE UNCHANGED visit
    BY <1>1, <1>4
  <1>5. QED
    BY <1>2, <1>3, <1>4
    DEF Next, vars, Operate, Enqueue, LoadToCancel, Cancel, LoadToRecover, Recover,
        Abandon, Lapse, Provide

\* However its statements and requests end, a run of advanceProofJob gives its
\* job back to the next tick after at most six steps, the updates of failure_code
\* not counted, and does not change jobs (proofJobs.ts:91-141).
THEOREM VisitsEnd == Spec => [][VisitsRunDown]_vars
  <1>1. TypeOK /\ [Next]_vars => [VisitsRunDown]_vars
    BY StepRunsDown
  <1>2. QED
    BY <1>1, TypeCorrect, PTL DEF Spec
===============================================================================
