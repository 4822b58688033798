------------------------------ MODULE ProofJobs ------------------------------
(***************************************************************************)
(* glim-think/src/workspace/proofJobs.ts: proof drafts that a cron submits *)
(* to the provider's batch API, collects, cancels and recovers, recorded   *)
(* in the D1 table proof_jobs.                                             *)
(*                                                                         *)
(* An element of Visits is one run of advanceProofJob for a job.  It takes *)
(* the job's lease, whose poll_token is fresh: the visit itself here.  An  *)
(* element of Operators is one request of the operator.  Every statement   *)
(* to D1 and every request to the provider is a step of its own.  A batch  *)
(* is named by the job whose POST created it, which is its custom_id.      *)
(*                                                                         *)
(* Faults bounds the steps in which something goes wrong: a statement or a *)
(* request that reports an error, applied or not, a visit that ends early, *)
(* and a lease that runs out under a visit that still works.               *)
(***************************************************************************)
EXTENDS Naturals

CONSTANTS
    Jobs,        \* job ids
    AgendaOf,    \* agenda_id of a job
    Visits,      \* visits at a time
    Operators,   \* requests of the operator at a time
    Faults,      \* how often something goes wrong
    None         \* NULL

ASSUME ProofAssumption ==
    /\ Jobs # {} /\ DOMAIN AgendaOf = Jobs
    /\ None \notin Jobs /\ None \notin Visits
    /\ Faults \in Nat

\* How a batch ends.  "failed" stands for an error, an expired batch and a result
\* the job cannot accept.  A job whose batch the provider cancelled gets the status
\* of one that was cancelled before it was posted.
Result == {"candidate_ready", "cancelled", "failed"}

Status == {"absent", "queued", "submitting", "processing", "cancel_requested",
           "completion_unknown"} \cup Result

Row == [status : Status, active : BOOLEAN, batch : Jobs \cup {None},
        cancelSent : BOOLEAN, token : Visits \cup {None}, lapsed : BOOLEAN]

Batch == {"none", "sent", "refused", "running", "canceling"} \cup Result

\* What a visit does next.
Phase == {"idle", "reserve", "post", "posted", "record", "refused", "unknown",
          "cancel", "send", "read", "observe", "close", "release"}

Visit == [at : Phase, job : Jobs, seen : Batch]

Operator == [at : {"idle", "cancel", "recover"}, job : Jobs, batch : Jobs]

VARIABLES
    row,       \* row[j]: the row of job j
    batch,     \* batch[j]: what the provider has of job j
    posts,     \* posts[j]: how often job j was posted
    cancels,   \* cancels[j]: how often a cancellation of job j was posted
    visit,     \* visit[v]: the visit v
    operator,  \* operator[o]: the request o
    faults     \* how often something has gone wrong

vars == <<row, batch, posts, cancels, visit, operator, faults>>

provider == <<batch, posts, cancels>>

-------------------------------------------------------------------------------
SomeJob == CHOOSE j \in Jobs : TRUE

NoRow == [status |-> "absent", active |-> FALSE, batch |-> None,
          cancelSent |-> FALSE, token |-> None, lapsed |-> FALSE]

Idle == [at |-> "idle", job |-> SomeJob, seen |-> "none"]

NoRequest == [at |-> "idle", job |-> SomeJob, batch |-> SomeJob]

Init ==
    /\ row = [j \in Jobs |-> NoRow]
    /\ batch = [j \in Jobs |-> "none"]
    /\ posts = [j \in Jobs |-> 0]
    /\ cancels = [j \in Jobs |-> 0]
    /\ visit = [v \in Visits |-> Idle]
    /\ operator = [o \in Operators |-> NoRequest]
    /\ faults = 0

Fault == faults < Faults /\ faults' = faults + 1

-------------------------------------------------------------------------------
(* The operator: enqueueProof, requestProofCancellation, recoverProofJob.  *)

\* The index proof_one_active_agenda refuses a second active job.
Enqueue(j) ==
    /\ row[j].status = "absent"
    /\ \A k \in Jobs : AgendaOf[k] = AgendaOf[j] => ~row[k].active
    /\ row' = [row EXCEPT ![j] = [@ EXCEPT !.status = "queued", !.active = TRUE]]
    /\ UNCHANGED <<provider, visit, operator, faults>>

Unconfirmed(j) ==
    row[j].status = "completion_unknown" /\ row[j].batch = None /\ row[j].active

\* A cancellation of a job that is closed already finds no row with active=1 to
\* change and is no step here.
LoadToCancel(o, j) ==
    /\ operator[o].at = "idle"
    /\ row[j].active /\ ~Unconfirmed(j)
    /\ operator' = [operator EXCEPT ![o] = [at |-> "cancel", job |-> j, batch |-> j]]
    /\ UNCHANGED <<row, provider, visit, faults>>

\* Deviation: a cancelled job gives its agenda back at once.
CancelledAtOnce(j) ==
    IF row[j].active
    THEN [row EXCEPT ![j] = [@ EXCEPT !.status = "cancelled", !.active = FALSE]]
    ELSE row

\* UPDATE ... WHERE id=? AND active=1.
Cancelled(j) ==
    CASE row[j].active /\ row[j].status = "queued" ->
            [row EXCEPT ![j] = [@ EXCEPT !.status = "cancelled", !.active = FALSE]]
      [] row[j].active /\ row[j].status # "queued" ->
            [row EXCEPT ![j].status = "cancel_requested"]
      [] OTHER -> row

Cancel(o) ==
    /\ operator[o].at = "cancel"
    /\ row' = Cancelled(operator[o].job)
    /\ operator' = [operator EXCEPT ![o] = NoRequest]
    /\ UNCHANGED <<provider, visit, faults>>

\* The operator names any batch that exists.
LoadToRecover(o, j, b) ==
    /\ operator[o].at = "idle"
    /\ Unconfirmed(j) /\ batch[b] \notin {"none", "sent", "refused"}
    /\ operator' = [operator EXCEPT ![o] = [at |-> "recover", job |-> j, batch |-> b]]
    /\ UNCHANGED <<row, provider, visit, faults>>

\* Deviation: a finished batch is enough.
MatchesAnything(j, b) == batch[b] \in Result

\* readBatch has ended, and collectCandidate finds the job's custom_id.
Matches(j, b) == batch[b] \in Result /\ b = j

\* Deviation: only the visit itself gives its lease back.
LeasedForGood(j) == row[j].token # None

Leased(j) == row[j].token # None /\ ~row[j].lapsed

Recovered(j, b) ==
    IF Unconfirmed(j) /\ ~Leased(j)
    THEN [row EXCEPT ![j] = [@ EXCEPT !.batch = b, !.status = batch[b], !.active = FALSE]]
    ELSE row

Recover(o) ==
    /\ operator[o].at = "recover"
    /\ Matches(operator[o].job, operator[o].batch)
    /\ row' = Recovered(operator[o].job, operator[o].batch)
    /\ operator' = [operator EXCEPT ![o] = NoRequest]
    /\ UNCHANGED <<provider, visit, faults>>

\* The request is refused or fails.
Abandon(o) ==
    /\ operator[o].at # "idle"
    /\ operator' = [operator EXCEPT ![o] = NoRequest]
    /\ UNCHANGED <<row, provider, visit, faults>>

Operate ==
    \/ \E j \in Jobs : Enqueue(j)
    \/ \E o \in Operators :
          \/ \E j \in Jobs : LoadToCancel(o, j) \/ \E b \in Jobs : LoadToRecover(o, j, b)
          \/ Cancel(o) \/ Recover(o) \/ Abandon(o)

-------------------------------------------------------------------------------
(* advanceProofJob.                                                        *)

\* Only what Read saw is kept, and only as long as it is used.
Goto(v, at) ==
    visit' = [visit EXCEPT ![v] =
                 [@ EXCEPT !.at = at,
                           !.seen = IF at = "close" THEN visit[v].seen ELSE "none"]]

FirstPhase(r) ==
    CASE r.batch = None /\ r.status = "queued" -> "reserve"
      [] r.batch = None /\ r.status # "queued" -> "unknown"
      [] r.batch # None /\ r.status = "cancel_requested" /\ ~r.cancelSent -> "cancel"
      [] OTHER -> "read"

\* The SELECT of tickProofJobs may be older than the row by now; what counts
\* is the UPDATE ... WHERE active=1 AND (poll_until IS NULL OR poll_until < ?).
Lease(v, j) ==
    /\ visit[v].at = "idle"
    /\ row[j].active /\ ~Leased(j)
    /\ row' = [row EXCEPT ![j] = [@ EXCEPT !.token = v, !.lapsed = FALSE]]
    /\ visit' = [visit EXCEPT ![v] = [at |-> FirstPhase(row[j]), job |-> j, seen |-> "none"]]
    /\ UNCHANGED <<provider, operator, faults>>

\* Deviation: an update by job id alone.
HoldsAnything(v) == row[visit[v].job].status # "absent"

\* The condition of every update: poll_token=? AND active=1.
Holds(v) == LET r == row[visit[v].job] IN r.token = v /\ r.active

\* Deviation: the reservation does not look at the status.
ReservableAnyhow(v) == row[visit[v].job].active

Reservable(v) == Holds(v) /\ row[visit[v].job].status = "queued"

Reserved(v) ==
    IF Reservable(v) THEN [row EXCEPT ![visit[v].job].status = "submitting"] ELSE row

Reserve(v) ==
    /\ visit[v].at = "reserve"
    /\ row' = Reserved(v)
    /\ Goto(v, IF Reservable(v) THEN "post" ELSE "release")
    /\ UNCHANGED <<provider, operator, faults>>

\* A terminal status, with active=0.
Closed(v, status) ==
    IF Holds(v)
    THEN [row EXCEPT ![visit[v].job] = [@ EXCEPT !.status = status, !.active = FALSE]]
    ELSE row

\* The configured budget has become smaller than the request's.
BudgetReduced(v) ==
    /\ visit[v].at = "reserve"
    /\ row' = Closed(v, "failed")
    /\ Goto(v, "release")
    /\ UNCHANGED <<provider, operator, faults>>

Post(v) ==
    LET j == visit[v].job IN
    /\ visit[v].at = "post"
    /\ posts' = [posts EXCEPT ![j] = @ + 1]
    /\ batch' = [batch EXCEPT ![j] = "sent"]
    /\ Goto(v, "posted")
    /\ UNCHANGED <<row, cancels, operator, faults>>

PostAnswered(v) ==
    LET b == batch[visit[v].job] IN
    /\ visit[v].at = "posted" /\ b # "sent"
    /\ Goto(v, IF b = "refused" THEN "refused" ELSE "record")
    /\ UNCHANGED <<row, provider, operator, faults>>

\* Deviation: every error of the POST counts as definitive.
PostLostMeansFailed(v) ==
    /\ visit[v].at = "posted" /\ Fault
    /\ Goto(v, "refused")
    /\ UNCHANGED <<row, provider, operator>>

\* An error that is not definitive: the batch may exist, or exist later.
PostLost(v) ==
    /\ visit[v].at = "posted" /\ Fault
    /\ Goto(v, "unknown")
    /\ UNCHANGED <<row, provider, operator>>

Recorded(v) ==
    LET j == visit[v].job IN
    IF Holds(v)
    THEN [row EXCEPT ![j] =
             [@ EXCEPT !.status = IF row[j].status = "cancel_requested"
                                  THEN "cancel_requested" ELSE "processing",
                       !.batch = j]]
    ELSE row

Record(v) ==
    /\ visit[v].at = "record"
    /\ row' = Recorded(v)
    /\ Goto(v, "release")
    /\ UNCHANGED <<provider, operator, faults>>

Refused(v) ==
    /\ visit[v].at = "refused"
    /\ row' = Closed(v, "failed")
    /\ Goto(v, "release")
    /\ UNCHANGED <<provider, operator, faults>>

MarkedUnknown(v) ==
    IF Holds(v) THEN [row EXCEPT ![visit[v].job].status = "completion_unknown"] ELSE row

MarkUnknown(v) ==
    /\ visit[v].at = "unknown"
    /\ row' = MarkedUnknown(v)
    /\ Goto(v, "release")
    /\ UNCHANGED <<provider, operator, faults>>

CancelReservable(v) == Holds(v) /\ ~row[visit[v].job].cancelSent

CancelReserved(v) ==
    IF CancelReservable(v) THEN [row EXCEPT ![visit[v].job].cancelSent = TRUE] ELSE row

ReserveCancel(v) ==
    /\ visit[v].at = "cancel"
    /\ row' = CancelReserved(v)
    /\ Goto(v, IF CancelReservable(v) THEN "send" ELSE "read")
    /\ UNCHANGED <<provider, operator, faults>>

\* Whether the provider acts on it or not, an error changes nothing here.
SendCancel(v) ==
    LET j == visit[v].job IN
    /\ visit[v].at = "send"
    /\ cancels' = [cancels EXCEPT ![j] = @ + 1]
    /\ batch' \in {batch, IF batch[j] = "running"
                          THEN [batch EXCEPT ![j] = "canceling"] ELSE batch}
    /\ Goto(v, "read")
    /\ UNCHANGED <<row, posts, operator, faults>>

\* readBatch; the answer may be old by the time the visit records it.
Read(v) ==
    /\ visit[v].at = "read"
    /\ visit' = [visit EXCEPT ![v] = [@ EXCEPT !.at = "observe",
                                               !.seen = batch[visit[v].job]]]
    /\ UNCHANGED <<row, provider, operator, faults>>

Observed(v) ==
    IF Holds(v)
    THEN [row EXCEPT ![visit[v].job].status =
             IF @ = "cancel_requested" \/ visit[v].seen = "canceling"
             THEN "cancel_requested" ELSE "processing"]
    ELSE row

Observe(v) ==
    /\ visit[v].at = "observe"
    /\ row' = Observed(v)
    /\ Goto(v, IF visit[v].seen \in Result THEN "close" ELSE "release")
    /\ UNCHANGED <<provider, operator, faults>>

\* collectCandidate: the outcome of the batch, or no result the job accepts.
Close(v) ==
    /\ visit[v].at = "close"
    /\ row' \in {Closed(v, visit[v].seen), Closed(v, "failed")}
    /\ Goto(v, "release")
    /\ UNCHANGED <<provider, operator, faults>>

Released(v) ==
    LET j == visit[v].job IN
    IF row[j].token = v
    THEN [row EXCEPT ![j] = [@ EXCEPT !.token = None, !.lapsed = FALSE]] ELSE row

Release(v) ==
    /\ visit[v].at = "release"
    /\ row' = Released(v)
    /\ visit' = [visit EXCEPT ![v] = Idle]
    /\ UNCHANGED <<provider, operator, faults>>

\* What the statement of a visit's phase does to the table.
Effects(v) ==
    CASE visit[v].at = "reserve" -> {Reserved(v), Closed(v, "failed")}
      [] visit[v].at = "record" -> {Recorded(v)}
      [] visit[v].at = "refused" -> {Closed(v, "failed")}
      [] visit[v].at = "unknown" -> {MarkedUnknown(v)}
      [] visit[v].at = "cancel" -> {CancelReserved(v)}
      [] visit[v].at = "observe" -> {Observed(v)}
      [] visit[v].at = "close" -> {Closed(v, visit[v].seen), Closed(v, "failed")}
      [] OTHER -> {}

\* A statement reports an error, or is not reached because the stored request is
\* invalid or the configuration not ready.  Only that of Record has a handler nearer
\* than the one that ends the visit: the submission counts as unconfirmed.
StatementFails(v) ==
    /\ Fault
    /\ row' \in {row} \cup Effects(v) /\ Effects(v) # {}
    /\ Goto(v, IF visit[v].at = "record" THEN "unknown" ELSE "release")
    /\ UNCHANGED <<provider, operator>>

\* A GET fails for now.
ReadFails(v) ==
    /\ visit[v].at \in {"read", "close"} /\ Fault
    /\ Goto(v, "release")
    /\ UNCHANGED <<row, provider, operator>>

\* The Worker ends, or releasing the lease fails.
VisitEnds(v) ==
    /\ visit[v].at # "idle" /\ Fault
    /\ visit' = [visit EXCEPT ![v] = Idle]
    /\ UNCHANGED <<row, provider, operator>>

Advance(v) ==
    \/ Reserve(v) \/ BudgetReduced(v) \/ Post(v) \/ PostAnswered(v) \/ Record(v)
    \/ Refused(v) \/ MarkUnknown(v) \/ ReserveCancel(v) \/ SendCancel(v) \/ Read(v)
    \/ Observe(v) \/ Close(v) \/ Release(v)

Disturb(v) == PostLost(v) \/ StatementFails(v) \/ ReadFails(v) \/ VisitEnds(v)

-------------------------------------------------------------------------------
(* Time and the provider.                                                  *)

Working(j) == \E v \in Visits : visit[v].at # "idle" /\ visit[v].job = j /\ row[j].token = v

\* poll_until passes: for a visit that still works that is a fault.
Lapse(j) ==
    /\ Leased(j) /\ row[j].active
    /\ IF Working(j) THEN Fault ELSE UNCHANGED faults
    /\ row' = [row EXCEPT ![j].lapsed = TRUE]
    /\ UNCHANGED <<provider, visit, operator>>

Provide(j) ==
    /\ \/ batch[j] = "sent" /\ \E b \in {"running", "refused"} : batch' = [batch EXCEPT ![j] = b]
       \/ batch[j] \in {"running", "canceling"}
          /\ \E r \in Result : batch' = [batch EXCEPT ![j] = r]
    /\ UNCHANGED <<row, posts, cancels, visit, operator, faults>>

Next ==
    \/ Operate
    \/ \E v \in Visits : Advance(v) \/ Disturb(v) \/ \E j \in Jobs : Lease(v, j)
    \/ \E j \in Jobs : Lapse(j) \/ Provide(j)

\* The cron keeps visiting, a visit goes on, leases run out, batches end.
Fairness ==
    /\ \A v \in Visits : WF_vars(visit[v].at # "idle" /\ Advance(v))
    /\ \A j \in Jobs :
          /\ WF_vars(Provide(j))
          /\ WF_vars(Lapse(j) /\ ~Working(j))
          /\ SF_vars(\E v \in Visits : Lease(v, j))

Spec == Init /\ [][Next]_vars

FairSpec == Spec /\ Fairness

-------------------------------------------------------------------------------
TypeOK ==
    /\ row \in [Jobs -> Row]
    /\ batch \in [Jobs -> Batch]
    /\ posts \in [Jobs -> Nat]
    /\ cancels \in [Jobs -> Nat]
    /\ visit \in [Visits -> Visit]
    /\ operator \in [Operators -> Operator]
    /\ faults \in 0..Faults

\* However visits overlap, end or lose answers, a job is posted to the provider
\* at most once, and so is its cancellation.
SubmittedOnce == \A j \in Jobs : posts[j] <= 1 /\ cancels[j] <= 1

\* A job gives its agenda back only when its inference is over: it was never
\* posted, the provider refused it, or its own batch has ended and is recorded.
ReservationKept ==
    \A j \in Jobs : ~row[j].active /\ batch[j] \notin {"none", "refused"} =>
        row[j].batch = j /\ batch[j] \in Result

\* A job never shows the batch or the candidate of another one, nor that it was
\* cancelled when its own inference was not.
ResultIsOwn ==
    \A j \in Jobs :
        /\ row[j].batch \in {None, j}
        /\ row[j].status = "candidate_ready" => batch[j] = "candidate_ready"
        /\ row[j].status = "cancelled" => batch[j] \in {"none", "cancelled"}

\* No two inferences of one agenda are in flight at a time.
OneInferencePerAgenda ==
    \A j, k \in Jobs :
        /\ j # k /\ AgendaOf[j] = AgendaOf[k]
        => ~(batch[j] \in {"sent", "running", "canceling"}
             /\ batch[k] \in {"sent", "running", "canceling"})

\* Nothing a late visit or request does changes the outcome of a closed job.
ClosedIsFinal ==
    [][\A j \in Jobs : row[j].status # "absent" /\ ~row[j].active =>
          /\ ~row'[j].active
          /\ row'[j].status = row[j].status /\ row'[j].batch = row[j].batch]_vars

\* Every job is closed, or is left to the operator as an unconfirmed submission.
EveryJobSettles ==
    \A j \in Jobs : row[j].status = "queued" ~> ~row[j].active \/ Unconfirmed(j)

-------------------------------------------------------------------------------
(* Refinement.                                                             *)

\* A job as its agenda sees it.
Stage(j) ==
    CASE row[j].status = "absent" -> "new"
      [] row[j].status # "absent" /\ row[j].active -> "open"
      [] OTHER -> row[j].status

\* A batch that may still cost something runs.
Inference(j) == IF batch[j] \in {"sent", "running", "canceling"} THEN "running" ELSE batch[j]

\* The agenda that the table and the provider stand for together.
Agenda == INSTANCE ProofAgenda WITH
    state <- [j \in Jobs |-> Stage(j)],
    inference <- [j \in Jobs |-> Inference(j)]

\* However visits, operators, lost answers and lapsed leases interleave, an
\* agenda pays for one inference at a time and a job for one altogether, and a
\* job is closed once, with what its own inference gave (proofJobs.ts:35-141).
ImplementsProofAgenda == Agenda!Spec
===============================================================================
