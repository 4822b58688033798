------------------------------ MODULE BridgeJobs ------------------------------
(***************************************************************************)
(* glim-think/src/bridge/jobs.ts: the table herdr_bridge_jobs of the       *)
(* control plane and the routes by which machines claim jobs and post      *)
(* their results, for clients that may ask anything at any time.           *)
(*                                                                         *)
(* An element of Calls is one HTTP request in the Worker.  Each statement  *)
(* it sends to D1 is a step of its own, so that the statements of several  *)
(* requests interleave; a statement is atomic, and D1 may report an error  *)
(* for one that it has applied.                                            *)
(*                                                                         *)
(* Time is a set: overdue holds the claims whose claim_expires_at has      *)
(* passed.  claim_token is a fresh UUID per claim of a job; it is named by *)
(* the value of attempts that the claim produced.                          *)
(***************************************************************************)
EXTENDS Naturals

CONSTANTS
    Jobs,        \* job ids
    Machines,    \* machine ids
    MachineOf,   \* machine_id of a job
    Seconds,     \* values of created_at
    Calls        \* requests the Worker serves at a time

ASSUME JobAssumption ==
    /\ Jobs # {}
    /\ MachineOf \in [Jobs -> Machines]
    /\ Seconds \subseteq Nat /\ Seconds # {}

Terminal == {"done", "failed", "blocked", "timeout"}

Status == {"absent", "pending", "claimed"} \cup Terminal

\* What a POST of a result carries; its digest is result_fingerprint.
Body == [machine : Machines, claim : Nat, outcome : Terminal]

NoBody == [machine |-> "none", claim |-> 0, outcome |-> "none"]

Row == [status : Status, created : Nat, attempts : Nat, uncertain : BOOLEAN,
        result : Body \cup {NoBody}]

Phase == {"free", "expire", "claim", "load", "close", "answered"}

Answer == {"none", "claimed", "ok", "rejected", "error"}

\* "next" is GET /bridge/jobs/next, "result" is POST /bridge/jobs/:id/result.
Call == [phase : Phase, kind : {"next", "result"}, machine : Machines,
         job : Jobs, body : Body \cup {NoBody}, answer : Answer]

VARIABLES
    row,      \* row[j]: the row of job j
    overdue,  \* the claims whose claim_expires_at has passed
    call      \* call[c]: the request c

vars == <<row, overdue, call>>

-------------------------------------------------------------------------------
Absent == [status |-> "absent", created |-> 0, attempts |-> 0,
           uncertain |-> FALSE, result |-> NoBody]

Free == [phase |-> "free", kind |-> "next", machine |-> CHOOSE m \in Machines : TRUE,
         job |-> CHOOSE j \in Jobs : TRUE, body |-> NoBody, answer |-> "none"]

Init ==
    /\ row = [j \in Jobs |-> Absent]
    /\ overdue = {}
    /\ call = [c \in Calls |-> Free]

-------------------------------------------------------------------------------
(* The statements.                                                         *)

\* Deviation: every claim is taken for an overdue one.
ExpiredEarly(who) ==
    [j \in Jobs |->
        IF row[j].status = "claimed" /\ MachineOf[j] \in who
        THEN [row[j] EXCEPT !.status = "timeout", !.uncertain = TRUE]
        ELSE row[j]]

\* expireClaims: expiry is uncertainty, not permission to run again.
Expired(who) ==
    [j \in Jobs |->
        IF row[j].status = "claimed" /\ j \in overdue /\ MachineOf[j] \in who
        THEN [row[j] EXCEPT !.status = "timeout", !.uncertain = TRUE]
        ELSE row[j]]

\* Deviation: a job whose outcome is uncertain may be claimed again.
PendingOrUncertain(m) ==
    {j \in Jobs : MachineOf[j] = m /\ (row[j].status = "pending" \/ row[j].uncertain)}

Pending(m) ==
    {j \in Jobs : MachineOf[j] = m /\ row[j].status = "pending" /\ row[j].attempts = 0}

\* Job ids are random, so of the jobs of one second any may come first.
Oldest(m) ==
    {j \in Pending(m) : \A k \in Pending(m) : row[j].created <= row[k].created}

\* Deviation: an overdue claim does not count.
BusyUnlessOverdue(m) ==
    \E j \in Jobs : MachineOf[j] = m /\ row[j].status = "claimed" /\ j \notin overdue

Busy(m) == \E j \in Jobs : MachineOf[j] = m /\ row[j].status = "claimed"

\* Deviation: the claim token is not compared.
OwnsMachineOnly(c) ==
    row[call[c].job].attempts > 0 /\ MachineOf[call[c].job] = call[c].body.machine

\* The result carries the machine and the token of the job's claim.
Owns(c) ==
    LET j == call[c].job  b == call[c].body IN
    /\ row[j].attempts > 0
    /\ MachineOf[j] = b.machine
    /\ row[j].attempts = b.claim

Reply(c, a) == call' = [call EXCEPT ![c] = [@ EXCEPT !.phase = "answered", !.answer = a]]

Goto(c, p) == call' = [call EXCEPT ![c].phase = p]

-------------------------------------------------------------------------------
(* Requests and the clock.                                                 *)

\* POST /bridge/jobs, or a scientific handoff: one INSERT.  Isolates read
\* clocks of their own, so created_at need not follow the order of the INSERTs.
Enqueue(j, n) ==
    /\ row[j].status = "absent"
    /\ row' = [row EXCEPT ![j] = [Absent EXCEPT !.status = "pending", !.created = n]]
    /\ UNCHANGED <<overdue, call>>

ClaimRunsOut(j) ==
    /\ row[j].status = "claimed"
    /\ overdue' = overdue \cup {j}
    /\ UNCHANGED <<row, call>>

AskNext(c, m) ==
    /\ call[c].phase = "free"
    /\ call' = [call EXCEPT ![c] = [Free EXCEPT !.phase = "expire", !.machine = m]]
    /\ UNCHANGED <<row, overdue>>

PostResult(c, j, b) ==
    /\ call[c].phase = "free"
    /\ call' = [call EXCEPT ![c] = [Free EXCEPT !.phase = "expire", !.kind = "result",
                                                !.machine = b.machine, !.job = j,
                                                !.body = b]]
    /\ UNCHANGED <<row, overdue>>

\* GET /bridge/jobs/:id expires overdue claims as well.
ReadJob ==
    /\ row' = Expired(Machines)
    /\ UNCHANGED <<overdue, call>>

\* The answer reaches the client, or nobody waits for it any longer.
Return(c) ==
    /\ call[c].phase = "answered"
    /\ call' = [call EXCEPT ![c] = Free]
    /\ UNCHANGED <<row, overdue>>

-------------------------------------------------------------------------------
(* The handlers.                                                           *)

ServeExpire(c) ==
    /\ call[c].phase = "expire"
    /\ LET next == call[c].kind = "next" IN
       /\ row' = Expired(IF next THEN {call[c].machine} ELSE Machines)
       /\ Goto(c, IF next THEN "claim" ELSE "load") \/ Reply(c, "error")
    /\ UNCHANGED overdue

\* claimNextBridgeJob: only a job that was never claimed, and only while the
\* machine has no claim.
ServeClaim(c) ==
    /\ call[c].phase = "claim"
    /\ ~Busy(call[c].machine)
    /\ \E j \in Oldest(call[c].machine) :
          /\ row' = [row EXCEPT ![j] = [@ EXCEPT !.status = "claimed",
                                                 !.attempts = row[j].attempts + 1]]
          /\ \/ call' = [call EXCEPT ![c] = [@ EXCEPT !.phase = "answered",
                                                      !.answer = "claimed",
                                                      !.job = j]]
             \/ Reply(c, "error")
    /\ UNCHANGED overdue

\* Nothing to claim: poll again after LONG_POLL_STEP_MS, or 204.
ServeNothing(c) ==
    /\ call[c].phase = "claim"
    /\ Busy(call[c].machine) \/ Pending(call[c].machine) = {}
    /\ Goto(c, "expire") \/ Reply(c, "none")
    /\ UNCHANGED <<row, overdue>>

\* Deviation: every result for a terminal row is acknowledged.
ServeLoadLeniently(c) ==
    LET j == call[c].job IN
    /\ call[c].phase = "load"
    /\ \/ ~Owns(c) /\ Reply(c, "rejected")
       \/ Owns(c) /\ row[j].status \in Terminal /\ Reply(c, "ok")
       \/ /\ Owns(c)
          /\ row[j].status = "claimed"
          /\ IF j \in overdue THEN Reply(c, "rejected") ELSE Goto(c, "close")
    /\ UNCHANGED <<row, overdue>>

\* loadJob and the checks on the row that was read.
ServeLoad(c) ==
    LET j == call[c].job  b == call[c].body IN
    /\ call[c].phase = "load"
    /\ \/ /\ ~Owns(c)
          /\ Reply(c, "rejected")
       \/ /\ Owns(c)
          /\ row[j].status \in Terminal
          /\ Reply(c, IF row[j].result = b THEN "ok" ELSE "rejected")
       \/ /\ Owns(c)
          /\ row[j].status = "claimed"
          /\ IF j \in overdue THEN Reply(c, "rejected") ELSE Goto(c, "close")
    /\ UNCHANGED <<row, overdue>>

\* Deviation: the UPDATE does not ask for a claimed row.
ServeCloseAnyStatus(c) ==
    LET j == call[c].job  b == call[c].body IN
    /\ call[c].phase = "close"
    /\ Owns(c)
    /\ row' = [row EXCEPT ![j] = [@ EXCEPT !.status = b.outcome,
                                           !.uncertain = (b.outcome = "timeout"),
                                           !.result = b]]
    /\ Reply(c, "ok") \/ Reply(c, "error")
    /\ UNCHANGED overdue

\* The clock was read with the row: a claim that runs out between the two
\* statements is still closed, unless another request has expired it.
ServeClose(c) ==
    LET j == call[c].job  b == call[c].body IN
    /\ call[c].phase = "close"
    /\ \/ /\ row[j].status = "claimed" /\ Owns(c)
          /\ row' = [row EXCEPT ![j] = [@ EXCEPT !.status = b.outcome,
                                                 !.uncertain = (b.outcome = "timeout"),
                                                 !.result = b]]
          /\ Reply(c, "ok") \/ Reply(c, "error")
       \/ /\ ~(row[j].status = "claimed" /\ Owns(c))
          /\ Reply(c, "rejected")
          /\ UNCHANGED row
    /\ UNCHANGED overdue

\* A statement fails and is not applied.
ServeError(c) ==
    /\ call[c].phase \in {"expire", "claim", "load", "close"}
    /\ Reply(c, "error")
    /\ UNCHANGED <<row, overdue>>

Serve(c) ==
    \/ ServeExpire(c) \/ ServeClaim(c) \/ ServeNothing(c)
    \/ ServeLoad(c) \/ ServeClose(c) \/ ServeError(c)

Next ==
    \/ \E j \in Jobs, n \in Seconds : Enqueue(j, n)
    \/ \E j \in Jobs : ClaimRunsOut(j)
    \/ ReadJob
    \/ \E c \in Calls :
          \/ Serve(c) \/ Return(c)
          \/ \E m \in Machines : AskNext(c, m)
          \/ \E j \in Jobs, m \in Machines, o \in Terminal :
             \E n \in {0, row[j].attempts} :
                PostResult(c, j, [machine |-> m, claim |-> n, outcome |-> o])

Spec == Init /\ [][Next]_vars

-------------------------------------------------------------------------------
(* Properties.                                                             *)

\* Every variable stays in the set of values it is meant for.
TypeOK ==
    /\ row \in [Jobs -> Row]
    /\ overdue \subseteq Jobs
    /\ call \in [Calls -> Call]

\* A machine never holds two claims at a time, however many bridge processes
\* poll for it (claimNextBridgeJob, jobs.ts:187-196).
OneClaimPerMachine ==
    \A j, k \in Jobs :
        row[j].status = "claimed" /\ row[k].status = "claimed"
            /\ MachineOf[j] = MachineOf[k] => j = k

\* No job is handed out twice: an expired claim, a lost answer or a failed
\* statement never makes a job claimable again ("No claim is automatically
\* replayed after expiry", jobs.ts:5).
NeverReplayed ==
    \A j \in Jobs :
        /\ row[j].attempts <= 1
        /\ row[j].status \notin {"absent", "pending"} => row[j].attempts = 1

\* A terminal job is final: no late, repeated or competing result and no
\* expiry changes its row.
KeepsTerminal ==
    \A j \in Jobs : row[j].status \in Terminal => row'[j] = row[j]

TerminalIsFinal == [][KeepsTerminal]_row

\* A recorded result was posted with the claim of its own job and is what the
\* row says; a terminal job without one is an uncertain timeout, and every
\* timeout is uncertain.
ResultsAreFenced ==
    \A j \in Jobs : row[j].status \in Terminal =>
        /\ \/ /\ row[j].result.machine = MachineOf[j]
              /\ row[j].result.claim = row[j].attempts
              /\ row[j].result.outcome = row[j].status
           \/ row[j].result = NoBody /\ row[j].status = "timeout"
        /\ row[j].uncertain <=> row[j].status = "timeout"

\* A client that is told "ok" finds exactly its own result in the table, from
\* then on, also when the answer is to a repeated post.
OkMeansRecorded ==
    \A c \in Calls : call[c].answer = "ok" => row[call[c].job].result = call[c].body

-------------------------------------------------------------------------------
(* Refinement.                                                             *)

\* Where a job is on the board: a timeout without a result is an expiry.
Place(j) ==
    CASE row[j].status = "absent"  -> "new"
      [] row[j].status = "pending" -> "waiting"
      [] row[j].status = "claimed" -> "held"
      [] OTHER -> IF row[j].result = NoBody THEN "unknown" ELSE row[j].status

Offered == {call[c].job : c \in {d \in Calls : call[d].answer = "claimed"}}

Confirmed ==
    {<<call[c].job, call[c].body.outcome>> : c \in {d \in Calls : call[d].answer = "ok"}}

\* The job board that the table and its routes show to the machines.
Board == INSTANCE JobBoard WITH
    state <- [j \in Jobs |-> Place(j)],
    offered <- Offered,
    confirmed <- Confirmed,
    Outcomes <- Terminal

\* Whatever clients ask and however statements of several requests interleave
\* and fail, the routes implement the job board: one hand-out and one end for
\* each job, and no answer that the board does not bear out (jobs.ts:175-350).
ImplementsJobBoard == Board!Spec

===============================================================================
