---------------------------- MODULE ResearchQueue ----------------------------
(***************************************************************************)
(* glim-think/src/research/queue.ts: enqueueTask, which deduplicates a     *)
(* task against the table research_jobs before it sends it, and            *)
(* consumeBatch, which runs what Cloudflare Queues delivers.               *)
(*                                                                         *)
(* An element of Jobs is one call of enqueueTask and the job id newJobId   *)
(* gives it.  Each statement it sends to D1 is a step of its own, and so   *)
(* is the send; either may be applied although the caller sees an error,   *)
(* and the Worker may end between two of them.                             *)
(*                                                                         *)
(* The queue delivers a message until it is acknowledged, MaxRetries times *)
(* more than once, and then puts it in the dead letter queue.  It delivers *)
(* a message again while its consumer is still at work when the consumer   *)
(* takes too long (wrangler.toml:132).                                     *)
(***************************************************************************)
EXTENDS Naturals

CONSTANTS
    Jobs,        \* calls of enqueueTask
    KeyOf,       \* dedup_key of a call's task
    Consumers,   \* invocations of the queue handler at a time
    MaxRetries   \* max_retries

ASSUME QueueAssumption ==
    /\ Jobs # {}
    /\ DOMAIN KeyOf = Jobs
    /\ Consumers # {}
    /\ MaxRetries \in Nat

Outcome == {"absent", "pending", "success", "failed"}

\* A row: its outcome, and whether started_at is set.  attempts and the other
\* times are written but never read.
Row == [outcome : Outcome, started : BOOLEAN]

Phase == {"new", "checked", "inserted", "delete", "fail",
          "enqueued", "duplicate", "thrown"}

Message == [at : {"unsent", "ready", "leased", "acked", "dead"},
            holder : Consumers, failures : Nat]

\* What the consumer does next: "success" and "failed" are the two outcomes
\* markFinished may record.
Consumer == [at : {"idle", "start", "run", "success", "failed", "ack"}, job : Jobs]

VARIABLES
    row,       \* row[j]: the row of job j in research_jobs
    caller,    \* caller[j]: how far the call of enqueueTask is
    named,     \* named[j]: the job a call answered "duplicate" with
    message,   \* message[j]: the message of job j
    consumer   \* consumer[c]: the invocation c

vars == <<row, caller, named, message, consumer>>

-------------------------------------------------------------------------------
NoRow == [outcome |-> "absent", started |-> FALSE]

\* The holder of a message that is not leased; any one will do.
NoHolder == CHOOSE c \in Consumers : TRUE

Unsent == [at |-> "unsent", holder |-> NoHolder, failures |-> 0]

Idle == [at |-> "idle", job |-> CHOOSE j \in Jobs : TRUE]

Init ==
    /\ row = [j \in Jobs |-> NoRow]
    /\ caller = [j \in Jobs |-> "new"]
    /\ named = [j \in Jobs |-> j]
    /\ message = [j \in Jobs |-> Unsent]
    /\ consumer = [c \in Consumers |-> Idle]

-------------------------------------------------------------------------------
(* enqueueTask.                                                            *)

\* The rows its SELECT may answer with: those of its key that have not failed.
Existing(j) ==
    {k \in Jobs : KeyOf[k] = KeyOf[j] /\ row[k].outcome \in {"pending", "success"}}

Goto(j, phase) == caller' = [caller EXCEPT ![j] = phase]

CheckFindsNone(j) ==
    /\ caller[j] = "new" /\ Existing(j) = {}
    /\ Goto(j, "checked")
    /\ UNCHANGED <<row, named, message, consumer>>

CheckFinds(j) ==
    /\ caller[j] = "new"
    /\ \E k \in Existing(j) : named' = [named EXCEPT ![j] = k]
    /\ Goto(j, "duplicate")
    /\ UNCHANGED <<row, message, consumer>>

Inserted(j) == [row EXCEPT ![j] = [outcome |-> "pending", started |-> FALSE]]

Insert(j) ==
    /\ caller[j] = "checked"
    /\ row' = Inserted(j)
    /\ Goto(j, "inserted")
    /\ UNCHANGED <<named, message, consumer>>

Sent(j) == [message EXCEPT ![j].at = "ready"]

Send(j) ==
    /\ caller[j] = "inserted"
    /\ message' = Sent(j)
    /\ Goto(j, "enqueued")
    /\ UNCHANGED <<row, named, consumer>>

\* Deviation: an error of the send is logged and the call answers "enqueued".
SendFailsQuietly(j) ==
    /\ caller[j] = "inserted"
    /\ message' \in {message, Sent(j)}
    /\ Goto(j, "enqueued")
    /\ UNCHANGED <<row, named, consumer>>

\* The send reports an error; the message may be in the queue all the same.
SendFails(j) ==
    /\ caller[j] = "inserted"
    /\ message' \in {message, Sent(j)}
    /\ Goto(j, "delete")
    /\ UNCHANGED <<row, named, consumer>>

\* Deviation: the row is deleted whatever its outcome.
DeletedAnyway(j) == [row EXCEPT ![j] = NoRow]

\* DELETE ... WHERE job_id = ?1 AND outcome = 'pending'.
Deleted(j) ==
    IF row[j].outcome = "pending" THEN [row EXCEPT ![j] = NoRow] ELSE row

Delete(j) ==
    /\ caller[j] = "delete"
    /\ row' = Deleted(j)
    /\ Goto(j, "thrown")
    /\ UNCHANGED <<named, message, consumer>>

\* UPDATE ... SET outcome = 'failed' ... WHERE ... outcome = 'pending'.
Failed(j) ==
    IF row[j].outcome = "pending" THEN [row EXCEPT ![j].outcome = "failed"] ELSE row

Fail(j) ==
    /\ caller[j] = "fail"
    /\ row' = Failed(j)
    /\ Goto(j, "thrown")
    /\ UNCHANGED <<named, message, consumer>>

\* A statement reports an error; it may have been applied.
StatementFails(j) ==
    /\ \/ caller[j] = "new" /\ row' = row /\ Goto(j, "thrown")
       \/ caller[j] = "checked" /\ row' \in {row, Inserted(j)} /\ Goto(j, "thrown")
       \/ caller[j] = "delete" /\ row' \in {row, Deleted(j)} /\ Goto(j, "fail")
       \/ caller[j] = "fail" /\ row' \in {row, Failed(j)} /\ Goto(j, "thrown")
    /\ UNCHANGED <<named, message, consumer>>

\* The Worker ends before the call answers, which its caller sees as an error.
CallerEnds(j) ==
    /\ caller[j] \in {"checked", "inserted", "delete", "fail"}
    /\ Goto(j, "thrown")
    /\ UNCHANGED <<row, named, message, consumer>>

Enqueue(j) ==
    \/ CheckFindsNone(j) \/ CheckFinds(j) \/ Insert(j) \/ Send(j) \/ SendFails(j)
    \/ Delete(j) \/ Fail(j) \/ StatementFails(j) \/ CallerEnds(j)

-------------------------------------------------------------------------------
(* The queue.                                                              *)

Deliver(j, c) ==
    /\ message[j].at = "ready" /\ consumer[c].at = "idle"
    /\ message' = [message EXCEPT ![j] = [@ EXCEPT !.at = "leased", !.holder = c]]
    /\ consumer' = [consumer EXCEPT ![c] = [at |-> "start", job |-> j]]
    /\ UNCHANGED <<row, caller, named>>

\* An attempt at message j ends without an acknowledgement.
Returned(j) ==
    [message EXCEPT
        ![j] = [at |-> IF @.failures < MaxRetries THEN "ready" ELSE "dead",
                holder |-> NoHolder, failures |-> @.failures + 1]]

Holds(c) == LET m == message[consumer[c].job] IN m.at = "leased" /\ m.holder = c

\* The message becomes visible again under a consumer that is still at work.
Lapse(j) ==
    /\ message[j].at = "leased"
    /\ message' = Returned(j)
    /\ UNCHANGED <<row, caller, named, consumer>>

-------------------------------------------------------------------------------
(* consumeBatch, for the one message of a batch (max_batch_size = 1).      *)

\* The handler throws or ends: the queue takes the message back.
GiveUp(c) ==
    /\ message' = IF Holds(c) THEN Returned(consumer[c].job) ELSE message
    /\ consumer' = [consumer EXCEPT ![c] = Idle]

Advance(c, at) == consumer' = [consumer EXCEPT ![c].at = at]

\* markStarted, an UPDATE by job_id: started_at is set once.
Started(j) ==
    IF row[j].outcome = "absent" THEN row ELSE [row EXCEPT ![j].started = TRUE]

Start(c) ==
    /\ consumer[c].at = "start"
    /\ row' = Started(consumer[c].job)
    /\ Advance(c, "run")
    /\ UNCHANGED <<caller, named, message>>

\* runTask returns, or throws what isPermanentTaskError takes for permanent.
RunEnds(c) ==
    /\ consumer[c].at = "run"
    /\ \E outcome \in {"success", "failed"} : Advance(c, outcome)
    /\ UNCHANGED <<row, caller, named, message>>

\* Deviation: the error is swallowed and the message acknowledged.
RunFailsQuietly(c) ==
    /\ consumer[c].at = "run"
    /\ Advance(c, "ack")
    /\ UNCHANGED <<row, caller, named, message>>

\* Deviation: the handler sends the message again instead of throwing.
RunResends(c) ==
    /\ consumer[c].at = "run"
    /\ message' = IF Holds(c) THEN [message EXCEPT ![consumer[c].job].at = "ready"] ELSE message
    /\ consumer' = [consumer EXCEPT ![c] = Idle]
    /\ UNCHANGED <<row, caller, named>>

\* runTask throws anything else, which consumeBatch throws on.
RunFails(c) ==
    /\ consumer[c].at = "run"
    /\ GiveUp(c)
    /\ UNCHANGED <<row, caller, named>>

\* markFinished, an UPDATE by job_id.
Finished(j, outcome) ==
    IF row[j].outcome = "absent" THEN row ELSE [row EXCEPT ![j].outcome = outcome]

Finish(c) ==
    /\ consumer[c].at \in {"success", "failed"}
    /\ row' = Finished(consumer[c].job, consumer[c].at)
    /\ Advance(c, "ack")
    /\ UNCHANGED <<caller, named, message>>

\* markStarted or markFinished throws; its UPDATE may have been applied.
UpdateFails(c) ==
    LET j == consumer[c].job IN
    /\ \/ consumer[c].at = "start" /\ row' \in {row, Started(j)}
       \/ /\ consumer[c].at \in {"success", "failed"}
          /\ row' \in {row, Finished(j, consumer[c].at)}
    /\ GiveUp(c)
    /\ UNCHANGED <<caller, named>>

\* markStarted, or markFinished of a success, throws what isPermanentTaskError
\* takes for permanent; such an UPDATE was not applied.
UpdateRefused(c) ==
    /\ consumer[c].at \in {"start", "success"}
    /\ Advance(c, "failed")
    /\ UNCHANGED <<row, caller, named, message>>

\* An acknowledgement that comes after the message was returned is ignored.
Ack(c) ==
    /\ consumer[c].at = "ack"
    /\ message' = IF Holds(c)
                  THEN [message EXCEPT ![consumer[c].job] = [@ EXCEPT !.at = "acked",
                                                                      !.holder = NoHolder]]
                  ELSE message
    /\ consumer' = [consumer EXCEPT ![c] = Idle]
    /\ UNCHANGED <<row, caller, named>>

ConsumerEnds(c) ==
    /\ consumer[c].at # "idle"
    /\ GiveUp(c)
    /\ UNCHANGED <<row, caller, named>>

Consume(c) ==
    \/ Start(c) \/ RunEnds(c) \/ RunFails(c) \/ Finish(c) \/ UpdateFails(c)
    \/ UpdateRefused(c) \/ Ack(c) \/ ConsumerEnds(c)

-------------------------------------------------------------------------------
Next ==
    \/ \E j \in Jobs : Enqueue(j) \/ Lapse(j)
    \/ \E j \in Jobs, c \in Consumers : Deliver(j, c)
    \/ \E c \in Consumers : Consume(c)

\* The queue delivers something it has, and some invocation goes on: deliveries
\* and invocations are finite in number, so that none is passed over for ever.
Fairness ==
    /\ WF_vars(\E j \in Jobs, c \in Consumers : Deliver(j, c))
    /\ WF_vars(\E c \in Consumers : Consume(c))

Spec == Init /\ [][Next]_vars

FairSpec == Spec /\ Fairness

-------------------------------------------------------------------------------
TypeOK ==
    /\ row \in [Jobs -> Row]
    /\ caller \in [Jobs -> Phase]
    /\ named \in [Jobs -> Jobs]
    /\ message \in [Jobs -> Message]
    /\ consumer \in [Consumers -> Consumer]

Settled(j) == row[j].outcome \in {"success", "failed"}

\* A job whose call answered "enqueued" is settled, or its message is in the
\* queue, with a consumer or in the dead letter queue: no order of statements,
\* sends, deliveries and failures acknowledges a message whose outcome was not
\* recorded, or leaves a pending row behind a caller that was told all is well.
EnqueuedIsNotLost ==
    \A j \in Jobs : caller[j] = "enqueued" =>
        \/ Settled(j)
        \/ row[j].outcome = "pending" /\ message[j].at \in {"ready", "leased", "dead"}

\* A call answers "duplicate" with a job that is or was in the queue, unless
\* that job's own call got no answer or an error.
DuplicateNamesAJob ==
    \A j \in Jobs : caller[j] = "duplicate" =>
        LET k == named[j] IN
        /\ KeyOf[k] = KeyOf[j]
        /\ \/ message[k].at # "unsent"
           \/ caller[k] \in {"inserted", "delete", "fail", "thrown"}

\* A success that was recorded is never deleted, and becomes a failure only if
\* the message had to be delivered again: a caller that undoes a send it takes
\* for failed leaves alone what a consumer has recorded meanwhile.
SuccessIsKept ==
    [][\A j \in Jobs : row[j].outcome = "success" =>
            \/ row'[j].outcome = "success"
            \/ row'[j].outcome = "failed" /\ message[j].failures > 0]_vars

\* Every message the queue accepts is acknowledged or ends in the dead letter
\* queue, however its consumers fail.
EveryMessageEnds ==
    \A j \in Jobs : message[j].at = "ready" ~> message[j].at \in {"acked", "dead"}

\* queue.ts:17: "The consumer checks research_jobs(dedup_key) before doing the
\* work; duplicates are acked silently."  So none whose key has succeeded is
\* started.
DuplicatesAreNotStarted ==
    [][\A c \in Consumers :
        consumer[c].at = "start" /\ consumer'[c].at = "run" =>
            \A k \in Jobs :
                KeyOf[k] = KeyOf[consumer[c].job] => row[k].outcome # "success"]_vars
===============================================================================
