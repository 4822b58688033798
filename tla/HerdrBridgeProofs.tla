--------------------------- MODULE HerdrBridgeProofs ---------------------------
(***************************************************************************)
(* Proofs about HerdrBridge, for every number of daemons, machines, jobs,  *)
(* requests and faults.  What BridgeJobsProofs shows of the table for      *)
(* clients that may ask anything is used here for the daemons.             *)
(***************************************************************************)
EXTENDS HerdrBridge, TLAPS

Proofs == INSTANCE BridgeJobsProofs

Working == {"claimed", "started", "prompted", "reporting"}

\* Daemon b works on job j.
Owner(b, j) == mode[b] \in Working /\ held[b].job = j

\* The answer that hands j out is on its way.
Ticket(c, j) == call[c].answer = "claimed" /\ call[c].job = j

\* c posts a result of j.
Posted(c, j) == call[c].kind = "result" /\ call[c].job = j

Evidence(j) == prompts[j] = 1 /\ agent[j] = "answered"

\* j was handed out and no result of it was posted.
Undecided(j) ==
    /\ row[j].attempts = 1
    /\ row[j].status = "claimed" \/ (row[j].status = "timeout" /\ j \in overdue)
    /\ \A c \in Calls : ~Posted(c, j)

\* The table says what became of the job of b.
Secured(b) ==
    LET j == held[b].job IN
    \/ row[j].status \in Table!Terminal /\ row[j].result = Result(b)
    \/ row[j].status = "timeout" /\ j \in overdue

\* A job on its way to a daemon is with nobody else.
TicketInv(c, j) ==
    Ticket(c, j) =>
        /\ Undecided(j) /\ prompts[j] = 0
        /\ \A d \in Calls : Ticket(d, j) => d = c
        /\ \A b \in Bridges : ~Owner(b, j)

\* A daemon is alone with its job, and what it may still do with it fits what
\* was done.
OwnerInv(b, j) ==
    Owner(b, j) =>
        /\ held[b].claim = 1 /\ row[j].attempts = 1
        /\ \A e \in Bridges : Owner(e, j) => e = b
        /\ mode[b] \in {"claimed", "started"} => prompts[j] = 0
        /\ mode[b] = "started" => j \in open
        /\ mode[b] = "prompted" => prompts[j] = 1
        /\ mode[b] # "reporting" => Undecided(j)

\* All requests that post a result of the job of b post the same one.
ReportInv(b, j) ==
    Owner(b, j) /\ mode[b] = "reporting" =>
        /\ row[j].status = "claimed" \/ Secured(b)
        /\ outcome[b] = "done" /\ j \in Hermes => Evidence(j)
        /\ \A c \in Calls : Posted(c, j) =>
              /\ call[c].body = Result(b)
              /\ call[c].answer = "rejected" =>
                    Secured(b) \/ (row[j].status = "claimed" /\ j \in overdue)

\* A daemon waits for a request of its own.
WaitInv(b, c) ==
    c \in waiting[b] =>
        /\ call[c].phase # "free"
        /\ mode[b] \in {"polling", "reporting"}
        /\ mode[b] = "reporting" => Posted(c, held[b].job)
        /\ \A e \in Bridges : c \in waiting[e] => e = b

\* A posted result carries the claim of its job.
PostInv(c, j) ==
    /\ call[c].phase = "claim" => call[c].kind = "next"
    /\ Posted(c, j) =>
          /\ row[j].attempts = 1
          /\ call[c].body.machine = MachineOf[j] /\ call[c].body.claim = 1
          /\ call[c].body.outcome = "done" /\ j \in Hermes => Evidence(j)

\* What the prompts and the agent of a job say.
JobInv(j) ==
    /\ prompts[j] <= row[j].attempts /\ prompts[j] <= 1
    /\ j \in Hermes =>
          /\ row[j].status = "done" => Evidence(j)
          /\ agent[j] \in {"working", "asking"} /\ Keep # "never" => j \in open

DaemonInv ==
    /\ \A j \in Jobs :
          /\ JobInv(j)
          /\ \A c \in Calls : TicketInv(c, j) /\ PostInv(c, j)
          /\ \A b \in Bridges : OwnerInv(b, j) /\ ReportInv(b, j)
    /\ \A b \in Bridges, c \in Calls : WaitInv(b, c)

IInv == TypeOK /\ Proofs!IInv /\ DaemonInv

-------------------------------------------------------------------------------
(* The table of HerdrBridge is the one of BridgeJobsProofs.                *)

LEMMA SameInit == Table!Init => Proofs!Init
  BY DEF Table!Init, Proofs!Init, Table!Absent, Proofs!Absent, Table!Free, Proofs!Free,
         Table!NoBody, Proofs!NoBody

LEMMA SameType == Table!TypeOK <=> Proofs!TypeOK
  BY DEF Table!TypeOK, Proofs!TypeOK, Table!Row, Proofs!Row, Table!Status, Proofs!Status,
         Table!Terminal, Proofs!Terminal, Table!Body, Proofs!Body, Table!NoBody,
         Proofs!NoBody, Table!Call, Proofs!Call, Table!Phase, Proofs!Phase,
         Table!Answer, Proofs!Answer

LEMMA SameNext == [Table!Next]_Table!vars <=> [Proofs!Next]_Proofs!vars
  BY DEF Table!vars, Proofs!vars, Table!Next, Proofs!Next, Table!Serve, Proofs!Serve,
         Table!ServeExpire, Proofs!ServeExpire, Table!ServeClaim, Proofs!ServeClaim,
         Table!ServeNothing, Proofs!ServeNothing, Table!ServeLoad, Proofs!ServeLoad,
         Table!ServeClose, Proofs!ServeClose, Table!ServeError, Proofs!ServeError,
         Table!Expired, Proofs!Expired, Table!Pending, Proofs!Pending,
         Table!Oldest, Proofs!Oldest, Table!Busy, Proofs!Busy, Table!Owns, Proofs!Owns,
         Table!Reply, Proofs!Reply, Table!Goto, Proofs!Goto,
         Table!Terminal, Proofs!Terminal, Table!Absent, Proofs!Absent,
         Table!Free, Proofs!Free, Table!NoBody, Proofs!NoBody,
         Table!Enqueue, Proofs!Enqueue, Table!ClaimRunsOut, Proofs!ClaimRunsOut,
         Table!ReadJob, Proofs!ReadJob, Table!Return, Proofs!Return,
         Table!AskNext, Proofs!AskNext, Table!PostResult, Proofs!PostResult

LEMMA TableInvariant ==
  ASSUME Proofs!IInv, [Table!Next]_Table!vars
  PROVE  Proofs!IInv'
  BY TableAssumption, SameNext, Proofs!InvStep

\* What the proofs about the table say of a row and of a request.
LEMMA TableTypes ==
  ASSUME Proofs!IInv
  PROVE  /\ Table!TypeOK
         /\ \A j \in Jobs :
               /\ row[j].status \in {"absent", "pending"} => row[j].attempts = 0
               /\ row[j].status \in {"claimed"} \cup Table!Terminal => row[j].attempts = 1
         /\ \A c \in Calls :
               /\ call[c].phase \in {"load", "close"} => call[c].kind = "result"
               /\ call[c].kind = "result" => call[c].body \in Table!Body
  BY SameType DEF Proofs!IInv, Proofs!RowInv, Proofs!CallInv, Proofs!Terminal, Table!Terminal,
                  Proofs!Body, Table!Body

-------------------------------------------------------------------------------
(* What the Worker, the clock and operators do to a row and to a request.  *)

\* A row is inserted, handed out, expired after its deadline or closed by a
\* posted result.
RowEffect(j) ==
    \/ row'[j] = row[j]
    \/ row[j].status = "absent" /\ row'[j].status = "pending" /\ row'[j].attempts = 0
    \/ /\ row[j].status = "pending" /\ row[j].attempts = 0
       /\ row'[j].status = "claimed" /\ row'[j].attempts = 1
    \/ /\ row[j].status = "claimed" /\ j \in overdue
       /\ row'[j].status = "timeout" /\ row'[j].attempts = row[j].attempts
    \/ /\ row[j].status = "claimed"
       /\ row'[j].status \in Table!Terminal /\ row'[j].attempts = row[j].attempts
       /\ \E c \in Calls : /\ Posted(c, j) /\ row'[j].result = call[c].body
                           /\ row'[j].status = call[c].body.outcome

Grants(c, j) ==
    /\ call[c].kind = "next" /\ call'[c].kind = "next" /\ call'[c].phase = "answered"
    /\ Ticket(c, j)'
    /\ row[j].attempts = 0 /\ row'[j].attempts = 1 /\ row'[j].status = "claimed"
    /\ \A d \in Calls \ {c} : call'[d] = call[d]

\* A request stays, is freed, goes on, hands a job out or refuses a result.
CallEffect(c) ==
    \/ call'[c] = call[c]
    \/ /\ call[c].phase = "answered" /\ call'[c] = Table!Free
       /\ \A b \in Bridges : c \notin waiting[b]
    \/ /\ call'[c].kind = call[c].kind /\ call'[c].job = call[c].job
       /\ call'[c].body = call[c].body
       /\ call[c].phase # "free" /\ call'[c].phase # "free"
       /\ call'[c].phase = "claim" => call[c].kind = "next"
       /\ call'[c].answer \in {call[c].answer, "none", "error", "ok"}
    \/ /\ call'[c].kind = call[c].kind /\ call'[c].job = call[c].job
       /\ call'[c].body = call[c].body
       /\ call[c].phase # "free" /\ call'[c].phase = "answered"
       /\ call'[c].answer = "rejected"
       /\ Table!Owns(c) /\ row[call[c].job].status = "claimed" => call[c].job \in overdue
       /\ UNCHANGED row
    \/ call[c].phase # "free" /\ \E j \in Jobs : Grants(c, j)

TableEffect ==
    /\ \A j \in Jobs : RowEffect(j)
    /\ \A c \in Calls : CallEffect(c)
    /\ overdue \subseteq overdue'

LEMMA Expires ==
  ASSUME Table!TypeOK, NEW who, row' = Table!Expired(who), NEW j \in Jobs
  PROVE  RowEffect(j)
  <1>1. CASE row[j].status = "claimed" /\ j \in overdue /\ MachineOf[j] \in who
    <2>1. row'[j] = [row[j] EXCEPT !.status = "timeout", !.uncertain = TRUE]
      BY <1>1 DEF Table!Expired
    <2>2. row[j] \in Table!Row
      BY DEF Table!TypeOK
    <2>3. row'[j].status = "timeout" /\ row'[j].attempts = row[j].attempts
      BY <2>1, <2>2 DEF Table!Row
    <2>4. QED
      BY <1>1, <2>3 DEF RowEffect
  <1>2. CASE ~(row[j].status = "claimed" /\ j \in overdue /\ MachineOf[j] \in who)
    BY <1>2 DEF Table!Expired, RowEffect
  <1>3. QED
    BY <1>1, <1>2

LEMMA Replies ==
  ASSUME Table!TypeOK, NEW c \in Calls, NEW a, Table!Reply(c, a)
  PROVE  /\ call'[c].phase = "answered" /\ call'[c].answer = a
         /\ call'[c].kind = call[c].kind /\ call'[c].job = call[c].job
         /\ call'[c].body = call[c].body
         /\ \A d \in Calls \ {c} : call'[d] = call[d]
  BY DEF Table!TypeOK, Table!Call, Table!Reply

LEMMA GoesOn ==
  ASSUME Table!TypeOK, NEW c \in Calls, NEW p, Table!Goto(c, p)
  PROVE  /\ call'[c].phase = p /\ call'[c].answer = call[c].answer
         /\ call'[c].kind = call[c].kind /\ call'[c].job = call[c].job
         /\ call'[c].body = call[c].body
         /\ \A d \in Calls \ {c} : call'[d] = call[d]
  BY DEF Table!TypeOK, Table!Call, Table!Goto

\* An answer that is neither a job nor a refusal.
LEMMA RepliesEffect ==
  ASSUME Table!TypeOK, NEW c \in Calls, NEW a \in {"none", "error", "ok"},
         Table!Reply(c, a), call[c].phase # "free"
  PROVE  \A d \in Calls : CallEffect(d)
  BY Replies DEF CallEffect

LEMMA GoesOnEffect ==
  ASSUME Table!TypeOK, NEW c \in Calls, NEW p \in {"expire", "claim", "load", "close"},
         Table!Goto(c, p), call[c].phase # "free", p = "claim" => call[c].kind = "next"
  PROVE  \A d \in Calls : CallEffect(d)
  BY GoesOn DEF CallEffect

LEMMA RefusalEffect ==
  ASSUME Table!TypeOK, NEW c \in Calls, Table!Reply(c, "rejected"),
         call[c].phase # "free", UNCHANGED row,
         Table!Owns(c) /\ row[call[c].job].status = "claimed" => call[c].job \in overdue
  PROVE  \A d \in Calls : CallEffect(d)
  <1>1. CallEffect(c)
    BY Replies DEF CallEffect
  <1>2. ASSUME NEW d \in Calls \ {c}
        PROVE  CallEffect(d)
    BY Replies DEF CallEffect
  <1>3. QED
    BY <1>1, <1>2

LEMMA ClaimEffect ==
  ASSUME Table!TypeOK, NEW c \in Calls, Table!ServeClaim(c), call[c].kind = "next"
  PROVE  (\A j \in Jobs : RowEffect(j)) /\ \A d \in Calls : CallEffect(d)
  <1>1. PICK j \in Table!Oldest(call[c].machine) :
            /\ row' = [row EXCEPT ![j] = [@ EXCEPT !.status = "claimed",
                                                   !.attempts = row[j].attempts + 1]]
            /\ \/ call' = [call EXCEPT ![c] = [@ EXCEPT !.phase = "answered",
                                                        !.answer = "claimed",
                                                        !.job = j]]
               \/ Table!Reply(c, "error")
    BY DEF Table!ServeClaim
  <1>2. j \in Jobs /\ row[j].status = "pending" /\ row[j].attempts = 0
    BY <1>1 DEF Table!Oldest, Table!Pending
  <1>3. row'[j].status = "claimed" /\ row'[j].attempts = 1
    BY <1>1, <1>2 DEF Table!TypeOK, Table!Row
  <1>4. \A k \in Jobs \ {j} : row'[k] = row[k]
    BY <1>1, <1>2 DEF Table!TypeOK
  <1>5. \A k \in Jobs : RowEffect(k)
    BY <1>2, <1>3, <1>4 DEF RowEffect
  <1>6. CASE Table!Reply(c, "error")
    <2>1. call[c].phase # "free"
      BY DEF Table!ServeClaim
    <2>2. QED
      BY <1>5, <1>6, <2>1, RepliesEffect
  <1>7. CASE call' = [call EXCEPT ![c] = [@ EXCEPT !.phase = "answered",
                                                   !.answer = "claimed", !.job = j]]
    <2>1. /\ call'[c].kind = call[c].kind /\ call'[c].phase = "answered"
          /\ call'[c].answer = "claimed" /\ call'[c].job = j
          /\ \A d \in Calls \ {c} : call'[d] = call[d]
      BY <1>7 DEF Table!TypeOK, Table!Call
    <2>2. Grants(c, j) /\ call[c].phase # "free"
      BY <1>2, <1>3, <2>1 DEF Grants, Ticket, Table!ServeClaim
    <2>3. CallEffect(c)
      BY <1>2, <2>2 DEF CallEffect
    <2>4. QED
      BY <1>5, <2>1, <2>3 DEF CallEffect
  <1>8. QED
    BY <1>1, <1>6, <1>7

LEMMA CloseEffect ==
  ASSUME Table!TypeOK, NEW c \in Calls, Table!ServeClose(c),
         call[c].kind = "result", call[c].body \in Table!Body
  PROVE  (\A j \in Jobs : RowEffect(j)) /\ \A d \in Calls : CallEffect(d)
  <1>1. PICK j \in Jobs, b \in Table!Body : j = call[c].job /\ b = call[c].body
    BY DEF Table!TypeOK, Table!Call
  <1>2. call[c].phase # "free"
    BY DEF Table!ServeClose
  <1>3. CASE /\ row[j].status = "claimed" /\ Table!Owns(c)
             /\ row' = [row EXCEPT ![j] = [@ EXCEPT !.status = b.outcome,
                                                    !.uncertain = (b.outcome = "timeout"),
                                                    !.result = b]]
             /\ Table!Reply(c, "ok") \/ Table!Reply(c, "error")
    <2>1. /\ row'[j].status = b.outcome /\ row'[j].attempts = row[j].attempts
          /\ row'[j].result = b
      BY <1>3 DEF Table!TypeOK, Table!Row
    <2>2. b.outcome \in Table!Terminal
      BY DEF Table!Body
    <2>3. Posted(c, j)
      BY <1>1 DEF Posted
    <2>4. RowEffect(j)
      BY <1>1, <1>3, <2>1, <2>2, <2>3 DEF RowEffect
    <2>5. \A k \in Jobs \ {j} : row'[k] = row[k]
      BY <1>3 DEF Table!TypeOK
    <2>6. \A k \in Jobs : RowEffect(k)
      BY <2>4, <2>5 DEF RowEffect
    <2>7. QED
      BY <1>2, <1>3, <2>6, RepliesEffect
  <1>4. CASE /\ ~(row[j].status = "claimed" /\ Table!Owns(c))
             /\ Table!Reply(c, "rejected") /\ UNCHANGED row
    <2>1. \A k \in Jobs : RowEffect(k)
      BY <1>4 DEF RowEffect
    <2>2. QED
      BY <1>1, <1>2, <1>4, <2>1, RefusalEffect
  <1>5. QED
    BY <1>1, <1>3, <1>4 DEF Table!ServeClose

LEMMA LoadEffect ==
  ASSUME Table!TypeOK, NEW c \in Calls, Table!ServeLoad(c)
  PROVE  (\A j \in Jobs : RowEffect(j)) /\ \A d \in Calls : CallEffect(d)
  <1>1. call[c].phase # "free" /\ UNCHANGED row
    BY DEF Table!ServeLoad
  <1>2. \A j \in Jobs : RowEffect(j)
    BY <1>1 DEF RowEffect
  <1>3. CASE Table!Reply(c, "ok")
    BY <1>1, <1>2, <1>3, RepliesEffect
  <1>4. CASE Table!Goto(c, "close")
    BY <1>1, <1>2, <1>4, GoesOnEffect
  <1>5. CASE /\ Table!Reply(c, "rejected")
             /\ \/ ~Table!Owns(c) \/ row[call[c].job].status \in Table!Terminal
                \/ call[c].job \in overdue
    <2>1. "claimed" \notin Table!Terminal
      BY DEF Table!Terminal
    <2>2. QED
      BY <1>1, <1>2, <1>5, <2>1, RefusalEffect
  <1>6. QED
    BY <1>3, <1>4, <1>5 DEF Table!ServeLoad

LEMMA ServeEffect ==
  ASSUME Proofs!IInv, NEW c \in Calls, Table!Serve(c),
         call[c].phase = "claim" => call[c].kind = "next"
  PROVE  TableEffect
  <1>1. /\ Table!TypeOK
        /\ call[c].phase \in {"load", "close"} => call[c].kind = "result"
        /\ call[c].kind = "result" => call[c].body \in Table!Body
    BY TableTypes
  <1>2. overdue \subseteq overdue'
    BY DEF Table!Serve, Table!ServeExpire, Table!ServeClaim, Table!ServeNothing,
           Table!ServeLoad, Table!ServeClose, Table!ServeError
  <1> SUFFICES (\A j \in Jobs : RowEffect(j)) /\ \A d \in Calls : CallEffect(d)
    BY <1>2 DEF TableEffect
  <1>3. CASE Table!ServeExpire(c)
    <2>1. \A j \in Jobs : RowEffect(j)
      BY <1>1, <1>3, Expires DEF Table!ServeExpire
    <2>2. call[c].phase # "free"
      BY <1>3 DEF Table!ServeExpire
    <2>3. CASE Table!Reply(c, "error")
      BY <1>1, <2>1, <2>2, <2>3, RepliesEffect
    <2>4. CASE Table!Goto(c, IF call[c].kind = "next" THEN "claim" ELSE "load")
      BY <1>1, <2>1, <2>2, <2>4, GoesOnEffect
    <2>5. QED
      BY <1>3, <2>3, <2>4 DEF Table!ServeExpire
  <1>4. CASE Table!ServeClaim(c)
    <2>1. call[c].kind = "next"
      BY <1>4 DEF Table!ServeClaim
    <2>2. QED
      BY <1>1, <1>4, <2>1, ClaimEffect
  <1>5. CASE Table!ServeNothing(c)
    <2>1. \A j \in Jobs : RowEffect(j)
      BY <1>5 DEF Table!ServeNothing, RowEffect
    <2>2. call[c].phase # "free"
      BY <1>5 DEF Table!ServeNothing
    <2>3. CASE Table!Reply(c, "none")
      BY <1>1, <2>1, <2>2, <2>3, RepliesEffect
    <2>4. CASE Table!Goto(c, "expire")
      BY <1>1, <2>1, <2>2, <2>4, GoesOnEffect
    <2>5. QED
      BY <1>5, <2>3, <2>4 DEF Table!ServeNothing
  <1>6. CASE Table!ServeLoad(c)
    BY <1>1, <1>6, LoadEffect
  <1>7. CASE Table!ServeClose(c)
    <2>1. call[c].kind = "result"
      BY <1>1, <1>7 DEF Table!ServeClose
    <2>2. QED
      BY <1>1, <1>7, <2>1, CloseEffect
  <1>8. CASE Table!ServeError(c)
    <2>1. \A j \in Jobs : RowEffect(j)
      BY <1>8 DEF Table!ServeError, RowEffect
    <2>2. Table!Reply(c, "error") /\ call[c].phase # "free"
      BY <1>8 DEF Table!ServeError
    <2>3. QED
      BY <1>1, <2>1, <2>2, RepliesEffect
  <1>9. QED
    BY <1>3, <1>4, <1>5, <1>6, <1>7, <1>8 DEF Table!Serve

LEMMA ReturnEffect ==
  ASSUME Table!TypeOK, NEW c \in Calls, Table!Return(c)
  PROVE  /\ call[c].phase = "answered" /\ call'[c] = Table!Free
         /\ \A d \in Calls \ {c} : call'[d] = call[d]
         /\ UNCHANGED <<row, overdue>>
  BY DEF Table!TypeOK, Table!Return

\* The Worker, the clock and operators.
LEMMA OthersEffect ==
  ASSUME Proofs!IInv, \A c \in Calls : call[c].phase = "claim" => call[c].kind = "next",
         \/ \E c \in Calls : Control(c) \/ Discard(c)
         \/ \E j \in Jobs : RunsOut(j)
         \/ Operator
  PROVE  TableEffect
  <1>1. Table!TypeOK
    BY TableTypes
  <1>2. ASSUME NEW c \in Calls, Control(c)
        PROVE  TableEffect
    BY <1>2, ServeEffect DEF Control
  <1>3. ASSUME NEW c \in Calls, Discard(c)
        PROVE  TableEffect
    <2>1. \A b \in Bridges : c \notin waiting[b]
      BY <1>3 DEF Discard
    <2>2. QED
      BY <1>1, <1>3, <2>1, ReturnEffect DEF Discard, TableEffect, RowEffect, CallEffect
  <1>4. ASSUME NEW j \in Jobs, RunsOut(j)
        PROVE  TableEffect
    BY <1>4 DEF RunsOut, Table!ClaimRunsOut, TableEffect, RowEffect, CallEffect
  <1>5. ASSUME NEW j \in Jobs, NEW n \in Seconds, Table!Enqueue(j, n)
        PROVE  TableEffect
    <2>1. row[j].status = "absent" /\ UNCHANGED <<overdue, call>>
      BY <1>5 DEF Table!Enqueue
    <2>2. row'[j] = [Table!Absent EXCEPT !.status = "pending", !.created = n]
      BY <1>1, <1>5 DEF Table!Enqueue, Table!TypeOK
    <2>3. row'[j].status = "pending" /\ row'[j].attempts = 0
      BY <2>2 DEF Table!Absent
    <2>4. \A k \in Jobs \ {j} : row'[k] = row[k]
      BY <1>1, <1>5 DEF Table!Enqueue, Table!TypeOK
    <2>5. QED
      BY <2>1, <2>3, <2>4 DEF TableEffect, RowEffect, CallEffect
  <1>6. CASE Table!ReadJob
    <2>1. \A j \in Jobs : RowEffect(j)
      BY <1>1, <1>6, Expires DEF Table!ReadJob
    <2>2. QED
      BY <1>6, <2>1 DEF Table!ReadJob, TableEffect, CallEffect
  <1>7. QED
    BY <1>2, <1>3, <1>4, <1>5, <1>6 DEF Operator


-------------------------------------------------------------------------------
(* The daemons use the table as its routes allow.                          *)

LEMMA ReportIsAllowed ==
  ASSUME IInv, NEW b \in Bridges, Report(b)
  PROVE  Table!Next
  <1>1. PICK c \in Calls : Table!PostResult(c, held[b].job, Result(b))
    BY DEF Report
  <1>2. PICK j \in Jobs : j = held[b].job
    BY DEF IInv, TypeOK, Held
  <1>3. held[b].claim = row[j].attempts
    BY <1>2 DEF IInv, DaemonInv, OwnerInv, Owner, Working, Report
  <1>4. MachineOf[j] \in Machines /\ outcome[b] \in Table!Terminal
    BY TableAssumption DEF Table!JobAssumption, IInv, TypeOK
  <1>5. Table!PostResult(c, j, [machine |-> MachineOf[j], claim |-> row[j].attempts,
                                outcome |-> outcome[b]])
    BY <1>1, <1>2, <1>3 DEF Result
  <1>6. QED
    BY <1>4, <1>5 DEF Table!Next

LEMMA Allowed ==
  ASSUME IInv, [Next]_vars
  PROVE  [Table!Next]_Table!vars
  <1>1. CASE UNCHANGED table
    BY <1>1 DEF table, Table!vars
  <1>2. CASE UNCHANGED vars
    BY <1>2 DEF vars, Table!vars
  <1>3. ASSUME NEW b \in Bridges, Daemon(b) \/ Stop(b) \/ Crash(b)
        PROVE  [Table!Next]_Table!vars
    <2>1. CASE Poll(b)
      <3>1. MachineId[b] \in Machines
        BY BridgeAssumption
      <3>2. QED
        BY <2>1, <3>1 DEF Poll, Table!Next
    <2>2. CASE PollReturns(b)
      <3>1. \E c \in Calls : Table!Return(c)
        BY <2>2 DEF PollReturns, IInv, TypeOK
      <3>2. QED
        BY <3>1 DEF Table!Next
    <2>3. CASE Report(b)
      BY <2>3, ReportIsAllowed
    <2>4. CASE ReportReturns(b)
      <3>1. \E c \in Calls : Table!Return(c)
        BY <2>4 DEF ReportReturns, IInv, TypeOK
      <3>2. QED
        BY <3>1 DEF Table!Next
    <2>5. CASE ~(Poll(b) \/ PollReturns(b) \/ Report(b) \/ ReportReturns(b))
      BY <1>1, <1>3, <2>5
         DEF Daemon, Runs, PollLost, BlockScientific, Launch, LaunchFails, Prompt, PromptFails,
             Settles, Unsettled, ReportLost, Exit, Restart, Stop, Crash
    <2>6. QED
      BY <2>1, <2>2, <2>3, <2>4, <2>5
  <1>4. ASSUME NEW j \in Jobs, AgentMoves(j) \/ RunsOut(j)
        PROVE  [Table!Next]_Table!vars
    BY <1>1, <1>4 DEF AgentMoves, RunsOut, Table!Next
  <1>5. ASSUME NEW c \in Calls, Control(c) \/ Discard(c)
        PROVE  [Table!Next]_Table!vars
    BY <1>5 DEF Control, Discard, Table!Next
  <1>6. CASE Operator
    BY <1>6 DEF Operator, Table!Next
  <1>7. QED
    BY <1>2, <1>3, <1>4, <1>5, <1>6 DEF Next

-------------------------------------------------------------------------------
(* Types.                                                                  *)

LEMMA FinishType ==
  ASSUME TypeOK, NEW b \in Bridges, NEW o \in Table!Terminal, NEW w \in SUBSET Jobs,
         Finish(b, o, w)
  PROVE  /\ outcome' = [outcome EXCEPT ![b] = o] /\ outcome' \in [Bridges -> Table!Terminal]
         /\ mode' = [mode EXCEPT ![b] = "reporting"] /\ mode' \in [Bridges -> Mode]
         /\ open' \subseteq Jobs
  BY DEF Finish, Become, TypeOK, Mode

LEMMA DaemonTypes ==
  ASSUME IInv, NEW b \in Bridges, Daemon(b) \/ Stop(b) \/ Crash(b)
  PROVE  /\ mode' \in [Bridges -> Mode] /\ held' \in [Bridges -> Held]
         /\ outcome' \in [Bridges -> Table!Terminal]
         /\ waiting' \in [Bridges -> SUBSET Calls] /\ stopping' \subseteq Bridges
         /\ faults' \in 0 .. MaxFaults /\ prompts' \in [Jobs -> Nat]
         /\ agent' \in [Jobs -> {"none", "idle", "working", "asking", "answered"}]
         /\ open' \subseteq Jobs
  <1>1. TypeOK /\ MaxFaults \in Nat
    BY BridgeAssumption DEF IInv
  <1>2. held[b].job \in Jobs
    BY <1>1 DEF TypeOK, Held
  <1>3. Errors \subseteq Table!Terminal /\ {"blocked", "done"} \subseteq Table!Terminal
    BY DEF Errors, Table!Terminal
  <1>4. \A m \in Mode : Become(b, m) => mode' \in [Bridges -> Mode]
    BY <1>1 DEF Become, TypeOK
  <1>5. StopWaiting(b) => waiting' \in [Bridges -> SUBSET Calls]
    BY <1>1 DEF StopWaiting, TypeOK
  <1>6. Fault => faults' \in 0 .. MaxFaults
    BY <1>1 DEF Fault, TypeOK
  <1>7. Retry(b) => mode' \in [Bridges -> Mode]
    BY <1>4 DEF Retry, Mode
  <1>8. CASE Poll(b)
    BY <1>1, <1>4, <1>8 DEF Poll, TypeOK, Mode, herdr
  <1>9. CASE PollReturns(b)
    <2>1. PICK c \in Calls :
             \/ /\ call[c].answer = "claimed" /\ call[c].job \notin overdue
                /\ held' = [held EXCEPT ![b] = [job |-> call[c].job,
                                                claim |-> row[call[c].job].attempts]]
                /\ Become(b, "claimed")
             \/ Become(b, "ready") /\ UNCHANGED held
      BY <1>1, <1>9 DEF PollReturns, TypeOK
    <2>2. call[c].job \in Jobs
      BY <1>1 DEF TypeOK, Table!TypeOK, Table!Call
    <2>3. row[call[c].job].attempts \in Nat
      BY <1>1, <2>2 DEF TypeOK, Table!TypeOK, Table!Row
    <2>4. [job |-> call[c].job, claim |-> row[call[c].job].attempts] \in Held
      BY <2>2, <2>3 DEF Held
    <2>5. held' \in [Bridges -> Held]
      BY <1>1, <2>1, <2>4 DEF TypeOK
    <2>6. mode' \in [Bridges -> Mode]
      BY <1>4, <2>1 DEF Mode
    <2>7. QED
      BY <1>1, <1>5, <1>9, <2>5, <2>6 DEF PollReturns, TypeOK, herdr
  <1>10. CASE PollLost(b)
    BY <1>1, <1>4, <1>5, <1>6, <1>10 DEF PollLost, TypeOK, Mode, herdr
  <1>11. CASE BlockScientific(b)
    BY <1>1, <1>3, <1>4, <1>11 DEF BlockScientific, TypeOK, Mode, herdr
  <1>12. CASE Launch(b)
    BY <1>1, <1>2, <1>4, <1>12 DEF Launch, TypeOK, Mode
  <1>13. CASE LaunchFails(b)
    <2>1. PICK created \in BOOLEAN, o \in Errors :
             /\ agent' \in IF created THEN {agent, [agent EXCEPT ![held[b].job] = "idle"]}
                           ELSE {agent}
             /\ Finish(b, o, IF created THEN open \cup {held[b].job} ELSE open)
      BY <1>13 DEF LaunchFails
    <2>2. agent' \in [Jobs -> {"none", "idle", "working", "asking", "answered"}]
      BY <1>1, <1>2, <2>1 DEF TypeOK
    <2>3. (IF created THEN open \cup {held[b].job} ELSE open) \in SUBSET Jobs
      BY <1>1, <1>2 DEF TypeOK
    <2>4. QED
      BY <1>1, <1>3, <1>13, <2>1, <2>2, <2>3, FinishType DEF LaunchFails, TypeOK
  <1>14. CASE Prompt(b)
    <2>1. /\ prompts' \in [Jobs -> Nat]
          /\ agent' \in [Jobs -> {"none", "idle", "working", "asking", "answered"}]
      BY <1>1, <1>2, <1>14 DEF Prompt, TypeOK
    <2>2. CASE Become(b, "prompted") /\ UNCHANGED <<outcome, open>>
      BY <1>1, <1>4, <1>14, <2>1, <2>2 DEF Prompt, TypeOK, Mode
    <2>3. CASE \E o \in Errors : Finish(b, o, open)
      BY <1>1, <1>3, <1>14, <2>1, <2>3, FinishType DEF Prompt, TypeOK
    <2>4. QED
      BY <1>14, <2>2, <2>3 DEF Prompt
  <1>15. CASE PromptFails(b) \/ Unsettled(b) \/ Settles(b)
    <2>1. \E o \in Table!Terminal : Finish(b, o, open)
      BY <1>3, <1>15 DEF PromptFails, Unsettled, Settles
    <2>2. QED
      BY <1>1, <1>15, <2>1, FinishType DEF PromptFails, Unsettled, Settles, TypeOK
  <1>16. CASE Report(b)
    BY <1>1, <1>16 DEF Report, TypeOK, herdr
  <1>17. CASE ReportReturns(b)
    <2>1. mode' \in [Bridges -> Mode]
      BY <1>4, <1>7, <1>17 DEF ReportReturns, Mode
    <2>2. QED
      BY <1>1, <1>5, <1>17, <2>1 DEF ReportReturns, TypeOK, herdr
  <1>18. CASE ReportLost(b)
    BY <1>1, <1>5, <1>6, <1>7, <1>18 DEF ReportLost, TypeOK, herdr
  <1>19. CASE Exit(b) \/ Restart(b)
    BY <1>1, <1>4, <1>19 DEF Exit, Restart, TypeOK, Mode, herdr
  <1>20. CASE Stop(b)
    BY <1>1, <1>6, <1>20 DEF Stop, TypeOK, herdr
  <1>21. CASE Crash(b)
    BY <1>1, <1>4, <1>5, <1>6, <1>21 DEF Crash, TypeOK, Mode, herdr
  <1>22. QED
    BY <1>8, <1>9, <1>10, <1>11, <1>12, <1>13, <1>14, <1>15, <1>16, <1>17, <1>18, <1>19,
       <1>20, <1>21 DEF Daemon, Runs

LEMMA TypeStep ==
  ASSUME IInv, [Next]_vars
  PROVE  TypeOK' /\ Proofs!IInv'
  <1>1. TypeOK /\ Proofs!IInv
    BY DEF IInv
  <1>2. Proofs!IInv'
    BY <1>1, Allowed, TableInvariant
  <1>3. Table!TypeOK'
    <2>1. Proofs!TypeOK'
      BY <1>2 DEF Proofs!IInv
    <2>2. QED
      BY <2>1, SameType, PTL
  <1>4. CASE UNCHANGED <<daemon, herdr>>
    BY <1>1, <1>2, <1>3, <1>4 DEF daemon, herdr, TypeOK
  <1>5. CASE UNCHANGED vars
    BY <1>4, <1>5 DEF vars, daemon, herdr
  <1>6. ASSUME NEW b \in Bridges, Daemon(b) \/ Stop(b) \/ Crash(b)
        PROVE  TypeOK'
    BY <1>3, <1>6, DaemonTypes DEF TypeOK
  <1>7. ASSUME NEW j \in Jobs, AgentMoves(j)
        PROVE  TypeOK'
    BY <1>1, <1>3, <1>7 DEF AgentMoves, TypeOK, daemon
  <1>8. ASSUME NEW j \in Jobs, RunsOut(j)
        PROVE  TypeOK'
    BY <1>4, <1>8 DEF RunsOut
  <1>9. ASSUME NEW c \in Calls, Control(c) \/ Discard(c)
        PROVE  TypeOK'
    BY <1>4, <1>9 DEF Control, Discard
  <1>10. CASE Operator
    BY <1>4, <1>10 DEF Operator
  <1>11. QED
    BY <1>2, <1>5, <1>6, <1>7, <1>8, <1>9, <1>10 DEF Next


-------------------------------------------------------------------------------
(* A step of the Worker, of the clock or of an operator.                   *)

LEMMA Basics ==
  ASSUME IInv
  PROVE  /\ Table!TypeOK
         /\ \A j \in Jobs :
               /\ row[j].status \in {"absent", "pending"} => row[j].attempts = 0
               /\ row[j].status \in {"claimed"} \cup Table!Terminal => row[j].attempts = 1
               /\ prompts[j] \in Nat
         /\ \A c \in Calls : call[c].job \in Jobs
         /\ \A b \in Bridges : held[b].job \in Jobs
         /\ Table!Free.kind = "next" /\ Table!Free.answer = "none"
         /\ Table!Free.phase = "free"
  <1>1. TypeOK /\ Proofs!IInv
    BY DEF IInv
  <1>2. Table!TypeOK
    BY <1>1 DEF TypeOK
  <1>3. \A c \in Calls : call[c].job \in Jobs
    BY <1>2 DEF Table!TypeOK, Table!Call
  <1>4. \A b \in Bridges : held[b].job \in Jobs
    BY <1>1 DEF TypeOK, Held
  <1>5. \A j \in Jobs : prompts[j] \in Nat
    BY <1>1 DEF TypeOK
  <1>6. Table!Free.kind = "next" /\ Table!Free.answer = "none" /\ Table!Free.phase = "free"
    BY DEF Table!Free
  <1>7. QED
    BY <1>1, <1>2, <1>3, <1>4, <1>5, <1>6, TableTypes

\* What was handed out stays so, and what is recorded stays recorded.
LEMMA RowsKeep ==
  ASSUME IInv, TableEffect, NEW j \in Jobs
  PROVE  /\ row[j].attempts = 1 => row'[j].attempts = 1
         /\ row[j].attempts # 0 => row'[j].attempts = row[j].attempts
         /\ row[j].status \in Table!Terminal => row'[j] = row[j]
  <1>1. RowEffect(j)
    BY DEF TableEffect
  <1>2. QED
    BY <1>1, Basics DEF RowEffect, Table!Terminal

LEMMA CallsKeep ==
  ASSUME IInv, TableEffect, NEW c \in Calls, NEW j \in Jobs
  PROVE  /\ Posted(c, j)' => Posted(c, j) /\ call'[c].body = call[c].body
         /\ Ticket(c, j)' => Ticket(c, j) \/ Grants(c, j)
  <1>1. CallEffect(c)
    BY DEF TableEffect
  <1>2. ASSUME NEW k \in Jobs, Grants(c, k)
        PROVE  ~Posted(c, j)' /\ (Ticket(c, j)' => Grants(c, j))
    BY <1>2 DEF Grants, Posted, Ticket
  <1>3. CASE \E k \in Jobs : Grants(c, k)
    BY <1>2, <1>3
  <1>4. CASE ~\E k \in Jobs : Grants(c, k)
    BY <1>1, <1>4, Basics DEF CallEffect, Posted, Ticket
  <1>5. QED
    BY <1>3, <1>4

LEMMA UndecidedStays ==
  ASSUME IInv, TableEffect, NEW j \in Jobs, Undecided(j)
  PROVE  Undecided(j)'
  <1>1. RowEffect(j) /\ overdue \subseteq overdue'
    BY DEF TableEffect
  <1>2. \A c \in Calls : ~Posted(c, j) /\ ~Posted(c, j)'
    BY CallsKeep DEF Undecided
  <1>3. row'[j].attempts = 1
    BY RowsKeep DEF Undecided
  <1>4. row'[j].status = "claimed" \/ (row'[j].status = "timeout" /\ j \in overdue')
    BY <1>1, <1>2 DEF RowEffect, Undecided
  <1>5. QED
    BY <1>2, <1>3, <1>4 DEF Undecided

LEMMA OthersTicket ==
  ASSUME IInv, TableEffect, UNCHANGED <<daemon, herdr>>, NEW c \in Calls, NEW j \in Jobs
  PROVE  TicketInv(c, j)'
  <1> SUFFICES ASSUME Ticket(c, j)'
               PROVE  /\ Undecided(j)' /\ prompts'[j] = 0
                      /\ \A d \in Calls : Ticket(d, j)' => d = c
                      /\ \A b \in Bridges : ~Owner(b, j)'
    BY DEF TicketInv
  <1>0. /\ \A d \in Calls : TicketInv(d, j) /\ PostInv(d, j)
        /\ \A b \in Bridges : OwnerInv(b, j)
        /\ JobInv(j)
    BY DEF IInv, DaemonInv
  <1>1. prompts' = prompts /\ \A b \in Bridges : Owner(b, j)' <=> Owner(b, j)
    BY DEF daemon, herdr, Owner
  <1>2. \A d \in Calls : Ticket(d, j) => row[j].attempts = 1
    BY <1>0 DEF TicketInv, Undecided
  <1>3. CASE Ticket(c, j)
    <2>1. Undecided(j)'
      BY <1>0, <1>3, UndecidedStays DEF TicketInv
    <2>2. row[j].attempts = 1
      BY <1>2, <1>3
    <2>3. ASSUME NEW d \in Calls, Ticket(d, j)'
          PROVE  d = c
      <3>1. ~Grants(d, j)
        BY <2>2 DEF Grants
      <3>2. QED
        BY <1>0, <1>3, <2>3, <3>1, CallsKeep DEF TicketInv
    <2>4. QED
      BY <1>0, <1>1, <1>3, <2>1, <2>3 DEF TicketInv
  <1>4. CASE Grants(c, j)
    <2>1. row[j].attempts = 0 /\ row'[j].attempts = 1 /\ row'[j].status = "claimed"
      BY <1>4 DEF Grants
    <2>2. ASSUME NEW d \in Calls
          PROVE  ~Posted(d, j)' /\ (Ticket(d, j)' => d = c)
      <3>1. ~Posted(d, j)
        BY <1>0, <2>1 DEF PostInv
      <3>2. ~Ticket(d, j)
        BY <1>2, <2>1
      <3>3. d # c => ~Ticket(d, j)'
        BY <1>4, <3>2 DEF Grants, Ticket
      <3>4. QED
        BY <3>1, <3>3, CallsKeep
    <2>3. Undecided(j)'
      BY <2>1, <2>2 DEF Undecided
    <2>4. prompts[j] = 0
      BY <1>0, <2>1, Basics DEF JobInv
    <2>5. \A b \in Bridges : ~Owner(b, j)
      BY <1>0, <2>1 DEF OwnerInv
    <2>6. QED
      BY <1>1, <2>2, <2>3, <2>4, <2>5
  <1>5. QED
    BY <1>3, <1>4, CallsKeep

LEMMA OthersOwner ==
  ASSUME IInv, TableEffect, UNCHANGED <<daemon, herdr>>, NEW b \in Bridges, NEW j \in Jobs
  PROVE  OwnerInv(b, j)'
  <1>1. OwnerInv(b, j)
    BY DEF IInv, DaemonInv
  <1>2. UNCHANGED <<mode, held, prompts, open>>
    BY DEF daemon, herdr
  <1>3. Owner(b, j) /\ mode[b] # "reporting" => Undecided(j)'
    BY <1>1, UndecidedStays DEF OwnerInv
  <1>4. row[j].attempts = 1 => row'[j].attempts = 1
    BY RowsKeep
  <1>5. QED
    BY <1>1, <1>2, <1>3, <1>4 DEF OwnerInv, Owner

LEMMA OthersReport ==
  ASSUME IInv, TableEffect, UNCHANGED <<daemon, herdr>>, NEW b \in Bridges, NEW j \in Jobs
  PROVE  ReportInv(b, j)'
  <1>1. UNCHANGED <<mode, held, outcome, prompts, agent>>
    BY DEF daemon, herdr
  <1> SUFFICES ASSUME Owner(b, j), mode[b] = "reporting"
               PROVE  /\ row'[j].status = "claimed" \/ Secured(b)'
                      /\ outcome[b] = "done" /\ j \in Hermes => Evidence(j)
                      /\ \A c \in Calls : Posted(c, j)' =>
                            /\ call'[c].body = Result(b)
                            /\ call'[c].answer = "rejected" =>
                                  \/ Secured(b)'
                                  \/ row'[j].status = "claimed" /\ j \in overdue'
    BY <1>1 DEF ReportInv, Owner, Evidence, Result
  <1>2. /\ row[j].status = "claimed" \/ Secured(b)
        /\ outcome[b] = "done" /\ j \in Hermes => Evidence(j)
        /\ \A c \in Calls : Posted(c, j) =>
              /\ call[c].body = Result(b)
              /\ call[c].answer = "rejected" =>
                    Secured(b) \/ (row[j].status = "claimed" /\ j \in overdue)
    BY DEF IInv, DaemonInv, ReportInv
  <1>3. j = held[b].job /\ Result(b)' = Result(b)
    BY <1>1 DEF Owner, Result
  <1>4. RowEffect(j) /\ overdue \subseteq overdue'
    BY DEF TableEffect
  <1>5. Secured(b) => Secured(b)'
    <2>1. Secured(b) => row[j].status \in Table!Terminal
      BY <1>3 DEF Secured, Table!Terminal
    <2>2. QED
      BY <1>1, <1>3, <1>4, <2>1, RowsKeep DEF Secured
  <1>6. row[j].status = "claimed" => row'[j].status = "claimed" \/ Secured(b)'
    <2>1. CASE row'[j] = row[j]
      BY <2>1
    <2>2. CASE j \in overdue /\ row'[j].status = "timeout"
      BY <1>1, <1>3, <1>4, <2>2 DEF Secured
    <2>3. CASE /\ row'[j].status \in Table!Terminal
               /\ \E c \in Calls : Posted(c, j) /\ row'[j].result = call[c].body
      <3>1. row'[j].result = Result(b)
        BY <1>2, <2>3
      <3>2. QED
        BY <1>1, <1>3, <2>3, <3>1 DEF Secured
    <2>4. QED
      BY <1>4, <2>1, <2>2, <2>3 DEF RowEffect
  <1>7. ASSUME NEW c \in Calls, Posted(c, j)', call'[c].answer = "rejected"
        PROVE  Secured(b)' \/ (row'[j].status = "claimed" /\ j \in overdue')
    <2>1. Posted(c, j)
      BY <1>7, CallsKeep
    <2>2. CASE call[c].answer = "rejected"
      BY <1>2, <1>4, <1>5, <1>6, <2>1, <2>2
    <2>3. CASE call[c].answer # "rejected"
      <3>1. CallEffect(c)
        BY DEF TableEffect
      <3>2. ~\E k \in Jobs : Grants(c, k)
        BY <2>1 DEF Grants, Posted
      <3>3. /\ Table!Owns(c) /\ row[j].status = "claimed" => j \in overdue
            /\ UNCHANGED row
        BY <1>7, <2>1, <2>3, <3>1, <3>2, Basics DEF CallEffect, Posted
      <3>4. Table!Owns(c)
        <4>1. /\ row[j].attempts = 1 /\ call[c].body.machine = MachineOf[j]
              /\ call[c].body.claim = 1
          BY <2>1 DEF IInv, DaemonInv, PostInv
        <4>2. QED
          BY <2>1, <4>1 DEF Table!Owns, Posted
      <3>5. QED
        BY <1>2, <1>4, <1>5, <3>3, <3>4
    <2>4. QED
      BY <2>2, <2>3
  <1>8. \A c \in Calls : Posted(c, j)' => call'[c].body = Result(b)
    BY <1>2, CallsKeep
  <1>9. QED
    BY <1>2, <1>5, <1>6, <1>7, <1>8

LEMMA OthersRest ==
  ASSUME IInv, TableEffect, UNCHANGED <<daemon, herdr>>
  PROVE  /\ \A b \in Bridges, c \in Calls : WaitInv(b, c)'
         /\ \A j \in Jobs : JobInv(j)' /\ \A c \in Calls : PostInv(c, j)'
  <1>0. UNCHANGED <<mode, held, waiting, prompts, agent, open>>
    BY DEF daemon, herdr
  <1>1. ASSUME NEW b \in Bridges, NEW c \in Calls, c \in waiting[b]
        PROVE  WaitInv(b, c)'
    <2>1. WaitInv(b, c)
      BY DEF IInv, DaemonInv
    <2>2. CallEffect(c)
      BY DEF TableEffect
    <2>3. call'[c].phase # "free"
      BY <1>1, <2>1, <2>2 DEF WaitInv, CallEffect, Grants
    <2>4. Posted(c, held[b].job) => Posted(c, held[b].job)'
      <3>1. Posted(c, held[b].job) => ~\E k \in Jobs : Grants(c, k)
        BY DEF Posted, Grants
      <3>2. QED
        BY <1>0, <1>1, <2>2, <3>1 DEF CallEffect, Posted
    <2>5. QED
      BY <1>0, <1>1, <2>1, <2>3, <2>4 DEF WaitInv
  <1>2. ASSUME NEW j \in Jobs, NEW c \in Calls
        PROVE  PostInv(c, j)'
    <2>1. PostInv(c, j)
      BY DEF IInv, DaemonInv
    <2>2. CallEffect(c)
      BY DEF TableEffect
    <2>3. call'[c].phase = "claim" => call'[c].kind = "next"
      BY <2>1, <2>2, Basics DEF CallEffect, PostInv, Grants
    <2>4. QED
      BY <1>0, <2>1, <2>3, CallsKeep, RowsKeep DEF PostInv, Evidence
  <1>3. ASSUME NEW j \in Jobs
        PROVE  JobInv(j)'
    <2>1. JobInv(j) /\ RowEffect(j)
      BY DEF IInv, DaemonInv, TableEffect
    <2>2. prompts[j] <= row'[j].attempts
      <3>1. CASE row[j].attempts = 0
        <4>1. prompts[j] = 0
          BY <2>1, <3>1, Basics DEF JobInv
        <4>2. row'[j].attempts \in Nat
          BY <2>1, <3>1 DEF RowEffect
        <4>3. QED
          BY <4>1, <4>2
      <3>2. QED
        BY <2>1, <3>1, RowsKeep DEF JobInv
    <2>3. j \in Hermes /\ row'[j].status = "done" => Evidence(j)
      <3>1. CASE row'[j] = row[j]
        BY <2>1, <3>1 DEF JobInv
      <3>2. CASE \E c \in Calls : Posted(c, j) /\ row'[j].status = call[c].body.outcome
        BY <3>2 DEF IInv, DaemonInv, PostInv
      <3>3. QED
        BY <2>1, <3>1, <3>2 DEF RowEffect
    <2>4. QED
      BY <1>0, <2>1, <2>2, <2>3 DEF JobInv, Evidence
  <1>4. QED
    BY <1>0, <1>1, <1>2, <1>3 DEF WaitInv

LEMMA OthersStep ==
  ASSUME IInv, TableEffect, UNCHANGED <<daemon, herdr>>
  PROVE  DaemonInv'
  BY OthersTicket, OthersOwner, OthersReport, OthersRest DEF DaemonInv


-------------------------------------------------------------------------------
(* A step in which no daemon takes on or goes on with a job: polls, answers *)
(* without a job, failures and the life of a daemon.                        *)

QuietStep ==
    /\ UNCHANGED <<row, overdue, held, outcome, prompts, agent, open>>
    /\ \A e \in Bridges : mode'[e] = mode[e] \/ mode'[e] \notin Working
    /\ \A c \in Calls :
          \/ call'[c] = call[c]
          \/ /\ call'[c].kind = "next" /\ call'[c].answer = "none"
             /\ call'[c].phase # "claim"
    /\ \A e \in Bridges, c \in Calls : c \in waiting'[e] =>
          \/ c \in waiting[e] /\ mode'[e] = mode[e] /\ call'[c] = call[c]
          \/ /\ call[c].phase = "free" /\ call'[c].phase # "free" /\ mode'[e] = "polling"
             /\ \A i \in Bridges : c \in waiting'[i] => i = e

LEMMA QuietKeeps ==
  ASSUME IInv, QuietStep
  PROVE  DaemonInv'
  <1>1. UNCHANGED <<row, overdue, held, outcome, prompts, agent, open>>
    BY DEF QuietStep
  <1>2. ASSUME NEW b \in Bridges, NEW j \in Jobs, Owner(b, j)'
        PROVE  Owner(b, j) /\ mode'[b] = mode[b]
    BY <1>1, <1>2 DEF QuietStep, Owner
  <1>3. ASSUME NEW c \in Calls, NEW j \in Jobs
        PROVE  /\ Posted(c, j)' => Posted(c, j) /\ call'[c] = call[c]
               /\ Ticket(c, j)' => Ticket(c, j)
    BY DEF QuietStep, Posted, Ticket
  <1>4. ASSUME NEW j \in Jobs, Undecided(j)
        PROVE  Undecided(j)'
    BY <1>1, <1>3, <1>4 DEF Undecided
  <1>5. ASSUME NEW j \in Jobs
        PROVE  JobInv(j)' /\ (Evidence(j)' <=> Evidence(j))
    BY <1>1 DEF IInv, DaemonInv, JobInv, Evidence
  <1>6. ASSUME NEW c \in Calls, NEW j \in Jobs
        PROVE  TicketInv(c, j)'
    <2>1. TicketInv(c, j)
      BY DEF IInv, DaemonInv
    <2>2. QED
      BY <1>1, <1>2, <1>3, <1>4, <2>1 DEF TicketInv
  <1>7. ASSUME NEW c \in Calls, NEW j \in Jobs
        PROVE  PostInv(c, j)'
    <2>1. PostInv(c, j)
      BY DEF IInv, DaemonInv
    <2>2. call'[c].phase = "claim" => call'[c].kind = "next"
      BY <2>1 DEF QuietStep, PostInv
    <2>3. QED
      BY <1>1, <1>3, <1>5, <2>1, <2>2 DEF PostInv
  <1>8. ASSUME NEW b \in Bridges, NEW j \in Jobs
        PROVE  OwnerInv(b, j)'
    <2>1. OwnerInv(b, j)
      BY DEF IInv, DaemonInv
    <2>2. QED
      BY <1>1, <1>2, <1>4, <2>1 DEF OwnerInv
  <1>9. ASSUME NEW b \in Bridges, NEW j \in Jobs
        PROVE  ReportInv(b, j)'
    <2>1. ReportInv(b, j)
      BY DEF IInv, DaemonInv
    <2>2. (Secured(b)' <=> Secured(b)) /\ Result(b)' = Result(b)
      BY <1>1 DEF Secured, Result
    <2>3. QED
      BY <1>1, <1>2, <1>3, <1>5, <2>1, <2>2 DEF ReportInv
  <1>10. ASSUME NEW b \in Bridges, NEW c \in Calls
         PROVE  WaitInv(b, c)'
    <2> SUFFICES ASSUME c \in waiting'[b]
                 PROVE  /\ call'[c].phase # "free"
                        /\ mode'[b] \in {"polling", "reporting"}
                        /\ mode'[b] = "reporting" => Posted(c, held[b].job)'
                        /\ \A e \in Bridges : c \in waiting'[e] => e = b
      BY <1>1 DEF WaitInv, Posted
    <2>1. \A e \in Bridges : WaitInv(e, c)
      BY DEF IInv, DaemonInv
    <2>2. CASE c \in waiting[b] /\ mode'[b] = mode[b] /\ call'[c] = call[c]
      <3>1. \A e \in Bridges : c \in waiting'[e] => c \in waiting[e]
        BY <2>1, <2>2 DEF QuietStep, WaitInv
      <3>2. QED
        BY <1>1, <2>1, <2>2, <3>1 DEF WaitInv, Posted
    <2>3. CASE /\ call[c].phase = "free" /\ call'[c].phase # "free" /\ mode'[b] = "polling"
               /\ \A i \in Bridges : c \in waiting'[i] => i = b
      BY <2>3
    <2>4. QED
      BY <2>2, <2>3 DEF QuietStep
  <1>11. QED
    BY <1>5, <1>6, <1>7, <1>8, <1>9, <1>10 DEF DaemonInv

\* What a daemon changes of its own.
LEMMA OwnChange ==
  ASSUME IInv, NEW b \in Bridges
  PROVE  /\ \A m : Become(b, m) =>
               mode'[b] = m /\ \A e \in Bridges \ {b} : mode'[e] = mode[e]
         /\ StopWaiting(b) =>
               waiting'[b] = {} /\ \A e \in Bridges \ {b} : waiting'[e] = waiting[e]
         /\ \A w : waiting' = [waiting EXCEPT ![b] = w] =>
               waiting'[b] = w /\ \A e \in Bridges \ {b} : waiting'[e] = waiting[e]
  BY DEF IInv, TypeOK, Become, StopWaiting

LEMMA PollIsQuiet ==
  ASSUME IInv, NEW b \in Bridges, Poll(b)
  PROVE  QuietStep
  <1>1. PICK c \in Calls : /\ Table!AskNext(c, MachineId[b])
                           /\ waiting' = [waiting EXCEPT ![b] = {c}]
    BY DEF Poll
  <1>2. /\ call[c].phase = "free" /\ UNCHANGED <<row, overdue>>
        /\ call'[c] = [Table!Free EXCEPT !.phase = "expire", !.machine = MachineId[b]]
        /\ \A d \in Calls \ {c} : call'[d] = call[d]
    BY <1>1, Basics DEF Table!AskNext, Table!TypeOK
  <1>3. call'[c].kind = "next" /\ call'[c].answer = "none" /\ call'[c].phase = "expire"
    BY <1>2 DEF Table!Free
  <1>4. /\ mode'[b] = "polling" /\ \A e \in Bridges \ {b} : mode'[e] = mode[e]
        /\ waiting'[b] = {c} /\ \A e \in Bridges \ {b} : waiting'[e] = waiting[e]
    BY <1>1, OwnChange DEF Poll
  <1>5. \A e \in Bridges : c \notin waiting[e]
    BY <1>2 DEF IInv, DaemonInv, WaitInv
  <1>6. UNCHANGED <<row, overdue, held, outcome, prompts, agent, open>>
    BY <1>2 DEF Poll, herdr
  <1>7. mode'[b] \notin Working
    BY <1>4 DEF Working
  <1>8. ASSUME NEW e \in Bridges, NEW d \in Calls, d \in waiting'[e]
        PROVE  \/ d \in waiting[e] /\ mode'[e] = mode[e] /\ call'[d] = call[d]
               \/ /\ call[d].phase = "free" /\ call'[d].phase # "free"
                  /\ mode'[e] = "polling"
                  /\ \A i \in Bridges : d \in waiting'[i] => i = e
    <2>1. CASE e = b
      BY <1>2, <1>3, <1>4, <1>5, <1>8, <2>1
    <2>2. CASE e # b
      BY <1>2, <1>4, <1>5, <1>8, <2>2
    <2>3. QED
      BY <2>1, <2>2
  <1>9. QED
    <2>1. \A e \in Bridges : mode'[e] = mode[e] \/ mode'[e] \notin Working
      BY <1>4, <1>7
    <2>2. ASSUME NEW d \in Calls
          PROVE  \/ call'[d] = call[d]
                 \/ /\ call'[d].kind = "next" /\ call'[d].answer = "none"
                    /\ call'[d].phase # "claim"
      BY <1>2, <1>3
    <2>3. QED
      BY <1>6, <1>8, <2>1, <2>2 DEF QuietStep

\* The answer came, without a job or to a report.
LEMMA AnswerIsQuiet ==
  ASSUME IInv, NEW b \in Bridges, NEW c \in waiting[b], Table!Return(c), StopWaiting(b),
         UNCHANGED <<held, outcome, prompts, agent, open>>,
         mode'[b] = mode[b] \/ mode'[b] \notin Working,
         \A e \in Bridges \ {b} : mode'[e] = mode[e]
  PROVE  QuietStep
  <1>1. c \in Calls
    BY DEF IInv, TypeOK
  <1>2. /\ call'[c] = Table!Free /\ UNCHANGED <<row, overdue>>
        /\ \A d \in Calls \ {c} : call'[d] = call[d]
    BY <1>1, ReturnEffect, Basics
  <1>3. waiting'[b] = {} /\ \A e \in Bridges \ {b} : waiting'[e] = waiting[e]
    BY OwnChange
  <1>4. \A e \in Bridges \ {b} : c \notin waiting[e]
    BY <1>1 DEF IInv, DaemonInv, WaitInv
  <1>5. Table!Free.kind = "next" /\ Table!Free.answer = "none" /\ Table!Free.phase # "claim"
    BY Basics
  <1>6. QED
    BY <1>2, <1>3, <1>4, <1>5 DEF QuietStep

\* A daemon fails, stops, starts or gives up waiting.
LEMMA LifeIsQuiet ==
  ASSUME IInv, NEW b \in Bridges,
         PollLost(b) \/ ReportLost(b) \/ Exit(b) \/ Restart(b) \/ Stop(b) \/ Crash(b)
  PROVE  QuietStep
  <1>0. UNCHANGED <<row, overdue, call, held, outcome, prompts, agent, open>>
    BY DEF PollLost, ReportLost, Exit, Restart, Stop, Crash, table, herdr
  <1>1. /\ mode'[b] = mode[b] \/ mode'[b] \notin Working
        /\ \A e \in Bridges \ {b} : mode'[e] = mode[e]
    BY OwnChange DEF PollLost, ReportLost, Retry, Exit, Restart, Stop, Crash, Working
  <1>2. CASE waiting'[b] = {} /\ \A e \in Bridges \ {b} : waiting'[e] = waiting[e]
    BY <1>0, <1>1, <1>2 DEF QuietStep
  <1>3. CASE UNCHANGED <<mode, waiting>>
    BY <1>0, <1>1, <1>3 DEF QuietStep
  <1>4. CASE (Exit(b) \/ Restart(b)) /\ UNCHANGED waiting
    <2>1. \A c \in Calls : c \notin waiting[b]
      BY <1>4 DEF IInv, DaemonInv, WaitInv, Exit, Restart
    <2>2. QED
      BY <1>0, <1>1, <1>4, <2>1 DEF QuietStep
  <1>5. QED
    BY <1>2, <1>3, <1>4, OwnChange DEF PollLost, ReportLost, Exit, Restart, Stop, Crash

-------------------------------------------------------------------------------
(* A daemon is handed a job.                                               *)

LEMMA HandedKeeps ==
  ASSUME IInv, NEW b \in Bridges, mode[b] = "polling", NEW c \in waiting[b],
         Table!Return(c), call[c].answer = "claimed",
         held' = [held EXCEPT ![b] = [job |-> call[c].job,
                                      claim |-> row[call[c].job].attempts]],
         Become(b, "claimed"), StopWaiting(b),
         UNCHANGED <<outcome, prompts, agent, open>>
  PROVE  DaemonInv'
  <1> PICK j \in Jobs : j = call[c].job
    BY Basics DEF IInv, TypeOK
  <1>0. c \in Calls
    BY DEF IInv, TypeOK
  <1>1. /\ call'[c] = Table!Free /\ UNCHANGED <<row, overdue>>
        /\ \A d \in Calls \ {c} : call'[d] = call[d]
    BY <1>0, ReturnEffect, Basics
  <1>2. /\ mode'[b] = "claimed" /\ \A e \in Bridges \ {b} : mode'[e] = mode[e]
        /\ waiting'[b] = {} /\ \A e \in Bridges \ {b} : waiting'[e] = waiting[e]
    BY OwnChange
  <1>3. Ticket(c, j) /\ TicketInv(c, j)
    BY <1>0 DEF Ticket, IInv, DaemonInv
  <1>4. /\ Undecided(j) /\ prompts[j] = 0 /\ row[j].attempts = 1
        /\ \A d \in Calls : Ticket(d, j) => d = c
        /\ \A e \in Bridges : ~Owner(e, j)
    BY <1>3 DEF TicketInv, Undecided
  <1>5. /\ held'[b].job = j /\ held'[b].claim = 1
        /\ \A e \in Bridges \ {b} : held'[e] = held[e]
    BY <1>4 DEF IInv, TypeOK
  <1>6. ASSUME NEW d \in Calls, NEW k \in Jobs
        PROVE  /\ Posted(d, k)' => Posted(d, k) /\ call'[d] = call[d]
               /\ Ticket(d, k)' => Ticket(d, k) /\ d # c
    BY <1>1, Basics DEF Posted, Ticket
  <1>7. ASSUME NEW k \in Jobs
        PROVE  /\ Undecided(k) => Undecided(k)'
               /\ Evidence(k)' <=> Evidence(k)
    BY <1>1, <1>6 DEF Undecided, Evidence
  <1>8. ASSUME NEW e \in Bridges, NEW k \in Jobs, Owner(e, k)'
        PROVE  \/ e = b /\ k = j
               \/ e # b /\ k # j /\ Owner(e, k)
    BY <1>2, <1>4, <1>5, <1>8 DEF Owner
  <1>9. ASSUME NEW k \in Jobs
        PROVE  JobInv(k)'
    BY <1>1, <1>7 DEF IInv, DaemonInv, JobInv
  <1>10. ASSUME NEW d \in Calls, NEW k \in Jobs
         PROVE  TicketInv(d, k)'
    <2> SUFFICES ASSUME Ticket(d, k)'
                 PROVE  /\ Undecided(k)' /\ prompts'[k] = 0
                        /\ \A i \in Calls : Ticket(i, k)' => i = d
                        /\ \A e \in Bridges : ~Owner(e, k)'
      BY DEF TicketInv
    <2>1. TicketInv(d, k) /\ Ticket(d, k) /\ k # j
      BY <1>4, <1>6 DEF IInv, DaemonInv
    <2>2. QED
      BY <1>6, <1>7, <1>8, <2>1 DEF TicketInv
  <1>11. ASSUME NEW d \in Calls, NEW k \in Jobs
         PROVE  PostInv(d, k)'
    <2>1. PostInv(d, k)
      BY DEF IInv, DaemonInv
    <2>2. call'[d].phase = "claim" => call'[d].kind = "next"
      BY <1>1, <2>1, Basics DEF PostInv
    <2>3. QED
      BY <1>1, <1>6, <1>7, <2>1, <2>2 DEF PostInv
  <1>12. ASSUME NEW e \in Bridges, NEW k \in Jobs
         PROVE  OwnerInv(e, k)'
    <2> SUFFICES ASSUME Owner(e, k)'
                 PROVE  /\ held'[e].claim = 1 /\ row'[k].attempts = 1
                        /\ \A i \in Bridges : Owner(i, k)' => i = e
                        /\ mode'[e] \in {"claimed", "started"} => prompts'[k] = 0
                        /\ mode'[e] = "started" => k \in open'
                        /\ mode'[e] = "prompted" => prompts'[k] = 1
                        /\ mode'[e] # "reporting" => Undecided(k)'
      BY DEF OwnerInv
    <2>1. CASE e = b /\ k = j
      BY <1>1, <1>2, <1>4, <1>5, <1>7, <1>8, <2>1
    <2>2. CASE e # b /\ k # j /\ Owner(e, k)
      <3>1. OwnerInv(e, k)
        BY DEF IInv, DaemonInv
      <3>2. \A i \in Bridges : Owner(i, k)' => Owner(i, k)
        BY <1>8, <2>2
      <3>3. QED
        BY <1>1, <1>2, <1>5, <1>7, <2>2, <3>1, <3>2 DEF OwnerInv
    <2>3. QED
      BY <1>8, <2>1, <2>2
  <1>13. ASSUME NEW e \in Bridges, NEW k \in Jobs
         PROVE  ReportInv(e, k)'
    <2>1. CASE e = b
      BY <1>2, <2>1 DEF ReportInv
    <2>2. CASE e # b
      <3>1. ReportInv(e, k)
        BY DEF IInv, DaemonInv
      <3>2. (Secured(e)' <=> Secured(e)) /\ Result(e)' = Result(e)
        BY <1>1, <1>5, <2>2 DEF Secured, Result
      <3>3. QED
        BY <1>1, <1>2, <1>6, <1>7, <1>8, <2>2, <3>1, <3>2 DEF ReportInv
    <2>3. QED
      BY <2>1, <2>2
  <1>14. ASSUME NEW e \in Bridges, NEW d \in Calls
         PROVE  WaitInv(e, d)'
    <2> SUFFICES ASSUME d \in waiting'[e]
                 PROVE  /\ call'[d].phase # "free"
                        /\ mode'[e] \in {"polling", "reporting"}
                        /\ mode'[e] = "reporting" => Posted(d, held[e].job)'
                        /\ \A i \in Bridges : d \in waiting'[i] => i = e
      BY DEF WaitInv, Posted
    <2>1. e # b /\ d \in waiting[e]
      BY <1>2
    <2>2. WaitInv(e, d) /\ WaitInv(b, c)
      BY <1>0 DEF IInv, DaemonInv
    <2>3. d # c
      BY <2>1, <2>2 DEF WaitInv
    <2>4. \A i \in Bridges : d \in waiting'[i] => d \in waiting[i]
      BY <1>2
    <2>5. QED
      BY <1>1, <1>2, <1>5, <2>1, <2>2, <2>3, <2>4 DEF WaitInv, Posted
  <1>15. QED
    BY <1>9, <1>10, <1>11, <1>12, <1>13, <1>14 DEF DaemonInv


-------------------------------------------------------------------------------
(* A daemon posts its result.                                              *)

LEMMA ReportKeeps ==
  ASSUME IInv, NEW b \in Bridges, Report(b)
  PROVE  DaemonInv'
  <1> PICK c \in Calls : /\ Table!PostResult(c, held[b].job, Result(b))
                         /\ waiting' = [waiting EXCEPT ![b] = {c}]
    BY DEF Report
  <1> PICK j \in Jobs : j = held[b].job
    BY Basics
  <1>0. /\ mode[b] = "reporting" /\ Owner(b, j)
        /\ UNCHANGED <<mode, held, outcome, prompts, agent, open>>
    BY DEF Report, Owner, Working, herdr
  <1>1. /\ call[c].phase = "free" /\ UNCHANGED <<row, overdue>>
        /\ call'[c].kind = "result" /\ call'[c].job = j /\ call'[c].body = Result(b)
        /\ call'[c].answer = "none" /\ call'[c].phase = "expire"
        /\ \A d \in Calls \ {c} : call'[d] = call[d]
    <2>1. /\ call[c].phase = "free" /\ UNCHANGED <<row, overdue>>
          /\ call'[c] = [Table!Free EXCEPT !.phase = "expire", !.kind = "result",
                                           !.machine = Result(b).machine, !.job = j,
                                           !.body = Result(b)]
          /\ \A d \in Calls \ {c} : call'[d] = call[d]
      BY Basics DEF Table!PostResult, Table!TypeOK
    <2>2. QED
      BY <2>1 DEF Table!Free
  <1>2. waiting'[b] = {c} /\ \A e \in Bridges \ {b} : waiting'[e] = waiting[e]
    BY OwnChange
  <1>3. /\ held[b].claim = 1 /\ row[j].attempts = 1
        /\ \A e \in Bridges : Owner(e, j) => e = b
    BY <1>0 DEF IInv, DaemonInv, OwnerInv
  <1>4. /\ row[j].status = "claimed" \/ Secured(b)
        /\ outcome[b] = "done" /\ j \in Hermes => Evidence(j)
    BY <1>0 DEF IInv, DaemonInv, ReportInv
  <1>5. ASSUME NEW d \in Calls, NEW k \in Jobs
        PROVE  /\ Posted(d, k)' => (d = c /\ k = j) \/ (d # c /\ Posted(d, k))
               /\ Ticket(d, k)' => d # c /\ Ticket(d, k) /\ k # j
    <2>1. Ticket(d, k) => k # j
      BY <1>0 DEF IInv, DaemonInv, TicketInv
    <2>2. QED
      BY <1>1, <2>1 DEF Posted, Ticket
  <1>6. ASSUME NEW k \in Jobs, k # j, Undecided(k)
        PROVE  Undecided(k)'
    BY <1>1, <1>5, <1>6 DEF Undecided
  <1>7. ASSUME NEW k \in Jobs
        PROVE  /\ JobInv(k)' /\ (Evidence(k)' <=> Evidence(k))
               /\ \A e \in Bridges : Owner(e, k)' <=> Owner(e, k)
    BY <1>0, <1>1 DEF IInv, DaemonInv, JobInv, Evidence, Owner
  <1>8. ASSUME NEW d \in Calls, NEW k \in Jobs
        PROVE  TicketInv(d, k)'
    <2>1. TicketInv(d, k)
      BY DEF IInv, DaemonInv
    <2>2. QED
      BY <1>0, <1>5, <1>6, <1>7, <2>1 DEF TicketInv
  <1>9. ASSUME NEW d \in Calls, NEW k \in Jobs
        PROVE  PostInv(d, k)'
    <2>1. PostInv(d, k)
      BY DEF IInv, DaemonInv
    <2>2. call'[d].phase = "claim" => call'[d].kind = "next"
      BY <1>1, <2>1 DEF PostInv
    <2>3. /\ Result(b).machine = MachineOf[j] /\ Result(b).claim = 1
          /\ Result(b).outcome = outcome[b]
      BY <1>3 DEF Result
    <2>4. QED
      BY <1>1, <1>3, <1>4, <1>5, <1>7, <2>1, <2>2, <2>3 DEF PostInv
  <1>10. ASSUME NEW e \in Bridges, NEW k \in Jobs
         PROVE  OwnerInv(e, k)'
    <2>1. OwnerInv(e, k)
      BY DEF IInv, DaemonInv
    <2>2. Owner(e, k) /\ mode[e] # "reporting" => k # j
      BY <1>0, <1>3
    <2>3. QED
      BY <1>0, <1>1, <1>6, <1>7, <2>1, <2>2 DEF OwnerInv
  <1>11. ASSUME NEW e \in Bridges, NEW k \in Jobs
         PROVE  ReportInv(e, k)'
    <2>1. ReportInv(e, k)
      BY DEF IInv, DaemonInv
    <2>2. (Secured(e)' <=> Secured(e)) /\ Result(e)' = Result(e)
      BY <1>0, <1>1 DEF Secured, Result
    <2>3. Owner(e, k) /\ k = j => e = b
      BY <1>3
    <2>4. QED
      BY <1>0, <1>1, <1>5, <1>7, <2>1, <2>2, <2>3 DEF ReportInv
  <1>12. ASSUME NEW e \in Bridges, NEW d \in Calls
         PROVE  WaitInv(e, d)'
    <2> SUFFICES ASSUME d \in waiting'[e]
                 PROVE  /\ call'[d].phase # "free"
                        /\ mode[e] \in {"polling", "reporting"}
                        /\ mode[e] = "reporting" => Posted(d, held[e].job)'
                        /\ \A i \in Bridges : d \in waiting'[i] => i = e
      BY <1>0 DEF WaitInv, Posted
    <2>1. \A i \in Bridges, f \in Calls : WaitInv(i, f)
      BY DEF IInv, DaemonInv
    <2>2. \A i \in Bridges : c \notin waiting[i]
      BY <1>1, <2>1 DEF WaitInv
    <2>3. CASE d = c
      BY <1>0, <1>1, <1>2, <2>2, <2>3 DEF Posted
    <2>4. CASE d # c
      <3>1. e # b /\ d \in waiting[e] /\ call'[d] = call[d]
        BY <1>1, <1>2, <2>4
      <3>2. \A i \in Bridges : d \in waiting'[i] => d \in waiting[i]
        BY <1>2, <2>4
      <3>3. QED
        BY <1>0, <2>1, <3>1, <3>2 DEF WaitInv, Posted
    <2>5. QED
      BY <2>3, <2>4
  <1>13. QED
    BY <1>7, <1>8, <1>9, <1>10, <1>11, <1>12 DEF DaemonInv

-------------------------------------------------------------------------------
(* A daemon goes on with its job.                                          *)

WorkStep(b) ==
    LET j == held[b].job IN
    /\ UNCHANGED <<row, overdue, call, held, waiting>>
    /\ mode[b] \in {"claimed", "started", "prompted"}
    /\ mode'[b] \in {"started", "prompted", "reporting"}
    /\ \A e \in Bridges \ {b} : mode'[e] = mode[e] /\ outcome'[e] = outcome[e]
    /\ \A k \in Jobs \ {j} : /\ prompts'[k] = prompts[k] /\ agent'[k] = agent[k]
                             /\ k \in open' <=> k \in open
    /\ \/ prompts'[j] = prompts[j] /\ mode'[b] # "prompted"
       \/ prompts'[j] = prompts[j] + 1 /\ mode[b] = "started" /\ mode'[b] # "started"
    /\ mode'[b] = "started" => mode[b] = "claimed" /\ j \in open'
    /\ mode'[b] = "reporting" /\ outcome'[b] = "done" /\ j \in Hermes =>
          mode[b] = "prompted" /\ agent'[j] = "answered"
    /\ j \in Hermes /\ agent'[j] \in {"working", "asking"} /\ Keep # "never" =>
          j \in open'

LEMMA WorkKeeps ==
  ASSUME IInv, NEW b \in Bridges, WorkStep(b)
  PROVE  DaemonInv'
  <1> PICK j \in Jobs : j = held[b].job
    BY Basics
  <1>0. UNCHANGED <<row, overdue, call, held, waiting>>
    BY DEF WorkStep
  <1>1. Owner(b, j) /\ OwnerInv(b, j) /\ mode[b] # "reporting"
    BY DEF WorkStep, Owner, Working, IInv, DaemonInv
  <1>2. /\ held[b].claim = 1 /\ row[j].attempts = 1 /\ Undecided(j)
        /\ \A e \in Bridges : Owner(e, j) => e = b
        /\ mode[b] \in {"claimed", "started"} => prompts[j] = 0
        /\ mode[b] = "prompted" => prompts[j] = 1
    BY <1>1 DEF OwnerInv
  <1>3. ASSUME NEW e \in Bridges, NEW k \in Jobs
        PROVE  /\ Owner(e, k)' <=> Owner(e, k)
               /\ Owner(e, k) => (e = b /\ k = j) \/ (e # b /\ k # j)
    BY <1>0, <1>1, <1>2 DEF WorkStep, Owner, Working
  <1>4. ASSUME NEW k \in Jobs
        PROVE  /\ Undecided(k)' <=> Undecided(k)
               /\ k # j => (Evidence(k)' <=> Evidence(k)) /\ prompts'[k] = prompts[k]
                           /\ (k \in open' <=> k \in open) /\ agent'[k] = agent[k]
               /\ \A c \in Calls : /\ Posted(c, k)' <=> Posted(c, k)
                                   /\ Ticket(c, k)' <=> Ticket(c, k)
                                   /\ Posted(c, k) \/ Ticket(c, k) => k # j
    <2>1. \A c \in Calls : ~Posted(c, j) /\ ~Ticket(c, j)
      BY <1>1, <1>2 DEF Undecided, IInv, DaemonInv, TicketInv
    <2>2. QED
      BY <1>0, <2>1 DEF WorkStep, Undecided, Evidence, Posted, Ticket
  <1>5. ASSUME NEW k \in Jobs
        PROVE  JobInv(k)'
    <2>1. JobInv(k)
      BY DEF IInv, DaemonInv
    <2>2. CASE k # j
      BY <1>0, <1>4, <2>1, <2>2 DEF JobInv
    <2>3. CASE k = j
      <3>1. prompts'[j] <= 1
        BY <1>2 DEF WorkStep
      <3>2. row[j].status # "done"
        BY <1>2 DEF Undecided
      <3>3. j \in Hermes /\ agent'[j] \in {"working", "asking"} /\ Keep # "never" =>
                j \in open'
        BY DEF WorkStep
      <3>4. row'[j].attempts = 1 /\ row'[j].status # "done"
        BY <1>0, <1>2, <3>2
      <3>5. prompts'[j] <= row'[j].attempts
        BY <3>1, <3>4
      <3>6. j \in Hermes /\ row'[j].status = "done" => Evidence(j)'
        BY <3>4
      <3>7. JobInv(j)'
        BY <3>1, <3>3, <3>5, <3>6 DEF JobInv
      <3>8. QED
        BY <2>3, <3>7
    <2>4. QED
      BY <2>2, <2>3
  <1>6. ASSUME NEW c \in Calls, NEW k \in Jobs
        PROVE  TicketInv(c, k)' /\ PostInv(c, k)'
    <2>1. TicketInv(c, k) /\ PostInv(c, k)
      BY DEF IInv, DaemonInv
    <2>2. TicketInv(c, k)'
      BY <1>3, <1>4, <2>1 DEF TicketInv
    <2>3. PostInv(c, k)'
      BY <1>0, <1>4, <2>1 DEF PostInv
    <2>4. QED
      BY <2>2, <2>3
  <1>7. ASSUME NEW e \in Bridges, NEW k \in Jobs
        PROVE  OwnerInv(e, k)' /\ ReportInv(e, k)'
    <2>1. OwnerInv(e, k) /\ ReportInv(e, k)
      BY DEF IInv, DaemonInv
    <2>2. CASE ~Owner(e, k)
      BY <1>3, <2>2 DEF OwnerInv, ReportInv
    <2>3. CASE Owner(e, k) /\ e # b /\ k # j
      <3>1. mode'[e] = mode[e] /\ outcome'[e] = outcome[e]
        BY <2>3 DEF WorkStep
      <3>2. (Secured(e)' <=> Secured(e)) /\ Result(e)' = Result(e)
        BY <1>0, <3>1 DEF Secured, Result
      <3>3. OwnerInv(e, k)'
        BY <1>0, <1>3, <1>4, <2>1, <2>3, <3>1 DEF OwnerInv
      <3>4. ReportInv(e, k)'
        BY <1>0, <1>3, <1>4, <2>1, <2>3, <3>1, <3>2 DEF ReportInv
      <3>5. QED
        BY <3>3, <3>4
    <2>4. CASE e = b /\ k = j
      <3>1. \A i \in Bridges : Owner(i, j)' => i = b
        BY <1>2, <1>3
      <3>2. OwnerInv(b, j)'
        BY <1>0, <1>2, <1>4, <3>1 DEF OwnerInv, WorkStep
      <3>3. mode'[b] = "reporting" /\ outcome'[b] = "done" /\ j \in Hermes => Evidence(j)'
        BY <1>2 DEF WorkStep, Evidence
      <3>4. row[j].status = "claimed" \/ Secured(b)'
        BY <1>0, <1>2 DEF Undecided, Secured
      <3>5. ReportInv(b, j)'
        BY <1>0, <1>4, <3>3, <3>4 DEF ReportInv
      <3>6. QED
        BY <2>4, <3>2, <3>5
    <2>5. QED
      BY <1>3, <2>2, <2>3, <2>4
  <1>8. ASSUME NEW e \in Bridges, NEW c \in Calls
        PROVE  WaitInv(e, c)'
    <2>1. WaitInv(e, c) /\ WaitInv(b, c)
      BY DEF IInv, DaemonInv
    <2>2. c \notin waiting[b]
      BY <2>1 DEF WaitInv, WorkStep
    <2>3. e # b => mode'[e] = mode[e]
      BY DEF WorkStep
    <2>4. QED
      BY <1>0, <2>1, <2>2, <2>3 DEF WaitInv, Posted
  <1>9. QED
    BY <1>5, <1>6, <1>7, <1>8 DEF DaemonInv


LEMMA FinishChange ==
  ASSUME IInv, NEW b \in Bridges, NEW o, NEW w, Finish(b, o, w)
  PROVE  /\ mode'[b] = "reporting" /\ outcome'[b] = o
         /\ \A e \in Bridges \ {b} : mode'[e] = mode[e] /\ outcome'[e] = outcome[e]
         /\ \A k \in Jobs \ {held[b].job} : k \in open' <=> k \in w
         /\ Keep # "never" /\ o # "done" => open' = w
  <1>1. /\ mode'[b] = "reporting" /\ outcome'[b] = o
        /\ \A e \in Bridges \ {b} : mode'[e] = mode[e] /\ outcome'[e] = outcome[e]
    BY DEF Finish, Become, IInv, TypeOK
  <1>2. open' \in {w, w \ {held[b].job}}
    BY DEF Finish
  <1>3. Keep # "never" /\ o # "done" => open' = w
    BY BridgeAssumption DEF Finish
  <1>4. QED
    BY <1>1, <1>2, <1>3

\* runJob, up to the report.
Works(b) ==
    \/ BlockScientific(b) \/ Launch(b) \/ LaunchFails(b)
    \/ Prompt(b) \/ PromptFails(b) \/ Settles(b) \/ Unsettled(b)

LEMMA WorkIsWorkStep ==
  ASSUME IInv, NEW b \in Bridges, Works(b)
  PROVE  WorkStep(b)
  <1> PICK j \in Jobs : j = held[b].job
    BY Basics
  <1>0. UNCHANGED <<row, overdue, call, held, waiting>>
    BY DEF Works, BlockScientific, Launch, LaunchFails, Prompt, PromptFails, Settles,
           Unsettled, table
  <1>1. /\ JobInv(j) /\ OwnerInv(b, j)
        /\ prompts \in [Jobs -> Nat] /\ DOMAIN agent = Jobs
    BY DEF IInv, DaemonInv, TypeOK
  <1>2. \A o \in Errors : o # "done"
    BY DEF Errors
  <1>3. /\ \A k \in Jobs : agent[k] = agent[k]
        /\ \A v : agent' = [agent EXCEPT ![j] = v] =>
              agent'[j] = v /\ \A k \in Jobs \ {j} : agent'[k] = agent[k]
    BY <1>1
  <1>4. CASE BlockScientific(b)
    <2>1. /\ mode[b] = "claimed" /\ mode'[b] = "reporting" /\ outcome'[b] = "blocked"
          /\ \A e \in Bridges \ {b} : mode'[e] = mode[e] /\ outcome'[e] = outcome[e]
          /\ UNCHANGED <<prompts, agent, open>>
      BY <1>4 DEF BlockScientific, Become, herdr, IInv, TypeOK
    <2>2. QED
      BY <1>0, <1>1, <2>1 DEF WorkStep, JobInv
  <1>5. CASE Launch(b)
    <2>1. /\ mode[b] = "claimed" /\ mode'[b] = "started"
          /\ \A e \in Bridges \ {b} : mode'[e] = mode[e]
          /\ UNCHANGED <<prompts, outcome>> /\ open' = open \cup {j}
          /\ agent' = [agent EXCEPT ![j] = "idle"]
      BY <1>5 DEF Launch, Become, IInv, TypeOK
    <2>2. agent'[j] = "idle" /\ \A k \in Jobs \ {j} : agent'[k] = agent[k]
      BY <1>3, <2>1
    <2>3. QED
      BY <1>0, <2>1, <2>2 DEF WorkStep
  <1>6. CASE LaunchFails(b)
    <2>1. PICK created \in BOOLEAN, o \in Errors :
             /\ agent' \in IF created THEN {agent, [agent EXCEPT ![j] = "idle"]} ELSE {agent}
             /\ Finish(b, o, IF created THEN open \cup {j} ELSE open)
      BY <1>6 DEF LaunchFails
    <2> DEFINE w == IF created THEN open \cup {j} ELSE open
    <2>2. /\ mode'[b] = "reporting" /\ outcome'[b] # "done"
          /\ \A e \in Bridges \ {b} : mode'[e] = mode[e] /\ outcome'[e] = outcome[e]
          /\ \A k \in Jobs \ {j} : k \in open' <=> k \in w
          /\ Keep # "never" => open' = w
      BY <1>2, <2>1, FinishChange
    <2>3. /\ agent'[j] \in {agent[j], "idle"}
          /\ \A k \in Jobs \ {j} : agent'[k] = agent[k]
      BY <1>3, <2>1
    <2>4. j \in Hermes /\ agent'[j] \in {"working", "asking"} /\ Keep # "never" => j \in open'
      BY <1>1, <2>2, <2>3 DEF JobInv
    <2>5. mode[b] = "claimed" /\ UNCHANGED prompts
      BY <1>6 DEF LaunchFails
    <2>6. QED
      BY <1>0, <2>2, <2>3, <2>4, <2>5 DEF WorkStep
  <1>7. CASE Prompt(b)
    <2>1. /\ mode[b] = "started" /\ prompts' = [prompts EXCEPT ![j] = @ + 1]
          /\ agent' = [agent EXCEPT ![j] = "working"]
      BY <1>7 DEF Prompt
    <2>2. /\ prompts'[j] = prompts[j] + 1 /\ agent'[j] = "working"
          /\ \A k \in Jobs \ {j} : prompts'[k] = prompts[k] /\ agent'[k] = agent[k]
      BY <1>1, <1>3, <2>1
    <2>3. j \in open
      BY <1>1, <2>1 DEF OwnerInv, Owner, Working
    <2>4. CASE Become(b, "prompted") /\ UNCHANGED <<outcome, open>>
      <3>1. mode'[b] = "prompted" /\ \A e \in Bridges \ {b} : mode'[e] = mode[e]
        BY <2>4, OwnChange
      <3>2. QED
        BY <1>0, <2>1, <2>2, <2>3, <2>4, <3>1 DEF WorkStep
    <2>5. ASSUME NEW o \in Errors, Finish(b, o, open)
          PROVE  WorkStep(b)
      <3>1. /\ mode'[b] = "reporting" /\ outcome'[b] # "done"
            /\ \A e \in Bridges \ {b} : mode'[e] = mode[e] /\ outcome'[e] = outcome[e]
            /\ \A k \in Jobs \ {j} : k \in open' <=> k \in open
            /\ Keep # "never" => open' = open
        BY <1>2, <2>5, FinishChange
      <3>2. QED
        BY <1>0, <2>1, <2>2, <2>3, <3>1 DEF WorkStep
    <2>6. QED
      BY <1>7, <2>4, <2>5 DEF Prompt
  <1>8. CASE PromptFails(b) \/ Unsettled(b)
    <2>1. PICK o \in Errors : Finish(b, o, open)
      BY <1>8 DEF PromptFails, Unsettled
    <2>2. /\ mode'[b] = "reporting" /\ outcome'[b] # "done"
          /\ \A e \in Bridges \ {b} : mode'[e] = mode[e] /\ outcome'[e] = outcome[e]
          /\ \A k \in Jobs \ {j} : k \in open' <=> k \in open
          /\ Keep # "never" => open' = open
      BY <1>2, <2>1, FinishChange
    <2>3. mode[b] \in {"started", "prompted"} /\ UNCHANGED <<prompts, agent>>
      BY <1>8 DEF PromptFails, Unsettled
    <2>4. QED
      BY <1>0, <1>1, <2>2, <2>3 DEF WorkStep, JobInv
  <1>9. CASE Settles(b)
    <2>1. /\ mode'[b] = "reporting"
          /\ \A e \in Bridges \ {b} : mode'[e] = mode[e] /\ outcome'[e] = outcome[e]
          /\ \A k \in Jobs \ {j} : k \in open' <=> k \in open
      BY <1>9, FinishChange DEF Settles
    <2>2. /\ mode[b] = "prompted" /\ UNCHANGED <<prompts, agent>>
          /\ j \in Hermes => agent[j] = "answered"
      BY <1>9 DEF Settles
    <2>3. QED
      BY <1>0, <2>1, <2>2 DEF WorkStep
  <1>10. QED
    BY <1>4, <1>5, <1>6, <1>7, <1>8, <1>9 DEF Works

-------------------------------------------------------------------------------
(* The inductive invariant.                                                *)

LEMMA AgentKeeps ==
  ASSUME IInv, NEW j \in Jobs, AgentMoves(j)
  PROVE  DaemonInv'
  <1>1. /\ UNCHANGED <<row, overdue, call, mode, held, outcome, waiting, prompts, open>>
        /\ j \in open /\ agent[j] # "answered"
        /\ \A k \in Jobs \ {j} : agent'[k] = agent[k]
    BY DEF AgentMoves, table, daemon, IInv, TypeOK
  <1>2. ASSUME NEW k \in Jobs
        PROVE  /\ Undecided(k)' <=> Undecided(k)
               /\ Evidence(k) => Evidence(k)'
               /\ \A c \in Calls : /\ Posted(c, k)' <=> Posted(c, k)
                                   /\ Ticket(c, k)' <=> Ticket(c, k)
               /\ \A b \in Bridges : Owner(b, k)' <=> Owner(b, k)
    BY <1>1 DEF Undecided, Evidence, Posted, Ticket, Owner
  <1>3. ASSUME NEW k \in Jobs
        PROVE  JobInv(k)'
    <2>1. JobInv(k)
      BY DEF IInv, DaemonInv
    <2>2. QED
      BY <1>1, <1>2, <2>1 DEF JobInv
  <1>4. ASSUME NEW c \in Calls, NEW k \in Jobs
        PROVE  TicketInv(c, k)' /\ PostInv(c, k)'
    <2>1. TicketInv(c, k) /\ PostInv(c, k)
      BY DEF IInv, DaemonInv
    <2>2. QED
      BY <1>1, <1>2, <2>1 DEF TicketInv, PostInv
  <1>5. ASSUME NEW b \in Bridges, NEW k \in Jobs
        PROVE  OwnerInv(b, k)' /\ ReportInv(b, k)'
    <2>1. OwnerInv(b, k) /\ ReportInv(b, k)
      BY DEF IInv, DaemonInv
    <2>2. (Secured(b)' <=> Secured(b)) /\ Result(b)' = Result(b)
      BY <1>1 DEF Secured, Result
    <2>3. OwnerInv(b, k)'
      BY <1>1, <1>2, <2>1 DEF OwnerInv
    <2>4. ReportInv(b, k)'
      BY <1>1, <1>2, <2>1, <2>2 DEF ReportInv
    <2>5. QED
      BY <2>3, <2>4
  <1>6. ASSUME NEW b \in Bridges, NEW c \in Calls
        PROVE  WaitInv(b, c)'
    <2>1. WaitInv(b, c)
      BY DEF IInv, DaemonInv
    <2>2. QED
      BY <1>1, <2>1 DEF WaitInv, Posted
  <1>7. QED
    BY <1>3, <1>4, <1>5, <1>6 DEF DaemonInv

LEMMA DaemonKeeps ==
  ASSUME IInv, NEW b \in Bridges, Daemon(b) \/ Stop(b) \/ Crash(b)
  PROVE  DaemonInv'
  <1>1. CASE Poll(b)
    BY <1>1, PollIsQuiet, QuietKeeps
  <1>2. CASE PollReturns(b)
    <2>1. PICK c \in waiting[b] :
             /\ Table!Return(c)
             /\ \/ /\ call[c].answer = "claimed"
                   /\ held' = [held EXCEPT ![b] = [job |-> call[c].job,
                                                   claim |-> row[call[c].job].attempts]]
                   /\ Become(b, "claimed")
                \/ Become(b, "ready") /\ UNCHANGED held
      BY <1>2 DEF PollReturns
    <2>2. mode[b] = "polling" /\ StopWaiting(b) /\ UNCHANGED <<outcome, prompts, agent, open>>
      BY <1>2 DEF PollReturns, herdr
    <2>3. CASE Become(b, "ready") /\ UNCHANGED held
      <3>1. mode'[b] \notin Working /\ \A e \in Bridges \ {b} : mode'[e] = mode[e]
        BY <2>3, OwnChange DEF Working
      <3>2. QED
        BY <2>1, <2>2, <2>3, <3>1, AnswerIsQuiet, QuietKeeps
    <2>4. QED
      BY <2>1, <2>2, <2>3, HandedKeeps
  <1>3. CASE Works(b)
    BY <1>3, WorkIsWorkStep, WorkKeeps
  <1>4. CASE Report(b)
    BY <1>4, ReportKeeps
  <1>5. CASE ReportReturns(b)
    <2>1. PICK c \in waiting[b] : Table!Return(c)
      BY <1>5 DEF ReportReturns
    <2>2. /\ mode[b] = "reporting" /\ StopWaiting(b)
          /\ UNCHANGED <<held, outcome, prompts, agent, open>>
          /\ Become(b, "ready") \/ Become(b, "reporting")
      BY <1>5 DEF ReportReturns, Retry, herdr
    <2>3. /\ mode'[b] = mode[b] \/ mode'[b] \notin Working
          /\ \A e \in Bridges \ {b} : mode'[e] = mode[e]
      BY <2>2, OwnChange DEF Working
    <2>4. QED
      BY <2>1, <2>2, <2>3, AnswerIsQuiet, QuietKeeps
  <1>6. CASE PollLost(b) \/ ReportLost(b) \/ Exit(b) \/ Restart(b) \/ Stop(b) \/ Crash(b)
    BY <1>6, LifeIsQuiet, QuietKeeps
  <1>7. QED
    BY <1>1, <1>2, <1>3, <1>4, <1>5, <1>6 DEF Daemon, Runs, Works

LEMMA InitInv == Init => IInv
  <1> SUFFICES ASSUME Init PROVE IInv
    OBVIOUS
  <1>1. Proofs!IInv
    BY TableAssumption, SameInit, Proofs!InitInv DEF Init
  <1>2. Table!TypeOK
    BY <1>1, TableTypes
  <1>3. /\ \A j \in Jobs : row[j] = Table!Absent /\ prompts[j] = 0 /\ agent[j] = "none"
        /\ \A c \in Calls : call[c] = Table!Free
        /\ \A b \in Bridges : mode[b] = "ready" /\ waiting[b] = {}
    BY DEF Init, Table!Init
  <1>4. /\ Table!Free.kind = "next" /\ Table!Free.phase = "free"
        /\ Table!Free.answer = "none"
        /\ Table!Absent.attempts = 0 /\ Table!Absent.status = "absent"
    BY DEF Table!Free, Table!Absent
  <1>5. TypeOK
    <2>1. (CHOOSE j \in Jobs : TRUE) \in Jobs
      BY TableAssumption DEF Table!JobAssumption
    <2>2. held \in [Bridges -> Held]
      BY <2>1 DEF Init, Held
    <2>3. QED
      BY <1>2, <2>2, BridgeAssumption DEF Init, TypeOK, Mode, Table!Terminal
  <1>6. ASSUME NEW j \in Jobs
        PROVE  /\ JobInv(j)
               /\ \A c \in Calls : TicketInv(c, j) /\ PostInv(c, j)
               /\ \A b \in Bridges : OwnerInv(b, j) /\ ReportInv(b, j)
    BY <1>3, <1>4 DEF JobInv, TicketInv, Ticket, PostInv, Posted, OwnerInv, ReportInv,
                      Owner, Working
  <1>7. \A b \in Bridges, c \in Calls : WaitInv(b, c)
    BY <1>3 DEF WaitInv
  <1>8. QED
    BY <1>1, <1>5, <1>6, <1>7 DEF IInv, DaemonInv

LEMMA InvStep == IInv /\ [Next]_vars => IInv'
  <1> SUFFICES ASSUME IInv, [Next]_vars PROVE IInv'
    OBVIOUS
  <1>1. TypeOK' /\ Proofs!IInv'
    BY TypeStep
  <1>2. \A c \in Calls : call[c].phase = "claim" => call[c].kind = "next"
    BY Basics DEF IInv, DaemonInv, PostInv
  <1>3. CASE UNCHANGED vars
    <2>1. UNCHANGED <<daemon, herdr>>
      BY <1>3 DEF vars, daemon, herdr
    <2>2. TableEffect
      BY <1>3 DEF vars, TableEffect, RowEffect, CallEffect
    <2>3. QED
      BY <1>1, <2>1, <2>2, OthersStep DEF IInv
  <1>4. ASSUME NEW b \in Bridges, Daemon(b) \/ Stop(b) \/ Crash(b)
        PROVE  IInv'
    BY <1>1, <1>4, DaemonKeeps DEF IInv
  <1>5. ASSUME NEW j \in Jobs, AgentMoves(j)
        PROVE  IInv'
    BY <1>1, <1>5, AgentKeeps DEF IInv
  <1>6. CASE \/ \E c \in Calls : Control(c) \/ Discard(c)
             \/ \E j \in Jobs : RunsOut(j)
             \/ Operator
    <2>1. TableEffect
      <3>1. Proofs!IInv
        BY DEF IInv
      <3>2. QED
        BY <1>2, <1>6, <3>1, OthersEffect
    <2>2. UNCHANGED <<daemon, herdr>>
      BY <1>6 DEF Control, Discard, RunsOut, Operator
    <2>3. QED
      BY <1>1, <2>1, <2>2, OthersStep DEF IInv
  <1>7. QED
    BY <1>3, <1>4, <1>5, <1>6 DEF Next

LEMMA Invariance == Spec => []IInv
  BY InitInv, InvStep, PTL DEF Spec

-------------------------------------------------------------------------------
(* The theorems.                                                           *)

\* Every variable stays in the set of values it is meant for.
THEOREM TypeCorrect == Spec => []TypeOK
  <1>1. IInv => TypeOK
    BY DEF IInv
  <1>2. QED
    BY <1>1, Invariance, PTL

\* However many daemons share a machine, and whatever crashes, is lost or runs
\* out, no agent is prompted twice for a job (dispatch.ts:217-226, 336-353,
\* jobs.ts:175-198).
THEOREM NoSecondPrompt == Spec => []PromptedAtMostOnce
  <1>1. IInv => PromptedAtMostOnce
    BY DEF IInv, DaemonInv, JobInv, PromptedAtMostOnce
  <1>2. QED
    BY <1>1, Invariance, PTL

\* A hermes job is done only on the evidence of an answer, and the workspace of
\* an agent that has not answered stays (dispatch.ts:227-253, 279-295).
THEOREM DoneOnEvidence == Spec => []EvidenceBeforeSuccess
  <1>1. IInv => EvidenceBeforeSuccess
    BY BridgeAssumption DEF IInv, DaemonInv, JobInv, Evidence, EvidenceBeforeSuccess
  <1>2. QED
    BY <1>1, Invariance, PTL

\* A refused result is in the table, or its claim has run out
\* (dispatch.ts:330-353, jobs.ts:320-350).
THEOREM NoOutcomeLost == Spec => []RefusedIsRecordedOrOverdue
  <1>1. IInv => RefusedIsRecordedOrOverdue
    <2> SUFFICES ASSUME IInv, NEW b \in Bridges, NEW c \in waiting[b],
                        mode[b] = "reporting", call[c].answer = "rejected"
                 PROVE  LET j == held[b].job IN
                        \/ row[j].result = Result(b)
                        \/ j \in overdue /\ row[j].status \in {"claimed", "timeout"}
      BY DEF RefusedIsRecordedOrOverdue
    <2>1. c \in Calls
      BY DEF IInv, TypeOK
    <2>2. PICK j \in Jobs : j = held[b].job
      BY Basics
    <2>3. Posted(c, j) /\ Owner(b, j)
      BY <2>1, <2>2 DEF IInv, DaemonInv, WaitInv, Owner, Working
    <2>4. Secured(b) \/ (row[j].status = "claimed" /\ j \in overdue)
      BY <2>1, <2>3 DEF IInv, DaemonInv, ReportInv
    <2>5. QED
      BY <2>2, <2>4 DEF Secured
  <1>2. QED
    BY <1>1, Invariance, PTL

\* The daemons and the table together implement BridgeJobs: every theorem about
\* the table for arbitrary clients holds of it with the daemons.
THEOREM DaemonsUseTheTable == Spec => UsesTheTable
  <1>1. Init => Table!Init
    BY DEF Init
  <1>2. IInv /\ [Next]_vars => [Table!Next]_Table!vars
    BY Allowed
  <1>3. QED
    BY <1>1, <1>2, Invariance, PTL DEF Spec, UsesTheTable, Table!Spec

-------------------------------------------------------------------------------
(* The theorems about the table, for the table with its daemons.           *)

\* No machine holds two claims at a time, also with several daemons for it
\* (jobs.ts:187-196).
THEOREM DaemonsHoldOneClaim == Spec => []Table!OneClaimPerMachine
  <1>1. IInv => Table!OneClaimPerMachine
    BY DEF IInv, Proofs!IInv, Proofs!OneClaimPerMachine, Table!OneClaimPerMachine
  <1>2. QED
    BY <1>1, Invariance, PTL

\* No crash, lost answer or failed statement makes a job claimable again
\* (jobs.ts:5).
THEOREM DaemonsNeverReplay == Spec => []Table!NeverReplayed
  <1>1. IInv => Table!NeverReplayed
    <2> SUFFICES ASSUME IInv, NEW j \in Jobs
                 PROVE  /\ row[j].attempts <= 1
                        /\ row[j].status \notin {"absent", "pending"} => row[j].attempts = 1
      BY DEF Table!NeverReplayed
    <2>1. row[j].status \in {"absent", "pending", "claimed"} \cup Table!Terminal
      BY Basics DEF Table!TypeOK, Table!Row, Table!Status
    <2>2. QED
      BY <2>1, Basics
  <1>2. QED
    BY <1>1, Invariance, PTL

\* What the table records of a job was posted by a daemon with the claim of
\* that job, or says that the outcome is uncertain (jobs.ts:310-350).
THEOREM DaemonsAreFenced == Spec => []Table!ResultsAreFenced
  <1>1. IInv => Table!ResultsAreFenced
    BY DEF IInv, Proofs!IInv, Proofs!RowInv, Proofs!Recorded, Table!ResultsAreFenced,
           Proofs!Terminal, Table!Terminal, Proofs!NoBody, Table!NoBody
  <1>2. QED
    BY <1>1, Invariance, PTL

\* A daemon that hears "ok" finds its own result in the table (jobs.ts:320-350).
THEOREM DaemonsHearTheTruth == Spec => []Table!OkMeansRecorded
  <1>1. IInv => Table!OkMeansRecorded
    BY DEF IInv, Proofs!IInv, Proofs!OkInv, Table!OkMeansRecorded
  <1>2. QED
    BY <1>1, Invariance, PTL

\* No daemon, late post or expiry changes a closed row (jobs.ts:320-350).
THEOREM DaemonsLeaveClosedRows == Spec => Table!TerminalIsFinal
  <1>1. IInv /\ [Next]_vars => [Table!KeepsTerminal]_row
    <2> SUFFICES ASSUME IInv, [Next]_vars
                 PROVE  Proofs!KeepsTerminal
      BY DEF Proofs!KeepsTerminal, Table!KeepsTerminal, Proofs!Terminal, Table!Terminal
    <2>1. Proofs!IInv /\ [Proofs!Next]_Proofs!vars
      BY Allowed, SameNext DEF IInv
    <2>2. QED
      BY <2>1, TableAssumption, Proofs!TerminalStep
  <1>2. QED
    BY <1>1, Invariance, PTL DEF Spec, Table!TerminalIsFinal

\* The daemons, their crashes and the requests nobody waits for never make the
\* board of BridgeJobs go wrong: one hand-out and one end for each job, and no
\* answer it does not bear out (jobs.ts:175-350, dispatch.ts:116-145).
THEOREM DaemonsKeepTheBoard == Spec => Table!ImplementsJobBoard
  <1> DEFINE Quiet == Proofs!Unanswered
  <1>1. Init => Table!Board!Init /\ Quiet
    <2> SUFFICES ASSUME Init PROVE Table!Board!Init /\ Quiet
      OBVIOUS
    <2>1. Proofs!Init
      BY SameInit DEF Init
    <2>2. Proofs!Board!Init /\ Quiet
      BY <2>1, TableAssumption, Proofs!BoardInit
    <2>3. QED
      BY <2>2 DEF Proofs!Board!Init, Table!Board!Init, Proofs!Place, Table!Place,
                  Proofs!Offered, Table!Offered, Proofs!Confirmed, Table!Confirmed,
                  Proofs!NoBody, Table!NoBody
  <1>2. IInv /\ Quiet /\ [Next]_vars => Quiet'
    <2> SUFFICES ASSUME IInv, Quiet, [Next]_vars PROVE Quiet'
      OBVIOUS
    <2>1. Proofs!IInv /\ [Proofs!Next]_Proofs!vars
      BY Allowed, SameNext DEF IInv
    <2>2. QED
      BY <2>1, TableAssumption, Proofs!UnansweredStep
  <1>3. IInv /\ Quiet /\ [Next]_vars => [Table!Board!Next]_(Table!Board!vars)
    <2> SUFFICES ASSUME IInv, Quiet, [Next]_vars
                 PROVE  [Table!Board!Next]_(Table!Board!vars)
      OBVIOUS
    <2>1. Proofs!IInv /\ [Proofs!Next]_Proofs!vars
      BY Allowed, SameNext DEF IInv
    <2>2. [Proofs!Board!Next]_(Proofs!Board!vars)
      BY <2>1, TableAssumption, Proofs!BoardStep
    <2>3. QED
      BY <2>2 DEF Proofs!Board!Next, Table!Board!Next, Proofs!Board!vars, Table!Board!vars,
                  Proofs!Board!Post, Table!Board!Post, Proofs!Board!HandOut,
                  Table!Board!HandOut, Proofs!Board!Report, Table!Board!Report,
                  Proofs!Board!GiveUp, Table!Board!GiveUp, Proofs!Board!Confirm,
                  Table!Board!Confirm, Proofs!Board!Arrive, Table!Board!Arrive,
                  Proofs!Place, Table!Place, Proofs!Offered, Table!Offered,
                  Proofs!Confirmed, Table!Confirmed, Proofs!NoBody, Table!NoBody,
                  Proofs!Terminal, Table!Terminal
  <1>4. QED
    BY <1>1, <1>2, <1>3, Invariance, PTL DEF Spec, Table!ImplementsJobBoard, Table!Board!Spec

\* No two daemons work on one job, and none works on a job whose answer is still
\* on its way to somebody.
OneDaemonPerJob ==
    \A j \in Jobs, b \in Bridges : Owner(b, j) =>
        /\ \A e \in Bridges : Owner(e, j) => e = b
        /\ \A c \in Calls : ~Ticket(c, j)

\* Two daemons of one machine, a restart and a lost answer never put two daemons
\* to work on one job (jobs.ts:175-198, dispatch.ts:116-145).
THEOREM OneDaemonWorks == Spec => []OneDaemonPerJob
  <1>1. IInv => OneDaemonPerJob
    BY DEF IInv, DaemonInv, OwnerInv, TicketInv, OneDaemonPerJob
  <1>2. QED
    BY <1>1, Invariance, PTL

-------------------------------------------------------------------------------
(* What was done was prompted, and scientific jobs are left alone.         *)

\* A job is reported and recorded as done only after its prompt; of a scientific
\* job nothing exists in herdr.
DoneInv(j) ==
    /\ row[j].status = "done" => prompts[j] = 1
    /\ \A c \in Calls : Posted(c, j) /\ call[c].body.outcome = "done" => prompts[j] = 1
    /\ \A b \in Bridges :
          Owner(b, j) /\ mode[b] = "reporting" /\ outcome[b] = "done" => prompts[j] = 1
    /\ j \in Scientific =>
          /\ prompts[j] = 0 /\ agent[j] = "none" /\ j \notin open
          /\ \A b \in Bridges : Owner(b, j) => mode[b] \in {"claimed", "reporting"}

LEMMA DoneQuiet ==
  ASSUME IInv, QuietStep, NEW j \in Jobs, DoneInv(j)
  PROVE  DoneInv(j)'
  <1>1. UNCHANGED <<row, held, outcome, prompts, agent, open>>
    BY DEF QuietStep
  <1>2. \A b \in Bridges : Owner(b, j)' => Owner(b, j) /\ mode'[b] = mode[b]
    BY <1>1 DEF QuietStep, Owner
  <1>3. \A c \in Calls : Posted(c, j)' => Posted(c, j) /\ call'[c] = call[c]
    BY DEF QuietStep, Posted
  <1>4. QED
    BY <1>1, <1>2, <1>3 DEF DoneInv

LEMMA DoneOthers ==
  ASSUME IInv, TableEffect, UNCHANGED <<daemon, herdr>>, NEW j \in Jobs, DoneInv(j)
  PROVE  DoneInv(j)'
  <1>1. UNCHANGED <<mode, held, outcome, prompts, agent, open>>
    BY DEF daemon, herdr
  <1>2. \A b \in Bridges : Owner(b, j)' <=> Owner(b, j)
    BY <1>1 DEF Owner
  <1>3. \A c \in Calls : Posted(c, j)' => Posted(c, j) /\ call'[c].body = call[c].body
    BY CallsKeep
  <1>4. row'[j].status = "done" => prompts[j] = 1
    BY DEF TableEffect, RowEffect, DoneInv
  <1>5. QED
    BY <1>1, <1>2, <1>3, <1>4 DEF DoneInv

LEMMA DoneHanded ==
  ASSUME IInv, NEW b \in Bridges, PollReturns(b), NEW j \in Jobs, DoneInv(j)
  PROVE  DoneInv(j)'
  <1>1. PICK c \in waiting[b] :
           /\ Table!Return(c)
           /\ Become(b, "claimed") \/ (Become(b, "ready") /\ UNCHANGED held)
    BY DEF PollReturns
  <1>2. /\ c \in Calls /\ UNCHANGED <<row, outcome, prompts, agent, open>>
        /\ \A e \in Bridges \ {b} : held'[e] = held[e]
    BY <1>1, ReturnEffect, Basics DEF PollReturns, herdr, IInv, TypeOK
  <1>3. /\ mode'[b] \in {"claimed", "ready"}
        /\ \A e \in Bridges \ {b} : mode'[e] = mode[e]
    BY <1>1, OwnChange
  <1>4. \A d \in Calls : call'[d] = call[d] \/ call'[d].kind = "next"
    BY <1>1, <1>2, ReturnEffect, Basics
  <1>5. \A d \in Calls : Posted(d, j)' => Posted(d, j) /\ call'[d] = call[d]
    BY <1>4 DEF Posted
  <1>6. \A e \in Bridges \ {b} : Owner(e, j)' => Owner(e, j)
    BY <1>2, <1>3 DEF Owner
  <1>7. ASSUME NEW e \in Bridges, Owner(e, j)'
        PROVE  /\ mode'[e] = "reporting" => Owner(e, j) /\ mode[e] = "reporting"
               /\ mode'[e] = "claimed" \/ (Owner(e, j) /\ mode'[e] = mode[e])
    <2>1. CASE e = b
      BY <1>3, <1>7, <2>1 DEF Owner, Working
    <2>2. CASE e # b
      BY <1>3, <1>6, <1>7, <2>2
    <2>3. QED
      BY <2>1, <2>2
  <1>8. \A d \in Calls : Posted(d, j)' /\ call'[d].body.outcome = "done" => prompts'[j] = 1
    BY <1>2, <1>5 DEF DoneInv
  <1>9. QED
    BY <1>2, <1>7, <1>8 DEF DoneInv

LEMMA DonePosted ==
  ASSUME IInv, NEW b \in Bridges, Report(b), NEW j \in Jobs, DoneInv(j)
  PROVE  DoneInv(j)'
  <1>1. PICK c \in Calls : Table!PostResult(c, held[b].job, Result(b))
    BY DEF Report
  <1>2. /\ UNCHANGED <<row, mode, held, outcome, prompts, agent, open>>
        /\ \A d \in Calls \ {c} : call'[d] = call[d]
    BY <1>1, Basics DEF Report, Table!PostResult, Table!TypeOK, herdr
  <1>3. call'[c].job = held[b].job /\ call'[c].body = Result(b)
    <2>1. call'[c] = [Table!Free EXCEPT !.phase = "expire", !.kind = "result",
                                        !.machine = Result(b).machine,
                                        !.job = held[b].job, !.body = Result(b)]
      BY <1>1, Basics DEF Table!PostResult, Table!TypeOK
    <2>2. QED
      BY <2>1 DEF Table!Free
  <1>4. Posted(c, j)' => Owner(b, j) /\ mode[b] = "reporting"
    BY <1>3 DEF Posted, Owner, Working, Report
  <1>5. \A d \in Calls : Posted(d, j)' /\ call'[d].body.outcome = "done" => prompts[j] = 1
    <2>1. Posted(c, j)' /\ call'[c].body.outcome = "done" => prompts[j] = 1
      BY <1>3, <1>4 DEF Result, DoneInv
    <2>2. QED
      BY <1>2, <2>1 DEF Posted, DoneInv
  <1>6. \A e \in Bridges : Owner(e, j)' <=> Owner(e, j)
    BY <1>2 DEF Owner
  <1>7. QED
    BY <1>2, <1>5, <1>6 DEF DoneInv

\* What a daemon does to the outcome and to a scientific job.
LEMMA WorkOnScientific ==
  ASSUME IInv, NEW b \in Bridges, Works(b)
  PROVE  /\ mode'[b] = "reporting" /\ outcome'[b] = "done" => mode[b] = "prompted"
         /\ held[b].job \in Scientific /\ mode[b] = "claimed" =>
               mode'[b] = "reporting" /\ UNCHANGED <<prompts, agent, open>>
  <1>1. CASE BlockScientific(b)
    <2>1. outcome'[b] = "blocked" /\ mode'[b] = "reporting"
      BY <1>1, OwnChange DEF BlockScientific, IInv, TypeOK
    <2>2. QED
      BY <1>1, <2>1 DEF BlockScientific, herdr
  <1>2. CASE Launch(b)
    <2>1. mode'[b] = "started"
      BY <1>2, OwnChange DEF Launch
    <2>2. QED
      BY <1>2, <2>1 DEF Launch
  <1>3. CASE LaunchFails(b) \/ PromptFails(b) \/ Unsettled(b)
    <2>1. PICK o \in Errors : \E w : Finish(b, o, w)
      BY <1>3 DEF LaunchFails, PromptFails, Unsettled
    <2>2. outcome'[b] # "done"
      BY <2>1, FinishChange DEF Errors
    <2>3. QED
      BY <1>3, <2>2 DEF LaunchFails, PromptFails, Unsettled
  <1>4. CASE Prompt(b)
    <2>1. Become(b, "prompted") \/ \E o \in Errors : Finish(b, o, open)
      BY <1>4 DEF Prompt
    <2>2. mode'[b] = "prompted" \/ outcome'[b] # "done"
      BY <2>1, OwnChange, FinishChange DEF Errors
    <2>3. QED
      BY <1>4, <2>2 DEF Prompt
  <1>5. CASE Settles(b)
    BY <1>5 DEF Settles
  <1>6. QED
    BY <1>1, <1>2, <1>3, <1>4, <1>5 DEF Works

LEMMA DoneWorks ==
  ASSUME IInv, NEW b \in Bridges, Works(b), NEW j \in Jobs, DoneInv(j)
  PROVE  DoneInv(j)'
  <1>0. WorkStep(b)
    BY WorkIsWorkStep
  <1>1. /\ UNCHANGED <<row, call, held>>
        /\ mode[b] \in {"claimed", "started", "prompted"}
        /\ \A e \in Bridges \ {b} : mode'[e] = mode[e] /\ outcome'[e] = outcome[e]
    BY <1>0 DEF WorkStep
  <1>2. \A c \in Calls : Posted(c, j)' <=> Posted(c, j)
    BY <1>1 DEF Posted
  <1>3. CASE held[b].job # j
    <2>1. /\ prompts'[j] = prompts[j] /\ agent'[j] = agent[j]
          /\ j \in open' <=> j \in open
      BY <1>0, <1>3 DEF WorkStep
    <2>2. ~Owner(b, j)' /\ \A e \in Bridges \ {b} : Owner(e, j)' <=> Owner(e, j)
      BY <1>1, <1>3 DEF Owner
    <2>3. QED
      BY <1>1, <1>2, <2>1, <2>2 DEF DoneInv
  <1>4. CASE held[b].job = j
    <2>1. Owner(b, j) /\ OwnerInv(b, j)
      BY <1>1, <1>4 DEF Owner, Working, IInv, DaemonInv
    <2>2. /\ \A c \in Calls : ~Posted(c, j)
          /\ \A e \in Bridges \ {b} : ~Owner(e, j)
          /\ row[j].status # "done"
          /\ mode[b] = "prompted" => prompts[j] = 1
      BY <1>1, <2>1 DEF OwnerInv, Undecided
    <2>3. /\ \A c \in Calls : ~Posted(c, j)'
          /\ \A e \in Bridges \ {b} : ~Owner(e, j)'
      BY <1>1, <1>2, <2>2 DEF Owner
    <2>4. mode'[b] = "reporting" /\ outcome'[b] = "done" => prompts'[j] = 1
      BY <1>0, <1>4, <2>2, WorkOnScientific DEF WorkStep
    <2>5. ASSUME j \in Scientific
          PROVE  /\ prompts'[j] = 0 /\ agent'[j] = "none" /\ j \notin open'
                 /\ mode'[b] \in {"claimed", "reporting"}
      BY <1>1, <1>4, <2>1, <2>5, WorkOnScientific DEF DoneInv
    <2>6. QED
      BY <1>1, <2>2, <2>3, <2>4, <2>5 DEF DoneInv
  <1>5. QED
    BY <1>3, <1>4

LEMMA DoneAgents ==
  ASSUME IInv, NEW k \in Jobs, AgentMoves(k), NEW j \in Jobs, DoneInv(j)
  PROVE  DoneInv(j)'
  <1>1. /\ UNCHANGED <<row, call, mode, held, outcome, prompts, open>> /\ k \in open
        /\ \A i \in Jobs \ {k} : agent'[i] = agent[i]
    BY DEF AgentMoves, table, daemon, IInv, TypeOK
  <1>2. /\ \A b \in Bridges : Owner(b, j)' <=> Owner(b, j)
        /\ \A c \in Calls : Posted(c, j)' <=> Posted(c, j)
    BY <1>1 DEF Owner, Posted
  <1>3. QED
    BY <1>1, <1>2 DEF DoneInv

LEMMA DoneStep ==
  ASSUME IInv, [Next]_vars, NEW j \in Jobs, DoneInv(j)
  PROVE  DoneInv(j)'
  <1>1. CASE UNCHANGED vars
    BY <1>1, DoneOthers DEF vars, TableEffect, RowEffect, CallEffect, daemon, herdr
  <1>2. ASSUME NEW b \in Bridges, Daemon(b) \/ Stop(b) \/ Crash(b)
        PROVE  DoneInv(j)'
    <2>1. CASE Poll(b)
      BY <2>1, PollIsQuiet, DoneQuiet
    <2>2. CASE PollReturns(b)
      BY <2>2, DoneHanded
    <2>3. CASE Works(b)
      BY <2>3, DoneWorks
    <2>4. CASE Report(b)
      BY <2>4, DonePosted
    <2>5. CASE ReportReturns(b)
      <3>1. PICK c \in waiting[b] : Table!Return(c)
        BY <2>5 DEF ReportReturns
      <3>2. /\ StopWaiting(b) /\ UNCHANGED <<held, outcome, prompts, agent, open>>
            /\ mode[b] = "reporting" /\ (Become(b, "ready") \/ Become(b, "reporting"))
        BY <2>5 DEF ReportReturns, Retry, herdr
      <3>3. /\ mode'[b] = mode[b] \/ mode'[b] \notin Working
            /\ \A e \in Bridges \ {b} : mode'[e] = mode[e]
        BY <3>2, OwnChange DEF Working
      <3>4. QED
        BY <3>1, <3>2, <3>3, AnswerIsQuiet, DoneQuiet
    <2>6. CASE PollLost(b) \/ ReportLost(b) \/ Exit(b) \/ Restart(b) \/ Stop(b) \/ Crash(b)
      BY <2>6, LifeIsQuiet, DoneQuiet
    <2>7. QED
      BY <1>2, <2>1, <2>2, <2>3, <2>4, <2>5, <2>6 DEF Daemon, Runs, Works
  <1>3. ASSUME NEW k \in Jobs, AgentMoves(k)
        PROVE  DoneInv(j)'
    BY <1>3, DoneAgents
  <1>4. CASE \/ \E c \in Calls : Control(c) \/ Discard(c)
             \/ \E k \in Jobs : RunsOut(k)
             \/ Operator
    <2>1. Proofs!IInv /\ \A c \in Calls : call[c].phase = "claim" => call[c].kind = "next"
      BY Basics DEF IInv, DaemonInv, PostInv
    <2>2. TableEffect
      BY <1>4, <2>1, OthersEffect
    <2>3. UNCHANGED <<daemon, herdr>>
      BY <1>4 DEF Control, Discard, RunsOut, Operator
    <2>4. QED
      BY <2>2, <2>3, DoneOthers
  <1>5. QED
    BY <1>1, <1>2, <1>3, <1>4 DEF Next

LEMMA DoneInit ==
  ASSUME Init, NEW j \in Jobs
  PROVE  DoneInv(j)
  <1>1. row[j].status = "absent" /\ \A c \in Calls : call[c].kind = "next"
    BY DEF Init, Table!Init, Table!Absent, Table!Free
  <1>2. QED
    BY <1>1 DEF Init, DoneInv, Posted, Owner, Working

LEMMA DoneInvariance == Spec => [](IInv /\ \A j \in Jobs : DoneInv(j))
  <1>1. Init => \A j \in Jobs : DoneInv(j)
    BY DoneInit
  <1>2. IInv /\ (\A j \in Jobs : DoneInv(j)) /\ [Next]_vars => (\A j \in Jobs : DoneInv(j))'
    BY DoneStep
  <1>3. QED
    BY <1>1, <1>2, InitInv, InvStep, PTL DEF Spec

\* What is done was prompted exactly once.
DoneWasPrompted == \A j \in Jobs : row[j].status = "done" => prompts[j] = 1

\* No job is recorded as done whose prompt no agent was given, whatever crashes,
\* is lost or is posted twice (dispatch.ts:220-260, 330-353).
THEOREM DoneIsEarned == Spec => []DoneWasPrompted
  <1>1. (\A j \in Jobs : DoneInv(j)) => DoneWasPrompted
    BY DEF DoneInv, DoneWasPrompted
  <1>2. QED
    BY <1>1, DoneInvariance, PTL

\* No workspace and no agent ever exist for a scientific job, and it is never done.
ScientificIsLeftAlone ==
    \A j \in Scientific :
        /\ j \notin open /\ agent[j] = "none" /\ prompts[j] = 0
        /\ row[j].status # "done"

\* Legacy dispatch never launches a scientific job (dispatch.ts:170-177).
THEOREM NoScientificLaunch == Spec => []ScientificIsLeftAlone
  <1>1. (\A j \in Jobs : DoneInv(j)) => ScientificIsLeftAlone
    BY BridgeAssumption DEF DoneInv, ScientificIsLeftAlone
  <1>2. QED
    BY <1>1, DoneInvariance, PTL

===============================================================================
