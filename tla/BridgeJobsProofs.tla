---------------------------- MODULE BridgeJobsProofs ----------------------------
(***************************************************************************)
(* Proofs about BridgeJobs, for every set of jobs, machines and concurrent *)
(* requests: clients may claim and post whatever they like.                *)
(***************************************************************************)
EXTENDS BridgeJobs, TLAPS

\* A terminal row is what one posted result or an expiry made of it.
Recorded(r, m) ==
    \/ /\ r.result.machine = m
       /\ r.result.claim = r.attempts
       /\ r.result.outcome = r.status
    \/ r.result = NoBody /\ r.status = "timeout"

\* What the status of a row says about its other columns.
RowInv(j) ==
    /\ row[j].status \in {"absent", "pending"} => row[j].attempts = 0
    /\ row[j].status \in {"claimed"} \cup Terminal => row[j].attempts = 1
    /\ row[j].status \notin Terminal => row[j].result = NoBody
    /\ row[j].status \in Terminal =>
          /\ Recorded(row[j], MachineOf[j])
          /\ row[j].uncertain <=> row[j].status = "timeout"

\* Only a posted result is checked against a row, and it has a body.
CallInv(c) ==
    /\ call[c].phase \in {"load", "close"} => call[c].kind = "result"
    /\ call[c].kind = "result" => call[c].body \in Body

\* An answer "ok" is about a closed job.
OkInv(c) ==
    call[c].answer = "ok" =>
        /\ row[call[c].job].status \in Terminal
        /\ row[call[c].job].result = call[c].body

IInv ==
    /\ TypeOK
    /\ \A j \in Jobs : RowInv(j)
    /\ OneClaimPerMachine
    /\ \A c \in Calls : CallInv(c) /\ OkInv(c)

-------------------------------------------------------------------------------
(* The constants.                                                          *)

LEMMA ConstantTypes ==
  /\ Absent \in Row /\ Free \in Call
  /\ NoBody \in Body \cup {NoBody}
  <1>1. (CHOOSE m \in Machines : TRUE) \in Machines /\ (CHOOSE j \in Jobs : TRUE) \in Jobs
    BY JobAssumption
  <1>2. Absent \in Row
    BY DEF Absent, Row, Status
  <1>3. Free \in Call
    BY <1>1 DEF Free, Call, Phase, Answer
  <1>4. QED
    BY <1>2, <1>3

-------------------------------------------------------------------------------
(* What the statements do to a row.  A step changes the table in one of    *)
(* four ways, and never touches a terminal row.                            *)

Inserted(j) ==
    /\ row[j].status = "absent"
    /\ row'[j].status = "pending" /\ row'[j].attempts = 0 /\ row'[j].result = NoBody

Claimed(j) ==
    /\ row[j].status = "pending" /\ row[j].attempts = 0
    /\ row'[j].status = "claimed" /\ row'[j].attempts = 1
    /\ row'[j].result = row[j].result

TimedOut(j) ==
    /\ row[j].status = "claimed"
    /\ row'[j].status = "timeout" /\ row'[j].uncertain
    /\ row'[j].attempts = row[j].attempts /\ row'[j].result = row[j].result

Closed(j) ==
    /\ row[j].status = "claimed"
    /\ row'[j].status \in Terminal
    /\ row'[j].uncertain <=> row'[j].status = "timeout"
    /\ row'[j].attempts = row[j].attempts
    /\ row'[j].result.machine = MachineOf[j]
    /\ row'[j].result.claim = row[j].attempts
    /\ row'[j].result.outcome = row'[j].status

Moved(j) == Inserted(j) \/ Claimed(j) \/ TimedOut(j) \/ Closed(j)

\* A claim is granted only on a machine without one.
TableStep ==
    /\ row' \in [Jobs -> Row]
    /\ \A j \in Jobs : row'[j] = row[j] \/ Moved(j)
    /\ \A j, k \in Jobs :
          /\ row[j].status # "claimed" /\ row'[j].status = "claimed"
          /\ row'[k].status = "claimed" /\ MachineOf[j] = MachineOf[k]
          => j = k

LEMMA SameTable ==
  ASSUME TypeOK, UNCHANGED row
  PROVE  TableStep
  BY DEF TypeOK, TableStep

LEMMA InsertStep ==
  ASSUME TypeOK, NEW j \in Jobs, NEW n \in Seconds, Enqueue(j, n)
  PROVE  TableStep
  <1>1. [Absent EXCEPT !.status = "pending", !.created = n] \in Row
    BY JobAssumption DEF Absent, Row, Status
  <1>2. row' \in [Jobs -> Row]
    BY <1>1 DEF Enqueue, TypeOK
  <1>3. Inserted(j) /\ \A k \in Jobs \ {j} : row'[k] = row[k]
    BY DEF Enqueue, Inserted, TypeOK, Absent
  <1>4. QED
    BY <1>2, <1>3 DEF TableStep, Moved, Inserted

LEMMA ExpireStep ==
  ASSUME TypeOK, NEW who, row' = Expired(who)
  PROVE  TableStep
  <1>1. ASSUME NEW j \in Jobs
        PROVE  row'[j] \in Row /\ (row'[j] = row[j] \/ TimedOut(j))
    <2>1. CASE row[j].status = "claimed" /\ j \in overdue /\ MachineOf[j] \in who
      <3>1. row'[j] = [row[j] EXCEPT !.status = "timeout", !.uncertain = TRUE]
        BY <2>1 DEF Expired
      <3>2. QED
        BY <2>1, <3>1 DEF TypeOK, Row, Status, Terminal, TimedOut
    <2>2. CASE ~(row[j].status = "claimed" /\ j \in overdue /\ MachineOf[j] \in who)
      BY <2>2 DEF Expired, TypeOK
    <2>3. QED
      BY <2>1, <2>2
  <1>2. row' \in [Jobs -> Row]
    BY <1>1 DEF Expired
  <1>3. QED
    BY <1>1, <1>2 DEF TableStep, Moved, TimedOut

LEMMA ClaimStep ==
  ASSUME TypeOK, NEW c \in Calls, ServeClaim(c)
  PROVE  TableStep
  <1>1. PICK j \in Oldest(call[c].machine) :
            row' = [row EXCEPT ![j] = [@ EXCEPT !.status = "claimed",
                                                !.attempts = row[j].attempts + 1]]
    BY DEF ServeClaim
  <1>2. /\ j \in Jobs /\ MachineOf[j] = call[c].machine
        /\ row[j].status = "pending" /\ row[j].attempts = 0
    BY <1>1 DEF Oldest, Pending
  <1>3. row'[j] = [row[j] EXCEPT !.status = "claimed",
                                 !.attempts = row[j].attempts + 1]
    BY <1>1, <1>2 DEF TypeOK
  <1>4. Claimed(j) /\ row'[j] \in Row
    <2>1. row[j] \in Row /\ row[j].attempts + 1 = 1 /\ "claimed" \in Status
      BY <1>2 DEF TypeOK, Status
    <2>2. row'[j] = [row[j] EXCEPT !.status = "claimed", !.attempts = 1]
      BY <1>3, <2>1
    <2>3. row'[j] \in Row
      <3>1. PICK r \in Row : r = row[j]
        BY <2>1
      <3>2. [r EXCEPT !.status = "claimed", !.attempts = 1] \in Row
        BY <2>1 DEF Row
      <3>3. QED
        BY <2>2, <3>1, <3>2
    <2>4. Claimed(j)
      <3>1. /\ row'[j].status = "claimed" /\ row'[j].attempts = 1
            /\ row'[j].result = row[j].result
        BY <2>1, <2>2 DEF Row
      <3>2. QED
        BY <1>2, <3>1 DEF Claimed
    <2>5. QED
      BY <2>3, <2>4
  <1>5. \A k \in Jobs \ {j} : row'[k] = row[k]
    BY <1>1, <1>2 DEF TypeOK
  <1>6. row' \in [Jobs -> Row]
    BY <1>1, <1>4, <1>5 DEF TypeOK
  <1>7. \A k \in Jobs : MachineOf[k] = MachineOf[j] => row[k].status # "claimed"
    BY <1>2 DEF ServeClaim, Busy
  <1>8. QED
    BY <1>2, <1>4, <1>5, <1>6, <1>7 DEF TableStep, Moved

LEMMA CloseStep ==
  ASSUME TypeOK, NEW c \in Calls, ServeClose(c), call[c].body \in Body
  PROVE  TableStep
  <1>1. CASE UNCHANGED row
    BY <1>1, SameTable
  <1>2. CASE row' # row
    <2>1. PICK j \in Jobs, b \in Body : j = call[c].job /\ b = call[c].body
      BY DEF TypeOK, Call
    <2>2. /\ row[j].status = "claimed" /\ Owns(c)
          /\ row' = [row EXCEPT ![j] = [@ EXCEPT !.status = b.outcome,
                                                 !.uncertain = (b.outcome = "timeout"),
                                                 !.result = b]]
      BY <1>2, <2>1 DEF ServeClose
    <2>3. MachineOf[j] = b.machine /\ row[j].attempts = b.claim
      BY <2>1, <2>2 DEF Owns
    <2>4. row'[j] = [row[j] EXCEPT !.status = b.outcome,
                                   !.uncertain = (b.outcome = "timeout"),
                                   !.result = b]
      BY <2>2 DEF TypeOK
    <2>5. row'[j] \in Row
      BY <2>1, <2>4 DEF TypeOK, Row, Status, Body
    <2>6. Closed(j)
      <3>1. row[j] \in Row
        BY <2>1 DEF TypeOK
      <3>2. /\ row'[j].status = b.outcome /\ row'[j].uncertain = (b.outcome = "timeout")
            /\ row'[j].result = b /\ row'[j].attempts = row[j].attempts
        BY <2>4, <3>1 DEF Row
      <3>3. QED
        BY <2>1, <2>2, <2>3, <3>2 DEF Closed, Body
    <2>7. \A k \in Jobs \ {j} : row'[k] = row[k]
      BY <2>2 DEF TypeOK
    <2>8. row' \in [Jobs -> Row]
      BY <2>2, <2>5, <2>7 DEF TypeOK
    <2>9. QED
      BY <2>6, <2>7, <2>8 DEF TableStep, Moved, Closed, Terminal
  <1>3. QED
    BY <1>1, <1>2

-------------------------------------------------------------------------------
(* What a request may become.                                              *)

\* Every step leaves a request alone, frees it, starts it, moves it to a
\* later phase or answers it; an "ok" is given for a recorded result only.
CallStep(c) ==
    \/ call'[c] = call[c]
    \/ call'[c] = Free
    \/ /\ call'[c] \in Call /\ call'[c].phase = "expire" /\ call'[c].answer = "none"
       /\ call'[c].kind = "result" => call'[c].body \in Body
    \/ \E p \in {"expire", "claim", "load", "close"} :
          /\ call'[c] = [call[c] EXCEPT !.phase = p]
          /\ p \in {"load", "close"} => call[c].kind = "result"
    \/ \E a \in {"none", "rejected", "error"} :
          call'[c] = [call[c] EXCEPT !.phase = "answered", !.answer = a]
    \/ \E j \in Jobs :
          call'[c] = [call[c] EXCEPT !.phase = "answered", !.answer = "claimed", !.job = j]
    \/ /\ call'[c] = [call[c] EXCEPT !.phase = "answered", !.answer = "ok"]
       /\ row'[call[c].job].status \in Terminal
       /\ row'[call[c].job].result = call[c].body

LEMMA OneCall ==
  ASSUME TypeOK, NEW c \in Calls, NEW v, call' = [call EXCEPT ![c] = v]
  PROVE  call'[c] = v /\ \A d \in Calls \ {c} : call'[d] = call[d]
  BY DEF TypeOK

LEMMA ReplyStep ==
  ASSUME TypeOK, NEW c \in Calls, NEW a, Reply(c, a)
  PROVE  /\ call'[c] = [call[c] EXCEPT !.phase = "answered", !.answer = a]
         /\ \A d \in Calls \ {c} : call'[d] = call[d]
  BY DEF TypeOK, Reply

LEMMA GotoStep ==
  ASSUME TypeOK, NEW c \in Calls, NEW p, Goto(c, p)
  PROVE  /\ call'[c] = [call[c] EXCEPT !.phase = p]
         /\ \A d \in Calls \ {c} : call'[d] = call[d]
  BY DEF TypeOK, Goto

\* A request is served.
LEMMA ServeStep ==
  ASSUME IInv, NEW c \in Calls, Serve(c)
  PROVE  TableStep /\ \A d \in Calls : CallStep(d)
  <1>1. TypeOK /\ CallInv(c)
    BY DEF IInv
  <1>2. SUFFICES TableStep /\ CallStep(c) /\ \A d \in Calls \ {c} : call'[d] = call[d]
    BY DEF CallStep
  <1>3. CASE ServeExpire(c)
    <2>1. TableStep
      BY <1>1, <1>3, ExpireStep DEF ServeExpire
    <2>2. CASE Reply(c, "error")
      BY <1>1, <2>1, <2>2, ReplyStep DEF CallStep
    <2>3. CASE call[c].kind = "next" /\ Goto(c, "claim")
      BY <1>1, <2>1, <2>3, GotoStep DEF CallStep
    <2>4. CASE call[c].kind # "next" /\ Goto(c, "load")
      <3>1. call[c].kind = "result"
        BY <1>1, <2>4 DEF TypeOK, Call
      <3>2. QED
        BY <1>1, <2>1, <2>4, <3>1, GotoStep DEF CallStep
    <2>5. QED
      BY <1>3, <2>2, <2>3, <2>4 DEF ServeExpire
  <1>4. CASE ServeClaim(c)
    <2>1. TableStep
      BY <1>1, <1>4, ClaimStep
    <2>2. CASE Reply(c, "error")
      BY <1>1, <2>1, <2>2, ReplyStep DEF CallStep
    <2>3. ASSUME NEW j \in Jobs,
                 call' = [call EXCEPT ![c] = [@ EXCEPT !.phase = "answered",
                                                       !.answer = "claimed",
                                                       !.job = j]]
          PROVE  CallStep(c) /\ \A d \in Calls \ {c} : call'[d] = call[d]
      <3>1. call'[c] = [call[c] EXCEPT !.phase = "answered", !.answer = "claimed", !.job = j]
        BY <1>1, <2>3 DEF TypeOK
      <3>2. QED
        BY <1>1, <2>3, <3>1 DEF CallStep, TypeOK
    <2>4. QED
      BY <1>4, <2>1, <2>2, <2>3 DEF ServeClaim, Oldest, Pending
  <1>5. CASE ServeNothing(c)
    <2>1. TableStep
      BY <1>1, <1>5, SameTable DEF ServeNothing
    <2>2. CASE Goto(c, "expire")
      BY <1>1, <2>1, <2>2, GotoStep DEF CallStep
    <2>3. CASE Reply(c, "none")
      BY <1>1, <2>1, <2>3, ReplyStep DEF CallStep
    <2>4. QED
      BY <1>5, <2>2, <2>3 DEF ServeNothing
  <1>6. CASE ServeLoad(c)
    <2>1. TableStep /\ UNCHANGED row
      BY <1>1, <1>6, SameTable DEF ServeLoad
    <2>2. CASE Reply(c, "rejected")
      BY <1>1, <2>1, <2>2, ReplyStep DEF CallStep
    <2>3. CASE /\ row[call[c].job].status \in Terminal
               /\ row[call[c].job].result = call[c].body
               /\ Reply(c, "ok")
      BY <1>1, <2>1, <2>3, ReplyStep DEF CallStep
    <2>4. CASE Goto(c, "close")
      <3>1. call[c].kind = "result"
        BY <1>1, <1>6 DEF CallInv, ServeLoad
      <3>2. QED
        BY <1>1, <2>1, <2>4, <3>1, GotoStep DEF CallStep
    <2>5. QED
      BY <1>6, <2>2, <2>3, <2>4 DEF ServeLoad
  <1>7. CASE ServeClose(c)
    <2>0. call[c].body \in Body
      BY <1>1, <1>7 DEF CallInv, ServeClose
    <2>1. TableStep
      BY <1>1, <1>7, <2>0, CloseStep
    <2>2. CASE Reply(c, "rejected") \/ Reply(c, "error")
      BY <1>1, <2>1, <2>2, ReplyStep DEF CallStep
    <2>3. CASE /\ row' = [row EXCEPT ![call[c].job] =
                             [@ EXCEPT !.status = call[c].body.outcome,
                                       !.uncertain = (call[c].body.outcome = "timeout"),
                                       !.result = call[c].body]]
               /\ Reply(c, "ok")
      <3>1. PICK j \in Jobs, b \in Body : j = call[c].job /\ b = call[c].body
        BY <1>1, <2>0 DEF TypeOK, Call
      <3>2. row'[j] = [row[j] EXCEPT !.status = b.outcome,
                                     !.uncertain = (b.outcome = "timeout"),
                                     !.result = b]
        BY <1>1, <2>3, <3>1 DEF TypeOK
      <3>3. row'[j].status = b.outcome /\ row'[j].result = b
        BY <1>1, <3>2 DEF TypeOK, Row
      <3>4. b.outcome \in Terminal
        BY DEF Body
      <3>5. QED
        BY <1>1, <2>1, <2>3, <3>1, <3>3, <3>4, ReplyStep DEF CallStep
    <2>4. QED
      BY <1>7, <2>2, <2>3 DEF ServeClose
  <1>8. CASE ServeError(c)
    BY <1>1, <1>8, SameTable, ReplyStep DEF ServeError, CallStep
  <1>9. QED
    BY <1>3, <1>4, <1>5, <1>6, <1>7, <1>8 DEF Serve

\* Every step of the table and of its clients.
LEMMA NextShape ==
  ASSUME IInv, [Next]_vars
  PROVE  TableStep /\ (\A c \in Calls : CallStep(c)) /\ overdue' \subseteq Jobs
  <1>1. TypeOK
    BY DEF IInv
  <1>2. CASE UNCHANGED row /\ UNCHANGED call /\ overdue' \subseteq Jobs
    BY <1>1, <1>2, SameTable DEF CallStep
  <1>3. CASE UNCHANGED vars
    BY <1>1, <1>2, <1>3 DEF vars, TypeOK
  <1>4. ASSUME NEW j \in Jobs, NEW n \in Seconds, Enqueue(j, n)
        PROVE  TableStep /\ (\A c \in Calls : CallStep(c)) /\ overdue' \subseteq Jobs
    BY <1>1, <1>4, InsertStep DEF Enqueue, CallStep, TypeOK
  <1>5. ASSUME NEW j \in Jobs, ClaimRunsOut(j)
        PROVE  UNCHANGED row /\ UNCHANGED call /\ overdue' \subseteq Jobs
    BY <1>1, <1>5 DEF ClaimRunsOut, TypeOK
  <1>6. CASE ReadJob
    BY <1>1, <1>6, ExpireStep DEF ReadJob, CallStep, TypeOK
  <1>7. ASSUME NEW c \in Calls, Serve(c)
        PROVE  TableStep /\ (\A d \in Calls : CallStep(d)) /\ overdue' \subseteq Jobs
    BY <1>1, <1>7, ServeStep
       DEF TypeOK, Serve, ServeExpire, ServeClaim, ServeNothing, ServeLoad, ServeClose, ServeError
  <1>8. ASSUME NEW c \in Calls, Return(c)
        PROVE  TableStep /\ (\A d \in Calls : CallStep(d)) /\ overdue' \subseteq Jobs
    BY <1>1, <1>8, SameTable, OneCall DEF Return, CallStep, TypeOK
  <1>9. ASSUME NEW c \in Calls, NEW m \in Machines, AskNext(c, m)
        PROVE  TableStep /\ (\A d \in Calls : CallStep(d)) /\ overdue' \subseteq Jobs
    <2>1. /\ [Free EXCEPT !.phase = "expire", !.machine = m] \in Call
          /\ [Free EXCEPT !.phase = "expire", !.machine = m].phase = "expire"
          /\ [Free EXCEPT !.phase = "expire", !.machine = m].answer = "none"
          /\ [Free EXCEPT !.phase = "expire", !.machine = m].kind = "next"
      BY ConstantTypes DEF Free, Call, Phase
    <2>2. QED
      BY <1>1, <1>9, <2>1, SameTable, OneCall DEF AskNext, CallStep, TypeOK
  <1>10. ASSUME NEW c \in Calls, NEW j \in Jobs, NEW b \in Body, PostResult(c, j, b)
         PROVE  TableStep /\ (\A d \in Calls : CallStep(d)) /\ overdue' \subseteq Jobs
    <2> DEFINE v == [Free EXCEPT !.phase = "expire", !.kind = "result",
                                 !.machine = b.machine, !.job = j, !.body = b]
    <2>1. v \in Call /\ v.phase = "expire" /\ v.answer = "none" /\ v.body \in Body
      BY ConstantTypes DEF Free, Call, Phase, Body
    <2>2. call' = [call EXCEPT ![c] = v] /\ UNCHANGED <<row, overdue>>
      BY <1>10 DEF PostResult
    <2> HIDE DEF v
    <2>3. QED
      BY <1>1, <2>1, <2>2, SameTable, OneCall DEF CallStep, TypeOK
  <1>11. ASSUME NEW m \in Machines, NEW o \in Terminal, NEW j \in Jobs,
                NEW n \in {0, row[j].attempts}
         PROVE  [machine |-> m, claim |-> n, outcome |-> o] \in Body
    BY <1>1 DEF TypeOK, Row, Body
  <1>12. QED
    BY <1>2, <1>3, <1>4, <1>5, <1>6, <1>7, <1>8, <1>9, <1>10, <1>11 DEF Next

\* call stays a function on Calls.
LEMMA CallsStay ==
  ASSUME TypeOK, [Next]_vars
  PROVE  call' = [c \in Calls |-> call'[c]]
  <1>1. CASE UNCHANGED call
    BY <1>1 DEF TypeOK
  <1>2. ASSUME NEW c, NEW a, Reply(c, a)
        PROVE  call' = [d \in Calls |-> call'[d]]
    BY <1>2 DEF Reply, TypeOK
  <1>3. ASSUME NEW c, NEW p, Goto(c, p)
        PROVE  call' = [d \in Calls |-> call'[d]]
    BY <1>3 DEF Goto, TypeOK
  <1>4. ASSUME NEW c, NEW v, call' = [call EXCEPT ![c] = v]
        PROVE  call' = [d \in Calls |-> call'[d]]
    BY <1>4 DEF TypeOK
  <1>5. ASSUME NEW c \in Calls, Serve(c)
        PROVE  call' = [d \in Calls |-> call'[d]]
    <2>1. CASE \E a : Reply(c, a)
      BY <1>2, <2>1
    <2>2. CASE \E p : Goto(c, p)
      BY <1>3, <2>2
    <2>3. CASE \E j \in Jobs : call' = [call EXCEPT ![c] = [@ EXCEPT !.phase = "answered",
                                                                     !.answer = "claimed",
                                                                     !.job = j]]
      BY <2>3 DEF TypeOK
    <2>4. QED
      BY <1>5, <2>1, <2>2, <2>3
         DEF Serve, ServeExpire, ServeClaim, ServeNothing, ServeLoad, ServeClose, ServeError,
             Oldest, Pending
  <1>6. QED
    BY <1>1, <1>4, <1>5 DEF Next, vars, Enqueue, ClaimRunsOut, ReadJob, Return, AskNext, PostResult

-------------------------------------------------------------------------------
(* The inductive invariant.                                                *)

LEMMA InitInv == Init => IInv
  <1> SUFFICES ASSUME Init PROVE IInv
    OBVIOUS
  <1>1. \A j \in Jobs : row[j] = Absent
    BY DEF Init
  <1>2. \A c \in Calls : call[c] = Free
    BY DEF Init
  <1>3. TypeOK
    BY ConstantTypes DEF Init, TypeOK
  <1>4. ASSUME NEW j \in Jobs
        PROVE  RowInv(j)
    <2>1. row[j].status = "absent" /\ row[j].attempts = 0 /\ row[j].result = NoBody
      BY <1>1 DEF Absent
    <2>2. QED
      BY <2>1 DEF RowInv, Terminal
  <1>5. OneClaimPerMachine
    BY <1>1 DEF OneClaimPerMachine, Absent
  <1>6. ASSUME NEW c \in Calls
        PROVE  CallInv(c) /\ OkInv(c)
    <2>0. Free.phase = "free" /\ Free.kind = "next" /\ Free.answer = "none"
      BY DEF Free
    <2>1. call[c].phase = "free" /\ call[c].kind = "next" /\ call[c].answer = "none"
      BY <1>2, <2>0
    <2>2. QED
      BY <2>1 DEF CallInv, OkInv
  <1>7. QED
    BY <1>3, <1>4, <1>5, <1>6 DEF IInv

LEMMA TypeStep ==
  ASSUME IInv, [Next]_vars
  PROVE  TypeOK'
  <1>1. TypeOK /\ \A c \in Calls : CallInv(c)
    BY DEF IInv
  <1>2. row' \in [Jobs -> Row] /\ overdue' \subseteq Jobs
    BY NextShape DEF TableStep
  <1>3. ASSUME NEW c \in Calls
        PROVE  call'[c] \in Call
    <2>1. CallStep(c) /\ call[c] \in Call
      BY <1>1, NextShape DEF TypeOK
    <2>2. QED
      BY <2>1, ConstantTypes DEF CallStep, Call, Phase, Answer
  <1>4. QED
    BY <1>1, <1>2, <1>3, CallsStay DEF TypeOK

LEMMA RowStep ==
  ASSUME IInv, [Next]_vars, NEW j \in Jobs
  PROVE  RowInv(j)'
  <1>1. RowInv(j) /\ (row'[j] = row[j] \/ Moved(j))
    BY NextShape DEF IInv, TableStep
  <1>2. CASE row'[j] = row[j]
    BY <1>1, <1>2 DEF RowInv, Recorded
  <1>3. CASE Inserted(j)
    BY <1>3 DEF Inserted, RowInv, Terminal
  <1>4. CASE Claimed(j)
    BY <1>1, <1>4 DEF Claimed, RowInv, Terminal
  <1>5. CASE TimedOut(j)
    BY <1>1, <1>5 DEF TimedOut, RowInv, Terminal, Recorded
  <1>6. CASE Closed(j)
    BY <1>1, <1>6 DEF Closed, RowInv, Terminal, Recorded
  <1>7. QED
    BY <1>1, <1>2, <1>3, <1>4, <1>5, <1>6 DEF Moved

\* A second claim on a machine would have been granted while it had one.
LEMMA OneClaimStep ==
  ASSUME IInv, [Next]_vars
  PROVE  OneClaimPerMachine'
  <1> SUFFICES ASSUME NEW j \in Jobs, NEW k \in Jobs,
                      row'[j].status = "claimed", row'[k].status = "claimed",
                      MachineOf[j] = MachineOf[k]
               PROVE  j = k
    BY DEF OneClaimPerMachine
  <1>1. TableStep
    BY NextShape
  <1>2. CASE row[j].status = "claimed" /\ row[k].status = "claimed"
    BY <1>2 DEF IInv, OneClaimPerMachine
  <1>3. CASE row[j].status # "claimed" \/ row[k].status # "claimed"
    BY <1>1, <1>3 DEF TableStep
  <1>4. QED
    BY <1>2, <1>3

LEMMA TerminalStep ==
  ASSUME IInv, [Next]_vars
  PROVE  KeepsTerminal
  <1> SUFFICES ASSUME NEW j \in Jobs, row[j].status \in Terminal
               PROVE  row'[j] = row[j]
    BY DEF KeepsTerminal
  <1>1. row'[j] = row[j] \/ Moved(j)
    BY NextShape DEF TableStep
  <1>2. QED
    BY <1>1 DEF Moved, Inserted, Claimed, TimedOut, Closed, Terminal

LEMMA CallInvStep ==
  ASSUME IInv, [Next]_vars, NEW c \in Calls
  PROVE  CallInv(c)' /\ OkInv(c)'
  <1>1. CallStep(c) /\ CallInv(c) /\ OkInv(c) /\ call[c] \in Call
    BY NextShape DEF IInv, TypeOK
  <1>2. PICK j \in Jobs : j = call[c].job
    BY <1>1 DEF Call
  <1>3. row[j].status \in Terminal => row'[j] = row[j]
    BY TerminalStep DEF KeepsTerminal
  <1>4. CASE call'[c] = call[c]
    BY <1>1, <1>2, <1>3, <1>4 DEF CallInv, OkInv
  <1>5. CASE call'[c] = Free
    BY <1>5 DEF CallInv, OkInv, Free
  <1>6. CASE /\ call'[c].phase = "expire" /\ call'[c].answer = "none"
             /\ call'[c].kind = "result" => call'[c].body \in Body
    BY <1>6 DEF CallInv, OkInv
  <1>7. ASSUME NEW p \in {"expire", "claim", "load", "close"},
               call'[c] = [call[c] EXCEPT !.phase = p],
               p \in {"load", "close"} => call[c].kind = "result"
        PROVE  CallInv(c)' /\ OkInv(c)'
    <2>1. /\ call'[c].phase = p /\ call'[c].kind = call[c].kind
          /\ call'[c].answer = call[c].answer
          /\ call'[c].job = call[c].job /\ call'[c].body = call[c].body
      BY <1>1, <1>7 DEF Call
    <2>2. QED
      BY <1>1, <1>2, <1>3, <1>7, <2>1 DEF CallInv, OkInv
  <1>8. ASSUME NEW a \in {"none", "rejected", "error"},
               call'[c] = [call[c] EXCEPT !.phase = "answered", !.answer = a]
        PROVE  CallInv(c)' /\ OkInv(c)'
    <2>1. /\ call'[c].phase = "answered" /\ call'[c].answer = a
          /\ call'[c].kind = call[c].kind /\ call'[c].body = call[c].body
      BY <1>1, <1>8 DEF Call
    <2>2. QED
      BY <1>1, <2>1 DEF CallInv, OkInv
  <1>9. ASSUME NEW k \in Jobs,
               call'[c] = [call[c] EXCEPT !.phase = "answered", !.answer = "claimed",
                                          !.job = k]
        PROVE  CallInv(c)' /\ OkInv(c)'
    <2>1. /\ call'[c].phase = "answered" /\ call'[c].answer = "claimed"
          /\ call'[c].kind = call[c].kind /\ call'[c].body = call[c].body
      BY <1>1, <1>9 DEF Call
    <2>2. QED
      BY <1>1, <2>1 DEF CallInv, OkInv
  <1>10. CASE /\ call'[c] = [call[c] EXCEPT !.phase = "answered", !.answer = "ok"]
              /\ row'[call[c].job].status \in Terminal
              /\ row'[call[c].job].result = call[c].body
    <2>1. /\ call'[c].phase = "answered"
          /\ call'[c].kind = call[c].kind /\ call'[c].job = call[c].job
          /\ call'[c].body = call[c].body
      BY <1>1, <1>10 DEF Call
    <2>2. QED
      BY <1>1, <1>10, <2>1 DEF CallInv, OkInv
  <1>11. QED
    BY <1>1, <1>4, <1>5, <1>6, <1>7, <1>8, <1>9, <1>10 DEF CallStep

LEMMA InvStep == IInv /\ [Next]_vars => IInv'
  BY TypeStep, RowStep, OneClaimStep, CallInvStep DEF IInv

LEMMA Invariance == Spec => []IInv
  BY InitInv, InvStep, PTL DEF Spec

-------------------------------------------------------------------------------
(* The theorems.                                                           *)

\* Every variable stays in the set of values it is meant for.
THEOREM TypeCorrect == Spec => []TypeOK
  <1>1. IInv => TypeOK
    BY DEF IInv
  <1>2. QED
    BY <1>1, Invariance, PTL

\* However many requests claim for a machine at once, it holds one claim
\* (claimNextBridgeJob, jobs.ts:187-196).
THEOREM MachineHoldsOneClaim == Spec => []OneClaimPerMachine
  <1>1. IInv => OneClaimPerMachine
    BY DEF IInv
  <1>2. QED
    BY <1>1, Invariance, PTL

\* A job is handed out at most once: neither expiry nor a failed statement
\* nor a refused result makes it claimable again (jobs.ts:5, 175-198).
THEOREM NoReplay == Spec => []NeverReplayed
  <1>1. IInv => NeverReplayed
    <2>1. ASSUME IInv, NEW j \in Jobs
          PROVE  /\ row[j].attempts <= 1
                 /\ row[j].status \notin {"absent", "pending"} => row[j].attempts = 1
      <3>1. RowInv(j) /\ row[j].status \in Status
        BY <2>1 DEF IInv, TypeOK, Row
      <3>2. QED
        BY <3>1 DEF RowInv, Status, Terminal
    <2>2. QED
      BY <2>1 DEF NeverReplayed
  <1>2. QED
    BY <1>1, Invariance, PTL

\* A terminal job is a result posted with its own claim, or an uncertain
\* timeout (jobs.ts:175-182, 320-350).
THEOREM Fenced == Spec => []ResultsAreFenced
  <1>1. IInv => ResultsAreFenced
    BY DEF IInv, RowInv, Recorded, ResultsAreFenced
  <1>2. QED
    BY <1>1, Invariance, PTL

\* "ok" is said only of a result that is in the table (jobs.ts:323-350).
THEOREM OkIsRecorded == Spec => []OkMeansRecorded
  <1>1. IInv => OkMeansRecorded
    BY DEF IInv, OkInv, OkMeansRecorded
  <1>2. QED
    BY <1>1, Invariance, PTL

\* No statement changes a terminal row (jobs.ts:175-198, 340-350).
THEOREM TerminalRowsAreFinal == Spec => TerminalIsFinal
  <1>1. IInv /\ [Next]_vars => [KeepsTerminal]_row
    BY TerminalStep
  <1>2. QED
    BY <1>1, Invariance, PTL DEF Spec, TerminalIsFinal

-------------------------------------------------------------------------------
(* Refinement of JobBoard.                                                 *)

\* A request that is not answered yet has given no answer.
Unanswered ==
    \A c \in Calls : call[c].phase # "answered" => call[c].answer = "none"

LEMMA UnansweredStep ==
  ASSUME IInv, Unanswered, [Next]_vars
  PROVE  Unanswered'
  <1> SUFFICES ASSUME NEW c \in Calls, call'[c].phase # "answered"
               PROVE  call'[c].answer = "none"
    BY DEF Unanswered
  <1>1. TypeOK /\ call[c] \in Call
    BY DEF IInv, TypeOK
  <1>2. CASE call'[c] = call[c]
    BY <1>2 DEF Unanswered
  <1>3. CASE call'[c] = Free
    BY <1>3 DEF Free
  <1>4. ASSUME NEW d \in Calls, Serve(d), call'[c] # call[c]
        PROVE  call'[c].answer = "none"
    <2>1. call[d].phase # "answered" /\ call[d].answer = "none"
      BY <1>4 DEF Unanswered, Serve, ServeExpire, ServeClaim, ServeNothing, ServeLoad,
                  ServeClose, ServeError
    <2>2. ASSUME NEW a, Reply(d, a)
          PROVE  FALSE
      <3>1. c = d /\ call'[c].phase = "answered"
        BY <1>1, <1>4, <2>2 DEF Reply, TypeOK, Call
      <3>2. QED
        BY <3>1
    <2>3. ASSUME NEW p, Goto(d, p)
          PROVE  call'[c].answer = "none"
      <3>1. c = d /\ call'[c] = [call[c] EXCEPT !.phase = p]
        BY <1>1, <1>4, <2>3, GotoStep
      <3>2. QED
        BY <1>1, <2>1, <3>1 DEF Call
    <2>4. ASSUME NEW j, call' = [call EXCEPT ![d] = [@ EXCEPT !.phase = "answered",
                                                             !.answer = "claimed",
                                                             !.job = j]]
          PROVE  FALSE
      <3>1. c = d /\ call'[c] = [call[c] EXCEPT !.phase = "answered", !.answer = "claimed",
                                               !.job = j]
        BY <1>1, <1>4, <2>4 DEF TypeOK
      <3>2. QED
        BY <1>1, <3>1 DEF Call
    <2>5. QED
      BY <1>4, <2>2, <2>3, <2>4
         DEF Serve, ServeExpire, ServeClaim, ServeNothing, ServeLoad, ServeClose, ServeError
  <1>5. ASSUME NEW d \in Calls, NEW v, v.answer = "none", call' = [call EXCEPT ![d] = v],
               call'[c] # call[c]
        PROVE  call'[c].answer = "none"
    BY <1>1, <1>5 DEF TypeOK
  <1>6. ASSUME NEW d \in Calls, NEW m \in Machines, AskNext(d, m), call'[c] # call[c]
        PROVE  call'[c].answer = "none"
    <2>1. [Free EXCEPT !.phase = "expire", !.machine = m].answer = "none"
      BY DEF Free
    <2>2. QED
      BY <1>5, <1>6, <2>1 DEF AskNext
  <1>7. ASSUME NEW d \in Calls, NEW j, NEW b, PostResult(d, j, b), call'[c] # call[c]
        PROVE  call'[c].answer = "none"
    <2>1. [Free EXCEPT !.phase = "expire", !.kind = "result", !.machine = b.machine,
                       !.job = j, !.body = b].answer = "none"
      BY DEF Free
    <2>2. QED
      BY <1>5, <1>7, <2>1 DEF PostResult
  <1>8. ASSUME NEW d \in Calls, Return(d), call'[c] # call[c]
        PROVE  call'[c] = Free
    BY <1>1, <1>8 DEF Return, TypeOK
  <1>9. QED
    BY <1>2, <1>3, <1>4, <1>6, <1>7, <1>8
       DEF Next, vars, Enqueue, ClaimRunsOut, ReadJob

\* The messages on their way when one request changes.
LEMMA MessagesOfOne ==
  ASSUME TypeOK, NEW c \in Calls, NEW v, call' = [call EXCEPT ![c] = v],
         call[c].answer \notin {"claimed", "ok"}
  PROVE  /\ v.answer # "claimed" => Offered' = Offered
         /\ v.answer = "claimed" => Offered' = Offered \cup {v.job}
         /\ v.answer # "ok" => Confirmed' = Confirmed
         /\ v.answer = "ok" => Confirmed' = Confirmed \cup {<<v.job, v.body.outcome>>}
  <1>1. call'[c] = v /\ \A d \in Calls \ {c} : call'[d] = call[d]
    BY OneCall
  <1>2. c \notin {d \in Calls : call[d].answer \in {"claimed", "ok"}}
    OBVIOUS
  <1>3. /\ v.answer # "claimed" => Offered' = Offered
        /\ v.answer = "claimed" => Offered' = Offered \cup {v.job}
    BY <1>1, <1>2 DEF Offered
  <1>4. /\ v.answer # "ok" => Confirmed' = Confirmed
        /\ v.answer = "ok" => Confirmed' = Confirmed \cup {<<v.job, v.body.outcome>>}
    BY <1>1, <1>2 DEF Confirmed
  <1>5. QED
    BY <1>3, <1>4

\* An answer that is not a hand-out and not a receipt changes no message.
LEMMA SilentReply ==
  ASSUME TypeOK, NEW c \in Calls, call[c].answer = "none",
         NEW a \in {"none", "rejected", "error"}, Reply(c, a)
  PROVE  UNCHANGED <<Offered, Confirmed>>
  <1>1. PICK v : v = [call[c] EXCEPT !.phase = "answered", !.answer = a]
    OBVIOUS
  <1>2. call' = [call EXCEPT ![c] = v] /\ v.answer = a
    BY <1>1 DEF Reply, TypeOK, Call
  <1>3. QED
    BY <1>2, MessagesOfOne

LEMMA SilentGoto ==
  ASSUME TypeOK, NEW c \in Calls, call[c].answer = "none", NEW p, Goto(c, p)
  PROVE  UNCHANGED <<Offered, Confirmed>>
  <1>1. PICK v : v = [call[c] EXCEPT !.phase = p]
    OBVIOUS
  <1>2. call' = [call EXCEPT ![c] = v] /\ v.answer = "none"
    BY <1>1 DEF Goto, TypeOK, Call
  <1>3. QED
    BY <1>2, MessagesOfOne

\* A request that is freed takes at most one message with it.
LEMMA ReturnArrives ==
  ASSUME TypeOK, NEW c \in Calls, Return(c)
  PROVE  [Board!Next]_(Board!vars)
  <1>1. call' = [call EXCEPT ![c] = Free] /\ UNCHANGED row
    BY DEF Return
  <1>2. call'[c] = Free /\ \A d \in Calls \ {c} : call'[d] = call[d]
    BY <1>1, OneCall
  <1>3. UNCHANGED [j \in Jobs |-> Place(j)]
    BY <1>1 DEF Place
  <1>4. Free.answer = "none"
    BY DEF Free
  <1>5. CASE call[c].answer = "claimed"
    <2>1. PICK j : j = call[c].job
      OBVIOUS
    <2>2. Confirmed' = Confirmed
      BY <1>2, <1>4, <1>5 DEF Confirmed
    <2>3. j \in Offered /\ (Offered' = Offered \/ Offered' = Offered \ {j})
      BY <1>2, <1>4, <1>5, <2>1 DEF Offered
    <2>4. QED
      BY <1>3, <2>2, <2>3 DEF Board!Next, Board!Arrive, Board!vars
  <1>6. CASE call[c].answer = "ok"
    <2>1. PICK r : r = <<call[c].job, call[c].body.outcome>>
      OBVIOUS
    <2>2. Offered' = Offered
      BY <1>2, <1>4, <1>6 DEF Offered
    <2>3. r \in Confirmed /\ (Confirmed' = Confirmed \/ Confirmed' = Confirmed \ {r})
      BY <1>2, <1>4, <1>6, <2>1 DEF Confirmed
    <2>4. QED
      BY <1>3, <2>2, <2>3 DEF Board!Next, Board!Arrive, Board!vars
  <1>7. CASE call[c].answer \notin {"claimed", "ok"}
    BY <1>1, <1>3, <1>4, <1>7, MessagesOfOne DEF Board!vars
  <1>8. QED
    BY <1>5, <1>6, <1>7

\* An expiry gives up the claims that ran out.
LEMMA ExpiryGivesUp ==
  ASSUME IInv, NEW who, row' = Expired(who), UNCHANGED <<Offered, Confirmed>>
  PROVE  [Board!Next]_(Board!vars)
  <1>1. PICK gone \in SUBSET Jobs :
            gone = {j \in Jobs : row[j].status = "claimed" /\ j \in overdue
                                     /\ MachineOf[j] \in who}
    OBVIOUS
  <1>2. ASSUME NEW j \in gone
        PROVE  Place(j) = "held" /\ Place(j)' = "unknown"
    <2>1. j \in Jobs /\ row[j].status = "claimed" /\ row[j] \in Row /\ row[j].result = NoBody
      BY <1>1, <1>2 DEF IInv, TypeOK, RowInv, Terminal
    <2>2. row'[j] = [row[j] EXCEPT !.status = "timeout", !.uncertain = TRUE]
      BY <1>1, <1>2 DEF Expired
    <2>3. row'[j].status = "timeout" /\ row'[j].result = NoBody
      BY <2>1, <2>2 DEF Row
    <2>4. QED
      BY <2>1, <2>3 DEF Place
  <1>3. ASSUME NEW j \in Jobs \ gone
        PROVE  Place(j)' = Place(j)
    <2>1. row'[j] = row[j]
      BY <1>1, <1>3 DEF Expired
    <2>2. QED
      BY <2>1 DEF Place
  <1>4. CASE gone = {}
    BY <1>3, <1>4 DEF Board!vars
  <1>5. CASE gone # {}
    <2>1. [j \in Jobs |-> Place(j)]' = [j \in Jobs |-> IF j \in gone THEN "unknown" ELSE Place(j)]
      BY <1>2, <1>3
    <2>2. Board!GiveUp(gone)
      BY <1>1, <1>2, <1>5, <2>1 DEF Board!GiveUp
    <2>3. QED
      BY <2>2 DEF Board!Next
  <1>6. QED
    BY <1>4, <1>5

\* A claim hands out a job, whether or not the machine hears of it.
LEMMA ClaimHandsOut ==
  ASSUME IInv, NEW c \in Calls, call[c].answer = "none", ServeClaim(c)
  PROVE  Board!Next
  <1>1. TypeOK
    BY DEF IInv
  <1>2. PICK j \in Oldest(call[c].machine) :
            /\ row' = [row EXCEPT ![j] = [@ EXCEPT !.status = "claimed",
                                                   !.attempts = row[j].attempts + 1]]
            /\ \/ call' = [call EXCEPT ![c] = [@ EXCEPT !.phase = "answered",
                                                        !.answer = "claimed",
                                                        !.job = j]]
               \/ Reply(c, "error")
    BY DEF ServeClaim
  <1>3. j \in Jobs /\ MachineOf[j] = call[c].machine /\ row[j].status = "pending"
    BY <1>2 DEF Oldest, Pending
  <1>4. Place(j) = "waiting" /\ Place(j)' = "held"
    <2>1. row'[j].status = "claimed"
      BY <1>1, <1>2, <1>3 DEF TypeOK, Row
    <2>2. QED
      BY <1>3, <2>1 DEF Place
  <1>5. \A k \in Jobs \ {j} : Place(k)' = Place(k)
    BY <1>1, <1>2 DEF Place, TypeOK
  <1>6. \A k \in Jobs : MachineOf[k] = MachineOf[j] => Place(k) # "held"
    <2> SUFFICES ASSUME NEW k \in Jobs, MachineOf[k] = MachineOf[j]
                 PROVE  Place(k) # "held"
      OBVIOUS
    <2>1. row[k].status # "claimed"
      BY <1>3 DEF ServeClaim, Busy
    <2>2. row[k].status \in Status
      BY <1>1 DEF TypeOK, Row
    <2>3. QED
      BY <2>1, <2>2 DEF Place, Status, Terminal
  <1>7. Confirmed' = Confirmed /\ (Offered' = Offered \/ Offered' = Offered \cup {j})
    <2>1. CASE Reply(c, "error")
      BY <1>1, <2>1, SilentReply
    <2>2. CASE call' = [call EXCEPT ![c] = [@ EXCEPT !.phase = "answered",
                                                     !.answer = "claimed",
                                                     !.job = j]]
      <3>1. PICK v : v = [call[c] EXCEPT !.phase = "answered", !.answer = "claimed", !.job = j]
        OBVIOUS
      <3>2. call' = [call EXCEPT ![c] = v] /\ v.answer = "claimed" /\ v.job = j
        BY <1>1, <2>2, <3>1 DEF TypeOK, Call
      <3>3. QED
        BY <1>1, <3>2, MessagesOfOne
    <2>3. QED
      BY <1>2, <2>1, <2>2
  <1>8. [k \in Jobs |-> Place(k)]' = [[k \in Jobs |-> Place(k)] EXCEPT ![j] = "held"]
    BY <1>3, <1>4, <1>5
  <1>9. Board!HandOut(j)
    BY <1>3, <1>4, <1>6, <1>7, <1>8 DEF Board!HandOut
  <1>10. QED
    BY <1>3, <1>9 DEF Board!Next

\* A result for a closed job is confirmed when it is the recorded one.
LEMMA LoadConfirms ==
  ASSUME IInv, NEW c \in Calls, call[c].answer = "none", ServeLoad(c)
  PROVE  [Board!Next]_(Board!vars)
  <1>1. TypeOK /\ CallInv(c) /\ call[c] \in Call
    BY DEF IInv, TypeOK
  <1>2. UNCHANGED [k \in Jobs |-> Place(k)]
    BY DEF ServeLoad, Place
  <1>3. CASE Reply(c, "rejected") \/ Goto(c, "close")
    BY <1>1, <1>2, <1>3, SilentReply, SilentGoto DEF Board!vars
  <1>4. CASE /\ row[call[c].job].status \in Terminal
             /\ row[call[c].job].result = call[c].body
             /\ Reply(c, "ok")
    <2>1. PICK j \in Jobs, b \in Body : j = call[c].job /\ b = call[c].body
      BY <1>1 DEF CallInv, Call, ServeLoad
    <2>2. b # NoBody
      BY JobAssumption DEF Body, NoBody, Terminal
    <2>3. Recorded(row[j], MachineOf[j]) /\ row[j].status \in Terminal
      BY <1>4, <2>1 DEF IInv, RowInv
    <2>4. b.outcome = row[j].status /\ row[j].result # NoBody
      BY <1>4, <2>1, <2>2, <2>3 DEF Recorded
    <2>5. Place(j) = b.outcome /\ Place(j) \in Terminal
      BY <2>3, <2>4 DEF Place, Terminal
    <2>6. Offered' = Offered /\ Confirmed' = Confirmed \cup {<<j, b.outcome>>}
      <3>1. PICK v : v = [call[c] EXCEPT !.phase = "answered", !.answer = "ok"]
        OBVIOUS
      <3>2. /\ call' = [call EXCEPT ![c] = v] /\ v.answer = "ok"
            /\ v.job = j /\ v.body = b
        BY <1>1, <1>4, <2>1, <3>1 DEF Reply, TypeOK, Call
      <3>3. QED
        BY <1>1, <3>2, MessagesOfOne
    <2>7. Board!Confirm(j)
      BY <1>2, <2>5, <2>6 DEF Board!Confirm
    <2>8. QED
      BY <2>7 DEF Board!Next
  <1>5. QED
    BY <1>3, <1>4 DEF ServeLoad

\* A recorded result is a report, whether or not the machine hears of it.
LEMMA CloseReports ==
  ASSUME IInv, NEW c \in Calls, call[c].answer = "none", ServeClose(c)
  PROVE  [Board!Next]_(Board!vars)
  <1>1. TypeOK /\ CallInv(c) /\ call[c] \in Call
    BY DEF IInv, TypeOK
  <1>2. PICK j \in Jobs, b \in Body : j = call[c].job /\ b = call[c].body
    BY <1>1 DEF CallInv, Call, ServeClose
  <1>3. CASE UNCHANGED row /\ Reply(c, "rejected")
    <2>1. UNCHANGED [k \in Jobs |-> Place(k)]
      BY <1>3 DEF Place
    <2>2. QED
      BY <1>1, <1>3, <2>1, SilentReply DEF Board!vars
  <1>4. CASE /\ row[j].status = "claimed"
             /\ row' = [row EXCEPT ![j] = [@ EXCEPT !.status = b.outcome,
                                                    !.uncertain = (b.outcome = "timeout"),
                                                    !.result = b]]
             /\ Reply(c, "ok") \/ Reply(c, "error")
    <2>1. row'[j].status = b.outcome /\ row'[j].result = b
      BY <1>1, <1>4 DEF TypeOK, Row
    <2>2. b.outcome \in Terminal /\ b # NoBody
      BY JobAssumption DEF Body, NoBody, Terminal
    <2>3. Place(j) = "held" /\ Place(j)' = b.outcome
      BY <1>4, <2>1, <2>2 DEF Place, Terminal
    <2>4. \A k \in Jobs \ {j} : Place(k)' = Place(k)
      BY <1>1, <1>4 DEF Place, TypeOK
    <2>5. [k \in Jobs |-> Place(k)]' = [[k \in Jobs |-> Place(k)] EXCEPT ![j] = b.outcome]
      BY <2>3, <2>4
    <2>6. /\ Offered' = Offered
          /\ Confirmed' = Confirmed \/ Confirmed' = Confirmed \cup {<<j, b.outcome>>}
      <3>1. CASE Reply(c, "error")
        BY <1>1, <3>1, SilentReply
      <3>2. CASE Reply(c, "ok")
        <4>1. PICK v : v = [call[c] EXCEPT !.phase = "answered", !.answer = "ok"]
          OBVIOUS
        <4>2. /\ call' = [call EXCEPT ![c] = v] /\ v.answer = "ok"
              /\ v.job = j /\ v.body = b
          BY <1>1, <1>2, <3>2, <4>1 DEF Reply, TypeOK, Call
        <4>3. QED
          BY <1>1, <4>2, MessagesOfOne
      <3>3. QED
        BY <1>4, <3>1, <3>2
    <2>7. Board!Report(j, b.outcome)
      BY <2>3, <2>5, <2>6 DEF Board!Report
    <2>8. QED
      BY <2>2, <2>7 DEF Board!Next
  <1>5. QED
    BY <1>2, <1>3, <1>4 DEF ServeClose

LEMMA EnqueuePosts ==
  ASSUME IInv, NEW j \in Jobs, NEW n \in Seconds, Enqueue(j, n)
  PROVE  Board!Next
  <1>1. TypeOK /\ UNCHANGED <<Offered, Confirmed>>
    BY DEF IInv, Enqueue, Offered, Confirmed
  <1>2. row'[j].status = "pending"
    BY <1>1 DEF Enqueue, TypeOK, Absent
  <1>3. Place(j) = "new" /\ Place(j)' = "waiting"
    BY <1>2 DEF Enqueue, Place
  <1>4. \A k \in Jobs \ {j} : Place(k)' = Place(k)
    BY <1>1 DEF Enqueue, Place, TypeOK
  <1>5. [k \in Jobs |-> Place(k)]' = [[k \in Jobs |-> Place(k)] EXCEPT ![j] = "waiting"]
    BY <1>3, <1>4
  <1>6. Board!Post(j)
    BY <1>1, <1>3, <1>5 DEF Board!Post
  <1>7. QED
    BY <1>6 DEF Board!Next

\* A request that starts carries no message.
LEMMA StartIsSilent ==
  ASSUME IInv, Unanswered, NEW c \in Calls, call[c].phase = "free",
         NEW v, v.answer = "none", call' = [call EXCEPT ![c] = v], UNCHANGED row
  PROVE  UNCHANGED Board!vars
  <1>1. TypeOK /\ call[c].answer = "none"
    BY DEF IInv, Unanswered
  <1>2. UNCHANGED <<Offered, Confirmed>>
    BY <1>1, MessagesOfOne
  <1>3. QED
    BY <1>2 DEF Board!vars, Place

LEMMA ServeRefines ==
  ASSUME IInv, Unanswered, NEW c \in Calls, Serve(c)
  PROVE  [Board!Next]_(Board!vars)
  <1>1. TypeOK /\ call[c].answer = "none"
    BY DEF IInv, Unanswered, Serve, ServeExpire, ServeClaim, ServeNothing, ServeLoad,
           ServeClose, ServeError
  <1>2. CASE ServeExpire(c)
    <2>1. UNCHANGED <<Offered, Confirmed>>
      BY <1>1, <1>2, SilentReply, SilentGoto DEF ServeExpire
    <2>2. QED
      BY <1>2, <2>1, ExpiryGivesUp DEF ServeExpire
  <1>3. CASE ServeNothing(c) \/ ServeError(c)
    <2>1. UNCHANGED <<Offered, Confirmed>> /\ UNCHANGED row
      BY <1>1, <1>3, SilentReply, SilentGoto DEF ServeNothing, ServeError
    <2>2. QED
      BY <2>1 DEF Board!vars, Place
  <1>4. QED
    BY <1>1, <1>2, <1>3, ClaimHandsOut, LoadConfirms, CloseReports DEF Serve

LEMMA BoardStep ==
  ASSUME IInv, Unanswered, [Next]_vars
  PROVE  [Board!Next]_(Board!vars)
  <1>1. CASE UNCHANGED <<row, call>>
    BY <1>1 DEF Board!vars, Place, Offered, Confirmed
  <1>2. CASE ReadJob
    <2>1. UNCHANGED <<Offered, Confirmed>>
      BY <1>2 DEF ReadJob, Offered, Confirmed
    <2>2. QED
      BY <1>2, <2>1, ExpiryGivesUp DEF ReadJob
  <1>3. ASSUME NEW c \in Calls, NEW m \in Machines, AskNext(c, m)
        PROVE  UNCHANGED Board!vars
    <2>1. [Free EXCEPT !.phase = "expire", !.machine = m].answer = "none"
      BY DEF Free
    <2>2. QED
      BY <1>3, <2>1, StartIsSilent DEF AskNext
  <1>4. ASSUME NEW c \in Calls, NEW j, NEW b, PostResult(c, j, b)
        PROVE  UNCHANGED Board!vars
    <2>1. [Free EXCEPT !.phase = "expire", !.kind = "result", !.machine = b.machine,
                       !.job = j, !.body = b].answer = "none"
      BY DEF Free
    <2>2. QED
      BY <1>4, <2>1, StartIsSilent DEF PostResult
  <1>5. ASSUME NEW c \in Calls, Return(c)
        PROVE  [Board!Next]_(Board!vars)
    BY <1>5, ReturnArrives DEF IInv
  <1>6. QED
    BY <1>1, <1>2, <1>3, <1>4, <1>5, EnqueuePosts, ServeRefines
       DEF Next, vars, ClaimRunsOut

LEMMA BoardInit == Init => Board!Init /\ Unanswered
  <1> SUFFICES ASSUME Init PROVE Board!Init /\ Unanswered
    OBVIOUS
  <1>1. \A j \in Jobs : Place(j) = "new"
    BY DEF Init, Absent, Place
  <1>2. \A c \in Calls : call[c].answer = "none"
    BY DEF Init, Free
  <1>3. Offered = {} /\ Confirmed = {}
    BY <1>2 DEF Offered, Confirmed
  <1>4. QED
    BY <1>1, <1>2, <1>3 DEF Board!Init, Unanswered

\* The table and its routes implement the job board: however the statements
\* of any number of requests interleave, fail or go unanswered, each job is
\* handed out once, to a machine without another, and ends once, and every
\* answer is one the board bears out (jobs.ts:175-350).
THEOREM ShowsTheBoard == Spec => ImplementsJobBoard
  <1>1. Unanswered /\ IInv /\ [Next]_vars => Unanswered'
    BY UnansweredStep
  <1>2. Unanswered /\ IInv /\ [Next]_vars => [Board!Next]_(Board!vars)
    BY BoardStep
  <1>3. QED
    BY <1>1, <1>2, BoardInit, Invariance, PTL DEF Spec, ImplementsJobBoard, Board!Spec
===============================================================================
