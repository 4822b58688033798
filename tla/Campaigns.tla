------------------------------ MODULE Campaigns ------------------------------
(***************************************************************************)
(* One MLIP campaign of the control plane: its row of mlip_campaigns, its  *)
(* rows of mlip_campaign_cells and the verdicts of its triplets            *)
(* (glim-think/src/research/mlipCampaign.ts), the dispatches and the       *)
(* retirement of cells (mlipWorkflow.ts, mlipWorkflowOps.ts), the runs of  *)
(* the cell runner and the beats they post to /feed/beats (feed/beats.ts). *)
(*                                                                         *)
(* Every SQL statement is a step.  Between two statements of a request,    *)
(* other requests, dispatches and retirements run their own, and a request *)
(* may end with an error after any of them.                                *)
(***************************************************************************)
EXTENDS Integers, FiniteSets

CONSTANTS
  Cells,        \* the cells of the campaign
  NoCell,       \* no cell
  Triplets,     \* the (row, mlip) pairs; each owns a cell per variant
  NoTriplet,    \* no triplet
  TripletOf,    \* the triplet of each cell
  Feeds,        \* invocations that can be ingesting a beat at one time
  Routes,       \* invocations that can be handling an operator's request
  Dispatchers,  \* invocations that can be dispatching cells at one time
  StaleAge,     \* a waiting cell older than this, in ticks, is stale
  MaxClock,     \* bound: the last tick
  MaxRuns,      \* bound: runs of the cell runner
  MaxManual,    \* bound: results operators post
  MaxOperators, \* bound: operators' results, evaluations and retirements that
                \* are being handled at one time
  ManualResults \* the statuses, with scores or without, that operators post

ASSUME CampaignsAssumption ==
  /\ NoCell \notin Cells
  /\ NoTriplet \notin Triplets
  /\ TripletOf \in [Cells -> Triplets]
  /\ StaleAge \in Nat
  /\ MaxClock \in Nat \ {0}
  /\ MaxRuns \in Nat
  /\ MaxManual \in Nat
  /\ MaxOperators \in Nat \ {0}
  /\ \A m \in ManualResults :
       m.status \in {"running", "completed", "failed"} /\ m.scored \in BOOLEAN

VARIABLES
  clock,       \* the time, in ticks coarser than the order of statements
  cell,        \* mlip_campaign_cells: status, updated_at, and the stamp of the
               \* result the scores came from (0: no scores)
  campaign,    \* mlip_campaigns.status
  evaluated,   \* the triplets with a row in mlip_campaign_triplet_evals
  judgedOn,    \* per cell: the stamp of the scores that the verdict of its
               \* triplet was computed from
  beats,       \* the beats the runners have emitted
  runner,      \* per cell: where its latest run is
  runs,        \* runs started
  manual,      \* results operators have posted
  request,     \* invocations of recordMlipCampaignResult and of
               \* evaluateCampaignTriplet
  dispatch,    \* invocations of dispatchCampaignCells
  retire,      \* the invocation of retireStaleMlipCampaignCells
  recorded,    \* history: cells a completed result was recorded for
  interrupted, \* history: triplets whose recording request broke off, and no
               \* verdict over their scores was stored since
  overtaken    \* history: triplets whose last stored verdict was over scores
               \* that had been replaced since it loaded them

\* The verdicts, and the requests' work on them.
verdicts == <<evaluated, judgedOn, overtaken, interrupted>>

vars == <<clock, cell, campaign, beats, runner, runs, manual, request,
          dispatch, retire, recorded, verdicts>>

Requests == Feeds \cup Routes
Stamps == 0 .. MaxClock
Results == {"running", "completed", "failed"}
Terminal == {"completed", "failed", "retired"}
Statuses == {"queued", "enqueued"} \cup Results \cup {"retired"}
Beats == [cell : Cells, status : Results, scored : BOOLEAN, ts : Stamps]

CellRow == [status : Statuses, updatedAt : Stamps, score : Stamps]
Phases == {"idle", "cell", "roll", "same", "load", "verdict", "operator"}
RequestState ==
  [phase : Phases,
   beat : [cell : Cells \cup {NoCell}, status : Results, scored : BOOLEAN,
           ts : Stamps],
   of : Triplets \cup {NoTriplet},
   seen : [Cells -> Stamps]]
DispatchState ==
  [phase : {"idle", "enqueue", "mark", "parent"}, todo : SUBSET Cells,
   at : Cells \cup {NoCell}]
RetireState ==
  [phase : {"idle", "cells"}, todo : SUBSET Cells, stamp : Stamps]

\* The type invariant: each table and each invocation holds values of its kind.
TypeOK ==
  /\ clock \in Stamps
  /\ cell \in [Cells -> CellRow]
  /\ campaign \in {"draft", "queued", "completed", "failed", "retired"}
  /\ evaluated \subseteq Triplets
  /\ judgedOn \in [Cells -> Stamps]
  /\ beats \subseteq Beats
  /\ runner \in [Cells -> {"none", "running", "posted", "ended"}]
  /\ runs \in 0 .. MaxRuns
  /\ manual \in 0 .. MaxManual
  /\ request \in [Requests -> RequestState]
  /\ \A r \in Requests :
       /\ request[r].phase # "idle" => request[r].of \in Triplets
       /\ request[r].phase = "cell" => request[r].beat.cell \in Cells
  /\ dispatch \in [Dispatchers -> DispatchState]
  /\ \A d \in Dispatchers :
       dispatch[d].phase \in {"mark", "parent"} => dispatch[d].at \in Cells
  /\ retire \in RetireState
  /\ recorded \subseteq Cells
  /\ interrupted \subseteq Triplets
  /\ overtaken \subseteq Triplets

-----------------------------------------------------------------------------
\* What the queries of the code ask of the cells.

CellsWith(status) == {c \in Cells : cell[c].status = status}

CellsOf(t) == {c \in Cells : TripletOf[c] = t}

\* tripletStatus is "completed": every variant is there, none failed or
\* retired, all completed.
Completed(t) == \A c \in CellsOf(t) : cell[c].status = "completed"

OperatorsBusy ==
  Cardinality({r \in Routes : request[r].phase # "idle"})
    + (IF retire.phase = "idle" THEN 0 ELSE 1)

\* What the SELECT of the cells finds of their scores.
Scores == [c \in Cells |-> cell[c].score]

\* Deviation: cells that were retired count as completed.
RolledUpWithRetired ==
  IF \A c \in Cells : cell[c].status \in {"completed", "retired"}
  THEN "completed" ELSE campaign

\* The campaign's status after the roll-up of recordMlipCampaignResult.
RolledUp ==
  IF \E c \in Cells : cell[c].status \notin Terminal
  THEN campaign
  ELSE IF \A c \in Cells : cell[c].status = "completed"
       THEN "completed"
       ELSE IF \A c \in Cells : cell[c].status = "retired"
            THEN "retired"
            ELSE "failed"

\* Deviation: the order of the observations is not looked at.
AcceptsAnyTime(row, beat) ==
  \/ row.status \notin Terminal
  \/ row.status = beat.status

\* The condition of the UPDATE of a cell: only a newer observation, and none
\* that would reopen or worsen a terminal cell.
Accepts(row, beat) ==
  /\ beat.ts > row.updatedAt
  /\ \/ row.status \notin Terminal
     \/ row.status = "completed" /\ beat.status = "completed"
     \/ row.status = "failed" /\ beat.status \in {"failed", "completed"}

\* The row that UPDATE leaves: a result without scores keeps the old ones.
Updated(row, beat) ==
  [status |-> beat.status,
   updatedAt |-> beat.ts,
   score |-> IF beat.scored THEN beat.ts ELSE row.score]

-----------------------------------------------------------------------------
\* createMlipCampaign has committed its batch: a draft with its queued cells.
\* The first tick is the time of creation.

NoBeat == [cell |-> NoCell, status |-> "running", scored |-> FALSE, ts |-> 0]
NoScores == [c \in Cells |-> 0]
IdleRequest ==
  [phase |-> "idle", beat |-> NoBeat, of |-> NoTriplet, seen |-> NoScores]
IdleDispatch == [phase |-> "idle", todo |-> {}, at |-> NoCell]
IdleRetire == [phase |-> "idle", todo |-> {}, stamp |-> 0]

Init ==
  /\ clock = 0
  /\ cell = [c \in Cells |->
               [status |-> "queued", updatedAt |-> 0, score |-> 0]]
  /\ campaign = "draft"
  /\ evaluated = {}
  /\ judgedOn = NoScores
  /\ beats = {}
  /\ runner = [c \in Cells |-> "none"]
  /\ runs = 0
  /\ manual = 0
  /\ request = [r \in Requests |-> IdleRequest]
  /\ dispatch = [d \in Dispatchers |-> IdleDispatch]
  /\ retire = IdleRetire
  /\ recorded = {}
  /\ interrupted = {}
  /\ overtaken = {}

Tick ==
  /\ clock < MaxClock
  /\ clock' = clock + 1
  /\ UNCHANGED <<cell, campaign, beats, runner, runs, manual, request,
                 dispatch, retire, recorded, verdicts>>

-----------------------------------------------------------------------------
\* Dispatch: the campaign is loaded once, then each chosen cell is enqueued
\* and marked.

\* enqueueCampaign, enqueueUnit or createCampaign loads the campaign and keeps
\* queued cells: those of a filter, a limit or a triplet.
DispatchLoad(d) ==
  /\ dispatch[d].phase = "idle"
  /\ \E chosen \in SUBSET CellsWith("queued") :
       /\ chosen # {}
       /\ dispatch' = [dispatch EXCEPT ![d] =
            [phase |-> "enqueue", todo |-> chosen, at |-> NoCell]]
  /\ UNCHANGED <<clock, cell, campaign, beats, runner, runs, manual, request,
                 retire, recorded, verdicts>>

\* enqueueTask starts a run of the cell, unless a job with its key that has not
\* failed exists; either way it answers with a job id.
DispatchEnqueue(d, c) ==
  /\ dispatch[d].phase = "enqueue"
  /\ c \in dispatch[d].todo
  /\ dispatch' = [dispatch EXCEPT ![d] =
       [phase |-> "mark", todo |-> dispatch[d].todo \ {c}, at |-> c]]
  /\ \/ /\ runner[c] \in {"none", "ended"}
        /\ runs < MaxRuns
        /\ runner' = [runner EXCEPT ![c] = "running"]
        /\ runs' = runs + 1
     \/ /\ runner[c] # "none"
        /\ UNCHANGED <<runner, runs>>
  /\ UNCHANGED <<clock, cell, campaign, beats, manual, request, retire,
                 recorded, verdicts>>

\* markMlipCampaignCellEnqueued, first statement: whatever the cell has become
\* since the campaign was loaded.
DispatchMark(d) ==
  /\ dispatch[d].phase = "mark"
  /\ cell' = [cell EXCEPT ![dispatch[d].at] =
       [status |-> "enqueued", updatedAt |-> clock,
        score |-> cell[dispatch[d].at].score]]
  /\ dispatch' = [dispatch EXCEPT ![d] =
       [phase |-> "parent", todo |-> dispatch[d].todo, at |-> dispatch[d].at]]
  /\ UNCHANGED <<clock, campaign, beats, runner, runs, manual, request, retire,
                 recorded, verdicts>>

\* Its second statement, and the next turn of the loop.
DispatchMarkParent(d) ==
  /\ dispatch[d].phase = "parent"
  /\ campaign' = "queued"
  /\ dispatch' = [dispatch EXCEPT ![d] =
       IF dispatch[d].todo = {}
       THEN IdleDispatch
       ELSE [phase |-> "enqueue", todo |-> dispatch[d].todo, at |-> NoCell]]
  /\ UNCHANGED <<clock, cell, beats, runner, runs, manual, request, retire,
                 recorded, verdicts>>

\* enqueueTask or a statement throws, or the Worker ends: the rest of the cells
\* is not dispatched.
DispatchBreaksOff(d) ==
  /\ dispatch[d].phase # "idle"
  /\ dispatch' = [dispatch EXCEPT ![d] = IdleDispatch]
  /\ UNCHANGED <<clock, cell, campaign, beats, runner, runs, manual, request,
                 retire, recorded, verdicts>>

-----------------------------------------------------------------------------
\* Retirement: stale cells are selected, the oldest up to a limit, then retired
\* one by one by id.

RetireSelect ==
  /\ retire.phase = "idle"
  /\ OperatorsBusy < MaxOperators
  /\ LET stale == {c \in CellsWith("queued") \cup CellsWith("enqueued") :
                     cell[c].updatedAt < clock - StaleAge}
     IN  \E oldest \in SUBSET stale :
           /\ oldest # {}
           /\ \A c \in oldest, e \in stale \ oldest :
                cell[c].updatedAt <= cell[e].updatedAt
           /\ retire' = [phase |-> "cells", todo |-> oldest, stamp |-> clock]
  /\ UNCHANGED <<clock, cell, campaign, beats, runner, runs, manual, request,
                 dispatch, recorded, verdicts>>

RetireCell(c) ==
  /\ retire.phase = "cells"
  /\ c \in retire.todo
  /\ cell' = [cell EXCEPT ![c] =
       [status |-> "retired", updatedAt |-> retire.stamp,
        score |-> cell[c].score]]
  /\ retire' = [retire EXCEPT !.todo = retire.todo \ {c}]
  /\ UNCHANGED <<clock, campaign, beats, runner, runs, manual, request,
                 dispatch, recorded, verdicts>>

\* The campaign is retired when it has no cell of another status.
RetireParent ==
  /\ retire.phase = "cells"
  /\ retire.todo = {}
  /\ campaign' = IF \A c \in Cells : cell[c].status = "retired"
                 THEN "retired" ELSE campaign
  /\ retire' = IdleRetire
  /\ UNCHANGED <<clock, cell, beats, runner, runs, manual, request, dispatch,
                 recorded, verdicts>>

RetireBreaksOff ==
  /\ retire.phase = "cells"
  /\ retire' = IdleRetire
  /\ UNCHANGED <<clock, cell, campaign, beats, runner, runs, manual, request,
                 dispatch, recorded, verdicts>>

-----------------------------------------------------------------------------
\* The cell runner.  A run posts one beat, completed or failed.  The call that
\* posts the completed beat is inside the try block of the run: when it is not
\* answered with ok, the run reports the cell as failed.

RunnerEmits(c) ==
  /\ runner[c] = "running"
  /\ \/ /\ beats' = beats \cup
             {[cell |-> c, status |-> "completed", scored |-> TRUE, ts |-> clock]}
        /\ runner' = [runner EXCEPT ![c] = "posted"]
     \/ /\ beats' = beats \cup
             {[cell |-> c, status |-> "failed", scored |-> FALSE, ts |-> clock]}
        /\ runner' = [runner EXCEPT ![c] = "ended"]
  /\ UNCHANGED <<clock, cell, campaign, runs, manual, request, dispatch,
                 retire, recorded, verdicts>>

RunnerEnds(c) ==
  /\ runner[c] = "posted"
  /\ \/ beats' = beats
     \/ beats' = beats \cup
          {[cell |-> c, status |-> "failed", scored |-> FALSE, ts |-> clock]}
  /\ runner' = [runner EXCEPT ![c] = "ended"]
  /\ UNCHANGED <<clock, cell, campaign, runs, manual, request, dispatch,
                 retire, recorded, verdicts>>

-----------------------------------------------------------------------------
\* Recording a result: recordMlipCampaignResult, for a beat of the feed or for
\* an operator.

\* A result reaches recordMlipCampaignResult.
Receives(r, b) == request' = [request EXCEPT ![r] =
  [phase |-> "cell", beat |-> b, of |-> TripletOf[b.cell], seen |-> NoScores]]

\* A beat is posted, for the first time, late, or again.  Whether lab_beats has
\* it already (ON CONFLICT DO NOTHING) makes no difference: it is projected.
ReceiveBeat(r) ==
  /\ request[r].phase = "idle"
  /\ \E b \in beats : Receives(r, b)
  /\ UNCHANGED <<clock, cell, campaign, beats, runner, runs, manual, dispatch,
                 retire, recorded, verdicts>>

\* An operator posts a result, with scores or without, to the route of the cell:
\* its stamp is the time of the request.
ReceiveResult(r) ==
  /\ request[r].phase = "idle"
  /\ OperatorsBusy < MaxOperators
  /\ manual < MaxManual
  /\ manual' = manual + 1
  /\ \E c \in Cells, m \in ManualResults :
       Receives(r, [cell |-> c, status |-> m.status, scored |-> m.scored,
                    ts |-> clock])
  /\ UNCHANGED <<clock, cell, campaign, beats, runner, runs, dispatch, retire,
                 recorded, verdicts>>

\* The phase after the UPDATE: of the result, only the triplet matters any more.
Goes(r, phase) == [request EXCEPT ![r] =
  [phase |-> phase, beat |-> NoBeat, of |-> request[r].of, seen |-> NoScores]]

\* The request has loaded the campaign and evaluates a triplet.
GoesOn(r, phase, t) == [request EXCEPT ![r] =
  [phase |-> phase, beat |-> NoBeat, of |-> t, seen |-> Scores]]

\* The request is answered with ok.
Answered(r) == request' = [request EXCEPT ![r] = IdleRequest]

\* The conditional UPDATE of the cell.
UpdateCell(r) ==
  LET b == request[r].beat IN
  /\ request[r].phase = "cell"
  /\ \/ /\ Accepts(cell[b.cell], b)
        /\ cell' = [cell EXCEPT ![b.cell] = Updated(cell[b.cell], b)]
        /\ recorded' = IF b.status = "completed"
                       THEN recorded \cup {b.cell} ELSE recorded
        /\ request' = Goes(r, "roll")
     \/ /\ ~Accepts(cell[b.cell], b)
        /\ request' = Goes(r, "same")
        /\ UNCHANGED <<cell, recorded>>
  /\ UNCHANGED <<clock, campaign, beats, runner, runs, manual, dispatch, retire,
                 verdicts>>

\* The roll-up of the campaign, which runs whether or not the cell changed; a
\* request that changed nothing is answered without a look at the triplet.
RollUp(r) ==
  /\ request[r].phase \in {"roll", "same"}
  /\ campaign' = RolledUp
  /\ \/ /\ request[r].phase = "roll"
        /\ request' = Goes(r, "load")
     \/ /\ request[r].phase = "same"
        /\ Answered(r)
  /\ UNCHANGED <<clock, cell, beats, runner, runs, manual, dispatch, retire,
                 recorded, verdicts>>

\* Deviation: the triplets of a campaign are left until it is rolled up.
LoadTripletOfFinished(r) ==
  /\ request[r].phase = "load"
  /\ \/ /\ campaign = "completed"
        /\ request' = GoesOn(r, "verdict", request[r].of)
     \/ /\ campaign # "completed"
        /\ Answered(r)
  /\ UNCHANGED <<clock, cell, campaign, beats, runner, runs, manual, dispatch,
                 retire, recorded, verdicts>>

\* evaluateCompletedTripletForCell loads the campaign again.
LoadTriplet(r) ==
  /\ request[r].phase = "load"
  /\ \/ /\ Completed(request[r].of)
        /\ request' = GoesOn(r, "verdict", request[r].of)
     \/ /\ ~Completed(request[r].of)
        /\ Answered(r)
  /\ UNCHANGED <<clock, cell, campaign, beats, runner, runs, manual, dispatch,
                 retire, recorded, verdicts>>

\* evaluateUnit: an operator evaluates a triplet, whatever the statuses of its
\* cells are.  A unit that has no cells is refused.
EvaluateUnit(r) ==
  /\ request[r].phase = "idle"
  /\ OperatorsBusy < MaxOperators
  /\ \E t \in Triplets :
       /\ CellsOf(t) # {}
       /\ request' = GoesOn(r, "operator", t)
  /\ UNCHANGED <<clock, cell, campaign, beats, runner, runs, manual, dispatch,
                 retire, recorded, verdicts>>

\* traceMlipTripletEvaluation: the verdict over the scores that were loaded
\* replaces the one there is, whatever was recorded or stored meanwhile.
Evaluate(r) ==
  LET t == request[r].of
      current == \A c \in CellsOf(t) : request[r].seen[c] = cell[c].score
  IN
  /\ request[r].phase \in {"verdict", "operator"}
  /\ evaluated' = evaluated \cup {t}
  /\ judgedOn' = [c \in Cells |->
       IF TripletOf[c] = t THEN request[r].seen[c] ELSE judgedOn[c]]
  /\ \/ /\ current
        /\ overtaken' = overtaken \ {t}
        /\ interrupted' = interrupted \ {t}
     \/ /\ ~current
        /\ overtaken' = overtaken \cup {t}
        /\ UNCHANGED interrupted
  /\ Answered(r)
  /\ UNCHANGED <<clock, cell, campaign, beats, runner, runs, manual, dispatch,
                 retire, recorded>>

\* A statement throws, the answer is an error; or the Worker ends.
RequestBreaksOff(r) ==
  /\ request[r].phase # "idle"
  /\ request' = [request EXCEPT ![r] = IdleRequest]
  /\ interrupted' = IF request[r].phase \in {"roll", "load", "verdict"}
                    THEN interrupted \cup {request[r].of}
                    ELSE interrupted
  /\ UNCHANGED <<clock, cell, campaign, evaluated, judgedOn, beats, runner, runs,
                 manual, dispatch, retire, recorded, overtaken>>

-----------------------------------------------------------------------------
Dispatching(d) ==
  \/ DispatchLoad(d)
  \/ \E c \in Cells : DispatchEnqueue(d, c)
  \/ DispatchMark(d)
  \/ DispatchMarkParent(d)
  \/ DispatchBreaksOff(d)

Retiring ==
  \/ RetireSelect
  \/ \E c \in Cells : RetireCell(c)
  \/ RetireParent
  \/ RetireBreaksOff

Recording(r) ==
  \/ r \in Feeds /\ ReceiveBeat(r)
  \/ r \in Routes /\ ReceiveResult(r)
  \/ r \in Routes /\ EvaluateUnit(r)
  \/ UpdateCell(r)
  \/ RollUp(r)
  \/ LoadTriplet(r)
  \/ Evaluate(r)
  \/ RequestBreaksOff(r)

Next ==
  \/ Tick
  \/ \E d \in Dispatchers : Dispatching(d)
  \/ Retiring
  \/ \E c \in Cells : RunnerEmits(c) \/ RunnerEnds(c)
  \/ \E r \in Requests : Recording(r)

Spec == Init /\ [][Next]_vars

-----------------------------------------------------------------------------
\* A request that has changed a cell of the triplet and has not finished.
BeingEvaluated(t) ==
  \E r \in Requests :
    request[r].phase \in {"roll", "load", "verdict"} /\ request[r].of = t

\* The triplet has a verdict, and it is over the scores its cells have.
Judged(t) ==
  t \in evaluated /\ \A c \in CellsOf(t) : judgedOn[c] = cell[c].score

\* Whichever result completes a triplet, in whatever order the last ones are
\* recorded side by side, the triplet gets its verdict: a completed triplet has
\* one over the scores its cells have, or a request that will store one is on
\* its way, or such a request broke off, or an evaluation that had loaded older
\* scores stored its verdict last (recordMlipCampaignResult loads the triplet
\* only after its own UPDATE; persistTripletEvaluation replaces any verdict).
LastResultEvaluates ==
  \A t \in Triplets :
    CellsOf(t) # {} /\ Completed(t) =>
      \/ Judged(t) \/ BeingEvaluated(t)
      \/ t \in interrupted \/ t \in overtaken

\* A campaign is rolled up to "completed" only when a completed result was
\* recorded for every one of its cells, whatever dispatches and retirements
\* did to their statuses in between.
CompletionIsEarned == campaign = "completed" => recorded = Cells

\* The evaluations that have loaded their scores.
Evaluations ==
  {[of |-> request[r].of, on |-> request[r].seen] :
     r \in {q \in Requests : request[q].phase \in {"verdict", "operator"}}}

\* Whatever its dispatches, retirements and requests do to the rows between
\* their statements, what the campaign shows is a scoreboard: late, repeated and
\* overtaken beats change no scores, although a retirement may set updated_at
\* back; a verdict is over scores that its cells showed together; the campaign
\* is not completed before each of its cells had a completed result.
Board == INSTANCE Scoreboard
  WITH score <- Scores,
       completed <- recorded,
       evaluations <- Evaluations,
       judged <- evaluated,
       closed <- (campaign = "completed")

ImplementsScoreboard == Board!Spec

\* What the answer to a failed projection promises, "beat stored but MLIP
\* projection failed; retry this beat_id": a beat that is answered with ok has
\* been projected, so its triplet, when it is completed, has its verdict or is
\* being evaluated, unless an overtaken evaluation stored its verdict last.
AcknowledgedIsProjected ==
  [][\A r \in Feeds :
       /\ RollUp(r) \/ LoadTriplet(r) \/ Evaluate(r)
       /\ request'[r].phase = "idle"
       => \A t \in Triplets :
            request[r].of = t /\ Completed(t)
            => Judged(t)' \/ BeingEvaluated(t)' \/ t \in overtaken']_vars
=============================================================================
