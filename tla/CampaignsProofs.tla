--------------------------- MODULE CampaignsProofs ---------------------------
(***************************************************************************)
(* Proofs about Campaigns, for every set of cells, triplets and concurrent *)
(* requests and dispatches, and for every bound.                           *)
(***************************************************************************)
EXTENDS Campaigns, TLAPS

\* What the stamps say: nothing is of the future, and updated_at is at least
\* the stamp of the scores until the cell is retired.
StampInv ==
  /\ \A c \in Cells :
       /\ cell[c].score <= clock
       /\ cell[c].status # "retired" => cell[c].score <= cell[c].updatedAt
  /\ \A b \in beats : b.ts <= clock
  /\ \A r \in Requests : request[r].beat.ts <= clock

\* A cell is completed only by a completed result.
CompletedIsRecorded ==
  \A c \in Cells : cell[c].status = "completed" => c \in recorded

\* A request that is about to record a result evaluates that cell's triplet.
OfItsCell ==
  \A r \in Requests :
    request[r].phase = "cell" => request[r].of = TripletOf[request[r].beat.cell]

IInv == TypeOK /\ StampInv /\ CompletedIsRecorded /\ OfItsCell

-----------------------------------------------------------------------------
(* Types.                                                                  *)

LEMMA IdleTypes ==
  /\ IdleRequest \in RequestState /\ IdleRequest.phase = "idle"
  /\ NoBeat.ts = 0 /\ IdleRequest.beat = NoBeat
  /\ IdleDispatch \in DispatchState /\ IdleDispatch.phase = "idle"
  /\ IdleRetire \in RetireState
  /\ 0 \in Stamps
  BY CampaignsAssumption
     DEF IdleRequest, NoBeat, NoScores, IdleDispatch, IdleRetire, RequestState,
         DispatchState, RetireState, Phases, Results, Stamps

LEMMA UpdatedType ==
  ASSUME NEW row \in CellRow, NEW b \in Beats
  PROVE  Updated(row, b) \in CellRow
  BY DEF Updated, CellRow, Beats, Results, Statuses

LEMMA ScoresType == TypeOK => Scores \in [Cells -> Stamps]
  BY DEF TypeOK, Scores, CellRow

\* The states a request goes to.
LEMMA GoesType ==
  ASSUME TypeOK, NEW r \in Requests, request[r].phase # "idle",
         NEW p \in Phases
  PROVE  /\ Goes(r, p) \in [Requests -> RequestState]
         /\ Goes(r, p)[r].phase = p
         /\ Goes(r, p)[r].of = request[r].of
         /\ Goes(r, p)[r].beat = NoBeat
         /\ \A q \in Requests \ {r} : Goes(r, p)[q] = request[q]
  <1>1. [phase |-> p, beat |-> NoBeat, of |-> request[r].of, seen |-> NoScores]
          \in RequestState
    BY IdleTypes DEF TypeOK, NoBeat, NoScores, RequestState, Results
  <1>2. QED
    BY <1>1 DEF TypeOK, Goes

LEMMA GoesOnType ==
  ASSUME TypeOK, NEW r \in Requests, NEW p \in Phases, NEW t \in Triplets
  PROVE  /\ GoesOn(r, p, t) \in [Requests -> RequestState]
         /\ GoesOn(r, p, t)[r].phase = p
         /\ GoesOn(r, p, t)[r].of = t
         /\ GoesOn(r, p, t)[r].seen = Scores
         /\ GoesOn(r, p, t)[r].beat = NoBeat
         /\ \A q \in Requests \ {r} : GoesOn(r, p, t)[q] = request[q]
  <1>1. [phase |-> p, beat |-> NoBeat, of |-> t, seen |-> Scores]
          \in RequestState
    BY IdleTypes, ScoresType DEF NoBeat, RequestState, Results
  <1>2. QED
    BY <1>1 DEF TypeOK, GoesOn

LEMMA ReceivesType ==
  ASSUME TypeOK, NEW r \in Requests, NEW b \in Beats, Receives(r, b)
  PROVE  /\ request' \in [Requests -> RequestState]
         /\ request'[r].phase = "cell"
         /\ request'[r].of = TripletOf[b.cell]
         /\ request'[r].beat = b
         /\ \A q \in Requests \ {r} : request'[q] = request[q]
  <1>1. [phase |-> "cell", beat |-> b, of |-> TripletOf[b.cell],
         seen |-> NoScores] \in RequestState
    BY IdleTypes, CampaignsAssumption
       DEF Beats, NoScores, RequestState, Phases
  <1>2. QED
    BY <1>1 DEF TypeOK, Receives

\* The part of the type invariant about requests.
RequestTypes ==
  /\ request \in [Requests -> RequestState]
  /\ \A r \in Requests :
       /\ request[r].phase # "idle" => request[r].of \in Triplets
       /\ request[r].phase = "cell" => request[r].beat.cell \in Cells

\* After a step that leaves all requests but one as they are.
LEMMA RequestStep ==
  ASSUME TypeOK, NEW r \in Requests,
         request' \in [Requests -> RequestState],
         \A q \in Requests \ {r} : request'[q] = request[q],
         request'[r].phase # "idle" => request'[r].of \in Triplets,
         request'[r].phase = "cell" => request'[r].beat.cell \in Cells
  PROVE  RequestTypes'
  BY DEF TypeOK, RequestTypes

LEMMA IdleStep ==
  ASSUME TypeOK, NEW r \in Requests,
         request' = [request EXCEPT ![r] = IdleRequest]
  PROVE  /\ RequestTypes'
         /\ request'[r].phase = "idle" /\ request'[r].beat.ts = 0
         /\ \A q \in Requests \ {r} : request'[q] = request[q]
  BY IdleTypes DEF TypeOK, RequestTypes

LEMMA DispatchTypes ==
  ASSUME TypeOK, NEW d \in Dispatchers, NEW s \in DispatchState,
         s.phase \in {"mark", "parent"} => s.at \in Cells,
         dispatch' = [dispatch EXCEPT ![d] = s]
  PROVE  /\ dispatch' \in [Dispatchers -> DispatchState]
         /\ \A e \in Dispatchers :
              dispatch'[e].phase \in {"mark", "parent"}
              => dispatch'[e].at \in Cells
  BY DEF TypeOK

LEMMA InitType == Init => TypeOK
  BY IdleTypes, CampaignsAssumption
     DEF Init, NoScores, TypeOK, CellRow, Statuses, Stamps

LEMMA DispatchingType ==
  ASSUME TypeOK, NEW d \in Dispatchers, Dispatching(d)
  PROVE  TypeOK'
  <1> USE DEF verdicts
  <1>1. CASE DispatchLoad(d)
    <2>1. PICK chosen \in SUBSET CellsWith("queued") :
            dispatch' = [dispatch EXCEPT ![d] =
              [phase |-> "enqueue", todo |-> chosen, at |-> NoCell]]
      BY <1>1 DEF DispatchLoad
    <2>2. [phase |-> "enqueue", todo |-> chosen, at |-> NoCell] \in DispatchState
      BY DEF DispatchState, CellsWith
    <2>3. QED
      BY <1>1, <2>1, <2>2, DispatchTypes DEF DispatchLoad, TypeOK
  <1>2. ASSUME NEW c \in Cells, DispatchEnqueue(d, c)
        PROVE  TypeOK'
    <2>1. [phase |-> "mark", todo |-> dispatch[d].todo \ {c}, at |-> c]
            \in DispatchState
      BY DEF DispatchState, TypeOK
    <2>2. runner' \in [Cells -> {"none", "running", "posted", "ended"}]
          /\ runs' \in 0 .. MaxRuns
      BY <1>2, CampaignsAssumption DEF DispatchEnqueue, TypeOK
    <2>3. QED
      BY <1>2, <2>1, <2>2, DispatchTypes DEF DispatchEnqueue, TypeOK
  <1>3. CASE DispatchMark(d)
    <2>1. [phase |-> "parent", todo |-> dispatch[d].todo, at |-> dispatch[d].at]
            \in DispatchState
      BY DEF DispatchState, TypeOK
    <2>2. dispatch[d].at \in Cells
      BY <1>3 DEF DispatchMark, TypeOK
    <2>3. cell' \in [Cells -> CellRow]
      BY <1>3, <2>2 DEF DispatchMark, TypeOK, CellRow, Statuses
    <2>4. QED
      BY <1>3, <2>1, <2>2, <2>3, DispatchTypes DEF DispatchMark, TypeOK
  <1>4. CASE DispatchMarkParent(d)
    <2>1. [phase |-> "enqueue", todo |-> dispatch[d].todo, at |-> NoCell]
            \in DispatchState
      BY DEF DispatchState, TypeOK
    <2>2. QED
      BY <1>4, <2>1, IdleTypes, DispatchTypes DEF DispatchMarkParent, TypeOK
  <1>5. CASE DispatchBreaksOff(d)
    BY <1>5, IdleTypes, DispatchTypes DEF DispatchBreaksOff, TypeOK
  <1>6. QED
    BY <1>1, <1>2, <1>3, <1>4, <1>5 DEF Dispatching

LEMMA RetiringType ==
  ASSUME TypeOK, Retiring
  PROVE  TypeOK'
  <1> USE DEF verdicts
  <1>1. CASE RetireSelect
    <2>1. retire' \in RetireState
      BY <1>1 DEF RetireSelect, RetireState, CellsWith, TypeOK
    <2>2. QED
      BY <1>1, <2>1 DEF RetireSelect, TypeOK
  <1>2. ASSUME NEW c \in Cells, RetireCell(c)
        PROVE  TypeOK'
    <2>1. cell' \in [Cells -> CellRow]
      BY <1>2 DEF RetireCell, TypeOK, CellRow, Statuses, RetireState
    <2>2. retire' \in RetireState
      BY <1>2 DEF RetireCell, TypeOK, RetireState
    <2>3. QED
      BY <1>2, <2>1, <2>2 DEF RetireCell, TypeOK
  <1>3. CASE RetireParent
    BY <1>3, IdleTypes DEF RetireParent, TypeOK
  <1>4. CASE RetireBreaksOff
    BY <1>4, IdleTypes DEF RetireBreaksOff, TypeOK
  <1>5. QED
    BY <1>1, <1>2, <1>3, <1>4 DEF Retiring

LEMMA RunnerType ==
  ASSUME TypeOK, NEW c \in Cells, RunnerEmits(c) \/ RunnerEnds(c)
  PROVE  TypeOK'
  <1> USE DEF verdicts
  <1>1. /\ [cell |-> c, status |-> "completed", scored |-> TRUE, ts |-> clock]
             \in Beats
        /\ [cell |-> c, status |-> "failed", scored |-> FALSE, ts |-> clock]
             \in Beats
    BY DEF TypeOK, Beats, Results
  <1>2. beats' \subseteq Beats
    BY <1>1 DEF RunnerEmits, RunnerEnds, TypeOK
  <1>3. runner' \in [Cells -> {"none", "running", "posted", "ended"}]
    BY DEF RunnerEmits, RunnerEnds, TypeOK
  <1>4. QED
    BY <1>2, <1>3 DEF RunnerEmits, RunnerEnds, TypeOK

LEMMA RecordingType ==
  ASSUME TypeOK, NEW r \in Requests, Recording(r)
  PROVE  TypeOK'
  <1> USE DEF verdicts
  <1>1. CASE ReceiveBeat(r)
    <2>1. PICK b \in beats : Receives(r, b)
      BY <1>1 DEF ReceiveBeat
    <2>2. b \in Beats /\ b.cell \in Cells /\ TripletOf[b.cell] \in Triplets
      BY CampaignsAssumption DEF TypeOK, Beats
    <2>3. RequestTypes'
      BY <2>1, <2>2, ReceivesType, RequestStep
    <2>4. QED
      BY <1>1, <2>3 DEF ReceiveBeat, RequestTypes, TypeOK
  <1>2. CASE ReceiveResult(r)
    <2>1. PICK c \in Cells, m \in ManualResults :
            Receives(r, [cell |-> c, status |-> m.status, scored |-> m.scored,
                         ts |-> clock])
      BY <1>2 DEF ReceiveResult
    <2> DEFINE b == [cell |-> c, status |-> m.status, scored |-> m.scored,
                     ts |-> clock]
    <2>2. b \in Beats /\ TripletOf[b.cell] \in Triplets
      BY CampaignsAssumption DEF TypeOK, Beats, Results
    <2>3. RequestTypes'
      BY <2>1, <2>2, ReceivesType, RequestStep
    <2>4. manual' \in 0 .. MaxManual
      BY <1>2, CampaignsAssumption DEF ReceiveResult, TypeOK
    <2>5. QED
      BY <1>2, <2>3, <2>4 DEF ReceiveResult, RequestTypes, TypeOK
  <1>3. CASE EvaluateUnit(r)
    <2>1. PICK t \in Triplets : request' = GoesOn(r, "operator", t)
      BY <1>3 DEF EvaluateUnit
    <2>2. /\ request' \in [Requests -> RequestState]
          /\ request'[r].phase = "operator" /\ request'[r].of = t
          /\ \A q \in Requests \ {r} : request'[q] = request[q]
      BY <2>1, GoesOnType DEF Phases
    <2>3. RequestTypes'
      BY <2>2, RequestStep
    <2>4. QED
      BY <1>3, <2>3 DEF EvaluateUnit, RequestTypes, TypeOK
  <1>4. CASE UpdateCell(r)
    <2> DEFINE b == request[r].beat
    <2>1. request[r].phase # "idle" /\ b.cell \in Cells
      BY <1>4 DEF UpdateCell, TypeOK
    <2>2. b \in Beats
      BY <2>1 DEF TypeOK, RequestState, Beats
    <2>3. cell' \in [Cells -> CellRow] /\ recorded' \subseteq Cells
      <3>1. Updated(cell[b.cell], b) \in CellRow
        BY <2>1, <2>2, UpdatedType DEF TypeOK
      <3>2. QED
        BY <1>4, <2>1, <3>1 DEF UpdateCell, TypeOK
    <2>4. request' = Goes(r, "roll") \/ request' = Goes(r, "same")
      BY <1>4 DEF UpdateCell
    <2>5. RequestTypes'
      BY <2>1, <2>4, GoesType, RequestStep DEF Phases, TypeOK
    <2>6. QED
      BY <1>4, <2>3, <2>5 DEF UpdateCell, RequestTypes, TypeOK
  <1>5. CASE RollUp(r) \/ LoadTriplet(r)
    <2>1. request[r].phase # "idle" /\ request[r].of \in Triplets
      BY <1>5 DEF RollUp, LoadTriplet, TypeOK
    <2>2. \/ request' = Goes(r, "load")
          \/ request' = GoesOn(r, "verdict", request[r].of)
          \/ request' = [request EXCEPT ![r] = IdleRequest]
      BY <1>5 DEF RollUp, LoadTriplet, Answered
    <2>3. RequestTypes'
      <3>1. CASE request' = Goes(r, "load")
        BY <2>1, <3>1, GoesType, RequestStep DEF Phases
      <3>2. CASE request' = GoesOn(r, "verdict", request[r].of)
        BY <2>1, <3>2, GoesOnType, RequestStep DEF Phases
      <3>3. QED
        BY <2>2, <3>1, <3>2, IdleStep
    <2>4. campaign' \in {"draft", "queued", "completed", "failed", "retired"}
      BY <1>5 DEF RollUp, RolledUp, LoadTriplet, TypeOK
    <2>5. QED
      BY <1>5, <2>3, <2>4 DEF RollUp, LoadTriplet, RequestTypes, TypeOK
  <1>6. CASE Evaluate(r)
    <2>1. request[r].of \in Triplets /\ request[r].seen \in [Cells -> Stamps]
      BY <1>6 DEF Evaluate, TypeOK, RequestState
    <2>2. judgedOn' \in [Cells -> Stamps]
      BY <1>6, <2>1 DEF Evaluate, TypeOK
    <2>3. /\ evaluated' \subseteq Triplets /\ overtaken' \subseteq Triplets
          /\ interrupted' \subseteq Triplets
      BY <1>6, <2>1 DEF Evaluate, TypeOK
    <2>4. RequestTypes'
      BY <1>6, IdleStep DEF Evaluate, Answered
    <2>5. QED
      BY <1>6, <2>2, <2>3, <2>4 DEF Evaluate, RequestTypes, TypeOK
  <1>7. CASE RequestBreaksOff(r)
    <2>1. request[r].of \in Triplets
      BY <1>7 DEF RequestBreaksOff, TypeOK
    <2>2. interrupted' \subseteq Triplets
      BY <1>7, <2>1 DEF RequestBreaksOff, TypeOK
    <2>3. RequestTypes'
      BY <1>7, IdleStep DEF RequestBreaksOff
    <2>4. QED
      BY <1>7, <2>2, <2>3 DEF RequestBreaksOff, RequestTypes, TypeOK
  <1>8. QED
    BY <1>1, <1>2, <1>3, <1>4, <1>5, <1>6, <1>7 DEF Recording

LEMMA NextType == TypeOK /\ [Next]_vars => TypeOK'
  <1> SUFFICES ASSUME TypeOK, [Next]_vars PROVE TypeOK'
    OBVIOUS
  <1>1. CASE Tick
    <2>1. clock' \in Stamps
      BY <1>1, CampaignsAssumption DEF Tick, TypeOK, Stamps
    <2>2. QED
      BY <1>1, <2>1 DEF Tick, TypeOK, verdicts
  <1>2. CASE UNCHANGED vars
    BY <1>2 DEF vars, verdicts, TypeOK
  <1>3. QED
    BY <1>1, <1>2, DispatchingType, RetiringType, RunnerType,
       RecordingType DEF Next

\* Every table, beat and invocation holds values of its kind.
THEOREM Typing == Spec => []TypeOK
  BY InitType, NextType, PTL DEF Spec

-----------------------------------------------------------------------------
(* How one step may change a cell, and what it knows of the time.          *)

\* A dispatch or a retirement leaves the scores alone; a result replaces the
\* row as Accepts and Updated say.
Marked(c) ==
  /\ cell'[c].status = "enqueued" /\ cell'[c].updatedAt = clock
  /\ cell'[c].score = cell[c].score

Retired(c) ==
  cell'[c].status = "retired" /\ cell'[c].score = cell[c].score

Resulted(c) ==
  \E r \in Requests :
    /\ request[r].phase = "cell" /\ request[r].beat.cell = c
    /\ Accepts(cell[c], request[r].beat)
    /\ cell'[c] = Updated(cell[c], request[r].beat)
    /\ request' = Goes(r, "roll")
    /\ recorded' = IF request[r].beat.status = "completed"
                   THEN recorded \cup {c} ELSE recorded

LEMMA CellStep ==
  ASSUME TypeOK, [Next]_vars, NEW c \in Cells
  PROVE  cell'[c] = cell[c] \/ Marked(c) \/ Retired(c) \/ Resulted(c)
  <1>1. ASSUME NEW d \in Dispatchers, DispatchMark(d)
        PROVE  cell'[c] = cell[c] \/ Marked(c)
    BY <1>1 DEF DispatchMark, Marked, TypeOK
  <1>2. ASSUME NEW k \in Cells, RetireCell(k)
        PROVE  cell'[c] = cell[c] \/ Retired(c)
    BY <1>2 DEF RetireCell, Retired, TypeOK
  <1>3. ASSUME NEW r \in Requests, UpdateCell(r)
        PROVE  cell'[c] = cell[c] \/ Resulted(c)
    <2>1. CASE request[r].beat.cell = c
      BY <1>3, <2>1 DEF UpdateCell, Resulted, TypeOK
    <2>2. CASE request[r].beat.cell # c
      BY <1>3, <2>2 DEF UpdateCell, TypeOK
    <2>3. QED
      BY <2>1, <2>2
  <1>4. CASE UNCHANGED cell
    BY <1>4
  <1>5. QED
    BY <1>1, <1>2, <1>3, <1>4
       DEF Next, vars, Tick, Dispatching, DispatchLoad, DispatchEnqueue,
           DispatchMarkParent, DispatchBreaksOff, Retiring, RetireSelect,
           RetireParent, RetireBreaksOff, RunnerEmits, RunnerEnds, Recording,
           ReceiveBeat, ReceiveResult, RollUp, LoadTriplet, Evaluate,
           RequestBreaksOff, EvaluateUnit

LEMMA ClockStep ==
  ASSUME TypeOK, [Next]_vars
  PROVE  clock \in Nat /\ clock' \in Nat /\ clock <= clock'
  <1>1. clock' = clock \/ clock' = clock + 1
    BY DEF Next, vars, Tick, Dispatching, DispatchLoad, DispatchEnqueue,
           DispatchMark, DispatchMarkParent, DispatchBreaksOff, Retiring,
           RetireSelect, RetireCell, RetireParent, RetireBreaksOff,
           RunnerEmits, RunnerEnds, Recording, ReceiveBeat, ReceiveResult,
           UpdateCell, RollUp, LoadTriplet, Evaluate, RequestBreaksOff,
           EvaluateUnit, verdicts
  <1>2. QED
    BY <1>1 DEF TypeOK, Stamps

\* A step of a request leaves the others alone; it has a result only while that
\* is to be written to its cell, and then the triplet is that of the cell.
LEMMA RecordingMoves ==
  ASSUME TypeOK, NEW q \in Requests, Recording(q)
  PROVE  /\ \A r \in Requests \ {q} : request'[r] = request[r]
         /\ \/ /\ request'[q].phase = "cell"
               /\ request'[q].of = TripletOf[request'[q].beat.cell]
               /\ request'[q].beat \in beats \/ request'[q].beat.ts = clock
            \/ /\ request'[q].phase # "cell"
               /\ request'[q].beat = NoBeat
  <1>1. CASE ReceiveBeat(q)
    <2>1. PICK b \in beats : Receives(q, b)
      BY <1>1 DEF ReceiveBeat
    <2>2. b \in Beats
      BY DEF TypeOK
    <2>3. QED
      BY <2>1, <2>2, ReceivesType
  <1>2. CASE ReceiveResult(q)
    <2>1. PICK c \in Cells, m \in ManualResults :
            Receives(q, [cell |-> c, status |-> m.status, scored |-> m.scored,
                         ts |-> clock])
      BY <1>2 DEF ReceiveResult
    <2>2. [cell |-> c, status |-> m.status, scored |-> m.scored, ts |-> clock]
            \in Beats
      BY CampaignsAssumption DEF TypeOK, Beats, Results
    <2>3. QED
      BY <2>1, <2>2, ReceivesType
  <1>3. CASE EvaluateUnit(q)
    <2>1. PICK t \in Triplets : request' = GoesOn(q, "operator", t)
      BY <1>3 DEF EvaluateUnit
    <2>2. QED
      BY <2>1, GoesOnType DEF Phases
  <1>4. CASE \/ UpdateCell(q) \/ RollUp(q) \/ LoadTriplet(q) \/ Evaluate(q)
             \/ RequestBreaksOff(q)
    <2>1. request[q].phase # "idle" /\ request[q].of \in Triplets
      BY <1>4 DEF UpdateCell, RollUp, LoadTriplet, Evaluate, RequestBreaksOff,
                  TypeOK
    <2>2. \/ request' = Goes(q, "roll") \/ request' = Goes(q, "same")
          \/ request' = Goes(q, "load")
          \/ request' = GoesOn(q, "verdict", request[q].of)
          \/ request' = [request EXCEPT ![q] = IdleRequest]
      BY <1>4 DEF UpdateCell, RollUp, LoadTriplet, Evaluate, RequestBreaksOff,
                  Answered
    <2>3. CASE \/ request' = Goes(q, "roll") \/ request' = Goes(q, "same")
               \/ request' = Goes(q, "load")
      BY <2>1, <2>3, GoesType DEF Phases
    <2>4. CASE request' = GoesOn(q, "verdict", request[q].of)
      BY <2>1, <2>4, GoesOnType DEF Phases
    <2>5. CASE request' = [request EXCEPT ![q] = IdleRequest]
      BY <2>5, IdleTypes DEF TypeOK
    <2>6. QED
      BY <2>2, <2>3, <2>4, <2>5
  <1>5. QED
    BY <1>1, <1>2, <1>3, <1>4 DEF Recording

\* Only a step of Recording changes the requests.
LEMMA RequestsStay ==
  ASSUME [Next]_vars
  PROVE  (\E q \in Requests : Recording(q)) \/ UNCHANGED request
  BY DEF Next, vars, Tick, Dispatching, DispatchLoad, DispatchEnqueue,
         DispatchMark, DispatchMarkParent, DispatchBreaksOff, Retiring,
         RetireSelect, RetireCell, RetireParent, RetireBreaksOff,
         RunnerEmits, RunnerEnds

LEMMA OfItsCellStep ==
  ASSUME TypeOK, OfItsCell, [Next]_vars
  PROVE  OfItsCell'
  <1>1. CASE UNCHANGED request
    BY <1>1 DEF OfItsCell
  <1>2. ASSUME NEW q \in Requests, Recording(q)
        PROVE  OfItsCell'
    BY <1>2, RecordingMoves DEF OfItsCell
  <1>3. QED
    BY <1>1, <1>2, RequestsStay

\* No beat, no request is of the future.
LEMMA StampStep ==
  ASSUME TypeOK, StampInv, [Next]_vars
  PROVE  /\ \A b \in beats' : b.ts <= clock'
         /\ \A r \in Requests : request'[r].beat.ts <= clock'
  <1>1. clock \in Nat /\ clock' \in Nat /\ clock <= clock'
    BY ClockStep
  <1>2. \A b \in beats' : b \in beats \/ b.ts = clock
    <2>1. ASSUME NEW c \in Cells, RunnerEmits(c) \/ RunnerEnds(c)
          PROVE  \A b \in beats' : b \in beats \/ b.ts = clock
      BY <2>1 DEF RunnerEmits, RunnerEnds
    <2>2. CASE UNCHANGED beats
      BY <2>2
    <2>3. QED
      BY <2>1, <2>2
         DEF Next, vars, Tick, Dispatching, DispatchLoad, DispatchEnqueue,
             DispatchMark, DispatchMarkParent, DispatchBreaksOff, Retiring,
             RetireSelect, RetireCell, RetireParent, RetireBreaksOff,
             Recording, ReceiveBeat, ReceiveResult, UpdateCell, RollUp,
             LoadTriplet, Evaluate, RequestBreaksOff, EvaluateUnit
  <1>3. \A b \in beats : b.ts \in Nat /\ b.ts <= clock
    BY DEF TypeOK, Beats, Stamps, StampInv
  <1>4. ASSUME NEW r \in Requests
        PROVE  \/ request'[r].beat = request[r].beat
               \/ request'[r].beat.ts = 0
               \/ request'[r].beat \in beats
               \/ request'[r].beat.ts = clock
    <2>1. ASSUME NEW q \in Requests, Recording(q)
          PROVE  \/ request'[r].beat = request[r].beat
                 \/ request'[r].beat.ts = 0
                 \/ request'[r].beat \in beats
                 \/ request'[r].beat.ts = clock
      BY <2>1, RecordingMoves, IdleTypes
    <2>2. CASE UNCHANGED request
      BY <2>2
    <2>3. QED
      BY <2>1, <2>2, RequestsStay
  <1>5. \A r \in Requests : request[r].beat.ts \in Nat /\ request[r].beat.ts <= clock
    BY DEF TypeOK, RequestState, Stamps, StampInv
  <1>6. QED
    BY <1>1, <1>2, <1>3, <1>4, <1>5

\* The scores of a cell and its updated_at.
LEMMA ScoreStep ==
  ASSUME TypeOK, StampInv, [Next]_vars, NEW c \in Cells
  PROVE  /\ cell'[c].score >= cell[c].score
         /\ cell'[c].score <= clock'
         /\ cell'[c].status # "retired" => cell'[c].score <= cell'[c].updatedAt
  <1>1. clock \in Nat /\ clock' \in Nat /\ clock <= clock'
    BY ClockStep
  <1>2. /\ cell[c].score \in Nat /\ cell[c].updatedAt \in Nat
        /\ cell[c].score <= clock
        /\ cell[c].status # "retired" => cell[c].score <= cell[c].updatedAt
    BY DEF TypeOK, CellRow, Stamps, StampInv
  <1>3. CASE cell'[c] = cell[c]
    BY <1>1, <1>2, <1>3
  <1>4. CASE Marked(c)
    BY <1>1, <1>2, <1>4 DEF Marked
  <1>5. CASE Retired(c)
    BY <1>1, <1>2, <1>5 DEF Retired
  <1>6. CASE Resulted(c)
    <2>1. PICK r \in Requests :
            /\ Accepts(cell[c], request[r].beat)
            /\ cell'[c] = Updated(cell[c], request[r].beat)
      BY <1>6 DEF Resulted
    <2>2. request[r].beat.ts \in Nat /\ request[r].beat.ts <= clock
      BY DEF TypeOK, RequestState, Stamps, StampInv
    <2>3. /\ cell[c].status # "retired"
          /\ request[r].beat.ts > cell[c].updatedAt
      BY <2>1 DEF Accepts, Terminal
    <2>4. /\ cell'[c].updatedAt = request[r].beat.ts
          /\ cell'[c].score = cell[c].score \/ cell'[c].score = request[r].beat.ts
      BY <2>1 DEF Updated
    <2>5. QED
      BY <1>1, <1>2, <2>2, <2>3, <2>4
  <1>7. QED
    BY <1>3, <1>4, <1>5, <1>6, CellStep

LEMMA RecordedStep ==
  ASSUME TypeOK, CompletedIsRecorded, [Next]_vars
  PROVE  recorded \subseteq recorded' /\ CompletedIsRecorded'
  <1>1. recorded \subseteq recorded'
    BY DEF Next, vars, Tick, Dispatching, DispatchLoad, DispatchEnqueue,
           DispatchMark, DispatchMarkParent, DispatchBreaksOff, Retiring,
           RetireSelect, RetireCell, RetireParent, RetireBreaksOff,
           RunnerEmits, RunnerEnds, Recording, ReceiveBeat, ReceiveResult,
           UpdateCell, RollUp, LoadTriplet, Evaluate, RequestBreaksOff,
           EvaluateUnit, verdicts
  <1>2. ASSUME NEW c \in Cells, cell'[c].status = "completed"
        PROVE  c \in recorded'
    <2>1. CASE cell'[c] = cell[c]
      BY <1>1, <1>2, <2>1 DEF CompletedIsRecorded
    <2>2. CASE Resulted(c)
      BY <1>2, <2>2 DEF Resulted, Updated
    <2>3. QED
      BY <1>2, <2>1, <2>2, CellStep DEF Marked, Retired
  <1>3. QED
    BY <1>1, <1>2 DEF CompletedIsRecorded

LEMMA InitInv == Init => IInv
  <1> SUFFICES ASSUME Init PROVE IInv
    OBVIOUS
  <1>1. StampInv
    BY IdleTypes DEF Init, StampInv
  <1>2. CompletedIsRecorded
    BY DEF Init, CompletedIsRecorded
  <1>3. OfItsCell
    BY IdleTypes DEF Init, OfItsCell
  <1>4. QED
    BY <1>1, <1>2, <1>3, InitType DEF IInv

LEMMA NextInv == IInv /\ [Next]_vars => IInv'
  <1> SUFFICES ASSUME IInv, [Next]_vars PROVE IInv'
    OBVIOUS
  <1>1. TypeOK'
    BY NextType DEF IInv
  <1>2. StampInv'
    BY StampStep, ScoreStep DEF IInv, StampInv
  <1>3. CompletedIsRecorded'
    BY RecordedStep DEF IInv
  <1>4. OfItsCell'
    BY OfItsCellStep DEF IInv
  <1>5. QED
    BY <1>1, <1>2, <1>3, <1>4 DEF IInv

LEMMA Invariance == Spec => []IInv
  BY InitInv, NextInv, PTL DEF Spec

-----------------------------------------------------------------------------
(* The campaign's status.                                                  *)

LEMMA CampaignStep ==
  ASSUME TypeOK, CompletedIsRecorded, CompletionIsEarned, [Next]_vars
  PROVE  CompletionIsEarned'
  <1>1. recorded \subseteq recorded' /\ recorded' \subseteq Cells
    BY RecordedStep, NextType DEF TypeOK
  <1>2. CASE campaign' = campaign
    BY <1>1, <1>2 DEF CompletionIsEarned
  <1>3. CASE campaign' = RolledUp
    <2>1. ASSUME campaign' = "completed"
          PROVE  campaign = "completed" \/ \A c \in Cells : c \in recorded
      BY <1>3, <2>1 DEF RolledUp, CompletedIsRecorded
    <2>2. QED
      BY <1>1, <2>1 DEF CompletionIsEarned
  <1>4. CASE campaign' \in {"queued", "retired"}
    BY <1>4 DEF CompletionIsEarned
  <1>5. QED
    BY <1>2, <1>3, <1>4
       DEF Next, vars, Tick, Dispatching, DispatchLoad, DispatchEnqueue,
           DispatchMark, DispatchMarkParent, DispatchBreaksOff, Retiring,
           RetireSelect, RetireCell, RetireParent, RetireBreaksOff,
           RunnerEmits, RunnerEnds, Recording, ReceiveBeat, ReceiveResult,
           UpdateCell, RollUp, LoadTriplet, Evaluate, RequestBreaksOff,
           EvaluateUnit, verdicts

\* A campaign is not rolled up to "completed" before each of its cells had a
\* completed result.
THEOREM EarnedCompletion == Spec => []CompletionIsEarned
  <1>1. Init => CompletionIsEarned
    BY DEF Init, CompletionIsEarned
  <1>2. IInv /\ CompletionIsEarned /\ [Next]_vars => CompletionIsEarned'
    BY CampaignStep DEF IInv
  <1>3. QED
    BY <1>1, <1>2, Invariance, PTL DEF Spec

-----------------------------------------------------------------------------
(* The verdict of a triplet.                                               *)

\* A verdict is stored: it is over the scores of now, or it was overtaken.
LEMMA StoredVerdict ==
  ASSUME TypeOK, NEW r \in Requests, Evaluate(r),
         NEW t \in Triplets, t = request[r].of
  PROVE  /\ Judged(t)' \/ t \in overtaken'
         /\ \A s \in Triplets \ {t} :
              /\ Judged(s) => Judged(s)'
              /\ s \in interrupted => s \in interrupted'
              /\ s \in overtaken => s \in overtaken'
  <1> DEFINE current == \A c \in CellsOf(t) : request[r].seen[c] = cell[c].score
  <1>1. /\ evaluated' = evaluated \cup {t} /\ cell' = cell
        /\ judgedOn' = [c \in Cells |->
             IF TripletOf[c] = t THEN request[r].seen[c] ELSE judgedOn[c]]
        /\ \/ current /\ overtaken' = overtaken \ {t}
                      /\ interrupted' = interrupted \ {t}
           \/ overtaken' = overtaken \cup {t} /\ interrupted' = interrupted
    BY DEF Evaluate
  <1>2. ASSUME current PROVE Judged(t)'
    BY <1>1, <1>2 DEF Judged, CellsOf
  <1>3. \A s \in Triplets \ {t} : Judged(s) => Judged(s)'
    BY <1>1 DEF Judged, CellsOf
  <1>4. Judged(t)' \/ t \in overtaken'
    BY <1>1, <1>2
  <1>5. QED
    BY <1>1, <1>3, <1>4

\* A verdict stays, while the scores do, unless another is stored.
LEMMA JudgedStep ==
  ASSUME TypeOK, [Next]_vars, NEW t \in Triplets,
         \A c \in CellsOf(t) : cell'[c] = cell[c]
  PROVE  /\ Judged(t) => Judged(t)' \/ t \in overtaken'
         /\ t \in interrupted
              => Judged(t)' \/ t \in interrupted' \/ t \in overtaken'
         /\ t \in overtaken => Judged(t)' \/ t \in overtaken'
  <1>1. ASSUME NEW r \in Requests, Evaluate(r)
        PROVE  /\ Judged(t) => Judged(t)' \/ t \in overtaken'
               /\ t \in interrupted
                    => Judged(t)' \/ t \in interrupted' \/ t \in overtaken'
               /\ t \in overtaken => Judged(t)' \/ t \in overtaken'
    <2>1. PICK s \in Triplets : s = request[r].of
      BY <1>1 DEF Evaluate, TypeOK
    <2>2. CASE t = s
      BY <1>1, <2>1, <2>2, StoredVerdict
    <2>3. CASE t # s
      BY <1>1, <2>1, <2>3, StoredVerdict
    <2>4. QED
      BY <2>2, <2>3
  <1>2. CASE /\ UNCHANGED <<evaluated, judgedOn, overtaken>>
             /\ interrupted \subseteq interrupted'
    <2>1. Judged(t) => Judged(t)'
      BY <1>2 DEF Judged, CellsOf
    <2>2. QED
      BY <1>2, <2>1
  <1>3. QED
    BY <1>1, <1>2
       DEF Next, vars, Tick, Dispatching, DispatchLoad, DispatchEnqueue,
           DispatchMark, DispatchMarkParent, DispatchBreaksOff, Retiring,
           RetireSelect, RetireCell, RetireParent, RetireBreaksOff,
           RunnerEmits, RunnerEnds, Recording, ReceiveBeat, ReceiveResult,
           EvaluateUnit, UpdateCell, RollUp, LoadTriplet, RequestBreaksOff,
           verdicts

\* A request that is between its UPDATE and its verdict goes on, unless it
\* stores the verdict, breaks off, or finds the triplet incomplete.
LEMMA BeingEvaluatedStep ==
  ASSUME TypeOK, [Next]_vars, NEW t \in Triplets, BeingEvaluated(t)
  PROVE  \/ BeingEvaluated(t)' \/ Judged(t)' \/ t \in overtaken'
         \/ t \in interrupted'
         \/ UNCHANGED cell /\ ~Completed(t)
  <1> DEFINE Goal == \/ BeingEvaluated(t)' \/ Judged(t)'
                     \/ t \in overtaken' \/ t \in interrupted'
                     \/ UNCHANGED cell /\ ~Completed(t)
  <1>1. PICK r \in Requests :
          request[r].phase \in {"roll", "load", "verdict"} /\ request[r].of = t
    BY DEF BeingEvaluated
  <1>2. CASE request'[r] = request[r]
    BY <1>1, <1>2 DEF BeingEvaluated
  <1>3. ASSUME NEW q \in Requests, Recording(q)
        PROVE  Goal
    <2>1. CASE q # r
      BY <1>2, <1>3, <2>1, RecordingMoves
    <2>2. CASE q = r
      <3>1. CASE RollUp(r)
        BY <1>1, <3>1, GoesType DEF RollUp, BeingEvaluated, Phases
      <3>2. CASE LoadTriplet(r)
        <4>1. CASE Completed(t)
          <5>1. request' = GoesOn(r, "verdict", t)
            BY <1>1, <3>2, <4>1 DEF LoadTriplet
          <5>2. request'[r].phase = "verdict" /\ request'[r].of = t
            BY <5>1, GoesOnType DEF Phases
          <5>3. QED
            BY <5>2 DEF BeingEvaluated
        <4>2. CASE ~Completed(t)
          BY <3>2, <4>2 DEF LoadTriplet
        <4>3. QED
          BY <4>1, <4>2
      <3>3. CASE Evaluate(r)
        BY <1>1, <3>3, StoredVerdict
      <3>4. CASE RequestBreaksOff(r)
        BY <1>1, <3>4 DEF RequestBreaksOff
      <3>5. QED
        BY <1>1, <1>3, <2>2, <3>1, <3>2, <3>3, <3>4
           DEF Recording, ReceiveBeat, ReceiveResult, EvaluateUnit, UpdateCell
    <2>3. QED
      BY <2>1, <2>2
  <1>4. CASE UNCHANGED request
    BY <1>2, <1>4
  <1>5. QED
    BY <1>3, <1>4, RequestsStay

LEMMA VerdictStep ==
  ASSUME TypeOK, OfItsCell, LastResultEvaluates, [Next]_vars
  PROVE  LastResultEvaluates'
  <1> SUFFICES ASSUME NEW t \in Triplets, CellsOf(t) # {}, Completed(t)'
               PROVE  \/ Judged(t)' \/ BeingEvaluated(t)'
                      \/ t \in interrupted' \/ t \in overtaken'
    BY DEF LastResultEvaluates, CellsOf
  <1>1. CASE \E c \in CellsOf(t) : Resulted(c)
    <2>1. PICK c \in CellsOf(t) : Resulted(c)
      BY <1>1
    <2>2. PICK r \in Requests :
            /\ request[r].phase = "cell" /\ request[r].beat.cell = c
            /\ request[r].of = TripletOf[c] /\ request' = Goes(r, "roll")
      BY <2>1 DEF Resulted, OfItsCell
    <2>3. request'[r].phase = "roll" /\ request'[r].of = TripletOf[c]
      BY <2>2, GoesType DEF Phases
    <2>4. TripletOf[c] = t
      BY <2>1 DEF CellsOf
    <2>5. QED
      BY <2>3, <2>4 DEF BeingEvaluated
  <1>2. CASE \A c \in CellsOf(t) : ~Resulted(c)
    <2>1. ASSUME NEW c \in CellsOf(t)
          PROVE  cell'[c] = cell[c]
      <3>1. c \in Cells /\ cell'[c].status = "completed"
        BY <2>1 DEF CellsOf, Completed
      <3>2. QED
        BY <1>2, <2>1, <3>1, CellStep DEF Marked, Retired
    <2>2. Completed(t)
      <3>1. \A c \in CellsOf(t) : cell'[c].status = "completed"
        BY DEF Completed, CellsOf
      <3>2. QED
        BY <2>1, <3>1 DEF Completed
    <2>3. \/ Judged(t) \/ BeingEvaluated(t)
          \/ t \in interrupted \/ t \in overtaken
      BY <2>2 DEF LastResultEvaluates
    <2>4. QED
      BY <2>1, <2>2, <2>3, BeingEvaluatedStep, JudgedStep
  <1>3. QED
    BY <1>1, <1>2

\* However the last results of a triplet are interleaved with each other and with
\* an operator's evaluations, one of the requests that record them sees it
\* completed and stores the verdict of its scores, unless it breaks off or an
\* evaluation that had loaded older scores stores its verdict last.
THEOREM Verdicts == Spec => []LastResultEvaluates
  <1>1. Init => LastResultEvaluates
    BY DEF Init, LastResultEvaluates, Completed, CellsOf
  <1>2. IInv /\ LastResultEvaluates /\ [Next]_vars => LastResultEvaluates'
    BY VerdictStep DEF IInv
  <1>3. QED
    BY <1>1, <1>2, Invariance, PTL DEF Spec

-----------------------------------------------------------------------------
(* The scoreboard.                                                         *)

\* What a reader sees is as it was.
BoardStays ==
  /\ \A c \in Cells : cell'[c].score = cell[c].score
  /\ UNCHANGED <<recorded, evaluated, judgedOn, Evaluations>>
  /\ (campaign' = "completed") = (campaign = "completed")

LEMMA StaysStutters ==
  ASSUME BoardStays
  PROVE  UNCHANGED Board!vars
  BY DEF BoardStays, Board!vars, Scores

\* What a request is evaluating, if it is.
Evaluating(r) == request[r].phase \in {"verdict", "operator"}
Evaluation(r) == [of |-> request[r].of, on |-> request[r].seen]

\* When one request goes on, at most its own evaluation begins or ends.
LEMMA EvaluationsStep ==
  ASSUME NEW r \in Requests,
         \A q \in Requests \ {r} : request'[q] = request[q]
  PROVE  /\ ~Evaluating(r)' =>
              \/ Evaluations' = Evaluations
              \/ Evaluations' = Evaluations \ {Evaluation(r)}
         /\ ~Evaluating(r) /\ ~Evaluating(r)' => Evaluations' = Evaluations
         /\ ~Evaluating(r) /\ Evaluating(r)'
              => Evaluations' = Evaluations \cup {Evaluation(r)'}
  <1> DEFINE Others == {Evaluation(q) : q \in {p \in Requests \ {r} : Evaluating(p)}}
  <1>1. Others' = Others
    BY DEF Evaluating, Evaluation
  <1>2. Evaluations = IF Evaluating(r) THEN Others \cup {Evaluation(r)} ELSE Others
    BY DEF Evaluations, Evaluating, Evaluation
  <1>3. Evaluations' = IF Evaluating(r)' THEN Others' \cup {Evaluation(r)'}
                       ELSE Others'
    BY DEF Evaluations, Evaluating, Evaluation
  <1> HIDE DEF Others
  <1>4. QED
    BY <1>1, <1>2, <1>3

\* A result is shown as a newer observation of its cell, or not at all.
LEMMA ResultIsRecord ==
  ASSUME TypeOK, StampInv, NEW r \in Requests, UpdateCell(r)
  PROVE  BoardStays \/ \E c \in Cells : Board!Record(c)
  <1> DEFINE b == request[r].beat
  <1>1. b.cell \in Cells /\ b.ts \in Nat /\ b.scored \in BOOLEAN
    BY DEF UpdateCell, TypeOK, RequestState, Stamps
  <1>2. UNCHANGED <<evaluated, judgedOn, campaign>>
    BY DEF UpdateCell, verdicts
  <1>3. Evaluations' = Evaluations
    <2>1. request' = Goes(r, "roll") \/ request' = Goes(r, "same")
      BY DEF UpdateCell
    <2>2. request[r].phase # "idle" /\ ~Evaluating(r)
      BY DEF UpdateCell, Evaluating
    <2>3. /\ request'[r].phase \in {"roll", "same"}
          /\ \A q \in Requests \ {r} : request'[q] = request[q]
      BY <2>1, <2>2, GoesType DEF Phases
    <2>4. ~Evaluating(r)'
      BY <2>3 DEF Evaluating
    <2>5. QED
      BY <2>2, <2>3, <2>4, EvaluationsStep
  <1>4. CASE ~Accepts(cell[b.cell], b)
    BY <1>2, <1>3, <1>4 DEF UpdateCell, BoardStays
  <1>5. CASE Accepts(cell[b.cell], b)
    <2>1. /\ cell' = [cell EXCEPT ![b.cell] = Updated(cell[b.cell], b)]
          /\ recorded' = recorded \/ recorded' = recorded \cup {b.cell}
      BY <1>5 DEF UpdateCell
    <2>2. CASE ~b.scored
      <3>1. Scores' = Scores
        BY <1>1, <2>1, <2>2 DEF Scores, Updated, TypeOK
      <3>2. QED
        BY <1>1, <1>2, <1>3, <2>1, <3>1 DEF Board!Record
    <2>3. CASE b.scored
      <3>1. /\ cell'[b.cell].score = b.ts
            /\ \A c \in Cells \ {b.cell} : cell'[c].score = cell[c].score
        BY <1>1, <2>1, <2>3 DEF Updated, TypeOK
      <3>2. b.ts > cell[b.cell].score
        <4>1. cell[b.cell].score \in Nat /\ cell[b.cell].updatedAt \in Nat
          BY <1>1 DEF TypeOK, CellRow, Stamps
        <4>2. cell[b.cell].score <= cell[b.cell].updatedAt
          BY <1>1, <1>5 DEF StampInv, Accepts, Terminal
        <4>3. QED
          BY <1>1, <1>5, <4>1, <4>2 DEF Accepts
      <3>3. Scores'[b.cell] > Scores[b.cell]
        BY <1>1, <3>1, <3>2 DEF Scores
      <3>4. Scores' = [Scores EXCEPT ![b.cell] = Scores'[b.cell]]
        BY <1>1, <3>1 DEF Scores
      <3>5. QED
        BY <1>1, <1>2, <1>3, <2>1, <3>3, <3>4 DEF Board!Record
    <2>4. QED
      BY <1>1, <2>2, <2>3
  <1>6. QED
    BY <1>4, <1>5

\* A request that loads the campaign begins an evaluation on the scores of now.
LEMMA LoadIsBegin ==
  ASSUME TypeOK, NEW r \in Requests, NEW t \in Triplets,
         NEW p \in {"verdict", "operator"}, ~Evaluating(r),
         request' = GoesOn(r, p, t),
         UNCHANGED <<cell, campaign, recorded, verdicts>>
  PROVE  Board!Begin(t)
  <1>1. /\ request'[r].phase = p
        /\ request'[r].of = t /\ request'[r].seen = Scores
        /\ \A q \in Requests \ {r} : request'[q] = request[q]
    BY GoesOnType DEF Phases
  <1>2. Evaluating(r)' /\ Evaluation(r)' = [of |-> t, on |-> Scores]
    BY <1>1 DEF Evaluating, Evaluation
  <1>3. Evaluations' = Evaluations \cup {[of |-> t, on |-> Scores]}
    BY <1>1, <1>2, EvaluationsStep
  <1>4. QED
    BY <1>3 DEF Board!Begin, Scores, verdicts

\* A request that ends its evaluation, with or without a verdict.
LEMMA EndIsJudgeOrGiveUp ==
  ASSUME TypeOK, NEW r \in Requests, Evaluating(r),
         Evaluate(r) \/ RequestBreaksOff(r)
  PROVE  \E e \in Evaluations : Board!Judge(e) \/ Board!GiveUp(e)
  <1> DEFINE e == Evaluation(r)
  <1>1. e \in Evaluations /\ e.of = request[r].of /\ e.on = request[r].seen
    BY DEF Evaluations, Evaluating, Evaluation
  <1>2. Board!Ends(e)
    <2>1. request' = [request EXCEPT ![r] = IdleRequest]
      BY DEF Evaluate, Answered, RequestBreaksOff
    <2>2. ~Evaluating(r)' /\ \A q \in Requests \ {r} : request'[q] = request[q]
      BY <2>1, IdleStep DEF Evaluating
    <2>3. QED
      BY <2>2, EvaluationsStep DEF Board!Ends
  <1>3. UNCHANGED <<Scores, recorded, campaign>>
    BY DEF Evaluate, RequestBreaksOff, Scores
  <1> HIDE DEF e
  <1>4. CASE Evaluate(r)
    <2>1. /\ evaluated' = evaluated \cup {e.of}
          /\ judgedOn' = [c \in Cells |->
               IF TripletOf[c] = e.of THEN e.on[c] ELSE judgedOn[c]]
      BY <1>1, <1>4 DEF Evaluate
    <2>2. Board!Judge(e)
      BY <1>2, <1>3, <2>1 DEF Board!Judge
    <2>3. QED
      BY <1>1, <2>2
  <1>5. CASE RequestBreaksOff(r)
    <2>1. Board!GiveUp(e)
      BY <1>2, <1>3, <1>5 DEF RequestBreaksOff, Board!GiveUp
    <2>2. QED
      BY <1>1, <2>1
  <1>6. QED
    BY <1>4, <1>5

LEMMA StatusIsCloseOrReopen ==
  ASSUME CompletionIsEarned',
         UNCHANGED <<cell, recorded, evaluated, judgedOn, Evaluations>>
  PROVE  BoardStays \/ Board!Close \/ Board!Reopen
  <1>1. CASE (campaign' = "completed") = (campaign = "completed")
    BY <1>1 DEF BoardStays
  <1>2. CASE campaign' = "completed" /\ campaign # "completed"
    <2>1. recorded = Cells
      BY <1>2 DEF CompletionIsEarned
    <2>2. QED
      BY <1>2, <2>1 DEF Board!Close, Scores
  <1>3. CASE campaign' # "completed" /\ campaign = "completed"
    BY <1>3 DEF Board!Reopen, Scores
  <1>4. QED
    BY <1>1, <1>2, <1>3

LEMMA RecordingIsBoardStep ==
  ASSUME IInv, CompletionIsEarned', NEW r \in Requests, Recording(r)
  PROVE  BoardStays \/ Board!Next
  <1> USE DEF IInv
  <1>1. CASE UpdateCell(r)
    BY <1>1, ResultIsRecord DEF Board!Next
  <1>2. CASE EvaluateUnit(r)
    <2>1. PICK t \in Triplets : request' = GoesOn(r, "operator", t)
      BY <1>2 DEF EvaluateUnit
    <2>2. ~Evaluating(r) /\ UNCHANGED <<cell, campaign, recorded, verdicts>>
      BY <1>2 DEF EvaluateUnit, Evaluating
    <2>3. QED
      BY <2>1, <2>2, LoadIsBegin DEF Board!Next
  <1>3. CASE LoadTriplet(r) /\ Completed(request[r].of)
    <2>1. /\ request[r].of \in Triplets /\ ~Evaluating(r)
          /\ request' = GoesOn(r, "verdict", request[r].of)
          /\ UNCHANGED <<cell, campaign, recorded, verdicts>>
      BY <1>3 DEF LoadTriplet, Evaluating, TypeOK
    <2>2. QED
      BY <2>1, LoadIsBegin DEF Board!Next
  <1>4. CASE Evaluating(r) /\ (Evaluate(r) \/ RequestBreaksOff(r))
    BY <1>4, EndIsJudgeOrGiveUp DEF Board!Next
  <1>5. CASE /\ ~Evaluating(r) /\ ~Evaluating(r)'
             /\ UNCHANGED <<cell, recorded, evaluated, judgedOn>>
    <2>1. Evaluations' = Evaluations
      BY <1>5, RecordingMoves, EvaluationsStep
    <2>2. QED
      BY <1>5, <2>1, StatusIsCloseOrReopen DEF Board!Next
  <1>6. CASE ReceiveBeat(r) \/ ReceiveResult(r)
    <2>1. ~Evaluating(r) /\ UNCHANGED <<cell, recorded, evaluated, judgedOn>>
      BY <1>6 DEF ReceiveBeat, ReceiveResult, Evaluating, verdicts
    <2>2. request'[r].phase = "cell"
      <3>1. CASE ReceiveBeat(r)
        BY <3>1, ReceivesType DEF ReceiveBeat, TypeOK
      <3>2. CASE ReceiveResult(r)
        <4>1. PICK c \in Cells, m \in ManualResults :
                Receives(r, [cell |-> c, status |-> m.status,
                             scored |-> m.scored, ts |-> clock])
          BY <3>2 DEF ReceiveResult
        <4>2. [cell |-> c, status |-> m.status, scored |-> m.scored,
               ts |-> clock] \in Beats
          BY CampaignsAssumption DEF TypeOK, Beats, Results
        <4>3. QED
          BY <4>1, <4>2, ReceivesType
      <3>3. QED
        BY <1>6, <3>1, <3>2
    <2>3. QED
      BY <1>5, <2>1, <2>2 DEF Evaluating
  <1>7. CASE RollUp(r)
    <2>1. /\ request[r].phase # "idle" /\ ~Evaluating(r)
          /\ UNCHANGED <<cell, recorded, evaluated, judgedOn>>
          /\ \/ request' = Goes(r, "load")
             \/ request' = [request EXCEPT ![r] = IdleRequest]
      BY <1>7 DEF RollUp, Evaluating, Answered, verdicts
    <2>2. request'[r].phase \in {"load", "idle"}
      BY <2>1, GoesType, IdleStep DEF Phases
    <2>3. QED
      BY <1>5, <2>1, <2>2 DEF Evaluating
  <1>8. CASE \/ LoadTriplet(r) /\ ~Completed(request[r].of)
             \/ RequestBreaksOff(r) /\ ~Evaluating(r)
    <2>1. /\ ~Evaluating(r)
          /\ UNCHANGED <<cell, recorded, evaluated, judgedOn>>
          /\ request' = [request EXCEPT ![r] = IdleRequest]
      BY <1>8 DEF LoadTriplet, RequestBreaksOff, Evaluating, Answered, verdicts
    <2>2. request'[r].phase = "idle"
      BY <2>1, IdleStep
    <2>3. QED
      BY <1>5, <2>1, <2>2 DEF Evaluating
  <1>9. QED
    BY <1>1, <1>2, <1>3, <1>4, <1>6, <1>7, <1>8
       DEF Recording, Evaluate, Evaluating

LEMMA StepIsBoardStep ==
  ASSUME IInv, CompletionIsEarned', [Next]_vars
  PROVE  [Board!Next]_(Board!vars)
  <1> USE DEF IInv
  <1> DEFINE Goal == BoardStays \/ Board!Next
  <1>1. ASSUME NEW r \in Requests, Recording(r)
        PROVE  Goal
    BY <1>1, RecordingIsBoardStep
  <1>2. ASSUME UNCHANGED <<cell, recorded, verdicts, request>>
        PROVE  Goal
    <2>1. UNCHANGED <<cell, recorded, evaluated, judgedOn, Evaluations>>
      BY <1>2 DEF verdicts, Evaluations
    <2>2. BoardStays \/ Board!Close \/ Board!Reopen
      BY <2>1, StatusIsCloseOrReopen
    <2>3. QED
      BY <2>2 DEF Board!Next
  <1>3. ASSUME UNCHANGED <<recorded, verdicts, request, campaign>>,
               \A c \in Cells : cell'[c].score = cell[c].score
        PROVE  Goal
    BY <1>3 DEF BoardStays, verdicts, Evaluations
  <1>4. ASSUME NEW d \in Dispatchers, DispatchMark(d)
        PROVE  Goal
    BY <1>3, <1>4 DEF DispatchMark, TypeOK
  <1>5. ASSUME NEW c \in Cells, RetireCell(c)
        PROVE  Goal
    BY <1>3, <1>5 DEF RetireCell, TypeOK
  <1>6. \/ UNCHANGED <<cell, recorded, verdicts, request>>
        \/ \E r \in Requests : Recording(r)
        \/ \E d \in Dispatchers : DispatchMark(d)
        \/ \E c \in Cells : RetireCell(c)
    BY DEF Next, vars, Tick, Dispatching, DispatchLoad, DispatchEnqueue,
           DispatchMarkParent, DispatchBreaksOff, Retiring, RetireSelect,
           RetireParent, RetireBreaksOff, RunnerEmits, RunnerEnds
  <1>7. Goal
    BY <1>1, <1>2, <1>4, <1>5, <1>6
  <1>8. QED
    BY <1>7, StaysStutters

\* Whatever the dispatches, retirements, beats and operators of a campaign do
\* between the statements of each other (mlipCampaign.ts, mlipWorkflow.ts,
\* feed/beats.ts), its rows show a scoreboard: scores only of newer
\* observations, verdicts only over scores that were shown together, and the
\* campaign completed only after each of its cells.
THEOREM IsAScoreboard == Spec => ImplementsScoreboard
  <1>1. Init => Board!Init
    BY IdleTypes DEF Init, NoScores, Board!Init, Scores, Evaluations
  <1>2. IInv /\ CompletionIsEarned' /\ [Next]_vars
          => [Board!Next]_(Board!vars)
    BY StepIsBoardStep
  <1>3. QED
    BY <1>1, <1>2, Invariance, EarnedCompletion, PTL
       DEF Spec, ImplementsScoreboard, Board!Spec
=============================================================================
