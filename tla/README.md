# Formal model of the lupine-rhizo control plane

The repository is a laboratory around interatomic potentials.  Numerical engines
(Rust, Python) run as batch jobs; a Cloudflare Worker (`glim-think`) decides what
runs, hands it out, and records what came back.  The batch programs compute; the
hand-outs and the records are where several processes meet, where messages are
repeated or lost, and where something must not happen twice.  This directory
models those meeting points in TLA+, checks them with TLC and proves the safety
properties of the finished modules with TLAPS.

## 1. Inventory

| Component | State | Operations | Talks to | What is hard | What makes it correct |
| --- | --- | --- | --- | --- | --- |
| `gcp/tasks-consumer` | daily GPU-hour ledger per schedule (a GCS object with a generation) | `POST /run`: validate, load policy, reserve, start job | Cloud Tasks (in), GCS, Cloud Run `jobs.run` (out) | at-least-once delivery, compare-and-set loop with two-request reads, lost answers, crashes, midnight, policy changes | no job without its own reservation; a reservation never recorded twice; cap respected; manual tasks not swallowed |
| herdr job table (`glim-think/src/bridge/jobs.ts`) | D1 table `herdr_bridge_jobs` | enqueue, claim by long poll, post result, read, expire | bridge daemons, operators, research agents | each request is several statements; D1 errors for applied statements; claims that run out | one claim per machine; no replay; fenced and final results; "ok" means recorded |
| herdr daemon (`tools/herdr-bridge`) | none on disk; one job in memory | poll, run a job in herdr, report; shutdown | job table, herdr socket, agents | crash with an agent running, lost claims, report retries, two daemons on one machine, screen-derived status | a prompt is given at most once; "done" needs an answer; no outcome lost unnoticed; the queue does not stall |
| research queue (`research/queue.ts`) | D1 `research_jobs`, a Cloudflare queue | enqueue with dedup key, consume, retry, dead letter | agents, workflows | check-then-insert, send failure after insert, redelivery of finished work | a dedup key is worked on once at a time and never blocked for ever |
| MLIP campaigns (`research/mlipCampaign.ts`, `mlipWorkflow*.ts`) | D1 campaigns, cells, triplet verdicts | create, dispatch cells, mark, record results, retire stale cells, evaluate triplets | Cloud Tasks, beats feed, cell runner, operators | every operation is several statements; results race dispatch, retirement and each other; retries after half a projection | a cell's scores never go back; a completed triplet has the verdict over its scores; "completed" is earned by every cell |
| beats feed (`feed/beats.ts`) | D1 `lab_beats` | ingest: insert, then project | producers, campaigns, baseline workflow | insert and projection are separate; beats are retried | an acknowledged beat has had its effect |
| proof jobs (`workspace/proofJobs.ts`) | D1 `proof_jobs` | create, submit, poll, recover, cancel | a remote proof provider | a lease that runs out during a slow POST, lost answers | a proof is submitted at most once; uncertainty is recorded, not retried |
| research run imports (`workspace/researchRuns.ts`) | D1 rows with a payload digest | import | operators, pipelines | concurrent imports | runs only move forward |
| public research activity (`workspace/researchActivity.ts`, migrations 0021 and 0023) | append-only D1 table with an archive sequence | import, offline import, list, archive pages | reviewers, readers | two statements of checks before an INSERT; rival first records and successors; lost answers; imports while a client pages | the records of an activity are one line of revisions; answers are true; pages tile a snapshot |
| agenda (`agenda.ts`) | D1 agenda tasks | propose, claim, complete | agents, scheduler | select-then-update | a task has one owner |
| telemetry of the daemon (`tools/herdr-bridge/src/telemetry.ts`) | a bounded buffer of beats, a subscription | subscribe, queue, send, drain | herdr, dispatcher, beats feed | overflow during a post, uncertain posts, lost wake-ups, shutdown at any await | order kept; losses are counted; the sender never sleeps over a beat; shutdown ends |
| `lupine-ops` supervisor and ledger | processes, JSONL ledger | launch, watch, append | local engines | a crash leaves an attempt without an end | the ledger is only appended to |
| evidence index (`gcp/evidence-index`) | Firestore documents | upsert, read | pipelines | the last writer wins | nothing beyond the store |
| distill runtime (`python/lupine_distill_runtime`) | a session | propose, gate, record | engines | long sequences of legal calls | gates hold for the session |
| the rest: engines, cell runner, agents, console, knowledge, graph, literature, lean-spec, scripts, data | - | computation, prompting, rendering | - | numerical | not a protocol |

`PROJECT.json` lists the same components with their status, and every hazard at
the line where it bites.

## 2. Modules

| Module | Models | Role |
| --- | --- | --- |
| `ScheduleBudget` | what `BudgetLedger::reserve` and its caller promise | abstract specification |
| `TasksConsumer` | `main.rs`, `budget.rs` of the tasks consumer | detailed specification, implements `ScheduleBudget` |
| `TasksConsumerProofs` | - | theorems about `TasksConsumer` |
| `JobBoard` | what the herdr bridge promises about jobs: one hand-out, one end, true answers | abstract specification |
| `BridgeJobs` | `bridge/jobs.ts`: the table and its routes, for arbitrary clients | detailed specification, implements `JobBoard`; abstract specification for `HerdrBridge` |
| `BridgeJobsProofs` | - | theorems about `BridgeJobs` |
| `HerdrBridge` | `dispatch.ts`, `worker.ts`, `main.ts` of the daemon, composed with `BridgeJobs` | composition, implements `BridgeJobs` |
| `HerdrBridgeProofs` | - | theorems about `HerdrBridge`, with those of `BridgeJobsProofs` as an instance |
| `ProofAgenda` | what the proof jobs promise an agenda: one open job, one inference per job, one close | abstract specification |
| `ProofJobs` | `workspace/proofJobs.ts`, `proofProvider.ts`, migration 0022 | detailed specification, implements `ProofAgenda` |
| `ProofJobsProofs` | - | theorems about `ProofJobs` |
| `ResearchQueue` | `research/queue.ts`: `enqueueTask`, `consumeBatch` | component |
| `ResearchQueueProofs` | - | theorems about `ResearchQueue` |
| `Scoreboard` | what a campaign shows: scores of newer observations, verdicts over scores shown together, completion after a completed result of each cell | abstract specification |
| `Campaigns` | `mlipCampaign.ts`, and what `mlipWorkflow.ts`, `mlipWorkflowOps.ts`, `feed/beats.ts` and `mlip_cell_runner.py` do to a campaign | composition, implements `Scoreboard` |
| `CampaignsProofs` | - | theorems about `Campaigns` |
| `RevisionLog` | what the public activity promises: one log of revisions, true answers, readers with growing prefixes | abstract specification |
| `ResearchActivity` | `workspace/researchActivity.ts`, migrations 0021 and 0023 | detailed specification, implements `RevisionLog` |
| `ResearchActivityProofs` | - | theorems about `ResearchActivity` |
| `HerdrTelemetry` | `telemetry.ts` of the daemon, with the worker's store of beats | component |
| `HerdrTelemetryProofs` | - | theorems about `HerdrTelemetry` |
| `MC*` | - | constants for TLC |

Operators whose comment begins with "Deviation" are not part of any
specification.  Each is a definition changed the way a plausible bug would change
it; put in place of the definition after it, it makes TLC report the property
that `PROJECT.json` pairs it with.

### TasksConsumer

An element of `Deliveries` is one HTTP request; `pc` names the await its handler
has reached, so other requests, the clock, the operator and Cloud Tasks act
between any two awaits.

| Code | Actions |
| --- | --- |
| header and payload checks, catalog target, OIDC, manual without note (400/401) | `Reject` |
| catalog or policy not available | `CatalogUnavailable`, `PolicyUnavailable` |
| manual, legacy and control-plane tasks | `AdmitUngoverned` |
| `load_policy`, `validate`, the retry-count test | `LoadPolicy` |
| token and UTC date | `BeginReserve` |
| the two GETs of `read`, then duplicate and cap tests | `ReadMetadata`, `ReadMedia` with `Decide` |
| the upload with `ifGenerationMatch` | `WriteAccepted`, `WriteRefused`, `WriteUnanswered`, `OrphanApplied` |
| any other error of `reserve` | `ReserveFails` |
| `jobs.run` | `RunAccepted`, `RunFails` |
| Cloud Tasks, Cloud Run, the operator (external) | `Deliver`, `Deadline`, `Crash`, `Publish`, `NewDay` |

A 2xx answer deletes the task, any other counts a failed attempt, and nothing
happens to the task when Cloud Tasks no longer waits (`heard`).  GPU-hours are
natural numbers; the epsilon of the f64 comparison is not modelled.  All of
`SchedulePolicy::validate` that does not read the budget is the flag `active`.

### BridgeJobs

An element of `Calls` is one HTTP request inside the Worker.  Each D1 statement
is one action: `ServeExpire`, then `ServeClaim`/`ServeNothing` for a poll, or
`ServeLoad` and `ServeClose` for a result.  Any of them may be answered with an
error, applied or not.  The clients are unconstrained: any machine may poll, and
any body with the current or a wrong token may be posted at any time.  Time is
the set `overdue`.  The claim token, a fresh UUID, is represented by the value of
`attempts` that the claim produced; digests are compared by comparing bodies.

### HerdrBridge

A daemon is in one `mode` of `Dispatcher.run`: `ready`, `polling`, `claimed`
(runJob entered), `started` (agent idle), `prompted`, `reporting`, or `down`.
`waiting` holds the request it waits for; a lost request stays in the table's
`call` and is served to the end although nobody listens.  Crashes, shutdowns and
lost answers are counted in `faults`.  herdr is external: an agent may answer,
ask, or look settled without having answered; an error of `agent.prompt` does not
say whether the prompt went in.

### ProofJobs

An element of `Visits` is one run of `advanceProofJob`; several may overlap, as
ticks of the cron do.  `at` names the statement or provider request it makes
next, so anything else happens between two of them.  The poll token, a fresh
UUID, is represented by the visit; a visit can take the lease of a job again only
after its old lease has lapsed, which replaces the old token.  What a visit has
read of the row is in its phase (`FirstPhase`), and what it has read of the batch
in `seen`.  A batch is named by the job whose POST created it (its `custom_id`).

| Code | Actions |
| --- | --- |
| `enqueueProof`, one INSERT behind the partial unique index | `Enqueue` |
| `requestProofCancellation`: read, then UPDATE | `LoadToCancel`, `Cancel` |
| `recoverProofJob`: read, two GETs, UPDATE | `LoadToRecover`, `Recover`, `Abandon` |
| the leasing UPDATE of `advanceProofJob` | `Lease` |
| reservation, budget test, POST and its three ends | `Reserve`, `BudgetReduced`, `Post`, `PostAnswered`, `PostLost`, `Record`, `Refused`, `MarkUnknown` |
| cancellation, poll and collection | `ReserveCancel`, `SendCancel`, `Read`, `Observe`, `Close` |
| the `finally` block | `Release` |
| errors of statements and GETs, the end of the Worker | `StatementFails`, `ReadFails`, `VisitEnds` |
| time and the provider (external) | `Lapse`, `Provide` |

`LIMIT 5` and the order of a tick, `failure_code`, timestamps and the parent of a
follow-up job (whose index test the INSERT repeats) are left out; `expired` and
`invalid_result` are kept like `failed`.  A batch that the provider cancelled gives
its job the status `cancelled`, the same as a job that was cancelled before it was
posted; `ProofAgenda` tells the two apart by what the job has bought.

### ResearchQueue

An element of `Jobs` is one call of `enqueueTask` with the job id it draws; the
calls of one key race between the SELECT, the INSERT and the send.  A consumer is
one invocation of the queue handler with one message (`max_batch_size = 1`).
Cloudflare Queues is external: it delivers what is not acknowledged, also under a
consumer that still works (`Lapse`), counts the attempts that were not
acknowledged, and moves the message to the dead letter queue after the last.  The
eighteen task kinds of `runTaskInner` are one step with a result.  Of a row its
outcome and whether `started_at` is set are kept; `attempts` is written but never
read.

### Campaigns

One campaign.  Each SQL statement is a step, and an invocation may break off
after any of them.  `Feeds` and `Routes` are invocations that project a beat or
record an operator's result, `Dispatchers` invocations of `dispatchCampaignCells`;
there is one retirement at a time.  The clock counts ticks coarser than
statements, so that two results may have the same stamp.  Of a cell's scores only
the stamp of the result they came from is kept, of a verdict the stamps of the
scores it was computed from (`judgedOn`).

| Code | Actions |
| --- | --- |
| `createMlipCampaign` | `Init` |
| `enqueueCampaign`, `enqueueUnit`, `dispatchCampaignCells` | `DispatchLoad`, `DispatchEnqueue`, `DispatchBreaksOff` |
| `markMlipCampaignCellEnqueued`: two UPDATEs | `DispatchMark`, `DispatchMarkParent` |
| `retireStaleMlipCampaignCells`: SELECT of the oldest, one UPDATE per cell, one of the campaign | `RetireSelect`, `RetireCell`, `RetireParent`, `RetireBreaksOff` |
| the cell runner: a beat per state, "failed" also after an unanswered "completed" | `RunnerEmits`, `RunnerEnds` |
| `ingestBeat`, `recordUnitResult` | `ReceiveBeat`, `ReceiveResult` |
| `recordMlipCampaignResult`: UPDATE, roll-up | `UpdateCell`, `RollUp` |
| `evaluateCompletedTripletForCell`, `evaluateCampaignTriplet` | `LoadTriplet`, `Evaluate`, `EvaluateUnit` |
| an error of any statement, the end of the Worker | `RequestBreaksOff` |
| time (external) | `Tick` |

The INSERT of the beat itself has no effect on the projection (a repeated beat is
projected like a new one) and is left to `HerdrTelemetry`.  An evaluation
is two steps: it loads the scores (`LoadTriplet` after a result, `EvaluateUnit` for
an operator), and after several awaits `Evaluate` replaces the verdict there is by
one over what it has loaded.  An operator's is not asked whether the cells are
completed.  `recorded`, `interrupted` and `overtaken` are history variables: no
guard reads them.

### ResearchActivity

`Importers` are import requests, `Readers` clients of the archive.  `Submit` is
the SELECT by id, `ReadLatest` the SELECT of the latest record together with
`assertSuccessor`, `Insert` the INSERT with the trigger
`public_activity_validate_insert`; `Fails` is an error of any of them, also of an
INSERT that was applied.  The trigger runs before the unique indexes act, so a
request that loses a race is aborted by the trigger and answered 503
("unavailable"), not 409; only the very same record, saved meanwhile, reaches the
conflict clause.  `InsertOffline` is a statement of an operator under the same
trigger.  `OpenArchive` and `ReadPage` are the archive: `archive` is kept in the
order of the sequence table.  A record is its id, activity, kind, times, state,
predecessor and whether it carries a correction; its texts are left out.

### HerdrTelemetry

The daemon has one thread, so a step is what lies between two awaits: the events
of herdr (`StatusChanges`, `PaneCreated`, `PaneClosed`), the dispatcher's
`Forget`, `subscribeLoop` (`ListPanes`, `Subscribe`, `SubscriptionFails`,
`Rebuild`, `SubscriberCloses`), `sendLoop` (`SenderWakes`, `PostSucceeds`,
`PostRefused`, `PostFails`, `BackoffEnds`, `DrainSucceeds`, `DrainFails`) and the
signal (`Abort`).  A beat is its sequence number.  A post without an answer may
have been stored; one that the worker stores after the timeout is taken to be
stored before it, which no property tells apart.  An event reaches the loop at
once.

## 3. What is checked

| Run | Question | Bounds |
| --- | --- | --- |
| `budget_race` | Do races, redelivery, crashes and midnight ever break the reservation discipline or the abstract budget? | 3 requests, 2 tasks, 2 days, 2 compare-and-set attempts |
| `budget_mixed` | Do policy changes, manual and control-plane tasks break caps or the daily bill, or lose tasks; does every request end? | 2 requests, 4 tasks, 3 policies, 2 days |
| `bridge_table` | Do the routes keep one claim per machine, no replay and fencing, and implement `JobBoard`, against arbitrary clients? | 2 requests at a time, 2 jobs, 2 machines, no body "blocked" |
| `bridge_twins` | The same end to end, with two daemons of one machine; is every step of theirs allowed by the table? | 2 daemons, 1 hermes job, 2 requests, 2 faults |
| `bridge_ends` | Is every enqueued job closed, if its machine's daemon is not stopped for good? | 1 daemon, 2 jobs (1 scientific), 1 request, 1 fault |
| `proof_jobs` | Is an inference ever bought twice, an agenda given back early, a cancellation shown that did not happen; do the jobs implement `ProofAgenda`; does every job settle? | 2 jobs of one agenda, 2 visits, 1 request of the operator, 1 fault |
| `queue_delivery` | Is an accepted task ever lost, a success undone, a duplicate answered with a job that is not there; does every message end? | 2 calls of one key, 2 consumers, 1 retry |
| `queue_repeats` | Does the consumer skip a task whose key has succeeded? | the same: **violated** |
| `campaign_cells` | Can interleaved results, evaluations, dispatches and retirements leave a completed triplet without the verdict over its scores, other than by a broken or overtaken evaluation, or complete a campaign early; do the rows implement `Scoreboard`? | 2 cells of a triplet, 1 beat and 1 request of an operator (result, evaluation or retirement) at a time, 1 dispatch, 3 stamps, 1 run, 1 operator's result |
| `campaign_retry` | Has a beat that was acknowledged been projected? | 2 runs, no operators: **violated** |
| `activity_imports` | Is an activity one line of revisions, do pages tile the snapshot, do the imports implement `RevisionLog`? | 2 imports, 1 client, pages of 2, 8 rival records of 2 activities |
| `telemetry_beats` | Are beats counted, losses reported, order kept; does the buffer drain, the subscription follow, the shutdown end? | 1 pane, 2 statuses, a buffer of 2, 4 beats |

The type invariants are not part of the runs: they are theorems (section 5).

Why the bounds suffice.  Two requests show every race between a read and a write;
the third lets one of them be refused twice (the limit of the loop, 8 in the code
and 2 here, is reached in `budget_mixed` by two others' reservations only as far
as the cap allows) and lets a redelivery run beside two originals.  Two days show
the change of ledger.  Two jobs on one machine are what
"one claim per machine" needs; a second machine is the foreigner.  Each request
slot is reused, so sequences of requests are not bounded by `Calls`.  The routes
treat a body "blocked" exactly as "failed" (`jobs.ts:274-281, 338-363`), so
`bridge_table` leaves it out (`FewOutcomes`); the proofs do not.  Two visits
are an old one and the one that took over its lease; two jobs are what an agenda
can confuse; the one fault is what makes a lease change hands or a submission
uncertain.  One retry is the last one, so both branches of a failed attempt
occur.  Two cells are the last two results of a triplet, each recorded by a
request of its own; a run and an operator's result give a cell an older, an equal
and a newer stamp, and repeated beats need no bound.  An age of no ticks makes a
cell stale one tick after it was written, so that a retirement selected at one tick
can set `updated_at` back behind a result or a marking of the next.  The eight records of
`activity_imports` contain one pair for every reason to refuse one of them: two
first records, two successors, two records with one id, a correction of a result
and a reversal of it.  A buffer of two overflows once while its head is posted and
once more during the retry.  The panes of `telemetry_beats` share the buffer, which
one pane fills, and the subscription: with one pane the run shows that an announced
pane is itself covered, not that its rebuild also brings in another one that was
never announced.  All safety properties that hold are proved for all
sizes as well (section 5).

The two violations are disagreements between the code and what it says of
itself; `PROJECT.json` quotes both sides.  (1) The research consumer marks a job
started and runs it without looking at `research_jobs`, so two calls that passed
the check of `enqueueTask` together, or a redelivery after a lost
acknowledgement, run the work again.  (2) When a projection breaks off between
the UPDATE of a cell and the verdict, the feed asks its poster to retry the beat;
the retry finds its stamp already in the row, changes nothing and is answered
"ok", and the verdict is left to an operator who evaluates the triplet.

`LastResultEvaluates` has two exceptions, and both are the code's: the one above
(`interrupted`), and a verdict over older scores that was stored last
(`overtaken`).  An evaluation loads the scores, awaits, and then runs INSERT OR
REPLACE (`mlipCampaign.ts:882`), so an operator's, begun while the triplet was
partial, may overwrite the verdict over all of it; nothing evaluates the triplet
again until its next result.  An operator's evaluation is also stored when cells
have failed or still run (`mlipCampaign.ts:1041`).  No comment promises otherwise.

Five smaller disagreements came up while modelling.  The models contain the
behaviour, but no run is about them: a scheduled task redelivered after midnight
is reserved and dispatched again in the new day's ledger
(`tasks-consumer/src/main.rs:411`: "duplicate scheduled delivery acknowledged
without dispatch"); a
result repeated while its first post is being served gets 409, not
`duplicate=true` (`glim-think/docs/herdr-bridge.md:157`), which
`RefusedIsRecordedOrOverdue` shows to be harmless; the long poll of a daemon that
has just died still claims a job, although a pending job is said to stay pending
(`herdr-bridge.md:147`); a cancellation requested while a proof is being posted is
replaced by `completion_unknown` if the answer is lost
(`glim-think/docs/native-proof-jobs.md:27`); and a pane created between
`paneList` and the subscription is in neither, and stays uncovered until the next
rebuild (comment at `telemetry.ts:122`), which is why `AnnouncedPanesAreCovered`
speaks of announced panes only.

CHECK_DEADLOCK is off in every run: the systems really stop, when all request
slots of the consumer are used up, all jobs are closed and nobody polls, every message
of the queue has ended, the bounded results of a campaign are recorded, or the
daemon has shut down.

## 4. Fairness

* `TasksConsumer`: weak fairness of a handler's next step.  The runtime polls the
  future until it completes; every await has a client timeout.  Nothing is
  assumed of Cloud Tasks, the clock, the operator or crashes.
* `HerdrBridge`: weak fairness of each daemon's loop (every wait in it has a
  deadline), of its restart after a crash (`Restart=on-failure`,
  `tools/herdr-bridge/README.md:78`), of the Worker's request, and of claims
  running out.  A daemon that was told to stop exits with code 0 and systemd leaves
  it down; nothing is assumed of who might start it again.  `EveryJobEnds` is
  therefore about the jobs of machines with a daemon that is not stopped for good
  (`Served`); the jobs of other machines stay pending.  D1 may fail again and again, but a request whose statement of one
  kind is tried for ever is served some time (strong fairness of `Healthy`, per
  kind).  Nothing is assumed of agents: a job whose agent never answers ends by
  its timeout.
* `ProofJobs`: weak fairness of a visit's next step (every request to the provider
  has a deadline of 25 s), of batches (the provider ends each within 24 h) and of
  the lease of a visit that has gone (two minutes).  The cron comes back every
  five minutes: a job whose lease is free again and again is leased (strong
  fairness of `Lease`, since the ticks of others may take the lease in between).
  Faults are bounded by `Faults`; nothing is assumed of the operator, hence an
  unconfirmed submission counts as settled.
* `ResearchQueue`: while messages are ready the queue delivers one of them, and
  while invocations work one of them makes its next step or ends (weak fairness);
  both are finite in number, so none is passed over for ever.  Any step may fail, again and
  again: the retry limit ends the message.
* `HerdrTelemetry`: weak fairness of the sender (every post ends by its timeout,
  every backoff by its timer) and of the subscriber's own steps.  herdr and the
  worker may fail again and again but not for ever: a subscription, and a post,
  that is tried for ever succeeds some time (strong fairness of `Subscribe` and
  `PostSucceeds`).  `ShutdownEnds` needs none of the two strong ones for the
  sender: the drain tries each beat once.
* `Campaigns` and `ResearchActivity` state no fairness; their properties are
  safety properties.

## 5. What is proved

With TLAPS, for every value of the constants that satisfies the ASSUMEs.  The
safety properties of the passing runs are all theorems, and so is every
refinement:

    HerdrBridge  =>  BridgeJobs  =>  JobBoard
    TasksConsumer => ScheduleBudget        ProofJobs => ProofAgenda
    Campaigns => Scoreboard                ResearchActivity => RevisionLog

The theorems about a liveness property's other half need a word.  That something
ends is a liveness property and stays with TLC, because fairness and ENABLED are
out of the prover's reach.  But most of what could be wrong with such a claim is
safety: that a measure of what is left never grows and that each step of the actor
makes it smaller.  That half is proved for every size where the code has such a
measure (`RequestsRunDown`, `VisitsEnd`, `DeliveriesRunOut`, `SenderEnds`,
`NoLostWakeUp`); what TLC adds on small instances is that a step is always
possible and that the stated fairness takes it.

`TasksConsumerProofs` (from `TaskAssumption`, `BoundAssumption`,
`PolicyAssumption`): `TypeOK`, `StartsAreReserved`, `RowsDistinct`,
`ContentionMeansProgress`, `LedgerAppendOnly`, `NoUnscheduledTaskLost`,
`DailyJobsFitTheCap`, and that `Spec` implements `ScheduleBudget!Spec`.
`StartsAreReserved` is not inductive: it needs that a
request between its read and its write holds a snapshot that is either identical
to the ledger of its generation or already outdated.  That is `LedgerInv` and
`RequestInv`: documents only grow, generations count their rows, and a snapshot
taken at the current generation equals the document, even though generation and
media are read by different requests.  Every action either leaves the ledgers
alone or appends the row of the writing request (`WriteEffect`), from which all
theorems about them follow; the refinement maps that append to `Admit` and a
started job to `Start`.  `NoUnscheduledTaskLost` follows from what one step may do
to the queue, the failures and the started requests together (`TaskStep`).
`DailyJobsFitTheCap` is about money, and about jobs of every size at once: it needs
that a request in the loop has loaded a valid policy, that the rows of h hours and
more were charged h hours each, that no ledger exceeds the largest cap, and that the
row of a started job says what its policy reserved (`BillInv`).
`RequestsRunDown` bounds the compare-and-set loop: a request that may still write
has an attempt left (`AttemptInv`), so it is answered within three awaits per
attempt and three more.

`BridgeJobsProofs` (from `JobAssumption`): `TypeOK`, `OneClaimPerMachine`,
`NeverReplayed`, `ResultsAreFenced`, `OkMeansRecorded`, that a closed row stays as
it is, and that `Spec` implements `JobBoard!Spec`.
The invariant adds what a status says about the other columns (`RowInv`), that
only posted results with a body are loaded or closed (`CallInv`), and that a
request answered "ok" points at a terminal row (`OkInv`); without the last,
`OkMeansRecorded` would not survive the next statement.  Every action changes the
table by one of four moves (`TableStep`) and a request by one of seven
(`CallStep`); the properties follow from those shapes.  The refinement forgets
requests, statements and tokens: a request that carries a claimed job is a
hand-out on its way, one answered "ok" a receipt on its way.  It needs one more
invariant, that only an answered request carries an answer (`Unanswered`), since
otherwise a request could put a hand-out or a receipt on the board that is not on
its way.

`ProofJobsProofs` (from `ProofAssumption`): `TypeOK`, `SubmittedOnce`,
`ReservationKept`, `ResultIsOwn`, `OneInferencePerAgenda`, `ClosedIsFinal`, and
that `Spec` implements `ProofAgenda!Spec`.
`SubmittedOnce` is not inductive, because a visit that has lost its lease may
still post.  The invariant says what such a visit may rely on all the same
(`VisitInv`): a visit about to post has moved the row out of `queued` for good,
so no other visit can reserve (`OneSender`) and nothing can close the job, since
every way to close it needs `queued` or a batch.  `JobInv` ties the row to the
provider's state, and `OneActive` is the partial unique index.  Each statement of
a visit has one lemma that serves the step in which it succeeds and the one in
which it reports an error after being applied (`Statement`).  The refinement needs
no more than that invariant: a POST is `Buy` because its visit finds the job open
and without a batch, and whoever closes the row does so over a batch that has
ended, or none; a job that ends as cancelled was never posted, or its batch was
cancelled.  `VisitsEnd`: a run of `advanceProofJob` has at most six steps,
whatever fails.

`CampaignsProofs` (from `CampaignsAssumption`): `TypeOK`, `CompletionIsEarned`,
`LastResultEvaluates`, and that `Spec` implements `Scoreboard!Spec`.  A cell
changes by one of three moves, marking, retirement and a result (`CellStep`).
That scores never go back is not inductive, because the guard of the UPDATE
compares `updated_at`, which markings and retirements write as well: it needs that
nothing is stamped with a time to come and that `updated_at` is at least the stamp
of the scores until the cell is retired (`StampInv`).  `CompletionIsEarned` needs
that a cell becomes "completed" by a recorded result only (`CompletedIsRecorded`);
for `LastResultEvaluates`, a request that has changed a cell of the triplet is
followed to its verdict (`BeingEvaluatedStep`), and a verdict is over the current
scores until the next result (`JudgedStep`).  In the refinement an evaluation
begins with the load and ends with the verdict or an error; two of the same triplet
on the same scores are one on the board, hence its `Ends`.

`ResearchActivityProofs` (from `ActivityAssumption`): `TypeOK`, `OneHistory`,
`AnswersAreTrue`, `PagesTileTheSnapshot`, and that `Spec` implements
`RevisionLog!Spec`.  Every step leaves the archive alone
or appends one record that the trigger accepts (`ArchiveStep`); what a request has
read is needed for none of the proofs, which shows that the trigger alone carries
them.  Pages stay true because the archive before a snapshot never changes.  The
trigger compares with the latest record by observation time, the abstract log with
the last one appended; that these are the same record is `LatestIsNewest`.

`HerdrTelemetryProofs` (from `TelemetryAssumption`): `TypeOK`, `EveryBeatCounted`,
`LossesAreCounted`, `PostsRunForward`, `NoLostWakeUp` and `SenderEnds`.  The buffer
is ascending and the sender
holds its head or a beat before it (`OrderInv`).  `LossesAreCounted` is not
inductive: an overflow during a post takes the posted beat from the buffer, and
the answer then takes one more; the invariant gives a credit for such an overtaken
beat (`LossInv`).  `NoLostWakeUp`: the sender sleeps only over an empty buffer and
before the signal (`SenderIsAwake`).  A beat that is still
buffered when both loops have ended counts as buffered, not as lost.  `SenderEnds`: a beat that left the buffer
does not come back, and after the signal each step of the sender takes one from
what it has left.

`ResearchQueueProofs` (from `QueueAssumption`): `TypeOK`, `EnqueuedIsNotLost`,
`DuplicateNamesAJob`, `SuccessIsKept` and `DeliveriesRunOut`.  `SuccessIsKept`
needs that a message which never came back to the queue has exactly one consumer,
and that this consumer has nothing left to record once the row says success
(`ConsumerInv`, `MessageInv`).  `DeliveriesRunOut`: a message has at most
`MaxRetries + 1` deliveries, because one that is still to be delivered has failed no more than `MaxRetries`
times and one more failure makes it a dead letter (`RetryInv`); one that has ended
does not come back.

`HerdrBridgeProofs` (from `BridgeAssumption`, `TableAssumption`): `TypeOK`,
`UsesTheTable`, `PromptedAtMostOnce`, `EvidenceBeforeSuccess`,
`RefusedIsRecordedOrOverdue`, and the theorems below.  The module has
`BridgeJobsProofs` as an instance:
every step of the composition is one the table allows (`Allowed`), so the table's
invariant holds with the daemons too, and every theorem above about the table is
also one about the table with its daemons (`DaemonsHoldOneClaim`,
`DaemonsNeverReplay`, `DaemonsAreFenced`, `DaemonsHearTheTruth`,
`DaemonsLeaveClosedRows`, `DaemonsKeepTheBoard`).  None of the daemon's properties
is inductive.  The
invariant says who a job is with: an answer on its way (`TicketInv`) or one daemon
(`OwnerInv`), never both, so that a second claim is the only way to a second
prompt, and the table gives none.  Until a daemon reports, no request posts a
result of its job (`Undecided`); from then on all that do, the abandoned ones
included, post the same body (`ReportInv`), which is why a refused result is the
recorded one.  The steps fall into five shapes: the table moves alone
(`TableEffect`), nobody works (`QuietStep`), a daemon is handed a job, goes on with
it (`WorkStep`), or reports.  Three consequences relate the row to the work:
no two daemons ever work on one job (`OneDaemonWorks`), a scientific job is never
launched (`NoScientificLaunch`), and a row says "done" only for a job whose agent
was given the prompt, once (`DoneIsEarned`).  The last two have an invariant of
their own (`DoneInv`): whoever says "done", a row, a request on its way or a daemon
about to report, says it of a job that was prompted, and a scientific job never
leaves the state in which its daemon can only report it.

Only model-checked is all liveness (`EveryRequestEnds`, `EveryJobEnds`,
`EveryJobSettles`, `EveryMessageEnds`, `BufferDrains`, `AnnouncedPanesAreCovered`,
`ShutdownEnds`): fairness and ENABLED are out of the prover's reach.

## 6. Plan

Done in this order, most important first: the budget, the job table, the daemon,
the research queue, the proof jobs, the campaigns, the public research activity
and the telemetry loop, each with its proofs, and the abstract specifications with
the proofs that they are implemented.  Next:

1. Proofs: an abstract at-least-once worker for `ResearchQueue`; the measure of a
   daemon's job (`EveryJobEnds`), which must count the reports it repeats; what a
   subscription covers (`AnnouncedPanesAreCovered`) between two rebuilds.
2. Scientific handoffs in `BridgeJobs`: roles, receipts and parents; property: a
   critique reviews the receipt that is recorded for its parent.
3. `Agenda` (select, then update), `ResearchRuns` (compare-and-set on a digest).
4. The projection of beats to the baseline workflow, and the lean proof workflow
   on top of `ProofJobs`.

## 7. Not modelled

Numerical engines, request building, page rendering and prompting have no
protocol.  Within the modelled components: texts, excerpts, tracing, HTTP
authentication and size limits; the optional beat a result carries (it is sent
after the row is closed and its failure is ignored); the in-memory ledger of the
consumer's development mode; the reading routes of the proof jobs and the order in which a tick visits its
five jobs; `f64` rounding; task names missing from the headers; what a verdict of
a triplet says, the agenda tasks and reports it leads to, and the
filters of a dispatch (any set of queued cells); the console fan-in and the baseline projection of the feed;
the decoding of records and the credentials of operators in the research
activity; the socket client of herdr.
