------------------------------ MODULE HerdrBridge ------------------------------
(***************************************************************************)
(* tools/herdr-bridge: the daemons that claim jobs from the control plane, *)
(* run them in a herdr workspace and post the outcome (dispatch.ts,        *)
(* worker.ts), together with the table of BridgeJobs they talk to.         *)
(*                                                                         *)
(* A daemon has one request outstanding at a time; it may stop waiting for *)
(* it while the Worker still serves it.  It keeps nothing on disk: a crash *)
(* forgets the job, but neither the claim nor the agent that runs in herdr.*)
(* herdr and its agents are external.                                      *)
(***************************************************************************)
EXTENDS Naturals, FiniteSets

CONSTANTS
    Jobs, Machines, MachineOf, Seconds, Calls,   \* as in BridgeJobs
    Bridges,      \* daemons
    MachineId,    \* the MACHINE_ID a daemon is configured with
    Scientific,   \* the jobs with a scientific_role
    Hermes,       \* the jobs whose agent_kind is "hermes"
    Keep,         \* BRIDGE_KEEP_WORKSPACES
    MaxFaults     \* crashes, shutdowns and lost answers that are considered

ASSUME BridgeAssumption ==
    /\ MachineId \in [Bridges -> Machines]
    /\ Scientific \subseteq Jobs /\ Hermes \subseteq Jobs
    /\ Keep \in {"always", "failed", "never"}
    /\ MaxFaults \in Nat

VARIABLES
    row, overdue, call,   \* as in BridgeJobs
    mode,      \* mode[b]: where daemon b is in Dispatcher.run
    held,      \* held[b]: the claimed job b works on, with its claim
    outcome,   \* outcome[b]: the outcome b reports
    waiting,   \* waiting[b]: the requests b waits for, at most one
    stopping,  \* the daemons that were told to stop
    faults,    \* crashes, shutdowns and lost answers so far
    prompts,   \* prompts[j]: how often the prompt of j reached an agent
    agent,     \* agent[j]: what the agent started for j does
    open       \* the jobs whose workspace exists

table == <<row, overdue, call>>
daemon == <<mode, held, outcome, waiting, stopping, faults>>
herdr == <<prompts, agent, open>>
vars == <<row, overdue, call, mode, held, outcome, waiting, stopping, faults,
          prompts, agent, open>>

Table == INSTANCE BridgeJobs

ASSUME TableAssumption == Table!JobAssumption

Mode == {"down", "ready", "polling", "claimed", "started", "prompted", "reporting"}

Held == [job : Jobs, claim : Nat]

-------------------------------------------------------------------------------
Init ==
    /\ Table!Init
    /\ mode = [b \in Bridges |-> "ready"]
    /\ held = [b \in Bridges |-> [job |-> CHOOSE j \in Jobs : TRUE, claim |-> 0]]
    /\ outcome = [b \in Bridges |-> "failed"]
    /\ waiting = [b \in Bridges |-> {}]
    /\ stopping = {}
    /\ faults = 0
    /\ prompts = [j \in Jobs |-> 0]
    /\ agent = [j \in Jobs |-> "none"]
    /\ open = {}

Become(b, m) == mode' = [mode EXCEPT ![b] = m]

\* One more of the bounded number of faults.
Fault == faults < MaxFaults /\ faults' = faults + 1

StopWaiting(b) == waiting' = [waiting EXCEPT ![b] = {}]

-------------------------------------------------------------------------------
(* Dispatcher.run and WorkerClient: polling.                               *)

Poll(b) ==
    /\ mode[b] = "ready" /\ b \notin stopping
    /\ \E c \in Calls : /\ Table!AskNext(c, MachineId[b])
                        /\ waiting' = [waiting EXCEPT ![b] = {c}]
    /\ Become(b, "polling")
    /\ UNCHANGED <<held, outcome, stopping, faults, herdr>>

\* nextJob refuses a claim that has run out on its way; the loop then looks
\* at its abort signal only after the job it did get.
PollReturns(b) ==
    /\ mode[b] = "polling"
    /\ \E c \in waiting[b] :
          /\ Table!Return(c)
          /\ \/ /\ call[c].answer = "claimed" /\ call[c].job \notin overdue
                /\ held' = [held EXCEPT ![b] = [job |-> call[c].job,
                                                claim |-> row[call[c].job].attempts]]
                /\ Become(b, "claimed")
             \/ /\ call[c].answer # "claimed" \/ call[c].job \in overdue
                /\ Become(b, "ready")
                /\ UNCHANGED held
    /\ StopWaiting(b)
    /\ UNCHANGED <<outcome, stopping, faults, herdr>>

\* The request times out or the connection breaks.
PollLost(b) ==
    /\ mode[b] = "polling"
    /\ Fault
    /\ Become(b, "ready")
    /\ StopWaiting(b)
    /\ UNCHANGED <<table, held, outcome, stopping, herdr>>

-------------------------------------------------------------------------------
(* runJob.                                                                 *)

\* The end of runJob with outcome o, and workspaces existing; closing the
\* workspace may fail.
Finish(b, o, workspaces) ==
    /\ outcome' = [outcome EXCEPT ![b] = o]
    /\ Become(b, "reporting")
    /\ open' \in IF Keep = "always" \/ (Keep = "failed" /\ o # "done")
                 THEN {workspaces} ELSE {workspaces, workspaces \ {held[b].job}}

\* What the catch clause makes of a herdr error.
Errors == {"timeout", "blocked", "failed"}

\* Legacy dispatch never launches a scientific job.
BlockScientific(b) ==
    /\ mode[b] = "claimed"
    /\ held[b].job \in Scientific
    /\ outcome' = [outcome EXCEPT ![b] = "blocked"]
    /\ Become(b, "reporting")
    /\ UNCHANGED <<table, held, waiting, stopping, faults, herdr>>

\* workspace.create, agent.start and the wait for idle.
Launch(b) ==
    LET j == held[b].job IN
    /\ mode[b] = "claimed"
    /\ j \notin Scientific
    /\ open' = open \cup {j}
    /\ agent' = [agent EXCEPT ![j] = "idle"]
    /\ Become(b, "started")
    /\ UNCHANGED <<table, held, outcome, waiting, stopping, faults, prompts>>

LaunchFails(b) ==
    LET j == held[b].job IN
    /\ mode[b] = "claimed"
    /\ j \notin Scientific
    /\ \E created \in BOOLEAN, o \in Errors :
          /\ agent' \in IF created THEN {agent, [agent EXCEPT ![j] = "idle"]} ELSE {agent}
          /\ Finish(b, o, IF created THEN open \cup {j} ELSE open)
    /\ UNCHANGED <<table, held, waiting, stopping, faults, prompts>>

\* agent.prompt; an error says nothing about whether the prompt went in.
Prompt(b) ==
    LET j == held[b].job IN
    /\ mode[b] = "started"
    /\ b \notin stopping
    /\ prompts' = [prompts EXCEPT ![j] = @ + 1]
    /\ agent' = [agent EXCEPT ![j] = "working"]
    /\ \/ Become(b, "prompted") /\ UNCHANGED <<outcome, open>>
       \/ \E o \in Errors : Finish(b, o, open)
    /\ UNCHANGED <<table, held, waiting, stopping, faults>>

\* The abort signal, or an agent.prompt that failed before the agent saw it.
PromptFails(b) ==
    /\ mode[b] = "started"
    /\ \E o \in Errors : Finish(b, o, open)
    /\ UNCHANGED <<table, held, waiting, stopping, faults, prompts, agent>>

\* Deviation: a hermes agent that looks settled is taken for done.
SettlesWithoutPanel(b) ==
    /\ mode[b] = "prompted"
    /\ Finish(b, "done", open)
    /\ UNCHANGED <<table, held, waiting, stopping, faults, prompts, agent>>

\* herdr reads the state off a screen: it may report an agent as settled that
\* has not answered.  For a hermes agent success needs its response panel.
Settles(b) ==
    LET j == held[b].job IN
    /\ mode[b] = "prompted"
    /\ j \in Hermes => agent[j] = "answered"
    /\ Finish(b, "done", open)
    /\ UNCHANGED <<table, held, waiting, stopping, faults, prompts, agent>>

\* The agent asks a question, herdr fails, the job times out or the daemon is
\* told to stop.
Unsettled(b) ==
    /\ mode[b] = "prompted"
    /\ \E o \in Errors : Finish(b, o, open)
    /\ UNCHANGED <<table, held, waiting, stopping, faults, prompts, agent>>

-------------------------------------------------------------------------------
(* report.                                                                 *)

\* buildResult: the same body for every attempt.
Result(b) == [machine |-> MachineOf[held[b].job], claim |-> held[b].claim,
              outcome |-> outcome[b]]

Report(b) ==
    /\ mode[b] = "reporting" /\ waiting[b] = {}
    /\ \E c \in Calls : /\ Table!PostResult(c, held[b].job, Result(b))
                        /\ waiting' = [waiting EXCEPT ![b] = {c}]
    /\ UNCHANGED <<mode, held, outcome, stopping, faults, herdr>>

\* Deviation: an error sends the daemon back to the job.
RetryTheJob(b) == Become(b, IF b \in stopping THEN "ready" ELSE "claimed")

\* An error is retried unless the daemon is stopping.
Retry(b) == Become(b, IF b \in stopping THEN "ready" ELSE "reporting")

\* Deviation: a refused result is posted again as well.
ReportReturnsUntilOk(b) ==
    /\ mode[b] = "reporting"
    /\ \E c \in waiting[b] :
          /\ Table!Return(c)
          /\ IF call[c].answer = "ok" THEN Become(b, "ready") ELSE Retry(b)
    /\ StopWaiting(b)
    /\ UNCHANGED <<held, outcome, stopping, faults, herdr>>

ReportReturns(b) ==
    /\ mode[b] = "reporting"
    /\ \E c \in waiting[b] :
          /\ Table!Return(c)
          /\ IF call[c].answer = "error" THEN Retry(b) ELSE Become(b, "ready")
    /\ StopWaiting(b)
    /\ UNCHANGED <<held, outcome, stopping, faults, herdr>>

ReportLost(b) ==
    /\ mode[b] = "reporting" /\ waiting[b] # {}
    /\ Fault
    /\ Retry(b)
    /\ StopWaiting(b)
    /\ UNCHANGED <<table, held, outcome, stopping, herdr>>

-------------------------------------------------------------------------------
(* The life of a daemon.                                                   *)

Exit(b) ==
    /\ mode[b] = "ready" /\ b \in stopping
    /\ Become(b, "down")
    /\ UNCHANGED <<table, held, outcome, waiting, stopping, faults, herdr>>

Stop(b) ==
    /\ mode[b] # "down" /\ b \notin stopping
    /\ Fault
    /\ stopping' = stopping \cup {b}
    /\ UNCHANGED <<table, mode, held, outcome, waiting, herdr>>

\* Deviation: the claim of a daemon that dies is given back.
CrashReleases(b) ==
    /\ mode[b] # "down"
    /\ Fault
    /\ Become(b, "down")
    /\ StopWaiting(b)
    /\ row' = [row EXCEPT ![held[b].job].status =
                   IF @ = "claimed" THEN "pending" ELSE @]
    /\ UNCHANGED <<overdue, call, held, outcome, stopping, herdr>>

Crash(b) ==
    /\ mode[b] # "down"
    /\ Fault
    /\ Become(b, "down")
    /\ StopWaiting(b)
    /\ UNCHANGED <<table, held, outcome, stopping, herdr>>

\* After a crash by systemd (Restart=on-failure), after a clean exit only by
\* whoever starts the daemon again.
Restart(b) ==
    /\ mode[b] = "down"
    /\ Become(b, "ready")
    /\ stopping' = stopping \ {b}
    /\ UNCHANGED <<table, held, outcome, waiting, faults, herdr>>

-------------------------------------------------------------------------------
(* Agents, the clock, operators and the Worker.                            *)

AgentMoves(j) ==
    /\ j \in open
    /\ \/ agent[j] = "working" /\ agent' = [agent EXCEPT ![j] = "answered"]
       \/ agent[j] = "working" /\ agent' = [agent EXCEPT ![j] = "asking"]
       \/ agent[j] = "asking" /\ agent' = [agent EXCEPT ![j] = "working"]
    /\ UNCHANGED <<table, daemon, prompts, open>>

\* The Worker discards an answer that nobody waits for.
Discard(c) ==
    /\ c \notin UNION {waiting[b] : b \in Bridges}
    /\ Table!Return(c)
    /\ UNCHANGED <<daemon, herdr>>

Control(c) == Table!Serve(c) /\ UNCHANGED <<daemon, herdr>>

RunsOut(j) == Table!ClaimRunsOut(j) /\ UNCHANGED <<daemon, herdr>>

Operator ==
    /\ \/ \E j \in Jobs, n \in Seconds : Table!Enqueue(j, n)
       \/ Table!ReadJob
    /\ UNCHANGED <<daemon, herdr>>

\* The dispatch loop, up to the exit of a daemon that was told to stop.
Runs(b) ==
    \/ Poll(b) \/ PollReturns(b) \/ PollLost(b)
    \/ BlockScientific(b) \/ Launch(b) \/ LaunchFails(b)
    \/ Prompt(b) \/ PromptFails(b) \/ Settles(b) \/ Unsettled(b)
    \/ Report(b) \/ ReportReturns(b) \/ ReportLost(b)
    \/ Exit(b)

Daemon(b) == Runs(b) \/ Restart(b)

Next ==
    \/ \E b \in Bridges : Daemon(b) \/ Stop(b) \/ Crash(b)
    \/ \E j \in Jobs : AgentMoves(j) \/ RunsOut(j)
    \/ \E c \in Calls : Control(c) \/ Discard(c)
    \/ Operator

\* A daemon is a loop whose every wait has a deadline.  systemd restarts it
\* after a crash, but not after the exit with code 0 of a daemon that was told
\* to stop: whether that one runs again is up to its operator.  The Worker
\* goes on with what it serves; claims run out.  Errors of D1 may recur, but
\* no kind of statement fails for ever; the faults of daemons and of the
\* network are bounded by MaxFaults.
Healthy(c) == Control(c) /\ call'[c].answer # "error"

Fairness ==
    /\ \A b \in Bridges : WF_vars(Runs(b) \/ (b \notin stopping /\ Restart(b)))
    /\ \A j \in Jobs : WF_vars(RunsOut(j))
    /\ \A c \in Calls :
          /\ WF_vars(Control(c)) /\ WF_vars(Discard(c))
          /\ \A p \in {"expire", "claim", "load", "close"} :
                SF_vars(call[c].phase = p /\ Healthy(c))

Spec == Init /\ [][Next]_vars /\ Fairness

-------------------------------------------------------------------------------
(* Properties.                                                             *)

\* Every variable stays in the set of values it is meant for.
TypeOK ==
    /\ Table!TypeOK
    /\ mode \in [Bridges -> Mode]
    /\ held \in [Bridges -> Held]
    /\ outcome \in [Bridges -> Table!Terminal]
    /\ waiting \in [Bridges -> SUBSET Calls]
    /\ stopping \subseteq Bridges
    /\ faults \in 0 .. MaxFaults
    /\ prompts \in [Jobs -> Nat]
    /\ agent \in [Jobs -> {"none", "idle", "working", "asking", "answered"}]
    /\ open \subseteq Jobs

\* No prompt is ever given to an agent twice, and never before its job was
\* claimed: not after a crash, a lost answer, an expired claim, a rejected
\* result or with two daemons for one machine ("Neither result retries nor
\* expiry execute the prompt again", glim-think/docs/herdr-bridge.md:160).
PromptedAtMostOnce ==
    \A j \in Jobs : prompts[j] <= row[j].attempts /\ prompts[j] <= 1

\* A hermes job is recorded as done only if its prompt was given to an agent
\* and the agent answered, and unless the daemon keeps no workspace the one of
\* an agent that has not answered is never closed ("it never reports done or
\* closes the workspace as a success", tools/herdr-bridge/README.md:104).
EvidenceBeforeSuccess ==
    \A j \in Hermes :
        /\ row[j].status = "done" => prompts[j] = 1 /\ agent[j] = "answered"
        /\ agent[j] \in {"working", "asking"} /\ Keep # "never" => j \in open

\* No outcome is lost unnoticed: a daemon whose result is refused finds that
\* very result in the table, or its claim ran out and the row says, or will
\* say, that the outcome is uncertain.
RefusedIsRecordedOrOverdue ==
    \A b \in Bridges : \A c \in waiting[b] :
        mode[b] = "reporting" /\ call[c].answer = "rejected" =>
            LET j == held[b].job IN
            \/ row[j].result = Result(b)
            \/ j \in overdue /\ row[j].status \in {"claimed", "timeout"}

\* Some daemon of the machine is not told to stop for good.
Served(j) ==
    \E b \in Bridges : MachineId[b] = MachineOf[j] /\ []<>(b \notin stopping)

\* Every job that was enqueued is eventually closed, by a result or as an
\* uncertain timeout, so that the machine's queue does not stall.  A daemon
\* that is shut down and never started again leaves the jobs of its machine
\* pending (glim-think/docs/herdr-bridge.md:147); crashes excuse nothing.
EveryJobEnds ==
    \A j \in Jobs :
        Served(j) => (row[j].status = "pending" ~> row[j].status \in Table!Terminal)

\* The daemons use the table only as its routes allow.
UsesTheTable == Table!Spec
===============================================================================
