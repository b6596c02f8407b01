----------------------------- MODULE Scheduler ------------------------------
(***************************************************************************)
(* Workflow execution: the WorkflowScheduler (internal/scheduler:          *)
(* scheduler.go, stage_runner.go), the InMemoryStore it shares with the    *)
(* REST handlers (internal/state/state.go) and the handlers that submit    *)
(* and delete runs (internal/server/workflow_handlers.go).                 *)
(*                                                                         *)
(* Every store call is atomic (the store's mutex) and nothing spans two of *)
(* them: the poll loop, one goroutine per run, one per step of the stage   *)
(* at hand, and the REST handlers interleave between any two.  All runs    *)
(* are of one workflow, whose plan is Stages.  Payloads, costs, metrics    *)
(* and StartedAt are left out; a step that the budget check, the packager  *)
(* or the executor fails just fails.                                       *)
(***************************************************************************)
EXTENDS Integers, Sequences, FiniteSets

CONSTANTS
  Runs,          \* ids CreateRun can mint
  Goroutines,    \* goroutines pollAndExecute can spawn at once
  Handlers,      \* DELETE requests in progress at once
  Steps, Stages, \* the plan: a sequence of sets of steps
  DependsOn,     \* [Steps -> SUBSET Steps]
  Names,         \* names a template reference or an output_key may use
  OutputKey,     \* [Steps -> Names \cup {NoName}]
  Refs,          \* [Steps -> SUBSET Names], the X of {{ steps.X.output }}
  NoName, NoRun, MaxConcurrent

VARIABLES
  store,      \* the runs in the InMemoryStore
  minted,     \* ids used so far
  deleting,   \* per handler: the run it is about to delete, or NoRun
  cancelled,  \* the scheduler's context is done
  looping,    \* Run has not returned
  polled,     \* pending runs the current poll has yet to visit
  inFlight,   \* s.inFlight
  sem,        \* goroutines that hold a slot of the semaphore
  go,         \* goroutines of pollAndExecute
  executions, \* history: how often each run was set Running
  sealed      \* runs whose logs were handed to the sealer

vars == <<store, minted, deleting, cancelled, looping, polled, inFlight, sem,
          go, executions, sealed>>
restVars == <<minted, deleting, cancelled, looping, polled>>

\* What Planner!PlanIsTopological promises of a plan.
ASSUME PlanAssumption ==
  /\ Stages \in Seq(SUBSET Steps) /\ DependsOn \in [Steps -> SUBSET Steps]
  /\ Steps = UNION {Stages[i] : i \in 1..Len(Stages)}
  /\ \A i \in 1..Len(Stages) : \A s \in Stages[i] :
       /\ DependsOn[s] \subseteq UNION {Stages[j] : j \in 1..(i - 1)}
       /\ \A j \in 1..Len(Stages) : s \in Stages[j] => j = i
ASSUME TemplateAssumption ==
  OutputKey \in [Steps -> Names \cup {NoName}] /\ Refs \in [Steps -> SUBSET Names]
ASSUME LimitAssumption == MaxConcurrent \in Nat \ {0} /\ NoRun \notin Runs

Absent == [status |-> "absent"]
Free   == [pc |-> "free"]

NewRun == [status |-> "pending", finished |-> FALSE, error |-> FALSE,
           steps |-> [s \in Steps |-> "none"]]

Spawned(r) == [pc |-> "spawned", run |-> r, stage |-> 0,
               steps |-> [s \in Steps |-> "idle"], outputs |-> {}]

Stored(r) == store[r] # Absent
Terminal == {"completed", "failed"}

\* The store's setters: ErrRunNotFound, which every caller only logs or
\* returns on, when the run is gone.
UpdateRunStatus(r, x) ==
  store' = IF Stored(r) THEN [store EXCEPT ![r].status = x] ELSE store
SetRunFinished(r) ==
  store' = IF Stored(r) THEN [store EXCEPT ![r].finished = TRUE] ELSE store
SetRunError(r) ==
  store' = IF Stored(r) THEN [store EXCEPT ![r].error = TRUE] ELSE store

\* Mutant: the step state is written into a fresh run when the run is gone.
UpdateStepStateUpserts(r, s, x) ==
  store' = IF Stored(r) THEN [store EXCEPT ![r].steps[s] = x]
           ELSE [store EXCEPT ![r] = [NewRun EXCEPT !.steps[s] = x]]

UpdateStepState(r, s, x) ==
  store' = IF Stored(r) THEN [store EXCEPT ![r].steps[s] = x] ELSE store

Goto(g, p) == go' = [go EXCEPT ![g].pc = p]

Init ==
  /\ store = [r \in Runs |-> Absent] /\ minted = {}
  /\ deleting = [h \in Handlers |-> NoRun]
  /\ cancelled = FALSE /\ looping = TRUE
  /\ polled = {} /\ inFlight = {} /\ sem = {}
  /\ go = [g \in Goroutines |-> Free]
  /\ executions = [r \in Runs |-> 0] /\ sealed = {}

-----------------------------------------------------------------------------
\* REST handlers.

\* handleSubmitWorkflowRun: parsed and validated, the run is stored Pending.
SubmitRun(r) ==
  /\ r \notin minted
  /\ minted' = minted \cup {r}
  /\ store' = [store EXCEPT ![r] = NewRun]
  /\ UNCHANGED <<deleting, cancelled, looping, polled, inFlight, sem, go, executions, sealed>>

\* handleDeleteWorkflow reads the run and its status...
BeginDelete(h, r) ==
  /\ deleting[h] = NoRun
  /\ Stored(r) /\ store[r].status # "running"
  /\ deleting' = [deleting EXCEPT ![h] = r]
  /\ UNCHANGED <<store, minted, cancelled, looping, polled, inFlight, sem, go, executions, sealed>>

\* ... and deletes it later, whatever its status is by then.
FinishDelete(h) ==
  /\ deleting[h] # NoRun
  /\ store' = [store EXCEPT ![deleting[h]] = Absent]
  /\ deleting' = [deleting EXCEPT ![h] = NoRun]
  /\ UNCHANGED <<minted, cancelled, looping, polled, inFlight, sem, go, executions, sealed>>

-----------------------------------------------------------------------------
\* Run and pollAndExecute.

Shutdown ==
  /\ ~cancelled /\ cancelled' = TRUE
  /\ UNCHANGED <<store, minted, deleting, looping, polled, inFlight, sem, go, executions, sealed>>

StopLoop ==
  /\ cancelled /\ looping /\ polled = {}
  /\ looping' = FALSE
  /\ UNCHANGED <<store, minted, deleting, cancelled, polled, inFlight, sem, go, executions, sealed>>

\* A tick: ListRuns.  With the context done, select may still pick the tick.
Poll ==
  /\ looping /\ polled = {}
  /\ polled' = {r \in Runs : store[r].status = "pending"}
  /\ UNCHANGED <<store, minted, deleting, cancelled, looping, inFlight, sem, go, executions, sealed>>

\* One iteration over the listed, by now possibly stale, runs: LoadOrStore.
Visit(r, g) ==
  /\ r \in polled /\ go[g] = Free
  /\ polled' = polled \ {r}
  /\ IF r \in inFlight THEN UNCHANGED <<inFlight, go>>
     ELSE /\ inFlight' = inFlight \cup {r}
          /\ go' = [go EXCEPT ![g] = Spawned(r)]
  /\ UNCHANGED <<store, minted, deleting, cancelled, looping, sem, executions, sealed>>

AcquireSlot(g) ==
  /\ go[g].pc = "spawned" /\ Cardinality(sem) < MaxConcurrent
  /\ sem' = sem \cup {g}
  /\ Goto(g, "loading")
  /\ UNCHANGED <<store, restVars, inFlight, executions, sealed>>

AbortWait(g) ==
  /\ go[g].pc = "spawned" /\ cancelled
  /\ inFlight' = inFlight \ {go[g].run}
  /\ go' = [go EXCEPT ![g] = Free]
  /\ UNCHANGED <<store, restVars, sem, executions, sealed>>

\* The deferred exit: the slot, then the mark.
ReleaseSlot(g) ==
  /\ go[g].pc = "leaving"
  /\ sem' = sem \ {g}
  /\ Goto(g, "unmarking")
  /\ UNCHANGED <<store, restVars, inFlight, executions, sealed>>

Unmark(g) ==
  /\ go[g].pc = "unmarking"
  /\ inFlight' = inFlight \ {go[g].run}
  /\ go' = [go EXCEPT ![g] = Free]
  /\ UNCHANGED <<store, restVars, sem, executions, sealed>>

-----------------------------------------------------------------------------
\* executeRun.

quiet == <<restVars, inFlight, sem>>

\* GetRun, and the guard against a run that is no longer pending.
LoadRun(g) ==
  /\ go[g].pc = "loading"
  /\ Goto(g, IF store[go[g].run].status = "pending" THEN "planning" ELSE "leaving")
  /\ UNCHANGED <<store, quiet, executions, sealed>>

\* Parse, ValidateDAG and Plan succeed, or fail on a file changed since.
PlanRun(g) ==
  /\ go[g].pc = "planning"
  /\ Goto(g, "starting") \/ Goto(g, "stamp_failed")
  /\ UNCHANGED <<store, quiet, executions, sealed>>

StartRun(g) ==
  LET r == go[g].run IN
  /\ go[g].pc = "starting"
  /\ UpdateRunStatus(r, "running")
  /\ Goto(g, IF Stored(r) THEN "between" ELSE "leaving")
  /\ executions' = [executions EXCEPT ![r] = @ + IF Stored(r) THEN 1 ELSE 0]
  /\ UNCHANGED <<quiet, sealed>>

\* The head of the stage loop.
NextStage(g) ==
  LET i == go[g].stage + 1 IN
  /\ go[g].pc = "between"
  /\ \/ i > Len(Stages) /\ Goto(g, "stamp_completed")
     \/ i <= Len(Stages) /\ cancelled /\ Goto(g, "stamp_failed")
     \/ /\ i <= Len(Stages) /\ ~cancelled
        /\ go' = [go EXCEPT ![g].pc = "stage", ![g].stage = i]
  /\ UNCHANGED <<store, quiet, executions, sealed>>

\* FinishedAt first ...
StampRun(g, x) ==
  /\ go[g].pc = IF x = "failed" THEN "stamp_failed" ELSE "stamp_completed"
  /\ SetRunFinished(go[g].run)
  /\ Goto(g, IF x = "failed" THEN "error" ELSE "mark_completed")
  /\ UNCHANGED <<quiet, executions, sealed>>

RecordError(g) ==
  /\ go[g].pc = "error"
  /\ SetRunError(go[g].run)
  /\ Goto(g, "mark_failed")
  /\ UNCHANGED <<quiet, executions, sealed>>

\* ... then the terminal status, then the logs are sealed.
MarkRun(g, x) ==
  /\ go[g].pc = IF x = "failed" THEN "mark_failed" ELSE "mark_completed"
  /\ UpdateRunStatus(go[g].run, x)
  /\ Goto(g, "sealing")
  /\ UNCHANGED <<quiet, executions, sealed>>

SealRunLogs(g) ==
  /\ go[g].pc = "sealing"
  /\ sealed' = sealed \cup {go[g].run}
  /\ Goto(g, "leaving")
  /\ UNCHANGED <<store, quiet, executions>>

-----------------------------------------------------------------------------
\* executeStage and executeStep.

StepAt(g, s, p) ==
  go[g].pc = "stage" /\ s \in Stages[go[g].stage] /\ go[g].steps[s] = p

StepGoto(g, s, p) == go' = [go EXCEPT ![g].steps[s] = p]

StartStep(g, s) ==
  /\ StepAt(g, s, "idle")
  /\ UpdateStepState(go[g].run, s, "running")
  /\ StepGoto(g, s, "started")
  /\ UNCHANGED <<quiet, executions, sealed>>

\* ResolveInputs against a copy of the outputs taken under mu: a reference no
\* finished step has filled fails the step.
ResolveInputs(g, s) ==
  /\ StepAt(g, s, "started")
  /\ StepGoto(g, s, IF Refs[s] \subseteq go[g].outputs THEN "resolved" ELSE "unresolved")
  /\ UNCHANGED <<store, quiet, executions, sealed>>

\* markStepFailed after an unresolved input, a refused budget, a packaging
\* failure or an error from ExecuteTask, a done context included.
StepFails(g, s) ==
  /\ StepAt(g, s, "unresolved") \/ StepAt(g, s, "resolved")
  /\ UpdateStepState(go[g].run, s, "failed")
  /\ StepGoto(g, s, "failed")
  /\ UNCHANGED <<quiet, executions, sealed>>

\* ExecuteTask returned an output, which is stored with the step's state...
StepReturns(g, s) ==
  /\ StepAt(g, s, "resolved")
  /\ UpdateStepState(go[g].run, s, "completed")
  /\ StepGoto(g, s, "stored")
  /\ UNCHANGED <<quiet, executions, sealed>>

\* ... and then, under mu, in the outputs of the run.
PublishOutput(g, s) ==
  /\ StepAt(g, s, "stored")
  /\ go' = [go EXCEPT ![g].steps[s] = "done",
                      ![g].outputs = @ \cup ({OutputKey[s]} \ {NoName})]
  /\ UNCHANGED <<store, quiet, executions, sealed>>

\* Mutant: the first failure ends the stage.
EndStageFast(g) ==
  LET here == Stages[go[g].stage] IN
  /\ go[g].pc = "stage"
  /\ \/ \E s \in here : go[g].steps[s] = "failed" /\ Goto(g, "stamp_failed")
     \/ (\A s \in here : go[g].steps[s] = "done") /\ Goto(g, "between")
  /\ UNCHANGED <<store, quiet, executions, sealed>>

\* wg.Wait, then the errors of all steps decide.
EndStage(g) ==
  LET here == Stages[go[g].stage] IN
  /\ go[g].pc = "stage"
  /\ \A s \in here : go[g].steps[s] \in {"done", "failed"}
  /\ Goto(g, IF \E s \in here : go[g].steps[s] = "failed" THEN "stamp_failed" ELSE "between")
  /\ UNCHANGED <<store, quiet, executions, sealed>>

-----------------------------------------------------------------------------
PollAndExecute == Poll \/ \E r \in Runs, g \in Goroutines : Visit(r, g)

ExecuteStep(g, s) ==
  StartStep(g, s) \/ ResolveInputs(g, s) \/ StepFails(g, s)
  \/ StepReturns(g, s) \/ PublishOutput(g, s)

ExecuteRun(g) ==
  \/ AcquireSlot(g) \/ AbortWait(g) \/ ReleaseSlot(g) \/ Unmark(g)
  \/ LoadRun(g) \/ PlanRun(g) \/ StartRun(g) \/ NextStage(g)
  \/ (\E x \in Terminal : StampRun(g, x) \/ MarkRun(g, x))
  \/ RecordError(g) \/ SealRunLogs(g)
  \/ (\E s \in Steps : ExecuteStep(g, s)) \/ EndStage(g)

Requests ==
  \/ \E r \in Runs : SubmitRun(r)
  \/ \E h \in Handlers : FinishDelete(h) \/ \E r \in Runs : BeginDelete(h, r)

Next ==
  \/ Requests \/ Shutdown \/ StopLoop \/ PollAndExecute
  \/ \E g \in Goroutines : ExecuteRun(g)

\* The poll loop ticks and goroutines are scheduled; ExecuteTask returns, every
\* dispatch being under a timeout.  Nothing is assumed of clients.
Fairness ==
  /\ WF_vars(PollAndExecute)
  /\ \A g \in Goroutines : WF_vars(ExecuteRun(g))

Spec == Init /\ [][Next]_vars
FairSpec == Spec /\ Fairness

-----------------------------------------------------------------------------
\* Properties.

Pcs == {"spawned", "loading", "planning", "starting", "between", "stage",
        "stamp_completed", "stamp_failed", "error", "mark_completed",
        "mark_failed", "sealing", "leaving", "unmarking"}
StepPcs == {"idle", "started", "resolved", "unresolved", "stored", "done", "failed"}

\* The store's, the scheduler's and the handlers' state.
TypeOK ==
  /\ store \in [Runs -> {Absent} \cup
       [status : {"pending", "running"} \cup Terminal, finished : BOOLEAN,
        error : BOOLEAN, steps : [Steps -> {"none", "running"} \cup Terminal]]]
  /\ go \in [Goroutines -> {Free} \cup
       [pc : Pcs, run : Runs, stage : 0..Len(Stages),
        steps : [Steps -> StepPcs], outputs : SUBSET Names]]
  /\ minted \subseteq Runs /\ deleting \in [Handlers -> Runs \cup {NoRun}]
  /\ cancelled \in BOOLEAN /\ looping \in BOOLEAN
  /\ polled \subseteq Runs /\ inFlight \subseteq Runs /\ sem \subseteq Goroutines
  /\ executions \in [Runs -> Nat] /\ sealed \subseteq Runs

Busy(g) == go[g] # Free

\* s.inFlight is exactly the runs some goroutine works on, one goroutine each:
\* a leaked mark would keep a run from ever being picked up again.
InFlightMatches ==
  /\ inFlight = {go[g].run : g \in {h \in Goroutines : Busy(h)}}
  /\ \A g, h \in Goroutines : Busy(g) /\ Busy(h) /\ go[g].run = go[h].run => g = h

\* A run is executed at most once, although polls list it from stale copies and
\* its mark is dropped as soon as its goroutine ends.
ExecutedOnce == \A r \in Runs : executions[r] <= 1

\* "any observer that sees RunCompleted is guaranteed to also see a non-zero
\* FinishedAt", and RunFailed its error too.
TerminalIsStamped ==
  \A r \in Runs : store[r].status \in Terminal =>
    store[r].finished /\ (store[r].status = "failed" => store[r].error)

\* No step of a finished run is left running: a failure waits for its siblings.
NoStepLeftRunning ==
  \A r \in Runs : store[r].status \in Terminal =>
    \A s \in Steps : store[r].steps[s] # "running"

\* A step runs only after everything it depends on completed, and a run
\* completes only with all its steps.
StepsInOrder ==
  \A r \in Runs : Stored(r) =>
    /\ \A s \in Steps : store[r].steps[s] # "none" =>
         \A d \in DependsOn[s] : store[r].steps[d] = "completed"
    /\ store[r].status = "completed" =>
         \A s \in Steps : store[r].steps[s] = "completed"

\* The store, the in-flight marks and the goroutines agree at every step: a run
\* is executed once and in order, and a finished one is stamped with no step running.
RunsAreCoherent ==
  TypeOK /\ InFlightMatches /\ ExecutedOnce /\ TerminalIsStamped /\ NoStepLeftRunning /\ StepsInOrder

\* A deleted run never comes back, whatever its goroutines still write.
DeletedStaysDeleted ==
  [][\A r \in minted : store[r] = Absent => store'[r] = Absent]_vars

\* A finished run is never changed again; it can only be deleted.
TerminalIsFinal ==
  [][\A r \in Runs : store[r].status \in Terminal => store'[r] \in {store[r], Absent}]_vars

\* Neither a deletion nor an outcome is undone by a goroutine that works from an
\* older copy of the run.
SettledRunsStay == DeletedStaysDeleted /\ TerminalIsFinal

\* A submitted run is eventually finished or deleted, unless the scheduler stops.
PendingRunsEnd ==
  \A r \in Runs : store[r].status = "pending" ~>
    store[r].status \in Terminal \cup {"absent"} \/ cancelled

\* A running run is finished (or deleted) even when the scheduler stops.
RunningRunsEnd ==
  \A r \in Runs : store[r].status = "running" ~>
    store[r].status \in Terminal \cup {"absent"}

\* No run is stuck, with one slot to wait for and deletes and a shutdown at any time.
RunsEnd == PendingRunsEnd /\ RunningRunsEnd

\* Every run settles once: it ends and then neither revives, changes its result
\* nor is re-created after a delete (executeRun, failRun, UpdateStepState).
RunsSettle == SettledRunsStay /\ RunsEnd
=============================================================================
