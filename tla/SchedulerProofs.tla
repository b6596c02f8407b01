--------------------------- MODULE SchedulerProofs ---------------------------
(***************************************************************************)
(* Runs are executed once, in order and to a stamped end, for every plan   *)
(* and any number of runs, goroutines and delete requests.                 *)
(***************************************************************************)
EXTENDS Scheduler, TLAPS

RunRecords ==
  [status : {"pending", "running"} \cup Terminal, finished : BOOLEAN,
   error : BOOLEAN, steps : [Steps -> {"none", "running"} \cup Terminal]]
GoRecords ==
  [pc : Pcs, run : Runs, stage : 0..Len(Stages),
   steps : [Steps -> StepPcs], outputs : SUBSET Names]

\* A goroutine between its look at the run and the end of its writes.
Early   == {"spawned", "loading", "planning", "starting"}
Failing == {"stamp_failed", "error", "mark_failed"}
Ending  == {"stamp_completed", "mark_completed"}
Working == {"planning", "starting", "between", "stage"} \cup Failing \cup Ending

\* What the store says of a step whose goroutine is at p.
View(p) == CASE p = "idle" -> "none"
             [] p \in {"started", "resolved", "unresolved"} -> "running"
             [] p \in {"stored", "done"} -> "completed"
             [] p = "failed" -> "failed"

\* Where the steps of g are, for the place g is at.
Progress(g) ==
  /\ go[g].pc \in Early =>
       go[g].stage = 0 /\ \A s \in Steps : go[g].steps[s] = "idle"
  /\ go[g].pc \in {"between", "stage"} =>
       \A j \in 1..Len(Stages) : \A s \in Stages[j] :
         /\ j < go[g].stage => go[g].steps[s] = "done"
         /\ j > go[g].stage => go[g].steps[s] = "idle"
         /\ go[g].pc = "between" /\ j = go[g].stage => go[g].steps[s] = "done"
  /\ go[g].pc = "stage" => go[g].stage >= 1
  /\ go[g].pc \in Ending => \A s \in Steps : go[g].steps[s] = "done"
  /\ go[g].pc \in Failing => \A s \in Steps : go[g].steps[s] \in {"idle", "done", "failed"}

\* What the store says of the run g works on, unless it was deleted.
Agrees(g) ==
  LET r == go[g].run IN
  /\ go[g].pc \in {"planning", "starting"} => store[r].status = "pending"
  /\ go[g].pc \in {"between", "stage"} \cup Ending => store[r].status = "running"
  /\ go[g].pc \in Failing => store[r].status \in {"pending", "running"}
  /\ \A s \in Steps : store[r].steps[s] = View(go[g].steps[s])
  /\ go[g].pc \in {"error", "mark_failed", "mark_completed"} => store[r].finished
  /\ go[g].pc = "mark_failed" => store[r].error

GoInv(g) ==
  Busy(g) => /\ go[g].run \in minted /\ Progress(g)
             /\ go[g].pc \in Working /\ Stored(go[g].run) => Agrees(g)

RunInv(r) ==
  /\ executions[r] <= 1
  /\ r \notin minted => store[r] = Absent /\ executions[r] = 0
  /\ store[r].status = "pending" =>
       executions[r] = 0 /\ \A s \in Steps : store[r].steps[s] = "none"
  /\ store[r].status \in Terminal =>
       /\ store[r].finished /\ (store[r].status = "failed" => store[r].error)
       /\ \A s \in Steps : store[r].steps[s] # "running"
  /\ Stored(r) =>
       /\ \A s \in Steps : store[r].steps[s] # "none" =>
            \A d \in DependsOn[s] : store[r].steps[d] = "completed"
       /\ store[r].status = "completed" => \A s \in Steps : store[r].steps[s] = "completed"

\* The inductive invariant of the scheduler.
SchedulerInv ==
  /\ TypeOK /\ InFlightMatches /\ polled \subseteq minted
  /\ \A g \in Goroutines : GoInv(g)
  /\ \A r \in Runs : RunInv(r)

-----------------------------------------------------------------------------
\* The types, run by run and goroutine by goroutine.
LEMMA RecordTypes ==
  ASSUME TypeOK
  PROVE  /\ store \in [Runs -> {Absent} \cup RunRecords]
         /\ go \in [Goroutines -> {Free} \cup GoRecords]
         /\ \A r \in Runs : Stored(r) <=> store[r] \in RunRecords
         /\ \A g \in Goroutines : Busy(g) <=> go[g] \in GoRecords
<1>1. /\ store \in [Runs -> {Absent} \cup RunRecords]
      /\ go \in [Goroutines -> {Free} \cup GoRecords]
  BY DEF TypeOK, RunRecords, GoRecords
<1>2. Absent \notin RunRecords
  BY DEF Absent, RunRecords, Terminal
<1>3. Free \notin GoRecords
  BY DEF Free, GoRecords, Pcs
<1> QED
  BY <1>1, <1>2, <1>3 DEF Stored, Busy

\* A goroutine is busy as soon as it is anywhere.
LEMMA PcBusy ==
  ASSUME NEW g \in Goroutines, go[g].pc # "free"
  PROVE  Busy(g)
BY DEF Busy, Free

\* Only g and the run it works on move.
Works(g, r) ==
  /\ Busy(g) /\ go[g].run = r /\ Busy(g)' /\ go'[g].run = r
  /\ \A h \in Goroutines \ {g} : go'[h] = go[h]
  /\ \A k \in Runs \ {r} : store'[k] = store[k] /\ executions'[k] = executions[k]
  /\ UNCHANGED <<minted, polled, inFlight>>

\* Then nothing is to be shown of the others.
LEMMA WorkFrame ==
  ASSUME SchedulerInv, NEW g \in Goroutines, NEW r \in Runs, Works(g, r),
         TypeOK', GoInv(g)', RunInv(r)'
  PROVE  SchedulerInv'
<1>1. \A h \in Goroutines : Busy(h)' <=> Busy(h)
  BY DEF Works, Busy
<1>2. \A h \in Goroutines : Busy(h) => go'[h].run = go[h].run
  BY DEF Works
<1>3. InFlightMatches'
  <2>1. {go'[h].run : h \in {f \in Goroutines : Busy(f)'}} = {go[h].run : h \in {f \in Goroutines : Busy(f)}}
    BY <1>1, <1>2
  <2> QED
    BY <1>1, <1>2, <2>1 DEF InFlightMatches, SchedulerInv, Works
<1>4. ASSUME NEW h \in Goroutines \ {g} PROVE GoInv(h)'
  <2>1. GoInv(h) /\ go'[h] = go[h] /\ UNCHANGED minted
    BY DEF SchedulerInv, Works
  <2>2. CASE ~Busy(h)
    BY <1>1, <2>2 DEF GoInv
  <2>3. CASE Busy(h)
    <3>1. go[h].run # r /\ go[h].run \in Runs
      BY <2>3, RecordTypes DEF SchedulerInv, InFlightMatches, Works, GoRecords
    <3>2. store'[go[h].run] = store[go[h].run]
      BY <3>1 DEF Works
    <3> QED
      BY <2>1, <2>3, <3>2 DEF GoInv, Progress, Agrees, Busy, Stored
  <2> QED
    BY <2>2, <2>3
<1>5. ASSUME NEW k \in Runs \ {r} PROVE RunInv(k)'
  BY DEF SchedulerInv, RunInv, Works, Stored
<1> QED
  BY <1>3, <1>4, <1>5 DEF SchedulerInv, Works

-----------------------------------------------------------------------------
\* Steps of a goroutine that write nothing into the store.

Moves(g) ==
  /\ Busy(g) /\ UNCHANGED <<store, executions, minted, polled, inFlight>>
  /\ go'[g] \in GoRecords /\ go'[g].run = go[g].run
  /\ \A h \in Goroutines \ {g} : go'[h] = go[h]

LEMMA MoveFrame ==
  ASSUME SchedulerInv, NEW g \in Goroutines, Moves(g), TypeOK',
         Progress(g)', go'[g].pc \in Working /\ Stored(go[g].run) => Agrees(g)'
  PROVE  SchedulerInv'
<1>1. Busy(g)' /\ go[g].run \in Runs
  BY RecordTypes DEF Moves, Busy, Free, GoRecords, Pcs, SchedulerInv
<1>2. Works(g, go[g].run)
  BY <1>1 DEF Works, Moves
<1>3. GoInv(g)'
  BY <1>1 DEF GoInv, Moves, SchedulerInv, Stored
<1>4. \A r \in Runs : RunInv(r)'
  BY DEF SchedulerInv, RunInv, Moves, Stored
<1> QED
  BY <1>1, <1>2, <1>3, <1>4, WorkFrame

\* The place of a goroutine changes and nothing else.
LEMMA GotoMoves ==
  ASSUME SchedulerInv, NEW g \in Goroutines, Busy(g), NEW p \in Pcs, Goto(g, p),
         UNCHANGED <<store, executions, minted, polled, inFlight>>
  PROVE  /\ Moves(g) /\ go' \in [Goroutines -> {Free} \cup GoRecords]
         /\ go'[g].pc = p /\ go'[g].stage = go[g].stage /\ go'[g].steps = go[g].steps
<1>1. /\ go \in [Goroutines -> {Free} \cup GoRecords] /\ go[g] \in GoRecords
  BY RecordTypes DEF SchedulerInv
<1>2. /\ go'[g] \in GoRecords /\ go'[g].run = go[g].run /\ go'[g].pc = p
      /\ go'[g].stage = go[g].stage /\ go'[g].steps = go[g].steps
      /\ \A h \in Goroutines \ {g} : go'[h] = go[h]
      /\ go' \in [Goroutines -> {Free} \cup GoRecords]
  BY <1>1 DEF Goto, GoRecords
<1> QED
  BY <1>2 DEF Moves

LEMMA Views ==
  /\ View("idle") = "none"
  /\ \A p \in {"started", "resolved", "unresolved"} : View(p) = "running"
  /\ \A p \in {"stored", "done"} : View(p) = "completed"
  /\ View("failed") = "failed"
BY DEF View

\* Every step of the plan is in one of its stages.
LEMMA StageOfStep ==
  /\ Len(Stages) \in Nat /\ \A j \in 1..Len(Stages) : Stages[j] \subseteq Steps
  /\ \A s \in Steps : \E j \in 1..Len(Stages) : s \in Stages[j]
  /\ \A s \in Steps : DependsOn[s] \subseteq Steps
BY PlanAssumption

\* To and from the slot, the sealed logs, and the guards of executeRun.
LEMMA PlainMoves ==
  ASSUME SchedulerInv, NEW g \in Goroutines,
         AcquireSlot(g) \/ ReleaseSlot(g) \/ SealRunLogs(g) \/ PlanRun(g) \/ LoadRun(g)
  PROVE  SchedulerInv'
<1>0. TypeOK /\ UNCHANGED <<store, executions, minted, deleting, cancelled, looping, polled, inFlight>>
  BY DEF SchedulerInv, AcquireSlot, ReleaseSlot, SealRunLogs, PlanRun, LoadRun, quiet, restVars
<1>1. Busy(g) /\ GoInv(g) /\ Progress(g)
  <2>1. Busy(g)
    BY PcBusy DEF AcquireSlot, ReleaseSlot, SealRunLogs, PlanRun, LoadRun
  <2> QED
    BY <2>1 DEF SchedulerInv, GoInv
<1>2. go[g] \in GoRecords /\ go[g].run \in Runs
  BY <1>0, <1>1, RecordTypes DEF GoRecords
<1>3. sem' \subseteq Goroutines /\ sealed' \subseteq Runs
  BY <1>0, <1>2 DEF TypeOK, AcquireSlot, ReleaseSlot, SealRunLogs, PlanRun, LoadRun, quiet
<1>4. PICK p \in Pcs : Goto(g, p)
        /\ \/ p = "loading" /\ go[g].pc = "spawned"
           \/ p \in {"unmarking", "leaving"}
           \/ p \in {"starting", "stamp_failed"} /\ go[g].pc = "planning"
           \/ p = "planning" /\ go[g].pc = "loading" /\ store[go[g].run].status = "pending"
  BY DEF AcquireSlot, ReleaseSlot, SealRunLogs, PlanRun, LoadRun, Pcs
<1>5. /\ Moves(g) /\ go' \in [Goroutines -> {Free} \cup GoRecords]
      /\ go'[g].pc = p /\ go'[g].stage = go[g].stage /\ go'[g].steps = go[g].steps
      /\ go'[g].run = go[g].run
  BY <1>0, <1>1, <1>4, GotoMoves DEF Moves
<1>6. TypeOK'
  BY <1>0, <1>3, <1>5 DEF TypeOK, GoRecords
<1>7. Progress(g)'
  BY <1>1, <1>4, <1>5 DEF Progress, Early, Failing, Ending
<1>8. ASSUME go'[g].pc \in Working, Stored(go[g].run) PROVE Agrees(g)'
  <2>1. CASE go[g].pc = "planning" /\ p \in {"starting", "stamp_failed"}
    <3>1. Agrees(g)
      BY <1>1, <1>8, <2>1 DEF GoInv, Working
    <3> QED
      BY <1>0, <1>5, <2>1, <3>1 DEF Agrees, Failing, Ending
  <2>2. CASE p = "planning" /\ go[g].pc = "loading" /\ store[go[g].run].status = "pending"
    <3>1. RunInv(go[g].run)
      BY <1>2 DEF SchedulerInv
    <3>2. \A s \in Steps : store[go[g].run].steps[s] = "none" /\ go[g].steps[s] = "idle"
      BY <1>1, <2>2, <3>1 DEF RunInv, Progress, Early
    <3> QED
      BY <1>0, <1>5, <2>2, <3>2, Views DEF Agrees, Failing, Ending
  <2> QED
    BY <1>4, <1>5, <1>8, <2>1, <2>2 DEF Working, Failing, Ending
<1> QED
  BY <1>5, <1>6, <1>7, <1>8, MoveFrame

\* The head of the stage loop.
LEMMA NextStageMoves ==
  ASSUME SchedulerInv, NEW g \in Goroutines, NextStage(g)
  PROVE  SchedulerInv'
<1>0. /\ TypeOK /\ go[g].pc = "between"
      /\ UNCHANGED <<store, executions, minted, deleting, cancelled, looping, polled, inFlight, sem, sealed>>
  BY DEF SchedulerInv, NextStage, quiet, restVars
<1>1. Busy(g) /\ GoInv(g) /\ Progress(g) /\ (Stored(go[g].run) => Agrees(g))
  BY <1>0, PcBusy DEF SchedulerInv, GoInv, Working
<1>2. go[g] \in GoRecords /\ go[g].stage \in 0..Len(Stages) /\ go \in [Goroutines -> {Free} \cup GoRecords]
  BY <1>0, <1>1, RecordTypes DEF GoRecords
<1>3. ASSUME NEW p \in {"stamp_completed", "stamp_failed"}, Goto(g, p),
             p = "stamp_completed" => go[g].stage + 1 > Len(Stages)
      PROVE  SchedulerInv'
  <2>1. /\ Moves(g) /\ go' \in [Goroutines -> {Free} \cup GoRecords]
        /\ go'[g].pc = p /\ go'[g].steps = go[g].steps /\ go'[g].run = go[g].run
    BY <1>0, <1>1, <1>3, GotoMoves DEF Moves, Pcs
  <2>2. TypeOK'
    BY <1>0, <2>1 DEF TypeOK, GoRecords
  <2>3. \A s \in Steps : go[g].steps[s] \in {"done", "idle"}
    BY <1>0, <1>1, <1>2, StageOfStep DEF Progress
  <2>4. p = "stamp_completed" => \A s \in Steps : go[g].steps[s] = "done"
    BY <1>0, <1>1, <1>2, <1>3, StageOfStep DEF Progress
  <2>5. Progress(g)'
    BY <2>1, <2>3, <2>4 DEF Progress, Early, Failing, Ending
  <2>6. Stored(go[g].run) => Agrees(g)'
    BY <1>0, <1>1, <2>1 DEF Agrees, Failing, Ending
  <2> QED
    BY <2>1, <2>2, <2>5, <2>6, MoveFrame
<1>4. ASSUME go[g].stage + 1 <= Len(Stages),
             go' = [go EXCEPT ![g].pc = "stage", ![g].stage = go[g].stage + 1]
      PROVE  SchedulerInv'
  <2>0. "stage" \in Pcs /\ go[g].stage + 1 \in 0..Len(Stages)
    BY <1>2, <1>4, StageOfStep DEF Pcs
  <2>1. /\ go'[g] \in GoRecords /\ go' \in [Goroutines -> {Free} \cup GoRecords]
        /\ go'[g].pc = "stage" /\ go'[g].stage = go[g].stage + 1
        /\ go'[g].steps = go[g].steps /\ go'[g].run = go[g].run
        /\ \A h \in Goroutines \ {g} : go'[h] = go[h]
    BY <1>2, <1>4, <2>0 DEF GoRecords
  <2>2. Moves(g)
    BY <1>0, <1>1, <2>1 DEF Moves
  <2>3. TypeOK'
    BY <1>0, <2>1 DEF TypeOK, GoRecords
  <2>4. Progress(g)'
    BY <1>0, <1>1, <1>2, <2>1, StageOfStep DEF Progress, Early, Failing, Ending
  <2>5. Stored(go[g].run) => Agrees(g)'
    BY <1>0, <1>1, <2>1 DEF Agrees, Failing, Ending
  <2> QED
    BY <2>2, <2>3, <2>4, <2>5, MoveFrame
<1> QED
  BY <1>3, <1>4 DEF NextStage

\* wg.Wait.
LEMMA EndStageMoves ==
  ASSUME SchedulerInv, NEW g \in Goroutines, EndStage(g)
  PROVE  SchedulerInv'
<1>0. /\ TypeOK /\ go[g].pc = "stage"
      /\ UNCHANGED <<store, executions, minted, deleting, cancelled, looping, polled, inFlight, sem, sealed>>
  BY DEF SchedulerInv, EndStage, quiet, restVars
<1>1. Busy(g) /\ GoInv(g) /\ Progress(g) /\ (Stored(go[g].run) => Agrees(g))
  BY <1>0, PcBusy DEF SchedulerInv, GoInv, Working
<1>2. go[g] \in GoRecords /\ go[g].stage \in 1..Len(Stages)
  BY <1>0, <1>1, RecordTypes, StageOfStep DEF GoRecords, Progress
<1>3. PICK p \in {"stamp_failed", "between"} :
        /\ Goto(g, p)
        /\ \A s \in Stages[go[g].stage] : go[g].steps[s] \in {"done", "failed"}
        /\ p = "between" => \A s \in Stages[go[g].stage] : go[g].steps[s] = "done"
  BY DEF EndStage
<1>4. /\ Moves(g) /\ go' \in [Goroutines -> {Free} \cup GoRecords]
      /\ go'[g].pc = p /\ go'[g].steps = go[g].steps /\ go'[g].run = go[g].run
      /\ go'[g].stage = go[g].stage
  BY <1>0, <1>1, <1>3, GotoMoves DEF Moves, Pcs
<1>5. TypeOK'
  BY <1>0, <1>4 DEF TypeOK, GoRecords
<1>6. \A s \in Steps : go[g].steps[s] \in {"idle", "done", "failed"}
  BY <1>0, <1>1, <1>2, <1>3, StageOfStep DEF Progress
<1>7. Progress(g)'
  BY <1>0, <1>1, <1>2, <1>3, <1>4, <1>6 DEF Progress, Early, Failing, Ending
<1>8. Stored(go[g].run) => Agrees(g)'
  BY <1>0, <1>1, <1>4 DEF Agrees, Failing, Ending
<1> QED
  BY <1>4, <1>5, <1>7, <1>8, MoveFrame

-----------------------------------------------------------------------------
\* Steps of a stage.

\* What a step at place p of its goroutine leaves of g.
LEMMA StepFields ==
  ASSUME TypeOK, NEW g \in Goroutines, NEW s \in Steps, NEW p \in StepPcs, Busy(g),
         \/ StepGoto(g, s, p)
         \/ \E o \in SUBSET Names : go' = [go EXCEPT ![g].steps[s] = p, ![g].outputs = o]
  PROVE  /\ go'[g] \in GoRecords /\ go' \in [Goroutines -> {Free} \cup GoRecords]
         /\ go'[g].pc = go[g].pc /\ go'[g].stage = go[g].stage /\ go'[g].run = go[g].run
         /\ go'[g].steps[s] = p /\ \A k \in Steps \ {s} : go'[g].steps[k] = go[g].steps[k]
         /\ \A h \in Goroutines \ {g} : go'[h] = go[h]
<1>1. go[g] \in GoRecords /\ go \in [Goroutines -> {Free} \cup GoRecords]
  BY RecordTypes
<1>2. CASE StepGoto(g, s, p)
  BY <1>1, <1>2 DEF StepGoto, GoRecords
<1>3. CASE \E o \in SUBSET Names : go' = [go EXCEPT ![g].steps[s] = p, ![g].outputs = o]
  <2>1. PICK o \in SUBSET Names : go' = [go EXCEPT ![g].steps[s] = p, ![g].outputs = o]
    BY <1>3
  <2> DEFINE new == [go[g] EXCEPT !.steps[s] = p, !.outputs = o]
  <2>2. /\ new \in GoRecords /\ new.pc = go[g].pc /\ new.stage = go[g].stage /\ new.run = go[g].run
        /\ new.steps[s] = p /\ \A k \in Steps \ {s} : new.steps[k] = go[g].steps[k]
    BY <1>1 DEF GoRecords
  <2>3. go' = [go EXCEPT ![g] = new]
    BY <1>1, <2>1 DEF GoRecords
  <2> HIDE DEF new
  <2> QED
    BY <1>1, <2>2, <2>3
<1> QED
  BY <1>2, <1>3

\* A step of the stage at hand moves; the other stages stay done or idle.
LEMMA StepProgress ==
  ASSUME NEW g \in Goroutines, Progress(g), go[g].pc = "stage", go[g].stage \in 1..Len(Stages),
         NEW s \in Stages[go[g].stage],
         go'[g].pc = "stage", go'[g].stage = go[g].stage,
         \A k \in Steps \ {s} : go'[g].steps[k] = go[g].steps[k]
  PROVE  Progress(g)'
<1>1. \A j \in 1..Len(Stages) : s \in Stages[j] => j = go[g].stage
  BY PlanAssumption
<1>2. \A j \in 1..Len(Stages) : \A k \in Stages[j] :
        j # go[g].stage => go'[g].steps[k] = go[g].steps[k]
  BY <1>1, StageOfStep
<1> QED
  BY <1>2 DEF Progress, Early, Failing, Ending

\* What a step in the stage at hand may rely on.
LEMMA StepContext ==
  ASSUME SchedulerInv, NEW g \in Goroutines, NEW s, NEW p, StepAt(g, s, p)
  PROVE  /\ TypeOK /\ Busy(g) /\ go[g].pc = "stage" /\ go[g] \in GoRecords /\ go[g].run \in Runs
         /\ go[g].stage \in 1..Len(Stages) /\ s \in Stages[go[g].stage] /\ s \in Steps
         /\ go[g].steps[s] = p /\ Progress(g) /\ go[g].run \in minted
         /\ Stored(go[g].run) => Agrees(g)
         /\ \A d \in DependsOn[s] : d # s /\ d \in Steps /\ go[g].steps[d] = "done"
<1>1. TypeOK /\ go[g].pc = "stage" /\ s \in Stages[go[g].stage] /\ go[g].steps[s] = p
  BY DEF SchedulerInv, StepAt
<1>2. Busy(g) /\ Progress(g) /\ go[g].run \in minted /\ (Stored(go[g].run) => Agrees(g))
  BY <1>1, PcBusy DEF SchedulerInv, GoInv, Working
<1>3. go[g] \in GoRecords /\ go[g].run \in Runs /\ go[g].stage \in 0..Len(Stages)
  BY <1>1, <1>2, RecordTypes DEF GoRecords
<1>4. go[g].stage \in 1..Len(Stages)
  BY <1>1, <1>2, <1>3, StageOfStep DEF Progress
<1>5. s \in Steps
  BY <1>1, <1>4, StageOfStep
<1>6. ASSUME NEW d \in DependsOn[s] PROVE d # s /\ d \in Steps /\ go[g].steps[d] = "done"
  <2>1. PICK j \in 1..(go[g].stage - 1) : d \in Stages[j]
    BY <1>1, <1>4, PlanAssumption
  <2>2. j \in 1..Len(Stages) /\ j < go[g].stage
    BY <1>4, <2>1, StageOfStep
  <2>3. go[g].steps[d] = "done"
    BY <1>1, <1>2, <2>1, <2>2 DEF Progress
  <2>4. d # s
    BY <1>1, <1>4, <2>1, <2>2, PlanAssumption
  <2> QED
    BY <1>5, <2>3, <2>4, StageOfStep
<1> QED
  BY <1>1, <1>2, <1>3, <1>4, <1>5, <1>6

\* ResolveInputs and PublishOutput leave the store alone.
LEMMA InnerStepMoves ==
  ASSUME SchedulerInv, NEW g \in Goroutines, NEW s \in Steps, ResolveInputs(g, s) \/ PublishOutput(g, s)
  PROVE  SchedulerInv'
<1>0. UNCHANGED <<store, executions, minted, deleting, cancelled, looping, polled, inFlight, sem, sealed>>
  BY DEF ResolveInputs, PublishOutput, quiet, restVars
<1>1. PICK q : StepAt(g, s, q) /\ q \in {"started", "stored"}
  BY DEF ResolveInputs, PublishOutput
<1>2. /\ TypeOK /\ Busy(g) /\ go[g].pc = "stage" /\ go[g] \in GoRecords /\ go[g].run \in Runs
      /\ go[g].stage \in 1..Len(Stages) /\ s \in Stages[go[g].stage]
      /\ go[g].steps[s] = q /\ Progress(g) /\ (Stored(go[g].run) => Agrees(g))
  BY <1>1, StepContext
<1>3. PICK p \in StepPcs :
        /\ View(p) = View(q)
        /\ \/ StepGoto(g, s, p)
           \/ \E o \in SUBSET Names : go' = [go EXCEPT ![g].steps[s] = p, ![g].outputs = o]
  <2>1. CASE ResolveInputs(g, s)
    <3>1. q = "started" /\ \E p \in {"resolved", "unresolved"} : StepGoto(g, s, p)
      BY <1>2, <2>1 DEF ResolveInputs, StepAt
    <3> QED
      BY <3>1, Views DEF StepPcs
  <2>2. CASE PublishOutput(g, s)
    <3> DEFINE o == go[g].outputs \cup ({OutputKey[s]} \ {NoName})
    <3>1. q = "stored" /\ go' = [go EXCEPT ![g].steps[s] = "done", ![g].outputs = o]
      BY <1>2, <2>2 DEF PublishOutput, StepAt
    <3>2. o \in SUBSET Names
      BY <1>2, TemplateAssumption DEF GoRecords
    <3> QED
      BY <3>1, <3>2, Views DEF StepPcs
  <2> QED
    BY <2>1, <2>2
<1>4. /\ go'[g] \in GoRecords /\ go' \in [Goroutines -> {Free} \cup GoRecords]
      /\ go'[g].pc = go[g].pc /\ go'[g].stage = go[g].stage /\ go'[g].run = go[g].run
      /\ go'[g].steps[s] = p /\ \A k \in Steps \ {s} : go'[g].steps[k] = go[g].steps[k]
      /\ \A h \in Goroutines \ {g} : go'[h] = go[h]
  BY <1>2, <1>3, StepFields
<1>5. Moves(g)
  BY <1>0, <1>2, <1>4 DEF Moves
<1>6. TypeOK'
  BY <1>0, <1>2, <1>4 DEF TypeOK, GoRecords
<1>7. Progress(g)'
  BY <1>2, <1>4, StepProgress
<1>8. Stored(go[g].run) => Agrees(g)'
  BY <1>0, <1>2, <1>3, <1>4 DEF Agrees, Failing, Ending
<1> QED
  BY <1>5, <1>6, <1>7, <1>8, MoveFrame

-----------------------------------------------------------------------------
\* Steps of a goroutine that write into its run.

\* The written run, when it is still there; nothing is written otherwise.
Wrote(r, rec) ==
  store' = IF Stored(r) THEN [store EXCEPT ![r] = rec] ELSE store

LEMMA WroteFields ==
  ASSUME TypeOK, NEW r \in Runs, NEW rec, Stored(r) => rec \in RunRecords, Wrote(r, rec)
  PROVE  /\ store' \in [Runs -> {Absent} \cup RunRecords]
         /\ Stored(r)' <=> Stored(r)
         /\ Stored(r) => store'[r] = rec
         /\ ~Stored(r) => store'[r] = store[r]
         /\ \A k \in Runs \ {r} : store'[k] = store[k]
<1>1. store \in [Runs -> {Absent} \cup RunRecords]
  BY RecordTypes
<1>2. Absent \notin RunRecords
  BY DEF Absent, RunRecords, Terminal
<1> QED
  BY <1>1, <1>2 DEF Wrote, Stored

\* StartStep, StepFails and StepReturns.
LEMMA StepWrites ==
  ASSUME SchedulerInv, NEW g \in Goroutines, NEW s \in Steps, NEW q, NEW p \in StepPcs,
         StepAt(g, s, q), View(q) # "completed", View(p) \in {"running"} \cup Terminal,
         UpdateStepState(go[g].run, s, View(p)), StepGoto(g, s, p),
         UNCHANGED <<quiet, executions, sealed>>
  PROVE  SchedulerInv'
<1>r. PICK r \in Runs : r = go[g].run
  BY StepContext
<1> DEFINE rec == [store[r] EXCEPT !.steps[s] = View(p)]
<1>0. UNCHANGED <<executions, minted, deleting, cancelled, looping, polled, inFlight, sem, sealed>>
  BY DEF quiet, restVars
<1>1. /\ TypeOK /\ Busy(g) /\ go[g].pc = "stage" /\ go[g] \in GoRecords /\ r \in Runs
      /\ go[g].stage \in 1..Len(Stages) /\ s \in Stages[go[g].stage]
      /\ go[g].steps[s] = q /\ Progress(g) /\ r \in minted /\ (Stored(r) => Agrees(g))
      /\ \A d \in DependsOn[s] : d # s /\ d \in Steps /\ go[g].steps[d] = "done"
  BY <1>r, StepContext
<1>2. Stored(r) => store[r] \in RunRecords
  BY <1>1, RecordTypes
<1>3. Stored(r) => /\ rec \in RunRecords /\ rec.status = store[r].status
                   /\ rec.finished = store[r].finished /\ rec.error = store[r].error
                   /\ rec.steps[s] = View(p)
                   /\ \A k \in Steps \ {s} : rec.steps[k] = store[r].steps[k]
  BY <1>2 DEF RunRecords
<1>4. Wrote(r, rec)
  BY <1>r, <1>1, <1>2, RecordTypes DEF UpdateStepState, Wrote, RunRecords
<1> HIDE DEF rec
<1>5. /\ store' \in [Runs -> {Absent} \cup RunRecords]
      /\ Stored(r)' <=> Stored(r)
      /\ Stored(r) => store'[r] = rec
      /\ ~Stored(r) => store'[r] = store[r]
      /\ \A k \in Runs \ {r} : store'[k] = store[k]
  BY <1>1, <1>3, <1>4, WroteFields
<1>6. /\ go'[g] \in GoRecords /\ go' \in [Goroutines -> {Free} \cup GoRecords]
      /\ go'[g].pc = go[g].pc /\ go'[g].stage = go[g].stage /\ go'[g].run = r
      /\ go'[g].steps[s] = p /\ \A k \in Steps \ {s} : go'[g].steps[k] = go[g].steps[k]
      /\ \A h \in Goroutines \ {g} : go'[h] = go[h]
  BY <1>r, <1>1, StepFields
<1>7. TypeOK'
  BY <1>0, <1>1, <1>5, <1>6 DEF TypeOK, RunRecords, GoRecords
<1>8. Busy(g)'
  BY <1>6 DEF Busy, Free, GoRecords, Pcs
<1>9. Works(g, r)
  BY <1>r, <1>0, <1>1, <1>5, <1>6, <1>8 DEF Works
<1>10. Progress(g)'
  BY <1>1, <1>6, StepProgress
<1>11. ASSUME Stored(r) PROVE Agrees(g)'
  <2>1. Agrees(g) /\ store'[r] = rec
    BY <1>1, <1>5, <1>11
  <2>2. \A k \in Steps : rec.steps[k] = View(go'[g].steps[k])
    BY <1>r, <1>3, <1>6, <1>11, <2>1 DEF Agrees
  <2> QED
    BY <1>r, <1>1, <1>3, <1>6, <1>11, <2>1, <2>2 DEF Agrees, Failing, Ending
<1>12. GoInv(g)'
  BY <1>0, <1>1, <1>5, <1>6, <1>10, <1>11 DEF GoInv, Stored
<1>13. RunInv(r)'
  <2>1. RunInv(r)
    BY <1>1 DEF SchedulerInv
  <2>2. CASE ~Stored(r)
    BY <1>0, <1>1, <1>5, <2>1, <2>2 DEF RunInv, Stored
  <2>3. CASE Stored(r)
    <3>1. store[r].status = "running" /\ store'[r] = rec /\ rec.status = "running"
      BY <1>r, <1>1, <1>3, <1>5, <2>3 DEF Agrees
    <3>2. store[r].steps[s] # "completed"
      BY <1>r, <1>1, <2>3 DEF Agrees
    <3>3. \A d \in DependsOn[s] : rec.steps[d] = "completed"
      BY <1>r, <1>1, <1>3, <2>3, Views DEF Agrees
    <3>4. ASSUME NEW k \in Steps \ {s}, rec.steps[k] # "none", NEW d \in DependsOn[k]
          PROVE  rec.steps[d] = "completed"
      <4>1. store[r].steps[d] = "completed" /\ d \in Steps
        BY <1>3, <2>1, <2>3, <3>4, StageOfStep DEF RunInv
      <4> QED
        BY <1>3, <2>3, <3>2, <4>1
    <3> QED
      BY <1>0, <1>1, <2>1, <3>1, <3>3, <3>4 DEF RunInv, Terminal
  <2> QED
    BY <2>2, <2>3
<1> QED
  BY <1>1, <1>7, <1>9, <1>12, <1>13, WorkFrame

\* A write to the run itself, after which g stands at p.
RunWrite(g, r, rec, p) ==
  /\ Busy(g) /\ go[g].run = r /\ Goto(g, p) /\ UNCHANGED <<quiet, sealed>>
  /\ Stored(r) => rec \in RunRecords
  /\ Wrote(r, rec)
  /\ executions' \in [Runs -> Nat] /\ \A k \in Runs \ {r} : executions'[k] = executions[k]

LEMMA WriteFields ==
  ASSUME SchedulerInv, NEW g \in Goroutines, NEW r \in Runs, NEW rec, NEW p \in Pcs,
         RunWrite(g, r, rec, p)
  PROVE  /\ TypeOK' /\ Works(g, r)
         /\ go'[g].pc = p /\ go'[g].stage = go[g].stage /\ go'[g].steps = go[g].steps
         /\ go'[g].run = r /\ UNCHANGED minted /\ r \in minted
         /\ Stored(r)' <=> Stored(r)
         /\ Stored(r) => store'[r] = rec
         /\ ~Stored(r) => store'[r] = store[r]
<1>0. /\ UNCHANGED <<minted, deleting, cancelled, looping, polled, inFlight, sem, sealed>>
      /\ TypeOK /\ r \in minted
  BY DEF RunWrite, quiet, restVars, SchedulerInv, GoInv
<1>1. /\ go \in [Goroutines -> {Free} \cup GoRecords] /\ go[g] \in GoRecords
  BY <1>0, RecordTypes DEF RunWrite
<1>2. /\ go'[g] \in GoRecords /\ go'[g].run = r /\ go'[g].pc = p
      /\ go'[g].stage = go[g].stage /\ go'[g].steps = go[g].steps
      /\ \A h \in Goroutines \ {g} : go'[h] = go[h]
      /\ go' \in [Goroutines -> {Free} \cup GoRecords]
  BY <1>1 DEF RunWrite, Goto, GoRecords
<1>3. /\ store' \in [Runs -> {Absent} \cup RunRecords]
      /\ Stored(r)' <=> Stored(r)
      /\ Stored(r) => store'[r] = rec
      /\ ~Stored(r) => store'[r] = store[r]
      /\ \A k \in Runs \ {r} : store'[k] = store[k]
  BY <1>0, WroteFields DEF RunWrite
<1>4. TypeOK'
  BY <1>0, <1>2, <1>3 DEF TypeOK, RunRecords, GoRecords, RunWrite
<1>5. Busy(g)'
  BY <1>2 DEF Busy, Free, GoRecords, Pcs
<1> QED
  BY <1>0, <1>2, <1>3, <1>4, <1>5 DEF Works, RunWrite

\* The run is set Running, or was deleted meanwhile.
LEMMA StartRunWrites ==
  ASSUME SchedulerInv, NEW g \in Goroutines, StartRun(g)
  PROVE  SchedulerInv'
<1>0. go[g].pc = "starting" /\ TypeOK
  BY DEF StartRun, SchedulerInv
<1>1. Busy(g) /\ Progress(g) /\ (Stored(go[g].run) => Agrees(g))
  BY <1>0, PcBusy DEF SchedulerInv, GoInv, Working
<1>2. PICK r \in Runs : r = go[g].run
  BY <1>0, <1>1, RecordTypes DEF GoRecords
<1> DEFINE rec == [store[r] EXCEPT !.status = "running"]
           p == IF Stored(r) THEN "between" ELSE "leaving"
<1>3. Stored(r) => /\ rec \in RunRecords /\ rec.status = "running" /\ rec.steps = store[r].steps
  BY <1>0, RecordTypes DEF RunRecords
<1>4. RunWrite(g, r, rec, p) /\ p \in Pcs
  <2>1. Goto(g, p) /\ UNCHANGED <<quiet, sealed>>
    BY <1>2 DEF StartRun
  <2>2. Wrote(r, rec)
    BY <1>0, <1>2, RecordTypes DEF StartRun, UpdateRunStatus, Wrote, RunRecords
  <2>3. executions' \in [Runs -> Nat] /\ \A k \in Runs \ {r} : executions'[k] = executions[k]
    BY <1>0, <1>2 DEF StartRun, TypeOK
  <2> QED
    BY <1>1, <1>2, <1>3, <2>1, <2>2, <2>3 DEF RunWrite, Pcs
<1>5. RunInv(r) /\ executions[r] \in Nat
      /\ executions'[r] = executions[r] + IF Stored(r) THEN 1 ELSE 0
  BY <1>0, <1>2 DEF SchedulerInv, StartRun, TypeOK
<1> HIDE DEF rec, p
<1>6. /\ TypeOK' /\ Works(g, r)
      /\ go'[g].pc = p /\ go'[g].stage = go[g].stage /\ go'[g].steps = go[g].steps
      /\ go'[g].run = r /\ UNCHANGED minted /\ r \in minted
      /\ Stored(r)' <=> Stored(r)
      /\ Stored(r) => store'[r] = rec
      /\ ~Stored(r) => store'[r] = store[r]
  BY <1>4, WriteFields
<1>7. go[g].stage = 0 /\ \A s \in Steps : go[g].steps[s] = "idle"
  BY <1>0, <1>1 DEF Progress, Early
<1>8. p = IF Stored(r) THEN "between" ELSE "leaving"
  BY DEF p
<1>9. Progress(g)'
  BY <1>6, <1>7, <1>8, StageOfStep DEF Progress, Early, Failing, Ending
<1>10. ASSUME Stored(r) PROVE Agrees(g)' /\ RunInv(r)'
  <2>1. /\ store[r].status = "pending" /\ executions[r] = 0
        /\ \A s \in Steps : store[r].steps[s] = "none"
    BY <1>0, <1>1, <1>2, <1>5, <1>10 DEF Agrees, RunInv
  <2>2. Agrees(g)'
    BY <1>3, <1>6, <1>7, <1>8, <1>10, <2>1, Views DEF Agrees, Failing, Ending
  <2>3. RunInv(r)'
    BY <1>3, <1>5, <1>6, <1>10, <2>1 DEF RunInv, Terminal
  <2> QED
    BY <2>2, <2>3
<1>11. ASSUME ~Stored(r) PROVE RunInv(r)'
  BY <1>5, <1>6, <1>11 DEF RunInv
<1>12. GoInv(g)'
  BY <1>6, <1>8, <1>9, <1>10 DEF GoInv, Working, Failing, Ending
<1> QED
  BY <1>6, <1>10, <1>11, <1>12, WorkFrame

\* The three writes that end a run: FinishedAt, the error, the terminal status.
LEMMA EndRunWrites ==
  ASSUME SchedulerInv, NEW g \in Goroutines,
         RecordError(g) \/ \E x \in Terminal : StampRun(g, x) \/ MarkRun(g, x)
  PROVE  SchedulerInv'
<1>0. TypeOK /\ go[g].pc \in Failing \cup Ending
  BY DEF SchedulerInv, RecordError, StampRun, MarkRun, Terminal, Failing, Ending
<1>1. Busy(g) /\ Progress(g) /\ (Stored(go[g].run) => Agrees(g))
  BY <1>0, PcBusy DEF SchedulerInv, GoInv, Working, Failing, Ending
<1>2. PICK r \in Runs : r = go[g].run
  BY <1>0, <1>1, RecordTypes DEF GoRecords
<1>3. UNCHANGED <<quiet, executions, sealed>>
  BY DEF RecordError, StampRun, MarkRun
<1>4. Stored(r) => store[r] \in RunRecords
  BY <1>0, RecordTypes
<1> DEFINE stamped == [store[r] EXCEPT !.finished = TRUE]
           blamed == [store[r] EXCEPT !.error = TRUE]
           ended(x) == [store[r] EXCEPT !.status = x]
<1>5. PICK rec, p :
        /\ Goto(g, p) /\ Wrote(r, rec)
        /\ \/ /\ go[g].pc \in {"stamp_failed", "stamp_completed"} /\ rec = stamped
              /\ p = IF go[g].pc = "stamp_failed" THEN "error" ELSE "mark_completed"
           \/ go[g].pc = "error" /\ rec = blamed /\ p = "mark_failed"
           \/ /\ go[g].pc \in {"mark_failed", "mark_completed"} /\ p = "sealing"
              /\ rec = ended(IF go[g].pc = "mark_failed" THEN "failed" ELSE "completed")
  <2>1. CASE RecordError(g)
    BY <1>2, <2>1 DEF RecordError, SetRunError, Wrote
  <2>2. ASSUME NEW x \in Terminal, StampRun(g, x)
        PROVE  /\ Goto(g, IF go[g].pc = "stamp_failed" THEN "error" ELSE "mark_completed")
               /\ Wrote(r, stamped) /\ go[g].pc \in {"stamp_failed", "stamp_completed"}
    BY <1>2, <2>2 DEF StampRun, SetRunFinished, Wrote, Terminal
  <2>3. ASSUME NEW x \in Terminal, MarkRun(g, x)
        PROVE  /\ Goto(g, "sealing") /\ go[g].pc \in {"mark_failed", "mark_completed"}
               /\ Wrote(r, ended(IF go[g].pc = "mark_failed" THEN "failed" ELSE "completed"))
    BY <1>2, <2>3 DEF MarkRun, UpdateRunStatus, Wrote, Terminal
  <2> HIDE DEF stamped, blamed, ended
  <2> QED
    BY <2>1, <2>2, <2>3 DEF blamed
<1>6. Stored(r) =>
        /\ rec \in RunRecords /\ rec.steps = store[r].steps
        /\ rec.status = IF p = "sealing" THEN (IF go[g].pc = "mark_failed" THEN "failed" ELSE "completed")
                        ELSE store[r].status
        /\ rec.finished = IF go[g].pc \in {"stamp_failed", "stamp_completed"} THEN TRUE
                          ELSE store[r].finished
        /\ rec.error = IF go[g].pc = "error" THEN TRUE ELSE store[r].error
  <2> SUFFICES ASSUME Stored(r) PROVE <1>6!2
    OBVIOUS
  <2>1. CASE go[g].pc \in {"stamp_failed", "stamp_completed"}
    BY <1>4, <1>5, <2>1 DEF RunRecords
  <2>2. CASE go[g].pc = "error"
    BY <1>4, <1>5, <2>2 DEF RunRecords
  <2>3. CASE go[g].pc \in {"mark_failed", "mark_completed"}
    BY <1>4, <1>5, <2>3 DEF RunRecords, Terminal
  <2> QED
    BY <1>0, <2>1, <2>2, <2>3 DEF Failing, Ending
<1>7. /\ p \in {"error", "mark_failed", "mark_completed", "sealing"} /\ p \in Pcs
      /\ p = "error" <=> go[g].pc = "stamp_failed"
      /\ p = "mark_completed" <=> go[g].pc = "stamp_completed"
      /\ p = "mark_failed" <=> go[g].pc = "error"
      /\ p = "sealing" <=> go[g].pc \in {"mark_failed", "mark_completed"}
  BY <1>5 DEF Pcs
<1>8. RunWrite(g, r, rec, p)
  <2>1. executions' \in [Runs -> Nat] /\ \A k \in Runs \ {r} : executions'[k] = executions[k]
    BY <1>0, <1>3 DEF TypeOK
  <2> QED
    BY <1>1, <1>2, <1>3, <1>5, <1>6, <2>1 DEF RunWrite
<1>9. /\ TypeOK' /\ Works(g, r)
      /\ go'[g].pc = p /\ go'[g].stage = go[g].stage /\ go'[g].steps = go[g].steps
      /\ go'[g].run = r /\ UNCHANGED <<minted, executions>> /\ r \in minted
      /\ Stored(r)' <=> Stored(r)
      /\ Stored(r) => store'[r] = rec
      /\ ~Stored(r) => store'[r] = store[r]
  BY <1>3, <1>7, <1>8, WriteFields
<1>10. Progress(g)'
  BY <1>0, <1>1, <1>7, <1>9 DEF Progress, Early, Failing, Ending
<1>11. RunInv(r)
  BY <1>2 DEF SchedulerInv
<1>12. ASSUME Stored(r), p # "sealing" PROVE Agrees(g)'
  BY <1>1, <1>2, <1>6, <1>7, <1>9, <1>12, ZenonT(60) DEF Agrees, Failing, Ending
<1>13. GoInv(g)'
  BY <1>7, <1>9, <1>10, <1>12 DEF GoInv, Working, Failing, Ending
<1>14. RunInv(r)'
  <2>1. CASE ~Stored(r)
    BY <1>9, <1>11, <2>1 DEF RunInv
  <2>2. CASE Stored(r) /\ p # "sealing"
    <3>1. store[r].status \in {"pending", "running"} /\ rec.status = store[r].status
      BY <1>0, <1>1, <1>2, <1>6, <2>2 DEF Agrees, Failing, Ending
    <3> QED
      BY <1>6, <1>9, <1>11, <2>2, <3>1 DEF RunInv, Terminal
  <2>3. CASE Stored(r) /\ p = "sealing"
    <3>1. /\ rec.finished /\ go[g].pc \in {"mark_failed", "mark_completed"}
          /\ go[g].pc = "mark_failed" => rec.error
      BY <1>1, <1>2, <1>6, <1>7, <2>3 DEF Agrees
    <3>2. \A s \in Steps : rec.steps[s] = View(go[g].steps[s])
      BY <1>1, <1>2, <1>6, <2>3 DEF Agrees
    <3>3. \A s \in Steps : go[g].steps[s] \in {"idle", "done", "failed"}
      BY <1>1, <3>1 DEF Progress, Failing, Ending
    <3>4. \A s \in Steps : rec.steps[s] # "running"
      BY <3>2, <3>3, Views
    <3>5. rec.status = "completed" => \A s \in Steps : rec.steps[s] = "completed"
      BY <1>1, <1>6, <2>3, <3>1, <3>2, Views DEF Progress, Ending
    <3>6. rec.status \in Terminal /\ (rec.status = "failed" => rec.error)
      BY <1>6, <2>3, <3>1 DEF Terminal
    <3> QED
      BY <1>6, <1>9, <1>11, <2>3, <3>1, <3>4, <3>5, <3>6 DEF RunInv, Terminal
  <2> QED
    BY <2>1, <2>2, <2>3
<1> QED
  BY <1>9, <1>13, <1>14, WorkFrame

-----------------------------------------------------------------------------
\* The poll loop, the handlers, and the goroutines that come and go.

\* Goroutines and runs stand still.
LEMMA RestFrame ==
  ASSUME SchedulerInv, TypeOK', polled' \subseteq minted,
         UNCHANGED <<store, executions, minted, go, inFlight>>
  PROVE  SchedulerInv'
<1>1. InFlightMatches'
  BY DEF SchedulerInv, InFlightMatches, Busy
<1>2. \A g \in Goroutines : GoInv(g)'
  BY DEF SchedulerInv, GoInv, Progress, Agrees, Busy, Stored
<1>3. \A r \in Runs : RunInv(r)'
  BY DEF SchedulerInv, RunInv, Stored
<1> QED
  BY <1>1, <1>2, <1>3 DEF SchedulerInv

LEMMA LoopSteps ==
  ASSUME SchedulerInv,
         \/ Shutdown \/ StopLoop \/ Poll \/ UNCHANGED vars
         \/ \E h \in Handlers, r \in Runs : BeginDelete(h, r)
  PROVE  SchedulerInv'
<1>1. UNCHANGED <<store, executions, minted, go, inFlight, sem, sealed>>
  BY DEF Shutdown, StopLoop, Poll, BeginDelete, vars
<1>2. polled' \subseteq minted
  <2>1. CASE Poll
    <3>1. \A r \in Runs : store[r].status = "pending" => r \in minted
      BY DEF SchedulerInv, RunInv, Absent
    <3> QED
      BY <2>1, <3>1 DEF Poll
  <2>2. CASE ~Poll
    BY <2>2 DEF SchedulerInv, Shutdown, StopLoop, BeginDelete, vars
  <2> QED
    BY <2>1, <2>2
<1>3. TypeOK'
  <2>1. TypeOK
    BY DEF SchedulerInv
  <2>2. /\ minted' \subseteq Runs /\ deleting' \in [Handlers -> Runs \cup {NoRun}]
        /\ cancelled' \in BOOLEAN /\ looping' \in BOOLEAN /\ polled' \subseteq Runs
    BY <1>1, <1>2, <2>1 DEF TypeOK, Shutdown, StopLoop, Poll, BeginDelete, vars
  <2> QED
    BY <1>1, <2>1, <2>2 DEF TypeOK
<1> QED
  BY <1>1, <1>2, <1>3, RestFrame

\* One run of the store is replaced while no goroutine moves.
LEMMA StoreFrame ==
  ASSUME SchedulerInv, TypeOK', NEW r \in Runs, RunInv(r)',
         \A k \in Runs \ {r} : store'[k] = store[k],
         minted \subseteq minted', \A k \in Runs \ {r} : k \in minted' => k \in minted,
         UNCHANGED <<executions, go, inFlight, polled>>,
         \A g \in Goroutines : Busy(g) /\ go[g].run = r => store'[r] = Absent
  PROVE  SchedulerInv'
<1>1. InFlightMatches' /\ polled' \subseteq minted'
  BY DEF SchedulerInv, InFlightMatches, Busy
<1>2. ASSUME NEW g \in Goroutines PROVE GoInv(g)'
  <2>1. GoInv(g) /\ go'[g] = go[g]
    BY DEF SchedulerInv
  <2>2. CASE ~Busy(g)
    BY <2>1, <2>2 DEF GoInv, Busy
  <2>3. CASE Busy(g) /\ go[g].run = r
    BY <2>1, <2>3 DEF GoInv, Progress, Busy, Stored
  <2>4. CASE Busy(g) /\ go[g].run # r
    <3>1. store'[go[g].run] = store[go[g].run]
      BY <2>4, RecordTypes DEF SchedulerInv, GoRecords
    <3> QED
      BY <2>1, <2>4, <3>1 DEF GoInv, Progress, Agrees, Busy, Stored
  <2> QED
    BY <2>2, <2>3, <2>4
<1>3. ASSUME NEW k \in Runs PROVE RunInv(k)'
  <2>1. CASE k = r
    BY <2>1
  <2>2. CASE k # r
    BY <2>2 DEF SchedulerInv, RunInv, Stored
  <2> QED
    BY <2>1, <2>2
<1> QED
  BY <1>1, <1>2, <1>3 DEF SchedulerInv

LEMMA SubmitStep ==
  ASSUME SchedulerInv, NEW r \in Runs, SubmitRun(r)
  PROVE  SchedulerInv'
<1>1. /\ r \notin minted /\ minted' = minted \cup {r} /\ store' = [store EXCEPT ![r] = NewRun]
      /\ UNCHANGED <<deleting, cancelled, looping, polled, inFlight, sem, go, executions, sealed>>
  BY DEF SubmitRun
<1>2. /\ NewRun \in RunRecords /\ NewRun.status = "pending" /\ NewRun # Absent
      /\ \A s \in Steps : NewRun.steps[s] = "none"
  BY DEF NewRun, RunRecords, Terminal, Absent
<1> HIDE DEF NewRun
<1>3. /\ store' \in [Runs -> {Absent} \cup RunRecords] /\ store'[r] = NewRun
      /\ \A k \in Runs \ {r} : store'[k] = store[k]
  BY <1>1, <1>2, RecordTypes DEF SchedulerInv
<1>4. TypeOK'
  BY <1>1, <1>3 DEF SchedulerInv, TypeOK, RunRecords
<1>5. RunInv(r)'
  BY <1>1, <1>2, <1>3 DEF SchedulerInv, RunInv, Terminal
<1>6. \A g \in Goroutines : Busy(g) => go[g].run # r
  BY <1>1 DEF SchedulerInv, GoInv
<1> QED
  BY <1>1, <1>3, <1>4, <1>5, <1>6, StoreFrame

LEMMA DeleteStep ==
  ASSUME SchedulerInv, NEW h \in Handlers, FinishDelete(h)
  PROVE  SchedulerInv'
<1>1. PICK r \in Runs : r = deleting[h]
  BY DEF FinishDelete, SchedulerInv, TypeOK
<1>2. /\ store' = [store EXCEPT ![r] = Absent] /\ deleting' = [deleting EXCEPT ![h] = NoRun]
      /\ UNCHANGED <<minted, cancelled, looping, polled, inFlight, sem, go, executions, sealed>>
  BY <1>1 DEF FinishDelete
<1>3. /\ store' \in [Runs -> {Absent} \cup RunRecords] /\ store'[r] = Absent
      /\ \A k \in Runs \ {r} : store'[k] = store[k]
  BY <1>2, RecordTypes DEF SchedulerInv
<1>4. TypeOK'
  BY <1>2, <1>3 DEF SchedulerInv, TypeOK, RunRecords
<1>5. RunInv(r)'
  BY <1>2, <1>3 DEF SchedulerInv, RunInv, Terminal, Absent, Stored
<1> QED
  BY <1>2, <1>3, <1>4, <1>5, StoreFrame

\* A goroutine is spawned for r, or ends; no run changes.
LEMMA VisitStep ==
  ASSUME SchedulerInv, NEW r \in Runs, NEW g \in Goroutines, Visit(r, g)
  PROVE  SchedulerInv'
<1>1. /\ TypeOK /\ r \in polled /\ go[g] = Free /\ polled' = polled \ {r} /\ polled' \subseteq minted
      /\ UNCHANGED <<store, minted, deleting, cancelled, looping, sem, executions, sealed>>
  BY DEF Visit, SchedulerInv
<1>2. CASE UNCHANGED <<inFlight, go>>
  <2>1. TypeOK'
    BY <1>1, <1>2 DEF TypeOK
  <2> QED
    BY <1>1, <1>2, <2>1, RestFrame
<1>3. CASE r \notin inFlight /\ inFlight' = inFlight \cup {r} /\ go' = [go EXCEPT ![g] = Spawned(r)]
  <2>1. /\ Spawned(r) \in GoRecords /\ Spawned(r).run = r /\ Spawned(r).pc = "spawned"
        /\ Spawned(r).stage = 0 /\ \A s \in Steps : Spawned(r).steps[s] = "idle"
    BY StageOfStep DEF Spawned, GoRecords, Pcs, StepPcs
  <2> HIDE DEF Spawned
  <2>2. /\ go' \in [Goroutines -> {Free} \cup GoRecords] /\ go'[g] = Spawned(r)
        /\ \A h \in Goroutines \ {g} : go'[h] = go[h]
    BY <1>1, <1>3, <2>1, RecordTypes
  <2>3. TypeOK'
    BY <1>1, <1>3, <2>2 DEF TypeOK, GoRecords
  <2>4. ~Busy(g) /\ Busy(g)' /\ \A h \in Goroutines \ {g} : Busy(h)' <=> Busy(h)
    BY <1>1, <2>1, <2>2 DEF Busy, Free
  <2>5. InFlightMatches'
    <3>1. /\ inFlight = {go[h].run : h \in {f \in Goroutines : Busy(f)}}
          /\ \A a, b \in Goroutines : Busy(a) /\ Busy(b) /\ go[a].run = go[b].run => a = b
      BY DEF SchedulerInv, InFlightMatches
    <3>2. \A h \in Goroutines : Busy(h) => go[h].run # r
      BY <1>3, <3>1
    <3>3. inFlight' = {go'[h].run : h \in {f \in Goroutines : Busy(f)'}}
      BY <1>3, <2>1, <2>2, <2>4, <3>1
    <3> QED
      BY <2>1, <2>2, <2>4, <3>1, <3>2, <3>3 DEF InFlightMatches
  <2>6. ASSUME NEW h \in Goroutines PROVE GoInv(h)'
    <3>1. CASE h = g
      BY <1>1, <2>1, <2>2, <3>1 DEF GoInv, Progress, Early, Failing, Ending, Working, SchedulerInv
    <3>2. CASE h # g
      BY <1>1, <2>2, <3>2 DEF SchedulerInv, GoInv, Progress, Agrees, Busy, Stored
    <3> QED
      BY <3>1, <3>2
  <2>7. \A k \in Runs : RunInv(k)'
    BY <1>1 DEF SchedulerInv, RunInv, Stored
  <2> QED
    BY <1>1, <2>3, <2>5, <2>6, <2>7 DEF SchedulerInv
<1> QED
  BY <1>2, <1>3 DEF Visit

LEMMA LeaveStep ==
  ASSUME SchedulerInv, NEW g \in Goroutines, AbortWait(g) \/ Unmark(g)
  PROVE  SchedulerInv'
<1>1. /\ TypeOK /\ inFlight' = inFlight \ {go[g].run} /\ go' = [go EXCEPT ![g] = Free] /\ Busy(g)
      /\ UNCHANGED <<store, minted, deleting, cancelled, looping, polled, sem, executions, sealed>>
  BY PcBusy DEF AbortWait, Unmark, restVars, SchedulerInv
<1>2. /\ go' \in [Goroutines -> {Free} \cup GoRecords] /\ go'[g] = Free
      /\ \A h \in Goroutines \ {g} : go'[h] = go[h]
  BY <1>1, RecordTypes
<1>3. TypeOK'
  BY <1>1, <1>2 DEF TypeOK, GoRecords
<1>4. ~Busy(g)' /\ \A h \in Goroutines \ {g} : Busy(h)' <=> Busy(h)
  BY <1>2 DEF Busy
<1>5. InFlightMatches'
  <2>1. /\ inFlight = {go[h].run : h \in {f \in Goroutines : Busy(f)}}
        /\ \A a, b \in Goroutines : Busy(a) /\ Busy(b) /\ go[a].run = go[b].run => a = b
    BY DEF SchedulerInv, InFlightMatches
  <2>2. inFlight' = {go'[h].run : h \in {f \in Goroutines : Busy(f)'}}
    BY <1>1, <1>2, <1>4, <2>1
  <2> QED
    BY <1>2, <1>4, <2>1, <2>2 DEF InFlightMatches
<1>6. ASSUME NEW h \in Goroutines PROVE GoInv(h)'
  <2>1. CASE h = g
    BY <1>4, <2>1 DEF GoInv
  <2>2. CASE h # g
    BY <1>1, <1>2, <2>2 DEF SchedulerInv, GoInv, Progress, Agrees, Busy, Stored
  <2> QED
    BY <2>1, <2>2
<1>7. \A k \in Runs : RunInv(k)'
  BY <1>1 DEF SchedulerInv, RunInv, Stored
<1> QED
  BY <1>1, <1>3, <1>5, <1>6, <1>7 DEF SchedulerInv

-----------------------------------------------------------------------------
LEMMA SchedulerStep == SchedulerInv /\ [Next]_vars => SchedulerInv'
<1> SUFFICES ASSUME SchedulerInv, [Next]_vars PROVE SchedulerInv'
  OBVIOUS
<1>1. ASSUME NEW g \in Goroutines, NEW s \in Steps, ExecuteStep(g, s) PROVE SchedulerInv'
  <2>1. CASE StartStep(g, s)
    BY <2>1, StepWrites, Views DEF StartStep, StepPcs
  <2>2. CASE StepFails(g, s)
    BY <2>2, StepWrites, Views DEF StepFails, StepPcs, Terminal
  <2>3. CASE StepReturns(g, s)
    BY <2>3, StepWrites, Views DEF StepReturns, StepPcs, Terminal
  <2> QED
    BY <1>1, <2>1, <2>2, <2>3, InnerStepMoves DEF ExecuteStep
<1>2. ASSUME NEW g \in Goroutines, ExecuteRun(g) PROVE SchedulerInv'
  BY <1>1, <1>2, PlainMoves, LeaveStep, StartRunWrites, NextStageMoves, EndRunWrites, EndStageMoves
     DEF ExecuteRun
<1> QED
  BY <1>2, LoopSteps, VisitStep, SubmitStep, DeleteStep DEF Next, Requests, PollAndExecute

LEMMA SchedulerStart == Init => SchedulerInv
<1> SUFFICES ASSUME Init PROVE SchedulerInv
  OBVIOUS
<1>1. \A g \in Goroutines : ~Busy(g)
  BY DEF Init, Busy
<1>2. TypeOK
  BY DEF Init, TypeOK
<1>3. InFlightMatches
  BY <1>1 DEF Init, InFlightMatches
<1>4. \A r \in Runs : RunInv(r)
  BY DEF Init, RunInv, Absent, Stored, Terminal
<1> QED
  BY <1>1, <1>2, <1>3, <1>4 DEF Init, SchedulerInv, GoInv

\* The inductive invariant of the WorkflowScheduler: where each goroutine stands
\* tells what the store says of its run, until the run is deleted.
THEOREM SchedulerInvariant == Spec => []SchedulerInv
BY SchedulerStart, SchedulerStep, PTL DEF Spec

\* Whatever polls, goroutines, deletes and a shutdown interleave: a run is worked
\* on by one goroutine and executed once, its steps in the plan's order, and a
\* terminal status comes with its stamps and with no step running.
THEOREM RunsAlwaysCoherent == Spec => []RunsAreCoherent
<1>1. SchedulerInv => RunsAreCoherent
  BY DEF SchedulerInv, RunInv, RunsAreCoherent, ExecutedOnce, TerminalIsStamped,
         NoStepLeftRunning, StepsInOrder, Terminal, Absent, Stored
<1> QED
  BY <1>1, SchedulerInvariant, PTL

\* Neither a deletion nor an outcome is undone by a goroutine that works from an
\* older copy of the run.
THEOREM SettledRunsAlwaysStay == Spec => SettledRunsStay
<1> DEFINE Settled(r) == /\ r \in minted /\ store[r] = Absent => store'[r] = Absent
                         /\ store[r].status \in Terminal => store'[r] \in {store[r], Absent}
<1>1. ASSUME SchedulerInv, [Next]_vars PROVE \A r \in Runs : Settled(r)
  <2>1. CASE UNCHANGED store
    BY <2>1
  <2>2. ASSUME NEW r \in Runs, SubmitRun(r) PROVE \A k \in Runs : Settled(k)
    BY <1>1, <2>2, RecordTypes DEF SubmitRun, SchedulerInv, RunInv, Absent, Terminal
  <2>3. ASSUME NEW h \in Handlers, FinishDelete(h) PROVE \A k \in Runs : Settled(k)
    BY <1>1, <2>3, RecordTypes DEF FinishDelete, SchedulerInv
  <2>4. ASSUME NEW g \in Goroutines, go[g].pc \in {"starting", "stage"} \cup Failing \cup Ending,
               \A k \in Runs \ {go[g].run} : store'[k] = store[k],
               ~Stored(go[g].run) => UNCHANGED store
        PROVE  \A k \in Runs : Settled(k)
    <3>1. Busy(g) /\ go[g].pc \in Working
      BY <2>4, PcBusy DEF Working, Failing, Ending
    <3>2. Stored(go[g].run) => store[go[g].run].status \in {"pending", "running"}
      BY <1>1, <2>4, <3>1 DEF SchedulerInv, GoInv, Agrees, Failing, Ending
    <3> QED
      BY <2>4, <3>2 DEF Stored, Terminal
  <2>5. ASSUME NEW g \in Goroutines, NEW s \in Steps, ExecuteStep(g, s)
        PROVE  \A k \in Runs : Settled(k)
    <3>1. CASE StartStep(g, s) \/ StepFails(g, s) \/ StepReturns(g, s)
      BY <1>1, <2>4, <3>1, RecordTypes
         DEF StartStep, StepFails, StepReturns, StepAt, UpdateStepState, SchedulerInv
    <3>2. CASE ResolveInputs(g, s) \/ PublishOutput(g, s)
      BY <2>1, <3>2 DEF ResolveInputs, PublishOutput
    <3> QED
      BY <2>5, <3>1, <3>2 DEF ExecuteStep
  <2>6. ASSUME NEW g \in Goroutines,
               \/ StartRun(g) \/ RecordError(g)
               \/ \E x \in Terminal : StampRun(g, x) \/ MarkRun(g, x)
        PROVE  \A k \in Runs : Settled(k)
    <3>1. go[g].pc \in {"starting"} \cup Failing \cup Ending
      BY <2>6 DEF StartRun, RecordError, StampRun, MarkRun, Failing, Ending, Terminal
    <3>2. /\ \A k \in Runs \ {go[g].run} : store'[k] = store[k]
          /\ ~Stored(go[g].run) => UNCHANGED store
      BY <1>1, <2>6, RecordTypes
         DEF StartRun, RecordError, StampRun, MarkRun, UpdateRunStatus, SetRunError, SetRunFinished,
             SchedulerInv
    <3> QED
      BY <2>4, <3>1, <3>2
  <2>7. ASSUME NEW g \in Goroutines,
               \/ AcquireSlot(g) \/ AbortWait(g) \/ ReleaseSlot(g) \/ Unmark(g)
               \/ LoadRun(g) \/ PlanRun(g) \/ NextStage(g) \/ SealRunLogs(g) \/ EndStage(g)
        PROVE  UNCHANGED store
    BY <2>7 DEF AcquireSlot, AbortWait, ReleaseSlot, Unmark, LoadRun, PlanRun, NextStage,
                SealRunLogs, EndStage
  <2>8. CASE \/ Shutdown \/ StopLoop \/ PollAndExecute \/ UNCHANGED vars
             \/ \E h \in Handlers, r \in Runs : BeginDelete(h, r)
    BY <2>1, <2>8 DEF Shutdown, StopLoop, PollAndExecute, Poll, Visit, BeginDelete, vars
  <2> QED
    BY <1>1, <2>1, <2>2, <2>3, <2>5, <2>6, <2>7, <2>8 DEF Next, Requests, ExecuteRun
<1>2. SchedulerInv /\ [Next]_vars =>
        /\ [\A r \in minted : store[r] = Absent => store'[r] = Absent]_vars
        /\ [\A r \in Runs : store[r].status \in Terminal => store'[r] \in {store[r], Absent}]_vars
  BY <1>1 DEF SchedulerInv, TypeOK
<1> QED
  BY <1>2, SchedulerInvariant, PTL DEF Spec, SettledRunsStay, DeletedStaysDeleted, TerminalIsFinal
=============================================================================
