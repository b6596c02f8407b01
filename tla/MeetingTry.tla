----------------------------- MODULE MeetingTry -----------------------------
(***************************************************************************)
(* One arm of experiment EXP-001 holds the meetings of a series, each try  *)
(* on processes of its own (evaluators/exp001: processes.py,               *)
(* deployed_meeting.py, attempts.py, arm_d.py).  The orchestrator starts   *)
(* first and stops last; a watcher reads the call log while the meeting    *)
(* runs and cancels the try at the first failed call that means it is held *)
(* again; a hangup may cancel it too, and again while it stops.            *)
(***************************************************************************)
EXTENDS Naturals, Sequences, FiniteSets

CONSTANTS
    Advisers,
    MeetingCount,  \* meetings of the series
    MaxTries,      \* bound: tries of one meeting
    MaxFailed,     \* bound: failed calls of one try
    MaxHangups     \* bound: hangups

Orch == "orchestrator"
Procs == Advisers \cup {Orch}

VARIABLES
    remembers, \* the arm's memory carries from one meeting to the next (arm D's does)
    holding,   \* [meeting, n]: the try under way, or the last
    tryProc,      \* each process: "none", "up", "asked" to stop, "gone" or "killed"
    tryStage,     \* where run_on_deployment is
    raised,    \* what ended the meeting: "no", "start", "orchestrator", "error", "cancel"
    failedLog, \* the failed calls of the try's log
    answered,  \* some call of it was answered
    watcher,   \* "on", "fired" or "off"
    over,      \* the meeting is over: the processes are stopping
    exitedAt,  \* the processes that had exited when it ended
    hangups,   \* cancellations that are not the watcher's
    tryVerdict,   \* what the hold returned: a Held, a fault or a cancellation
    storesHold,       \* the tries whose memories the stores hold
    storesBefore,    \* the stores kept before the meeting's first try
    finishedTries   \* the try that finished, of each meeting so far

seriesVars == <<remembers, holding, tryVerdict, storesBefore, finishedTries>>
tryVars == <<seriesVars, tryProc, tryStage, raised, failedLog, answered, watcher, over, exitedAt, hangups, storesHold>>

Running(p) == tryProc[p] \in {"up", "asked"}
ExitedProcs == {p \in Procs : tryProc[p] \in {"gone", "killed"}}

TryInit ==
    /\ remembers \in BOOLEAN /\ holding = [meeting |-> 1, n |-> 0] /\ tryProc = [p \in Procs |-> "none"]
    /\ tryStage = "between" /\ raised = "no" /\ failedLog = {} /\ answered = FALSE
    /\ watcher = "off" /\ over = FALSE /\ exitedAt = {} /\ hangups = 0 /\ tryVerdict = "cut"
    /\ storesHold = {} /\ storesBefore = {} /\ finishedTries = {}

-----------------------------------------------------------------------------
(* Which failed calls bear on a meeting.                                   *)

ErrorKinds == {"provider", "system", "harness"}
Purposes == {"reply", "summary", "keepalive"}

\* Mutant: a late summary is left out of every meeting, not of the last alone.
LateSummaryAnywhere(f) == f.purpose = "summary" /\ f.late

(* A summary that fails once the series' last meeting is over changes nothing any meeting shows. *)
LateSummary(f) == f.purpose = "summary" /\ f.late /\ holding.meeting = MeetingCount
CountsInArm(f) == (f.purpose = "summary" => remembers) /\ ~LateSummary(f)
KeepaliveLapse(f) == f.purpose = "keepalive" /\ f.kind = "provider"
Bearing == {f \in failedLog : (CountsInArm(f) /\ ~KeepaliveLapse(f)) \/ f.kind = "harness"}
BearingKinds == {f.kind : f \in Bearing}

(* Every call refused, as by a spend limit: a fault, though each refusal alone is the system's. *)
AllRefused == BearingKinds = {"system"} /\ ~answered
(* An adviser the stop had to kill may not have written what it still held open. *)
KilledAtStop == {p \in Advisers : tryProc[p] = "killed"} \ exitedAt # {}

(* channel_hold, once the deployment has stopped. *)
Verdict ==
    CASE raised = "cancel" /\ ~(watcher = "fired" /\ hangups = 0) -> "cancelled"
      [] raised = "start" -> "not started"
      [] raised = "error" \/ (raised = "orchestrator" /\ Orch \notin exitedAt) -> "fault"
      [] raised = "no" /\ KilledAtStop /\ remembers -> "fault"
      [] "harness" \in BearingKinds \/ AllRefused -> "fault"
      [] OTHER -> IF "provider" \in BearingKinds THEN "cut" ELSE "held"

-----------------------------------------------------------------------------
(* The next try, of this meeting or of the next.  Arm D copies its stores before a meeting's    *)
(* first try and puts the copy back before every other; elsewhere every store is new.           *)
KeepStores == storesBefore' = storesHold /\ UNCHANGED storesHold
RestoreStores == storesHold' = storesBefore /\ UNCHANGED storesBefore
ReadyStores(n) ==
    \/ ~remembers /\ storesHold' = {} /\ UNCHANGED storesBefore
    \/ remembers /\ n = 1 /\ KeepStores
    \/ remembers /\ n > 1 /\ RestoreStores
BeginTry ==
    /\ tryStage = "between" /\ tryVerdict \in {"cut", "not started", "held"}
    /\ tryVerdict = "held" => holding.meeting < MeetingCount
    /\ holding' = IF tryVerdict = "held" THEN [meeting |-> holding.meeting + 1, n |-> 1] ELSE [holding EXCEPT !.n = @ + 1]
    /\ holding'.n <= MaxTries
    /\ ReadyStores(holding'.n)
    /\ tryProc' = [p \in Procs |-> IF p = Orch THEN "up" ELSE "none"]
    /\ tryStage' = "starting" /\ watcher' = "on" /\ over' = FALSE /\ raised' = "no"
    /\ failedLog' = {} /\ answered' = FALSE /\ exitedAt' = {}
    /\ UNCHANGED <<remembers, hangups, tryVerdict, finishedTries>>

(* However the meeting ends: ended() turns the watcher off, and the advisers are asked to stop. *)
EndMeeting(why) ==
    /\ raised' = why /\ over' = TRUE /\ exitedAt' = ExitedProcs
    /\ tryStage' = "stop advisers"
    /\ tryProc' = [p \in Procs |-> IF p \in Advisers /\ tryProc[p] = "up" THEN "asked" ELSE tryProc[p]]
InMeeting == tryStage \in {"starting", "registering", "checking", "meeting"}

OrchestratorHealthy ==
    /\ tryStage = "starting" /\ ExitedProcs = {}
    /\ tryProc' = [p \in Procs |-> "up"] /\ tryStage' = "registering"
    /\ UNCHANGED <<seriesVars, raised, failedLog, answered, watcher, over, exitedAt, hangups, storesHold>>
AllRegistered ==
    /\ tryStage = "registering" /\ ExitedProcs = {}
    /\ tryStage' = "checking"
    /\ UNCHANGED <<seriesVars, tryProc, raised, failedLog, answered, watcher, over, exitedAt, hangups, storesHold>>
(* A process exits while starting, or the time for it is up. *)
StartFails ==
    /\ tryStage \in {"starting", "registering"}
    /\ EndMeeting("start") /\ watcher' = "off"
    /\ UNCHANGED <<seriesVars, failedLog, answered, hangups, storesHold>>
(* The deployment must be set up as the design has it.  In arm D none may have replayed a       *)
(* message into memory as it caught up, and a process that exits first has not started.         *)
CheckFails(why) ==
    /\ tryStage = "checking"
    /\ why = "start" => remembers
    /\ EndMeeting(why) /\ watcher' = "off"
    /\ UNCHANGED <<seriesVars, failedLog, answered, hangups, storesHold>>
CheckPassed ==
    /\ tryStage = "checking" /\ tryStage' = "meeting"
    /\ UNCHANGED <<seriesVars, tryProc, raised, failedLog, answered, watcher, over, exitedAt, hangups, storesHold>>
(* hold_meeting returns, closed or not, or raises: the orchestrator stopped answering, or any   *)
(* other error.                                                                                 *)
MeetingEnds(why) ==
    /\ tryStage = "meeting"
    /\ EndMeeting(why) /\ watcher' = "off"
    /\ UNCHANGED <<seriesVars, failedLog, answered, hangups, storesHold>>
(* _watch: the cancellation lands in the await the meeting is at. *)
WatchFires ==
    /\ watcher = "on" /\ InMeeting /\ BearingKinds \ {"system"} # {}
    /\ EndMeeting("cancel") /\ watcher' = "fired"
    /\ UNCHANGED <<seriesVars, failedLog, answered, hangups, storesHold>>

(* A hangup, SIGTERM or Ctrl-C cancels the meeting; while the stop waits, it falls back on      *)
(* kill().                                                                                      *)
Hangup ==
    /\ hangups < MaxHangups /\ hangups' = hangups + 1
    /\ InMeeting /\ EndMeeting("cancel") /\ watcher' = "off"
    /\ UNCHANGED <<seriesVars, failedLog, answered, storesHold>>
HangupAgain ==
    /\ hangups < MaxHangups /\ hangups' = hangups + 1
    /\ tryStage \in {"stop advisers", "stop orchestrator"} /\ tryStage' = "stopped"
    /\ tryProc' = [p \in Procs |-> IF Running(p) THEN "killed" ELSE tryProc[p]]
    /\ raised' = "cancel"
    /\ UNCHANGED <<seriesVars, failedLog, answered, watcher, over, exitedAt, storesHold>>

-----------------------------------------------------------------------------
(* The processes, and the calls the advisers make until they are gone.     *)

Exits(p) ==
    /\ Running(p) /\ tryProc' = [tryProc EXCEPT ![p] = "gone"]
    /\ UNCHANGED <<seriesVars, tryStage, raised, failedLog, answered, watcher, over, exitedAt, hangups, storesHold>>
CallFails(a, f) ==
    /\ Running(a) /\ tryStage \in {"registering", "checking", "meeting", "stop advisers"}
    /\ Cardinality(failedLog) < MaxFailed
    /\ f.late => over
    /\ failedLog' = failedLog \cup {f}
    /\ UNCHANGED <<seriesVars, tryProc, tryStage, raised, answered, watcher, over, exitedAt, hangups, storesHold>>
CallAnswered(a) ==
    /\ Running(a) /\ tryStage \in {"meeting", "stop advisers"}
    /\ answered' = TRUE /\ storesHold' = storesHold \cup {holding}
    /\ UNCHANGED <<seriesVars, tryProc, tryStage, raised, failedLog, watcher, over, exitedAt, hangups>>

(* The advisers first: they still need the orchestrator's wallet.  Who is not gone after the    *)
(* grace is killed.                                                                             *)
GraceOver ==
    /\ tryStage \in {"stop advisers", "stop orchestrator"}
    /\ \E p \in Procs : tryProc[p] = "asked"
    /\ tryProc' = [p \in Procs |-> IF tryProc[p] = "asked" THEN "killed" ELSE tryProc[p]]
    /\ UNCHANGED <<seriesVars, tryStage, raised, failedLog, answered, watcher, over, exitedAt, hangups, storesHold>>
AskOrchestrator ==
    /\ tryStage = "stop advisers" /\ \A a \in Advisers : ~Running(a)
    /\ tryProc' = [tryProc EXCEPT ![Orch] = IF @ = "up" THEN "asked" ELSE @]
    /\ tryStage' = "stop orchestrator"
    /\ UNCHANGED <<seriesVars, raised, failedLog, answered, watcher, over, exitedAt, hangups, storesHold>>
DeploymentStopped ==
    /\ tryStage = "stop orchestrator" /\ ~Running(Orch)
    /\ tryStage' = "stopped"
    /\ UNCHANGED <<seriesVars, tryProc, raised, failedLog, answered, watcher, over, exitedAt, hangups, storesHold>>

EndTry ==
    /\ tryStage = "stopped"
    /\ tryVerdict' = Verdict /\ tryStage' = "between"
    /\ finishedTries' = IF tryVerdict' = "held" THEN finishedTries \cup {holding} ELSE finishedTries
    /\ UNCHANGED <<holding, tryProc, raised, failedLog, answered, watcher, over, exitedAt, hangups, storesHold, storesBefore, remembers>>

TryNext ==
    \/ BeginTry \/ OrchestratorHealthy \/ AllRegistered \/ StartFails \/ CheckPassed \/ WatchFires \/ Hangup \/ HangupAgain
    \/ \E why \in {"no", "orchestrator", "error"} : MeetingEnds(why)
    \/ \E why \in {"start", "error"} : CheckFails(why)
    \/ \E p \in Procs : Exits(p)
    \/ \E a \in Advisers : CallAnswered(a) \/ \E f \in [kind : ErrorKinds, purpose : Purposes, late : BOOLEAN] : CallFails(a, f)
    \/ GraceOver \/ AskOrchestrator \/ DeploymentStopped \/ EndTry

-----------------------------------------------------------------------------
(* However a try ends, interrupted twice included, none of its processes is left running, and   *)
(* the orchestrator is not asked to stop while an adviser still needs it.                       *)
NothingLeftRunning ==
    /\ tryStage \in {"stopped", "between"} => \A p \in Procs : ~Running(p)
    /\ tryProc[Orch] = "asked" => \A a \in Advisers : ~Running(a)

(* A meeting that stands had no provider error that could have changed what it or a later one   *)
(* shows; one the watcher ended never stands; and a try starts from the memories of finished    *)
(* tries alone, whatever the tries between wrote.                                               *)
StandingTriesAreClean ==
    /\ tryStage = "between" /\ tryVerdict = "held" =>
         /\ watcher # "fired"
         /\ \A f \in failedLog :
              f.kind # "system" /\ (f.purpose = "summary" => remembers) =>
                 \/ f.kind = "provider" /\ f.purpose = "keepalive"
                 \/ f.purpose = "summary" /\ f.late /\ holding.meeting = MeetingCount /\ f.kind = "provider"
    /\ tryStage = "starting" => storesHold \subseteq finishedTries

(* Every try of a meeting is stopped whole and judged by what its log holds in the end          *)
(* (attempts.py, deployed_meeting.py, processes.py, arm_d.py).                                  *)
TriesAreFair == NothingLeftRunning /\ StandingTriesAreClean
=============================================================================
