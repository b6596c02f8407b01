---------------------------- MODULE AgentSession ----------------------------
(***************************************************************************)
(* How an agent process stays known to the orchestrator.  The registry and *)
(* the token issuer live in the orchestrator's memory: a restart forgets   *)
(* both.  An agent registers at start, again when its gRPC channel returns *)
(* to READY, and again when a call is refused for its token; each          *)
(* registration of an agent id retires the token before it, so two         *)
(* processes of one id (a rolling restart) contend.  Tokens are checked    *)
(* only when the orchestrator enforces authentication, which is off unless *)
(* configured, and only on a call that shows one.                          *)
(***************************************************************************)
EXTENDS Naturals, FiniteSets

CONSTANTS
    Procs,       \* processes that serve the same agent id, in the order they start
    Lines,       \* REST calls a process may have under way at once
    NoToken, Nobody,
    Attempts,    \* REREGISTER_ATTEMPTS
    MaxFaults,   \* lost or refused registrations, flaps, deregistrations, expiries
    MaxRestarts, MaxRestCalls,
    AuthModes,   \* is auth.mode enabled? the choices of the operator
    Busy         \* the processes that make REST calls and are stopped

ASSUME SessionAssumption ==
    /\ Nobody \notin Procs /\ NoToken \notin [boot : Nat, serial : Nat]
    /\ MaxFaults \in Nat /\ MaxRestCalls \in Nat /\ AuthModes \subseteq BOOLEAN

VARIABLES
    orch,    \* registry and issuer
    phase,   \* [Procs -> life of the process]
    keeper,  \* [Procs -> AgentTokenKeeper]
    reg,     \* [Procs -> the registration under way]
    watch,   \* [Procs -> ReregistrationWatcher]
    call,    \* [Procs -> [Lines -> REST call under way]]
    budget   \* faults and calls left, what retired each token, who was refused or left

sessionVars == <<orch, phase, keeper, reg, watch, call, budget>>

NoReg == [pc |-> "none"]
NoCall == [pc |-> "none"]
NoWatch == [pc |-> "off", last |-> "none", seen |-> FALSE, left |-> FALSE, tries |-> 0]
NewOrch(boot, enforced) == [up |-> TRUE, boot |-> boot, enforced |-> enforced, serial |-> 0, entry |-> Nobody,
                            known |-> FALSE, through |-> 0, expired |-> {}]
Fault == budget.faults > 0 /\ budget' = [budget EXCEPT !.faults = @ - 1]
Serving(p) == phase[p] = "serving"

(***************************************************************************)
(* The orchestrator.  Signatures are under a key of the running process.   *)
(***************************************************************************)
Check(t) ==
    IF t.boot # orch.boot THEN "invalid"
    ELSE IF orch.known /\ t.serial <= orch.through THEN "revoked"
    ELSE IF t.serial \in orch.expired THEN "expired"
    ELSE IF ~orch.known THEN "invalid" ELSE "good"
(* What the middleware asks of a call: nothing without authentication, or without a token. *)
Checked(t) == orch.enforced /\ t # NoToken
TokenVerdict(t) == IF Checked(t) THEN Check(t) ELSE "good"

Enroll(p) == [orch EXCEPT !.entry = p, !.known = TRUE, !.through = orch.serial, !.serial = @ + 1]
Token(o) == [boot |-> o.boot, serial |-> o.serial]
(* What retired a token: a registration, or the operator (Nobody). *)
Retired(by) ==
    budget.retired \cup
        {[token |-> [boot |-> orch.boot, serial |-> s], by |-> by] :
           s \in (orch.through + 1)..orch'.through}
Deregister == [orch EXCEPT !.entry = Nobody, !.through = IF @ < orch.serial /\ orch.known THEN orch.serial ELSE @]

OperatorDeregisters ==
    /\ orch.up /\ orch.entry # Nobody
    /\ budget.faults > 0
    /\ orch' = Deregister
    /\ budget' = [budget EXCEPT !.faults = @ - 1, !.retired = Retired(Nobody)]
    /\ UNCHANGED <<phase, keeper, reg, watch, call>>
TokenExpires ==
    /\ orch.up /\ orch.serial > 0 /\ orch.serial \notin orch.expired /\ Fault
    /\ \E known \in {TRUE, FALSE} : \* and the issuer may forget the agent
         orch' = [orch EXCEPT !.expired = @ \cup 1..orch.serial, !.known = orch.known /\ known]
    /\ UNCHANGED <<phase, keeper, reg, watch, call>>
OrchDown ==
    /\ orch.up /\ orch.boot < MaxRestarts
    /\ orch' = [orch EXCEPT !.up = FALSE]
    /\ UNCHANGED <<phase, keeper, reg, watch, call, budget>>
OrchUp ==
    /\ ~orch.up
    /\ orch' = NewOrch(orch.boot + 1, orch.enforced)
    /\ budget' = [budget EXCEPT !.retired = {r \in @ : \E p \in Procs : keeper[p].token = r.token}]
    /\ UNCHANGED <<phase, keeper, reg, watch, call>>

(***************************************************************************)
(* A registration: one POST, shared by everyone who wants one.             *)
(***************************************************************************)
Resume(p, ok) ==
    /\ watch' = IF watch[p].pc = "await" THEN [watch EXCEPT ![p].pc = IF ok THEN "idle" ELSE "failed", ![p].tries = IF ok THEN 0 ELSE @] ELSE watch
    /\ call' = [call EXCEPT ![p] = [l \in Lines |->
                   IF call[p][l].pc = "join" THEN [call[p][l] EXCEPT !.pc = "settle"] ELSE call[p][l]]]
    /\ phase' = IF phase[p] = "starting" THEN [phase EXCEPT ![p] = "serving"] ELSE phase
Land(p) ==
    /\ reg[p].pc = "sent" /\ orch.up
    /\ orch' = Enroll(p)
    /\ budget' = [budget EXCEPT !.retired = Retired(p)]
    /\ reg' = [reg EXCEPT ![p] = [pc |-> "landed", token |-> Token(orch')]]
    /\ UNCHANGED <<phase, keeper, watch, call>>
(* Its connection is gone with the orchestrator that was to answer. *)
CutOff(p) == reg[p].pc = "landed" /\ (~orch.up \/ reg[p].token.boot # orch.boot)
(* 201: the token replaces the one held. *)
Answered(p) ==
    /\ reg[p].pc = "landed" /\ ~CutOff(p)
    /\ keeper' = [keeper EXCEPT ![p].token = reg[p].token, ![p].answered = TRUE, ![p].running = FALSE]
    /\ reg' = [reg EXCEPT ![p] = NoReg]
    /\ Resume(p, TRUE)
    /\ UNCHANGED <<orch, budget>>
(* A refusal (a limit, a wrong secret) issues no token: the one held stands. *)
RegistrationRefused(p) ==
    /\ reg[p].pc = "sent" /\ orch.up /\ budget.faults > 0
    /\ budget' = [budget EXCEPT !.faults = @ - 1, !.refused = @ \cup {p}]
    /\ keeper' = [keeper EXCEPT ![p].answered = TRUE, ![p].running = FALSE]
    /\ reg' = [reg EXCEPT ![p] = NoReg]
    /\ Resume(p, FALSE)
    /\ UNCHANGED <<orch>>
(* No answer, or one a gateway made up: nothing is known of the token.     *)
RegistrationLost(p) ==
    /\ \/ reg[p].pc \in {"sent", "landed"} /\ Fault
       \/ CutOff(p) /\ UNCHANGED budget
    /\ keeper' = [keeper EXCEPT ![p].running = FALSE]
    /\ reg' = [reg EXCEPT ![p] = NoReg]
    /\ Resume(p, FALSE)
    /\ UNCHANGED orch

(***************************************************************************)
(* AgentTokenKeeper.                                                       *)
(***************************************************************************)
Owes(k) == ~(k.closed \/ k.revoked)
(* register(): the running one is joined, otherwise one starts. *)
Registering(p, k) ==
    IF k.running THEN keeper' = [keeper EXCEPT ![p] = k] /\ UNCHANGED reg
    ELSE /\ keeper' = [keeper EXCEPT ![p] = [k EXCEPT !.answered = FALSE, !.running = TRUE]]
         /\ reg' = [reg EXCEPT ![p] = [pc |-> "sent"]]

(* Mutant: a refusal is believed whatever is still unanswered.             *)
BelievesAtOnce(k, code) == code = "revoked"

(* A refusal says revoked, and it is believed only while every             *)
(* registration has been answered.                                         *)
Believes(k, code) == code = "revoked" /\ k.answered
AfterRefusal(p, l) ==
    /\ call[p][l].pc = "refused"
    /\ LET c == call[p][l]
           k == IF Believes(keeper[p], c.code) /\ ~keeper[p].closed
                THEN [keeper[p] EXCEPT !.revoked = TRUE] ELSE keeper[p] IN
       IF keeper[p].token = c.used /\ Owes(k)
       THEN Registering(p, k) /\ call' = [call EXCEPT ![p][l].pc = "join"]
       ELSE /\ keeper' = IF keeper[p].token = c.used THEN [keeper EXCEPT ![p] = k] ELSE keeper
            /\ call' = [call EXCEPT ![p][l].pc = "settle"]
            /\ UNCHANGED reg
    /\ UNCHANGED <<orch, phase, watch, budget>>

(***************************************************************************)
(* The session's middleware, on each REST call.                            *)
(***************************************************************************)
Send(p, l) ==
    /\ p \in Busy /\ Serving(p) /\ call[p][l] = NoCall /\ keeper[p].token # NoToken
    /\ budget.calls > 0 /\ budget' = [budget EXCEPT !.calls = @ - 1]
    /\ call' = [call EXCEPT ![p][l] = [pc |-> "sent", used |-> keeper[p].token, code |-> "none", again |-> FALSE]]
    /\ UNCHANGED <<orch, phase, keeper, reg, watch>>
Answer(p, l) ==
    /\ call[p][l].pc = "sent"
    /\ LET code == IF orch.up THEN TokenVerdict(call[p][l].used) ELSE "down" IN
       call' = [call EXCEPT ![p][l] =
           IF code \in {"good", "down"} \/ call[p][l].again THEN NoCall
           ELSE [call[p][l] EXCEPT !.pc = "refused", !.code = code]]
    /\ UNCHANGED <<orch, phase, keeper, reg, watch, budget>>
(* A newer token answers any refusal: the call is sent once more. *)
Settle(p, l) ==
    /\ call[p][l].pc = "settle"
    /\ call' = [call EXCEPT ![p][l] =
           IF keeper[p].token \in {call[p][l].used, NoToken} THEN NoCall
           ELSE [call[p][l] EXCEPT !.pc = "sent", !.used = keeper[p].token, !.code = "none", !.again = TRUE]]
    /\ UNCHANGED <<orch, phase, keeper, reg, watch, budget>>

(***************************************************************************)
(* ReregistrationWatcher.                                                  *)
(***************************************************************************)
OrchReady == orch.up
(* READY is seen: the first time is not a reconnect. *)
ObserveReady(p) ==
    /\ watch[p].pc = "idle" /\ watch[p].last # "ready" /\ OrchReady
    /\ watch' = [watch EXCEPT ![p].last = "ready", ![p].seen = TRUE, ![p].left = FALSE,
                   ![p].pc = IF watch[p].left THEN "fire" ELSE "idle", ![p].tries = 0]
    /\ UNCHANGED <<orch, phase, keeper, reg, call, budget>>
Left(p) ==
    /\ watch[p].pc = "idle" /\ watch[p].last # "away"
    /\ watch' = [watch EXCEPT ![p].last = "away", ![p].left = watch[p].seen]
    /\ UNCHANGED <<orch, phase, keeper, reg, call>>
ObserveLeft(p) == ~OrchReady /\ Left(p) /\ UNCHANGED budget
(* The channel drops and returns while the orchestrator stays up.          *)
ChannelFlaps(p) == OrchReady /\ Left(p) /\ Fault
FireRegistration(p) ==
    /\ watch[p].pc = "fire"
    /\ IF Owes(keeper[p])
       THEN Registering(p, keeper[p]) /\ watch' = [watch EXCEPT ![p].pc = "await", ![p].tries = @ + 1]
       ELSE watch' = [watch EXCEPT ![p].pc = "idle", ![p].tries = 0] /\ UNCHANGED <<keeper, reg>>
    /\ UNCHANGED <<orch, phase, call, budget>>

MoreTries(p) == watch[p].tries < Attempts
Retry(p) ==
    /\ watch[p].pc = "failed"
    /\ watch' = IF MoreTries(p) THEN [watch EXCEPT ![p].pc = "fire"]
                ELSE [watch EXCEPT ![p].pc = "idle", ![p].tries = 0]
    /\ UNCHANGED <<orch, phase, keeper, reg, call, budget>>

(***************************************************************************)
(* The process.  start registers outside the keeper's single flight, then  *)
(* replays what it missed, then starts the watcher.                        *)
(***************************************************************************)
Begin(p) ==
    /\ phase[p] = "new" /\ \A q \in Procs : q < p => phase[q] # "new"
    /\ phase' = [phase EXCEPT ![p] = "starting"]
    /\ reg' = [reg EXCEPT ![p] = [pc |-> "sent"]]
    /\ UNCHANGED <<orch, keeper, watch, call, budget>>
WatcherStart(p) ==
    /\ Serving(p) /\ watch[p].pc = "off" /\ ~keeper[p].closed
    /\ watch' = [watch EXCEPT ![p].pc = "idle"]
    /\ UNCHANGED <<orch, phase, keeper, reg, call, budget>>
(* stop(): the watcher is cancelled, the keeper registers no more. *)
StopBegin(p) ==
    /\ p \in Busy /\ Serving(p) /\ watch[p].pc # "off"
    /\ watch' = [watch EXCEPT ![p] = NoWatch]
    /\ keeper' = [keeper EXCEPT ![p].closed = TRUE]
    /\ phase' = [phase EXCEPT ![p] = "closing"]
    /\ UNCHANGED <<orch, reg, call, budget>>
(* The registration under way ends before the deregistration goes out.     *)
RegisteringEnded(p) == ~keeper[p].running
(* _self_deregister: the call shows the token if there is one, so where    *)
(* tokens are enforced a process whose token a successor retired is        *)
(* refused.  One that holds none, or anyone where they are not, removes    *)
(* whatever entry the agent id has; strangers are those a checked token    *)
(* removed.                                                                *)
StopDeregister(p) ==
    /\ phase[p] = "closing" /\ RegisteringEnded(p)
    /\ phase' = [phase EXCEPT ![p] = "gone"]
    /\ LET ok == orch.up /\ orch.entry # Nobody /\ TokenVerdict(keeper[p].token) = "good" IN
       /\ orch' = IF ok THEN Deregister ELSE orch
       /\ budget' = IF ok THEN [budget EXCEPT !.retired = Retired(p), !.left = @ \cup {p},
                                  !.strangers = IF orch.entry = p \/ ~Checked(keeper[p].token) THEN @
                                                 ELSE @ \cup {orch.entry}]
                    ELSE budget
    /\ call' = [call EXCEPT ![p] = [l \in Lines |-> NoCall]]
    /\ keeper' = [keeper EXCEPT ![p].token = NoToken, ![p].revoked = FALSE]
    /\ UNCHANGED <<reg, watch>>

SessionInit ==
    /\ \E enforced \in AuthModes : orch = NewOrch(1, enforced)
    /\ phase = [p \in Procs |-> "new"]
    /\ keeper = [p \in Procs |-> [token |-> NoToken, answered |-> TRUE, running |-> FALSE,
                                  revoked |-> FALSE, closed |-> FALSE]]
    /\ reg = [p \in Procs |-> NoReg]
    /\ watch = [p \in Procs |-> NoWatch]
    /\ call = [p \in Procs |-> [l \in Lines |-> NoCall]]
    /\ budget = [faults |-> MaxFaults, calls |-> MaxRestCalls, retired |-> {}, refused |-> {}, left |-> {}, strangers |-> {}]

Network(p) == Land(p) \/ Answered(p) \/ RegistrationRefused(p) \/ RegistrationLost(p)
Agent(p) ==
    \/ FireRegistration(p) \/ Retry(p) \/ ObserveReady(p) \/ ObserveLeft(p) \/ WatcherStart(p)
    \/ \E l \in Lines : AfterRefusal(p, l) \/ Answer(p, l) \/ Settle(p, l)
SessionNext ==
    \/ \E p \in Procs : Network(p) \/ Agent(p) \/ Begin(p) \/ StopBegin(p) \/ StopDeregister(p)
                        \/ ChannelFlaps(p) \/ \E l \in Lines : Send(p, l)
    \/ OperatorDeregisters \/ TokenExpires \/ OrchDown \/ OrchUp
SessionSpec == SessionInit /\ [][SessionNext]_sessionVars

(***************************************************************************)
(* Properties.                                                             *)
(***************************************************************************)
(* A process stops registering for good only when the token it holds was   *)
(* retired by the operator or by another process.  A registration of its   *)
(* own whose answer was lost retires it too; the keeper does not take that *)
(* for a revocation until a later registration of its own is refused.      *)
RetiredBy(t, by) == [token |-> t, by |-> by] \in budget.retired
RevokedForCause == \A p \in Procs : keeper[p].revoked =>
    \/ \E by \in Procs \cup {Nobody} : by # p /\ RetiredBy(keeper[p].token, by)
    \/ p \in budget.refused /\ RetiredBy(keeper[p].token, p)

(* What the keeper says of itself (_answered): an answer that never came   *)
(* may have carried a token, so the refusal of the older one proves no     *)
(* revocation, whatever happens to the registrations after it.             *)
RevokedOnlyByOthers == \A p \in Procs : keeper[p].revoked =>
    \E by \in Procs \cup {Nobody} : by # p /\ RetiredBy(keeper[p].token, by)

(* A process that deregistered leaves nothing behind: no registration of   *)
(* its own is under way or comes after, and where tokens are enforced,     *)
(* stopping one that holds a token never removes the registration of the   *)
(* process that took over its id.                                          *)
StopIsFinal == \A p \in Procs :
    /\ phase[p] = "gone" => reg[p] = NoReg
    /\ p \in budget.left => orch.entry # p
    /\ budget.strangers = {}

(* Once the watcher saw the orchestrator go, the process registers with    *)
(* the one that comes back, unless another process did, or it stops: lost  *)
(* and refused registrations (fewer than the attempts of one reconnect)    *)
(* are made up for.                                                        *)
Registered(p) == orch.up /\ keeper[p].token # NoToken /\ keeper[p].token.boot = orch.boot
RestartHeals == \A p \in Procs :
    watch[p].left ~> orch.entry # Nobody \/ ~Owes(keeper[p]) \/ Registered(p)

(* A process gives its id up only for cause, leaves nothing behind when it *)
(* stops, and finds its way back to an orchestrator that restarted         *)
(* (AgentTokenKeeper, ReregistrationWatcher and the stop path together).   *)
SessionsHeal == [](RevokedForCause /\ StopIsFinal) /\ RestartHeals
=============================================================================
