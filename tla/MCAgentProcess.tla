--------------------------- MODULE MCAgentProcess ---------------------------
(***************************************************************************)
(* The machinery around the persona in an agent process, on small          *)
(* instances: its session with the orchestrator (two processes of one id,  *)
(* as a rolling restart has them), the upgrade of its database, its        *)
(* timers, its log shipper and the routing of its model calls.  They share *)
(* no state, so a behaviour is about one of them (focus), the others stay  *)
(* where they started.                                                     *)
(***************************************************************************)
EXTENDS AgentSession, Migrations, PersonaTimers, LogShipper, ModelRouting
VARIABLE focus

\* Enough attempts to make up for every fault and restart of the instance.
ASSUME AttemptsAssumption == MaxFaults + MaxRestarts <= Attempts
ASSUME VersionsAssumption == StartVersions \subseteq 0..Newest

\* Autonomy blocks with and without timers, and channels to convene.
Block(level, tick, timers) == [level |-> level, tick |-> tick, timers |-> timers]
Reflect(j) == Timer("reflect", "reflection", 3, j)
AutonomiesDef ==
    {Block("reactive", NoValue, NoValue), Block("autonomous", NoValue, NoValue), Block("semi-autonomous", 2, {}),
     Block("autonomous", NoValue, {Reflect(1)}), Block("reactive", NoValue, {Reflect(0)})}
SpecSetsDef == {{}, {[channel |-> "team", interval |-> 2]}, {[channel |-> "team", interval |-> 4]}, {[channel |-> "team", interval |-> 0]}, {[channel |-> "dm", interval |-> 2]}}
GroupIdDef == [team |-> "convene-team"]

\* Alias maps of two entries, and the seats that use them.
Entry(provider, model, host, in, out) == [provider |-> provider, model |-> model, host |-> host, in |-> in, out |-> out, project |-> model = "m3"]
EntriesDef ==
    {Entry("anthropic", "m1", Unset, 1, 2), Entry("anthropic", "m2", Unset, 1, Unset), Entry("openai", "m2", Unset, 3, 3),
     Entry("openai", "m1", "loopback", Unset, Unset), Entry("openai", "m3", "remote", Unset, 3), Entry("ollama", "m3", Unset, Unset, Unset),
     Entry("mock", "m1", Unset, 0, 0), Entry("unconfigured", "m1", Unset, 0, 0), Entry("gemini", "m2", Unset, 1, 1),
     Entry("anthropic", "m2", "loopback", Unset, Unset), Entry("watsonx", "m2", Unset, 1, 1), Entry("watsonx", "m3", Unset, 1, 1),
     Entry("mistral", "m1", Unset, 1, 1),
     Entry(Unset, "m1", "loopback", 1, 1), Entry("mock", Unset, Unset, 0, 0)}
Profiles(s, d) == [summarization |-> s, defaults |-> d]
FilesDef ==
    {Unset} \cup
    {[aliases |-> [quality |-> e, fast |-> f], profiles |-> p] :
        e \in EntriesDef, f \in EntriesDef,
        p \in {<<Profiles("fast", Unset), Profiles("quality", [sub_agents |-> "quality"])>>,
               <<Profiles(Unset, [sub_agents |-> Unset])>>, <<Profiles("retired", [sub_agents |-> "fast"])>>}}
SeatsDef ==
    {[kind |-> "persona", model |-> "quality", vendor |-> Unset, settings |-> "remote"],
     [kind |-> "task", model |-> "fast", vendor |-> "openai", settings |-> Unset],
     [kind |-> "robot", model |-> "fast", vendor |-> Unset, settings |-> Unset],
     [kind |-> "task", model |-> "retired", vendor |-> Unset, settings |-> Unset]}

processVars == <<sessionVars, migrationVars, timerVars, shipVars, routingVars, focus>>
Init ==
    /\ focus \in {"session", "alone", "upgrade", "timers", "logs", "routing"}
    /\ release \in IF focus = "upgrade" THEN StartVersions ELSE {Newest}
    /\ autonomy \in IF focus = "timers" THEN Autonomies ELSE {Block("reactive", NoValue, NoValue)}
    /\ file \in IF focus = "routing" THEN Files ELSE {Unset}
    /\ seat \in IF focus = "routing" THEN Seats ELSE {CHOOSE s \in Seats : TRUE}
    /\ SessionInit /\ MigrationInit /\ TimersInit /\ ShipperInit /\ RoutingInit
    /\ orch.enforced \/ focus = "session"

\* A rolling restart meets one fault and one call, a process alone all of them.
Within ==
    \/ focus = "session" /\ budget'.faults >= MaxFaults - 1 /\ budget'.calls >= MaxRestCalls - 1
    \/ focus = "alone" /\ \A p \in Procs : p > 1 => phase'[p] = "new"
\* Only the component in focus moves.
OfSession == focus \in {"session", "alone"}
InSession == Within /\ UNCHANGED <<migrationVars, timerVars, shipVars, routingVars, focus>>
OfLogs == focus = "logs"
InLogs == UNCHANGED <<sessionVars, migrationVars, timerVars, routingVars, focus>>
Next ==
    \/ OfSession /\ SessionNext /\ InSession
    \/ OfLogs /\ ShipperNext /\ InLogs
    \/ focus = "upgrade" /\ MigrationNext /\ UNCHANGED <<sessionVars, timerVars, shipVars, routingVars, focus>>
    \/ focus = "timers" /\ TimersNext /\ UNCHANGED <<sessionVars, migrationVars, shipVars, routingVars, focus>>
    \/ focus = "routing" /\ RoutingNext /\ UNCHANGED <<sessionVars, migrationVars, timerVars, shipVars, focus>>

\* The event loop runs its tasks, the network answers or times out, and an
\* orchestrator that went down is brought back.
SessionFairness ==
    /\ \A p \in Procs : /\ WF_processVars(OfSession /\ Agent(p) /\ InSession)
                        /\ WF_processVars(OfSession /\ (Land(p) \/ Answered(p) \/ RegistrationLost(p)) /\ InSession)
    /\ WF_processVars(OfSession /\ OrchUp /\ InSession)
\* The loop runs the drain task and the stop; a write may stay blocked for ever.
ShipperFairness ==
    /\ WF_processVars(OfLogs /\ (Run \/ RequestIter \/ WaitEnds \/ Reconnect \/ DoneWriting) /\ InLogs)
    /\ WF_processVars(OfLogs /\ StopReturns /\ InLogs) /\ WF_processVars(OfLogs /\ StopTimesOut /\ InLogs)
Spec == Init /\ [][Next]_processVars /\ SessionFairness /\ ShipperFairness
=============================================================================
