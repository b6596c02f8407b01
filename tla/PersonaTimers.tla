--------------------------- MODULE PersonaTimers ---------------------------
(***************************************************************************)
(* The clockwork of a persona process: the autonomy block of its config,   *)
(* which the writer of agents/convene_timer_writer.py reconciles with the  *)
(* standing channels the persona convenes, the timers the process arms     *)
(* from it when it starts, and the scheduled_wakes table that carries a    *)
(* timer's next fire over a restart.  Times are seconds of the host's      *)
(* monotonic clock, which a reboot sets back.  A loop that is up runs a    *)
(* timer when it is due.                                                   *)
(***************************************************************************)
EXTENDS Integers, Sequences, FiniteSets, SequencesExt, FiniteSetsExt

CONSTANTS
    Autonomies,   \* autonomy blocks an operator writes: [level, tick, timers]
    SpecSets,     \* sets of [channel, interval] the writer is run with
    GroupId,      \* group channel -> the id of its standing convene timer
    MaxNow,       \* bound: the clock
    MaxBoots,     \* bound: process starts
    NoValue         \* an absent key

VARIABLES
    autonomy,  \* the block as it stands in agents.yaml
    original,  \* the block the operator wrote
    rows,      \* scheduled_wakes: timer id -> [at: next_fire_at, interval, jitter]
    now,       \* the monotonic clock
    stage,     \* how far the process has come up
    saved,     \* the anchors it has read, and the clock then
    due,       \* the timers armed: id -> when it fires
    fired,     \* id -> when it last fired and in which process, this side of a reboot
    boots,     \* processes started
    convened,  \* channels this process asked the orchestrator to convene
    foreign    \* timers whose anchor on disk is of another clock or of a timer since edited

timerVars == <<autonomy, original, rows, now, stage, saved, due, fired, boots, convened, foreign>>

MinInterval == 1
SchedulerLevels == {"semi-autonomous", "autonomous"}
LegacyId == "legacy_tick"
Timer(id, kind, interval, jitter) == [id |-> id, kind |-> kind, interval |-> interval, jitter |-> jitter]
DefaultTick == 3

-----------------------------------------------------------------------------
(* The writer: the convene timers become exactly those of the specs, everything else is kept.   *)
(* A persona that ticked by default has its tick written out, for a timers block turns the      *)
(* default off; one that did not schedule is raised to the lowest level that does.              *)
WasScheduling(a) == a.level \in SchedulerLevels
TimersOf(a) == IF a.timers = NoValue THEN {} ELSE a.timers
LegacyTick(a) == Timer(LegacyId, "tick", IF a.tick = NoValue THEN DefaultTick ELSE a.tick, 0)
UpsertById(timers, t) == {u \in timers : u.id # t.id} \cup {t}

KeptTimers(a, specs) ==
    LET own == {t \in TimersOf(a) : t.kind # "convene"} IN
    IF specs # {} /\ WasScheduling(a) /\ a.timers = NoValue THEN UpsertById(own, LegacyTick(a)) ELSE own
StandingTimerId(channel) == IF channel \in DOMAIN GroupId THEN GroupId[channel] ELSE NoValue
ParseTimerId(id) ==
    IF \E c \in DOMAIN GroupId : GroupId[c] = id THEN CHOOSE c \in DOMAIN GroupId : GroupId[c] = id ELSE NoValue
ConveneTimer(s) == Timer(StandingTimerId(s.channel), "convene", s.interval, 0)
Armable(a, specs) ==
    \A s \in specs :
        /\ StandingTimerId(s.channel) # NoValue /\ s.interval >= MinInterval
        /\ \A t \in KeptTimers(a, specs) : t.id # StandingTimerId(s.channel)
MergeConveneTimers(a, specs) ==
    [a EXCEPT
        !.timers = IF specs # {} \/ a.timers # NoValue
                   THEN KeptTimers(a, specs) \cup {ConveneTimer(s) : s \in specs}
                   ELSE @,
        !.level = IF specs # {} /\ ~WasScheduling(a) THEN "semi-autonomous" ELSE @]

(* Every timer there can be: the operator's own, a tick written out, a spec's.  A block that      *)
(* repeats an id does not boot, and of a channel named twice the writer keeps the later interval. *)
KnownTimers ==
    (UNION {TimersOf(a) : a \in Autonomies}) \cup {LegacyTick(a) : a \in Autonomies}
        \cup {ConveneTimer(s) : s \in UNION SpecSets}
ASSUME TimersAssumption ==
    /\ \A timers \in SUBSET KnownTimers : timers # NoValue
    /\ \A a \in Autonomies :
         /\ a = [level |-> a.level, tick |-> a.tick, timers |-> a.timers]
         /\ \A t, u \in TimersOf(a) : t.id = u.id => t = u
    /\ \A t \in KnownTimers : t.interval \in Int /\ t.jitter \in Int
    /\ \A specs \in SpecSets : \A s, u \in specs : s.channel = u.channel => s = u
    /\ \A c, d \in DOMAIN GroupId : GroupId[c] = GroupId[d] => c = d

-----------------------------------------------------------------------------
NoTimers == <<>>   \* the function with no argument
TimersInit ==
    /\ autonomy \in Autonomies /\ original = autonomy
    /\ rows = NoTimers /\ due = NoTimers /\ fired = NoTimers
    /\ now = 1 /\ stage = "down" /\ boots = 0 /\ convened = {} /\ foreign = {}
    /\ saved = [rows |-> NoTimers, at |-> 0]

(* The writer raises, and writes nothing, on a channel or an interval that could not boot. *)
WriteConfig(specs) ==
    /\ stage = "down" /\ Armable(autonomy, specs)
    /\ autonomy' = MergeConveneTimers(autonomy, specs)
    /\ UNCHANGED <<original, rows, now, stage, saved, due, fired, boots, convened, foreign>>

-----------------------------------------------------------------------------
(* Start-up.  A persona whose memory will not open is left out; one that schedules gets its     *)
(* loop, with the default tick only when the config has no timers block.                        *)
Boot ==
    /\ stage = "down" /\ boots < MaxBoots
    /\ boots' = boots + 1 /\ convened' = {}
    /\ \/ stage' = "left_out" /\ UNCHANGED due
       \/ IF autonomy.timers # NoValue /\ WasScheduling(autonomy) THEN stage' = "cache" /\ UNCHANGED due
          ELSE /\ stage' = "up"
               /\ due' = IF WasScheduling(autonomy) THEN [i \in {LegacyId} |-> now + LegacyTick(autonomy).interval] ELSE NoTimers
    /\ UNCHANGED <<autonomy, original, rows, now, saved, fired, foreign>>

(* The cache will not open, read or rebuild, or a timer is refused: the loop is stopped, the cache *)
(* closed, and start-up fails.                                                                     *)
StartFails ==
    /\ stage \in {"cache", "rebuild", "register"}
    /\ stage' = "failed" /\ due' = NoTimers
    /\ UNCHANGED <<autonomy, original, rows, now, saved, fired, boots, convened, foreign>>
ListTimers ==
    /\ stage = "cache"
    /\ saved' = [rows |-> rows, at |-> now] /\ stage' = "rebuild"
    /\ UNCHANGED <<autonomy, original, rows, now, due, fired, boots, convened, foreign>>

Ahead(id) == id \in DOMAIN saved.rows /\ saved.rows[id].at > saved.at
Configured(id) == CHOOSE t \in autonomy.timers : t.id = id
(* An anchor still ahead is kept; a timer new or past gets a fresh one. *)
BuildRows ==
    [id \in {t.id : t \in autonomy.timers} |->
        [at |-> IF Ahead(id) THEN saved.rows[id].at ELSE saved.at + Configured(id).interval,
         interval |-> Configured(id).interval, jitter |-> Configured(id).jitter]]
\* The anchor kept was written by a timer of another period or another jitter.
Edited(id) == saved.rows[id].interval # Configured(id).interval \/ saved.rows[id].jitter # Configured(id).jitter
RebuildFromConfig ==
    /\ stage = "rebuild"
    /\ rows' = BuildRows /\ stage' = "register"
    /\ foreign' = {id \in DOMAIN BuildRows : Ahead(id) /\ (id \in foreign \/ Edited(id))}
    /\ UNCHANGED <<autonomy, original, now, saved, due, fired, boots, convened>>

Registrable(t) == t.interval >= MinInterval /\ t.jitter >= 0 /\ t.jitter <= t.interval - MinInterval
NextDelay(t) == (t.interval - t.jitter) .. (t.interval + t.jitter)

\* Mutant: an anchor of another boot is believed.
InitialDelayUnclamped(t) == Max({MinInterval, saved.rows[t.id].at - saved.at})

(* An anchor of another boot of the host cannot hold the first fire back past one period. *)
InitialDelay(t) == Max({MinInterval, Min({saved.rows[t.id].at - saved.at, t.interval + t.jitter})})
FirstDelay(t) == IF Ahead(t.id) THEN {InitialDelay(t)} ELSE NextDelay(t)
RegisterTimers ==
    /\ stage = "register"
    /\ \A t \in autonomy.timers : Registrable(t)
    /\ \E delay \in [autonomy.timers -> 0..MaxNow] :
         /\ \A t \in autonomy.timers : delay[t] \in FirstDelay(t)
         /\ due' = [id \in {t.id : t \in autonomy.timers} |-> now + delay[Configured(id)]]
    /\ stage' = "up"
    /\ UNCHANGED <<autonomy, original, rows, now, saved, fired, boots, convened, foreign>>

-----------------------------------------------------------------------------
Armed(id) ==
    IF autonomy.timers = NoValue THEN LegacyTick(autonomy) ELSE Configured(id)
(* A convene timer asks the orchestrator to convene its channel; a refusal or an error is logged *)
(* and the next period tries again.  Any other wake runs the persona.                            *)
FireTimer(id) ==
    /\ stage = "up" /\ id \in DOMAIN due /\ due[id] <= now
    /\ \E delay \in NextDelay(Armed(id)) : due' = [due EXCEPT ![id] = now + delay]
    /\ fired' = [i \in DOMAIN fired \cup {id} |-> IF i = id THEN [at |-> now, boot |-> boots] ELSE fired[i]]
    /\ convened' = IF Armed(id).kind = "convene" /\ ParseTimerId(id) # NoValue THEN convened \cup {ParseTimerId(id)} ELSE convened
    /\ UNCHANGED <<autonomy, original, rows, now, stage, saved, boots, foreign>>

Clock ==
    /\ now < MaxNow /\ (stage = "up" => \A id \in DOMAIN due : due[id] > now)
    /\ now' = now + 1
    /\ UNCHANGED <<autonomy, original, rows, stage, saved, due, fired, boots, convened, foreign>>
Exit ==  \* a stop, a failed start or a crash, at any point
    /\ stage # "down"
    /\ stage' = "down" /\ due' = NoTimers /\ saved' = [rows |-> NoTimers, at |-> 0]
    /\ UNCHANGED <<autonomy, original, rows, now, fired, boots, convened, foreign>>
Reboot ==  \* the host: its monotonic clock starts over
    /\ stage = "down" /\ now > 1
    /\ now' = 1 /\ fired' = NoTimers /\ foreign' = DOMAIN rows
    /\ UNCHANGED <<autonomy, original, rows, stage, saved, due, boots, convened>>

TimersNext ==
    \/ \E specs \in SpecSets : WriteConfig(specs)
    \/ Boot \/ StartFails \/ ListTimers \/ RebuildFromConfig \/ RegisterTimers
    \/ \E id \in DOMAIN due : FireTimer(id)
    \/ Clock \/ Exit \/ Reboot
TimersSpec == TimersInit /\ [][TimersNext]_timerVars

-----------------------------------------------------------------------------
(* However often the writer runs, and whatever channels come and go, the timers that are not    *)
(* convene timers are those the operator's own block would have armed: no heartbeat is lost,    *)
(* none appears in a persona that had none, and each channel convened is one it was told to.    *)
Cadence(a) ==
    IF ~WasScheduling(a) THEN {} ELSE IF a.timers = NoValue THEN {LegacyTick(a)} ELSE {t \in a.timers : t.kind # "convene"}
WriterKeepsTheCadence ==
    /\ WasScheduling(original) => Cadence(autonomy) = Cadence(original)
    /\ ~WasScheduling(original) => Cadence(autonomy) = {t \in TimersOf(original) : WasScheduling(autonomy) /\ t.kind # "convene"}
    /\ \A t, u \in TimersOf(autonomy) : t.id = u.id => t = u

(* No restart and no reboot leaves a timer waiting longer than one period from now; without     *)
(* jitter two fires are a full period apart even across restarts of the process, unless the     *)
(* anchor it restarted from was written before a reboot or before the timer was edited; with    *)
(* jitter a period less the jitter while the process lives.                                     *)
WakesKeepTheirPeriod ==
    stage = "up" => \A id \in DOMAIN due :
        LET t == Armed(id) IN
        /\ due[id] <= now + t.interval + t.jitter
        /\ id \in DOMAIN fired =>
             \/ due[id] - fired[id].at >= t.interval - t.jitter
             \/ (t.jitter > 0 \/ id \in foreign) /\ fired[id].boot # boots

(* A timer that has fired does not fire again before its period less its jitter has passed, a   *)
(* restart in between or not.                                                                   *)
NeverTwiceInAPeriod ==
    stage = "up" => \A id \in DOMAIN due \cap DOMAIN fired :
        due[id] - fired[id].at >= Armed(id).interval - Armed(id).jitter

(* Neither the writer of the convene timers nor a restart disturbs the rhythm the operator set. *)
TimersKeepTheRhythm == WriterKeepsTheCadence /\ WakesKeepTheirPeriod
=============================================================================
