----------------------------- MODULE EventLoop -----------------------------
(***************************************************************************)
(* The persona event loops of one agent process: EventLoop with its timer  *)
(* and lifecycle mixins, the TickScheduler adapter, the EventDispatcher,   *)
(* the in-process branch of the ActionExecutor, the chat and channel RPC   *)
(* handlers that produce wakes, and the salience subscriber.               *)
(*                                                                         *)
(* A task is a supervisor (named by its agent), the gRPC task of a chat    *)
(* request, or the detached resolver of a reentrant dispatch (named by     *)
(* its handle).  What a persona decides is abstracted to the set of agents *)
(* its actions mention; stack[t] holds the cascades task t is executing,   *)
(* innermost last.                                                         *)
(***************************************************************************)
EXTENDS Naturals, Sequences, FiniteSets

CONSTANTS
  Agents,            \* agents a process may host
  Scheduled,         \* those with a TickScheduler; the others are reactive
  Requests,          \* gRPC requests: chats, or channel messages
                     \* that find no running loop
  Handles,           \* ids of SyncDispatchHandle objects (1..n)
  QueueSize,         \* maxsize of a wake queue
  MaxCascadeDepth,   \* EventDispatcher.max_cascade_depth
  IdleAfter,         \* TickScheduler.idle_after_ticks
  TimerKinds,        \* callback kinds of the registered timers
  MaxMentions,       \* bound: mentions of one decision
  MaxInbound,        \* bound: channel messages received
  MaxStarts,         \* bound: start() calls of one loop
  WaitInline,        \* asyncio.wait_for runs its coroutine in the caller's
                     \* task: TRUE from Python 3.12, FALSE on 3.11
  NoTask

ASSUME LoopAssumption ==
  /\ IsFiniteSet(Agents) /\ Scheduled \subseteq Agents
  /\ Handles \subseteq Nat \ {0} /\ IsFiniteSet(Handles)
  /\ Agents \cap Requests = {} /\ Agents \cap Handles = {} /\ Requests \cap Handles = {}
  /\ QueueSize \in Nat \ {0} /\ MaxCascadeDepth \in Nat
  /\ IdleAfter \in Nat /\ MaxMentions \in Nat
  /\ MaxInbound \in Nat /\ MaxStarts \in Nat /\ WaitInline \in BOOLEAN
  /\ NoTask \notin Agents \cup Requests \cup Handles
  /\ TimerKinds \subseteq {"tick", "convene"}

VARIABLES
  hosted,     \* the agents this process registered
  phase,      \* [agent -> where start()/stop() of its loop stands]
  stopped,    \* [agent -> the _stopped event]
  starts,     \* [agent -> start() calls so far]
  queue,      \* [agent -> wakes waiting]
  timers,     \* [agent -> kinds of the timers armed]
  idle,       \* [agent -> consecutive idle ticks]
  lock,       \* [agent -> task inside on_event / on_tick, or NoTask]
  pc,         \* [task -> what it is doing]
  wake,       \* [agent -> the wake its supervisor is handling]
  stack,      \* [task -> cascades in progress]
  awaiting,   \* [task -> the handle it awaits, or 0]
  handle,     \* [handle -> its future: state, actions, agent asked]
  reply,      \* [chat -> what SendChatMessage answered]
  inbound     \* channel messages received so far

loopVars == <<phase, stopped, starts, timers>>
vars == <<hosted, phase, stopped, starts, queue, timers, idle, lock,
          pc, wake, stack, awaiting, handle, reply, inbound>>

Tasks == Agents \cup Requests \cup Handles
Settled == {"done", "empty", "failed", "cancelled"}
NoWake == [kind |-> "none"]
NoFuture == [st |-> "free", acts |-> {}, to |-> NoTask]
Mentions == {T \in SUBSET Agents : Cardinality(T) <= MaxMentions}
Top(s) == s[Len(s)]
Pop(s) == SubSeq(s, 1, Len(s) - 1)

-----------------------------------------------------------------------------
(* SyncDispatchHandle: settled at most once, by resolve, reject or the     *)
(* cancellation of the task awaiting it.                                   *)
Settle(hs, h, st, acts) ==
  IF hs[h].st = "pending" THEN [hs EXCEPT ![h].st = st, ![h].acts = acts]
  ELSE hs

(* A handle id nothing refers to: not awaited, not in a queue, not handled.*)
Referenced(h) ==
  \/ \E t \in Tasks : awaiting[t] = h
  \/ pc[h] # "none"
  \/ \E a \in Agents :
        \/ wake[a].kind = "sync" /\ wake[a].h = h
        \/ \E i \in 1..Len(queue[a]) : queue[a][i].kind = "sync" /\ queue[a][i].h = h
FreeHandles == {h \in Handles : ~Referenced(h)}
NewHandle == CHOOSE h \in FreeHandles : TRUE

(* Whatever ends a task's turn inside on_event releases the agent's lock.  *)
LocksAfter(t) == [x \in Agents |-> IF lock[x] = t THEN NoTask ELSE lock[x]]

(* The cascade ceiling of dispatch() and process_inbound_channel_event.    *)
TooDeep(d) == d >= MaxCascadeDepth

(* is_running: a supervisor task that has not ended, in stop() too.         *)
Running(a) == phase[a] # "off" /\ pc[a] # "exited"
Full(a) == Len(queue[a]) >= QueueSize

(* EventLoop.enqueue of a wake that carries no handle.                     *)
Accepts(a) == ~stopped[a] /\ ~Full(a)
EnqueuePlain(a, w) ==
  queue' = IF Accepts(a) THEN [queue EXCEPT ![a] = Append(@, w)] ELSE queue

-----------------------------------------------------------------------------
TypeOK ==
  /\ hosted \subseteq Agents
  /\ phase \in [Agents -> {"off", "run", "stop_resolvers", "stop_wait", "stop_cancel"}]
  /\ stopped \in [Agents -> BOOLEAN]
  /\ starts \in [Agents -> 0..MaxStarts]
  /\ timers \in [Agents -> SUBSET TimerKinds]
  /\ idle \in [Agents -> 0..IdleAfter]
  /\ lock \in [Agents -> Tasks \cup {NoTask}]
  /\ pc \in [Tasks -> {"none", "top", "get", "spawned", "lock", "decide", "exec",
                       "await", "exited", "done"}]
  /\ awaiting \in [Tasks -> Handles \cup {0}]
  /\ \A h \in Handles : /\ handle[h].st \in Settled \cup {"free", "pending"}
                        /\ handle[h].acts \in SUBSET Agents
                        /\ handle[h].to \in Agents \cup {NoTask}
  /\ \A a \in Agents : Len(queue[a]) <= QueueSize
  /\ inbound \in 0..MaxInbound

Init ==
  /\ hosted \in SUBSET Agents \ {{}}
  /\ phase = [a \in Agents |-> "off"]
  /\ stopped = [a \in Agents |-> FALSE]
  /\ starts = [a \in Agents |-> 0]
  /\ queue = [a \in Agents |-> <<>>]
  /\ timers = [a \in Agents |-> {}]
  /\ idle = [a \in Agents |-> 0]
  /\ lock = [a \in Agents |-> NoTask]
  /\ pc = [t \in Tasks |-> "none"]
  /\ wake = [a \in Agents |-> NoWake]
  /\ stack = [t \in Tasks |-> <<>>]
  /\ awaiting = [t \in Tasks |-> 0]
  /\ handle = [h \in Handles |-> NoFuture]
  /\ reply = [c \in Requests |-> "none"]
  /\ inbound = 0

-----------------------------------------------------------------------------
(* Lifecycle: start(), the timers, and stop() in its four stages.          *)
LoopStart(a) ==
  /\ phase' = [phase EXCEPT ![a] = "run"]        \* supervisor and subscription
  /\ stopped' = [stopped EXCEPT ![a] = FALSE]
  /\ pc' = [pc EXCEPT ![a] = "top"]
(* TickScheduler.start: nothing when running; register the timers once.    *)
Start(a) ==
  /\ a \in hosted \cap Scheduled /\ phase[a] = "off" /\ starts[a] < MaxStarts
  /\ starts' = [starts EXCEPT ![a] = @ + 1]
  /\ LoopStart(a)
  /\ timers' = [timers EXCEPT ![a] = TimerKinds]
  /\ UNCHANGED <<hosted, queue, idle, lock, wake, stack, awaiting, handle, reply,
                 inbound>>

(* A timer fires and re-arms; a full queue drops its wake.                 *)
TimerFire(a, kind) ==
  /\ kind \in timers[a]
  /\ EnqueuePlain(a, [kind |-> kind])
  /\ UNCHANGED <<hosted, loopVars, idle, lock, pc, wake, stack, awaiting,
                 handle, reply, inbound>>

(* A memory write of this agent that passes the subscriber's threshold,    *)
(* loop-back guard and rate limit.                                         *)
MemoryWrite(a) ==
  /\ phase[a] = "run"                       \* subscribed to the write bus
  /\ EnqueuePlain(a, [kind |-> "salience"])
  /\ UNCHANGED <<hosted, loopVars, idle, lock, pc, wake, stack, awaiting,
                 handle, reply, inbound>>

Resolvers(a) == {h \in Handles : pc[h] # "none" /\ handle[h].to = a}

(* stop(): no new wakes, no timers; then abort the reentrant resolvers.    *)
StopBegin(a) ==
  /\ phase[a] = "run"
  /\ phase' = [phase EXCEPT ![a] = "stop_resolvers"]
  /\ stopped' = [stopped EXCEPT ![a] = TRUE]
  /\ timers' = [timers EXCEPT ![a] = {}]
  /\ UNCHANGED <<hosted, starts, queue, idle, lock, pc, wake, stack,
                 awaiting, handle, reply, inbound>>
(* A resolver's cancellation settles its handle, unless the task has not    *)
(* taken its first step: then its body, and so its except, never runs.      *)
StopResolver(a, h) ==
  /\ phase[a] = "stop_resolvers" /\ h \in Resolvers(a)
  /\ handle' = IF pc[h] = "spawned" THEN handle ELSE Settle(handle, h, "empty", {})
  /\ pc' = [pc EXCEPT ![h] = "none"]
  /\ lock' = [lock EXCEPT ![a] = IF @ = h THEN NoTask ELSE @]
  /\ UNCHANGED <<hosted, loopVars, queue, idle, wake, stack, awaiting, reply,
                 inbound>>

\* Mutant: stop() only sets the flag, which a supervisor in get() never sees.
PoisonedNot(a) == queue

Poisoned(a) == IF pc[a] # "exited" /\ ~Full(a)
               THEN [queue EXCEPT ![a] = Append(@, [kind |-> "stop"])] ELSE queue
(* Poison the queue, or cancel the supervisor when the queue is full.      *)
StopPoison(a) ==
  /\ phase[a] = "stop_resolvers" /\ Resolvers(a) = {}
  /\ phase' = [phase EXCEPT ![a] =
        IF pc[a] # "exited" /\ Full(a) THEN "stop_cancel" ELSE "stop_wait"]
  /\ queue' = Poisoned(a)
  /\ UNCHANGED <<hosted, stopped, starts, timers, idle, lock, pc, wake,
                 stack, awaiting, handle, reply, inbound>>
StopTimeout(a) ==
  /\ phase[a] = "stop_wait" /\ pc[a] # "exited"
  /\ phase' = [phase EXCEPT ![a] = "stop_cancel"]
  /\ UNCHANGED <<hosted, stopped, starts, timers, queue, idle, lock, pc,
                 wake, stack, awaiting, handle, reply, inbound>>

\* Mutant: the in-flight handle is forgotten.
SettleInFlightNot(a) == handle

SettleInFlight(a) == IF wake[a].kind = "sync"
                     THEN Settle(handle, wake[a].h, "empty", {}) ELSE handle
(* The cancellation reaches the supervisor: the handle it was to resolve   *)
(* gets the empty list, the handle it awaited is cancelled with it.        *)
SupervisorCancelled(a) ==
  /\ phase[a] = "stop_cancel" /\ pc[a] # "exited"
  /\ pc' = [pc EXCEPT ![a] = "exited"]
  /\ LET own == SettleInFlight(a)
     IN handle' = IF pc[a] = "await"
                  THEN Settle(own, awaiting[a], "cancelled", {}) ELSE own
  /\ lock' = LocksAfter(a)
  /\ awaiting' = [awaiting EXCEPT ![a] = 0]
  /\ stack' = [stack EXCEPT ![a] = <<>>]
  /\ wake' = [wake EXCEPT ![a] = NoWake]
  /\ UNCHANGED <<hosted, loopVars, queue, idle, reply, inbound>>

\* Mutant: the queue is thrown away with its handles.
DrainPendingHandlesNot(a) == handle

(* The handles still queued get the empty list.                            *)
DrainPendingHandles(a) ==
  LET queued == {queue[a][i].h : i \in {j \in 1..Len(queue[a]) :
                                            queue[a][j].kind = "sync"}}
  IN [h \in Handles |-> IF h \in queued /\ handle[h].st = "pending"
                        THEN [handle[h] EXCEPT !.st = "empty"] ELSE handle[h]]
StopFinish(a) ==
  /\ phase[a] \in {"stop_wait", "stop_cancel"} /\ pc[a] = "exited"
  /\ handle' = DrainPendingHandles(a)
  /\ queue' = [queue EXCEPT ![a] = <<>>]
  /\ phase' = [phase EXCEPT ![a] = "off"]
  /\ pc' = [pc EXCEPT ![a] = "none"]
  /\ UNCHANGED <<hosted, stopped, starts, timers, idle, lock, wake,
                 stack, awaiting, reply, inbound>>

-----------------------------------------------------------------------------
(* The supervisor: check _stopped, take a wake, handle it.                 *)
LoopTop(a) ==
  /\ pc[a] = "top"
  /\ pc' = [pc EXCEPT ![a] = IF stopped[a] THEN "exited" ELSE "get"]
  /\ UNCHANGED <<hosted, loopVars, queue, idle, lock, wake, stack, awaiting,
                 handle, reply, inbound>>

(* A wake that runs the persona goes on to take its lock; the others are   *)
(* over at once: the sentinel, a salience wake, a convene wake (a POST     *)
(* whose failures are logged), an inbound event at the depth ceiling.      *)
RunsPersona(w) == \/ w.kind \in {"sync", "tick"}
                  \/ w.kind = "inbound" /\ ~TooDeep(w.depth)
TakeWake(a) ==
  /\ pc[a] = "get" /\ queue[a] # <<>>
  /\ LET w == Head(queue[a])
     IN /\ pc' = [pc EXCEPT ![a] = CASE w.kind = "stop" -> "exited"
                                     [] RunsPersona(w) -> "lock"
                                     [] OTHER -> "top"]
        /\ wake' = [wake EXCEPT ![a] = IF RunsPersona(w) THEN w ELSE NoWake]
        /\ idle' = [idle EXCEPT ![a] = IF w.kind \in {"sync", "inbound"} THEN 0 ELSE @]
  /\ queue' = [queue EXCEPT ![a] = Tail(@)]
  /\ UNCHANGED <<hosted, loopVars, lock, stack, awaiting, handle, reply, inbound>>

(* The agent whose on_event or on_tick task t is in or about to enter.     *)
Asked(t) == IF t \in Handles THEN handle[t].to
            ELSE IF stack[t] = <<>> THEN t ELSE Top(stack[t]).cur

(* The first step of a resolver that stop() has not cancelled.             *)
StartResolver(h) ==
  /\ pc[h] = "spawned" /\ ~stopped[handle[h].to]
  /\ pc' = [pc EXCEPT ![h] = "lock"]
  /\ UNCHANGED <<hosted, loopVars, queue, idle, lock, wake, stack, awaiting, handle,
                 reply, inbound>>

(* Take the per-agent lock.                                                *)
Acquire(t) ==
  /\ pc[t] = "lock" /\ lock[Asked(t)] = NoTask
  /\ lock' = [lock EXCEPT ![Asked(t)] = t]
  /\ pc' = [pc EXCEPT ![t] = "decide"]
  /\ UNCHANGED <<hosted, loopVars, queue, idle, wake, stack, awaiting, handle,
                 reply, inbound>>

(* Task t is a request still waiting for the persona it was sent to.       *)
AtTheDoor(t) == t \in Requests /\ stack[t] # <<>> /\ Top(stack[t]).depth = 0

IdleTick(t) == t \in Agents /\ stack[t] = <<>> /\ wake[t].kind = "tick"
Unlocked(t) == lock' = [lock EXCEPT ![Asked(t)] = NoTask]

(* on_event returns actions mentioning T: to the handle (resolver, chat or *)
(* cascade wake), or to the executor (inbound event, direct call).         *)
Decide(t, T) ==
  /\ pc[t] = "decide" /\ ~IdleTick(t) /\ Unlocked(t)
  /\ \/ /\ t \in Handles
        /\ handle' = Settle(handle, t, "done", T)
        /\ pc' = [pc EXCEPT ![t] = "none"]
        /\ UNCHANGED <<stack, wake, reply>>
     \/ /\ t \in Agents /\ stack[t] = <<>> /\ wake[t].kind = "sync"
        /\ handle' = Settle(handle, wake[t].h, "done", T)
        /\ pc' = [pc EXCEPT ![t] = "top"]
        /\ wake' = [wake EXCEPT ![t] = NoWake]
        /\ UNCHANGED <<stack, reply>>
     \/ /\ t \in Agents /\ stack[t] = <<>> /\ wake[t].kind = "inbound"
        /\ stack' = [stack EXCEPT ![t] =
                       <<[depth |-> wake[t].depth + 1, todo |-> T, cur |-> NoTask]>>]
        /\ pc' = [pc EXCEPT ![t] = "exec"]
        /\ UNCHANGED <<handle, wake, reply>>
     \/ /\ t \notin Handles /\ stack[t] # <<>>
        /\ stack' = [stack EXCEPT ![t] = Append(IF AtTheDoor(t) THEN <<>> ELSE @,
                       [depth |-> Top(@).depth + 1, todo |-> T, cur |-> NoTask])]
        /\ reply' = IF AtTheDoor(t) THEN [reply EXCEPT ![t] = "ok"] ELSE reply
        /\ pc' = [pc EXCEPT ![t] = "exec"]
        /\ UNCHANGED <<handle, wake>>
  /\ UNCHANGED <<hosted, loopVars, queue, idle, awaiting, inbound>>

(* A scheduled tick: idle agents only recover energy; otherwise on_tick     *)
(* runs, and its actions are executed at the depth ceiling, where every     *)
(* in-process dispatch is dropped.                                          *)
Tick(a) ==
  /\ pc[a] = "decide" /\ IdleTick(a) /\ Unlocked(a)
  /\ \/ idle[a] >= IdleAfter /\ UNCHANGED idle
     \/ idle[a] < IdleAfter /\ \E n \in {0, idle[a] + 1} : idle' = [idle EXCEPT ![a] = n]
  /\ pc' = [pc EXCEPT ![a] = "top"]
  /\ wake' = [wake EXCEPT ![a] = NoWake]
  /\ UNCHANGED <<hosted, loopVars, queue, stack, awaiting, handle, reply, inbound>>

(* on_event or on_tick raises: the handle is rejected, an inbound failure   *)
(* is answered by the chat-error recovery, a direct call fails its frame.   *)
DecideFails(t) ==
  /\ pc[t] = "decide" /\ Unlocked(t)
  /\ \/ /\ t \in Handles
        /\ handle' = Settle(handle, t, "failed", {})
        /\ pc' = [pc EXCEPT ![t] = "none"]
        /\ UNCHANGED <<stack, wake, reply>>
     \/ /\ t \in Agents /\ stack[t] = <<>>
        /\ handle' = IF wake[t].kind = "sync"
                     THEN Settle(handle, wake[t].h, "failed", {}) ELSE handle
        /\ pc' = [pc EXCEPT ![t] = "top"]
        /\ wake' = [wake EXCEPT ![t] = NoWake]
        /\ UNCHANGED <<stack, reply>>
     \/ /\ t \notin Handles /\ stack[t] # <<>>
        /\ IF AtTheDoor(t)
           THEN /\ reply' = [reply EXCEPT ![t] = "error"]
                /\ stack' = [stack EXCEPT ![t] = <<>>]
                /\ pc' = [pc EXCEPT ![t] = "done"]
           ELSE /\ stack' = [stack EXCEPT ![t][Len(stack[t])].cur = NoTask]
                /\ pc' = [pc EXCEPT ![t] = "exec"]
                /\ UNCHANGED reply
        /\ UNCHANGED <<handle, wake>>
  /\ UNCHANGED <<hosted, loopVars, queue, idle, awaiting, inbound>>

-----------------------------------------------------------------------------
(* ActionExecutor on task t: dispatch the next mention of the innermost    *)
(* cascade, or return from it.                                             *)
InSupervisor(t, x) == t = x /\ WaitInline

Dispatch(t, x) ==
  /\ pc[t] = "exec" /\ stack[t] # <<>> /\ x \in Top(stack[t]).todo
  /\ LET n == Len(stack[t])
         rest == [stack EXCEPT ![t][n].todo = @ \ {x}]
         asking == [stack EXCEPT ![t][n].todo = @ \ {x}, ![t][n].cur = x]
         h == NewHandle
         dropped == /\ stack' = rest
                    /\ UNCHANGED <<queue, awaiting, handle, pc>>
         asked == /\ stack' = asking
                  /\ awaiting' = [awaiting EXCEPT ![t] = h]
                  /\ handle' = [handle EXCEPT ![h] =
                                  [st |-> "pending", acts |-> {}, to |-> x]]
     IN \/ /\ \/ TooDeep(Top(stack[t]).depth)
              \/ x \notin hosted
              \/ Running(x) /\ stopped[x]
              \/ Running(x) /\ ~InSupervisor(t, x) /\ Full(x)
           /\ dropped
        \/ /\ ~TooDeep(Top(stack[t]).depth) /\ x \in hosted
           /\ Running(x) /\ ~stopped[x] /\ FreeHandles # {}
           /\ \/ /\ InSupervisor(t, x)                    \* _spawn_reentrant
                 /\ pc' = [pc EXCEPT ![t] = "await", ![h] = "spawned"]
                 /\ UNCHANGED queue
              \/ /\ ~InSupervisor(t, x) /\ ~Full(x)
                 /\ pc' = [pc EXCEPT ![t] = "await"]
                 /\ queue' = [queue EXCEPT ![x] = Append(@, [kind |-> "sync", h |-> h])]
           /\ asked
        \/ /\ ~TooDeep(Top(stack[t]).depth) /\ x \in hosted
           /\ ~Running(x)                                 \* direct on_event
           /\ stack' = asking
           /\ pc' = [pc EXCEPT ![t] = "lock"]
           /\ UNCHANGED <<queue, awaiting, handle>>
  /\ UNCHANGED <<hosted, loopVars, idle, lock, wake, reply, inbound>>

(* The innermost action list is done: return to the dispatch that ran it.  *)
Unwind(t) ==
  /\ pc[t] = "exec" /\ stack[t] # <<>> /\ Top(stack[t]).todo = {}
  /\ LET below == Pop(stack[t])
     IN IF below = <<>>
        THEN /\ stack' = [stack EXCEPT ![t] = <<>>]
             /\ pc' = [pc EXCEPT ![t] = IF t \in Agents THEN "top" ELSE "done"]
             /\ wake' = [x \in Agents |-> IF x = t THEN NoWake ELSE wake[x]]
        ELSE /\ stack' = [stack EXCEPT ![t] = [below EXCEPT ![Len(below)].cur = NoTask]]
             /\ UNCHANGED <<pc, wake>>
  /\ reply' = IF t \in Requests /\ reply[t] = "none"   \* dropped at the door
              THEN [reply EXCEPT ![t] = "empty"] ELSE reply
  /\ UNCHANGED <<hosted, loopVars, queue, idle, lock, awaiting, handle, inbound>>

(* The awaited handle is settled: run the actions it returned one level    *)
(* deeper; an empty list ends the dispatch, an exception is logged.  For a *)
(* chat the reply is taken first.                                          *)
HandleReturns(t) ==
  /\ pc[t] = "await" /\ handle[awaiting[t]].st \in Settled
  /\ LET r == handle[awaiting[t]]
         top == Top(stack[t])
         chatReply == AtTheDoor(t)
         failed == r.st \in {"failed", "cancelled"}
     IN /\ reply' = IF chatReply
                    THEN [reply EXCEPT ![t] = CASE failed -> "error"
                                                [] r.st = "empty" -> "empty"
                                                [] OTHER -> "ok"]
                    ELSE reply
        /\ IF chatReply /\ failed
           THEN /\ stack' = [stack EXCEPT ![t] = <<>>]
                /\ pc' = [pc EXCEPT ![t] = "done"]
           ELSE /\ stack' = [stack EXCEPT ![t] =
                     IF failed THEN [@ EXCEPT ![Len(stack[t])].cur = NoTask]
                     ELSE Append(IF chatReply THEN <<>> ELSE @,
                            [depth |-> top.depth + 1, todo |-> r.acts, cur |-> NoTask])]
                /\ pc' = [pc EXCEPT ![t] = "exec"]
  /\ awaiting' = [awaiting EXCEPT ![t] = 0]
  /\ handle' = [handle EXCEPT ![awaiting[t]] = NoFuture]      \* garbage now
  /\ UNCHANGED <<hosted, loopVars, queue, idle, lock, wake, inbound>>

(* wait_for around the dispatch at level k expires: everything above it is *)
(* cancelled, the handle being awaited included.                           *)
DispatchTimeout(t, k) ==
  /\ pc[t] \in {"await", "lock", "decide"} /\ t \notin Handles
  /\ k \in 1..Len(stack[t]) /\ stack[t][k].cur # NoTask
  /\ ~(AtTheDoor(t) /\ reply[t] = "detached")
  /\ handle' = IF pc[t] = "await"
               THEN Settle(handle, awaiting[t], "cancelled", {}) ELSE handle
  /\ lock' = LocksAfter(t)
  /\ awaiting' = [awaiting EXCEPT ![t] = 0]
  /\ IF t \in Requests /\ stack[t][k].depth = 0
     THEN /\ stack' = [stack EXCEPT ![t] = <<>>]
          /\ pc' = [pc EXCEPT ![t] = "done"]
          /\ reply' = [reply EXCEPT ![t] = "error"]
     ELSE /\ stack' = [stack EXCEPT ![t] =
                         [SubSeq(@, 1, k) EXCEPT ![k].cur = NoTask]]
          /\ pc' = [pc EXCEPT ![t] = "exec"]
          /\ UNCHANGED reply
  /\ UNCHANGED <<hosted, loopVars, queue, idle, wake, inbound>>

-----------------------------------------------------------------------------
(* The producers outside the loop.                                          *)
SendChatMessage(c, x) ==
  /\ pc[c] = "none" /\ x \in hosted
  /\ stack' = [stack EXCEPT ![c] = <<[depth |-> 0, todo |-> {x}, cur |-> NoTask]>>]
  /\ pc' = [pc EXCEPT ![c] = "exec"]
  /\ UNCHANGED <<hosted, loopVars, queue, idle, lock, wake, awaiting, handle,
                 reply, inbound>>

(* ReceiveChannelMessage: a process hosting several agents refuses it.     *)
ReceiveChannelMessage(a, d) ==
  /\ hosted = {a} /\ Running(a) /\ inbound < MaxInbound
  /\ inbound' = inbound + 1
  /\ EnqueuePlain(a, [kind |-> "inbound", depth |-> d])
  /\ UNCHANGED <<hosted, loopVars, idle, lock, pc, wake, stack, awaiting, handle,
                 reply>>
(* With no running loop the event is processed on a detached task, under   *)
(* no timeout; at the depth ceiling it is dropped.                         *)
InboundNoLoop(a, r) ==
  /\ hosted = {a} /\ ~Running(a) /\ ~TooDeep(0) /\ inbound < MaxInbound /\ pc[r] = "none"
  /\ inbound' = inbound + 1
  /\ stack' = [stack EXCEPT ![r] = <<[depth |-> 0, todo |-> {}, cur |-> a]>>]
  /\ pc' = [pc EXCEPT ![r] = "lock"]
  /\ reply' = [reply EXCEPT ![r] = "detached"]
  /\ UNCHANGED <<hosted, loopVars, queue, idle, lock, wake, awaiting, handle>>

Lifecycle == \E a \in Agents :
  \/ Start(a) \/ StopBegin(a) \/ StopPoison(a) \/ StopTimeout(a)
  \/ SupervisorCancelled(a) \/ StopFinish(a)
  \/ \E h \in Handles : StopResolver(a, h)
Producers ==
  \/ \E a \in Agents : \/ MemoryWrite(a)
                       \/ \E k \in TimerKinds : TimerFire(a, k)
                       \/ \E d \in {0, MaxCascadeDepth} : ReceiveChannelMessage(a, d)
  \/ \E c \in Requests, x \in Agents : SendChatMessage(c, x) \/ InboundNoLoop(x, c)
Supervisors == \E a \in Agents : LoopTop(a) \/ TakeWake(a) \/ Tick(a)
Executors == \E t \in Tasks :
  \/ t \in Handles /\ StartResolver(t)
  \/ Acquire(t) \/ DecideFails(t) \/ Unwind(t) \/ HandleReturns(t)
  \/ \E T \in Mentions : Decide(t, T)
  \/ \E x \in Agents : Dispatch(t, x)
Timeouts == \E t \in Tasks : \E k \in 1..Len(stack[t]) : DispatchTimeout(t, k)

Next == Lifecycle \/ Producers \/ Supervisors \/ Executors \/ Timeouts

(* Scheduling: asyncio runs every ready task and its locks are FIFO, an    *)
(* LLM call returns or raises, and a stop() that began is awaited to its   *)
(* end; its time limit is called upon only for a supervisor that waits for  *)
(* a handle nobody settles.  Nothing obliges anyone to call stop() or a     *)
(* dispatch to time out.                                                    *)
TaskStep(t) ==
  \/ t \in Agents /\ (LoopTop(t) \/ TakeWake(t) \/ Tick(t))
  \/ t \in Handles /\ StartResolver(t)
  \/ Unwind(t) \/ HandleReturns(t) \/ DecideFails(t)
  \/ \E T \in Mentions : Decide(t, T)
  \/ \E x \in Agents : Dispatch(t, x)
StopStep(a) ==
  \/ StopPoison(a) \/ SupervisorCancelled(a) \/ StopFinish(a)
  \/ \E h \in Handles : StopResolver(a, h)
Pending(h) == handle[h].st = "pending"
LeftWaiting(a) ==
  pc[a] = "await" /\ Pending(awaiting[a]) /\ handle[awaiting[a]].to = a /\ pc[awaiting[a]] = "none"
Fairness ==
  /\ \A a \in Scheduled : WF_vars(StopStep(a)) /\ WF_vars(LeftWaiting(a) /\ StopTimeout(a))
  /\ \A t \in Scheduled \cup Requests \cup Handles :
       WF_vars(TaskStep(t)) /\ SF_vars(Acquire(t))

Spec == Init /\ [][Next]_vars
FairSpec == Spec /\ Fairness

-----------------------------------------------------------------------------
(* Every handle a task awaits will be settled by somebody: it is in the    *)
(* queue of a loop that has not stopped, or a supervisor handles it, or a  *)
(* detached resolver does (enqueue, _spawn_reentrant, _handle_wake_         *)
(* supervised and _drain_pending_handles together).  The exception is a    *)
(* resolver stop() cancels before its first step: nobody settles its        *)
(* handle, and only the supervisor being stopped awaits it, which stop()    *)
(* cancels when its wait is over.                                           *)
NoOrphanHandle ==
  \A t \in Tasks : (pc[t] = "await" /\ Pending(awaiting[t])) =>
    LET h == awaiting[t]
    IN \/ pc[h] # "none"
       \/ /\ t = handle[h].to
          /\ phase[t] \notin {"off", "run"}
       \/ \E a \in Agents :
            /\ phase[a] # "off"
            /\ \/ wake[a].kind = "sync" /\ wake[a].h = h /\ pc[a] # "exited"
               \/ \E i \in 1..Len(queue[a]) :
                    queue[a][i].kind = "sync" /\ queue[a][i].h = h

(* When stop() has returned no handle sent to that loop is pending, no     *)
(* resolver of it runs and nothing is queued, whatever it interrupted.     *)
StoppedLoopIsSettled ==
  \A a \in Agents : (phase[a] = "off") =>
    /\ queue[a] = <<>> /\ pc[a] = "none" /\ Resolvers(a) = {}
    /\ \A h \in Handles : handle[h].to = a => ~Pending(h)

(* The per-agent lock is held exactly while a task is inside on_event or   *)
(* on_tick: no timeout, cancellation or failure leaks it.                  *)
LockIsNotLeaked ==
  \A a \in Agents : \A t \in Tasks :
    (lock[a] = t) <=> (pc[t] = "decide" /\ Asked(t) = a)

(* No persona is asked to act at or beyond the cascade ceiling, on any of  *)
(* the three paths (queued, reentrant, direct).                            *)
CascadeIsBounded ==
  \A t \in Tasks \ Handles : \A k \in 1..Len(stack[t]) :
    /\ stack[t][k].depth <= MaxCascadeDepth
    /\ stack[t][k].cur # NoTask => stack[t][k].depth < MaxCascadeDepth

(* No supervisor waits for a wake that only it could take from its queue.  *)
NoSelfWait ==
  \A a \in Agents : (pc[a] = "await" /\ Pending(awaiting[a])) =>
    ~ \E i \in 1..Len(queue[a]) :
        queue[a][i].kind = "sync" /\ queue[a][i].h = awaiting[a]

(* Nobody waits for something nobody will do, no lock outlives its turn    *)
(* and no cascade runs on (EventLoop and ActionExecutor together).  The     *)
(* reentrancy guard compares tasks, so a supervisor is kept from its own    *)
(* queue only where wait_for runs the dispatch in the caller's task.        *)
DispatchIsSound ==
  TypeOK /\ NoOrphanHandle /\ LockIsNotLeaked /\ CascadeIsBounded /\ (WaitInline => NoSelfWait)
=============================================================================
