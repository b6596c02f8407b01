-------------------------- MODULE EventLoopProofs --------------------------
(***************************************************************************)
(* Proofs about the persona event loops (EventLoop), for every number of   *)
(* agents, requests and handles, every queue size and cascade ceiling:     *)
(* whoever awaits a handle awaits one that somebody will settle, no lock   *)
(* and no cascade leaks, and a loop that has stopped leaves nothing        *)
(* behind.                                                                 *)
(***************************************************************************)
EXTENDS EventLoop, SequenceTheorems, TLAPS

\* What queues, supervisors, stacks and futures hold.  A cascade below the
\* ceiling is part of what a frame is.
Wakes ==
  [kind : {"none", "stop", "tick", "convene", "salience"}]
    \cup [kind : {"sync"}, h : Handles] \cup [kind : {"inbound"}, depth : Nat]
Frames ==
  {f \in [depth : 0..MaxCascadeDepth, todo : SUBSET Agents, cur : Agents \cup {NoTask}] :
     f.cur # NoTask => f.depth < MaxCascadeDepth}
Futures == [st : Settled \cup {"free", "pending"}, acts : SUBSET Agents, to : Agents \cup {NoTask}]

Typed ==
  /\ TypeOK
  /\ queue \in [Agents -> Seq(Wakes)] /\ wake \in [Agents -> Wakes]
  /\ stack \in [Tasks -> Seq(Frames)] /\ handle \in [Handles -> Futures]

\* A supervisor's loop: its wake, its stack and the stages of start and stop.
LoopShape(ph, stp, tms, q, p, w, s) ==
  /\ ph = "off" <=> p = "none"
  /\ ph = "off" => q = <<>>
  /\ ph \notin {"off", "run"} => stp
  /\ tms # {} => ph = "run"
  /\ p \in {"none", "top", "get", "exited"} => w.kind = "none" /\ s = <<>>
  /\ p \in {"lock", "decide"} /\ s = <<>> => w.kind \in {"sync", "tick", "inbound"}
  /\ s # <<>> => w.kind = "inbound"
  /\ p \in {"exec", "await"} => s # <<>>
  /\ p # "done"
  /\ w.kind = "inbound" => w.depth < MaxCascadeDepth
LoopInv ==
  \A a \in Agents : LoopShape(phase[a], stopped[a], timers[a], queue[a], pc[a], wake[a], stack[a])

\* A task inside a dispatch knows whom it asked.
AskShape(p, s) == p \in {"lock", "decide", "await"} /\ s # <<>> => Top(s).cur # NoTask
RequestShape(p, s) == p \in {"lock", "decide", "exec", "await"} => s # <<>>
TaskInv ==
  /\ \A t \in Tasks : AskShape(pc[t], stack[t])
  /\ \A r \in Requests : RequestShape(pc[r], stack[r])
  /\ \A h \in Handles : pc[h] \in {"none", "spawned", "lock", "decide"} /\ stack[h] = <<>>

\* The detached resolver of a handle belongs to a loop that is up.
ResolverInv ==
  \A h \in Handles : pc[h] # "none" => handle[h].to \in Agents /\ phase[handle[h].to] \in {"run", "stop_resolvers"}

Carries(w, h) == w.kind = "sync" /\ w.h = h
Queued(q, h) == \E i \in 1..Len(q) : Carries(q[i], h)

\* A handle has one resolver: a detached task, or a wake.
OneResolver ==
  \A h \in Handles : pc[h] # "none" => \A a \in Agents : ~Carries(wake[a], h) /\ ~Queued(queue[a], h)

\* A supervisor awaits the handle it sent itself: the resolver lives, or stop()
\* cancelled it before its first step and will cancel the supervisor too.
Held(h, awaited, p, ph) == awaited = h /\ (p # "none" \/ ph \notin {"off", "run"})

\* A pending handle is on its way to be settled, where it was sent.
PendingInv ==
  \A h \in Handles : Pending(h) =>
    /\ handle[h].to \in Agents
    /\ \/ Held(h, awaiting[handle[h].to], pc[h], phase[handle[h].to])
       \/ Carries(wake[handle[h].to], h) \/ Queued(queue[handle[h].to], h)

\* A handle is awaited by one task, and once settled its resolver is over.
AwaitInv ==
  /\ \A t \in Tasks : pc[t] = "await" <=> awaiting[t] # 0
  /\ \A t, u \in Tasks : awaiting[t] = awaiting[u] /\ awaiting[t] # 0 => t = u
  /\ \A t \in Tasks : awaiting[t] # 0 /\ ~Pending(awaiting[t]) => pc[awaiting[t]] = "none"

SelfInv == WaitInline => \A a \in Agents : awaiting[a] # 0 => ~Queued(queue[a], awaiting[a])

DispatchInv ==
  /\ Typed /\ LoopInv /\ TaskInv /\ ResolverInv /\ OneResolver /\ PendingInv
  /\ AwaitInv /\ SelfInv /\ LockIsNotLeaked

-----------------------------------------------------------------------------
(* Tasks, queues and futures. *)

LEMMA TaskFacts ==
  /\ Agents \subseteq Tasks /\ Requests \subseteq Tasks /\ Handles \subseteq Tasks
  /\ NoTask \notin Tasks /\ 0 \notin Handles
  /\ \A t \in Agents : t \notin Requests /\ t \notin Handles
  /\ \A t \in Requests : t \notin Agents /\ t \notin Handles
  /\ \A t \in Handles : t \notin Agents /\ t \notin Requests
  BY LoopAssumption DEF Tasks

LEMMA WakeFacts ==
  /\ NoWake \in Wakes /\ NoWake.kind = "none"
  /\ \A k \in {"stop", "tick", "convene", "salience"} : [kind |-> k] \in Wakes /\ [kind |-> k].kind = k
  /\ \A h \in Handles : [kind |-> "sync", h |-> h] \in Wakes
  /\ \A d \in Nat : [kind |-> "inbound", depth |-> d] \in Wakes
  /\ \A w \in Wakes : w.kind = "sync" => w.h \in Handles
  /\ \A w \in Wakes : w.kind = "inbound" => w.depth \in Nat
  BY DEF NoWake, Wakes

LEMMA QueuedAppend ==
  ASSUME NEW q \in Seq(Wakes), NEW w \in Wakes
  PROVE  /\ Append(q, w) \in Seq(Wakes) /\ Len(Append(q, w)) = Len(q) + 1
         /\ \A h : Queued(Append(q, w), h) <=> Queued(q, h) \/ Carries(w, h)
  <1>1. PICK r : r = Append(q, w)
    OBVIOUS
  <1>2. r \in Seq(Wakes) /\ Len(r) = Len(q) + 1 /\ Len(q) \in Nat
    BY <1>1
  <1>3. r[Len(q) + 1] = w /\ \A i \in 1..Len(q) : r[i] = q[i]
    BY <1>1
  <1>4. ASSUME NEW h, Queued(q, h) \/ Carries(w, h) PROVE Queued(r, h)
    BY <1>2, <1>3, <1>4 DEF Queued
  <1>5. ASSUME NEW h, Queued(r, h) PROVE Queued(q, h) \/ Carries(w, h)
    <2>1. PICK i \in 1..Len(r) : Carries(r[i], h)
      BY <1>5 DEF Queued
    <2>2. i \in 1..Len(q) \/ i = Len(q) + 1
      BY <1>2, <2>1
    <2> QED
      BY <1>3, <2>1, <2>2 DEF Queued
  <1> QED
    BY <1>1, <1>2, <1>4, <1>5

LEMMA QueuedTail ==
  ASSUME NEW q \in Seq(Wakes), q # <<>>
  PROVE  /\ Head(q) \in Wakes /\ Tail(q) \in Seq(Wakes) /\ Len(Tail(q)) = Len(q) - 1 /\ Len(q) \in Nat
         /\ \A h : Queued(q, h) <=> Queued(Tail(q), h) \/ Carries(Head(q), h)
  <1>1. /\ Head(q) \in Wakes /\ Tail(q) \in Seq(Wakes) /\ Len(Tail(q)) = Len(q) - 1 /\ Len(q) \in Nat
        /\ Len(q) >= 1 /\ Head(q) = q[1]
    OBVIOUS
  <1>2. \A i \in 1..Len(Tail(q)) : i + 1 \in 1..Len(q) /\ Tail(q)[i] = q[i + 1]
    OBVIOUS
  <1>3. ASSUME NEW h, Queued(q, h) PROVE Queued(Tail(q), h) \/ Carries(Head(q), h)
    <2>1. PICK i \in 1..Len(q) : Carries(q[i], h)
      BY <1>3 DEF Queued
    <2>2. CASE i = 1
      BY <1>1, <2>1, <2>2
    <2>3. CASE i # 1
      <3>1. i - 1 \in 1..Len(Tail(q)) /\ (i - 1) + 1 = i
        BY <1>1, <2>1, <2>3
      <3>2. Tail(q)[i - 1] = q[i]
        BY <1>2, <3>1
      <3> QED
        BY <2>1, <3>1, <3>2 DEF Queued
    <2> QED
      BY <2>2, <2>3
  <1>4. ASSUME NEW h, Queued(Tail(q), h) \/ Carries(Head(q), h) PROVE Queued(q, h)
    <2>1. CASE Carries(Head(q), h)
      <3>1. 1 \in 1..Len(q)
        BY <1>1
      <3> QED
        BY <1>1, <2>1, <3>1 DEF Queued
    <2>2. CASE Queued(Tail(q), h)
      BY <1>2, <2>2 DEF Queued
    <2> QED
      BY <1>4, <2>1, <2>2
  <1> QED
    BY <1>1, <1>3, <1>4

LEMMA QueuedNone == \A h : ~Queued(<<>>, h)
  BY DEF Queued

\* Settling a future: at most once, and nothing else moves.
LEMMA SettleFacts ==
  ASSUME NEW hs \in [Handles -> Futures], NEW h \in Handles, NEW st \in Settled, NEW acts \in SUBSET Agents
  PROVE  /\ Settle(hs, h, st, acts) \in [Handles -> Futures]
         /\ \A k \in Handles : Settle(hs, h, st, acts)[k].to = hs[k].to
         /\ \A k \in Handles : k # h => Settle(hs, h, st, acts)[k] = hs[k]
         /\ Settle(hs, h, st, acts)[h].st # "pending"
         /\ \A k \in Handles : Settle(hs, h, st, acts)[k].st = "pending" => hs[k].st = "pending"
  <1>1. CASE hs[h].st # "pending"
    BY <1>1 DEF Settle
  <1>2. CASE hs[h].st = "pending"
    <2>1. PICK f \in Futures : f = [hs[h] EXCEPT !.st = st, !.acts = acts]
      <3>1. [hs[h] EXCEPT !.st = st, !.acts = acts] \in Futures
        BY DEF Futures
      <3> QED
        BY <3>1
    <2>2. f.st = st /\ f.to = hs[h].to
      BY <2>1 DEF Futures
    <2>3. Settle(hs, h, st, acts) = [hs EXCEPT ![h] = f]
      BY <1>2, <2>1 DEF Settle
    <2>4. st # "pending"
      BY DEF Settled
    <2> QED
      BY <2>2, <2>3, <2>4
  <1> QED
    BY <1>1, <1>2

-----------------------------------------------------------------------------
(* The lock. *)

\* Whose lock a task may hold.
LEMMA AskedFacts ==
  ASSUME DispatchInv, NEW t \in Tasks, pc[t] \in {"lock", "decide"}
  PROVE  Asked(t) \in Agents
  <1>1. CASE t \in Handles
    BY <1>1 DEF Asked, DispatchInv, ResolverInv
  <1>2. CASE t \notin Handles /\ stack[t] = <<>>
    BY <1>2, TaskFacts DEF Asked, Tasks, DispatchInv, TaskInv, RequestShape
  <1>3. CASE t \notin Handles /\ stack[t] # <<>>
    <2>1. stack[t] \in Seq(Frames) /\ Top(stack[t]).cur # NoTask
      BY <1>3 DEF DispatchInv, Typed, TaskInv, AskShape
    <2>2. Top(stack[t]) \in Frames
      BY <1>3, <2>1 DEF Top
    <2> QED
      BY <1>3, <2>1, <2>2 DEF Asked, Frames
  <1> QED
    BY <1>1, <1>2, <1>3

\* Every way of letting a lock go is LocksAfter.
LEMMA LockFacts ==
  ASSUME DispatchInv, NEW t \in Tasks
  PROVE  /\ pc[t] = "decide" => [lock EXCEPT ![Asked(t)] = NoTask] = LocksAfter(t)
         /\ pc[t] # "decide" => lock = LocksAfter(t)
         /\ LocksAfter(t) \in [Agents -> Tasks \cup {NoTask}]
  <1>1. lock \in [Agents -> Tasks \cup {NoTask}] /\ \A a \in Agents : lock[a] = t <=> pc[t] = "decide" /\ Asked(t) = a
    BY DEF DispatchInv, Typed, TypeOK, LockIsNotLeaked
  <1>2. pc[t] = "decide" => Asked(t) \in Agents
    BY AskedFacts
  <1> QED
    BY <1>1, <1>2 DEF LocksAfter

-----------------------------------------------------------------------------
(* One task moves: it does not enter on_event or an await, and whatever it *)
(* was to settle is settled.                                               *)

MovesAlone(t) ==
  /\ \A u \in Tasks : u # t => pc'[u] = pc[u] /\ stack'[u] = stack[u] /\ awaiting'[u] = awaiting[u]
  /\ \A a \in Agents : a # t =>
       /\ phase'[a] = phase[a] /\ stopped'[a] = stopped[a] /\ timers'[a] = timers[a]
       /\ queue'[a] = queue[a] /\ wake'[a] = wake[a]
KeepsShape(t) ==
  /\ t \in Agents => LoopShape(phase'[t], stopped'[t], timers'[t], queue'[t], pc'[t], wake'[t], stack'[t])
  /\ AskShape(pc'[t], stack'[t])
  /\ t \in Requests => RequestShape(pc'[t], stack'[t])
  /\ t \in Handles => pc'[t] = "none" /\ stack'[t] = <<>>
  /\ t \in Handles => (handle'[t].st # "pending" \/ phase[handle[t].to] \notin {"off", "run"})
  /\ pc'[t] \notin {"decide", "await"} /\ awaiting'[t] = 0 /\ lock' = LocksAfter(t)
  /\ t \in Agents /\ phase[t] \in {"run", "stop_resolvers"} => phase'[t] \in {"run", "stop_resolvers"}
KeepsFutures(t) ==
  \A h \in Handles :
    /\ handle'[h].to = handle[h].to \/ (handle'[h] = NoFuture /\ awaiting[t] = h /\ ~Pending(h))
    /\ handle'[h].st = "pending" => Pending(h) /\ awaiting[t] # h
    /\ Pending(h) /\ handle'[h].st # "pending" => pc[h] = "none" \/ h = t \/ awaiting[t] = h
KeepsWakes(t) ==
  t \in Agents => \A h \in Handles :
    /\ Carries(wake'[t], h) => Carries(wake[t], h) \/ Queued(queue[t], h)
    /\ Queued(queue'[t], h) => Queued(queue[t], h)
    /\ Carries(wake[t], h) /\ handle'[h].st = "pending" => Carries(wake'[t], h)
    /\ Queued(queue[t], h) /\ handle'[h].st = "pending" => Queued(queue'[t], h) \/ Carries(wake'[t], h)

LEMMA TaskMoves ==
  ASSUME DispatchInv, NEW t \in Tasks, Typed', MovesAlone(t), KeepsShape(t), KeepsFutures(t), KeepsWakes(t)
  PROVE  DispatchInv'
  <1>1. LoopInv'
    <2>1. ASSUME NEW a \in Agents
          PROVE LoopShape(phase'[a], stopped'[a], timers'[a], queue'[a], pc'[a], wake'[a], stack'[a])
      <3>1. CASE a = t
        BY <3>1 DEF KeepsShape
      <3>2. CASE a # t
        <4>1. /\ phase'[a] = phase[a] /\ stopped'[a] = stopped[a] /\ timers'[a] = timers[a]
              /\ queue'[a] = queue[a] /\ wake'[a] = wake[a] /\ pc'[a] = pc[a] /\ stack'[a] = stack[a]
          BY <3>2, TaskFacts DEF MovesAlone
        <4>2. LoopShape(phase[a], stopped[a], timers[a], queue[a], pc[a], wake[a], stack[a])
          BY DEF DispatchInv, LoopInv
        <4> QED
          BY <4>1, <4>2
      <3> QED
        BY <3>1, <3>2
    <2> QED
      BY <2>1 DEF LoopInv, LoopShape
  <1>2. TaskInv'
    <2>1. \A u \in Tasks : AskShape(pc'[u], stack'[u])
      BY DEF MovesAlone, KeepsShape, DispatchInv, TaskInv
    <2>2. \A r \in Requests : RequestShape(pc'[r], stack'[r])
      BY TaskFacts DEF MovesAlone, KeepsShape, DispatchInv, TaskInv
    <2>3. \A h \in Handles : pc'[h] \in {"none", "spawned", "lock", "decide"} /\ stack'[h] = <<>>
      BY TaskFacts DEF MovesAlone, KeepsShape, DispatchInv, TaskInv
    <2> QED
      BY <2>1, <2>2, <2>3 DEF TaskInv, AskShape, RequestShape, Top
  <1>3. \A h \in Handles : pc'[h] # "none" => h # t /\ pc'[h] = pc[h]
    BY TaskFacts DEF MovesAlone, KeepsShape
  <1>4. \A h \in Handles : awaiting[t] = h /\ ~Pending(h) => pc[h] = "none"
    BY TaskFacts DEF DispatchInv, AwaitInv
  <1>5. \A h \in Handles : pc'[h] # "none" => handle'[h].to = handle[h].to
    BY <1>3, <1>4 DEF KeepsFutures
  <1>6. ResolverInv'
    <2>1. ASSUME NEW h \in Handles, pc'[h] # "none"
          PROVE handle'[h].to \in Agents /\ phase'[handle'[h].to] \in {"run", "stop_resolvers"}
      <3>1. handle[h].to \in Agents /\ phase[handle[h].to] \in {"run", "stop_resolvers"}
        BY <1>3, <2>1 DEF DispatchInv, ResolverInv
      <3> QED
        BY <1>5, <2>1, <3>1 DEF MovesAlone, KeepsShape
    <2> QED
      BY <2>1 DEF ResolverInv
  <1>7. OneResolver'
    <2>1. ASSUME NEW h \in Handles, pc'[h] # "none", NEW a \in Agents
          PROVE ~Carries(wake'[a], h) /\ ~Queued(queue'[a], h)
      <3>1. ~Carries(wake[a], h) /\ ~Queued(queue[a], h)
        BY <1>3, <2>1 DEF DispatchInv, OneResolver
      <3> QED
        BY <3>1 DEF MovesAlone, KeepsWakes
    <2> QED
      BY <2>1 DEF OneResolver, Carries, Queued
  <1>8. PendingInv'
    <2>1. ASSUME NEW h \in Handles, handle'[h].st = "pending"
          PROVE /\ handle'[h].to \in Agents
                /\ \/ Held(h, awaiting'[handle'[h].to], pc'[h], phase'[handle'[h].to])
                   \/ Carries(wake'[handle'[h].to], h) \/ Queued(queue'[handle'[h].to], h)
      <3>1. Pending(h) /\ handle'[h].to = handle[h].to /\ awaiting[t] # h
        BY <2>1 DEF KeepsFutures, NoFuture
      <3>2. h = t => phase[handle[h].to] \notin {"off", "run"}
        BY <2>1 DEF KeepsShape
      <3>3. h # t => pc'[h] = pc[h]
        BY TaskFacts DEF MovesAlone
      <3>4. PICK a \in Agents : /\ a = handle[h].to
                                /\ \/ Held(h, awaiting[a], pc[h], phase[a])
                                   \/ Carries(wake[a], h) \/ Queued(queue[a], h)
        BY <3>1 DEF DispatchInv, PendingInv
      <3>5. Held(h, awaiting[a], pc[h], phase[a]) => Held(h, awaiting'[a], pc'[h], phase'[a])
        <4>1. awaiting[a] = h => a # t /\ awaiting'[a] = awaiting[a] /\ phase'[a] = phase[a]
          BY <3>1, TaskFacts DEF MovesAlone
        <4> QED
          BY <3>2, <3>3, <3>4, <4>1 DEF Held
      <3>6. Held(h, awaiting'[a], pc'[h], phase'[a]) \/ Carries(wake'[a], h) \/ Queued(queue'[a], h)
        BY <2>1, <3>4, <3>5 DEF MovesAlone, KeepsWakes
      <3> QED
        BY <3>1, <3>4, <3>6
    <2> QED
      BY <2>1 DEF PendingInv, Pending, Held, Carries, Queued
  <1>9. AwaitInv'
    <2>1. \A u \in Tasks : pc'[u] = "await" <=> awaiting'[u] # 0
      BY DEF MovesAlone, KeepsShape, DispatchInv, AwaitInv
    <2>2. \A u, v \in Tasks : awaiting'[u] = awaiting'[v] /\ awaiting'[u] # 0 => u = v
      BY DEF MovesAlone, KeepsShape, DispatchInv, AwaitInv
    <2>3. ASSUME NEW u \in Tasks, awaiting'[u] # 0, ~(handle'[awaiting'[u]].st = "pending")
          PROVE pc'[awaiting'[u]] = "none"
      <3>1. u # t /\ awaiting'[u] = awaiting[u]
        BY <2>3 DEF MovesAlone, KeepsShape
      <3>2. PICK h \in Handles : h = awaiting[u]
        BY <2>3, <3>1 DEF DispatchInv, Typed, TypeOK
      <3>3. awaiting[t] # h
        BY <2>3, <3>1, <3>2 DEF DispatchInv, AwaitInv
      <3>4. CASE h = t
        BY <3>1, <3>2, <3>4 DEF KeepsShape
      <3>5. CASE h # t
        <4>1. pc[h] = "none"
          BY <2>3, <3>1, <3>2, <3>3, <3>5 DEF KeepsFutures, DispatchInv, AwaitInv
        <4> QED
          BY <3>1, <3>2, <3>5, <4>1, TaskFacts DEF MovesAlone
      <3> QED
        BY <3>4, <3>5
    <2> QED
      BY <2>1, <2>2, <2>3 DEF AwaitInv, Pending
  <1>10. SelfInv'
    <2>1. ASSUME WaitInline, NEW a \in Agents, awaiting'[a] # 0 PROVE ~Queued(queue'[a], awaiting'[a])
      <3>1. a # t /\ awaiting'[a] = awaiting[a] /\ queue'[a] = queue[a]
        BY <2>1, TaskFacts DEF MovesAlone, KeepsShape
      <3> QED
        BY <2>1, <3>1 DEF DispatchInv, SelfInv
    <2> QED
      BY <2>1 DEF SelfInv, Queued, Carries
  <1>11. LockIsNotLeaked'
    <2>1. ASSUME NEW a \in Agents, NEW u \in Tasks
          PROVE lock'[a] = u <=> pc'[u] = "decide" /\ Asked(u)' = a
      <3>1. lock[a] = u <=> pc[u] = "decide" /\ Asked(u) = a
        BY DEF DispatchInv, LockIsNotLeaked
      <3>2. lock'[a] = u <=> lock[a] = u /\ u # t
        BY TaskFacts DEF KeepsShape, LocksAfter
      <3>3. CASE u = t
        BY <3>2, <3>3 DEF KeepsShape
      <3>4. CASE u # t
        <4>1. pc'[u] = pc[u] /\ stack'[u] = stack[u]
          BY <3>4 DEF MovesAlone
        <4>2. pc[u] = "decide" => Asked(u)' = Asked(u)
          BY <1>5, <4>1 DEF Asked, Top
        <4> QED
          BY <3>1, <3>2, <3>4, <4>1, <4>2
      <3> QED
        BY <3>3, <3>4
    <2> QED
      BY <2>1 DEF LockIsNotLeaked
  <1> QED
    BY <1>1, <1>2, <1>6, <1>7, <1>8, <1>9, <1>10, <1>11 DEF DispatchInv
-----------------------------------------------------------------------------
(* No task moves: a producer offers a wake without a handle, or stop()     *)
(* goes on to its next stage.                                              *)

OtherLoops(a) ==
  \A x \in Agents : x # a =>
    phase'[x] = phase[x] /\ stopped'[x] = stopped[x] /\ timers'[x] = timers[x] /\ queue'[x] = queue[x]

LEMMA LoopMoves ==
  ASSUME DispatchInv, NEW a \in Agents, Typed', OtherLoops(a),
         UNCHANGED <<lock, pc, wake, stack, awaiting, handle>>,
         LoopShape(phase'[a], stopped'[a], timers'[a], queue'[a], pc[a], wake[a], stack[a]),
         \A h \in Handles : Queued(queue'[a], h) <=> Queued(queue[a], h),
         phase[a] \in {"run", "stop_resolvers"} => phase'[a] \in {"run", "stop_resolvers"} \/ Resolvers(a) = {},
         phase[a] \notin {"off", "run"} => phase'[a] \notin {"off", "run"}
  PROVE  DispatchInv'
  <1>1. LoopInv'
    <2>1. ASSUME NEW x \in Agents
          PROVE LoopShape(phase'[x], stopped'[x], timers'[x], queue'[x], pc'[x], wake'[x], stack'[x])
      <3>1. CASE x = a
        BY <3>1
      <3>2. CASE x # a
        <4>1. LoopShape(phase[x], stopped[x], timers[x], queue[x], pc[x], wake[x], stack[x])
          BY DEF DispatchInv, LoopInv
        <4> QED
          BY <3>2, <4>1 DEF OtherLoops
      <3> QED
        BY <3>1, <3>2
    <2> QED
      BY <2>1 DEF LoopInv, LoopShape
  <1>2. TaskInv'
    BY DEF DispatchInv, TaskInv, AskShape, RequestShape, Top
  <1>3. ResolverInv'
    <2>1. ASSUME NEW h \in Handles, pc[h] # "none"
          PROVE handle[h].to \in Agents /\ phase'[handle[h].to] \in {"run", "stop_resolvers"}
      <3>1. handle[h].to \in Agents /\ phase[handle[h].to] \in {"run", "stop_resolvers"}
        BY <2>1 DEF DispatchInv, ResolverInv
      <3> QED
        BY <2>1, <3>1 DEF OtherLoops, Resolvers
    <2> QED
      BY <2>1 DEF ResolverInv
  <1>4. \A x \in Agents, h \in Handles : Queued(queue'[x], h) <=> Queued(queue[x], h)
    BY DEF OtherLoops
  <1>5. OneResolver'
    <2>1. \A h \in Handles : pc[h] # "none" => \A x \in Agents : ~Carries(wake[x], h) /\ ~Queued(queue'[x], h)
      BY <1>4 DEF DispatchInv, OneResolver
    <2> QED
      BY <2>1 DEF OneResolver, Carries, Queued
  <1>6. PendingInv'
    <2>1. \A h \in Handles : Pending(h) =>
            /\ handle[h].to \in Agents
            /\ \/ Held(h, awaiting[handle[h].to], pc[h], phase'[handle[h].to])
               \/ Carries(wake[handle[h].to], h) \/ Queued(queue'[handle[h].to], h)
      <3>1. ASSUME NEW h \in Handles, Pending(h), NEW x, x = handle[h].to
            PROVE /\ x \in Agents
                  /\ \/ Held(h, awaiting[x], pc[h], phase'[x])
                     \/ Carries(wake[x], h) \/ Queued(queue'[x], h)
        <4>1. /\ x \in Agents
              /\ Held(h, awaiting[x], pc[h], phase[x]) \/ Carries(wake[x], h) \/ Queued(queue[x], h)
          BY <3>1 DEF DispatchInv, PendingInv
        <4>2. phase[x] \notin {"off", "run"} => phase'[x] \notin {"off", "run"}
          BY <4>1 DEF OtherLoops
        <4> QED
          BY <1>4, <4>1, <4>2 DEF Held
      <3> QED
        BY <3>1
    <2> QED
      BY <2>1 DEF PendingInv, Pending, Held, Carries, Queued
  <1>7. AwaitInv'
    BY DEF DispatchInv, AwaitInv, Pending
  <1>8. SelfInv'
    <2>1. \A x \in Agents : awaiting[x] \in Handles \cup {0}
      BY TaskFacts DEF DispatchInv, Typed, TypeOK
    <2>2. WaitInline => \A x \in Agents : awaiting[x] # 0 => ~Queued(queue'[x], awaiting[x])
      BY <1>4, <2>1 DEF DispatchInv, SelfInv
    <2> QED
      BY <2>2 DEF SelfInv, Carries, Queued
  <1>9. LockIsNotLeaked'
    BY DEF DispatchInv, LockIsNotLeaked, Asked, Top
  <1> QED
    BY <1>1, <1>2, <1>3, <1>5, <1>6, <1>7, <1>8, <1>9 DEF DispatchInv

\* enqueue of a wake without a handle.
LEMMA EnqueuePlainFacts ==
  ASSUME DispatchInv, NEW a \in Agents, NEW w \in Wakes, w.kind # "sync", EnqueuePlain(a, w)
  PROVE  /\ queue' \in [Agents -> Seq(Wakes)] /\ \A x \in Agents : Len(queue'[x]) <= QueueSize
         /\ \A x \in Agents : x # a => queue'[x] = queue[x]
         /\ \A h \in Handles : Queued(queue'[a], h) <=> Queued(queue[a], h)
  <1>1. queue \in [Agents -> Seq(Wakes)] /\ (\A x \in Agents : Len(queue[x]) <= QueueSize) /\ QueueSize \in Nat
    BY LoopAssumption DEF DispatchInv, Typed, TypeOK
  <1>2. CASE ~Accepts(a)
    BY <1>1, <1>2 DEF EnqueuePlain
  <1>3. CASE Accepts(a)
    <2>1. PICK q \in Seq(Wakes) : q = Append(queue[a], w)
      <3>1. Append(queue[a], w) \in Seq(Wakes)
        BY <1>1, QueuedAppend
      <3> QED
        BY <3>1
    <2>2. queue' = [queue EXCEPT ![a] = q]
      BY <1>3, <2>1 DEF EnqueuePlain
    <2>3. Len(queue[a]) \in Nat /\ ~(Len(queue[a]) >= QueueSize) /\ Len(q) = Len(queue[a]) + 1
      <3>1. Len(q) = Len(queue[a]) + 1
        BY <1>1, <2>1, QueuedAppend
      <3> QED
        BY <1>1, <1>3, <3>1 DEF Accepts, Full
    <2>4. Len(q) <= QueueSize
      BY <1>1, <2>3
    <2>5. \A h \in Handles : Queued(q, h) <=> Queued(queue[a], h)
      BY <1>1, <2>1, QueuedAppend DEF Carries
    <2> QED
      BY <1>1, <2>2, <2>4, <2>5
  <1> QED
    BY <1>2, <1>3

LEMMA ProducerStep ==
  ASSUME DispatchInv, NEW a \in Agents, NEW w \in Wakes, w.kind # "sync", EnqueuePlain(a, w), phase[a] # "off",
         UNCHANGED <<hosted, loopVars, idle, lock, pc, wake, stack, awaiting, handle>>, inbound' \in 0..MaxInbound
  PROVE  DispatchInv'
  <1>1. /\ queue' \in [Agents -> Seq(Wakes)] /\ \A x \in Agents : Len(queue'[x]) <= QueueSize
        /\ \A x \in Agents : x # a => queue'[x] = queue[x]
        /\ \A h \in Handles : Queued(queue'[a], h) <=> Queued(queue[a], h)
    BY EnqueuePlainFacts
  <1>2. Typed'
    BY <1>1 DEF DispatchInv, Typed, TypeOK, loopVars
  <1>3. LoopShape(phase'[a], stopped'[a], timers'[a], queue'[a], pc[a], wake[a], stack[a])
    <2>1. LoopShape(phase[a], stopped[a], timers[a], queue[a], pc[a], wake[a], stack[a])
      BY DEF DispatchInv, LoopInv
    <2> QED
      BY <2>1 DEF LoopShape, loopVars
  <1>4. OtherLoops(a)
    BY <1>1 DEF OtherLoops, loopVars
  <1>5. phase' = phase
    BY DEF loopVars
  <1> QED
    BY <1>1, <1>2, <1>3, <1>4, <1>5, LoopMoves

LEMMA TimerFireStep ==
  ASSUME DispatchInv, NEW a \in Agents, NEW k \in TimerKinds, TimerFire(a, k)
  PROVE  DispatchInv'
  <1>1. [kind |-> k] \in Wakes /\ [kind |-> k].kind # "sync"
    BY LoopAssumption, WakeFacts
  <1>2. phase[a] # "off"
    BY DEF TimerFire, DispatchInv, LoopInv, LoopShape
  <1>3. inbound' \in 0..MaxInbound
    BY DEF TimerFire, DispatchInv, Typed, TypeOK
  <1> QED
    BY <1>1, <1>2, <1>3, ProducerStep DEF TimerFire

LEMMA MemoryWriteStep ==
  ASSUME DispatchInv, NEW a \in Agents, MemoryWrite(a)
  PROVE  DispatchInv'
  <1>1. [kind |-> "salience"] \in Wakes /\ [kind |-> "salience"].kind # "sync"
    BY WakeFacts
  <1>2. inbound' \in 0..MaxInbound
    BY DEF MemoryWrite, DispatchInv, Typed, TypeOK
  <1> QED
    BY <1>1, <1>2, ProducerStep DEF MemoryWrite

LEMMA ReceiveStep ==
  ASSUME DispatchInv, NEW a \in Agents, NEW d \in {0, MaxCascadeDepth}, ReceiveChannelMessage(a, d)
  PROVE  DispatchInv'
  <1>1. d \in Nat
    BY LoopAssumption
  <1>2. [kind |-> "inbound", depth |-> d] \in Wakes /\ [kind |-> "inbound", depth |-> d].kind # "sync"
    BY <1>1, WakeFacts
  <1>3. inbound' \in 0..MaxInbound
    <2>1. inbound \in 0..MaxInbound /\ inbound < MaxInbound /\ MaxInbound \in Nat
      BY LoopAssumption DEF ReceiveChannelMessage, DispatchInv, Typed, TypeOK
    <2> QED
      BY <2>1 DEF ReceiveChannelMessage
  <1> QED
    BY <1>2, <1>3, ProducerStep DEF ReceiveChannelMessage, Running

LEMMA StopBeginStep ==
  ASSUME DispatchInv, NEW a \in Agents, StopBegin(a)
  PROVE  DispatchInv'
  <1>1. /\ phase[a] = "run" /\ phase' = [phase EXCEPT ![a] = "stop_resolvers"]
        /\ stopped' = [stopped EXCEPT ![a] = TRUE] /\ timers' = [timers EXCEPT ![a] = {}]
        /\ UNCHANGED <<hosted, starts, queue, idle, lock, pc, wake, stack, awaiting, handle, reply, inbound>>
    BY DEF StopBegin
  <1>2. Typed'
    BY <1>1 DEF DispatchInv, Typed, TypeOK
  <1>3. /\ phase'[a] = "stop_resolvers" /\ stopped'[a] = TRUE /\ timers'[a] = {} /\ queue'[a] = queue[a]
        /\ OtherLoops(a)
    BY <1>1 DEF DispatchInv, Typed, TypeOK, OtherLoops
  <1>4. LoopShape(phase'[a], stopped'[a], timers'[a], queue'[a], pc[a], wake[a], stack[a])
    <2>1. LoopShape(phase[a], stopped[a], timers[a], queue[a], pc[a], wake[a], stack[a])
      BY DEF DispatchInv, LoopInv
    <2> QED
      BY <1>1, <1>3, <2>1 DEF LoopShape
  <1> QED
    BY <1>1, <1>2, <1>3, <1>4, LoopMoves

LEMMA StopPoisonStep ==
  ASSUME DispatchInv, NEW a \in Agents, StopPoison(a)
  PROVE  DispatchInv'
  <1>1. PICK p \in {"stop_cancel", "stop_wait"} : phase' = [phase EXCEPT ![a] = p]
    BY DEF StopPoison
  <1>2. /\ phase[a] = "stop_resolvers" /\ Resolvers(a) = {} /\ queue' = Poisoned(a)
        /\ UNCHANGED <<hosted, stopped, starts, timers, idle, lock, pc, wake, stack, awaiting, handle, reply, inbound>>
    BY DEF StopPoison
  <1>3. queue \in [Agents -> Seq(Wakes)] /\ (\A x \in Agents : Len(queue[x]) <= QueueSize) /\ QueueSize \in Nat
    BY LoopAssumption DEF DispatchInv, Typed, TypeOK
  <1>4. /\ queue' \in [Agents -> Seq(Wakes)] /\ \A x \in Agents : Len(queue'[x]) <= QueueSize
        /\ \A x \in Agents : x # a => queue'[x] = queue[x]
        /\ \A h \in Handles : Queued(queue'[a], h) <=> Queued(queue[a], h)
    <2>1. CASE Full(a) \/ pc[a] = "exited"
      BY <1>2, <1>3, <2>1 DEF Poisoned
    <2>2. CASE ~Full(a) /\ pc[a] # "exited"
      <3>1. PICK w \in Wakes : w = [kind |-> "stop"] /\ w.kind # "sync"
        BY WakeFacts
      <3>2. PICK q \in Seq(Wakes) : q = Append(queue[a], w)
        <4>1. Append(queue[a], w) \in Seq(Wakes)
          BY <1>3, QueuedAppend
        <4> QED
          BY <4>1
      <3>3. queue' = [queue EXCEPT ![a] = q]
        BY <1>2, <2>2, <3>1, <3>2 DEF Poisoned
      <3>4. Len(q) = Len(queue[a]) + 1
        BY <1>3, <3>2, QueuedAppend
      <3>5. Len(q) <= QueueSize
        BY <1>3, <2>2, <3>4 DEF Full
      <3>6. \A h \in Handles : Queued(q, h) <=> Queued(queue[a], h)
        BY <1>3, <3>1, <3>2, QueuedAppend DEF Carries
      <3> QED
        BY <1>3, <3>3, <3>5, <3>6
    <2> QED
      BY <2>1, <2>2
  <1>5. Typed'
    BY <1>1, <1>2, <1>4 DEF DispatchInv, Typed, TypeOK
  <1>6. phase'[a] = p /\ OtherLoops(a)
    BY <1>1, <1>2, <1>4 DEF DispatchInv, Typed, TypeOK, OtherLoops
  <1>7. LoopShape(phase'[a], stopped'[a], timers'[a], queue'[a], pc[a], wake[a], stack[a])
    <2>1. LoopShape(phase[a], stopped[a], timers[a], queue[a], pc[a], wake[a], stack[a])
      BY DEF DispatchInv, LoopInv
    <2> QED
      BY <1>2, <1>6, <2>1 DEF LoopShape
  <1> QED
    BY <1>2, <1>4, <1>5, <1>6, <1>7, LoopMoves

LEMMA StopTimeoutStep ==
  ASSUME DispatchInv, NEW a \in Agents, StopTimeout(a)
  PROVE  DispatchInv'
  <1>1. /\ phase[a] = "stop_wait" /\ phase' = [phase EXCEPT ![a] = "stop_cancel"]
        /\ UNCHANGED <<hosted, stopped, starts, timers, queue, idle, lock, pc, wake, stack, awaiting, handle, reply, inbound>>
    BY DEF StopTimeout
  <1>2. Typed'
    BY <1>1 DEF DispatchInv, Typed, TypeOK
  <1>3. phase'[a] = "stop_cancel" /\ OtherLoops(a)
    BY <1>1 DEF DispatchInv, Typed, TypeOK, OtherLoops
  <1>4. LoopShape(phase'[a], stopped'[a], timers'[a], queue'[a], pc[a], wake[a], stack[a])
    <2>1. LoopShape(phase[a], stopped[a], timers[a], queue[a], pc[a], wake[a], stack[a])
      BY DEF DispatchInv, LoopInv
    <2> QED
      BY <1>1, <1>3, <2>1 DEF LoopShape
  <1> QED
    BY <1>1, <1>2, <1>3, <1>4, LoopMoves

-----------------------------------------------------------------------------
(* The steps of start(), stop() and the supervisor. *)

LEMMA NotAwaiting ==
  ASSUME DispatchInv, NEW t \in Tasks, pc[t] # "await"
  PROVE  awaiting[t] \notin Handles
  BY TaskFacts DEF DispatchInv, AwaitInv

LEMMA FuturesKept ==
  ASSUME NEW t \in Tasks, UNCHANGED handle, awaiting[t] \notin Handles
  PROVE  KeepsFutures(t)
  BY DEF KeepsFutures, Pending

LEMMA FutureSettled ==
  ASSUME DispatchInv, NEW t \in Tasks, NEW h \in Handles, NEW st \in Settled, NEW acts \in SUBSET Agents,
         handle' = Settle(handle, h, st, acts), pc[h] = "none" \/ h = t \/ awaiting[t] = h,
         awaiting[t] \notin Handles \/ awaiting[t] = h
  PROVE  /\ handle' \in [Handles -> Futures] /\ KeepsFutures(t) /\ handle'[h].st # "pending"
         /\ \A k \in Handles : k # h => handle'[k] = handle[k]
  <1>1. handle \in [Handles -> Futures]
    BY DEF DispatchInv, Typed
  <1>2. /\ handle' \in [Handles -> Futures] /\ \A k \in Handles : handle'[k].to = handle[k].to
        /\ \A k \in Handles : k # h => handle'[k] = handle[k]
        /\ handle'[h].st # "pending" /\ \A k \in Handles : handle'[k].st = "pending" => handle[k].st = "pending"
    BY <1>1, SettleFacts
  <1> QED
    BY <1>2 DEF KeepsFutures, Pending

\* What the futures' type says of TypeOK.
LEMMA FutureTypes ==
  ASSUME NEW hs \in [Handles -> Futures]
  PROVE  \A h \in Handles : /\ hs[h].st \in Settled \cup {"free", "pending"} /\ hs[h].acts \in SUBSET Agents
                            /\ hs[h].to \in Agents \cup {NoTask}
  BY DEF Futures

\* The handle a supervisor resolves has no other resolver.
LEMMA WakeResolves ==
  ASSUME DispatchInv, NEW a \in Agents, wake[a].kind = "sync"
  PROVE  wake[a].h \in Handles /\ pc[wake[a].h] = "none"
  <1>1. wake[a].h \in Handles
    BY WakeFacts DEF DispatchInv, Typed
  <1> QED
    BY <1>1 DEF DispatchInv, OneResolver, Carries

LEMMA StartStep ==
  ASSUME DispatchInv, NEW a \in Agents, Start(a)
  PROVE  DispatchInv'
  <1>1. /\ phase[a] = "off" /\ starts[a] < MaxStarts /\ starts' = [starts EXCEPT ![a] = @ + 1]
        /\ phase' = [phase EXCEPT ![a] = "run"] /\ stopped' = [stopped EXCEPT ![a] = FALSE]
        /\ pc' = [pc EXCEPT ![a] = "top"] /\ timers' = [timers EXCEPT ![a] = TimerKinds]
        /\ UNCHANGED <<hosted, queue, idle, lock, wake, stack, awaiting, handle, reply, inbound>>
    BY DEF Start, LoopStart
  <1>2. a \in Tasks /\ a \notin Requests /\ a \notin Handles
    BY TaskFacts
  <1>3. LoopShape(phase[a], stopped[a], timers[a], queue[a], pc[a], wake[a], stack[a])
    BY DEF DispatchInv, LoopInv
  <1>4. pc[a] = "none" /\ queue[a] = <<>> /\ wake[a].kind = "none" /\ stack[a] = <<>>
    BY <1>1, <1>3 DEF LoopShape
  <1>5. awaiting[a] = 0 /\ lock = LocksAfter(a)
    BY <1>2, <1>4, LockFacts DEF DispatchInv, AwaitInv
  <1>6. starts'[a] \in 0..MaxStarts
    <2>1. starts[a] \in 0..MaxStarts /\ MaxStarts \in Nat /\ starts'[a] = starts[a] + 1
      BY <1>1, LoopAssumption DEF DispatchInv, Typed, TypeOK
    <2> QED
      BY <1>1, <2>1
  <1>7. Typed'
    BY <1>1, <1>6 DEF DispatchInv, Typed, TypeOK
  <1>8. /\ phase'[a] = "run" /\ stopped'[a] = FALSE /\ timers'[a] = TimerKinds /\ pc'[a] = "top"
        /\ MovesAlone(a)
    BY <1>1, <1>2 DEF DispatchInv, Typed, TypeOK, MovesAlone
  <1>9. KeepsShape(a)
    BY <1>1, <1>2, <1>4, <1>5, <1>8 DEF KeepsShape, LoopShape, AskShape
  <1>10. KeepsFutures(a) /\ KeepsWakes(a)
    BY <1>1, <1>2, <1>4, FuturesKept, NotAwaiting DEF KeepsWakes
  <1> QED
    BY <1>2, <1>7, <1>8, <1>9, <1>10, TaskMoves

LEMMA StopResolverStep ==
  ASSUME DispatchInv, NEW a \in Agents, NEW h \in Handles, StopResolver(a, h)
  PROVE  DispatchInv'
  <1>1. /\ pc[h] # "none" /\ handle[h].to = a /\ phase[a] = "stop_resolvers"
        /\ handle' = IF pc[h] = "spawned" THEN handle ELSE Settle(handle, h, "empty", {})
        /\ pc' = [pc EXCEPT ![h] = "none"] /\ lock' = [lock EXCEPT ![a] = IF @ = h THEN NoTask ELSE @]
        /\ UNCHANGED <<hosted, loopVars, queue, idle, wake, stack, awaiting, reply, inbound>>
    BY DEF StopResolver, Resolvers
  <1>2. h \in Tasks /\ h \notin Requests /\ h \notin Agents
    BY TaskFacts
  <1>3. lock' = LocksAfter(h) /\ LocksAfter(h) \in [Agents -> Tasks \cup {NoTask}]
    <2>1. \A x \in Agents : lock[x] = h => x = a
      BY <1>1, <1>2 DEF DispatchInv, LockIsNotLeaked, Asked
    <2>2. lock \in [Agents -> Tasks \cup {NoTask}]
      BY DEF DispatchInv, Typed, TypeOK
    <2> QED
      BY <1>1, <1>2, <2>1, <2>2, LockFacts DEF LocksAfter
  <1>4. "empty" \in Settled /\ {} \in SUBSET Agents /\ handle \in [Handles -> Futures] /\ awaiting[h] \notin Handles
    BY <1>2, TaskFacts DEF Settled, DispatchInv, Typed, TaskInv, AwaitInv
  <1>5. handle' \in [Handles -> Futures] /\ KeepsFutures(h) /\ (handle'[h].st # "pending" \/ phase[handle[h].to] \notin {"off", "run"})
    <2>1. CASE pc[h] = "spawned"
      BY <1>1, <1>2, <1>4, <2>1, FuturesKept
    <2>2. CASE pc[h] # "spawned"
      BY <1>1, <1>2, <1>4, <2>2, FutureSettled
    <2> QED
      BY <2>1, <2>2
  <1>6. Typed'
    BY <1>1, <1>3, <1>5, FutureTypes DEF DispatchInv, Typed, TypeOK, loopVars
  <1>7. pc'[h] = "none" /\ MovesAlone(h)
    BY <1>1, <1>2 DEF DispatchInv, Typed, TypeOK, MovesAlone, loopVars
  <1>8. stack[h] = <<>> /\ awaiting[h] = 0
    BY <1>2 DEF DispatchInv, TaskInv, AwaitInv
  <1>9. KeepsShape(h)
    BY <1>1, <1>2, <1>3, <1>5, <1>7, <1>8 DEF KeepsShape, AskShape
  <1>10. KeepsWakes(h)
    BY <1>2 DEF KeepsWakes
  <1> QED
    BY <1>2, <1>5, <1>6, <1>7, <1>9, <1>10, TaskMoves

LEMMA LoopTopStep ==
  ASSUME DispatchInv, NEW a \in Agents, LoopTop(a)
  PROVE  DispatchInv'
  <1>1. PICK p \in {"exited", "get"} : pc' = [pc EXCEPT ![a] = p]
    BY DEF LoopTop
  <1>2. pc[a] = "top" /\ UNCHANGED <<hosted, loopVars, queue, idle, lock, wake, stack, awaiting, handle, reply, inbound>>
    BY DEF LoopTop
  <1>3. a \in Tasks /\ a \notin Requests /\ a \notin Handles
    BY TaskFacts
  <1>4. LoopShape(phase[a], stopped[a], timers[a], queue[a], pc[a], wake[a], stack[a])
    BY DEF DispatchInv, LoopInv
  <1>5. awaiting[a] = 0 /\ lock = LocksAfter(a)
    BY <1>2, <1>3, LockFacts DEF DispatchInv, AwaitInv
  <1>6. Typed'
    BY <1>1, <1>2 DEF DispatchInv, Typed, TypeOK, loopVars
  <1>7. pc'[a] = p /\ MovesAlone(a)
    BY <1>1, <1>2, <1>3 DEF DispatchInv, Typed, TypeOK, MovesAlone, loopVars
  <1>8. KeepsShape(a)
    BY <1>2, <1>3, <1>4, <1>5, <1>7 DEF KeepsShape, LoopShape, AskShape, loopVars
  <1>9. KeepsFutures(a) /\ KeepsWakes(a)
    BY <1>2, <1>3, FuturesKept, NotAwaiting DEF KeepsWakes
  <1> QED
    BY <1>3, <1>6, <1>7, <1>8, <1>9, TaskMoves

LEMMA TakeWakeStep ==
  ASSUME DispatchInv, NEW a \in Agents, TakeWake(a)
  PROVE  DispatchInv'
  <1>1. pc[a] = "get" /\ queue[a] # <<>>
    BY DEF TakeWake
  <1>2. queue \in [Agents -> Seq(Wakes)] /\ (\A x \in Agents : Len(queue[x]) <= QueueSize) /\ QueueSize \in Nat
    BY LoopAssumption DEF DispatchInv, Typed, TypeOK
  <1>3. PICK w \in Wakes : w = Head(queue[a])
    BY <1>1, <1>2, QueuedTail
  <1>4. PICK q \in Seq(Wakes) : q = Tail(queue[a])
    BY <1>1, <1>2, QueuedTail
  <1>5. PICK v \in Wakes : v = IF RunsPersona(w) THEN w ELSE NoWake
    BY WakeFacts
  <1>6. PICK p \in {"exited", "lock", "top"} : p = CASE w.kind = "stop" -> "exited" [] RunsPersona(w) -> "lock" [] OTHER -> "top"
    OBVIOUS
  <1>7. PICK n \in 0..IdleAfter : n = IF w.kind \in {"sync", "inbound"} THEN 0 ELSE idle[a]
    BY LoopAssumption DEF DispatchInv, Typed, TypeOK
  <1>8. /\ pc' = [pc EXCEPT ![a] = p] /\ wake' = [wake EXCEPT ![a] = v] /\ idle' = [idle EXCEPT ![a] = n]
        /\ queue' = [queue EXCEPT ![a] = q]
        /\ UNCHANGED <<hosted, loopVars, lock, stack, awaiting, handle, reply, inbound>>
    BY <1>3, <1>4, <1>5, <1>6, <1>7 DEF TakeWake
  <1>9. Len(q) <= QueueSize /\ \A h \in Handles : Queued(queue[a], h) <=> Queued(q, h) \/ Carries(w, h)
    <2>1. Len(q) = Len(queue[a]) - 1 /\ Len(queue[a]) \in Nat
      BY <1>1, <1>2, <1>4, QueuedTail
    <2> QED
      BY <1>1, <1>2, <1>3, <1>4, <2>1, QueuedTail
  <1>10. a \in Tasks /\ a \notin Requests /\ a \notin Handles
    BY TaskFacts
  <1>11. LoopShape(phase[a], stopped[a], timers[a], queue[a], pc[a], wake[a], stack[a])
    BY DEF DispatchInv, LoopInv
  <1>12. awaiting[a] = 0 /\ lock = LocksAfter(a)
    BY <1>1, <1>10, LockFacts DEF DispatchInv, AwaitInv
  <1>13. Typed'
    BY <1>8, <1>9 DEF DispatchInv, Typed, TypeOK, loopVars
  <1>14. pc'[a] = p /\ wake'[a] = v /\ queue'[a] = q /\ MovesAlone(a)
    BY <1>8, <1>10 DEF DispatchInv, Typed, TypeOK, MovesAlone, loopVars
  <1>15. /\ p = "lock" => v = w /\ w.kind \in {"sync", "tick", "inbound"}
         /\ p # "lock" => v.kind = "none"
         /\ w.kind = "sync" => v = w
         /\ v.kind = "inbound" => v.depth < MaxCascadeDepth
    <2>1. w.kind = "inbound" => w.depth \in Nat
      BY WakeFacts
    <2> QED
      BY <1>5, <1>6, <2>1, WakeFacts, LoopAssumption DEF RunsPersona, TooDeep
  <1>16. KeepsShape(a)
    <2>1. LoopShape(phase'[a], stopped'[a], timers'[a], queue'[a], pc'[a], wake'[a], stack'[a])
      BY <1>1, <1>8, <1>11, <1>14, <1>15 DEF LoopShape, loopVars
    <2> QED
      BY <1>1, <1>8, <1>10, <1>11, <1>12, <1>14, <2>1 DEF KeepsShape, AskShape, LoopShape, loopVars
  <1>17. KeepsFutures(a)
    BY <1>1, <1>8, <1>10, FuturesKept, NotAwaiting
  <1>18. KeepsWakes(a)
    <2>1. wake[a].kind = "none"
      BY <1>1, <1>11 DEF LoopShape
    <2>2. \A h \in Handles : /\ ~Carries(wake[a], h) /\ (Carries(w, h) => Carries(v, h))
                             /\ (Carries(v, h) => Carries(w, h))
      BY <1>5, <1>15, <2>1, WakeFacts DEF Carries
    <2> QED
      BY <1>9, <1>14, <2>2 DEF KeepsWakes
  <1> QED
    BY <1>10, <1>13, <1>14, <1>16, <1>17, <1>18, TaskMoves

LEMMA TickStep ==
  ASSUME DispatchInv, NEW a \in Agents, Tick(a)
  PROVE  DispatchInv'
  <1>1. /\ pc[a] = "decide" /\ stack[a] = <<>> /\ wake[a].kind = "tick" /\ lock' = [lock EXCEPT ![Asked(a)] = NoTask]
        /\ pc' = [pc EXCEPT ![a] = "top"] /\ wake' = [wake EXCEPT ![a] = NoWake]
        /\ UNCHANGED <<hosted, loopVars, queue, stack, awaiting, handle, reply, inbound>>
    BY DEF Tick, IdleTick, Unlocked
  <1>2. idle' \in [Agents -> 0..IdleAfter]
    <2>1. idle \in [Agents -> 0..IdleAfter] /\ IdleAfter \in Nat
      BY LoopAssumption DEF DispatchInv, Typed, TypeOK
    <2>2. CASE UNCHANGED idle
      BY <2>1, <2>2
    <2>3. CASE idle[a] < IdleAfter /\ \E n \in {0, idle[a] + 1} : idle' = [idle EXCEPT ![a] = n]
      <3>1. \A n \in {0, idle[a] + 1} : n \in 0..IdleAfter
        BY <2>1, <2>3
      <3> QED
        BY <2>1, <2>3, <3>1
    <2> QED
      BY <2>2, <2>3 DEF Tick
  <1>3. a \in Tasks /\ a \notin Requests /\ a \notin Handles
    BY TaskFacts
  <1>4. LoopShape(phase[a], stopped[a], timers[a], queue[a], pc[a], wake[a], stack[a])
    BY DEF DispatchInv, LoopInv
  <1>5. awaiting[a] = 0 /\ lock' = LocksAfter(a) /\ LocksAfter(a) \in [Agents -> Tasks \cup {NoTask}]
    BY <1>1, <1>3, LockFacts DEF DispatchInv, AwaitInv
  <1>6. Typed'
    BY <1>1, <1>2, <1>5, WakeFacts DEF DispatchInv, Typed, TypeOK, loopVars
  <1>7. pc'[a] = "top" /\ wake'[a] = NoWake /\ MovesAlone(a)
    BY <1>1, <1>3 DEF DispatchInv, Typed, TypeOK, MovesAlone, loopVars
  <1>8. KeepsShape(a)
    BY <1>1, <1>3, <1>4, <1>5, <1>7, WakeFacts DEF KeepsShape, LoopShape, AskShape, loopVars
  <1>9. KeepsFutures(a)
    BY <1>1, <1>3, FuturesKept, NotAwaiting
  <1>10. KeepsWakes(a)
    BY <1>1, <1>7, WakeFacts DEF KeepsWakes, Carries
  <1> QED
    BY <1>3, <1>6, <1>7, <1>8, <1>9, <1>10, TaskMoves

\* What the cancelled supervisor was to resolve, and what it awaited, are
\* both settled.
LEMMA CancelledFutures ==
  ASSUME DispatchInv, NEW a \in Agents, SupervisorCancelled(a)
  PROVE  /\ handle' \in [Handles -> Futures] /\ KeepsFutures(a)
         /\ wake[a].kind = "sync" => handle'[wake[a].h].st # "pending"
  <1>1. "empty" \in Settled /\ "cancelled" \in Settled /\ {} \in SUBSET Agents /\ handle \in [Handles -> Futures] /\ a \in Tasks
    BY TaskFacts DEF Settled, DispatchInv, Typed
  <1>2. PICK own : own = SettleInFlight(a)
    OBVIOUS
  <1>3. /\ own \in [Handles -> Futures] /\ \A k \in Handles : own[k].to = handle[k].to
        /\ \A k \in Handles : own[k].st = "pending" => handle[k].st = "pending"
        /\ \A k \in Handles : handle[k].st = "pending" /\ own[k].st # "pending" => pc[k] = "none"
        /\ wake[a].kind = "sync" => own[wake[a].h].st # "pending"
    <2>1. CASE wake[a].kind = "sync"
      <3>1. wake[a].h \in Handles /\ pc[wake[a].h] = "none"
        BY <2>1, WakeResolves
      <3>2. own = Settle(handle, wake[a].h, "empty", {})
        BY <1>2, <2>1 DEF SettleInFlight
      <3> QED
        BY <1>1, <3>1, <3>2, SettleFacts
    <2>2. CASE wake[a].kind # "sync"
      BY <1>1, <1>2, <2>2 DEF SettleInFlight
    <2> QED
      BY <2>1, <2>2
  <1>4. CASE pc[a] = "await"
    <2>1. PICK h \in Handles : h = awaiting[a]
      BY <1>1, <1>4 DEF DispatchInv, Typed, TypeOK, AwaitInv
    <2>2. handle' = Settle(own, h, "cancelled", {})
      BY <1>2, <1>4, <2>1 DEF SupervisorCancelled
    <2>3. /\ handle' \in [Handles -> Futures] /\ \A k \in Handles : handle'[k].to = own[k].to
          /\ \A k \in Handles : k # h => handle'[k] = own[k]
          /\ \A k \in Handles : handle'[k].st = "pending" => own[k].st = "pending"
          /\ handle'[h].st # "pending"
      BY <1>1, <1>3, <2>2, SettleFacts
    <2>4. wake[a].kind = "sync" => wake[a].h \in Handles
      BY WakeResolves
    <2> QED
      BY <1>3, <2>1, <2>3, <2>4 DEF KeepsFutures, Pending
  <1>5. CASE pc[a] # "await"
    <2>1. handle' = own
      BY <1>2, <1>5 DEF SupervisorCancelled
    <2> QED
      BY <1>3, <2>1, <1>5, <1>1, NotAwaiting DEF KeepsFutures, Pending
  <1> QED
    BY <1>4, <1>5

LEMMA SupervisorCancelledStep ==
  ASSUME DispatchInv, NEW a \in Agents, SupervisorCancelled(a)
  PROVE  DispatchInv'
  <1>1. /\ phase[a] = "stop_cancel" /\ pc' = [pc EXCEPT ![a] = "exited"] /\ lock' = LocksAfter(a)
        /\ awaiting' = [awaiting EXCEPT ![a] = 0] /\ stack' = [stack EXCEPT ![a] = <<>>]
        /\ wake' = [wake EXCEPT ![a] = NoWake]
        /\ UNCHANGED <<hosted, loopVars, queue, idle, reply, inbound>>
    BY DEF SupervisorCancelled
  <1>2. /\ handle' \in [Handles -> Futures] /\ KeepsFutures(a)
        /\ wake[a].kind = "sync" => handle'[wake[a].h].st # "pending"
    BY CancelledFutures
  <1>3. a \in Tasks /\ a \notin Requests /\ a \notin Handles
    BY TaskFacts
  <1>4. LoopShape(phase[a], stopped[a], timers[a], queue[a], pc[a], wake[a], stack[a])
    BY DEF DispatchInv, LoopInv
  <1>5. LocksAfter(a) \in [Agents -> Tasks \cup {NoTask}] /\ <<>> \in Seq(Frames)
    BY <1>3, LockFacts
  <1>6. Typed'
    BY <1>1, <1>2, <1>5, WakeFacts, FutureTypes DEF DispatchInv, Typed, TypeOK, loopVars
  <1>7. pc'[a] = "exited" /\ wake'[a] = NoWake /\ stack'[a] = <<>> /\ awaiting'[a] = 0 /\ MovesAlone(a)
    BY <1>1, <1>3 DEF DispatchInv, Typed, TypeOK, MovesAlone, loopVars
  <1>8. KeepsShape(a)
    BY <1>1, <1>3, <1>4, <1>7, WakeFacts DEF KeepsShape, LoopShape, AskShape, loopVars
  <1>9. KeepsWakes(a)
    BY <1>1, <1>2, <1>7, WakeFacts DEF KeepsWakes, Carries
  <1> QED
    BY <1>2, <1>3, <1>6, <1>7, <1>8, <1>9, TaskMoves

LEMMA StopFinishStep ==
  ASSUME DispatchInv, NEW a \in Agents, StopFinish(a)
  PROVE  DispatchInv'
  <1>1. /\ phase[a] \in {"stop_wait", "stop_cancel"} /\ pc[a] = "exited" /\ handle' = DrainPendingHandles(a)
        /\ queue' = [queue EXCEPT ![a] = <<>>] /\ phase' = [phase EXCEPT ![a] = "off"]
        /\ pc' = [pc EXCEPT ![a] = "none"]
        /\ UNCHANGED <<hosted, stopped, starts, timers, idle, lock, wake, stack, awaiting, reply, inbound>>
    BY DEF StopFinish
  <1>2. a \in Tasks /\ a \notin Requests /\ a \notin Handles
    BY TaskFacts
  <1>3. LoopShape(phase[a], stopped[a], timers[a], queue[a], pc[a], wake[a], stack[a])
    BY DEF DispatchInv, LoopInv
  <1>4. handle \in [Handles -> Futures] /\ queue \in [Agents -> Seq(Wakes)]
    BY DEF DispatchInv, Typed
  <1>5. \A h \in Handles : handle'[h] = IF Queued(queue[a], h) /\ handle[h].st = "pending"
                                        THEN [handle[h] EXCEPT !.st = "empty"] ELSE handle[h]
    BY <1>1 DEF DrainPendingHandles, Queued, Carries
  <1>6. \A f \in Futures : [f EXCEPT !.st = "empty"] \in Futures /\ [f EXCEPT !.st = "empty"].st = "empty" /\ [f EXCEPT !.st = "empty"].to = f.to
    BY DEF Futures, Settled
  <1>7. handle' \in [Handles -> Futures]
    <2>1. \A h \in Handles : handle'[h] \in Futures
      BY <1>4, <1>5, <1>6
    <2> QED
      BY <1>1, <2>1 DEF DrainPendingHandles
  <1>8. KeepsFutures(a)
    <2>1. \A h \in Handles : Queued(queue[a], h) => pc[h] = "none"
      BY DEF DispatchInv, OneResolver
    <2> QED
      BY <1>4, <1>5, <1>6, <2>1, <1>1, <1>2, NotAwaiting DEF KeepsFutures, Pending
  <1>9. awaiting[a] = 0 /\ lock = LocksAfter(a) /\ <<>> \in Seq(Wakes) /\ Len(<<>>) <= QueueSize
    BY <1>1, <1>2, LockFacts, LoopAssumption DEF DispatchInv, AwaitInv
  <1>10. Typed'
    BY <1>1, <1>7, <1>9, FutureTypes DEF DispatchInv, Typed, TypeOK
  <1>11. pc'[a] = "none" /\ queue'[a] = <<>> /\ phase'[a] = "off" /\ MovesAlone(a)
    BY <1>1, <1>2 DEF DispatchInv, Typed, TypeOK, MovesAlone
  <1>12. KeepsShape(a)
    BY <1>1, <1>2, <1>3, <1>9, <1>11 DEF KeepsShape, LoopShape, AskShape
  <1>13. KeepsWakes(a)
    BY <1>1, <1>4, <1>5, <1>6, <1>11, QueuedNone DEF KeepsWakes
  <1> QED
    BY <1>2, <1>8, <1>10, <1>11, <1>12, <1>13, TaskMoves

-----------------------------------------------------------------------------
(* Cascades. *)

LEMMA FrameFacts ==
  ASSUME NEW s \in Seq(Frames), s # <<>>
  PROVE  /\ Len(s) \in Nat /\ Len(s) \in 1..Len(s) /\ Top(s) = s[Len(s)] /\ Top(s) \in Frames
         /\ Top(s).todo \in SUBSET Agents /\ Top(s).depth \in 0..MaxCascadeDepth
         /\ Top(s).cur # NoTask => Top(s).depth < MaxCascadeDepth
  <1>1. Len(s) \in Nat /\ Len(s) \in 1..Len(s) /\ Top(s) = s[Len(s)]
    BY DEF Top
  <1>2. Top(s) \in Frames
    BY <1>1
  <1> QED
    BY <1>1, <1>2 DEF Frames

\* The actions a decision returns run one level deeper.
LEMMA DeeperFrame ==
  ASSUME NEW d \in Nat, d < MaxCascadeDepth, NEW T \in SUBSET Agents
  PROVE  [depth |-> d + 1, todo |-> T, cur |-> NoTask] \in Frames
  <1>1. d + 1 \in 0..MaxCascadeDepth
    BY LoopAssumption
  <1> QED
    BY <1>1 DEF Frames

LEMMA FrameReplaced ==
  ASSUME NEW s \in Seq(Frames), NEW k \in 1..Len(s), NEW f \in Frames
  PROVE  /\ [s EXCEPT ![k] = f] \in Seq(Frames) /\ [s EXCEPT ![k] = f] # <<>>
         /\ Len([s EXCEPT ![k] = f]) = Len(s) /\ [s EXCEPT ![k] = f][k] = f
  <1>1. [s EXCEPT ![k] = f] \in Seq(Frames) /\ Len([s EXCEPT ![k] = f]) = Len(s) /\ [s EXCEPT ![k] = f][k] = f
    BY ExceptSeq
  <1>2. Len(s) \in Nat /\ Len(s) # 0
    OBVIOUS
  <1> QED
    BY <1>1, <1>2

\* A dispatch that is over leaves its frame without a persona asked.
LEMMA FrameCleared ==
  ASSUME NEW s \in Seq(Frames), NEW k \in 1..Len(s)
  PROVE  [s EXCEPT ![k].cur = NoTask] \in Seq(Frames) /\ [s EXCEPT ![k].cur = NoTask] # <<>>
  <1>1. s[k] \in Frames
    OBVIOUS
  <1>2. PICK f : f = [s[k] EXCEPT !.cur = NoTask]
    OBVIOUS
  <1>3. f \in Frames
    BY <1>1, <1>2 DEF Frames
  <1>4. [s EXCEPT ![k].cur = NoTask] = [s EXCEPT ![k] = f]
    BY <1>2
  <1> QED
    BY <1>3, <1>4, FrameReplaced

LEMMA FrameTaken ==
  ASSUME NEW s \in Seq(Frames), NEW k \in 1..Len(s), NEW x \in Agents
  PROVE  [s EXCEPT ![k].todo = @ \ {x}] \in Seq(Frames) /\ [s EXCEPT ![k].todo = @ \ {x}] # <<>>
  <1>1. s[k] \in Frames
    OBVIOUS
  <1>2. PICK f : f = [s[k] EXCEPT !.todo = @ \ {x}]
    OBVIOUS
  <1>3. f \in Frames
    BY <1>1, <1>2 DEF Frames
  <1>4. [s EXCEPT ![k].todo = @ \ {x}] = [s EXCEPT ![k] = f]
    BY <1>2
  <1>5. PICK r : r = [s EXCEPT ![k] = f]
    OBVIOUS
  <1>6. r \in Seq(Frames) /\ r # <<>>
    BY <1>3, <1>5, FrameReplaced
  <1> QED
    BY <1>4, <1>5, <1>6

LEMMA FrameAsking ==
  ASSUME NEW s \in Seq(Frames), s # <<>>, NEW x \in Agents, Top(s).depth < MaxCascadeDepth
  PROVE  /\ [s EXCEPT ![Len(s)].todo = @ \ {x}, ![Len(s)].cur = x] \in Seq(Frames)
         /\ [s EXCEPT ![Len(s)].todo = @ \ {x}, ![Len(s)].cur = x] # <<>>
         /\ Top([s EXCEPT ![Len(s)].todo = @ \ {x}, ![Len(s)].cur = x]).cur = x
  <1>1. Len(s) \in 1..Len(s) /\ s[Len(s)] \in Frames /\ s[Len(s)].depth < MaxCascadeDepth
    BY FrameFacts
  <1>2. PICK f : f = [s[Len(s)] EXCEPT !.todo = @ \ {x}, !.cur = x]
    OBVIOUS
  <1>3. f \in Frames /\ f.cur = x
    BY <1>1, <1>2 DEF Frames
  <1>4. [s EXCEPT ![Len(s)].todo = @ \ {x}, ![Len(s)].cur = x] = [s EXCEPT ![Len(s)] = f]
    BY <1>1, <1>2
  <1>5. PICK r : r = [s EXCEPT ![Len(s)] = f]
    OBVIOUS
  <1>6. r \in Seq(Frames) /\ r # <<>> /\ Len(r) = Len(s) /\ r[Len(s)] = f
    BY <1>1, <1>3, <1>5, FrameReplaced
  <1> QED
    BY <1>3, <1>4, <1>5, <1>6 DEF Top

\* A cascade goes on, or ends a request: the steps of the executor.
LEMMA CascadeStep ==
  ASSUME DispatchInv, NEW t \in Tasks, t \notin Handles, NEW s \in Seq(Frames), NEW p \in {"exec", "lock", "done"},
         stack' = [stack EXCEPT ![t] = s], pc' = [pc EXCEPT ![t] = p], awaiting' = [awaiting EXCEPT ![t] = 0],
         lock' = LocksAfter(t), handle' \in [Handles -> Futures], KeepsFutures(t),
         UNCHANGED <<hosted, loopVars, queue, idle, wake>>, inbound' \in 0..MaxInbound,
         p = "done" => t \in Requests, p # "done" => s # <<>>, p = "lock" => Top(s).cur # NoTask,
         t \in Agents => pc[t] # "none" /\ wake[t].kind = "inbound"
  PROVE  DispatchInv'
  <1>1. LocksAfter(t) \in [Agents -> Tasks \cup {NoTask}]
    BY LockFacts
  <1>2. Typed'
    BY <1>1, FutureTypes DEF DispatchInv, Typed, TypeOK, loopVars
  <1>3. pc'[t] = p /\ stack'[t] = s /\ awaiting'[t] = 0 /\ MovesAlone(t)
    BY DEF DispatchInv, Typed, TypeOK, MovesAlone, loopVars
  <1>4. KeepsShape(t)
    <2>1. t \in Agents => LoopShape(phase'[t], stopped'[t], timers'[t], queue'[t], pc'[t], wake'[t], stack'[t])
      <3>1. SUFFICES ASSUME t \in Agents
                     PROVE LoopShape(phase[t], stopped[t], timers[t], queue[t], p, wake[t], s)
        BY <1>3 DEF loopVars
      <3>2. LoopShape(phase[t], stopped[t], timers[t], queue[t], pc[t], wake[t], stack[t])
        BY <3>1 DEF DispatchInv, LoopInv
      <3>3. p # "done"
        BY <3>1, TaskFacts
      <3> QED
        BY <3>1, <3>2, <3>3 DEF LoopShape
    <2> QED
      BY <1>3, <2>1 DEF KeepsShape, AskShape, RequestShape, loopVars
  <1>5. KeepsWakes(t)
    BY DEF KeepsWakes
  <1> QED
    BY <1>2, <1>3, <1>4, <1>5, TaskMoves

\* A supervisor is done with its wake.
LEMMA WakeDone ==
  ASSUME DispatchInv, NEW a \in Agents, pc[a] \in {"decide", "exec"},
         stack' = [stack EXCEPT ![a] = <<>>], pc' = [pc EXCEPT ![a] = "top"], wake' = [wake EXCEPT ![a] = NoWake],
         lock' = LocksAfter(a), handle' \in [Handles -> Futures], KeepsFutures(a),
         wake[a].kind = "sync" => handle'[wake[a].h].st # "pending",
         UNCHANGED <<hosted, loopVars, queue, idle, awaiting, inbound>>
  PROVE  DispatchInv'
  <1>1. LocksAfter(a) \in [Agents -> Tasks \cup {NoTask}] /\ <<>> \in Seq(Frames) /\ a \in Tasks
    BY LockFacts, TaskFacts
  <1>2. Typed'
    BY <1>1, FutureTypes, WakeFacts DEF DispatchInv, Typed, TypeOK, loopVars
  <1>3. pc'[a] = "top" /\ stack'[a] = <<>> /\ wake'[a] = NoWake /\ MovesAlone(a)
    BY <1>1 DEF DispatchInv, Typed, TypeOK, MovesAlone, loopVars
  <1>4. KeepsShape(a)
    <2>1. LoopShape(phase[a], stopped[a], timers[a], queue[a], pc[a], wake[a], stack[a])
      BY DEF DispatchInv, LoopInv
    <2>2. awaiting[a] = 0
      BY <1>1 DEF DispatchInv, AwaitInv
    <2> QED
      BY <1>3, <2>1, <2>2, TaskFacts, WakeFacts DEF KeepsShape, LoopShape, AskShape, loopVars
  <1>5. KeepsWakes(a)
    BY <1>3, WakeFacts DEF KeepsWakes, Carries
  <1> QED
    BY <1>1, <1>2, <1>3, <1>4, <1>5, TaskMoves

\* A detached resolver settles its handle and is gone.
LEMMA ResolverDone ==
  ASSUME DispatchInv, NEW h \in Handles, NEW st \in Settled, NEW acts \in SUBSET Agents,
         pc' = [pc EXCEPT ![h] = "none"], handle' = Settle(handle, h, st, acts), lock' = LocksAfter(h),
         UNCHANGED <<hosted, loopVars, queue, idle, wake, stack, awaiting, inbound>>
  PROVE  DispatchInv'
  <1>1. h \in Tasks /\ h \notin Requests /\ h \notin Agents
    BY TaskFacts
  <1>2. handle' \in [Handles -> Futures] /\ KeepsFutures(h) /\ handle'[h].st # "pending"
    <2>1. pc[h] # "await"
      BY DEF DispatchInv, TaskInv
    <2> QED
      BY <1>1, <2>1, FutureSettled, NotAwaiting
  <1>3. Typed'
    BY <1>1, <1>2, LockFacts, FutureTypes DEF DispatchInv, Typed, TypeOK, loopVars
  <1>4. pc'[h] = "none" /\ MovesAlone(h)
    BY <1>1 DEF DispatchInv, Typed, TypeOK, MovesAlone, loopVars
  <1>5. stack[h] = <<>> /\ awaiting[h] = 0
    BY <1>1 DEF DispatchInv, TaskInv, AwaitInv
  <1>6. KeepsShape(h) /\ KeepsWakes(h)
    BY <1>1, <1>2, <1>4, <1>5 DEF KeepsShape, AskShape, KeepsWakes
  <1> QED
    BY <1>1, <1>2, <1>3, <1>4, <1>6, TaskMoves

\* What a task in the middle of a cascade is.
LEMMA CascadeFacts ==
  ASSUME DispatchInv, NEW t \in Tasks, t \notin Handles, stack[t] # <<>>
  PROVE  /\ stack[t] \in Seq(Frames) /\ (t \in Agents => pc[t] # "none" /\ wake[t].kind = "inbound")
         /\ pc[t] # "await" => awaiting = [awaiting EXCEPT ![t] = 0]
         /\ inbound \in 0..MaxInbound /\ handle \in [Handles -> Futures]
         /\ pc[t] \in {"lock", "decide", "await"} => Top(stack[t]).cur # NoTask
  <1>1. t \in Agents => LoopShape(phase[t], stopped[t], timers[t], queue[t], pc[t], wake[t], stack[t])
    BY DEF DispatchInv, LoopInv
  <1>2. t \in Agents => pc[t] # "none" /\ wake[t].kind = "inbound"
    BY <1>1 DEF LoopShape
  <1>3. pc[t] # "await" => awaiting = [awaiting EXCEPT ![t] = 0]
    BY DEF DispatchInv, Typed, TypeOK, AwaitInv
  <1> QED
    BY <1>2, <1>3 DEF DispatchInv, Typed, TypeOK, TaskInv, AskShape

-----------------------------------------------------------------------------
(* The steps of the executor. *)

LEMMA DecideStep ==
  ASSUME DispatchInv, NEW t \in Tasks, NEW T \in Mentions, Decide(t, T)
  PROVE  DispatchInv'
  <1>1. /\ pc[t] = "decide" /\ ~IdleTick(t) /\ lock' = [lock EXCEPT ![Asked(t)] = NoTask]
        /\ UNCHANGED <<hosted, loopVars, queue, idle, awaiting, inbound>>
    BY DEF Decide, Unlocked
  <1>2. T \in SUBSET Agents /\ "done" \in Settled /\ lock' = LocksAfter(t)
    BY <1>1, LockFacts DEF Mentions, Settled
  <1>3. CASE /\ t \in Handles /\ handle' = Settle(handle, t, "done", T) /\ pc' = [pc EXCEPT ![t] = "none"]
             /\ UNCHANGED <<stack, wake, reply>>
    BY <1>1, <1>2, <1>3, ResolverDone
  <1>4. CASE /\ t \in Agents /\ stack[t] = <<>> /\ wake[t].kind = "sync"
             /\ handle' = Settle(handle, wake[t].h, "done", T) /\ pc' = [pc EXCEPT ![t] = "top"]
             /\ wake' = [wake EXCEPT ![t] = NoWake] /\ UNCHANGED <<stack, reply>>
    <2>1. wake[t].h \in Handles /\ pc[wake[t].h] = "none"
      BY <1>4, WakeResolves
    <2>2. handle' \in [Handles -> Futures] /\ KeepsFutures(t) /\ handle'[wake[t].h].st # "pending"
      BY <1>1, <1>2, <1>4, <2>1, FutureSettled, NotAwaiting
    <2>3. stack' = [stack EXCEPT ![t] = <<>>]
      BY <1>4 DEF DispatchInv, Typed
    <2> QED
      BY <1>1, <1>2, <1>4, <2>2, <2>3, WakeDone
  <1>5. CASE /\ t \in Agents /\ stack[t] = <<>> /\ wake[t].kind = "inbound"
             /\ stack' = [stack EXCEPT ![t] = <<[depth |-> wake[t].depth + 1, todo |-> T, cur |-> NoTask]>>]
             /\ pc' = [pc EXCEPT ![t] = "exec"] /\ UNCHANGED <<handle, wake, reply>>
    <2>1. LoopShape(phase[t], stopped[t], timers[t], queue[t], pc[t], wake[t], stack[t])
      BY <1>5 DEF DispatchInv, LoopInv
    <2>2. wake[t].depth \in Nat /\ wake[t].depth < MaxCascadeDepth
      BY <1>5, <2>1, WakeFacts DEF LoopShape, DispatchInv, Typed
    <2>3. PICK f \in Frames : f = [depth |-> wake[t].depth + 1, todo |-> T, cur |-> NoTask]
      BY <1>2, <2>2, DeeperFrame
    <2>4. <<f>> \in Seq(Frames) /\ <<f>> # <<>>
      OBVIOUS
    <2>5. /\ t \notin Handles /\ handle' \in [Handles -> Futures] /\ KeepsFutures(t) /\ inbound' \in 0..MaxInbound
          /\ awaiting' = [awaiting EXCEPT ![t] = 0]
      BY <1>1, <1>5, TaskFacts, FuturesKept DEF DispatchInv, Typed, TypeOK, AwaitInv
    <2> QED
      BY <1>1, <1>2, <1>5, <2>3, <2>4, <2>5, CascadeStep
  <1>6. CASE /\ t \notin Handles /\ stack[t] # <<>>
             /\ stack' = [stack EXCEPT ![t] = Append(IF AtTheDoor(t) THEN <<>> ELSE @,
                                                     [depth |-> Top(@).depth + 1, todo |-> T, cur |-> NoTask])]
             /\ pc' = [pc EXCEPT ![t] = "exec"] /\ UNCHANGED <<handle, wake>>
    <2>1. /\ stack[t] \in Seq(Frames) /\ (t \in Agents => pc[t] # "none" /\ wake[t].kind = "inbound")
          /\ awaiting = [awaiting EXCEPT ![t] = 0] /\ Top(stack[t]).cur # NoTask
          /\ inbound \in 0..MaxInbound /\ handle \in [Handles -> Futures]
      BY <1>1, <1>6, CascadeFacts
    <2>2. Top(stack[t]).depth \in Nat /\ Top(stack[t]).depth < MaxCascadeDepth
      BY <1>6, <2>1, FrameFacts
    <2>3. PICK f \in Frames : f = [depth |-> Top(stack[t]).depth + 1, todo |-> T, cur |-> NoTask]
      BY <1>2, <2>2, DeeperFrame
    <2>4. PICK base \in Seq(Frames) : base = IF AtTheDoor(t) THEN <<>> ELSE stack[t]
      <3>1. <<>> \in Seq(Frames)
        OBVIOUS
      <3> QED
        BY <2>1, <3>1
    <2>5. PICK s \in Seq(Frames) : s = Append(base, f) /\ s # <<>>
      <3>1. Append(base, f) \in Seq(Frames) /\ Len(Append(base, f)) = Len(base) + 1 /\ Len(base) \in Nat
        OBVIOUS
      <3>2. Append(base, f) # <<>>
        BY <3>1
      <3> QED
        BY <3>1, <3>2
    <2>6. stack' = [stack EXCEPT ![t] = s]
      BY <1>6, <2>3, <2>4, <2>5 DEF DispatchInv, Typed
    <2>7. KeepsFutures(t)
      BY <1>1, <1>6, FuturesKept, NotAwaiting
    <2> QED
      BY <1>1, <1>2, <1>6, <2>1, <2>5, <2>6, <2>7, CascadeStep
  <1> QED
    BY <1>3, <1>4, <1>5, <1>6 DEF Decide

LEMMA DecideFailsStep ==
  ASSUME DispatchInv, NEW t \in Tasks, DecideFails(t)
  PROVE  DispatchInv'
  <1>1. /\ pc[t] = "decide" /\ lock' = [lock EXCEPT ![Asked(t)] = NoTask]
        /\ UNCHANGED <<hosted, loopVars, queue, idle, awaiting, inbound>>
    BY DEF DecideFails, Unlocked
  <1>2. {} \in SUBSET Agents /\ "failed" \in Settled /\ lock' = LocksAfter(t) /\ handle \in [Handles -> Futures]
    BY <1>1, LockFacts DEF Settled, DispatchInv, Typed
  <1>3. CASE /\ t \in Handles /\ handle' = Settle(handle, t, "failed", {}) /\ pc' = [pc EXCEPT ![t] = "none"]
             /\ UNCHANGED <<stack, wake, reply>>
    BY <1>1, <1>2, <1>3, ResolverDone
  <1>4. CASE /\ t \in Agents /\ stack[t] = <<>>
             /\ handle' = IF wake[t].kind = "sync" THEN Settle(handle, wake[t].h, "failed", {}) ELSE handle
             /\ pc' = [pc EXCEPT ![t] = "top"]
             /\ wake' = [wake EXCEPT ![t] = NoWake] /\ UNCHANGED <<stack, reply>>
    <2>1. wake[t].kind = "sync" => wake[t].h \in Handles /\ pc[wake[t].h] = "none"
      BY <1>4, WakeResolves
    <2>2. /\ handle' \in [Handles -> Futures] /\ KeepsFutures(t)
          /\ wake[t].kind = "sync" => handle'[wake[t].h].st # "pending"
      <3>1. CASE wake[t].kind = "sync"
        BY <1>1, <1>2, <1>4, <2>1, <3>1, FutureSettled, NotAwaiting
      <3>2. CASE wake[t].kind # "sync"
        BY <1>1, <1>2, <1>4, <3>2, FuturesKept, NotAwaiting DEF DispatchInv, Typed
      <3> QED
        BY <3>1, <3>2
    <2>3. stack' = [stack EXCEPT ![t] = <<>>]
      BY <1>4 DEF DispatchInv, Typed
    <2> QED
      BY <1>1, <1>2, <1>4, <2>2, <2>3, WakeDone
  <1>5. CASE t \notin Handles /\ stack[t] # <<>> /\ UNCHANGED <<handle, wake>>
    <2>1. /\ stack[t] \in Seq(Frames) /\ (t \in Agents => pc[t] # "none" /\ wake[t].kind = "inbound")
          /\ awaiting = [awaiting EXCEPT ![t] = 0] /\ inbound \in 0..MaxInbound
      BY <1>1, <1>5, CascadeFacts
    <2>2. KeepsFutures(t)
      BY <1>1, <1>5, FuturesKept, NotAwaiting
    <2>3. CASE AtTheDoor(t)
      <3>1. /\ t \in Requests /\ stack' = [stack EXCEPT ![t] = <<>>] /\ pc' = [pc EXCEPT ![t] = "done"]
            /\ <<>> \in Seq(Frames)
        BY <1>5, <2>3, TaskFacts DEF DecideFails, AtTheDoor
      <3> QED
        BY <1>1, <1>2, <1>5, <2>1, <2>2, <3>1, TaskFacts, CascadeStep
    <2>4. CASE ~AtTheDoor(t)
      <3>1. /\ stack' = [stack EXCEPT ![t][Len(stack[t])].cur = NoTask] /\ pc' = [pc EXCEPT ![t] = "exec"]
        BY <1>5, <2>4, TaskFacts DEF DecideFails
      <3>2. PICK s : s = [stack[t] EXCEPT ![Len(stack[t])].cur = NoTask]
        OBVIOUS
      <3>3. s \in Seq(Frames) /\ s # <<>>
        BY <1>5, <2>1, <3>2, FrameFacts, FrameCleared
      <3>4. stack' = [stack EXCEPT ![t] = s]
        BY <3>1, <3>2
      <3> QED
        BY <1>1, <1>2, <1>5, <2>1, <2>2, <3>1, <3>3, <3>4, CascadeStep
    <2> QED
      BY <2>3, <2>4
  <1> QED
    BY <1>3, <1>4, <1>5 DEF DecideFails

LEMMA UnwindStep ==
  ASSUME DispatchInv, NEW t \in Tasks, Unwind(t)
  PROVE  DispatchInv'
  <1>1. /\ pc[t] = "exec" /\ stack[t] # <<>>
        /\ UNCHANGED <<hosted, loopVars, queue, idle, lock, awaiting, handle, inbound>>
    BY DEF Unwind
  <1>2. t \notin Handles
    BY <1>1 DEF DispatchInv, TaskInv
  <1>3. /\ stack[t] \in Seq(Frames) /\ (t \in Agents => pc[t] # "none" /\ wake[t].kind = "inbound")
        /\ awaiting = [awaiting EXCEPT ![t] = 0] /\ inbound \in 0..MaxInbound /\ handle \in [Handles -> Futures]
    BY <1>1, <1>2, CascadeFacts
  <1>4. KeepsFutures(t) /\ lock' = LocksAfter(t)
    BY <1>1, FuturesKept, NotAwaiting, LockFacts
  <1>5. PICK below \in Seq(Frames) : below = Pop(stack[t])
    <2>1. Len(stack[t]) \in Nat /\ Len(stack[t]) >= 1
      BY <1>1, <1>3
    <2>2. 1 \in 1..Len(stack[t]) + 1 /\ Len(stack[t]) - 1 \in 1 - 1 .. Len(stack[t])
      BY <2>1
    <2>3. SubSeq(stack[t], 1, Len(stack[t]) - 1) \in Seq(Frames)
      BY <1>3, <2>1, <2>2, SubSeqProperties
    <2> QED
      BY <2>3 DEF Pop
  <1>6. CASE below = <<>>
    <2>1. /\ stack' = [stack EXCEPT ![t] = <<>>] /\ pc' = [pc EXCEPT ![t] = IF t \in Agents THEN "top" ELSE "done"]
          /\ wake' = [x \in Agents |-> IF x = t THEN NoWake ELSE wake[x]]
      BY <1>5, <1>6 DEF Unwind
    <2>2. CASE t \in Agents
      <3>1. wake' = [wake EXCEPT ![t] = NoWake] /\ pc' = [pc EXCEPT ![t] = "top"]
        BY <2>1, <2>2 DEF DispatchInv, Typed
      <3>2. wake[t].kind # "sync"
        BY <1>3, <2>2
      <3> QED
        BY <1>1, <1>3, <1>4, <2>1, <2>2, <3>1, <3>2, WakeDone
    <2>3. CASE t \in Requests
      <3>1. UNCHANGED wake /\ pc' = [pc EXCEPT ![t] = "done"] /\ t \notin Agents
        BY <2>1, <2>3, TaskFacts DEF DispatchInv, Typed
      <3>2. <<>> \in Seq(Frames)
        OBVIOUS
      <3> QED
        BY <1>1, <1>2, <1>3, <1>4, <2>1, <2>3, <3>1, <3>2, CascadeStep
    <2> QED
      BY <1>2, <2>2, <2>3 DEF Tasks
  <1>7. CASE below # <<>>
    <2>1. stack' = [stack EXCEPT ![t] = [below EXCEPT ![Len(below)].cur = NoTask]] /\ UNCHANGED <<pc, wake>>
      BY <1>5, <1>7 DEF Unwind
    <2>2. PICK s : s = [below EXCEPT ![Len(below)].cur = NoTask]
      OBVIOUS
    <2>3. s \in Seq(Frames) /\ s # <<>>
      BY <1>7, <2>2, FrameFacts, FrameCleared
    <2>4. stack' = [stack EXCEPT ![t] = s] /\ pc' = [pc EXCEPT ![t] = "exec"]
      BY <1>1, <2>1, <2>2 DEF DispatchInv, Typed, TypeOK
    <2> QED
      BY <1>1, <1>2, <1>3, <1>4, <2>1, <2>3, <2>4, CascadeStep
  <1> QED
    BY <1>6, <1>7

LEMMA HandleReturnsStep ==
  ASSUME DispatchInv, NEW t \in Tasks, HandleReturns(t)
  PROVE  DispatchInv'
  <1>1. /\ pc[t] = "await" /\ handle[awaiting[t]].st \in Settled /\ awaiting' = [awaiting EXCEPT ![t] = 0]
        /\ handle' = [handle EXCEPT ![awaiting[t]] = NoFuture]
        /\ UNCHANGED <<hosted, loopVars, queue, idle, lock, wake, inbound>>
    BY DEF HandleReturns
  <1>2. t \notin Handles
    BY <1>1 DEF DispatchInv, TaskInv
  <1>3. stack[t] # <<>>
    BY <1>1, <1>2 DEF DispatchInv, TaskInv, RequestShape, LoopInv, LoopShape, Tasks
  <1>4. /\ stack[t] \in Seq(Frames) /\ (t \in Agents => pc[t] # "none" /\ wake[t].kind = "inbound")
        /\ inbound \in 0..MaxInbound /\ handle \in [Handles -> Futures] /\ Top(stack[t]).cur # NoTask
    BY <1>1, <1>2, <1>3, CascadeFacts
  <1>5. PICK h \in Handles : h = awaiting[t]
    BY <1>1 DEF DispatchInv, Typed, TypeOK, AwaitInv
  <1>6. handle' \in [Handles -> Futures] /\ KeepsFutures(t)
    <2>1. NoFuture \in Futures /\ NoFuture.st # "pending" /\ "pending" \notin Settled
      BY DEF NoFuture, Futures, Settled
    <2> QED
      BY <1>1, <1>4, <1>5, <2>1 DEF KeepsFutures, Pending
  <1>7. lock' = LocksAfter(t)
    BY <1>1, LockFacts
  <1>8. CASE pc' = [pc EXCEPT ![t] = "done"] /\ stack' = [stack EXCEPT ![t] = <<>>] /\ AtTheDoor(t)
    <2>1. t \in Requests /\ <<>> \in Seq(Frames)
      BY <1>8 DEF AtTheDoor
    <2> QED
      BY <1>1, <1>2, <1>4, <1>6, <1>7, <1>8, <2>1, CascadeStep
  <1>9. ASSUME NEW s, s \in Seq(Frames), s # <<>>, stack' = [stack EXCEPT ![t] = s], pc' = [pc EXCEPT ![t] = "exec"]
        PROVE DispatchInv'
    BY <1>1, <1>2, <1>4, <1>6, <1>7, <1>9, CascadeStep
  <1>10. CASE /\ pc' = [pc EXCEPT ![t] = "exec"]
              /\ stack' = [stack EXCEPT ![t] = [@ EXCEPT ![Len(stack[t])].cur = NoTask]]
    <2>1. PICK s : s = [stack[t] EXCEPT ![Len(stack[t])].cur = NoTask]
      OBVIOUS
    <2>2. s \in Seq(Frames) /\ s # <<>>
      BY <1>3, <1>4, <2>1, FrameFacts, FrameCleared
    <2>3. stack' = [stack EXCEPT ![t] = s]
      BY <1>10, <2>1
    <2> QED
      BY <1>9, <1>10, <2>2, <2>3
  <1>11. CASE /\ pc' = [pc EXCEPT ![t] = "exec"]
              /\ stack' = [stack EXCEPT ![t] = Append(IF AtTheDoor(t) THEN <<>> ELSE @,
                             [depth |-> Top(stack[t]).depth + 1, todo |-> handle[awaiting[t]].acts, cur |-> NoTask])]
    <2>1. Top(stack[t]).depth \in Nat /\ Top(stack[t]).depth < MaxCascadeDepth
      BY <1>3, <1>4, FrameFacts
    <2>2. handle[awaiting[t]].acts \in SUBSET Agents
      BY <1>4, <1>5 DEF Futures
    <2>3. PICK f \in Frames : f = [depth |-> Top(stack[t]).depth + 1, todo |-> handle[awaiting[t]].acts, cur |-> NoTask]
      BY <2>1, <2>2, DeeperFrame
    <2>4. PICK base \in Seq(Frames) : base = IF AtTheDoor(t) THEN <<>> ELSE stack[t]
      <3>1. <<>> \in Seq(Frames)
        OBVIOUS
      <3> QED
        BY <1>4, <3>1
    <2>5. PICK s \in Seq(Frames) : s = Append(base, f) /\ s # <<>>
      <3>1. Append(base, f) \in Seq(Frames) /\ Len(Append(base, f)) = Len(base) + 1 /\ Len(base) \in Nat
        OBVIOUS
      <3>2. Append(base, f) # <<>>
        BY <3>1
      <3> QED
        BY <3>1, <3>2
    <2>6. stack' = [stack EXCEPT ![t] = s]
      BY <1>11, <2>3, <2>4, <2>5
    <2> QED
      BY <1>9, <1>11, <2>5, <2>6
  <1> QED
    BY <1>8, <1>10, <1>11 DEF HandleReturns

LEMMA DispatchTimeoutStep ==
  ASSUME DispatchInv, NEW t \in Tasks, NEW k \in 1..Len(stack[t]), DispatchTimeout(t, k)
  PROVE  DispatchInv'
  <1>1. /\ t \notin Handles /\ lock' = LocksAfter(t) /\ awaiting' = [awaiting EXCEPT ![t] = 0]
        /\ UNCHANGED <<hosted, loopVars, queue, idle, wake, inbound>>
    BY DEF DispatchTimeout
  <1>2. stack[t] \in Seq(Frames) /\ stack[t] # <<>>
    BY DEF DispatchInv, Typed
  <1>3. /\ (t \in Agents => pc[t] # "none" /\ wake[t].kind = "inbound")
        /\ inbound \in 0..MaxInbound /\ handle \in [Handles -> Futures]
    BY <1>1, <1>2, CascadeFacts
  <1>4. handle' \in [Handles -> Futures] /\ KeepsFutures(t)
    <2>1. CASE pc[t] = "await"
      <3>1. PICK h \in Handles : h = awaiting[t]
        BY <2>1 DEF DispatchInv, Typed, TypeOK, AwaitInv
      <3>2. handle' = Settle(handle, h, "cancelled", {}) /\ "cancelled" \in Settled /\ {} \in SUBSET Agents
        BY <2>1, <3>1 DEF DispatchTimeout, Settled
      <3> QED
        BY <3>1, <3>2, FutureSettled
    <2>2. CASE pc[t] # "await"
      <3>1. handle' = handle
        BY <2>2 DEF DispatchTimeout
      <3> QED
        BY <1>3, <2>2, <3>1, FuturesKept, NotAwaiting
    <2> QED
      BY <2>1, <2>2
  <1>5. CASE t \in Requests /\ stack[t][k].depth = 0
    <2>1. stack' = [stack EXCEPT ![t] = <<>>] /\ pc' = [pc EXCEPT ![t] = "done"] /\ <<>> \in Seq(Frames)
      BY <1>5 DEF DispatchTimeout
    <2> QED
      BY <1>1, <1>3, <1>4, <1>5, <2>1, CascadeStep
  <1>6. CASE ~(t \in Requests /\ stack[t][k].depth = 0)
    <2>1. /\ stack' = [stack EXCEPT ![t] = [SubSeq(@, 1, k) EXCEPT ![k].cur = NoTask]]
          /\ pc' = [pc EXCEPT ![t] = "exec"]
      BY <1>6 DEF DispatchTimeout
    <2>2. PICK r : r = SubSeq(stack[t], 1, k)
      OBVIOUS
    <2>3. r \in Seq(Frames) /\ Len(r) = k
      <3>1. \A i \in 1..k : stack[t][i] \in Frames
        BY <1>2
      <3>2. k \in Int /\ 1 <= k /\ k - 1 + 1 = k
        OBVIOUS
      <3> QED
        BY <2>2, <3>1, <3>2, SubSeqProperties
    <2>4. PICK s : s = [r EXCEPT ![k].cur = NoTask]
      OBVIOUS
    <2>5. s \in Seq(Frames) /\ s # <<>>
      <3>1. k \in 1..Len(r)
        BY <2>3
      <3> QED
        BY <2>3, <2>4, <3>1, FrameCleared
    <2>6. stack' = [stack EXCEPT ![t] = s]
      BY <2>1, <2>2, <2>4
    <2> QED
      BY <1>1, <1>3, <1>4, <2>1, <2>5, <2>6, CascadeStep
  <1> QED
    BY <1>5, <1>6

LEMMA RequestStarts ==
  ASSUME DispatchInv, NEW r \in Requests, pc[r] = "none", NEW f \in Frames, NEW p \in {"exec", "lock"},
         p = "lock" => f.cur # NoTask,
         stack' = [stack EXCEPT ![r] = <<f>>], pc' = [pc EXCEPT ![r] = p], inbound' \in 0..MaxInbound,
         UNCHANGED <<hosted, loopVars, queue, idle, lock, wake, awaiting, handle>>
  PROVE  DispatchInv'
  <1>1. r \in Tasks /\ r \notin Agents /\ r \notin Handles
    BY TaskFacts
  <1>2. awaiting' = [awaiting EXCEPT ![r] = 0] /\ lock' = LocksAfter(r)
    BY <1>1, LockFacts DEF DispatchInv, Typed, TypeOK, AwaitInv
  <1>3. handle' \in [Handles -> Futures] /\ KeepsFutures(r)
    BY <1>1, FuturesKept, NotAwaiting DEF DispatchInv, Typed
  <1>4. <<f>> \in Seq(Frames) /\ <<f>> # <<>> /\ Top(<<f>>) = f
    BY DEF Top
  <1> QED
    BY <1>1, <1>2, <1>3, <1>4, CascadeStep

LEMMA SendChatStep ==
  ASSUME DispatchInv, NEW c \in Requests, NEW x \in Agents, SendChatMessage(c, x)
  PROVE  DispatchInv'
  <1>1. [depth |-> 0, todo |-> {x}, cur |-> NoTask] \in Frames
    BY LoopAssumption DEF Frames
  <1>2. PICK f \in Frames : f = [depth |-> 0, todo |-> {x}, cur |-> NoTask]
    BY <1>1
  <1>3. inbound' \in 0..MaxInbound
    BY DEF SendChatMessage, DispatchInv, Typed, TypeOK
  <1> QED
    BY <1>2, <1>3, RequestStarts DEF SendChatMessage

LEMMA InboundNoLoopStep ==
  ASSUME DispatchInv, NEW c \in Requests, NEW x \in Agents, InboundNoLoop(x, c)
  PROVE  DispatchInv'
  <1>1. 0 < MaxCascadeDepth /\ x # NoTask
    BY LoopAssumption DEF InboundNoLoop, TooDeep
  <1>2. [depth |-> 0, todo |-> {}, cur |-> x] \in Frames
    BY <1>1, LoopAssumption DEF Frames
  <1>3. PICK f \in Frames : f = [depth |-> 0, todo |-> {}, cur |-> x] /\ f.cur # NoTask
    BY <1>1, <1>2
  <1>4. inbound' \in 0..MaxInbound
    <2>1. inbound \in 0..MaxInbound /\ inbound < MaxInbound /\ MaxInbound \in Nat
      BY LoopAssumption DEF InboundNoLoop, DispatchInv, Typed, TypeOK
    <2> QED
      BY <2>1 DEF InboundNoLoop
  <1> QED
    BY <1>3, <1>4, RequestStarts DEF InboundNoLoop

LEMMA AcquireStep ==
  ASSUME DispatchInv, NEW t \in Tasks, Acquire(t)
  PROVE  DispatchInv'
  <1>1. /\ pc[t] = "lock" /\ lock[Asked(t)] = NoTask /\ lock' = [lock EXCEPT ![Asked(t)] = t]
        /\ pc' = [pc EXCEPT ![t] = "decide"]
        /\ UNCHANGED <<hosted, loopVars, queue, idle, wake, stack, awaiting, handle, reply, inbound>>
    BY DEF Acquire
  <1>2. Asked(t) \in Agents
    BY <1>1, AskedFacts
  <1>3. Typed'
    BY <1>1, <1>2 DEF DispatchInv, Typed, TypeOK, loopVars
  <1>4. pc'[t] = "decide" /\ \A u \in Tasks : u # t => pc'[u] = pc[u]
    BY <1>1 DEF DispatchInv, Typed, TypeOK
  <1>5. LoopInv'
    <2>1. ASSUME NEW a \in Agents
          PROVE LoopShape(phase'[a], stopped'[a], timers'[a], queue'[a], pc'[a], wake'[a], stack'[a])
      <3>1. LoopShape(phase[a], stopped[a], timers[a], queue[a], pc[a], wake[a], stack[a])
        BY DEF DispatchInv, LoopInv
      <3>2. CASE a = t
        BY <1>1, <1>4, <3>1, <3>2 DEF LoopShape, loopVars
      <3>3. CASE a # t
        BY <1>1, <1>4, <3>1, <3>3, TaskFacts DEF loopVars
      <3> QED
        BY <3>2, <3>3
    <2> QED
      BY <2>1 DEF LoopInv, LoopShape
  <1>6. TaskInv'
    <2>1. \A u \in Tasks : AskShape(pc'[u], stack[u])
      BY <1>1, <1>4 DEF DispatchInv, TaskInv, AskShape
    <2>2. \A r \in Requests : RequestShape(pc'[r], stack[r])
      BY <1>1, <1>4, TaskFacts DEF DispatchInv, TaskInv, RequestShape
    <2>3. \A h \in Handles : pc'[h] \in {"none", "spawned", "lock", "decide"} /\ stack[h] = <<>>
      BY <1>1, <1>4, TaskFacts DEF DispatchInv, TaskInv
    <2> QED
      BY <1>1, <2>1, <2>2, <2>3 DEF TaskInv, AskShape, RequestShape, Top
  <1>7. \A h \in Handles : pc'[h] = "none" <=> pc[h] = "none"
    BY <1>1, <1>4, TaskFacts
  <1>8. ResolverInv' /\ OneResolver' /\ PendingInv'
    <2>1. ResolverInv'
      BY <1>1, <1>7 DEF DispatchInv, ResolverInv, loopVars
    <2>2. OneResolver'
      BY <1>1, <1>7 DEF DispatchInv, OneResolver, Carries, Queued
    <2>3. PendingInv'
      BY <1>1, <1>7 DEF DispatchInv, PendingInv, Pending, Held, Carries, Queued, loopVars
    <2> QED
      BY <2>1, <2>2, <2>3
  <1>9. AwaitInv'
    <2>1. \A u \in Tasks : awaiting[u] \in Handles \cup {0}
      BY DEF DispatchInv, Typed, TypeOK
    <2>2. \A u \in Tasks : pc'[u] = "await" <=> awaiting[u] # 0
      BY <1>1, <1>4 DEF DispatchInv, AwaitInv
    <2>3. \A u \in Tasks : awaiting[u] # 0 /\ ~Pending(awaiting[u]) => pc'[awaiting[u]] = "none"
      BY <1>7, <2>1 DEF DispatchInv, AwaitInv
    <2> QED
      BY <1>1, <2>2, <2>3 DEF DispatchInv, AwaitInv, Pending
  <1>10. SelfInv'
    BY <1>1 DEF DispatchInv, SelfInv, Queued, Carries
  <1>11. LockIsNotLeaked'
    <2>1. ASSUME NEW a \in Agents, NEW u \in Tasks
          PROVE lock'[a] = u <=> pc'[u] = "decide" /\ Asked(u)' = a
      <3>1. lock[a] = u <=> pc[u] = "decide" /\ Asked(u) = a
        BY DEF DispatchInv, LockIsNotLeaked
      <3>2. Asked(u)' = Asked(u)
        BY <1>1 DEF Asked, Top
      <3>3. lock'[a] = IF a = Asked(t) THEN t ELSE lock[a]
        BY <1>1, <1>2 DEF DispatchInv, Typed, TypeOK
      <3>4. u # NoTask
        BY TaskFacts
      <3> QED
        BY <1>1, <1>4, <3>1, <3>2, <3>3, <3>4
    <2> QED
      BY <2>1 DEF LockIsNotLeaked
  <1> QED
    BY <1>3, <1>5, <1>6, <1>8, <1>9, <1>10, <1>11 DEF DispatchInv

\* A resolver takes its first step: nothing but its place changes.
LEMMA StartResolverStep ==
  ASSUME DispatchInv, NEW t \in Handles, StartResolver(t)
  PROVE  DispatchInv'
  <1>1. /\ pc[t] = "spawned" /\ pc' = [pc EXCEPT ![t] = "lock"]
        /\ UNCHANGED <<hosted, loopVars, queue, idle, lock, wake, stack, awaiting, handle, reply, inbound>>
    BY DEF StartResolver
  <1>2. t \in Tasks /\ t \notin Agents /\ t \notin Requests /\ stack[t] = <<>>
    BY TaskFacts DEF DispatchInv, TaskInv
  <1>3. Typed'
    BY <1>1 DEF DispatchInv, Typed, TypeOK, loopVars
  <1>4. pc'[t] = "lock" /\ \A u \in Tasks : u # t => pc'[u] = pc[u]
    BY <1>1, <1>2 DEF DispatchInv, Typed, TypeOK
  <1>5. LoopInv'
    <2>1. \A a \in Agents : pc'[a] = pc[a]
      BY <1>2, <1>4, TaskFacts
    <2> QED
      BY <1>1, <2>1 DEF DispatchInv, LoopInv, LoopShape, loopVars
  <1>6. TaskInv'
    <2>1. \A u \in Tasks : AskShape(pc'[u], stack[u])
      BY <1>2, <1>4 DEF DispatchInv, TaskInv, AskShape
    <2>2. \A r \in Requests : RequestShape(pc'[r], stack[r])
      BY <1>2, <1>4, TaskFacts DEF DispatchInv, TaskInv, RequestShape
    <2>3. \A h \in Handles : pc'[h] \in {"none", "spawned", "lock", "decide"} /\ stack[h] = <<>>
      BY <1>4, TaskFacts DEF DispatchInv, TaskInv
    <2> QED
      BY <1>1, <2>1, <2>2, <2>3 DEF TaskInv, AskShape, RequestShape, Top
  <1>7. \A h \in Handles : pc'[h] = "none" <=> pc[h] = "none"
    BY <1>1, <1>4, TaskFacts
  <1>8. ResolverInv' /\ OneResolver' /\ PendingInv'
    <2>1. ResolverInv'
      BY <1>1, <1>7 DEF DispatchInv, ResolverInv, loopVars
    <2>2. OneResolver'
      BY <1>1, <1>7 DEF DispatchInv, OneResolver, Carries, Queued
    <2>3. PendingInv'
      BY <1>1, <1>7 DEF DispatchInv, PendingInv, Pending, Held, Carries, Queued, loopVars
    <2> QED
      BY <2>1, <2>2, <2>3
  <1>9. AwaitInv'
    <2>1. \A u \in Tasks : awaiting[u] \in Handles \cup {0}
      BY DEF DispatchInv, Typed, TypeOK
    <2>2. \A u \in Tasks : pc'[u] = "await" <=> awaiting[u] # 0
      BY <1>1, <1>4 DEF DispatchInv, AwaitInv
    <2>3. \A u \in Tasks : awaiting[u] # 0 /\ ~Pending(awaiting[u]) => pc'[awaiting[u]] = "none"
      BY <1>7, <2>1 DEF DispatchInv, AwaitInv
    <2> QED
      BY <1>1, <2>2, <2>3 DEF DispatchInv, AwaitInv, Pending
  <1>10. SelfInv'
    BY <1>1 DEF DispatchInv, SelfInv, Queued, Carries
  <1>11. LockIsNotLeaked'
    <2>1. \A u \in Tasks : pc'[u] = "decide" <=> pc[u] = "decide"
      BY <1>1, <1>4
    <2>2. \A u \in Tasks : Asked(u)' = Asked(u)
      BY <1>1 DEF Asked, Top
    <2> QED
      BY <1>1, <2>1, <2>2 DEF DispatchInv, LockIsNotLeaked
  <1> QED
    BY <1>3, <1>5, <1>6, <1>8, <1>9, <1>10, <1>11 DEF DispatchInv

-----------------------------------------------------------------------------
(* A dispatch that waits: a fresh handle, its one resolver, its one waiter.*)

\* Nothing refers to a free handle.
LEMMA FreshHandle ==
  ASSUME DispatchInv, NEW h \in FreeHandles
  PROVE  /\ h \in Handles /\ pc[h] = "none" /\ \A u \in Tasks : awaiting[u] # h
         /\ \A a \in Agents : ~Carries(wake[a], h) /\ ~Queued(queue[a], h)
  BY DEF FreeHandles, Referenced, Carries, Queued

\* Either h gets a detached resolver, or a wake in the queue of x.
Resolves(h, x) ==
  \/ /\ pc'[h] = "spawned"
     /\ \A a \in Agents, k \in Handles : Queued(queue'[a], k) <=> Queued(queue[a], k)
  \/ /\ pc'[h] = "none"
     /\ \A a \in Agents, k \in Handles : Queued(queue'[a], k) <=> Queued(queue[a], k) \/ (a = x /\ k = h)

LEMMA AskStep ==
  ASSUME DispatchInv, NEW t \in Tasks, t \notin Handles, NEW h \in FreeHandles, NEW x \in Agents,
         NEW s \in Seq(Frames), s # <<>>, Top(s).cur = x, pc[t] = "exec", stack[t] # <<>>, phase[x] = "run",
         stack' = [stack EXCEPT ![t] = s], awaiting' = [awaiting EXCEPT ![t] = h],
         handle' = [handle EXCEPT ![h] = [st |-> "pending", acts |-> {}, to |-> x]],
         UNCHANGED <<hosted, loopVars, idle, lock, wake, inbound>>,
         pc'[t] = "await", \A u \in Tasks : u # t /\ u # h => pc'[u] = pc[u],
         \A a \in Agents : a # x => queue'[a] = queue[a],
         Resolves(h, x), t = x /\ WaitInline <=> pc'[h] = "spawned", Typed'
  PROVE  DispatchInv'
  <1>1. /\ h \in Handles /\ pc[h] = "none" /\ \A u \in Tasks : awaiting[u] # h
        /\ \A a \in Agents : ~Carries(wake[a], h) /\ ~Queued(queue[a], h)
    BY FreshHandle
  <1>2. h \in Tasks /\ h # t /\ h # 0
    BY <1>1, TaskFacts
  <1>3. /\ \A u \in Tasks : awaiting'[u] = IF u = t THEN h ELSE awaiting[u]
        /\ \A u \in Tasks : stack'[u] = IF u = t THEN s ELSE stack[u]
        /\ \A u \in Tasks : awaiting[u] \in Handles \cup {0}
    BY DEF DispatchInv, Typed, TypeOK
  <1>4. /\ handle'[h].st = "pending" /\ handle'[h].to = x
        /\ \A k \in Handles : k # h => handle'[k] = handle[k] /\ pc'[k] = pc[k]
    BY <1>1, TaskFacts DEF DispatchInv, Typed
  <1>5. LoopInv'
    <2>1. ASSUME NEW a \in Agents
          PROVE LoopShape(phase'[a], stopped'[a], timers'[a], queue'[a], pc'[a], wake'[a], stack'[a])
      <3>1. LoopShape(phase[a], stopped[a], timers[a], queue[a], pc[a], wake[a], stack[a])
        BY DEF DispatchInv, LoopInv
      <3>2. phase'[a] = phase[a] /\ stopped'[a] = stopped[a] /\ timers'[a] = timers[a] /\ wake'[a] = wake[a]
        BY DEF loopVars
      <3>3. phase[a] = "off" => queue'[a] = queue[a]
        OBVIOUS
      <3>4. CASE a = t
        <4>1. pc'[a] = "await" /\ pc[a] = "exec" /\ stack'[a] = s /\ stack[a] # <<>>
          BY <1>3, <3>4
        <4> QED
          BY <3>1, <3>2, <3>3, <4>1 DEF LoopShape
      <3>5. CASE a # t
        <4>1. pc'[a] = pc[a] /\ stack'[a] = stack[a]
          BY <1>1, <1>3, <3>5, TaskFacts
        <4> QED
          BY <3>1, <3>2, <3>3, <4>1 DEF LoopShape
      <3> QED
        BY <3>4, <3>5
    <2> QED
      BY <2>1 DEF LoopInv, LoopShape
  <1>6. pc'[h] \in {"none", "spawned"} /\ stack[h] = <<>>
    BY <1>1 DEF Resolves, DispatchInv, TaskInv
  <1>7. TaskInv'
    <2>1. \A u \in Tasks : AskShape(pc'[u], stack'[u])
      <3>1. \A u \in Tasks : u # t /\ u # h => AskShape(pc'[u], stack'[u])
        BY <1>3 DEF DispatchInv, TaskInv
      <3>2. AskShape(pc'[t], stack'[t])
        BY <1>3, TaskFacts DEF AskShape
      <3>3. AskShape(pc'[h], stack'[h])
        BY <1>2, <1>3, <1>6 DEF AskShape
      <3> QED
        BY <3>1, <3>2, <3>3
    <2>2. \A r \in Requests : RequestShape(pc'[r], stack'[r])
      <3>1. \A r \in Requests : r \in Tasks /\ r # h
        BY <1>1, TaskFacts
      <3> QED
        BY <1>3, <3>1 DEF DispatchInv, TaskInv, RequestShape
    <2>3. \A k \in Handles : pc'[k] \in {"none", "spawned", "lock", "decide"} /\ stack'[k] = <<>>
      BY <1>3, <1>4, <1>6, TaskFacts DEF DispatchInv, TaskInv
    <2> QED
      BY <2>1, <2>2, <2>3 DEF TaskInv, AskShape, RequestShape, Top
  <1>8. ResolverInv'
    <2>1. \A k \in Handles : pc'[k] # "none" =>
            handle'[k].to \in Agents /\ phase[handle'[k].to] \in {"run", "stop_resolvers"}
      BY <1>4 DEF DispatchInv, ResolverInv
    <2> QED
      BY <2>1 DEF ResolverInv, loopVars
  <1>9. OneResolver'
    <2>1. ASSUME NEW k \in Handles, pc'[k] # "none", NEW a \in Agents
          PROVE ~Carries(wake'[a], k) /\ ~Queued(queue'[a], k)
      <3>1. CASE k = h
        BY <1>1, <2>1, <3>1 DEF Resolves
      <3>2. CASE k # h
        <4>1. ~Carries(wake[a], k) /\ ~Queued(queue[a], k)
          BY <1>4, <2>1, <3>2 DEF DispatchInv, OneResolver
        <4> QED
          BY <3>2, <4>1 DEF Resolves
      <3> QED
        BY <3>1, <3>2
    <2> QED
      BY <2>1 DEF OneResolver, Carries, Queued
  <1>10. PendingInv'
    <2>1. ASSUME NEW k \in Handles, handle'[k].st = "pending"
          PROVE /\ handle'[k].to \in Agents
                /\ \/ Held(k, awaiting'[handle'[k].to], pc'[k], phase'[handle'[k].to])
                   \/ Carries(wake'[handle'[k].to], k) \/ Queued(queue'[handle'[k].to], k)
      <3>1. CASE k = h
        <4>1. CASE pc'[h] = "spawned"
          BY <1>3, <1>4, <3>1, <4>1 DEF Held
        <4>2. CASE pc'[h] # "spawned"
          BY <1>1, <1>4, <3>1, <4>2 DEF Resolves
        <4> QED
          BY <4>1, <4>2
      <3>2. CASE k # h
        <4>1. handle'[k] = handle[k] /\ pc'[k] = pc[k]
          BY <1>4, <3>2
        <4>2. PICK a \in Agents : /\ a = handle[k].to
                                  /\ \/ Held(k, awaiting[a], pc[k], phase[a])
                                     \/ Carries(wake[a], k) \/ Queued(queue[a], k)
          BY <2>1, <4>1 DEF DispatchInv, PendingInv, Pending
        <4>3. Queued(queue[a], k) => Queued(queue'[a], k)
          BY DEF Resolves
        <4>4. a = t => awaiting[a] = 0
          BY DEF DispatchInv, AwaitInv
        <4>5. Held(k, awaiting[a], pc[k], phase[a]) => Held(k, awaiting'[a], pc'[k], phase'[a])
          BY <1>3, <4>1, <4>4, TaskFacts DEF Held, loopVars
        <4> QED
          BY <4>1, <4>2, <4>3, <4>5
      <3> QED
        BY <3>1, <3>2
    <2> QED
      BY <2>1 DEF PendingInv, Pending, Held, Carries, Queued
  <1>11. AwaitInv'
    <2>1. \A u \in Tasks : pc'[u] = "await" <=> awaiting'[u] # 0
      <3>1. pc'[h] # "await" /\ awaiting'[h] = 0
        BY <1>1, <1>2, <1>3, <1>6 DEF DispatchInv, AwaitInv
      <3> QED
        BY <1>2, <1>3, <3>1 DEF DispatchInv, AwaitInv
    <2>2. \A u, v \in Tasks : awaiting'[u] = awaiting'[v] /\ awaiting'[u] # 0 => u = v
      BY <1>1, <1>3 DEF DispatchInv, AwaitInv
    <2>3. ASSUME NEW u \in Tasks, awaiting'[u] # 0, ~(handle'[awaiting'[u]].st = "pending")
          PROVE pc'[awaiting'[u]] = "none"
      <3>1. u # t /\ awaiting'[u] = awaiting[u]
        BY <1>3, <1>4, <2>3
      <3>2. PICK k \in Handles : k = awaiting[u] /\ k # h
        BY <1>1, <1>3, <2>3, <3>1
      <3>3. handle'[k] = handle[k] /\ pc'[k] = pc[k]
        BY <1>4, <3>2
      <3> QED
        BY <2>3, <3>1, <3>2, <3>3 DEF DispatchInv, AwaitInv, Pending
    <2> QED
      BY <2>1, <2>2, <2>3 DEF AwaitInv, Pending
  <1>12. SelfInv'
    <2>1. ASSUME WaitInline, NEW a \in Agents, awaiting'[a] # 0 PROVE ~Queued(queue'[a], awaiting'[a])
      <3>1. CASE a = t
        <4>1. awaiting'[a] = h /\ ~Queued(queue[a], h)
          BY <1>1, <1>3, <3>1
        <4> QED
          BY <1>1, <2>1, <3>1, <4>1 DEF Resolves
      <3>2. CASE a # t
        <4>1. a \in Tasks /\ awaiting'[a] = awaiting[a]
          BY <1>3, <3>2, TaskFacts
        <4>2. PICK k \in Handles : k = awaiting[a] /\ k # h
          BY <1>1, <1>3, <2>1, <4>1
        <4>3. ~Queued(queue[a], k)
          BY <2>1, <4>1, <4>2 DEF DispatchInv, SelfInv
        <4> QED
          BY <4>1, <4>2, <4>3 DEF Resolves
      <3> QED
        BY <3>1, <3>2
    <2> QED
      BY <2>1 DEF SelfInv, Queued, Carries
  <1>13. LockIsNotLeaked'
    <2>1. ASSUME NEW a \in Agents, NEW u \in Tasks
          PROVE lock'[a] = u <=> pc'[u] = "decide" /\ Asked(u)' = a
      <3>1. lock[a] = u <=> pc[u] = "decide" /\ Asked(u) = a
        BY DEF DispatchInv, LockIsNotLeaked
      <3>2. CASE u = t \/ u = h
        BY <1>1, <1>6, <3>1, <3>2
      <3>3. CASE u # t /\ u # h
        <4>1. pc'[u] = pc[u] /\ stack'[u] = stack[u]
          BY <1>3, <3>3
        <4>2. Asked(u)' = Asked(u)
          BY <1>4, <3>3, <4>1 DEF Asked, Top
        <4> QED
          BY <3>1, <4>1, <4>2
      <3> QED
        BY <3>2, <3>3
    <2> QED
      BY <2>1 DEF LockIsNotLeaked
  <1> QED
    BY <1>5, <1>7, <1>8, <1>9, <1>10, <1>11, <1>12, <1>13 DEF DispatchInv

LEMMA DispatchStep ==
  ASSUME DispatchInv, NEW t \in Tasks, NEW x \in Agents, Dispatch(t, x)
  PROVE  DispatchInv'
  <1>1. /\ pc[t] = "exec" /\ stack[t] # <<>>
        /\ UNCHANGED <<hosted, loopVars, idle, lock, wake, reply, inbound>>
    BY DEF Dispatch
  <1>2. t \notin Handles
    BY <1>1 DEF DispatchInv, TaskInv
  <1>3. /\ stack[t] \in Seq(Frames) /\ (t \in Agents => pc[t] # "none" /\ wake[t].kind = "inbound")
        /\ awaiting = [awaiting EXCEPT ![t] = 0] /\ inbound \in 0..MaxInbound /\ handle \in [Handles -> Futures]
    BY <1>1, <1>2, CascadeFacts
  <1>4. lock' = LocksAfter(t) /\ (UNCHANGED handle => KeepsFutures(t))
    BY <1>1, LockFacts, FuturesKept, NotAwaiting
  <1>5. CASE /\ stack' = [stack EXCEPT ![t][Len(stack[t])].todo = @ \ {x}]
             /\ UNCHANGED <<queue, awaiting, handle, pc>>
    <2>1. PICK s : s = [stack[t] EXCEPT ![Len(stack[t])].todo = @ \ {x}]
      OBVIOUS
    <2>2. s \in Seq(Frames) /\ s # <<>>
      BY <1>1, <1>3, <2>1, FrameFacts, FrameTaken, SMTT(30)
    <2>3. stack' = [stack EXCEPT ![t] = s] /\ pc' = [pc EXCEPT ![t] = "exec"]
      BY <1>1, <1>5, <2>1 DEF DispatchInv, Typed, TypeOK
    <2> QED
      BY <1>1, <1>2, <1>3, <1>4, <1>5, <2>2, <2>3, CascadeStep
  <1>6. PICK s : s = [stack[t] EXCEPT ![Len(stack[t])].todo = @ \ {x}, ![Len(stack[t])].cur = x]
    OBVIOUS
  <1>7. PICK asking : asking = [stack EXCEPT ![t][Len(stack[t])].todo = @ \ {x}, ![t][Len(stack[t])].cur = x]
    OBVIOUS
  <1>8. asking = [stack EXCEPT ![t] = s]
    BY <1>6, <1>7 DEF DispatchInv, Typed
  <1>9. ~TooDeep(Top(stack[t]).depth) => s \in Seq(Frames) /\ s # <<>> /\ Top(s).cur = x
    <2>1. ~TooDeep(Top(stack[t]).depth) => Top(stack[t]).depth < MaxCascadeDepth
      <3>1. Top(stack[t]).depth \in Nat /\ MaxCascadeDepth \in Nat
        BY <1>1, <1>3, FrameFacts, LoopAssumption
      <3> QED
        BY <3>1 DEF TooDeep
    <2> QED
      BY <1>1, <1>3, <1>6, <2>1, FrameAsking
  <1>10. CASE /\ ~TooDeep(Top(stack[t]).depth) /\ stack' = asking
              /\ pc' = [pc EXCEPT ![t] = "lock"] /\ UNCHANGED <<queue, awaiting, handle>>
    <2>1. x # NoTask
      BY LoopAssumption
    <2> QED
      BY <1>1, <1>2, <1>3, <1>4, <1>8, <1>9, <1>10, <2>1, CascadeStep
  <1>11. CASE /\ ~TooDeep(Top(stack[t]).depth) /\ Running(x) /\ ~stopped[x] /\ FreeHandles # {}
              /\ \/ /\ InSupervisor(t, x) /\ pc' = [pc EXCEPT ![t] = "await", ![NewHandle] = "spawned"] /\ UNCHANGED queue
                 \/ /\ ~InSupervisor(t, x) /\ ~Full(x) /\ pc' = [pc EXCEPT ![t] = "await"]
                    /\ queue' = [queue EXCEPT ![x] = Append(@, [kind |-> "sync", h |-> NewHandle])]
              /\ stack' = asking /\ awaiting' = [awaiting EXCEPT ![t] = NewHandle]
              /\ handle' = [handle EXCEPT ![NewHandle] = [st |-> "pending", acts |-> {}, to |-> x]]
    <2>1. PICK h \in FreeHandles : h = NewHandle
      BY <1>11 DEF NewHandle
    <2>2. h \in Handles /\ h \in Tasks /\ h # t /\ pc[h] = "none" /\ \A a \in Agents : ~Queued(queue[a], h)
      BY <1>2, <2>1, FreshHandle, TaskFacts
    <2>3. phase[x] = "run"
      <3>1. LoopShape(phase[x], stopped[x], timers[x], queue[x], pc[x], wake[x], stack[x])
        BY DEF DispatchInv, LoopInv
      <3> QED
        BY <1>11, <3>1 DEF LoopShape, Running
    <2>4. PICK f \in Futures : f = [st |-> "pending", acts |-> {}, to |-> x]
      <3>1. [st |-> "pending", acts |-> {}, to |-> x] \in Futures
        BY DEF Futures
      <3> QED
        BY <3>1
    <2>5. handle' = [handle EXCEPT ![h] = f] /\ handle' \in [Handles -> Futures]
      BY <1>3, <1>11, <2>1, <2>2, <2>4
    <2>6. queue \in [Agents -> Seq(Wakes)] /\ (\A a \in Agents : Len(queue[a]) <= QueueSize) /\ QueueSize \in Nat
      BY LoopAssumption DEF DispatchInv, Typed, TypeOK
    <2>7. pc \in [Tasks -> {"none", "top", "get", "spawned", "lock", "decide", "exec", "await", "exited", "done"}]
      BY DEF DispatchInv, Typed, TypeOK
    <2>8. ASSUME queue' \in [Agents -> Seq(Wakes)], \A a \in Agents : Len(queue'[a]) <= QueueSize,
                 pc' \in [Tasks -> {"none", "top", "get", "spawned", "lock", "decide", "exec", "await", "exited", "done"}]
          PROVE Typed'
      BY <1>1, <1>8, <1>9, <1>11, <2>1, <2>2, <2>5, <2>8, FutureTypes DEF DispatchInv, Typed, TypeOK, loopVars
    <2>9. ASSUME pc'[t] = "await", \A u \in Tasks : u # t /\ u # h => pc'[u] = pc[u],
                 \A a \in Agents : a # x => queue'[a] = queue[a],
                 Resolves(h, x), t = x /\ WaitInline <=> pc'[h] = "spawned", Typed'
          PROVE DispatchInv'
      BY <1>1, <1>2, <1>8, <1>9, <1>11, <2>1, <2>3, <2>9, AskStep
    <2>10. CASE InSupervisor(t, x) /\ pc' = [pc EXCEPT ![t] = "await", ![NewHandle] = "spawned"] /\ UNCHANGED queue
      <3>1. /\ pc' \in [Tasks -> {"none", "top", "get", "spawned", "lock", "decide", "exec", "await", "exited", "done"}]
            /\ pc'[t] = "await" /\ pc'[h] = "spawned" /\ \A u \in Tasks : u # t /\ u # h => pc'[u] = pc[u]
        BY <2>1, <2>2, <2>7, <2>10
      <3>2. Typed'
        BY <2>6, <2>8, <2>10, <3>1
      <3>3. Resolves(h, x)
        BY <2>10, <3>1 DEF Resolves
      <3> QED
        BY <2>9, <2>10, <3>1, <3>2, <3>3 DEF InSupervisor
    <2>11. CASE /\ ~InSupervisor(t, x) /\ ~Full(x) /\ pc' = [pc EXCEPT ![t] = "await"]
                /\ queue' = [queue EXCEPT ![x] = Append(@, [kind |-> "sync", h |-> NewHandle])]
      <3>1. /\ pc' \in [Tasks -> {"none", "top", "get", "spawned", "lock", "decide", "exec", "await", "exited", "done"}]
            /\ pc'[t] = "await" /\ pc'[h] = "none" /\ \A u \in Tasks : u # t /\ u # h => pc'[u] = pc[u]
        BY <2>2, <2>7, <2>11
      <3>2. PICK w \in Wakes : w = [kind |-> "sync", h |-> h]
        BY <2>2, WakeFacts
      <3>3. PICK q \in Seq(Wakes) : q = Append(queue[x], w)
        <4>1. Append(queue[x], w) \in Seq(Wakes)
          BY <2>6, QueuedAppend
        <4> QED
          BY <4>1
      <3>4. queue' = [queue EXCEPT ![x] = q]
        BY <2>1, <2>11, <3>2, <3>3
      <3>5. Len(q) = Len(queue[x]) + 1 /\ \A k \in Handles : Queued(q, k) <=> Queued(queue[x], k) \/ k = h
        <4>1. \A k \in Handles : Carries(w, k) <=> k = h
          BY <3>2 DEF Carries
        <4> QED
          BY <2>6, <3>3, <4>1, QueuedAppend
      <3>6. Len(q) <= QueueSize
        BY <2>6, <2>11, <3>5 DEF Full
      <3>7. /\ queue' \in [Agents -> Seq(Wakes)] /\ \A a \in Agents : Len(queue'[a]) <= QueueSize
            /\ \A a \in Agents : a # x => queue'[a] = queue[a]
            /\ queue'[x] = q
        BY <2>6, <3>4, <3>6
      <3>8. Typed'
        BY <2>8, <3>1, <3>7
      <3>9. Resolves(h, x)
        BY <3>1, <3>5, <3>7 DEF Resolves
      <3> QED
        BY <2>9, <2>11, <3>1, <3>7, <3>8, <3>9 DEF InSupervisor
    <2> QED
      BY <1>11, <2>10, <2>11
  <1> QED
    BY <1>5, <1>7, <1>10, <1>11 DEF Dispatch

-----------------------------------------------------------------------------
(* The theorems. *)

LEMMA InitHolds == Init => DispatchInv
  <1> SUFFICES ASSUME Init PROVE DispatchInv
    OBVIOUS
  <1>1. <<>> \in Seq(Wakes) /\ <<>> \in Seq(Frames) /\ Len(<<>>) = 0
    OBVIOUS
  <1>2. NoFuture \in Futures /\ NoFuture.st = "free"
    BY DEF NoFuture, Futures
  <1>3. Typed
    <2>1. handle \in [Handles -> Futures]
      BY <1>2 DEF Init
    <2>2. TypeOK
      <3>1. /\ \A h \in Handles : /\ handle[h].st \in Settled \cup {"free", "pending"} /\ handle[h].acts \in SUBSET Agents
                                   /\ handle[h].to \in Agents \cup {NoTask}
        BY <2>1, FutureTypes
      <3>2. /\ 0 \in 0..MaxStarts /\ 0 \in 0..IdleAfter /\ 0 \in 0..MaxInbound /\ 0 <= QueueSize
        BY LoopAssumption
      <3>3. \A a \in Agents : Len(queue[a]) <= QueueSize
        BY <1>1, <3>2 DEF Init
      <3>4. starts \in [Agents -> 0..MaxStarts] /\ idle \in [Agents -> 0..IdleAfter] /\ inbound \in 0..MaxInbound
        BY <3>2 DEF Init
      <3>5. hosted \subseteq Agents /\ lock \in [Agents -> Tasks \cup {NoTask}] /\ awaiting \in [Tasks -> Handles \cup {0}]
        BY DEF Init
      <3> QED
        BY <3>1, <3>3, <3>4, <3>5 DEF Init, TypeOK
    <2> QED
      BY <1>1, <2>1, <2>2, WakeFacts DEF Init, Typed
  <1>4. LoopInv
    BY WakeFacts, TaskFacts DEF Init, LoopInv, LoopShape
  <1>5. TaskInv
    BY TaskFacts DEF Init, TaskInv, AskShape, RequestShape
  <1>6. ResolverInv /\ OneResolver
    BY TaskFacts DEF Init, ResolverInv, OneResolver
  <1>7. PendingInv /\ AwaitInv
    BY <1>2, TaskFacts DEF Init, PendingInv, AwaitInv, Pending
  <1>8. SelfInv /\ LockIsNotLeaked
    BY TaskFacts DEF Init, SelfInv, LockIsNotLeaked
  <1> QED
    BY <1>3, <1>4, <1>5, <1>6, <1>7, <1>8 DEF DispatchInv

LEMMA StutterKeeps ==
  ASSUME DispatchInv, UNCHANGED vars
  PROVE  DispatchInv'
  <1>1. Typed'
    BY DEF vars, DispatchInv, Typed, TypeOK
  <1>2. LoopInv' /\ TaskInv' /\ ResolverInv'
    BY DEF vars, DispatchInv, LoopInv, LoopShape, TaskInv, AskShape, RequestShape, Top, ResolverInv
  <1>3. OneResolver' /\ PendingInv'
    BY DEF vars, DispatchInv, OneResolver, PendingInv, Pending, Held, Carries, Queued
  <1>4. AwaitInv' /\ SelfInv'
    BY DEF vars, DispatchInv, AwaitInv, SelfInv, Pending, Carries, Queued
  <1>5. LockIsNotLeaked'
    BY DEF vars, DispatchInv, LockIsNotLeaked, Asked, Top
  <1> QED
    BY <1>1, <1>2, <1>3, <1>4, <1>5 DEF DispatchInv

LEMMA NextKeeps ==
  ASSUME DispatchInv, Next
  PROVE  DispatchInv'
  <1>1. CASE Lifecycle
    BY <1>1, StartStep, StopBeginStep, StopPoisonStep, StopTimeoutStep, SupervisorCancelledStep, StopFinishStep,
       StopResolverStep DEF Lifecycle
  <1>2. CASE Producers
    BY <1>2, MemoryWriteStep, TimerFireStep, ReceiveStep, SendChatStep, InboundNoLoopStep DEF Producers
  <1>3. CASE Supervisors
    BY <1>3, LoopTopStep, TakeWakeStep, TickStep DEF Supervisors
  <1>4. CASE Executors
    BY <1>4, StartResolverStep, AcquireStep, DecideFailsStep, UnwindStep, HandleReturnsStep, DecideStep, DispatchStep
    DEF Executors
  <1>5. CASE Timeouts
    BY <1>5, DispatchTimeoutStep DEF Timeouts
  <1> QED
    BY <1>1, <1>2, <1>3, <1>4, <1>5 DEF Next

\* Every handle has one waiter and one resolver, in a loop that is up, through
\* every interleaving of dispatches, timeouts, failures and stop(): the
\* inductive invariant of EventLoop, ActionExecutor and stop() together.
THEOREM DispatchInvariant == Spec => []DispatchInv
  <1>1. Init => DispatchInv
    BY InitHolds
  <1>2. DispatchInv /\ [Next]_vars => DispatchInv'
    BY NextKeeps, StutterKeeps
  <1> QED
    BY <1>1, <1>2, PTL DEF Spec

LEMMA NoOrphans == DispatchInv => NoOrphanHandle
  <1> SUFFICES ASSUME DispatchInv, NEW t \in Tasks, pc[t] = "await", Pending(awaiting[t]), NEW h, h = awaiting[t]
               PROVE \/ pc[h] # "none"
                     \/ t = handle[h].to /\ phase[t] \notin {"off", "run"}
                     \/ \E a \in Agents :
                          /\ phase[a] # "off"
                          /\ \/ wake[a].kind = "sync" /\ wake[a].h = h /\ pc[a] # "exited"
                             \/ \E i \in 1..Len(queue[a]) : queue[a][i].kind = "sync" /\ queue[a][i].h = h
    BY DEF NoOrphanHandle
  <1>1. h \in Handles /\ Pending(h)
    BY DEF DispatchInv, Typed, TypeOK, AwaitInv
  <1>2. PICK a \in Agents : /\ a = handle[h].to
                            /\ Held(h, awaiting[a], pc[h], phase[a]) \/ Carries(wake[a], h) \/ Queued(queue[a], h)
    BY <1>1 DEF DispatchInv, PendingInv
  <1>3. LoopShape(phase[a], stopped[a], timers[a], queue[a], pc[a], wake[a], stack[a])
    BY DEF DispatchInv, LoopInv
  <1>4. CASE Carries(wake[a], h)
    BY <1>3, <1>4 DEF LoopShape, Carries
  <1>5. CASE Queued(queue[a], h)
    <2>1. queue[a] # <<>>
      BY <1>5, QueuedNone
    <2>2. phase[a] # "off"
      BY <1>3, <2>1 DEF LoopShape
    <2> QED
      BY <1>5, <2>2 DEF Queued, Carries
  <1>6. CASE Held(h, awaiting[a], pc[h], phase[a])
    <2>1. awaiting[a] = h /\ h # 0 /\ a \in Tasks
      BY <1>1, <1>6, TaskFacts DEF Held
    <2>2. a = t
      BY <2>1 DEF DispatchInv, AwaitInv
    <2> QED
      BY <1>2, <1>6, <2>2 DEF Held
  <1> QED
    BY <1>2, <1>4, <1>5, <1>6

LEMMA CascadesBounded == DispatchInv => CascadeIsBounded
  <1> SUFFICES ASSUME DispatchInv, NEW t \in Tasks, NEW k \in 1..Len(stack[t])
               PROVE /\ stack[t][k].depth <= MaxCascadeDepth
                     /\ stack[t][k].cur # NoTask => stack[t][k].depth < MaxCascadeDepth
    BY DEF CascadeIsBounded
  <1>1. stack[t] \in Seq(Frames)
    BY DEF DispatchInv, Typed
  <1>2. stack[t][k] \in Frames
    BY <1>1
  <1> QED
    BY <1>2, LoopAssumption DEF Frames

\* Nobody waits for something nobody will do, no lock outlives its turn and no
\* cascade passes the ceiling, for every number of agents, requests and
\* handles and every queue size.  What depends on how asyncio.wait_for runs
\* the dispatch is only that no supervisor waits for its own queue.
THEOREM DispatchAlwaysSound == Spec => []DispatchIsSound
  <1>1. DispatchInv => (WaitInline => NoSelfWait)
    BY DEF DispatchInv, SelfInv, NoSelfWait, AwaitInv, Queued, Carries, Tasks
  <1>2. DispatchInv => DispatchIsSound
    BY <1>1, NoOrphans, CascadesBounded DEF DispatchIsSound, DispatchInv, Typed
  <1> QED
    BY <1>2, DispatchInvariant, PTL

\* When stop() has returned the loop holds no wake, runs no resolver and owes
\* nobody a handle, whatever it interrupted.
THEOREM StoppedLoopsAreSettled == Spec => []StoppedLoopIsSettled
  <1>1. ASSUME DispatchInv, NEW a \in Agents, phase[a] = "off"
        PROVE /\ queue[a] = <<>> /\ pc[a] = "none" /\ Resolvers(a) = {}
              /\ \A h \in Handles : handle[h].to = a => ~Pending(h)
    <2>1. LoopShape(phase[a], stopped[a], timers[a], queue[a], pc[a], wake[a], stack[a])
      BY <1>1 DEF DispatchInv, LoopInv
    <2>2. queue[a] = <<>> /\ pc[a] = "none" /\ wake[a].kind = "none"
      BY <1>1, <2>1 DEF LoopShape
    <2>3. \A h \in Handles : handle[h].to = a => pc[h] = "none"
      BY <1>1 DEF DispatchInv, ResolverInv
    <2>4. \A h \in Handles : ~Carries(wake[a], h) /\ ~Queued(queue[a], h)
      BY <2>2, QueuedNone DEF Carries
    <2>5. \A h \in Handles : handle[h].to = a => ~Pending(h)
      BY <1>1, <2>3, <2>4 DEF DispatchInv, PendingInv, Held
    <2> QED
      BY <2>2, <2>3, <2>5 DEF Resolvers
  <1>2. DispatchInv => StoppedLoopIsSettled
    BY <1>1 DEF StoppedLoopIsSettled
  <1> QED
    BY <1>2, DispatchInvariant, PTL
=============================================================================
