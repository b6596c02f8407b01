----------------------------- MODULE LogShipper -----------------------------
(***************************************************************************)
(* How a record an agent logs reaches the orchestrator                     *)
(* (agents/observability/log_shipper.py and the last step of the processor *)
(* chain in logging.py): a bounded queue any thread appends to, one task   *)
(* that keeps a stream open and drains the queue into it, and a stop that  *)
(* gives the task a limited time.  Records are numbered in the order they  *)
(* are logged.  The shipper logs its own stream errors, so they are        *)
(* records too.                                                            *)
(***************************************************************************)
EXTENDS Integers, Sequences, FiniteSets, SequencesExt, FiniteSetsExt

CONSTANTS
    MaxQueue,      \* records the queue holds
    BatchMax,      \* records one batch holds
    BackoffCap,    \* longest wait before a reconnect
    MaxRecords     \* bound: records logged

ASSUME ShipperAssumption == MaxQueue \in Nat \ {0} /\ BatchMax \in Nat \ {0} /\ BackoffCap \in Nat \ {0}

VARIABLES
    queue,     \* records waiting
    hand,      \* the batch taken for the write under way
    wire,      \* records written to the open stream that have not arrived
    arrived,   \* records the orchestrator has, in the order it took them
    lost,      \* records that went down with a stream
    count,     \* [logged, dropped, shipped, acked] counters
    drain,     \* where the drain task is
    wake,      \* the event that ends its wait, and a set posted by another thread
    backoff,   \* the next wait before a reconnect
    stopping,  \* "no", "asked", "cancelled", "done"
    broken     \* some stream has failed, or the stop ran out of time
shipVars == <<queue, hand, wire, arrived, lost, count, drain, wake, backoff, stopping, broken>>

ShipperInit ==
    /\ queue = <<>> /\ hand = <<>> /\ wire = <<>> /\ arrived = <<>> /\ lost = {}
    /\ count = [logged |-> 0, dropped |-> 0, shipped |-> 0, acked |-> 0]
    /\ drain = "off" /\ wake = [set |-> FALSE, posted |-> FALSE]
    /\ backoff = 1 /\ stopping = "no" /\ broken = FALSE

-----------------------------------------------------------------------------
(* A full queue gives up its oldest record, and counts it. *)
Pushed(q, r) == Append(IF Len(q) >= MaxQueue THEN Tail(q) ELSE q, r)
Enqueue ==
    /\ queue' = Pushed(queue, count.logged + 1)
    /\ count' = [count EXCEPT !.logged = @ + 1, !.dropped = @ + (IF Len(queue) >= MaxQueue THEN 1 ELSE 0)]

(* The chain hands a record to the active shipper, which is there from the start of the task to *)
(* the end of the stop.  Another thread posts the wake to the loop.                             *)
Active == drain # "off" /\ stopping # "done"
ShipToOrchestrator(thread) ==
    /\ Active /\ count.logged < MaxRecords
    /\ Enqueue
    /\ wake' = IF thread = "loop" THEN [wake EXCEPT !.set = TRUE] ELSE [wake EXCEPT !.posted = TRUE]
    /\ UNCHANGED <<hand, wire, arrived, lost, drain, backoff, stopping, broken>>
PostedWake ==
    /\ wake.posted /\ wake' = [set |-> TRUE, posted |-> FALSE]
    /\ UNCHANGED <<queue, hand, wire, arrived, lost, count, drain, backoff, stopping, broken>>

StartShipper ==
    /\ drain = "off" /\ stopping = "no"
    /\ drain' = "top"
    /\ UNCHANGED <<queue, hand, wire, arrived, lost, count, wake, backoff, stopping, broken>>

-----------------------------------------------------------------------------
(* The drain task.  It ends when it is told to stop and finds the queue empty. *)
MayEnd == stopping # "no" /\ queue = <<>>
Run ==
    /\ drain = "top"
    /\ drain' = IF MayEnd THEN "ended" ELSE "fetch"
    /\ UNCHANGED <<queue, hand, wire, arrived, lost, count, wake, backoff, stopping, broken>>

Batch == Min({BatchMax, Len(queue)})
RequestIter ==
    /\ drain = "fetch"
    /\ \/ /\ queue # <<>>
          /\ hand' = SubSeq(queue, 1, Batch) /\ queue' = SubSeq(queue, Batch + 1, Len(queue))
          /\ drain' = "write" /\ UNCHANGED wake
       \/ /\ queue = <<>> /\ stopping # "no"
          /\ drain' = "close" /\ UNCHANGED <<queue, hand, wake>>
       \/ /\ queue = <<>> /\ stopping = "no"
          /\ drain' = "wait" /\ wake' = [wake EXCEPT !.set = FALSE] /\ UNCHANGED <<queue, hand>>
    /\ UNCHANGED <<wire, arrived, lost, count, backoff, stopping, broken>>
WaitEnds ==   \* by the wake, or by the flush interval
    /\ drain = "wait" /\ drain' = "fetch"
    /\ UNCHANGED <<queue, hand, wire, arrived, lost, count, wake, backoff, stopping, broken>>
Write ==
    /\ drain = "write"
    /\ wire' = wire \o hand /\ hand' = <<>> /\ drain' = "fetch"
    /\ count' = [count EXCEPT !.shipped = @ + Len(hand)]
    /\ UNCHANGED <<queue, arrived, lost, wake, backoff, stopping, broken>>

(* What is in hand and what has not arrived goes with the stream; the rest of the queue stays. *)
Gone == lost \cup ToSet(hand) \cup ToSet(wire)
(* Opening the stream, converting a batch or writing it raises: the task logs a warning, which  *)
(* is itself enqueued, and waits, unless it is told to stop.                                    *)
StreamError ==
    /\ drain \in {"fetch", "write", "close"} /\ count.logged < MaxRecords
    /\ lost' = Gone /\ hand' = <<>> /\ wire' = <<>>
    /\ Enqueue /\ wake' = [wake EXCEPT !.set = TRUE]
    /\ drain' = "backoff" /\ broken' = TRUE
    /\ UNCHANGED <<arrived, backoff, stopping>>
Reconnect ==
    /\ drain = "backoff"
    /\ drain' = "top" /\ backoff' = Min({2 * backoff, BackoffCap})
    /\ UNCHANGED <<queue, hand, wire, arrived, lost, count, wake, stopping, broken>>
(* The last batch is written: the ack reader is cancelled, which takes the call and what of it *)
(* has not arrived with it.                                                                    *)
DoneWriting ==
    /\ drain = "close"
    /\ lost' = Gone /\ wire' = <<>> /\ drain' = "top" /\ backoff' = 1
    /\ UNCHANGED <<queue, hand, arrived, count, wake, stopping, broken>>

(* The orchestrator takes a record and, now and then, acknowledges how many this stream brought. *)
Arrives ==
    /\ wire # <<>>
    /\ arrived' = Append(arrived, Head(wire)) /\ wire' = Tail(wire)
    /\ \E seq \in {count.acked, Len(arrived')} : count' = [count EXCEPT !.acked = seq]
    /\ UNCHANGED <<queue, hand, lost, drain, wake, backoff, stopping, broken>>

-----------------------------------------------------------------------------
StopShipper ==
    /\ drain # "off" /\ stopping = "no"
    /\ stopping' = "asked" /\ wake' = [wake EXCEPT !.set = TRUE]
    /\ UNCHANGED <<queue, hand, wire, arrived, lost, count, drain, backoff, broken>>
\* Mutant: only a drain that waits for records or for a reconnect is cancelled.
CanCutOffIdle == drain \in {"wait", "backoff"}

CanCutOff == drain # "ended"
StopTimesOut ==
    /\ stopping = "asked" /\ CanCutOff
    /\ stopping' = "cancelled" /\ drain' = "ended" /\ broken' = TRUE
    /\ lost' = Gone /\ hand' = <<>> /\ wire' = <<>>
    /\ UNCHANGED <<queue, arrived, count, wake, backoff>>
StopReturns ==
    /\ stopping \in {"asked", "cancelled"} /\ drain = "ended"
    /\ stopping' = "done"
    /\ UNCHANGED <<queue, hand, wire, arrived, lost, count, drain, wake, backoff, broken>>

Drain == Run \/ RequestIter \/ WaitEnds \/ Write \/ StreamError \/ Reconnect \/ DoneWriting
ShipperNext ==
    \/ StartShipper \/ (\E t \in {"loop", "other"} : ShipToOrchestrator(t)) \/ PostedWake
    \/ Drain \/ Arrives \/ StopShipper \/ StopTimesOut \/ StopReturns

-----------------------------------------------------------------------------
(* Over every reconnect, overflow and stop, the orchestrator sees the records in the order they *)
(* were logged and none twice, and no record disappears untold: each is waiting, in hand, on    *)
(* the wire, arrived, counted as dropped, or went down with a stream that ended under it; what  *)
(* waits is always the newest.                                                                  *)
Ascending(s) == \A i, j \in DOMAIN s : i < j => s[i] < s[j]
LogsKeepTheirOrder ==
    /\ Ascending(arrived \o wire \o hand \o queue)
    /\ count.logged = Len(arrived \o wire \o hand \o queue) + count.dropped + Cardinality(lost)
    /\ lost \cap ToSet(arrived \o queue) = {}
    /\ queue = [i \in 1..Len(queue) |-> count.logged - Len(queue) + i]

(* A stop comes back whatever the orchestrator does, a write it never reads included. *)
ShipperStops == (stopping = "asked") ~> (stopping = "done")

(* A stop of a shipper none of whose streams failed loses nothing that was written. *)
CleanStopLosesNothing == ~broken => lost = {}

(* The shipper neither reorders, duplicates nor silently loses a record, and a stop of it ends. *)
ShipperKeepsAccount == []LogsKeepTheirOrder /\ ShipperStops
=============================================================================
