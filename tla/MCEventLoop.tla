---------------------------- MODULE MCEventLoop ----------------------------
(* The event loop for TLC, and what its callers are owed.                   *)
EXTENDS EventLoop

CONSTANTS a1, a2, r1

(* Every dispatch returns without its own timeout: whoever awaits a handle *)
(* goes on, whatever stops, fails or is dropped meanwhile.  A supervisor   *)
(* left with a handle nobody settles is released by stop()'s time limit.   *)
DispatchesReturn ==
  \A t \in Scheduled \cup Requests : (pc[t] = "await") ~> (pc[t] # "await")

(* Every stop() that began returns, and needs its time limit for nothing   *)
(* else.                                                                   *)
StopsReturn == \A a \in Scheduled : (phase[a] \notin {"off", "run"}) ~> (phase[a] = "off")

(* Whoever called the loop, to dispatch or to stop it, gets an answer.     *)
LoopAnswers == DispatchesReturn /\ StopsReturn

(* A documented claim that does not hold: stop() cancels the resolvers      *)
(* first, so that a supervisor parked on one's handle is let go.            *)
ParkedSupervisorUnblocks == \A a \in Agents : ~LeftWaiting(a)
=============================================================================
