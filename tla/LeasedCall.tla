----------------------------- MODULE LeasedCall -----------------------------
(***************************************************************************)
(* LLM calls under a wallet lease: the agents' WalletClient                *)
(* (agents/wallet_client.py, agents/wallet_lease.py) and LLMClient         *)
(* (agents/llm_client.py) composed with the orchestrator's Wallet over     *)
(* gRPC calls that may fail on the client while the server still runs      *)
(* them, be answered into the void, or never arrive.  A task is one        *)
(* `async with wallet.lease(...)` block; each is an AcquireLease caller of *)
(* the Wallet.                                                             *)
(***************************************************************************)
EXTENDS Wallet

CONSTANTS AcquireMaxAttempts, SettleMaxAttempts, NoID

VARIABLES
  task,  \* per task: where its block is, its attempt, lease and usage
  rpcs   \* SettleLease and ReleaseLease requests the server may yet run

ASSUME AttemptAssumption ==
  AcquireMaxAttempts \in Nat \ {0} /\ SettleMaxAttempts \in Nat \ {0}
ASSUME NoIDAssumption == NoID \notin Leases

clientVars == <<task, rpcs>>
allVars == <<vars, clientVars>>

\* Where a block stands.  refused: the body never ran; gone: the process died
\* or the task was cancelled, so nothing is cleaned up.
Phases == {"idle", "acquiring", "refused", "holding", "calling",
           "settling", "releasing", "done", "gone"}
Finished == {"refused", "done", "gone"}

\* spent is what the provider really used: history, only a returned call
\* tells the client.
NewTask == [phase |-> "idle", attempt |-> 1, lease |-> NoID, granted |-> <<0, 0>>,
            contacted |-> FALSE, spent |-> <<0, 0>>, usage |-> <<0, 0>>]

Move(t, p) == task' = [task EXCEPT ![t].phase = p]

CallInit == Init /\ task = [t \in Callers |-> NewTask] /\ rpcs = {}

-----------------------------------------------------------------------------
\* _acquire.

\* The wallet cannot be reached: the call fails closed, without a retry.
Unreachable(t) ==
  /\ task[t].phase = "idle"
  /\ Move(t, "refused")
  /\ UNCHANGED <<vars, rpcs>>

\* The rate limiter in front of the wallet answers RESOURCE_EXHAUSTED.
Throttled(t) ==
  /\ task[t].phase = "idle"
  /\ IF task[t].attempt < AcquireMaxAttempts
     THEN task' = [task EXCEPT ![t].attempt = @ + 1] ELSE Move(t, "refused")
  /\ UNCHANGED <<vars, rpcs>>

SendAcquire(t, x) ==
  /\ task[t].phase = "idle"
  /\ BeginAcquire(t, x)
  /\ Move(t, "acquiring")
  /\ UNCHANGED rpcs

\* UNAVAILABLE or DEADLINE_EXCEEDED while the handler is still at work.
GiveUp(t) ==
  /\ task[t].phase = "acquiring"
  /\ Move(t, "refused")
  /\ UNCHANGED <<vars, rpcs>>

\* The handler grants; its answer arrives, is lost, or finds the client gone.
AnswerGrant(t, l) ==
  /\ GrantLease(t, l)
  /\ \/ /\ task[t].phase = "acquiring"
        /\ task' = [task EXCEPT ![t].phase = "holding", ![t].lease = l,
             ![t].granted = <<calls[t].req.input, calls[t].req.output>>]
     \/ task[t].phase = "acquiring" /\ Move(t, "refused")
     \/ task[t].phase # "acquiring" /\ UNCHANGED task
  /\ UNCHANGED rpcs

CapReached(t) ==
  Cardinality(ActiveLeasesFor(calls[t].req.agent)) >= MaxActiveLeases

\* The handler refuses.  RESOURCE_EXHAUSTED, the cap, is tried again; a budget
\* denial and a lost answer are not.
AnswerDenial(t) ==
  /\ DenyLease(t)
  /\ \/ /\ task[t].phase = "acquiring" /\ CapReached(t)
        /\ task[t].attempt < AcquireMaxAttempts
        /\ task' = [task EXCEPT ![t].phase = "idle", ![t].attempt = @ + 1]
     \/ task[t].phase = "acquiring" /\ Move(t, "refused")
     \/ task[t].phase # "acquiring" /\ UNCHANGED task
  /\ UNCHANGED rpcs

\* The handler failed on an id collision: INTERNAL is raised, never retried.
AnswerFault(t, l) ==
  /\ RejectCollision(t, l)
  /\ IF task[t].phase = "acquiring" THEN Move(t, "refused") ELSE UNCHANGED task
  /\ UNCHANGED rpcs

-----------------------------------------------------------------------------
\* The body: _create_message and _invoke_provider.

\* mark_call_started, then the provider is contacted and uses u.
ContactProvider(t, u) ==
  /\ task[t].phase = "holding"
  /\ task' = [task EXCEPT ![t].phase = "calling", ![t].contacted = TRUE, ![t].spent = u]
  /\ UNCHANGED <<vars, rpcs>>

Request(t, k, l, u) == [task |-> t, attempt |-> k, lease |-> l, usage |-> u]

\* The block leaves through a close of the lease at usage u.
SendClose(t, p, l, u) ==
  /\ task' = [task EXCEPT ![t].phase = p, ![t].attempt = 1, ![t].usage = u]
  /\ rpcs' = rpcs \cup {Request(t, 1, l, u)}

\* A response: lease.settle with the reported usage.
ProviderReturns(t) ==
  /\ task[t].phase = "calling"
  /\ SendClose(t, "settling", task[t].lease, task[t].spent)
  /\ UNCHANGED vars

\* Mutant: a provider error is closed like a call that never happened.
ProviderRaisesReleases(t) ==
  /\ task[t].phase = "calling"
  /\ SendClose(t, "releasing", task[t].lease, <<0, 0>>)
  /\ UNCHANGED vars

\* An exception after mark_call_started: settle at the granted amount, which
\* the Lease object keeps, whatever became of the lease on the server.
ProviderRaises(t) ==
  /\ task[t].phase = "calling"
  /\ SendClose(t, "settling", task[t].lease, task[t].granted)
  /\ UNCHANGED vars

\* The block is left before the provider was contacted: release.
AbortBeforeCall(t) ==
  /\ task[t].phase = "holding"
  /\ SendClose(t, "releasing", task[t].lease, <<0, 0>>)
  /\ UNCHANGED vars

-----------------------------------------------------------------------------
\* _settle and _release.

\* The server runs a request, whose answer ends the wait of the attempt that
\* sent it unless it is lost.
RunClose(r) ==
  /\ SettleLease(r.lease, r.usage[1], r.usage[2])
  /\ rpcs' = rpcs \ {r}
  /\ \/ UNCHANGED task
     \/ /\ task[r.task].phase \in {"settling", "releasing"}
        /\ task[r.task].attempt = r.attempt
        /\ Move(r.task, "done")

\* The request is lost, or refused by the range check or the rate limiter.
DropClose(r) ==
  /\ rpcs' = rpcs \ {r}
  /\ UNCHANGED <<vars, task>>

\* The attempt fails on the client: settle again while attempts remain; a
\* release is single-shot.  The failed request may still be on its way.
CloseFails(t) ==
  LET k == task[t].attempt + 1 IN
  /\ \/ /\ task[t].phase = "settling" /\ k <= SettleMaxAttempts
        /\ task' = [task EXCEPT ![t].attempt = k]
        /\ rpcs' = rpcs \cup {Request(t, k, task[t].lease, task[t].usage)}
     \/ /\ \/ task[t].phase = "settling" /\ k > SettleMaxAttempts
           \/ task[t].phase = "releasing"
        /\ Move(t, "done")
        /\ UNCHANGED rpcs
  /\ UNCHANGED vars

\* A crash of the agent, or a cancellation in the cleanup.
Abandon(t) ==
  /\ task[t].phase \notin Finished \cup {"idle"}
  /\ Move(t, "gone")
  /\ UNCHANGED <<vars, rpcs>>

-----------------------------------------------------------------------------
ClientNext ==
  \E t \in Callers :
    \/ Unreachable(t) \/ Throttled(t) \/ GiveUp(t) \/ AnswerDenial(t)
    \/ \E x \in Requests : <<x.input, x.output>> \in Estimates /\ SendAcquire(t, x)
    \/ \E l \in Leases : AnswerGrant(t, l) \/ AnswerFault(t, l)
    \/ \E u \in Actuals : ContactProvider(t, u)
    \/ ProviderReturns(t) \/ ProviderRaises(t) \/ AbortBeforeCall(t)
    \/ CloseFails(t) \/ Abandon(t)

NetworkNext == \E r \in rpcs : RunClose(r) \/ DropClose(r)

ServerNext == (Tick \/ Reap) /\ UNCHANGED clientVars

CallNext == ClientNext \/ NetworkNext \/ ServerNext

CallSpec == CallInit /\ [][CallNext]_allVars

-----------------------------------------------------------------------------
\* Properties.

Total(u) == u[1] + u[2]

Closed(l) == l \in purged \/ (Tracked(l) /\ active[l].settled)

\* The client's and the network's state.
CallTypeOK ==
  /\ \A t \in Callers :
       /\ task[t].phase \in Phases /\ task[t].lease \in Leases \cup {NoID}
       /\ task[t].attempt \in 1..(AcquireMaxAttempts + SettleMaxAttempts)
  /\ \A r \in rpcs : r.lease \in Leases /\ r.attempt \in 1..SettleMaxAttempts

\* What a closed lease was finally charged follows from what the client knew of
\* the call it paid for, whichever of the settlement, its retries, the release
\* and the reaper came first: a contacted provider is never free and an
\* uncontacted one never costs more than its grant.
ChargeMatchesCall ==
  \A t \in Callers : task[t].lease # NoID /\ Closed(task[t].lease) =>
    account[task[t].lease].tokens \in
      IF task[t].contacted THEN {Total(task[t].spent), Total(task[t].granted)}
      ELSE {0, Total(task[t].granted)}

\* A lease whose grant never reached a client is closed at its full amount:
\* nobody can release or settle it.
OrphansChargedInFull ==
  \A l \in Leases : Closed(l) /\ (\A t \in Callers : task[t].lease # l) =>
    \E x \in Estimates : account[l].tokens = Total(x)

\* agents/wallet_client.py: "a dropped settlement over-accounts but never loses
\* spend".
NeverLosesSpend ==
  \A t \in Callers : task[t].contacted /\ Closed(task[t].lease) =>
    account[task[t].lease].tokens >= Total(task[t].usage)

\* Whatever the network, the provider and the agent process did, a closed lease is
\* charged what its client knew of the call, or its estimate when nobody told the
\* wallet; unclaimed leases are charged as granted.
CallsAreCharged == CallTypeOK /\ ChargeMatchesCall /\ OrphansChargedInFull
=============================================================================
