------------------------------- MODULE Wallet -------------------------------
(***************************************************************************)
(* The orchestrator's WalletService (internal/wallet) together with the    *)
(* cost ledger it composes (internal/cost: TokenCounter, BudgetEnforcer)   *)
(* and the interaction-budget snapshots it resolves ceilings from          *)
(* (internal/channels/interaction_budget.go).                              *)
(*                                                                         *)
(* An agent leases every LLM call: AcquireLease holds the worst-case cost  *)
(* against three dollar scopes and one token ceiling, SettleLease and      *)
(* ReleaseLease replace the hold by what was used, and a reaper closes     *)
(* what nobody closed.  RPC handlers, the reaper and ResetDaily run on     *)
(* goroutines of their own; w.mu serialises all of them but ResetDaily and *)
(* the ceiling read that precedes the lock in AcquireLease.                *)
(*                                                                         *)
(* Dollars are integers (price units per token); token totals per scope,   *)
(* which only reports read, are left out.  A lease carries its age, the    *)
(* time since issuedAt, which saturates just past the last instant the     *)
(* code compares it with, so no bound on time is needed.                   *)
(***************************************************************************)
EXTENDS Integers, FiniteSets

CONSTANTS
  Callers,          \* goroutines that serve AcquireLease
  Leases,           \* lease ids newID can mint
  Agents, Workflows, Models, Interactions,
  GlobalScope,      \* the one scope every charge lands in
  NoInteraction,    \* the empty interaction_id
  InputPrice, OutputPrice,            \* [Models -> Nat], 0 for an unpriced model
  MaxDailyUSD, WorkflowMaxUSD, AgentMaxUSD, \* budget limits, 0 is unlimited
  Ceiling,          \* [Interactions -> Nat], the channel's budget, 0 is uncapped
  MaxTokenCount, TTL, ReaperInterval, MaxActiveLeases,
  Estimates, Actuals \* the <<input, output>> token pairs RPCs carry

VARIABLES
  calls,            \* AcquireLease requests between the ceiling read and w.mu
  active,           \* w.active
  provisional,      \* tc.provisional
  usd,              \* EstimatedUSD of every scope of the TokenCounter
  interactionTokens, \* w.interactionTokens, an absent entry is 0
  snapshots,        \* ids in the router's interactionBudgetSnapshots
  elapsed,          \* time since the reaper's ticker last fired
  tickPending,      \* a tick waits in ticker.C
  pass,             \* leases the running reaper pass has yet to visit
  purged,           \* ids the reaper dropped; newID never mints them again
  account,          \* history: what each lease has been charged, and lost to a reset
  overshoot,        \* history: cost admitted past what CheckBudget priced
  overrun           \* history: tokens settled past what the ceiling admitted

counterVars     == <<provisional, usd>>
reaperVars      == <<elapsed, tickPending, pass, purged>>
historyVars     == <<account, overshoot, overrun>>
vars == <<calls, active, provisional, usd, interactionTokens, snapshots,
          elapsed, tickPending, pass, purged, account, overshoot, overrun>>

ASSUME ConfigAssumption ==
  /\ TTL \in Nat \ {0} /\ ReaperInterval \in Nat \ {0}
  /\ MaxActiveLeases \in Nat \ {0} /\ MaxTokenCount \in Nat
ASSUME LimitAssumption ==
  /\ MaxDailyUSD \in Nat /\ WorkflowMaxUSD \in Nat /\ AgentMaxUSD \in Nat
  /\ Ceiling \in [Interactions -> Nat]
ASSUME PriceAssumption ==
  InputPrice \in [Models -> Nat] /\ OutputPrice \in [Models -> Nat]
ASSUME TokenAssumption ==
  Estimates \subseteq Int \X Int /\ Actuals \subseteq Int \X Int
ASSUME NameAssumption ==
  /\ Agents \cap Workflows = {} /\ GlobalScope \notin Agents \cup Workflows
  /\ NoInteraction \notin Interactions
ASSUME FiniteAssumption == IsFiniteSet(Leases)

-----------------------------------------------------------------------------
\* Pricing and budget scopes.

Scopes == {GlobalScope} \cup Workflows \cup Agents

EstimateCost(m, input, output) ==
  input * InputPrice[m] + output * OutputPrice[m]

Limit(s) == CASE s = GlobalScope  -> MaxDailyUSD
              [] s \in Workflows -> WorkflowMaxUSD
              [] OTHER           -> AgentMaxUSD

ScopesOf(x) == {GlobalScope, x.workflow, x.agent}

AddToScopes(x, d) ==
  [s \in Scopes |-> IF s \in ScopesOf(x) THEN usd[s] + d ELSE usd[s]]

\* Mutant: the spent total alone is compared, the estimate is forgotten.
CheckBudgetIgnoresEstimate(x) ==
  \A s \in ScopesOf(x) : Limit(s) > 0 => usd[s] <= Limit(s)

CheckBudget(x) ==
  \A s \in ScopesOf(x) :
    Limit(s) > 0 =>
      usd[s] + EstimateCost(x.model, 0, x.input + x.output) <= Limit(s)

-----------------------------------------------------------------------------
\* Requests, leases and charges.

Idle == [state |-> "idle"]
NoLease == [state |-> "none"]
NoCharge == [state |-> "none"]

Requests ==
  [agent : Agents, workflow : Workflows, model : Models,
   input : {t[1] : t \in Estimates}, output : {t[2] : t \in Estimates},
   interaction : Interactions \cup {NoInteraction}]

LeaseRecords ==
  [agent : Agents, workflow : Workflows, model : Models,
   input : 0..MaxTokenCount, output : 0..MaxTokenCount,
   interaction : Interactions \cup {NoInteraction},
   age : 0..(2 * TTL + 1), settled : BOOLEAN]

Charges ==
  [agent : Agents, workflow : Workflows, model : Models, usd : Int]

Tracked(l)   == active[l] # NoLease
Unsettled(l) == Tracked(l) /\ ~active[l].settled

\* An open lease whose hold is part of an interaction's total.
Attributed(l) == Unsettled(l) /\ active[l].interaction # NoInteraction

\* Mutant: only the upper bound is checked.
ValidTokenCountUnsigned(n) == n <= MaxTokenCount

ValidTokenCount(n) == 0 <= n /\ n <= MaxTokenCount

\* A request that passed the range checks, with the ceiling read for it.
PendingCalls ==
  [state : {"resolved"},
   req : {x \in Requests : ValidTokenCount(x.input) /\ ValidTokenCount(x.output)},
   budget : Nat]

\* The server-side resolver: a hit is the snapshot, a miss reads as uncapped.
ResolveInteractionBudget(i) ==
  IF i \in snapshots THEN Ceiling[i] ELSE 0

ActiveLeasesFor(a) == {l \in Leases : Unsettled(l) /\ active[l].agent = a}

\* Mutant: compares what is spent, not what would be.
InteractionCeilingDeniedLate(x, budget) ==
  /\ x.interaction # NoInteraction /\ budget > 0
  /\ interactionTokens[x.interaction] > budget

InteractionCeilingDenied(x, budget) ==
  /\ x.interaction # NoInteraction /\ budget > 0
  /\ interactionTokens[x.interaction] + x.input + x.output > budget

\* w.mu is held by the reaper for as long as its pass lasts.
MuFree == pass = {}

Excess(n) == IF n > 0 THEN n ELSE 0

-----------------------------------------------------------------------------
Init ==
  /\ calls = [c \in Callers |-> Idle]
  /\ active = [l \in Leases |-> NoLease]
  /\ provisional = [l \in Leases |-> NoCharge]
  /\ usd = [s \in Scopes |-> 0]
  /\ interactionTokens = [i \in Interactions |-> 0]
  /\ snapshots = {}
  /\ elapsed = 0 /\ tickPending = FALSE /\ pass = {} /\ purged = {}
  /\ account = [l \in Leases |-> [workflow |-> GlobalScope, agent |-> GlobalScope,
                                  interaction |-> NoInteraction, usd |-> 0, tokens |-> 0,
                                  residue |-> 0, cut |-> FALSE]]
  /\ overshoot = [s \in Scopes |-> 0]
  /\ overrun = [i \in Interactions |-> 0]

-----------------------------------------------------------------------------
\* AcquireLease up to w.mu.Lock: range checks, then the ceiling is resolved
\* without the lock, so it may be stale when the lock is obtained.
BeginAcquire(c, x) ==
  /\ calls[c] = Idle
  /\ ValidTokenCount(x.input) /\ ValidTokenCount(x.output)
  /\ calls' = [calls EXCEPT ![c] =
                 [state |-> "resolved", req |-> x,
                  budget |-> ResolveInteractionBudget(x.interaction)]]
  /\ UNCHANGED <<active, counterVars, interactionTokens, snapshots, reaperVars, historyVars>>

\* Mutant: the cap is off by one.
AdmittedOneMore(x, budget) ==
  /\ Cardinality(ActiveLeasesFor(x.agent)) <= MaxActiveLeases
  /\ ~InteractionCeilingDenied(x, budget)
  /\ CheckBudget(x)

\* AcquireLease under w.mu: every check passes.
Admitted(x, budget) ==
  /\ Cardinality(ActiveLeasesFor(x.agent)) < MaxActiveLeases
  /\ ~InteractionCeilingDenied(x, budget)
  /\ CheckBudget(x)

\* The cap, the ceiling or a budget refuses the lease.
DenyLease(c) ==
  /\ calls[c] # Idle /\ MuFree
  /\ ~Admitted(calls[c].req, calls[c].budget)
  /\ calls' = [calls EXCEPT ![c] = Idle]
  /\ UNCHANGED <<active, counterVars, interactionTokens, snapshots, reaperVars, historyVars>>

\* The id newID minted: not in w.active, and never minted before.
FreshID(l) == ~Tracked(l) /\ l \notin purged

\* newID minted the id of a lease still in w.active: fail closed.
RejectCollision(c, l) ==
  /\ calls[c] # Idle /\ MuFree
  /\ Admitted(calls[c].req, calls[c].budget)
  /\ Tracked(l)
  /\ calls' = [calls EXCEPT ![c] = Idle]
  /\ UNCHANGED <<active, counterVars, interactionTokens, snapshots, reaperVars, historyVars>>

RecordProvisional(l, x) ==
  LET cost == EstimateCost(x.model, x.input, x.output) IN
  /\ usd' = AddToScopes(x, cost)
  /\ provisional' = [provisional EXCEPT ![l] =
       [agent |-> x.agent, workflow |-> x.workflow, model |-> x.model, usd |-> cost]]

\* A lease is attributed to its interaction only when a ceiling is in effect.
TrackedInteraction(x, budget) ==
  IF budget > 0 THEN x.interaction ELSE NoInteraction

GrantLease(c, l) ==
  LET x == calls[c].req
      i == TrackedInteraction(x, calls[c].budget)
      cost == EstimateCost(x.model, x.input, x.output)
      priced == EstimateCost(x.model, 0, x.input + x.output)
  IN
  /\ calls[c] # Idle /\ MuFree
  /\ Admitted(x, calls[c].budget)
  /\ FreshID(l)
  /\ RecordProvisional(l, x)
  /\ active' = [active EXCEPT ![l] =
       [agent |-> x.agent, workflow |-> x.workflow, model |-> x.model,
        input |-> x.input, output |-> x.output, interaction |-> i,
        age |-> 0, settled |-> FALSE]]
  /\ interactionTokens' = IF i = NoInteraction THEN interactionTokens
       ELSE [interactionTokens EXCEPT ![i] = @ + x.input + x.output]
  /\ calls' = [calls EXCEPT ![c] = Idle]
  /\ account' = [account EXCEPT ![l] =
       [workflow |-> x.workflow, agent |-> x.agent, interaction |-> i,
        usd |-> cost, tokens |-> x.input + x.output, residue |-> 0, cut |-> FALSE]]
  /\ overshoot' = [s \in Scopes |-> overshoot[s] +
       IF s \in ScopesOf(x) THEN Excess(cost - priced) ELSE 0]
  /\ UNCHANGED <<snapshots, reaperVars, overrun>>

-----------------------------------------------------------------------------
\* SettleLease, ReleaseLease and the body they share.

\* Mutant: the actuals are added on top of the hold.
ReconcileAddsActual(l, input, output) ==
  LET pc == provisional[l]
      actual == EstimateCost(pc.model, input, output) IN
  /\ usd' = AddToScopes(pc, actual)
  /\ provisional' = [provisional EXCEPT ![l] = NoCharge]
  /\ overshoot' = [s \in Scopes |-> overshoot[s] +
       IF s \in ScopesOf(pc) THEN Excess(actual) ELSE 0]

\* TokenCounter.Reconcile of an outstanding charge, with its history.
Reconcile(l, input, output) ==
  LET pc == provisional[l]
      actual == EstimateCost(pc.model, input, output) IN
  /\ usd' = AddToScopes(pc, actual - pc.usd)
  /\ provisional' = [provisional EXCEPT ![l] = NoCharge]
  /\ overshoot' = [s \in Scopes |-> overshoot[s] +
       IF s \in ScopesOf(pc) THEN Excess(actual - pc.usd) ELSE 0]

\* Mutant: any refund prunes the entry.
AdjustInteractionTokensPrunes(i, delta) ==
  interactionTokens' =
    IF i = NoInteraction THEN interactionTokens
    ELSE [interactionTokens EXCEPT ![i] = IF delta < 0 THEN 0 ELSE @ + delta]

\* An entry that falls to zero or below is pruned.
AdjustInteractionTokens(i, delta) ==
  interactionTokens' =
    IF i = NoInteraction THEN interactionTokens
    ELSE [interactionTokens EXCEPT ![i] = Excess(@ + delta)]

MarkSettled(l) == active' = [active EXCEPT ![l].settled = TRUE]

\* The lease is open and its hold stands: replace the hold by the actuals.
FinalizeOpen(l, input, output) ==
  LET delta == (input + output) - (active[l].input + active[l].output)
      i == active[l].interaction IN
  /\ Unsettled(l) /\ provisional[l] # NoCharge
  /\ Reconcile(l, input, output)
  /\ AdjustInteractionTokens(i, delta)
  /\ MarkSettled(l)
  /\ account' = [account EXCEPT
       ![l].usd = EstimateCost(active[l].model, input, output),
       ![l].tokens = input + output]
  /\ overrun' = IF i = NoInteraction THEN overrun
                ELSE [overrun EXCEPT ![i] = @ + Excess(delta)]

\* ResetDaily dropped the hold: the lease is closed and nothing is reconciled, the
\* interaction's total neither.  What that total keeps too much (or too little) of
\* the lease is its residue.
FinalizeAfterReset(l, input, output) ==
  /\ Unsettled(l) /\ provisional[l] = NoCharge
  /\ MarkSettled(l)
  /\ account' = [account EXCEPT
       ![l].tokens = input + output,
       ![l].residue = IF Attributed(l)
         THEN (active[l].input + active[l].output) - (input + output) ELSE 0]
  /\ UNCHANGED <<counterVars, interactionTokens, overshoot, overrun>>

\* Mutant: a late settlement is refunded once more.
FinalizeNoopRefunds(l) ==
  /\ ~Unsettled(l)
  /\ usd' = IF Tracked(l)
            THEN AddToScopes(active[l], -EstimateCost(active[l].model, 1, 0)) ELSE usd
  /\ UNCHANGED <<active, provisional, interactionTokens, historyVars>>

\* Unknown or already closed: nothing is revised.
FinalizeNoop(l) ==
  /\ ~Unsettled(l)
  /\ UNCHANGED <<active, counterVars, interactionTokens, historyVars>>

Finalize(l, input, output) ==
  /\ MuFree
  /\ \/ FinalizeOpen(l, input, output)
     \/ FinalizeAfterReset(l, input, output)
     \/ FinalizeNoop(l)
  /\ UNCHANGED <<calls, snapshots, reaperVars>>

SettleLease(l, input, output) ==
  /\ ValidTokenCount(input) /\ ValidTokenCount(output)
  /\ Finalize(l, input, output)

ReleaseLease(l) == Finalize(l, 0, 0)

-----------------------------------------------------------------------------
\* The reaper: a ticker with a one-slot channel, and a pass that visits every
\* tracked lease while it holds w.mu.

\* One unit of time.  A tick that finds the channel full is dropped; a pass
\* lasts less than one unit.
Tick ==
  /\ pass = {}
  /\ active' = [l \in Leases |->
       IF Tracked(l) /\ active[l].age <= 2 * TTL
       THEN [active[l] EXCEPT !.age = @ + 1] ELSE active[l]]
  /\ elapsed' = IF elapsed + 1 = ReaperInterval THEN 0 ELSE elapsed + 1
  /\ tickPending' = (tickPending \/ elapsed + 1 = ReaperInterval)
  /\ UNCHANGED <<calls, counterVars, interactionTokens, snapshots, pass, purged, historyVars>>

\* Mutant: the pass looks at unsettled leases only.
BeginPassUnsettled ==
  /\ tickPending /\ MuFree
  /\ tickPending' = FALSE
  /\ pass' = {l \in Leases : Unsettled(l)}
  /\ UNCHANGED <<calls, active, counterVars, interactionTokens, snapshots,
                 elapsed, purged, historyVars>>

BeginPass ==
  /\ tickPending /\ MuFree
  /\ tickPending' = FALSE
  /\ pass' = {l \in Leases : Tracked(l)}
  /\ UNCHANGED <<calls, active, counterVars, interactionTokens, snapshots,
                 elapsed, purged, historyVars>>

Expired(l)   == Unsettled(l) /\ active[l].age > TTL
Purgeable(l) == Tracked(l) /\ active[l].settled /\ active[l].age > 2 * TTL

\* Settle an expired lease at the granted amount; a missing hold is only logged.
ReapLease(l) ==
  /\ Expired(l)
  /\ \/ /\ provisional[l] # NoCharge
        /\ Reconcile(l, active[l].input, active[l].output)
        /\ account' = [account EXCEPT ![l].usd =
             EstimateCost(active[l].model, active[l].input, active[l].output)]
        /\ UNCHANGED overrun
     \/ /\ provisional[l] = NoCharge
        /\ UNCHANGED <<counterVars, historyVars>>
  /\ MarkSettled(l)
  /\ UNCHANGED purged

PurgeLease(l) ==
  /\ Purgeable(l)
  /\ active' = [active EXCEPT ![l] = NoLease]
  /\ purged' = purged \cup {l}
  /\ UNCHANGED <<counterVars, historyVars>>

KeepLease(l) ==
  /\ ~Expired(l) /\ ~Purgeable(l)
  /\ UNCHANGED <<active, counterVars, purged, historyVars>>

ReapExpired(l) ==
  /\ l \in pass
  /\ ReapLease(l) \/ PurgeLease(l) \/ KeepLease(l)
  /\ pass' = pass \ {l}
  /\ UNCHANGED <<calls, interactionTokens, snapshots, elapsed, tickPending>>

-----------------------------------------------------------------------------
\* The rest of the environment of the ledger.

\* History of a reset: the new day owes nothing, and an attributed lease lost its hold.
CutAccount(a, cut) == [a EXCEPT !.usd = 0, !.cut = cut]

\* tc.mu only: may fall anywhere, a reaper pass included.
ResetDaily ==
  /\ usd' = [s \in Scopes |-> 0]
  /\ provisional' = [l \in Leases |-> NoCharge]
  /\ account' = [l \in Leases |->
       CutAccount(account[l], account[l].cut \/ Attributed(l))]
  /\ UNCHANGED <<calls, active, interactionTokens, snapshots, reaperVars, overshoot, overrun>>

\* The router snapshots a capped interaction at its first commit...
SnapshotInteractionBudget(i) ==
  /\ i \notin snapshots /\ Ceiling[i] > 0
  /\ snapshots' = snapshots \cup {i}
  /\ UNCHANGED <<calls, active, counterVars, interactionTokens, reaperVars, historyVars>>

\* ... and discards it one generation after its close.
DiscardInteractionBudget(i) ==
  /\ i \in snapshots
  /\ snapshots' = snapshots \ {i}
  /\ UNCHANGED <<calls, active, counterVars, interactionTokens, reaperVars, historyVars>>

ClearedAccount(a) == [a EXCEPT !.tokens = 0, !.residue = 0]

\* For the close path to come: no production path calls it yet.  Under its
\* documented precondition: every lease of the interaction has settled and none
\* is on its way.
EvictInteraction(i) ==
  /\ MuFree /\ interactionTokens[i] > 0
  /\ \A l \in Leases : Unsettled(l) => active[l].interaction # i
  /\ \A c \in Callers : calls[c] # Idle => calls[c].req.interaction # i
  /\ interactionTokens' = [interactionTokens EXCEPT ![i] = 0]
  /\ account' = [l \in Leases |->
       IF account[l].interaction = i THEN ClearedAccount(account[l]) ELSE account[l]]
  /\ UNCHANGED <<calls, active, counterVars, snapshots, reaperVars, overshoot, overrun>>

-----------------------------------------------------------------------------
Acquire ==
  \E c \in Callers :
    \/ \E x \in Requests : <<x.input, x.output>> \in Estimates /\ BeginAcquire(c, x)
    \/ DenyLease(c)
    \/ \E l \in Leases : GrantLease(c, l) \/ RejectCollision(c, l)

Close ==
  \E l \in Leases :
    \/ \E t \in Actuals : SettleLease(l, t[1], t[2])
    \/ ReleaseLease(l)

Reap == BeginPass \/ \E l \in Leases : ReapExpired(l)

Environment ==
  \/ ResetDaily
  \/ \E i \in Interactions :
       SnapshotInteractionBudget(i) \/ DiscardInteractionBudget(i) \/ EvictInteraction(i)

Next == Acquire \/ Close \/ Tick \/ Reap \/ Environment

\* Time passes and the reaper goroutine, when a tick waits or a pass is under
\* way, is eventually scheduled.  Nothing is assumed of agents.
Fairness == WF_vars(Tick) /\ WF_vars(Reap)

Spec == Init /\ [][Next]_vars
FairSpec == Spec /\ Fairness

-----------------------------------------------------------------------------
\* Properties.

\* Type correctness of the wallet's, the counter's and the reaper's state.
TypeOK ==
  /\ calls \in [Callers -> {Idle} \cup PendingCalls]
  /\ active \in [Leases -> LeaseRecords \cup {NoLease}]
  /\ provisional \in [Leases -> Charges \cup {NoCharge}]
  /\ usd \in [Scopes -> Int]
  /\ interactionTokens \in [Interactions -> Nat]
  /\ snapshots \subseteq Interactions
  /\ elapsed \in 0..(ReaperInterval - 1) /\ tickPending \in BOOLEAN
  /\ pass \subseteq Leases /\ purged \subseteq Leases
  /\ overshoot \in [Scopes -> Nat] /\ overrun \in [Interactions -> Nat]

\* RecordProvisional's contract: a hold is outstanding only for a lease the
\* wallet still tracks unsettled, at that lease's own granted price, so no hold
\* is ever orphaned and no second hold can be recorded under the same id.
HoldsMatchLeases ==
  \A l \in Leases : provisional[l] # NoCharge =>
    /\ Unsettled(l)
    /\ provisional[l] = [agent |-> active[l].agent, workflow |-> active[l].workflow,
         model |-> active[l].model,
         usd |-> EstimateCost(active[l].model, active[l].input, active[l].output)]

\* The per-agent cap bounds leases in flight however acquires interleave.
LeaseCapHolds ==
  \A a \in Agents : Cardinality(ActiveLeasesFor(a)) <= MaxActiveLeases

\* Spend in every limited scope stays within the limit, but for what
\* CheckBudget did not price: input dearer than output, and settlements above
\* the estimate.
BudgetsHold ==
  \A s \in Scopes : Limit(s) > 0 => usd[s] <= Limit(s) + overshoot[s]

\* An interaction's running total stays within the ceiling its leases were
\* checked against, but for settlements above the estimate.
CeilingHolds ==
  \A i \in Interactions : interactionTokens[i] <= Ceiling[i] + overrun[i]

\* What CeilingHolds rests on: the ceiling a pending call carries, stale or not,
\* is its interaction's.
CallsCarryCeilings ==
  \A c \in Callers : calls[c] # Idle /\ calls[c].budget > 0 =>
    /\ calls[c].req.interaction \in Interactions
    /\ calls[c].budget = Ceiling[calls[c].req.interaction]

\* What NeverReopened rests on: a purged id is not in the in-flight map.
PurgedAreGone == \A l \in purged : ~Tracked(l)

\* The inductive invariant of the lease ledger.
LedgerInv ==
  /\ TypeOK /\ HoldsMatchLeases /\ LeaseCapHolds /\ BudgetsHold
  /\ CallsCarryCeilings /\ CeilingHolds /\ PurgedAreGone

\* Dollars move only when a lease opens or closes, or at the daily reset: a
\* late, repeated or unknown settlement is a no-op.
ChargesAreFinal ==
  [][usd' # usd =>
       \/ \E l \in Leases : (Unsettled(l) # Unsettled(l)') 
       \/ usd' = [s \in Scopes |-> 0] /\ provisional' = [l \in Leases |-> NoCharge]]_vars

\* A closed lease is never reopened: it stays closed until the reaper drops it,
\* and its id never comes back.
NeverReopened ==
  [][\A l \in Leases :
       /\ Tracked(l) /\ active[l].settled => ~Unsettled(l)'
       /\ l \in purged => ~Tracked(l)']_vars

\* The refinement mapping onto LeaseLedger.
LeaseState(l) ==
  CASE Unsettled(l) -> "open"
    [] Tracked(l) /\ active[l].settled -> "closed"
    [] ~Tracked(l) -> IF l \in purged THEN "closed" ELSE "new"

Ledger == INSTANCE LeaseLedger WITH
  state <- [l \in Leases |-> LeaseState(l)], spent <- usd,
  scopes <- [l \in Leases |-> ScopesOf(account[l])],
  charge <- [l \in Leases |-> account[l].usd]

\* The wallet implements the lease ledger: whatever the interleaving of RPCs,
\* reaper and reset, each lease opens once, closes once, and moves exactly its
\* own scopes by exactly its own charge.
ImplementsLedger == Ledger!Spec

\* Whatever agents do (crash, hang, lose every RPC), every lease is eventually
\* closed and dropped from the in-flight map: the reaper drops only closed ones.
LeasesPurged == \A l \in Leases : Tracked(l) ~> ~Tracked(l)
=============================================================================
