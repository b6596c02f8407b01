---------------------------- MODULE WalletProofs ----------------------------
(***************************************************************************)
(* The wallet's ledger, and the calls paid out of it: theorems for every   *)
(* value of the constants of both.                                         *)
(***************************************************************************)
EXTENDS LeasedCall, FiniteSetTheorems, TLAPS

\* The counter's arithmetic stays within the integers.
LEMMA CostType ==
  ASSUME NEW m \in Models, NEW i \in Int, NEW o \in Int
  PROVE  EstimateCost(m, i, o) \in Int
BY PriceAssumption DEF EstimateCost

\* Charging a request, a lease or a hold keeps every scope an integer.
LEMMA AddToScopesType ==
  ASSUME usd \in [Scopes -> Int], NEW x, NEW d \in Int
  PROVE  AddToScopes(x, d) \in [Scopes -> Int]
BY DEF AddToScopes

LEMMA ExcessType ==
  ASSUME NEW n \in Int PROVE Excess(n) \in Nat /\ Excess(n) >= n
BY DEF Excess

\* NewWalletService starts in a well-typed state.
LEMMA InitType == Init => TypeOK
<1> SUFFICES ASSUME Init PROVE TypeOK
  OBVIOUS
<1>1. calls \in [Callers -> {Idle} \cup PendingCalls]
  BY DEF Init
<1>2. active \in [Leases -> LeaseRecords \cup {NoLease}]
  BY DEF Init
<1>3. provisional \in [Leases -> Charges \cup {NoCharge}]
  BY DEF Init
<1>4. /\ usd \in [Scopes -> Int] /\ interactionTokens \in [Interactions -> Nat]
      /\ overshoot \in [Scopes -> Nat] /\ overrun \in [Interactions -> Nat]
  BY DEF Init
<1>5. elapsed \in 0..(ReaperInterval - 1)
  BY ConfigAssumption DEF Init
<1>6. tickPending \in BOOLEAN /\ snapshots \subseteq Interactions
      /\ pass \subseteq Leases /\ purged \subseteq Leases
  BY DEF Init
<1> QED
  BY <1>1, <1>2, <1>3, <1>4, <1>5, <1>6 DEF TypeOK

\* A pending call holds a request whose token counts are in range.
LEMMA PendingCallType ==
  ASSUME TypeOK, NEW c \in Callers, calls[c] # Idle
  PROVE  /\ calls[c] \in PendingCalls
         /\ calls[c].req.agent \in Agents /\ calls[c].req.workflow \in Workflows
         /\ calls[c].req.model \in Models
         /\ calls[c].req.input \in 0..MaxTokenCount
         /\ calls[c].req.output \in 0..MaxTokenCount
         /\ calls[c].req.interaction \in Interactions \cup {NoInteraction}
         /\ calls[c].budget \in Nat
<1>1. calls[c] \in PendingCalls
  BY DEF TypeOK
<1>2. calls[c].req \in Requests /\ calls[c].budget \in Nat
      /\ ValidTokenCount(calls[c].req.input) /\ ValidTokenCount(calls[c].req.output)
  BY <1>1 DEF PendingCalls
<1>3. calls[c].req.input \in Int /\ calls[c].req.output \in Int
  BY <1>2, TokenAssumption DEF Requests
<1> QED
  BY <1>1, <1>2, <1>3, ConfigAssumption DEF Requests, ValidTokenCount

\* The parts of a tracked lease.
LEMMA LeaseType ==
  ASSUME TypeOK, NEW l \in Leases, Tracked(l)
  PROVE  /\ active[l] \in LeaseRecords
         /\ active[l].model \in Models
         /\ active[l].agent \in Agents /\ active[l].workflow \in Workflows
         /\ active[l].input \in Nat /\ active[l].output \in Nat
         /\ active[l].interaction \in Interactions \cup {NoInteraction}
         /\ active[l].age \in 0..(2 * TTL + 1) /\ active[l].settled \in BOOLEAN
BY ConfigAssumption DEF TypeOK, Tracked, LeaseRecords

\* The parts of an outstanding hold.
LEMMA HoldType ==
  ASSUME TypeOK, NEW l \in Leases, provisional[l] # NoCharge
  PROVE  /\ provisional[l] \in Charges /\ provisional[l].model \in Models
         /\ provisional[l].usd \in Int
BY DEF TypeOK, Charges

\* Closing a lease leaves every other field of the in-flight map alone.
LEMMA MarkSettledType ==
  ASSUME TypeOK, NEW l \in Leases, Tracked(l), MarkSettled(l)
  PROVE  active' \in [Leases -> LeaseRecords \cup {NoLease}]
BY LeaseType, ZenonT(60) DEF MarkSettled, TypeOK, LeaseRecords

\* Reconciling an outstanding hold keeps the counter well typed.
LEMMA ReconcileType ==
  ASSUME TypeOK, NEW l \in Leases, provisional[l] # NoCharge,
         NEW i \in Int, NEW o \in Int, Reconcile(l, i, o)
  PROVE  /\ usd' \in [Scopes -> Int]
         /\ provisional' \in [Leases -> Charges \cup {NoCharge}]
         /\ overshoot' \in [Scopes -> Nat]
<1> DEFINE d == EstimateCost(provisional[l].model, i, o) - provisional[l].usd
<1>1. d \in Int
  BY HoldType, CostType
<1>2. usd' = AddToScopes(provisional[l], d)
      /\ provisional' = [provisional EXCEPT ![l] = NoCharge]
      /\ overshoot' = [s \in Scopes |-> overshoot[s] +
           IF s \in ScopesOf(provisional[l]) THEN Excess(d) ELSE 0]
  BY DEF Reconcile
<1> HIDE DEF d
<1>3. usd' \in [Scopes -> Int]
  BY <1>1, <1>2, AddToScopesType DEF TypeOK
<1>4. Excess(d) \in Nat
  BY <1>1, ExcessType
<1> QED
  BY <1>2, <1>3, <1>4 DEF TypeOK

\* Granting keeps the wallet well typed: the grant's token counts were range
\* checked before the lock was taken.
LEMMA GrantType ==
  ASSUME TypeOK, NEW c \in Callers, NEW l \in Leases, GrantLease(c, l)
  PROVE  TypeOK'
<1> DEFINE x == calls[c].req
           i == TrackedInteraction(x, calls[c].budget)
           cost == EstimateCost(x.model, x.input, x.output)
           priced == EstimateCost(x.model, 0, x.input + x.output)
<1>1. calls[c] # Idle
  BY DEF GrantLease
<1>2. /\ x.agent \in Agents /\ x.workflow \in Workflows /\ x.model \in Models
      /\ x.input \in 0..MaxTokenCount /\ x.output \in 0..MaxTokenCount
      /\ x.interaction \in Interactions \cup {NoInteraction}
  BY <1>1, PendingCallType
<1>3. x.input \in Nat /\ x.output \in Nat
  BY <1>2, ConfigAssumption
<1>4. i \in Interactions \cup {NoInteraction}
  BY <1>2 DEF TrackedInteraction
<1>5. cost \in Int /\ priced \in Int
  BY <1>2, <1>3, CostType
<1>6. /\ usd' = AddToScopes(x, cost)
      /\ provisional' = [provisional EXCEPT ![l] =
           [agent |-> x.agent, workflow |-> x.workflow, model |-> x.model, usd |-> cost]]
      /\ active' = [active EXCEPT ![l] =
           [agent |-> x.agent, workflow |-> x.workflow, model |-> x.model,
            input |-> x.input, output |-> x.output, interaction |-> i,
            age |-> 0, settled |-> FALSE]]
      /\ interactionTokens' = IF i = NoInteraction THEN interactionTokens
           ELSE [interactionTokens EXCEPT ![i] = @ + x.input + x.output]
      /\ calls' = [calls EXCEPT ![c] = Idle]
      /\ overshoot' = [s \in Scopes |-> overshoot[s] +
           IF s \in ScopesOf(x) THEN Excess(cost - priced) ELSE 0]
      /\ UNCHANGED <<snapshots, elapsed, tickPending, pass, purged, overrun>>
  BY DEF GrantLease, RecordProvisional, reaperVars
<1> HIDE DEF x, i, cost, priced
<1>7. usd' \in [Scopes -> Int]
  BY <1>5, <1>6, AddToScopesType DEF TypeOK
<1>8. provisional' \in [Leases -> Charges \cup {NoCharge}]
  BY <1>2, <1>5, <1>6 DEF TypeOK, Charges
<1>9. active' \in [Leases -> LeaseRecords \cup {NoLease}]
  BY <1>2, <1>4, <1>6, ConfigAssumption DEF TypeOK, LeaseRecords
<1>10. interactionTokens' \in [Interactions -> Nat]
  BY <1>3, <1>4, <1>6 DEF TypeOK
<1>11. calls' \in [Callers -> {Idle} \cup PendingCalls]
  BY <1>6 DEF TypeOK
<1>12. overshoot' \in [Scopes -> Nat]
  <2>1. Excess(cost - priced) \in Nat
    BY <1>5, ExcessType
  <2> QED
    BY <1>6, <2>1 DEF TypeOK
<1> QED
  BY <1>6, <1>7, <1>8, <1>9, <1>10, <1>11, <1>12 DEF TypeOK

\* The shared body of SettleLease and ReleaseLease keeps the types.
LEMMA FinalizeType ==
  ASSUME TypeOK, NEW l \in Leases, NEW input \in Nat, NEW output \in Nat,
         Finalize(l, input, output)
  PROVE  TypeOK'
<1>1. UNCHANGED <<calls, snapshots, elapsed, tickPending, pass, purged>>
  BY DEF Finalize, reaperVars
<1>2. CASE FinalizeOpen(l, input, output)
  <2> DEFINE i == active[l].interaction
             delta == (input + output) - (active[l].input + active[l].output)
  <2>1. Tracked(l) /\ provisional[l] # NoCharge /\ Reconcile(l, input, output) /\ MarkSettled(l)
    BY <1>2 DEF FinalizeOpen, Unsettled
  <2>2. i \in Interactions \cup {NoInteraction} /\ delta \in Int
    BY <2>1, LeaseType
  <2>3. /\ interactionTokens' = IF i = NoInteraction THEN interactionTokens
             ELSE [interactionTokens EXCEPT ![i] = Excess(@ + delta)]
        /\ overrun' = IF i = NoInteraction THEN overrun
             ELSE [overrun EXCEPT ![i] = @ + Excess(delta)]
    BY <1>2 DEF FinalizeOpen, AdjustInteractionTokens
  <2> HIDE DEF i, delta
  <2>4. interactionTokens' \in [Interactions -> Nat]
    BY <2>2, <2>3, ExcessType DEF TypeOK
  <2>5. overrun' \in [Interactions -> Nat]
    BY <2>2, <2>3, ExcessType DEF TypeOK
  <2>6. active' \in [Leases -> LeaseRecords \cup {NoLease}]
    BY <2>1, MarkSettledType
  <2>7. /\ usd' \in [Scopes -> Int] /\ overshoot' \in [Scopes -> Nat]
        /\ provisional' \in [Leases -> Charges \cup {NoCharge}]
    BY <2>1, ReconcileType
  <2> QED
    BY <1>1, <2>4, <2>5, <2>6, <2>7 DEF TypeOK
<1>3. CASE FinalizeAfterReset(l, input, output)
  <2>1. Tracked(l) /\ MarkSettled(l)
    BY <1>3 DEF FinalizeAfterReset, Unsettled
  <2>2. active' \in [Leases -> LeaseRecords \cup {NoLease}]
    BY <2>1, MarkSettledType
  <2> QED
    BY <1>1, <1>3, <2>2 DEF TypeOK, FinalizeAfterReset, counterVars, historyVars
<1>4. CASE FinalizeNoop(l)
  BY <1>1, <1>4 DEF TypeOK, FinalizeNoop, counterVars, historyVars
<1> QED
  BY <1>2, <1>3, <1>4 DEF Finalize

\* One visit of the reaper keeps the types.
LEMMA ReapType ==
  ASSUME TypeOK, NEW l \in Leases, ReapExpired(l)
  PROVE  TypeOK'
<1>1. /\ UNCHANGED <<calls, interactionTokens, snapshots, elapsed, tickPending>>
      /\ pass' = pass \ {l}
  BY DEF ReapExpired
<1>2. CASE ReapLease(l)
  <2>1. Tracked(l) /\ MarkSettled(l) /\ purged' = purged
    BY <1>2 DEF ReapLease, Expired, Unsettled
  <2>2. active' \in [Leases -> LeaseRecords \cup {NoLease}]
    BY <2>1, MarkSettledType
  <2>3. active[l].input \in Int /\ active[l].output \in Int
    BY <2>1, LeaseType
  <2>4. CASE provisional[l] # NoCharge
    <3>1. Reconcile(l, active[l].input, active[l].output) /\ overrun' = overrun
      BY <1>2, <2>4 DEF ReapLease
    <3>2. /\ usd' \in [Scopes -> Int] /\ overshoot' \in [Scopes -> Nat]
          /\ provisional' \in [Leases -> Charges \cup {NoCharge}]
      BY <2>3, <2>4, <3>1, ReconcileType
    <3> QED
      BY <1>1, <2>1, <2>2, <3>1, <3>2 DEF TypeOK
  <2>5. CASE provisional[l] = NoCharge
    <3>1. UNCHANGED <<provisional, usd, overshoot, overrun>>
      BY <1>2, <2>5 DEF ReapLease, counterVars, historyVars
    <3> QED
      BY <1>1, <2>1, <2>2, <3>1 DEF TypeOK
  <2> QED
    BY <2>4, <2>5
<1>3. CASE PurgeLease(l)
  <2>1. /\ active' = [active EXCEPT ![l] = NoLease] /\ purged' = purged \cup {l}
        /\ UNCHANGED <<provisional, usd, overshoot, overrun>>
    BY <1>3 DEF PurgeLease, counterVars, historyVars
  <2> QED
    BY <1>1, <2>1 DEF TypeOK
<1>4. CASE KeepLease(l)
  <2>1. UNCHANGED <<active, provisional, usd, purged, overshoot, overrun>>
    BY <1>4 DEF KeepLease, counterVars, historyVars
  <2> QED
    BY <1>1, <2>1 DEF TypeOK
<1> QED
  BY <1>2, <1>3, <1>4 DEF ReapExpired

\* Every step keeps the types: one step per operation.
LEMMA NextType == TypeOK /\ [Next]_vars => TypeOK'
<1> SUFFICES ASSUME TypeOK, [Next]_vars PROVE TypeOK'
  OBVIOUS
<1>1. ASSUME NEW c \in Callers, NEW x \in Requests, BeginAcquire(c, x) PROVE TypeOK'
  <2>1. ResolveInteractionBudget(x.interaction) \in Nat
    BY LimitAssumption DEF ResolveInteractionBudget, TypeOK
  <2>2. calls' \in [Callers -> {Idle} \cup PendingCalls]
    BY <1>1, <2>1 DEF BeginAcquire, TypeOK, PendingCalls
  <2> QED
    BY <1>1, <2>2 DEF BeginAcquire, TypeOK, counterVars, reaperVars, historyVars
<1>2. ASSUME NEW c \in Callers, DenyLease(c) PROVE TypeOK'
  BY <1>2 DEF DenyLease, TypeOK, counterVars, reaperVars, historyVars
<1>3. ASSUME NEW c \in Callers, NEW l \in Leases, RejectCollision(c, l) PROVE TypeOK'
  BY <1>3 DEF RejectCollision, TypeOK, counterVars, reaperVars, historyVars
<1>4. ASSUME NEW c \in Callers, NEW l \in Leases, GrantLease(c, l) PROVE TypeOK'
  BY <1>4, GrantType
<1>5. ASSUME NEW l \in Leases, NEW t \in Actuals, SettleLease(l, t[1], t[2]) PROVE TypeOK'
  <2>1. t[1] \in Nat /\ t[2] \in Nat /\ Finalize(l, t[1], t[2])
    BY <1>5, TokenAssumption, ConfigAssumption DEF SettleLease, ValidTokenCount
  <2> QED
    BY <2>1, FinalizeType
<1>6. ASSUME NEW l \in Leases, ReleaseLease(l) PROVE TypeOK'
  BY <1>6, FinalizeType DEF ReleaseLease
<1>7. CASE Tick
  <2>1. active' \in [Leases -> LeaseRecords \cup {NoLease}]
    <3> SUFFICES ASSUME NEW l \in Leases, Tracked(l), active[l].age <= 2 * TTL
                 PROVE  [active[l] EXCEPT !.age = @ + 1] \in LeaseRecords
      BY <1>7 DEF Tick, TypeOK
    <3>1. active[l] \in LeaseRecords /\ active[l].age + 1 \in 0..(2 * TTL + 1)
      BY LeaseType, ConfigAssumption
    <3> QED
      BY <3>1 DEF LeaseRecords
  <2>2. elapsed' \in 0..(ReaperInterval - 1)
    BY <1>7, ConfigAssumption DEF Tick, TypeOK
  <2>3. tickPending' \in BOOLEAN
    BY <1>7 DEF Tick
  <2>4. UNCHANGED <<calls, provisional, usd, interactionTokens, snapshots, pass, purged,
                    overshoot, overrun>>
    BY <1>7 DEF Tick, counterVars, historyVars
  <2> QED
    BY <2>1, <2>2, <2>3, <2>4 DEF TypeOK
<1>8. CASE BeginPass
  BY <1>8 DEF BeginPass, TypeOK, counterVars, historyVars
<1>9. ASSUME NEW l \in Leases, ReapExpired(l) PROVE TypeOK'
  BY <1>9, ReapType
<1>10. CASE ResetDaily
  BY <1>10 DEF ResetDaily, TypeOK, reaperVars
<1>11. ASSUME NEW i \in Interactions, SnapshotInteractionBudget(i) PROVE TypeOK'
  BY <1>11 DEF SnapshotInteractionBudget, TypeOK, counterVars, reaperVars, historyVars
<1>12. ASSUME NEW i \in Interactions, DiscardInteractionBudget(i) PROVE TypeOK'
  BY <1>12 DEF DiscardInteractionBudget, TypeOK, counterVars, reaperVars, historyVars
<1>13. ASSUME NEW i \in Interactions, EvictInteraction(i) PROVE TypeOK'
  BY <1>13 DEF EvictInteraction, TypeOK, counterVars, reaperVars
<1>14. CASE UNCHANGED vars
  BY <1>14 DEF vars, TypeOK
<1> QED
  BY <1>1, <1>2, <1>3, <1>4, <1>5, <1>6, <1>7, <1>8, <1>9, <1>10, <1>11, <1>12, <1>13, <1>14
     DEF Next, Acquire, Close, Reap, Environment

\* Type correctness of the wallet and of its ledger in every reachable state.
THEOREM TypeCorrect == Spec => []TypeOK
BY InitType, NextType, PTL DEF Spec

-----------------------------------------------------------------------------
\* Steps that touch neither the in-flight map nor the counter.
LEMMA QuietSteps ==
  ASSUME \/ \E c \in Callers, x \in Requests : BeginAcquire(c, x)
         \/ \E c \in Callers : DenyLease(c)
         \/ \E c \in Callers, l \in Leases : RejectCollision(c, l)
         \/ BeginPass
         \/ \E i \in Interactions :
              \/ SnapshotInteractionBudget(i) \/ DiscardInteractionBudget(i)
              \/ EvictInteraction(i)
         \/ UNCHANGED vars
  PROVE  UNCHANGED <<active, provisional, usd, overshoot, purged, overrun>>
BY DEF BeginAcquire, DenyLease, RejectCollision, BeginPass, SnapshotInteractionBudget,
       DiscardInteractionBudget, EvictInteraction, vars, counterVars, reaperVars, historyVars

\* What the two closing RPCs and a visit of the reaper do to one lease: nothing,
\* a settlement with the hold reconciled, a settlement after a reset, or a purge.
Reconciled(l) ==
  /\ Unsettled(l) /\ provisional[l] # NoCharge /\ MarkSettled(l)
  /\ \E i, o \in Nat : Reconcile(l, i, o)
SettledWithoutHold(l) ==
  /\ Unsettled(l) /\ provisional[l] = NoCharge /\ MarkSettled(l)
  /\ UNCHANGED <<provisional, usd, overshoot>>
Purged(l) ==
  /\ Tracked(l) /\ active[l].settled /\ active' = [active EXCEPT ![l] = NoLease]
  /\ UNCHANGED <<provisional, usd, overshoot>>
Untouched == UNCHANGED <<active, provisional, usd, overshoot>>

LEMMA FinalizeCases ==
  ASSUME TypeOK, NEW l \in Leases, NEW i \in Nat, NEW o \in Nat, Finalize(l, i, o)
  PROVE  Reconciled(l) \/ SettledWithoutHold(l) \/ Untouched
BY DEF Finalize, FinalizeOpen, FinalizeAfterReset, FinalizeNoop, counterVars, historyVars,
       Reconciled, SettledWithoutHold, Untouched

LEMMA ReapCases ==
  ASSUME TypeOK, NEW l \in Leases, ReapExpired(l)
  PROVE  Reconciled(l) \/ SettledWithoutHold(l) \/ Purged(l) \/ Untouched
<1>1. CASE ReapLease(l)
  <2>1. Unsettled(l) /\ MarkSettled(l)
    BY <1>1 DEF ReapLease, Expired
  <2>2. active[l].input \in Nat /\ active[l].output \in Nat
    BY <2>1, LeaseType DEF Unsettled
  <2> QED
    BY <1>1, <2>1, <2>2 DEF ReapLease, Reconciled, SettledWithoutHold, counterVars, historyVars
<1>2. CASE PurgeLease(l)
  BY <1>2 DEF PurgeLease, Purgeable, Purged, counterVars, historyVars
<1>3. CASE KeepLease(l)
  BY <1>3 DEF KeepLease, Untouched, counterVars, historyVars
<1> QED
  BY <1>1, <1>2, <1>3 DEF ReapExpired

\* Every step, as far as leases and dollars are concerned.
LEMMA LedgerSteps ==
  ASSUME TypeOK, [Next]_vars
  PROVE  \/ Untouched
         \/ \E c \in Callers, l \in Leases : GrantLease(c, l)
         \/ \E l \in Leases : Reconciled(l) \/ SettledWithoutHold(l) \/ Purged(l)
         \/ Tick \/ ResetDaily
<1>1. ASSUME NEW l \in Leases, NEW t \in Actuals, SettleLease(l, t[1], t[2])
      PROVE  Reconciled(l) \/ SettledWithoutHold(l) \/ Untouched
  <2>1. t[1] \in Nat /\ t[2] \in Nat /\ Finalize(l, t[1], t[2])
    BY <1>1, TokenAssumption, ConfigAssumption DEF SettleLease, ValidTokenCount
  <2> QED
    BY <2>1, FinalizeCases
<1>2. ASSUME NEW l \in Leases, ReleaseLease(l)
      PROVE  Reconciled(l) \/ SettledWithoutHold(l) \/ Untouched
  BY <1>2, FinalizeCases DEF ReleaseLease
<1>3. ASSUME NEW l \in Leases, ReapExpired(l)
      PROVE  Reconciled(l) \/ SettledWithoutHold(l) \/ Purged(l) \/ Untouched
  BY <1>3, ReapCases
<1>4. CASE \/ \E c \in Callers, x \in Requests : BeginAcquire(c, x)
           \/ \E c \in Callers : DenyLease(c)
           \/ \E c \in Callers, l \in Leases : RejectCollision(c, l)
           \/ BeginPass
           \/ \E i \in Interactions :
                \/ SnapshotInteractionBudget(i) \/ DiscardInteractionBudget(i)
                \/ EvictInteraction(i)
           \/ UNCHANGED vars
  BY <1>4, QuietSteps DEF Untouched
<1> QED
  BY <1>1, <1>2, <1>3, <1>4 DEF Next, Acquire, Close, Reap, Environment

\* The hold that matches lease l of the in-flight map.
HoldOf(l) ==
  [agent |-> active[l].agent, workflow |-> active[l].workflow, model |-> active[l].model,
   usd |-> EstimateCost(active[l].model, active[l].input, active[l].output)]

\* Every step keeps holds and unsettled leases in step.
LEMMA HoldsStep == TypeOK /\ HoldsMatchLeases /\ [Next]_vars => HoldsMatchLeases'
<1> SUFFICES ASSUME TypeOK, HoldsMatchLeases, [Next]_vars,
                    NEW k \in Leases, provisional'[k] # NoCharge
             PROVE  Unsettled(k)' /\ provisional'[k] = HoldOf(k)'
  BY DEF HoldsMatchLeases, HoldOf
<1>0. provisional[k] # NoCharge => Unsettled(k) /\ provisional[k] = HoldOf(k)
  BY DEF HoldsMatchLeases, HoldOf
<1>1. CASE Untouched
  BY <1>0, <1>1 DEF Untouched, HoldOf, Unsettled, Tracked
<1>2. ASSUME NEW c \in Callers, NEW l \in Leases, GrantLease(c, l)
      PROVE  Unsettled(k)' /\ provisional'[k] = HoldOf(k)'
  <2> DEFINE x == calls[c].req
             i == TrackedInteraction(x, calls[c].budget)
             cost == EstimateCost(x.model, x.input, x.output)
             hold == [agent |-> x.agent, workflow |-> x.workflow, model |-> x.model, usd |-> cost]
             new == [agent |-> x.agent, workflow |-> x.workflow, model |-> x.model,
                     input |-> x.input, output |-> x.output, interaction |-> i,
                     age |-> 0, settled |-> FALSE]
  <2>1. /\ provisional' = [provisional EXCEPT ![l] = hold]
        /\ active' = [active EXCEPT ![l] = new]
    BY <1>2 DEF GrantLease, RecordProvisional
  <2>2. CASE k = l
    <3>1. active'[l] = new /\ provisional'[l] = hold
      BY <2>1 DEF TypeOK
    <3>2. new # NoLease /\ ~new.settled
      BY DEF NoLease
    <3>3. /\ new.agent = x.agent /\ new.workflow = x.workflow /\ new.model = x.model
          /\ new.input = x.input /\ new.output = x.output
      OBVIOUS
    <3> QED
      BY <2>2, <3>1, <3>2, <3>3 DEF Unsettled, Tracked, HoldOf
  <2>3. CASE k # l
    BY <1>0, <2>1, <2>3 DEF TypeOK, HoldOf, Unsettled, Tracked
  <2> QED
    BY <2>2, <2>3
<1>3. ASSUME NEW l \in Leases, Reconciled(l)
      PROVE  Unsettled(k)' /\ provisional'[k] = HoldOf(k)'
  <2>1. provisional' = [provisional EXCEPT ![l] = NoCharge]
        /\ active' = [active EXCEPT ![l].settled = TRUE]
    BY <1>3 DEF Reconciled, Reconcile, MarkSettled
  <2>2. k # l /\ active'[k] = active[k] /\ provisional'[k] = provisional[k]
    BY <2>1 DEF TypeOK
  <2> QED
    BY <1>0, <2>2 DEF HoldOf, Unsettled, Tracked
<1>4. ASSUME NEW l \in Leases, SettledWithoutHold(l)
      PROVE  Unsettled(k)' /\ provisional'[k] = HoldOf(k)'
  <2>1. k # l
    BY <1>4 DEF SettledWithoutHold
  <2>2. active'[k] = active[k] /\ provisional'[k] = provisional[k]
    BY <1>4, <2>1 DEF SettledWithoutHold, MarkSettled, TypeOK
  <2> QED
    BY <1>0, <2>2 DEF HoldOf, Unsettled, Tracked
<1>5. ASSUME NEW l \in Leases, Purged(l)
      PROVE  Unsettled(k)' /\ provisional'[k] = HoldOf(k)'
  <2>1. k # l
    BY <1>0, <1>5 DEF Purged, Unsettled
  <2>2. active'[k] = active[k] /\ provisional'[k] = provisional[k]
    BY <1>5, <2>1 DEF Purged, TypeOK
  <2> QED
    BY <1>0, <2>2 DEF HoldOf, Unsettled, Tracked
<1>6. CASE Tick
  <2>1. provisional' = provisional
    BY <1>6 DEF Tick, counterVars
  <2>2. Tracked(k) /\ active[k] \in LeaseRecords
    BY <1>0, <2>1, LeaseType DEF Unsettled
  <2>3. \/ active'[k] = active[k]
        \/ active'[k] = [active[k] EXCEPT !.age = @ + 1]
    BY <1>6 DEF Tick
  <2>4. /\ active'[k] # NoLease /\ active'[k].settled = active[k].settled
        /\ active'[k].agent = active[k].agent /\ active'[k].workflow = active[k].workflow
        /\ active'[k].model = active[k].model
        /\ active'[k].input = active[k].input /\ active'[k].output = active[k].output
    BY <2>2, <2>3 DEF LeaseRecords, NoLease, Tracked
  <2> QED
    BY <1>0, <2>1, <2>4 DEF HoldOf, Unsettled, Tracked
<1>7. CASE ResetDaily
  BY <1>7 DEF ResetDaily
<1> QED
  BY <1>1, <1>2, <1>3, <1>4, <1>5, <1>6, <1>7, LedgerSteps

\* Every limit is a natural number.
LEMMA LimitType == ASSUME NEW s PROVE Limit(s) \in Nat
BY LimitAssumption DEF Limit

\* Every step keeps spend within the limits and the recorded overshoot.
LEMMA BudgetsStep == TypeOK /\ BudgetsHold /\ [Next]_vars => BudgetsHold'
<1> SUFFICES ASSUME TypeOK, BudgetsHold, [Next]_vars, NEW s \in Scopes, Limit(s) > 0
             PROVE  usd'[s] <= Limit(s) + overshoot'[s]
  BY DEF BudgetsHold, Scopes, Limit
<1>0. /\ usd[s] <= Limit(s) + overshoot[s] /\ Limit(s) \in Nat
      /\ usd[s] \in Int /\ overshoot[s] \in Nat
  BY LimitType DEF BudgetsHold, TypeOK
<1>1. CASE Untouched
  BY <1>0, <1>1 DEF Untouched
<1>2. ASSUME NEW c \in Callers, NEW l \in Leases, GrantLease(c, l)
      PROVE  usd'[s] <= Limit(s) + overshoot'[s]
  <2> DEFINE x == calls[c].req
             cost == EstimateCost(x.model, x.input, x.output)
             priced == EstimateCost(x.model, 0, x.input + x.output)
  <2>1. /\ calls[c] # Idle /\ CheckBudget(x)
        /\ usd' = AddToScopes(x, cost)
        /\ overshoot' = [t \in Scopes |-> overshoot[t] +
             IF t \in ScopesOf(x) THEN Excess(cost - priced) ELSE 0]
    BY <1>2 DEF GrantLease, RecordProvisional, Admitted
  <2>2. x.model \in Models /\ x.input \in Nat /\ x.output \in Nat
    BY <2>1, PendingCallType, ConfigAssumption
  <2>3. cost \in Int /\ priced \in Int
    BY <2>2, CostType
  <2>4. s \in ScopesOf(x) => usd[s] + priced <= Limit(s)
    BY <2>1 DEF CheckBudget
  <2> HIDE DEF x, cost, priced
  <2>5. Excess(cost - priced) \in Nat /\ Excess(cost - priced) >= cost - priced
    BY <2>3, ExcessType
  <2>6. CASE s \in ScopesOf(x)
    <3>1. usd'[s] = usd[s] + cost /\ overshoot'[s] = overshoot[s] + Excess(cost - priced)
      BY <2>1, <2>6 DEF AddToScopes
    <3> QED
      BY <1>0, <2>3, <2>4, <2>5, <2>6, <3>1
  <2>7. CASE s \notin ScopesOf(x)
    <3>1. usd'[s] = usd[s] /\ overshoot'[s] = overshoot[s] + 0
      BY <2>1, <2>7 DEF AddToScopes
    <3> QED
      BY <1>0, <3>1
  <2> QED
    BY <2>6, <2>7
<1>3. ASSUME NEW l \in Leases, Reconciled(l)
      PROVE  usd'[s] <= Limit(s) + overshoot'[s]
  <2>1. provisional[l] # NoCharge
    BY <1>3 DEF Reconciled
  <2>2. PICK i \in Nat, o \in Nat : Reconcile(l, i, o)
    BY <1>3 DEF Reconciled
  <2> DEFINE d == EstimateCost(provisional[l].model, i, o) - provisional[l].usd
  <2>3. d \in Int
    BY <2>1, HoldType, CostType
  <2>4. /\ usd' = AddToScopes(provisional[l], d)
        /\ overshoot' = [t \in Scopes |-> overshoot[t] +
             IF t \in ScopesOf(provisional[l]) THEN Excess(d) ELSE 0]
    BY <2>2 DEF Reconcile
  <2> HIDE DEF d
  <2>5. Excess(d) \in Nat /\ Excess(d) >= d
    BY <2>3, ExcessType
  <2>6. CASE s \in ScopesOf(provisional[l])
    <3>1. usd'[s] = usd[s] + d /\ overshoot'[s] = overshoot[s] + Excess(d)
      BY <2>4, <2>6 DEF AddToScopes
    <3> QED
      BY <1>0, <2>3, <2>5, <3>1
  <2>7. CASE s \notin ScopesOf(provisional[l])
    <3>1. usd'[s] = usd[s] /\ overshoot'[s] = overshoot[s] + 0
      BY <2>4, <2>7 DEF AddToScopes
    <3> QED
      BY <1>0, <3>1
  <2> QED
    BY <2>6, <2>7
<1>4. ASSUME NEW l \in Leases, SettledWithoutHold(l) \/ Purged(l)
      PROVE  usd'[s] <= Limit(s) + overshoot'[s]
  BY <1>0, <1>4 DEF SettledWithoutHold, Purged
<1>5. CASE Tick
  BY <1>0, <1>5 DEF Tick, counterVars, historyVars
<1>6. CASE ResetDaily
  BY <1>0, <1>6 DEF ResetDaily
<1> QED
  BY <1>1, <1>2, <1>3, <1>4, <1>5, <1>6, LedgerSteps

\* A purged id stays out of the in-flight map: only a fresh id is granted.
LEMMA PurgedStep == TypeOK /\ PurgedAreGone /\ [Next]_vars => PurgedAreGone'
<1> SUFFICES ASSUME TypeOK, PurgedAreGone, [Next]_vars PROVE PurgedAreGone'
  OBVIOUS
<1>1. ASSUME NEW c \in Callers, NEW l \in Leases, GrantLease(c, l) PROVE PurgedAreGone'
  <2>1. l \notin purged /\ purged' = purged
    BY <1>1 DEF GrantLease, FreshID, reaperVars
  <2>2. \A k \in Leases \ {l} : active'[k] = active[k]
    BY <1>1 DEF GrantLease, TypeOK
  <2> QED
    BY <2>1, <2>2 DEF PurgedAreGone, Tracked, TypeOK
<1>2. ASSUME NEW l \in Leases, NEW i, NEW o, Finalize(l, i, o) PROVE PurgedAreGone'
  <2>1. purged' = purged /\ (active' = active \/ (Tracked(l) /\ MarkSettled(l)))
    BY <1>2 DEF Finalize, FinalizeOpen, FinalizeAfterReset, FinalizeNoop, Unsettled, reaperVars
  <2>2. \A k \in Leases : ~Tracked(k) => active'[k] = active[k]
    BY <2>1 DEF MarkSettled, TypeOK
  <2> QED
    BY <2>1, <2>2 DEF PurgedAreGone, Tracked, TypeOK
<1>3. ASSUME NEW l \in Leases, ReapExpired(l) PROVE PurgedAreGone'
  <2>1. CASE ReapLease(l) \/ KeepLease(l)
    <3>1. purged' = purged /\ (active' = active \/ (Tracked(l) /\ MarkSettled(l)))
      BY <2>1 DEF ReapLease, KeepLease, Expired, Unsettled
    <3>2. \A k \in Leases : ~Tracked(k) => active'[k] = active[k]
      BY <3>1 DEF MarkSettled, TypeOK
    <3> QED
      BY <3>1, <3>2 DEF PurgedAreGone, Tracked, TypeOK
  <2>2. CASE PurgeLease(l)
    BY <2>2 DEF PurgeLease, PurgedAreGone, Tracked, TypeOK
  <2> QED
    BY <1>3, <2>1, <2>2 DEF ReapExpired
<1>4. CASE Tick
  BY <1>4 DEF Tick, PurgedAreGone, Tracked, TypeOK
<1>5. CASE ResetDaily
  BY <1>5 DEF ResetDaily, PurgedAreGone, Tracked, reaperVars
<1>6. CASE \/ \E c \in Callers, x \in Requests : BeginAcquire(c, x)
           \/ \E c \in Callers : DenyLease(c)
           \/ \E c \in Callers, l \in Leases : RejectCollision(c, l)
           \/ BeginPass
           \/ \E i \in Interactions :
                \/ SnapshotInteractionBudget(i) \/ DiscardInteractionBudget(i)
                \/ EvictInteraction(i)
           \/ UNCHANGED vars
  BY <1>6, QuietSteps DEF PurgedAreGone, Tracked
<1> QED
  BY <1>1, <1>2, <1>3, <1>4, <1>5, <1>6
     DEF Next, Acquire, Close, Reap, Environment, SettleLease, ReleaseLease

\* Steps that leave pending calls alone or only finish one.
LEMMA CallsStep == TypeOK /\ CallsCarryCeilings /\ [Next]_vars => CallsCarryCeilings'
<1> SUFFICES ASSUME TypeOK, CallsCarryCeilings, [Next]_vars PROVE CallsCarryCeilings'
  OBVIOUS
<1>1. ASSUME NEW c \in Callers, NEW x \in Requests, BeginAcquire(c, x)
      PROVE  CallsCarryCeilings'
  <2> DEFINE b == ResolveInteractionBudget(x.interaction)
  <2>1. calls' = [calls EXCEPT ![c] = [state |-> "resolved", req |-> x, budget |-> b]]
    BY <1>1 DEF BeginAcquire
  <2>2. b > 0 => x.interaction \in Interactions /\ b = Ceiling[x.interaction]
    BY DEF ResolveInteractionBudget, TypeOK
  <2> HIDE DEF b
  <2> QED
    BY <2>1, <2>2 DEF CallsCarryCeilings, TypeOK
<1>2. ASSUME NEW c \in Callers, calls' = [calls EXCEPT ![c] = Idle]
      PROVE  CallsCarryCeilings'
  BY <1>2 DEF CallsCarryCeilings, TypeOK
<1>3. CASE calls' = calls
  BY <1>3 DEF CallsCarryCeilings
<1>4. \/ \E c \in Callers, x \in Requests : BeginAcquire(c, x)
      \/ \E c \in Callers : calls' = [calls EXCEPT ![c] = Idle]
      \/ calls' = calls
  BY DEF Next, Acquire, Close, Reap, Environment, DenyLease, RejectCollision, GrantLease,
         SettleLease, ReleaseLease, Finalize, Tick, BeginPass, ReapExpired, ResetDaily,
         SnapshotInteractionBudget, DiscardInteractionBudget, EvictInteraction, vars
<1> QED
  BY <1>1, <1>2, <1>3, <1>4

\* Every step keeps the interaction totals under their ceilings.
LEMMA CeilingStep ==
  TypeOK /\ CallsCarryCeilings /\ CeilingHolds /\ [Next]_vars => CeilingHolds'
<1> SUFFICES ASSUME TypeOK, CallsCarryCeilings, CeilingHolds, [Next]_vars,
                    NEW j \in Interactions
             PROVE  interactionTokens'[j] <= Ceiling[j] + overrun'[j]
  BY DEF CeilingHolds
<1>0. /\ interactionTokens[j] \in Nat /\ overrun[j] \in Nat /\ Ceiling[j] \in Nat
      /\ interactionTokens[j] <= Ceiling[j] + overrun[j]
  BY LimitAssumption DEF CeilingHolds, TypeOK
<1>1. ASSUME NEW c \in Callers, NEW l \in Leases, GrantLease(c, l)
      PROVE  interactionTokens'[j] <= Ceiling[j] + overrun'[j]
  <2> DEFINE x == calls[c].req
             b == calls[c].budget
             i == TrackedInteraction(x, b)
  <2>1. /\ calls[c] # Idle /\ ~InteractionCeilingDenied(x, b)
        /\ overrun' = overrun
        /\ interactionTokens' = IF i = NoInteraction THEN interactionTokens
             ELSE [interactionTokens EXCEPT ![i] = @ + x.input + x.output]
    BY <1>1 DEF GrantLease, Admitted
  <2>2. x.input \in Nat /\ x.output \in Nat /\ b \in Nat
    BY <2>1, PendingCallType, ConfigAssumption
  <2>3. i = j => b > 0 /\ x.interaction = j /\ j # NoInteraction
    BY NameAssumption DEF TrackedInteraction
  <2>4. i = j => b = Ceiling[j]
    BY <2>1, <2>3 DEF CallsCarryCeilings
  <2>5. i = j => ~(interactionTokens[j] + x.input + x.output > Ceiling[j])
    BY <2>1, <2>3, <2>4 DEF InteractionCeilingDenied
  <2> HIDE DEF x, b, i
  <2>6. CASE i = j
    <3>1. interactionTokens'[j] = interactionTokens[j] + x.input + x.output
      BY <2>1, <2>3, <2>6 DEF TypeOK
    <3> QED
      BY <1>0, <2>1, <2>2, <2>5, <2>6, <3>1
  <2>7. CASE i # j
    BY <1>0, <2>1, <2>7 DEF TypeOK
  <2> QED
    BY <2>6, <2>7
<1>2. ASSUME NEW l \in Leases, NEW input \in Nat, NEW output \in Nat,
             FinalizeOpen(l, input, output)
      PROVE  interactionTokens'[j] <= Ceiling[j] + overrun'[j]
  <2> DEFINE i == active[l].interaction
             delta == (input + output) - (active[l].input + active[l].output)
  <2>1. Tracked(l)
    BY <1>2 DEF FinalizeOpen, Unsettled
  <2>2. delta \in Int
    BY <2>1, LeaseType
  <2>3. /\ interactionTokens' = IF i = NoInteraction THEN interactionTokens
             ELSE [interactionTokens EXCEPT ![i] = Excess(@ + delta)]
        /\ overrun' = IF i = NoInteraction THEN overrun
             ELSE [overrun EXCEPT ![i] = @ + Excess(delta)]
    BY <1>2 DEF FinalizeOpen, AdjustInteractionTokens
  <2> HIDE DEF i, delta
  <2>4. CASE i = j
    <3>1. interactionTokens'[j] = Excess(interactionTokens[j] + delta)
          /\ overrun'[j] = overrun[j] + Excess(delta)
      BY <2>3, <2>4, NameAssumption DEF TypeOK
    <3> QED
      BY <1>0, <2>2, <3>1 DEF Excess
  <2>5. CASE i # j
    BY <1>0, <2>3, <2>5 DEF TypeOK
  <2> QED
    BY <2>4, <2>5
<1>3. ASSUME NEW i \in Interactions, EvictInteraction(i)
      PROVE  interactionTokens'[j] <= Ceiling[j] + overrun'[j]
  BY <1>0, <1>3 DEF EvictInteraction, TypeOK
<1>4. CASE UNCHANGED <<interactionTokens, overrun>>
  BY <1>0, <1>4
<1>5. ASSUME NEW l \in Leases, NEW t \in Actuals, SettleLease(l, t[1], t[2])
      PROVE  interactionTokens'[j] <= Ceiling[j] + overrun'[j]
  <2>1. t[1] \in Nat /\ t[2] \in Nat
    BY <1>5, TokenAssumption, ConfigAssumption DEF SettleLease, ValidTokenCount
  <2>2. FinalizeOpen(l, t[1], t[2]) \/ UNCHANGED <<interactionTokens, overrun>>
    BY <1>5 DEF SettleLease, Finalize, FinalizeAfterReset, FinalizeNoop, historyVars
  <2> QED
    BY <1>2, <1>4, <2>1, <2>2
<1>6. ASSUME NEW l \in Leases, ReleaseLease(l)
      PROVE  interactionTokens'[j] <= Ceiling[j] + overrun'[j]
  <2>1. FinalizeOpen(l, 0, 0) \/ UNCHANGED <<interactionTokens, overrun>>
    BY <1>6 DEF ReleaseLease, Finalize, FinalizeAfterReset, FinalizeNoop, historyVars
  <2> QED
    BY <1>2, <1>4, <2>1
<1>7. \/ \E c \in Callers, l \in Leases : GrantLease(c, l)
      \/ Close
      \/ \E i \in Interactions : EvictInteraction(i)
      \/ UNCHANGED <<interactionTokens, overrun>>
  BY DEF Next, Acquire, Reap, Environment, BeginAcquire, DenyLease, RejectCollision,
         Tick, BeginPass, ReapExpired, ReapLease, PurgeLease, KeepLease, ResetDaily,
         SnapshotInteractionBudget, DiscardInteractionBudget, vars, historyVars
<1> QED
  BY <1>1, <1>3, <1>4, <1>5, <1>6, <1>7 DEF Close

\* Which leases a step can open: only a grant turns a lease unsettled, and then
\* only the one it grants.
LEMMA OnlyGrantOpens ==
  ASSUME TypeOK, [Next]_vars, NEW k \in Leases, Unsettled(k)',
         ~ \E c \in Callers : GrantLease(c, k)
  PROVE  Unsettled(k) /\ active'[k].agent = active[k].agent
<1>1. CASE Untouched
  BY <1>1 DEF Untouched, Unsettled, Tracked
<1>2. ASSUME NEW c \in Callers, NEW l \in Leases, GrantLease(c, l)
      PROVE  Unsettled(k) /\ active'[k].agent = active[k].agent
  <2>1. active'[k] = active[k]
    BY <1>2 DEF GrantLease, TypeOK
  <2> QED
    BY <2>1 DEF Unsettled, Tracked
<1>3. ASSUME NEW l \in Leases, MarkSettled(l), Unsettled(l)
      PROVE  Unsettled(k) /\ active'[k].agent = active[k].agent
  <2>1. active[l] \in LeaseRecords
    BY <1>3, LeaseType DEF Unsettled
  <2>2. k # l => active'[k] = active[k]
    BY <1>3 DEF MarkSettled, TypeOK
  <2>3. k = l => active'[k].settled
    BY <1>3, <2>1 DEF MarkSettled, TypeOK, LeaseRecords
  <2> QED
    BY <2>2, <2>3 DEF Unsettled, Tracked
<1>4. ASSUME NEW l \in Leases, Purged(l)
      PROVE  Unsettled(k) /\ active'[k].agent = active[k].agent
  BY <1>4 DEF Purged, TypeOK, Unsettled, Tracked
<1>5. CASE Tick
  <2>1. \/ active'[k] = active[k]
        \/ Tracked(k) /\ active'[k] = [active[k] EXCEPT !.age = @ + 1]
    BY <1>5 DEF Tick
  <2>2. Tracked(k) => active[k] \in LeaseRecords
    BY LeaseType
  <2> QED
    BY <2>1, <2>2 DEF Unsettled, Tracked, LeaseRecords
<1>6. CASE ResetDaily
  BY <1>6 DEF ResetDaily, Unsettled, Tracked
<1> QED
  BY <1>1, <1>2, <1>3, <1>4, <1>5, <1>6, LedgerSteps DEF Reconciled, SettledWithoutHold

\* The in-flight leases of an agent are a finite set.
LEMMA ActiveFinite ==
  ASSUME NEW a PROVE IsFiniteSet(ActiveLeasesFor(a)) /\ IsFiniteSet(ActiveLeasesFor(a)')
BY FiniteAssumption, FS_Subset DEF ActiveLeasesFor

\* No step takes an agent past the cap: a grant adds one lease to an agent that
\* is below it under the same lock.
LEMMA CapStep == TypeOK /\ LeaseCapHolds /\ [Next]_vars => LeaseCapHolds'
<1> SUFFICES ASSUME TypeOK, LeaseCapHolds, [Next]_vars, NEW a \in Agents
             PROVE  Cardinality(ActiveLeasesFor(a)') <= MaxActiveLeases
  BY DEF LeaseCapHolds
<1>0. /\ Cardinality(ActiveLeasesFor(a)) <= MaxActiveLeases
      /\ Cardinality(ActiveLeasesFor(a)) \in Nat
      /\ Cardinality(ActiveLeasesFor(a)') \in Nat
  BY ActiveFinite, FS_CardinalityType DEF LeaseCapHolds
<1>1. ASSUME NEW c \in Callers, NEW l \in Leases, GrantLease(c, l)
      PROVE  Cardinality(ActiveLeasesFor(a)') <= MaxActiveLeases
  <2>1. /\ Cardinality(ActiveLeasesFor(calls[c].req.agent)) < MaxActiveLeases
        /\ ~Tracked(l)
    BY <1>1 DEF GrantLease, Admitted, FreshID
  <2>2. active'[l].agent = calls[c].req.agent
    BY <1>1 DEF GrantLease, TypeOK
  <2>3. \A k \in Leases \ {l} : active'[k] = active[k]
    BY <1>1 DEF GrantLease, TypeOK
  <2>4. CASE a = calls[c].req.agent
    <3>1. ActiveLeasesFor(a)' \subseteq ActiveLeasesFor(a) \cup {l}
      BY <2>3 DEF ActiveLeasesFor, Unsettled, Tracked
    <3>2. l \notin ActiveLeasesFor(a)
      BY <2>1 DEF ActiveLeasesFor, Unsettled
    <3>3. /\ IsFiniteSet(ActiveLeasesFor(a) \cup {l})
          /\ Cardinality(ActiveLeasesFor(a) \cup {l}) = Cardinality(ActiveLeasesFor(a)) + 1
      BY <3>2, ActiveFinite, FS_AddElement
    <3>4. Cardinality(ActiveLeasesFor(a)') <= Cardinality(ActiveLeasesFor(a)) + 1
      BY <3>1, <3>3, FS_Subset
    <3> QED
      BY <1>0, <2>1, <2>4, <3>4, ConfigAssumption
  <2>5. CASE a # calls[c].req.agent
    <3>1. ActiveLeasesFor(a)' \subseteq ActiveLeasesFor(a)
      BY <2>2, <2>3, <2>5 DEF ActiveLeasesFor, Unsettled, Tracked
    <3>2. Cardinality(ActiveLeasesFor(a)') <= Cardinality(ActiveLeasesFor(a))
      BY <3>1, ActiveFinite, FS_Subset
    <3> QED
      BY <1>0, <3>2, ConfigAssumption
  <2> QED
    BY <2>4, <2>5
<1>2. ASSUME ~ \E c \in Callers, l \in Leases : GrantLease(c, l)
      PROVE  Cardinality(ActiveLeasesFor(a)') <= MaxActiveLeases
  <2>1. ActiveLeasesFor(a)' \subseteq ActiveLeasesFor(a)
    BY <1>2, OnlyGrantOpens DEF ActiveLeasesFor
  <2>2. Cardinality(ActiveLeasesFor(a)') <= Cardinality(ActiveLeasesFor(a))
    BY <2>1, ActiveFinite, FS_Subset
  <2> QED
    BY <1>0, <2>2, ConfigAssumption
<1> QED
  BY <1>1, <1>2

-----------------------------------------------------------------------------
\* The initial state satisfies the inductive invariant.
LEMMA InitLedger == Init => LedgerInv
<1> SUFFICES ASSUME Init PROVE LedgerInv
  OBVIOUS
<1>1. TypeOK
  BY InitType
<1>2. HoldsMatchLeases /\ PurgedAreGone
  BY DEF Init, HoldsMatchLeases, PurgedAreGone
<1>3. LeaseCapHolds
  <2>1. \A a \in Agents : ActiveLeasesFor(a) = {}
    BY DEF Init, ActiveLeasesFor, Unsettled, Tracked
  <2> QED
    BY <2>1, FS_EmptySet, ConfigAssumption DEF LeaseCapHolds
<1>4. BudgetsHold
  BY LimitType DEF Init, BudgetsHold
<1>5. CallsCarryCeilings /\ CeilingHolds
  BY LimitAssumption DEF Init, CallsCarryCeilings, CeilingHolds
<1> QED
  BY <1>1, <1>2, <1>3, <1>4, <1>5 DEF LedgerInv

\* The inductive invariant holds in every reachable state.
THEOREM LedgerInvariant == Spec => []LedgerInv
<1>1. LedgerInv /\ [Next]_vars => LedgerInv'
  BY NextType, HoldsStep, CapStep, BudgetsStep, CallsStep, CeilingStep, PurgedStep
     DEF LedgerInv
<1> QED
  BY <1>1, InitLedger, PTL DEF Spec

\* Holds and unsettled leases match one to one, at the granted price, whatever
\* the interleaving of RPCs, reaper and reset.
THEOREM HoldsAlwaysMatch == Spec => []HoldsMatchLeases
<1>1. LedgerInv => HoldsMatchLeases
  BY DEF LedgerInv
<1> QED
  BY <1>1, LedgerInvariant, PTL

\* No agent ever holds more leases in flight than MaxActiveLeases.
THEOREM CapAlwaysHolds == Spec => []LeaseCapHolds
<1>1. LedgerInv => LeaseCapHolds
  BY DEF LedgerInv
<1> QED
  BY <1>1, LedgerInvariant, PTL

\* Spend in a limited scope exceeds its limit at most by what CheckBudget could
\* not price.
THEOREM BudgetsAlwaysHold == Spec => []BudgetsHold
<1>1. LedgerInv => BudgetsHold
  BY DEF LedgerInv
<1> QED
  BY <1>1, LedgerInvariant, PTL

\* An interaction's total exceeds its ceiling at most by reported overruns.
THEOREM CeilingsAlwaysHold == Spec => []CeilingHolds
<1>1. LedgerInv => CeilingHolds
  BY DEF LedgerInv
<1> QED
  BY <1>1, LedgerInvariant, PTL

\* Dollars move only when a lease opens or closes or the day is reset: late,
\* duplicated and unknown settlements never revise a charge.
THEOREM ChargesAlwaysFinal == Spec => ChargesAreFinal
<1> DEFINE A == usd' # usd =>
                  \/ \E l \in Leases : (Unsettled(l) # Unsettled(l)')
                  \/ /\ usd' = [s \in Scopes |-> 0]
                     /\ provisional' = [l \in Leases |-> NoCharge]
<1>1. TypeOK /\ [Next]_vars => [A]_vars
  <2> SUFFICES ASSUME TypeOK, [Next]_vars, usd' # usd PROVE A
    OBVIOUS
  <2>1. ASSUME NEW c \in Callers, NEW l \in Leases, GrantLease(c, l) PROVE A
    <3>1. ~Unsettled(l)
      BY <2>1 DEF GrantLease, FreshID, Unsettled
    <3>2. active'[l] # NoLease /\ ~active'[l].settled
      BY <2>1 DEF GrantLease, TypeOK, NoLease
    <3> QED
      BY <3>1, <3>2 DEF Unsettled, Tracked
  <2>2. ASSUME NEW l \in Leases, Reconciled(l) PROVE A
    <3>1. Unsettled(l) /\ MarkSettled(l) /\ active[l] \in LeaseRecords
      BY <2>2, LeaseType DEF Reconciled, Unsettled
    <3>2. active'[l].settled
      BY <3>1 DEF MarkSettled, TypeOK, LeaseRecords
    <3>3. ~Unsettled(l)'
      BY <3>2 DEF Unsettled
    <3> QED
      BY <3>1, <3>3
  <2>3. CASE ResetDaily
    BY <2>3 DEF ResetDaily
  <2>4. \/ \E c \in Callers, l \in Leases : GrantLease(c, l)
        \/ \E l \in Leases : Reconciled(l)
        \/ ResetDaily
    BY LedgerSteps DEF Untouched, SettledWithoutHold, Purged, Tick, counterVars
  <2> QED
    BY <2>1, <2>2, <2>3, <2>4
<1> QED
  BY <1>1, TypeCorrect, PTL DEF Spec, ChargesAreFinal

\* A closed lease is never open again, and a purged id never returns.
THEOREM NeverReopens == Spec => NeverReopened
<1> DEFINE A == \A l \in Leases :
                  /\ Tracked(l) /\ active[l].settled => ~Unsettled(l)'
                  /\ l \in purged => ~Tracked(l)'
<1>1. LedgerInv /\ LedgerInv' /\ [Next]_vars => [A]_vars
  <2> SUFFICES ASSUME LedgerInv, LedgerInv', [Next]_vars, NEW l \in Leases
               PROVE  /\ Tracked(l) /\ active[l].settled => ~Unsettled(l)'
                      /\ l \in purged => ~Tracked(l)'
    OBVIOUS
  <2>1. TypeOK
    BY DEF LedgerInv
  <2>2. Tracked(l) /\ active[l].settled => ~Unsettled(l)'
    <3> SUFFICES ASSUME Tracked(l), active[l].settled, Unsettled(l)' PROVE FALSE
      OBVIOUS
    <3>1. ~ \E c \in Callers : GrantLease(c, l)
      BY DEF GrantLease, FreshID
    <3> QED
      BY <2>1, <3>1, OnlyGrantOpens DEF Unsettled
  <2>3. purged \subseteq purged'
    BY DEF Next, Acquire, Close, Reap, Environment, BeginAcquire, DenyLease, RejectCollision,
           GrantLease, SettleLease, ReleaseLease, Finalize, Tick, BeginPass, ReapExpired,
           ReapLease, PurgeLease, KeepLease, ResetDaily, SnapshotInteractionBudget,
           DiscardInteractionBudget, EvictInteraction, vars, reaperVars
  <2>4. l \in purged => ~Tracked(l)'
    BY <2>3 DEF LedgerInv, PurgedAreGone
  <2> QED
    BY <2>2, <2>4
<1> QED
  BY <1>1, LedgerInvariant, PTL DEF Spec, NeverReopened

-----------------------------------------------------------------------------
(***************************************************************************)
(* The wallet implements the abstract lease ledger, for every value of its *)
(* constants.  The history variable account supplies the scopes and the    *)
(* charge of the mapping; what the refinement needs of it is that a hold   *)
(* is worth what its lease was charged, at the scopes it was charged to.   *)
(***************************************************************************)

Accounts ==
  [workflow : Workflows \cup {GlobalScope}, agent : Agents \cup {GlobalScope},
   interaction : Interactions \cup {NoInteraction}, usd : Int, tokens : Nat,
   residue : Int, cut : BOOLEAN]

\* An id that was not minted yet is charged nothing; a lease in flight is charged
\* to its own scopes, and what its hold stands for as long as there is one.
AccountsMatch ==
  /\ account \in [Leases -> Accounts]
  /\ \A l \in Leases :
       /\ FreshID(l) => account[l].usd = 0
       /\ Tracked(l) => /\ account[l].workflow = active[l].workflow
                        /\ account[l].agent = active[l].agent
       /\ provisional[l] # NoCharge => account[l].usd = provisional[l].usd

RefinementInv == LedgerInv /\ AccountsMatch

-----------------------------------------------------------------------------
\* The steps once more, with what they do to the accounts.

Charge(l, d, n) == account' = [account EXCEPT ![l].usd = d, ![l].tokens = n]

ClosedAtCost(l) ==
  /\ Unsettled(l) /\ provisional[l] # NoCharge /\ MarkSettled(l) /\ UNCHANGED purged
  /\ \E i, o, n \in Nat : Reconcile(l, i, o) /\ Charge(l, EstimateCost(active[l].model, i, o), n)
ClosedAfterReset(l) ==
  /\ Unsettled(l) /\ provisional[l] = NoCharge /\ MarkSettled(l)
  /\ account' = account \/ \E n \in Nat, d \in Int :
                            account' = [account EXCEPT ![l].tokens = n, ![l].residue = d]
  /\ UNCHANGED <<provisional, usd, purged>>
Dropped(l) ==
  /\ Tracked(l) /\ active[l].settled /\ active' = [active EXCEPT ![l] = NoLease]
  /\ purged' = purged \cup {l}
  /\ UNCHANGED <<provisional, usd, account>>
Unmoved == UNCHANGED <<active, provisional, usd, account, purged>>

\* SettleLease and ReleaseLease.
LEMMA FinalizeCharges ==
  ASSUME TypeOK, NEW l \in Leases, NEW i \in Nat, NEW o \in Nat, Finalize(l, i, o)
  PROVE  ClosedAtCost(l) \/ ClosedAfterReset(l) \/ Unmoved
<1>1. UNCHANGED purged
  BY DEF Finalize, reaperVars
<1>2. CASE FinalizeOpen(l, i, o)
  <2>1. i + o \in Nat
    OBVIOUS
  <2>2. Charge(l, EstimateCost(active[l].model, i, o), i + o)
    BY <1>2 DEF FinalizeOpen, Charge
  <2> QED
    BY <1>1, <1>2, <2>1, <2>2 DEF FinalizeOpen, ClosedAtCost
<1>3. CASE FinalizeAfterReset(l, i, o)
  <2> DEFINE d == IF Attributed(l) THEN (active[l].input + active[l].output) - (i + o) ELSE 0
  <2>1. /\ Unsettled(l) /\ provisional[l] = NoCharge /\ MarkSettled(l)
        /\ UNCHANGED <<provisional, usd>>
        /\ account' = [account EXCEPT ![l].tokens = i + o, ![l].residue = d]
    BY <1>3 DEF FinalizeAfterReset, counterVars
  <2>2. active[l].input \in Nat /\ active[l].output \in Nat
    BY <2>1, LeaseType DEF Unsettled
  <2>3. i + o \in Nat /\ d \in Int
    BY <2>2
  <2> HIDE DEF d
  <2> QED
    BY <1>1, <2>1, <2>3 DEF ClosedAfterReset
<1>4. CASE FinalizeNoop(l)
  BY <1>1, <1>4 DEF FinalizeNoop, Unmoved, counterVars, historyVars
<1> QED
  BY <1>2, <1>3, <1>4 DEF Finalize

\* A visit of the reaper: the lease is closed at its grant, dropped or kept.
LEMMA ReapCharges ==
  ASSUME TypeOK, account \in [Leases -> Accounts], NEW l \in Leases, ReapExpired(l)
  PROVE  ClosedAtCost(l) \/ ClosedAfterReset(l) \/ Dropped(l) \/ Unmoved
<1>1. CASE ReapLease(l)
  <2>1. Unsettled(l) /\ MarkSettled(l) /\ UNCHANGED purged
    BY <1>1 DEF ReapLease, Expired
  <2>2. active[l].input \in Nat /\ active[l].output \in Nat
    BY <2>1, LeaseType DEF Unsettled
  <2>3. CASE provisional[l] = NoCharge
    BY <1>1, <2>1, <2>3 DEF ReapLease, ClosedAfterReset, counterVars, historyVars
  <2>4. CASE provisional[l] # NoCharge
    <3> DEFINE cost == EstimateCost(active[l].model, active[l].input, active[l].output)
    <3>1. /\ Reconcile(l, active[l].input, active[l].output)
          /\ account' = [account EXCEPT ![l].usd = cost]
      BY <1>1, <2>4 DEF ReapLease
    <3> HIDE DEF cost
    <3>2. account[l].tokens \in Nat /\ Charge(l, cost, account[l].tokens)
      BY <3>1 DEF Charge, Accounts
    <3> QED
      BY <2>1, <2>2, <2>4, <3>1, <3>2 DEF ClosedAtCost, cost
  <2> QED
    BY <2>3, <2>4
<1>2. CASE PurgeLease(l)
  BY <1>2 DEF PurgeLease, Purgeable, Dropped, counterVars, historyVars
<1>3. CASE KeepLease(l)
  BY <1>3 DEF KeepLease, Unmoved, counterVars, historyVars
<1> QED
  BY <1>1, <1>2, <1>3 DEF ReapExpired

LEMMA AccountSteps ==
  ASSUME TypeOK, account \in [Leases -> Accounts], [Next]_vars
  PROVE  \/ Unmoved
         \/ \E c \in Callers, l \in Leases : GrantLease(c, l)
         \/ \E l \in Leases : ClosedAtCost(l) \/ ClosedAfterReset(l) \/ Dropped(l)
         \/ \E i \in Interactions : EvictInteraction(i)
         \/ Tick \/ ResetDaily
<1>1. ASSUME NEW l \in Leases, NEW t \in Actuals, SettleLease(l, t[1], t[2])
      PROVE  ClosedAtCost(l) \/ ClosedAfterReset(l) \/ Unmoved
  <2>1. t[1] \in Nat /\ t[2] \in Nat /\ Finalize(l, t[1], t[2])
    BY <1>1, TokenAssumption, ConfigAssumption DEF SettleLease, ValidTokenCount
  <2> QED
    BY <2>1, FinalizeCharges
<1>2. ASSUME NEW l \in Leases, ReleaseLease(l)
      PROVE  ClosedAtCost(l) \/ ClosedAfterReset(l) \/ Unmoved
  BY <1>2, FinalizeCharges DEF ReleaseLease
<1>3. ASSUME NEW l \in Leases, ReapExpired(l)
      PROVE  ClosedAtCost(l) \/ ClosedAfterReset(l) \/ Dropped(l) \/ Unmoved
  BY <1>3, ReapCharges
<1>4. CASE \/ \E c \in Callers, x \in Requests : BeginAcquire(c, x)
           \/ \E c \in Callers : DenyLease(c)
           \/ \E c \in Callers, l \in Leases : RejectCollision(c, l)
           \/ BeginPass
           \/ \E i \in Interactions : SnapshotInteractionBudget(i) \/ DiscardInteractionBudget(i)
           \/ UNCHANGED vars
  BY <1>4 DEF Unmoved, BeginAcquire, DenyLease, RejectCollision, BeginPass,
       SnapshotInteractionBudget, DiscardInteractionBudget, vars, counterVars, reaperVars, historyVars
<1> QED
  BY <1>1, <1>2, <1>3, <1>4 DEF Next, Acquire, Close, Reap, Environment

-----------------------------------------------------------------------------
\* What a step leaves of the lease it is not about.
LEMMA MarkSettledFields ==
  ASSUME TypeOK, NEW l \in Leases, Tracked(l), MarkSettled(l)
  PROVE  /\ \A k \in Leases \ {l} : active'[k] = active[k]
         /\ active'[l] # NoLease /\ active'[l].settled
         /\ active'[l].workflow = active[l].workflow /\ active'[l].agent = active[l].agent
<1>1. active[l] \in LeaseRecords
  BY LeaseType
<1> QED
  BY <1>1 DEF MarkSettled, TypeOK, LeaseRecords, NoLease

\* A tick ages leases and touches nothing else of them.
LEMMA TickFields ==
  ASSUME TypeOK, NEW l \in Leases, Tick
  PROVE  /\ Tracked(l)' <=> Tracked(l)
         /\ Tracked(l) => /\ active'[l].settled = active[l].settled
                          /\ active'[l].workflow = active[l].workflow
                          /\ active'[l].agent = active[l].agent
<1>1. CASE ~Tracked(l)
  BY <1>1 DEF Tick, Tracked
<1>2. CASE Tracked(l)
  <2>1. active[l] \in LeaseRecords
    BY <1>2, LeaseType
  <2>2. active'[l] = active[l] \/ active'[l] = [active[l] EXCEPT !.age = @ + 1]
    BY DEF Tick
  <2> QED
    BY <1>2, <2>1, <2>2 DEF LeaseRecords, NoLease, Tracked
<1> QED
  BY <1>1, <1>2

\* What a grant writes.
LEMMA GrantFields ==
  ASSUME TypeOK, NEW c \in Callers, NEW l \in Leases, GrantLease(c, l)
  PROVE  /\ FreshID(l) /\ UNCHANGED purged
         /\ \A k \in Leases \ {l} : /\ active'[k] = active[k]
                                    /\ provisional'[k] = provisional[k]
         /\ active'[l] # NoLease /\ ~active'[l].settled
         /\ calls[c].req.input \in Nat /\ calls[c].req.output \in Nat
         /\ \E cost \in Int, i \in Interactions \cup {NoInteraction} :
              LET x == calls[c].req IN
              /\ provisional'[l] # NoCharge /\ provisional'[l].usd = cost
              /\ active'[l].workflow = x.workflow /\ active'[l].agent = x.agent
              /\ x.workflow \in Workflows /\ x.agent \in Agents
              /\ usd' = AddToScopes(x, cost)
              /\ account' = [account EXCEPT ![l] =
                   [workflow |-> x.workflow, agent |-> x.agent, interaction |-> i,
                    usd |-> cost, tokens |-> x.input + x.output, residue |-> 0, cut |-> FALSE]]
<1> DEFINE x == calls[c].req
           i == TrackedInteraction(x, calls[c].budget)
           cost == EstimateCost(x.model, x.input, x.output)
           hold == [agent |-> x.agent, workflow |-> x.workflow, model |-> x.model, usd |-> cost]
           new == [agent |-> x.agent, workflow |-> x.workflow, model |-> x.model,
                   input |-> x.input, output |-> x.output, interaction |-> i,
                   age |-> 0, settled |-> FALSE]
<1>1. /\ FreshID(l) /\ UNCHANGED purged /\ calls[c] # Idle
      /\ provisional' = [provisional EXCEPT ![l] = hold]
      /\ active' = [active EXCEPT ![l] = new]
      /\ usd' = AddToScopes(x, cost)
      /\ account' = [account EXCEPT ![l] =
           [workflow |-> x.workflow, agent |-> x.agent, interaction |-> i,
            usd |-> cost, tokens |-> x.input + x.output, residue |-> 0, cut |-> FALSE]]
  BY DEF GrantLease, RecordProvisional, reaperVars
<1>2. /\ x.agent \in Agents /\ x.workflow \in Workflows /\ x.model \in Models
      /\ x.input \in 0..MaxTokenCount /\ x.output \in 0..MaxTokenCount
      /\ x.interaction \in Interactions \cup {NoInteraction}
  BY <1>1, PendingCallType
<1>3. x.input \in Nat /\ x.output \in Nat
  BY <1>2, ConfigAssumption
<1>4. i \in Interactions \cup {NoInteraction}
  BY <1>2 DEF TrackedInteraction
<1>5. cost \in Int
  BY <1>2, <1>3, CostType
<1>6. /\ active'[l] = new /\ provisional'[l] = hold
      /\ \A k \in Leases \ {l} : active'[k] = active[k] /\ provisional'[k] = provisional[k]
  BY <1>1 DEF TypeOK
<1> HIDE DEF x, i, cost
<1>7. /\ new # NoLease /\ ~new.settled /\ hold # NoCharge /\ hold.usd = cost
      /\ new.workflow = x.workflow /\ new.agent = x.agent
  BY DEF NoLease, NoCharge
<1> QED
  BY <1>1, <1>2, <1>3, <1>4, <1>5, <1>6, <1>7 DEF x

\* Charging one lease changes that account alone, and in it the amounts alone.
LEMMA ChargeFields ==
  ASSUME account \in [Leases -> Accounts], NEW l \in Leases, NEW d \in Int, NEW n \in Nat,
         Charge(l, d, n)
  PROVE  /\ account' \in [Leases -> Accounts] /\ account'[l].usd = d /\ account'[l].tokens = n
         /\ \A k \in Leases \ {l} : account'[k] = account[k]
         /\ account'[l].workflow = account[l].workflow /\ account'[l].agent = account[l].agent
BY DEF Charge, Accounts

\* What a reset and an eviction write off leaves the rest of an account alone.
LEMMA HistoryFields ==
  ASSUME NEW r \in Accounts, NEW b \in BOOLEAN
  PROVE  /\ CutAccount(r, b) \in Accounts /\ CutAccount(r, b).usd = 0
         /\ CutAccount(r, b).workflow = r.workflow /\ CutAccount(r, b).agent = r.agent
         /\ ClearedAccount(r) \in Accounts /\ ClearedAccount(r).usd = r.usd
         /\ ClearedAccount(r).workflow = r.workflow /\ ClearedAccount(r).agent = r.agent
<1>1. 0 \in Nat /\ 0 \in Int
  OBVIOUS
<1>2. CutAccount(r, b) \in Accounts /\ ClearedAccount(r) \in Accounts
  BY <1>1, Zenon DEF CutAccount, ClearedAccount, Accounts
<1>3. /\ CutAccount(r, b).usd = 0
      /\ CutAccount(r, b).workflow = r.workflow /\ CutAccount(r, b).agent = r.agent
  BY DEF CutAccount, Accounts
<1>4. /\ ClearedAccount(r).usd = r.usd
      /\ ClearedAccount(r).workflow = r.workflow /\ ClearedAccount(r).agent = r.agent
  BY DEF ClearedAccount, Accounts
<1> QED
  BY <1>2, <1>3, <1>4

\* A settlement after a reset moves no dollar of any account.
LEMMA AfterResetFields ==
  ASSUME account \in [Leases -> Accounts], NEW l \in Leases, ClosedAfterReset(l)
  PROVE  /\ account' \in [Leases -> Accounts] /\ account'[l].usd = account[l].usd
         /\ \A k \in Leases \ {l} : account'[k] = account[k]
         /\ account'[l].workflow = account[l].workflow /\ account'[l].agent = account[l].agent
<1>1. CASE account' = account
  BY <1>1
<1>2. ASSUME NEW n \in Nat, NEW d \in Int,
             account' = [account EXCEPT ![l].tokens = n, ![l].residue = d]
      PROVE  /\ account'[l] = [account[l] EXCEPT !.tokens = n, !.residue = d]
             /\ account' \in [Leases -> Accounts]
             /\ \A k \in Leases \ {l} : account'[k] = account[k]
  BY <1>2 DEF Accounts
<1>3. ASSUME NEW n \in Nat, NEW d \in Int,
             account'[l] = [account[l] EXCEPT !.tokens = n, !.residue = d]
      PROVE  /\ account'[l].usd = account[l].usd /\ account'[l].workflow = account[l].workflow
             /\ account'[l].agent = account[l].agent
  BY <1>3 DEF Accounts
<1> QED
  BY <1>1, <1>2, <1>3 DEF ClosedAfterReset

\* A lease that is closed at its cost.
LEMMA ClosedFields ==
  ASSUME TypeOK, AccountsMatch, HoldsMatchLeases, NEW l \in Leases, ClosedAtCost(l)
  PROVE  /\ \A k \in Leases \ {l} : /\ active'[k] = active[k] /\ account'[k] = account[k]
                                    /\ provisional'[k] = provisional[k]
         /\ Tracked(l)' /\ active'[l].settled /\ provisional'[l] = NoCharge /\ UNCHANGED purged
         /\ active'[l].workflow = active[l].workflow /\ active'[l].agent = active[l].agent
         /\ account'[l].workflow = account[l].workflow /\ account'[l].agent = account[l].agent
         /\ account' \in [Leases -> Accounts]
         /\ usd' = AddToScopes(account[l], account'[l].usd - account[l].usd)
<1>1. Tracked(l) /\ ~active[l].settled /\ MarkSettled(l) /\ UNCHANGED purged /\ provisional[l] # NoCharge
  BY DEF ClosedAtCost, Unsettled
<1>2. PICK i \in Nat, o \in Nat, n \in Nat :
        Reconcile(l, i, o) /\ Charge(l, EstimateCost(active[l].model, i, o), n)
  BY DEF ClosedAtCost
<1> DEFINE d == EstimateCost(active[l].model, i, o)
<1>3. d \in Int
  <2>1. active[l].model \in Models
    BY <1>1, LeaseType
  <2> QED
    BY <2>1, CostType
<1>4. /\ provisional[l].model = active[l].model
      /\ provisional[l].workflow = active[l].workflow /\ provisional[l].agent = active[l].agent
  <2>1. PICK u : provisional[l] = [agent |-> active[l].agent, workflow |-> active[l].workflow,
                                   model |-> active[l].model, usd |-> u]
    BY <1>1, Zenon DEF HoldsMatchLeases
  <2> QED
    BY <2>1
<1>5. /\ provisional[l].usd = account[l].usd
      /\ active[l].workflow = account[l].workflow /\ active[l].agent = account[l].agent
  BY <1>1 DEF AccountsMatch
<1>6. usd' = AddToScopes(provisional[l], d - provisional[l].usd)
      /\ provisional' = [provisional EXCEPT ![l] = NoCharge]
  BY <1>2, <1>4 DEF Reconcile
<1> HIDE DEF d
<1>7. Charge(l, d, n)
  BY <1>2 DEF d
<1>8. /\ account' \in [Leases -> Accounts] /\ account'[l].usd = d
      /\ \A k \in Leases \ {l} : account'[k] = account[k]
      /\ account'[l].workflow = account[l].workflow /\ account'[l].agent = account[l].agent
  BY <1>3, <1>7, ChargeFields DEF AccountsMatch
<1>9. usd' = AddToScopes(account[l], account'[l].usd - account[l].usd)
  BY <1>4, <1>5, <1>6, <1>8 DEF AddToScopes, ScopesOf
<1>10. \A k \in Leases \ {l} : provisional'[k] = provisional[k]
  BY <1>6 DEF TypeOK
<1>11. provisional'[l] = NoCharge
  BY <1>6 DEF TypeOK
<1> QED
  BY <1>1, <1>8, <1>9, <1>10, <1>11, MarkSettledFields DEF Tracked

\* Every step keeps the accounts in step with leases and holds.
LEMMA AccountsStep ==
  ASSUME LedgerInv, AccountsMatch, [Next]_vars
  PROVE  AccountsMatch'
<1> DEFINE Goal == /\ account' \in [Leases -> Accounts]
                   /\ \A k \in Leases :
                        /\ FreshID(k)' => account'[k].usd = 0
                        /\ Tracked(k)' => /\ account'[k].workflow = active'[k].workflow
                                          /\ account'[k].agent = active'[k].agent
                        /\ provisional'[k] # NoCharge => account'[k].usd = provisional'[k].usd
<1>0. TypeOK /\ HoldsMatchLeases /\ PurgedAreGone /\ account \in [Leases -> Accounts]
  BY DEF LedgerInv, AccountsMatch
<1>1. CASE Unmoved
  BY <1>1 DEF Unmoved, AccountsMatch, FreshID, Tracked
<1>2. ASSUME NEW c \in Callers, NEW l \in Leases, GrantLease(c, l)
      PROVE  Goal
  <2> DEFINE x == calls[c].req
  <2>1. PICK cost \in Int, i \in Interactions \cup {NoInteraction} :
              /\ provisional'[l] # NoCharge /\ provisional'[l].usd = cost
              /\ active'[l].workflow = x.workflow /\ active'[l].agent = x.agent
              /\ x.workflow \in Workflows /\ x.agent \in Agents
              /\ account' = [account EXCEPT ![l] =
                   [workflow |-> x.workflow, agent |-> x.agent, interaction |-> i,
                    usd |-> cost, tokens |-> x.input + x.output, residue |-> 0, cut |-> FALSE]]
    BY <1>0, <1>2, GrantFields
  <2>2. /\ FreshID(l) /\ UNCHANGED purged /\ active'[l] # NoLease
        /\ \A k \in Leases \ {l} : active'[k] = active[k] /\ provisional'[k] = provisional[k]
        /\ x.input \in Nat /\ x.output \in Nat
    BY <1>0, <1>2, GrantFields
  <2> HIDE DEF x
  <2>3. account' \in [Leases -> Accounts]
    BY <1>0, <2>1, <2>2 DEF Accounts
  <2>4. /\ account'[l].usd = cost /\ account'[l].workflow = x.workflow /\ account'[l].agent = x.agent
        /\ \A k \in Leases \ {l} : account'[k] = account[k]
    BY <1>0, <2>1
  <2> QED
    BY <2>1, <2>2, <2>3, <2>4 DEF AccountsMatch, FreshID, Tracked
<1>3. ASSUME NEW l \in Leases, ClosedAtCost(l)
      PROVE  Goal
  <2>1. Tracked(l) /\ account[l].workflow = active[l].workflow /\ account[l].agent = active[l].agent
    BY <1>3 DEF AccountsMatch, ClosedAtCost, Unsettled
  <2> QED
    BY <1>0, <1>3, <2>1, ClosedFields DEF AccountsMatch, FreshID, Tracked
<1>4. ASSUME NEW l \in Leases, ClosedAfterReset(l)
      PROVE  Goal
  <2>1. Tracked(l) /\ MarkSettled(l) /\ UNCHANGED <<provisional, purged>>
    BY <1>4 DEF ClosedAfterReset, Unsettled
  <2>2. /\ account' \in [Leases -> Accounts] /\ account'[l].usd = account[l].usd
        /\ \A k \in Leases \ {l} : account'[k] = account[k]
        /\ account'[l].workflow = account[l].workflow /\ account'[l].agent = account[l].agent
    BY <1>0, <1>4, AfterResetFields
  <2> QED
    BY <1>0, <2>1, <2>2, MarkSettledFields DEF AccountsMatch, FreshID, Tracked
<1>5. ASSUME NEW l \in Leases, Dropped(l)
      PROVE  Goal
  <2>1. /\ \A k \in Leases \ {l} : active'[k] = active[k]
        /\ active'[l] = NoLease /\ l \in purged' /\ purged \subseteq purged'
        /\ \A k \in Leases \ {l} : k \in purged' => k \in purged
        /\ UNCHANGED <<provisional, account>>
    BY <1>0, <1>5 DEF Dropped, TypeOK
  <2> QED
    BY <2>1 DEF AccountsMatch, FreshID, Tracked
<1>6. ASSUME NEW i \in Interactions, EvictInteraction(i)
      PROVE  Goal
  <2>1. /\ UNCHANGED <<active, provisional, purged>>
        /\ account' = [l \in Leases |->
             IF account[l].interaction = i THEN ClearedAccount(account[l]) ELSE account[l]]
    BY <1>6 DEF EvictInteraction, counterVars, reaperVars
  <2>2. /\ account' \in [Leases -> Accounts]
        /\ \A k \in Leases : /\ account'[k].usd = account[k].usd
                             /\ account'[k].workflow = account[k].workflow
                             /\ account'[k].agent = account[k].agent
    BY <1>0, <2>1, HistoryFields
  <2> QED
    BY <2>1, <2>2 DEF AccountsMatch, FreshID, Tracked
<1>7. CASE Tick
  <2>1. UNCHANGED <<provisional, account, purged>>
    BY <1>7 DEF Tick, counterVars, historyVars
  <2> QED
    BY <1>0, <1>7, <2>1, TickFields DEF AccountsMatch, FreshID
<1>8. CASE ResetDaily
  <2>1. /\ UNCHANGED <<active, purged>> /\ provisional' = [l \in Leases |-> NoCharge]
        /\ account' = [l \in Leases |->
             CutAccount(account[l], account[l].cut \/ Attributed(l))]
    BY <1>8 DEF ResetDaily, reaperVars
  <2>2. /\ account' \in [Leases -> Accounts]
        /\ \A k \in Leases : /\ account'[k].usd = 0
                             /\ account'[k].workflow = account[k].workflow
                             /\ account'[k].agent = account[k].agent
    BY <1>0, <2>1, HistoryFields
  <2> QED
    BY <2>1, <2>2 DEF AccountsMatch, FreshID, Tracked
<1>9. Goal
  BY <1>0, <1>1, <1>2, <1>3, <1>4, <1>5, <1>6, <1>7, <1>8, AccountSteps DEF AccountsMatch
<1> QED
  BY <1>9 DEF AccountsMatch

-----------------------------------------------------------------------------
\* The mapping, lease by lease.
LEMMA LeaseStateOf ==
  ASSUME NEW l \in Leases
  PROVE  LeaseState(l) = IF Tracked(l) THEN IF active[l].settled THEN "closed" ELSE "open"
                         ELSE IF l \in purged THEN "closed" ELSE "new"
BY DEF LeaseState, Unsettled

LEMMA LeaseStateAfter ==
  ASSUME NEW l \in Leases
  PROVE  LeaseState(l)' = IF Tracked(l)' THEN IF active'[l].settled THEN "closed" ELSE "open"
                          ELSE IF l \in purged' THEN "closed" ELSE "new"
BY DEF LeaseState, Unsettled

\* A lease that a step does not touch keeps its abstract state.
LEMMA LeaseStateStays ==
  ASSUME NEW l \in Leases, Tracked(l)' <=> Tracked(l), l \in purged' <=> l \in purged,
         Tracked(l) => active'[l].settled = active[l].settled
  PROVE  LeaseState(l)' = LeaseState(l)
BY LeaseStateOf, LeaseStateAfter

\* A step that moves lease l alone, and the dollars of its scopes by its charge.
LEMMA OneLeaseMoves ==
  ASSUME TypeOK, AccountsMatch, AccountsMatch', NEW l \in Leases, NEW x,
         LeaseState(l)' = x,
         \A k \in Leases \ {l} : /\ active'[k] = active[k] /\ account'[k] = account[k]
                                 /\ k \in purged' <=> k \in purged,
         usd' = AddToScopes(account'[l], account'[l].usd - account[l].usd)
  PROVE  /\ [k \in Leases |-> LeaseState(k)]' = [[k \in Leases |-> LeaseState(k)] EXCEPT ![l] = x]
         /\ Ledger!Recharge(l)
<1>1. \A k \in Leases \ {l} : LeaseState(k)' = LeaseState(k)
  BY LeaseStateStays DEF Tracked
<1>2. [k \in Leases |-> LeaseState(k)]' = [[k \in Leases |-> LeaseState(k)] EXCEPT ![l] = x]
  BY <1>1
<1>3. Ledger!Recharge(l)
  <2>1. \A s \in Scopes : usd[s] + account'[l].usd - account[l].usd
                            = usd[s] + (account'[l].usd - account[l].usd)
    BY DEF AccountsMatch, TypeOK, Accounts
  <2> QED
    BY <2>1 DEF Ledger!Recharge, AddToScopes
<1> QED
  BY <1>2, <1>3

\* A step that moves no charge and no lease's abstract state is a stutter.
LEMMA LedgerStutters ==
  ASSUME UNCHANGED usd, account \in [Leases -> Accounts],
         \A k \in Leases : /\ Tracked(k)' <=> Tracked(k)
                           /\ k \in purged' <=> k \in purged
                           /\ Tracked(k) => active'[k].settled = active[k].settled
                           /\ account'[k].usd = account[k].usd
                           /\ account'[k].workflow = account[k].workflow
                           /\ account'[k].agent = account[k].agent
  PROVE  UNCHANGED Ledger!vars
<1>1. \A k \in Leases : LeaseState(k)' = LeaseState(k)
  BY LeaseStateStays
<1>2. [k \in Leases |-> LeaseState(k)]' = [k \in Leases |-> LeaseState(k)]
  BY <1>1
<1>3. [k \in Leases |-> ScopesOf(account[k])]' = [k \in Leases |-> ScopesOf(account[k])]
  BY DEF ScopesOf
<1>4. [k \in Leases |-> account[k].usd]' = [k \in Leases |-> account[k].usd]
  OBVIOUS
<1> QED
  BY <1>2, <1>3, <1>4 DEF Ledger!vars

\* A new lease: opened once, at its own charge.
LEMMA GrantOpens ==
  ASSUME LedgerInv, LedgerInv', AccountsMatch, AccountsMatch',
         NEW c \in Callers, NEW l \in Leases, GrantLease(c, l)
  PROVE  Ledger!Open(l)
<1> DEFINE x == calls[c].req
<1>1. TypeOK
  BY DEF LedgerInv
<1>2. PICK cost \in Int, i \in Interactions \cup {NoInteraction} :
              /\ provisional'[l] # NoCharge /\ provisional'[l].usd = cost
              /\ active'[l].workflow = x.workflow /\ active'[l].agent = x.agent
              /\ x.workflow \in Workflows /\ x.agent \in Agents
              /\ usd' = AddToScopes(x, cost)
              /\ account' = [account EXCEPT ![l] =
                   [workflow |-> x.workflow, agent |-> x.agent, interaction |-> i,
                    usd |-> cost, tokens |-> x.input + x.output, residue |-> 0, cut |-> FALSE]]
  BY <1>1, GrantFields, Zenon
<1>3. /\ FreshID(l) /\ UNCHANGED purged /\ active'[l] # NoLease /\ ~active'[l].settled
      /\ \A k \in Leases \ {l} : active'[k] = active[k]
  BY <1>1, GrantFields
<1> HIDE DEF x
<1>4. /\ account'[l].usd = cost /\ account'[l].workflow = x.workflow /\ account'[l].agent = x.agent
      /\ \A k \in Leases \ {l} : account'[k] = account[k]
  BY <1>2 DEF AccountsMatch
<1>5. account[l].usd = 0
  BY <1>3 DEF AccountsMatch
<1>6. usd' = AddToScopes(account'[l], account'[l].usd - account[l].usd)
  BY <1>2, <1>4, <1>5 DEF AddToScopes, ScopesOf
<1>7. LeaseState(l) = "new" /\ LeaseState(l)' = "open"
  BY <1>3, LeaseStateOf, LeaseStateAfter DEF FreshID, Tracked
<1>8. /\ [k \in Leases |-> LeaseState(k)]' = [[k \in Leases |-> LeaseState(k)] EXCEPT ![l] = "open"]
      /\ Ledger!Recharge(l)
  BY <1>1, <1>3, <1>4, <1>6, <1>7, OneLeaseMoves
<1> QED
  BY <1>7, <1>8 DEF Ledger!Open

\* A settlement, a release or the reaper closes an open lease at its last charge.
LEMMA CloseCloses ==
  ASSUME LedgerInv, LedgerInv', AccountsMatch, AccountsMatch', NEW l \in Leases,
         ClosedAtCost(l) \/ ClosedAfterReset(l)
  PROVE  Ledger!Close(l)
<1>1. TypeOK /\ HoldsMatchLeases
  BY DEF LedgerInv
<1>2. Unsettled(l) /\ MarkSettled(l) /\ UNCHANGED purged
  BY DEF ClosedAtCost, ClosedAfterReset
<1>3. /\ \A k \in Leases \ {l} : active'[k] = active[k]
      /\ active'[l] # NoLease /\ active'[l].settled
  BY <1>1, <1>2, MarkSettledFields DEF Unsettled
<1>4. /\ \A k \in Leases \ {l} : account'[k] = account[k]
      /\ account'[l].workflow = account[l].workflow /\ account'[l].agent = account[l].agent
      /\ usd' = AddToScopes(account[l], account'[l].usd - account[l].usd)
  <2>1. CASE ClosedAtCost(l)
    BY <1>1, <2>1, ClosedFields
  <2>2. CASE ClosedAfterReset(l)
    <3>1. UNCHANGED usd
      BY <2>2 DEF ClosedAfterReset
    <3>4. /\ account'[l].usd = account[l].usd /\ \A k \in Leases \ {l} : account'[k] = account[k]
          /\ account'[l].workflow = account[l].workflow /\ account'[l].agent = account[l].agent
      BY <2>2, AfterResetFields DEF AccountsMatch
    <3>2. account[l].usd \in Int /\ account'[l].usd - account[l].usd = 0
      BY <3>4 DEF AccountsMatch, Accounts
    <3>3. usd = AddToScopes(account[l], 0)
      BY <1>1 DEF AddToScopes, TypeOK
    <3> QED
      BY <3>1, <3>2, <3>3, <3>4
  <2> QED
    BY <2>1, <2>2
<1>5. usd' = AddToScopes(account'[l], account'[l].usd - account[l].usd)
  BY <1>4 DEF AddToScopes, ScopesOf
<1>6. LeaseState(l) = "open" /\ LeaseState(l)' = "closed"
  BY <1>2, <1>3, LeaseStateOf, LeaseStateAfter DEF Unsettled, Tracked
<1>7. /\ [k \in Leases |-> LeaseState(k)]' = [[k \in Leases |-> LeaseState(k)] EXCEPT ![l] = "closed"]
      /\ Ledger!Recharge(l)
  BY <1>1, <1>2, <1>3, <1>4, <1>5, <1>6, OneLeaseMoves
<1> QED
  BY <1>4, <1>6, <1>7 DEF Ledger!Close, ScopesOf

\* Every step of the wallet is a step of the ledger or none.
LEMMA LedgerStep ==
  ASSUME LedgerInv, LedgerInv', AccountsMatch, AccountsMatch', [Next]_vars
  PROVE  [Ledger!Next]_(Ledger!vars)
<1>0. TypeOK /\ account \in [Leases -> Accounts]
  BY DEF LedgerInv, AccountsMatch
<1>1. CASE Unmoved
  <2>1. UNCHANGED Ledger!vars
    BY <1>0, <1>1, LedgerStutters DEF Unmoved, Tracked
  <2> QED
    BY <2>1
<1>2. ASSUME NEW c \in Callers, NEW l \in Leases, GrantLease(c, l)
      PROVE  Ledger!Next
  BY <1>2, GrantOpens DEF Ledger!Next
<1>3. ASSUME NEW l \in Leases, ClosedAtCost(l) \/ ClosedAfterReset(l)
      PROVE  Ledger!Next
  BY <1>3, CloseCloses DEF Ledger!Next
<1>4. ASSUME NEW l \in Leases, Dropped(l)
      PROVE  UNCHANGED Ledger!vars
  <2>1. UNCHANGED <<usd, account>> /\ Tracked(l) /\ active[l].settled
    BY <1>4 DEF Dropped
  <2>2. /\ \A k \in Leases \ {l} : active'[k] = active[k] /\ (k \in purged' <=> k \in purged)
        /\ active'[l] = NoLease /\ l \in purged'
    BY <1>0, <1>4 DEF Dropped, TypeOK
  <2>3. LeaseState(l)' = LeaseState(l)
    BY <2>1, <2>2, LeaseStateOf, LeaseStateAfter DEF Tracked
  <2>4. \A k \in Leases : LeaseState(k)' = LeaseState(k)
    BY <2>2, <2>3, LeaseStateStays DEF Tracked
  <2>5. [k \in Leases |-> LeaseState(k)]' = [k \in Leases |-> LeaseState(k)]
    BY <2>4
  <2> QED
    BY <2>1, <2>5 DEF Ledger!vars, ScopesOf
<1>5. ASSUME NEW i \in Interactions, EvictInteraction(i)
      PROVE  UNCHANGED Ledger!vars
  <2>1. /\ UNCHANGED <<active, usd, purged>>
        /\ account' = [l \in Leases |->
             IF account[l].interaction = i THEN ClearedAccount(account[l]) ELSE account[l]]
    BY <1>5 DEF EvictInteraction, counterVars, reaperVars
  <2>2. \A k \in Leases : /\ account'[k].usd = account[k].usd
                          /\ account'[k].workflow = account[k].workflow
                          /\ account'[k].agent = account[k].agent
    BY <1>0, <2>1, HistoryFields
  <2> QED
    BY <1>0, <2>1, <2>2, LedgerStutters DEF Tracked
<1>6. CASE Tick
  <2>1. UNCHANGED <<usd, account, purged>>
    BY <1>6 DEF Tick, counterVars, historyVars
  <2>2. UNCHANGED Ledger!vars
    BY <1>0, <1>6, <2>1, TickFields, LedgerStutters
  <2> QED
    BY <2>2
<1>7. CASE ResetDaily
  <2>1. /\ UNCHANGED <<active, purged>> /\ usd' = [s \in Scopes |-> 0]
        /\ account' = [l \in Leases |->
             CutAccount(account[l], account[l].cut \/ Attributed(l))]
    BY <1>7 DEF ResetDaily, reaperVars
  <2>2. \A k \in Leases : /\ account'[k].usd = 0
                          /\ account'[k].workflow = account[k].workflow
                          /\ account'[k].agent = account[k].agent
    BY <1>0, <2>1, HistoryFields
  <2>3. \A k \in Leases : LeaseState(k)' = LeaseState(k)
    BY <2>1, LeaseStateStays DEF Tracked
  <2>4. /\ [k \in Leases |-> LeaseState(k)]' = [k \in Leases |-> LeaseState(k)]
        /\ [k \in Leases |-> account[k].usd]' = [k \in Leases |-> 0]
        /\ [k \in Leases |-> ScopesOf(account[k])]' = [k \in Leases |-> ScopesOf(account[k])]
    BY <2>2, <2>3 DEF ScopesOf
  <2>5. Ledger!NewDay
    BY <2>1, <2>4 DEF Ledger!NewDay
  <2> QED
    BY <2>5 DEF Ledger!Next
<1> QED
  BY <1>0, <1>1, <1>2, <1>3, <1>4, <1>5, <1>6, <1>7, AccountSteps

\* The wallet starts as an empty ledger.
LEMMA InitAccounts == Init => AccountsMatch /\ Ledger!Init
<1> SUFFICES ASSUME Init PROVE AccountsMatch /\ Ledger!Init
  OBVIOUS
<1>1. AccountsMatch
  BY DEF Init, AccountsMatch, Accounts, Tracked
<1>2. TypeOK
  BY InitType
<1>3. \A l \in Leases : LeaseState(l) = "new"
  BY LeaseStateOf DEF Init, Tracked
<1>4. \A l \in Leases : ScopesOf(account[l]) \subseteq Scopes /\ account[l].usd = 0
  BY DEF Init, ScopesOf, Scopes
<1>5. Ledger!Init
  BY <1>3, <1>4 DEF Init, Ledger!Init
<1> QED
  BY <1>1, <1>5

\* Accounts, holds and leases agree in every reachable state.
THEOREM RefinementInvariant == Spec => []RefinementInv
<1>1. Init => AccountsMatch
  BY InitAccounts
<1>2. LedgerInv /\ AccountsMatch /\ [Next]_vars => AccountsMatch'
  BY AccountsStep
<1> QED
  BY <1>1, <1>2, LedgerInvariant, PTL DEF Spec, RefinementInv

\* The wallet implements the lease ledger: whatever the interleaving of RPCs,
\* reaper and daily reset, and for any number of agents and leases, a lease opens
\* at most once and closes at most once, and each of these steps moves exactly the
\* scopes of that lease by exactly the change of its charge.
THEOREM WalletImplementsLedger == Spec => ImplementsLedger
<1>1. Init => Ledger!Init
  BY InitAccounts
<1>2. RefinementInv /\ RefinementInv' /\ [Next]_vars => [Ledger!Next]_(Ledger!vars)
  BY LedgerStep DEF RefinementInv
<1> QED
  BY <1>1, <1>2, RefinementInvariant, PTL DEF Spec, ImplementsLedger, Ledger!Spec

-----------------------------------------------------------------------------
(***************************************************************************)
(* What a lease is charged follows from what its client knew of the call,  *)
(* for every number of tasks, leases and attempts.                         *)
(***************************************************************************)
Tasks ==
  [phase : Phases, attempt : Nat, lease : Leases \cup {NoID}, granted : Int \X Int,
   contacted : BOOLEAN, spent : Int \X Int, usage : Int \X Int]
Rpcs == [task : Callers, attempt : Nat, lease : Leases, usage : Int \X Int]

\* What the client may ever ask its lease to be closed at.
MayReport(t) ==
  IF task[t].contacted THEN {task[t].spent, task[t].granted} ELSE {<<0, 0>>}

Held(l) == Unsettled(l) => provisional[l] # NoCharge
RequestOf(c) == <<calls[c].req.input, calls[c].req.output>>

\* The wallet, as far as its calls go: a lease in flight has its hold, since
\* nobody resets the counter here, and requests carry an estimate.
ServerInv ==
  /\ TypeOK /\ PurgedAreGone /\ account \in [Leases -> Accounts]
  /\ \A l \in Leases : Held(l)
  /\ \A c \in Callers : calls[c] # Idle => RequestOf(c) \in Estimates

\* Attempts are counted within the limits of what is attempted.
AttemptsInv ==
  /\ task \in [Callers -> Tasks] /\ rpcs \subseteq Rpcs
  /\ \A t \in Callers :
       /\ task[t].attempt \in 1..(AcquireMaxAttempts + SettleMaxAttempts)
       /\ task[t].phase \in {"idle", "acquiring"} => task[t].attempt <= AcquireMaxAttempts
  /\ \A r \in rpcs : r.attempt \in 1..SettleMaxAttempts

\* A block holds a lease from the grant on, marks the call before the provider
\* can use anything, and reports nothing but what it knows.
PhaseInv ==
  \A t \in Callers :
    /\ task[t].phase \in {"idle", "acquiring", "refused"} => task[t].lease = NoID
    /\ task[t].phase \in {"holding", "calling", "settling", "releasing"} => task[t].lease \in Leases
    /\ task[t].phase \in {"idle", "acquiring", "refused", "holding", "releasing"} => ~task[t].contacted
    /\ task[t].phase \in {"calling", "settling"} => task[t].contacted
    /\ task[t].phase \in {"settling", "releasing"} => task[t].usage \in MayReport(t)

\* A request is about the lease of the block that sent it, and tells what the
\* block knew when it was left.
RpcInv ==
  \A r \in rpcs :
    /\ r.lease = task[r.task].lease /\ r.usage \in MayReport(r.task)
    /\ task[r.task].phase \in {"settling", "releasing", "done", "gone"}

\* A lease belongs to one block at most, and was minted.
OwnerInv ==
  \A t \in Callers : task[t].lease # NoID =>
    /\ ~FreshID(task[t].lease)
    /\ \A u \in Callers : task[u].lease = task[t].lease => u = t

\* An open lease is held at its grant, and so is one whose block has not been
\* left; a closed one at what was reported, or at its grant; and one that nobody
\* knows of at an estimate.
ChargeInv ==
  /\ \A t \in Callers : task[t].lease # NoID =>
       (Unsettled(task[t].lease) \/ task[t].phase \in {"holding", "calling"} =>
          account[task[t].lease].tokens = Total(task[t].granted))
  /\ ChargeMatchesCall
  /\ \A l \in Leases : ~FreshID(l) /\ (\A t \in Callers : task[t].lease # l) =>
       \E x \in Estimates : account[l].tokens = Total(x)

ClientInv == AttemptsInv /\ PhaseInv /\ RpcInv
CallInv == ServerInv /\ ClientInv /\ OwnerInv /\ ChargeInv

-----------------------------------------------------------------------------
\* What a step does to one lease, as far as its call can tell.

Kept(l) ==
  /\ FreshID(l)' <=> FreshID(l)
  /\ Unsettled(l)' <=> Unsettled(l)
  /\ Closed(l)' <=> Closed(l)
  /\ Held(l)'
  /\ account'[l].tokens = account[l].tokens
Opened(l, n) ==
  /\ FreshID(l) /\ ~FreshID(l)' /\ Unsettled(l)' /\ ~Closed(l)' /\ Held(l)'
  /\ account'[l].tokens = n
ClosedAt(l, n) ==
  /\ Unsettled(l) /\ ~FreshID(l)' /\ ~Unsettled(l)' /\ Closed(l)'
  /\ account'[l].tokens = n

\* The three states of a lease exclude each other.
LEMMA OneState ==
  ASSUME PurgedAreGone, NEW l \in Leases
  PROVE  Closed(l) <=> ~FreshID(l) /\ ~Unsettled(l)
BY DEF PurgedAreGone, Closed, FreshID, Unsettled

\* A lease that keeps its entry and its account keeps everything.
LEMMA SameEntry ==
  ASSUME NEW l \in Leases, Held(l), active'[l] = active[l], account'[l] = account[l],
         provisional'[l] = provisional[l], l \in purged' <=> l \in purged
  PROVE  Kept(l)
BY DEF Kept, Held, FreshID, Unsettled, Closed, Tracked

\* Settling a lease closes it at n and leaves the others alone.
LEMMA SettleMoves ==
  ASSUME TypeOK, PurgedAreGone, account \in [Leases -> Accounts], \A k \in Leases : Held(k),
         NEW l \in Leases, NEW n, Unsettled(l), MarkSettled(l), UNCHANGED purged,
         provisional' = [provisional EXCEPT ![l] = NoCharge],
         account'[l].tokens = n, \A k \in Leases \ {l} : account'[k] = account[k]
  PROVE  ClosedAt(l, n) /\ \A k \in Leases \ {l} : Kept(k)
<1>1. /\ \A k \in Leases \ {l} : active'[k] = active[k]
      /\ active'[l] # NoLease /\ active'[l].settled
  BY MarkSettledFields DEF Unsettled
<1>2. \A k \in Leases \ {l} : provisional'[k] = provisional[k]
  BY DEF TypeOK
<1>3. ClosedAt(l, n)
  BY <1>1 DEF ClosedAt, FreshID, Unsettled, Closed, Tracked
<1>4. \A k \in Leases \ {l} : Kept(k)
  BY <1>1, <1>2, SameEntry
<1> QED
  BY <1>3, <1>4

\* The wallet's own steps, each with what it does to leases.

LEMMA GrantMoves ==
  ASSUME ServerInv, NEW c \in Callers, NEW l \in Leases, GrantLease(c, l)
  PROVE  /\ ServerInv' /\ RequestOf(c) \in Estimates /\ RequestOf(c) \in Nat \X Nat
         /\ Opened(l, Total(RequestOf(c))) /\ \A k \in Leases \ {l} : Kept(k)
<1> DEFINE x == calls[c].req
<1>0. TypeOK /\ PurgedAreGone /\ account \in [Leases -> Accounts] /\ \A k \in Leases : Held(k)
  BY DEF ServerInv
<1>1. TypeOK' /\ PurgedAreGone'
  BY <1>0, NextType, PurgedStep DEF Next, Acquire
<1>2. /\ FreshID(l) /\ UNCHANGED purged
      /\ \A k \in Leases \ {l} : active'[k] = active[k] /\ provisional'[k] = provisional[k]
      /\ active'[l] # NoLease /\ ~active'[l].settled
      /\ x.input \in Nat /\ x.output \in Nat
  BY <1>0, GrantFields
<1>3. PICK cost \in Int, i \in Interactions \cup {NoInteraction} :
        /\ provisional'[l] # NoCharge /\ x.workflow \in Workflows /\ x.agent \in Agents
        /\ account' = [account EXCEPT ![l] =
             [workflow |-> x.workflow, agent |-> x.agent, interaction |-> i,
              usd |-> cost, tokens |-> x.input + x.output, residue |-> 0, cut |-> FALSE]]
  BY <1>0, GrantFields
<1>4. calls[c] # Idle /\ calls' = [calls EXCEPT ![c] = Idle]
  BY DEF GrantLease
<1>5. RequestOf(c) \in Estimates /\ Total(RequestOf(c)) = x.input + x.output
      /\ RequestOf(c) \in Nat \X Nat
  BY <1>2, <1>4 DEF ServerInv, RequestOf, Total
<1> HIDE DEF x
<1>6. /\ account' \in [Leases -> Accounts] /\ account'[l].tokens = x.input + x.output
      /\ \A k \in Leases \ {l} : account'[k] = account[k]
  BY <1>0, <1>2, <1>3 DEF Accounts
<1>7. Opened(l, Total(RequestOf(c)))
  BY <1>2, <1>3, <1>5, <1>6 DEF Opened, FreshID, Unsettled, Closed, Tracked, Held
<1>8. \A k \in Leases \ {l} : Kept(k)
  BY <1>0, <1>2, <1>6, SameEntry
<1>9. \A d \in Callers : calls'[d] # Idle => RequestOf(d)' \in Estimates
  BY <1>0, <1>4 DEF ServerInv, RequestOf, TypeOK
<1> QED
  BY <1>1, <1>5, <1>6, <1>7, <1>8, <1>9 DEF ServerInv, Kept, Opened

LEMMA CloseMoves ==
  ASSUME ServerInv, NEW l \in Leases, NEW i \in Nat, NEW o \in Nat, Finalize(l, i, o)
  PROVE  /\ ServerInv' /\ (ClosedAt(l, i + o) \/ Kept(l))
         /\ \A k \in Leases \ {l} : Kept(k)
<1>0. TypeOK /\ PurgedAreGone /\ account \in [Leases -> Accounts] /\ \A k \in Leases : Held(k)
  BY DEF ServerInv
<1>1. TypeOK'
  BY <1>0, FinalizeType
<1>2. UNCHANGED <<calls, purged>>
  BY DEF Finalize, reaperVars
<1>3. CASE FinalizeOpen(l, i, o)
  <2>1. Unsettled(l) /\ MarkSettled(l) /\ provisional' = [provisional EXCEPT ![l] = NoCharge]
    BY <1>3 DEF FinalizeOpen, Reconcile
  <2>2. Charge(l, EstimateCost(active[l].model, i, o), i + o)
    BY <1>3 DEF FinalizeOpen, Charge
  <2>3. EstimateCost(active[l].model, i, o) \in Int /\ i + o \in Nat
    <3>1. active[l].model \in Models
      BY <1>0, <2>1, LeaseType DEF Unsettled
    <3> QED
      BY <3>1, CostType
  <2>4. /\ account' \in [Leases -> Accounts] /\ account'[l].tokens = i + o
        /\ \A k \in Leases \ {l} : account'[k] = account[k]
    BY <1>0, <2>2, <2>3, ChargeFields
  <2>5. ClosedAt(l, i + o) /\ \A k \in Leases \ {l} : Kept(k)
    BY <1>0, <1>2, <2>1, <2>4, SettleMoves
  <2>6. PurgedAreGone'
    BY <1>0, <1>2, <2>1 DEF PurgedAreGone, Unsettled, Tracked, MarkSettled, TypeOK
  <2>7. \A k \in Leases : Held(k)'
    BY <2>5 DEF Kept, ClosedAt, Held
  <2> QED
    BY <1>1, <1>2, <2>4, <2>5, <2>6, <2>7 DEF ServerInv, RequestOf
<1>4. CASE FinalizeAfterReset(l, i, o)
  BY <1>0, <1>4 DEF FinalizeAfterReset, Held
<1>5. CASE FinalizeNoop(l)
  <2>1. UNCHANGED <<active, provisional, account>>
    BY <1>5 DEF FinalizeNoop, counterVars, historyVars
  <2>2. \A k \in Leases : Kept(k)
    BY <1>0, <1>2, <2>1, SameEntry
  <2> QED
    BY <1>0, <1>1, <1>2, <2>1, <2>2 DEF ServerInv, Held, PurgedAreGone, RequestOf, Tracked, Unsettled
<1> QED
  BY <1>3, <1>4, <1>5 DEF Finalize

LEMMA ReapMoves ==
  ASSUME ServerInv, NEW l \in Leases, ReapExpired(l)
  PROVE  /\ ServerInv' /\ (ClosedAt(l, account[l].tokens) \/ Kept(l))
         /\ \A k \in Leases \ {l} : Kept(k)
<1>0. TypeOK /\ PurgedAreGone /\ account \in [Leases -> Accounts] /\ \A k \in Leases : Held(k)
  BY DEF ServerInv
<1>1. TypeOK' /\ PurgedAreGone'
  BY <1>0, NextType, PurgedStep DEF Next, Reap
<1>2. UNCHANGED calls
  BY DEF ReapExpired
<1>3. CASE ReapLease(l)
  <2>1. /\ Unsettled(l) /\ MarkSettled(l) /\ UNCHANGED purged /\ provisional[l] # NoCharge
        /\ Reconcile(l, active[l].input, active[l].output)
    BY <1>0, <1>3 DEF ReapLease, Expired, Held
  <2>2. PICK d : account' = [account EXCEPT ![l].usd = d]
    BY <1>3, <2>1, Zenon DEF ReapLease
  <2>3. /\ account'[l].tokens = account[l].tokens
        /\ \A k \in Leases \ {l} : account'[k] = account[k]
    BY <1>0, <2>2 DEF Accounts
  <2>4. account' \in [Leases -> Accounts]
    <3> DEFINE e == EstimateCost(active[l].model, active[l].input, active[l].output)
    <3>1. e \in Int
      <4>1. /\ active[l].model \in Models
            /\ active[l].input \in Nat /\ active[l].output \in Nat
        BY <1>0, <2>1, LeaseType DEF Unsettled
      <4> QED
        BY <4>1, CostType
    <3>2. account' = [account EXCEPT ![l].usd = e]
      BY <1>3, <2>1 DEF ReapLease
    <3> HIDE DEF e
    <3> QED
      BY <1>0, <3>1, <3>2 DEF Accounts
  <2>5. provisional' = [provisional EXCEPT ![l] = NoCharge]
    BY <2>1 DEF Reconcile
  <2>6. ClosedAt(l, account[l].tokens) /\ \A k \in Leases \ {l} : Kept(k)
    BY <1>0, <2>1, <2>3, <2>5, SettleMoves
  <2>7. \A k \in Leases : Held(k)'
    BY <2>6 DEF Kept, ClosedAt, Held
  <2> QED
    BY <1>1, <1>2, <2>4, <2>6, <2>7 DEF ServerInv, RequestOf
<1>4. CASE PurgeLease(l)
  <2>1. /\ Tracked(l) /\ active[l].settled /\ active' = [active EXCEPT ![l] = NoLease]
        /\ purged' = purged \cup {l} /\ UNCHANGED <<provisional, account>>
    BY <1>4 DEF PurgeLease, Purgeable, counterVars, historyVars
  <2>2. active'[l] = NoLease /\ \A k \in Leases \ {l} : active'[k] = active[k]
    BY <1>0, <2>1 DEF TypeOK
  <2>3. Kept(l)
    BY <2>1, <2>2 DEF Kept, FreshID, Unsettled, Closed, Tracked, Held
  <2>4. \A k \in Leases \ {l} : Kept(k)
    BY <1>0, <2>1, <2>2, SameEntry
  <2> QED
    BY <1>0, <1>1, <1>2, <2>1, <2>3, <2>4 DEF ServerInv, RequestOf, Kept
<1>5. CASE KeepLease(l)
  <2>1. UNCHANGED <<active, provisional, account, purged>>
    BY <1>5 DEF KeepLease, counterVars, historyVars
  <2>2. \A k \in Leases : Kept(k)
    BY <1>0, <2>1, SameEntry
  <2> QED
    BY <1>0, <1>1, <1>2, <2>1, <2>2 DEF ServerInv, RequestOf, Kept
<1> QED
  BY <1>3, <1>4, <1>5 DEF ReapExpired

\* Time passes, a pass begins, a request is taken or refused, or the wallet rests.
QuietMove ==
  \/ Tick \/ BeginPass \/ UNCHANGED vars
  \/ \E c \in Callers : DenyLease(c) \/ \E l \in Leases : RejectCollision(c, l)
  \/ \E c \in Callers, x \in Requests : <<x.input, x.output>> \in Estimates /\ BeginAcquire(c, x)

LEMMA QuietMoves ==
  ASSUME ServerInv, QuietMove
  PROVE  ServerInv' /\ \A k \in Leases : Kept(k)
<1>0. TypeOK /\ PurgedAreGone /\ account \in [Leases -> Accounts] /\ \A k \in Leases : Held(k)
  BY DEF ServerInv
<1>1. TypeOK' /\ PurgedAreGone'
  <2>1. [Next]_vars
    BY DEF QuietMove, Next, Acquire, Reap
  <2> QED
    BY <1>0, <2>1, NextType, PurgedStep
<1>2. UNCHANGED <<provisional, account, purged>>
  BY DEF QuietMove, Tick, BeginPass, DenyLease, RejectCollision, BeginAcquire, vars,
         counterVars, reaperVars, historyVars
<1>3. \A k \in Leases : Kept(k)
  <2>1. CASE Tick
    <3>1. \A k \in Leases : /\ Tracked(k)' <=> Tracked(k)
                            /\ Tracked(k) => active'[k].settled = active[k].settled
      BY <1>0, <2>1, TickFields
    <3> QED
      BY <1>0, <1>2, <3>1 DEF Kept, FreshID, Unsettled, Closed, Held
  <2>2. CASE ~Tick
    <3>1. UNCHANGED active
      BY <2>2 DEF QuietMove, BeginPass, DenyLease, RejectCollision, BeginAcquire, vars
    <3> QED
      BY <1>0, <1>2, <3>1, SameEntry
  <2> QED
    BY <2>1, <2>2
<1>4. \A d \in Callers : calls'[d] # Idle => RequestOf(d)' \in Estimates
  <2>1. CASE \E c \in Callers, x \in Requests :
               <<x.input, x.output>> \in Estimates /\ BeginAcquire(c, x)
    <3>0. PICK c \in Callers, x \in Requests : <<x.input, x.output>> \in Estimates /\ BeginAcquire(c, x)
      BY <2>1
    <3> DEFINE b == ResolveInteractionBudget(x.interaction)
    <3>1. /\ <<x.input, x.output>> \in Estimates
          /\ calls' = [calls EXCEPT ![c] = [state |-> "resolved", req |-> x, budget |-> b]]
      BY <3>0 DEF BeginAcquire
    <3> HIDE DEF b
    <3>2. \A d \in Callers : calls'[d] = IF d = c
            THEN [state |-> "resolved", req |-> x, budget |-> b] ELSE calls[d]
      BY <1>0, <3>1 DEF TypeOK
    <3> QED
      BY <3>1, <3>2 DEF ServerInv, RequestOf
  <2>2. CASE ~ \E c \in Callers, x \in Requests :
               <<x.input, x.output>> \in Estimates /\ BeginAcquire(c, x)
    <3>1. \A d \in Callers : calls'[d] = Idle \/ calls'[d] = calls[d]
      BY <1>0, <2>2 DEF QuietMove, Tick, BeginPass, DenyLease, RejectCollision, vars, TypeOK
    <3> QED
      BY <3>1 DEF ServerInv, RequestOf
  <2> QED
    BY <2>1, <2>2
<1> QED
  BY <1>0, <1>1, <1>2, <1>3, <1>4 DEF ServerInv, Kept

-----------------------------------------------------------------------------
\* What a step does to the blocks.

SameCall(t) ==
  /\ task'[t].lease = task[t].lease /\ task'[t].granted = task[t].granted
  /\ task'[t].contacted = task[t].contacted /\ task'[t].spent = task[t].spent
  /\ task'[t].phase \in {"holding", "calling"} => task[t].phase \in {"holding", "calling"}

\* A block that only changes its phase.
MayMove(t, p) ==
  \/ p = "acquiring" /\ task[t].phase = "idle"
  \/ p = "refused" /\ task[t].phase \in {"idle", "acquiring"}
  \/ p = "done" /\ task[t].phase \in {"settling", "releasing"}
  \/ p = "gone" /\ task[t].phase \notin {"idle", "refused"}

LEMMA MoveKeeps ==
  ASSUME ClientInv, NEW t \in Callers, NEW p \in Phases, MayMove(t, p), Move(t, p),
         rpcs' \subseteq rpcs
  PROVE  ClientInv' /\ \A u \in Callers : SameCall(u)
<1>1. task[t] \in Tasks /\ task \in [Callers -> Tasks]
  BY DEF ClientInv, AttemptsInv
<1>2. task' \in [Callers -> Tasks] /\ \A u \in Callers \ {t} : task'[u] = task[u]
  BY <1>1 DEF Move, Tasks
<1>3. /\ task'[t].phase = p /\ task'[t].attempt = task[t].attempt /\ task'[t].lease = task[t].lease
      /\ task'[t].granted = task[t].granted /\ task'[t].contacted = task[t].contacted
      /\ task'[t].spent = task[t].spent /\ task'[t].usage = task[t].usage
  BY <1>1 DEF Move, Tasks
<1>4. \A u \in Callers : MayReport(u)' = MayReport(u)
  BY <1>2, <1>3 DEF MayReport
<1>5. AttemptsInv'
  BY <1>2, <1>3 DEF ClientInv, AttemptsInv, MayMove
<1>6. PhaseInv'
  BY <1>2, <1>3, <1>4 DEF ClientInv, PhaseInv, MayMove
<1>7. RpcInv'
  BY <1>2, <1>3, <1>4 DEF ClientInv, AttemptsInv, RpcInv, MayMove, Rpcs
<1>8. \A u \in Callers : SameCall(u)
  BY <1>2, <1>3 DEF SameCall, MayMove
<1> QED
  BY <1>5, <1>6, <1>7, <1>8 DEF ClientInv

\* A block that tries its acquire again.
LEMMA RetryKeeps ==
  ASSUME ClientInv, NEW t \in Callers, task[t].phase \in {"idle", "acquiring"},
         task[t].attempt < AcquireMaxAttempts, UNCHANGED rpcs,
         \/ task' = [task EXCEPT ![t].attempt = @ + 1] /\ task[t].phase = "idle"
         \/ task' = [task EXCEPT ![t].phase = "idle", ![t].attempt = @ + 1]
  PROVE  ClientInv' /\ \A u \in Callers : SameCall(u)
<1>1. task[t] \in Tasks /\ task \in [Callers -> Tasks] /\ task[t].attempt \in Nat
      /\ "idle" \in Phases
  BY DEF ClientInv, AttemptsInv, Tasks, Phases
<1>2. /\ task' \in [Callers -> Tasks] /\ \A u \in Callers \ {t} : task'[u] = task[u]
      /\ task'[t].phase = "idle" /\ task'[t].attempt = task[t].attempt + 1
      /\ task'[t].lease = task[t].lease
      /\ task'[t].granted = task[t].granted /\ task'[t].contacted = task[t].contacted
      /\ task'[t].spent = task[t].spent /\ task'[t].usage = task[t].usage
  <2>1. CASE task' = [task EXCEPT ![t].attempt = @ + 1] /\ task[t].phase = "idle"
    <3>1. task' = [task EXCEPT ![t] = [task[t] EXCEPT !.attempt = task[t].attempt + 1]]
      BY <2>1
    <3>2. [task[t] EXCEPT !.attempt = task[t].attempt + 1] \in Tasks
      BY <1>1, SMTT(30) DEF Tasks
    <3>3. task'[t] = [task[t] EXCEPT !.attempt = task[t].attempt + 1]
          /\ task' \in [Callers -> Tasks] /\ \A u \in Callers \ {t} : task'[u] = task[u]
      BY <1>1, <3>1, <3>2
    <3> QED
      BY <1>1, <2>1, <3>3 DEF Tasks
  <2>2. CASE task' = [task EXCEPT ![t].phase = "idle", ![t].attempt = @ + 1]
    BY <1>1, <2>2 DEF Tasks
  <2> QED
    BY <2>1, <2>2
<1>4. \A u \in Callers : MayReport(u)' = MayReport(u)
  BY <1>2 DEF MayReport
<1>5. AttemptsInv'
  BY <1>1, <1>2, AttemptAssumption DEF ClientInv, AttemptsInv
<1>6. PhaseInv'
  BY <1>2, <1>4 DEF ClientInv, PhaseInv
<1>7. RpcInv'
  BY <1>2, <1>4 DEF ClientInv, AttemptsInv, RpcInv, Rpcs
<1>8. \A u \in Callers : SameCall(u)
  BY <1>2 DEF SameCall
<1> QED
  BY <1>5, <1>6, <1>7, <1>8 DEF ClientInv

\* A block that is left through a close.
LEMMA SendCloseKeeps ==
  ASSUME ClientInv, NEW t \in Callers, NEW p \in {"settling", "releasing"}, NEW u \in MayReport(t),
         \/ p = "settling" /\ task[t].phase = "calling"
         \/ p = "releasing" /\ task[t].phase = "holding",
         SendClose(t, p, task[t].lease, u)
  PROVE  ClientInv' /\ \A k \in Callers : SameCall(k)
<1>1. task[t] \in Tasks /\ task \in [Callers -> Tasks] /\ p \in Phases
  BY DEF ClientInv, AttemptsInv, Phases
<1>2. u \in Int \X Int
  BY <1>1 DEF MayReport, Tasks
<1>3. task' \in [Callers -> Tasks] /\ \A k \in Callers \ {t} : task'[k] = task[k]
  BY <1>1, <1>2 DEF SendClose, Tasks
<1>4. /\ task'[t].phase = p /\ task'[t].attempt = 1 /\ task'[t].lease = task[t].lease
      /\ task'[t].granted = task[t].granted /\ task'[t].contacted = task[t].contacted
      /\ task'[t].spent = task[t].spent /\ task'[t].usage = u
  BY <1>1 DEF SendClose, Tasks
<1>5. \A k \in Callers : MayReport(k)' = MayReport(k)
  BY <1>3, <1>4 DEF MayReport
<1>6. task[t].lease \in Leases
  BY DEF ClientInv, PhaseInv
<1> DEFINE q == Request(t, 1, task[t].lease, u)
<1>7. /\ rpcs' = rpcs \cup {q}
      /\ q.task = t /\ q.attempt = 1 /\ q.lease = task[t].lease /\ q.usage = u
  BY DEF SendClose, Request
<1>8. q \in Rpcs
  BY <1>2, <1>6 DEF Rpcs, Request
<1> HIDE DEF q
<1>9. AttemptsInv'
  BY <1>3, <1>4, <1>7, <1>8, AttemptAssumption DEF ClientInv, AttemptsInv
<1>10. PhaseInv'
  BY <1>3, <1>4, <1>5 DEF ClientInv, PhaseInv
<1>11. RpcInv'
  BY <1>3, <1>4, <1>5, <1>7 DEF ClientInv, AttemptsInv, RpcInv, Rpcs
<1>12. \A k \in Callers : SameCall(k)
  BY <1>3, <1>4 DEF SameCall
<1> QED
  BY <1>9, <1>10, <1>11, <1>12 DEF ClientInv

\* A settlement that is sent again.
LEMMA ResendKeeps ==
  ASSUME ClientInv, NEW t \in Callers, task[t].phase = "settling",
         task[t].attempt + 1 <= SettleMaxAttempts,
         task' = [task EXCEPT ![t].attempt = task[t].attempt + 1],
         rpcs' = rpcs \cup {Request(t, task[t].attempt + 1, task[t].lease, task[t].usage)}
  PROVE  ClientInv' /\ \A k \in Callers : SameCall(k)
<1>1. /\ task[t] \in Tasks /\ task \in [Callers -> Tasks]
      /\ task[t].attempt \in Nat /\ task[t].attempt >= 1
  BY DEF ClientInv, AttemptsInv, Tasks
<1>2. task' \in [Callers -> Tasks] /\ \A k \in Callers \ {t} : task'[k] = task[k]
  BY <1>1, SMTT(30) DEF Tasks
<1>3. /\ task'[t].phase = "settling" /\ task'[t].attempt = task[t].attempt + 1
      /\ task'[t].lease = task[t].lease
      /\ task'[t].granted = task[t].granted /\ task'[t].contacted = task[t].contacted
      /\ task'[t].spent = task[t].spent /\ task'[t].usage = task[t].usage
  BY <1>1 DEF Tasks
<1>4. \A k \in Callers : MayReport(k)' = MayReport(k)
  BY <1>2, <1>3 DEF MayReport
<1>5. task[t].lease \in Leases /\ task[t].usage \in MayReport(t) /\ task[t].usage \in Int \X Int
  BY <1>1 DEF ClientInv, PhaseInv, Tasks
<1> DEFINE q == Request(t, task[t].attempt + 1, task[t].lease, task[t].usage)
<1>6. /\ rpcs' = rpcs \cup {q} /\ q.usage = task[t].usage
      /\ q.task = t /\ q.attempt = task[t].attempt + 1 /\ q.lease = task[t].lease
  BY DEF Request
<1>7. q \in Rpcs
  BY <1>1, <1>5 DEF Rpcs, Request
<1> HIDE DEF q
<1>8. AttemptsInv'
  BY <1>1, <1>2, <1>3, <1>6, <1>7, AttemptAssumption DEF ClientInv, AttemptsInv
<1>9. PhaseInv'
  BY <1>2, <1>3, <1>4 DEF ClientInv, PhaseInv
<1>10. RpcInv'
  BY <1>2, <1>3, <1>4, <1>5, <1>6 DEF ClientInv, AttemptsInv, RpcInv, Rpcs
<1>11. \A k \in Callers : SameCall(k)
  BY <1>2, <1>3 DEF SameCall
<1> QED
  BY <1>8, <1>9, <1>10, <1>11 DEF ClientInv

\* The provider is contacted, and uses u.
LEMMA ContactKeeps ==
  ASSUME ClientInv, NEW t \in Callers, NEW u \in Actuals, ContactProvider(t, u)
  PROVE  /\ ClientInv' /\ \A k \in Callers \ {t} : SameCall(k)
         /\ task'[t].lease = task[t].lease /\ task'[t].granted = task[t].granted
         /\ task'[t].contacted /\ task'[t].phase = "calling"
<1>1. /\ task[t] \in Tasks /\ task \in [Callers -> Tasks] /\ u \in Int \X Int
      /\ "calling" \in Phases /\ task[t].phase = "holding" /\ UNCHANGED rpcs
  BY TokenAssumption DEF ClientInv, AttemptsInv, ContactProvider, Phases
<1>2. task' \in [Callers -> Tasks] /\ \A k \in Callers \ {t} : task'[k] = task[k]
  BY <1>1 DEF ContactProvider, Tasks
<1>3. /\ task'[t].phase = "calling" /\ task'[t].attempt = task[t].attempt
      /\ task'[t].lease = task[t].lease /\ task'[t].granted = task[t].granted
      /\ task'[t].contacted = TRUE
  BY <1>1 DEF ContactProvider, Tasks
<1>4. \A k \in Callers \ {t} : MayReport(k)' = MayReport(k)
  BY <1>2 DEF MayReport
<1>5. AttemptsInv'
  BY <1>1, <1>2, <1>3 DEF ClientInv, AttemptsInv
<1>6. PhaseInv'
  BY <1>1, <1>2, <1>3, <1>4 DEF ClientInv, PhaseInv
<1>7. \A r \in rpcs : r.task \in Callers \ {t}
  BY <1>1 DEF ClientInv, AttemptsInv, RpcInv, Rpcs
<1>8. RpcInv'
  BY <1>1, <1>2, <1>4, <1>7 DEF ClientInv, RpcInv
<1> QED
  BY <1>2, <1>3, <1>5, <1>6, <1>8 DEF ClientInv, SameCall

\* The grant reaches its block.
Receives(t, l, g) ==
  task' = [task EXCEPT ![t].phase = "holding", ![t].lease = l, ![t].granted = g]
LEMMA HoldKeeps ==
  ASSUME ClientInv, NEW t \in Callers, NEW l \in Leases, NEW g \in Int \X Int,
         task[t].phase = "acquiring", UNCHANGED rpcs, Receives(t, l, g)
  PROVE  /\ ClientInv' /\ \A k \in Callers \ {t} : SameCall(k)
         /\ task'[t].lease = l /\ task'[t].granted = g
         /\ ~task'[t].contacted /\ task'[t].phase = "holding"
<1>1. task[t] \in Tasks /\ task \in [Callers -> Tasks] /\ "holding" \in Phases
  BY DEF ClientInv, AttemptsInv, Phases
<1>2. task' \in [Callers -> Tasks] /\ \A k \in Callers \ {t} : task'[k] = task[k]
  BY <1>1 DEF Receives, Tasks
<1>3. /\ task'[t].phase = "holding" /\ task'[t].attempt = task[t].attempt
      /\ task'[t].lease = l /\ task'[t].granted = g
      /\ task'[t].contacted = task[t].contacted
  BY <1>1 DEF Receives, Tasks
<1>4. \A k \in Callers \ {t} : MayReport(k)' = MayReport(k)
  BY <1>2 DEF MayReport
<1>5. AttemptsInv'
  BY <1>1, <1>2, <1>3 DEF ClientInv, AttemptsInv
<1>6. PhaseInv'
  BY <1>1, <1>2, <1>3, <1>4 DEF ClientInv, PhaseInv
<1>7. \A r \in rpcs : r.task \in Callers \ {t}
  BY DEF ClientInv, AttemptsInv, RpcInv, Rpcs
<1>8. RpcInv'
  BY <1>2, <1>4, <1>7 DEF ClientInv, RpcInv
<1> QED
  BY <1>2, <1>3, <1>5, <1>6, <1>8 DEF ClientInv, PhaseInv, SameCall

\* Requests run or are lost, and no block moves.
LEMMA RestKeeps ==
  ASSUME ClientInv, UNCHANGED task, rpcs' \subseteq rpcs
  PROVE  ClientInv' /\ \A k \in Callers : SameCall(k)
BY DEF ClientInv, AttemptsInv, PhaseInv, RpcInv, MayReport, SameCall

-----------------------------------------------------------------------------
\* Owners and charges, for each way a step can move a lease.

\* No call learns anything, and leases are closed at most by the reaper.
LEMMA UnreportedMoves ==
  ASSUME ClientInv, OwnerInv, ChargeInv, PurgedAreGone, \A k \in Callers : SameCall(k),
         \A l \in Leases : Kept(l) \/ ClosedAt(l, account[l].tokens)
  PROVE  OwnerInv' /\ ChargeInv'
<1>1. \A t \in Callers : task[t].lease # NoID => task[t].lease \in Leases
  BY DEF ClientInv, AttemptsInv, Tasks
<1>2. \A l \in Leases : ~FreshID(l)' <=> ~FreshID(l)
  <2>1. \A l \in Leases : Unsettled(l) => ~FreshID(l)
    BY DEF Unsettled, FreshID
  <2> QED
    BY <2>1 DEF Kept, ClosedAt
<1>3. OwnerInv'
  BY <1>1, <1>2 DEF OwnerInv, SameCall
<1>4. \A l \in Leases : account'[l].tokens = account[l].tokens /\ (Unsettled(l)' => Unsettled(l))
                        /\ (Closed(l)' => Closed(l) \/ Unsettled(l))
  BY DEF Kept, ClosedAt
<1>5. \A t \in Callers : task'[t].lease # NoID =>
        (Unsettled(task[t].lease)' \/ task'[t].phase \in {"holding", "calling"} =>
          account'[task'[t].lease].tokens = Total(task'[t].granted))
  BY <1>1, <1>4 DEF ChargeInv, SameCall
<1>6. ChargeMatchesCall'
  BY <1>1, <1>4, SMTT(30) DEF ChargeInv, ChargeMatchesCall, SameCall
<1>7. \A l \in Leases : ~FreshID(l)' /\ (\A t \in Callers : task'[t].lease # l) =>
       \E x \in Estimates : account'[l].tokens = Total(x)
  BY <1>2, <1>4 DEF ChargeInv, SameCall
<1> QED
  BY <1>3, <1>5, <1>6, <1>7 DEF ChargeInv

\* The provider is contacted by a block whose lease is still at its grant.
LEMMA ContactMoves ==
  ASSUME ClientInv, OwnerInv, ChargeInv, NEW t \in Callers, NEW u \in Actuals,
         ContactProvider(t, u), \A l \in Leases : Kept(l)
  PROVE  OwnerInv' /\ ChargeInv'
<1>1. \A k \in Callers : task[k].lease # NoID => task[k].lease \in Leases
  BY DEF ClientInv, AttemptsInv, Tasks
<1>2. /\ \A k \in Callers \ {t} : SameCall(k)
      /\ task'[t].lease = task[t].lease /\ task'[t].granted = task[t].granted
      /\ task[t].phase = "holding" /\ task'[t].contacted
  BY ContactKeeps DEF ContactProvider
<1>3. \A k \in Callers : task'[k].lease = task[k].lease /\ task'[k].granted = task[k].granted
  BY <1>2 DEF SameCall
<1>4. OwnerInv'
  BY <1>1, <1>3 DEF OwnerInv, Kept
<1>5. task[t].lease # NoID => account'[task[t].lease].tokens = Total(task[t].granted)
  BY <1>1, <1>2 DEF ChargeInv, Kept
<1>6. \A k \in Callers : task'[k].lease # NoID =>
        (Unsettled(task[k].lease)' \/ task'[k].phase \in {"holding", "calling"} =>
          account'[task'[k].lease].tokens = Total(task'[k].granted))
  BY <1>1, <1>2, <1>3, <1>5 DEF ChargeInv, SameCall, Kept
<1>7. ChargeMatchesCall'
  <2> SUFFICES ASSUME NEW k \in Callers, task'[k].lease # NoID, Closed(task[k].lease)'
               PROVE  account'[task'[k].lease].tokens \in
                        IF task'[k].contacted THEN {Total(task'[k].spent), Total(task'[k].granted)}
                        ELSE {0, Total(task'[k].granted)}
    BY DEF ChargeMatchesCall
  <2>1. CASE k = t
    BY <1>2, <1>3, <1>5, <2>1
  <2>2. CASE k # t
    <3>1. SameCall(k) /\ task[k].lease \in Leases
      BY <1>1, <1>2, <2>2 DEF SameCall
    <3>2. Closed(task[k].lease) /\ account'[task[k].lease].tokens = account[task[k].lease].tokens
      <4>1. PICK l \in Leases : l = task[k].lease /\ l = task'[k].lease
        BY <3>1 DEF SameCall
      <4>2. Closed(l)'
        BY <4>1
      <4>3. Kept(l)
        BY <4>1, <1>1, <2>2
      <4>4. Closed(l) /\ account'[l].tokens = account[l].tokens
        BY <4>2, <4>3 DEF Kept
      <4> QED
        BY <4>1, <4>4
    <3>3. account[task[k].lease].tokens \in
            IF task[k].contacted THEN {Total(task[k].spent), Total(task[k].granted)}
            ELSE {0, Total(task[k].granted)}
      BY <3>1, <3>2 DEF ChargeInv, ChargeMatchesCall, SameCall
    <3> QED
      BY <3>1, <3>2, <3>3 DEF SameCall
  <2> QED
    BY <2>1, <2>2
<1>8. \A l \in Leases : ~FreshID(l)' /\ (\A k \in Callers : task'[k].lease # l) =>
       \E x \in Estimates : account'[l].tokens = Total(x)
  BY <1>3 DEF ChargeInv, Kept
<1> QED
  BY <1>4, <1>6, <1>7, <1>8 DEF ChargeInv

\* A grant that reaches its block.
LEMMA HoldMoves ==
  ASSUME ClientInv, OwnerInv, ChargeInv, NEW t \in Callers, NEW l \in Leases, NEW g \in Int \X Int,
         \A k \in Callers \ {t} : SameCall(k), task[t].lease = NoID,
         task'[t].lease = l, task'[t].granted = g, task'[t].phase = "holding",
         Opened(l, Total(g)), \A k \in Leases \ {l} : Kept(k)
  PROVE  OwnerInv' /\ ChargeInv'
<1>1. \A k \in Callers : task[k].lease # NoID => task[k].lease \in Leases \ {l}
  BY DEF ClientInv, AttemptsInv, Tasks, OwnerInv, Opened
<1>2. /\ FreshID(l) /\ ~FreshID(l)' /\ Unsettled(l)' /\ ~Closed(l)'
      /\ account'[l].tokens = Total(g)
  BY DEF Opened
<1>3. l # NoID
  BY NoIDAssumption
<1>4. OwnerInv'
  BY <1>1, <1>2, <1>3 DEF OwnerInv, Kept, SameCall
<1>5. \A k \in Callers : task'[k].lease # NoID =>
        (Unsettled(task[k].lease)' \/ task'[k].phase \in {"holding", "calling"} =>
          account'[task'[k].lease].tokens = Total(task'[k].granted))
  BY <1>1, <1>2 DEF ChargeInv, SameCall, Kept
<1>6. ChargeMatchesCall'
  <2> SUFFICES ASSUME NEW k \in Callers, task'[k].lease # NoID, Closed(task[k].lease)'
               PROVE  account'[task'[k].lease].tokens \in
                        IF task'[k].contacted THEN {Total(task'[k].spent), Total(task'[k].granted)}
                        ELSE {0, Total(task'[k].granted)}
    BY DEF ChargeMatchesCall
  <2>1. k # t
    BY <1>2
  <2>2. SameCall(k) /\ task[k].lease \in Leases \ {l} /\ Kept(task[k].lease)
    BY <1>1, <2>1 DEF SameCall
  <2> QED
    BY <2>2 DEF ChargeInv, ChargeMatchesCall, SameCall, Kept
<1>7. \A k \in Leases : ~FreshID(k)' /\ (\A c \in Callers : task'[c].lease # k) =>
       \E x \in Estimates : account'[k].tokens = Total(x)
  <2> SUFFICES ASSUME NEW k \in Leases, ~FreshID(k)', \A c \in Callers : task'[c].lease # k
               PROVE  \E x \in Estimates : account'[k].tokens = Total(x)
    OBVIOUS
  <2>1. k # l /\ Kept(k) /\ \A c \in Callers : task[c].lease # k
    BY NoIDAssumption DEF SameCall
  <2> QED
    BY <2>1 DEF ChargeInv, Kept
<1> QED
  BY <1>4, <1>5, <1>6, <1>7 DEF ChargeInv

\* A grant whose answer is lost.
LEMMA OrphanMoves ==
  ASSUME ClientInv, OwnerInv, ChargeInv, NEW l \in Leases, NEW g \in Estimates,
         \A k \in Callers : SameCall(k), Opened(l, Total(g)), \A k \in Leases \ {l} : Kept(k)
  PROVE  OwnerInv' /\ ChargeInv'
<1>1. \A k \in Callers : task[k].lease # NoID => task[k].lease \in Leases \ {l}
  BY DEF ClientInv, AttemptsInv, Tasks, OwnerInv, Opened
<1>2. account'[l].tokens = Total(g)
  BY DEF Opened
<1>3. OwnerInv'
  BY <1>1 DEF OwnerInv, Kept, SameCall
<1>4. \A k \in Callers : task'[k].lease # NoID =>
        (Unsettled(task[k].lease)' \/ task'[k].phase \in {"holding", "calling"} =>
          account'[task'[k].lease].tokens = Total(task'[k].granted))
  BY <1>1 DEF ChargeInv, SameCall, Kept
<1>5. ChargeMatchesCall'
  BY <1>1 DEF ChargeInv, ChargeMatchesCall, SameCall, Kept
<1>6. \A k \in Leases : ~FreshID(k)' /\ (\A c \in Callers : task'[c].lease # k) =>
       \E x \in Estimates : account'[k].tokens = Total(x)
  BY <1>2 DEF ChargeInv, Kept, SameCall
<1> QED
  BY <1>3, <1>4, <1>5, <1>6 DEF ChargeInv

\* A request closes the lease of its own block, at what that block reported.
LEMMA ReportMoves ==
  ASSUME ClientInv, OwnerInv, ChargeInv, NEW r \in rpcs, \A k \in Callers : SameCall(k),
         ClosedAt(r.lease, Total(r.usage)), \A k \in Leases \ {r.lease} : Kept(k)
  PROVE  OwnerInv' /\ ChargeInv'
<1>1. \A k \in Callers : task[k].lease # NoID => task[k].lease \in Leases
  BY DEF ClientInv, AttemptsInv, Tasks
<1>2. PICK t \in Callers : /\ t = r.task /\ r.lease = task[t].lease /\ r.lease \in Leases
                           /\ r.usage \in MayReport(t) /\ task[t].lease # NoID
                           /\ task[t].phase \notin {"holding", "calling"}
  BY NoIDAssumption DEF ClientInv, AttemptsInv, RpcInv, Rpcs
<1>3. \A k \in Callers \ {t} : task[k].lease # NoID => task[k].lease \in Leases \ {r.lease}
  BY <1>1, <1>2 DEF OwnerInv
<1>4. /\ ~FreshID(r.lease)' /\ ~Unsettled(r.lease)'
      /\ account'[r.lease].tokens = Total(r.usage)
  BY DEF ClosedAt
<1>5. OwnerInv'
  BY <1>1, <1>2, <1>4 DEF OwnerInv, Kept, SameCall
<1>6. \A k \in Callers : task'[k].lease # NoID =>
        (Unsettled(task[k].lease)' \/ task'[k].phase \in {"holding", "calling"} =>
          account'[task'[k].lease].tokens = Total(task'[k].granted))
  BY <1>2, <1>3, <1>4 DEF ChargeInv, SameCall, Kept
<1>7. Total(<<0, 0>>) = 0
  BY DEF Total
<1>8. ChargeMatchesCall'
  <2> SUFFICES ASSUME NEW k \in Callers, task'[k].lease # NoID, Closed(task[k].lease)'
               PROVE  account'[task'[k].lease].tokens \in
                        IF task'[k].contacted THEN {Total(task'[k].spent), Total(task'[k].granted)}
                        ELSE {0, Total(task'[k].granted)}
    BY DEF ChargeMatchesCall
  <2>1. CASE k = t
    BY <1>2, <1>4, <1>7, <2>1 DEF SameCall, MayReport
  <2>2. CASE k # t
    <3>1. SameCall(k) /\ task[k].lease \in Leases
      BY <1>3, <2>2 DEF SameCall
    <3>2. Closed(task[k].lease) /\ account'[task[k].lease].tokens = account[task[k].lease].tokens
      <4>1. PICK l \in Leases : l = task[k].lease /\ l = task'[k].lease
        BY <3>1 DEF SameCall
      <4>2. Closed(l)'
        BY <4>1
      <4>3. Kept(l)
        BY <4>1, <1>3, <2>2
      <4>4. Closed(l) /\ account'[l].tokens = account[l].tokens
        BY <4>2, <4>3 DEF Kept
      <4> QED
        BY <4>1, <4>4
    <3>3. account[task[k].lease].tokens \in
            IF task[k].contacted THEN {Total(task[k].spent), Total(task[k].granted)}
            ELSE {0, Total(task[k].granted)}
      BY <3>1, <3>2 DEF ChargeInv, ChargeMatchesCall, SameCall
    <3> QED
      BY <3>1, <3>2, <3>3 DEF SameCall
  <2> QED
    BY <2>1, <2>2
<1>9. \A k \in Leases : ~FreshID(k)' /\ (\A c \in Callers : task'[c].lease # k) =>
       \E x \in Estimates : account'[k].tokens = Total(x)
  BY <1>2 DEF ChargeInv, Kept, SameCall
<1> QED
  BY <1>5, <1>6, <1>8, <1>9 DEF ChargeInv

-----------------------------------------------------------------------------
\* Every step of the calls keeps the invariant.
LEMMA CallStep == CallInv /\ [CallNext]_allVars => CallInv'
<1> SUFFICES ASSUME CallInv, [CallNext]_allVars PROVE CallInv'
  OBVIOUS
<1>0. ServerInv /\ ClientInv /\ OwnerInv /\ ChargeInv /\ PurgedAreGone
  BY DEF CallInv, ServerInv
<1>1. ASSUME QuietMove, ClientInv', \A t \in Callers : SameCall(t) PROVE CallInv'
  <2>1. ServerInv' /\ \A l \in Leases : Kept(l)
    BY <1>0, <1>1, QuietMoves
  <2> QED
    BY <1>0, <1>1, <2>1, UnreportedMoves DEF CallInv
<1>2. UNCHANGED vars => QuietMove
  BY DEF QuietMove
<1>3. ASSUME NEW t \in Callers, Unreachable(t) \/ Throttled(t) \/ GiveUp(t) \/ Abandon(t)
      PROVE  CallInv'
  <2>1. UNCHANGED <<vars, rpcs>>
    BY <1>3 DEF Unreachable, Throttled, GiveUp, Abandon
  <2>2. CASE Throttled(t) /\ task[t].attempt < AcquireMaxAttempts
    BY <1>0, <1>1, <1>2, <2>1, <2>2, RetryKeeps DEF Throttled
  <2>3. CASE ~(Throttled(t) /\ task[t].attempt < AcquireMaxAttempts)
    <3>1. \E p \in Phases : MayMove(t, p) /\ Move(t, p)
      BY <1>3, <2>3 DEF Unreachable, Throttled, GiveUp, Abandon, MayMove, Phases, Finished
    <3> QED
      BY <1>0, <1>1, <1>2, <2>1, <3>1, MoveKeeps
  <2> QED
    BY <2>2, <2>3
<1>4. ASSUME NEW t \in Callers, NEW x \in Requests, <<x.input, x.output>> \in Estimates,
             SendAcquire(t, x)
      PROVE  CallInv'
  <2>1. QuietMove /\ Move(t, "acquiring") /\ MayMove(t, "acquiring") /\ "acquiring" \in Phases
        /\ UNCHANGED rpcs
    BY <1>4 DEF SendAcquire, QuietMove, MayMove, Phases
  <2> QED
    BY <1>0, <1>1, <2>1, MoveKeeps
<1>5. ASSUME NEW t \in Callers, AnswerDenial(t) \/ \E l \in Leases : AnswerFault(t, l)
      PROVE  CallInv'
  <2>1. QuietMove /\ UNCHANGED rpcs
    BY <1>5 DEF AnswerDenial, AnswerFault, QuietMove
  <2>2. CASE UNCHANGED task
    BY <1>0, <1>1, <2>1, <2>2, RestKeeps
  <2>3. CASE task[t].phase = "acquiring" /\ Move(t, "refused")
    BY <1>0, <1>1, <2>1, <2>3, MoveKeeps DEF MayMove, Phases
  <2>4. CASE /\ task[t].phase = "acquiring" /\ task[t].attempt < AcquireMaxAttempts
             /\ task' = [task EXCEPT ![t].phase = "idle", ![t].attempt = @ + 1]
    BY <1>0, <1>1, <2>1, <2>4, RetryKeeps
  <2> QED
    BY <1>5, <2>2, <2>3, <2>4 DEF AnswerDenial, AnswerFault
<1>6. ASSUME NEW t \in Callers, NEW l \in Leases, AnswerGrant(t, l)
      PROVE  CallInv'
  <2> DEFINE g == RequestOf(t)
  <2>1. GrantLease(t, l) /\ UNCHANGED rpcs
    BY <1>6 DEF AnswerGrant
  <2>2. /\ ServerInv' /\ g \in Estimates /\ g \in Int \X Int
        /\ Opened(l, Total(g)) /\ \A k \in Leases \ {l} : Kept(k)
    BY <1>0, <2>1, GrantMoves
  <2>3. CASE task[t].phase # "acquiring" /\ UNCHANGED task
    BY <1>0, <2>1, <2>2, <2>3, RestKeeps, OrphanMoves DEF CallInv
  <2>4. CASE task[t].phase = "acquiring" /\ Move(t, "refused")
    <3>1. ClientInv' /\ \A k \in Callers : SameCall(k)
      BY <1>0, <2>1, <2>4, MoveKeeps DEF MayMove, Phases
    <3> QED
      BY <1>0, <2>2, <3>1, OrphanMoves DEF CallInv
  <2>5. CASE task[t].phase = "acquiring" /\ Receives(t, l, g)
    <3>1. /\ ClientInv' /\ \A k \in Callers \ {t} : SameCall(k)
          /\ task'[t].lease = l /\ task'[t].granted = g /\ task'[t].phase = "holding"
      BY <1>0, <2>1, <2>2, <2>5, HoldKeeps
    <3>2. task[t].lease = NoID
      BY <1>0, <2>5 DEF ClientInv, PhaseInv
    <3> QED
      BY <1>0, <2>2, <3>1, <3>2, HoldMoves DEF CallInv
  <2> QED
    BY <1>6, <2>3, <2>4, <2>5 DEF AnswerGrant, Receives, RequestOf
<1>7. ASSUME NEW t \in Callers, NEW u \in Actuals, ContactProvider(t, u)
      PROVE  CallInv'
  <2>1. QuietMove
    BY <1>2, <1>7 DEF ContactProvider
  <2> QED
    BY <1>0, <1>7, <2>1, QuietMoves, ContactKeeps, ContactMoves DEF CallInv
<1>8. ASSUME NEW t \in Callers, ProviderReturns(t) \/ ProviderRaises(t) \/ AbortBeforeCall(t)
      PROVE  CallInv'
  <2>1. UNCHANGED vars
    BY <1>8 DEF ProviderReturns, ProviderRaises, AbortBeforeCall
  <2>2. \E p \in {"settling", "releasing"}, u \in MayReport(t) :
          /\ \/ p = "settling" /\ task[t].phase = "calling"
             \/ p = "releasing" /\ task[t].phase = "holding"
          /\ SendClose(t, p, task[t].lease, u)
    BY <1>0, <1>8 DEF ProviderReturns, ProviderRaises, AbortBeforeCall, MayReport, ClientInv, PhaseInv
  <2> QED
    BY <1>0, <1>1, <1>2, <2>1, <2>2, SendCloseKeeps
<1>9. ASSUME NEW t \in Callers, CloseFails(t)
      PROVE  CallInv'
  <2>1. UNCHANGED vars
    BY <1>9 DEF CloseFails
  <2>2. CASE /\ task[t].phase = "settling" /\ task[t].attempt + 1 <= SettleMaxAttempts
             /\ task' = [task EXCEPT ![t].attempt = task[t].attempt + 1]
             /\ rpcs' = rpcs \cup {Request(t, task[t].attempt + 1, task[t].lease, task[t].usage)}
    BY <1>0, <1>1, <1>2, <2>1, <2>2, ResendKeeps
  <2>3. CASE task[t].phase \in {"settling", "releasing"} /\ Move(t, "done") /\ UNCHANGED rpcs
    BY <1>0, <1>1, <1>2, <2>1, <2>3, MoveKeeps DEF MayMove, Phases
  <2> QED
    BY <1>9, <2>2, <2>3 DEF CloseFails
<1>10. ASSUME NEW r \in rpcs, RunClose(r)
       PROVE  CallInv'
  <2>1. r \in Rpcs /\ r.lease \in Leases /\ r.task \in Callers
    BY <1>0 DEF ClientInv, AttemptsInv, Rpcs
  <2>2. /\ r.usage[1] \in Nat /\ r.usage[2] \in Nat
        /\ Finalize(r.lease, r.usage[1], r.usage[2]) /\ rpcs' \subseteq rpcs
    BY <1>10, <2>1, ConfigAssumption DEF RunClose, SettleLease, ValidTokenCount, Rpcs
  <2>3. /\ ServerInv' /\ (ClosedAt(r.lease, Total(r.usage)) \/ Kept(r.lease))
        /\ \A k \in Leases \ {r.lease} : Kept(k)
    BY <1>0, <2>1, <2>2, CloseMoves DEF Total
  <2>4. ClientInv' /\ \A k \in Callers : SameCall(k)
    BY <1>0, <1>10, <2>1, <2>2, RestKeeps, MoveKeeps DEF RunClose, MayMove, Phases
  <2>5. CASE ClosedAt(r.lease, Total(r.usage))
    BY <1>0, <2>3, <2>4, <2>5, ReportMoves DEF CallInv
  <2>6. CASE Kept(r.lease)
    BY <1>0, <2>3, <2>4, <2>6, UnreportedMoves DEF CallInv
  <2> QED
    BY <2>3, <2>5, <2>6
<1>11. ASSUME NEW r \in rpcs, DropClose(r)
       PROVE  CallInv'
  <2>1. UNCHANGED <<vars, task>> /\ rpcs' \subseteq rpcs
    BY <1>11 DEF DropClose
  <2> QED
    BY <1>0, <1>1, <1>2, <2>1, RestKeeps
<1>12. CASE (Tick \/ BeginPass) /\ UNCHANGED clientVars
  BY <1>0, <1>1, <1>12, RestKeeps DEF QuietMove, clientVars
<1>13. ASSUME NEW l \in Leases, ReapExpired(l), UNCHANGED clientVars
       PROVE  CallInv'
  <2>1. /\ ServerInv' /\ (ClosedAt(l, account[l].tokens) \/ Kept(l))
        /\ \A k \in Leases \ {l} : Kept(k)
    BY <1>0, <1>13, ReapMoves
  <2>2. ClientInv' /\ \A k \in Callers : SameCall(k)
    BY <1>0, <1>13, RestKeeps DEF clientVars
  <2> QED
    BY <1>0, <2>1, <2>2, UnreportedMoves DEF CallInv
<1>14. CASE UNCHANGED allVars
  BY <1>0, <1>1, <1>2, <1>14, RestKeeps DEF allVars, clientVars
<1> QED
  BY <1>3, <1>4, <1>5, <1>6, <1>7, <1>8, <1>9, <1>10, <1>11, <1>12, <1>13, <1>14
     DEF CallNext, ClientNext, NetworkNext, ServerNext, Reap

LEMMA CallStart == CallInit => CallInv
<1> SUFFICES ASSUME CallInit PROVE CallInv
  OBVIOUS
<1>1. Init /\ task = [t \in Callers |-> NewTask] /\ rpcs = {}
  BY DEF CallInit
<1>2. TypeOK
  BY <1>1, InitType
<1>3. \A l \in Leases : ~Tracked(l) /\ l \notin purged
  BY <1>1 DEF Init, Tracked
<1>4. account \in [Leases -> Accounts]
  BY <1>1 DEF Init, Accounts
<1>5. ServerInv
  BY <1>1, <1>2, <1>3, <1>4 DEF Init, ServerInv, PurgedAreGone, Held, Unsettled, TypeOK
<1>6. NewTask \in Tasks
  BY DEF NewTask, Tasks, Phases
<1>7. /\ NewTask.phase = "idle" /\ NewTask.attempt = 1 /\ NewTask.lease = NoID
      /\ NewTask.contacted = FALSE
  BY DEF NewTask
<1> HIDE DEF NewTask
<1>8. ClientInv
  BY <1>1, <1>6, <1>7, AttemptAssumption DEF ClientInv, AttemptsInv, PhaseInv, RpcInv
<1>9. OwnerInv
  BY <1>1, <1>7 DEF OwnerInv
<1>10. ChargeInv
  BY <1>1, <1>3, <1>7 DEF ChargeInv, ChargeMatchesCall, FreshID
<1> QED
  BY <1>5, <1>8, <1>9, <1>10 DEF CallInv

\* The inductive invariant of the leased calls (WalletClient, LLMClient): blocks
\* own their leases alone, requests tell what their block knew, and holds stand
\* at the grant until a report or the reaper closes them.
THEOREM CallInvariant == CallSpec => []CallInv
BY CallStart, CallStep, PTL DEF CallSpec

\* Whatever the network, the provider, the agent process and the reaper do, a
\* closed lease was charged what its call used or was granted, and one that no
\* client knows of was charged in full.
THEOREM CallsAlwaysCharged == CallSpec => []CallsAreCharged
<1>1. CallInv => CallsAreCharged
  <2> SUFFICES ASSUME CallInv PROVE CallsAreCharged
    OBVIOUS
  <2>1. ServerInv /\ ClientInv /\ ChargeInv /\ PurgedAreGone
    BY DEF CallInv, ServerInv
  <2>2. CallTypeOK
    BY <2>1 DEF CallTypeOK, ClientInv, AttemptsInv, Tasks, Rpcs
  <2>3. OrphansChargedInFull
    BY <2>1, OneState DEF OrphansChargedInFull, ChargeInv
  <2> QED
    BY <2>1, <2>2, <2>3 DEF CallsAreCharged, ChargeInv
<1> QED
  BY <1>1, CallInvariant, PTL
=============================================================================
