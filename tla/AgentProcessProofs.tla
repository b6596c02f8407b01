------------------------- MODULE AgentProcessProofs -------------------------
(***************************************************************************)
(* Proofs about the machinery of an agent process, one part per component: *)
(* the routing of its model calls, its session with the orchestrator, its  *)
(* timers and its log shipper.  They share no state, so each part is about *)
(* its own specification.                                                  *)
(***************************************************************************)
EXTENDS AgentSession, PersonaTimers, ModelRouting, LogShipper, SequenceTheorems, FiniteSetTheorems, TLAPS

(***************************************************************************)
(* Model routing.                                                          *)
(***************************************************************************)
(* An alias that may be called: a provider and a model, and both prices    *)
(* unless the provider is local.                                           *)
Callable(a) ==
    /\ a \in DOMAIN ModelAliases
    /\ CheckEntryPricing(ModelAliases[a])
    /\ ModelAliases[a].model # Unset
SoundCall(c) ==
    /\ Callable(c.alias)
    /\ c.vendor = ModelAliases[c.alias].provider
    /\ c.host \in {ModelAliases[c.alias].host, Unset} \/ (c.vendor = agent.client.vendor /\ c.host = agent.client.host)
    /\ c.model = ModelAliases[c.alias].model \/ (c.vendor = "ollama" /\ c.model = OllamaModel)
    /\ Remote(c) => HasPrices(ModelAliases[c.alias]) \/ Misdirected(c, ModelAliases[c.alias])

Endpoints == {Unset, seat.settings} \cup {ModelAliases[a].host : a \in DOMAIN ModelAliases}
CallSet ==
    [alias : DOMAIN ModelAliases, vendor : {ModelAliases[a].provider : a \in DOMAIN ModelAliases}, host : Endpoints,
     model : {ModelAliases[a].model : a \in DOMAIN ModelAliases} \cup {OllamaModel}]

(* The seat's client is that of its alias.                                 *)
SeatIsSound ==
    agent.stage = "up" =>
        /\ Resolve(agent.alias) # Unset
        /\ agent.client = Client(Resolve(agent.alias), seat.settings)
RoutingInv ==
    /\ SeatIsSound
    /\ calls # <<>> => agent.stage = "up"
    /\ calls \in Seq(CallSet)
    /\ \A i \in DOMAIN calls : SoundCall(calls[i])

(* What a resolved alias stands for is its entry, and it may be called.    *)
LEMMA ResolvedIsCallable ==
  ASSUME NEW a, Resolve(a) # Unset
  PROVE  /\ Callable(a)
         /\ Resolve(a) = FromAliasEntry(a, ModelAliases[a])
  BY DEF Resolve, Callable, WellFormed

(* A call on a resolved alias rides a client of its own vendor, and one    *)
(* that leaves the machine is priced or was meant for it.                  *)
LEMMA SentIsSound ==
  ASSUME SeatIsSound, agent.stage = "up", NEW a, Resolve(a) # Unset, NEW model,
         model = Resolve(a).model \/ model = PhysicalModel(Resolve(a))
  PROVE  /\ Sent(Resolve(a), model) \in CallSet
         /\ SoundCall(Sent(Resolve(a), model))
  <1> DEFINE e == ModelAliases[a]
             c == Sent(Resolve(a), model)
             p == ProviderForAlias(Resolve(a))
  <1>1. Callable(a) /\ Resolve(a) = FromAliasEntry(a, e)
    BY ResolvedIsCallable
  <1>2. /\ Resolve(a).alias = a /\ Resolve(a).provider = e.provider /\ Resolve(a).model = e.model /\ Resolve(a).host = e.host
    BY <1>1 DEF FromAliasEntry
  <1>3. \/ p = agent.client /\ e.provider = agent.client.vendor
        \/ p.vendor = e.provider /\ p.host = Host(Resolve(a), Unset)
    BY <1>2 DEF ProviderForAlias, Client
  <1>4. model = e.model \/ (e.provider = "ollama" /\ model = OllamaModel)
    BY <1>2 DEF PhysicalModel
  <1>5. /\ c = [alias |-> a, vendor |-> e.provider, host |-> p.host, model |-> model]
        /\ c.alias = a /\ c.vendor = e.provider /\ c.host = p.host /\ c.model = model
    BY <1>2, <1>3 DEF Sent
  <1>6. a \in DOMAIN ModelAliases
    BY <1>1 DEF Callable
  <1>7. Host(Resolve(a), Unset) \in {e.host, Unset} /\ (e.provider \in TakesBaseUrl => Host(Resolve(a), Unset) = e.host)
    BY <1>2 DEF Host
  <1>8. /\ agent.client.host = Host(Resolve(agent.alias), seat.settings)
        /\ Callable(agent.alias) /\ Resolve(agent.alias).host = ModelAliases[agent.alias].host
        /\ Resolve(agent.alias).provider = ModelAliases[agent.alias].provider
    <2>1. Callable(agent.alias) /\ Resolve(agent.alias) = FromAliasEntry(agent.alias, ModelAliases[agent.alias])
      BY ResolvedIsCallable DEF SeatIsSound
    <2> QED
      BY <2>1 DEF SeatIsSound, Client, FromAliasEntry
  <1>9. agent.client.host \in Endpoints
    BY <1>8 DEF Host, Endpoints, Callable
  <1>10. c \in CallSet
    <2>1. p.host \in Endpoints
      BY <1>3, <1>6, <1>7, <1>9 DEF Endpoints
    <2> QED
      BY <1>4, <1>5, <1>6, <2>1 DEF CallSet
  <1>11. c.host \in {e.host, Unset} \/ (c.vendor = agent.client.vendor /\ c.host = agent.client.host)
    BY <1>3, <1>5, <1>7
  <1>12. ASSUME Remote(c), ~HasPrices(e) PROVE Misdirected(c, e)
    <2>1. e.host = "loopback" /\ e.provider \notin LocalProviders
      BY <1>1, <1>5, <1>12 DEF Callable, CheckEntryPricing, PricedBothWays, HasNumericPrice, HasPrices, ProviderIsLocal, Remote
    <2>2. CASE e.provider \notin TakesBaseUrl
      BY <1>5, <2>1, <2>2 DEF Misdirected
    <2>3. CASE e.provider \in TakesBaseUrl /\ p.host = Host(Resolve(a), Unset)
      BY <1>5, <1>7, <1>12, <2>1, <2>3 DEF Remote
    <2>4. CASE e.provider \in TakesBaseUrl /\ p = agent.client /\ e.provider = agent.client.vendor
      <3>1. CASE a = agent.alias
        <4>1. agent.client.host = "loopback"
          BY <1>8, <2>1, <2>4, <3>1, RoutingAssumption DEF Host
        <4> QED
          BY <1>5, <1>12, <2>4, <4>1 DEF Remote
      <3>2. CASE a # agent.alias
        BY <1>5, <2>1, <2>4, <3>2 DEF Misdirected
      <3> QED
        BY <3>1, <3>2
    <2> QED
      BY <1>3, <2>2, <2>3, <2>4
  <1>13. SoundCall(c)
    BY <1>1, <1>4, <1>5, <1>11, <1>12 DEF SoundCall
  <1> QED
    BY <1>10, <1>13

(* What is said of calls is said of a file, a seat and a client that stay. *)
LEMMA RoutingFrame ==
  ASSUME file' = file, seat' = seat
  PROVE  /\ CallSet' = CallSet
         /\ agent' = agent => SeatIsSound' = SeatIsSound /\ \A c : SoundCall(c)' = SoundCall(c)
  <1>1. LoadConfig' = LoadConfig /\ ModelAliases' = ModelAliases
    BY DEF ModelAliases, LoadConfig
  <1>2. CallSet' = CallSet
    BY <1>1 DEF CallSet, Endpoints
  <1>3. ASSUME agent' = agent, NEW c PROVE SoundCall(c)' = SoundCall(c)
    BY <1>1, <1>3 DEF SoundCall, Callable, Remote, Misdirected, HasPrices, CheckEntryPricing, ProviderIsLocal, PricedBothWays, HasNumericPrice
  <1>4. ASSUME agent' = agent PROVE SeatIsSound' = SeatIsSound
    BY <1>1, <1>4 DEF SeatIsSound, Resolve, CheckEntryPricing, ProviderIsLocal, PricedBothWays, HasNumericPrice,
                      WellFormed, FromAliasEntry, Client, PhysicalModel, Host
  <1> QED
    BY <1>2, <1>3, <1>4

(* A call keeps the invariant.                                             *)
LEMMA CallKeepsRouting ==
  ASSUME RoutingInv, NEW a, NEW model, Resolve(a) # Unset,
         model = Resolve(a).model \/ model = PhysicalModel(Resolve(a)),
         CreateMessage(Resolve(a), model)
  PROVE  RoutingInv'
  <1>1. /\ calls' = Append(calls, Sent(Resolve(a), model))
        /\ file' = file /\ agent' = agent /\ seat' = seat /\ agent.stage = "up"
    BY DEF CreateMessage
  <1>2. Sent(Resolve(a), model) \in CallSet /\ SoundCall(Sent(Resolve(a), model))
    BY <1>1, SentIsSound DEF RoutingInv
  <1>3. /\ SeatIsSound' /\ CallSet' = CallSet /\ (\A c : SoundCall(c)' = SoundCall(c))
    BY <1>1, RoutingFrame DEF RoutingInv
  <1>4. calls' \in Seq(CallSet)
    BY <1>1, <1>2 DEF RoutingInv
  <1>5. ASSUME NEW i \in DOMAIN calls' PROVE SoundCall(calls'[i])
    BY <1>1, <1>2 DEF RoutingInv
  <1>6. ASSUME NEW i \in DOMAIN calls' PROVE SoundCall(calls[i])'
    BY <1>3, <1>5
  <1> QED
    BY <1>1, <1>3, <1>4, <1>6 DEF RoutingInv

(* Every step of a process, from its start-up checks to its calls, keeps   *)
(* the seat and the calls made sound.                                      *)
THEOREM RoutingInvariant == RoutingSpec => []RoutingInv
  <1>1. RoutingInit => RoutingInv
    <2> SUFFICES ASSUME RoutingInit PROVE RoutingInv OBVIOUS
    <2>1. <<>> \in Seq(CallSet)
      OBVIOUS
    <2> QED
      BY <2>1 DEF RoutingInit, RoutingInv, NoAgent, SeatIsSound
  <1>2. RoutingInv /\ [RoutingNext]_routingVars => RoutingInv'
    <2> SUFFICES ASSUME RoutingInv, [RoutingNext]_routingVars PROVE RoutingInv'
      OBVIOUS
    <2>1. ASSUME file' = file, seat' = seat, calls' = calls, agent.stage # "up", SeatIsSound'  PROVE RoutingInv'
      <3>1. calls = <<>> /\ CallSet' = CallSet
        BY <2>1, RoutingFrame DEF RoutingInv
      <3> QED
        BY <2>1, <3>1 DEF RoutingInv
    <2>2. CASE ValidateStartupConfig
      BY <2>1, <2>2 DEF ValidateStartupConfig, Refuse, SeatIsSound, NoAgent
    <2>3. CASE LoadAgent
      <3>0. agent.stage = "checked"
        BY <2>3 DEF LoadAgent
      <3>1. CASE agent' = [stage |-> "refused"] /\ file' = file /\ seat' = seat /\ calls' = calls
        BY <2>1, <3>0, <3>1 DEF SeatIsSound
      <3>2. CASE /\ CreateProvider(seat) # Unset /\ file' = file /\ seat' = seat /\ calls' = calls
                 /\ agent' = [stage |-> "up", client |-> CreateProvider(seat), alias |-> seat.model]
        <4>1. /\ Resolve(seat.model) # Unset
              /\ CreateProvider(seat) = Client(Resolve(seat.model), seat.settings)
          BY <3>2 DEF CreateProvider
        <4>2. \A a : Resolve(a)' = Resolve(a)
          BY <3>2 DEF Resolve, ModelAliases, LoadConfig
        <4>3. SeatIsSound'
          BY <3>2, <4>1, <4>2 DEF SeatIsSound, Client, PhysicalModel, Host
        <4> QED
          BY <2>1, <3>0, <3>2, <4>3
      <3> QED
        BY <2>3, <3>1, <3>2 DEF LoadAgent, Refuse
    <2>4. CASE SeatCall
      <3>1. Resolve(agent.alias) # Unset /\ agent.client.model = PhysicalModel(Resolve(agent.alias))
        BY <2>4 DEF SeatCall, RoutingInv, SeatIsSound, Client
      <3> QED
        BY <2>4, <3>1, CallKeepsRouting DEF SeatCall
    <2>5. ASSUME NEW a, LaneCall(a) PROVE RoutingInv'
      BY <2>5, CallKeepsRouting DEF LaneCall
    <2>6. CASE UNCHANGED routingVars
      <3>1. file' = file /\ seat' = seat /\ calls' = calls /\ agent' = agent
        BY <2>6 DEF routingVars
      <3>2. SeatIsSound' /\ CallSet' = CallSet /\ \A c : SoundCall(c)' = SoundCall(c)
        BY <3>1, RoutingFrame DEF RoutingInv
      <3>3. ASSUME NEW i \in DOMAIN calls' PROVE SoundCall(calls[i])'
        BY <3>1, <3>2 DEF RoutingInv
      <3> QED
        BY <3>1, <3>2, <3>3 DEF RoutingInv
    <2> QED
      BY <2>2, <2>3, <2>4, <2>5, <2>6 DEF RoutingNext
  <1> QED
    BY <1>1, <1>2, PTL DEF RoutingSpec

(* Whatever the alias file and the seat: no call of a process that came up *)
(* goes to another vendor than its alias declares, or leaves the machine   *)
(* without both prices, an alias whose local endpoint is not used aside,   *)
(* and the wallet's table prices it as its alias does.                     *)
THEOREM CallsAlwaysPriced == RoutingSpec => []EveryCallIsPriced
  <1>1. RoutingInv => EveryCallIsPriced
    <2> SUFFICES ASSUME RoutingInv, NEW i \in DOMAIN calls
                 PROVE  LET c == calls[i]  e == ModelAliases[c.alias] IN
                        /\ c.vendor = e.provider
                        /\ c.host \in {e.host, Unset} \/ (c.vendor = agent.client.vendor /\ c.host = agent.client.host)
                        /\ c.model = e.model \/ (c.vendor = "ollama" /\ c.model = OllamaModel)
                        /\ Remote(c) => HasPrices(e) \/ Misdirected(c, e)
                        /\ (DerivedCostPricing # Unset /\ c.model = e.model) =>
                             [model |-> c.model, in |-> CoercePrice(e.in), out |-> CoercePrice(e.out)] \in DerivedCostPricing
      BY DEF EveryCallIsPriced
    <2> DEFINE c == calls[i]
               e == ModelAliases[c.alias]
    <2>1. SoundCall(c)
      BY DEF RoutingInv
    <2>2. c.alias \in {b \in DOMAIN ModelAliases : ModelAliases[b].model # Unset}
      BY <2>1 DEF SoundCall, Callable
    <2>3. [model |-> e.model, in |-> CoercePrice(e.in), out |-> CoercePrice(e.out)] \in Rows
      BY <2>2 DEF Rows
    <2>4. DerivedCostPricing # Unset => DerivedCostPricing = Rows
      BY DEF DerivedCostPricing
    <2> QED
      BY <2>1, <2>3, <2>4 DEF SoundCall
  <1> QED
    BY <1>1, RoutingInvariant, PTL

(***************************************************************************)
(* The session with the orchestrator.                                      *)
(***************************************************************************)
SToken == [boot : Nat, serial : Nat]
Who == Procs \cup {Nobody}
OrchSet == [up : BOOLEAN, boot : Nat, enforced : BOOLEAN, serial : Nat, entry : Who, known : BOOLEAN, through : Nat, expired : SUBSET Nat]
KeeperSet == [token : SToken \cup {NoToken}, answered : BOOLEAN, running : BOOLEAN, revoked : BOOLEAN, closed : BOOLEAN]
RegSet == {NoReg, [pc |-> "sent"]} \cup [pc : {"landed"}, token : SToken]
WatchSet ==
    [pc : {"off", "idle", "fire", "await", "failed"}, last : {"none", "ready", "away"}, seen : BOOLEAN, left : BOOLEAN, tries : Nat]
Codes == {"none", "invalid", "revoked", "expired"}
UnderWay == [pc : {"sent", "refused", "join", "settle"}, used : SToken, code : Codes, again : BOOLEAN]
RestSet == {NoCall} \cup UnderWay
Phases == {"new", "starting", "serving", "closing", "gone"}
Retirals == SUBSET [token : SToken, by : Who]
SomeProcs == SUBSET Procs
Entrants == SUBSET Who
BudgetSet ==
    [faults : Int, calls : Int, retired : Retirals, refused : SomeProcs, left : SomeProcs, strangers : Entrants]
SessionTypeOK ==
    /\ orch \in OrchSet /\ budget \in BudgetSet
    /\ phase \in [Procs -> Phases]
    /\ keeper \in [Procs -> KeeperSet]
    /\ reg \in [Procs -> RegSet]
    /\ watch \in [Procs -> WatchSet]
    /\ call \in [Procs -> [Lines -> RestSet]]

(* The issuer's side: exactly the tokens up to the mark are retired, each  *)
(* by somebody, and stopping never took another process's entry away.      *)
IssuerInv ==
    /\ orch.through <= orch.serial
    /\ \A r \in budget.retired :
          /\ r.token.boot <= orch.boot
          /\ r.token.boot = orch.boot => r.token.serial <= orch.through
    /\ \A s \in 1..orch.through : \E by \in Who : RetiredBy([boot |-> orch.boot, serial |-> s], by)
    /\ budget.strangers = {}

(* Nobody holds a token that has not been issued, and one that landed and  *)
(* is not yet read is nobody's.                                            *)
Aged(t) == t.boot <= orch.boot /\ (t.boot = orch.boot => t.serial >= 1 /\ t.serial <= orch.serial)
TokensAged(p) ==
    /\ keeper[p].token # NoToken => Aged(keeper[p].token)
    /\ reg[p].pc = "landed" => Aged(reg[p].token) /\ reg[p].token # keeper[p].token
    /\ \A l \in Lines : call[p][l].pc # "none" =>
          Aged(call[p][l].used) /\ (reg[p].pc = "landed" => call[p][l].used # reg[p].token)

(* When a registration may be under way: at start, or as the keeper's one, *)
(* and then it is unanswered.                                              *)
LifeInv(p) ==
    /\ phase[p] = "new" => reg[p] = NoReg
    /\ phase[p] \in {"new", "starting"} => keeper[p].token = NoToken /\ ~keeper[p].running /\ watch[p].pc = "off"
    /\ phase[p] \in {"closing", "gone"} => keeper[p].closed
    /\ phase[p] = "gone" => reg[p] = NoReg
    /\ reg[p] # NoReg => phase[p] = "starting" \/ (keeper[p].running /\ ~keeper[p].answered)
    /\ keeper[p].revoked => reg[p] = NoReg

(* A token the process retired itself is held as answered only after a     *)
(* refused registration.                                                   *)
OwnInv(p) ==
    /\ keeper[p].answered /\ RetiredBy(keeper[p].token, p) => p \in budget.refused
    /\ reg[p].pc = "landed" => ~RetiredBy(reg[p].token, p)

(* A good token names the process in the registry.                         *)
Good(t) == t.boot = orch.boot /\ orch.known /\ t.serial > orch.through
EntryInv(p) ==
    /\ keeper[p].token # NoToken /\ Good(keeper[p].token) => orch.entry \in {p, Nobody}
    /\ reg[p].pc = "landed" /\ Good(reg[p].token) => orch.entry \in {p, Nobody}
    /\ p \in budget.left => phase[p] = "gone" /\ orch.entry # p

(* A refusal of the token held that says revoked says so for a reason.     *)
RefusalInv(p) == \A l \in Lines :
    call[p][l].pc = "refused" /\ call[p][l].code = "revoked" /\ call[p][l].used = keeper[p].token =>
        \E by \in Who : RetiredBy(keeper[p].token, by)
CauseInv(p) == keeper[p].revoked =>
    \/ \E by \in Who : by # p /\ RetiredBy(keeper[p].token, by)
    \/ p \in budget.refused /\ RetiredBy(keeper[p].token, p)

ProcInv(p) ==
    TokensAged(p) /\ LifeInv(p) /\ OwnInv(p) /\ EntryInv(p) /\ RefusalInv(p) /\ CauseInv(p)
SessionInv == SessionTypeOK /\ IssuerInv /\ \A p \in Procs : ProcInv(p)

-----------------------------------------------------------------------------
Same(q) ==
    /\ phase'[q] = phase[q] /\ keeper'[q] = keeper[q] /\ reg'[q] = reg[q]
    /\ watch'[q] = watch[q] /\ call'[q] = call[q]

(* What the orchestrator may do that is nothing to q: issue to and retire  *)
(* for others, forget, deregister.                                         *)
Benign(q) ==
    /\ orch'.boot = orch.boot /\ orch'.serial >= orch.serial
    /\ budget.retired \subseteq budget'.retired /\ budget.refused \subseteq budget'.refused
    /\ \A r \in budget'.retired : r \in budget.retired \/ r.by # q
    /\ q \in budget'.left => q \in budget.left
    /\ orch'.entry = q => orch.entry = q
    /\ \/ orch'.through >= orch.serial
       \/ orch'.through >= orch.through /\ orch'.entry \in {orch.entry, Nobody} /\ (orch'.known => orch.known)

LEMMA OthersUndisturbed ==
  ASSUME SessionInv, SessionTypeOK', NEW q \in Procs, Same(q), Benign(q)
  PROVE  ProcInv(q)'
  <1> USE DEF Same, Benign
  <1>0. ProcInv(q) /\ SessionTypeOK
    BY DEF SessionInv
  <1>1. /\ orch.boot \in Nat /\ orch.serial \in Nat /\ orch'.serial \in Nat /\ orch.through \in Nat /\ orch'.through \in Nat
    BY <1>0 DEF SessionTypeOK, OrchSet
  <1>2. ASSUME NEW t \in SToken, Aged(t) PROVE Aged(t)'
    BY <1>1, <1>2 DEF Aged, SToken
  <1>3. /\ keeper[q].token # NoToken => keeper[q].token \in SToken
        /\ reg[q].pc = "landed" => reg[q].token \in SToken
        /\ \A l \in Lines : call[q][l].pc # "none" => call[q][l].used \in SToken
    BY <1>0 DEF SessionTypeOK, KeeperSet, RegSet, RestSet, UnderWay, NoReg, NoCall
  <1>4. TokensAged(q)'
    BY <1>0, <1>2, <1>3 DEF ProcInv, TokensAged
  <1>5. LifeInv(q)'
    BY <1>0 DEF ProcInv, LifeInv
  <1>6. ASSUME NEW t, NEW by \in Who, RetiredBy(t, by) PROVE RetiredBy(t, by)'
    BY <1>6 DEF RetiredBy
  <1>7. ASSUME NEW t, RetiredBy(t, q)' PROVE RetiredBy(t, q)
    BY <1>7 DEF RetiredBy
  <1>8. OwnInv(q)'
    BY <1>0, <1>7 DEF ProcInv, OwnInv
  <1>9. ASSUME NEW t \in SToken, Aged(t), Good(t)', Good(t) => orch.entry \in {q, Nobody} PROVE orch'.entry \in {q, Nobody}
    <2>1. t.serial \in Nat /\ t.boot = orch.boot /\ t.serial <= orch.serial /\ t.serial > orch'.through /\ orch'.known
      BY <1>9, <1>1 DEF Good, Aged, SToken
    <2> QED
      BY <1>1, <1>9, <2>1 DEF Good
  <1>10. EntryInv(q)'
    BY <1>0, <1>3, <1>9 DEF ProcInv, EntryInv, TokensAged
  <1>11. RefusalInv(q)'
    BY <1>0, <1>6 DEF ProcInv, RefusalInv
  <1>12. CauseInv(q)'
    BY <1>0, <1>6 DEF ProcInv, CauseInv, Who
  <1> QED
    BY <1>4, <1>5, <1>8, <1>10, <1>11, <1>12 DEF ProcInv

-----------------------------------------------------------------------------
(* Steps that leave issuer, registry and history alone.                    *)
Quiet ==
    /\ orch'.boot = orch.boot /\ orch'.serial = orch.serial /\ orch'.through = orch.through
    /\ orch'.entry = orch.entry /\ (orch'.known => orch.known)
    /\ budget'.retired = budget.retired /\ budget.refused \subseteq budget'.refused
    /\ budget'.left = budget.left /\ budget'.strangers = budget.strangers

LEMMA QuietFacts ==
  ASSUME SessionTypeOK, IssuerInv, Quiet
  PROVE  /\ IssuerInv'
         /\ \A q \in Procs : Benign(q)
         /\ \A t : Aged(t)' = Aged(t)
         /\ \A t, by : RetiredBy(t, by)' = RetiredBy(t, by)
         /\ \A t : Good(t)' => Good(t)
  <1>1. IssuerInv'
    BY DEF Quiet, IssuerInv, RetiredBy
  <1>2. orch.through \in Nat /\ orch.serial \in Nat
    BY DEF SessionTypeOK, OrchSet
  <1>3. \A q \in Procs : Benign(q)
    BY <1>2 DEF Quiet, Benign
  <1>4. \A t : Aged(t)' = Aged(t)
    BY DEF Aged, Quiet
  <1>5. \A t, by : RetiredBy(t, by)' = RetiredBy(t, by)
    BY DEF RetiredBy, Quiet
  <1>6. \A t : Good(t)' => Good(t)
    BY DEF Good, Quiet
  <1> QED
    BY <1>1, <1>3, <1>4, <1>5, <1>6

(* A quiet step of one process: the others are undisturbed.                *)
LEMMA QuietStep ==
  ASSUME SessionInv, SessionTypeOK', Quiet, NEW p \in Procs,
         \A q \in Procs \ {p} : Same(q),
         ProcInv(p)'
  PROVE  SessionInv'
  <1>1. IssuerInv' /\ \A q \in Procs : Benign(q)
    BY QuietFacts DEF SessionInv
  <1>2. ASSUME NEW q \in Procs, q # p PROVE ProcInv(q)'
    BY <1>1, <1>2, OthersUndisturbed
  <1> QED
    BY <1>1, <1>2 DEF SessionInv

(* The tokens a process holds, reads or shows are tokens.                  *)
LEMMA HeldTokens ==
  ASSUME SessionTypeOK, NEW p \in Procs
  PROVE  /\ phase[p] \in Phases /\ keeper[p] \in KeeperSet /\ reg[p] \in RegSet /\ watch[p] \in WatchSet
         /\ keeper[p].token # NoToken => keeper[p].token \in SToken
         /\ reg[p].pc = "landed" => reg[p].token \in SToken
         /\ reg[p].pc \in {"none", "sent", "landed"} /\ (reg[p].pc = "none" <=> reg[p] = NoReg)
         /\ \A l \in Lines : /\ call[p][l] \in RestSet
                             /\ call[p][l].pc # "none" => call[p][l].used \in SToken
                             /\ call[p][l].pc = "none" <=> call[p][l] = NoCall
  BY DEF SessionTypeOK, KeeperSet, RegSet, RestSet, UnderWay, NoReg, NoCall

(* A step of the watcher that registers nothing.                           *)
LEMMA WatchStep ==
  ASSUME SessionInv, SessionTypeOK', Quiet, NEW p \in Procs,
         phase' = phase, keeper' = keeper, reg' = reg, call' = call,
         \A q \in Procs \ {p} : watch'[q] = watch[q],
         phase[p] \in {"new", "starting"} => watch'[p].pc = "off"
  PROVE  SessionInv'
  <1>1. /\ \A t : Aged(t)' = Aged(t)
        /\ \A t, by : RetiredBy(t, by)' = RetiredBy(t, by)
        /\ \A t : Good(t)' => Good(t)
    BY QuietFacts DEF SessionInv
  <1>2. ProcInv(p)
    BY DEF SessionInv
  <1>3. LifeInv(p)'
    BY <1>2 DEF ProcInv, LifeInv
  <1>4. TokensAged(p)' /\ OwnInv(p)' /\ EntryInv(p)' /\ RefusalInv(p)' /\ CauseInv(p)'
    BY <1>1, <1>2 DEF ProcInv, TokensAged, OwnInv, EntryInv, RefusalInv, CauseInv, Quiet
  <1>5. \A q \in Procs \ {p} : Same(q)
    BY DEF Same
  <1> QED
    BY <1>3, <1>4, <1>5, QuietStep DEF ProcInv

LEMMA WatcherSteps ==
  ASSUME SessionInv, NEW p \in Procs,
         ObserveReady(p) \/ ObserveLeft(p) \/ ChannelFlaps(p) \/ Retry(p) \/ WatcherStart(p)
  PROVE  SessionInv'
  <1>0. SessionTypeOK /\ LifeInv(p) /\ watch \in [Procs -> WatchSet] /\ phase[p] \in Phases
    BY HeldTokens DEF SessionInv, ProcInv, SessionTypeOK
  <1>1. orch' = orch /\ phase' = phase /\ keeper' = keeper /\ reg' = reg /\ call' = call
    BY DEF ObserveReady, ObserveLeft, ChannelFlaps, Left, Retry, WatcherStart
  <1>2. budget' = budget \/ budget' = [budget EXCEPT !.faults = @ - 1]
    BY DEF ObserveReady, ObserveLeft, ChannelFlaps, Left, Retry, WatcherStart, Fault
  <1>3. watch[p].pc # "off" \/ phase[p] = "serving"
    BY DEF ObserveReady, ObserveLeft, ChannelFlaps, Left, Retry, WatcherStart, Serving
  <1>4. watch' \in [Procs -> WatchSet] /\ \A q \in Procs \ {p} : watch'[q] = watch[q]
    <2>1. PICK w : watch' = [watch EXCEPT ![p] = w] /\ w \in WatchSet
      <3>1. watch[p] \in WatchSet
        BY <1>0
      <3>2. CASE ObserveReady(p)
        <4>1. [watch[p] EXCEPT !.last = "ready", !.seen = TRUE, !.left = FALSE,
                               !.pc = IF watch[p].left THEN "fire" ELSE "idle", !.tries = 0] \in WatchSet
          BY <3>1 DEF WatchSet
        <4> QED
          BY <1>0, <3>2, <4>1 DEF ObserveReady
      <3>3. CASE Left(p)
        <4>1. [watch[p] EXCEPT !.last = "away", !.left = watch[p].seen] \in WatchSet
          BY <3>1 DEF WatchSet
        <4> QED
          BY <1>0, <3>3, <4>1 DEF Left
      <3>4. CASE Retry(p)
        <4>1. /\ [watch[p] EXCEPT !.pc = "fire"] \in WatchSet
              /\ [watch[p] EXCEPT !.pc = "idle", !.tries = 0] \in WatchSet
          BY <3>1 DEF WatchSet
        <4> QED
          BY <1>0, <3>4, <4>1 DEF Retry
      <3>5. CASE WatcherStart(p)
        <4>1. [watch[p] EXCEPT !.pc = "idle"] \in WatchSet
          BY <3>1 DEF WatchSet
        <4> QED
          BY <1>0, <3>5, <4>1 DEF WatcherStart
      <3> QED
        BY <3>2, <3>3, <3>4, <3>5 DEF ObserveLeft, ChannelFlaps
    <2> QED
      BY <1>0, <2>1
  <1>5. budget' \in BudgetSet
    <2>1. budget \in BudgetSet
      BY <1>0 DEF SessionTypeOK
    <2>2. [budget EXCEPT !.faults = @ - 1] \in BudgetSet
      BY <2>1 DEF BudgetSet
    <2> QED
      BY <1>2, <2>1, <2>2
  <1>6. SessionTypeOK'
    BY <1>0, <1>1, <1>4, <1>5 DEF SessionTypeOK
  <1>7. Quiet
    BY <1>0, <1>1, <1>2 DEF Quiet, SessionTypeOK, BudgetSet
  <1>8. phase[p] \notin {"new", "starting"}
    BY <1>0, <1>3 DEF LifeInv
  <1> QED
    BY <1>1, <1>4, <1>6, <1>7, <1>8, WatchStep

-----------------------------------------------------------------------------
(* The end of a registration: those who waited for it go on.               *)
LEMMA ResumeFacts ==
  ASSUME SessionTypeOK, NEW p \in Procs, NEW ok \in BOOLEAN, Resume(p, ok)
  PROVE  /\ phase' \in [Procs -> Phases] /\ watch' \in [Procs -> WatchSet] /\ call' \in [Procs -> [Lines -> RestSet]]
         /\ \A q \in Procs \ {p} : phase'[q] = phase[q] /\ watch'[q] = watch[q] /\ call'[q] = call[q]
         /\ phase'[p] = IF phase[p] = "starting" THEN "serving" ELSE phase[p]
         /\ \A l \in Lines :
               /\ call[p][l].pc = "none" => call'[p][l].pc = "none"
               /\ call[p][l].pc # "none" => call'[p][l].used = call[p][l].used
               /\ call'[p][l].pc = "refused" => call'[p][l] = call[p][l]
  <1>0. phase \in [Procs -> Phases] /\ watch \in [Procs -> WatchSet] /\ call \in [Procs -> [Lines -> RestSet]]
    BY DEF SessionTypeOK
  <1>1. /\ phase' \in [Procs -> Phases] /\ (\A q \in Procs \ {p} : phase'[q] = phase[q])
        /\ phase'[p] = IF phase[p] = "starting" THEN "serving" ELSE phase[p]
    BY <1>0 DEF Resume, Phases
  <1>2. watch' \in [Procs -> WatchSet] /\ \A q \in Procs \ {p} : watch'[q] = watch[q]
    <2>1. watch[p] \in WatchSet
      BY <1>0
    <2>2. [watch[p] EXCEPT !.pc = IF ok THEN "idle" ELSE "failed", !.tries = IF ok THEN 0 ELSE @] \in WatchSet
      BY <2>1 DEF WatchSet
    <2> QED
      BY <1>0, <2>2 DEF Resume
  <1>3. PICK c : c = [l \in Lines |-> IF call[p][l].pc = "join" THEN [call[p][l] EXCEPT !.pc = "settle"] ELSE call[p][l]]
    OBVIOUS
  <1>4. ASSUME NEW l \in Lines
        PROVE  /\ c[l] \in RestSet
               /\ call[p][l].pc = "none" => c[l].pc = "none"
               /\ call[p][l].pc # "none" => c[l].used = call[p][l].used
               /\ c[l].pc = "refused" => c[l] = call[p][l]
    <2>1. call[p][l] \in RestSet
      BY <1>0
    <2>2. call[p][l].pc = "join" => [call[p][l] EXCEPT !.pc = "settle"] \in RestSet
      BY <2>1 DEF RestSet, UnderWay, NoCall
    <2>3. /\ [call[p][l] EXCEPT !.pc = "settle"].used = call[p][l].used
          /\ call[p][l].pc = "join" => [call[p][l] EXCEPT !.pc = "settle"].pc = "settle"
      BY <2>1 DEF RestSet, UnderWay, NoCall
    <2> QED
      BY <1>3, <2>1, <2>2, <2>3
  <1>5. c \in [Lines -> RestSet]
    BY <1>3, <1>4
  <1>6. call' = [call EXCEPT ![p] = c]
    BY <1>3 DEF Resume
  <1>7. call' \in [Procs -> [Lines -> RestSet]] /\ call'[p] = c /\ \A q \in Procs \ {p} : call'[q] = call[q]
    BY <1>0, <1>5, <1>6
  <1> QED
    BY <1>1, <1>2, <1>4, <1>7

(* A registration ends with an answer that carries a token, with a refusal *)
(* or with no answer.                                                      *)
LEMMA RegistrationEnds ==
  ASSUME SessionInv, NEW p \in Procs,
         Answered(p) \/ RegistrationRefused(p) \/ RegistrationLost(p)
  PROVE  SessionInv'
  <1>0. SessionTypeOK /\ IssuerInv /\ ProcInv(p)
    BY DEF SessionInv
  <1>a. /\ keeper[p] \in KeeperSet /\ reg[p] \in RegSet /\ phase[p] \in Phases
        /\ reg[p].pc = "landed" => reg[p].token \in SToken
        /\ reg[p].pc = "none" <=> reg[p] = NoReg
        /\ \A l \in Lines : call[p][l].pc = "none" <=> call[p][l] = NoCall
    BY <1>0, HeldTokens
  <1>b. PICK ok \in BOOLEAN : Resume(p, ok)
    BY DEF Answered, RegistrationRefused, RegistrationLost
  <1>c. orch' = orch /\ reg' = [reg EXCEPT ![p] = NoReg] /\ reg[p] # NoReg
    BY <1>a DEF Answered, RegistrationRefused, RegistrationLost, CutOff, NoReg
  <1>d. PICK k : /\ keeper' = [keeper EXCEPT ![p] = k] /\ k \in KeeperSet
                 /\ k.revoked = keeper[p].revoked /\ k.closed = keeper[p].closed
                 /\ k.running = FALSE
                 /\ \/ /\ reg[p].pc = "landed" /\ k.token = reg[p].token /\ budget' = budget
                    \/ /\ k.token = keeper[p].token
                       /\ budget' = [budget EXCEPT !.faults = @ - 1, !.refused = @ \cup {p}]
                    \/ /\ k.token = keeper[p].token /\ k.answered = keeper[p].answered
                       /\ budget' = budget \/ budget' = [budget EXCEPT !.faults = @ - 1]
    <2>1. CASE Answered(p)
      <3>1. PICK k : k = [keeper[p] EXCEPT !.token = reg[p].token, !.answered = TRUE, !.running = FALSE]
        OBVIOUS
      <3>2. reg[p].pc = "landed" /\ budget' = budget
        BY <2>1 DEF Answered
      <3>3. /\ k \in KeeperSet /\ k.revoked = keeper[p].revoked /\ k.closed = keeper[p].closed
            /\ k.running = FALSE /\ k.token = reg[p].token
        BY <1>a, <3>1, <3>2 DEF KeeperSet
      <3>4. keeper' = [keeper EXCEPT ![p] = k]
        BY <2>1, <3>1 DEF Answered
      <3> QED
        BY <3>2, <3>3, <3>4
    <2>2. CASE RegistrationRefused(p)
      <3>1. PICK k : k = [keeper[p] EXCEPT !.answered = TRUE, !.running = FALSE]
        OBVIOUS
      <3>2. /\ k \in KeeperSet /\ k.revoked = keeper[p].revoked /\ k.closed = keeper[p].closed
            /\ k.running = FALSE /\ k.token = keeper[p].token
        BY <1>a, <3>1 DEF KeeperSet
      <3>3. keeper' = [keeper EXCEPT ![p] = k]
        BY <2>2, <3>1 DEF RegistrationRefused
      <3> QED
        BY <2>2, <3>2, <3>3 DEF RegistrationRefused
    <2>3. CASE RegistrationLost(p)
      <3>1. PICK k : k = [keeper[p] EXCEPT !.running = FALSE]
        OBVIOUS
      <3>2. /\ k \in KeeperSet /\ k.revoked = keeper[p].revoked /\ k.closed = keeper[p].closed
            /\ k.running = FALSE /\ k.token = keeper[p].token /\ k.answered = keeper[p].answered
        BY <1>a, <3>1 DEF KeeperSet
      <3>3. keeper' = [keeper EXCEPT ![p] = k]
        BY <2>3, <3>1 DEF RegistrationLost
      <3>4. budget' = budget \/ budget' = [budget EXCEPT !.faults = @ - 1]
        BY <2>3 DEF RegistrationLost, Fault
      <3> QED
        BY <3>2, <3>3, <3>4
    <2> QED
      BY <2>1, <2>2, <2>3
  <1>e. /\ keeper' \in [Procs -> KeeperSet] /\ keeper'[p] = k /\ \A q \in Procs \ {p} : keeper'[q] = keeper[q]
    BY <1>0, <1>d DEF SessionTypeOK
  <1>f. /\ reg' \in [Procs -> RegSet] /\ reg'[p] = NoReg /\ \A q \in Procs \ {p} : reg'[q] = reg[q]
    BY <1>0, <1>c DEF SessionTypeOK, RegSet
  <1>g. /\ phase' \in [Procs -> Phases] /\ watch' \in [Procs -> WatchSet] /\ call' \in [Procs -> [Lines -> RestSet]]
        /\ \A q \in Procs \ {p} : phase'[q] = phase[q] /\ watch'[q] = watch[q] /\ call'[q] = call[q]
        /\ phase'[p] = IF phase[p] = "starting" THEN "serving" ELSE phase[p]
        /\ \A l \in Lines :
               /\ call[p][l].pc = "none" => call'[p][l].pc = "none"
               /\ call[p][l].pc # "none" => call'[p][l].used = call[p][l].used
               /\ call'[p][l].pc = "refused" => call'[p][l] = call[p][l]
    BY <1>0, <1>b, ResumeFacts
  <1>h. /\ budget' \in BudgetSet /\ budget'.retired = budget.retired /\ budget.refused \subseteq budget'.refused
        /\ budget'.left = budget.left /\ budget'.strangers = budget.strangers
        /\ budget' = [budget EXCEPT !.faults = @ - 1, !.refused = @ \cup {p}] => p \in budget'.refused
    <2>1. budget \in BudgetSet
      BY <1>0 DEF SessionTypeOK
    <2>2. budget.refused \cup {p} \in SomeProcs
      BY <2>1 DEF BudgetSet, SomeProcs
    <2>3. PICK r \in SomeProcs : r = budget.refused \cup {p}
      BY <2>2
    <2>4. [budget EXCEPT !.faults = @ - 1, !.refused = r] \in BudgetSet
      <3>1. [budget EXCEPT !.faults = @ - 1] \in BudgetSet
        BY <2>1 DEF BudgetSet
      <3>2. PICK b \in BudgetSet : b = [budget EXCEPT !.faults = @ - 1]
        BY <3>1
      <3>3. [b EXCEPT !.refused = r] \in BudgetSet
        BY DEF BudgetSet
      <3> QED
        BY <2>1, <3>2, <3>3 DEF BudgetSet
    <2>5. [budget EXCEPT !.faults = @ - 1] \in BudgetSet
      BY <2>1 DEF BudgetSet
    <2>6. [budget EXCEPT !.faults = @ - 1, !.refused = @ \cup {p}] = [budget EXCEPT !.faults = @ - 1, !.refused = r]
      BY <2>3
    <2>7. budget' \in BudgetSet
      BY <1>d, <2>1, <2>4, <2>5, <2>6
    <2>8. /\ budget'.retired = budget.retired /\ budget'.left = budget.left /\ budget'.strangers = budget.strangers
          /\ budget'.refused \in {budget.refused, r}
          /\ budget' = [budget EXCEPT !.faults = @ - 1, !.refused = @ \cup {p}] => budget'.refused = r
      BY <1>d, <2>1, <2>6 DEF BudgetSet
    <2> QED
      BY <2>3, <2>7, <2>8
  <1>i. Quiet
    BY <1>c, <1>h DEF Quiet
  <1>j. SessionTypeOK'
    BY <1>0, <1>c, <1>e, <1>f, <1>g, <1>h DEF SessionTypeOK
  <1>k. /\ \A t : Aged(t)' = Aged(t)
        /\ \A t, by : RetiredBy(t, by)' = RetiredBy(t, by)
        /\ \A t : Good(t)' => Good(t)
    BY <1>0, <1>i, QuietFacts
  <1>l. NoReg.pc = "none" /\ ~keeper[p].revoked /\ phase[p] \notin {"new", "gone"}
    BY <1>0, <1>c DEF ProcInv, LifeInv, NoReg
  <1>1. TokensAged(p)'
    BY <1>0, <1>d, <1>e, <1>f, <1>g, <1>k, <1>l DEF ProcInv, TokensAged
  <1>2. LifeInv(p)'
    BY <1>0, <1>a, <1>d, <1>e, <1>f, <1>g, <1>l DEF ProcInv, LifeInv, Phases
  <1>3. OwnInv(p)'
    BY <1>0, <1>d, <1>e, <1>f, <1>h, <1>k, <1>l DEF ProcInv, OwnInv
  <1>4. EntryInv(p)'
    BY <1>0, <1>a, <1>c, <1>d, <1>e, <1>f, <1>h, <1>k, <1>l DEF ProcInv, EntryInv
  <1>5. RefusalInv(p)'
    <2> SUFFICES ASSUME NEW l \in Lines, call'[p][l].pc = "refused", call'[p][l].code = "revoked",
                        call'[p][l].used = keeper'[p].token
                 PROVE  \E by \in Who : RetiredBy(keeper[p].token, by)'
      BY DEF RefusalInv
    <2>1. call[p][l].pc = "refused" /\ call[p][l].code = "revoked" /\ call[p][l].used = k.token
      BY <1>e, <1>g
    <2>2. k.token = keeper[p].token
      BY <1>0, <1>d, <2>1 DEF ProcInv, TokensAged
    <2> QED
      BY <1>0, <1>e, <1>k, <2>1, <2>2 DEF ProcInv, RefusalInv
  <1>6. CauseInv(p)'
    BY <1>d, <1>e, <1>l DEF CauseInv
  <1>7. \A q \in Procs \ {p} : Same(q)
    BY <1>e, <1>f, <1>g DEF Same
  <1> QED
    BY <1>1, <1>2, <1>3, <1>4, <1>5, <1>6, <1>7, <1>i, <1>j, QuietStep DEF ProcInv

-----------------------------------------------------------------------------
(* A registration is joined, or one starts and is unanswered.              *)
LEMMA RegisteringFacts ==
  ASSUME SessionTypeOK, NEW p \in Procs, Registering(p, keeper[p])
  PROVE  /\ keeper' \in [Procs -> KeeperSet] /\ reg' \in [Procs -> RegSet]
         /\ \A q \in Procs \ {p} : keeper'[q] = keeper[q] /\ reg'[q] = reg[q]
         /\ \/ keeper'[p] = keeper[p] /\ reg'[p] = reg[p]
            \/ /\ reg'[p] = [pc |-> "sent"]
               /\ keeper'[p].running /\ ~keeper'[p].answered
               /\ keeper'[p].token = keeper[p].token /\ keeper'[p].revoked = keeper[p].revoked
               /\ keeper'[p].closed = keeper[p].closed
  <1>0. keeper \in [Procs -> KeeperSet] /\ reg \in [Procs -> RegSet] /\ keeper[p] \in KeeperSet
    BY DEF SessionTypeOK
  <1>1. CASE keeper[p].running
    BY <1>0, <1>1 DEF Registering
  <1>2. CASE ~keeper[p].running
    <2>1. PICK k : k = [keeper[p] EXCEPT !.answered = FALSE, !.running = TRUE]
      OBVIOUS
    <2>2. /\ k \in KeeperSet /\ k.running /\ ~k.answered /\ k.token = keeper[p].token
          /\ k.revoked = keeper[p].revoked /\ k.closed = keeper[p].closed
      BY <1>0, <2>1 DEF KeeperSet
    <2>3. keeper' = [keeper EXCEPT ![p] = k] /\ reg' = [reg EXCEPT ![p] = [pc |-> "sent"]]
      BY <1>2, <2>1 DEF Registering
    <2>4. [pc |-> "sent"] \in RegSet
      BY DEF RegSet
    <2>5. PICK r \in RegSet : r = [pc |-> "sent"]
      BY <2>4
    <2>6. keeper' \in [Procs -> KeeperSet] /\ keeper'[p] = k /\ \A q \in Procs \ {p} : keeper'[q] = keeper[q]
      BY <1>0, <2>2, <2>3
    <2>7. reg' \in [Procs -> RegSet] /\ reg'[p] = r /\ \A q \in Procs \ {p} : reg'[q] = reg[q]
      BY <1>0, <2>3, <2>5
    <2> QED
      BY <2>2, <2>5, <2>6, <2>7
  <1> QED
    BY <1>1, <1>2

(* What a step may do to the calls of its process: end some, move others   *)
(* on with the token they were sent with, refuse none.                     *)
CallsMoveOn(p) == \A l \in Lines :
    /\ call'[p][l].pc # "none" => call[p][l].pc # "none" /\ call'[p][l].used = call[p][l].used
    /\ call'[p][l].pc = "refused" => call'[p][l] = call[p][l]

LEMMA RegisterAgain ==
  ASSUME SessionInv, SessionTypeOK', Quiet, NEW p \in Procs,
         Registering(p, keeper[p]), Owes(keeper[p]), phase' = phase, phase[p] \notin {"new", "starting"},
         \A q \in Procs \ {p} : watch'[q] = watch[q] /\ call'[q] = call[q],
         CallsMoveOn(p)
  PROVE  SessionInv'
  <1>0. SessionTypeOK /\ IssuerInv /\ ProcInv(p) /\ phase[p] \in Phases
    BY HeldTokens DEF SessionInv
  <1>1. /\ \A q \in Procs \ {p} : keeper'[q] = keeper[q] /\ reg'[q] = reg[q]
        /\ \/ keeper'[p] = keeper[p] /\ reg'[p] = reg[p]
           \/ /\ reg'[p] = [pc |-> "sent"]
              /\ keeper'[p].running /\ ~keeper'[p].answered
              /\ keeper'[p].token = keeper[p].token /\ keeper'[p].revoked = keeper[p].revoked
              /\ keeper'[p].closed = keeper[p].closed
    BY <1>0, RegisteringFacts
  <1>2. /\ \A t : Aged(t)' = Aged(t)
        /\ \A t, by : RetiredBy(t, by)' = RetiredBy(t, by)
        /\ \A t : Good(t)' => Good(t)
    BY <1>0, QuietFacts
  <1>3. keeper'[p].token = keeper[p].token /\ (reg'[p].pc = "landed" => reg'[p] = reg[p]) /\ ~keeper[p].revoked /\ ~keeper[p].closed
        /\ keeper'[p].revoked = keeper[p].revoked /\ keeper'[p].closed = keeper[p].closed
        /\ (keeper'[p].answered => keeper[p].answered)
    BY <1>1 DEF Owes
  <1>4. TokensAged(p)'
    BY <1>0, <1>2, <1>3 DEF ProcInv, TokensAged, CallsMoveOn
  <1>5. LifeInv(p)'
    BY <1>0, <1>1, <1>3 DEF ProcInv, LifeInv
  <1>6. OwnInv(p)'
    BY <1>0, <1>2, <1>3 DEF ProcInv, OwnInv, Quiet
  <1>7. EntryInv(p)'
    BY <1>0, <1>2, <1>3 DEF ProcInv, EntryInv, Quiet
  <1>8. RefusalInv(p)'
    BY <1>0, <1>2, <1>3 DEF ProcInv, RefusalInv, CallsMoveOn
  <1>9. CauseInv(p)'
    BY <1>3 DEF CauseInv
  <1>10. \A q \in Procs \ {p} : Same(q)
    BY <1>1 DEF Same
  <1> QED
    BY <1>4, <1>5, <1>6, <1>7, <1>8, <1>9, <1>10, QuietStep DEF ProcInv

LEMMA FireStep ==
  ASSUME SessionInv, NEW p \in Procs, FireRegistration(p)
  PROVE  SessionInv'
  <1>0. SessionTypeOK /\ IssuerInv /\ ProcInv(p) /\ phase[p] \in Phases /\ watch[p] \in WatchSet
    BY HeldTokens DEF SessionInv
  <1>1. watch[p].pc = "fire" /\ phase[p] \notin {"new", "starting"}
    BY <1>0 DEF FireRegistration, ProcInv, LifeInv
  <1>2. orch' = orch /\ phase' = phase /\ call' = call /\ budget' = budget
    BY DEF FireRegistration
  <1>3. Quiet
    BY <1>2 DEF Quiet
  <1>4. watch' \in [Procs -> WatchSet] /\ \A q \in Procs \ {p} : watch'[q] = watch[q]
    <2>1. PICK w \in WatchSet : w = watch[p]
      BY <1>0
    <2>2. [w EXCEPT !.pc = "await", !.tries = @ + 1] \in WatchSet
      <3>1. w.tries + 1 \in Nat
        BY DEF WatchSet
      <3>2. PICK n \in Nat : n = w.tries + 1
        BY <3>1
      <3>3. [w EXCEPT !.pc = "await", !.tries = n] \in WatchSet
        BY DEF WatchSet
      <3>4. [w EXCEPT !.pc = "await", !.tries = @ + 1] = [w EXCEPT !.pc = "await", !.tries = n]
        BY <3>2 DEF WatchSet
      <3> QED
        BY <3>3, <3>4
    <2>3. [w EXCEPT !.pc = "idle", !.tries = 0] \in WatchSet
      BY DEF WatchSet
    <2> QED
      BY <1>0, <2>1, <2>2, <2>3 DEF FireRegistration, SessionTypeOK
  <1>5. CASE Owes(keeper[p])
    <2>1. Registering(p, keeper[p])
      BY <1>5 DEF FireRegistration
    <2>2. SessionTypeOK'
      BY <1>0, <1>2, <1>4, <2>1, RegisteringFacts DEF SessionTypeOK
    <2>3. CallsMoveOn(p)
      BY <1>2 DEF CallsMoveOn
    <2> QED
      BY <1>1, <1>2, <1>3, <1>4, <1>5, <2>1, <2>2, <2>3, RegisterAgain
  <1>6. CASE ~Owes(keeper[p])
    <2>1. keeper' = keeper /\ reg' = reg
      BY <1>6 DEF FireRegistration
    <2>2. SessionTypeOK'
      BY <1>0, <1>2, <1>4, <2>1 DEF SessionTypeOK
    <2> QED
      BY <1>1, <1>2, <1>3, <1>4, <2>1, <2>2, WatchStep
  <1> QED
    BY <1>5, <1>6

(* A call of one line moves on; the others of its process stand.           *)
LEMMA OneCallMoves ==
  ASSUME SessionTypeOK, NEW p \in Procs, NEW l \in Lines, NEW pc \in {"join", "settle"},
         call[p][l].pc = "refused", call' = [call EXCEPT ![p][l].pc = pc]
  PROVE  /\ call' \in [Procs -> [Lines -> RestSet]]
         /\ \A q \in Procs \ {p} : call'[q] = call[q]
         /\ CallsMoveOn(p)
  <1>0. call \in [Procs -> [Lines -> RestSet]] /\ call[p] \in [Lines -> RestSet] /\ call[p][l] \in RestSet
    BY DEF SessionTypeOK
  <1>1. PICK c : c = [call[p][l] EXCEPT !.pc = pc]
    OBVIOUS
  <1>2. c \in RestSet /\ c.pc = pc /\ c.used = call[p][l].used
    BY <1>0, <1>1 DEF RestSet, UnderWay, NoCall
  <1>3. PICK f : f = [call[p] EXCEPT ![l] = c]
    OBVIOUS
  <1>4. f \in [Lines -> RestSet] /\ f[l] = c /\ \A m \in Lines \ {l} : f[m] = call[p][m]
    BY <1>0, <1>2, <1>3
  <1>5. call' = [call EXCEPT ![p] = f]
    BY <1>1, <1>3
  <1>6. call' \in [Procs -> [Lines -> RestSet]] /\ call'[p] = f /\ \A q \in Procs \ {p} : call'[q] = call[q]
    BY <1>0, <1>4, <1>5
  <1> QED
    BY <1>2, <1>4, <1>6 DEF CallsMoveOn

(* A step of the calls alone: each shows the token it was sent with or the *)
(* one held now, and a refusal that says revoked has its reason.           *)
LEMMA CallStep ==
  ASSUME SessionInv, SessionTypeOK', Quiet, NEW p \in Procs,
         phase' = phase, keeper' = keeper, reg' = reg, watch' = watch,
         \A q \in Procs \ {p} : call'[q] = call[q],
         \A l \in Lines : call'[p][l].pc # "none" =>
            \/ call[p][l].pc # "none" /\ call'[p][l].used = call[p][l].used
            \/ call'[p][l].used = keeper[p].token /\ keeper[p].token # NoToken,
         \A l \in Lines :
            call'[p][l].pc = "refused" /\ call'[p][l].code = "revoked" /\ call'[p][l].used = keeper[p].token =>
                \E by \in Who : RetiredBy(keeper[p].token, by)
  PROVE  SessionInv'
  <1>0. SessionTypeOK /\ IssuerInv /\ ProcInv(p)
    BY DEF SessionInv
  <1>1. /\ \A t : Aged(t)' = Aged(t)
        /\ \A t, by : RetiredBy(t, by)' = RetiredBy(t, by)
        /\ \A t : Good(t)' => Good(t)
    BY <1>0, QuietFacts
  <1>2. TokensAged(p)'
    BY <1>0, <1>1 DEF ProcInv, TokensAged
  <1>3. LifeInv(p)' /\ OwnInv(p)' /\ EntryInv(p)' /\ CauseInv(p)'
    BY <1>0, <1>1 DEF ProcInv, LifeInv, OwnInv, EntryInv, CauseInv, Quiet
  <1>4. RefusalInv(p)'
    BY <1>0, <1>1 DEF RefusalInv
  <1>5. \A q \in Procs \ {p} : Same(q)
    BY DEF Same
  <1> QED
    BY <1>2, <1>3, <1>4, <1>5, QuietStep DEF ProcInv

(* A new value for one call is a state of the calls.                       *)
LEMMA OneCallSet ==
  ASSUME SessionTypeOK, NEW p \in Procs, NEW l \in Lines, NEW c \in RestSet, call' = [call EXCEPT ![p][l] = c]
  PROVE  /\ call' \in [Procs -> [Lines -> RestSet]]
         /\ call'[p][l] = c /\ \A m \in Lines \ {l} : call'[p][m] = call[p][m]
         /\ \A q \in Procs \ {p} : call'[q] = call[q]
  <1>0. call \in [Procs -> [Lines -> RestSet]] /\ call[p] \in [Lines -> RestSet]
    BY DEF SessionTypeOK
  <1>1. PICK f : f = [call[p] EXCEPT ![l] = c]
    OBVIOUS
  <1>2. f \in [Lines -> RestSet] /\ f[l] = c /\ \A m \in Lines \ {l} : f[m] = call[p][m]
    BY <1>0, <1>1
  <1>3. call' = [call EXCEPT ![p] = f]
    BY <1>1
  <1> QED
    BY <1>0, <1>2, <1>3

LEMMA AnswerStep ==
  ASSUME SessionInv, NEW p \in Procs, NEW l \in Lines, Answer(p, l)
  PROVE  SessionInv'
  <1>0. SessionTypeOK /\ IssuerInv /\ ProcInv(p) /\ call[p][l] \in RestSet
    BY HeldTokens DEF SessionInv
  <1>1. /\ orch' = orch /\ phase' = phase /\ keeper' = keeper /\ reg' = reg /\ watch' = watch /\ budget' = budget
        /\ call[p][l].pc = "sent"
    BY DEF Answer
  <1>2. PICK code : code = IF orch.up THEN TokenVerdict(call[p][l].used) ELSE "down"
    OBVIOUS
  <1>3. PICK c : c = IF code \in {"good", "down"} \/ call[p][l].again THEN NoCall
                     ELSE [call[p][l] EXCEPT !.pc = "refused", !.code = code]
    OBVIOUS
  <1>4. call' = [call EXCEPT ![p][l] = c]
    BY <1>2, <1>3 DEF Answer
  <1>5. code \in {"none", "invalid", "revoked", "expired", "good", "down"}
    BY <1>2 DEF TokenVerdict, Check
  <1>6. /\ c \in RestSet
        /\ c.pc # "none" => c.used = call[p][l].used /\ c.code = code
    <2>1. CASE code \in {"good", "down"} \/ call[p][l].again
      BY <1>3, <2>1 DEF RestSet, NoCall
    <2>2. CASE ~(code \in {"good", "down"} \/ call[p][l].again)
      <3>1. code \in Codes /\ call[p][l] \in UnderWay
        BY <1>0, <1>1, <1>5, <2>2 DEF Codes, RestSet, NoCall
      <3>2. PICK d \in UnderWay : d = call[p][l]
        BY <3>1
      <3>3. [d EXCEPT !.pc = "refused", !.code = code] \in UnderWay
        BY <3>1 DEF UnderWay
      <3>4. [d EXCEPT !.pc = "refused", !.code = code].used = d.used /\ [d EXCEPT !.pc = "refused", !.code = code].code = code
        BY DEF UnderWay
      <3> QED
        BY <1>3, <2>2, <3>2, <3>3, <3>4 DEF RestSet
    <2> QED
      BY <2>1, <2>2
  <1>7. /\ call' \in [Procs -> [Lines -> RestSet]] /\ call'[p][l] = c
        /\ \A m \in Lines \ {l} : call'[p][m] = call[p][m]
        /\ \A q \in Procs \ {p} : call'[q] = call[q]
    BY <1>0, <1>4, <1>6, OneCallSet
  <1>8. SessionTypeOK' /\ Quiet
    BY <1>0, <1>1, <1>7 DEF SessionTypeOK, Quiet
  <1>9. ASSUME c.pc # "none", code = "revoked" PROVE \E by \in Who : RetiredBy(call[p][l].used, by)
    <2>1. orch.up /\ Check(call[p][l].used) = "revoked"
      BY <1>2, <1>9 DEF TokenVerdict
    <2>2. call[p][l].used.boot = orch.boot /\ call[p][l].used.serial <= orch.through
      BY <2>1 DEF Check
    <2>3. PICK t \in SToken : t = call[p][l].used
      BY <1>0, <1>1, HeldTokens
    <2>4. Aged(t)
      BY <1>0, <1>1, <2>3 DEF ProcInv, TokensAged
    <2>5. t.serial \in 1..orch.through
      BY <1>0, <2>2, <2>3, <2>4 DEF Aged, SToken, SessionTypeOK, OrchSet
    <2>6. t = [boot |-> orch.boot, serial |-> t.serial]
      BY <2>2, <2>3 DEF SToken
    <2> QED
      BY <1>0, <2>3, <2>5, <2>6 DEF IssuerInv
  <1>10. ASSUME NEW m \in Lines, call'[p][m].pc = "refused", call'[p][m].code = "revoked", call'[p][m].used = keeper[p].token
         PROVE  \E by \in Who : RetiredBy(keeper[p].token, by)
    BY <1>0, <1>6, <1>7, <1>9, <1>10 DEF ProcInv, RefusalInv
  <1>11. \A m \in Lines : call'[p][m].pc # "none" => call[p][m].pc # "none" /\ call'[p][m].used = call[p][m].used
    BY <1>1, <1>6, <1>7
  <1> QED
    BY <1>1, <1>7, <1>8, <1>10, <1>11, CallStep

LEMMA SettleStep ==
  ASSUME SessionInv, NEW p \in Procs, NEW l \in Lines, Settle(p, l)
  PROVE  SessionInv'
  <1>0. /\ SessionTypeOK /\ IssuerInv /\ ProcInv(p) /\ call[p][l] \in RestSet
        /\ keeper[p].token # NoToken => keeper[p].token \in SToken
    BY HeldTokens DEF SessionInv
  <1>1. /\ orch' = orch /\ phase' = phase /\ keeper' = keeper /\ reg' = reg /\ watch' = watch /\ budget' = budget
        /\ call[p][l].pc = "settle"
    BY DEF Settle
  <1>2. PICK c : c = IF keeper[p].token \in {call[p][l].used, NoToken} THEN NoCall
                     ELSE [call[p][l] EXCEPT !.pc = "sent", !.used = keeper[p].token, !.code = "none", !.again = TRUE]
    OBVIOUS
  <1>3. call' = [call EXCEPT ![p][l] = c]
    BY <1>2 DEF Settle
  <1>4. c \in RestSet /\ (c = NoCall \/ (c.pc = "sent" /\ c.used = keeper[p].token /\ keeper[p].token # NoToken))
    <2>1. CASE keeper[p].token \in {call[p][l].used, NoToken}
      BY <1>2, <2>1 DEF RestSet
    <2>2. CASE keeper[p].token \notin {call[p][l].used, NoToken}
      <3>1. PICK t \in SToken : t = keeper[p].token
        BY <1>0, <2>2
      <3>2. call[p][l] \in UnderWay
        BY <1>0, <1>1 DEF RestSet, NoCall
      <3>3. c = [pc |-> "sent", used |-> t, code |-> "none", again |-> TRUE]
        BY <1>2, <2>2, <3>1, <3>2 DEF UnderWay
      <3>4. c \in UnderWay
        BY <3>3 DEF UnderWay, Codes
      <3> QED
        BY <2>2, <3>1, <3>3, <3>4 DEF RestSet
    <2> QED
      BY <2>1, <2>2
  <1>5. /\ call' \in [Procs -> [Lines -> RestSet]] /\ call'[p][l] = c
        /\ \A m \in Lines \ {l} : call'[p][m] = call[p][m]
        /\ \A q \in Procs \ {p} : call'[q] = call[q]
    BY <1>0, <1>3, <1>4, OneCallSet
  <1>6. SessionTypeOK' /\ Quiet
    BY <1>0, <1>1, <1>5 DEF SessionTypeOK, Quiet
  <1>7. NoCall.pc = "none"
    BY DEF NoCall
  <1>8. \A m \in Lines :
           call'[p][m].pc = "refused" /\ call'[p][m].code = "revoked" /\ call'[p][m].used = keeper[p].token =>
                \E by \in Who : RetiredBy(keeper[p].token, by)
    BY <1>0, <1>4, <1>5, <1>7 DEF ProcInv, RefusalInv
  <1>9. \A m \in Lines : call'[p][m].pc # "none" =>
            \/ call[p][m].pc # "none" /\ call'[p][m].used = call[p][m].used
            \/ call'[p][m].used = keeper[p].token /\ keeper[p].token # NoToken
    BY <1>4, <1>5, <1>7
  <1> QED
    BY <1>1, <1>5, <1>6, <1>8, <1>9, CallStep

LEMMA SendStep ==
  ASSUME SessionInv, NEW p \in Procs, NEW l \in Lines, Send(p, l)
  PROVE  SessionInv'
  <1>0. /\ SessionTypeOK /\ IssuerInv /\ ProcInv(p)
        /\ keeper[p].token # NoToken => keeper[p].token \in SToken
    BY HeldTokens DEF SessionInv
  <1>1. /\ orch' = orch /\ phase' = phase /\ keeper' = keeper /\ reg' = reg /\ watch' = watch
        /\ keeper[p].token # NoToken
    BY DEF Send
  <1>2. PICK c : c = [pc |-> "sent", used |-> keeper[p].token, code |-> "none", again |-> FALSE]
    OBVIOUS
  <1>3. call' = [call EXCEPT ![p][l] = c]
    BY <1>2 DEF Send
  <1>4. c \in RestSet /\ c.pc = "sent" /\ c.used = keeper[p].token
    BY <1>0, <1>1, <1>2 DEF RestSet, UnderWay, Codes
  <1>5. /\ call' \in [Procs -> [Lines -> RestSet]] /\ call'[p][l] = c
        /\ \A m \in Lines \ {l} : call'[p][m] = call[p][m]
        /\ \A q \in Procs \ {p} : call'[q] = call[q]
    BY <1>0, <1>3, <1>4, OneCallSet
  <1>6. budget' \in BudgetSet /\ Quiet
    <2>1. PICK b \in BudgetSet : b = budget
      BY <1>0 DEF SessionTypeOK
    <2>2. budget' = [b EXCEPT !.calls = @ - 1]
      BY <2>1 DEF Send
    <2>3. [b EXCEPT !.calls = @ - 1] \in BudgetSet
      BY DEF BudgetSet
    <2> QED
      BY <1>1, <2>1, <2>2, <2>3 DEF Quiet, BudgetSet
  <1>7. SessionTypeOK'
    BY <1>0, <1>1, <1>5, <1>6 DEF SessionTypeOK
  <1>8. \A m \in Lines :
           call'[p][m].pc = "refused" /\ call'[p][m].code = "revoked" /\ call'[p][m].used = keeper[p].token =>
                \E by \in Who : RetiredBy(keeper[p].token, by)
    BY <1>0, <1>4, <1>5 DEF ProcInv, RefusalInv
  <1>9. \A m \in Lines : call'[p][m].pc # "none" =>
            \/ call[p][m].pc # "none" /\ call'[p][m].used = call[p][m].used
            \/ call'[p][m].used = keeper[p].token /\ keeper[p].token # NoToken
    BY <1>1, <1>4, <1>5
  <1> QED
    BY <1>1, <1>5, <1>6, <1>7, <1>8, <1>9, CallStep

(* A refusal: register again, take the revocation as final, or neither.    *)
LEMMA AfterRefusalStep ==
  ASSUME SessionInv, NEW p \in Procs, NEW l \in Lines, AfterRefusal(p, l)
  PROVE  SessionInv'
  <1>0. /\ SessionTypeOK /\ IssuerInv /\ ProcInv(p) /\ call[p][l] \in RestSet
        /\ keeper[p] \in KeeperSet /\ phase[p] \in Phases
        /\ call[p][l].pc # "none" => call[p][l].used \in SToken
    BY HeldTokens DEF SessionInv
  <1>1. /\ orch' = orch /\ phase' = phase /\ watch' = watch /\ budget' = budget /\ call[p][l].pc = "refused"
    BY DEF AfterRefusal
  <1>2. Quiet
    BY <1>1 DEF Quiet
  <1>3. PICK c : c = call[p][l]
    OBVIOUS
  <1>4. PICK k : k = IF Believes(keeper[p], c.code) /\ ~keeper[p].closed THEN [keeper[p] EXCEPT !.revoked = TRUE] ELSE keeper[p]
    OBVIOUS
  <1>5. /\ k \in KeeperSet /\ k.token = keeper[p].token /\ k.answered = keeper[p].answered
        /\ k.running = keeper[p].running /\ k.closed = keeper[p].closed
        /\ k = keeper[p] \/ (k.revoked /\ c.code = "revoked" /\ keeper[p].answered)
    BY <1>0, <1>4 DEF Believes, KeeperSet
  <1>6. \/ /\ keeper[p].token = c.used /\ Owes(k) /\ Registering(p, k) /\ call' = [call EXCEPT ![p][l].pc = "join"]
        \/ /\ keeper' = IF keeper[p].token = c.used THEN [keeper EXCEPT ![p] = k] ELSE keeper
           /\ call' = [call EXCEPT ![p][l].pc = "settle"] /\ reg' = reg
    BY <1>3, <1>4 DEF AfterRefusal
  <1>7. /\ call' \in [Procs -> [Lines -> RestSet]]
        /\ \A q \in Procs \ {p} : call'[q] = call[q]
        /\ CallsMoveOn(p)
    <2>1. PICK pc \in {"join", "settle"} : call' = [call EXCEPT ![p][l].pc = pc]
      BY <1>6
    <2> QED
      BY <1>0, <1>1, <2>1, OneCallMoves
  <1>8. keeper[p].token = c.used => phase[p] \notin {"new", "starting"}
    BY <1>0, <1>1, <1>3, SessionAssumption DEF ProcInv, LifeInv, SToken
  <1>9. CASE /\ keeper[p].token = c.used /\ Owes(k) /\ Registering(p, k)
    <2>1. k = keeper[p]
      BY <1>5, <1>9 DEF Owes
    <2>2. Registering(p, keeper[p]) /\ Owes(keeper[p])
      BY <1>9, <2>1
    <2>3. SessionTypeOK'
      BY <1>0, <1>1, <1>7, <2>2, RegisteringFacts DEF SessionTypeOK
    <2> QED
      BY <1>1, <1>2, <1>7, <1>8, <1>9, <2>2, <2>3, RegisterAgain
  <1>10. CASE keeper' = keeper /\ reg' = reg
    <2>1. SessionTypeOK'
      BY <1>0, <1>1, <1>7, <1>10 DEF SessionTypeOK
    <2>2. \A m \in Lines : call'[p][m].pc # "none" => call[p][m].pc # "none" /\ call'[p][m].used = call[p][m].used
      BY <1>7 DEF CallsMoveOn
    <2>3. \A m \in Lines :
            call'[p][m].pc = "refused" /\ call'[p][m].code = "revoked" /\ call'[p][m].used = keeper[p].token =>
                \E by \in Who : RetiredBy(keeper[p].token, by)
      BY <1>0, <1>7 DEF CallsMoveOn, ProcInv, RefusalInv
    <2> QED
      BY <1>1, <1>2, <1>7, <1>10, <2>1, <2>2, <2>3, CallStep
  <1>11. CASE keeper[p].token = c.used /\ k # keeper[p] /\ keeper' = [keeper EXCEPT ![p] = k] /\ reg' = reg
    <2>1. /\ keeper' \in [Procs -> KeeperSet] /\ keeper'[p] = k /\ \A q \in Procs \ {p} : keeper'[q] = keeper[q]
      BY <1>0, <1>5, <1>11 DEF SessionTypeOK
    <2>2. SessionTypeOK'
      BY <1>0, <1>1, <1>7, <1>11, <2>1 DEF SessionTypeOK
    <2>3. k.revoked /\ c.code = "revoked" /\ keeper[p].answered
      BY <1>5, <1>11
    <2>4. reg[p] = NoReg
      BY <1>0, <1>8, <1>11, <2>3 DEF ProcInv, LifeInv
    <2>5. /\ \A t : Aged(t)' = Aged(t)
          /\ \A t, by : RetiredBy(t, by)' = RetiredBy(t, by)
          /\ \A t : Good(t)' => Good(t)
      BY <1>0, <1>2, QuietFacts
    <2>6. TokensAged(p)'
      BY <1>0, <1>5, <1>7, <1>11, <2>1, <2>5 DEF ProcInv, TokensAged, CallsMoveOn
    <2>7. LifeInv(p)'
      BY <1>0, <1>1, <1>5, <1>11, <2>1, <2>4 DEF ProcInv, LifeInv
    <2>8. OwnInv(p)' /\ EntryInv(p)'
      BY <1>0, <1>1, <1>5, <1>11, <2>1, <2>5 DEF ProcInv, OwnInv, EntryInv
    <2>9. RefusalInv(p)'
      BY <1>0, <1>5, <1>7, <2>1, <2>5 DEF ProcInv, RefusalInv, CallsMoveOn
    <2>10. CauseInv(p)'
      <3>1. PICK by \in Who : RetiredBy(keeper[p].token, by)
        BY <1>0, <1>1, <1>3, <1>11, <2>3 DEF ProcInv, RefusalInv
      <3>2. CASE by = p
        <4>1. p \in budget.refused
          BY <1>0, <2>3, <3>1, <3>2 DEF ProcInv, OwnInv
        <4> QED
          BY <1>1, <1>5, <2>1, <2>5, <3>1, <3>2, <4>1 DEF CauseInv
      <3>3. CASE by # p
        BY <1>5, <2>1, <2>5, <3>1, <3>3 DEF CauseInv
      <3> QED
        BY <3>2, <3>3
    <2>11. \A q \in Procs \ {p} : Same(q)
      BY <1>1, <1>7, <1>11, <2>1 DEF Same
    <2> QED
      BY <1>2, <2>2, <2>6, <2>7, <2>8, <2>9, <2>10, <2>11, QuietStep DEF ProcInv
  <1>12. CASE keeper[p].token = c.used /\ k = keeper[p] /\ keeper' = [keeper EXCEPT ![p] = k] /\ reg' = reg
    <2>1. keeper' = keeper
      BY <1>0, <1>12 DEF SessionTypeOK
    <2> QED
      BY <1>10, <1>12, <2>1
  <1> QED
    BY <1>6, <1>9, <1>10, <1>11, <1>12

LEMMA BeginStep ==
  ASSUME SessionInv, NEW p \in Procs, Begin(p)
  PROVE  SessionInv'
  <1>0. SessionTypeOK /\ IssuerInv /\ ProcInv(p)
    BY DEF SessionInv
  <1>1. /\ orch' = orch /\ keeper' = keeper /\ watch' = watch /\ call' = call /\ budget' = budget
        /\ phase[p] = "new"
    BY DEF Begin
  <1>2. Quiet
    BY <1>1 DEF Quiet
  <1>3. phase' \in [Procs -> Phases] /\ phase'[p] = "starting" /\ \A q \in Procs \ {p} : phase'[q] = phase[q]
    BY <1>0 DEF Begin, SessionTypeOK, Phases
  <1>4. PICK r : r = [pc |-> "sent"]
    OBVIOUS
  <1>5. r \in RegSet /\ r.pc = "sent"
    BY <1>4 DEF RegSet
  <1>6. reg' \in [Procs -> RegSet] /\ reg'[p] = r /\ \A q \in Procs \ {p} : reg'[q] = reg[q]
    BY <1>0, <1>4, <1>5 DEF Begin, SessionTypeOK
  <1>7. SessionTypeOK'
    BY <1>0, <1>1, <1>3, <1>6 DEF SessionTypeOK
  <1>8. /\ \A t : Aged(t)' = Aged(t)
        /\ \A t, by : RetiredBy(t, by)' = RetiredBy(t, by)
        /\ \A t : Good(t)' => Good(t)
    BY <1>0, <1>2, QuietFacts
  <1>9. keeper[p].token = NoToken /\ ~keeper[p].running /\ watch[p].pc = "off" /\ p \notin budget.left
    BY <1>0, <1>1 DEF ProcInv, LifeInv, EntryInv
  <1>10. \A by : ~RetiredBy(NoToken, by)
    BY <1>0, SessionAssumption DEF RetiredBy, SessionTypeOK, BudgetSet, Retirals, SToken
  <1>11. ~keeper[p].revoked
    BY <1>0, <1>9, <1>10 DEF ProcInv, CauseInv
  <1>12. TokensAged(p)' /\ OwnInv(p)' /\ EntryInv(p)' /\ RefusalInv(p)' /\ CauseInv(p)'
    BY <1>0, <1>1, <1>5, <1>6, <1>8, <1>9, <1>11 DEF ProcInv, TokensAged, OwnInv, EntryInv, RefusalInv, CauseInv
  <1>13. LifeInv(p)'
    BY <1>1, <1>3, <1>6, <1>9, <1>11 DEF LifeInv
  <1>14. \A q \in Procs \ {p} : Same(q)
    BY <1>1, <1>3, <1>6 DEF Same
  <1> QED
    BY <1>2, <1>7, <1>12, <1>13, <1>14, QuietStep DEF ProcInv

LEMMA StopBeginStep ==
  ASSUME SessionInv, NEW p \in Procs, StopBegin(p)
  PROVE  SessionInv'
  <1>0. SessionTypeOK /\ IssuerInv /\ ProcInv(p) /\ keeper[p] \in KeeperSet
    BY HeldTokens DEF SessionInv
  <1>1. /\ orch' = orch /\ reg' = reg /\ call' = call /\ budget' = budget /\ phase[p] = "serving"
    BY DEF StopBegin, Serving
  <1>2. Quiet
    BY <1>1 DEF Quiet
  <1>3. phase' \in [Procs -> Phases] /\ phase'[p] = "closing" /\ \A q \in Procs \ {p} : phase'[q] = phase[q]
    BY <1>0 DEF StopBegin, SessionTypeOK, Phases
  <1>4. watch' \in [Procs -> WatchSet] /\ \A q \in Procs \ {p} : watch'[q] = watch[q]
    BY <1>0 DEF StopBegin, SessionTypeOK, WatchSet, NoWatch
  <1>5. PICK k : k = [keeper[p] EXCEPT !.closed = TRUE]
    OBVIOUS
  <1>6. /\ k \in KeeperSet /\ k.closed /\ k.token = keeper[p].token /\ k.answered = keeper[p].answered
        /\ k.running = keeper[p].running /\ k.revoked = keeper[p].revoked
    BY <1>0, <1>5 DEF KeeperSet
  <1>7. keeper' = [keeper EXCEPT ![p] = k]
    BY <1>5 DEF StopBegin
  <1>8. keeper' \in [Procs -> KeeperSet] /\ keeper'[p] = k /\ \A q \in Procs \ {p} : keeper'[q] = keeper[q]
    BY <1>0, <1>6, <1>7 DEF SessionTypeOK
  <1>9. SessionTypeOK'
    BY <1>0, <1>1, <1>3, <1>4, <1>8 DEF SessionTypeOK
  <1>10. /\ \A t : Aged(t)' = Aged(t)
         /\ \A t, by : RetiredBy(t, by)' = RetiredBy(t, by)
         /\ \A t : Good(t)' => Good(t)
    BY <1>0, <1>2, QuietFacts
  <1>11. TokensAged(p)' /\ OwnInv(p)' /\ EntryInv(p)' /\ RefusalInv(p)' /\ CauseInv(p)'
    BY <1>0, <1>1, <1>6, <1>8, <1>10 DEF ProcInv, TokensAged, OwnInv, EntryInv, RefusalInv, CauseInv
  <1>12. LifeInv(p)'
    BY <1>0, <1>1, <1>3, <1>6, <1>8 DEF ProcInv, LifeInv
  <1>13. \A q \in Procs \ {p} : Same(q)
    BY <1>1, <1>3, <1>4, <1>8 DEF Same
  <1> QED
    BY <1>2, <1>9, <1>11, <1>12, <1>13, QuietStep DEF ProcInv

-----------------------------------------------------------------------------
(* The orchestrator goes down, or time passes for its tokens.              *)
LEMMA ForgetSteps ==
  ASSUME SessionInv, OrchDown \/ TokenExpires
  PROVE  SessionInv'
  <1>0. SessionTypeOK /\ IssuerInv /\ orch \in OrchSet /\ budget \in BudgetSet
    BY DEF SessionInv, SessionTypeOK
  <1>1. phase' = phase /\ keeper' = keeper /\ reg' = reg /\ watch' = watch /\ call' = call
    BY DEF OrchDown, TokenExpires
  <1>2. /\ orch' \in OrchSet
        /\ orch'.boot = orch.boot /\ orch'.serial = orch.serial /\ orch'.through = orch.through
        /\ orch'.entry = orch.entry /\ (orch'.known => orch.known)
    <2>1. CASE OrchDown
      BY <1>0, <2>1 DEF OrchDown, OrchSet
    <2>2. CASE TokenExpires
      <3>1. PICK x, known : /\ x = orch.expired \cup 1..orch.serial /\ known \in BOOLEAN
                            /\ orch' = [orch EXCEPT !.expired = x, !.known = orch.known /\ known]
        BY <2>2 DEF TokenExpires
      <3>2. x \in SUBSET Nat
        BY <1>0, <3>1 DEF OrchSet
      <3>3. PICK b \in BOOLEAN : b = (orch.known /\ known)
        OBVIOUS
      <3>4. orch' = [orch EXCEPT !.expired = x, !.known = b]
        BY <3>1, <3>3
      <3> QED
        BY <1>0, <3>2, <3>3, <3>4 DEF OrchSet
    <2> QED
      BY <2>1, <2>2
  <1>3. budget' = budget \/ budget' = [budget EXCEPT !.faults = @ - 1]
    BY DEF OrchDown, TokenExpires, Fault
  <1>4. budget' \in BudgetSet
    <2>1. [budget EXCEPT !.faults = @ - 1] \in BudgetSet
      BY <1>0 DEF BudgetSet
    <2> QED
      BY <1>0, <1>3, <2>1
  <1>5. Quiet
    BY <1>0, <1>2, <1>3 DEF Quiet, BudgetSet
  <1>6. SessionTypeOK'
    BY <1>0, <1>1, <1>2, <1>4 DEF SessionTypeOK
  <1>7. IssuerInv' /\ \A q \in Procs : Benign(q)
    BY <1>0, <1>5, QuietFacts
  <1>8. \A q \in Procs : Same(q)
    BY <1>1 DEF Same
  <1> QED
    BY <1>6, <1>7, <1>8, OthersUndisturbed DEF SessionInv

(* A mark that moves retires the tokens it passes.                         *)
Passed(by) == {[token |-> [boot |-> orch.boot, serial |-> s], by |-> by] : s \in (orch.through + 1)..orch'.through}
LEMMA RetiringKeepsIssuer ==
  ASSUME SessionTypeOK, orch' \in OrchSet, IssuerInv, NEW by \in Who,
         orch'.boot = orch.boot, orch'.through >= orch.through, orch'.through <= orch'.serial,
         budget'.retired = budget.retired \cup Passed(by), budget'.strangers = {}
  PROVE  /\ IssuerInv' /\ Passed(by) \in Retirals
         /\ \A r \in budget'.retired : r \in budget.retired \/ r.by = by
  <1>0. /\ orch.through \in Nat /\ orch'.through \in Nat /\ orch.boot \in Nat
        /\ budget.retired \in Retirals
    BY DEF SessionTypeOK, OrchSet, BudgetSet
  <1>1. ASSUME NEW r \in Passed(by)
        PROVE  /\ r \in [token : SToken, by : Who] /\ r.by = by
               /\ r.token.boot = orch.boot /\ r.token.serial <= orch'.through
    <2>1. PICK s \in (orch.through + 1)..orch'.through : r = [token |-> [boot |-> orch.boot, serial |-> s], by |-> by]
      BY <1>1 DEF Passed
    <2>2. s \in Nat /\ s <= orch'.through
      BY <1>0
    <2> QED
      BY <1>0, <2>1, <2>2 DEF SToken
  <1>2. ASSUME NEW r \in budget'.retired
        PROVE  /\ r.token.boot <= orch'.boot
               /\ r.token.boot = orch'.boot => r.token.serial <= orch'.through
    <2>1. CASE r \in Passed(by)
      BY <1>0, <1>1, <2>1
    <2>2. CASE r \in budget.retired
      <3>1. r \in [token : SToken, by : Who]
        BY <1>0, <2>2 DEF Retirals
      <3> QED
        BY <1>0, <2>2, <3>1 DEF IssuerInv, SToken
    <2> QED
      BY <2>1, <2>2
  <1>3. ASSUME NEW s \in 1..orch'.through
        PROVE  \E w \in Who : RetiredBy([boot |-> orch.boot, serial |-> s], w)'
    <2>1. CASE s <= orch.through
      <3>1. s \in 1..orch.through
        BY <1>0, <2>1
      <3>2. PICK w \in Who : RetiredBy([boot |-> orch.boot, serial |-> s], w)
        BY <3>1 DEF IssuerInv
      <3> QED
        BY <3>2 DEF RetiredBy
    <2>2. CASE ~(s <= orch.through)
      <3>1. s \in (orch.through + 1)..orch'.through
        BY <1>0, <2>2
      <3>2. [token |-> [boot |-> orch.boot, serial |-> s], by |-> by] \in Passed(by)
        BY <3>1 DEF Passed
      <3> QED
        BY <3>2 DEF RetiredBy
    <2> QED
      BY <2>1, <2>2
  <1>4. IssuerInv'
    BY <1>2, <1>3 DEF IssuerInv
  <1> QED
    BY <1>1, <1>4 DEF Retirals

(* What deregistering does to registry and issuer.                         *)
LEMMA DeregisterFacts ==
  ASSUME SessionTypeOK, IssuerInv, orch' = Deregister
  PROVE  /\ orch' \in OrchSet /\ orch'.boot = orch.boot /\ orch'.serial = orch.serial
         /\ orch'.entry = Nobody /\ orch'.known = orch.known
         /\ orch'.through >= orch.through /\ orch'.through <= orch'.serial
  <1>0. orch \in OrchSet /\ orch.through <= orch.serial
    BY DEF SessionTypeOK, IssuerInv
  <1>1. PICK n : n = IF orch.through < orch.serial /\ orch.known THEN orch.serial ELSE orch.through
    OBVIOUS
  <1>2. n \in Nat /\ n >= orch.through /\ n <= orch.serial
    BY <1>0, <1>1 DEF OrchSet
  <1>3. orch' = [orch EXCEPT !.entry = Nobody, !.through = n]
    BY <1>1 DEF Deregister
  <1>4. Nobody \in Who
    BY DEF Who
  <1> QED
    BY <1>0, <1>2, <1>3, <1>4 DEF OrchSet

(* The operator retires tokens that nobody's registration did.             *)
LEMMA OperatorStep ==
  ASSUME SessionInv, OperatorDeregisters
  PROVE  SessionInv'
  <1>0. SessionTypeOK /\ IssuerInv /\ budget \in BudgetSet /\ Nobody \in Who
    BY DEF SessionInv, SessionTypeOK, Who
  <1>1. /\ phase' = phase /\ keeper' = keeper /\ reg' = reg /\ watch' = watch /\ call' = call /\ orch' = Deregister
    BY DEF OperatorDeregisters
  <1>2. /\ orch' \in OrchSet /\ orch'.boot = orch.boot /\ orch'.serial = orch.serial
        /\ orch'.entry = Nobody /\ orch'.known = orch.known
        /\ orch'.through >= orch.through /\ orch'.through <= orch'.serial
    BY <1>0, <1>1, DeregisterFacts
  <1>3. PICK ret : ret = budget.retired \cup Passed(Nobody)
    OBVIOUS
  <1>4. budget' = [budget EXCEPT !.faults = @ - 1, !.retired = ret]
    BY <1>3 DEF OperatorDeregisters, Retired, Passed
  <1>5. /\ budget'.retired = ret /\ budget'.refused = budget.refused /\ budget'.left = budget.left
        /\ budget'.strangers = budget.strangers /\ budget.strangers = {}
    BY <1>0, <1>4 DEF BudgetSet, IssuerInv
  <1>6. /\ IssuerInv' /\ Passed(Nobody) \in Retirals
        /\ \A r \in budget'.retired : r \in budget.retired \/ r.by = Nobody
    BY <1>0, <1>2, <1>3, <1>5, RetiringKeepsIssuer
  <1>7. budget' \in BudgetSet
    <2>1. ret \in Retirals
      BY <1>0, <1>3, <1>6 DEF BudgetSet, Retirals
    <2>2. [budget EXCEPT !.faults = @ - 1] \in BudgetSet
      BY <1>0 DEF BudgetSet
    <2>3. PICK b \in BudgetSet : b = [budget EXCEPT !.faults = @ - 1]
      BY <2>2
    <2>4. [b EXCEPT !.retired = ret] \in BudgetSet
      BY <2>1 DEF BudgetSet
    <2> QED
      BY <1>0, <1>4, <2>3, <2>4 DEF BudgetSet
  <1>8. SessionTypeOK'
    BY <1>0, <1>1, <1>2, <1>7 DEF SessionTypeOK
  <1>9. \A q \in Procs : Same(q)
    BY <1>1 DEF Same
  <1>10. ASSUME NEW q \in Procs PROVE Benign(q)
    <2>1. q # Nobody
      BY SessionAssumption
    <2>2. orch'.serial \in Nat /\ orch'.serial >= orch.serial
      BY <1>0, <1>2 DEF OrchSet
    <2> QED
      BY <1>2, <1>3, <1>5, <1>6, <2>1, <2>2 DEF Benign
  <1> QED
    BY <1>6, <1>8, <1>9, <1>10, OthersUndisturbed DEF SessionInv

(* A registration lands: the process is entered, and every token before    *)
(* its new one is retired.                                                 *)
LEMMA LandStep ==
  ASSUME SessionInv, NEW p \in Procs, Land(p)
  PROVE  SessionInv'
  <1>0. /\ SessionTypeOK /\ IssuerInv /\ ProcInv(p) /\ budget \in BudgetSet /\ orch \in OrchSet
        /\ p \in Who /\ phase[p] \in Phases
        /\ reg[p].pc = "none" <=> reg[p] = NoReg
        /\ keeper[p].token # NoToken => keeper[p].token \in SToken
        /\ \A l \in Lines : call[p][l].pc # "none" => call[p][l].used \in SToken
    BY HeldTokens DEF SessionInv, SessionTypeOK, Who
  <1>1. /\ phase' = phase /\ keeper' = keeper /\ watch' = watch /\ call' = call /\ orch' = Enroll(p) /\ reg[p].pc = "sent"
    BY DEF Land
  <1>2. /\ orch' \in OrchSet /\ orch'.boot = orch.boot /\ orch'.serial = orch.serial + 1
        /\ orch'.entry = p /\ orch'.through = orch.serial
        /\ orch.boot \in Nat /\ orch.serial \in Nat /\ orch.through \in Nat /\ orch.through <= orch.serial
    <2>1. PICK n \in Nat : n = orch.serial + 1
      BY <1>0 DEF OrchSet
    <2>2. orch' = [orch EXCEPT !.entry = p, !.known = TRUE, !.through = orch.serial, !.serial = n]
      BY <1>1, <2>1 DEF Enroll
    <2>3. orch' = [up |-> orch.up, boot |-> orch.boot, enforced |-> orch.enforced, serial |-> n, entry |-> p, known |-> TRUE,
                   through |-> orch.serial, expired |-> orch.expired]
      BY <1>0, <2>2 DEF OrchSet
    <2> QED
      BY <1>0, <2>1, <2>3 DEF OrchSet, IssuerInv
  <1>3. PICK ret : ret = budget.retired \cup Passed(p)
    OBVIOUS
  <1>4. budget' = [budget EXCEPT !.retired = ret]
    BY <1>3 DEF Land, Retired, Passed
  <1>5. /\ budget'.retired = ret /\ budget'.refused = budget.refused /\ budget'.left = budget.left
        /\ budget'.strangers = budget.strangers /\ budget.strangers = {}
    BY <1>0, <1>4 DEF BudgetSet, IssuerInv
  <1>6. /\ IssuerInv' /\ Passed(p) \in Retirals
        /\ \A r \in budget'.retired : r \in budget.retired \/ r.by = p
    BY <1>0, <1>2, <1>3, <1>5, RetiringKeepsIssuer
  <1>7. budget' \in BudgetSet
    <2>1. ret \in Retirals
      BY <1>0, <1>3, <1>6 DEF BudgetSet, Retirals
    <2> QED
      BY <1>0, <1>4, <2>1 DEF BudgetSet
  <1>8. PICK t \in SToken : t = [boot |-> orch.boot, serial |-> orch.serial + 1]
    <2>1. [boot |-> orch.boot, serial |-> orch.serial + 1] \in SToken
      BY <1>2 DEF SToken
    <2> QED
      BY <2>1
  <1>9. reg' = [reg EXCEPT ![p] = [pc |-> "landed", token |-> t]]
    BY <1>1, <1>2, <1>8 DEF Land, Token
  <1>10. PICK g \in RegSet : g = [pc |-> "landed", token |-> t]
    BY DEF RegSet
  <1>11. /\ reg' \in [Procs -> RegSet] /\ reg'[p] = g /\ g.pc = "landed" /\ g.token = t
         /\ \A q \in Procs \ {p} : reg'[q] = reg[q]
    BY <1>0, <1>9, <1>10 DEF SessionTypeOK
  <1>12. SessionTypeOK'
    BY <1>0, <1>1, <1>2, <1>7, <1>11 DEF SessionTypeOK
  <1>13. ASSUME NEW q \in Procs, q # p PROVE ProcInv(q)'
    <2>1. Same(q)
      BY <1>1, <1>11, <1>13 DEF Same
    <2>2. Benign(q)
      BY <1>2, <1>3, <1>5, <1>6, <1>13 DEF Benign
    <2> QED
      BY <1>12, <2>1, <2>2, OthersUndisturbed
  <1>14. /\ t.boot = orch.boot /\ t.serial = orch.serial + 1
    BY <1>8
  <1>15. reg[p] # NoReg /\ phase[p] \notin {"new", "gone"} /\ ~keeper[p].revoked
         /\ (keeper[p].token = NoToken \/ ~keeper[p].answered)
    BY <1>0, <1>1 DEF ProcInv, LifeInv
  <1>16. ASSUME NEW u \in SToken, Aged(u) PROVE Aged(u)' /\ u # t
    <2>1. u.boot \in Nat /\ u.serial \in Nat
      BY DEF SToken
    <2> QED
      BY <1>2, <1>14, <1>16, <2>1 DEF Aged
  <1>17. Aged(t)'
    BY <1>2, <1>14 DEF Aged
  <1>18. \A by : ~RetiredBy(t, by)'
    <2> SUFFICES ASSUME NEW by, RetiredBy(t, by)' PROVE FALSE
      OBVIOUS
    <2>1. t.serial <= orch'.through
      BY <1>2, <1>6, <1>14 DEF RetiredBy, IssuerInv
    <2> QED
      BY <1>2, <1>14, <2>1
  <1>19. TokensAged(p)'
    <2>1. \A l \in Lines : call[p][l].pc # "none" => Aged(call[p][l].used)
      BY <1>0 DEF ProcInv, TokensAged
    <2>2. t # NoToken
      BY SessionAssumption DEF SToken
    <2>3. keeper[p].token # NoToken => Aged(keeper[p].token)' /\ keeper[p].token # t
      BY <1>0, <1>1, <1>16 DEF ProcInv, TokensAged, Aged
    <2>4. \A l \in Lines : call[p][l].pc # "none" => Aged(call[p][l].used)' /\ call[p][l].used # t
      BY <1>0, <1>1, <1>16, <2>1 DEF Aged
    <2> QED
      BY <1>1, <1>11, <1>17, <2>2, <2>3, <2>4 DEF TokensAged
  <1>20. LifeInv(p)'
    BY <1>0, <1>1, <1>11, <1>15 DEF ProcInv, LifeInv
  <1>21. OwnInv(p)'
    <2>1. ~RetiredBy(NoToken, p)'
      BY <1>12, SessionAssumption DEF RetiredBy, SessionTypeOK, BudgetSet, Retirals, SToken
    <2> QED
      BY <1>1, <1>11, <1>15, <1>18, <2>1 DEF OwnInv
  <1>22. EntryInv(p)'
    BY <1>0, <1>1, <1>2, <1>5, <1>15 DEF ProcInv, EntryInv
  <1>23. RefusalInv(p)'
    BY <1>0, <1>1, <1>3, <1>5 DEF ProcInv, RefusalInv, RetiredBy
  <1>24. CauseInv(p)'
    BY <1>1, <1>15 DEF CauseInv
  <1> QED
    BY <1>6, <1>12, <1>13, <1>19, <1>20, <1>21, <1>22, <1>23, <1>24 DEF SessionInv, ProcInv

(* The last act of a process: it takes its own entry away, or nothing.     *)
LEMMA StopDeregisterStep ==
  ASSUME SessionInv, NEW p \in Procs, StopDeregister(p)
  PROVE  SessionInv'
  <1>0. /\ SessionTypeOK /\ IssuerInv /\ ProcInv(p) /\ budget \in BudgetSet /\ orch \in OrchSet
        /\ keeper[p] \in KeeperSet /\ p \in Who
    BY HeldTokens DEF SessionInv, SessionTypeOK, Who
  <1>1. /\ phase[p] = "closing" /\ ~keeper[p].running /\ reg' = reg /\ watch' = watch
        /\ call' = [call EXCEPT ![p] = [l \in Lines |-> NoCall]]
    BY DEF StopDeregister, RegisteringEnded
  <1>2. reg[p] = NoReg /\ NoReg.pc = "none" /\ p \notin budget.left
    BY <1>0, <1>1 DEF ProcInv, LifeInv, EntryInv, NoReg
  <1>3. phase' \in [Procs -> Phases] /\ phase'[p] = "gone" /\ \A q \in Procs \ {p} : phase'[q] = phase[q]
    BY <1>0 DEF StopDeregister, SessionTypeOK, Phases
  <1>4. PICK f : f = [l \in Lines |-> NoCall]
    OBVIOUS
  <1>5. f \in [Lines -> RestSet] /\ \A l \in Lines : f[l] = NoCall
    BY <1>4 DEF RestSet
  <1>6. call' \in [Procs -> [Lines -> RestSet]] /\ call'[p] = f /\ \A q \in Procs \ {p} : call'[q] = call[q]
    BY <1>0, <1>1, <1>4, <1>5 DEF SessionTypeOK
  <1>7. PICK k : k = [keeper[p] EXCEPT !.token = NoToken, !.revoked = FALSE]
    OBVIOUS
  <1>8. k \in KeeperSet /\ k.token = NoToken /\ ~k.revoked /\ k.closed = keeper[p].closed
    BY <1>0, <1>7 DEF KeeperSet
  <1>9. keeper' = [keeper EXCEPT ![p] = k]
    BY <1>7 DEF StopDeregister
  <1>10. keeper' \in [Procs -> KeeperSet] /\ keeper'[p] = k /\ \A q \in Procs \ {p} : keeper'[q] = keeper[q]
    BY <1>0, <1>8, <1>9 DEF SessionTypeOK
  <1>11. \A q \in Procs \ {p} : Same(q)
    BY <1>1, <1>3, <1>6, <1>10 DEF Same
  <1>12. NoCall.pc = "none"
    BY DEF NoCall
  <1>13. LifeInv(p)' /\ TokensAged(p)' /\ RefusalInv(p)' /\ CauseInv(p)'
    BY <1>0, <1>1, <1>2, <1>3, <1>5, <1>6, <1>8, <1>10, <1>12 DEF ProcInv, LifeInv, TokensAged, RefusalInv, CauseInv
  <1>14. ASSUME budget' \in BudgetSet PROVE OwnInv(p)'
    <2>1. ~RetiredBy(NoToken, p)'
      BY <1>14, SessionAssumption DEF RetiredBy, BudgetSet, Retirals, SToken
    <2> QED
      BY <1>1, <1>2, <1>8, <1>10, <2>1 DEF OwnInv
  <1>15. PICK ok \in BOOLEAN :
            ok = (orch.up /\ orch.entry # Nobody /\ TokenVerdict(keeper[p].token) = "good")
    OBVIOUS
  <1>16. CASE ~ok
    <2>1. orch' = orch /\ budget' = budget
      BY <1>15, <1>16 DEF StopDeregister
    <2>2. Quiet
      BY <2>1 DEF Quiet
    <2>3. SessionTypeOK'
      BY <1>0, <1>1, <1>3, <1>6, <1>10, <2>1 DEF SessionTypeOK
    <2>4. EntryInv(p)'
      BY <1>1, <1>2, <1>8, <1>10, <2>1 DEF EntryInv
    <2> QED
      BY <1>0, <1>11, <1>13, <1>14, <2>1, <2>2, <2>3, <2>4, QuietStep DEF ProcInv
  <1>17. CASE ok
    <2>1. orch' = Deregister
      BY <1>15, <1>17 DEF StopDeregister
    <2>2. ASSUME Checked(keeper[p].token) PROVE orch.entry = p
      <3>1. keeper[p].token # NoToken /\ orch.entry # Nobody /\ Check(keeper[p].token) = "good"
        BY <1>15, <1>17, <2>2 DEF TokenVerdict, Checked
      <3>2. PICK t \in SToken : t = keeper[p].token
        BY <1>0, <3>1 DEF KeeperSet
      <3>3. t.boot = orch.boot /\ orch.known /\ ~(t.serial <= orch.through)
        BY <3>1, <3>2 DEF Check
      <3>4. Good(t)
        BY <1>0, <3>3 DEF Good, SToken, OrchSet
      <3> QED
        BY <1>0, <3>1, <3>2, <3>4 DEF ProcInv, EntryInv
    <2>3. /\ orch' \in OrchSet /\ orch'.boot = orch.boot /\ orch'.serial = orch.serial
          /\ orch'.entry = Nobody /\ orch'.known = orch.known
          /\ orch'.through >= orch.through /\ orch'.through <= orch'.serial
      BY <1>0, <2>1, DeregisterFacts
    <2>4. PICK ret : ret = budget.retired \cup Passed(p)
      OBVIOUS
    <2>5. PICK gone \in SomeProcs : gone = budget.left \cup {p}
      <3>1. budget.left \cup {p} \in SomeProcs
        BY <1>0 DEF BudgetSet, SomeProcs
      <3> QED
        BY <3>1
    <2>6. budget' = [budget EXCEPT !.retired = ret, !.left = gone, !.strangers = budget.strangers]
      BY <1>15, <1>17, <2>2, <2>4, <2>5 DEF StopDeregister, Retired, Passed
    <2>7. /\ budget'.retired = ret /\ budget'.refused = budget.refused /\ budget'.left = gone
          /\ budget'.strangers = budget.strangers /\ budget.strangers = {}
      BY <1>0, <2>6 DEF BudgetSet, IssuerInv
    <2>8. /\ IssuerInv' /\ Passed(p) \in Retirals
          /\ \A r \in budget'.retired : r \in budget.retired \/ r.by = p
      BY <1>0, <2>3, <2>4, <2>7, RetiringKeepsIssuer
    <2>9. budget' \in BudgetSet
      <3>1. ret \in Retirals
        BY <1>0, <2>4, <2>8 DEF BudgetSet, Retirals
      <3> QED
        BY <1>0, <2>5, <2>6, <3>1 DEF BudgetSet
    <2>10. SessionTypeOK'
      BY <1>0, <1>1, <1>3, <1>6, <1>10, <2>3, <2>9 DEF SessionTypeOK
    <2>11. ASSUME NEW q \in Procs, q # p PROVE ProcInv(q)'
      <3>1. orch'.serial >= orch.serial
        BY <1>0, <2>3 DEF OrchSet
      <3>2. q # Nobody /\ (q \in gone => q \in budget.left)
        BY <2>5, <2>11, SessionAssumption
      <3>3. Benign(q)
        BY <2>3, <2>4, <2>7, <2>8, <2>11, <3>1, <3>2 DEF Benign
      <3> QED
        BY <1>11, <2>10, <2>11, <3>3, OthersUndisturbed
    <2>12. EntryInv(p)'
      BY <1>1, <1>2, <1>3, <1>8, <1>10, <2>3, SessionAssumption DEF EntryInv
    <2> QED
      BY <1>13, <1>14, <2>8, <2>9, <2>10, <2>11, <2>12 DEF SessionInv, ProcInv
  <1> QED
    BY <1>16, <1>17

(* A new orchestrator knows nobody, and no token of the old one is good.   *)
LEMMA OrchUpStep ==
  ASSUME SessionInv, OrchUp
  PROVE  SessionInv'
  <1>0. SessionTypeOK /\ IssuerInv /\ budget \in BudgetSet /\ orch \in OrchSet /\ Nobody \in Who
    BY DEF SessionInv, SessionTypeOK, Who
  <1>1. phase' = phase /\ keeper' = keeper /\ reg' = reg /\ watch' = watch /\ call' = call
    BY DEF OrchUp
  <1>2. PICK n \in Nat : n = orch.boot + 1
    BY <1>0 DEF OrchSet
  <1>3. orch' = [up |-> TRUE, boot |-> n, enforced |-> orch.enforced, serial |-> 0, entry |-> Nobody, known |-> FALSE, through |-> 0, expired |-> {}]
    BY <1>2 DEF OrchUp, NewOrch
  <1>4. /\ orch' \in OrchSet /\ orch'.boot = n /\ orch'.through = 0 /\ orch'.serial = 0 /\ orch'.entry = Nobody /\ ~orch'.known
    BY <1>0, <1>3 DEF OrchSet
  <1>5. PICK ret : ret = {r \in budget.retired : \E p \in Procs : keeper[p].token = r.token}
    OBVIOUS
  <1>6. budget' = [budget EXCEPT !.retired = ret]
    BY <1>5 DEF OrchUp
  <1>7. ret \in Retirals
    BY <1>0, <1>5 DEF BudgetSet, Retirals
  <1>8. /\ budget' \in BudgetSet /\ budget'.retired = ret /\ budget'.refused = budget.refused /\ budget'.left = budget.left
        /\ budget'.strangers = budget.strangers
    BY <1>0, <1>6, <1>7 DEF BudgetSet
  <1>9. SessionTypeOK'
    BY <1>0, <1>1, <1>4, <1>8 DEF SessionTypeOK
  <1>10. orch.boot \in Nat /\ n > orch.boot
    BY <1>0, <1>2 DEF OrchSet
  <1>11. IssuerInv'
    <2>1. ASSUME NEW r \in ret PROVE r.token.boot \in Nat /\ r.token.boot <= orch.boot
      BY <1>0, <1>5, <2>1 DEF IssuerInv, BudgetSet, Retirals, SToken
    <2>2. \A r \in ret : r.token.boot <= n /\ r.token.boot # n
      BY <1>10, <2>1
    <2>3. 1..0 = {}
      OBVIOUS
    <2> QED
      BY <1>0, <1>4, <1>8, <2>2, <2>3 DEF IssuerInv
  <1>12. ASSUME NEW p \in Procs PROVE ProcInv(p)'
    <2>0. /\ ProcInv(p)
          /\ keeper[p].token # NoToken => keeper[p].token \in SToken
          /\ reg[p].pc = "landed" => reg[p].token \in SToken
          /\ \A l \in Lines : call[p][l].pc # "none" => call[p][l].used \in SToken
      BY <1>0, HeldTokens DEF SessionInv
    <2>1. ASSUME NEW t \in SToken, Aged(t) PROVE t.boot <= n /\ t.boot # n
      BY <1>10, <2>1 DEF Aged, SToken
    <2>2. TokensAged(p)'
      BY <1>1, <1>4, <2>0, <2>1 DEF ProcInv, TokensAged, Aged
    <2>3. LifeInv(p)'
      BY <1>1, <2>0 DEF ProcInv, LifeInv
    <2>4. OwnInv(p)'
      BY <1>1, <1>5, <1>8, <2>0 DEF ProcInv, OwnInv, RetiredBy
    <2>5. EntryInv(p)'
      BY <1>1, <1>4, <1>8, <2>0, SessionAssumption DEF ProcInv, EntryInv, Good
    <2>6. ASSUME NEW by, RetiredBy(keeper[p].token, by) PROVE RetiredBy(keeper[p].token, by)'
      BY <1>1, <1>5, <1>8, <2>6 DEF RetiredBy
    <2>7. RefusalInv(p)'
      BY <1>1, <2>0, <2>6 DEF ProcInv, RefusalInv
    <2>8. CauseInv(p)'
      BY <1>1, <1>8, <2>0, <2>6 DEF ProcInv, CauseInv
    <2> QED
      BY <2>2, <2>3, <2>4, <2>5, <2>7, <2>8 DEF ProcInv
  <1> QED
    BY <1>9, <1>11, <1>12 DEF SessionInv

LEMMA SessionStarts ==
  ASSUME SessionInit
  PROVE  SessionInv
  <1>0. PICK b \in BOOLEAN : orch = NewOrch(1, b)
    BY SessionAssumption DEF SessionInit
  <1>1. /\ orch = [up |-> TRUE, boot |-> 1, enforced |-> b, serial |-> 0, entry |-> Nobody, known |-> FALSE, through |-> 0, expired |-> {}]
        /\ Nobody \in Who
    BY <1>0 DEF NewOrch, Who
  <1>2. orch \in OrchSet /\ orch.entry = Nobody /\ orch.through = 0 /\ orch.serial = 0
    BY <1>1 DEF OrchSet
  <1>3. budget \in BudgetSet /\ budget.retired = {} /\ budget.strangers = {} /\ budget.left = {}
    BY SessionAssumption DEF SessionInit, BudgetSet, Retirals, SomeProcs, Entrants
  <1>4. PICK k : k = [token |-> NoToken, answered |-> TRUE, running |-> FALSE, revoked |-> FALSE, closed |-> FALSE]
    OBVIOUS
  <1>5. k \in KeeperSet /\ k.token = NoToken /\ ~k.running /\ ~k.revoked
    BY <1>4 DEF KeeperSet
  <1>6. keeper = [p \in Procs |-> k]
    BY <1>4 DEF SessionInit
  <1>7. keeper \in [Procs -> KeeperSet] /\ \A p \in Procs : keeper[p] = k
    BY <1>5, <1>6
  <1>8. phase \in [Procs -> Phases] /\ \A p \in Procs : phase[p] = "new"
    BY DEF SessionInit, Phases
  <1>9. reg \in [Procs -> RegSet] /\ \A p \in Procs : reg[p] = NoReg /\ NoReg.pc = "none"
    BY DEF SessionInit, RegSet, NoReg
  <1>10. NoWatch \in WatchSet /\ NoWatch.pc = "off"
    BY DEF NoWatch, WatchSet
  <1>11. watch \in [Procs -> WatchSet] /\ \A p \in Procs : watch[p] = NoWatch
    BY <1>10 DEF SessionInit
  <1>12. PICK f : f = [l \in Lines |-> NoCall]
    OBVIOUS
  <1>13. f \in [Lines -> RestSet] /\ (\A l \in Lines : f[l] = NoCall) /\ NoCall.pc = "none"
    BY <1>12 DEF RestSet, NoCall
  <1>14. call = [p \in Procs |-> f]
    BY <1>12 DEF SessionInit
  <1>15. call \in [Procs -> [Lines -> RestSet]] /\ \A p \in Procs : call[p] = f
    BY <1>13, <1>14
  <1>16. SessionTypeOK
    BY <1>2, <1>3, <1>7, <1>8, <1>9, <1>11, <1>15 DEF SessionTypeOK
  <1>17. IssuerInv
    <2>1. 1..0 = {}
      OBVIOUS
    <2> QED
      BY <1>2, <1>3, <2>1 DEF IssuerInv
  <1>18. ASSUME NEW p \in Procs PROVE ProcInv(p)
    BY <1>3, <1>5, <1>7, <1>8, <1>9, <1>10, <1>11, <1>13, <1>15
       DEF ProcInv, TokensAged, LifeInv, OwnInv, EntryInv, RefusalInv, CauseInv, RetiredBy
  <1> QED
    BY <1>16, <1>17, <1>18 DEF SessionInv

(* Every step of processes, network, operator and orchestrator keeps the   *)
(* session's invariant: who retired which token, whose entry is in the     *)
(* registry, and when a registration may be under way.                     *)
THEOREM SessionInvariant == SessionSpec => []SessionInv
  <1>1. SessionInit => SessionInv
    BY SessionStarts
  <1>2. SessionInv /\ [SessionNext]_sessionVars => SessionInv'
    <2> SUFFICES ASSUME SessionInv, [SessionNext]_sessionVars PROVE SessionInv'
      OBVIOUS
    <2>1. ASSUME NEW p \in Procs, Network(p) PROVE SessionInv'
      BY <2>1, LandStep, RegistrationEnds DEF Network
    <2>2. ASSUME NEW p \in Procs, Agent(p) PROVE SessionInv'
      BY <2>2, FireStep, WatcherSteps, AfterRefusalStep, AnswerStep, SettleStep DEF Agent
    <2>3. ASSUME NEW p \in Procs,
                 Begin(p) \/ StopBegin(p) \/ StopDeregister(p) \/ ChannelFlaps(p) \/ \E l \in Lines : Send(p, l)
          PROVE  SessionInv'
      BY <2>3, BeginStep, StopBeginStep, StopDeregisterStep, WatcherSteps, SendStep
    <2>4. CASE OperatorDeregisters \/ TokenExpires \/ OrchDown \/ OrchUp
      BY <2>4, OperatorStep, ForgetSteps, OrchUpStep
    <2>5. CASE UNCHANGED sessionVars
      <3>1. SessionTypeOK' /\ IssuerInv'
        BY <2>5 DEF sessionVars, SessionInv, SessionTypeOK, IssuerInv, RetiredBy
      <3>2. ASSUME NEW p \in Procs PROVE ProcInv(p)'
        BY <2>5 DEF sessionVars, SessionInv, ProcInv, TokensAged, Aged, LifeInv, OwnInv, EntryInv, Good, RefusalInv,
                    CauseInv, RetiredBy
      <3> QED
        BY <3>1, <3>2 DEF SessionInv
    <2> QED
      BY <2>1, <2>2, <2>3, <2>4, <2>5 DEF SessionNext
  <1> QED
    BY <1>1, <1>2, PTL DEF SessionSpec

(* For any number of processes, faults, restarts and calls: a process      *)
(* stops registering only for a cause (RevokedForCause), and one that left *)
(* has no registration under way or in the registry and took nobody else's *)
(* entry with it (StopIsFinal).                                            *)
THEOREM SessionsAreHonest == SessionSpec => [](RevokedForCause /\ StopIsFinal)
  <1>1. SessionInv => RevokedForCause /\ StopIsFinal
    BY DEF SessionInv, IssuerInv, ProcInv, CauseInv, LifeInv, EntryInv, RevokedForCause, StopIsFinal, Who
  <1> QED
    BY <1>1, SessionInvariant, PTL

(***************************************************************************)
(* The timers.                                                             *)
(***************************************************************************)
(* The block as the writer leaves it: the operator's own, or one with a    *)
(* list of timers whose own entries are the operator's, the default tick   *)
(* among them when the operator's block relied on it.                      *)
OwnTimers(a) == {t \in TimersOf(a) : t.kind # "convene"}
BlockInv ==
    /\ original \in Autonomies
    /\ autonomy = [level |-> autonomy.level, tick |-> original.tick, timers |-> autonomy.timers]
    /\ TimersOf(autonomy) \subseteq KnownTimers
    /\ \A t, u \in TimersOf(autonomy) : t.id = u.id => t = u
    /\ autonomy.timers = NoValue => autonomy = original
    /\ WasScheduling(original) => WasScheduling(autonomy)
    /\ \/ autonomy = original
       \/ OwnTimers(autonomy) = IF WasScheduling(original) /\ original.timers = NoValue
                                THEN {LegacyTick(original)} ELSE OwnTimers(original)

(* The anchors.  One that is neither of another clock nor of a timer since *)
(* edited lies at most a period ahead, and without jitter the last fire    *)
(* was either no earlier or a full period before it.                       *)
IsRows(f) == \A id \in DOMAIN f : f[id].at \in Int /\ f[id].interval \in Int /\ f[id].jitter \in Int
Starting == {"cache", "rebuild", "register"}
ClockInv ==
    /\ now \in Int /\ boots \in Int /\ saved.at \in Int
    /\ IsRows(rows) /\ IsRows(saved.rows)
    /\ \A id \in DOMAIN due : due[id] \in Int
    /\ \A id \in DOMAIN fired :
         /\ fired[id].at \in Int /\ fired[id].boot \in Int
         /\ fired[id].at <= now /\ fired[id].boot <= boots
         /\ stage \in Starting => fired[id].boot < boots
AnchorsInv ==
    \A id \in DOMAIN rows : id \notin foreign =>
        /\ rows[id].at <= now + rows[id].interval
        /\ (id \in DOMAIN fired /\ rows[id].jitter = 0) =>
              (fired[id].at >= rows[id].at \/ rows[id].at >= fired[id].at + rows[id].interval)

(* What the process has read when it rebuilds the table and registers.     *)
SavedInv ==
    /\ stage \in Starting => autonomy.timers # NoValue
    /\ autonomy.timers = NoValue => DOMAIN rows = {}
    /\ stage = "rebuild" => saved.rows = rows
    /\ stage = "register" => rows = BuildRows
    /\ stage \in {"rebuild", "register"} =>
         /\ saved.at <= now
         /\ \A id \in DOMAIN fired : fired[id].at <= saved.at
         /\ \A id \in DOMAIN rows : id \notin foreign => rows[id].at <= saved.at + rows[id].interval

(* A timer armed is the default tick or one of the list, and then it does  *)
(* not fire before its anchor.                                             *)
ArmedInv(id) ==
    \/ autonomy.timers = NoValue /\ id = LegacyId
    \/ /\ autonomy.timers # NoValue
       /\ Configured(id) \in autonomy.timers /\ Configured(id).id = id /\ Registrable(Configured(id))
       /\ id \in DOMAIN rows
       /\ rows[id].interval = Configured(id).interval /\ rows[id].jitter = Configured(id).jitter
       /\ (id \notin foreign /\ rows[id].jitter = 0) => due[id] >= rows[id].at
PeriodKept(id) ==
    /\ due[id] <= now + Armed(id).interval + Armed(id).jitter
    /\ id \in DOMAIN fired =>
         \/ due[id] - fired[id].at >= Armed(id).interval - Armed(id).jitter
         \/ (Armed(id).jitter > 0 \/ id \in foreign) /\ fired[id].boot # boots
TimersInv ==
    /\ BlockInv /\ ClockInv /\ AnchorsInv /\ SavedInv
    /\ stage = "up" => \A id \in DOMAIN due : ArmedInv(id) /\ PeriodKept(id)

(* The larger and the smaller of two numbers.                              *)
LEMMA MaxMinOfTwo ==
  ASSUME NEW x \in Int, NEW y \in Int
  PROVE  /\ Max({x, y}) \in Int /\ Max({x, y}) >= x /\ Max({x, y}) >= y /\ (Max({x, y}) = x \/ Max({x, y}) = y)
         /\ Min({x, y}) \in Int /\ Min({x, y}) <= x /\ Min({x, y}) <= y /\ (Min({x, y}) = x \/ Min({x, y}) = y)
  <1>1. \E m \in {x, y} : \A z \in {x, y} : m >= z
    <2>1. CASE x >= y
      BY <2>1
    <2>2. CASE y >= x
      BY <2>2
    <2> QED
      BY <2>1, <2>2
  <1>2. \E m \in {x, y} : \A z \in {x, y} : m <= z
    <2>1. CASE x >= y
      BY <2>1
    <2>2. CASE y >= x
      BY <2>2
    <2> QED
      BY <2>1, <2>2
  <1> QED
    BY <1>1, <1>2 DEF Max, Min

LEMMA EmptyFunction == DOMAIN NoTimers = {}
  BY DEF NoTimers

(* Of a list without repeated ids, the timer of an id is the one.          *)
LEMMA ConfiguredTimer ==
  ASSUME NEW t \in autonomy.timers
  PROVE  /\ Configured(t.id) \in autonomy.timers /\ Configured(t.id).id = t.id
         /\ BlockInv /\ autonomy.timers # NoValue => Configured(t.id) = t
  <1>1. Configured(t.id) \in autonomy.timers /\ Configured(t.id).id = t.id
    BY DEF Configured
  <1> QED
    BY <1>1 DEF BlockInv, TimersOf

(* What the invariant says is what the writer promises.                    *)
LEMMA BlockKeepsCadence == BlockInv => WriterKeepsTheCadence
  <1> SUFFICES ASSUME BlockInv PROVE WriterKeepsTheCadence
    OBVIOUS
  <1>1. CASE autonomy = original
    BY <1>1 DEF BlockInv, WriterKeepsTheCadence, Cadence, TimersOf
  <1>2. CASE autonomy # original
    <2>1. autonomy.timers # NoValue
      BY <1>2 DEF BlockInv
    <2>2. CASE WasScheduling(original)
      BY <1>2, <2>1, <2>2 DEF BlockInv, WriterKeepsTheCadence, Cadence, TimersOf, OwnTimers
    <2>3. CASE ~WasScheduling(original)
      BY <1>2, <2>1, <2>3 DEF BlockInv, WriterKeepsTheCadence, Cadence, TimersOf, OwnTimers
    <2> QED
      BY <2>2, <2>3
  <1> QED
    BY <1>1, <1>2

(* What is a known timer.                                                  *)
LEMMA KnownTimersAre ==
  /\ \A a \in Autonomies : LegacyTick(a) \in KnownTimers /\ TimersOf(a) \subseteq KnownTimers
  /\ \A specs \in SpecSets : \A s \in specs : ConveneTimer(s) \in KnownTimers
  <1>0. PICK A, B, C : /\ KnownTimers = A \cup B \cup C /\ B = {LegacyTick(b) : b \in Autonomies}
                       /\ C = {ConveneTimer(v) : v \in UNION SpecSets}
    BY DEF KnownTimers
  <1>1. ASSUME NEW a \in Autonomies PROVE LegacyTick(a) \in KnownTimers
    <2>1. LegacyTick(a) \in B
      BY <1>0, Zenon
    <2> QED
      BY <2>1, <1>0
  <1>2. \A a \in Autonomies : TimersOf(a) \subseteq KnownTimers
    BY DEF KnownTimers
  <1>3. ASSUME NEW specs \in SpecSets, NEW s \in specs PROVE ConveneTimer(s) \in KnownTimers
    <2>1. s \in UNION SpecSets
      BY <1>3
    <2>2. ConveneTimer(s) \in C
      BY <2>1, <1>0, Zenon
    <2> QED
      BY <2>2, <1>0
  <1> QED
    BY <1>1, <1>2, <1>3

(* The default tick is that of the operator's block.                       *)
LEMMA DefaultTickIs ==
  ASSUME BlockInv
  PROVE  /\ LegacyTick(autonomy) = LegacyTick(original) /\ LegacyTick(original) \in KnownTimers
         /\ LegacyTick(autonomy).interval \in Int /\ LegacyTick(autonomy).jitter = 0
         /\ LegacyTick(autonomy).kind # "convene"
  <1>1. autonomy.tick = original.tick
    BY DEF BlockInv
  <1>2. LegacyTick(autonomy) = LegacyTick(original)
    BY <1>1 DEF LegacyTick
  <1>3. LegacyTick(original) \in KnownTimers
    BY KnownTimersAre DEF BlockInv
  <1>4. LegacyTick(original).interval \in Int
    BY <1>3, TimersAssumption
  <1>5. LegacyTick(autonomy).jitter = 0 /\ LegacyTick(autonomy).kind # "convene"
    BY DEF LegacyTick, Timer
  <1> QED
    BY <1>2, <1>3, <1>4, <1>5

(* A timer armed has an interval and a jitter.                             *)
LEMMA ArmedTimer ==
  ASSUME NEW id, ArmedInv(id), BlockInv
  PROVE  /\ Armed(id).interval \in Int /\ Armed(id).jitter \in Int
         /\ autonomy.timers # NoValue => Armed(id) = Configured(id)
  <1>1. CASE autonomy.timers = NoValue
    BY <1>1, DefaultTickIs DEF Armed
  <1>2. CASE autonomy.timers # NoValue
    <2>1. Configured(id) \in KnownTimers /\ Armed(id) = Configured(id)
      BY <1>2 DEF ArmedInv, BlockInv, TimersOf, Armed
    <2> QED
      BY <2>1, TimersAssumption
  <1> QED
    BY <1>1, <1>2

(* The writer keeps every timer of the operator's.                         *)
LEMMA WriteConfigBlock ==
  ASSUME NEW specs \in SpecSets, WriteConfig(specs), BlockInv
  PROVE  /\ BlockInv'
         /\ autonomy'.timers = NoValue => autonomy.timers = NoValue
  <1>1. autonomy' = MergeConveneTimers(autonomy, specs) /\ original' = original
    BY DEF WriteConfig
  <1> DEFINE writes == specs # {} \/ autonomy.timers # NoValue
             new == {ConveneTimer(s) : s \in specs}
             list == KeptTimers(autonomy, specs) \cup new
  <1>2. LegacyTick(autonomy) = LegacyTick(original) /\ LegacyTick(original) \in KnownTimers
    BY DefaultTickIs
  <1>3. new \subseteq KnownTimers /\ \A t \in new : t.kind = "convene"
    <2>1. \A s \in specs : ConveneTimer(s) \in KnownTimers
      BY KnownTimersAre
    <2>2. \A s \in specs : ConveneTimer(s).kind = "convene"
      BY DEF ConveneTimer, Timer
    <2> QED
      BY <2>1, <2>2
  <1>4. LegacyTick(autonomy).kind # "convene"
    BY DEF LegacyTick, Timer
  <1>5. /\ KeptTimers(autonomy, specs) \subseteq KnownTimers
        /\ \A t \in KeptTimers(autonomy, specs) : t.kind # "convene"
        /\ \A t, u \in KeptTimers(autonomy, specs) : t.id = u.id => t = u
    BY <1>2, <1>4 DEF KeptTimers, UpsertById, BlockInv, TimersOf
  <1>6. \A t, u \in new : t.id = u.id => t = u
    <2> SUFFICES ASSUME NEW s \in specs, NEW v \in specs, ConveneTimer(s).id = ConveneTimer(v).id
                 PROVE  s = v
      OBVIOUS
    <2>1. StandingTimerId(s.channel) = StandingTimerId(v.channel)
      BY DEF ConveneTimer, Timer
    <2>2. StandingTimerId(s.channel) # NoValue /\ StandingTimerId(v.channel) # NoValue
      BY DEF WriteConfig, Armable
    <2>3. s.channel = v.channel
      BY <2>1, <2>2, TimersAssumption DEF StandingTimerId
    <2> QED
      BY <2>3, TimersAssumption
  <1>7. \A t \in KeptTimers(autonomy, specs), u \in new : t.id # u.id
    BY DEF WriteConfig, Armable, ConveneTimer, Timer
  <1>8. list \subseteq KnownTimers /\ list # NoValue /\ \A t, u \in list : t.id = u.id => t = u
    <2>1. list \subseteq KnownTimers
      BY <1>3, <1>5
    <2>2. list # NoValue
      BY <2>1, TimersAssumption
    <2> QED
      BY <2>1, <2>2, <1>5, <1>6, <1>7
  <1>9. /\ autonomy'.timers = IF writes THEN list ELSE autonomy.timers
        /\ autonomy'.level = IF specs # {} /\ ~WasScheduling(autonomy) THEN "semi-autonomous" ELSE autonomy.level
        /\ autonomy' = [level |-> autonomy'.level, tick |-> original.tick, timers |-> autonomy'.timers]
    <2>1. PICK l, k, m : autonomy = [level |-> l, tick |-> k, timers |-> m] /\ k = original.tick
      BY DEF BlockInv
    <2>2. PICK v : v = IF writes THEN list ELSE autonomy.timers
      OBVIOUS
    <2>3. PICK w : w = IF specs # {} /\ ~WasScheduling(autonomy) THEN "semi-autonomous" ELSE autonomy.level
      OBVIOUS
    <2>4. autonomy' = [autonomy EXCEPT !.timers = v, !.level = w]
      BY <1>1, <2>2, <2>3 DEF MergeConveneTimers
    <2>5. autonomy' = [level |-> w, tick |-> k, timers |-> v]
      BY <2>1, <2>4, Zenon
    <2> QED
      BY <2>1, <2>2, <2>3, <2>5
  <1>10. CASE ~writes
    <2>1. autonomy' = autonomy
      BY <1>9, <1>10 DEF BlockInv
    <2> QED
      BY <2>1, <1>1, Zenon DEF BlockInv, TimersOf, WasScheduling, OwnTimers
  <1>11. CASE writes
    <2>1. autonomy'.timers = list
      BY <1>9, <1>11
    <2>2. {t \in list : t.kind # "convene"} = KeptTimers(autonomy, specs)
      BY <1>3, <1>5
    <2>3. WasScheduling(original) => WasScheduling(autonomy')
      BY <1>9 DEF BlockInv, WasScheduling, SchedulerLevels
    <2>4. KeptTimers(autonomy, specs) = IF WasScheduling(original) /\ original.timers = NoValue
                                        THEN {LegacyTick(original)} ELSE OwnTimers(original)
      <3>1. CASE autonomy = original /\ autonomy.timers = NoValue
        BY <3>1, <1>11 DEF KeptTimers, UpsertById, TimersOf, OwnTimers
      <3>2. CASE autonomy.timers # NoValue
        BY <3>2 DEF KeptTimers, BlockInv, OwnTimers, TimersOf
      <3> QED
        BY <3>1, <3>2 DEF BlockInv
    <2>5. OwnTimers(autonomy') = KeptTimers(autonomy, specs) /\ TimersOf(autonomy') = list
      BY <2>1, <2>2, <1>8 DEF OwnTimers, TimersOf
    <2> HIDE DEF list
    <2> QED
      BY <1>1, <1>8, <1>9, <2>1, <2>3, <2>4, <2>5 DEF BlockInv, TimersOf, WasScheduling, OwnTimers
  <1> QED
    BY <1>10, <1>11

(* A write of the config, which no process runs beside, keeps the rest.    *)
LEMMA WriteConfigStep ==
  ASSUME NEW specs \in SpecSets, WriteConfig(specs), TimersInv
  PROVE  TimersInv'
  <1>1. BlockInv' /\ (autonomy'.timers = NoValue => autonomy.timers = NoValue)
    BY WriteConfigBlock DEF TimersInv
  <1>2. ClockInv' /\ AnchorsInv'
    BY DEF WriteConfig, TimersInv, ClockInv, AnchorsInv, IsRows
  <1>3. SavedInv' /\ stage' # "up"
    BY <1>1 DEF WriteConfig, TimersInv, SavedInv, Starting
  <1> QED
    BY <1>1, <1>2, <1>3 DEF TimersInv

(* The steps of a start before the table is rebuilt.                       *)
LEMMA BootStep ==
  ASSUME Boot, TimersInv
  PROVE  TimersInv'
  <1>1. UNCHANGED <<autonomy, original, rows, now, saved, fired, foreign>> /\ boots' = boots + 1
    BY DEF Boot
  <1>2. BlockInv' /\ AnchorsInv'
    BY <1>1 DEF TimersInv, BlockInv, AnchorsInv, TimersOf, WasScheduling, OwnTimers
  <1>3. stage' \in {"left_out", "cache", "up"}
    BY DEF Boot
  <1>4. (stage' = "cache" => autonomy.timers # NoValue) /\ (stage' = "up" => autonomy.timers = NoValue \/ due' = NoTimers)
    BY DEF Boot
  <1>5. SavedInv'
    BY <1>1, <1>3, <1>4 DEF TimersInv, SavedInv, Starting
  <1>6. CASE stage' # "up"
    <2>1. due' = due
      BY <1>6 DEF Boot
    <2>2. ClockInv'
      BY <1>1, <2>1 DEF TimersInv, ClockInv, IsRows
    <2> QED
      BY <1>2, <1>5, <1>6, <2>2 DEF TimersInv
  <1>7. CASE due' = NoTimers
    <2>1. ClockInv'
      BY <1>1, <1>7, EmptyFunction DEF TimersInv, ClockInv, IsRows
    <2> QED
      BY <1>2, <1>5, <1>7, <2>1, EmptyFunction DEF TimersInv
  <1>8. CASE stage' = "up" /\ autonomy.timers = NoValue /\ due' = [i \in {LegacyId} |-> now + LegacyTick(autonomy).interval]
    <2>1. PICK n : n = LegacyTick(autonomy).interval
      OBVIOUS
    <2>2. n \in Int /\ LegacyTick(autonomy).jitter = 0
      BY <2>1, DefaultTickIs DEF TimersInv
    <2>3. DOMAIN due' = {LegacyId} /\ due'[LegacyId] = now + n
      BY <1>8, <2>1
    <2>4. ClockInv'
      BY <1>1, <2>2, <2>3 DEF TimersInv, ClockInv, IsRows
    <2>5. Armed(LegacyId)' = LegacyTick(autonomy)
      BY <1>1, <1>8 DEF Armed, LegacyTick
    <2>6. PeriodKept(LegacyId)'
      BY <1>1, <2>1, <2>2, <2>3, <2>5 DEF PeriodKept, TimersInv, ClockInv
    <2>7. ArmedInv(LegacyId)'
      BY <1>1, <1>8 DEF ArmedInv
    <2> QED
      BY <1>2, <1>5, <2>3, <2>4, <2>6, <2>7 DEF TimersInv
  <1> QED
    BY <1>3, <1>4, <1>6, <1>7, <1>8 DEF Boot

LEMMA StartFailsStep ==
  ASSUME StartFails \/ Exit, TimersInv
  PROVE  TimersInv'
  <1>1. /\ UNCHANGED <<autonomy, original, rows, now, fired, boots, foreign>>
        /\ due' = NoTimers /\ stage' \in {"down", "failed"}
        /\ saved' = saved \/ (saved'.rows = NoTimers /\ saved'.at = 0)
    BY DEF StartFails, Exit
  <1>2. BlockInv' /\ AnchorsInv'
    BY <1>1 DEF TimersInv, BlockInv, AnchorsInv, TimersOf, WasScheduling, OwnTimers
  <1>3. ClockInv'
    BY <1>1, EmptyFunction DEF TimersInv, ClockInv, IsRows, Starting
  <1>4. SavedInv'
    BY <1>1 DEF TimersInv, SavedInv, Starting
  <1> QED
    BY <1>1, <1>2, <1>3, <1>4, EmptyFunction DEF TimersInv

LEMMA ListTimersStep ==
  ASSUME ListTimers, TimersInv
  PROVE  TimersInv'
  <1>1. /\ UNCHANGED <<autonomy, original, rows, now, due, fired, boots, foreign>>
        /\ saved'.rows = rows /\ saved'.at = now /\ stage' = "rebuild" /\ stage = "cache"
    BY DEF ListTimers
  <1>2. BlockInv' /\ AnchorsInv'
    BY <1>1 DEF TimersInv, BlockInv, AnchorsInv, TimersOf, WasScheduling, OwnTimers
  <1>3. ClockInv'
    BY <1>1 DEF TimersInv, ClockInv, IsRows, Starting
  <1>4. SavedInv'
    BY <1>1 DEF TimersInv, SavedInv, Starting, AnchorsInv, ClockInv
  <1> QED
    BY <1>1, <1>2, <1>3, <1>4 DEF TimersInv

(* Time, and a reboot of the host, which makes every anchor foreign.       *)
LEMMA ClockStep ==
  ASSUME Clock \/ Reboot, TimersInv
  PROVE  TimersInv'
  <1>1. CASE Clock
    <2>1. UNCHANGED <<autonomy, original, rows, stage, saved, due, fired, boots, foreign>> /\ now' = now + 1
      BY <1>1 DEF Clock
    <2>2. BlockInv' /\ AnchorsInv' /\ ClockInv'
      BY <2>1 DEF TimersInv, BlockInv, AnchorsInv, TimersOf, WasScheduling, OwnTimers, ClockInv, IsRows
    <2>3. SavedInv'
      BY <2>1 DEF TimersInv, SavedInv, ClockInv, BuildRows, Ahead, Configured, Starting
    <2>4. ASSUME stage' = "up", NEW id \in DOMAIN due' PROVE ArmedInv(id)' /\ PeriodKept(id)'
      <3>1. ArmedInv(id) /\ PeriodKept(id) /\ id \in DOMAIN due
        BY <2>1, <2>4 DEF TimersInv
      <3>2. ArmedInv(id)'
        BY <3>1, <2>1 DEF ArmedInv, Configured, Registrable
      <3>3. Armed(id)' = Armed(id)
        BY <2>1 DEF Armed, Configured, LegacyTick
      <3>4. PICK t : t = Armed(id)
        OBVIOUS
      <3>5. t.interval \in Int /\ t.jitter \in Int
        BY <3>1, <3>4, ArmedTimer DEF TimersInv
      <3>6. PeriodKept(id)'
        BY <3>1, <3>3, <3>4, <3>5, <2>1 DEF PeriodKept, TimersInv, ClockInv
      <3> QED
        BY <3>2, <3>6
    <2> QED
      BY <2>2, <2>3, <2>4 DEF TimersInv
  <1>2. CASE Reboot
    <2>1. /\ UNCHANGED <<autonomy, original, rows, stage, saved, due, boots>>
          /\ now' = 1 /\ DOMAIN fired' = {} /\ foreign' = DOMAIN rows /\ stage = "down"
      BY <1>2, EmptyFunction DEF Reboot
    <2>2. BlockInv' /\ AnchorsInv' /\ ClockInv'
      BY <2>1 DEF TimersInv, BlockInv, AnchorsInv, TimersOf, WasScheduling, OwnTimers, ClockInv, IsRows
    <2>3. SavedInv'
      BY <2>1 DEF TimersInv, SavedInv, Starting
    <2> QED
      BY <2>1, <2>2, <2>3 DEF TimersInv
  <1> QED
    BY <1>1, <1>2

(* The rebuild keeps the anchors ahead and sets the others a period ahead. *)
LEMMA RebuildStep ==
  ASSUME RebuildFromConfig, TimersInv
  PROVE  TimersInv'
  <1>1. /\ UNCHANGED <<autonomy, original, now, saved, due, fired, boots>>
        /\ stage = "rebuild" /\ stage' = "register" /\ rows' = BuildRows
    BY DEF RebuildFromConfig
  <1>2. autonomy.timers # NoValue /\ saved.rows = rows
    BY <1>1 DEF TimersInv, SavedInv, Starting
  <1>3. BlockInv'
    BY <1>1 DEF TimersInv, BlockInv, TimersOf, WasScheduling, OwnTimers
  <1>4. ASSUME NEW id \in DOMAIN rows'
        PROVE  /\ Configured(id).interval \in Int /\ Configured(id).jitter \in Int
               /\ rows'[id].interval = Configured(id).interval /\ rows'[id].jitter = Configured(id).jitter
               /\ rows'[id].at = IF Ahead(id) THEN saved.rows[id].at ELSE saved.at + Configured(id).interval
               /\ id \notin foreign' => (~Ahead(id) \/ (id \notin foreign /\ ~Edited(id)))
    <2>1. PICK t \in autonomy.timers : t.id = id
      BY <1>1, <1>4 DEF BuildRows
    <2>2. Configured(id) \in autonomy.timers
      BY <2>1, ConfiguredTimer
    <2>3. Configured(id).interval \in Int /\ Configured(id).jitter \in Int
      BY <1>2, <2>2, TimersAssumption DEF TimersInv, BlockInv, TimersOf
    <2>4. id \in DOMAIN BuildRows /\ rows'[id] = BuildRows[id]
      BY <1>1
    <2>5. id \notin foreign' => (~Ahead(id) \/ (id \notin foreign /\ ~Edited(id)))
      BY <2>4 DEF RebuildFromConfig
    <2> QED
      BY <2>1, <2>3, <2>4, <2>5 DEF BuildRows
  <1>5. ClockInv'
    <2>1. \A id \in DOMAIN rows' : rows'[id].at \in Int /\ rows'[id].interval \in Int /\ rows'[id].jitter \in Int
      BY <1>4 DEF TimersInv, ClockInv, IsRows, Ahead
    <2> QED
      BY <1>1, <2>1 DEF TimersInv, ClockInv, IsRows, Starting
  <1>6. ASSUME NEW id \in DOMAIN rows', id \notin foreign'
        PROVE  /\ rows'[id].at <= saved.at + rows'[id].interval
               /\ (id \in DOMAIN fired /\ rows'[id].jitter = 0) =>
                     (fired[id].at >= rows'[id].at \/ rows'[id].at >= fired[id].at + rows'[id].interval)
    <2>1. CASE ~Ahead(id)
      <3>1. rows'[id].at = saved.at + rows'[id].interval /\ rows'[id].interval \in Int
        BY <1>4, <1>6, <2>1
      <3>2. id \in DOMAIN fired => fired[id].at <= saved.at /\ fired[id].at \in Int
        BY <1>1 DEF TimersInv, SavedInv, ClockInv
      <3>3. saved.at \in Int
        BY DEF TimersInv, ClockInv
      <3> QED
        BY <3>1, <3>2, <3>3
    <2>2. CASE Ahead(id) /\ id \notin foreign /\ ~Edited(id)
      <3>1. id \in DOMAIN rows /\ rows'[id].at = rows[id].at
        BY <1>2, <1>4, <1>6, <2>2 DEF Ahead
      <3>2. rows'[id].interval = rows[id].interval /\ rows'[id].jitter = rows[id].jitter
        BY <1>2, <1>4, <1>6, <2>2 DEF Edited
      <3>3. rows[id].at <= saved.at + rows[id].interval
        BY <1>1, <2>2, <3>1 DEF TimersInv, SavedInv
      <3> QED
        BY <2>2, <3>1, <3>2, <3>3 DEF TimersInv, AnchorsInv
    <2> QED
      BY <1>4, <1>6, <2>1, <2>2
  <1>7. AnchorsInv'
    <2> SUFFICES ASSUME NEW id \in DOMAIN rows', id \notin foreign'
                 PROVE  /\ rows'[id].at <= now + rows'[id].interval
                        /\ (id \in DOMAIN fired /\ rows'[id].jitter = 0) =>
                              (fired[id].at >= rows'[id].at \/ rows'[id].at >= fired[id].at + rows'[id].interval)
      BY <1>1 DEF AnchorsInv
    <2>1. saved.at <= now /\ saved.at \in Int /\ now \in Int
      BY <1>1 DEF TimersInv, SavedInv, ClockInv
    <2>2. rows'[id].interval \in Int /\ rows'[id].at \in Int
      BY <1>5 DEF ClockInv, IsRows
    <2> QED
      BY <1>6, <2>1, <2>2
  <1>8. SavedInv'
    <2>1. BuildRows' = BuildRows
      BY <1>1 DEF BuildRows, Ahead, Configured
    <2>2. saved.at <= now /\ \A id \in DOMAIN fired : fired[id].at <= saved.at
      BY <1>1 DEF TimersInv, SavedInv
    <2> QED
      BY <1>1, <1>2, <1>6, <2>1, <2>2 DEF SavedInv
  <1> QED
    BY <1>1, <1>3, <1>5, <1>7, <1>8 DEF TimersInv

(* A first delay of a timer in the list, and what it leads to.             *)
LEMMA FirstDelayBounds ==
  ASSUME NEW t \in autonomy.timers, NEW d \in FirstDelay(t), TimersInv, stage = "register", Registrable(t)
  PROVE  /\ t.interval \in Int /\ t.jitter \in Int /\ t.interval >= 1 /\ d \in Int
         /\ d <= t.interval + t.jitter
         /\ t.id \in DOMAIN rows /\ rows[t.id].interval = t.interval /\ rows[t.id].jitter = t.jitter
         /\ (t.id \notin foreign /\ t.jitter = 0) =>
              /\ rows[t.id].at > saved.at
              /\ now + d >= rows[t.id].at
  <1>1. autonomy.timers # NoValue /\ rows = BuildRows
    BY DEF TimersInv, SavedInv, Starting
  <1>2. t.interval \in Int /\ t.jitter \in Int /\ t.interval >= 1 /\ t.jitter >= 0
    BY <1>1, TimersAssumption DEF TimersInv, BlockInv, TimersOf, Registrable, MinInterval
  <1>3. Configured(t.id) = t
    BY <1>1, ConfiguredTimer DEF TimersInv
  <1>4. t.id \in DOMAIN rows
    BY <1>1 DEF BuildRows
  <1>5. /\ rows[t.id].interval = t.interval /\ rows[t.id].jitter = t.jitter
        /\ rows[t.id].at = IF Ahead(t.id) THEN saved.rows[t.id].at ELSE saved.at + t.interval
    BY <1>1, <1>3, <1>4 DEF BuildRows
  <1>6. saved.at \in Int /\ now \in Int /\ saved.at <= now
    BY DEF TimersInv, ClockInv, SavedInv
  <1>7. CASE ~Ahead(t.id)
    <2>1. d \in (t.interval - t.jitter) .. (t.interval + t.jitter)
      BY <1>7 DEF FirstDelay, NextDelay
    <2> QED
      BY <1>2, <1>4, <1>5, <1>6, <1>7, <2>1
  <1>8. CASE Ahead(t.id)
    <2>1. PICK x \in Int : x = saved.rows[t.id].at - saved.at
      BY <1>8, <1>6 DEF Ahead, TimersInv, ClockInv, IsRows
    <2>a. PICK u \in Int : u = t.interval + t.jitter
      BY <1>2
    <2>b. Min({x, u}) \in Int /\ Min({x, u}) <= x /\ Min({x, u}) <= u /\ (Min({x, u}) = x \/ Min({x, u}) = u)
      BY MaxMinOfTwo, Zenon
    <2>2. PICK m \in Int : m = Min({x, u}) /\ m <= x /\ m <= u /\ (m = x \/ m = u)
      BY <2>b
    <2>3. d = Max({1, m})
      BY <1>8, <2>1, <2>a, <2>2 DEF FirstDelay, InitialDelay, MinInterval
    <2>c. 1 \in Int
      OBVIOUS
    <2>d. Max({1, m}) \in Int /\ Max({1, m}) >= m /\ (Max({1, m}) = 1 \/ Max({1, m}) = m)
      BY <2>c, MaxMinOfTwo, Zenon
    <2>4. d \in Int /\ d >= m /\ (d = 1 \/ d = m)
      BY <2>3, <2>d
    <2>5. rows[t.id].at = saved.at + x /\ x > 0
      BY <1>5, <1>6, <1>8, <2>1 DEF Ahead, TimersInv, ClockInv, IsRows
    <2>6. t.id \notin foreign => rows[t.id].at <= saved.at + t.interval
      BY <1>4, <1>5 DEF TimersInv, SavedInv
    <2> QED
      BY <1>2, <1>4, <1>5, <1>6, <2>a, <2>2, <2>4, <2>5, <2>6
  <1> QED
    BY <1>7, <1>8

LEMMA RegisterStep ==
  ASSUME RegisterTimers, TimersInv
  PROVE  TimersInv'
  <1>1. /\ UNCHANGED <<autonomy, original, rows, now, saved, fired, boots, foreign>>
        /\ stage = "register" /\ stage' = "up"
    BY DEF RegisterTimers
  <1>2. autonomy.timers # NoValue
    BY <1>1 DEF TimersInv, SavedInv, Starting
  <1>3. BlockInv' /\ AnchorsInv'
    BY <1>1 DEF TimersInv, BlockInv, AnchorsInv, TimersOf, WasScheduling, OwnTimers
  <1>4. SavedInv'
    BY <1>1 DEF TimersInv, SavedInv, Starting
  <1>5. ASSUME NEW id \in DOMAIN due'
        PROVE  due'[id] \in Int /\ ArmedInv(id)' /\ PeriodKept(id)'
    <2>1. PICK t \in autonomy.timers : \E d \in FirstDelay(t) :
             t.id = id /\ due'[id] = now + d /\ Configured(id) = t /\ Registrable(t)
      <3>1. PICK delay : /\ \A t \in autonomy.timers : delay[t] \in FirstDelay(t)
                         /\ due' = [i \in {t.id : t \in autonomy.timers} |-> now + delay[Configured(i)]]
        BY DEF RegisterTimers
      <3>2. PICK t \in autonomy.timers : t.id = id
        BY <1>5, <3>1
      <3>3. Configured(id) = t
        BY <1>2, <3>2, ConfiguredTimer DEF TimersInv
      <3>4. due'[id] = now + delay[t]
        BY <1>5, <3>1, <3>3
      <3> QED
        BY <3>1, <3>2, <3>3, <3>4 DEF RegisterTimers
    <2>a. PICK d \in FirstDelay(t) : t.id = id /\ due'[id] = now + d /\ Configured(id) = t /\ Registrable(t)
      BY <2>1
    <2>2. /\ t.interval \in Int /\ t.jitter \in Int /\ t.interval >= 1 /\ d \in Int
          /\ d <= t.interval + t.jitter
          /\ id \in DOMAIN rows /\ rows[id].interval = t.interval /\ rows[id].jitter = t.jitter
          /\ (id \notin foreign /\ t.jitter = 0) =>
               /\ rows[id].at > saved.at
               /\ now + d >= rows[id].at
      BY <1>1, <2>a, FirstDelayBounds
    <2>3. now \in Int /\ saved.at \in Int /\ rows[id].at \in Int
      BY <2>2 DEF TimersInv, ClockInv, IsRows
    <2>4. Configured(id)' = t /\ Armed(id)' = t /\ Registrable(t)'
      BY <1>1, <1>2, <2>a DEF Configured, Armed, Registrable
    <2>5. ArmedInv(id)'
      BY <1>1, <1>2, <2>a, <2>2, <2>4 DEF ArmedInv
    <2>6. id \in DOMAIN fired =>
             \/ due'[id] - fired[id].at >= t.interval - t.jitter
             \/ (t.jitter > 0 \/ id \in foreign) /\ fired[id].boot # boots
      <3>1. SUFFICES ASSUME id \in DOMAIN fired
                     PROVE  \/ due'[id] - fired[id].at >= t.interval - t.jitter
                            \/ (t.jitter > 0 \/ id \in foreign) /\ fired[id].boot # boots
        OBVIOUS
      <3>2. fired[id].at \in Int /\ fired[id].boot \in Int /\ boots \in Int /\ fired[id].boot < boots
        BY <1>1, <3>1 DEF TimersInv, ClockInv, Starting
      <3>3. fired[id].at <= saved.at
        BY <1>1, <3>1 DEF TimersInv, SavedInv
      <3>4. t.jitter >= 0
        BY <2>a, <2>2 DEF Registrable
      <3>5. CASE t.jitter = 0 /\ id \notin foreign
        <4>1. fired[id].at >= rows[id].at \/ rows[id].at >= fired[id].at + t.interval
          BY <2>2, <3>1, <3>5 DEF TimersInv, AnchorsInv
        <4> QED
          BY <2>a, <2>2, <2>3, <3>2, <3>3, <3>5, <4>1
      <3> QED
        BY <2>2, <3>2, <3>4, <3>5
    <2>7. PeriodKept(id)'
      <3>1. now + d <= now + t.interval + t.jitter
        BY <2>2, <2>3
      <3>2. due'[id] <= now' + Armed(id)'.interval + Armed(id)'.jitter
        BY <1>1, <2>a, <2>4, <3>1
      <3>3. id \in DOMAIN fired' =>
               \/ due'[id] - fired'[id].at >= Armed(id)'.interval - Armed(id)'.jitter
               \/ (Armed(id)'.jitter > 0 \/ id \in foreign') /\ fired'[id].boot # boots'
        BY <1>1, <2>a, <2>4, <2>6
      <3> QED
        BY <3>2, <3>3, Zenon DEF PeriodKept
    <2> QED
      BY <2>a, <2>2, <2>3, <2>5, <2>7
  <1>6. ClockInv'
    BY <1>1, <1>5 DEF TimersInv, ClockInv, IsRows, Starting
  <1> QED
    BY <1>3, <1>4, <1>5, <1>6 DEF TimersInv

(* A fire: the next is a period away, and an anchor it honoured is behind. *)
LEMMA FireTimerStep ==
  ASSUME NEW id \in DOMAIN due, FireTimer(id), TimersInv
  PROVE  TimersInv'
  <1>1. /\ UNCHANGED <<autonomy, original, rows, now, stage, saved, boots, foreign>>
        /\ stage = "up" /\ due[id] <= now
    BY DEF FireTimer
  <1>2. ArmedInv(id) /\ BlockInv
    BY <1>1 DEF TimersInv
  <1>3. PICK t : t = Armed(id)
    OBVIOUS
  <1>4. t.interval \in Int /\ t.jitter \in Int /\ (autonomy.timers # NoValue => t = Configured(id))
    BY <1>2, <1>3, ArmedTimer
  <1>5. now \in Int /\ boots \in Int /\ due[id] \in Int
    BY DEF TimersInv, ClockInv
  <1>6. PICK d \in Int : /\ due' = [due EXCEPT ![id] = now + d]
                         /\ t.interval - t.jitter <= d /\ d <= t.interval + t.jitter
    <2>1. PICK d \in NextDelay(t) : due' = [due EXCEPT ![id] = now + d]
      BY <1>3 DEF FireTimer
    <2>2. d \in Int /\ t.interval - t.jitter <= d /\ d <= t.interval + t.jitter
      BY <1>4, <2>1 DEF NextDelay
    <2> QED
      BY <2>1, <2>2
  <1>7. DOMAIN due' = DOMAIN due /\ due'[id] = now + d /\ \A i \in DOMAIN due : i # id => due'[i] = due[i]
    BY <1>6
  <1>8. /\ DOMAIN fired' = DOMAIN fired \cup {id} /\ fired'[id].at = now /\ fired'[id].boot = boots
        /\ \A i \in DOMAIN fired : i # id => fired'[i] = fired[i]
    BY DEF FireTimer
  <1>9. BlockInv'
    BY <1>1 DEF TimersInv, BlockInv, TimersOf, WasScheduling, OwnTimers
  <1>10. ClockInv'
    <2>1. \A i \in DOMAIN due' : due'[i] \in Int
      BY <1>5, <1>6, <1>7 DEF TimersInv, ClockInv
    <2>2. ASSUME NEW i \in DOMAIN fired'
          PROVE  /\ fired'[i].at \in Int /\ fired'[i].boot \in Int
                 /\ fired'[i].at <= now /\ fired'[i].boot <= boots
      BY <1>5, <1>8, <2>2 DEF TimersInv, ClockInv
    <2> QED
      BY <1>1, <2>1, <2>2 DEF TimersInv, ClockInv, IsRows, Starting
  <1>11. AnchorsInv'
    <2> SUFFICES ASSUME NEW i \in DOMAIN rows, i \notin foreign
                 PROVE  /\ rows[i].at <= now + rows[i].interval
                        /\ (i \in DOMAIN fired' /\ rows[i].jitter = 0) =>
                              (fired'[i].at >= rows[i].at \/ rows[i].at >= fired'[i].at + rows[i].interval)
      BY <1>1 DEF AnchorsInv
    <2>1. CASE i # id
      BY <1>8, <2>1 DEF TimersInv, AnchorsInv
    <2>2. CASE i = id
      <3>1. rows[id].jitter = 0 => due[id] >= rows[id].at
        BY <1>2, <2>2 DEF ArmedInv, TimersInv, SavedInv
      <3>2. rows[id].at \in Int
        BY <2>2 DEF TimersInv, ClockInv, IsRows
      <3> QED
        BY <1>1, <1>5, <1>8, <2>2, <3>1, <3>2 DEF TimersInv, AnchorsInv
    <2> QED
      BY <2>1, <2>2
  <1>12. SavedInv'
    BY <1>1 DEF TimersInv, SavedInv, Starting
  <1>13. ASSUME NEW i \in DOMAIN due' PROVE ArmedInv(i)' /\ PeriodKept(i)'
    <2>1. Armed(i)' = Armed(i) /\ Configured(i)' = Configured(i)
      BY <1>1 DEF Armed, Configured, LegacyTick
    <2>2. CASE i # id
      <3>1. ArmedInv(i) /\ PeriodKept(i)
        BY <1>1, <1>7, <1>13 DEF TimersInv
      <3>2. ArmedInv(i)'
        BY <1>1, <1>7, <1>13, <2>1, <2>2, <3>1 DEF ArmedInv, Registrable
      <3>3. PeriodKept(i)'
        BY <1>1, <1>7, <1>8, <1>13, <2>1, <2>2, <3>1 DEF PeriodKept
      <3> QED
        BY <3>2, <3>3
    <2>3. CASE i = id
      <3>1. PeriodKept(id)'
        BY <1>1, <1>3, <1>4, <1>5, <1>6, <1>7, <1>8, <2>1, <2>3 DEF PeriodKept
      <3>2. CASE autonomy.timers = NoValue
        BY <1>1, <1>2, <3>2, <2>3, <3>1 DEF ArmedInv
      <3>3. CASE autonomy.timers # NoValue
        <4>1. t.interval >= 1 /\ t.jitter >= 0 /\ rows[id].jitter = t.jitter /\ id \in DOMAIN rows
          BY <1>2, <1>4, <3>3 DEF ArmedInv, Registrable, MinInterval
        <4>2. (id \notin foreign /\ rows[id].jitter = 0) => due'[id] >= rows[id].at
          <5>1. (id \notin foreign /\ rows[id].jitter = 0) => due[id] >= rows[id].at
            BY <1>2, <3>3 DEF ArmedInv
          <5>2. rows[id].at \in Int
            BY <4>1 DEF TimersInv, ClockInv, IsRows
          <5> QED
            BY <1>1, <1>4, <1>5, <1>6, <1>7, <4>1, <5>1, <5>2
        <4>3. ArmedInv(id)'
          BY <1>1, <1>2, <2>1, <2>3, <3>3, <4>2 DEF ArmedInv, Registrable
        <4> QED
          BY <2>3, <3>1, <4>3
      <3> QED
        BY <3>2, <3>3
    <2> QED
      BY <2>2, <2>3
  <1> QED
    BY <1>9, <1>10, <1>11, <1>12, <1>13 DEF TimersInv

(* What an anchor means, through writes of the config, restarts and        *)
(* reboots.                                                                *)
THEOREM TimersInvariant == TimersSpec => []TimersInv
  <1>1. TimersInit => TimersInv
    <2> SUFFICES ASSUME TimersInit PROVE TimersInv
      OBVIOUS
    <2>1. DOMAIN rows = {} /\ DOMAIN due = {} /\ DOMAIN fired = {} /\ DOMAIN saved.rows = {}
      BY EmptyFunction DEF TimersInit
    <2>2. BlockInv
      BY TimersAssumption, KnownTimersAre DEF TimersInit, BlockInv
    <2>3. ClockInv /\ AnchorsInv /\ SavedInv
      BY <2>1 DEF TimersInit, ClockInv, AnchorsInv, SavedInv, IsRows, Starting
    <2> QED
      BY <2>1, <2>2, <2>3 DEF TimersInv
  <1>2. TimersInv /\ [TimersNext]_timerVars => TimersInv'
    <2> SUFFICES ASSUME TimersInv, [TimersNext]_timerVars PROVE TimersInv'
      OBVIOUS
    <2>1. CASE \E specs \in SpecSets : WriteConfig(specs)
      BY <2>1, WriteConfigStep
    <2>2. CASE Boot
      BY <2>2, BootStep
    <2>3. CASE StartFails \/ Exit
      BY <2>3, StartFailsStep
    <2>4. CASE ListTimers
      BY <2>4, ListTimersStep
    <2>5. CASE RebuildFromConfig
      BY <2>5, RebuildStep
    <2>6. CASE RegisterTimers
      BY <2>6, RegisterStep
    <2>7. CASE \E id \in DOMAIN due : FireTimer(id)
      BY <2>7, FireTimerStep
    <2>8. CASE Clock \/ Reboot
      BY <2>8, ClockStep
    <2>9. CASE UNCHANGED timerVars
      BY <2>9 DEF timerVars, TimersInv, BlockInv, ClockInv, AnchorsInv, SavedInv, ArmedInv, PeriodKept, IsRows, OwnTimers,
                  TimersOf, WasScheduling, BuildRows, Ahead, Configured, Armed, LegacyTick, Registrable
    <2> QED
      BY <2>1, <2>2, <2>3, <2>4, <2>5, <2>6, <2>7, <2>8, <2>9 DEF TimersNext
  <1> QED
    BY <1>1, <1>2, PTL DEF TimersSpec

(* For every block, every list of standing channels and any number of      *)
(* restarts and reboots: the writer leaves the operator's cadence as it    *)
(* was, and no timer waits longer than its period, nor fires within one of *)
(* its last fire on an anchor that was its own.                            *)
THEOREM RhythmAlwaysKept == TimersSpec => []TimersKeepTheRhythm
  <1>1. TimersInv => TimersKeepTheRhythm
    BY BlockKeepsCadence DEF TimersInv, TimersKeepTheRhythm, WakesKeepTheirPeriod, PeriodKept
  <1> QED
    BY <1>1, TimersInvariant, PTL

(***************************************************************************)
(* The log shipper.                                                        *)
(***************************************************************************)
(* The account of n records, d of them dropped and those of l gone with a  *)
(* stream, while a has arrived, w is on the wire, h in hand and q waits.   *)
Accounted(b, l, n, d) ==
    /\ \A i, j \in DOMAIN b : i < j => b[i] < b[j]
    /\ \A i \in DOMAIN b : b[i] \in (1..n) \ l
    /\ n = Len(b) + d + Cardinality(l)
Kept(a, w, h, q, l, n, d) ==
    /\ a \in Seq(Nat) /\ w \in Seq(Nat) /\ h \in Seq(Nat) /\ q \in Seq(Nat)
    /\ n \in Nat /\ d \in Nat /\ l \subseteq 1..n
    /\ \A i \in 1..Len(q) : q[i] = n - Len(q) + i
    /\ Accounted(((a \o w) \o h) \o q, l, n, d)
ShipperInv ==
    /\ Kept(arrived, wire, hand, queue, lost, count.logged, count.dropped)
    /\ DOMAIN count = {"logged", "dropped", "shipped", "acked"}
    /\ hand # <<>> => drain = "write"

LEMMA Associates ==
    \A s, t, u \in Seq(Nat) : s \o t \in Seq(Nat) /\ (s \o t) \o u = s \o (t \o u)
  BY ConcatAssociative, ConcatProperties, SMTT(30)

(* Where a record is says nothing of the account: it is one sequence.      *)
LEMMA TakenFromQueue ==
    ASSUME NEW p \in Seq(Nat), NEW q \in Seq(Nat), NEW k \in 0..Len(q)
    PROVE  /\ SubSeq(q, 1, k) \in Seq(Nat) /\ SubSeq(q, k + 1, Len(q)) \in Seq(Nat)
           /\ Len(SubSeq(q, k + 1, Len(q))) = Len(q) - k
           /\ \A i \in 1..(Len(q) - k) : SubSeq(q, k + 1, Len(q))[i] = q[k + i]
           /\ (p \o SubSeq(q, 1, k)) \o SubSeq(q, k + 1, Len(q)) = (p \o <<>>) \o q
  <1> DEFINE s == SubSeq(q, 1, k)  t == SubSeq(q, k + 1, Len(q))
  <1>1. \A i \in 1..Len(q) : q[i] \in Nat
    BY ElementOfSeq
  <1>2. Len(q) \in Nat
    BY LenProperties
  <1>3. s \in Seq(Nat)
    <2>1. 1 \in Int /\ k \in Int /\ \A i \in 1..k : q[i] \in Nat
      BY <1>1, <1>2
    <2> QED BY <2>1, SubSeqProperties
  <1>4. /\ t \in Seq(Nat)
        /\ Len(t) = IF k + 1 <= Len(q) THEN Len(q) - (k + 1) + 1 ELSE 0
        /\ \A i \in 1..(Len(q) - (k + 1) + 1) : t[i] = q[(k + 1) + i - 1]
    <2>1. k + 1 \in Int /\ Len(q) \in Int /\ \A i \in (k + 1)..Len(q) : q[i] \in Nat
      BY <1>1, <1>2
    <2> HIDE DEF t
    <2>2. t = SubSeq(q, k + 1, Len(q)) BY DEF t
    <2> QED BY <2>1, <2>2, SubSeqProperties
  <1>5. s \o t = SubSeq(q, 1, Len(q))
    <2>1. 1 \in 1..Len(q) + 1 /\ k \in (1 - 1)..Len(q) /\ Len(q) \in k..Len(q)
      BY <1>2
    <2> QED BY <2>1, ConcatAdjacentSubSeq
  <1>6. s \o t = q
    BY <1>5, SubSeqFull
  <1> HIDE DEF s, t
  <1>7. (p \o s) \o t = p \o (s \o t)
    <2>1. p \in Seq(Nat) /\ s \in Seq(Nat) /\ t \in Seq(Nat) BY <1>3, <1>4
    <2> QED BY <2>1, Associates, ZenonT(40)
  <1>8. p \o <<>> = p
    BY ConcatEmptySeq
  <1>9. s = SubSeq(q, 1, k) /\ t = SubSeq(q, k + 1, Len(q))
    BY DEF s, t
  <1>10. Len(t) = Len(q) - k /\ \A i \in 1..(Len(q) - k) : t[i] = q[k + i]
    <2>1. k \in Nat /\ k <= Len(q) /\ Len(q) - (k + 1) + 1 = Len(q) - k
      BY <1>2
    <2>2. Len(t) = Len(q) - k
      <3>1. Len(t) = IF k + 1 <= Len(q) THEN Len(q) - (k + 1) + 1 ELSE 0
        BY <1>4
      <3>2. CASE k + 1 <= Len(q)
        BY <3>1, <3>2, <2>1
      <3>3. CASE ~(k + 1 <= Len(q))
        <4>1. PICK n \in Nat : n = Len(q)
          BY <1>2
        <4>2. k = n
          BY <3>3, <4>1, <2>1
        <4>3. Len(t) = 0 /\ n - k = 0
          BY <3>1, <3>3, <4>2
        <4> QED BY <4>1, <4>3
      <3> QED BY <3>2, <3>3
    <2>3. ASSUME NEW i \in 1..(Len(q) - k) PROVE t[i] = q[k + i]
      <3>1. i \in 1..(Len(q) - (k + 1) + 1) /\ (k + 1) + i - 1 = k + i
        BY <2>1, <1>2
      <3>2. t[i] = q[(k + 1) + i - 1]
        BY <3>1, <1>4
      <3> QED BY <3>1, <3>2
    <2> QED BY <2>2, <2>3
  <1> QED BY <1>3, <1>4, <1>6, <1>7, <1>8, <1>9, <1>10

LEMMA PutOnWire ==
    ASSUME NEW a \in Seq(Nat), NEW w \in Seq(Nat), NEW h \in Seq(Nat)
    PROVE  /\ w \o h \in Seq(Nat)
           /\ (a \o (w \o h)) \o <<>> = (a \o w) \o h
  <1>1. w \o h \in Seq(Nat) /\ a \o w \in Seq(Nat)
    BY ConcatProperties
  <1>2. a \o (w \o h) \in Seq(Nat)
    BY <1>1, ConcatProperties
  <1>3. (a \o w) \o h = a \o (w \o h)
    BY ConcatAssociative, SMTT(30)
  <1> QED BY <1>1, <1>2, <1>3, ConcatEmptySeq

LEMMA TakenFromWire ==
    ASSUME NEW a \in Seq(Nat), NEW w \in Seq(Nat), w # <<>>
    PROVE  /\ Append(a, Head(w)) \in Seq(Nat) /\ Tail(w) \in Seq(Nat)
           /\ Append(a, Head(w)) \o Tail(w) = a \o w
  <1>1. Head(w) \in Nat /\ Tail(w) \in Seq(Nat) /\ Len(Tail(w)) = Len(w) - 1
        /\ \A i \in 1..Len(Tail(w)) : Tail(w)[i] = w[i + 1]
    BY HeadTailProperties
  <1>2. Append(a, Head(w)) \in Seq(Nat) /\ Len(Append(a, Head(w))) = Len(a) + 1
        /\ (\A i \in 1..Len(a) : Append(a, Head(w))[i] = a[i])
        /\ Append(a, Head(w))[Len(a) + 1] = Head(w)
    BY <1>1, AppendProperties
  <1> DEFINE b == Append(a, Head(w)) \o Tail(w)  c == a \o w
  <1>3. b \in Seq(Nat) /\ Len(b) = (Len(a) + 1) + (Len(w) - 1)
        /\ \A i \in 1..((Len(a) + 1) + (Len(w) - 1)) :
              b[i] = IF i <= Len(a) + 1 THEN Append(a, Head(w))[i] ELSE Tail(w)[i - (Len(a) + 1)]
    BY <1>1, <1>2, ConcatProperties
  <1>4. c \in Seq(Nat) /\ Len(c) = Len(a) + Len(w)
        /\ \A i \in 1..(Len(a) + Len(w)) : c[i] = IF i <= Len(a) THEN a[i] ELSE w[i - Len(a)]
    BY ConcatProperties
  <1>5. Head(w) = w[1] /\ Len(a) \in Nat /\ Len(w) \in Nat
    BY LenProperties
  <1> HIDE DEF b, c
  <1>6. Len(b) = Len(c) /\ \A i \in 1..Len(b) : b[i] = c[i]
    <2>1. Len(b) = Len(c)
      BY <1>3, <1>4, <1>5
    <2> SUFFICES ASSUME NEW i \in 1..Len(b) PROVE b[i] = c[i]
      BY <2>1
    <2>2. i \in 1..(Len(a) + Len(w)) /\ i \in 1..((Len(a) + 1) + (Len(w) - 1))
      BY <1>3, <1>5
    <2>3. CASE i <= Len(a)
      <3>1. i \in 1..Len(a) /\ i <= Len(a) + 1
        BY <2>2, <2>3, <1>5
      <3> QED BY <3>1, <2>2, <2>3, <1>2, <1>3, <1>4
    <2>4. CASE i = Len(a) + 1
      <3>1. i <= Len(a) + 1 /\ ~(i <= Len(a)) /\ i - Len(a) = 1
        BY <2>4, <1>5
      <3> QED BY <3>1, <2>2, <2>4, <1>2, <1>3, <1>4, <1>5
    <2>5. CASE i > Len(a) + 1
      <3>1. ~(i <= Len(a) + 1) /\ ~(i <= Len(a)) /\ i - (Len(a) + 1) \in 1..(Len(w) - 1)
            /\ (i - (Len(a) + 1)) + 1 = i - Len(a)
        BY <2>2, <2>5, <1>5
      <3> QED BY <3>1, <2>2, <1>1, <1>3, <1>4
    <2> QED BY <2>2, <2>3, <2>4, <2>5, <1>5
  <1>7. b = c
    BY <1>3, <1>4, <1>6, SeqEqual
  <1> QED BY <1>1, <1>2, <1>7 DEF b, c

(* A strictly growing sequence has as many elements as places.             *)
LEMMA AscendingIsInjective ==
    ASSUME NEW s \in Seq(Nat), \A i, j \in DOMAIN s : i < j => s[i] < s[j]
    PROVE  IsFiniteSet(ToSet(s)) /\ Cardinality(ToSet(s)) = Len(s)
  <1>1. Len(s) \in Nat /\ DOMAIN s = 1..Len(s) /\ s \in [1..Len(s) -> Nat]
    BY LenProperties
  <1>2. s \in Bijection(1..Len(s), ToSet(s))
    <2>1. s \in [1..Len(s) -> ToSet(s)]
      BY <1>1 DEF ToSet
    <2>2. \A i, j \in 1..Len(s) : s[i] = s[j] => i = j
      <3> SUFFICES ASSUME NEW i \in 1..Len(s), NEW j \in 1..Len(s), s[i] = s[j], i # j PROVE FALSE
        OBVIOUS
      <3>1. i < j \/ j < i
        BY <1>1
      <3>2. s[i] \in Nat /\ s[j] \in Nat
        BY <1>1
      <3> QED BY <3>1, <3>2, <1>1, SMTT(30)
    <2>3. \A x \in ToSet(s) : \E i \in 1..Len(s) : s[i] = x
      BY <1>1 DEF ToSet
    <2> QED BY <2>1, <2>2, <2>3 DEF Bijection, Injection, Surjection, IsInjective
  <1>3. IsFiniteSet(1..Len(s)) /\ Cardinality(1..Len(s)) = Len(s)
    <2>1. IsFiniteSet(1..Len(s)) /\ Cardinality(1..Len(s)) = IF 1 > Len(s) THEN 0 ELSE Len(s) - 1 + 1
      BY <1>1, FS_Interval, SMTT(30)
    <2> QED BY <2>1, <1>1
  <1>4. ExistsBijection(1..Len(s), ToSet(s))
    BY <1>2 DEF ExistsBijection
  <1> QED BY <1>3, <1>4, FS_Bijection

(* What is in hand and on the wire goes: the rest is in order, and as many *)
(* records have gone as there were.                                        *)
LEMMA LossKeepsAccount ==
    ASSUME NEW a, NEW w, NEW h, NEW q, NEW l, NEW n, NEW d, Kept(a, w, h, q, l, n, d)
    PROVE  Kept(a, <<>>, <<>>, q, (l \cup ToSet(h)) \cup ToSet(w), n, d)
  <1> DEFINE m == w \o h  b == ((a \o w) \o h) \o q  c == a \o q  g == (l \cup ToSet(h)) \cup ToSet(w)
  <1>1. a \in Seq(Nat) /\ w \in Seq(Nat) /\ h \in Seq(Nat) /\ q \in Seq(Nat) /\ n \in Nat /\ d \in Nat
        /\ l \subseteq 1..n
    BY DEF Kept
  <1>2. /\ Len(a) \in Nat /\ Len(w) \in Nat /\ Len(h) \in Nat /\ Len(q) \in Nat
        /\ DOMAIN w = 1..Len(w) /\ DOMAIN h = 1..Len(h)
    BY <1>1, LenProperties
  <1>3. m \in Seq(Nat) /\ Len(m) = Len(w) + Len(h)
        /\ \A i \in 1..(Len(w) + Len(h)) : m[i] = IF i <= Len(w) THEN w[i] ELSE h[i - Len(w)]
    BY <1>1, ConcatProperties
  <1>4. (a \o w) \o h = a \o m
    <2>1. a \in Seq(Nat) /\ w \in Seq(Nat) /\ h \in Seq(Nat) BY <1>1
    <2> QED BY <2>1, Associates, ZenonT(40)
  <1> HIDE DEF m
  <1>5. a \o m \in Seq(Nat) /\ Len(a \o m) = Len(a) + Len(m)
        /\ \A i \in 1..(Len(a) + Len(m)) : (a \o m)[i] = IF i <= Len(a) THEN a[i] ELSE m[i - Len(a)]
    <2>1. m \in Seq(Nat) /\ a \in Seq(Nat) BY <1>1, <1>3
    <2> QED BY <2>1, ConcatProperties
  <1> DEFINE p == a \o m
  <1>6. b = p \o q
    BY <1>4
  <1> HIDE DEF b, p
  <1>7. b \in Seq(Nat) /\ Len(b) = Len(p) + Len(q)
        /\ \A i \in 1..(Len(p) + Len(q)) : b[i] = IF i <= Len(p) THEN p[i] ELSE q[i - Len(p)]
    <2>1. p \in Seq(Nat) BY <1>5 DEF p
    <2> QED BY <1>1, <2>1, <1>6, ConcatProperties
  <1>8. c \in Seq(Nat) /\ Len(c) = Len(a) + Len(q)
        /\ \A i \in 1..(Len(a) + Len(q)) : c[i] = IF i <= Len(a) THEN a[i] ELSE q[i - Len(a)]
    BY <1>1, ConcatProperties
  <1> DEFINE up(i) == IF i <= Len(a) THEN i ELSE i + Len(m)
  <1> HIDE DEF c
  <1>9. /\ Len(p) = Len(a) + Len(m) /\ Len(m) \in Nat
        /\ \A i \in 1..(Len(a) + Len(m)) : p[i] = IF i <= Len(a) THEN a[i] ELSE m[i - Len(a)]
    BY <1>2, <1>3, <1>5 DEF p
  <1>10. \A i \in 1..Len(c) : up(i) \in 1..Len(b) /\ c[i] = b[up(i)]
    <2> SUFFICES ASSUME NEW i \in 1..Len(c) PROVE up(i) \in 1..Len(b) /\ c[i] = b[up(i)]
      OBVIOUS
    <2>1. i \in 1..(Len(a) + Len(q))
      BY <1>8
    <2>2. CASE i <= Len(a)
      <3>1. up(i) = i /\ i \in 1..(Len(a) + Len(m)) /\ i \in 1..(Len(p) + Len(q)) /\ i <= Len(p)
        BY <2>1, <2>2, <1>2, <1>9
      <3> QED BY <3>1, <2>1, <2>2, <1>7, <1>8, <1>9
    <2>3. CASE ~(i <= Len(a))
      <3>1. up(i) = i + Len(m) /\ i + Len(m) \in 1..(Len(p) + Len(q)) /\ ~(i + Len(m) <= Len(p))
            /\ (i + Len(m)) - Len(p) = i - Len(a)
        BY <2>1, <2>3, <1>2, <1>9
      <3> QED BY <3>1, <2>1, <2>3, <1>7, <1>8
    <2> QED BY <2>2, <2>3
  <1>11. \A i \in 1..Len(m) : i + Len(a) \in 1..Len(b) /\ m[i] = b[i + Len(a)]
    <2> SUFFICES ASSUME NEW i \in 1..Len(m) PROVE i + Len(a) \in 1..Len(b) /\ m[i] = b[i + Len(a)]
      OBVIOUS
    <2>1. /\ i + Len(a) \in 1..(Len(a) + Len(m)) /\ ~(i + Len(a) <= Len(a)) /\ (i + Len(a)) - Len(a) = i
          /\ i + Len(a) \in 1..(Len(p) + Len(q)) /\ i + Len(a) <= Len(p)
      BY <1>2, <1>9
    <2> QED BY <2>1, <1>7, <1>9
  <1>12. /\ \A i, j \in DOMAIN b : i < j => b[i] < b[j]
         /\ \A i \in DOMAIN b : b[i] \in (1..n) \ l
         /\ n = Len(b) + d + Cardinality(l)
    BY DEF Kept, Accounted, b
  <1>13. DOMAIN b = 1..Len(b) /\ DOMAIN c = 1..Len(c) /\ DOMAIN m = 1..Len(m) /\ Len(b) \in Nat /\ Len(c) \in Nat
    BY <1>3, <1>7, <1>8, LenProperties
  <1>14. \A i, j \in DOMAIN m : i < j => m[i] < m[j]
    <2> SUFFICES ASSUME NEW i \in 1..Len(m), NEW j \in 1..Len(m), i < j PROVE m[i] < m[j]
      BY <1>13
    <2>1. i + Len(a) < j + Len(a)
      BY <1>2, <1>9
    <2> QED BY <2>1, <1>11, <1>12, <1>13
  <1>15. \A i, j \in DOMAIN c : i < j => c[i] < c[j]
    <2> SUFFICES ASSUME NEW i \in 1..Len(c), NEW j \in 1..Len(c), i < j PROVE c[i] < c[j]
      BY <1>13
    <2>1. up(i) < up(j)
      BY <1>2, <1>9, <1>13
    <2> HIDE DEF up
    <2> QED BY <2>1, <1>10, <1>12, <1>13
  <1>16. ToSet(m) = ToSet(w) \cup ToSet(h)
    <2>1. \A i \in 1..Len(w) : i \in 1..Len(m) /\ m[i] = w[i]
      BY <1>2, <1>3
    <2>2. \A i \in 1..Len(h) : i + Len(w) \in 1..Len(m) /\ m[i + Len(w)] = h[i]
      <3> SUFFICES ASSUME NEW i \in 1..Len(h) PROVE i + Len(w) \in 1..Len(m) /\ m[i + Len(w)] = h[i]
        OBVIOUS
      <3>1. i + Len(w) \in 1..(Len(w) + Len(h)) /\ ~(i + Len(w) <= Len(w)) /\ (i + Len(w)) - Len(w) = i
        BY <1>2
      <3> QED BY <3>1, <1>3
    <2>3. \A i \in 1..Len(m) : m[i] \in ToSet(w) \cup ToSet(h)
      <3> SUFFICES ASSUME NEW i \in 1..Len(m) PROVE m[i] \in ToSet(w) \cup ToSet(h)
        OBVIOUS
      <3>1. CASE i <= Len(w)
        <4>1. i \in DOMAIN w /\ m[i] = w[i] BY <3>1, <1>2, <1>3
        <4> QED BY <4>1 DEF ToSet
      <3>2. CASE ~(i <= Len(w))
        <4>1. i - Len(w) \in DOMAIN h /\ m[i] = h[i - Len(w)] BY <3>2, <1>2, <1>3
        <4> QED BY <4>1 DEF ToSet
      <3> QED BY <3>1, <3>2
    <2> QED BY <2>1, <2>2, <2>3, <1>2, <1>13, ZenonT(40) DEF ToSet
  <1>17. g = l \cup ToSet(m)
    BY <1>16
  <1>18. IsFiniteSet(ToSet(m)) /\ Cardinality(ToSet(m)) = Len(m)
    BY <1>3, <1>14, AscendingIsInjective
  <1>19. l \cap ToSet(m) = {} /\ ToSet(m) \subseteq 1..n
    BY <1>11, <1>12, <1>13 DEF ToSet
  <1>20. IsFiniteSet(l)
    <2>1. IsFiniteSet(1..n)
      BY <1>1, FS_Interval
    <2> QED BY <2>1, <1>1, FS_Subset
  <1>21. Cardinality(g) = Cardinality(l) + Len(m) /\ Cardinality(l) \in Nat
    <2>1. Cardinality(l \cup ToSet(m)) = Cardinality(l) + Cardinality(ToSet(m)) - Cardinality(l \cap ToSet(m))
      BY <1>18, <1>20, FS_Union
    <2>2. Cardinality(l \cap ToSet(m)) = 0
      BY <1>19, FS_EmptySet
    <2>3. Cardinality(l) \in Nat
      BY <1>20, FS_CardinalityType
    <2>4. Cardinality(ToSet(m)) = Len(m) /\ Len(m) \in Nat
      BY <1>9, <1>18
    <2>5. Cardinality(l \cup ToSet(m)) = Cardinality(l) + Len(m)
      BY <2>1, <2>2, <2>3, <2>4
    <2> QED BY <2>3, <2>5, <1>17
  <1>22. \A i \in DOMAIN c : c[i] \in (1..n) \ g
    <2> SUFFICES ASSUME NEW i \in 1..Len(c), c[i] \in ToSet(m) PROVE FALSE
      BY <1>10, <1>12, <1>13, <1>17
    <2>1. PICK j \in 1..Len(m) : m[j] = c[i]
      BY <1>13 DEF ToSet
    <2>2. b[up(i)] = b[j + Len(a)] /\ up(i) \in DOMAIN b /\ j + Len(a) \in DOMAIN b
      BY <2>1, <1>10, <1>11, <1>13
    <2>3. up(i) < j + Len(a) \/ j + Len(a) < up(i)
      BY <1>2, <1>9, <1>13
    <2>4. b[up(i)] \in Nat /\ b[j + Len(a)] \in Nat
      BY <2>2, <1>12
    <2> HIDE DEF up
    <2> QED BY <2>2, <2>3, <2>4, <1>12
  <1>23. n = Len(c) + d + Cardinality(g)
    <2> HIDE DEF g
    <2>1. n = Len(b) + d + Cardinality(l) /\ Len(b) = Len(p) + Len(q) /\ Len(c) = Len(a) + Len(q)
          /\ Len(p) = Len(a) + Len(m)
      BY <1>7, <1>8, <1>9, <1>12
    <2> QED BY <2>1, <1>1, <1>2, <1>9, <1>21, SMTT(30)
  <1>24. ((a \o <<>>) \o <<>>) \o q = c
    BY <1>1, ConcatEmptySeq DEF c
  <1>25. Accounted(((a \o <<>>) \o <<>>) \o q, g, n, d)
    BY <1>15, <1>22, <1>23, <1>24 DEF Accounted
  <1>26. <<>> \in Seq(Nat) /\ \A i \in 1..Len(q) : q[i] = n - Len(q) + i
    BY DEF Kept
  <1> QED BY <1>1, <1>17, <1>19, <1>25, <1>26 DEF Kept

(* A record is logged: the queue takes it and gives up its oldest when full. *)
LEMMA EnqueueKeepsAccount ==
    ASSUME NEW a, NEW w, NEW h, NEW q, NEW l, NEW n, NEW d, Kept(a, w, h, q, l, n, d), MaxQueue > 0, MaxQueue \in Nat
    PROVE  Kept(a, w, h, Pushed(q, n + 1), l, n + 1, d + (IF Len(q) >= MaxQueue THEN 1 ELSE 0))
  <1> DEFINE p == (a \o w) \o h  b == p \o q  k == IF Len(q) >= MaxQueue THEN 1 ELSE 0
             o == IF Len(q) >= MaxQueue THEN Tail(q) ELSE q
  <1>1. a \in Seq(Nat) /\ w \in Seq(Nat) /\ h \in Seq(Nat) /\ q \in Seq(Nat) /\ n \in Nat /\ d \in Nat
        /\ l \subseteq 1..n /\ (\A i \in 1..Len(q) : q[i] = n - Len(q) + i) /\ Accounted(b, l, n, d)
    BY DEF Kept
  <1>2. p \in Seq(Nat)
    BY <1>1, Associates
  <1>3. Len(p) \in Nat /\ Len(q) \in Nat
    BY <1>1, <1>2, LenProperties
  <1> HIDE DEF p
  <1>4. b \in Seq(Nat) /\ Len(b) = Len(p) + Len(q)
        /\ \A i \in 1..(Len(p) + Len(q)) : b[i] = IF i <= Len(p) THEN p[i] ELSE q[i - Len(p)]
    BY <1>1, <1>2, ConcatProperties
  <1>5. /\ o \in Seq(Nat) /\ Len(o) = Len(q) - k /\ k \in {0, 1} /\ k <= Len(q)
        /\ \A i \in 1..Len(o) : o[i] = q[i + k]
    <2>1. CASE Len(q) >= MaxQueue
      <3>1. q # <<>>
        BY <2>1
      <3> QED BY <3>1, <2>1, <1>1, <1>3, HeadTailProperties
    <2>2. CASE ~(Len(q) >= MaxQueue)
      <3>1. k = 0 /\ o = q BY <2>2
      <3> HIDE DEF k, o
      <3> QED BY <3>1, <1>1, <1>3
    <2> QED BY <2>1, <2>2
  <1>6. Pushed(q, n + 1) = Append(o, n + 1)
    BY DEF Pushed
  <1> HIDE DEF k, o, b
  <1> DEFINE r == Append(o, n + 1)  c == p \o r
  <1>7. /\ r \in Seq(Nat) /\ Len(r) = Len(o) + 1
        /\ (\A i \in 1..Len(o) : r[i] = o[i]) /\ r[Len(o) + 1] = n + 1
    BY <1>1, <1>5, AppendProperties, SMTT(30)
  <1> HIDE DEF r
  <1>8. c \in Seq(Nat) /\ Len(c) = Len(p) + Len(r)
        /\ \A i \in 1..(Len(p) + Len(r)) : c[i] = IF i <= Len(p) THEN p[i] ELSE r[i - Len(p)]
    BY <1>2, <1>7, ConcatProperties
  <1> HIDE DEF c
  <1>9. DOMAIN b = 1..Len(b) /\ DOMAIN c = 1..Len(c) /\ Len(b) \in Nat /\ Len(c) \in Nat /\ Len(o) \in Nat
    BY <1>4, <1>5, <1>8, LenProperties
  <1>10. Len(c) = Len(b) - k + 1
    BY <1>3, <1>4, <1>5, <1>7, <1>8
  <1>11. c[Len(c)] = n + 1 /\ Len(c) > 0
    <2>1. Len(c) \in 1..(Len(p) + Len(r)) /\ ~(Len(c) <= Len(p)) /\ Len(c) - Len(p) = Len(o) + 1
      BY <1>3, <1>7, <1>8, <1>9
    <2>2. c[Len(c)] = r[Len(c) - Len(p)]
      BY <2>1, <1>8
    <2>3. r[Len(c) - Len(p)] = n + 1
      BY <2>1, <1>7
    <2> QED BY <2>1, <2>2, <2>3
  <1> DEFINE old(i) == IF i <= Len(p) THEN i ELSE i + k
  <1>12. \A i \in 1..Len(c) : i # Len(c) => old(i) \in 1..Len(b) /\ c[i] = b[old(i)]
    <2> SUFFICES ASSUME NEW i \in 1..Len(c), i # Len(c) PROVE old(i) \in 1..Len(b) /\ c[i] = b[old(i)]
      OBVIOUS
    <2>1. CASE i <= Len(p)
      <3>1. i \in 1..(Len(p) + Len(q)) /\ i \in 1..(Len(p) + Len(r)) /\ old(i) = i
        BY <2>1, <1>3, <1>7, <1>8, <1>9
      <3> QED BY <3>1, <2>1, <1>4, <1>8
    <2>2. CASE ~(i <= Len(p))
      <3>1. /\ i \in 1..(Len(p) + Len(r)) /\ i - Len(p) \in 1..Len(o) /\ old(i) = i + k
            /\ i + k \in 1..(Len(p) + Len(q)) /\ ~(i + k <= Len(p)) /\ (i + k) - Len(p) = (i - Len(p)) + k
        <4>1. Len(r) = Len(o) + 1 /\ Len(o) = Len(q) - k /\ Len(c) = Len(p) + Len(r)
          BY <1>5, <1>7, <1>8
        <4>2. i \in Nat /\ i < Len(c) /\ i > Len(p) /\ k \in Nat /\ old(i) = i + k
          <5>1. Len(c) \in Nat /\ Len(p) \in Nat /\ k \in Nat
            <6>1. k \in {0, 1} BY <1>5
            <6>2. Len(c) \in Nat BY <1>9, Zenon
            <6> QED BY <6>1, <6>2, <1>3
          <5>2. old(i) = i + k BY <2>2
          <5> HIDE DEF old
          <5> QED BY <2>2, <5>1, <5>2
        <4> HIDE DEF old
        <4> QED BY <4>1, <4>2, <1>3, <1>9, SMTT(30)
      <3>2. c[i] = r[i - Len(p)] /\ r[i - Len(p)] = o[i - Len(p)] /\ o[i - Len(p)] = q[(i - Len(p)) + k]
        BY <3>1, <2>2, <1>5, <1>7, <1>8
      <3>3. b[i + k] = q[(i + k) - Len(p)]
        BY <3>1, <1>4
      <3> QED BY <3>1, <3>2, <3>3, <1>4
    <2> QED BY <2>1, <2>2
  <1>13. /\ \A i, j \in DOMAIN b : i < j => b[i] < b[j]
         /\ \A i \in DOMAIN b : b[i] \in (1..n) \ l
         /\ n = Len(b) + d + Cardinality(l)
    BY <1>1 DEF Accounted
  <1>14. \A i, j \in DOMAIN c : i < j => c[i] < c[j]
    <2> SUFFICES ASSUME NEW i \in 1..Len(c), NEW j \in 1..Len(c), i < j PROVE c[i] < c[j]
      BY <1>9, SMTT(30)
    <2>1. i # Len(c) /\ old(i) \in DOMAIN b /\ c[i] = b[old(i)] /\ c[i] \in 1..n
      <3>1. i # Len(c)
        <4>1. Len(c) \in Nat BY <1>9
        <4> HIDE DEF old
        <4> QED BY <4>1
      <3>2. old(i) \in 1..Len(b) /\ c[i] = b[old(i)]
        BY <3>1, <1>12
      <3> HIDE DEF old
      <3> QED BY <3>1, <3>2, <1>9, <1>13, Zenon
    <2>2. CASE j = Len(c)
      BY <2>1, <2>2, <1>1, <1>11
    <2>3. CASE j # Len(c)
      <3>1. old(j) \in DOMAIN b /\ c[j] = b[old(j)]
        BY <2>3, <1>9, <1>12
      <3>2. old(i) < old(j)
        BY <1>3, <1>5, <1>9
      <3> HIDE DEF old
      <3> QED BY <2>1, <3>1, <3>2, <1>13
    <2> QED BY <2>2, <2>3
  <1>15. \A i \in DOMAIN c : c[i] \in (1..(n + 1)) \ l
    <2> SUFFICES ASSUME NEW i \in 1..Len(c) PROVE c[i] \in (1..(n + 1)) \ l
      BY <1>9
    <2>1. CASE i = Len(c)
      BY <2>1, <1>1, <1>11
    <2>2. CASE i # Len(c)
      <3>1. c[i] = b[old(i)] /\ old(i) \in DOMAIN b
        BY <2>2, <1>9, <1>12, Zenon
      <3>2. c[i] \in (1..n) \ l
        BY <3>1, <1>13
      <3> QED BY <3>2, <1>1, SMTT(30)
    <2> QED BY <2>1, <2>2
  <1>16. n + 1 = Len(c) + (d + k) + Cardinality(l) /\ d + k \in Nat
    <2>1. Cardinality(l) \in Nat
      <3>1. IsFiniteSet(1..n)
        BY <1>1, FS_Interval
      <3> QED BY <3>1, <1>1, FS_Subset, FS_CardinalityType
    <2> QED BY <2>1, <1>1, <1>5, <1>9, <1>10, <1>13, SMTT(30)
  <1>17. \A i \in 1..Len(r) : r[i] = (n + 1) - Len(r) + i
    <2> SUFFICES ASSUME NEW i \in 1..Len(r) PROVE r[i] = (n + 1) - Len(r) + i
      OBVIOUS
    <2>1. CASE i = Len(o) + 1
      BY <2>1, <1>1, <1>7, <1>9
    <2>2. CASE i # Len(o) + 1
      <3>1. i \in 1..Len(o) /\ i + k \in 1..Len(q)
        BY <2>2, <1>3, <1>5, <1>7, <1>9, SMTT(30)
      <3>2. r[i] = q[i + k] /\ q[i + k] = n - Len(q) + (i + k)
        BY <3>1, <1>1, <1>5, <1>7
      <3> QED BY <3>2, <1>1, <1>3, <1>5, <1>7, <1>9
    <2> QED BY <2>1, <2>2
  <1>18. Accounted(((a \o w) \o h) \o r, l, n + 1, d + k)
    BY <1>14, <1>15, <1>16 DEF Accounted, c, p
  <1>19. Kept(a, w, h, r, l, n + 1, d + k)
    BY <1>1, <1>7, <1>16, <1>17, <1>18 DEF Kept
  <1> QED BY <1>6, <1>19 DEF r, k

(* The specification of the shipper by itself.                             *)
ShipperSpec == ShipperInit /\ [][ShipperNext]_shipVars

LEMMA ShipperStarts == ShipperInit => ShipperInv
  <1> SUFFICES ASSUME ShipperInit PROVE ShipperInv
    OBVIOUS
  <1> DEFINE e == ((<<>> \o <<>>) \o <<>>) \o <<>>
  <1>1. <<>> \in Seq(Nat) /\ Len(<<>>) = 0
    BY EmptySeq
  <1>2. e = <<>>
    BY <1>1, ConcatEmptySeq
  <1>3. Cardinality({}) = 0
    BY FS_EmptySet
  <1> HIDE DEF e
  <1>4. Accounted(e, {}, 0, 0)
    BY <1>1, <1>2, <1>3 DEF Accounted
  <1>5. Kept(<<>>, <<>>, <<>>, <<>>, {}, 0, 0)
    BY <1>1, <1>4 DEF Kept, e
  <1> QED BY <1>5 DEF ShipperInit, ShipperInv

LEMMA FetchKeeps == ShipperInv /\ RequestIter => ShipperInv'
  <1> SUFFICES ASSUME ShipperInv, RequestIter PROVE ShipperInv'
    OBVIOUS
  <1>1. hand = <<>>
    BY DEF ShipperInv, RequestIter
  <1>2. CASE queue = <<>>
    BY <1>1, <1>2 DEF ShipperInv, RequestIter
  <1>3. CASE queue # <<>>
    <2> DEFINE n == count.logged  p == arrived \o wire
    <2>1. /\ arrived \in Seq(Nat) /\ wire \in Seq(Nat) /\ queue \in Seq(Nat) /\ n \in Nat
          /\ \A i \in 1..Len(queue) : queue[i] = n - Len(queue) + i
          /\ Kept(arrived, wire, <<>>, queue, lost, n, count.dropped)
      BY <1>1 DEF ShipperInv, Kept
    <2>2. Len(queue) \in Nat
      BY <2>1, LenProperties
    <2>3. Batch \in 0..Len(queue)
      <3>1. {BatchMax, Len(queue)} \subseteq Int /\ BatchMax \in Nat /\ BatchMax > 0
        BY <2>2, ShipperAssumption
      <3>2. Batch \in {BatchMax, Len(queue)} /\ Batch <= BatchMax /\ Batch <= Len(queue)
        BY <3>1, <2>2 DEF Batch, Min
      <3> QED BY <3>1, <3>2, <2>2
    <2>4. p \in Seq(Nat)
      BY <2>1, Associates
    <2> DEFINE s == SubSeq(queue, 1, Batch)  t == SubSeq(queue, Batch + 1, Len(queue))
    <2>5. /\ s \in Seq(Nat) /\ t \in Seq(Nat) /\ Len(t) = Len(queue) - Batch
          /\ \A i \in 1..(Len(queue) - Batch) : t[i] = queue[Batch + i]
          /\ (p \o s) \o t = (p \o <<>>) \o queue
      <3>1. queue \in Seq(Nat) BY <2>1
      <3> HIDE DEF p
      <3> QED BY <3>1, <2>3, <2>4, TakenFromQueue
    <2>6. hand' = s /\ queue' = t /\ drain' = "write" /\ UNCHANGED <<arrived, wire, lost, count>>
      BY <1>3 DEF RequestIter
    <2> HIDE DEF s, t
    <2>7. \A i \in 1..Len(t) : t[i] = n - Len(t) + i
      <3> SUFFICES ASSUME NEW i \in 1..Len(t) PROVE t[i] = n - Len(t) + i
        OBVIOUS
      <3>1. Batch + i \in 1..Len(queue) /\ i \in 1..(Len(queue) - Batch)
        BY <2>2, <2>3, <2>5
      <3>2. t[i] = n - Len(queue) + (Batch + i)
        BY <3>1, <2>1, <2>5
      <3>3. i \in Nat /\ Batch \in Nat /\ n \in Nat /\ Len(t) = Len(queue) - Batch
        BY <2>1, <2>3, <2>5
      <3> HIDE DEF n
      <3> QED BY <3>2, <3>3, <2>2
    <2>8. Kept(arrived, wire, s, t, lost, n, count.dropped)
      BY <2>1, <2>5, <2>7 DEF Kept
    <2> QED BY <2>6, <2>8 DEF ShipperInv
  <1> QED BY <1>2, <1>3

LEMMA WriteKeeps == ShipperInv /\ Write => ShipperInv'
  <1> SUFFICES ASSUME ShipperInv, Write PROVE ShipperInv'
    OBVIOUS
  <1>1. arrived \in Seq(Nat) /\ wire \in Seq(Nat) /\ hand \in Seq(Nat)
    BY DEF ShipperInv, Kept
  <1>2. wire \o hand \in Seq(Nat) /\ (arrived \o (wire \o hand)) \o <<>> = (arrived \o wire) \o hand
    BY <1>1, PutOnWire, SMTT(30)
  <1>3. /\ wire' = wire \o hand /\ hand' = <<>> /\ UNCHANGED <<queue, arrived, lost>>
        /\ count' = [count EXCEPT !.shipped = @ + Len(hand)]
    BY DEF Write
  <1>4. /\ count'.logged = count.logged /\ count'.dropped = count.dropped
        /\ DOMAIN count' = {"logged", "dropped", "shipped", "acked"}
    BY <1>3 DEF ShipperInv
  <1>5. Kept(arrived, wire \o hand, <<>>, queue, lost, count.logged, count.dropped)
    <2> DEFINE n == count.logged  d == count.dropped  v == wire \o hand
    <2>1. <<>> \in Seq(Nat) /\ v \in Seq(Nat)
      BY <1>2
    <2>2. Accounted(((arrived \o v) \o <<>>) \o queue, lost, n, d)
      BY <1>2 DEF ShipperInv, Kept
    <2>3. /\ arrived \in Seq(Nat) /\ queue \in Seq(Nat) /\ n \in Nat /\ d \in Nat /\ lost \subseteq 1..n
          /\ \A i \in 1..Len(queue) : queue[i] = n - Len(queue) + i
      BY DEF ShipperInv, Kept
    <2> HIDE DEF n, d, v
    <2>4. Kept(arrived, v, <<>>, queue, lost, n, d)
      BY <2>1, <2>2, <2>3 DEF Kept
    <2> QED BY <2>4 DEF n, d, v
  <1> QED BY <1>3, <1>4, <1>5 DEF ShipperInv

LEMMA ArrivalKeeps == ShipperInv /\ Arrives => ShipperInv'
  <1> SUFFICES ASSUME ShipperInv, Arrives PROVE ShipperInv'
    OBVIOUS
  <1>1. arrived \in Seq(Nat) /\ wire \in Seq(Nat) /\ wire # <<>>
    BY DEF ShipperInv, Kept, Arrives
  <1>2. /\ Append(arrived, Head(wire)) \in Seq(Nat) /\ Tail(wire) \in Seq(Nat)
        /\ Append(arrived, Head(wire)) \o Tail(wire) = arrived \o wire
    BY <1>1, TakenFromWire
  <1>3. /\ arrived' = Append(arrived, Head(wire)) /\ wire' = Tail(wire) /\ UNCHANGED <<queue, hand, lost, drain>>
        /\ \E n : count' = [count EXCEPT !.acked = n]
    BY DEF Arrives
  <1>4. /\ count'.logged = count.logged /\ count'.dropped = count.dropped
        /\ DOMAIN count' = {"logged", "dropped", "shipped", "acked"}
    BY <1>3 DEF ShipperInv
  <1>5. Kept(Append(arrived, Head(wire)), Tail(wire), hand, queue, lost, count.logged, count.dropped)
    BY <1>2 DEF ShipperInv, Kept
  <1> QED BY <1>3, <1>4, <1>5 DEF ShipperInv

LEMMA LossesKeep == ShipperInv /\ (StreamError \/ DoneWriting \/ StopTimesOut) => ShipperInv'
  <1> SUFFICES ASSUME ShipperInv, StreamError \/ DoneWriting \/ StopTimesOut PROVE ShipperInv'
    OBVIOUS
  <1>1. Kept(arrived, <<>>, <<>>, queue, Gone, count.logged, count.dropped)
    BY LossKeepsAccount DEF ShipperInv, Gone
  <1>2. CASE StreamError
    <2> DEFINE k == IF Len(queue) >= MaxQueue THEN 1 ELSE 0
    <2>1. MaxQueue > 0 /\ MaxQueue \in Nat
      BY ShipperAssumption
    <2>2. Kept(arrived, <<>>, <<>>, Pushed(queue, count.logged + 1), Gone, count.logged + 1, count.dropped + k)
      BY <1>1, <2>1, EnqueueKeepsAccount
    <2>3. /\ queue' = Pushed(queue, count.logged + 1) /\ lost' = Gone /\ hand' = <<>> /\ wire' = <<>>
          /\ UNCHANGED arrived
          /\ count' = [count EXCEPT !.logged = @ + 1, !.dropped = @ + k]
      BY <1>2 DEF StreamError, Enqueue
    <2> HIDE DEF k
    <2>4. /\ count'.logged = count.logged + 1 /\ count'.dropped = count.dropped + k
          /\ DOMAIN count' = {"logged", "dropped", "shipped", "acked"}
      BY <2>3 DEF ShipperInv
    <2> QED BY <2>2, <2>3, <2>4 DEF ShipperInv
  <1>3. CASE DoneWriting
    <2>1. hand = <<>> /\ lost' = Gone /\ wire' = <<>> /\ UNCHANGED <<queue, hand, arrived, count>>
      BY <1>3 DEF DoneWriting, ShipperInv
    <2> QED BY <1>1, <2>1 DEF ShipperInv
  <1>4. CASE StopTimesOut
    <2>1. lost' = Gone /\ wire' = <<>> /\ hand' = <<>> /\ UNCHANGED <<queue, arrived, count>>
      BY <1>4 DEF StopTimesOut
    <2> QED BY <1>1, <2>1 DEF ShipperInv
  <1> QED BY <1>2, <1>3, <1>4

LEMMA LoggingKeeps == ASSUME NEW t PROVE ShipperInv /\ ShipToOrchestrator(t) => ShipperInv'
  <1> SUFFICES ASSUME ShipperInv, ShipToOrchestrator(t) PROVE ShipperInv'
    OBVIOUS
  <1> DEFINE k == IF Len(queue) >= MaxQueue THEN 1 ELSE 0
  <1>1. MaxQueue > 0 /\ MaxQueue \in Nat
    BY ShipperAssumption
  <1>2. Kept(arrived, wire, hand, Pushed(queue, count.logged + 1), lost, count.logged + 1, count.dropped + k)
    BY <1>1, EnqueueKeepsAccount DEF ShipperInv
  <1>3. /\ queue' = Pushed(queue, count.logged + 1) /\ UNCHANGED <<arrived, wire, hand, lost, drain>>
        /\ count' = [count EXCEPT !.logged = @ + 1, !.dropped = @ + k]
    BY DEF ShipToOrchestrator, Enqueue
  <1> HIDE DEF k
  <1>4. /\ count'.logged = count.logged + 1 /\ count'.dropped = count.dropped + k
        /\ DOMAIN count' = {"logged", "dropped", "shipped", "acked"}
    BY <1>3 DEF ShipperInv
  <1> QED BY <1>2, <1>3, <1>4 DEF ShipperInv

(* What moves only the task, the wake or the stop leaves the account alone. *)
LEMMA OtherStepsKeep ==
    ShipperInv /\ (StartShipper \/ PostedWake \/ Run \/ WaitEnds \/ Reconnect \/ StopShipper \/ StopReturns \/ UNCHANGED shipVars)
    => ShipperInv'
  <1> SUFFICES ASSUME ShipperInv, StartShipper \/ PostedWake \/ Run \/ WaitEnds \/ Reconnect \/ StopShipper
                                  \/ StopReturns \/ UNCHANGED shipVars
               PROVE ShipperInv'
    OBVIOUS
  <1>1. UNCHANGED <<queue, hand, wire, arrived, lost, count>> /\ (drain = "write" => drain' = "write")
    BY DEF StartShipper, PostedWake, Run, WaitEnds, Reconnect, StopShipper, StopReturns, shipVars
  <1> QED BY <1>1 DEF ShipperInv

(* The inductive invariant of the shipper: waiting, in hand, on the wire   *)
(* and arrived, the records form one growing sequence, and together with   *)
(* the dropped and the lost ones they are all that was logged              *)
(* (_enqueue, _drain and the request iterator of LogShipper).              *)
THEOREM ShipperInvariant == ShipperSpec => []ShipperInv
  <1>1. ShipperInit => ShipperInv
    BY ShipperStarts
  <1>2. ShipperInv /\ [ShipperNext]_shipVars => ShipperInv'
    BY FetchKeeps, WriteKeeps, ArrivalKeeps, LossesKeep, LoggingKeeps, OtherStepsKeep DEF ShipperNext, Drain
  <1> QED BY <1>1, <1>2, PTL DEF ShipperSpec

LEMMA AccountIsOrder == ShipperInv => LogsKeepTheirOrder
  <1> SUFFICES ASSUME ShipperInv PROVE LogsKeepTheirOrder
    OBVIOUS
  <1> DEFINE b == ((arrived \o wire) \o hand) \o queue  n == count.logged  c == arrived \o queue
  <1>1. /\ arrived \in Seq(Nat) /\ wire \in Seq(Nat) /\ hand \in Seq(Nat) /\ queue \in Seq(Nat) /\ n \in Nat
        /\ \A i \in 1..Len(queue) : queue[i] = n - Len(queue) + i
        /\ Accounted(b, lost, n, count.dropped)
    BY DEF ShipperInv, Kept
  <1>2. Ascending(b) /\ n = Len(b) + count.dropped + Cardinality(lost)
    BY <1>1 DEF Accounted, Ascending
  <1>3. queue = [i \in 1..Len(queue) |-> n - Len(queue) + i]
    <2>1. queue = [i \in 1..Len(queue) |-> queue[i]]
      BY <1>1, LenProperties
    <2> QED BY <2>1, <1>1
  <1>4. lost \cap ToSet(c) = {}
    <2>1. Kept(arrived, <<>>, <<>>, queue, (lost \cup ToSet(hand)) \cup ToSet(wire), n, count.dropped)
      BY LossKeepsAccount DEF ShipperInv
    <2>2. ((arrived \o <<>>) \o <<>>) \o queue = c
      BY <1>1, ConcatEmptySeq
    <2>3. Accounted(((arrived \o <<>>) \o <<>>) \o queue, (lost \cup ToSet(hand)) \cup ToSet(wire), n, count.dropped)
      BY <2>1 DEF Kept
    <2> HIDE DEF c
    <2>4. \A i \in DOMAIN c : c[i] \notin lost
      BY <2>2, <2>3 DEF Accounted
    <2> QED BY <2>4 DEF ToSet
  <1> QED BY <1>2, <1>3, <1>4 DEF LogsKeepTheirOrder

(* Over every reconnect, overflow and stop, the orchestrator sees the      *)
(* records in the order they were logged and none twice, and each is       *)
(* waiting, under way, arrived, counted as dropped or gone with a stream:  *)
(* the safety half of ShipperKeepsAccount (LogShipper).                    *)
THEOREM LogsStayInOrder == ShipperSpec => []LogsKeepTheirOrder
  BY ShipperInvariant, AccountIsOrder, PTL
=============================================================================
