---------------------------- MODULE ModelRouting ----------------------------
(***************************************************************************)
(* Which model a call runs on.  An agent names an alias; the alias map of  *)
(* config/optimization.yaml says which vendor and model it stands for and  *)
(* what they cost; agents/server_cli.py checks the map and builds the seat *)
(* client when the process starts; agents/llm_client.py sends a call of a  *)
(* shared lane (bids, summaries, critic) to the vendor of the lane's own   *)
(* alias.  The wallet prices a call by its model alone, and a model with   *)
(* no price costs nothing, so an unpriced remote call would escape every   *)
(* budget.                                                                 *)
(***************************************************************************)
EXTENDS Integers, FiniteSets, SequencesExt

CONSTANTS
    Files,       \* what optimization.yaml may hold: a config, or Unset when missing
    Seats,       \* agent entries: [kind, model, vendor, settings]
    Installed,   \* vendors whose package is installed
    OllamaModel, \* the tag PERSATRIX_OLLAMA_MODEL swaps in, or Unset
    MaxCalls,    \* bound: calls of a process
    Unset        \* an absent key

ASSUME RoutingAssumption == Unset # "loopback"

VARIABLES
    file,    \* the config the process reads
    seat,    \* the entry it runs
    agent,   \* the client it built, or why there is none
    lanes,   \* lane clients built so far: resolved alias -> vendor
    calls    \* the calls made, each with what it was sent to
routingVars == <<file, seat, agent, lanes, calls>>

LocalProviders == {"mock", "ollama"}
KnownProviders == {"anthropic", "openai", "gemini", "watsonx", "ollama", "mock"}
(* The vendors whose client takes a base_url: one of the others goes to its vendor's own endpoint. *)
TakesBaseUrl == {"openai", "ollama"}

-----------------------------------------------------------------------------
(* The config: a file missing or malformed is an empty one. *)
LoadConfig == IF file = Unset THEN [aliases |-> <<>>, profiles |-> <<>>] ELSE file
ModelAliases == LoadConfig.aliases
(* The active profile first, then the default one. *)
Profile(key) ==
    IF \E i \in DOMAIN LoadConfig.profiles : LoadConfig.profiles[i][key] # Unset
    THEN LoadConfig.profiles[SelectInSeq(LoadConfig.profiles, LAMBDA p : p[key] # Unset)][key]
    ELSE Unset
SummarizationModel == Profile("summarization")
ModelRoutingDefaults == Profile("defaults")
SubAgentDefaultModel == IF ModelRoutingDefaults = Unset THEN Unset ELSE ModelRoutingDefaults.sub_agents

-----------------------------------------------------------------------------
(* An alias entry: provider, model, host of its base_url, prices in and out, and whether a *)
(* watsonx project is known (from the entry or the environment).                           *)
ProviderIsLocal(e) == e.provider \in LocalProviders \/ e.host = "loopback"
HasNumericPrice(p) == p # Unset
CoercePrice(p) == IF HasNumericPrice(p) THEN p ELSE 0

\* Mutant: one price is taken for both.
PricedOneWay(e) == HasNumericPrice(e.in) \/ HasNumericPrice(e.out)

PricedBothWays(e) == HasNumericPrice(e.in) /\ HasNumericPrice(e.out)
CheckEntryPricing(e) == ProviderIsLocal(e) \/ PricedBothWays(e)
ValidateAliasPricing == \A a \in DOMAIN ModelAliases : CheckEntryPricing(ModelAliases[a])
WellFormed(e) == e.provider # Unset /\ e.model # Unset
FromAliasEntry(a, e) == [alias |-> a, provider |-> e.provider, model |-> e.model, host |-> e.host, project |-> e.project]
(* A reference that is no alias, an alias with no provider chosen, no price or no model: refused. *)
Resolve(a) ==
    IF /\ a \in DOMAIN ModelAliases
       /\ LET e == ModelAliases[a] IN e.provider # "unconfigured" /\ CheckEntryPricing(e) /\ WellFormed(e)
    THEN FromAliasEntry(a, ModelAliases[a]) ELSE Unset

(* The table the wallet prices by, one row per model: refused when two aliases disagree on it. *)
Rows == {[model |-> ModelAliases[a].model, in |-> CoercePrice(ModelAliases[a].in), out |-> CoercePrice(ModelAliases[a].out)] :
            a \in {b \in DOMAIN ModelAliases : ModelAliases[b].model # Unset}}
DerivedCostPricing == IF \A r, s \in Rows : r.model = s.model => r = s THEN Rows ELSE Unset

-----------------------------------------------------------------------------
NoAgent == [stage |-> "down"]
RoutingInit ==
    /\ file \in Files /\ seat \in Seats
    /\ agent = NoAgent /\ lanes = {} /\ calls = <<>>

Refuse == agent' = [stage |-> "refused"] /\ UNCHANGED <<file, seat, lanes, calls>>
(* Start-up checks the whole map, the aliases nobody uses included. *)
ValidateStartupConfig ==
    /\ agent = NoAgent
    /\ IF ValidateAliasPricing THEN agent' = [stage |-> "checked"] /\ UNCHANGED <<file, seat, lanes, calls>>
       ELSE Refuse

(* The client of a resolved alias: its vendor's package must be there, the vendor be one that is  *)
(* known, and watsonx have a project; the settings of the alias win over those of the agent.      *)
Buildable(r) ==
    /\ r.provider \in KnownProviders
    /\ r.provider = "mock" \/ r.provider \in Installed
    /\ r.provider = "watsonx" => r.project
PhysicalModel(r) == IF r.provider = "ollama" /\ OllamaModel # Unset THEN OllamaModel ELSE r.model
Host(r, settings) ==
    IF r.provider \notin TakesBaseUrl THEN Unset
    ELSE IF r.host # Unset THEN r.host ELSE settings
Client(r, settings) == [vendor |-> r.provider, model |-> PhysicalModel(r), host |-> Host(r, settings)]
(* An agent entry that names a vendor of its own must name its alias's. *)
CreateProvider(s) ==
    LET r == Resolve(s.model) IN
    IF r = Unset \/ s.vendor \notin {Unset, r.provider} \/ ~Buildable(r) THEN Unset ELSE Client(r, s.settings)
ResolveAgentType(s) == IF s.kind \in {"task", "persona"} THEN s.kind ELSE Unset
LoadAgent ==
    /\ agent.stage = "checked"
    /\ LET client == CreateProvider(seat) IN
       IF ResolveAgentType(seat) = Unset \/ seat.model = Unset \/ client = Unset THEN Refuse
       ELSE /\ agent' = [stage |-> "up", client |-> client, alias |-> seat.model]
            /\ UNCHANGED <<file, seat, lanes, calls>>

-----------------------------------------------------------------------------
(* The client a call rides: the seat's own, unless its alias names another vendor.  Two aliases *)
(* of one vendor share the seat's client, whatever endpoints they name.                        *)
ProviderForAlias(r) == IF r.provider = agent.client.vendor THEN agent.client ELSE Client(r, Unset)
NeedsLane(r) == r.provider # agent.client.vendor
LaneCacheKey(r) == r
ProviderForResolved(r) == LaneCacheKey(r) \in lanes \/ Buildable(r)

Sent(r, model) ==
    [alias |-> r.alias, vendor |-> ProviderForAlias(r).vendor, host |-> ProviderForAlias(r).host, model |-> model]
CreateMessage(r, model) ==
    /\ agent.stage = "up" /\ Len(calls) < MaxCalls
    /\ calls' = Append(calls, Sent(r, model))
    /\ lanes' = IF NeedsLane(r) THEN lanes \cup {LaneCacheKey(r)} ELSE lanes
    /\ UNCHANGED <<file, seat, agent>>
(* The agent's own turn runs on its seat. *)
SeatCall ==
    /\ agent.stage = "up"
    /\ CreateMessage(Resolve(agent.alias), agent.client.model)
(* A lane resolves its own alias for each call and gives up when it cannot, or when the client of *)
(* another vendor cannot be built.                                                                *)
LaneCall(a) ==
    /\ agent.stage = "up" /\ a # Unset
    /\ LET r == Resolve(a) IN
       /\ r # Unset /\ (NeedsLane(r) => ProviderForResolved(r))
       /\ CreateMessage(r, r.model)

RoutingNext ==
    \/ ValidateStartupConfig \/ LoadAgent \/ SeatCall
    \/ LaneCall(SummarizationModel) \/ LaneCall(SubAgentDefaultModel)
    \/ \E a \in DOMAIN ModelAliases : LaneCall(a)

RoutingSpec == RoutingInit /\ [][RoutingNext]_routingVars

-----------------------------------------------------------------------------
(* A call that costs: its client leaves the machine.  What a call is sent to is its client's      *)
(* endpoint, whatever its alias says.                                                            *)
Remote(c) == c.vendor \notin LocalProviders /\ c.host # "loopback"
HasPrices(e) == e.in # Unset /\ e.out # Unset
(* An alias that names a local endpoint its calls do not go to: its vendor's client takes no       *)
(* base_url, or it rides the client of a seat of the same vendor.                                 *)
Misdirected(c, e) ==
    /\ e.host = "loopback"
    /\ c.vendor \notin TakesBaseUrl \/ (c.alias # agent.alias /\ c.vendor = agent.client.vendor)

(* Whatever the alias map, the seat and the lanes of a process that came up: a call goes to the  *)
(* vendor its alias declares, with a model of that alias, at the alias's endpoint or that of the *)
(* seat whose client it shares; a call that leaves the machine is of an alias with both prices,  *)
(* unless the alias names a local endpoint that the call misses (see NoRemoteCallIsFree); and    *)
(* the wallet's table, when there is one, prices the call as its alias does.                     *)
EveryCallIsPriced ==
    \A i \in DOMAIN calls :
        LET c == calls[i]  e == ModelAliases[c.alias] IN
        /\ c.vendor = e.provider
        /\ c.host \in {e.host, Unset} \/ (c.vendor = agent.client.vendor /\ c.host = agent.client.host)
        /\ c.model = e.model \/ (c.vendor = "ollama" /\ c.model = OllamaModel)
        /\ Remote(c) => HasPrices(e) \/ Misdirected(c, e)
        /\ (DerivedCostPricing # Unset /\ c.model = e.model) =>
             [model |-> c.model, in |-> CoercePrice(e.in), out |-> CoercePrice(e.out)] \in DerivedCostPricing

(* No call that leaves the machine is of an alias without prices. *)
NoRemoteCallIsFree ==
    \A i \in DOMAIN calls : Remote(calls[i]) => HasPrices(ModelAliases[calls[i].alias])
=============================================================================
