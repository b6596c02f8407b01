SPECIFICATION FairSpec
CONSTANTS
  a1 = a1 a2 = a2 w1 = w1 unpriced = unpriced cheapOut = cheapOut i1 = i1
  Callers = {c1, c2}
  Leases = {l1, l2}
  Agents = {a1}
  Workflows = {w1}
  Models = {unpriced}
  Interactions = {i1}
  GlobalScope = GlobalScope
  NoInteraction = NoInteraction
  InputPrice <- MCUnpriced
  OutputPrice <- MCUnpriced
  MaxDailyUSD = 0
  WorkflowMaxUSD = 0
  AgentMaxUSD = 0
  Ceiling <- MCCeiling
  MaxTokenCount = 3
  TTL = 1
  ReaperInterval = 1
  MaxActiveLeases = 2
  Estimates <- MCTokenEstimates
  Actuals <- MCTokenActuals
INVARIANTS CeilingHolds InteractionTotalsAreCharges
PROPERTY LeasesPurged
