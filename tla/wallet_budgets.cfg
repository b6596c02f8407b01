SPECIFICATION Spec
CONSTANTS
  a1 = a1 a2 = a2 w1 = w1 unpriced = unpriced cheapOut = cheapOut i1 = i1
  Callers = {c1, c2}
  Leases = {l1, l2}
  Agents = {a1, a2}
  Workflows = {w1}
  Models = {cheapOut}
  Interactions = {}
  GlobalScope = GlobalScope
  NoInteraction = NoInteraction
  InputPrice <- MCInputPrice
  OutputPrice <- MCOutputPrice
  MaxDailyUSD = 5
  WorkflowMaxUSD = 0
  AgentMaxUSD = 3
  Ceiling <- MCNoCeiling
  MaxTokenCount = 3
  TTL = 1
  ReaperInterval = 1
  MaxActiveLeases = 1
  Estimates <- MCEstimates
  Actuals <- MCActuals
SYMMETRY Symmetry
INVARIANTS TypeOK LeaseCapHolds BudgetsHold ScopesAreCharges
PROPERTY ImplementsLedger
