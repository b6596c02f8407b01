SPECIFICATION FairSpec
CONSTANTS
  s1 = s1
  s2 = s2
  w1 = w1
  w2 = w2
  Speakers = {s1, s2}
  Wires = {w1, w2}
  PrevWire <- PrevWireDef
  NoWire = NoWire
  Self = self
  MaxTurns = 3
  IdleAge = 1
  GraceAge = 1
  GateSize = 1
  Budgets <- BudgetsDef
CHECK_DEADLOCK FALSE
INVARIANTS SpansAreWhole OneEpisodePerSpan
PROPERTIES VoteSparesSuccessors PendingIsSettled
