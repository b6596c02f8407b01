SPECIFICATION Spec
CONSTANTS
  Publishers = {p1, p2}
  Senders = {s1, s2}
  NoSender = NoSender
  Exempt = {}
  MaxInteractions = 3
  MaxPublishes = 3
  ReplyBudget = 1
  Quorum = 2
  Window = 2
  MaxRounds = 2
  Generations = 2
  Autonomy = {TRUE, FALSE}
  Rotates = TRUE
  Capped = TRUE
SYMMETRY Symmetry
CHECK_DEADLOCK FALSE
INVARIANTS TrackingMatchesHistory GovernanceIsReachable ClosesAreSingle
