SPECIFICATION FairSpec
CONSTANTS
  a1 = a1
  a2 = a2
  r1 = r1
  Agents = {a1, a2}
  Requests = {r1}
  Scheduled = {a1}
  Handles = {1, 2, 3}
  QueueSize = 1
  MaxCascadeDepth = 2
  IdleAfter = 1
  TimerKinds = {"tick"}
  MaxMentions = 1
  MaxInbound = 1
  MaxStarts = 1
  WaitInline = TRUE
  NoTask = NoTask
CHECK_DEADLOCK FALSE
INVARIANTS DispatchIsSound StoppedLoopIsSettled
PROPERTY LoopAnswers
