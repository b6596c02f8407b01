SPECIFICATION PaidSpec
CONSTANTS
  a1 = a1 w1 = w1 m1 = m1
  NoID = NoID
  Callers = {t1, t2}
  Leases = {l1, l2}
  Agents = {a1}
  Workflows = {w1}
  Models = {m1}
  Interactions = {}
  GlobalScope = GlobalScope
  NoInteraction = NoInteraction
  InputPrice <- MCPrice
  OutputPrice <- MCPrice
  MaxDailyUSD = 0
  WorkflowMaxUSD = 0
  AgentMaxUSD = 4
  Ceiling <- MCCeiling
  MaxTokenCount = 3
  TTL = 1
  ReaperInterval = 1
  MaxActiveLeases = 1
  AcquireMaxAttempts = 2
  SettleMaxAttempts = 2
  Estimates <- MCEstimates
  Actuals <- MCActuals
  Advisers = {p1, p2}
  MeetingCount = 2
  MaxTries = 2
  MaxFailed = 1
  MaxHangups = 2
  SeriesList <- MCSeriesList
  ArmOrder <- MCArmOrder
  MeetingList <- MCMeetingList
  TryRetries = 1
  SeriesAttempts = 2
  MinSeries = 1
  FaultLimit = 2
  SpendCap = 6
  TryCosts = {1}
  WindowLength = 1
  JudgeCap = 2
  MaxRunClock = 1
  MaxKills = 1
  Unset = Unset
  VendorNames = {"anthropic", "openai", "compatible", "gemini", "watsonx"}
  AliasConfigs <- MCAliasConfigs
  VendorAnswers <- MCVendorAnswers
  MaxToolRounds = 2
  Absent = Absent
  Speakers = {"x", "y"}
  Script <- MCScript
  Keywords <- MCKeywords
  Topics = {"cost?", "wrap up"}
  FallbackText = "offline"
  MaxPosts = 5
  NoText = NoText
SYMMETRY Symmetry
CHECK_DEADLOCK FALSE
INVARIANTS CallsAreCharged ExperimentIsSound ModelCallsAreSound
