SPECIFICATION Spec
CONSTANTS
  Procs = {1, 2}
  Lines = {1}
  NoToken = none
  Nobody = nobody
  Attempts = 5
  MaxFaults = 1
  MaxRestarts = 2
  MaxRestCalls = 2
  AuthModes = {TRUE}
  Busy = {1}
  StartVersions = {15, 20}
  Flags = {"unset", "secret", "bad"}
  MaxCrashes = 0
  Autonomies <- AutonomiesDef
  SpecSets <- SpecSetsDef
  GroupId <- GroupIdDef
  MaxNow = 7
  MaxBoots = 2
  Unset = Unset NoValue = NoValue
  MaxQueue = 2
  BatchMax = 2
  BackoffCap = 4
  MaxRecords = 4
  Files <- FilesDef
  Seats <- SeatsDef
  Installed = {"anthropic", "openai", "watsonx", "ollama"}
  OllamaModel = "tag"
  MaxCalls = 2
CHECK_DEADLOCK FALSE
INVARIANT FlagIsHonoured
