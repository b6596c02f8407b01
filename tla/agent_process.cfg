SPECIFICATION Spec
CONSTANTS
  Procs = {1, 2}
  Lines = {1}
  NoToken = none
  Nobody = nobody
  Attempts = 5
  MaxFaults = 3
  MaxRestarts = 2
  MaxRestCalls = 2
  AuthModes = {TRUE, FALSE}
  Busy = {1}
  StartVersions = {0, 3, 10, 11, 12, 13, 14, 15, 16, 19, 20}
  Flags = {"unset", "secret", "bad"}
  MaxCrashes = 2
  Autonomies <- AutonomiesDef
  SpecSets <- SpecSetsDef
  GroupId <- GroupIdDef
  MaxNow = 5
  MaxBoots = 3
  Unset = Unset NoValue = NoValue
  MaxQueue = 2
  BatchMax = 2
  BackoffCap = 4
  MaxRecords = 4
  Files <- FilesDef
  Seats <- SeatsDef
  Installed = {"anthropic", "openai", "watsonx", "ollama"}
  OllamaModel = "tag"
  MaxCalls = 2
CHECK_DEADLOCK FALSE
INVARIANTS UpgradesAreWhole TimersKeepTheRhythm EveryCallIsPriced
PROPERTIES SessionsHeal ShipperKeepsAccount
