SPECIFICATION Spec
CONSTANTS
  Events <- MCEvents
  Replies <- MCReplies
  Scores = {4, 7, 8, 9, 10}
  MaxCalls = 2
  MaxDepth = 3
  MaxRevise = 2
  Stores <- AbstractedDef
  Gatherings <- GatheringsDef
  Agenda <- TeamTurn
  Settings <- LiveSettings
  Persona = "me"
  Class <- ClassDef
  Groups = {"team", "board", "hall"}
  Described <- DescribedDef
  Budget = 6
  FactsBudget = 3
  ContextTokens = 12
  HeaderTokens = 1
  MinTokens <- MinTokensDef
  RelationSize = 1
  RecallLimit = 4
  MaxMoves = 0
  MaxFaults = 0
  Channels = {"c1", "c2"}
  Personas = {"p1"}
  Others = {"u"}
  Sizes = {1, 2}
  MaxTurns = 2
  MaxTokens = 3
  Capacity = 1
  MaxLog = 6
  MaxBuilds = 2
  Shapes <- ShapesDef
  Sigs <- SigsDef
  AgentConfigs <- AgentConfigsDef
  Lengths <- LengthsDef
  Resolve <- ResolveDef
  Hosts <- HostsDef
  Rounds <- RoundsDef
  Texts <- TextsDef
  Tasks <- TasksDef
  MaxTimeout = 5
  None = None
  Requests <- RequestsDef
  Parent = "parent"
  Contexts <- ContextsDef
  Candidates <- CandidatesDef
  CheckSets <- CheckSetsDef
  Policies <- PoliciesDef
  Nil = Nil
CHECK_DEADLOCK FALSE
INVARIANT ProjectionsKeepTheirAudience
