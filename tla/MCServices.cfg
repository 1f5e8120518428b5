SPECIFICATION MCSpec
CONSTANTS
  Subjects = {"mcp", "startup", "skills", "store", "isolation", "pairs", "trial"}
  Callers = {a, b}
  Initializer = a
  MaxRequests = 3
  PipeCapacity = 2
  MaxStray = 1
  ToolResults <- FewResults
  LocalMetas <- MCLocalMetas
  Servers <- MCServers
  McpEnabled = TRUE
  Policy <- MCPolicy
  Manifests <- MCManifests
  Pages <- MCPages
  MaxToolPages = 3
  MaxTools = 2
  MaxCapabilities = 2
  MaxRegistered = 6
  Nil = Nil
  Names = {1, 2, 3, 4}
  Disks <- MCDisks
  Requests <- MCRequests
  MaxSkills = 3
  MaxRegistryBytes = 6
  MaxReferences = 2
  MaxLoaded = 2
  MaxReads = 2
  MaxChars = 5
  DescriptionLimits <- MCLimits
  Nobody = Nobody
  Runtimes = {r1, r2}
  TxIds = {i, j, k}
  MaxFiles = 5
  Experiments <- MCExperiments
INVARIANTS
  PendingIsExact
  AnswerIsSettled
  RegistryIsSound
  LoadIsComplete
  ContextIsBest
  StartedIsListed
  LogIsOwn
  OriginalIsKept
  PairsAreApart
  PassIsEarned
CHECK_DEADLOCK FALSE
