SPECIFICATION MCFairSpec
CONSTANTS
  Subjects = {"mcp", "startup", "skills", "pairs"}
  Callers = {a, b}
  Initializer = a
  MaxRequests = 2
  PipeCapacity = 1
  MaxStray = 1
  ToolResults <- AllResults
  LocalMetas <- MCLocalMetas
  Servers <- MCServers
  McpEnabled = TRUE
  Policy <- MCPolicy
  Manifests <- MCManifests
  Pages <- MCPages
  MaxToolPages = 3
  MaxTools = 2
  MaxCapabilities = 2
  MaxRegistered = 6
  Nil = Nil
  Names = {1, 2, 3, 4}
  Disks <- MCDisks
  Requests <- MCRequests
  MaxSkills = 3
  MaxRegistryBytes = 6
  MaxReferences = 2
  MaxLoaded = 2
  MaxReads = 2
  MaxChars = 5
  DescriptionLimits <- MCLimits
  Nobody = Nobody
  Runtimes = {r1, r2}
  TxIds = {i, j, k}
  MaxFiles = 1
  Experiments <- FewExperiments
PROPERTIES
  EveryServiceEnds
CHECK_DEADLOCK FALSE
