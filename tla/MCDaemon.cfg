SPECIFICATION FairDaemonSpec
CONSTANTS
  MaxRounds = 3
  MaxSkillRounds = 0
  MaxBatch = 1
  EventType = {"load"}
  Cooldown = 2
  DedupeWindow = 2
  TimerInterval = 3
  MaxTime = 3
  MaxConnections = 2
INVARIANTS
  KernelIsSettled
PROPERTIES
  KeepsPolling
