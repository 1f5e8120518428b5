SPECIFICATION MCSpec
CONSTANTS
  MaxRounds = 4
  MaxSkillRounds = 1
  MaxBatch = 2
  MaxFinite = 10
  NotANumber = NotANumber
  NoFingerprint = NoFingerprint
  PsiRows <- Rows
  Timeout = 12
  Plans <- MCPlans
  CallTimeout <- MCCallTimeout
  StepTicks = 3
  Overrun = 1
  Cases <- MCCases
  Snapshots <- MCSnapshots
  ContractSpecs <- MCContractSpecs
  Objectives = {"goal", ""}
  Guardrail = "guard"
  EvaluationTimeout = 14
  MaxComparisons = 2
  MaxSampleCount = 3
  MaxSettle = 4
  MaxInterval = 2
  MaxScheduled = 6
  NoContract = NoContract
INVARIANTS
  EpisodeIsSound
  SessionsAreSettled
  BudgetBoundsEvaluation
  CommitIsWarranted
  VerdictIsEarned
  AggregateIsFair
  ContractIsKept
PROPERTIES
  EveryRunEnds
CHECK_DEADLOCK FALSE
