SPECIFICATION MCSpec
CONSTANTS
  Resource = {r1}
  Value <- Values3
  MAX_CHANGES_PER_TRANSACTION = 2
  MaxFaults = 3
  MaxEntries = 12
INVARIANTS
  RollbackRestoresOrigin
  LogCoversWorld
  KernelLogReadable
PROPERTIES
  NoEffectAfterSeal
  OperationIdsIncrease
