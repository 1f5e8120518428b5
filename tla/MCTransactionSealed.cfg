SPECIFICATION MCSpec
CONSTANTS
  Resource = {r1}
  Value <- Values3
  MAX_CHANGES_PER_TRANSACTION = 1
  MaxFaults = 1
  MaxEntries = 12
INVARIANTS
  SealedLogReconciles
