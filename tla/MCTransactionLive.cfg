SPECIFICATION MCFairSpec
CONSTANTS
  Resource = {r1}
  Value <- Values3
  MAX_CHANGES_PER_TRANSACTION = 1
  MaxFaults = 2
  MaxEntries = 16
INVARIANTS
  IInv
PROPERTIES
  PendingIsDecided
