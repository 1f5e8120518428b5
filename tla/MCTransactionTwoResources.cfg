SPECIFICATION MCSpec
CONSTANTS
  Resource = {r1, r2}
  Value <- Values3
  MAX_CHANGES_PER_TRANSACTION = 3
  MaxFaults = 1
  MaxEntries = 12
INVARIANTS
  CommitInstallsCandidate
  DriftHasCause
PROPERTIES
  ImplementsAtomicTransaction
