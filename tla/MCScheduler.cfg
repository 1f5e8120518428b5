SPECIFICATION MCFairSpec
CONSTANTS
  t1 = t1
  c = c
  d = d
  Latency = Latency
  Bulk = Bulk
  c1 = c1
  c2 = c2
  Absent = Absent
  None = None
  MissComms = {1, 2}
  Allowed = {1, 2}
  MaxBatch = 1
  RingSize = 1
  MissEntries = 2
  Tasks = {t1}
  RuleComms = {c, d}
  Classes = {Latency, Bulk}
  Default = Bulk
  MaxSeq = 6
  CPUs = {c1, c2}
  MaxQueue = 2
INVARIANTS
  OneActivation
  SeenIsCurrent
  ClaimIsHeldByOne

  
