SPECIFICATION MCSpec
CONSTANTS
  c = c
  d = d
  e = e
  p = p
  q = q
  x = x
  t = t
  o = o
  Latency = Latency
  Absent = Absent
  Gone = Gone
  None = None
  NoValue = NoValue
  Comms = {c, d, e}
  Comm = c
  Classes = {Latency}
  Base <- MCBase
  MaxRules = 2
  MaxRevision = 2
  Conns = {p, q, x}
  Procs = {p, q}
  External = x
  MaxBacklog = 2
  MapDrift = TRUE
  Orphans = FALSE
  TaskComms = {t, o}
  Targets = {t}
  MaxTid = 2
  SettleTimeout = 1
  MaxMatched = 1
  MaxStarts = 2
  MaxErrors = 1
SYMMETRY MCSymmetry
INVARIANTS
  IdleMeansAgreed
  ReceiptIsTrue
  CallIsSettled
  SampleIsTrue
PROPERTIES
  AcknowledgedHolds
