SPECIFICATION Spec
CONSTANTS
  Analyses = {a1, a2}
  Docs = {d1}
  Shas = {s1, h1}
  SoftShas = {s1}
  HardShas = {h1}
  NoSha = NoSha
  Nil = Nil
  Keys = {k1}
  FaultKinds = {"audit", "indexer", "integrity", "crash"}
  MaxFaults = 2
SYMMETRY Symmetry
INVARIANTS TypeOK OnlyApprovedIndexed QuarantineIsFinal AlarmIsExplained WorkIsReachable SupersededHasHeir
PROPERTIES PromiseKept
CHECK_DEADLOCK FALSE
