SPECIFICATION Spec
CONSTANTS
  Analyses = {a1, a2}
  Docs = {d1}
  Shas = {s1, s2}
  SoftShas = {s1, s2}
  HardShas = {}
  NoSha = NoSha
  Nil = Nil
  Keys = {k1, k2}
  FaultKinds = {}
  MaxFaults = 0
SYMMETRY Symmetry
INVARIANTS SupersededNeverIndexed
CHECK_DEADLOCK FALSE
