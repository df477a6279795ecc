SPECIFICATION Spec
CONSTANTS
  Analyses = {a1, a2}
  Docs = {d1}
  Shas = {s1, s2}
  SoftShas = {s1, s2}
  HardShas = {}
  NoSha = NoSha
  Nil = Nil
  Keys = {k1, k2}
  FaultKinds = {"crash"}
  MaxFaults = 1
SYMMETRY Symmetry
INVARIANTS QuarantineRemoves
CHECK_DEADLOCK FALSE
