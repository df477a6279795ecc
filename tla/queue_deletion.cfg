SPECIFICATION Spec
CONSTANTS
  Paths = {p1}
  Shas = {v1, v2}
  PlainShas = {v1, v2}
  Twins = {}
  Unreadable = {}
  NoSha = NoSha
  Nil = Nil
  Workers = {w1}
  MaxEdits = 3
  MaxHistory = 3
  MaxCrashes = 0
SYMMETRY Symmetry
INVARIANTS DeletedIsUnsearchable
CHECK_DEADLOCK FALSE
