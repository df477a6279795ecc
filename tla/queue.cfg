SPECIFICATION Spec
CONSTANTS
  Paths = {p1, p2}
  Shas = {v1, v2, v3}
  PlainShas = {v2, v3}
  Twins = {v2, v3}
  Unreadable = {}
  NoSha = NoSha
  Nil = Nil
  Workers = {w1}
  MaxEdits = 3
  MaxHistory = 3
  MaxCrashes = 1
SYMMETRY Symmetry
INVARIANTS TypeOK QueueShowsScan AcceptedIsCurrent HistoryExplainsIndex SnapshotsIntact BaselineIsAccepted
CHECK_DEADLOCK FALSE
