SPECIFICATION Spec
CONSTANTS
  Shas = {v1, v2}
  NoSha = NoSha
  Nil = Nil
  Torn = Torn
  Watch = Watch
  Desk = Desk
  Processes = {Watch, Desk}
  Analyses = {a1, a2}
  Answers = {"ALLOW", "BLOCK"}
  MaxEdits = 2
  MaxOperations = 3
SYMMETRY Symmetry
INVARIANTS TypeOK ApprovedByBoth OutcomeIsTrue
PROPERTIES ReplacedWasCompared
CHECK_DEADLOCK FALSE
