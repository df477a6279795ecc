SPECIFICATION ProtectedSpec
CONSTANTS
  Docs = {d1}
  Shas <- MCShas
  NoSha = 0
  AnyVersion = AnyVersion
  Idle = Idle
  Writers = {w1}
  Ticks <- MCTicks
  MaxTime = 5
  Kept = 1
  Remembered = 1
  MaxLength = 7
  MaxSize = 4
INVARIANTS TypeOK FlagsMatchRows CurrentIsLatest SplitKeepsText
PROPERTIES NoLostVersion StackSpec AnswersAreCurrent
\* The model stops when the clock reaches MaxTime.
CHECK_DEADLOCK FALSE
