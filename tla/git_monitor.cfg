SPECIFICATION GitSpec
CONSTANTS
  Heads = {h1}
  Branches = {main}
  NoValue = NoValue
  Patches = {none, short, long}
  NoPatch = none
  Shown <- MCShown
  MaxChanges = 2
SYMMETRY Symmetry
INVARIANTS ReceiverKnows
