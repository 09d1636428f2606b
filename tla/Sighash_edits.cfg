CONSTANTS
  key = key  none = none  p1 = p1  p2 = p2
  NoScript = none
  MaxValue = 9
  HashTypes <- AllTypes
  Unsigned <- SomeTxs
  Key = key
  Values = {1, 2}
  Prevouts = {p1, p2}
  Sequences = {0, 2}
  MaxEdits = 3
SPECIFICATION Spec
CHECK_DEADLOCK FALSE
INVARIANTS
  CommitsToType 
