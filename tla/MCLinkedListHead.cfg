SPECIFICATION SpecBack
CONSTANTS
  Node = {n1, n2, n3}
  Value = {v1, v2}
  Nil = Nil
  Uint = 8
  HeadPopped = FALSE
INVARIANT WalkInOrder
CHECK_DEADLOCK FALSE
