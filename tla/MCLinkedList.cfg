SPECIFICATION FairSpec
CONSTANTS
  Node = {n1, n2, n3, n4}
  Value = {v1, v2}
  Nil = Nil
  Uint = 8
  HeadPopped = TRUE
INVARIANTS TypeOK ListInOrder WalkInOrder FreedAll
PROPERTY CallsEnd
