SPECIFICATION FairSpec
CONSTANTS
  Pixels = 3
  MaxWrites = 2
INVARIANTS TypeOK NoDeadScreen
PROPERTIES NeverOlder ShowsTheFramebuffer
CHECK_DEADLOCK FALSE
