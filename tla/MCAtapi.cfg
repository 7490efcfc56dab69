SPECIFICATION FairSpec
CONSTANTS
  WordSize = 2
  Reads = {1}
  PacketWords = 4
  BlockWords = 2
  DiskWords = 4
  OffsetBlocks = 3
  DiskFails = TRUE
INVARIANTS TypeOK TransferOpen ReadsTheBlock ProbeFindsMaster
PROPERTY CommandEnds
