SPECIFICATION FairSpec
CONSTANTS
  Nil = Nil
  Producers = {w1}
  Consumers = {r1}
  Byte = {b1, b2}
  BufferSize = 3
  MaxCall = 3
INVARIANTS TypeOK IndInv LoopSafe
PROPERTIES FifoSpec CallsReturn Drains
