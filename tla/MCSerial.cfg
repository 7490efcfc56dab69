SPECIFICATION FairSpec
CONSTANTS
  Vcpu = vcpu
  Writer = writer
  Reader = reader
  b1 = b1
  Byte = {b1}
  Nul = Nul
  Nil = Nil
  Text <- MCText
  BufferSize = 2
  MaxCall = 1
INVARIANTS TypeOK EchoInv
PROPERTIES EchoSpec GuestReceives HostReceives
