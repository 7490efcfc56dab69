SPECIFICATION Spec
CONSTANTS
  Vm = {v1, v2}
  MaxFd = 5
  Chips = {{}, {"irqchip", "pit"}}
  Modes = {"real", "protected"}
  Nobody = nobody
  KvmFails = TRUE
INVARIANTS TypeOK OwnsItsFiles RunIsReady
SYMMETRY VmSymmetry
CHECK_DEADLOCK FALSE
