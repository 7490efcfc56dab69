SPECIFICATION Spec
CONSTANTS
  Vm = {vm}
  Space = 6
  Page = 2
  NodeFails = FALSE
  MaxEntries = 3
  MaxRegions = 2
  Regions <- MCRegions
INVARIANTS MmioTypeOK HeldHandlerCalled
VIEW MCView
