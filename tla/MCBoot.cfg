SPECIFICATION BootSpec
CONSTANTS
  Vm = {vm1}
  V = vm1
  Space = 6
  Page = 2
  NodeFails = TRUE
  MaxEntries = 3
  Start = 1
  Buffer = 2
  Binary = 3
  ReadFails = TRUE
INVARIANTS FoundOnce WrittenIsSeen MmioTraps RefusedOnlyIfTaken
  BootTypeOK MapIsTheMemory LoadedInOrder
VIEW MCView
CHECK_DEADLOCK FALSE
