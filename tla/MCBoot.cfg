SPECIFICATION Spec
CONSTANTS
  Nibble = 2
  LoadSectors = 3
  KernelSectors = 2
  TssSize = 6
  TssAddresses <- MCTssAddresses
  Vectors = {"zero", "keyboard", "syscall", "other"}
  Handler <- MCHandler
  FsSlots = 2
INVARIANTS EncodingExact SetUpBeforeUse DiskWholeOrNone ReadyForUser
PROPERTIES BootEnds
CHECK_DEADLOCK FALSE
