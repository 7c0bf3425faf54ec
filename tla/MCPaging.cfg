SPECIFICATION Spec
CONSTANTS
  PageSize = 2
  Entries = 6
  ProgramStart = 16
  StackStart = 14
  StackSize = 4
  KernelStack = 24
  HeapPtrs = {26, 28, 30, 34, 36, 40}
  Sizes = {1, 4, 5, 6}
INVARIANTS ProcessMapped KernelIdentity
PROPERTIES ImplementsFlat
