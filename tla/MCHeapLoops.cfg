SPECIFICATION LoopSpec
CONSTANTS
  HeapAddress = 4
  HeapSize = 8
  BlockSize = 2
  WordMod = 32
  MaxBlocks = 6
INVARIANTS MallocComputes FreeComputes
PROPERTIES LoopsEnd
CHECK_DEADLOCK FALSE
