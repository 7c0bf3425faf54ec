SPECIFICATION Spec
CONSTANTS
  HeapAddress = 4
  HeapSize = 10
  BlockSize = 2
  WordMod = 32
  Requests = {0, 1, 4, 5}
  FreesEmpty = FALSE
INVARIANT AllocationInHeap
