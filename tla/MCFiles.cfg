SPECIFICATION Spec
CONSTANTS
  Chars <- MCChars
  MaxDescriptors = 3
  MaxPath = 8
  Paths <- MCPaths
  Disks <- MCDisks
  RootEntries = 3
  MaxOpens = 4
  MaxPos = 1
INVARIANTS HeldDescriptorsValid PathRead LookupExact
PROPERTIES ClosedReleased KeepsPromise OpensEnd
CHECK_DEADLOCK FALSE
