SPECIFICATION Spec
CONSTANTS
  MaxProcesses = 2
  MaxLoads = 4
INVARIANTS TasksMatchProcesses FilesClosed
PROPERTIES TableChangesOnSuccess LoadsEnd
CHECK_DEADLOCK FALSE
