SPECIFICATION Spec
CONSTANTS
  t1 = t1
  t2 = t2
  Tasks = {t1, t2}
  ProgPage = 1
  StackPage = 2
  HeapPages = {3, 4, 5, 6, 7}
  ProgFrame <- MCProgFrame
  StackFrame <- MCStackFrame
  WordMod = 8
  Commands <- MCCommands
  Args <- MCArgs
  Irqs = {0, 1}
INVARIANTS RightContext CallLeavesNoTrace AnswersCorrect
PROPERTIES WritesOwnPages IrqsServed CallsReturn
