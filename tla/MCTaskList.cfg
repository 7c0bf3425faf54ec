SPECIFICATION Spec
CONSTANTS
  Tasks = {t1, t2, t3, t4}
  NULL = NULL
  KERNEL = KERNEL
SYMMETRY Symmetry
INVARIANTS ForwardList BackwardListIfLifo CurrentIsLive
CHECK_DEADLOCK FALSE
