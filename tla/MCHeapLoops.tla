---------------------------- MODULE MCHeapLoops ----------------------------
(* The loops of the heap on every table of a few blocks.  A call that has  *)
(* ended has no next step, so deadlock is not checked.                     *)
EXTENDS HeapLoops
=============================================================================
