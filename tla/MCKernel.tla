------------------------------ MODULE MCKernel ------------------------------
(* Two tasks in an address space of eight pages: pages 1 and 2 are the     *)
(* program and the stack, 3 to 7 the heap, of which the tasks own four.    *)
EXTENDS Kernel, TLC

CONSTANTS t1, t2

MCProgFrame  == t1 :> 3 @@ t2 :> 5
MCStackFrame == t1 :> 4 @@ t2 :> 6

(* Pointers to the program, to the stack, to the other task and to a free  *)
(* page of the heap; the last pair overflows when it is added.             *)
MCArgs == {<<1, 2>>, <<2, 1>>, <<7, 5>>}

(* A negative command, the two registered ones, and an unknown one. *)
MCCommands == {-1, 0, 1, 2}
=============================================================================
