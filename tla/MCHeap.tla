------------------------------- MODULE MCHeap -------------------------------
(* Instances of Heap for TLC: blocks of two bytes, a heap of a few blocks. *)
EXTENDS Heap
=============================================================================
