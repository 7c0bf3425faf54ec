---------------------------- MODULE MCTaskList ----------------------------
(* Tasks in any of four places; the places are interchangeable. *)
EXTENDS TaskList

Symmetry == Permutations(Tasks)
===========================================================================
