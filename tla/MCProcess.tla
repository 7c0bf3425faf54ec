----------------------------- MODULE MCProcess -----------------------------
(* More loads than slots.  After the last load the model has no next step, *)
(* so deadlock is not checked.                                             *)
EXTENDS Process
=============================================================================
