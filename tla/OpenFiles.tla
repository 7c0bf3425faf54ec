----------------------------- MODULE OpenFiles -----------------------------
(***************************************************************************)
(* What open files promise their users: a number that fopen returned       *)
(* stands for one file and a position in it until it is closed; a call     *)
(* changes what at most one number stands for; a new number is the         *)
(* smallest that is free.                                                  *)
(***************************************************************************)
EXTENDS Integers

CONSTANTS Numbers,   \* the numbers that fopen may return
          Files,     \* the files there are
          Size(_)    \* the size of each

VARIABLE open        \* the file and the position behind each open number

Init == open = [fd \in {} |-> 0]

Free == Numbers \ DOMAIN open

(* A file is opened at its beginning. *)
Open(fd, file) ==
  /\ fd \in Free /\ \A other \in Free : fd <= other
  /\ open' = [n \in DOMAIN open \cup {fd} |->
                IF n = fd THEN [name |-> file, pos |-> 0] ELSE open[n]]

(* The position moves forward, by less than the size of the file. *)
Seek(fd) ==
  \E offset \in 1 .. (Size(open[fd].name) - 1) :
    open' = [open EXCEPT ![fd].pos = @ + offset]

Close(fd) == open' = [n \in DOMAIN open \ {fd} |-> open[n]]

Next ==
  \/ \E fd \in Numbers, file \in Files : Open(fd, file)
  \/ \E fd \in DOMAIN open : Seek(fd) \/ Close(fd)

Spec == Init /\ [][Next]_open
=============================================================================
