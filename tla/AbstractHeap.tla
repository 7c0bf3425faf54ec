--------------------------- MODULE AbstractHeap ---------------------------
(***************************************************************************)
(* What the kernel heap promises its callers: every allocation holds a     *)
(* nonempty run of blocks that no other allocation holds, and keeps        *)
(* exactly that run until it is freed.  An allocation of no blocks, and a  *)
(* refused one, change nothing.                                            *)
(***************************************************************************)
EXTENDS Integers

CONSTANT AllBlocks

VARIABLE held     \* the set of the block sets that are handed out

IsRun(S) == \A i, j \in S : i .. j \subseteq S

Init == held = {}

Allocate ==
  \E S \in (SUBSET AllBlocks) \ {{}} :
    /\ IsRun(S)
    /\ S \cap UNION held = {}
    /\ held' = held \cup {S}

Release == \E S \in held : held' = held \ {S}

Next == Allocate \/ Release

Spec == Init /\ [][Next]_held
=============================================================================
