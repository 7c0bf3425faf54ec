--------------------------- MODULE AddressSpace ---------------------------
(***************************************************************************)
(* What a page directory promises: a map from virtual pages to frames and  *)
(* flags, in which one entry at a time is replaced.  The two levels of     *)
(* tables, and the address arithmetic that finds an entry, are not         *)
(* visible.                                                                *)
(***************************************************************************)

CONSTANTS
  VirtualPages,   \* the addresses of the virtual pages
  Ptes,           \* the page table entries
  FirstMap        \* the map a new directory starts with

VARIABLE map

Init == map = FirstMap

MapPage(p, e) == map' = [map EXCEPT ![p] = e]

Next == \E p \in VirtualPages, e \in Ptes : MapPage(p, e)

Spec == Init /\ [][Next]_map
=============================================================================
