------------------------------- MODULE Heap -------------------------------
(***************************************************************************)
(* The kernel heap (src/memory/heap/heap.c, kheap.c): its block table, the *)
(* bytes behind the table, and the allocations its callers hold.           *)
(*                                                                         *)
(* kmalloc, kzalloc and kfree run to completion with interrupts off, so    *)
(* each is one action.  Callers free only pointers they hold, once each.   *)
(* FreesEmpty says whether they also free the pointer that a request of    *)
(* zero blocks returned; no caller in the kernel does.                     *)
(***************************************************************************)
EXTENDS HeapTable

CONSTANTS
  Requests,    \* the sizes in bytes that callers ask for
  FreesEmpty   \* whether callers free allocations of zero blocks

ASSUME RequestAssumption ==
  /\ Requests \subseteq 0 .. (WordMod - 1)
  /\ FreesEmpty \in BOOLEAN

VARIABLES
  entries,  \* kernel_heap_table.entries
  spill,    \* the indices behind the table that have been written
  live,     \* the allocations callers hold, as their callers know them
  wiped     \* the blocks the last call zeroed

vars == <<entries, spill, live, wiped>>

Allocation == [start : Blocks, len : Nat, size : 0 .. (WordMod - 1)]

(* The blocks of allocation a that exist. *)
BlocksOf(a) == {i \in Blocks : a.start <= i /\ i < a.start + a.len}

-----------------------------------------------------------------------------

(* kheap_init: heap_create marks every entry free. *)
Init ==
  /\ entries = [i \in Blocks |-> FREE]
  /\ spill = {}
  /\ live = {}
  /\ wiped = {}

(* Mutant of Memset: one byte too many. *)
MemsetOneMore(start, size) ==
  IF size = 0 THEN {} ELSE start .. (start + (size \div BlockSize))

(* memset (ptr, 0x00, size) in kzalloc: the blocks it writes to. *)
Memset(start, size) ==
  IF size = 0 THEN {} ELSE start .. (start + ((size - 1) \div BlockSize))

(* Mutant of Malloc: the result of the search is not checked. *)
MallocUnchecked(size, zero) ==
  LET n     == TotalBlocks(size)
      start == heap_get_start_block(entries, n)
  IN  /\ entries' = heap_mark_blocks_taken(entries, start, n)
      /\ spill' = spill \cup Spilled(start, n)
      /\ live' = live \cup {[start |-> start, len |-> n, size |-> size]}
      /\ wiped' = IF zero THEN Memset(start, size) ELSE {}

(* heap_malloc and heap_malloc_blocks.  zero tells kzalloc from kmalloc. *)
Malloc(size, zero) ==
  LET n     == TotalBlocks(size)
      start == heap_get_start_block(entries, n)
  IN  \/ /\ start < 0
         /\ wiped' = {}
         /\ UNCHANGED <<entries, spill, live>>
      \/ /\ start >= 0
         /\ entries' = heap_mark_blocks_taken(entries, start, n)
         /\ spill' = spill \cup Spilled(start, n)
         /\ live' = live \cup {[start |-> start, len |-> n, size |-> size]}
         /\ wiped' = IF zero THEN Memset(start, size) ELSE {}

kmalloc(size) == Malloc(size, FALSE)

kzalloc(size) == Malloc(size, TRUE)

(* kfree of the pointer of allocation a: heap_free.  Only the table is     *)
(* cleared, the bytes behind it keep what the marking loop left there.     *)
kfree(a) ==
  LET ptr == heap_block_to_address(a.start)
  IN  /\ a.len > 0 \/ FreesEmpty
      /\ entries' = heap_mark_blocks_free(entries, heap_address_to_block(ptr))
      /\ live' = live \ {a}
      /\ wiped' = {}
      /\ UNCHANGED spill

Next ==
  \/ \E size \in Requests : kmalloc(size)
  \/ \E size \in Requests : kzalloc(size)
  \/ \E a \in live : kfree(a)

Spec == Init /\ [][Next]_vars

-----------------------------------------------------------------------------
(* Properties *)

(* The table holds one flag set per block, and every allocation starts at  *)
(* a block of the heap.                                                    *)
TypeOK ==
  /\ entries \in [Blocks -> Entry]
  /\ spill \subseteq Nat
  /\ live \subseteq Allocation
  /\ wiped \subseteq Nat

(* No block belongs to two allocations: what heap_get_start_block returns  *)
(* is never part of what an earlier kmalloc returned and is still held.    *)
BlocksDisjoint ==
  \A a, b \in live : a # b => BlocksOf(a) \cap BlocksOf(b) = {}

(* The table is exactly the record of the allocations held: a block that   *)
(* no allocation covers has no flag set, and the entry of one that is      *)
(* covered is the link of that allocation's chain which                    *)
(* heap_mark_blocks_free will follow.                                      *)
TableMatchesLive ==
  \A i \in Blocks :
    /\ entries[i] # FREE => \E a \in live : i \in BlocksOf(a)
    /\ \A a \in live :
         i \in BlocksOf(a) => entries[i] = ChainEntry(a.start, a.len, i)

(* A call of kmalloc, kzalloc or kfree changes no entry of an allocation   *)
(* that is held before and after it: the chain that kfree walks never runs *)
(* on into a neighbour, and kmalloc never marks a taken block.             *)
HeldUntouched ==
  [][\A a \in live \cap live' : \A k \in BlocksOf(a) : entries'[k] = entries[k]]_vars

(* The memset of kzalloc zeroes no block of an allocation made before.     *)
ZeroingSparesOthers ==
  [][\A a \in live : BlocksOf(a) \cap wiped' = {}]_vars

(* heap.c:199 "If unable to find sufficient contiguous free blocks, it     *)
(* returns -ENOMEM": an allocation that was granted lies in the heap.      *)
AllocationInHeap ==
  \A a \in live : a.start + a.len <= Total

-----------------------------------------------------------------------------
(* The heap implements AbstractHeap. *)

(* What is handed out as the table itself tells it, without the callers:   *)
(* the chain of HAS_NEXT flags from each block that IS_FIRST.              *)
Held == {FreedFrom(entries, i) : i \in {j \in Blocks : "IS_FIRST" \in entries[j]}}

Abstract == INSTANCE AbstractHeap WITH AllBlocks <- Blocks, held <- Held

(* Read off the flags of the table alone, every call of the heap hands out *)
(* one run of blocks that no chain holds, takes back one whole chain, or   *)
(* changes nothing: no call makes two chains run into each other, and none *)
(* cuts a chain short or ends a second one beside the one it frees.        *)
ImplementsAbstract == Abstract!Spec
=============================================================================
