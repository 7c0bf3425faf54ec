----------------------------- MODULE HeapTable -----------------------------
(***************************************************************************)
(* The block table of the kernel heap (src/memory/heap/heap.c, heap.h) and *)
(* the functions that read and rewrite it, as pure operators on a table.   *)
(*                                                                         *)
(* A table entry is one byte of flags; here it is the set of its flags.    *)
(* The two loops that search and rewrite the table are given by what they  *)
(* compute; module HeapLoops runs the loops themselves, one iteration per  *)
(* step, and shows that they compute exactly these results.                *)
(***************************************************************************)
EXTENDS Integers

CONSTANTS
  HeapAddress,  \* LAMEOS_HEAP_ADDRESS, the first byte of the heap
  HeapSize,     \* LAMEOS_HEAP_SIZE_BYTES
  BlockSize,    \* LAMEOS_HEAP_BLOCK_SIZE
  WordMod       \* 2^32, the modulus of uint32_t and size_t

(* kernel_heap_table.total as kheap_init computes it. *)
Total == HeapSize \div BlockSize

(* The indices of the table, and of the heap's blocks. *)
Blocks == 0 .. (Total - 1)

-----------------------------------------------------------------------------
(* Entries *)

Flags   == {"TAKEN", "IS_FIRST", "HAS_NEXT"}
Entry   == SUBSET Flags
FREE    == {}
ENOMEM  == 3
NULL    == 0

(* entry & 0x0f: only the TAKEN bit is in the low nibble. *)
heap_get_entry_type(entry) == entry \cap {"TAKEN"}

IsFree(t, i) == heap_get_entry_type(t[i]) = FREE

-----------------------------------------------------------------------------
(* heap_create and its checks *)

heap_check_alignment(ptr) == ptr % BlockSize = 0

heap_check_table(ptr, end, total) == (end - ptr) \div BlockSize = total

(* heap_create returns 0 on the arguments kheap_init gives it. *)
heap_create_ok ==
  LET end == HeapAddress + HeapSize
  IN  /\ heap_check_alignment(HeapAddress)
      /\ heap_check_alignment(end)
      /\ heap_check_table(HeapAddress, end, Total)

(* The values of config.h: a positive number of blocks, a heap that does   *)
(* not start at the null address, sizes of 32 bits that are multiples of   *)
(* the block size, and a heap that ends inside the address space.          *)
ASSUME HeapAssumption ==
  /\ BlockSize \in Nat \ {0}
  /\ HeapAddress \in Nat \ {0}
  /\ HeapSize \in Nat /\ HeapSize >= BlockSize
  /\ WordMod \in Nat /\ WordMod >= HeapAddress + HeapSize
  /\ WordMod % BlockSize = 0
  /\ heap_create_ok

-----------------------------------------------------------------------------
(* Sizes and addresses *)

(* A request in bytes rounded up to whole blocks, in 32-bit arithmetic: a  *)
(* request in the last block of the address space wraps to zero.           *)
heap_align_value_to_upper(val) ==
  IF val % BlockSize = 0
  THEN val
  ELSE ((val - (val % BlockSize)) + BlockSize) % WordMod

(* The number of blocks heap_malloc asks for. *)
TotalBlocks(size) == heap_align_value_to_upper(size) \div BlockSize

heap_block_to_address(block) == HeapAddress + (block * BlockSize)

heap_address_to_block(address) == (address - HeapAddress) \div BlockSize

-----------------------------------------------------------------------------
(* Searching and marking *)

(* The n blocks from b are in the table and free. *)
FreeRun(t, b, n) == b + n <= Total /\ \A i \in b .. (b + n - 1) : IsFree(t, i)

(* b starts a maximal run of free blocks. *)
RunStart(t, b) == IsFree(t, b) /\ (b = 0 \/ ~IsFree(t, b - 1))

(* Mutant of heap_get_start_block: a taken block does not reset the run,   *)
(* so that free blocks are counted on across it.                           *)
StartWithoutReset(t, n) ==
  IF \E b \in Blocks : IsFree(t, b)
  THEN CHOOSE b \in Blocks : IsFree(t, b) /\ \A c \in Blocks : IsFree(t, c) => b <= c
  ELSE -ENOMEM

(* The first free run of n blocks.  When there is none the loop has left   *)
(* bs at the run that reaches the end of the table, if the last block is   *)
(* free, and that run's start is returned although it is too short; a      *)
(* request of zero blocks always ends this way, since bc is never zero     *)
(* when it is compared.                                                    *)
heap_get_start_block(t, n) ==
  LET fits == {b \in Blocks : n > 0 /\ FreeRun(t, b, n)}
  IN  IF fits # {}
      THEN CHOOSE b \in fits : \A c \in fits : b <= c
      ELSE IF IsFree(t, Total - 1)
           THEN CHOOSE b \in Blocks : RunStart(t, b) /\ FreeRun(t, b, Total - b)
           ELSE -ENOMEM

(* Mutant of ChainEntry: the last block of a chain has a successor. *)
ChainWithoutEnd(start, n, i) ==
  {"TAKEN", "HAS_NEXT"} \cup (IF i = start THEN {"IS_FIRST"} ELSE {})

(* The entry that block i of an allocation of n blocks from start gets:    *)
(* every block is TAKEN, the first IS_FIRST, all but the last HAS_NEXT.    *)
ChainEntry(start, n, i) ==
  {"TAKEN"} \cup (IF i = start THEN {"IS_FIRST"} ELSE {})
            \cup (IF i # start + n - 1 THEN {"HAS_NEXT"} ELSE {})

(* The table after the marking loop, which does not look at table->total:  *)
(* indices from Total on are bytes behind the table, see Spilled.          *)
heap_mark_blocks_taken(t, start, n) ==
  [i \in Blocks |-> IF start <= i /\ i < start + n
                    THEN ChainEntry(start, n, i) ELSE t[i]]

(* The indices behind the table that the marking loop writes as well. *)
Spilled(start, n) == {i \in Total .. (start + n - 1) : i >= start}

(* The blocks the freeing loop visits: it stops after the first entry      *)
(* without HAS_NEXT and at the end of the table.                           *)
FreedFrom(t, start) ==
  {i \in start .. (Total - 1) : \A j \in start .. (i - 1) : "HAS_NEXT" \in t[j]}

(* Mutant of heap_mark_blocks_free: the chain is not followed. *)
FreeFirstOnly(t, start) == [t EXCEPT ![start] = FREE]

(* Mutant of heap_mark_blocks_free: HAS_NEXT is tested one block too late. *)
FreeOneMore(t, start) ==
  [i \in Blocks |-> IF {i, i - 1} \cap FreedFrom(t, start) # {} THEN FREE ELSE t[i]]

heap_mark_blocks_free(t, start) ==
  [i \in Blocks |-> IF i \in FreedFrom(t, start) THEN FREE ELSE t[i]]

=============================================================================
