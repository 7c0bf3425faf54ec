----------------------------- MODULE HeapLoops -----------------------------
(***************************************************************************)
(* The loops of src/memory/heap/heap.c, one iteration per step: the search *)
(* of heap_get_start_block, the marking of heap_mark_blocks_taken that     *)
(* heap_malloc_blocks runs on its result, and the walk of                  *)
(* heap_mark_blocks_free.  Module Heap takes what they compute from        *)
(* HeapTable; here a call starts on any table and is shown to end with     *)
(* exactly that.                                                           *)
(***************************************************************************)
EXTENDS HeapTable

CONSTANT MaxBlocks   \* the largest total_blocks a call asks for

ASSUME MaxBlocksAssumption == MaxBlocks \in Nat

VARIABLES
  pc,       \* the loop that runs: "search", "mark" or "free", or "done"
  table,    \* heap->table->entries
  before,   \* the table when the call started
  call,     \* the call: heap_malloc_blocks (arg) or heap_mark_blocks_free (arg)
  i,        \* the loop counter
  bc,       \* consecutive free blocks counted by the search
  bs,       \* start of the free run the search is in, or -1
  entry,    \* the entry the marking loop writes next
  behind    \* indices behind the table that the marking loop wrote

loop_vars == <<pc, table, before, call, i, bc, bs, entry, behind>>

(* The values of an entry that heap.h:48 lists, and a single first block. *)
TableEntry ==
  { FREE, {"TAKEN"}, {"TAKEN", "HAS_NEXT"},
    {"TAKEN", "IS_FIRST"}, {"TAKEN", "IS_FIRST", "HAS_NEXT"} }

Calls == [op : {"malloc"}, arg : 0 .. MaxBlocks] \cup [op : {"free"}, arg : Blocks]

LoopInit ==
  /\ before \in [Blocks -> TableEntry]
  /\ table = before
  /\ call \in Calls
  /\ pc = IF call.op = "malloc" THEN "search" ELSE "free"
  /\ i = IF call.op = "malloc" THEN 0 ELSE call.arg
  /\ bc = 0
  /\ bs = -1
  /\ entry = FREE
  /\ behind = {}

-----------------------------------------------------------------------------

(* Mutant of SearchTaken: the count of free blocks is not reset. *)
SearchKeepsCount ==
  /\ pc = "search" /\ i < Total
  /\ ~IsFree(table, i)
  /\ bs' = -1
  /\ i' = i + 1
  /\ UNCHANGED <<pc, table, before, call, bc, entry, behind>>

(* Mutant of SearchTaken: the loop continues with the same index. *)
SearchStays ==
  /\ pc = "search" /\ i < Total
  /\ ~IsFree(table, i)
  /\ bc' = 0
  /\ bs' = -1
  /\ UNCHANGED <<pc, table, before, call, i, entry, behind>>

(* One iteration on a taken entry: the run is given up. *)
SearchTaken ==
  /\ pc = "search" /\ i < Total
  /\ ~IsFree(table, i)
  /\ bc' = 0
  /\ bs' = -1
  /\ i' = i + 1
  /\ UNCHANGED <<pc, table, before, call, entry, behind>>

(* heap_malloc_blocks after the search: heap_mark_blocks_taken begins, or  *)
(* the call returns a null pointer.                                        *)
SearchEnds(start) ==
  IF start = -1
  THEN pc' = "done" /\ UNCHANGED <<i, entry>>
  ELSE /\ pc' = "mark"
       /\ i' = start
       /\ entry' = {"TAKEN", "IS_FIRST"}
                     \cup (IF call.arg > 1 THEN {"HAS_NEXT"} ELSE {})

(* One iteration on a free entry; the loop breaks at the run it looks for. *)
SearchFree ==
  /\ pc = "search" /\ i < Total
  /\ IsFree(table, i)
  /\ bs' = IF bs = -1 THEN i ELSE bs
  /\ bc' = bc + 1
  /\ IF bc' = call.arg
     THEN SearchEnds(bs')
     ELSE i' = i + 1 /\ UNCHANGED <<pc, entry>>
  /\ UNCHANGED <<table, before, call, behind>>

(* The loop condition fails at the end of the table. *)
SearchExhausted ==
  /\ pc = "search" /\ i = Total
  /\ SearchEnds(bs)
  /\ UNCHANGED <<table, before, call, bc, bs, behind>>

(* One iteration of the marking loop: entries[i] = entry, and the entry of *)
(* the next block, which has a successor unless i is end_block - 1.        *)
Mark ==
  LET end_block == bs + call.arg - 1
  IN  /\ pc = "mark"
      /\ IF i <= end_block
         THEN /\ IF i \in Blocks
                 THEN table' = [table EXCEPT ![i] = entry] /\ UNCHANGED behind
                 ELSE behind' = behind \cup {i} /\ UNCHANGED table
              /\ entry' = {"TAKEN"} \cup (IF i # end_block - 1 THEN {"HAS_NEXT"} ELSE {})
              /\ i' = i + 1
              /\ UNCHANGED pc
         ELSE /\ pc' = "done"
              /\ UNCHANGED <<table, entry, behind, i>>
      /\ UNCHANGED <<before, call, bc, bs>>

(* Mutant of Free: the loop breaks before it clears the last entry. *)
FreeBreaksEarly ==
  /\ pc = "free"
  /\ IF i < Total /\ "HAS_NEXT" \in table[i]
     THEN /\ table' = [table EXCEPT ![i] = FREE]
          /\ i' = i + 1
          /\ UNCHANGED pc
     ELSE pc' = "done" /\ UNCHANGED <<table, i>>
  /\ UNCHANGED <<before, call, bc, bs, entry, behind>>

(* One iteration of the freeing loop. *)
Free ==
  /\ pc = "free"
  /\ IF i < Total
     THEN /\ table' = [table EXCEPT ![i] = FREE]
          /\ i' = i + 1
          /\ pc' = IF "HAS_NEXT" \in table[i] THEN "free" ELSE "done"
     ELSE pc' = "done" /\ UNCHANGED <<table, i>>
  /\ UNCHANGED <<before, call, bc, bs, entry, behind>>

LoopNext == SearchTaken \/ SearchFree \/ SearchExhausted \/ Mark \/ Free

(* A loop of the kernel runs with interrupts off until it ends. *)
LoopSpec == LoopInit /\ [][LoopNext]_loop_vars /\ WF_loop_vars(LoopNext)

-----------------------------------------------------------------------------
(* Properties *)

LoopTypeOK ==
  /\ pc \in {"search", "mark", "free", "done"}
  /\ table \in [Blocks -> Entry] /\ before \in [Blocks -> Entry]
  /\ call \in Calls
  /\ i \in Nat /\ bc \in Nat /\ bs \in Blocks \cup {-1}
  /\ entry \in Entry /\ behind \subseteq Nat

(* When heap_malloc_blocks returns, the search has found the block that    *)
(* heap_get_start_block is defined to return, and the table and the bytes  *)
(* behind it are what heap_mark_blocks_taken is defined to make of them.   *)
MallocComputes ==
  pc = "done" /\ call.op = "malloc" =>
    LET start == heap_get_start_block(before, call.arg)
    IN  /\ (start < 0) <=> (bs = -1)
        /\ start < 0 => table = before /\ behind = {}
        /\ start >= 0 => /\ bs = start
                         /\ table = heap_mark_blocks_taken(before, start, call.arg)
                         /\ behind = Spilled(start, call.arg)

(* When heap_mark_blocks_free returns, the table is what it is defined to  *)
(* be: the chain from its argument is free, everything else as before.     *)
FreeComputes ==
  pc = "done" /\ call.op = "free" =>
    /\ table = heap_mark_blocks_free(before, call.arg)
    /\ behind = {}

(* Every call ends, whatever the table holds. *)
LoopsEnd == <>(pc = "done")
=============================================================================
