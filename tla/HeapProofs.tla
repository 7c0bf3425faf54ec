----------------------------- MODULE HeapProofs -----------------------------
(***************************************************************************)
(* Proofs about the kernel heap for every heap size, block size, word size *)
(* and set of requests, when no caller frees an allocation of no blocks;   *)
(* and that the loops of the heap compute the operators of HeapTable, for  *)
(* every table, block count and argument.                                  *)
(***************************************************************************)
EXTENDS Heap, HeapLoops, WellFoundedInduction, TLAPS

(* The strengthening that the steps preserve together. *)
HeapInv == TypeOK /\ BlocksDisjoint /\ TableMatchesLive

-----------------------------------------------------------------------------
(* Arithmetic of blocks *)

(* kheap_init creates a table of at least one entry. *)
LEMMA TotalPositive == Total \in Nat /\ Total > 0
<1>1. BlockSize \in Nat \ {0} /\ HeapSize \in Nat /\ HeapSize >= BlockSize
  BY HeapAssumption
<1>2. \A s, b \in Nat : b > 0 /\ s >= b => s \div b \in Nat /\ s \div b > 0
  OBVIOUS
<1> QED BY <1>1, <1>2 DEF Total

(* A size of 32 bits asks for a natural number of blocks. *)
LEMMA TotalBlocksNat ==
  ASSUME NEW size \in 0 .. (WordMod - 1)
  PROVE  TotalBlocks(size) \in Nat
<1>1. BlockSize \in Nat \ {0} /\ WordMod \in Nat \ {0}
  BY HeapAssumption
<1>2. heap_align_value_to_upper(size) \in Nat
  BY <1>1 DEF heap_align_value_to_upper
<1>3. \A v, b \in Nat : b > 0 => v \div b \in Nat
  OBVIOUS
<1> QED BY <1>1, <1>2, <1>3 DEF TotalBlocks

(* heap_address_to_block undoes heap_block_to_address. *)
LEMMA AddressRoundTrip ==
  ASSUME NEW b \in Blocks
  PROVE  heap_address_to_block(heap_block_to_address(b)) = b
<1>1. BlockSize \in Nat \ {0} /\ HeapAddress \in Nat /\ b \in Nat
  BY HeapAssumption, TotalPositive DEF Blocks
<1>2. \A c, s \in Nat : s > 0 => c * s \in Nat /\ (c * s) \div s = c
  OBVIOUS
<1>3. (b * BlockSize) \in Nat /\ (b * BlockSize) \div BlockSize = b
  BY <1>1, <1>2
<1>4. HeapAddress + (b * BlockSize) - HeapAddress = b * BlockSize
  BY <1>1, <1>3
<1> QED BY <1>1, <1>3, <1>4 DEF heap_address_to_block, heap_block_to_address

-----------------------------------------------------------------------------
(* The operators on the table *)

(* A nonempty set of blocks has a first one. *)
LEMMA FirstOfBlocks ==
  ASSUME NEW S \in SUBSET Blocks, S # {}
  PROVE  \E b \in S : \A c \in S : b <= c
<1>1. S \subseteq Nat
  BY TotalPositive DEF Blocks
<1>2. PICK b \in S : \A c \in S : ~(<<c, b>> \in OpToRel(<, Nat))
  BY <1>1, WFMin, NatLessThanWellFounded
<1>3. \A c \in S : ~(c < b)
  BY <1>1, <1>2 DEF OpToRel
<1> QED BY <1>1, <1>3

(* What heap_get_start_block promises heap_malloc_blocks: it refuses, or   *)
(* every block in the heap of the run it returns is free.                  *)
LEMMA StartBlockFree ==
  ASSUME NEW t \in [Blocks -> Entry], NEW n \in Nat
  PROVE  LET s == heap_get_start_block(t, n)
         IN  \/ s = -ENOMEM
             \/ /\ s \in Blocks
                /\ \A k \in Blocks : s <= k /\ k < s + n => IsFree(t, k)
<1> DEFINE fits == {b \in Blocks : n > 0 /\ FreeRun(t, b, n)}
           tail == {b \in Blocks : \A k \in b .. (Total - 1) : IsFree(t, k)}
<1>0. Total \in Nat /\ Total > 0 /\ Blocks = 0 .. (Total - 1)
  BY TotalPositive DEF Blocks
<1>1. CASE fits # {}
  <2>1. \E b \in fits : \A c \in fits : b <= c
    BY <1>1, FirstOfBlocks
  <2>2. heap_get_start_block(t, n) \in fits
    BY <1>1, <2>1 DEF heap_get_start_block
  <2> QED BY <2>2, <1>0 DEF FreeRun
<1>2. CASE fits = {} /\ IsFree(t, Total - 1)
  <2>1. Total - 1 \in tail
    BY <1>0, <1>2
  <2>2. PICK b \in tail : \A c \in tail : b <= c
    BY <2>1, FirstOfBlocks
  <2>3. b = 0 \/ ~IsFree(t, b - 1)
    <3>1. SUFFICES ASSUME b # 0, IsFree(t, b - 1) PROVE FALSE
      OBVIOUS
    <3>2. b - 1 \in tail
      BY <1>0, <3>1
    <3> QED BY <1>0, <2>2, <3>2
  <2>4. RunStart(t, b) /\ FreeRun(t, b, Total - b)
    BY <1>0, <2>2, <2>3 DEF RunStart, FreeRun
  <2> DEFINE s == CHOOSE c \in Blocks : RunStart(t, c) /\ FreeRun(t, c, Total - c)
  <2>5. s \in Blocks /\ FreeRun(t, s, Total - s)
    BY <2>4
  <2>6. heap_get_start_block(t, n) = s
    BY <1>2 DEF heap_get_start_block
  <2> HIDE DEF s
  <2> QED BY <2>5, <2>6, <1>0 DEF FreeRun
<1>3. CASE fits = {} /\ ~IsFree(t, Total - 1)
  BY <1>3 DEF heap_get_start_block
<1> QED BY <1>1, <1>2, <1>3

(* The chain that heap_mark_blocks_free follows from the first block of an *)
(* allocation is the allocation, when the table holds the allocation.      *)
LEMMA ChainIsAllocation ==
  ASSUME NEW t \in [Blocks -> Entry], NEW a \in Allocation, a.len > 0,
         \A k \in BlocksOf(a) : t[k] = ChainEntry(a.start, a.len, k)
  PROVE  FreedFrom(t, a.start) = BlocksOf(a)
<1>0. Total \in Nat /\ Total > 0 /\ Blocks = 0 .. (Total - 1)
  BY TotalPositive DEF Blocks
<1>1. a.start \in Blocks /\ a.len \in Nat
  BY DEF Allocation
<1>2. \A k \in BlocksOf(a) : "HAS_NEXT" \in t[k] <=> k # a.start + a.len - 1
  BY DEF ChainEntry
<1>3. BlocksOf(a) \subseteq FreedFrom(t, a.start)
  BY <1>0, <1>1, <1>2 DEF FreedFrom, BlocksOf
<1>4. ASSUME NEW k \in FreedFrom(t, a.start)
      PROVE  k \in BlocksOf(a)
  <2>1. k \in Blocks /\ a.start <= k
    BY <1>0, <1>1 DEF FreedFrom
  <2>2. SUFFICES ASSUME k >= a.start + a.len PROVE FALSE
    BY <1>0, <1>1, <2>1 DEF BlocksOf
  <2> DEFINE last == a.start + a.len - 1
  <2>3. last \in BlocksOf(a) /\ last \in a.start .. (k - 1)
    BY <1>0, <1>1, <2>1, <2>2 DEF BlocksOf
  <2>4. "HAS_NEXT" \in t[last]
    BY <2>3 DEF FreedFrom
  <2> QED BY <1>2, <2>3, <2>4
<1> QED BY <1>3, <1>4

-----------------------------------------------------------------------------
(* The invariant *)

(* kheap_init leaves an empty table and no allocation. *)
LEMMA InitHeapInv == Init => HeapInv
<1>1. FREE \in Entry /\ heap_get_entry_type(FREE) = FREE
  BY DEF FREE, Entry, heap_get_entry_type
<1> QED BY <1>1 DEF Init, HeapInv, TypeOK, BlocksDisjoint, TableMatchesLive, IsFree

(* What kmalloc and kzalloc do in a state of the invariant: nothing, or    *)
(* they grant an allocation whose blocks in the heap were all free.        *)
Granted(new) ==
  /\ new \in Allocation
  /\ \A k \in BlocksOf(new) : IsFree(entries, k)
  /\ live' = live \cup {new}
  /\ entries' = [k \in Blocks |-> IF k \in BlocksOf(new)
                                  THEN ChainEntry(new.start, new.len, k)
                                  ELSE entries[k]]

(* The two outcomes of heap_malloc_blocks. *)
LEMMA MallocStep ==
  ASSUME TypeOK, NEW size \in Requests, NEW zero \in BOOLEAN, Malloc(size, zero)
  PROVE  \/ /\ UNCHANGED <<entries, spill, live>>
            /\ wiped' = {}
         \/ LET s == heap_get_start_block(entries, TotalBlocks(size))
            IN  /\ Granted([start |-> s, len |-> TotalBlocks(size), size |-> size])
                /\ spill' = spill \cup Spilled(s, TotalBlocks(size))
                /\ wiped' = IF zero THEN Memset(s, size) ELSE {}
<1> DEFINE n == TotalBlocks(size)
           s == heap_get_start_block(entries, n)
           new == [start |-> s, len |-> n, size |-> size]
<1>1. size \in 0 .. (WordMod - 1) /\ n \in Nat
  BY RequestAssumption, TotalBlocksNat
<1>2. \/ s = -ENOMEM
      \/ s \in Blocks /\ \A k \in Blocks : s <= k /\ k < s + n => IsFree(entries, k)
  BY <1>1, StartBlockFree DEF TypeOK
<1>3. \/ /\ s < 0
         /\ wiped' = {}
         /\ UNCHANGED <<entries, spill, live>>
      \/ /\ s >= 0
         /\ entries' = heap_mark_blocks_taken(entries, s, n)
         /\ spill' = spill \cup Spilled(s, n)
         /\ live' = live \cup {new}
         /\ wiped' = IF zero THEN Memset(s, size) ELSE {}
  BY Zenon DEF Malloc
<1>4. CASE s >= 0 /\ s \in Blocks
  <2> HIDE DEF n, s
  <2>1. /\ entries' = heap_mark_blocks_taken(entries, s, n)
        /\ spill' = spill \cup Spilled(s, n)
        /\ live' = live \cup {new}
        /\ wiped' = IF zero THEN Memset(s, size) ELSE {}
    BY <1>3, <1>4, TotalPositive DEF Blocks
  <2>2. \A k \in Blocks : k \in BlocksOf(new) <=> s <= k /\ k < s + n
    BY DEF BlocksOf
  <2>3. BlocksOf(new) \subseteq Blocks
    BY DEF BlocksOf
  <2>4. new \in Allocation
    BY <1>1, <1>4 DEF Allocation
  <2>5. \A k \in BlocksOf(new) : IsFree(entries, k)
    BY <1>2, <1>4, <2>2, <2>3, TotalPositive DEF Blocks, ENOMEM
  <2>6. entries' = [k \in Blocks |-> IF k \in BlocksOf(new)
                                    THEN ChainEntry(new.start, new.len, k)
                                    ELSE entries[k]]
    BY <2>1, <2>2 DEF heap_mark_blocks_taken
  <2>7. Granted(new)
    BY <2>1, <2>4, <2>5, <2>6 DEF Granted
  <2> QED BY <2>1, <2>7 DEF n, s
<1>5. CASE s < 0
  <2> HIDE DEF s
  <2> QED BY <1>2, <1>3, <1>5, TotalPositive DEF Blocks, ENOMEM
<1>6. s < 0 \/ (s >= 0 /\ s \in Blocks)
  <2> HIDE DEF s
  <2> QED BY <1>2, TotalPositive DEF Blocks, ENOMEM
<1> QED BY <1>4, <1>5, <1>6

(* No allocation that is held has a free block. *)
LEMMA HeldNotFree ==
  ASSUME TableMatchesLive, NEW a \in live, NEW k \in BlocksOf(a)
  PROVE  ~IsFree(entries, k)
<1>1. k \in Blocks
  BY DEF BlocksOf
<1>2. entries[k] = ChainEntry(a.start, a.len, k)
  BY <1>1 DEF TableMatchesLive
<1> QED BY <1>2 DEF ChainEntry, IsFree, heap_get_entry_type, FREE

(* A granted allocation keeps the table the record of the allocations: the *)
(* blocks that are marked were free, so no allocation held them.           *)
LEMMA GrantedKeepsRecord ==
  ASSUME HeapInv, NEW new, Granted(new)
  PROVE  /\ entries' \in [Blocks -> Entry] /\ live' \subseteq Allocation
         /\ BlocksDisjoint' /\ TableMatchesLive'
         /\ \A a \in live : BlocksOf(a) \cap BlocksOf(new) = {}
<1>1. TypeOK /\ BlocksDisjoint /\ TableMatchesLive
  BY DEF HeapInv
<1>2. \A k \in Blocks : ChainEntry(new.start, new.len, k) \in Entry
  BY DEF ChainEntry, Entry, Flags
<1>3. entries' \in [Blocks -> Entry] /\ live' \subseteq Allocation
  BY <1>1, <1>2 DEF Granted, TypeOK
<1>4. \A a \in live : BlocksOf(a) \cap BlocksOf(new) = {}
  BY <1>1, HeldNotFree DEF Granted
<1>5. BlocksDisjoint'
  <2> SUFFICES ASSUME NEW a \in live', NEW b \in live', a # b
               PROVE  BlocksOf(a) \cap BlocksOf(b) = {}
    BY DEF BlocksDisjoint
  <2> QED BY <1>1, <1>4 DEF BlocksDisjoint, Granted
<1>6. TableMatchesLive'
  <2> SUFFICES ASSUME NEW k \in Blocks
               PROVE  /\ entries'[k] # FREE => \E a \in live' : k \in BlocksOf(a)
                      /\ \A a \in live' : k \in BlocksOf(a) =>
                             entries'[k] = ChainEntry(a.start, a.len, k)
    BY DEF TableMatchesLive, IsFree
  <2>1. CASE k \in BlocksOf(new)
    <3>1. entries'[k] = ChainEntry(new.start, new.len, k)
      BY <2>1 DEF Granted
    <3>2. \A a \in live' : k \in BlocksOf(a) => a = new
      BY <1>4, <2>1 DEF Granted
    <3> QED BY <2>1, <3>1, <3>2 DEF Granted
  <2>2. CASE k \notin BlocksOf(new)
    <3>1. entries'[k] = entries[k]
      BY <2>2 DEF Granted
    <3> QED BY <1>1, <2>2, <3>1 DEF TableMatchesLive, IsFree, Granted
  <2> QED BY <2>1, <2>2
<1> QED BY <1>3, <1>4, <1>5, <1>6

(* kmalloc and kzalloc preserve the invariant. *)
LEMMA MallocHeapInv ==
  ASSUME HeapInv, NEW size \in Requests, NEW zero \in BOOLEAN, Malloc(size, zero)
  PROVE  HeapInv'
<1> DEFINE n == TotalBlocks(size)
           s == heap_get_start_block(entries, n)
           new == [start |-> s, len |-> n, size |-> size]
<1>1. TypeOK
  BY DEF HeapInv
<1>2. CASE UNCHANGED <<entries, spill, live>> /\ wiped' = {}
  BY <1>2 DEF HeapInv, TypeOK, BlocksDisjoint, TableMatchesLive, IsFree
<1>3. CASE /\ Granted(new)
           /\ spill' = spill \cup Spilled(s, n)
           /\ wiped' = IF zero THEN Memset(s, size) ELSE {}
  <2> HIDE DEF n, s
  <2>1. s \in Nat /\ n \in Nat /\ Total \in Nat
    BY <1>3, TotalPositive DEF Granted, Allocation, Blocks
  <2>2. Spilled(s, n) \subseteq Nat /\ Memset(s, size) \subseteq Nat
    BY <2>1 DEF Spilled, Memset
  <2>3. spill' \subseteq Nat /\ wiped' \subseteq Nat
    BY <1>1, <1>3, <2>2 DEF TypeOK
  <2> QED BY <1>3, <2>3, GrantedKeepsRecord DEF HeapInv, TypeOK
<1> QED BY <1>1, <1>2, <1>3, MallocStep

(* kfree of a nonempty allocation frees that allocation's blocks only. *)
LEMMA FreeHeapInv ==
  ASSUME HeapInv, ~FreesEmpty, NEW a \in live, kfree(a)
  PROVE  /\ HeapInv'
         /\ a.len > 0
         /\ \A k \in Blocks : entries'[k] = IF k \in BlocksOf(a) THEN FREE ELSE entries[k]
<1>1. TypeOK /\ BlocksDisjoint /\ TableMatchesLive
  BY DEF HeapInv
<1>2. a \in Allocation /\ a.start \in Blocks /\ a.len > 0
  BY <1>1 DEF TypeOK, Allocation, kfree
<1>3. /\ entries' = heap_mark_blocks_free(entries, a.start)
      /\ live' = live \ {a} /\ wiped' = {} /\ spill' = spill
  BY <1>2, AddressRoundTrip DEF kfree
<1>4. FreedFrom(entries, a.start) = BlocksOf(a)
  <2>1. \A k \in BlocksOf(a) : entries[k] = ChainEntry(a.start, a.len, k)
    BY <1>1 DEF TableMatchesLive, BlocksOf
  <2> QED BY <1>1, <1>2, <2>1, ChainIsAllocation DEF TypeOK
<1>5. entries' = [k \in Blocks |-> IF k \in BlocksOf(a) THEN FREE ELSE entries[k]]
  BY <1>3, <1>4 DEF heap_mark_blocks_free
<1>6. TypeOK'
  <2>1. FREE \in Entry
    BY DEF FREE, Entry
  <2>2. entries' \in [Blocks -> Entry]
    BY <1>1, <1>5, <2>1 DEF TypeOK
  <2> QED BY <1>1, <1>3, <2>2 DEF TypeOK
<1>7. BlocksDisjoint'
  BY <1>1, <1>3 DEF BlocksDisjoint
<1>8. TableMatchesLive'
  <2> SUFFICES ASSUME NEW k \in Blocks
               PROVE  /\ entries'[k] # FREE => \E b \in live' : k \in BlocksOf(b)
                      /\ \A b \in live' : k \in BlocksOf(b) =>
                             entries'[k] = ChainEntry(b.start, b.len, k)
    BY DEF TableMatchesLive, IsFree
  <2>1. CASE k \in BlocksOf(a)
    <3>1. entries'[k] = FREE
      BY <1>5, <2>1
    <3>2. \A b \in live' : k \notin BlocksOf(b)
      BY <1>1, <1>3, <2>1 DEF BlocksDisjoint
    <3> QED BY <3>1, <3>2
  <2>2. CASE k \notin BlocksOf(a)
    <3>1. entries'[k] = entries[k]
      BY <1>5, <2>2
    <3> QED BY <1>1, <1>3, <2>2, <3>1 DEF TableMatchesLive, IsFree
  <2> QED BY <2>1, <2>2
<1> QED BY <1>2, <1>5, <1>6, <1>7, <1>8 DEF HeapInv

(* Every step of the heap preserves the invariant. *)
LEMMA NextHeapInv ==
  ASSUME ~FreesEmpty, HeapInv, [Next]_vars
  PROVE  HeapInv'
<1>1. ASSUME NEW size \in Requests, kmalloc(size) PROVE HeapInv'
  BY <1>1, MallocHeapInv DEF kmalloc
<1>2. ASSUME NEW size \in Requests, kzalloc(size) PROVE HeapInv'
  BY <1>2, MallocHeapInv DEF kzalloc
<1>3. ASSUME NEW a \in live, kfree(a) PROVE HeapInv'
  BY <1>3, FreeHeapInv
<1>4. CASE UNCHANGED vars
  BY <1>4 DEF vars, HeapInv, TypeOK, BlocksDisjoint, TableMatchesLive, IsFree
<1> QED BY <1>1, <1>2, <1>3, <1>4 DEF Next

(* The invariant holds in every reachable state of the heap, for every     *)
(* size of the heap and every set of requests: the bookkeeping of kmalloc, *)
(* kzalloc and kfree is right even for the requests that wrap to no blocks *)
(* and for the runs that do not fit before the end of the table.           *)
THEOREM HeapInvariant == ASSUME ~FreesEmpty PROVE Spec => []HeapInv
<1>1. Init => HeapInv
  BY InitHeapInv
<1>2. HeapInv /\ [Next]_vars => HeapInv'
  BY NextHeapInv
<1> QED BY <1>1, <1>2, PTL DEF Spec

(* The table and the allocations keep their types. *)
THEOREM TypeCorrect == ASSUME ~FreesEmpty PROVE Spec => []TypeOK
<1>1. HeapInv => TypeOK
  BY DEF HeapInv
<1> QED BY <1>1, HeapInvariant, PTL

(* No two allocations share a block. *)
THEOREM Disjointness == ASSUME ~FreesEmpty PROVE Spec => []BlocksDisjoint
<1>1. HeapInv => BlocksDisjoint
  BY DEF HeapInv
<1> QED BY <1>1, HeapInvariant, PTL

(* The table is the record of the allocations. *)
THEOREM TableIsRecord == ASSUME ~FreesEmpty PROVE Spec => []TableMatchesLive
<1>1. HeapInv => TableMatchesLive
  BY DEF HeapInv
<1> QED BY <1>1, HeapInvariant, PTL

-----------------------------------------------------------------------------
(* Steps *)

(* No call touches the entries of an allocation that is held across it. *)
THEOREM HeldStaysUntouched == ASSUME ~FreesEmpty PROVE Spec => HeldUntouched
<1> DEFINE A == \A a \in live \cap live' : \A k \in BlocksOf(a) : entries'[k] = entries[k]
<1>1. ASSUME HeapInv, NEW size \in Requests, NEW zero \in BOOLEAN, Malloc(size, zero)
      PROVE  A
  <2>1. ASSUME NEW new, Granted(new) PROVE A
    <3>1. \A a \in live : BlocksOf(a) \cap BlocksOf(new) = {}
      BY <1>1, <2>1, GrantedKeepsRecord
    <3> QED BY <2>1, <3>1 DEF Granted, BlocksOf
  <2> QED BY <1>1, <2>1, MallocStep DEF HeapInv
<1>2. ASSUME HeapInv, NEW a \in live, kfree(a) PROVE A
  <2>1. \A k \in Blocks : entries'[k] = IF k \in BlocksOf(a) THEN FREE ELSE entries[k]
    BY <1>2, FreeHeapInv
  <2>2. live' = live \ {a}
    BY <1>2 DEF kfree
  <2>3. \A b \in live : \A k \in BlocksOf(b) : k \in Blocks
    BY DEF BlocksOf
  <2> QED BY <1>2, <2>1, <2>2, <2>3 DEF HeapInv, BlocksDisjoint
<1>3. HeapInv /\ [Next]_vars => [A]_vars
  BY <1>1, <1>2 DEF Next, kmalloc, kzalloc
<1> QED BY <1>3, HeapInvariant, PTL DEF Spec, HeldUntouched

(* The blocks of the allocations that callers hold. *)
HeldByCallers == {BlocksOf(a) : a \in {b \in live : b.len > 0}}

(* The chains of the table are exactly the allocations that callers hold. *)
HeldIsRecord == Held = HeldByCallers

(* The invariant makes it so. *)
LEMMA ChainsAreAllocations == HeapInv => HeldIsRecord
<1> SUFFICES ASSUME HeapInv PROVE Held = HeldByCallers
  BY DEF HeldIsRecord
<1>0. Total \in Nat /\ Total > 0 /\ Blocks = 0 .. (Total - 1)
  BY TotalPositive DEF Blocks
<1>1. entries \in [Blocks -> Entry] /\ live \subseteq Allocation
  BY DEF HeapInv, TypeOK
<1>2. ASSUME NEW a \in live, a.len > 0
      PROVE  /\ a.start \in Blocks /\ "IS_FIRST" \in entries[a.start]
             /\ FreedFrom(entries, a.start) = BlocksOf(a)
  <2>1. a \in Allocation /\ a.start \in Blocks /\ a.len \in Nat
    BY <1>1 DEF Allocation
  <2>2. a.start \in BlocksOf(a)
    BY <1>0, <1>2, <2>1 DEF BlocksOf
  <2>3. \A k \in BlocksOf(a) : entries[k] = ChainEntry(a.start, a.len, k)
    BY DEF HeapInv, TableMatchesLive, BlocksOf
  <2>4. "IS_FIRST" \in entries[a.start]
    BY <2>2, <2>3 DEF ChainEntry
  <2> QED BY <1>1, <1>2, <2>1, <2>3, <2>4, ChainIsAllocation
<1>3. ASSUME NEW k \in Blocks, "IS_FIRST" \in entries[k]
      PROVE  \E a \in live : a.len > 0 /\ a.start = k
  <2>1. entries[k] # FREE
    BY <1>3 DEF FREE
  <2>2. PICK a \in live : k \in BlocksOf(a)
    BY <2>1 DEF HeapInv, TableMatchesLive
  <2>3. entries[k] = ChainEntry(a.start, a.len, k)
    BY <2>2 DEF HeapInv, TableMatchesLive
  <2>4. a.start = k
    BY <1>3, <2>3 DEF ChainEntry
  <2>5. a.len > 0
    BY <1>0, <1>1, <2>2 DEF BlocksOf, Allocation
  <2> QED BY <2>4, <2>5
<1> QED BY <1>2, <1>3 DEF Held, HeldByCallers

(* The heap implements its abstract specification: a granted request takes *)
(* a run of blocks nobody holds, a kfree returns one, and a request of no  *)
(* blocks or one that is refused changes nothing that callers see.         *)
THEOREM HeapImplementsAbstract == ASSUME ~FreesEmpty PROVE Spec => ImplementsAbstract
<1>1. Init => Abstract!Init
  BY DEF Init, Abstract!Init, Held, FREE
<1>2. ASSUME HeapInv, HeldIsRecord, HeldIsRecord', NEW new, Granted(new)
      PROVE  Abstract!Next \/ Held' = Held
  <2>0. Total \in Nat /\ Blocks = 0 .. (Total - 1) /\ BlocksOf(new) \subseteq Blocks
    BY TotalPositive DEF Blocks, BlocksOf
  <2>1. new.start \in Blocks /\ new.len \in Nat /\ live' = live \cup {new}
    BY <1>2 DEF Granted, Allocation
  <2>2. Held = HeldByCallers /\ Held' = HeldByCallers'
    BY <1>2 DEF HeldIsRecord
  <2>3. CASE new.len = 0
    BY <2>1, <2>2, <2>3 DEF HeldByCallers
  <2>4. CASE new.len > 0
    <3>1. new.start \in BlocksOf(new)
      BY <2>0, <2>1, <2>4 DEF BlocksOf
    <3>2. Abstract!IsRun(BlocksOf(new))
      BY <2>0, <2>1 DEF Abstract!IsRun, BlocksOf
    <3>3. BlocksOf(new) \cap UNION Held = {}
      BY <1>2, <2>2, GrantedKeepsRecord DEF HeldByCallers
    <3>4. Held' = Held \cup {BlocksOf(new)}
      BY <2>1, <2>2, <2>4 DEF HeldByCallers
    <3> QED BY <2>0, <3>1, <3>2, <3>3, <3>4 DEF Abstract!Next, Abstract!Allocate
  <2> QED BY <2>1, <2>3, <2>4
<1>3. ASSUME HeapInv, HeldIsRecord, HeldIsRecord', NEW size \in Requests,
             NEW zero \in BOOLEAN, Malloc(size, zero)
      PROVE  Abstract!Next \/ Held' = Held
  <2>1. CASE entries' = entries
    BY <2>1 DEF Held
  <2> QED BY <1>2, <1>3, <2>1, MallocStep DEF HeapInv
<1>4. ASSUME HeapInv, HeldIsRecord, HeldIsRecord', NEW a \in live, kfree(a)
      PROVE  Abstract!Next
  <2>1. a.len > 0 /\ live' = live \ {a}
    BY <1>4, FreeHeapInv DEF kfree
  <2>2. a.start \in BlocksOf(a)
    BY <1>4, <2>1, TotalPositive DEF HeapInv, TypeOK, Allocation, BlocksOf, Blocks
  <2>3. \A b \in live : b # a => BlocksOf(b) # BlocksOf(a)
    BY <1>4, <2>2 DEF HeapInv, BlocksDisjoint
  <2>4. Held = HeldByCallers /\ Held' = HeldByCallers'
    BY <1>4 DEF HeldIsRecord
  <2>5. BlocksOf(a) \in Held /\ Held' = Held \ {BlocksOf(a)}
    BY <2>1, <2>3, <2>4 DEF HeldByCallers
  <2> QED BY <2>5 DEF Abstract!Next, Abstract!Release
<1>5. HeapInv /\ HeldIsRecord /\ HeldIsRecord' /\ [Next]_vars => [Abstract!Next]_Held
  <2>1. UNCHANGED vars => Held' = Held
    BY DEF vars, Held
  <2> QED BY <1>3, <1>4, <2>1 DEF Next, kmalloc, kzalloc
<1> QED BY <1>1, <1>5, ChainsAreAllocations, HeapInvariant, PTL DEF Spec, ImplementsAbstract, Abstract!Spec

-----------------------------------------------------------------------------
(* Requests that do not wrap *)

(* No request lies in the last block of the 32-bit address space. *)
NoRequestWraps == \A size \in Requests : size + BlockSize <= WordMod

(* Such a request gets blocks for all its bytes. *)
LEMMA EnoughBlocks ==
  ASSUME NEW size \in Nat, size + BlockSize <= WordMod
  PROVE  /\ TotalBlocks(size) * BlockSize >= size
         /\ size > 0 => (size - 1) \div BlockSize < TotalBlocks(size)
<1> DEFINE B == BlockSize
           r == size % BlockSize
           q == size \div BlockSize
           n == TotalBlocks(size)
           p == (size - 1) \div BlockSize
<1>1. B \in Nat /\ B > 0 /\ WordMod \in Nat
  BY HeapAssumption
<1>2. \A x, b \in Nat : b > 0 =>
        /\ x \div b \in Nat /\ x % b \in 0 .. (b - 1)
        /\ x = b * (x \div b) + (x % b)
  OBVIOUS
<1>3. q \in Nat /\ r \in 0 .. (B - 1) /\ size = B * q + r
  BY <1>1, <1>2
<1>4. n \in Nat /\ n * B >= size
  <2>1. CASE r = 0
    <3>1. n = q
      BY <2>1 DEF TotalBlocks, heap_align_value_to_upper
    <3> QED BY <1>1, <1>3, <2>1, <3>1
  <2>2. CASE r > 0
    <3>1. (size - r) + B = (q + 1) * B /\ (q + 1) * B \in Nat
      BY <1>1, <1>3
    <3>2. (q + 1) * B < WordMod
      BY <1>1, <1>3, <2>2, <3>1
    <3>3. \A x, w \in Nat : x < w => x % w = x
      OBVIOUS
    <3>4. heap_align_value_to_upper(size) = (q + 1) * B
      BY <1>1, <2>2, <3>1, <3>2, <3>3 DEF heap_align_value_to_upper
    <3>5. \A c, b \in Nat : b > 0 => (c * b) \div b = c
      OBVIOUS
    <3>6. n = q + 1
      BY <1>1, <1>3, <3>4, <3>5 DEF TotalBlocks
    <3> QED BY <1>1, <1>3, <3>1, <3>6
  <2> QED BY <1>3, <2>1, <2>2
<1>5. ASSUME size > 0 PROVE p < n
  <2>1. size - 1 \in Nat /\ p \in Nat
    BY <1>1, <1>2, <1>5
  <2>2. B * p <= size - 1
    BY <1>1, <1>2, <1>5
  <2>3. B * p < B * n
    BY <1>1, <1>4, <2>1, <2>2
  <2>4. \A x, y, b \in Nat : b > 0 /\ b * x < b * y => x < y
    OBVIOUS
  <2> HIDE DEF p, n, B
  <2> QED BY <1>1, <1>4, <2>1, <2>3, <2>4
<1> QED BY <1>4, <1>5

(* The memset of kzalloc stays in the allocation it was called for, so it  *)
(* spares every allocation made before.                                    *)
THEOREM ZeroingIsSafe ==
  ASSUME ~FreesEmpty, NoRequestWraps PROVE Spec => ZeroingSparesOthers
<1> DEFINE A == \A a \in live : BlocksOf(a) \cap wiped' = {}
<1>1. ASSUME HeapInv, NEW size \in Requests, NEW zero \in BOOLEAN, Malloc(size, zero)
      PROVE  A
  <2> DEFINE n == TotalBlocks(size)
             s == heap_get_start_block(entries, n)
             new == [start |-> s, len |-> n, size |-> size]
  <2>1. CASE wiped' = {}
    BY <2>1
  <2>2. CASE Granted(new) /\ wiped' = Memset(s, size)
    <3>1. size \in Nat /\ size + BlockSize <= WordMod
      BY RequestAssumption, HeapAssumption DEF NoRequestWraps
    <3>2. size > 0 => (size - 1) \div BlockSize < n
      BY <3>1, EnoughBlocks
    <3>3. size > 0 => (size - 1) \div BlockSize \in Nat
      <4>1. \A x, b \in Nat : b > 0 => x \div b \in Nat
        OBVIOUS
      <4> QED BY <3>1, <4>1, HeapAssumption
    <3> HIDE DEF n, s
    <3>4. s \in Nat /\ n \in Nat /\ Total \in Nat
      BY <2>2, TotalPositive DEF Granted, Allocation, Blocks
    <3> DEFINE p == (size - 1) \div BlockSize
    <3>5. size > 0 => s .. (s + p) \cap Blocks \subseteq BlocksOf(new)
      <4> HIDE DEF p
      <4> QED BY <3>2, <3>3, <3>4 DEF BlocksOf, Blocks, p
    <3>6. Memset(s, size) \cap Blocks \subseteq BlocksOf(new)
      BY <3>1, <3>5 DEF Memset
    <3>7. \A a \in live : BlocksOf(a) \cap BlocksOf(new) = {} /\ BlocksOf(a) \subseteq Blocks
      BY <1>1, <2>2, GrantedKeepsRecord DEF BlocksOf
    <3> QED BY <2>2, <3>6, <3>7
  <2> QED BY <1>1, <2>1, <2>2, MallocStep DEF HeapInv
<1>2. ASSUME NEW a \in live, kfree(a) PROVE A
  BY <1>2 DEF kfree
<1>3. HeapInv /\ [Next]_vars => [A]_vars
  BY <1>1, <1>2 DEF Next, kmalloc, kzalloc
<1> QED BY <1>3, HeapInvariant, PTL DEF Spec, ZeroingSparesOthers

-----------------------------------------------------------------------------
(* The loop invariants *)

(* The search in front of index i: bs and bc describe the free run that    *)
(* ends there, and no run that is long enough ended before.                *)
SearchInv ==
  pc = "search" =>
    /\ call.op = "malloc" /\ i <= Total /\ table = before /\ behind = {}
    /\ bs = -1 => bc = 0 /\ (i = 0 \/ ~IsFree(before, i - 1))
    /\ bs # -1 => /\ bs < i /\ bc = i - bs
                  /\ \A j \in bs .. (i - 1) : IsFree(before, j)
                  /\ bs = 0 \/ ~IsFree(before, bs - 1)
    /\ \A b \in Blocks : call.arg > 0 /\ b + call.arg <= i => ~FreeRun(before, b, call.arg)

(* The marking loop in front of index i: the chain is written up to i and  *)
(* entry holds its next link.                                              *)
MarkInv ==
  pc = "mark" =>
    /\ call.op = "malloc"
    /\ bs \in Blocks /\ bs = heap_get_start_block(before, call.arg)
    /\ bs <= i /\ i <= bs + call.arg
    /\ table = [j \in Blocks |-> IF bs <= j /\ j < i
                                 THEN ChainEntry(bs, call.arg, j) ELSE before[j]]
    /\ behind = {j \in Total .. (i - 1) : j >= bs}
    /\ i < bs + call.arg => entry = ChainEntry(bs, call.arg, i)

(* The freeing loop in front of index i: it has cleared everything from    *)
(* its argument, and every cleared entry had a successor.                  *)
FreeInv ==
  pc = "free" =>
    /\ call.op = "free" /\ behind = {}
    /\ call.arg <= i /\ i <= Total
    /\ table = [j \in Blocks |-> IF call.arg <= j /\ j < i THEN FREE ELSE before[j]]
    /\ \A j \in call.arg .. (i - 1) : "HAS_NEXT" \in before[j]

LoopInv == LoopTypeOK /\ SearchInv /\ MarkInv /\ FreeInv /\ MallocComputes /\ FreeComputes

-----------------------------------------------------------------------------

(* The number of entries, as kheap_init computes it. *)
LEMMA TableSize == Total \in Nat /\ Total > 0 /\ Blocks = 0 .. (Total - 1)
<1>1. BlockSize \in Nat \ {0} /\ HeapSize \in Nat /\ HeapSize >= BlockSize
  BY HeapAssumption
<1>2. \A s, b \in Nat : b > 0 /\ s >= b => s \div b \in Nat /\ s \div b > 0
  OBVIOUS
<1> QED BY <1>1, <1>2 DEF Total, Blocks

(* A run of n free blocks is the answer of heap_get_start_block when no    *)
(* run of n free blocks starts before it.                                  *)
LEMMA FirstFitIsStart ==
  ASSUME NEW t, NEW n \in Nat, n > 0, NEW b \in Blocks, FreeRun(t, b, n),
         \A c \in Blocks : c < b => ~FreeRun(t, c, n)
  PROVE  heap_get_start_block(t, n) = b
<1> DEFINE fits == {c \in Blocks : n > 0 /\ FreeRun(t, c, n)}
<1>1. b \in fits /\ \A c \in fits : b <= c
  BY TableSize
<1>2. \A d \in fits : (\A c \in fits : d <= c) => d = b
  BY <1>1, TableSize
<1>3. (CHOOSE d \in fits : \A c \in fits : d <= c) = b
  <2> HIDE DEF fits
  <2> QED BY <1>1, <1>2
<1>4. fits # {}
  BY <1>1
<1> QED BY <1>3, <1>4 DEF heap_get_start_block

(* When no run fits, the answer is the run at the end of the table. *)
LEMMA TailIsStart ==
  ASSUME NEW t, NEW n \in Nat,
         \A c \in Blocks : n > 0 => ~FreeRun(t, c, n),
         NEW b \in Blocks, RunStart(t, b), FreeRun(t, b, Total - b)
  PROVE  heap_get_start_block(t, n) = b
<1>1. IsFree(t, Total - 1)
  BY TableSize DEF FreeRun
<1>2. ASSUME NEW c \in Blocks, RunStart(t, c), FreeRun(t, c, Total - c)
      PROVE  c = b
  <2>1. CASE c < b
    <3>1. IsFree(t, b - 1)
      BY <1>2, <2>1, TableSize DEF FreeRun
    <3> QED BY <2>1, <3>1, TableSize DEF RunStart
  <2>2. CASE b < c
    <3>1. IsFree(t, c - 1)
      BY <1>2, <2>2, TableSize DEF FreeRun
    <3> QED BY <1>2, <2>2, <3>1, TableSize DEF RunStart
  <2> QED BY <2>1, <2>2, TableSize
<1>3. (CHOOSE c \in Blocks : RunStart(t, c) /\ FreeRun(t, c, Total - c)) = b
  BY <1>2
<1>4. {c \in Blocks : n > 0 /\ FreeRun(t, c, n)} = {}
  OBVIOUS
<1> QED BY <1>1, <1>3, <1>4 DEF heap_get_start_block

(* When no run fits and the last block is taken, there is no answer. *)
LEMMA NoStart ==
  ASSUME NEW t, NEW n \in Nat,
         \A c \in Blocks : n > 0 => ~FreeRun(t, c, n), ~IsFree(t, Total - 1)
  PROVE  heap_get_start_block(t, n) = -ENOMEM
<1>1. {c \in Blocks : n > 0 /\ FreeRun(t, c, n)} = {}
  OBVIOUS
<1> QED BY <1>1 DEF heap_get_start_block

-----------------------------------------------------------------------------
(* One lemma per step *)

(* A call starts in its loop's invariant. *)
LEMMA InitLoopInv == LoopInit => LoopInv
<1> SUFFICES ASSUME LoopInit PROVE LoopInv
  OBVIOUS
<1>1. TableEntry \subseteq Entry /\ FREE \in Entry
  BY DEF TableEntry, Entry, Flags, FREE
<1>2. call.op = "malloc" => call.arg \in Nat
  BY MaxBlocksAssumption DEF LoopInit, Calls
<1>3. call.op \in {"malloc", "free"} /\ (call.op = "free" => call.arg \in Blocks)
  BY DEF LoopInit, Calls
<1>4. LoopTypeOK
  BY <1>1, <1>3, TableSize DEF LoopInit, LoopTypeOK
<1>5. SearchInv
  BY <1>2, <1>3, TableSize DEF LoopInit, SearchInv
<1>6. FreeInv
  <2>1. pc = "free" => table = [j \in Blocks |-> IF call.arg <= j /\ j < i THEN FREE ELSE before[j]]
    BY <1>3, TableSize DEF LoopInit
  <2> QED BY <1>3, <2>1, TableSize DEF LoopInit, FreeInv
<1>7. MarkInv /\ MallocComputes /\ FreeComputes
  BY <1>3 DEF LoopInit, MarkInv, MallocComputes, FreeComputes
<1> QED BY <1>4, <1>5, <1>6, <1>7 DEF LoopInv

(* What the type invariant says of the call. *)
LEMMA CallType ==
  ASSUME LoopTypeOK
  PROVE  /\ call.op \in {"malloc", "free"}
         /\ call.op = "malloc" => call.arg \in Nat
         /\ call.op = "free" => call.arg \in Blocks
BY MaxBlocksAssumption DEF LoopTypeOK, Calls

(* A taken entry ends the run: no long run ends at it. *)
LEMMA SearchTakenInv ==
  ASSUME LoopInv, SearchTaken
  PROVE  LoopInv'
<1>1. LoopTypeOK /\ SearchInv /\ pc = "search" /\ i \in Nat /\ i < Total /\ i \in Blocks
  BY TableSize DEF LoopInv, LoopTypeOK, SearchTaken
<1>2. call.op = "malloc" /\ call.arg \in Nat /\ table = before
  BY <1>1, CallType DEF SearchInv
<1>3. LoopTypeOK'
  BY <1>1 DEF SearchTaken, LoopTypeOK
<1>4. SearchInv'
  <2>1. ~IsFree(before, i)
    BY <1>2 DEF SearchTaken
  <2>2. \A b \in Blocks : call.arg > 0 /\ b + call.arg = i + 1 => ~FreeRun(before, b, call.arg)
    BY <1>1, <1>2, <2>1, TableSize DEF FreeRun
  <2>3. \A b \in Blocks : call.arg > 0 /\ b + call.arg <= i + 1 => ~FreeRun(before, b, call.arg)
    BY <1>1, <1>2, <2>2, TableSize DEF SearchInv
  <2>4. /\ pc' = pc /\ table' = table /\ before' = before /\ call' = call /\ behind' = behind
        /\ bc' = 0 /\ bs' = -1 /\ i' = i + 1
    BY DEF SearchTaken
  <2> QED BY <1>1, <1>2, <2>1, <2>3, <2>4, TableSize DEF SearchInv, IsFree, FreeRun
<1>5. MarkInv' /\ FreeInv' /\ MallocComputes' /\ FreeComputes'
  BY <1>1 DEF SearchTaken, MarkInv, FreeInv, MallocComputes, FreeComputes
<1> QED BY <1>3, <1>4, <1>5 DEF LoopInv

(* heap_mark_blocks_taken starts in its invariant, with the first link. *)
LEMMA MarkStarts ==
  ASSUME LoopTypeOK, call.op = "malloc", table = before, behind = {},
         bs' \in Blocks, bs' = heap_get_start_block(before, call.arg),
         bc' \in Nat, SearchEnds(bs'), UNCHANGED <<table, before, call, behind>>
  PROVE  LoopInv'
<1>1. /\ pc' = "mark" /\ i' = bs'
      /\ entry' = {"TAKEN", "IS_FIRST"} \cup (IF call.arg > 1 THEN {"HAS_NEXT"} ELSE {})
  BY TableSize DEF SearchEnds
<1>2. call.arg \in Nat
  BY CallType
<1>3. bs' \in Nat
  BY TableSize
<1>4. entry' \in Entry
  BY <1>1 DEF Entry, Flags
<1>5. LoopTypeOK'
  BY <1>1, <1>3, <1>4 DEF LoopTypeOK
<1>6. 0 < call.arg => entry' = ChainEntry(bs', call.arg, bs')
  BY <1>1, <1>2, <1>3 DEF ChainEntry
<1>7. table' = [j \in Blocks |-> IF bs' <= j /\ j < bs'
                                 THEN ChainEntry(bs', call.arg, j) ELSE before[j]]
  BY <1>3, TableSize DEF LoopTypeOK
<1>8. {} = {j \in Total .. (bs' - 1) : j >= bs'}
  BY <1>3, TableSize
<1>9. MarkInv'
  BY <1>1, <1>2, <1>3, <1>6, <1>7, <1>8, SMT DEF MarkInv
<1>10. SearchInv' /\ FreeInv' /\ MallocComputes' /\ FreeComputes'
  BY <1>1 DEF SearchInv, FreeInv, MallocComputes, FreeComputes
<1> QED BY <1>5, <1>9, <1>10 DEF LoopInv

(* A free entry extends the run, which is the answer when it is long       *)
(* enough: a run of the same length that started earlier would have ended  *)
(* earlier, and ended the search.                                          *)
LEMMA SearchFreeInv ==
  ASSUME LoopInv, SearchFree
  PROVE  LoopInv'
<1>1. LoopTypeOK /\ SearchInv /\ pc = "search" /\ i \in Nat /\ i < Total /\ i \in Blocks
  BY TableSize DEF LoopInv, LoopTypeOK, SearchFree
<1>2. call.op = "malloc" /\ call.arg \in Nat /\ table = before /\ behind = {}
  BY <1>1, CallType DEF SearchInv
<1>3. UNCHANGED <<table, before, call, behind>> /\ IsFree(before, i)
  BY <1>2 DEF SearchFree
<1>4. bs' \in Blocks /\ bs' <= i /\ bc' = (i + 1) - bs' /\ bc' \in Nat
  BY <1>1, TableSize DEF SearchFree, SearchInv, LoopTypeOK
<1>5. \A j \in bs' .. i : IsFree(before, j)
  BY <1>1, <1>3, <1>4, TableSize DEF SearchFree, SearchInv, LoopTypeOK
<1>6. bs' = 0 \/ ~IsFree(before, bs' - 1)
  BY <1>1 DEF SearchFree, SearchInv
<1>7. \A b \in Blocks : call.arg > 0 /\ b + call.arg <= i => ~FreeRun(before, b, call.arg)
  BY <1>1 DEF SearchInv
<1>8. CASE bc' = call.arg
  <2>1. SearchEnds(bs')
    BY <1>8 DEF SearchFree
  <2>2. call.arg > 0 /\ bs' + call.arg = i + 1
    BY <1>1, <1>2, <1>4, <1>8, TableSize
  <2>3. FreeRun(before, bs', call.arg)
    BY <1>1, <1>2, <1>4, <1>5, <2>2, TableSize DEF FreeRun
  <2>4. \A c \in Blocks : c < bs' => ~FreeRun(before, c, call.arg)
    BY <1>1, <1>2, <1>4, <1>7, <2>2, TableSize
  <2>5. bs' = heap_get_start_block(before, call.arg)
    BY <1>2, <1>4, <2>2, <2>3, <2>4, FirstFitIsStart
  <2> QED BY <1>1, <1>2, <1>3, <1>4, <2>1, <2>5, MarkStarts
<1>9. CASE bc' # call.arg
  <2>1. i' = i + 1 /\ pc' = pc /\ entry' = entry
    BY <1>9 DEF SearchFree
  <2>2. LoopTypeOK'
    <3>1. i' \in Nat /\ bs' \in Blocks \cup {-1} /\ pc' = "search"
      BY <1>1, <1>4, <2>1
    <3> QED BY <1>1, <1>3, <1>4, <2>1, <3>1 DEF LoopTypeOK
  <2>3. \A b \in Blocks : call.arg > 0 /\ b + call.arg = i + 1 => ~FreeRun(before, b, call.arg)
    <3> SUFFICES ASSUME NEW b \in Blocks, call.arg > 0, b + call.arg = i + 1,
                        FreeRun(before, b, call.arg)
                 PROVE  FALSE
      OBVIOUS
    <3>1. b # bs'
      BY <1>1, <1>2, <1>4, <1>9, TableSize
    <3>2. CASE b < bs'
      <4>1. bs' - 1 \in b .. (b + call.arg - 1)
        <5>1. \A x, y, m, k \in Int :
                x < y /\ y <= k /\ x + m = k + 1 => y - 1 \in x .. (x + m - 1)
          OBVIOUS
        <5>2. b \in Int /\ bs' \in Int /\ call.arg \in Int /\ i \in Int
          BY <1>1, <1>2, <1>4, TableSize
        <5> QED BY <1>4, <3>2, <5>1, <5>2
      <4> QED BY <1>4, <1>6, <3>2, <4>1, TableSize DEF FreeRun
    <3>3. CASE b > bs'
      <4>1. call.arg < bc' /\ bs' + call.arg <= i
        BY <1>1, <1>2, <1>4, <3>3, TableSize
      <4>2. FreeRun(before, bs', call.arg)
        BY <1>1, <1>2, <1>4, <1>5, <4>1, TableSize DEF FreeRun
      <4> QED BY <1>4, <1>7, <4>1, <4>2
    <3> QED BY <1>4, <3>1, <3>2, <3>3, TableSize
  <2>4. \A b \in Blocks : call.arg > 0 /\ b + call.arg <= i + 1 => ~FreeRun(before, b, call.arg)
    BY <1>1, <1>2, <1>7, <2>3, TableSize
  <2>5. SearchInv'
    <3>1. bs' # -1 /\ i + 1 <= Total /\ bs' < i + 1
      BY <1>1, <1>4, TableSize
    <3>2. \A j \in bs' .. ((i + 1) - 1) : IsFree(before, j)
      BY <1>1, <1>5
    <3> QED BY <1>1, <1>2, <1>3, <1>4, <1>6, <2>1, <2>4, <3>1, <3>2 DEF SearchInv, IsFree, FreeRun
  <2>6. MarkInv' /\ FreeInv' /\ MallocComputes' /\ FreeComputes'
    BY <1>1, <2>1 DEF MarkInv, FreeInv, MallocComputes, FreeComputes
  <2> QED BY <2>2, <2>5, <2>6 DEF LoopInv
<1> QED BY <1>8, <1>9

(* At the end of the table no run fits; the answer is the last run, or     *)
(* none when the last block is taken.                                      *)
LEMMA SearchExhaustedInv ==
  ASSUME LoopInv, SearchExhausted
  PROVE  LoopInv'
<1>1. LoopTypeOK /\ SearchInv /\ pc = "search" /\ i = Total /\ bc \in Nat
  BY DEF LoopInv, LoopTypeOK, SearchExhausted
<1>2. call.op = "malloc" /\ call.arg \in Nat /\ table = before /\ behind = {}
  BY <1>1, CallType DEF SearchInv
<1>3. SearchEnds(bs) /\ UNCHANGED <<table, before, call, bc, bs, behind>>
  BY DEF SearchExhausted
<1>4. \A b \in Blocks : call.arg > 0 => ~FreeRun(before, b, call.arg)
  BY <1>1, <1>2 DEF SearchInv, FreeRun
<1>5. CASE bs = -1
  <2>1. ~IsFree(before, Total - 1)
    BY <1>1, <1>5, TableSize DEF SearchInv
  <2>2. heap_get_start_block(before, call.arg) = -ENOMEM
    BY <1>2, <1>4, <2>1, NoStart
  <2>3. pc' = "done" /\ UNCHANGED <<i, entry>>
    BY <1>3, <1>5 DEF SearchEnds
  <2>4. LoopTypeOK'
    BY <1>1, <1>3, <2>3 DEF LoopTypeOK
  <2>5. MallocComputes' /\ FreeComputes'
    BY <1>2, <1>3, <1>5, <2>2 DEF MallocComputes, FreeComputes, ENOMEM
  <2>6. SearchInv' /\ MarkInv' /\ FreeInv'
    BY <2>3 DEF SearchInv, MarkInv, FreeInv
  <2> QED BY <2>4, <2>5, <2>6 DEF LoopInv
<1>6. CASE bs # -1
  <2>1. bs \in Blocks
    BY <1>1, <1>6 DEF LoopTypeOK
  <2>2. FreeRun(before, bs, Total - bs)
    BY <1>1, <1>6, <2>1, TableSize DEF SearchInv, FreeRun
  <2>3. RunStart(before, bs)
    BY <1>1, <1>6, <2>1, <2>2, TableSize DEF SearchInv, RunStart, FreeRun
  <2>4. bs = heap_get_start_block(before, call.arg)
    BY <1>2, <1>4, <2>1, <2>2, <2>3, TailIsStart
  <2> QED BY <1>1, <1>2, <1>3, <2>1, <2>4, MarkStarts
<1> QED BY <1>5, <1>6

(* The marking loop writes the next link of the chain, or ends with the    *)
(* chain complete.                                                         *)
LEMMA MarkStepInv ==
  ASSUME LoopInv, Mark
  PROVE  LoopInv'
<1> DEFINE n == call.arg
<1>1. LoopTypeOK /\ pc = "mark" /\ MarkInv
  BY DEF LoopInv, Mark
<1>2. /\ call.op = "malloc" /\ n \in Nat /\ i \in Nat /\ bs \in Nat /\ bs \in Blocks
      /\ bs = heap_get_start_block(before, n) /\ bs <= i /\ i <= bs + n
  BY <1>1, CallType, TableSize DEF MarkInv, LoopTypeOK
<1>3. UNCHANGED <<before, call, bc, bs>>
  BY DEF Mark
<1>4. CASE i <= bs + n - 1
  <2>1. /\ pc' = "mark" /\ i' = i + 1
        /\ entry' = {"TAKEN"} \cup (IF i # (bs + n - 1) - 1 THEN {"HAS_NEXT"} ELSE {})
        /\ IF i \in Blocks THEN table' = [table EXCEPT ![i] = entry] /\ UNCHANGED behind
                           ELSE behind' = behind \cup {i} /\ UNCHANGED table
    BY <1>1, <1>4 DEF Mark
  <2>2. entry = ChainEntry(bs, n, i)
    BY <1>1, <1>2, <1>4 DEF MarkInv
  <2>3. i + 1 < bs + n => entry' = ChainEntry(bs, n, i + 1)
    BY <1>2, <2>1 DEF ChainEntry
  <2>4. table' = [j \in Blocks |-> IF bs <= j /\ j < i + 1
                                  THEN ChainEntry(bs, n, j) ELSE before[j]]
    <3>1. table = [j \in Blocks |-> IF bs <= j /\ j < i
                                   THEN ChainEntry(bs, n, j) ELSE before[j]]
      BY <1>1 DEF MarkInv
    <3>2. CASE i \in Blocks
      BY <1>2, <2>1, <2>2, <3>1, <3>2, TableSize
    <3>3. CASE i \notin Blocks
      BY <1>2, <2>1, <3>1, <3>3, TableSize
    <3> QED BY <3>2, <3>3
  <2>5. behind' = {j \in Total .. ((i + 1) - 1) : j >= bs}
    <3>1. behind = {j \in Total .. (i - 1) : j >= bs}
      BY <1>1 DEF MarkInv
    <3> QED BY <1>2, <2>1, <3>1, TableSize
  <2>6. LoopTypeOK'
    <3>1. entry' \in Entry /\ entry \in Entry /\ i' \in Nat
      BY <1>1, <1>2, <2>1 DEF Entry, Flags, LoopTypeOK
    <3>2. table' \in [Blocks -> Entry] /\ behind' \subseteq Nat
      BY <1>1, <1>2, <2>1, <3>1 DEF LoopTypeOK
    <3> QED BY <1>1, <1>3, <2>1, <3>1, <3>2 DEF LoopTypeOK
  <2>7. MarkInv'
    BY <1>2, <1>3, <1>4, <2>1, <2>3, <2>4, <2>5 DEF MarkInv
  <2>8. SearchInv' /\ FreeInv' /\ MallocComputes' /\ FreeComputes'
    BY <2>1 DEF SearchInv, FreeInv, MallocComputes, FreeComputes
  <2> QED BY <2>6, <2>7, <2>8 DEF LoopInv
<1>5. CASE ~(i <= bs + n - 1)
  <2>1. pc' = "done" /\ UNCHANGED <<table, entry, behind, i>>
    BY <1>5 DEF Mark
  <2>2. i = bs + n
    BY <1>2, <1>5
  <2>3. table = heap_mark_blocks_taken(before, bs, n) /\ behind = Spilled(bs, n)
    <3>1. /\ table = [j \in Blocks |-> IF bs <= j /\ j < i
                                      THEN ChainEntry(bs, n, j) ELSE before[j]]
          /\ behind = {j \in Total .. (i - 1) : j >= bs}
      BY <1>1 DEF MarkInv
    <3>2. table = [j \in Blocks |-> IF bs <= j /\ j < bs + n
                                   THEN ChainEntry(bs, n, j) ELSE before[j]]
      BY <2>2, <3>1
    <3>3. behind = {j \in Total .. (bs + n - 1) : j >= bs}
      BY <1>2, <2>2, <3>1
    <3> QED BY <3>2, <3>3 DEF heap_mark_blocks_taken, Spilled
  <2>4. MallocComputes' /\ FreeComputes'
    BY <1>2, <1>3, <2>1, <2>3 DEF MallocComputes, FreeComputes
  <2>5. LoopTypeOK'
    BY <1>1, <1>3, <2>1 DEF LoopTypeOK
  <2>6. SearchInv' /\ MarkInv' /\ FreeInv'
    BY <2>1 DEF SearchInv, MarkInv, FreeInv
  <2> QED BY <2>4, <2>5, <2>6 DEF LoopInv
<1> QED BY <1>4, <1>5

(* The freeing loop clears one more entry of the chain; it ends behind the *)
(* last one, or at the end of the table.                                   *)
LEMMA FreeStepInv ==
  ASSUME LoopInv, Free
  PROVE  LoopInv'
<1> DEFINE s == call.arg
<1>1. LoopTypeOK /\ pc = "free" /\ FreeInv
  BY DEF LoopInv, Free
<1>2. /\ call.op = "free" /\ s \in Blocks /\ s \in Nat /\ i \in Nat /\ behind = {}
      /\ s <= i /\ i <= Total
      /\ table = [j \in Blocks |-> IF s <= j /\ j < i THEN FREE ELSE before[j]]
      /\ \A j \in s .. (i - 1) : "HAS_NEXT" \in before[j]
  BY <1>1, CallType, TableSize DEF FreeInv, LoopTypeOK
<1>3. UNCHANGED <<before, call, bc, bs, entry, behind>>
  BY DEF Free
<1>4. CASE i < Total
  <2>0. i \in Blocks
    BY <1>2, <1>4, TableSize
  <2>1. /\ table' = [table EXCEPT ![i] = FREE] /\ i' = i + 1
        /\ pc' = IF "HAS_NEXT" \in table[i] THEN "free" ELSE "done"
    BY <1>4 DEF Free
  <2>2. table[i] = before[i]
    BY <1>2, <2>0
  <2>3. table' = [j \in Blocks |-> IF s <= j /\ j < i + 1 THEN FREE ELSE before[j]]
    <3>1. table' = [j \in Blocks |-> IF j = i THEN FREE ELSE table[j]]
      BY <1>2, <2>1
    <3>2. \A j \in Blocks : s <= j /\ j < i + 1 <=> (j = i \/ (s <= j /\ j < i))
      BY <1>2, TableSize
    <3> QED BY <1>2, <3>1, <3>2
  <2>4. LoopTypeOK'
    <3>1. FREE \in Entry /\ i' \in Nat
      BY <1>2, <2>1 DEF FREE, Entry
    <3>2. table' \in [Blocks -> Entry]
      BY <1>1, <2>1, <3>1 DEF LoopTypeOK
    <3> QED BY <1>1, <1>3, <2>1, <3>1, <3>2 DEF LoopTypeOK
  <2>5. CASE "HAS_NEXT" \in before[i]
    <3>1. \A j \in s .. ((i + 1) - 1) : "HAS_NEXT" \in before[j]
      BY <1>2, <2>5
    <3>2. s <= i + 1 /\ i + 1 <= Total
      BY <1>2, <1>4, TableSize
    <3>3. FreeInv'
      BY <1>2, <1>3, <2>1, <2>3, <3>1, <3>2 DEF FreeInv
    <3>4. SearchInv' /\ MarkInv' /\ MallocComputes' /\ FreeComputes'
      BY <2>1, <2>2, <2>5 DEF SearchInv, MarkInv, MallocComputes, FreeComputes
    <3> QED BY <2>4, <3>3, <3>4 DEF LoopInv
  <2>6. CASE "HAS_NEXT" \notin before[i]
    <3>1. pc' = "done"
      BY <2>1, <2>2, <2>6
    <3>2. FreedFrom(before, s) = s .. i
      BY <1>2, <1>4, <2>6, TableSize DEF FreedFrom
    <3>3. table' = heap_mark_blocks_free(before, s)
      BY <1>2, <2>3, <3>2, TableSize DEF heap_mark_blocks_free
    <3>4. MallocComputes' /\ FreeComputes'
      BY <1>2, <1>3, <3>3 DEF MallocComputes, FreeComputes
    <3>5. SearchInv' /\ MarkInv' /\ FreeInv'
      BY <3>1 DEF SearchInv, MarkInv, FreeInv
    <3> QED BY <2>4, <3>4, <3>5 DEF LoopInv
  <2> QED BY <2>5, <2>6
<1>5. CASE ~(i < Total)
  <2>1. pc' = "done" /\ UNCHANGED <<table, i>>
    BY <1>5 DEF Free
  <2>2. i = Total
    BY <1>2, <1>5, TableSize
  <2>3. FreedFrom(before, s) = s .. (Total - 1)
    BY <1>2, <2>2, TableSize DEF FreedFrom
  <2>4. table = heap_mark_blocks_free(before, s)
    BY <1>2, <2>2, <2>3, TableSize DEF heap_mark_blocks_free
  <2>5. MallocComputes' /\ FreeComputes'
    BY <1>2, <1>3, <2>1, <2>4 DEF MallocComputes, FreeComputes
  <2>6. LoopTypeOK'
    BY <1>1, <1>3, <2>1 DEF LoopTypeOK
  <2>7. SearchInv' /\ MarkInv' /\ FreeInv'
    BY <2>1 DEF SearchInv, MarkInv, FreeInv
  <2> QED BY <2>5, <2>6, <2>7 DEF LoopInv
<1> QED BY <1>4, <1>5

(* The loop invariants hold throughout every call. *)
THEOREM LoopInvariant == LoopSpec => []LoopInv
<1>1. LoopInit => LoopInv
  BY InitLoopInv
<1>2. LoopInv /\ [LoopNext]_loop_vars => LoopInv'
  <2> SUFFICES ASSUME LoopInv, [LoopNext]_loop_vars PROVE LoopInv'
    OBVIOUS
  <2>1. CASE UNCHANGED loop_vars
    BY <2>1 DEF loop_vars, LoopInv, LoopTypeOK, SearchInv, MarkInv, FreeInv, MallocComputes,
                FreeComputes, IsFree, FreeRun
  <2> QED BY <2>1, SearchTakenInv, SearchFreeInv, SearchExhaustedInv, MarkStepInv,
             FreeStepInv DEF LoopNext
<1> QED BY <1>1, <1>2, PTL DEF LoopSpec

(* The search and the marking loop of heap_malloc_blocks compute           *)
(* heap_get_start_block and heap_mark_blocks_taken, whatever the table.    *)
THEOREM MallocLoopsCorrect == LoopSpec => []MallocComputes
<1>1. LoopInv => MallocComputes
  BY DEF LoopInv
<1> QED BY <1>1, LoopInvariant, PTL

(* The walk of heap_mark_blocks_free computes the operator of that name. *)
THEOREM FreeLoopCorrect == LoopSpec => []FreeComputes
<1>1. LoopInv => FreeComputes
  BY DEF LoopInv
<1> QED BY <1>1, LoopInvariant, PTL

=============================================================================
