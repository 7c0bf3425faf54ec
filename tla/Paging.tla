------------------------------ MODULE Paging ------------------------------
(***************************************************************************)
(* The page tables of a task (src/memory/paging/paging.c), from their      *)
(* construction by paging_new_4gb through process_map_memory, which maps   *)
(* the program and its stack page by page, to the temporary mappings that  *)
(* copy_string_from_task makes and undoes while the task runs.             *)
(*                                                                         *)
(* Addresses are numbers below Entries * Entries * PageSize, the 4 GB that *)
(* one directory covers; they wrap there.  An entry is the address of its  *)
(* frame and whether the page is writable; PRESENT and ACCESS_FROM_ALL are *)
(* set in every entry the kernel makes.                                    *)
(***************************************************************************)
EXTENDS Integers

CONSTANTS
  PageSize,      \* PAGING_PAGE_SIZE
  Entries,       \* PAGING_TOTAL_ENTRIES_PER_TABLE
  ProgramStart,  \* LAMEOS_PROGRAM_VIRTUAL_ADDRESS
  StackStart,    \* LAMEOS_PROGRAM_VIRTUAL_STACK_ADDRESS_START, its upper end
  StackSize,     \* LAMEOS_USER_PROGRAM_STACK_SIZE
  KernelStack,   \* tss.esp0, the upper end of the kernel's stack
  HeapPtrs,      \* the addresses that kzalloc returns
  Sizes          \* the sizes in bytes of program files

TableBytes == Entries * PageSize
AddrMod    == Entries * TableBytes
Addresses  == 0 .. (AddrMod - 1)
Indices    == 0 .. (Entries - 1)

(* The addresses where pages and frames start. *)
paging_is_aligned(addr) == addr % PageSize = 0
PageAddresses == {a \in Addresses : paging_is_aligned(a)}

ASSUME PagingAssumption ==
  /\ PageSize \in Nat \ {0} /\ Entries \in Nat \ {0}
  /\ {ProgramStart, StackStart, StackStart - StackSize, KernelStack} \subseteq PageAddresses
  /\ StackSize \in Nat \ {0} /\ StackStart <= ProgramStart
  \* The heap lies behind the kernel's stack.
  /\ HeapPtrs \subseteq {a \in PageAddresses : a >= KernelStack}
  \* fread refuses to read an empty file.
  /\ Sizes \subseteq Nat \ {0}
  \* A program ends below the kernel's stack.
  /\ \A size \in Sizes : ProgramStart + size <= KernelStack - PageSize
  \* The heap does not reach the end of the address space.
  /\ \A ptr \in HeapPtrs, size \in Sizes \cup {StackSize} : ptr + size <= AddrMod - PageSize

VARIABLES
  pc,        \* the call of process_map_memory that runs, or "ready"
  chunk,     \* the tables of the directory: an entry per pair of indices
  ptr, size, \* process->ptr and process->size
  stack,     \* process->stack
  virt, phys, count,  \* the locals of paging_map_range: pages still to map
  tmp,       \* the page that copy_string_from_task has mapped
  old_entry  \* the entry it replaced

vars == <<pc, chunk, ptr, size, stack, virt, phys, count, tmp, old_entry>>

Pte == [frame : PageAddresses, writable : BOOLEAN]

-----------------------------------------------------------------------------
(* Finding and setting an entry *)

(* The two indices of paging_get_indices. *)
directory_index(addr) == addr \div TableBytes
table_index(addr)     == (addr % TableBytes) \div PageSize

paging_get(c, addr) == c[directory_index(addr)][table_index(addr)]

(* Mutant of paging_set: the entry behind it in the table is set as well. *)
SetTwoEntries(c, addr, val) ==
  [c EXCEPT ![directory_index(addr)] = [b \in Indices |->
     IF b \in {table_index(addr), table_index(addr) + 1} THEN val ELSE @[b]]]

paging_set(c, addr, val) ==
  [c EXCEPT ![directory_index(addr)][table_index(addr)] = val]

(* paging_new_4gb: table i starts at the offset i * TableBytes. *)
paging_new_4gb(writable) ==
  [i \in Indices |-> [b \in Indices |->
     [frame |-> (i * TableBytes) + (b * PageSize), writable |-> writable]]]

paging_align_address(addr) ==
  IF paging_is_aligned(addr)
  THEN addr
  ELSE (addr + PageSize - (addr % PageSize)) % AddrMod

(* Mutant of PagesTo: the end is included. *)
PagesIncludingEnd(v, p, end) == ((end - p) \div PageSize) + 1

(* The pages that paging_map_to maps; none when an argument is refused.    *)
(* Its callers ignore the result.                                          *)
PagesTo(v, p, end) ==
  IF paging_is_aligned(v) /\ paging_is_aligned(p) /\ paging_is_aligned(end) /\ end >= p
  THEN (end - p) \div PageSize
  ELSE 0

-----------------------------------------------------------------------------
(* process_map_memory *)

(* The arguments of paging_map_range for a region of n bytes. *)
StartRange(v, p, n) ==
  /\ virt' = v
  /\ phys' = p
  /\ count' = PagesTo(v, p, paging_align_address((p + n) % AddrMod))

Init ==
  /\ pc = "process_map_binary"
  /\ chunk = paging_new_4gb(FALSE)
  /\ size \in Sizes
  /\ ptr \in HeapPtrs
  /\ stack \in {s \in HeapPtrs : s + StackSize <= ptr \/ ptr + size <= s}
  /\ virt = 0 /\ phys = 0 /\ count = 0
  /\ tmp = 0
  /\ old_entry = paging_get(chunk, 0)

process_map_binary ==
  /\ pc = "process_map_binary"
  /\ StartRange(ProgramStart, ptr, size)
  /\ pc' = "binary_range"
  /\ UNCHANGED <<chunk, ptr, size, stack, tmp, old_entry>>

(* The second half of process_map_memory: the stack, from its lower end. *)
map_stack ==
  /\ pc = "binary_range" /\ count = 0
  /\ StartRange(StackStart - StackSize, stack, StackSize)
  /\ pc' = "stack_range"
  /\ UNCHANGED <<chunk, ptr, size, stack, tmp, old_entry>>

process_map_memory_returns ==
  /\ pc = "stack_range" /\ count = 0
  /\ pc' = "ready"
  /\ UNCHANGED <<chunk, ptr, size, stack, virt, phys, count, tmp, old_entry>>

(* Mutant of paging_map_range: the physical address does not advance. *)
SameFrame ==
  /\ pc \in {"binary_range", "stack_range"} /\ count > 0
  /\ chunk' = paging_set(chunk, virt, [frame |-> phys, writable |-> TRUE])
  /\ virt' = (virt + PageSize) % AddrMod
  /\ count' = count - 1
  /\ UNCHANGED <<pc, ptr, size, stack, phys, tmp, old_entry>>

(* One iteration of paging_map_range: paging_map, which calls paging_set. *)
paging_map_range ==
  /\ pc \in {"binary_range", "stack_range"} /\ count > 0
  /\ chunk' = paging_set(chunk, virt, [frame |-> phys, writable |-> TRUE])
  /\ virt' = (virt + PageSize) % AddrMod
  /\ phys' = (phys + PageSize) % AddrMod
  /\ count' = count - 1
  /\ UNCHANGED <<pc, ptr, size, stack, tmp, old_entry>>

-----------------------------------------------------------------------------
(* copy_string_from_task, on the tables only *)

(* The heap pages the process does not own. *)
FreePtrs ==
  {p \in HeapPtrs : /\ p + PageSize <= ptr \/ ptr + size <= p
                    /\ p + PageSize <= stack \/ stack + StackSize <= p}

(* old_entry = paging_get (tmp), and tmp is mapped to itself. *)
map_tmp ==
  /\ pc = "ready"
  /\ tmp' \in FreePtrs
  /\ old_entry' = paging_get(chunk, tmp')
  /\ chunk' = paging_set(chunk, tmp', [frame |-> tmp', writable |-> TRUE])
  /\ pc' = "copying"
  /\ UNCHANGED <<ptr, size, stack, virt, phys, count>>

(* paging_set (tmp, old_entry). *)
unmap_tmp ==
  /\ pc = "copying"
  /\ chunk' = paging_set(chunk, tmp, old_entry)
  /\ pc' = "ready"
  /\ UNCHANGED <<ptr, size, stack, virt, phys, count, tmp, old_entry>>

Next ==
  \/ process_map_binary \/ paging_map_range \/ map_stack
  \/ process_map_memory_returns \/ map_tmp \/ unmap_tmp

Spec == Init /\ [][Next]_vars

-----------------------------------------------------------------------------
(* Properties *)

(* The tables hold an entry per pair of indices, the locals are addresses. *)
TypeOK ==
  /\ pc \in {"process_map_binary", "binary_range", "stack_range", "ready", "copying"}
  /\ chunk \in [Indices -> [Indices -> Pte]]
  /\ ptr \in HeapPtrs /\ stack \in HeapPtrs /\ size \in Sizes
  /\ virt \in PageAddresses /\ phys \in PageAddresses /\ count \in Nat
  /\ tmp \in PageAddresses /\ old_entry \in Pte

(* What the processor finds for an address: the frame's byte. *)
Physical(addr) ==
  paging_get(chunk, addr).frame + (addr % PageSize)

Writable(addr) == paging_get(chunk, addr).writable

InStack(addr)   == addr >= StackStart - StackSize /\ addr < StackStart
InProgram(addr) == addr >= ProgramStart /\ addr < ProgramStart + size

KernelOwned(addr) ==
  \/ addr < StackStart - StackSize
  \/ addr >= StackStart /\ addr < ProgramStart
  \/ addr >= paging_align_address(ProgramStart + size)
  \/ addr >= KernelStack - PageSize

(* Once process_map_memory has returned, byte n of the program file is at  *)
(* ProgramStart + n, the whole stack lies below StackStart, and the task   *)
(* may write both, through any number of string copies.                    *)
ProcessMapped ==
  /\ TypeOK
  /\ pc \in {"ready", "copying"} =>
       \A addr \in Addresses :
         /\ InProgram(addr) =>
              Writable(addr) /\ Physical(addr) = ptr + (addr - ProgramStart)
         /\ InStack(addr) =>
              Writable(addr) /\ Physical(addr) = stack + (addr - (StackStart - StackSize))

(* The kernel's memory is where the kernel expects it in the task's        *)
(* address space too: outside the program's and the stack's pages, and on  *)
(* the kernel's stack and above, every address means itself and the task   *)
(* may not write it, except the page of a string copy in progress.  The    *)
(* kernel's stack matters because the processor pushes the interrupt frame *)
(* before kernel_page is called.                                           *)
KernelIdentity ==
  \A addr \in Addresses :
    KernelOwned(addr) =>
      /\ Physical(addr) = addr
      /\ Writable(addr) => pc = "copying" /\ addr - (addr % PageSize) = tmp

-----------------------------------------------------------------------------
(* The tables implement the flat map. *)

FlatMap == [a \in PageAddresses |-> paging_get(chunk, a)]

Flat == INSTANCE AddressSpace
  WITH VirtualPages <- PageAddresses, Ptes <- Pte,
       FirstMap <- [a \in PageAddresses |-> [frame |-> a, writable |-> FALSE]],
       map <- FlatMap

(* Every step replaces the entry of one page and no other: the index       *)
(* arithmetic of paging_get_indices sends no two pages to one entry, and   *)
(* paging_new_4gb maps every page to itself.                               *)
ImplementsFlat == Flat!Spec
=============================================================================
