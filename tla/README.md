# LameOS kernel: TLA+ models and proofs

LameOS is a small 32-bit x86 kernel in C and assembly. It boots, builds a heap
and page tables, reads a program from a FAT16 disk, runs it in ring 3, and
serves its system calls. Everything runs on one processor. Interrupts are never
enabled inside the kernel: `enable_interrupts` has no caller, IF becomes set only
in the flags that `task_return` pushes for user code, and every gate is an
interrupt gate. So the concurrency of this system is user code and devices
against the entry and exit of handlers; the rest is sequential code whose
difficulty is in its data structures, its failure paths and its address
arithmetic.

Source paths below are relative to `src/src/`.

## 1. Inventory

| Component | State | Operations | Interacts with |
|---|---|---|---|
| Kernel heap (`memory/heap`) | block table, one flag byte per 4 KB block | `kheap_init`, `kmalloc`, `kzalloc`, `kfree` | called by all others |
| Page tables (`memory/paging`) | a directory and 1024 tables per address space | `paging_new_4gb`, `paging_map*`, `paging_set`, `paging_get`, `paging_switch` | process loader, string copies |
| Interrupts and system calls (`idt`, `isr80h`) | IDT, command table, frame on the kernel stack, the PIC | `isr80h_wrapper`, `isr80h_handler`, `int21h`, `no_interrupt` | user code, devices, tasks, paging |
| Tasks (`task/task.c`) | task list, `current_task`, saved registers | `task_new`, `task_switch`, `task_page`, `task_get_stack_item`, `copy_string_from_task`, `task_free` | paging, heap |
| Process loader (`task/process.c`) | table of processes | `process_load` | files, heap, tasks, paging |
| Files (`fs/file.c`) | table of descriptors, of file systems | `fopen`, `fread`, `fseek`, `fstat`, `fclose` | FAT16, path parser |
| FAT16 (`fs/fat/fat16.c`) | private data of a disk, FAT descriptors | resolve, open, read, seek, stat, close | streamer, heap |
| Disk streamer (`disk/streamer.c`) | a position | seek, read | disk driver |
| Path parser (`fs/pparser.c`) | list of path parts | `pathparser_parse`, `pathparser_free` | heap |
| Disk driver, port I/O (`disk/disk.c`, `io`) | the disk's file system and private data; the drive's registers | `disk_read_sector`, `disk_search_and_init` | the drive, FAT16 |
| Text screen (`kernel.c`) | cursor, video memory | `term_initialize`, `term_writechar`, `print` | system calls, handlers |
| GDT, TSS (`gdt`, `task/tss.asm`) | constant after boot | `encodeGdtEntry`, loading | boot, user code |
| String library (`string`) | none | byte loops | path parser, FAT16, tasks |
| Boot loader and start (`boot`, `kernel.asm`, `kernel_main`) | all of the above, being set up | the loading loop, the set-up calls in order | everything |

What makes each correct, and what is hard about it:

- **Heap.** No two allocations share a block; freeing one frees exactly its own
  chain. Hard because a chain is implicit in flags of neighbouring entries, and
  because of the boundaries: the end of the table, zero blocks, 32-bit rounding.
- **Page tables.** Two divisions find an entry; a wrong one silently replaces
  another page. Program, stack, kernel stack and heap must each be where the
  kernel expects them in *both* address spaces.
- **System calls.** The kernel enters and leaves the task's address space
  several times per call. A pointer means something else on each side, every
  path must come back to the right one, and an allocation may fail between.
- **Interrupts.** They arrive between any two user instructions. Each must be
  acknowledged, and IF must be set again on every way out.
- **Process loader.** Seven ways out, each of which must leave tables, files
  and task list consistent.
- **Task list.** Two directions of links, a head, a tail and a current task that
  is itself freed at times; the memory of a freed task becomes another task.
- **Files and FAT16.** Descriptors are reused; an open passes the path parser, a
  directory search and four kinds of allocation before it has a number to give
  back, and may fail at each; reads are split at clusters and sectors, and
  follow a chain on a disk whose contents are arbitrary.
- **Disk driver.** It polls; the drive answers when it likes, or never.
- **Start.** Eleven calls that depend on one another, none of which notices
  when it comes too early.

The hazards are listed one by one, at their lines, in `PROJECT.json`.

## 2. Modules

| Module | Models | Abstract specification |
|---|---|---|
| `HeapTable` | the table functions of `heap.c` as operators | - |
| `Heap` | `kmalloc`, `kzalloc`, `kfree` in any order | `AbstractHeap` |
| `HeapLoops` | the loops of `heap.c`, one iteration per step | the operators of `HeapTable` |
| `Kernel` | user code, int 0x80, address spaces, PIC | - |
| `Paging` | the two-level tables of a task | `AddressSpace` |
| `Process` | `process_load` with its failures | - |
| `TaskList` | the linked list of tasks, the current task and the loaded directory | a sequence, as history |
| `Strings` | what paths and names need of `string.c` | - |
| `FatDirectory` | directory entries, their count and names | the names on the disk (`NameOnDisk`) |
| `Files` | `fopen` step by step, `fseek`, `fclose`; extends `FatDirectory` | `OpenFiles` |
| `Words`, `Drive` | fields of a word; the polled drive | - |
| `FileRead` | one `fread` through `fat16_read`, the streamer and the driver; extends `Drive` | - |
| `Gdt` | the encoding of segment descriptors | the processor's decoding |
| `Boot` | from the boot sector to user code; extends `Gdt`, `Drive` | - |
| `Terminal` | the cursor | - |

Each of `Heap`, `Kernel`, `Paging`, `Process`, `TaskList`, `Files`, `Boot` and `Drive`
has a module of theorems with `Proofs` behind its name (section 5); `HeapProofs`
is also about `HeapLoops`, `FilesProofs` about `FileRead` and `BootProofs` about
`Terminal`, so the definitions of these three have names of their own (`LoopInit`,
`ReadNext`, `TermSpec`).
`MC...` modules instantiate them. In every module an operator whose comment
begins with "Mutant of" is not part of the model: it is a faulty form of the
definition after it, and shows that a property depends on that definition.

### Heap, HeapTable, HeapLoops

`entries` is the block table, with a flag byte as the set of its flags. `live` is
what callers believe they hold, `wiped` the blocks the last `memset` touched, and
`spill` the indices behind the table that the marking loop wrote. A call is one
action, because nothing interrupts it.

`HeapTable` defines what the three loops compute: the search, the marking and
the freeing loop. `HeapLoops` runs the loops themselves from *any* table and
shows that they compute just that; so the definitions used in `Heap` are
themselves checked against the code's control flow. 32-bit rounding is modelled
(`WordMod`).

`AbstractHeap` knows only the sets of blocks that are handed out. The refinement
mapping `Held` reads them off the table's flags, the chain from each `IS_FIRST`
block, and does not look at `live`: `ImplementsAbstract` is about what the table
says, `TableMatchesLive` connects this with what callers hold.

Callers free only what they hold, once. `FreesEmpty` says whether they also free
the pointer of an allocation of zero blocks. No caller in the kernel does; were it
done, the block might have been given to somebody else since, and it would be
freed under them. All runs and theorems are for `FreesEmpty = FALSE`.

### Kernel

One processor: `pc` is either `"user"` or the step of the handler that runs. A
handler is split wherever it changes address space, so that each step reads and
writes memory through one `cr3`; the end of `copy_string_from_task` is split at
each call, so that the order of restoring the entry, copying the string out and
freeing the page is part of what `CallLeavesNoTrace` checks. `tables` holds a flat page table per task
(`Paging` justifies this), `mem` the physical pages, `used` the allocated heap
pages. User code writes any of the given pairs of words to any page it may
write, points `esp` there and traps with any command, or executes another
`int n`. Devices raise lines at any time. `irr` and `isr` are the PIC's registers.
The task list holds several tasks, of which the code runs one: nothing in the
source switches to another.

Pages have two words and a string is the contents of a page: what matters is
*whose* page is read, not its bytes.

### Paging

`chunk[i][b]` is entry `b` of table `i`. The model starts from
`paging_new_4gb`, runs `process_map_memory` page by page (program, then stack)
and then any number of `paging_get`/`paging_map`/`paging_set` triples of
`copy_string_from_task`. `PagingAssumption` states what the code relies on
without checking, most notably that the program ends below the kernel's stack at
`tss.esp0`: `process_map_binary` has no such test, and a larger program would
cover the stack on which the processor pushes its frame.

### Process

One step per call that may fail, in the order of `process_load_for_slot` and
`process_load_binary`, with the label `out` of each. A failure inside
`task_new` or `paging_new_4gb` leads to `"undefined"`, where the model ends: the
code uses a null pointer there. Objects that failed loads leave allocated stay in
`heap`; no property forbids them, as `kernel_main` stops when its load fails.

### TaskList

A task is the place it lies in, so that a place freed and used again is met by
old pointers, as in memory. `next` and `prev` are the links of every place, `live`
the tasks as a sequence in the order they were made. `task_list_remove` leaves the
`prev` of the next task as it was; freeing that task later writes through the
stale pointer, and there the model stops (`task_free_stale`, `ok`). In this
repository the loader frees no linked task, so this is what the interface of
`task.h` offers, not what the kernel runs into today. A task's page directory
lives as long as the task; `loaded` is the one in `cr3`.

### Files, FatDirectory, OpenFiles

`fopen` takes one step per path part, per directory entry and per table it enters,
with each allocation that may fail; `heap` holds every object by its kind and the
`fopen` that made it. An allocation whose result the code checks fails into an
error return; one whose result it does not check fails into `ok = FALSE`, where
the model stops. Callers use descriptors they hold. `fstat` and `fread` change none
of this.

`FatDirectory` models a directory entry by its two name fields, attribute and
size. The fields lie behind one another in memory, and
`fat16_to_proper_string` reads on until a space or a zero, so a name that fills
its field is modelled as the code reads it (`AB` with extension `C` is found as
`abc.c`). The root directory is read whole, but only as many of its entries are
looked at as are in use, wherever they are.

`OpenFiles` is what callers rely on: a number stands for one file and one position
until it is closed. `KeepsPromise` is the refinement, with a number mapped to the
entry and the position of its FAT descriptor.

### Drive and FileRead

`Drive` has the command (with the address split over the four registers), the
poll and the copy of a sector; the drive itself answers or fails at any time.
`disk.c` and `boot.asm` use the same ports in the same way, and both `FileRead`
and `Boot` use this module.

`FileRead` follows one `fread`. A byte of the output is the position on the disk
it was read from. The recursion of `fat16_read_internal_from_stream` and
`diskstreamer_read` is turned into iterations. What the disk holds where the
chain is looked up is arbitrary, except for the file's own table entries.

### Boot and Gdt

The boot loader's loop, `_start`, and the calls of `kernel_main` in order; `cpu` is
what has been switched on in the machine. `fat16_resolve` is followed through its
allocations, its reads and its label `out`; `process_load` is one step, as
`Process` has it in detail. `Gdt` encodes a segment into bytes and decodes it as
the processor does; `Words` makes the width of a byte a parameter, so that every
base and limit can be tried.

### Terminal

The cursor and the last cell written. `term_row` is a 16-bit number.

## 3. Runs

| Run | Result | What it shows |
|---|---|---|
| `heap` | pass | table and allocations agree; allocations are disjoint and untouched by other calls; `AbstractHeap` is implemented |
| `heap_tail` | violation | see findings |
| `heap_loops` | pass | the loops end and compute the operators of `HeapTable` |
| `kernel` | pass | a call works on its caller's memory, maps and reads no page that is free, leaves no trace, returns; interrupts are served |
| `paging` | pass | program and stack are mapped byte by byte, the kernel's memory means itself, two levels implement a flat map |
| `process` | pass | processes, tasks and files are consistent after any mixture of failed and successful loads |
| `file_read` | pass | reads inside the first cluster are exact; no read overruns its buffer or runs for ever |
| `file_read_fat` | violation | see findings |
| `files` | pass | paths are read right, the file opened is the one named, held descriptors stay valid, a close releases, `OpenFiles` is implemented, every open ends |
| `boot` | pass | the kernel is loaded whole, nothing is used before it is set up, the disk is resolved wholly or not at all, user code starts on a ready machine; booting ends |
| `task_list` | pass | the list is right forwards, and backwards if the newest task goes first; the current and the loaded task are never freed ones; `task_get_next` visits all |
| `terminal` | pass | text is never overwritten until the row counter wraps |

A module's type invariant `TypeOK` is a conjunct of one of the invariants its run
checks, except in `heap`, where it is checked by itself, and in `heap_loops`, where
it is proved.

### Bounds

- `heap`: five blocks of two bytes and requests of zero, one, two and three
  blocks, in exact and odd sizes. This gives holes of every size between
  allocations, requests that fit only in a later hole, and requests that fit
  nowhere with the last block free and with it taken.
- `heap_loops`: every table of four blocks, requests of up to six blocks (larger
  than the table), `kfree` from every index.
- `kernel`: two tasks, eight pages, every subset of the free heap pages already
  allocated (so also none left), four values of `eax` (negative, both commands,
  unknown), two interrupt lines, one of them the keyboard.
- `paging`: 36 pages of two bytes in six tables; the stack crosses from one
  table to the next, and programs of one to three pages end at and before page
  ends.
- `process`: two slots, four loads, so that the table fills and later loads are
  refused; every step may fail in each.
- `files`: three descriptors, four opens, so that places are reused and the last
  one is reached; nine paths (a name, a last slash, two parts, an extension, a
  name that fills its field, an empty first part, another drive, no drive, too
  long) on two directories (a label and a file of one name, a subdirectory; a
  deleted entry before a file, a full name field).
- `boot`: half bytes of one bit, so that words have eight: every base and limit,
  and every address of the TSS; three sectors loaded, of which the kernel takes
  two; four vectors, one for each handler; two places for file systems.
- `task_list`: four places, symmetric; every order of making and freeing them.
- `file_read`: sectors of four bytes, two per cluster, a chain of three clusters
  out of order; every position, size and count up to reads that span three
  clusters.
- `terminal`: three columns; the row counter wraps at eight.

Deadlock is not checked where the modelled activity ends: a finished loop or
read, the last load or open of the bound, or a step into undefined behaviour.

### Fairness

- `HeapLoops`, `FileRead`, `Process`, `Files`, `Boot`: weak fairness of the code's
  own steps. They run with interrupts off, so nothing keeps the processor from
  the next one.
- `FileRead`, `Boot`: weak fairness of the drive, which answers a command one way
  or the other. It may fail; `ReadsEnd` and `BootEnds` then claim nothing, as the
  code polls for ever.
- `Kernel`: weak fairness of the handlers' steps for the same reason, and of
  taking a pending interrupt, for which the processor looks between any two
  instructions once IF is set. User code and devices need not do anything.
  `IrqsServed` is claimed for a line only when more urgent ones do not keep
  coming: the PIC has fixed priorities.

## 4. Findings

- **The search for free blocks returns a run that is too short** (`heap.c:245`).
  When no run is long enough and the last block is free, `heap_get_start_block`
  returns the start of the run at the end of the table instead of `-ENOMEM`, and
  the marking loop writes behind the table (`heap_tail`).
- **A FAT entry is looked for at a product instead of a sum** (`fat16.c:401`).
  The successor of a cluster is read outside the allocation table, so only the
  first cluster of a file can be read correctly (`file_read_fat`).

Two more are visible in the models, and the properties say what holds in spite
of them:

- `file.c:98`: `fopen` returns the table's last number, every operation refuses it,
  and `fclose` goes on with a null pointer. `HeldDescriptorsValid` says that it is
  the only one.
- `kernel.c:118`: the screen is never scrolled; rows beyond 24 are written behind
  it. `CursorBehindText` holds until the row counter wraps.

The passing properties are stated so that they hold in spite of these findings: the heap's
table remains an exact record of allocations even after the first of them, which
is part of what is proved.

## 5. Proofs

TLAPS checks these for every value of the constants that satisfies the modules'
assumptions.

`HeapProofs`. From `HeapAssumption` (which contains `heap_create`'s own checks),
`RequestAssumption` and `~FreesEmpty`:

- `HeapInvariant`: `HeapInv == TypeOK /\ BlocksDisjoint /\ TableMatchesLive` is
  inductive. None of its parts is so alone. Disjointness after `kmalloc` needs
  that free entries are covered by no allocation, which is `TableMatchesLive`;
  and that `kfree` frees exactly one allocation needs both: the entries of the
  allocation are its chain (`TableMatchesLive`), and no other allocation shares
  them (`BlocksDisjoint`).
- `TypeCorrect`, `Disjointness`, `TableIsRecord`: its parts.
- `HeldStaysUntouched`: the action property.
- `HeapImplementsAbstract`: each step is `Allocate`, `Release` or a stutter of
  `AbstractHeap` under `Held`. In a state of `HeapInv` the chains of the table are
  the nonempty allocations of `live` (`ChainsAreAllocations`); this needs that an
  entry without allocation has no flag at all, a part of `TableMatchesLive`.
- `ZeroingIsSafe`: with the further assumption that no request wraps when it is
  rounded up, `kzalloc` zeroes only its own blocks. Without it the statement is
  false: such a request gets no block, and all its bytes are zeroed.

The argument rests on two lemmas on the table: what `heap_get_start_block` returns
starts a run that is free as far as the table goes (`StartBlockFree`, also in the
faulty case), and the walk of `kfree` over a chain visits exactly its allocation
(`ChainIsAllocation`).

`HeapProofs`, on the loops. `LoopInvariant` has an invariant per loop. For the
search: `bs` and `bc` describe the maximal free run that ends in front of `i`, and no run that
is long enough ended earlier. For the marking loop: the chain is written up to
`i`, and `entry` is its next link. For the freeing loop: everything since the
argument is clear, and all of it had a successor. `MallocLoopsCorrect` and
`FreeLoopCorrect` follow: for every table and argument the loops compute what
`HeapTable` defines, which is what `Heap` and its proofs use.

`ProcessProofs`. From `ProcessAssumption`, for any number of slots and loads:
`TasksAreProcesses`, `LoadClosesFiles`, `FailedLoadsChangeNothing`. None of them
is inductive: they speak of the time between loads, so `ProcessInv` adds what a
load in work has done when it comes to each call. It has a free slot and a
number that no process has (`SlotReserved`), a descriptor just between `fopen` and
`fclose`, only what succeeded set (`Progress`), and its task already in the list
while its process is not yet in the table (`ListMatchesTable`).

`TaskListProofs`. From `TaskListAssumption`, for any number of places:
`ListKeepsOrder`, `LifoKeepsPrev`, `CurrentTaskIsLive`. `TaskListInv` says where
each link of a live task leads, by its place in the history `live`; what
`ForwardList` says of the tasks reached from the head follows, by the least place
that would not be reached. That no task is twice in `live` is needed for every
update of a link: it must not be another task's link too.

`KernelProofs`. From `KernelAssumption`, for any tasks, pages, commands and
lines: `ContextsRight`, `NoTraceLeft`, `AnswersRight`, `WritesConfined`. `KernelInv`
says for each step of a handler which directory and segments are loaded
(`Contexts`), that the tables differ from those of `process_load` in at most the
entry of the temporary page, and only while that page is allocated (`TmpPage`), where the registers of the user program
are, and what the command has found out. That no write reaches another task's
page rests on `TmpPage`: while the entry is replaced, it leads to a page of the
heap that nobody owns.

`PagingProofs`. From `PagingAssumption`, for any number of tables and entries and
any page size: `ProgramIsMapped`, `KernelIsIdentity`, `TablesImplementFlatMap`.
`PagingInv` gives every entry of the tables at every step (`TablesAsExpected`), and
relates the two addresses and the count of `paging_map_range` (`RangeAdvances`).
The index arithmetic enters once: two addresses of pages with the same pair of
indices are the same address, so setting one entry changes one page. The
properties speak of bytes; a lemma leads from a byte to its page. The theorems
hold because the program, the stack and the heap lie where config.h puts them:
the assumption says that the heap is behind the kernel's stack and that a
program ends in front of it.

`BootProofs`. From `WordsAssumption` and `BootAssumption`, for any width of a byte,
any addresses of `tss` and of the handlers, and any number of sectors that
fits the drive's count: `EveryEncodingExact`, `NothingUsedEarly`,
`DiskIsWholeOrNone`, `UserStartsReady`. The first is about segment descriptors
only; the gates of the IDT are part of the last. The encodings rest on the division of a
word into digits (`FourDigits`, `ThreeDigits`). `BootInv` says after which calls of
`kernel_main` each table is loaded and filled, that the loader's count and the
drive's agree, and what `fat16_resolve` has allocated when it comes to each of
its reads. `NothingOverwritten`, from `TerminalAssumption`, for every width of the
screen and every message: `CursorBehindText` is inductive by itself, and rests on
the order of the cells (`CellsInOrder`).

`DriveProofs`. The digits of a word, and from them that the registers which
`disk_read_sector` writes address the sector it was asked for, if its number has
28 bits (`SectorAddressed`). Both `BootProofs` and `FilesProofs` use it.

`FilesProofs`. From `FilesAssumption`, for any directory, any paths and any size of
the table: `NumbersStayValid`, `ClosingReleases` and the refinement
`OpenFilesImplemented`. `FilesInv` matches table, FAT descriptors and held numbers
one to one (`TableMatches`), says what of each open file and of the running
`fopen` is on the heap (`Allocated`), and what else carries their numbers
(`Leftovers`): items of other entries that matched the same path, so entries whose
names the code takes to be the same. For `PartsFit` the part not read yet is
bounded too. `FilesAssumption` says that paths and names consist of characters
(`Chars`), that the root directory was read whole, and that an entry that begins
with zero ends it or follows it.

On parsing and lookup: `PathsReadRight` and `LookupsAreExact`. Both properties are
stated without recursion, by the places of the slashes (`CutInParts`) and of the
padding (`NameLength`), so that they can be proved for every path and directory.
`Parsing` says that what the parser has not read starts behind the last cut; a
step adds one cut. `LastMatch` says that no entry behind the one kept matched, and
`Counted` that the entries looked at reach at least up to the first deleted one.
That the code's name of an entry is the one on the disk (`NamesAgree`) needs that
both fields end (`FieldsEnd`). One thing the proof brought up: the search does not
skip deleted entries, so a path that begins with the byte `0xE5` can open one;
`OpenedIsNamed` says that no other path does (`DeletedNames`).

`FilesProofs`, on reading. From `FileReadAssumption`, for every size of a sector and a
cluster, every chain, position, size and count: `ReadFitsBuffer` and
`SimpleReadsAreExact`. `ReadInv` says how many bytes have arrived at each step
(`BytesCounted`: the items before, the part of this item that earlier clusters gave,
and what this call has read), and for a simple read which ones (`BytesExact`: the
stream stands at the byte of the file that comes next, and what is left lies in
its sector or starts with it). `CallArguments` says that the drive was asked for
the sector of the stream, which needs that the file's first cluster is in reach of
28 bits: a part of `FileReadAssumption`.

A recurring argument in place of induction: the least element of a set of
natural numbers (`WFMin` of the library), for the loops that stop at the first
place with a property.

Only model-checked:

- all liveness (`LoopsEnd`, `CallsReturn`, `IrqsServed`, `LoadsEnd`, `ReadsEnd`,
  `OpensEnd`, `BootEnds`), which is beyond the prover;
- the two findings of section 4, which are counterexamples.

## 6. Not modelled

- Processor exceptions, and `idt_zero`, which returns with `ret` from a gate:
  what follows depends on the contents of the stack.
- What follows the use of a null or freed pointer: `Process`, `TaskList`, `Files`
  and `Boot` stop there, each in a state of its own.
- The contents of subdirectories. `fat16_load_fat_directory` reads them, but the
  item's type is overwritten (`fat16.c:623`) and nothing ever looks at them.
- A root directory with no entry that ends it (`fat16.c:183`): the count then
  runs on into the data area. `FilesAssumption` excludes it.
- `pathparser_free`, which has no caller, and `paging_free_4gb`, whose effect is
  in `TaskList` that a directory lives as long as its task.
- Copying and counting loops of `string.c` and `memory.c` by themselves; they
  appear as what their callers do with them. Colours, wording, the slave PIC.
- The width of the numbers in `fat16_read` and `fat16_get_fat_entry`: sizes of
  2 GB and more, whose conversion to `int` would change them, and products that
  overflow 32 bits. The wait for the drive while a FAT entry is read.
- Tests that cannot fail for their only caller: of `max` in
  `copy_string_from_task`, of the slot in `process_load_for_slot`, of the alignment
  in the `paging_set` that restores an entry.
- `z_old` and the build files, which are not part of the kernel.

### Where the properties stop

Some of what can go wrong lies outside the properties, because the code does go
wrong there or does not test its input. A reader should not take the passing runs
to cover it:

- `process.c:59` allocates as many bytes as a file on the disk claims. A size in
  the last block of the address space wraps to a request of no blocks
  (`heap.c:167`). `Heap` models the wrap, and the theorems on the table hold with
  it, but `ZeroingSparesOthers` is false then: the run has no such request, and
  `ZeroingIsSafe` assumes that there is none (`NoRequestWraps`).
- `process.c:89` maps a program of any size. `PagingAssumption` keeps it below the
  kernel's stack; `KernelIdentity` would be false for a larger one.
- `task.c:79` leaves the `prev` link of the next task as it is. `TaskList` stops
  where a stale link is written through (`task_free_stale`).
  `BackwardListIfLifo` says when that cannot happen.
- `streamer.c:44` copies from behind its buffer when a read starts inside a sector
  and crosses its end, and `fat16.c:401` loses a file's second cluster. `Simple`
  leaves these reads out of `SimpleReadExact`; `BufferRespected` and `ReadsEnd` hold
  for them too, but only count bytes. `FatStreamInTable` shows the second.
- `kernel.c:118` lets the row grow beyond the screen. `CursorBehindText` is only
  about text that is overwritten before the row wraps.
- `fclose` does not release everything: `ClosedReleased` leaves out the parsed
  path, directories, and names that occur twice.

## 7. Plan

Every invariant, action property and refinement that a run shows to hold is also
proved. What is left is to strengthen them: in `FileRead` what a read delivers that
leaves the first cluster, and in `Process` what a failed load leaves on the heap.

Composing `Files`, `FileRead` and `Process` into one model would multiply their
states and show nothing new: a load uses one descriptor, which `KeepsPromise`
shows to be independent of all others.
