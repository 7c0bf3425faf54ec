-------------------------------- MODULE Boot --------------------------------
(***************************************************************************)
(* From the boot sector to user code: ata_lba_read of src/boot/boot.asm    *)
(* loads the kernel, and kernel_main (src/kernel.c) sets up the segments,  *)
(* the heap, the file systems, the disk, the interrupts, the TSS, paging   *)
(* and the kernel's commands, loads a program and starts it.  Interrupts   *)
(* are off all the way.  The resolving of the disk's file system           *)
(* (fat16_resolve) is followed through its allocations and reads; loading  *)
(* the program is one step here, module Process has the rest of it.        *)
(*                                                                         *)
(* The kernel's uninitialised data is taken to be zero: nothing clears it, *)
(* the boot loader reads zeros from the image behind the kernel over it.   *)
(***************************************************************************)
EXTENDS Gdt, Drive, SequencesExt

CONSTANTS
  LoadSectors,    \* the sectors that the boot loader reads, 100
  KernelSectors,  \* the sectors that the kernel takes
  TssSize,        \* sizeof (tss)
  TssAddresses,   \* where the linker may have put tss
  Vectors,        \* the vectors of the IDT, 0 .. LAMEOS_TOTAL_INTERRUPTS - 1
  Handler,        \* the addresses of the handlers, by name
  FsSlots         \* LAMEOS_MAX_FILESYSTEMS

ASSUME BootAssumption ==
  \* The drive's count of sectors is a byte.
  /\ LoadSectors \in 1 .. (Byte - 1) /\ KernelSectors \in 1 .. LoadSectors
  /\ TssSize \in 1 .. Half /\ TssAddresses \subseteq 0 .. (Word - 1)
  /\ {"zero", "keyboard", "syscall"} \subseteq Vectors
  /\ Handler \in [{"idt_zero", "int21h", "isr80h_wrapper", "no_interrupt"} -> 0 .. (Word - 1)]
  /\ FsSlots \in Nat \ {0}

NONE == "none"

(* The calls of kernel_main, in order. *)
kernel_main ==
  <<"gdt", "heap", "fs", "disk", "idt", "tss", "chunk", "paging", "commands", "load", "run">>

(* Mutant of After: the disk is searched before the heap is made. *)
AfterDiskFirst(call) ==
  LET order == <<"gdt", "disk", "heap", "fs">> \o SubSeq(kernel_main, 5, Len(kernel_main))
  IN  order[(CHOOSE i \in DOMAIN order : order[i] = call) + 1]

(* The call behind a call of kernel_main. *)
After(call) == kernel_main[(CHOOSE i \in DOMAIN kernel_main : kernel_main[i] = call) + 1]

VARIABLES
  pc,            \* the call that runs next, or a step inside it, or how it all ended
  memory,        \* the sectors of the disk that lie from 1 MB on
  tss_address,   \* where tss lies
  signature,     \* whether the disk's header has the signature of FAT16
  gdt,           \* gdt_real
  cpu,           \* what is set in the machine: a20, pic, gdtr, idtr, tr, cr3, paging
  tss,           \* esp0 and ss0 are set
  heap,          \* the objects allocated; NONE is in it until there is a heap
  filesystems,   \* the table
  disk,          \* disk.filesystem and disk.fs_private
  idt,           \* idt_descriptors
  commands,      \* isr80h_commands
  current_task

given  == <<tss_address, signature>>
loaded == <<gdt, cpu, tss, idt, commands>>
kept   == <<heap, filesystems, disk, current_task>>
vars   == <<pc, drive, memory, given, loaded, kept>>

Init ==
  /\ pc = "real_mode" /\ drive = DriveIdle /\ memory = <<>>
  /\ tss_address \in TssAddresses /\ signature \in BOOLEAN
  /\ gdt = <<>> /\ cpu = {} /\ tss = FALSE
  /\ heap = {NONE}
  /\ filesystems = [s \in 1 .. FsSlots |-> NONE]
  /\ disk = [filesystem |-> NONE, fs_private |-> NONE]
  /\ idt = [v \in Vectors |-> NONE] /\ commands = {}
  /\ current_task = NONE

-----------------------------------------------------------------------------
(* The boot loader *)

(* Interrupts are turned off, protected mode and the A20 line on. *)
load_protected ==
  /\ pc = "real_mode"
  /\ cpu' = cpu \cup {"a20"}
  /\ pc' = "loader"
  /\ UNCHANGED <<drive, memory, given, gdt, tss, idt, commands, kept>>

(* The sectors behind the boot sector. *)
ata_lba_read ==
  /\ pc = "loader"
  /\ read_command(1, LoadSectors)
  /\ pc' = "next_sector"
  /\ UNCHANGED <<memory, given, loaded, kept>>

(* Mutant of next_sector: the loop goes on behind the last sector. *)
LoopsOnceMore ==
  /\ pc = "next_sector" /\ Ready
  /\ memory' = Append(memory, drive.lba)
  /\ take_sector
  /\ pc' = IF drive.sectors = 0 THEN "start" ELSE pc
  /\ UNCHANGED <<given, loaded, kept>>

(* A sector is copied to memory; after the last one the kernel is entered. *)
next_sector ==
  /\ pc = "next_sector" /\ Ready
  /\ memory' = Append(memory, drive.lba)
  /\ take_sector
  /\ pc' = IF drive.sectors = 1 THEN "start" ELSE pc
  /\ UNCHANGED <<given, loaded, kept>>

(* _start: the stack, the kernel's segments, and the vectors of the PIC;   *)
(* then kernel_main, whose screen is in module Terminal.                   *)
start ==
  /\ pc = "start"
  /\ cpu' = cpu \cup {"pic"}
  /\ pc' = Head(kernel_main)
  /\ UNCHANGED <<drive, memory, given, gdt, tss, idt, commands, kept>>

-----------------------------------------------------------------------------
(* The calls of kernel_main *)

(* gdt_structured, with the address of tss. *)
gdt_structured(address) ==
  LET whole(type) == [base |-> 0, limit |-> Word - 1, type |-> type]
  IN  << [base |-> 0, limit |-> 0, type |-> "null"],
         whole("kernel code"), whole("kernel data"), whole("user code"), whole("user data"),
         [base |-> address, limit |-> TssSize, type |-> "tss"] >>

(* gdt_structured_to_gdt and gdt_load; a segment that cannot be encoded is *)
(* a panic.                                                                *)
gdt_structured_to_gdt ==
  LET source == gdt_structured(tss_address)
  IN  /\ pc = "gdt"
      /\ IF \E i \in DOMAIN source : Refused(source[i])
         THEN pc' = "panic" /\ UNCHANGED <<gdt, cpu>>
         ELSE /\ gdt' = [i \in DOMAIN source |-> encodeGdtEntry(source[i])]
              /\ cpu' = cpu \cup {"gdtr"}
              /\ pc' = After("gdt")
      /\ UNCHANGED <<drive, memory, given, tss, idt, commands, kept>>

kheap_init ==
  /\ pc = "heap"
  /\ heap' = {}
  /\ pc' = After("heap")
  /\ UNCHANGED <<drive, memory, given, loaded, filesystems, disk, current_task>>

(* fs_init: both tables are cleared, and FAT16 goes to the first free      *)
(* place.                                                                  *)
fs_init ==
  /\ pc = "fs"
  /\ filesystems' = [s \in 1 .. FsSlots |-> IF s = 1 THEN "FAT16" ELSE NONE]
  /\ pc' = After("fs")
  /\ UNCHANGED <<drive, memory, given, loaded, heap, disk, current_task>>

(* Mutant of IdtGate: the upper half of the address is not shifted down. *)
GateNotShifted(address) == [offset_1 |-> address % Half, offset_2 |-> address]

(* idt_set: the address in two halves. *)
IdtGate(address) == [offset_1 |-> address % Half, offset_2 |-> address \div Half]

(* idt_init: every vector gets a gate, three of them one of their own. *)
idt_init ==
  /\ pc = "idt"
  /\ idt' = [v \in Vectors |->
               IdtGate(Handler[CASE v = "zero" -> "idt_zero" [] v = "keyboard" -> "int21h"
                                 [] v = "syscall" -> "isr80h_wrapper" [] OTHER -> "no_interrupt"])]
  /\ cpu' = cpu \cup {"idtr"}
  /\ pc' = After("idt")
  /\ UNCHANGED <<drive, memory, given, gdt, tss, commands, kept>>

(* The TSS is filled in and loaded, from the segment that describes it. *)
tss_load ==
  /\ pc = "tss"
  /\ tss' = TRUE
  /\ cpu' = cpu \cup {"tr"}
  /\ pc' = After("tss")
  /\ UNCHANGED <<drive, memory, given, gdt, idt, commands, kept>>

(* kernel_chunk is made and switched to. *)
paging_new_4gb ==
  /\ pc = "chunk"
  /\ heap' = heap \cup {"kernel_chunk"}
  /\ cpu' = cpu \cup {"cr3"}
  /\ pc' = After("chunk")
  /\ UNCHANGED <<drive, memory, given, gdt, tss, idt, commands, filesystems, disk, current_task>>

enable_paging ==
  /\ pc = "paging"
  /\ cpu' = cpu \cup {"paging"}
  /\ pc' = After("paging")
  /\ UNCHANGED <<drive, memory, given, gdt, tss, idt, commands, kept>>

(* A command goes to its place; one that is taken is a panic. *)
isr80h_register_command(command) ==
  /\ commands' = commands \cup {command}
  /\ pc' = CASE command \in commands -> "panic"
             [] command = "print" -> After("commands")
             [] OTHER -> pc

(* First sum, then print. *)
isr80h_register_commands ==
  /\ pc = "commands"
  /\ isr80h_register_command(IF commands = {} THEN "sum" ELSE "print")
  /\ UNCHANGED <<drive, memory, given, gdt, cpu, tss, idt, kept>>

(* process_load succeeds: there is a file system to load from. *)
process_load ==
  /\ pc = "load" /\ disk.filesystem # NONE
  /\ heap' = heap \cup {"process", "task"}
  /\ current_task' = "task"
  /\ pc' = After("load")
  /\ UNCHANGED <<drive, memory, given, loaded, filesystems, disk>>

(* process_load fails, for any reason: kernel_main panics. *)
process_load_fails ==
  /\ pc = "load"
  /\ pc' = "panic"
  /\ UNCHANGED <<drive, memory, given, loaded, kept>>

task_run_first_ever_task ==
  /\ pc = "run" /\ current_task # NONE
  /\ pc' = "user"
  /\ UNCHANGED <<drive, memory, given, loaded, kept>>

-----------------------------------------------------------------------------
(* disk_search_and_init *)

(* fs_resolve: the file system that takes the disk, by the result of its   *)
(* resolve.                                                                *)
fs_resolve(res) == IF \E s \in 1 .. FsSlots : filesystems[s] = "FAT16" /\ res = 0 THEN "FAT16" ELSE NONE

(* The disk is cleared before it is resolved. *)
disk_search_and_init ==
  /\ pc = "disk"
  /\ disk' = [filesystem |-> NONE, fs_private |-> NONE]
  /\ pc' = "resolve"
  /\ UNCHANGED <<drive, memory, given, loaded, heap, filesystems, current_task>>

(* The streams of the private data. *)
fat16_init_private == {"cluster_read_stream", "fat_read_stream", "directory_stream"}

(* The private data is made, and one more stream; the disk has both        *)
(* pointers from here on.                                                  *)
fat16_resolve ==
  /\ pc = "resolve"
  /\ heap' = heap \cup fat16_init_private \cup {"private", "stream"}
  /\ disk' = [filesystem |-> "FAT16", fs_private |-> "private"]
  /\ pc' = "header"
  /\ UNCHANGED <<drive, memory, given, loaded, filesystems, current_task>>

(* disk_read_sector: the command for the first sector, which has the       *)
(* header, or for the root directory.                                      *)
disk_read_sector ==
  /\ pc \in {"header", "root"} /\ drive = DriveIdle
  /\ read_command(IF pc = "header" THEN 0 ELSE LoadSectors + 1, 1)
  /\ UNCHANGED <<pc, memory, given, loaded, kept>>

(* The header is read; it must have the signature. *)
read_header ==
  /\ pc = "header" /\ Ready
  /\ take_sector
  /\ pc' = IF signature THEN "root" ELSE "not_resolved"
  /\ UNCHANGED <<memory, given, loaded, kept>>

(* fat16_get_root_directory: the entries are counted, and memory for the   *)
(* root directory is filled from the disk, unless there is no memory.  One *)
(* read of the drive stands for all of them.                               *)
fat16_get_root_directory ==
  /\ pc = "root" /\ Ready
  /\ take_sector
  /\ \/ heap' = heap \cup {"root_directory"} /\ pc' = "resolved"
     \/ UNCHANGED heap /\ pc' = "not_resolved"
  /\ UNCHANGED <<memory, given, loaded, filesystems, disk, current_task>>

(* Label out of fat16_resolve and the result of fs_resolve. *)
resolved ==
  /\ pc = "resolved"
  /\ heap' = heap \ {"stream"}
  /\ disk' = [disk EXCEPT !.filesystem = fs_resolve(0)]
  /\ pc' = After("disk")
  /\ UNCHANGED <<drive, memory, given, loaded, filesystems, current_task>>

(* Mutant of not_resolved: disk->fs_private is not cleared. *)
KeepsPrivate ==
  /\ pc = "not_resolved"
  /\ heap' = heap \ {"stream", "private"}
  /\ disk' = [disk EXCEPT !.filesystem = fs_resolve(-1)]
  /\ pc' = After("disk")
  /\ UNCHANGED <<drive, memory, given, loaded, filesystems, current_task>>

(* The private data is freed, its streams are not. *)
not_resolved ==
  /\ pc = "not_resolved"
  /\ heap' = heap \ {"stream", "private"}
  /\ disk' = [filesystem |-> fs_resolve(-1), fs_private |-> NONE]
  /\ pc' = After("disk")
  /\ UNCHANGED <<drive, memory, given, loaded, filesystems, current_task>>

(* A kzalloc whose result is not checked fails: of the private data, a     *)
(* stream or the kernel's page tables.  Nothing is claimed about what      *)
(* follows.                                                                *)
kzalloc_fails ==
  /\ pc \in {"resolve", "chunk"}
  /\ pc' = "undefined"
  /\ UNCHANGED <<drive, memory, given, loaded, kept>>

-----------------------------------------------------------------------------

Step ==
  \/ load_protected \/ ata_lba_read \/ next_sector \/ start
  \/ gdt_structured_to_gdt \/ kheap_init \/ fs_init
  \/ disk_search_and_init \/ fat16_resolve \/ disk_read_sector \/ read_header \/ fat16_get_root_directory
  \/ resolved \/ not_resolved
  \/ idt_init \/ tss_load \/ paging_new_4gb \/ enable_paging \/ isr80h_register_commands
  \/ process_load \/ process_load_fails \/ task_run_first_ever_task
  \/ kzalloc_fails

DriveStep ==
  /\ DriveAnswers \/ DriveFails
  /\ UNCHANGED <<pc, memory, given, loaded, kept>>

Next == Step \/ DriveStep

(* Nothing else runs meanwhile; a drive that got a command answers it one  *)
(* way or the other.                                                       *)
Spec == Init /\ [][Next]_vars /\ WF_vars(Step) /\ WF_vars(DriveStep)

-----------------------------------------------------------------------------
(* Properties *)

TypeOK ==
  /\ pc \in ToSet(kernel_main) \cup {"real_mode", "loader", "next_sector", "start", "resolve", "header", "root",
                                     "resolved", "not_resolved", "user", "panic", "undefined"}
  /\ drive.lba \in 0 .. (LoadSectors + 1) /\ drive.sectors \in 0 .. LoadSectors
  /\ memory \in Seq(Nat) /\ Len(memory) <= LoadSectors
  /\ cpu \subseteq {"a20", "pic", "gdtr", "idtr", "tr", "cr3", "paging"} /\ tss \in BOOLEAN
  /\ commands \subseteq {"sum", "print"} /\ current_task \in {NONE, "task"}

(* When kernel_main runs, every sector of the kernel is at its place from  *)
(* 1 MB on: the boot loader's loop of polls and copies missed none and     *)
(* took none twice.                                                        *)
KernelInMemory ==
  pc \notin {"real_mode", "loader", "next_sector"} => \A s \in 1 .. KernelSectors : memory[s] = s

(* Nothing is used before it is set up: the kernel when it is entered, the *)
(* A20 line for what is loaded to 1 MB, the heap when anything is          *)
(* allocated, the file systems when the disk is searched, the kernel's     *)
(* tables when paging is on, and the segment of the TSS when the TSS is    *)
(* loaded.                                                                 *)
SetUpBeforeUse ==
  /\ TypeOK /\ KernelInMemory
  /\ memory # <<>> => "a20" \in cpu
  /\ pc \in {"resolve", "header", "root", "resolved", "not_resolved", "chunk", "load"} => NONE \notin heap
  /\ pc = "resolve" => \E s \in 1 .. FsSlots : filesystems[s] # NONE
  /\ "paging" \in cpu => "cr3" \in cpu /\ "kernel_chunk" \in heap
  /\ "tr" \in cpu => "gdtr" \in cpu /\ tss

(* Every segment at the address of tss that encodeGdtEntry does not refuse *)
(* is the one that the processor reads, on both sides of every boundary of *)
(* the limit's fields; tss may have any address.                           *)
EncodingExact ==
  pc = "gdt" =>
    \A limit \in 0 .. (Word - 1) :
      LET source == [base |-> tss_address, limit |-> limit, type |-> "tss"]
      IN  ~Refused(source) => Decoded(encodeGdtEntry(source)) = source

(* Once the disk was searched it either has a file system, with its        *)
(* private data, its streams and its root directory, or it has none and    *)
(* points to nothing, wherever fat16_resolve failed; and at no time does   *)
(* it point to private data that was freed.                                *)
DiskWholeOrNone ==
  /\ disk.fs_private # NONE => disk.fs_private \in heap
  /\ pc \in {"idt", "tss", "chunk", "paging", "commands", "load", "run", "user"} =>
       /\ "stream" \notin heap
       /\ \/ disk.filesystem = NONE /\ disk.fs_private = NONE
          \/ /\ disk.filesystem = "FAT16" /\ disk.fs_private = "private"
             /\ {"cluster_read_stream", "fat_read_stream", "directory_stream", "root_directory"}
                  \subseteq heap

(* The address that the processor makes of a gate. *)
GateAddress(gate) == gate.offset_1 + (gate.offset_2 * Half)

(* User code starts only on a machine that is ready for it: its segments   *)
(* and the TSS are those of gdt_structured, the stack of its interrupts is *)
(* set, paging is on, every vector has a handler and int 0x80 reaches      *)
(* isr80h_wrapper with both commands registered, and the task is there.    *)
ReadyForUser ==
  pc = "user" =>
    /\ cpu = {"a20", "pic", "gdtr", "idtr", "tr", "cr3", "paging"} /\ tss
    /\ \A i \in 1 .. 6 : Decoded(gdt[i]) = gdt_structured(tss_address)[i]
    /\ \A v \in Vectors : GateAddress(idt[v]) \in {Handler[h] : h \in DOMAIN Handler}
    /\ GateAddress(idt["syscall"]) = Handler["isr80h_wrapper"]
    /\ commands = {"sum", "print"}
    /\ disk.filesystem # NONE /\ current_task \in heap

(* Booting ends: in user code, in a panic, or polling a drive that failed. *)
BootEnds == <>(pc \in {"user", "panic", "undefined"} \/ drive.status = "error")
=============================================================================
