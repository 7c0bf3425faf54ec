------------------------------- MODULE Kernel -------------------------------
(***************************************************************************)
(* The running kernel: a user task, the int 0x80 gate with its two         *)
(* commands, the address spaces it switches between, and the interrupts of *)
(* the master PIC (src/idt, src/isr80h, src/task, src/memory/paging).      *)
(*                                                                         *)
(* Every gate is an interrupt gate (type_attr 0xEE), so the processor      *)
(* clears IF on entry and no handler is interrupted; a handler is still    *)
(* several steps, because it changes address space between them.           *)
(*                                                                         *)
(* Memory is pages of two words, and a word is the number of a page: the   *)
(* two words of a stack page are the items that task_get_stack_item reads, *)
(* a pointer is a word, and a string is the contents of its page.          *)
(***************************************************************************)
EXTENDS Integers

CONSTANTS
  Tasks,       \* the tasks of the list that starts at task_head
  ProgPage,    \* page of LAMEOS_PROGRAM_VIRTUAL_ADDRESS
  StackPage,   \* page of the user stack
  HeapPages,   \* the pages of the kernel heap
  ProgFrame,   \* process->ptr of each task: where ProgPage is mapped
  StackFrame,  \* process->stack of each task: where StackPage is mapped
  WordMod,     \* the number of words; 2^32 in the code
  Commands,    \* the values user code leaves in eax
  Args,        \* the pairs of words user code pushes before it traps
  Irqs         \* the interrupt lines of the master PIC, by priority

Word     == 0 .. (WordMod - 1)
Page     == Word
Contents == Word \X Word
ZEROES   == <<0, 0>>

SYSTEM_COMMAND0_SUM   == 0
SYSTEM_COMMAND1_PRINT == 1

(* The commands that isr80h_register_commands registers. *)
RegisteredCommands == {SYSTEM_COMMAND0_SUM, SYSTEM_COMMAND1_PRINT}

KEYBOARD_IRQ          == 1
KERNEL                == "kernel"

(* The frames that process_load gave to the tasks. *)
OwnedFrames == {ProgFrame[t] : t \in Tasks} \cup {StackFrame[t] : t \in Tasks}

ASSUME KernelAssumption ==
  /\ WordMod \in Nat \ {0}
  /\ KERNEL \notin Tasks
  /\ HeapPages \subseteq Page /\ ProgPage \in Page \ HeapPages
  /\ StackPage \in Page \ HeapPages /\ StackPage # ProgPage
  /\ ProgFrame \in [Tasks -> HeapPages] /\ StackFrame \in [Tasks -> HeapPages]
  /\ \A s, t \in Tasks : ProgFrame[s] # StackFrame[t]
  /\ \A s, t \in Tasks : s # t => ProgFrame[s] # ProgFrame[t] /\ StackFrame[s] # StackFrame[t]
  /\ Commands \subseteq Int /\ Args \subseteq Contents
  /\ Irqs \subseteq Nat

VARIABLES
  pc,           \* "user", or the step of the handler that runs
  cr3,          \* the directory paging_switch loaded: KERNEL or a task's
  ds,           \* the data segment registers: "kernel" or "user"
  intf,         \* the interrupt flag
  current_task,
  tables,       \* the page tables of each task's directory
  mem,          \* physical pages
  used,         \* heap pages that are allocated
  kept,         \* the heap pages that were allocated before user code ran
  regs,         \* the registers of the user program
  frame,        \* the interrupt frame on the kernel stack
  saved,        \* task->registers of each task
  k,            \* locals of the running command
  printed,      \* what the last print wrote to the screen
  irr, isr      \* requested and in-service lines of the PIC

vars == <<pc, cr3, ds, intf, current_task, tables, mem, used, kept, regs, frame,
          saved, k, printed, irr, isr>>

-----------------------------------------------------------------------------
(* Address spaces *)

Pte == [frame : Page, writable : BOOLEAN]

(* A task's directory after task_init and process_map_memory: everything   *)
(* mapped to itself read-only, the program and its stack writable.         *)
BootTable(t) ==
  [p \in Page |->
     IF p = ProgPage THEN [frame |-> ProgFrame[t], writable |-> TRUE]
     ELSE IF p = StackPage THEN [frame |-> StackFrame[t], writable |-> TRUE]
     ELSE [frame |-> p, writable |-> FALSE]]

(* The physical page behind a virtual one; the kernel's directory maps     *)
(* every page to itself.                                                   *)
Translate(dir, p) == IF dir = KERNEL THEN p ELSE tables[dir][p].frame

Registers == [eax : Int, esp : Page, ebx : Word]

NoLocals ==
  [index |-> 0, then |-> "none", v2 |-> 0, ptr |-> 0, tmp |-> 0,
   old |-> [frame |-> 0, writable |-> FALSE], buf |-> ZEROES, res |-> 0]

(* task_return: iretd into the task, with IF set in the flags it pushes. *)
task_return == pc = "user" /\ ds = "user" /\ intf = TRUE

Init ==
  /\ current_task \in Tasks
  /\ tables = [t \in Tasks |-> BootTable(t)]
  /\ mem = [p \in Page |-> <<p, p>>]
  /\ kept \in {U \in SUBSET HeapPages : OwnedFrames \subseteq U}
  /\ used = kept
  /\ cr3 = current_task /\ task_return   \* task_run_first_ever_task
  /\ regs = [eax |-> 0, esp |-> StackPage, ebx |-> 0]
  /\ frame = regs
  /\ saved = [t \in Tasks |-> regs]
  /\ k = NoLocals
  /\ printed = ZEROES
  /\ irr = {} /\ isr = {}

-----------------------------------------------------------------------------
(* User code and interrupt entry *)

(* The user program writes two words to a page it may write, points esp at *)
(* them and executes int 0x80; the processor and pushad leave its          *)
(* registers in the frame.  A pending interrupt is taken before the next   *)
(* instruction.                                                            *)
UserTraps ==
  /\ pc = "user" /\ irr = {}
  /\ \E cmd \in Commands, sp \in Page, arg \in Args :
       /\ tables[cr3][sp].writable
       /\ mem' = [mem EXCEPT ![Translate(cr3, sp)] = arg]
       /\ regs' = [eax |-> cmd, esp |-> sp, ebx |-> arg[2]]
  /\ frame' = regs'
  /\ intf' = FALSE
  /\ pc' = "isr80h_handler"
  /\ UNCHANGED <<cr3, ds, current_task, tables, used, kept, saved, k, printed, irr, isr>>

(* Every gate may be entered from user code: int 0x21 runs the keyboard    *)
(* handler, and every vector without a handler of its own no_interrupt.    *)
(* Vector 0 and the exceptions with an error code are left out.            *)
UserInterrupts ==
  /\ pc = "user" /\ irr = {}
  /\ frame' = regs
  /\ intf' = FALSE
  /\ pc' \in {"int21h", "no_interrupt"}
  /\ UNCHANGED <<cr3, ds, current_task, tables, mem, used, kept, regs, saved, k,
                 printed, irr, isr>>

(* A device asks for service, at any time. *)
IrqRaised(i) ==
  /\ i \notin irr
  /\ irr' = irr \cup {i}
  /\ UNCHANGED <<pc, cr3, ds, intf, current_task, tables, mem, used, kept, regs, frame,
                 saved, k, printed, isr>>

(* The PIC interrupts the processor with its most urgent request, unless   *)
(* one at least as urgent is in service.                                   *)
IrqTaken(i) ==
  /\ pc = "user" /\ intf
  /\ i \in irr /\ \A j \in irr : i <= j
  /\ \A j \in isr : i < j
  /\ irr' = irr \ {i}
  /\ isr' = isr \cup {i}
  /\ intf' = FALSE
  /\ frame' = regs
  /\ pc' = IF i = KEYBOARD_IRQ THEN "int21h" ELSE "no_interrupt"
  /\ UNCHANGED <<cr3, ds, current_task, tables, mem, used, kept, regs, saved, k, printed>>

(* outb (0x20, 0x20): the most urgent line in service is acknowledged. *)
EndOfInterrupt == isr' = {j \in isr : \E h \in isr : h < j}

(* popad and iret at the end of int21h and no_interrupt. *)
Iret ==
  /\ regs' = frame
  /\ intf' = TRUE
  /\ pc' = "user"

(* Mutant of int21h_handler: the interrupt is not acknowledged. *)
KeyNotAcknowledged ==
  /\ pc = "int21h"
  /\ Iret
  /\ UNCHANGED <<cr3, ds, current_task, tables, mem, used, kept, frame, saved, k,
                 printed, irr, isr>>

(* int21h: the message is no string of a task. *)
int21h_handler ==
  /\ pc = "int21h"
  /\ EndOfInterrupt
  /\ Iret
  /\ UNCHANGED <<cr3, ds, current_task, tables, mem, used, kept, frame, saved, k, printed, irr>>

no_interrupt_handler ==
  /\ pc = "no_interrupt"
  /\ EndOfInterrupt
  /\ Iret
  /\ UNCHANGED <<cr3, ds, current_task, tables, mem, used, kept, frame, saved, k, printed, irr>>

-----------------------------------------------------------------------------
(* isr80h_handler *)

kernel_registers == ds' = "kernel"

user_registers == ds' = "user"

(* kernel_page: the segment registers and paging_switch (kernel_chunk). *)
kernel_page == kernel_registers /\ cr3' = KERNEL

(* task_page_task: the segment registers and the directory of the task. *)
task_page_task(t) == user_registers /\ cr3' = t

(* task_save_state copies the frame field by field. *)
task_save_state(t) == saved' = [saved EXCEPT ![t] = frame]

(* isr80h_handler begins with kernel_page and task_current_save_state. *)
isr80h_handler ==
  /\ pc = "isr80h_handler"
  /\ kernel_page
  /\ task_save_state(current_task)
  /\ pc' = "isr80h_handle_command"
  /\ UNCHANGED <<intf, current_task, tables, mem, used, kept, regs, frame, k, printed, irr, isr>>

(* Mutant of isr80h_handle_command: an unknown command is tried again. *)
UnknownCommandRetried ==
  /\ pc = "isr80h_handle_command"
  /\ \/ /\ frame.eax = SYSTEM_COMMAND0_SUM
        /\ k' = [k EXCEPT !.index = 1, !.then = "sum"]
        /\ pc' = "task_get_stack_item"
     \/ /\ frame.eax = SYSTEM_COMMAND1_PRINT
        /\ k' = [k EXCEPT !.index = 0, !.then = "print"]
        /\ pc' = "task_get_stack_item"
     \/ /\ frame.eax \notin RegisteredCommands
        /\ UNCHANGED <<pc, k>>
  /\ UNCHANGED <<cr3, ds, intf, current_task, tables, mem, used, kept, regs, frame,
                 saved, printed, irr, isr>>

(* isr80h_handle_command: the registered commands read a stack item first, *)
(* every other value, out of the table's range or without an entry in it,  *)
(* returns 0.                                                              *)
isr80h_handle_command ==
  /\ pc = "isr80h_handle_command"
  /\ \/ /\ frame.eax = SYSTEM_COMMAND0_SUM
        /\ k' = [k EXCEPT !.index = 1, !.then = "sum"]
        /\ pc' = "task_get_stack_item"
     \/ /\ frame.eax = SYSTEM_COMMAND1_PRINT
        /\ k' = [k EXCEPT !.index = 0, !.then = "print"]
        /\ pc' = "task_get_stack_item"
     \/ /\ frame.eax \notin RegisteredCommands
        /\ k' = [k EXCEPT !.res = 0]
        /\ pc' = "task_page"
  /\ UNCHANGED <<cr3, ds, intf, current_task, tables, mem, used, kept, regs, frame,
                 saved, printed, irr, isr>>

(* task_get_stack_item enters the task's address space ... *)
task_get_stack_item ==
  /\ pc = "task_get_stack_item"
  /\ task_page_task(current_task)
  /\ pc' = "read_stack_item"
  /\ UNCHANGED <<intf, current_task, tables, mem, used, kept, regs, frame, saved, k,
                 printed, irr, isr>>

(* ... reads sp_ptr[index] there, and returns through kernel_page to the   *)
(* command: sum reads item 1, then item 0 and adds; print goes on with the *)
(* pointer.                                                                *)
read_stack_item ==
  LET item == mem[Translate(cr3, saved[current_task].esp)][k.index + 1]
  IN  /\ pc = "read_stack_item"
      /\ kernel_page
      /\ \/ /\ k.then = "sum" /\ k.index = 1
            /\ k' = [k EXCEPT !.v2 = item, !.index = 0]
            /\ pc' = "task_get_stack_item"
         \/ /\ k.then = "sum" /\ k.index = 0
            /\ k' = [k EXCEPT !.res = (k.v2 + item) % WordMod]
            /\ pc' = "task_page"
         \/ /\ k.then = "print"
            /\ k' = [k EXCEPT !.ptr = item]
            /\ pc' = "copy_string_from_task"
      /\ UNCHANGED <<intf, current_task, tables, mem, used, kept, regs, frame, saved,
                     printed, irr, isr>>

-----------------------------------------------------------------------------
(* copy_string_from_task and print *)

(* Mutant of copy_string_from_task: the task's directory is not loaded. *)
CopyInKernelSpace ==
  /\ pc = "copy_string_from_task"
  /\ \E tmp \in HeapPages \ used :
       /\ used' = used \cup {tmp}
       /\ mem' = [mem EXCEPT ![tmp] = ZEROES]
       /\ k' = [k EXCEPT !.tmp = tmp, !.old = tables[current_task][tmp]]
       /\ tables' = [tables EXCEPT ![current_task][tmp] =
                       [frame |-> tmp, writable |-> TRUE]]
  /\ pc' = "strncpy"
  /\ UNCHANGED <<cr3, ds, intf, current_task, kept, regs, frame, saved, printed, irr, isr>>

(* kzalloc of the temporary page, which is mapped to itself in the task's  *)
(* directory while that directory is loaded.  The test of max in front of  *)
(* it cannot fail: the one caller passes 1024, less than a page.           *)
copy_string_from_task ==
  /\ pc = "copy_string_from_task"
  /\ \E tmp \in HeapPages \ used :
       /\ used' = used \cup {tmp}
       /\ mem' = [mem EXCEPT ![tmp] = ZEROES]
       /\ k' = [k EXCEPT !.tmp = tmp, !.old = tables[current_task][tmp]]
       /\ tables' = [tables EXCEPT ![current_task][tmp] =
                       [frame |-> tmp, writable |-> TRUE]]
  /\ cr3' = current_task
  /\ pc' = "strncpy"
  /\ UNCHANGED <<ds, intf, current_task, kept, regs, frame, saved, printed, irr, isr>>

(* kzalloc fails: the caller ignores -ENOMEM, and prints a buffer on its   *)
(* stack that nothing has written.                                         *)
copy_string_fails ==
  /\ pc = "copy_string_from_task"
  /\ HeapPages \subseteq used
  /\ \E junk \in Args \cup {ZEROES} : k' = [k EXCEPT !.buf = junk, !.tmp = 0]
  /\ pc' = "print"
  /\ UNCHANGED <<cr3, ds, intf, current_task, tables, mem, used, kept, regs, frame,
                 saved, printed, irr, isr>>

(* Mutant of strncpy_in_task: the page is given back as soon as the string *)
(* is in it, while the task's directory still maps it.                     *)
TmpFreedEarly ==
  /\ pc = "strncpy"
  /\ mem' = [mem EXCEPT ![Translate(cr3, k.tmp)] = mem[Translate(cr3, k.ptr)]]
  /\ used' = used \ {k.tmp}
  /\ kernel_page
  /\ pc' = "paging_set"
  /\ UNCHANGED <<intf, current_task, tables, kept, regs, frame, saved, k, printed, irr, isr>>

(* strncpy (tmp, virtual, max) in the task's address space, and kernel_page *)
strncpy_in_task ==
  /\ pc = "strncpy"
  /\ mem' = [mem EXCEPT ![Translate(cr3, k.tmp)] = mem[Translate(cr3, k.ptr)]]
  /\ kernel_page
  /\ pc' = "paging_set"
  /\ UNCHANGED <<intf, current_task, tables, used, kept, regs, frame, saved, k,
                 printed, irr, isr>>

(* Mutant of restore_entry: the old entry is not written back. *)
EntryNotRestored ==
  /\ pc = "paging_set"
  /\ pc' = "strncpy_out"
  /\ UNCHANGED <<cr3, ds, intf, current_task, tables, mem, used, kept, regs, frame, saved,
                 k, printed, irr, isr>>

(* paging_set of the old entry.  It cannot fail: a heap block is           *)
(* page-aligned.                                                           *)
restore_entry ==
  /\ pc = "paging_set"
  /\ tables' = [tables EXCEPT ![current_task][k.tmp] = k.old]
  /\ pc' = "strncpy_out"
  /\ UNCHANGED <<cr3, ds, intf, current_task, mem, used, kept, regs, frame, saved, k,
                 printed, irr, isr>>

(* strncpy (phys, tmp, max): to the buffer on the kernel's stack. *)
strncpy_out ==
  /\ pc = "strncpy_out"
  /\ k' = [k EXCEPT !.buf = mem[Translate(cr3, k.tmp)]]
  /\ pc' = "kfree"
  /\ UNCHANGED <<cr3, ds, intf, current_task, tables, mem, used, kept, regs, frame, saved,
                 printed, irr, isr>>

(* kfree (tmp), at out_free, and the return to isr80h_command1_print. *)
kfree_tmp ==
  /\ pc = "kfree"
  /\ used' = used \ {k.tmp}
  /\ pc' = "print"
  /\ UNCHANGED <<cr3, ds, intf, current_task, tables, mem, kept, regs, frame, saved, k,
                 printed, irr, isr>>

(* print (buf) at the end of isr80h_command1_print. *)
print ==
  /\ pc = "print"
  /\ printed' = k.buf
  /\ k' = [k EXCEPT !.res = 0]
  /\ pc' = "task_page"
  /\ UNCHANGED <<cr3, ds, intf, current_task, tables, mem, used, kept, regs, frame,
                 saved, irr, isr>>

(* Mutant of task_page: only the segment registers are restored. *)
TaskPageWithoutSwitch ==
  /\ pc = "task_page"
  /\ ds' = "user"
  /\ pc' = "iretd"
  /\ UNCHANGED <<cr3, intf, current_task, tables, mem, used, kept, regs, frame,
                 saved, k, printed, irr, isr>>

(* task_page at the end of isr80h_handler: user_registers and task_switch. *)
task_page ==
  /\ pc = "task_page"
  /\ task_page_task(current_task)
  /\ pc' = "iretd"
  /\ UNCHANGED <<intf, current_task, tables, mem, used, kept, regs, frame, saved, k,
                 printed, irr, isr>>

(* isr80h_wrapper restores the registers from the frame, puts the result   *)
(* in eax and returns to the user program.                                 *)
isr80h_returns ==
  /\ pc = "iretd"
  /\ regs' = [frame EXCEPT !.eax = k.res]
  /\ intf' = TRUE
  /\ pc' = "user"
  /\ k' = NoLocals
  /\ UNCHANGED <<cr3, ds, current_task, tables, mem, used, kept, frame, saved,
                 printed, irr, isr>>

-----------------------------------------------------------------------------

Handler ==
  \/ isr80h_handler \/ isr80h_handle_command \/ task_get_stack_item
  \/ read_stack_item \/ copy_string_from_task \/ copy_string_fails
  \/ strncpy_in_task \/ restore_entry \/ strncpy_out \/ kfree_tmp \/ print
  \/ task_page \/ isr80h_returns \/ int21h_handler \/ no_interrupt_handler

Next ==
  \/ UserTraps \/ UserInterrupts
  \/ \E i \in Irqs : IrqRaised(i) \/ IrqTaken(i)
  \/ Handler

(* Handlers run to their end with interrupts off, and the processor looks  *)
(* for interrupts between two instructions; user code and devices owe      *)
(* nothing.                                                                *)
Fairness == WF_vars(Handler) /\ \A i \in Irqs : WF_vars(IrqTaken(i))

Spec == Init /\ [][Next]_vars /\ Fairness

-----------------------------------------------------------------------------
(* Properties *)

TypeOK ==
  /\ cr3 \in Tasks \cup {KERNEL} /\ ds \in {"kernel", "user"} /\ intf \in BOOLEAN
  /\ current_task \in Tasks
  /\ tables \in [Tasks -> [Page -> Pte]]
  /\ mem \in [Page -> Contents]
  /\ used \subseteq HeapPages
  /\ regs \in Registers /\ frame \in Registers /\ saved \in [Tasks -> Registers]
  /\ irr \subseteq Irqs /\ isr \subseteq Irqs

(* Whatever the handlers did on the way (address spaces entered and left,  *)
(* commands and allocations refused), the user program runs in its own     *)
(* address space, with user data segments, interrupts on and no line of    *)
(* the PIC left in service.                                                *)
UserContext ==
  pc = "user" => cr3 = current_task /\ ds = "user" /\ intf /\ isr = {}

(* The kernel is back on its own segments and directory whenever it works  *)
(* on its own data between two looks at the task's memory.                 *)
KernelContext ==
  pc \in {"isr80h_handle_command", "copy_string_from_task", "paging_set", "strncpy_out",
          "kfree", "print"}
    => cr3 = KERNEL /\ ds = "kernel"

(* Both, and the state is well typed. *)
RightContext == TypeOK /\ UserContext /\ KernelContext

(* While copy_string_from_task uses its temporary page, and as long as any *)
(* directory maps a page that process_load did not give the task, that     *)
(* page is allocated: the entry is restored and the string is out of the   *)
(* page before kfree lets the heap hand it to somebody else.               *)
TmpHeldWhileUsed ==
  /\ \A t \in Tasks : \A p \in Page : tables[t][p] # BootTable(t)[p] => p \in used \ kept
  /\ pc \in {"strncpy", "paging_set", "strncpy_out", "kfree"} => k.tmp \in used \ kept

(* A system call leaves nothing behind: the mapping that                   *)
(* copy_string_from_task makes in the task's directory is undone, the heap *)
(* page it took is free again, and on the way no page is in use that is    *)
(* free.                                                                   *)
CallLeavesNoTrace ==
  /\ pc = "user" => used = kept /\ \A t \in Tasks : tables[t] = BootTable(t)
  /\ TmpHeldWhileUsed

(* What the running task itself sees at a page. *)
TaskView(p) == mem[BootTable(current_task)[p].frame]

(* The stack items that the user program passed. *)
Item(n) == TaskView(regs.esp)[n + 1]

(* sum returns the sum of the caller's own two stack items, in 32 bits. *)
SumCorrect ==
  pc = "iretd" /\ regs.eax = SYSTEM_COMMAND0_SUM =>
    k.res = (Item(0) + Item(1)) % WordMod

(* print prints the string that its caller sees at the pointer it passed,  *)
(* unless no memory was left or the pointer names a page of the heap that  *)
(* nobody had allocated.                                                   *)
PrintCorrect ==
  pc = "print" /\ kept # HeapPages /\ Item(0) \notin HeapPages \ kept =>
    k.buf = TaskView(Item(0))

(* Whatever the caller's memory holds, and whatever other calls and        *)
(* interrupts came before, both commands work on the caller's own words.   *)
AnswersCorrect == SumCorrect /\ PrintCorrect

(* Handlers write only to heap pages that nobody had allocated, and user   *)
(* code only to the program and stack pages of its own process.            *)
WritesOwnPages ==
  [][\A p \in Page : mem'[p] # mem[p] =>
       IF pc = "user" THEN p \in {ProgFrame[current_task], StackFrame[current_task]}
                      ELSE p \in HeapPages \ kept]_vars

(* A request of a device is served, unless more urgent ones keep coming:   *)
(* no system call returns with interrupts off, and every handler           *)
(* acknowledges the line it served.                                        *)
IrqsServed ==
  \A i \in Irqs :
    <>[](\A j \in Irqs : j < i => j \notin irr) => (i \in irr ~> i \notin irr)

(* Every system call returns. *)
CallsReturn == pc = "isr80h_handler" ~> pc = "user"
=============================================================================
