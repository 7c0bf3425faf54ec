---------------------------- MODULE KernelProofs ----------------------------
(***************************************************************************)
(* Proofs about system calls and interrupts, for every number of tasks and *)
(* interrupt lines, every layout of the pages, every size of a word and    *)
(* whatever user code leaves in its registers and on its stack.            *)
(***************************************************************************)
EXTENDS Kernel, TLAPS

-----------------------------------------------------------------------------
(* The inductive invariant *)

Locals ==
  [index : {0, 1}, then : {"none", "sum", "print"}, v2 : Word, ptr : Word, tmp : Page,
   old : Pte, buf : Contents, res : Word]

(* The steps on the kernel's own directory, those of a handler that stays  *)
(* on the task's, those while the temporary page is mapped, and those      *)
(* while it is allocated.                                                  *)
KernelSteps == {"isr80h_handle_command", "task_get_stack_item", "copy_string_from_task",
                "paging_set", "strncpy_out", "kfree", "print", "task_page"}
TaskSteps   == {"user", "isr80h_handler", "read_stack_item", "iretd", "int21h", "no_interrupt"}
Mapped      == {"strncpy", "paging_set"}
Holding     == Mapped \cup {"strncpy_out", "kfree"}

KernelTypes ==
  /\ TypeOK
  /\ k \in Locals /\ kept \subseteq HeapPages /\ OwnedFrames \subseteq kept
  /\ pc \in KernelSteps \cup TaskSteps \cup Mapped

(* The directory, the segments, the interrupt flag and the line in service *)
(* at every step.                                                          *)
Contexts ==
  /\ pc \in KernelSteps => cr3 = KERNEL /\ ds = "kernel"
  /\ pc \in TaskSteps => cr3 = current_task /\ ds = "user"
  /\ pc = "strncpy" => cr3 = current_task
  /\ intf <=> pc = "user"
  /\ IF pc \in {"int21h", "no_interrupt"} THEN \A i, j \in isr : i = j ELSE isr = {}

(* The entry of the temporary page is the only one that ever differs from  *)
(* the tables process_load made, and its page the only one taken.          *)
TmpPage ==
  /\ pc \in Holding => k.tmp \in HeapPages \ kept
  /\ pc \in Mapped => k.old = BootTable(current_task)[k.tmp]
  /\ used = IF pc \in Holding THEN kept \cup {k.tmp} ELSE kept
  /\ tables = [t \in Tasks |->
       IF t = current_task /\ pc \in Mapped
       THEN [BootTable(t) EXCEPT ![k.tmp] = [frame |-> k.tmp, writable |-> TRUE]]
       ELSE BootTable(t)]

(* Where the registers of the user program are. *)
RegistersKept ==
  /\ regs.esp \in {ProgPage, StackPage}
  /\ pc # "user" => frame = regs
  /\ pc \notin {"user", "isr80h_handler", "int21h", "no_interrupt"} => saved[current_task] = regs

(* What the commands have found out so far. *)
CommandState ==
  /\ pc \in {"task_get_stack_item", "read_stack_item"} =>
       \/ k.then = "sum" /\ regs.eax = SYSTEM_COMMAND0_SUM /\ (k.index = 0 => k.v2 = Item(1))
       \/ k.then = "print" /\ regs.eax = SYSTEM_COMMAND1_PRINT /\ k.index = 0
  /\ pc \in {"copy_string_from_task"} \cup Holding =>
       regs.eax = SYSTEM_COMMAND1_PRINT /\ k.ptr = Item(0)
  /\ Item(0) \notin HeapPages \ kept =>
       /\ pc \in {"paging_set", "strncpy_out"} => mem[k.tmp] = TaskView(Item(0))
       /\ pc = "kfree" => k.buf = TaskView(Item(0))
  /\ pc = "print" => regs.eax = SYSTEM_COMMAND1_PRINT
  /\ pc \in {"task_page", "iretd"} /\ regs.eax = SYSTEM_COMMAND0_SUM =>
       k.res = (Item(0) + Item(1)) % WordMod
  /\ PrintCorrect

KernelInv == KernelTypes /\ Contexts /\ TmpPage /\ RegistersKept /\ CommandState

-----------------------------------------------------------------------------
(* Lemmas about the address spaces *)

(* A new directory has an entry for every page; a task's two pages lead to *)
(* the frames of its own process, every other page to itself.              *)
LEMMA BootTableFacts ==
  ASSUME NEW t \in Tasks
  PROVE  /\ BootTable(t) \in [Page -> Pte]
         /\ \A p \in Page : BootTable(t)[p].frame \in Page
         /\ BootTable(t)[ProgPage].frame = ProgFrame[t] /\ BootTable(t)[ProgPage].writable
         /\ BootTable(t)[StackPage].frame = StackFrame[t] /\ BootTable(t)[StackPage].writable
         /\ \A p \in Page : p \notin {ProgPage, StackPage} =>
              BootTable(t)[p].frame = p /\ ~BootTable(t)[p].writable
<1>1. ProgFrame[t] \in Page /\ StackFrame[t] \in Page /\ ProgPage \in Page /\ StackPage \in Page
      /\ ProgPage # StackPage
  BY KernelAssumption
<1> QED BY <1>1 DEF BootTable, Pte

(* The frames of a task's process are not free. *)
LEMMA FramesOwned ==
  ASSUME NEW t \in Tasks, OwnedFrames \subseteq kept
  PROVE  ProgFrame[t] \in kept /\ StackFrame[t] \in kept
BY DEF OwnedFrames

(* What a task sees does not change when a page is written that it sees    *)
(* nowhere.                                                                *)
LEMMA ViewUnchanged ==
  ASSUME KernelInv, current_task' = current_task, NEW q \in HeapPages \ kept,
         NEW v, mem' = [mem EXCEPT ![q] = v]
  PROVE  /\ \A p \in Page : p # q => TaskView(p)' = TaskView(p)
         /\ regs' = regs => \A i \in {0, 1} : Item(i)' = Item(i)
<1>1. current_task \in Tasks /\ OwnedFrames \subseteq kept /\ mem \in [Page -> Contents]
  BY DEF KernelInv, KernelTypes, TypeOK
<1>2. BootTable(current_task)' = BootTable(current_task)
  BY DEF BootTable
<1>3. ASSUME NEW p \in Page, p # q
      PROVE  TaskView(p)' = TaskView(p)
  <2>1. BootTable(current_task)[p].frame \in Page /\ BootTable(current_task)[p].frame # q
    <3>1. CASE p \in {ProgPage, StackPage}
      <4>1. BootTable(current_task)[p].frame \in kept
        BY <1>1, <3>1, BootTableFacts, FramesOwned
      <4> QED BY <4>1, KernelAssumption DEF KernelInv, KernelTypes
    <3>2. CASE p \notin {ProgPage, StackPage}
      BY <1>1, <1>3, <3>2, BootTableFacts
    <3> QED BY <3>1, <3>2
  <2> QED BY <1>1, <1>2, <2>1 DEF TaskView
<1>4. regs.esp \in Page /\ regs.esp # q
  BY KernelAssumption DEF KernelInv, RegistersKept
<1> QED BY <1>3, <1>4 DEF Item

(* The two items that a program passes are words. *)
LEMMA ItemsAreWords ==
  ASSUME KernelInv
  PROVE  /\ \A p \in Page : TaskView(p) \in Contents
         /\ Item(0) \in Word /\ Item(1) \in Word
<1>1. current_task \in Tasks /\ mem \in [Page -> Contents] /\ regs.esp \in Page
  BY KernelAssumption DEF KernelInv, KernelTypes, RegistersKept, TypeOK
<1>2. \A p \in Page : BootTable(current_task)[p].frame \in Page
  BY <1>1, BootTableFacts DEF Pte
<1>3. \A p \in Page : TaskView(p) \in Contents
  BY <1>1, <1>2 DEF TaskView
<1> QED BY <1>1, <1>3 DEF Item, Contents

(* On the task's directory, a page that is not the temporary one is looked *)
(* up as the task sees it.                                                 *)
LEMMA TranslateInTask ==
  ASSUME KernelInv, cr3 = current_task, NEW p \in Page, pc \in Mapped => p # k.tmp
  PROVE  mem[Translate(cr3, p)] = TaskView(p)
<1>1. current_task \in Tasks /\ cr3 # KERNEL
  BY KernelAssumption DEF KernelInv, KernelTypes, TypeOK
<1>2. tables[current_task][p] = BootTable(current_task)[p]
  BY <1>1, BootTableFacts DEF KernelInv, TmpPage
<1> QED BY <1>1, <1>2 DEF Translate, TaskView

-----------------------------------------------------------------------------
(* The steps *)

(* The locals that a command changes stay well typed. *)
LEMMA LocalsTyped ==
  ASSUME k \in Locals
  PROVE  /\ NoLocals \in Locals
         /\ \A i \in {0, 1}, c \in {"sum", "print"} : [k EXCEPT !.index = i, !.then = c] \in Locals
         /\ \A w \in Word : /\ [k EXCEPT !.res = w] \in Locals /\ [k EXCEPT !.ptr = w] \in Locals
                            /\ [k EXCEPT !.v2 = w, !.index = 0] \in Locals
         /\ \A q \in Page, e \in Pte : [k EXCEPT !.tmp = q, !.old = e] \in Locals
         /\ \A c \in Contents : /\ [k EXCEPT !.buf = c] \in Locals
                                /\ [k EXCEPT !.buf = c, !.tmp = 0] \in Locals
<1>1. 0 \in Word /\ 0 \in Page /\ ZEROES \in Contents
  BY KernelAssumption DEF Word, Page, Contents, ZEROES
<1>2. NoLocals \in Locals
  BY <1>1 DEF NoLocals, Locals, Pte
<1> QED BY <1>1, <1>2 DEF Locals

(* User code pushes its arguments and traps. *)
LEMMA TrapStep == KernelInv /\ UserTraps => KernelInv'
<1> SUFFICES ASSUME KernelInv, UserTraps PROVE KernelInv'
  OBVIOUS
<1>1. pc = "user" /\ cr3 = current_task /\ current_task \in Tasks /\ mem \in [Page -> Contents]
  BY DEF UserTraps, KernelInv, KernelTypes, TypeOK, Contexts, TaskSteps
<1>2. cr3 # KERNEL /\ tables = [t \in Tasks |-> BootTable(t)] /\ used = kept
  BY <1>1, KernelAssumption DEF KernelInv, TmpPage, Mapped, Holding
<1>3. PICK cmd \in Commands, sp \in Page, arg \in Args :
        /\ tables[cr3][sp].writable
        /\ mem' = [mem EXCEPT ![Translate(cr3, sp)] = arg]
        /\ regs' = [eax |-> cmd, esp |-> sp, ebx |-> arg[2]]
  BY DEF UserTraps
<1>4. sp \in {ProgPage, StackPage}
  BY <1>1, <1>2, <1>3, BootTableFacts
<1>5. Translate(cr3, sp) \in Page
  BY <1>1, <1>2, BootTableFacts DEF Translate, Pte
<1>6. arg \in Contents /\ arg[2] \in Word /\ cmd \in Int
  BY KernelAssumption DEF Contents
<1>7. mem' \in [Page -> Contents] /\ regs' \in Registers
  BY <1>1, <1>3, <1>5, <1>6 DEF Registers
<1>8. KernelTypes'
  BY <1>1, <1>7 DEF UserTraps, KernelInv, KernelTypes, TypeOK, KernelSteps, TaskSteps, Mapped
<1>9. Contexts'
  BY <1>1 DEF UserTraps, KernelInv, Contexts, KernelSteps, TaskSteps
<1>10. TmpPage'
  BY <1>1, <1>2 DEF UserTraps, TmpPage, Mapped, Holding, BootTable
<1>11. RegistersKept' /\ CommandState'
  BY <1>1, <1>3, <1>4 DEF UserTraps, RegistersKept, CommandState, PrintCorrect, Mapped, Holding
<1> QED BY <1>8, <1>9, <1>10, <1>11 DEF KernelInv

(* The steps that leave the tables, the heap, the memory and the           *)
(* registers as they are, outside the copy of a string.                    *)
Steady ==
  /\ UNCHANGED <<current_task, tables, mem, used, kept, regs>>
  /\ pc \notin Holding /\ pc' \notin Holding

(* Such a step keeps what the task sees and the temporary page. *)
LEMMA SteadyStep ==
  ASSUME KernelInv, Steady
  PROVE  /\ TmpPage' /\ regs'.esp \in {ProgPage, StackPage}
         /\ \A p \in Page : TaskView(p)' = TaskView(p)
         /\ Item(0)' = Item(0) /\ Item(1)' = Item(1)
<1>1. TmpPage'
  BY DEF Steady, KernelInv, TmpPage, Holding, BootTable
<1>2. regs'.esp \in {ProgPage, StackPage} /\ regs' = regs
  BY DEF Steady, KernelInv, RegistersKept
<1>3. \A p : TaskView(p)' = TaskView(p)
  BY DEF Steady, TaskView, BootTable
<1> QED BY <1>1, <1>2, <1>3 DEF Item

(* Interrupts from user code and from devices, and their handlers. *)
LEMMA InterruptStep ==
  ASSUME KernelInv,
         \/ UserInterrupts \/ int21h_handler \/ no_interrupt_handler
         \/ \E i \in Irqs : IrqRaised(i) \/ IrqTaken(i)
  PROVE  KernelInv'
<1>1. CASE UserInterrupts
  <2>1. Steady /\ pc' \in {"int21h", "no_interrupt"} /\ pc = "user"
    BY <1>1 DEF UserInterrupts, Steady, Mapped, Holding
  <2>2. KernelTypes' /\ Contexts'
    BY <1>1, <2>1 DEF UserInterrupts, KernelInv, KernelTypes, TypeOK, Contexts,
                      KernelSteps, TaskSteps, Mapped
  <2>3. RegistersKept' /\ CommandState'
    BY <1>1, <2>1, SteadyStep DEF UserInterrupts, RegistersKept, CommandState, PrintCorrect, Mapped, Holding
  <2> QED BY <2>1, <2>2, <2>3, SteadyStep DEF KernelInv
<1>2. CASE int21h_handler \/ no_interrupt_handler
  <2>1. Steady /\ pc \in {"int21h", "no_interrupt"} /\ pc' = "user"
    BY <1>2 DEF int21h_handler, no_interrupt_handler, Iret, Steady, Mapped, Holding, KernelInv, RegistersKept
  <2>2. isr' = {}
    <3>1. \A i, j \in isr : i = j
      BY <2>1 DEF KernelInv, Contexts
    <3>2. isr \subseteq Nat
      BY KernelAssumption DEF KernelInv, KernelTypes, TypeOK
    <3>3. isr' = {j \in isr : \E h \in isr : h < j}
      BY <1>2 DEF int21h_handler, no_interrupt_handler, EndOfInterrupt
    <3>4. ASSUME NEW j \in isr, NEW h \in isr PROVE ~(h < j)
      BY <3>1, <3>2
    <3> QED BY <3>3, <3>4
  <2>3. KernelTypes' /\ Contexts'
    BY <1>2, <2>1, <2>2
    DEF int21h_handler, no_interrupt_handler, Iret, KernelInv, KernelTypes, TypeOK, Contexts,
        KernelSteps, TaskSteps, Mapped
  <2>4. RegistersKept' /\ CommandState'
    BY <2>1, SteadyStep DEF RegistersKept, CommandState, PrintCorrect, Mapped, Holding
  <2> QED BY <2>1, <2>3, <2>4, SteadyStep DEF KernelInv
<1>3. ASSUME NEW i \in Irqs, IrqTaken(i) PROVE KernelInv'
  <2>1. Steady /\ pc = "user" /\ pc' \in {"int21h", "no_interrupt"} /\ isr = {}
    BY <1>3 DEF IrqTaken, Steady, Mapped, Holding, KernelInv, Contexts
  <2>2. isr' = {i} /\ irr' \subseteq Irqs
    BY <1>3, <2>1 DEF IrqTaken, KernelInv, KernelTypes, TypeOK
  <2>3. KernelTypes' /\ Contexts'
    BY <1>3, <2>1, <2>2
    DEF IrqTaken, KernelInv, KernelTypes, TypeOK, Contexts, KernelSteps, TaskSteps, Mapped
  <2>4. RegistersKept' /\ CommandState'
    BY <1>3, <2>1, SteadyStep DEF IrqTaken, RegistersKept, CommandState, PrintCorrect, Mapped, Holding
  <2> QED BY <2>1, <2>3, <2>4, SteadyStep DEF KernelInv
<1>4. ASSUME NEW i \in Irqs, IrqRaised(i) PROVE KernelInv'
  <2>1. KernelTypes' /\ Contexts' /\ RegistersKept'
    BY <1>4 DEF IrqRaised, KernelInv, KernelTypes, TypeOK, Contexts, RegistersKept
  <2>2. TmpPage'
    BY <1>4 DEF IrqRaised, KernelInv, TmpPage, BootTable
  <2>3. CommandState'
    BY <1>4 DEF IrqRaised, KernelInv, CommandState, PrintCorrect, Mapped, Holding, Item, TaskView, BootTable
  <2> QED BY <2>1, <2>2, <2>3 DEF KernelInv
<1> QED BY <1>1, <1>2, <1>3, <1>4

(* The gate and the reading of stack items, through both address spaces. *)
LEMMA CommandStep ==
  ASSUME KernelInv,
         isr80h_handler \/ isr80h_handle_command \/ task_get_stack_item \/ read_stack_item
  PROVE  KernelInv'
<1> USE DEF SYSTEM_COMMAND0_SUM, SYSTEM_COMMAND1_PRINT
<1>1. CASE isr80h_handler
  <2>1. Steady
    BY <1>1 DEF isr80h_handler, Steady, Mapped, Holding
  <2>2. saved' \in [Tasks -> Registers] /\ saved'[current_task] = frame
    BY <1>1 DEF isr80h_handler, task_save_state, KernelInv, KernelTypes, TypeOK
  <2>3. KernelTypes' /\ Contexts'
    BY <1>1, <2>2 DEF isr80h_handler, kernel_page, kernel_registers, KernelInv, KernelTypes, TypeOK,
                      Contexts, KernelSteps, TaskSteps, Mapped
  <2>4. RegistersKept' /\ CommandState'
    BY <1>1, <2>1, <2>2, SteadyStep
    DEF isr80h_handler, KernelInv, RegistersKept, CommandState, PrintCorrect, Mapped, Holding
  <2> QED BY <2>1, <2>3, <2>4, SteadyStep DEF KernelInv
<1>2. CASE isr80h_handle_command
  <2>1. Steady /\ frame = regs
    BY <1>2 DEF isr80h_handle_command, Steady, Mapped, Holding, KernelInv, RegistersKept
  <2>2. k' \in Locals
    <3>1. 0 \in Word /\ k \in Locals
      BY KernelAssumption DEF Word, KernelInv, KernelTypes
    <3> QED BY <1>2, <3>1, LocalsTyped DEF isr80h_handle_command
  <2>3. KernelTypes' /\ Contexts'
    BY <1>2, <2>2 DEF isr80h_handle_command, KernelInv, KernelTypes, TypeOK, Contexts,
                      KernelSteps, TaskSteps, Mapped
  <2>4. RegistersKept'
    BY <1>2, <2>1, SteadyStep DEF isr80h_handle_command, KernelInv, RegistersKept
  <2>5. CommandState'
    <3>1. k \in Locals
      BY DEF KernelInv, KernelTypes
    <3>2. \/ /\ pc' = "task_get_stack_item" /\ k'.then = "sum" /\ k'.index = 1 /\ regs'.eax = 0
          \/ /\ pc' = "task_get_stack_item" /\ k'.then = "print" /\ k'.index = 0 /\ regs'.eax = 1
          \/ pc' = "task_page" /\ regs'.eax \notin {0, 1}
      BY <1>2, <2>1, <3>1 DEF isr80h_handle_command, RegisteredCommands, Locals
    <3> QED BY <3>2 DEF CommandState, PrintCorrect, Mapped, Holding
  <2> QED BY <2>1, <2>3, <2>4, <2>5, SteadyStep DEF KernelInv
<1>3. CASE task_get_stack_item
  <2>1. Steady
    BY <1>3 DEF task_get_stack_item, Steady, Mapped, Holding
  <2>2. KernelTypes' /\ Contexts'
    BY <1>3 DEF task_get_stack_item, task_page_task, user_registers, KernelInv, KernelTypes, TypeOK,
                Contexts, KernelSteps, TaskSteps, Mapped
  <2>3. RegistersKept' /\ CommandState'
    BY <1>3, <2>1, SteadyStep
    DEF task_get_stack_item, KernelInv, RegistersKept, CommandState, PrintCorrect, Mapped, Holding
  <2> QED BY <2>1, <2>2, <2>3, SteadyStep DEF KernelInv
<1>4. CASE read_stack_item
  <2> DEFINE item == mem[Translate(cr3, saved[current_task].esp)][k.index + 1]
  <2>1. Steady /\ pc = "read_stack_item" /\ k \in Locals /\ saved[current_task] = regs
    BY <1>4 DEF read_stack_item, Steady, Mapped, Holding, KernelInv, KernelTypes, RegistersKept
  <2>2. mem[Translate(cr3, regs.esp)] = TaskView(regs.esp)
    <3>1. cr3 = current_task /\ regs.esp \in Page /\ pc \notin Mapped
      BY <2>1, KernelAssumption DEF KernelInv, Contexts, RegistersKept, TaskSteps, Mapped
    <3> QED BY <3>1, TranslateInTask
  <2>3. k.index \in {0, 1} /\ item = Item(k.index) /\ item \in Word
    BY <2>1, <2>2, ItemsAreWords DEF Item, Locals
  <2> HIDE DEF item
  <2>4. /\ kernel_page
        /\ \/ /\ k.then = "sum" /\ k.index = 1
              /\ k' = [k EXCEPT !.v2 = item, !.index = 0] /\ pc' = "task_get_stack_item"
           \/ /\ k.then = "sum" /\ k.index = 0
              /\ k' = [k EXCEPT !.res = (k.v2 + item) % WordMod] /\ pc' = "task_page"
           \/ /\ k.then = "print"
              /\ k' = [k EXCEPT !.ptr = item] /\ pc' = "copy_string_from_task"
        /\ UNCHANGED <<intf, current_task, tables, mem, used, kept, regs, frame, saved,
                       printed, irr, isr>>
    BY <1>4 DEF read_stack_item, item
  <2>5. (k.v2 + item) % WordMod \in Word
    <3>1. k.v2 \in Int /\ item \in Int /\ WordMod \in Nat \ {0}
      BY <2>1, <2>3, KernelAssumption DEF Locals, Word
    <3> QED BY <3>1 DEF Word
  <2>6. k' \in Locals
    BY <2>1, <2>3, <2>4, <2>5, LocalsTyped
  <2>7. KernelTypes' /\ Contexts'
    BY <2>1, <2>4, <2>6 DEF kernel_page, kernel_registers, KernelInv, KernelTypes, TypeOK,
                       Contexts, KernelSteps, TaskSteps, Mapped
  <2>8. RegistersKept'
    BY <2>1, <2>4, SteadyStep DEF KernelInv, RegistersKept
  <2>9. CommandState'
    <3>1. Item(0)' = Item(0) /\ Item(1)' = Item(1) /\ regs' = regs
      BY <2>1, <2>4, SteadyStep
    <3>2. \/ k.then = "sum" /\ regs.eax = 0 /\ (k.index = 0 => k.v2 = Item(1))
          \/ k.then = "print" /\ regs.eax = 1 /\ k.index = 0
      BY <2>1 DEF KernelInv, CommandState
    <3>3. CASE k.then = "sum" /\ k.index = 1
      <4>1. k'.then = "sum" /\ k'.index = 0 /\ k'.v2 = Item(1) /\ pc' = "task_get_stack_item"
        <5>1. item = Item(1)
          BY <2>3, <3>3
        <5>2. k' = [k EXCEPT !.v2 = item, !.index = 0] /\ pc' = "task_get_stack_item"
          BY <2>4, <3>3
        <5> QED BY <2>1, <3>3, <5>1, <5>2 DEF Locals
      <4> QED BY <3>1, <3>2, <3>3, <4>1 DEF CommandState, PrintCorrect, Mapped, Holding
    <3>4. CASE k.then = "sum" /\ k.index = 0
      <4>1. k'.res = (Item(1) + Item(0)) % WordMod /\ pc' = "task_page"
        BY <2>1, <2>3, <2>4, <3>2, <3>4 DEF Locals
      <4>2. Item(1) + Item(0) = Item(0) + Item(1)
        <5>1. Item(0) \in Int /\ Item(1) \in Int
          BY ItemsAreWords, KernelAssumption DEF Word
        <5> QED BY <5>1
      <4> QED BY <3>1, <4>1, <4>2 DEF CommandState, PrintCorrect, Mapped, Holding
    <3>5. CASE k.then = "print"
      <4>1. k'.ptr = Item(0) /\ pc' = "copy_string_from_task"
        BY <2>1, <2>3, <2>4, <3>2, <3>5 DEF Locals
      <4> QED BY <3>1, <3>2, <3>5, <4>1 DEF CommandState, PrintCorrect, Mapped, Holding
    <3> QED BY <2>3, <3>2, <3>3, <3>4, <3>5
  <2> QED BY <2>1, <2>7, <2>8, <2>9, SteadyStep DEF KernelInv
<1> QED BY <1>1, <1>2, <1>3, <1>4

(* The page of a string copy: taken, mapped, filled, unmapped, freed. *)
LEMMA CopyStep ==
  ASSUME KernelInv,
         \/ copy_string_from_task \/ copy_string_fails \/ strncpy_in_task
         \/ restore_entry \/ strncpy_out \/ kfree_tmp
  PROVE  KernelInv'
<1> USE DEF SYSTEM_COMMAND0_SUM, SYSTEM_COMMAND1_PRINT
<1>0. /\ k \in Locals /\ current_task \in Tasks /\ current_task # KERNEL
      /\ mem \in [Page -> Contents] /\ HeapPages \subseteq Page /\ kept \subseteq HeapPages
      /\ ZEROES \in Contents /\ Args \subseteq Contents
      /\ BootTable(current_task) \in [Page -> Pte]
  BY KernelAssumption, BootTableFacts DEF KernelInv, KernelTypes, TypeOK, ZEROES, Contents, Word
<1>1. CASE copy_string_from_task
  <2>1. PICK tmp \in HeapPages \ used :
          /\ used' = used \cup {tmp}
          /\ mem' = [mem EXCEPT ![tmp] = ZEROES]
          /\ k' = [k EXCEPT !.tmp = tmp, !.old = tables[current_task][tmp]]
          /\ tables' = [tables EXCEPT ![current_task][tmp] = [frame |-> tmp, writable |-> TRUE]]
    BY <1>1 DEF copy_string_from_task
  <2>2. pc = "copy_string_from_task" /\ pc' = "strncpy" /\ used = kept /\ tmp \in Page
        /\ tables = [t \in Tasks |-> BootTable(t)]
    BY <1>0, <1>1 DEF copy_string_from_task, KernelInv, TmpPage, Mapped, Holding
  <2>3. /\ k' \in Locals /\ k'.tmp = tmp /\ k'.old = BootTable(current_task)[tmp] /\ k'.ptr = k.ptr
    BY <1>0, <2>1, <2>2, LocalsTyped DEF Locals
  <2>4. tables' = [t \in Tasks |->
          IF t = current_task
          THEN [BootTable(t) EXCEPT ![tmp] = [frame |-> tmp, writable |-> TRUE]]
          ELSE BootTable(t)]
    BY <1>0, <2>1, <2>2
  <2>5. tables' \in [Tasks -> [Page -> Pte]] /\ mem' \in [Page -> Contents]
    <3>1. [frame |-> tmp, writable |-> TRUE] \in Pte
      BY <2>2 DEF Pte
    <3> QED BY <1>0, <2>1, <2>2, <2>4, <3>1, BootTableFacts
  <2>6. KernelTypes' /\ Contexts'
    BY <1>0, <1>1, <2>1, <2>2, <2>3, <2>5
    DEF copy_string_from_task, KernelInv, KernelTypes, TypeOK, Contexts, KernelSteps, TaskSteps, Mapped
  <2>7. TmpPage'
    <3>1. UNCHANGED <<current_task, kept>>
      BY <1>1 DEF copy_string_from_task
    <3>2. k'.tmp \in HeapPages \ kept' /\ k'.old = BootTable(current_task)'[k'.tmp]
      BY <2>2, <2>3, <3>1 DEF BootTable
    <3>3. used' = kept' \cup {k'.tmp}
      BY <2>1, <2>2, <2>3, <3>1
    <3> QED BY <2>2, <2>3, <2>4, <3>1, <3>2, <3>3 DEF TmpPage, Mapped, Holding, BootTable
  <2>8. Item(0)' = Item(0)
    BY <1>1, <2>1, <2>2, ViewUnchanged DEF copy_string_from_task
  <2>9. RegistersKept' /\ CommandState'
    BY <1>1, <2>2, <2>3, <2>8
    DEF copy_string_from_task, KernelInv, RegistersKept, CommandState, PrintCorrect, Mapped, Holding
  <2> QED BY <2>6, <2>7, <2>9 DEF KernelInv
<1>2. CASE copy_string_fails
  <2>1. Steady /\ kept = HeapPages /\ pc = "copy_string_from_task" /\ pc' = "print"
    BY <1>0, <1>2 DEF copy_string_fails, Steady, KernelInv, TmpPage, Mapped, Holding
  <2>2. k' \in Locals
    BY <1>0, <1>2, LocalsTyped DEF copy_string_fails
  <2>3. KernelTypes' /\ Contexts'
    BY <1>2, <2>1, <2>2 DEF copy_string_fails, KernelInv, KernelTypes, TypeOK, Contexts,
                       KernelSteps, TaskSteps, Mapped
  <2>4. RegistersKept' /\ CommandState'
    BY <1>2, <2>1, SteadyStep
    DEF copy_string_fails, KernelInv, RegistersKept, CommandState, PrintCorrect, Mapped, Holding
  <2> QED BY <2>1, <2>3, <2>4, SteadyStep DEF KernelInv
<1>3. CASE strncpy_in_task
  <2>1. /\ pc = "strncpy" /\ pc' = "paging_set" /\ cr3 = current_task
        /\ k' = k /\ k.tmp \in HeapPages \ kept /\ k.tmp \in Page /\ k.ptr = Item(0)
    BY <1>0, <1>3 DEF strncpy_in_task, KernelInv, Contexts, TmpPage, Mapped, Holding, CommandState
  <2>2. tables[current_task] = [BootTable(current_task) EXCEPT
                                  ![k.tmp] = [frame |-> k.tmp, writable |-> TRUE]]
    BY <1>0, <2>1 DEF KernelInv, TmpPage, Mapped, Holding
  <2>3. Translate(cr3, k.tmp) = k.tmp
    <3>1. tables[current_task][k.tmp] = [frame |-> k.tmp, writable |-> TRUE]
      BY <1>0, <2>1, <2>2
    <3> QED BY <1>0, <2>1, <3>1 DEF Translate
  <2>4. mem' = [mem EXCEPT ![k.tmp] = mem[Translate(cr3, k.ptr)]]
    BY <1>3, <2>3 DEF strncpy_in_task
  <2>5. Translate(cr3, k.ptr) \in Page
    <3>1. k.ptr \in Page /\ tables \in [Tasks -> [Page -> Pte]]
      BY <1>0 DEF Locals, Page, KernelInv, KernelTypes, TypeOK
    <3> QED BY <1>0, <2>1, <3>1 DEF Translate, Pte
  <2>6. mem' \in [Page -> Contents] /\ mem'[k.tmp] = mem[Translate(cr3, k.ptr)]
    BY <1>0, <2>1, <2>4, <2>5
  <2>7. KernelTypes' /\ Contexts'
    BY <1>3, <2>1, <2>6
    DEF strncpy_in_task, kernel_page, kernel_registers, KernelInv, KernelTypes, TypeOK, Contexts,
        KernelSteps, TaskSteps, Mapped
  <2>8. TmpPage' /\ RegistersKept'
    BY <1>3, <2>1 DEF strncpy_in_task, KernelInv, TmpPage, RegistersKept, Mapped, Holding, BootTable
  <2>9. /\ Item(0)' = Item(0)
        /\ \A p \in Page : p # k.tmp => TaskView(p)' = TaskView(p)
    BY <1>3, <2>1, <2>4, ViewUnchanged DEF strncpy_in_task
  <2>10. ASSUME Item(0) \notin HeapPages \ kept PROVE mem'[k.tmp] = TaskView(Item(0))'
    <3>1. k.ptr \in Page /\ k.ptr # k.tmp
      BY <1>0, <2>1, <2>10 DEF Locals, Page
    <3>2. mem[Translate(cr3, k.ptr)] = TaskView(k.ptr)
      BY <2>1, <3>1, TranslateInTask
    <3>3. TaskView(k.ptr)' = TaskView(k.ptr)
      BY <2>1, <2>9, <3>1
    <3> QED BY <2>1, <2>6, <2>9, <3>2, <3>3 DEF TaskView
  <2>11. CommandState'
    BY <1>3, <2>1, <2>9, <2>10 DEF strncpy_in_task, KernelInv, CommandState, PrintCorrect, Mapped, Holding
  <2> QED BY <2>7, <2>8, <2>11 DEF KernelInv
<1>4. CASE restore_entry
  <2>1. /\ pc = "paging_set" /\ pc' = "strncpy_out" /\ k' = k
        /\ k.tmp \in HeapPages \ kept /\ k.tmp \in Page /\ k.old = BootTable(current_task)[k.tmp]
        /\ used = kept \cup {k.tmp}
        /\ tables' = [tables EXCEPT ![current_task][k.tmp] = k.old]
    BY <1>0, <1>4 DEF restore_entry, KernelInv, TmpPage, Mapped, Holding
  <2>2. tables' = [t \in Tasks |-> BootTable(t)]
    <3>1. \A t \in Tasks : tables[t] =
            IF t = current_task
            THEN [BootTable(t) EXCEPT ![k.tmp] = [frame |-> k.tmp, writable |-> TRUE]]
            ELSE BootTable(t)
      BY <2>1 DEF KernelInv, TmpPage, Mapped, Holding
    <3>2. tables \in [Tasks -> [Page -> Pte]]
      BY DEF KernelInv, KernelTypes, TypeOK
    <3>3. tables'[current_task] = BootTable(current_task)
      <4>1. [tables[current_task] EXCEPT ![k.tmp] = k.old] = BootTable(current_task)
        BY <1>0, <2>1, <3>1, <3>2
      <4> QED BY <1>0, <2>1, <3>2, <4>1
    <3>4. \A t \in Tasks : t # current_task => tables'[t] = BootTable(t)
      BY <1>0, <2>1, <3>1, <3>2
    <3>5. tables' = [t \in Tasks |-> tables'[t]]
      BY <2>1, <3>2
    <3> QED BY <3>3, <3>4, <3>5
  <2>3. tables' \in [Tasks -> [Page -> Pte]]
    BY <2>2, BootTableFacts
  <2>4. KernelTypes' /\ Contexts'
    BY <1>4, <2>1, <2>3
    DEF restore_entry, KernelInv, KernelTypes, TypeOK, Contexts, KernelSteps, TaskSteps, Mapped
  <2>5. TmpPage' /\ RegistersKept'
    BY <1>4, <2>1, <2>2
    DEF restore_entry, KernelInv, TmpPage, RegistersKept, Mapped, Holding, BootTable
  <2>6. Item(0)' = Item(0) /\ TaskView(Item(0))' = TaskView(Item(0))
    BY <1>4 DEF restore_entry, Item, TaskView, BootTable
  <2>7. CommandState'
    BY <1>4, <2>1, <2>6
    DEF restore_entry, KernelInv, CommandState, PrintCorrect, Mapped, Holding
  <2> QED BY <2>4, <2>5, <2>7 DEF KernelInv
<1>5. CASE strncpy_out
  <2>1. /\ pc = "strncpy_out" /\ pc' = "kfree" /\ cr3 = KERNEL
        /\ k.tmp \in Page /\ mem[k.tmp] \in Contents
    BY <1>0, <1>5 DEF strncpy_out, KernelInv, Contexts, KernelSteps, TmpPage, Holding
  <2>2. k' = [k EXCEPT !.buf = mem[k.tmp]]
    BY <1>5, <2>1 DEF strncpy_out, Translate
  <2>3. k' \in Locals /\ k'.buf = mem[k.tmp] /\ k'.tmp = k.tmp /\ k'.old = k.old /\ k'.ptr = k.ptr
    <3>1. k' \in Locals
      BY <1>0, <2>1, <2>2, LocalsTyped
    <3> QED BY <1>0, <2>2, <3>1 DEF Locals
  <2>4. KernelTypes' /\ Contexts'
    BY <1>5, <2>1, <2>3
    DEF strncpy_out, KernelInv, KernelTypes, TypeOK, Contexts, KernelSteps, TaskSteps, Mapped
  <2>5. TmpPage' /\ RegistersKept'
    BY <1>5, <2>1, <2>3
    DEF strncpy_out, KernelInv, TmpPage, RegistersKept, Mapped, Holding, BootTable
  <2>6. Item(0)' = Item(0) /\ TaskView(Item(0))' = TaskView(Item(0))
    BY <1>5 DEF strncpy_out, Item, TaskView, BootTable
  <2>7. CommandState'
    BY <1>5, <2>1, <2>3, <2>6
    DEF strncpy_out, KernelInv, CommandState, PrintCorrect, Mapped, Holding
  <2> QED BY <2>4, <2>5, <2>7 DEF KernelInv
<1>6. CASE kfree_tmp
  <2>1. /\ pc = "kfree" /\ pc' = "print" /\ k' = k
        /\ k.tmp \in HeapPages \ kept /\ used' = kept
    BY <1>6 DEF kfree_tmp, KernelInv, TmpPage, Mapped, Holding
  <2>2. KernelTypes' /\ Contexts'
    BY <1>6, <2>1
    DEF kfree_tmp, KernelInv, KernelTypes, TypeOK, Contexts, KernelSteps, TaskSteps, Mapped
  <2>3. TmpPage' /\ RegistersKept'
    BY <1>6, <2>1
    DEF kfree_tmp, KernelInv, TmpPage, RegistersKept, Mapped, Holding, BootTable
  <2>4. Item(0)' = Item(0) /\ TaskView(Item(0))' = TaskView(Item(0))
    BY <1>6 DEF kfree_tmp, Item, TaskView, BootTable
  <2>5. CommandState'
    BY <1>6, <2>1, <2>4 DEF kfree_tmp, KernelInv, CommandState, PrintCorrect, Mapped, Holding
  <2> QED BY <2>2, <2>3, <2>5 DEF KernelInv
<1> QED BY <1>1, <1>2, <1>3, <1>4, <1>5, <1>6

(* The end of a command and of the system call. *)
LEMMA ReturnStep ==
  ASSUME KernelInv, print \/ task_page \/ isr80h_returns
  PROVE  KernelInv'
<1> USE DEF SYSTEM_COMMAND0_SUM, SYSTEM_COMMAND1_PRINT
<1>1. CASE print
  <2>1. Steady
    BY <1>1 DEF print, Steady, Mapped, Holding
  <2>2. k' \in Locals
    <3>1. 0 \in Word /\ k \in Locals
      BY KernelAssumption DEF Word, KernelInv, KernelTypes
    <3> QED BY <1>1, <3>1, LocalsTyped DEF print
  <2>3. KernelTypes' /\ Contexts'
    BY <1>1, <2>2
    DEF print, KernelInv, KernelTypes, TypeOK, Contexts, KernelSteps, TaskSteps, Mapped
  <2>4. RegistersKept' /\ CommandState'
    BY <1>1, <2>1, SteadyStep DEF print, KernelInv, RegistersKept, CommandState, PrintCorrect, Mapped, Holding
  <2> QED BY <2>1, <2>3, <2>4, SteadyStep DEF KernelInv
<1>2. CASE task_page
  <2>1. Steady
    BY <1>2 DEF task_page, Steady, Mapped, Holding
  <2>2. KernelTypes' /\ Contexts'
    BY <1>2 DEF task_page, task_page_task, user_registers, KernelInv, KernelTypes, TypeOK,
                Contexts, KernelSteps, TaskSteps, Mapped
  <2>3. RegistersKept' /\ CommandState'
    BY <1>2, <2>1, SteadyStep DEF task_page, KernelInv, RegistersKept, CommandState, PrintCorrect, Mapped, Holding
  <2> QED BY <2>1, <2>2, <2>3, SteadyStep DEF KernelInv
<1>3. CASE isr80h_returns
  <2>1. /\ pc = "iretd" /\ pc' = "user" /\ k' = NoLocals /\ frame = regs /\ k \in Locals
        /\ regs \in Registers /\ regs.esp \in {ProgPage, StackPage}
    BY <1>3 DEF isr80h_returns, KernelInv, KernelTypes, RegistersKept, TypeOK
  <2>2. k.res \in Int
    BY <2>1, KernelAssumption DEF Locals, Word
  <2>3. regs' \in Registers /\ regs'.esp = regs.esp
    BY <1>3, <2>1, <2>2 DEF isr80h_returns, Registers
  <2>4. KernelTypes' /\ Contexts'
    BY <1>3, <2>1, <2>3, LocalsTyped
    DEF isr80h_returns, KernelInv, KernelTypes, TypeOK, Contexts, KernelSteps, TaskSteps, Mapped
  <2>5. TmpPage'
    BY <1>3, <2>1 DEF isr80h_returns, KernelInv, TmpPage, Mapped, Holding, BootTable
  <2>6. RegistersKept' /\ CommandState'
    BY <2>1, <2>3 DEF RegistersKept, CommandState, PrintCorrect, Mapped, Holding
  <2> QED BY <2>4, <2>5, <2>6 DEF KernelInv
<1> QED BY <1>1, <1>2, <1>3

-----------------------------------------------------------------------------
(* The properties *)

(* User code, handlers and devices, in any order, keep the invariant. *)
THEOREM KernelInvariant == Spec => []KernelInv
<1>1. Init => KernelInv
  <2> SUFFICES ASSUME Init PROVE KernelInv
    OBVIOUS
  <2>1. /\ pc = "user" /\ cr3 = current_task /\ ds = "user" /\ intf = TRUE /\ current_task \in Tasks
        /\ kept \subseteq HeapPages /\ OwnedFrames \subseteq kept /\ used = kept
    BY DEF Init, task_return
  <2>2. 0 \in Word /\ 0 \in Page /\ StackPage \in Page
    BY KernelAssumption DEF Word, Page
  <2>3. regs \in Registers
    BY <2>2 DEF Init, Registers
  <2>4. NoLocals \in Locals
    BY <2>2 DEF NoLocals, Locals, Pte, Contents, ZEROES
  <2>5. KernelTypes
    BY <2>1, <2>3, <2>4, BootTableFacts
    DEF Init, KernelTypes, TypeOK, Contents, Page, TaskSteps
  <2>6. Contexts /\ TmpPage
    BY <2>1 DEF Init, Contexts, TmpPage, KernelSteps, TaskSteps, Mapped, Holding
  <2>7. RegistersKept /\ CommandState
    BY <2>1 DEF Init, RegistersKept, CommandState, PrintCorrect, Mapped, Holding
  <2> QED BY <2>5, <2>6, <2>7 DEF KernelInv
<1>2. KernelInv /\ [Next]_vars => KernelInv'
  <2>1. ASSUME KernelInv, UNCHANGED vars PROVE KernelInv'
    <3>1. KernelTypes' /\ Contexts' /\ RegistersKept'
      BY <2>1 DEF vars, KernelInv, KernelTypes, TypeOK, Contexts, RegistersKept
    <3>2. TmpPage'
      BY <2>1 DEF vars, KernelInv, TmpPage, BootTable
    <3>3. CommandState'
      BY <2>1 DEF vars, KernelInv, CommandState, PrintCorrect, Mapped, Holding, Item, TaskView, BootTable
    <3> QED BY <3>1, <3>2, <3>3 DEF KernelInv
  <2> QED BY <2>1, TrapStep, InterruptStep, CommandStep, CopyStep, ReturnStep DEF Next, Handler
<1> QED BY <1>1, <1>2, PTL DEF Spec

(* The user program always runs in its own address space with its own      *)
(* segments and interrupts on, and the kernel works on its own data in its *)
(* own; whatever was refused on the way.                                   *)
THEOREM ContextsRight == Spec => []RightContext
<1>1. KernelInv => RightContext
  BY DEF KernelInv, KernelTypes, Contexts, KernelSteps, TaskSteps,
         RightContext, UserContext, KernelContext
<1> QED BY <1>1, KernelInvariant, PTL

(* Every system call undoes its mapping and frees its page, in this order: *)
(* no page is mapped or read that the heap could hand out again.           *)
THEOREM NoTraceLeft == Spec => []CallLeavesNoTrace
<1>1. ASSUME KernelInv PROVE CallLeavesNoTrace
  <2>1. pc = "user" => used = kept /\ \A t \in Tasks : tables[t] = BootTable(t)
    BY <1>1 DEF KernelInv, TmpPage, Mapped, Holding
  <2>2. pc \in Holding => k.tmp \in used \ kept
    BY <1>1 DEF KernelInv, TmpPage
  <2>3. ASSUME NEW t \in Tasks, NEW p \in Page, tables[t][p] # BootTable(t)[p]
        PROVE  p \in used \ kept
    <3>1. pc \in Mapped /\ t = current_task
      BY <1>1, <2>3 DEF KernelInv, TmpPage
    <3>2. tables[t] = [BootTable(t) EXCEPT ![k.tmp] = [frame |-> k.tmp, writable |-> TRUE]]
      BY <1>1, <3>1 DEF KernelInv, TmpPage
    <3>3. p = k.tmp
      BY <2>3, <3>2, BootTableFacts
    <3> QED BY <2>2, <3>1, <3>3 DEF Holding
  <2> QED BY <2>1, <2>2, <2>3 DEF CallLeavesNoTrace, TmpHeldWhileUsed, Holding, Mapped
<1> QED BY <1>1, KernelInvariant, PTL

(* sum and print answer from the words of their own caller. *)
THEOREM AnswersRight == Spec => []AnswersCorrect
<1>1. KernelInv => AnswersCorrect
  BY DEF KernelInv, CommandState, AnswersCorrect, SumCorrect
<1> QED BY <1>1, KernelInvariant, PTL

(* Neither user code nor a handler writes to a page of another task, or a  *)
(* handler to one that was allocated before the call.                      *)
THEOREM WritesConfined == Spec => WritesOwnPages
<1> DEFINE A == \A p \in Page : mem'[p] # mem[p] =>
                  IF pc = "user" THEN p \in {ProgFrame[current_task], StackFrame[current_task]}
                                 ELSE p \in HeapPages \ kept
<1>1. ASSUME KernelInv, UserTraps PROVE A
  <2>1. /\ pc = "user" /\ cr3 = current_task /\ current_task \in Tasks /\ cr3 # KERNEL
        /\ mem \in [Page -> Contents] /\ tables = [t \in Tasks |-> BootTable(t)]
    BY <1>1, KernelAssumption
    DEF UserTraps, KernelInv, KernelTypes, TypeOK, Contexts, TaskSteps, TmpPage, Mapped, Holding
  <2>2. PICK sp \in Page, arg \in Args :
          tables[cr3][sp].writable /\ mem' = [mem EXCEPT ![Translate(cr3, sp)] = arg]
    BY <1>1 DEF UserTraps
  <2>3. sp \in {ProgPage, StackPage}
    BY <2>1, <2>2, BootTableFacts
  <2>4. Translate(cr3, sp) \in {ProgFrame[current_task], StackFrame[current_task]}
    BY <2>1, <2>3, BootTableFacts DEF Translate
  <2> QED BY <2>1, <2>2, <2>4
<1>2. ASSUME KernelInv, copy_string_from_task PROVE A
  <2>1. used = kept /\ pc # "user" /\ mem \in [Page -> Contents]
    BY <1>2 DEF copy_string_from_task, KernelInv, KernelTypes, TypeOK, TmpPage, Mapped, Holding
  <2> QED BY <1>2, <2>1 DEF copy_string_from_task
<1>3. ASSUME KernelInv, strncpy_in_task PROVE A
  <2>1. /\ pc = "strncpy" /\ cr3 = current_task /\ cr3 # KERNEL /\ current_task \in Tasks
        /\ k.tmp \in HeapPages \ kept /\ k.tmp \in Page /\ mem \in [Page -> Contents]
    BY <1>3, KernelAssumption
    DEF strncpy_in_task, KernelInv, KernelTypes, TypeOK, Contexts, TmpPage, Mapped, Holding
  <2>2. tables[current_task][k.tmp] = [frame |-> k.tmp, writable |-> TRUE]
    BY <1>3, <2>1, BootTableFacts DEF KernelInv, TmpPage, Mapped, Holding
  <2>3. Translate(cr3, k.tmp) = k.tmp
    BY <2>1, <2>2 DEF Translate
  <2> QED BY <1>3, <2>1, <2>3 DEF strncpy_in_task
<1>4. ASSUME Next, ~UserTraps, ~copy_string_from_task, ~strncpy_in_task PROVE mem' = mem
  BY <1>4 DEF Next, Handler, UserInterrupts, IrqRaised, IrqTaken, isr80h_handler, isr80h_handle_command,
              task_get_stack_item, read_stack_item, copy_string_fails, restore_entry, strncpy_out,
              kfree_tmp, print, task_page, isr80h_returns, int21h_handler, no_interrupt_handler
<1>5. KernelInv /\ [Next]_vars => [A]_vars
  BY <1>1, <1>2, <1>3, <1>4
<1> QED BY <1>5, KernelInvariant, PTL DEF Spec, WritesOwnPages
=============================================================================
