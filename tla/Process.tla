------------------------------ MODULE Process ------------------------------
(***************************************************************************)
(* Loading a program (src/task/process.c, task_new in src/task/task.c):    *)
(* process_load with every call in it that may fail, the table of          *)
(* processes and the list of tasks.                                        *)
(*                                                                         *)
(* kernel_main loads one program; here a caller loads MaxLoads of them one *)
(* after the other, whatever became of the earlier ones.  The heap is the  *)
(* set of the objects that loads have allocated; kzalloc may refuse any of *)
(* them.  What fopen, fstat and fread do inside is not modelled here, only *)
(* that each may fail and that fopen takes a descriptor.                   *)
(***************************************************************************)
EXTENDS Integers, FiniteSets, SequencesExt

CONSTANTS
  MaxProcesses,  \* LAMEOS_MAX_PROCESSES
  MaxLoads       \* how many programs are loaded, the bound of the model

ASSUME ProcessAssumption == MaxProcesses \in Nat \ {0} /\ MaxLoads \in Nat

Slots  == 0 .. (MaxProcesses - 1)
Loads  == 1 .. MaxLoads
NONE   == 0     \* the null pointer; a process, task or object has its load's number

EIO    == 1
ENOMEM == 3
EISTKN == 8

(* What a load allocates; "directory" is all of paging_new_4gb. *)
Kinds  == {"process", "data", "stack", "task", "directory"}

VARIABLES
  pc,         \* the call that process_load makes next, "idle" or "undefined"
  n,          \* the number of the load that runs, or ran last
  slot,       \* process_slot
  res,        \* its result
  processes,  \* the table: the load that each slot's process came from
  heap,       \* the objects allocated, as pairs of kind and load
  fds,        \* the open file descriptors, each the number of its load
  ready,      \* _process->ptr, _process->stack and _process->task: what is set
  task_list,  \* the tasks from task_head along next
  current_task

vars == <<pc, n, slot, res, processes, heap, fds, ready, task_list, current_task>>

Init ==
  /\ pc = "idle" /\ n = 0 /\ slot = 0 /\ res = 0
  /\ processes = [s \in Slots |-> NONE]
  /\ heap = {} /\ fds = {} /\ ready = {}
  /\ task_list = <<>>
  /\ current_task = NONE

-----------------------------------------------------------------------------

(* kzalloc of an object of the running load. *)
kzalloc(kind) == heap' = heap \cup {<<kind, n>>}

(* The process's field that points to an object is set. *)
Set(kind) == ready' = ready \cup {kind}

FreeSlots == {s \in Slots : processes[s] = NONE}

(* Mutant of process_get_free_slot: the last slot is never looked at, and  *)
(* the search ends there.                                                  *)
SlotFromShortSearch ==
  CHOOSE s \in Slots : \/ s \in FreeSlots /\ \A f \in FreeSlots : s <= f
                       \/ FreeSlots = {} /\ s = MaxProcesses - 1

(* The first free slot, -EISTKN when there is none. *)
process_get_free_slot ==
  IF FreeSlots = {} THEN -EISTKN
  ELSE CHOOSE s \in FreeSlots : \A f \in FreeSlots : s <= f

(* process_load: the result of the search is checked. *)
process_load ==
  /\ pc = "idle" /\ n < MaxLoads
  /\ n' = n + 1
  /\ slot' = process_get_free_slot
  /\ ready' = {}
  /\ IF slot' < 0
     THEN res' = -EISTKN /\ pc' = "idle"
     ELSE res' = 0 /\ pc' = "process"
  /\ UNCHANGED <<processes, heap, fds, task_list, current_task>>

(* A step of process_load_for_slot that fails goes to label out, which     *)
(* frees nothing: _process->task is not set on any of these paths.         *)
Fail(r) ==
  /\ res' = -r
  /\ pc' = "idle"

(* _process = kzalloc (sizeof (struct process)).  The test in front of it  *)
(* that the slot is free cannot fail: process_load just found it free.     *)
alloc_process ==
  /\ pc = "process"
  /\ \/ kzalloc("process") /\ pc' = "fopen" /\ UNCHANGED res
     \/ Fail(ENOMEM) /\ UNCHANGED heap
  /\ UNCHANGED <<n, slot, processes, fds, ready, task_list, current_task>>

(* process_load_binary: when fopen fails, fclose (0) has no effect. *)
fopen ==
  /\ pc = "fopen"
  /\ \/ fds' = fds \cup {n} /\ pc' = "fstat" /\ UNCHANGED res
     \/ Fail(EIO) /\ UNCHANGED fds
  /\ UNCHANGED <<n, slot, processes, heap, ready, task_list, current_task>>

fstat ==
  /\ pc = "fstat"
  /\ \/ pc' = "data" /\ UNCHANGED res
     \/ pc' = "fclose" /\ res' = -EIO
  /\ UNCHANGED <<n, slot, processes, heap, fds, ready, task_list, current_task>>

(* program_data_ptr = kzalloc (stat.filesize) *)
alloc_data ==
  /\ pc = "data"
  /\ \/ kzalloc("data") /\ pc' = "fread" /\ UNCHANGED res
     \/ pc' = "fclose" /\ res' = -ENOMEM /\ UNCHANGED heap
  /\ UNCHANGED <<n, slot, processes, fds, ready, task_list, current_task>>

(* Mutant of fread: a failed read returns without closing the file. *)
FreadReturns ==
  /\ pc = "fread"
  /\ \/ Set("data") /\ pc' = "fclose" /\ UNCHANGED res
     \/ Fail(EIO) /\ UNCHANGED ready
  /\ UNCHANGED <<n, slot, processes, heap, fds, task_list, current_task>>

(* fread of the whole file, and process->ptr. *)
fread ==
  /\ pc = "fread"
  /\ \/ Set("data") /\ pc' = "fclose" /\ UNCHANGED res
     \/ pc' = "fclose" /\ res' = -EIO /\ UNCHANGED ready
  /\ UNCHANGED <<n, slot, processes, heap, fds, task_list, current_task>>

(* Mutant of fclose: a program that was not read is tried again. *)
LoadRetried ==
  /\ pc = "fclose"
  /\ fds' = fds \ {n}
  /\ pc' = IF res < 0 THEN "fopen" ELSE "stack"
  /\ UNCHANGED <<n, slot, res, processes, heap, ready, task_list, current_task>>

(* Label out of process_load_binary; process_load_for_slot goes on if the  *)
(* program was read.                                                       *)
fclose ==
  /\ pc = "fclose"
  /\ fds' = fds \ {n}
  /\ pc' = IF res < 0 THEN "idle" ELSE "stack"
  /\ UNCHANGED <<n, slot, res, processes, heap, ready, task_list, current_task>>

(* program_stack_ptr = kzalloc (LAMEOS_USER_PROGRAM_STACK_SIZE) *)
alloc_stack ==
  /\ pc = "stack"
  /\ \/ kzalloc("stack") /\ Set("stack") /\ pc' = "task_new" /\ UNCHANGED res
     \/ Fail(ENOMEM) /\ UNCHANGED <<heap, ready>>
  /\ UNCHANGED <<n, slot, processes, fds, task_list, current_task>>

(* Mutant of task_new: every new task becomes the current one. *)
NewTaskIsCurrent ==
  /\ pc = "task_new"
  /\ heap' = heap \cup {<<"task", n>>, <<"directory", n>>}
  /\ Set("task")
  /\ task_list' = Append(task_list, n)
  /\ current_task' = n
  /\ pc' = "publish"
  /\ UNCHANGED <<n, slot, res, processes, fds>>

(* task_new: the task and its directory are allocated, and the task is     *)
(* linked behind task_tail; the first one becomes the current task.        *)
task_new ==
  /\ pc = "task_new"
  /\ heap' = heap \cup {<<"task", n>>, <<"directory", n>>}
  /\ Set("task")
  /\ task_list' = Append(task_list, n)
  /\ current_task' = IF task_list = <<>> THEN n ELSE current_task
  /\ pc' = "publish"
  /\ UNCHANGED <<n, slot, res, processes, fds>>

(* A kzalloc of task_new or paging_new_4gb fails: task_free is called on a *)
(* null pointer, or tables are built at address 0.  Nothing is claimed     *)
(* about what follows.                                                     *)
task_new_fails ==
  /\ pc = "task_new"
  /\ pc' = "undefined"
  /\ UNCHANGED <<n, slot, res, processes, heap, fds, ready, task_list, current_task>>

(* process_map_memory, which always returns 0, and the slot. *)
publish ==
  /\ pc = "publish"
  /\ processes' = [processes EXCEPT ![slot] = n]
  /\ pc' = "idle"
  /\ UNCHANGED <<n, slot, res, heap, fds, ready, task_list, current_task>>

Step ==
  \/ alloc_process \/ fopen \/ fstat \/ alloc_data \/ fread \/ fclose
  \/ alloc_stack \/ task_new \/ task_new_fails \/ publish

Next == process_load \/ Step

(* A load runs to its end with interrupts off. *)
Spec == Init /\ [][Next]_vars /\ WF_vars(Step)

-----------------------------------------------------------------------------
(* Properties *)

TypeOK ==
  /\ n \in 0 .. MaxLoads /\ slot \in Slots \cup {-EISTKN}
  /\ res \in {0, -EIO, -ENOMEM, -EISTKN}
  /\ processes \in [Slots -> 0 .. MaxLoads]
  /\ heap \subseteq Kinds \X Loads
  /\ fds \subseteq Loads /\ ready \subseteq Kinds
  /\ task_list \in Seq(Loads)
  /\ current_task \in 0 .. MaxLoads

(* Every process of the table is whole: what its fields point to is        *)
(* allocated and its task is in the list, whichever loads failed before    *)
(* or after it.                                                            *)
ProcessesWhole ==
  \A s \in Slots : processes[s] # NONE =>
    /\ \A kind \in Kinds : <<kind, processes[s]>> \in heap
    /\ processes[s] \in ToSet(task_list)

(* Between loads the tasks of the list are those of the processes in the   *)
(* table, one task each, and the first of them is the current task that    *)
(* task_run_first_ever_task will start: a failed load leaves no task.  At  *)
(* all times the processes are whole.                                      *)
TasksMatchProcesses ==
  /\ TypeOK /\ ProcessesWhole
  /\ pc = "idle" =>
       /\ ToSet(task_list) = {processes[s] : s \in Slots} \ {NONE}
       /\ \A s, r \in Slots : s # r /\ processes[s] = processes[r] => processes[s] = NONE
       /\ Len(task_list) = Cardinality(ToSet(task_list))
       /\ current_task = IF task_list = <<>> THEN NONE ELSE Head(task_list)

(* Every way out of process_load_binary closes the file it opened. *)
FilesClosed == pc = "idle" => fds = {}

(* Only a load whose every step succeeded puts a process into the table,   *)
(* and only into a slot that was free: when process_load returns an error, *)
(* the table is as it was.                                                 *)
TableChangesOnSuccess ==
  [][\A s \in Slots : processes'[s] # processes[s] =>
       /\ processes[s] = NONE /\ processes'[s] = n /\ res' = 0
       /\ ready = {"data", "stack", "task"}]_vars

(* Every load ends. *)
LoadsEnd == pc = "process" ~> pc \in {"idle", "undefined"}
=============================================================================
