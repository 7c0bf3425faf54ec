------------------------------ MODULE TaskList ------------------------------
(***************************************************************************)
(* The doubly linked list of tasks (src/task/task.c), pointer by pointer,  *)
(* under any sequence of task_new, task_free and task_switch.  The loader  *)
(* of this repository frees no task that is in the list (its error path    *)
(* cannot be reached with one); task.h offers the calls to every caller.   *)
(*                                                                         *)
(* A task is the memory it lies in: kzalloc may hand out the memory of a   *)
(* freed task again, and a pointer to it is then a pointer to the new one. *)
(* A task's page directory lives exactly as long as the task.              *)
(***************************************************************************)
EXTENDS Integers, SequencesExt

CONSTANTS
  Tasks,   \* the places that kzalloc can return for a task
  NULL,    \* the null pointer
  KERNEL   \* the kernel's own page directory, kernel_chunk

ASSUME TaskListAssumption == NULL \notin Tasks /\ KERNEL \notin Tasks \cup {NULL}

VARIABLES
  task_head, task_tail, current_task,
  next, prev,  \* the links of every place
  loaded,      \* the task whose page directory is loaded, or KERNEL
  live,        \* history: the tasks made and not freed, the oldest first
  lifo,        \* history: so far only the newest task was ever freed
  ok           \* FALSE once a null or a stale pointer has been written through

pointers == <<task_head, task_tail, current_task, next, prev>>
vars     == <<pointers, loaded, live, lifo, ok>>

Init ==
  /\ task_head = NULL /\ task_tail = NULL /\ current_task = NULL
  /\ next = [t \in Tasks |-> NULL] /\ prev = [t \in Tasks |-> NULL]
  /\ loaded = KERNEL
  /\ live = <<>> /\ lifo = TRUE /\ ok = TRUE

(* The tasks before and behind t in the order they were made. *)
Place(t)  == CHOOSE i \in DOMAIN live : live[i] = t
Before(t) == IF t = Head(live) THEN NULL ELSE live[Place(t) - 1]
Behind(t) == IF t = Last(live) THEN NULL ELSE live[Place(t) + 1]

(* Kernel code runs, on its own page directory. *)
InKernel == ok /\ loaded = KERNEL

-----------------------------------------------------------------------------

(* Mutant of task_new: the new task is not linked back to the old tail. *)
NewNotLinkedBack(t) ==
  /\ InKernel /\ t \notin ToSet(live)
  /\ task_tail' = t
  /\ prev' = [prev EXCEPT ![t] = NULL]
  /\ IF task_head = NULL
     THEN task_head' = t /\ current_task' = t /\ next' = [next EXCEPT ![t] = NULL]
     ELSE /\ next' = [next EXCEPT ![t] = NULL, ![task_tail] = t]
          /\ UNCHANGED <<task_head, current_task>>
  /\ live' = Append(live, t)
  /\ UNCHANGED <<loaded, lifo, ok>>

(* task_new: kzalloc and task_init give a task whose links are null; it is *)
(* the first one, and then the current task too, or goes behind task_tail. *)
task_new(t) ==
  /\ InKernel /\ t \notin ToSet(live)
  /\ task_tail' = t
  /\ IF task_head = NULL
     THEN /\ task_head' = t /\ current_task' = t
          /\ next' = [next EXCEPT ![t] = NULL] /\ prev' = [prev EXCEPT ![t] = NULL]
     ELSE /\ next' = [next EXCEPT ![t] = NULL, ![task_tail] = t]
          /\ prev' = [prev EXCEPT ![t] = task_tail]
          /\ UNCHANGED <<task_head, current_task>>
  /\ live' = Append(live, t)
  /\ UNCHANGED <<loaded, lifo, ok>>

(* kzalloc fails: label out frees the null task, whose page_directory is   *)
(* read.  Nothing is claimed about what follows.                           *)
task_new_fails ==
  /\ InKernel
  /\ ok' = FALSE
  /\ UNCHANGED <<pointers, loaded, live, lifo>>

(* task_get_next, when t is the current task and head is task_head. *)
task_get_next(t, head) == IF next[t] = NULL THEN head ELSE next[t]

(* Mutant of task_list_remove: the tail is not moved. *)
RemoveKeepsTail(t) ==
  /\ next' = IF prev[t] = NULL THEN next ELSE [next EXCEPT ![prev[t]] = next[t]]
  /\ task_head' = IF t = task_head THEN next[t] ELSE task_head
  /\ current_task' = IF t = current_task THEN task_get_next(t, task_head') ELSE current_task
  /\ UNCHANGED <<prev, task_tail>>

(* Mutant of task_list_remove: the current task is not replaced. *)
RemoveKeepsCurrent(t) ==
  /\ next' = IF prev[t] = NULL THEN next ELSE [next EXCEPT ![prev[t]] = next[t]]
  /\ task_head' = IF t = task_head THEN next[t] ELSE task_head
  /\ task_tail' = IF t = task_tail THEN prev[t] ELSE task_tail
  /\ UNCHANGED <<prev, current_task>>

(* task_list_remove: the task before t is linked to the one behind it; the *)
(* one behind it keeps t as its prev.                                      *)
task_list_remove(t) ==
  /\ next' = IF prev[t] = NULL THEN next ELSE [next EXCEPT ![prev[t]] = next[t]]
  /\ task_head' = IF t = task_head THEN next[t] ELSE task_head
  /\ task_tail' = IF t = task_tail THEN prev[t] ELSE task_tail
  /\ current_task' = IF t = current_task THEN task_get_next(t, task_head') ELSE current_task
  /\ UNCHANGED prev

(* task_free of a task whose prev is the task before it. *)
task_free(t) ==
  /\ InKernel /\ t \in ToSet(live) /\ prev[t] = Before(t)
  /\ task_list_remove(t)
  /\ lifo' = (lifo /\ t = Last(live))
  /\ live' = RemoveAt(live, Place(t))
  /\ UNCHANGED <<loaded, ok>>

(* task_free of a task whose prev was freed while t was behind it: the     *)
(* write goes to freed memory, or into a task made there since.  Nothing   *)
(* is claimed about what follows.                                          *)
task_free_stale(t) ==
  /\ InKernel /\ t \in ToSet(live) /\ prev[t] # Before(t)
  /\ ok' = FALSE
  /\ UNCHANGED <<pointers, loaded, live, lifo>>

(* task_switch, to any task; task_page for the current one. *)
task_switch(t) ==
  /\ InKernel /\ t \in ToSet(live)
  /\ current_task' = t
  /\ loaded' = t
  /\ UNCHANGED <<task_head, task_tail, next, prev, live, lifo, ok>>

(* task_run_first_ever_task: no current task is a panic. *)
task_run_first_ever_task ==
  /\ InKernel /\ current_task # NULL
  /\ current_task' = task_head
  /\ loaded' = task_head
  /\ UNCHANGED <<task_head, task_tail, next, prev, live, lifo, ok>>

(* Returning to user code, at the end of a handler. *)
task_page ==
  /\ InKernel /\ current_task # NULL
  /\ loaded' = current_task
  /\ UNCHANGED <<pointers, live, lifo, ok>>

(* An interrupt enters the kernel. *)
kernel_page ==
  /\ ok /\ loaded # KERNEL
  /\ loaded' = KERNEL
  /\ UNCHANGED <<pointers, live, lifo, ok>>

Next ==
  \/ \E t \in Tasks : \/ task_new(t) \/ task_switch(t)
                      \/ task_free(t) \/ task_free_stale(t)
  \/ task_new_fails
  \/ task_run_first_ever_task \/ task_page \/ kernel_page

Spec == Init /\ [][Next]_vars

-----------------------------------------------------------------------------
(* Properties *)

TypeOK ==
  /\ {task_head, task_tail, current_task} \subseteq Tasks \cup {NULL}
  /\ next \in [Tasks -> Tasks \cup {NULL}] /\ prev \in [Tasks -> Tasks \cup {NULL}]
  /\ loaded \in Tasks \cup {KERNEL}
  /\ live \in Seq(Tasks) /\ Len(live) = Cardinality(ToSet(live))
  /\ lifo \in BOOLEAN /\ ok \in BOOLEAN

(* The tasks met by going on from t with task_get_next k times. *)
Visited(t, k) ==
  LET at[i \in 0 .. k] == IF i = 0 THEN t
                          ELSE IF at[i - 1] = NULL THEN NULL ELSE task_get_next(at[i - 1], task_head)
  IN  {at[i] : i \in 0 .. k}

(* In whatever order tasks are freed, as long as no stale prev was used:   *)
(* task_head, the next links and task_tail give the tasks that were made   *)
(* and not freed, in the order they were made, and no freed one; and       *)
(* task_get_next, from any task, reaches every task before the first one   *)
(* comes up a second time.                                                 *)
ForwardList ==
  /\ TypeOK
  /\ task_head = IF live = <<>> THEN NULL ELSE Head(live)
  /\ task_tail = IF live = <<>> THEN NULL ELSE Last(live)
  /\ \A t \in ToSet(live) : next[t] = Behind(t) /\ Visited(t, Len(live) - 1) = ToSet(live)

(* A caller that frees only the newest task never meets a stale prev: the  *)
(* list is linked backwards too.  (In any other order task_list_remove     *)
(* leaves the prev of the next task pointing to the freed one.)            *)
BackwardListIfLifo == lifo => \A t \in ToSet(live) : prev[t] = Before(t)

(* There is a current task exactly when there is a task at all, and it is  *)
(* one that has not been freed, even after the current task was; outside   *)
(* the kernel the processor runs on its page directory, never on that of a *)
(* freed task.                                                             *)
CurrentIsLive ==
  /\ IF live = <<>> THEN current_task = NULL ELSE current_task \in ToSet(live)
  /\ loaded # KERNEL => loaded = current_task /\ loaded \in ToSet(live)
=============================================================================
