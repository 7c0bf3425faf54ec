--------------------------- MODULE ProcessProofs ---------------------------
(***************************************************************************)
(* Proofs about the loading of programs, for every size of the table of    *)
(* processes and every number of loads, whichever calls fail.              *)
(***************************************************************************)
EXTENDS Process, FiniteSetTheorems, SequenceTheorems, WellFoundedInduction, TLAPS

-----------------------------------------------------------------------------
(* The inductive invariant *)

(* The loads that have a process in the table. *)
Published == {processes[s] : s \in Slots} \ {NONE}

(* A load is inside process_load_for_slot. *)
Loading ==
  pc \in {"process", "fopen", "fstat", "data", "fread", "fclose", "stack", "task_new", "publish"}

(* The load that runs has a slot that is free and a number of its own. *)
SlotReserved ==
  /\ pc \in {"idle", "undefined"} \/ Loading
  /\ \A s \in Slots : processes[s] <= n
  /\ Loading => /\ n \in Loads /\ slot \in Slots /\ processes[slot] = NONE
                /\ \A s \in Slots : processes[s] < n

(* No two slots have one process. *)
SlotsDistinct ==
  \A s, r \in Slots : s # r /\ processes[s] = processes[r] => processes[s] = NONE

(* The list holds one task of every process in the table, and between      *)
(* task_new and the end of process_load that of the load that runs.        *)
ListMatchesTable ==
  /\ ToSet(task_list) = IF pc = "publish" THEN Published \cup {n} ELSE Published
  /\ \A i, j \in 1 .. Len(task_list) : task_list[i] = task_list[j] => i = j
  /\ current_task = IF task_list = <<>> THEN NONE ELSE Head(task_list)

(* What the load that runs has allocated, set and opened when it comes to  *)
(* a call: process_load_binary holds a descriptor, and only success goes   *)
(* on to the stack, the task and the table.                                *)
Progress ==
  /\ fds = IF pc \in {"fstat", "data", "fread", "fclose"} THEN {n} ELSE {}
  /\ Loading /\ pc # "fclose" => res = 0
  /\ pc \in {"process", "fopen", "fstat", "data", "fread"} => ready = {}
  /\ pc = "fclose" /\ res >= 0 => res = 0 /\ ready = {"data"}
  /\ pc = "stack" => ready = {"data"}
  /\ pc = "task_new" => ready = {"data", "stack"}
  /\ pc = "publish" => ready = {"data", "stack", "task"}

(* The objects of the heap that the process of the running load points to. *)
Allocated ==
  /\ Loading /\ pc # "process" => <<"process", n>> \in heap
  /\ "data" \in ready \/ pc = "fread" => <<"data", n>> \in heap
  /\ "stack" \in ready => <<"stack", n>> \in heap
  /\ "task" \in ready => <<"task", n>> \in heap /\ <<"directory", n>> \in heap

ProcessInv ==
  /\ TypeOK /\ ProcessesWhole
  /\ SlotReserved /\ SlotsDistinct /\ ListMatchesTable /\ Progress /\ Allocated

-----------------------------------------------------------------------------
(* Lemmas *)

(* process_get_free_slot finds a slot that holds no process, or says that  *)
(* there is none.                                                          *)
LEMMA FreeSlotFound ==
  \/ process_get_free_slot \in FreeSlots
  \/ process_get_free_slot = -EISTKN /\ FreeSlots = {}
<1>1. CASE FreeSlots = {}
  BY <1>1 DEF process_get_free_slot
<1>2. CASE FreeSlots # {}
  <2>1. FreeSlots \subseteq Nat
    BY ProcessAssumption DEF FreeSlots, Slots
  <2>2. PICK s \in FreeSlots : \A f \in FreeSlots : ~(<<f, s>> \in OpToRel(<, Nat))
    BY <1>2, <2>1, WFMin, NatLessThanWellFounded
  <2>3. \A f \in FreeSlots : ~(f < s)
    BY <2>1, <2>2 DEF OpToRel
  <2>4. \A f \in FreeSlots : s <= f
    BY <2>1, <2>3
  <2> QED BY <1>2, <2>4 DEF process_get_free_slot
<1> QED BY <1>1, <1>2

(* A sequence without repetition has as many places as elements. *)
LEMMA DistinctLength ==
  ASSUME NEW S, NEW q \in Seq(S), \A i, j \in 1 .. Len(q) : q[i] = q[j] => i = j
  PROVE  Len(q) = Cardinality(ToSet(q))
<1>1. Len(q) \in Nat /\ q \in [1 .. Len(q) -> S] /\ DOMAIN q = 1 .. Len(q)
  BY LenProperties
<1>2. q \in Bijection(1 .. Len(q), ToSet(q))
  BY <1>1 DEF ToSet, Bijection, Injection, Surjection, IsInjective
<1>3. IsFiniteSet(1 .. Len(q)) /\ Cardinality(1 .. Len(q)) = Len(q)
  BY <1>1, FS_Interval
<1> QED BY <1>2, <1>3, FS_Bijection DEF ExistsBijection

(* task_new adds one task to the list and the first task stays first. *)
LEMMA AppendTask ==
  ASSUME NEW S, NEW q \in Seq(S), NEW e \in S
  PROVE  /\ Append(q, e) \in Seq(S) /\ Append(q, e) # <<>>
         /\ ToSet(Append(q, e)) = ToSet(q) \cup {e}
         /\ Head(Append(q, e)) = IF q = <<>> THEN e ELSE Head(q)
         /\ (\A i, j \in 1 .. Len(q) : q[i] = q[j] => i = j) /\ e \notin ToSet(q) =>
              \A i, j \in 1 .. Len(Append(q, e)) : Append(q, e)[i] = Append(q, e)[j] => i = j
<1> DEFINE r == Append(q, e)
<1>1. /\ r \in Seq(S) /\ r # <<>> /\ Len(r) = Len(q) + 1
      /\ (\A i \in 1 .. Len(q) : r[i] = q[i]) /\ r[Len(q) + 1] = e
  BY AppendProperties
<1>2. Len(q) \in Nat /\ DOMAIN q = 1 .. Len(q) /\ DOMAIN r = 1 .. Len(r)
  BY <1>1, LenProperties
<1>3. Head(r) = IF q = <<>> THEN e ELSE Head(q)
  BY HeadTailAppend
<1> HIDE DEF r
<1>4. \A i \in 1 .. Len(r) : i \in 1 .. Len(q) \/ i = Len(q) + 1
  BY <1>1, <1>2
<1>5. ToSet(r) = ToSet(q) \cup {e}
  BY <1>1, <1>2, <1>4 DEF ToSet
<1>6. ASSUME \A i, j \in 1 .. Len(q) : q[i] = q[j] => i = j, e \notin ToSet(q)
      PROVE  \A i, j \in 1 .. Len(r) : r[i] = r[j] => i = j
  <2>1. \A i \in 1 .. Len(q) : r[i] # e
    BY <1>1, <1>2, <1>6 DEF ToSet
  <2> QED BY <1>1, <1>4, <1>6, <2>1
<1> QED BY <1>1, <1>3, <1>5, <1>6 DEF r

-----------------------------------------------------------------------------
(* The invariant *)

(* Every call of process_load, whether it succeeds or fails, leaves the    *)
(* invariant as it was.                                                    *)
LEMMA ProcessInvStep == ProcessInv /\ [Next]_vars => ProcessInv'
<1> SUFFICES ASSUME ProcessInv, [Next]_vars PROVE ProcessInv'
  OBVIOUS
<1> USE DEF EIO, ENOMEM, EISTKN, NONE
<1>0. MaxProcesses \in Nat \ {0} /\ MaxLoads \in Nat
  BY ProcessAssumption
<1>1. CASE process_load
  <2>1. slot' \in FreeSlots \/ slot' = -EISTKN
    BY <1>1, FreeSlotFound DEF process_load
  <2>2. n' \in Loads /\ \A s \in Slots : processes[s] < n'
    BY <1>0, <1>1 DEF process_load, ProcessInv, TypeOK, SlotReserved, Loads
  <2>3. TypeOK'
    BY <1>0, <1>1, <2>1, <2>2 DEF process_load, ProcessInv, TypeOK, FreeSlots, Loads
  <2>4. ProcessesWhole'
    BY <1>1 DEF process_load, ProcessInv, ProcessesWhole
  <2>5. SlotReserved' /\ SlotsDistinct'
    BY <1>0, <1>1, <2>1, <2>2
    DEF process_load, ProcessInv, TypeOK, SlotReserved, SlotsDistinct, Loading, FreeSlots, Loads, Slots
  <2>6. ListMatchesTable'
    BY <1>1 DEF process_load, ProcessInv, ListMatchesTable, Published
  <2>7. Progress' /\ Allocated'
    BY <1>1 DEF process_load, ProcessInv, Progress, Allocated, Loading
  <2> QED BY <2>3, <2>4, <2>5, <2>6, <2>7 DEF ProcessInv
(* The calls before task_new change neither the table nor the list. *)
<1> DEFINE Quiet == /\ UNCHANGED <<n, slot, processes, task_list, current_task>>
                    /\ Loading /\ (pc' \in {"idle", "undefined"} \/ Loading')
                    /\ pc # "publish" /\ pc' # "publish"
                    /\ heap \subseteq heap' /\ heap' \subseteq Kinds \X Loads
                    /\ fds' \subseteq Loads /\ ready' \subseteq Kinds
                    /\ res' \in {0, -EIO, -ENOMEM, -EISTKN}
<1>2. ASSUME Quiet
      PROVE  TypeOK' /\ ProcessesWhole' /\ SlotReserved' /\ SlotsDistinct' /\ ListMatchesTable'
  <2>1. TypeOK' /\ ProcessesWhole'
    BY <1>2 DEF ProcessInv, TypeOK, ProcessesWhole
  <2>2. SlotReserved' /\ SlotsDistinct'
    BY <1>2 DEF ProcessInv, SlotReserved, SlotsDistinct
  <2>3. ListMatchesTable'
    BY <1>2 DEF ProcessInv, ListMatchesTable, Published
  <2> QED BY <2>1, <2>2, <2>3
<1>3. Loading => n \in Loads /\ \A kind \in Kinds : <<kind, n>> \in Kinds \X Loads
  BY DEF ProcessInv, SlotReserved
<1>4. heap \subseteq Kinds \X Loads /\ fds \subseteq Loads /\ ready \subseteq Kinds
      /\ res \in {0, -EIO, -ENOMEM, -EISTKN}
  BY DEF ProcessInv, TypeOK
<1>5. CASE alloc_process \/ fopen \/ fstat \/ alloc_data \/ fread \/ fclose \/ alloc_stack
  <2>1. Quiet
    BY <1>3, <1>4, <1>5
    DEF Loading, alloc_process, fopen, fstat, alloc_data, fread, fclose, alloc_stack,
        Fail, Set, kzalloc, Kinds
  <2>2. Progress'
    BY <1>4, <1>5 DEF ProcessInv, Progress, Loading, alloc_process, fopen, fstat, alloc_data, fread,
        fclose, alloc_stack, Fail, Set, kzalloc
  <2>3. Allocated'
    BY <1>4, <1>5 DEF ProcessInv, Progress, Allocated, Loading, alloc_process, fopen, fstat, alloc_data, fread,
        fclose, alloc_stack, Fail, Set, kzalloc
  <2> QED BY <1>2, <2>1, <2>2, <2>3 DEF ProcessInv
<1>6. CASE task_new_fails
  <2>1. Quiet
    BY <1>4, <1>6 DEF Loading, task_new_fails
  <2>2. Progress' /\ Allocated'
    BY <1>6 DEF ProcessInv, Progress, Allocated, Loading, task_new_fails
  <2> QED BY <1>2, <2>1, <2>2 DEF ProcessInv
<1>7. CASE task_new
  <2>1. n \in Loads /\ n # NONE /\ task_list \in Seq(Loads)
    BY <1>0, <1>7 DEF task_new, ProcessInv, SlotReserved, Loading, TypeOK, Loads
  <2>2. ToSet(task_list) = Published /\ n \notin Published
    BY <1>0, <1>7, <2>1
    DEF task_new, ProcessInv, TypeOK, SlotReserved, ListMatchesTable, Loading, Published, Loads
  <2>3. /\ task_list' \in Seq(Loads) /\ task_list' # <<>>
        /\ ToSet(task_list') = Published \cup {n}
        /\ Head(task_list') = IF task_list = <<>> THEN n ELSE Head(task_list)
        /\ \A i, j \in 1 .. Len(task_list') : task_list'[i] = task_list'[j] => i = j
    BY <1>7, <2>1, <2>2, AppendTask DEF task_new, ProcessInv, ListMatchesTable
  <2>4. ListMatchesTable'
    BY <1>7, <2>3 DEF task_new, ProcessInv, ListMatchesTable, Published
  <2>5. TypeOK'
    BY <1>0, <1>3, <1>4, <1>7, <2>1, <2>3 DEF task_new, Set, ProcessInv, TypeOK, Loading, Kinds, Loads
  <2>6. ProcessesWhole'
    BY <1>7, <2>2, <2>3 DEF task_new, ProcessInv, ProcessesWhole, Published
  <2>7. SlotReserved' /\ SlotsDistinct'
    BY <1>7 DEF task_new, ProcessInv, SlotReserved, SlotsDistinct, Loading
  <2>8. Progress' /\ Allocated'
    BY <1>7 DEF task_new, Set, ProcessInv, Progress, Allocated, Loading
  <2> QED BY <2>4, <2>5, <2>6, <2>7, <2>8 DEF ProcessInv
<1>8. CASE publish
  <2>1. n \in Loads /\ n # NONE /\ slot \in Slots /\ processes \in [Slots -> 0 .. MaxLoads]
        /\ processes[slot] = NONE /\ \A s \in Slots : processes[s] < n
    BY <1>0, <1>8 DEF publish, ProcessInv, SlotReserved, Loading, TypeOK, Loads
  <2>2. processes' \in [Slots -> 0 .. MaxLoads]
        /\ \A s \in Slots : processes'[s] = IF s = slot THEN n ELSE processes[s]
    BY <1>0, <1>8, <2>1 DEF publish, Loads
  <2>3. Published' = Published \cup {n}
    BY <2>1, <2>2 DEF Published
  <2>4. ListMatchesTable'
    BY <1>8, <2>3 DEF publish, ProcessInv, ListMatchesTable
  <2>5. TypeOK'
    BY <1>8, <2>2 DEF publish, ProcessInv, TypeOK
  <2>6. \A kind \in Kinds : <<kind, n>> \in heap
    BY <1>8 DEF publish, ProcessInv, Progress, Allocated, Loading, Kinds
  <2>7. n \in ToSet(task_list)
    BY <1>8 DEF publish, ProcessInv, ListMatchesTable
  <2>8. ProcessesWhole'
    BY <1>8, <2>2, <2>6, <2>7 DEF publish, ProcessInv, ProcessesWhole
  <2>9. SlotReserved' /\ SlotsDistinct'
    BY <1>0, <1>8, <2>1, <2>2
    DEF publish, ProcessInv, TypeOK, SlotReserved, SlotsDistinct, Loading, Loads
  <2>10. Progress' /\ Allocated'
    BY <1>8 DEF publish, ProcessInv, Progress, Allocated, Loading
  <2> QED BY <2>4, <2>5, <2>8, <2>9, <2>10 DEF ProcessInv
<1>9. CASE UNCHANGED vars
  BY <1>9 DEF vars, ProcessInv, TypeOK, ProcessesWhole, SlotReserved, SlotsDistinct,
              ListMatchesTable, Published, Progress, Allocated, Loading
<1> QED BY <1>1, <1>5, <1>6, <1>7, <1>8, <1>9 DEF Next, Step

(* The invariant holds from the empty table on. *)
THEOREM ProcessInvariant == Spec => []ProcessInv
<1>1. Init => ProcessInv
  <2> SUFFICES ASSUME Init PROVE ProcessInv
    OBVIOUS
  <2>0. MaxProcesses \in Nat \ {0} /\ MaxLoads \in Nat
    BY ProcessAssumption
  <2>1. TypeOK
    BY <2>0 DEF Init, TypeOK, Slots, NONE
  <2>2. ToSet(<<>>) = {}
    BY DEF ToSet
  <2> QED BY <2>0, <2>1, <2>2
      DEF Init, ProcessInv, ProcessesWhole, SlotReserved, SlotsDistinct, ListMatchesTable,
          Published, Progress, Allocated, Loading, NONE
<1> QED BY <1>1, ProcessInvStep, PTL DEF Spec

(* Between loads the list of tasks is that of the processes of the table,  *)
(* whichever of the earlier loads failed and wherever: for every size of   *)
(* the table and every number of loads.                                    *)
THEOREM TasksAreProcesses == Spec => []TasksMatchProcesses
<1>1. ProcessInv => TasksMatchProcesses
  <2>1. ASSUME ProcessInv PROVE Len(task_list) = Cardinality(ToSet(task_list))
    BY <2>1, DistinctLength DEF ProcessInv, TypeOK, ListMatchesTable
  <2> QED BY <2>1 DEF ProcessInv, TasksMatchProcesses, ListMatchesTable, SlotsDistinct, Published
<1> QED BY <1>1, ProcessInvariant, PTL

(* process_load_binary closes its file on every way out. *)
THEOREM LoadClosesFiles == Spec => []FilesClosed
<1>1. ProcessInv => FilesClosed
  BY DEF ProcessInv, Progress, FilesClosed
<1> QED BY <1>1, ProcessInvariant, PTL

(* Only a load whose steps all succeeded changes the table, in a slot that *)
(* was free.                                                               *)
THEOREM FailedLoadsChangeNothing == Spec => TableChangesOnSuccess
<1> DEFINE A == \A s \in Slots : processes'[s] # processes[s] =>
                  /\ processes[s] = NONE /\ processes'[s] = n /\ res' = 0
                  /\ ready = {"data", "stack", "task"}
<1>1. ASSUME ProcessInv, publish PROVE A
  BY <1>1 DEF publish, ProcessInv, TypeOK, SlotReserved, Progress, Loading
<1>2. ASSUME Next, ~publish PROVE processes' = processes
  BY <1>2 DEF Next, Step, process_load, alloc_process, fopen, fstat, alloc_data, fread, fclose,
              alloc_stack, task_new, task_new_fails
<1>3. ProcessInv /\ [Next]_vars => [A]_vars
  BY <1>1, <1>2
<1> QED BY <1>3, ProcessInvariant, PTL DEF Spec, TableChangesOnSuccess
=============================================================================
