--------------------------- MODULE TaskListProofs ---------------------------
(***************************************************************************)
(* Proofs about the list of tasks, for every set of places a task can lie  *)
(* in and every sequence of task_new, task_free and task_switch.           *)
(***************************************************************************)
EXTENDS TaskList, FiniteSetTheorems, SequenceTheorems, WellFoundedInduction, TLAPS

-----------------------------------------------------------------------------
(* The inductive invariant, by places in live *)

(* No task is made twice without being freed. *)
Distinct(q) == \A i, j \in 1 .. Len(q) : q[i] = q[j] => i = j

Types ==
  /\ {task_head, task_tail, current_task} \subseteq Tasks \cup {NULL}
  /\ next \in [Tasks -> Tasks \cup {NULL}] /\ prev \in [Tasks -> Tasks \cup {NULL}]
  /\ loaded \in Tasks \cup {KERNEL}
  /\ live \in Seq(Tasks) /\ Distinct(live)
  /\ lifo \in BOOLEAN /\ ok \in BOOLEAN

(* task_head, next and task_tail follow the order of live. *)
Forward ==
  /\ task_head = IF live = <<>> THEN NULL ELSE live[1]
  /\ task_tail = IF live = <<>> THEN NULL ELSE live[Len(live)]
  /\ \A i \in 1 .. Len(live) : next[live[i]] = IF i = Len(live) THEN NULL ELSE live[i + 1]

(* prev follows it too as long as only the newest task was freed. *)
Backward ==
  lifo => \A i \in 1 .. Len(live) : prev[live[i]] = IF i = 1 THEN NULL ELSE live[i - 1]

TaskListInv == Types /\ Forward /\ Backward /\ CurrentIsLive

-----------------------------------------------------------------------------
(* Sequences *)

(* The places of a sequence and its elements. *)
LEMMA SeqFacts ==
  ASSUME NEW q \in Seq(Tasks)
  PROVE  /\ Len(q) \in Nat /\ DOMAIN q = 1 .. Len(q)
         /\ \A i \in 1 .. Len(q) : q[i] \in Tasks
         /\ \A t : t \in ToSet(q) <=> \E i \in 1 .. Len(q) : q[i] = t
         /\ q = <<>> <=> Len(q) = 0
         /\ q # <<>> => Head(q) = q[1] /\ Last(q) = q[Len(q)]
<1>1. Len(q) \in Nat /\ DOMAIN q = 1 .. Len(q) /\ q \in [1 .. Len(q) -> Tasks]
  BY LenProperties
<1>2. q = <<>> <=> Len(q) = 0
  BY <1>1, EmptySeq
<1>3. q # <<>> => Head(q) = q[1] /\ Last(q) = q[Len(q)]
  BY DEF Last
<1> QED BY <1>1, <1>2, <1>3 DEF ToSet

(* A sequence without repetition has as many places as elements. *)
LEMMA DistinctLength ==
  ASSUME NEW q \in Seq(Tasks), Distinct(q)
  PROVE  Len(q) = Cardinality(ToSet(q))
<1>1. Len(q) \in Nat /\ q \in [1 .. Len(q) -> Tasks] /\ DOMAIN q = 1 .. Len(q)
  BY LenProperties
<1>2. q \in Bijection(1 .. Len(q), ToSet(q))
  BY <1>1 DEF Distinct, ToSet, Bijection, Injection, Surjection, IsInjective
<1>3. IsFiniteSet(1 .. Len(q)) /\ Cardinality(1 .. Len(q)) = Len(q)
  BY <1>1, FS_Interval
<1> QED BY <1>2, <1>3, FS_Bijection DEF ExistsBijection

(* What task_new does to live. *)
LEMMA AppendFacts ==
  ASSUME NEW q \in Seq(Tasks), NEW e \in Tasks, e \notin ToSet(q), Distinct(q)
  PROVE  LET r == Append(q, e)
         IN  /\ r \in Seq(Tasks) /\ Distinct(r)
             /\ Len(r) = Len(q) + 1 /\ r[Len(r)] = e
             /\ \A i \in 1 .. Len(q) : r[i] = q[i]
<1> DEFINE r == Append(q, e)
<1>1. /\ r \in Seq(Tasks) /\ Len(r) = Len(q) + 1
      /\ (\A i \in 1 .. Len(q) : r[i] = q[i]) /\ r[Len(q) + 1] = e
  BY AppendProperties
<1>2. Len(q) \in Nat /\ \A i \in 1 .. Len(q) : q[i] # e
  BY SeqFacts
<1> HIDE DEF r
<1>3. \A i \in 1 .. Len(r) : i \in 1 .. Len(q) \/ i = Len(q) + 1
  BY <1>1, <1>2
<1>4. Distinct(r)
  BY <1>1, <1>2, <1>3 DEF Distinct
<1> QED BY <1>1, <1>4 DEF r

(* What task_free does to live. *)
LEMMA RemoveFacts ==
  ASSUME NEW q \in Seq(Tasks), Distinct(q), NEW k \in 1 .. Len(q)
  PROVE  LET r == RemoveAt(q, k)
         IN  /\ r \in Seq(Tasks) /\ Distinct(r)
             /\ Len(r) = Len(q) - 1
             /\ \A i \in 1 .. Len(r) : r[i] = q[IF i < k THEN i ELSE i + 1]
<1> DEFINE a == SubSeq(q, 1, k - 1)
           b == SubSeq(q, k + 1, Len(q))
           r == RemoveAt(q, k)
<1>1. Len(q) \in Nat /\ \A i \in 1 .. Len(q) : q[i] \in Tasks
  BY SeqFacts
<1>2. /\ a \in Seq(Tasks) /\ Len(a) = k - 1
      /\ \A i \in 1 .. (k - 1) : a[i] = q[i]
  <2>1. \A i \in 1 .. (k - 1) : q[i] \in Tasks
    BY <1>1
  <2>2. /\ a \in Seq(Tasks) /\ Len(a) = IF 1 <= k - 1 THEN (k - 1) - 1 + 1 ELSE 0
        /\ \A i \in 1 .. ((k - 1) - 1 + 1) : a[i] = q[1 + i - 1]
    BY <1>1, <2>1, SubSeqProperties
  <2> QED BY <1>1, <2>2
<1>3. /\ b \in Seq(Tasks) /\ Len(b) = Len(q) - k
      /\ \A i \in 1 .. (Len(q) - k) : b[i] = q[k + i]
  <2>1. \A i \in (k + 1) .. Len(q) : q[i] \in Tasks
    BY <1>1
  <2>2. /\ b \in Seq(Tasks) /\ Len(b) = IF k + 1 <= Len(q) THEN Len(q) - (k + 1) + 1 ELSE 0
        /\ \A i \in 1 .. (Len(q) - (k + 1) + 1) : b[i] = q[(k + 1) + i - 1]
    BY <1>1, <2>1, SubSeqProperties
  <2> QED BY <1>1, <2>2
<1> HIDE DEF a, b
<1>4. r = a \o b
  BY DEF RemoveAt, a, b
<1> HIDE DEF r
<1>5. /\ r \in Seq(Tasks) /\ Len(r) = Len(a) + Len(b)
      /\ \A i \in 1 .. (Len(a) + Len(b)) :
           r[i] = IF i <= Len(a) THEN a[i] ELSE b[i - Len(a)]
  BY <1>2, <1>3, <1>4, ConcatProperties
<1>6. Len(r) = Len(q) - 1
  BY <1>1, <1>2, <1>3, <1>5
<1>7. \A i \in 1 .. Len(r) : r[i] = q[IF i < k THEN i ELSE i + 1]
  <2> TAKE i \in 1 .. Len(r)
  <2>1. CASE i < k
    BY <1>1, <1>2, <1>5, <1>6, <2>1
  <2>2. CASE i >= k
    <3>1. i - Len(a) \in 1 .. (Len(q) - k) /\ k + (i - Len(a)) = i + 1
      BY <1>1, <1>2, <1>6, <2>2
    <3> QED BY <1>1, <1>2, <1>3, <1>5, <1>6, <2>2, <3>1
  <2> QED BY <2>1, <2>2, <1>1, <1>6
<1>8. Distinct(r)
  BY <1>1, <1>6, <1>7 DEF Distinct
<1> QED BY <1>5, <1>6, <1>7, <1>8 DEF r

(* The place of a task and its neighbours, by index. *)
LEMMA PlaceOf ==
  ASSUME live \in Seq(Tasks), Distinct(live), NEW k \in 1 .. Len(live)
  PROVE  /\ Place(live[k]) = k
         /\ Before(live[k]) = IF k = 1 THEN NULL ELSE live[k - 1]
         /\ Behind(live[k]) = IF k = Len(live) THEN NULL ELSE live[k + 1]
<1>1. /\ Len(live) \in Nat /\ DOMAIN live = 1 .. Len(live)
      /\ Head(live) = live[1] /\ Last(live) = live[Len(live)]
  BY SeqFacts
<1>2. Place(live[k]) = k
  BY <1>1 DEF Place, Distinct
<1>3. live[k] = live[1] <=> k = 1
  BY <1>1 DEF Distinct
<1>4. live[k] = live[Len(live)] <=> k = Len(live)
  <2>1. Len(live) \in 1 .. Len(live)
    BY <1>1
  <2> QED BY <2>1 DEF Distinct
<1> QED BY <1>1, <1>2, <1>3, <1>4 DEF Before, Behind

-----------------------------------------------------------------------------
(* The steps *)

(* Wherever it is in the list, a new task goes behind the others. *)
LEMMA NewStep ==
  ASSUME TaskListInv, NEW t \in Tasks, task_new(t)
  PROVE  TaskListInv'
<1> USE TaskListAssumption
<1> DEFINE L == Len(live)
<1>1. /\ L \in Nat /\ (live = <<>> <=> L = 0)
      /\ \A i \in 1 .. L : live[i] \in Tasks /\ live[i] # t
  BY SeqFacts DEF task_new, TaskListInv, Types
<1>2. /\ live' \in Seq(Tasks) /\ Distinct(live') /\ Len(live') = L + 1
      /\ live'[L + 1] = t /\ (\A i \in 1 .. L : live'[i] = live[i])
  BY AppendFacts DEF task_new, TaskListInv, Types
<1>3. live' # <<>> /\ \A x : x \in ToSet(live') <=> x \in ToSet(live) \cup {t}
  <2>1. \A i \in 1 .. (L + 1) : i \in 1 .. L \/ i = L + 1
    BY <1>1
  <2>2. live' # <<>>
    BY <1>1, <1>2, SeqFacts
  <2>3. \A x : x \in ToSet(live') <=> \E i \in 1 .. (L + 1) : live'[i] = x
    BY <1>2, SeqFacts
  <2>4. \A x : x \in ToSet(live) <=> \E i \in 1 .. L : live[i] = x
    BY SeqFacts DEF TaskListInv, Types
  <2>5. \A i \in 1 .. L : i \in 1 .. (L + 1)
    BY <1>1
  <2>6. L + 1 \in 1 .. (L + 1)
    BY <1>1
  <2> HIDE DEF L
  <2> QED BY <1>2, <2>1, <2>2, <2>3, <2>4, <2>5, <2>6
<1>4. task_head = NULL <=> L = 0
  BY <1>1 DEF TaskListInv, Forward
<1>5. L > 0 => task_tail = live[L] /\ task_tail \in Tasks /\ task_tail # t
  BY <1>1 DEF TaskListInv, Forward
<1>6. /\ next' \in [Tasks -> Tasks \cup {NULL}] /\ next'[t] = NULL
      /\ L > 0 => next'[live[L]] = t
      /\ \A i \in 1 .. (L - 1) : next'[live[i]] = next[live[i]]
  <2>1. \A i \in 1 .. (L - 1) : L > 0 => live[i] # live[L]
    BY <1>1 DEF TaskListInv, Types, Distinct
  <2> QED BY <1>1, <1>4, <1>5, <2>1 DEF task_new, TaskListInv, Types
<1>7. /\ prev' \in [Tasks -> Tasks \cup {NULL}]
      /\ prev'[t] = IF L = 0 THEN NULL ELSE live[L]
      /\ \A i \in 1 .. L : prev'[live[i]] = prev[live[i]]
  BY <1>1, <1>4, <1>5 DEF task_new, TaskListInv, Types
<1>8. Types'
  BY <1>2, <1>6, <1>7 DEF task_new, TaskListInv, Types
<1>9. Forward'
  <2>1. task_head' = live'[1] /\ task_tail' = live'[Len(live')]
    BY <1>1, <1>2, <1>4 DEF task_new, TaskListInv, Forward
  <2>2. \A i \in 1 .. Len(live') :
          next'[live'[i]] = IF i = Len(live') THEN NULL ELSE live'[i + 1]
    <3> TAKE i \in 1 .. Len(live')
    <3>1. CASE i = L + 1
      BY <1>2, <1>6, <3>1
    <3>2. CASE i = L
      BY <1>1, <1>2, <1>6, <3>2
    <3>3. CASE i \in 1 .. (L - 1)
      <4>1. next[live[i]] = live[i + 1] /\ i \in 1 .. L /\ i + 1 \in 1 .. L
        BY <1>1, <3>3 DEF TaskListInv, Forward
      <4>2. i # Len(live')
        BY <1>1, <1>2, <3>3
      <4> QED BY <1>2, <1>6, <3>3, <4>1, <4>2
    <3> QED BY <1>1, <1>2, <3>1, <3>2, <3>3
  <2> QED BY <1>3, <2>1, <2>2 DEF Forward
<1>10. Backward'
  <2> SUFFICES ASSUME lifo', NEW i \in 1 .. Len(live')
               PROVE  prev'[live'[i]] = IF i = 1 THEN NULL ELSE live'[i - 1]
    BY DEF Backward
  <2>1. lifo
    BY DEF task_new
  <2>2. CASE i = L + 1
    <3>1. i - 1 = L /\ (i = 1 <=> L = 0) /\ (L > 0 => live'[L] = live[L])
      BY <1>1, <1>2, <2>2
    <3> QED BY <1>1, <1>2, <1>7, <2>2, <3>1
  <2>3. CASE i \in 1 .. L
    <3>1. i # 1 => i - 1 \in 1 .. L
      BY <1>1, <2>3
    <3> QED BY <1>2, <1>7, <2>1, <2>3, <3>1 DEF TaskListInv, Backward
  <2> QED BY <1>1, <1>2, <2>2, <2>3
<1>11. CurrentIsLive'
  BY <1>1, <1>3, <1>4 DEF task_new, InKernel, TaskListInv, CurrentIsLive
<1> QED BY <1>8, <1>9, <1>10, <1>11 DEF TaskListInv

(* Freeing a task, at either end or in the middle, whether or not it is    *)
(* the current one.                                                        *)
LEMMA FreeStep ==
  ASSUME TaskListInv, NEW t \in Tasks, task_free(t)
  PROVE  TaskListInv'
<1> USE TaskListAssumption
<1> DEFINE L == Len(live)
<1>2. PICK k \in 1 .. L : live[k] = t
  BY SeqFacts DEF task_free, TaskListInv, Types
<1>3. /\ L \in Nat /\ L > 0 /\ live # <<>>
      /\ \A i \in 1 .. L : live[i] \in Tasks
      /\ \A i, j \in 1 .. L : live[i] = live[j] => i = j
  BY <1>2, SeqFacts DEF TaskListInv, Types, Distinct
<1>4. Place(t) = k /\ prev[t] = IF k = 1 THEN NULL ELSE live[k - 1]
  BY <1>2, PlaceOf DEF task_free, TaskListInv, Types
<1>5. next[t] = IF k = L THEN NULL ELSE live[k + 1]
  BY <1>2 DEF TaskListInv, Forward
<1>6. /\ live' \in Seq(Tasks) /\ Distinct(live') /\ Len(live') = L - 1
      /\ \A i \in 1 .. (L - 1) : live'[i] = live[IF i < k THEN i ELSE i + 1]
  <2>1. live' = RemoveAt(live, k)
    BY <1>4 DEF task_free
  <2> QED BY <1>2, <2>1, RemoveFacts DEF TaskListInv, Types
<1>7. /\ live' = <<>> <=> L = 1
      /\ \A x : x \in ToSet(live') <=> x \in ToSet(live) /\ x # t
  <2>1. live' = <<>> <=> L = 1
    BY <1>3, <1>6, SeqFacts
  <2>2. ASSUME NEW x, x \in ToSet(live') PROVE x \in ToSet(live) /\ x # t
    <3>1. PICK i \in 1 .. (L - 1) : live'[i] = x
      BY <1>6, <2>2, SeqFacts
    <3>2. (IF i < k THEN i ELSE i + 1) \in 1 .. L /\ (IF i < k THEN i ELSE i + 1) # k
      BY <1>3
    <3> QED BY <1>2, <1>3, <1>6, <3>1, <3>2, SeqFacts DEF TaskListInv, Types
  <2>3. ASSUME NEW x, x \in ToSet(live), x # t PROVE x \in ToSet(live')
    <3>1. PICK i \in 1 .. L : live[i] = x
      BY <2>3, SeqFacts DEF TaskListInv, Types
    <3>2. i # k
      BY <1>2, <2>3, <3>1
    <3>3. CASE i < k
      BY <1>3, <1>6, <3>1, <3>3, SeqFacts
    <3>4. CASE i > k
      <4>1. i - 1 \in 1 .. (L - 1) /\ ~(i - 1 < k) /\ (i - 1) + 1 = i
        BY <1>3, <3>4
      <4> QED BY <1>6, <3>1, <4>1, SeqFacts
    <3> QED BY <3>2, <3>3, <3>4
  <2> QED BY <2>1, <2>2, <2>3
<1>8. /\ next' \in [Tasks -> Tasks \cup {NULL}]
      /\ k > 1 => next'[live[k - 1]] = next[t]
      /\ \A i \in 1 .. L : i # k - 1 => next'[live[i]] = next[live[i]]
  <2>1. CASE k = 1
    <3>1. next' = next
      BY <1>4, <2>1 DEF task_free, task_list_remove
    <3> QED BY <2>1, <3>1 DEF TaskListInv, Types
  <2>2. CASE k > 1
    <3>1. k - 1 \in 1 .. L /\ prev[t] = live[k - 1] /\ live[k - 1] \in Tasks
      BY <1>3, <1>4, <2>2
    <3>2. next' = [next EXCEPT ![live[k - 1]] = next[t]]
      BY <3>1 DEF task_free, task_list_remove
    <3>3. next[t] \in Tasks \cup {NULL}
      BY DEF TaskListInv, Types
    <3>4. \A i \in 1 .. L : i # k - 1 => live[i] # live[k - 1]
      BY <1>3, <3>1
    <3> QED BY <1>3, <3>1, <3>2, <3>3, <3>4 DEF TaskListInv, Types
  <2> QED BY <1>3, <2>1, <2>2
<1>9. Forward'
  <2>1. task_head' = IF L = 1 THEN NULL ELSE live'[1]
    <3>1. t = task_head <=> k = 1
      BY <1>2, <1>3 DEF TaskListInv, Forward
    <3>2. task_head' = IF k = 1 THEN next[t] ELSE live[1]
      BY <1>3, <3>1 DEF task_free, task_list_remove, TaskListInv, Forward
    <3>3. L # 1 => live'[1] = live[IF 1 < k THEN 1 ELSE 2]
      BY <1>3, <1>6
    <3>4. CASE k = 1
      BY <1>3, <1>5, <3>2, <3>3, <3>4
    <3>5. CASE k > 1
      BY <1>3, <3>2, <3>3, <3>5
    <3> QED BY <1>3, <3>4, <3>5
  <2>2. task_tail' = IF L = 1 THEN NULL ELSE live'[L - 1]
    <3>1. t = task_tail <=> k = L
      BY <1>2, <1>3 DEF TaskListInv, Forward
    <3>2. task_tail' = IF k = L THEN prev[t] ELSE live[L]
      BY <1>3, <3>1 DEF task_free, task_list_remove, TaskListInv, Forward
    <3>3. L # 1 => live'[L - 1] = live[IF L - 1 < k THEN L - 1 ELSE (L - 1) + 1]
      BY <1>3, <1>6
    <3>4. CASE k = L
      BY <1>3, <1>4, <3>2, <3>3, <3>4
    <3>5. CASE k < L
      <4>1. L # 1 /\ ~(L - 1 < k) /\ (L - 1) + 1 = L
        BY <1>3, <3>5
      <4>2. live'[L - 1] = live[L]
        BY <3>3, <4>1
      <4>3. task_tail' = live[L]
        BY <1>3, <3>2, <3>5
      <4> QED BY <4>1, <4>2, <4>3
    <3> QED BY <1>3, <3>4, <3>5
  <2>3. \A i \in 1 .. (L - 1) : next'[live'[i]] = IF i = L - 1 THEN NULL ELSE live'[i + 1]
    <3> TAKE i \in 1 .. (L - 1)
    <3>1. i # L - 1 => i + 1 \in 1 .. (L - 1)
      BY <1>3
    <3>2. CASE i >= k
      <4>1. i + 1 \in 1 .. L /\ i + 1 # k - 1 /\ live'[i] = live[i + 1]
        BY <1>3, <1>6, <3>2
      <4>2. next'[live'[i]] = IF i + 1 = L THEN NULL ELSE live[(i + 1) + 1]
        BY <1>8, <4>1 DEF TaskListInv, Forward
      <4>3. i # L - 1 => live'[i + 1] = live[(i + 1) + 1]
        BY <1>3, <1>6, <3>1, <3>2
      <4> QED BY <1>3, <4>2, <4>3
    <3>3. CASE i = k - 1
      <4>1. live'[i] = live[k - 1] /\ k > 1
        BY <1>3, <1>6, <3>3
      <4>2. next'[live'[i]] = IF k = L THEN NULL ELSE live[k + 1]
        BY <1>5, <1>8, <4>1
      <4>3. i # L - 1 => live'[i + 1] = live[k + 1]
        BY <1>3, <1>6, <3>1, <3>3
      <4> QED BY <1>3, <3>3, <4>2, <4>3
    <3>4. CASE i < k - 1
      <4>1. i \in 1 .. L /\ i # k - 1 /\ live'[i] = live[i] /\ i # L
        BY <1>3, <1>6, <3>4
      <4>2. next'[live'[i]] = live[i + 1]
        BY <1>8, <4>1 DEF TaskListInv, Forward
      <4>3. i # L - 1 /\ live'[i + 1] = live[i + 1]
        BY <1>3, <1>6, <3>1, <3>4
      <4> QED BY <4>2, <4>3
    <3> QED BY <1>3, <3>2, <3>3, <3>4
  <2> QED BY <1>3, <1>6, <1>7, <2>1, <2>2, <2>3 DEF Forward
<1>10. Backward'
  <2> SUFFICES ASSUME lifo', NEW i \in 1 .. Len(live')
               PROVE  prev'[live'[i]] = IF i = 1 THEN NULL ELSE live'[i - 1]
    BY DEF Backward
  <2>1. lifo /\ t = Last(live) /\ prev' = prev
    BY DEF task_free, task_list_remove
  <2>2. k = L
    BY <1>2, <1>3, <2>1 DEF Last
  <2>3. live'[i] = live[i] /\ i \in 1 .. L
    BY <1>3, <1>6, <2>2
  <2>4. i # 1 => live'[i - 1] = live[i - 1]
    BY <1>3, <1>6, <2>2
  <2> QED BY <2>1, <2>3, <2>4 DEF TaskListInv, Backward
<1>11. CurrentIsLive'
  <2>1. loaded' = KERNEL
    BY DEF task_free, InKernel
  <2>2. current_task \in ToSet(live)
    BY <1>3 DEF TaskListInv, CurrentIsLive
  <2>3. CASE t # current_task
    <3>1. current_task' = current_task
      BY <2>3 DEF task_free, task_list_remove
    <3>2. current_task \in ToSet(live')
      BY <1>7, <2>2, <2>3
    <3>3. live' # <<>>
      <4>1. ToSet(<<>>) = {}
        BY DEF ToSet
      <4> QED BY <3>2, <4>1
    <3> QED BY <2>1, <3>1, <3>2, <3>3 DEF CurrentIsLive
  <2>4. CASE t = current_task
    <3>1. current_task' = IF next[t] = NULL THEN task_head' ELSE next[t]
      BY <2>4 DEF task_free, task_list_remove, task_get_next
    <3>2. CASE k = L
      <4>1. current_task' = IF live' = <<>> THEN NULL ELSE live'[1]
        BY <1>5, <1>9, <3>1, <3>2 DEF Forward
      <4>2. live' # <<>> => live'[1] \in ToSet(live')
        BY <1>3, <1>6, <1>7, SeqFacts
      <4> QED BY <2>1, <4>1, <4>2 DEF CurrentIsLive
    <3>3. CASE k # L
      <4>1. current_task' = live[k + 1] /\ k + 1 \in 1 .. L
        BY <1>3, <1>5, <3>1, <3>3
      <4>2. live[k + 1] \in ToSet(live) /\ live[k + 1] # t
        BY <1>2, <1>3, <4>1, SeqFacts DEF TaskListInv, Types
      <4>3. current_task' \in ToSet(live')
        BY <1>7, <4>1, <4>2
      <4>4. live' # <<>>
        BY <1>3, <1>7, <3>3
      <4> QED BY <2>1, <4>3, <4>4 DEF CurrentIsLive
    <3> QED BY <3>2, <3>3
  <2> QED BY <2>3, <2>4
<1>12. Types'
  <2>1. {task_head', task_tail'} \subseteq Tasks \cup {NULL}
    BY DEF task_free, task_list_remove, TaskListInv, Types
  <2>2. current_task' \in Tasks \cup {NULL}
    BY <2>1 DEF task_free, task_list_remove, task_get_next, TaskListInv, Types
  <2> QED BY <1>6, <1>8, <2>1, <2>2 DEF task_free, task_list_remove, TaskListInv, Types
<1> QED BY <1>9, <1>10, <1>11, <1>12 DEF TaskListInv

(* Every operation keeps the list, the current task and the page directory *)
(* that is loaded.                                                         *)
THEOREM TaskListInvariant == Spec => []TaskListInv
<1>1. Init => TaskListInv
  <2> SUFFICES ASSUME Init PROVE TaskListInv
    OBVIOUS
  <2>1. <<>> \in Seq(Tasks) /\ Len(<<>>) = 0
    BY EmptySeq
  <2> QED BY <2>1 DEF Init, TaskListInv, Types, Distinct, Forward, Backward, CurrentIsLive
<1>2. TaskListInv /\ [Next]_vars => TaskListInv'
  <2> SUFFICES ASSUME TaskListInv, [Next]_vars PROVE TaskListInv'
    OBVIOUS
  <2>1. ASSUME NEW t \in Tasks, task_switch(t) PROVE TaskListInv'
    <3>1. live # <<>>
      BY <2>1 DEF task_switch, ToSet
    <3> QED BY <2>1, <3>1
        DEF task_switch, TaskListInv, Types, Forward, Backward, CurrentIsLive
  <2>2. CASE task_run_first_ever_task
    <3>1. live # <<>>
      BY <2>2 DEF task_run_first_ever_task, TaskListInv, CurrentIsLive
    <3>2. task_head = live[1] /\ live[1] \in ToSet(live) /\ live[1] \in Tasks
      BY <3>1, SeqFacts DEF TaskListInv, Types, Forward
    <3> QED BY <2>2, <3>1, <3>2
        DEF task_run_first_ever_task, TaskListInv, Types, Forward, Backward, CurrentIsLive
  <2>3. CASE task_page
    <3>1. live # <<>>
      BY <2>3 DEF task_page, TaskListInv, CurrentIsLive
    <3> QED BY <2>3, <3>1
        DEF task_page, pointers, TaskListInv, Types, Forward, Backward, CurrentIsLive
  <2>4. CASE kernel_page
    BY <2>4 DEF kernel_page, pointers, TaskListInv, Types, Forward, Backward, CurrentIsLive
  <2>5. ASSUME task_new_fails \/ \E t \in Tasks : task_free_stale(t) PROVE TaskListInv'
    <3>1. UNCHANGED <<pointers, loaded, live, lifo>> /\ ok' \in BOOLEAN
      BY <2>5 DEF task_new_fails, task_free_stale
    <3> QED BY <3>1 DEF pointers, TaskListInv, Types, Forward, Backward, CurrentIsLive
  <2>6. CASE UNCHANGED vars
    BY <2>6 DEF vars, pointers, TaskListInv, Types, Forward, Backward, CurrentIsLive
  <2> QED BY <2>1, <2>2, <2>3, <2>4, <2>5, <2>6, NewStep, FreeStep DEF Next
<1> QED BY <1>1, <1>2, PTL DEF Spec

-----------------------------------------------------------------------------
(* Going round the list *)

(* A function that goes on with task_get_next at every place from t visits *)
(* what Visited says.                                                      *)
LEMMA VisitedBy ==
  ASSUME NEW t, NEW k \in Nat, NEW g \in [0 .. k -> Tasks], g[0] = t,
         \A i \in 0 .. k : i # 0 => /\ g[i - 1] # NULL
                                    /\ g[i] = task_get_next(g[i - 1], task_head)
  PROVE  \A x : x \in Visited(t, k) <=> \E i \in 0 .. k : g[i] = x
<1> DEFINE After(x) == IF x = NULL THEN NULL ELSE task_get_next(x, task_head)
           F(f) == [i \in 0 .. k |-> IF i = 0 THEN t ELSE After(f[i - 1])]
           at == CHOOSE f : f = F(f)
           D == {i \in 0 .. k : at[i] # g[i]}
<1>1. g = F(g)
  <2> HIDE DEF at
  <2>1. \A i \in 0 .. k : g[i] = IF i = 0 THEN t ELSE After(g[i - 1])
    OBVIOUS
  <2> QED BY <2>1
<1>2. at = F(at)
  BY <1>1
<1>3. Visited(t, k) = {at[i] : i \in 0 .. k}
  BY DEF Visited
<1> HIDE DEF at
<1>4. D = {}
  <2> SUFFICES ASSUME D # {} PROVE FALSE
    OBVIOUS
  <2>1. D \subseteq Nat
    OBVIOUS
  <2>2. PICK m \in D : \A d \in D : ~(<<d, m>> \in OpToRel(<, Nat))
    BY <2>1, WFMin, NatLessThanWellFounded
  <2>3. \A d \in D : ~(d < m)
    BY <2>1, <2>2 DEF OpToRel
  <2>4. m # 0
    BY <1>1, <1>2
  <2>5. m - 1 \in 0 .. k /\ m - 1 < m /\ m \in 0 .. k /\ at[m] # g[m]
    BY <2>4
  <2>6. at[m - 1] = g[m - 1]
    BY <2>3, <2>5
  <2> HIDE DEF After, D
  <2>7. at[m] = After(at[m - 1])
    BY <1>2, <2>4, <2>5
  <2>8. g[m] = After(g[m - 1])
    BY <1>1, <2>4, <2>5
  <2> QED BY <2>5, <2>6, <2>7, <2>8
<1> QED BY <1>3, <1>4

(* From any task, task_get_next goes once round the whole list. *)
LEMMA RoundTrip ==
  ASSUME Types, Forward, NEW p \in 1 .. Len(live)
  PROVE  Visited(live[p], Len(live) - 1) = ToSet(live)
<1> DEFINE L == Len(live)
           k == L - 1
           Pos(i) == IF p + i <= L THEN p + i ELSE p + i - L
           g == [i \in 0 .. k |-> live[Pos(i)]]
<1>1. /\ L \in Nat /\ L > 0 /\ live # <<>> /\ k \in Nat
      /\ \A i \in 1 .. L : live[i] \in Tasks /\ live[i] # NULL
      /\ \A x : x \in ToSet(live) <=> \E i \in 1 .. L : live[i] = x
  BY SeqFacts, TaskListAssumption DEF Types
<1>2. \A i \in 0 .. k : Pos(i) \in 1 .. L
  BY <1>1
<1>3. \A j \in 1 .. L : \E i \in 0 .. k : Pos(i) = j
  <2> TAKE j \in 1 .. L
  <2>1. CASE j >= p
    <3>1. j - p \in 0 .. k /\ Pos(j - p) = j
      BY <1>1, <2>1
    <3> QED BY <3>1
  <2>2. CASE j < p
    <3>1. (j - p) + L \in 0 .. k /\ Pos((j - p) + L) = j
      BY <1>1, <2>2
    <3> QED BY <3>1
  <2> QED BY <2>1, <2>2
<1>4. \A j \in 1 .. L : task_get_next(live[j], task_head) = live[IF j = L THEN 1 ELSE j + 1]
  <2> TAKE j \in 1 .. L
  <2>1. next[live[j]] = IF j = L THEN NULL ELSE live[j + 1]
    BY DEF Forward
  <2>2. j # L => live[j + 1] # NULL
    BY <1>1
  <2>3. task_head = live[1]
    BY <1>1 DEF Forward
  <2> QED BY <2>1, <2>2, <2>3 DEF task_get_next
<1>5. g[0] = live[p]
  BY <1>1
<1>6. \A i \in 0 .. k : i # 0 => /\ i - 1 \in 0 .. k
                                 /\ Pos(i) = IF Pos(i - 1) = L THEN 1 ELSE Pos(i - 1) + 1
  BY <1>1
<1>7. \A i \in 0 .. k : g[i] = live[Pos(i)]
  OBVIOUS
<1>8. g \in [0 .. k -> Tasks]
  BY <1>1, <1>2
<1> HIDE DEF Pos, g, k
<1>9. \A i \in 0 .. k : i # 0 => /\ g[i - 1] # NULL
                                 /\ g[i] = task_get_next(g[i - 1], task_head)
  <2> SUFFICES ASSUME NEW i \in 0 .. k, i # 0
               PROVE  g[i - 1] # NULL /\ g[i] = task_get_next(g[i - 1], task_head)
    OBVIOUS
  <2>1. i - 1 \in 0 .. k /\ Pos(i - 1) \in 1 .. L
    BY <1>2, <1>6
  <2>2. g[i - 1] = live[Pos(i - 1)] /\ g[i - 1] # NULL
    BY <1>1, <1>7, <2>1
  <2>3. task_get_next(g[i - 1], task_head) = live[IF Pos(i - 1) = L THEN 1 ELSE Pos(i - 1) + 1]
    BY <1>4, <2>1, <2>2
  <2> QED BY <1>6, <1>7, <2>2, <2>3
<1>10. \A x : x \in Visited(live[p], k) <=> \E i \in 0 .. k : g[i] = x
  <2>1. k \in Nat
    BY <1>1
  <2> HIDE DEF L
  <2> QED BY <1>5, <1>8, <1>9, <2>1, VisitedBy, Zenon
<1>11. ASSUME NEW x PROVE x \in Visited(live[p], k) <=> x \in ToSet(live)
  <2>1. ASSUME NEW i \in 0 .. k, g[i] = x PROVE x \in ToSet(live)
    BY <1>1, <1>2, <1>7, <2>1
  <2>2. ASSUME NEW j \in 1 .. L, live[j] = x PROVE \E i \in 0 .. k : g[i] = x
    BY <1>3, <1>7, <2>2
  <2> QED BY <1>1, <1>10, <2>1, <2>2
<1>12. Visited(live[p], k) = ToSet(live)
  BY <1>11
<1> QED BY <1>12 DEF k

-----------------------------------------------------------------------------
(* The properties *)

(* In whatever order tasks are freed, task_head, the next links and        *)
(* task_tail are the list of the tasks not freed, and task_get_next goes   *)
(* round all of them.                                                      *)
THEOREM ListKeepsOrder == Spec => []ForwardList
<1>1. TaskListInv => ForwardList
  <2> SUFFICES ASSUME TaskListInv PROVE ForwardList
    OBVIOUS
  <2>1. TypeOK
    BY DistinctLength DEF TaskListInv, Types, TypeOK
  <2>2. /\ task_head = IF live = <<>> THEN NULL ELSE Head(live)
        /\ task_tail = IF live = <<>> THEN NULL ELSE Last(live)
    BY SeqFacts DEF TaskListInv, Types, Forward
  <2>3. ASSUME NEW t \in ToSet(live)
        PROVE  next[t] = Behind(t) /\ Visited(t, Len(live) - 1) = ToSet(live)
    <3>1. PICK i \in 1 .. Len(live) : live[i] = t
      BY SeqFacts DEF TaskListInv, Types
    <3>2. next[t] = Behind(t)
      BY <3>1, PlaceOf DEF TaskListInv, Types, Forward
    <3>3. Visited(t, Len(live) - 1) = ToSet(live)
      BY <3>1, RoundTrip DEF TaskListInv
    <3> QED BY <3>2, <3>3
  <2> QED BY <2>1, <2>2, <2>3 DEF ForwardList
<1> QED BY <1>1, TaskListInvariant, PTL

(* A caller that frees only the newest task has a list that is linked      *)
(* backwards too, and so never writes through a stale prev.                *)
THEOREM LifoKeepsPrev == Spec => []BackwardListIfLifo
<1>1. TaskListInv => BackwardListIfLifo
  <2> SUFFICES ASSUME TaskListInv, lifo, NEW t \in ToSet(live) PROVE prev[t] = Before(t)
    BY DEF BackwardListIfLifo
  <2>1. PICK i \in 1 .. Len(live) : live[i] = t
    BY SeqFacts DEF TaskListInv, Types
  <2> QED BY <2>1, PlaceOf DEF TaskListInv, Types, Backward
<1> QED BY <1>1, TaskListInvariant, PTL

(* The current task is never a freed one, and user code never runs on the  *)
(* page directory of a freed task.                                         *)
THEOREM CurrentTaskIsLive == Spec => []CurrentIsLive
<1>1. TaskListInv => CurrentIsLive
  BY DEF TaskListInv
<1> QED BY <1>1, TaskListInvariant, PTL
=============================================================================
