----------------------------- MODULE FilesProofs -----------------------------
(***************************************************************************)
(* Proofs about opening and closing files, for every directory, every set  *)
(* of paths and every size of the descriptor table: the table, the parsing *)
(* of a path and the lookup; and about reading a file, for every chain of  *)
(* clusters, position, size and count.                                     *)
(***************************************************************************)
EXTENDS Files, FileRead, DriveProofs, FiniteSetTheorems, SequenceTheorems, WellFoundedInduction, TLAPS

-----------------------------------------------------------------------------
(* The inductive invariant *)

Entries == UNION {ToSet(area) : area \in Disks}

(* The entries that are looked at lie on the disk. *)
RootRead ==
  /\ root.total \in 0 .. RootEntries
  /\ \A k \in 1 .. root.total : root.item[k] \in Entries

(* The path in work, its parts and the search in the directory. *)
Search ==
  /\ path \in Seq(Chars) /\ tmp_path \in Seq(Chars) /\ parts \in Seq(Seq(Chars))
  /\ Len(tmp_path) < MaxPath \/ tmp_path = <<>>
  /\ PartsFit
  /\ pc \in {"find", "desc"} => /\ parts # <<>> /\ i \in 1 .. (root.total + 1)
                                /\ f_item # NONE => f_item \in 1 .. root.total /\ Matches(f_item)
  /\ pc = "desc" => f_item # NONE
  /\ pc \notin {"find", "desc"} => f_item = NONE
  /\ pc # "idle" => opens > 0

(* The places in use, the numbers that callers hold and the FAT            *)
(* descriptors belong together one to one; the running fopen has none yet. *)
TableMatches ==
  /\ held = {fd \in Fds : file_descriptors[fd] # NONE}
  /\ \A fd \in held : file_descriptors[fd] \in DOMAIN private
  /\ \A fd, other \in held : file_descriptors[fd] = file_descriptors[other] => fd = other
  /\ \A o \in DOMAIN private : /\ o <= opens /\ private[o].item \in 1 .. root.total
                               /\ pc # "idle" => o # opens

(* What an open file needs is on the heap, and what the running fopen will *)
(* make it of.                                                             *)
Allocated ==
  /\ \A o \in DOMAIN private :
       {<<"private", o, 0>>, <<"desc", o, 0>>, <<"item", o, private[o].item>>,
        <<"clone", o, private[o].item>>} \subseteq heap
  /\ pc \in {"find", "desc"} => <<"private", opens, 0>> \in heap
  /\ f_item # NONE => {<<"item", opens, f_item>>, <<"clone", opens, f_item>>} \subseteq heap

ItemKinds == {"item", "clone", "directory", "items"}

(* What else an open file or the running fopen has on the heap: items of   *)
(* entries that the code takes for the same name.                          *)
Leftovers ==
  \A kind \in Kinds, o \in Opens, k \in Nat :
    <<kind, o, k>> \in heap =>
      /\ o <= opens
      /\ kind \in {"private", "desc"} => k = 0
      /\ kind \in ItemKinds /\ o \in DOMAIN private =>
           k \in 1 .. root.total /\ Alike(k, private[o].item)
      /\ kind \in ItemKinds /\ o = opens /\ pc # "idle" =>
           k \in 1 .. root.total /\ Matches(k) /\ pc \in {"find", "desc"}
      /\ kind \in {"directory", "items"} => root.item[k].attribute = SUBDIR

FilesInv == TypeOK /\ RootRead /\ Search /\ TableMatches /\ Allocated /\ Leftovers

-----------------------------------------------------------------------------
(* Strings and directories *)

(* The smallest of a set of natural numbers. *)
LEMMA MinFacts ==
  ASSUME NEW S \in SUBSET Nat, S # {}
  PROVE  Min(S) \in S /\ \A y \in S : Min(S) <= y
<1>1. PICK x \in S : \A y \in S : ~(<<y, x>> \in OpToRel(<, Nat))
  BY WFMin, NatLessThanWellFounded
<1>2. \A y \in S : ~(y < x)
  BY <1>1 DEF OpToRel
<1>3. \A y \in S : x <= y
  BY <1>2
<1>4. \E z \in S : \A y \in S : z <= y
  BY <1>3
<1> QED BY <1>4 DEF Min

(* The loops that copy up to one of several characters: the copy is the    *)
(* string or shorter, and has none of them in it.                          *)
LEMMA UntilFacts ==
  ASSUME NEW s \in Seq(Chars), NEW stop
  PROVE  /\ Until(s, stop) \in Seq(Chars)
         /\ Until(s, stop) = s \/ Len(Until(s, stop)) < Len(s)
         /\ \A j \in DOMAIN Until(s, stop) : Until(s, stop)[j] \notin stop
<1> DEFINE I  == {j \in 1 .. Len(s) : s[j] \in stop}
           at == IF I # {} THEN Min(I) ELSE 0
<1>0. Len(s) \in Nat /\ DOMAIN s = 1 .. Len(s)
  OBVIOUS
<1>1. Until(s, stop) = IF at = 0 THEN s ELSE SubSeq(s, 1, at - 1)
  BY DEF Until, SelectInSeq
<1>2. I \in SUBSET Nat
  OBVIOUS
<1>3. I # {} => at \in I /\ \A y \in I : at <= y
  BY <1>2, MinFacts
<1>4. I = {} => at = 0
  OBVIOUS
<1> HIDE DEF at
<1>5. CASE I = {}
  BY <1>0, <1>1, <1>4, <1>5
<1>6. CASE I # {}
  <2>1. at \in 1 .. Len(s) /\ at # 0
    BY <1>3, <1>6
  <2> DEFINE t == SubSeq(s, 1, at - 1)
  <2>2. Until(s, stop) = t
    BY <1>1, <2>1
  <2>3. t \in Seq(Chars) /\ Len(t) = at - 1 /\ \A j \in 1 .. (at - 1) : t[j] = s[j]
    BY <2>1
  <2> HIDE DEF t
  <2>4. ASSUME NEW j \in DOMAIN t PROVE t[j] \notin stop
    <3>1. j \in 1 .. (at - 1) /\ j \in 1 .. Len(s) /\ j < at
      BY <1>0, <2>1, <2>3
    <3>2. j \notin I
      BY <1>0, <1>3, <1>6, <2>1, <3>1
    <3> QED BY <2>3, <3>1, <3>2
  <2> QED BY <1>0, <2>1, <2>2, <2>3, <2>4
<1> QED BY <1>5, <1>6

(* The root directory's entries, as far as they are looked at, lie on the  *)
(* disk before the entry that ends it.                                     *)
LEMMA RootFacts ==
  ASSUME NEW area \in Disks
  PROVE  LET r == fat16_get_root_directory(area, RootEntries)
         IN  /\ r.total \in 0 .. RootEntries
             /\ \A k \in 1 .. r.total : r.item[k] \in Entries
<1> DEFINE I   == {j \in 1 .. Len(area) : area[j].filename[1] = ZERO}
           end == Min(I)
           used == {j \in 1 .. (end - 1) : area[j].filename[1] # DELETED}
           r == fat16_get_root_directory(area, RootEntries)
<1>1. /\ RootEntries \in Nat /\ area \in Seq(fat_directory_item)
      /\ Len(area) >= RootEntries
      /\ \E k \in DOMAIN area : k <= RootEntries + 1 /\ area[k].filename[1] = ZERO
  BY FilesAssumption
<1>2. PICK k \in 1 .. Len(area) : k <= RootEntries + 1 /\ k \in I
  BY <1>1
<1>3. I # {} /\ I \in SUBSET Nat
  BY <1>2
<1>4. end \in I /\ end <= k
  BY <1>2, <1>3, MinFacts
<1>5. end \in 1 .. Len(area) /\ end <= RootEntries + 1 /\ Len(area) \in Nat
  BY <1>1, <1>2, <1>4
<1>6. SelectInSeq(area, LAMBDA e : e.filename[1] = ZERO) = end
  BY <1>3 DEF SelectInSeq
<1>7. r.total = Cardinality(used) /\ r.item = SubSeq(area, 1, RootEntries)
  BY <1>6 DEF fat16_get_root_directory, fat16_get_total_items_for_directory
<1> HIDE DEF end
<1>8. Cardinality(used) \in Nat /\ Cardinality(used) <= end - 1
  <2>1. IsFiniteSet(1 .. (end - 1)) /\ Cardinality(1 .. (end - 1)) = end - 1
    <3>1. end - 1 \in Int /\ 1 \in Int /\ (IF 1 > end - 1 THEN 0 ELSE (end - 1) - 1 + 1) = end - 1
      BY <1>5
    <3> QED BY <3>1, FS_Interval
  <2>2. used \in SUBSET (1 .. (end - 1))
    OBVIOUS
  <2>3. IsFiniteSet(used) /\ Cardinality(used) <= Cardinality(1 .. (end - 1))
    BY <2>1, <2>2, FS_Subset
  <2> QED BY <2>1, <2>3, FS_CardinalityType
<1> HIDE DEF used, r
<1>9. r.total \in 0 .. RootEntries
  BY <1>1, <1>5, <1>7, <1>8
<1>10. ASSUME NEW j \in 1 .. r.total PROVE r.item[j] \in Entries
  <2>1. j \in 1 .. RootEntries /\ j \in 1 .. Len(area)
    BY <1>1, <1>5, <1>7, <1>8, <1>9
  <2>2. r.item[j] = area[j]
    BY <1>1, <1>7, <2>1
  <2>3. area[j] \in ToSet(area)
    BY <1>1, <2>1 DEF ToSet
  <2> QED BY <2>2, <2>3 DEF Entries
<1> QED BY <1>9, <1>10 DEF r

(* The names of entries are strings. *)
LEMMA NameFacts ==
  ASSUME NEW e \in Entries
  PROVE  /\ fat16_get_full_relative_filename(e) \in Seq(Chars)
         /\ e.size \in Nat
<1>1. e \in fat_directory_item
  <2>1. PICK area \in Disks : e \in ToSet(area)
    BY DEF Entries
  <2>2. area \in Seq(fat_directory_item)
    BY FilesAssumption
  <2> QED BY <2>1, <2>2 DEF ToSet
<1>2. /\ e.filename \in Seq(Chars) /\ e.ext \in Seq(Chars) /\ e.attribute \in Chars /\ e.size \in Nat
      /\ ZERO \in Chars /\ "." \in Chars
  BY <1>1, FilesAssumption DEF fat_directory_item
<1> DEFINE rest == e.ext \o <<e.attribute, ZERO>>
<1>3. rest \in Seq(Chars)
  BY <1>2
<1> HIDE DEF rest
<1>4. e.filename \o rest \in Seq(Chars)
  BY <1>2, <1>3
<1>5. /\ fat16_to_proper_string(e.filename \o rest) \in Seq(Chars)
      /\ fat16_to_proper_string(rest) \in Seq(Chars)
  BY <1>3, <1>4, UntilFacts DEF fat16_to_proper_string
<1>6. <<".">> \in Seq(Chars)
  BY <1>2
<1> QED BY <1>2, <1>5, <1>6 DEF fat16_get_full_relative_filename, rest

(* Two names that both agree with a third agree. *)
LEMMA SameNames ==
  ASSUME NEW s \in Seq(Chars), NEW t \in Seq(Chars), NEW u \in Seq(Chars),
         SameIgnoringCase(s, u), SameIgnoringCase(t, u)
  PROVE  SameIgnoringCase(s, t)
<1>1. Len(s) = Len(u) /\ Len(t) = Len(u) /\ DOMAIN s = DOMAIN t
  BY DEF SameIgnoringCase
<1> QED BY <1>1 DEF SameIgnoringCase

-----------------------------------------------------------------------------
(* The invariant holds *)

(* The bounds are natural numbers. *)
LEMMA Bounds ==
  /\ MaxDescriptors \in Nat \ {0} /\ MaxPath \in Nat /\ RootEntries \in Nat
  /\ MaxOpens \in Nat /\ MaxPos \in Nat
BY FilesAssumption

(* Before the first call nothing is open. *)
LEMMA FilesInit == Init => FilesInv
<1> SUFFICES ASSUME Init PROVE FilesInv
  OBVIOUS
<1>1. /\ filesystem \in BOOLEAN /\ file_descriptors = [fd \in Fds |-> NONE] /\ DOMAIN private = {}
      /\ heap = {} /\ opens = 0 /\ held = {} /\ ok = TRUE /\ pc = "idle" /\ path = <<>>
      /\ tmp_path = <<>> /\ parts = <<>> /\ i = 0 /\ f_item = NONE
  BY DEF Init
<1>2. RootRead
  BY RootFacts DEF Init, RootRead
<1>3. TypeOK
  <2>1. file_descriptors \in [Fds -> 0 .. MaxOpens] /\ opens \in 0 .. MaxOpens
        /\ i \in 0 .. (RootEntries + 1) /\ f_item \in 0 .. RootEntries
    BY <1>1, Bounds DEF NONE
  <2>2. ok \in BOOLEAN /\ root.total \in 0 .. RootEntries
    BY <1>1, <1>2 DEF RootRead
  <2> QED BY <1>1, <2>1, <2>2 DEF TypeOK
<1>4. Search
  BY <1>1 DEF Search, PartsFit
<1>5. TableMatches /\ Allocated /\ Leftovers
  BY <1>1 DEF TableMatches, Allocated, Leftovers
<1> QED BY <1>2, <1>3, <1>4, <1>5 DEF FilesInv

(* The calls that fail, and those that only move the position or use a     *)
(* null pointer, leave the table and the heap alone.                       *)
LEMMA QuietSteps ==
  ASSUME FilesInv,
         UNCHANGED <<root, filesystem, file_descriptors, heap, opens, held>>,
         DOMAIN private' = DOMAIN private,
         \A o \in DOMAIN private : /\ private'[o] \in [item : 1 .. RootEntries, pos : 0 .. MaxPos]
                                   /\ private'[o].item = private[o].item,
         ok' \in BOOLEAN,
         Return \/ UNCHANGED <<pc, call>>
  PROVE  FilesInv'
<1>0. TypeOK /\ RootRead /\ Search /\ TableMatches /\ Allocated /\ Leftovers
  BY DEF FilesInv
<1>1. RootRead'
  BY <1>0 DEF RootRead
<1>2. CASE Return
  <2>1. /\ pc' = "idle" /\ path' = <<>> /\ tmp_path' = <<>> /\ parts' = <<>> /\ i' = 0 /\ f_item' = NONE
    BY <1>2 DEF Return
  <2>2. i' \in 0 .. (RootEntries + 1) /\ f_item' \in 0 .. RootEntries
    BY <2>1, Bounds DEF NONE
  <2>3. TypeOK'
    BY <1>0, <2>1, <2>2 DEF TypeOK
  <2>4. Search'
    BY <2>1 DEF Search, PartsFit
  <2>5. TableMatches' /\ Allocated'
    BY <1>0, <2>1 DEF TableMatches, Allocated
  <2>6. Leftovers'
    BY <1>0, <2>1 DEF Leftovers, Alike
  <2> QED BY <1>1, <2>3, <2>4, <2>5, <2>6 DEF FilesInv
<1>3. CASE UNCHANGED <<pc, call>>
  <2>1. UNCHANGED <<pc, path, tmp_path, parts, i, f_item>>
    BY <1>3 DEF call
  <2>2. TypeOK'
    BY <1>0, <2>1 DEF TypeOK
  <2>3. Search'
    BY <1>0, <2>1 DEF Search, PartsFit, Matches
  <2>4. TableMatches' /\ Allocated'
    BY <1>0, <2>1 DEF TableMatches, Allocated
  <2>5. Leftovers'
    BY <1>0, <2>1 DEF Leftovers, Alike, Matches
  <2> QED BY <1>1, <2>2, <2>3, <2>4, <2>5 DEF FilesInv
<1> QED BY <1>2, <1>3

(* An fopen begins with a number of its own. *)
LEMMA OpenStep ==
  ASSUME FilesInv, NEW p \in Paths, fopen(p)
  PROVE  FilesInv'
<1>0. TypeOK /\ RootRead /\ Search /\ TableMatches /\ Allocated /\ Leftovers
  BY DEF FilesInv
<1>1. /\ pc = "idle" /\ opens < MaxOpens /\ opens' = opens + 1 /\ opens \in Nat /\ opens' \in Opens
      /\ UNCHANGED <<root, filesystem, file_descriptors, private, held, ok>>
  BY <1>0, Bounds DEF fopen, table, TypeOK, Opens
<1>2. RootRead'
  BY <1>0, <1>1 DEF RootRead
<1>3. \A o \in DOMAIN private : o <= opens /\ o \in Nat
  BY <1>0, Bounds DEF TableMatches, TypeOK, Opens
<1>4. TableMatches'
  BY <1>0, <1>1, <1>3 DEF TableMatches
<1>5. f_item = NONE /\ f_item' = NONE
  BY <1>0, <1>1 DEF Search, fopen, Return
<1>6. /\ pc' \in {"idle", "part"}
      /\ heap' \subseteq heap \cup {<<"root", opens', 0>>} /\ heap \subseteq heap'
  BY <1>1 DEF fopen, Return
<1>7. Allocated'
  BY <1>0, <1>1, <1>5, <1>6 DEF Allocated
<1>8. Leftovers'
  <2> SUFFICES ASSUME NEW kind \in Kinds, NEW o \in Opens, NEW k \in Nat, <<kind, o, k>> \in heap'
      PROVE  /\ o <= opens'
             /\ kind \in {"private", "desc"} => k = 0
             /\ kind \in ItemKinds /\ o \in DOMAIN private =>
                  k \in 1 .. root.total /\ Alike(k, private[o].item)
             /\ ~(kind \in ItemKinds /\ o = opens')
             /\ kind \in {"directory", "items"} => root.item[k].attribute = SUBDIR
    BY <1>1 DEF Leftovers, Alike
  <2>1. o \in Nat
    BY Bounds DEF Opens
  <2>2. CASE <<kind, o, k>> \in heap
    BY <1>0, <1>1, <2>1, <2>2 DEF Leftovers
  <2>3. CASE <<kind, o, k>> = <<"root", opens', 0>>
    <3>1. kind = "root" /\ o = opens' /\ k = 0
      BY <2>3
    <3> QED BY <1>1, <2>1, <3>1 DEF ItemKinds
  <2> QED BY <1>6, <2>2, <2>3
<1>9. TypeOK'
  <2>1. heap' \subseteq Kinds \X Opens \X Nat
    BY <1>0, <1>1, <1>6 DEF TypeOK, Kinds
  <2>2. i' \in 0 .. (RootEntries + 1) /\ f_item' \in 0 .. RootEntries /\ opens' \in 0 .. MaxOpens
    BY <1>0, <1>1, <1>5, Bounds DEF TypeOK, fopen, Return, NONE, Opens
  <2> QED BY <1>0, <1>1, <1>6, <2>1, <2>2 DEF TypeOK
<1>10. Search'
  <2>1. CASE pathparser_path_valid_format(p)
    <3>1. /\ pc' = "part" /\ path' = p /\ tmp_path' = SubSeq(p, 4, Len(p)) /\ parts' = parts
      BY <2>1 DEF fopen
    <3>2. p \in Seq(Chars) /\ Len(p) <= MaxPath /\ Len(p) >= 3 /\ Len(p) \in Nat
      BY <2>1, FilesAssumption DEF pathparser_path_valid_format
    <3>3. tmp_path' \in Seq(Chars) /\ (Len(tmp_path') < MaxPath \/ tmp_path' = <<>>)
      <4>1. CASE Len(p) = 3
        BY <3>1, <3>2, <4>1
      <4>2. CASE Len(p) > 3
        BY <3>1, <3>2, <4>2, Bounds
      <4>3. Len(p) \in Nat /\ Len(p) >= 3
        BY <3>2
      <4>4. \A n \in Nat : n >= 3 => n = 3 \/ n > 3
        OBVIOUS
      <4> QED BY <4>1, <4>2, <4>3, <4>4
    <3> QED BY <1>0, <1>1, <1>5, <3>1, <3>2, <3>3 DEF Search, PartsFit
  <2>2. CASE ~pathparser_path_valid_format(p)
    <3>1. Return
      BY <2>2 DEF fopen
    <3> QED BY <3>1 DEF Search, PartsFit, Return
  <2> QED BY <2>1, <2>2
<1> QED BY <1>2, <1>4, <1>7, <1>8, <1>9, <1>10 DEF FilesInv

(* The steps of a running fopen that allocate: what they add carries the   *)
(* number of that fopen.                                                   *)
LEMMA GrowingSteps ==
  ASSUME FilesInv, pc # "idle",
         UNCHANGED <<root, filesystem, file_descriptors, private, held, opens, ok>>,
         Search', pc' \in {"part", "disk", "find", "desc"},
         i' \in 0 .. (RootEntries + 1), f_item' \in 0 .. RootEntries,
         NEW new \in SUBSET (Kinds \X {opens} \X Nat), heap' = heap \cup new,
         pc' \in {"find", "desc"} => <<"private", opens, 0>> \in heap',
         f_item' # NONE => <<"item", opens, f_item'>> \in heap' /\ <<"clone", opens, f_item'>> \in heap',
         \A kind \in Kinds, k \in Nat : <<kind, opens, k>> \in heap' =>
           /\ kind \in {"private", "desc"} => k = 0
           /\ kind \in ItemKinds => k \in 1 .. root.total /\ Matches(k)' /\ pc' \in {"find", "desc"}
           /\ kind \in {"directory", "items"} => root.item[k].attribute = SUBDIR
  PROVE  FilesInv'
<1>0. TypeOK /\ RootRead /\ Search /\ TableMatches /\ Allocated /\ Leftovers
  BY DEF FilesInv
<1>1. opens \in Opens /\ opens \in Nat
  BY <1>0, Bounds DEF TypeOK, Search, Opens
<1>2. RootRead'
  BY <1>0 DEF RootRead
<1>3. pc' # "idle"
  OBVIOUS
<1>4. TableMatches'
  BY <1>0, <1>3 DEF TableMatches
<1>5. Allocated'
  BY <1>0 DEF Allocated
<1>6. TypeOK'
  <2>1. heap' \subseteq Kinds \X Opens \X Nat
    BY <1>0, <1>1 DEF TypeOK
  <2> QED BY <1>0, <2>1 DEF TypeOK
<1>7. Leftovers'
  <2> SUFFICES ASSUME NEW kind \in Kinds, NEW o \in Opens, NEW k \in Nat, <<kind, o, k>> \in heap'
      PROVE  /\ o <= opens
             /\ kind \in {"private", "desc"} => k = 0
             /\ kind \in ItemKinds /\ o \in DOMAIN private =>
                  k \in 1 .. root.total /\ Alike(k, private[o].item)
             /\ kind \in ItemKinds /\ o = opens =>
                  k \in 1 .. root.total /\ Matches(k)' /\ pc' \in {"find", "desc"}
             /\ kind \in {"directory", "items"} => root.item[k].attribute = SUBDIR
    BY DEF Leftovers, Alike
  <2>1. opens \notin DOMAIN private
    BY <1>0 DEF TableMatches
  <2>2. CASE o = opens
    BY <1>1, <2>1, <2>2
  <2>3. CASE o # opens
    <3>1. <<kind, o, k>> \in heap
      BY <2>3
    <3> QED BY <1>0, <2>3, <3>1 DEF Leftovers
  <2> QED BY <2>2, <2>3
<1> QED BY <1>2, <1>4, <1>5, <1>6, <1>7 DEF FilesInv

(* pathparser_parse_path_part: every part fits its buffer. *)
LEMMA PartStep ==
  ASSUME FilesInv, pathparser_parse_path_part
  PROVE  FilesInv'
<1>0. TypeOK /\ RootRead /\ Search /\ TableMatches /\ Allocated /\ Leftovers
  BY DEF FilesInv
<1> DEFINE part == Until(tmp_path, {"/"})
<1>1. /\ pc = "part"
      /\ tmp_path' = IF part = tmp_path THEN <<>> ELSE SubSeq(tmp_path, Len(part) + 2, Len(tmp_path))
      /\ \/ part = <<>> /\ pc' = "disk" /\ UNCHANGED <<parts, heap>>
         \/ /\ part # <<>> /\ parts' = Append(parts, part) /\ pc' = pc
            /\ heap' = heap \cup {<<"string", opens, Len(parts')>>, <<"part", opens, Len(parts')>>}
      /\ UNCHANGED <<root, filesystem, file_descriptors, private, held, opens, ok, path, i, f_item>>
  BY DEF pathparser_parse_path_part, pathparser_get_path_part, table, kzalloc, Object
<1>2. /\ tmp_path \in Seq(Chars) /\ (Len(tmp_path) < MaxPath \/ tmp_path = <<>>)
      /\ parts \in Seq(Seq(Chars)) /\ f_item = NONE /\ opens > 0
  BY <1>0, <1>1 DEF Search
<1>3. /\ part \in Seq(Chars)
      /\ part = tmp_path \/ Len(part) < Len(tmp_path)
      /\ \A j \in DOMAIN part : part[j] \notin {"/"}
  BY <1>2, UntilFacts
<1> HIDE DEF part
<1>4. tmp_path' \in Seq(Chars) /\ (Len(tmp_path') < MaxPath \/ tmp_path' = <<>>)
  <2>1. CASE part = tmp_path
    BY <1>1, <2>1
  <2>2. CASE part # tmp_path
    <3>1. Len(part) < Len(tmp_path) /\ Len(part) \in Nat /\ Len(tmp_path) \in Nat /\ Len(tmp_path) < MaxPath
      BY <1>2, <1>3, <2>2
    <3>2. Len(part) + 2 \in 1 .. (Len(tmp_path) + 1)
      BY <3>1
    <3>3. tmp_path' = SubSeq(tmp_path, Len(part) + 2, Len(tmp_path))
      BY <1>1, <2>2
    <3>4. tmp_path' \in Seq(Chars) /\ Len(tmp_path') = Len(tmp_path) - (Len(part) + 2) + 1
      BY <1>2, <3>1, <3>2, <3>3, SubSeqProperties
    <3> QED BY <3>1, <3>4, Bounds
  <2> QED BY <2>1, <2>2
<1>5. part # <<>> => Len(part) < MaxPath
  BY <1>2, <1>3, Bounds
<1>6. parts' \in Seq(Seq(Chars)) /\ PartsFit' /\ Len(parts') \in Nat
  <2>1. CASE part = <<>>
    BY <1>0, <1>1, <1>2, <2>1 DEF Search, PartsFit
  <2>2. CASE part # <<>>
    <3>1. parts' = Append(parts, part)
      BY <1>1, <2>2
    <3>2. /\ parts' \in Seq(Seq(Chars)) /\ Len(parts') = Len(parts) + 1 /\ Len(parts) \in Nat
          /\ \A k \in 1 .. Len(parts) : parts'[k] = parts[k]
          /\ parts'[Len(parts) + 1] = part
      BY <1>2, <1>3, <3>1
    <3>3. "/" \notin ToSet(part)
      BY <1>3 DEF ToSet
    <3>4. ASSUME NEW k \in DOMAIN parts'
          PROVE  parts'[k] # <<>> /\ "/" \notin ToSet(parts'[k]) /\ Len(parts'[k]) < MaxPath
      <4>1. k \in 1 .. Len(parts) \/ k = Len(parts) + 1
        BY <3>2
      <4>2. CASE k \in 1 .. Len(parts)
        <5>1. k \in DOMAIN parts
          BY <1>2, <4>2
        <5>2. parts[k] # <<>> /\ "/" \notin ToSet(parts[k]) /\ Len(parts[k]) < MaxPath
          BY <1>0, <5>1 DEF Search, PartsFit
        <5>3. parts'[k] = parts[k]
          BY <3>2, <4>2
        <5> QED BY <5>2, <5>3
      <4>3. CASE k = Len(parts) + 1
        BY <1>5, <2>2, <3>2, <3>3, <4>3
      <4> QED BY <4>1, <4>2, <4>3
    <3> QED BY <3>2, <3>4 DEF PartsFit
  <2> QED BY <2>1, <2>2
<1>7. Search'
  BY <1>0, <1>1, <1>2, <1>4, <1>6 DEF Search
<1>8. \E new \in SUBSET (Kinds \X {opens} \X Nat) :
        /\ heap' = heap \cup new
        /\ \A object \in new : object[1] \in {"string", "part"}
  <2>1. CASE part = <<>>
    <3> WITNESS {} \in SUBSET (Kinds \X {opens} \X Nat)
    <3> QED BY <1>1, <2>1
  <2>2. CASE part # <<>>
    <3> DEFINE new == {<<"string", opens, Len(parts')>>, <<"part", opens, Len(parts')>>}
    <3>1. heap' = heap \cup new
      BY <1>1, <2>2
    <3>2. new \in SUBSET (Kinds \X {opens} \X Nat) /\ \A object \in new : object[1] \in {"string", "part"}
      BY <1>6 DEF Kinds
    <3> QED BY <3>1, <3>2
  <2> QED BY <2>1, <2>2
<1>9. PICK new \in SUBSET (Kinds \X {opens} \X Nat) :
        /\ heap' = heap \cup new
        /\ \A object \in new : object[1] \in {"string", "part"}
  BY <1>8
<1>10. ASSUME NEW kind \in Kinds, NEW k \in Nat, <<kind, opens, k>> \in heap'
       PROVE  /\ kind \in {"private", "desc"} => k = 0
              /\ ~(kind \in ItemKinds)
  <2>0. opens \in Opens
    BY <1>0, <1>2, Bounds DEF TypeOK, Opens
  <2>1. CASE <<kind, opens, k>> \in heap
    BY <1>0, <1>1, <2>0, <2>1 DEF Leftovers
  <2>2. CASE <<kind, opens, k>> \in new
    <3>1. kind \in {"string", "part"}
      BY <1>9, <2>2
    <3> QED BY <3>1 DEF ItemKinds
  <2> QED BY <1>9, <1>10, <2>1, <2>2
<1>11. pc # "idle" /\ pc' \in {"part", "disk"} /\ f_item' = NONE
       /\ i' \in 0 .. (RootEntries + 1) /\ f_item' \in 0 .. RootEntries
  BY <1>0, <1>1, <1>2 DEF TypeOK
<1>12. \A kind \in Kinds, k \in Nat : <<kind, opens, k>> \in heap' =>
           /\ kind \in {"private", "desc"} => k = 0
           /\ kind \in ItemKinds => k \in 1 .. root.total /\ Matches(k)' /\ pc' \in {"find", "desc"}
           /\ kind \in {"directory", "items"} => root.item[k].attribute = SUBDIR
  BY <1>10 DEF ItemKinds
<1> QED BY <1>1, <1>7, <1>9, <1>11, <1>12, GrowingSteps

(* fat16_open makes its descriptor and the search begins. *)
LEMMA FatOpenStep ==
  ASSUME FilesInv, NEW letter, fat16_open(letter)
  PROVE  FilesInv'
<1>0. TypeOK /\ RootRead /\ Search /\ TableMatches /\ Allocated /\ Leftovers
  BY DEF FilesInv
<1>1. /\ pc = "disk" /\ parts # <<>> /\ pc' = "find" /\ i' = 1
      /\ heap' = heap \cup {<<"private", opens, 0>>}
      /\ UNCHANGED <<root, filesystem, file_descriptors, private, held, opens, ok, path, tmp_path, parts, f_item>>
  BY DEF fat16_open, PassesTests, kzalloc, Object, table
<1>2. /\ root.total \in 0 .. RootEntries /\ RootEntries \in Nat
      /\ i' \in 1 .. (root.total + 1) /\ i' \in 0 .. (RootEntries + 1)
  BY <1>0, <1>1, Bounds DEF RootRead
<1>3. f_item = NONE /\ f_item' = NONE /\ f_item' \in 0 .. RootEntries /\ opens > 0 /\ opens \in Opens
  BY <1>0, <1>1, Bounds DEF Search, TypeOK, Opens
<1>4. Search'
  BY <1>0, <1>1, <1>2, <1>3 DEF Search, PartsFit
<1> DEFINE new == {<<"private", opens, 0>>}
<1>5. new \in SUBSET (Kinds \X {opens} \X Nat) /\ heap' = heap \cup new
  BY <1>1 DEF Kinds
<1>6. ASSUME NEW kind \in Kinds, NEW k \in Nat, <<kind, opens, k>> \in heap'
      PROVE  (kind \in {"private", "desc"} => k = 0) /\ ~(kind \in ItemKinds)
  <2>1. CASE <<kind, opens, k>> \in heap
    BY <1>0, <1>1, <1>3, <2>1 DEF Leftovers
  <2>2. CASE <<kind, opens, k>> = <<"private", opens, 0>>
    <3>1. kind = "private" /\ k = 0
      BY <2>2
    <3> QED BY <3>1 DEF ItemKinds
  <2> QED BY <1>1, <1>6, <2>1, <2>2
<1>7. \A kind \in Kinds, k \in Nat : <<kind, opens, k>> \in heap' =>
           /\ kind \in {"private", "desc"} => k = 0
           /\ kind \in ItemKinds => k \in 1 .. root.total /\ Matches(k)' /\ pc' \in {"find", "desc"}
           /\ kind \in {"directory", "items"} => root.item[k].attribute = SUBDIR
  BY <1>6 DEF ItemKinds
<1>8. pc # "idle" /\ pc' \in {"part", "disk", "find", "desc"} /\ <<"private", opens, 0>> \in heap'
  BY <1>1
<1> HIDE DEF new
<1> QED BY <1>1, <1>2, <1>3, <1>4, <1>5, <1>7, <1>8, GrowingSteps

(* fat16_find_item_in_directory: the items that it makes are of entries    *)
(* with the name that is looked for.                                       *)
LEMMA FindStep ==
  ASSUME FilesInv, fat16_find_item_in_directory
  PROVE  FilesInv'
<1>0. TypeOK /\ RootRead /\ Search /\ TableMatches /\ Allocated /\ Leftovers
  BY DEF FilesInv
<1>1. /\ pc = "find" /\ i <= root.total /\ i' = i + 1
      /\ UNCHANGED <<root, filesystem, file_descriptors, private, held, opens, ok, pc, path, tmp_path, parts>>
  BY DEF fat16_find_item_in_directory, table
<1>2. /\ root.total \in 0 .. RootEntries /\ RootEntries \in Nat /\ i \in 1 .. root.total
      /\ i' \in 1 .. (root.total + 1) /\ i' \in 0 .. (RootEntries + 1)
  <2>1. root.total \in 0 .. RootEntries /\ i \in 1 .. (root.total + 1) /\ RootEntries \in Nat
    BY <1>0, <1>1, Bounds DEF RootRead, Search
  <2> QED BY <1>1, <2>1
<1>3. opens > 0 /\ opens \in Opens
  BY <1>0, <1>1, Bounds DEF Search, TypeOK, Opens
<1>4. \A k : Matches(k)' = Matches(k)
  BY <1>1 DEF Matches
<1>5. \E new \in SUBSET (Kinds \X {opens} \X Nat) :
        /\ heap' = heap \cup new
        /\ \A object \in new : object[1] \in ItemKinds /\ object[3] = i /\ Matches(i)
                               /\ (object[1] \in {"directory", "items"} => root.item[i].attribute = SUBDIR)
        /\ \/ f_item' = f_item
           \/ f_item' = NONE
           \/ f_item' = i /\ Matches(i) /\ <<"item", opens, i>> \in new /\ <<"clone", opens, i>> \in new
  <2>1. CASE heap' = heap /\ f_item' \in {f_item, NONE}
    <3> WITNESS {} \in SUBSET (Kinds \X {opens} \X Nat)
    <3> QED BY <2>1
  <2>2. CASE /\ Matches(i) /\ f_item' = i
             /\ \E new \in fat16_new_fat_item_for_directory_item(i) : heap' = heap \cup new
    <3>1. PICK new \in fat16_new_fat_item_for_directory_item(i) : heap' = heap \cup new
      BY <2>2
    <3> DEFINE item == {<<"item", opens, i>>, <<"clone", opens, i>>}
               directory == {<<"directory", opens, i>>, <<"items", opens, i>>}
    <3>2. new = item \/ (new = item \cup directory /\ root.item[i].attribute = SUBDIR)
      BY DEF fat16_new_fat_item_for_directory_item, fat16_load_fat_directory, Object
    <3>3. item \in SUBSET (Kinds \X {opens} \X Nat) /\ directory \in SUBSET (Kinds \X {opens} \X Nat)
      BY <1>2 DEF Kinds
    <3>4. /\ \A object \in item : object[1] \in {"item", "clone"} /\ object[3] = i
          /\ \A object \in directory : object[1] \in {"directory", "items"} /\ object[3] = i
          /\ <<"item", opens, i>> \in item /\ <<"clone", opens, i>> \in item
      OBVIOUS
    <3> HIDE DEF item, directory
    <3>5. new \in SUBSET (Kinds \X {opens} \X Nat)
      BY <3>2, <3>3
    <3>6. \A object \in new : object[1] \in ItemKinds /\ object[3] = i
                               /\ (object[1] \in {"directory", "items"} => root.item[i].attribute = SUBDIR)
      BY <3>2, <3>4 DEF ItemKinds
    <3>7. <<"item", opens, i>> \in new /\ <<"clone", opens, i>> \in new
      BY <3>2, <3>4
    <3> QED BY <2>2, <3>1, <3>5, <3>6, <3>7
  <2> QED BY <2>1, <2>2 DEF fat16_find_item_in_directory, kzalloc
<1>6. PICK new \in SUBSET (Kinds \X {opens} \X Nat) :
        /\ heap' = heap \cup new
        /\ \A object \in new : object[1] \in ItemKinds /\ object[3] = i /\ Matches(i)
                               /\ (object[1] \in {"directory", "items"} => root.item[i].attribute = SUBDIR)
        /\ \/ f_item' = f_item
           \/ f_item' = NONE
           \/ f_item' = i /\ Matches(i) /\ <<"item", opens, i>> \in new /\ <<"clone", opens, i>> \in new
  BY <1>5
<1>7. f_item' # NONE => f_item' \in 1 .. root.total /\ Matches(f_item')
  BY <1>0, <1>1, <1>2, <1>6 DEF Search
<1>8. f_item' \in 0 .. RootEntries
  BY <1>0, <1>2, <1>6 DEF TypeOK, NONE
<1>9. Search'
  <2>1. f_item' # NONE => f_item' \in 1 .. root'.total /\ Matches(f_item)'
    BY <1>1, <1>7 DEF Matches
  <2> QED BY <1>0, <1>1, <1>2, <1>3, <2>1 DEF Search, PartsFit
<1>10. /\ <<"private", opens, 0>> \in heap'
       /\ f_item' # NONE => <<"item", opens, f_item'>> \in heap' /\ <<"clone", opens, f_item'>> \in heap'
  <2>1. <<"private", opens, 0>> \in heap
    BY <1>0, <1>1 DEF Allocated
  <2>2. f_item # NONE => <<"item", opens, f_item>> \in heap /\ <<"clone", opens, f_item>> \in heap
    BY <1>0 DEF Allocated
  <2> QED BY <1>6, <2>1, <2>2
<1>11. ASSUME NEW kind \in Kinds, NEW k \in Nat, <<kind, opens, k>> \in heap'
       PROVE  /\ kind \in {"private", "desc"} => k = 0
              /\ kind \in ItemKinds => k \in 1 .. root.total /\ Matches(k)
              /\ kind \in {"directory", "items"} => root.item[k].attribute = SUBDIR
  <2>1. CASE <<kind, opens, k>> \in heap
    BY <1>0, <1>1, <1>3, <2>1 DEF Leftovers
  <2>2. CASE <<kind, opens, k>> \in new
    <3>1. kind \in ItemKinds /\ k = i /\ Matches(i)
          /\ (kind \in {"directory", "items"} => root.item[i].attribute = SUBDIR)
      BY <1>6, <2>2
    <3> QED BY <1>2, <3>1 DEF ItemKinds
  <2> QED BY <1>6, <1>11, <2>1, <2>2
<1>12. \A kind \in Kinds, k \in Nat : <<kind, opens, k>> \in heap' =>
           /\ kind \in {"private", "desc"} => k = 0
           /\ kind \in ItemKinds => k \in 1 .. root.total /\ Matches(k)' /\ pc' \in {"find", "desc"}
           /\ kind \in {"directory", "items"} => root.item[k].attribute = SUBDIR
  BY <1>1, <1>4, <1>11
<1>13. pc # "idle" /\ pc' \in {"part", "disk", "find", "desc"}
  BY <1>1
<1> QED BY <1>1, <1>2, <1>6, <1>8, <1>9, <1>10, <1>12, <1>13, GrowingSteps

(* fat16_get_directory_entry: the search ends with an item. *)
LEMMA FoundStep ==
  ASSUME FilesInv, fat16_get_directory_entry
  PROVE  FilesInv'
<1>0. TypeOK /\ RootRead /\ Search /\ TableMatches /\ Allocated /\ Leftovers
  BY DEF FilesInv
<1>1. /\ pc = "find" /\ pc' = "desc" /\ f_item # NONE
      /\ UNCHANGED <<root, filesystem, file_descriptors, private, held, heap, opens, ok>>
      /\ UNCHANGED <<path, tmp_path, parts, i, f_item>>
  BY DEF fat16_get_directory_entry, table, call
<1>2. Search'
  BY <1>0, <1>1 DEF Search, PartsFit, Matches
<1>3. TypeOK' /\ RootRead'
  BY <1>0, <1>1 DEF TypeOK, RootRead
<1>4. TableMatches' /\ Allocated'
  BY <1>0, <1>1 DEF TableMatches, Allocated
<1>5. Leftovers'
  BY <1>0, <1>1 DEF Leftovers, Alike, Matches
<1> QED BY <1>2, <1>3, <1>4, <1>5 DEF FilesInv

(* The loop of file_new_descriptor stops at the smallest free place. *)
LEMMA FreePlace ==
  ASSUME TypeOK, FreeFds # {}
  PROVE  /\ FirstFree \in Fds /\ file_descriptors[FirstFree] = NONE
         /\ \A other \in FreeFds : FirstFree <= other
<1>1. FreeFds \in SUBSET Nat
  BY Bounds DEF FreeFds, Fds
<1>2. FirstFree = Min(FreeFds)
  BY DEF FirstFree, Min
<1>3. FirstFree \in FreeFds /\ \A other \in FreeFds : FirstFree <= other
  BY <1>1, <1>2, MinFacts
<1> QED BY <1>3 DEF FreeFds

(* All items that one fopen made are of entries that the code takes for    *)
(* the same name.                                                          *)
LEMMA MatchesAlike ==
  ASSUME FilesInv, parts # <<>>, NEW k \in 1 .. root.total, NEW m \in 1 .. root.total,
         Matches(k), Matches(m)
  PROVE  Alike(k, m)
<1>1. /\ fat16_get_full_relative_filename(root.item[k]) \in Seq(Chars)
      /\ fat16_get_full_relative_filename(root.item[m]) \in Seq(Chars)
  BY NameFacts DEF FilesInv, RootRead
<1>2. parts \in Seq(Seq(Chars))
  BY DEF FilesInv, Search
<1>3. Head(parts) \in Seq(Chars)
  BY <1>2
<1> QED BY <1>1, <1>3, SameNames DEF Matches, Alike

(* file_new_descriptor: the new descriptor has a place of its own. *)
LEMMA DescriptorStep ==
  ASSUME FilesInv, file_new_descriptor
  PROVE  FilesInv'
<1>0. TypeOK /\ RootRead /\ Search /\ TableMatches /\ Allocated /\ Leftovers
  BY DEF FilesInv
<1> DEFINE fd == FirstFree
<1>1. /\ pc = "desc" /\ FreeFds # {}
      /\ file_descriptors' = [file_descriptors EXCEPT ![fd] = opens]
      /\ private' = [o \in DOMAIN private \cup {opens} |->
                       IF o = opens THEN [item |-> f_item, pos |-> 0] ELSE private[o]]
      /\ held' = held \cup {fd} /\ heap' = heap \cup {<<"desc", opens, 0>>}
      /\ UNCHANGED <<root, filesystem, opens, ok>>
  BY DEF file_new_descriptor, kzalloc, Object
<1>2. /\ pc' = "idle" /\ path' = <<>> /\ tmp_path' = <<>> /\ parts' = <<>> /\ i' = 0 /\ f_item' = NONE
  BY DEF file_new_descriptor, Return
<1>3. fd \in Fds /\ file_descriptors[fd] = NONE
  BY <1>0, <1>1, FreePlace
<1> HIDE DEF fd
<1>4. /\ opens \in Opens /\ opens \in Nat /\ opens # NONE
      /\ f_item \in 1 .. root.total /\ Matches(f_item) /\ parts # <<>> /\ root.total \in 0 .. RootEntries
  BY <1>0, <1>1, Bounds DEF TypeOK, Opens, Search, RootRead, NONE
<1>5. /\ opens \notin DOMAIN private /\ DOMAIN private' = DOMAIN private \cup {opens}
      /\ \A o \in DOMAIN private : private'[o] = private[o]
      /\ private'[opens] = [item |-> f_item, pos |-> 0]
  BY <1>0, <1>1 DEF TableMatches
<1>6. private'[opens].item = f_item
  BY <1>5
<1>7. /\ fd \notin held /\ file_descriptors \in [Fds -> 0 .. MaxOpens] /\ held \subseteq Fds
      /\ file_descriptors'[fd] = opens
      /\ \A n \in Fds : n # fd => file_descriptors'[n] = file_descriptors[n]
      /\ file_descriptors' \in [Fds -> 0 .. MaxOpens]
  BY <1>0, <1>1, <1>3, <1>4 DEF TypeOK, TableMatches, Opens
<1>8. TypeOK'
  <2>1. heap' \subseteq Kinds \X Opens \X Nat
    BY <1>0, <1>1, <1>4 DEF TypeOK, Kinds
  <2>2. i' \in 0 .. (RootEntries + 1) /\ f_item' \in 0 .. RootEntries
    BY <1>2, Bounds DEF NONE
  <2>3. DOMAIN private' \subseteq Opens
    BY <1>0, <1>4, <1>5 DEF TypeOK
  <2>4. private'[opens] \in [item : 1 .. RootEntries, pos : 0 .. MaxPos]
    BY <1>4, <1>5, Bounds
  <2>5. \A o \in DOMAIN private' : private'[o] \in [item : 1 .. RootEntries, pos : 0 .. MaxPos]
    BY <1>0, <1>5, <2>4 DEF TypeOK
  <2>6. held' \subseteq Fds
    BY <1>1, <1>3, <1>7
  <2> QED BY <1>0, <1>1, <1>2, <1>7, <2>1, <2>2, <2>3, <2>5, <2>6 DEF TypeOK
<1>9. RootRead' /\ Search'
  BY <1>0, <1>1, <1>2 DEF RootRead, Search, PartsFit
<1>10. TableMatches'
  <2>1. held' = {n \in Fds : file_descriptors'[n] # NONE}
    BY <1>0, <1>1, <1>3, <1>4, <1>7 DEF TableMatches
  <2>2. \A n \in held' : file_descriptors'[n] \in DOMAIN private'
    BY <1>0, <1>1, <1>5, <1>7 DEF TableMatches
  <2>3. \A n \in held : file_descriptors'[n] = file_descriptors[n] /\ file_descriptors'[n] # opens
    BY <1>0, <1>5, <1>7 DEF TableMatches
  <2>4. ASSUME NEW n \in held', NEW m \in held', file_descriptors'[n] = file_descriptors'[m] PROVE n = m
    BY <1>0, <1>1, <1>7, <2>3, <2>4 DEF TableMatches
  <2>5. \A o \in DOMAIN private' : o <= opens /\ private'[o].item \in 1 .. root.total
    BY <1>0, <1>4, <1>5, <1>6 DEF TableMatches
  <2> QED BY <1>1, <1>2, <2>1, <2>2, <2>4, <2>5 DEF TableMatches
<1>11. Allocated'
  <2>1. /\ <<"private", opens, 0>> \in heap /\ <<"item", opens, f_item>> \in heap
        /\ <<"clone", opens, f_item>> \in heap
    BY <1>0, <1>1 DEF Allocated, Search
  <2>2. ASSUME NEW o \in DOMAIN private'
        PROVE  {<<"private", o, 0>>, <<"desc", o, 0>>, <<"item", o, private'[o].item>>,
                <<"clone", o, private'[o].item>>} \subseteq heap'
    <3>1. CASE o = opens
      BY <1>1, <1>6, <2>1, <3>1
    <3>2. CASE o # opens
      BY <1>0, <1>1, <1>5, <3>2 DEF Allocated
    <3> QED BY <3>1, <3>2
  <2> QED BY <1>2, <2>2 DEF Allocated
<1>12. Leftovers'
  <2> SUFFICES ASSUME NEW kind \in Kinds, NEW o \in Opens, NEW k \in Nat, <<kind, o, k>> \in heap'
      PROVE  /\ o <= opens
             /\ kind \in {"private", "desc"} => k = 0
             /\ kind \in ItemKinds /\ o \in DOMAIN private' =>
                  k \in 1 .. root.total /\ Alike(k, private'[o].item)
             /\ kind \in {"directory", "items"} => root.item[k].attribute = SUBDIR
    BY <1>1, <1>2 DEF Leftovers, Alike
  <2>1. CASE <<kind, o, k>> = <<"desc", opens, 0>>
    <3>1. kind = "desc" /\ o = opens /\ k = 0
      BY <2>1
    <3> QED BY <1>4, <3>1 DEF ItemKinds
  <2>2. CASE <<kind, o, k>> \in heap
    <3>1. /\ o <= opens
          /\ kind \in {"private", "desc"} => k = 0
          /\ kind \in {"directory", "items"} => root.item[k].attribute = SUBDIR
      BY <1>0, <2>2 DEF Leftovers
    <3>2. ASSUME kind \in ItemKinds, o \in DOMAIN private'
          PROVE  k \in 1 .. root.total /\ Alike(k, private'[o].item)
      <4>1. CASE o = opens
        <5>1. k \in 1 .. root.total /\ Matches(k)
          BY <1>0, <1>1, <2>2, <3>2, <4>1 DEF Leftovers
        <5>2. Alike(k, f_item)
          BY <1>4, <5>1, MatchesAlike
        <5> QED BY <1>6, <4>1, <5>1, <5>2
      <4>2. CASE o # opens
        <5>1. o \in DOMAIN private /\ private'[o] = private[o]
          BY <1>5, <3>2, <4>2
        <5> QED BY <1>0, <2>2, <3>2, <5>1 DEF Leftovers
      <4> QED BY <4>1, <4>2
    <3> QED BY <3>1, <3>2
  <2> QED BY <1>1, <2>1, <2>2
<1> QED BY <1>8, <1>9, <1>10, <1>11, <1>12 DEF FilesInv

(* What file_get_descriptor finds is the descriptor of that number. *)
LEMMA Found ==
  ASSUME FilesInv, NEW fd \in held, file_get_descriptor(fd) # NONE
  PROVE  /\ file_get_descriptor(fd) = file_descriptors[fd] /\ fd \in Fds /\ fd < MaxDescriptors
         /\ file_descriptors[fd] \in DOMAIN private /\ file_descriptors[fd] # NONE
<1>1. fd \in Fds
  BY DEF FilesInv, TypeOK
<1>2. ~(fd <= 0 \/ fd >= MaxDescriptors)
  BY DEF file_get_descriptor
<1> QED BY <1>1, <1>2, Bounds DEF file_get_descriptor, Fds, FilesInv, TableMatches

(* fclose: nothing of another file goes. *)
LEMMA CloseStep ==
  ASSUME FilesInv, NEW fd \in held, fclose(fd)
  PROVE  FilesInv'
<1>0. TypeOK /\ RootRead /\ Search /\ TableMatches /\ Allocated /\ Leftovers
  BY DEF FilesInv
<1> DEFINE o == file_descriptors[fd]
           gone == {<<"private", o, 0>>, <<"desc", o, 0>>, <<"item", o, private[o].item>>,
                    <<"clone", o, private[o].item>>}
<1>1. o = file_get_descriptor(fd) /\ fd \in Fds /\ o \in DOMAIN private
  <2>1. file_get_descriptor(fd) # NONE
    BY DEF fclose
  <2> QED BY <2>1, Found
<1>2. /\ pc = "idle" /\ private' = [p \in DOMAIN private \ {o} |-> private[p]]
      /\ file_descriptors' = [file_descriptors EXCEPT ![fd] = NONE]
      /\ held' = held \ {fd} /\ heap' = heap \ gone
      /\ UNCHANGED <<root, filesystem, opens, ok, pc, path, tmp_path, parts, i, f_item>>
  BY <1>1 DEF fclose, fat16_close, fat16_fat_item_free, call
<1> HIDE DEF o
<1>3. /\ DOMAIN private' = DOMAIN private \ {o}
      /\ \A p \in DOMAIN private' : p \in DOMAIN private /\ p # o /\ private'[p] = private[p]
  BY <1>2
<1>4. \A p \in DOMAIN private' : \A kind, k : <<kind, p, k>> \in heap => <<kind, p, k>> \in heap'
  <2>1. ASSUME NEW p \in DOMAIN private', NEW kind, NEW k, <<kind, p, k>> \in gone PROVE FALSE
    BY <1>3, <2>1
  <2> QED BY <1>2, <2>1
<1> HIDE DEF gone
<1>5. /\ file_descriptors \in [Fds -> 0 .. MaxOpens] /\ held \subseteq Fds
      /\ file_descriptors'[fd] = NONE
      /\ \A n \in Fds : n # fd => file_descriptors'[n] = file_descriptors[n]
      /\ file_descriptors' \in [Fds -> 0 .. MaxOpens]
  BY <1>0, <1>1, <1>2, Bounds DEF TypeOK, NONE
<1>6. TypeOK'
  BY <1>0, <1>2, <1>3, <1>5 DEF TypeOK
<1>7. RootRead' /\ Search'
  BY <1>0, <1>2 DEF RootRead, Search, PartsFit
<1>8. TableMatches'
  <2>1. held' = {n \in Fds : file_descriptors'[n] # NONE}
    BY <1>0, <1>2, <1>5 DEF TableMatches
  <2>2. \A n \in held' : /\ n \in held /\ n # fd /\ file_descriptors'[n] = file_descriptors[n]
                         /\ file_descriptors[n] # o
    BY <1>0, <1>2, <1>5 DEF TableMatches, o
  <2>3. \A n \in held' : file_descriptors'[n] \in DOMAIN private'
    BY <1>0, <1>3, <2>2 DEF TableMatches
  <2>4. \A n, m \in held' : file_descriptors'[n] = file_descriptors'[m] => n = m
    BY <1>0, <2>2 DEF TableMatches
  <2> QED BY <1>0, <1>2, <1>3, <2>1, <2>3, <2>4 DEF TableMatches
<1>9. Allocated'
  <2>1. ASSUME NEW p \in DOMAIN private'
        PROVE  {<<"private", p, 0>>, <<"desc", p, 0>>, <<"item", p, private'[p].item>>,
                <<"clone", p, private'[p].item>>} \subseteq heap'
    <3>1. {<<"private", p, 0>>, <<"desc", p, 0>>, <<"item", p, private[p].item>>,
           <<"clone", p, private[p].item>>} \subseteq heap
      BY <1>0, <1>3 DEF Allocated
    <3> QED BY <1>3, <1>4, <3>1
  <2>2. f_item' = NONE /\ pc' = "idle"
    BY <1>0, <1>2 DEF Search
  <2> QED BY <2>1, <2>2 DEF Allocated
<1>10. Leftovers'
  <2>1. heap' \subseteq heap
    BY <1>2
  <2> QED BY <1>0, <1>2, <1>3, <2>1 DEF Leftovers, Alike
<1> QED BY <1>6, <1>7, <1>8, <1>9, <1>10 DEF FilesInv

(* fseek moves the position of one file. *)
LEMMA SeekFacts ==
  ASSUME FilesInv, NEW fd \in held, NEW by \in 1 .. MaxPos, fseek(fd, by)
  PROVE  LET o == file_descriptors[fd]
         IN  /\ o \in DOMAIN private /\ DOMAIN private' = DOMAIN private
             /\ \A p \in DOMAIN private : p # o => private'[p] = private[p]
             /\ private'[o] = [private[o] EXCEPT !.pos = @ + by]
             /\ private[o].pos + by \in 0 .. MaxPos
             /\ by < root.item[private[o].item].size
             /\ UNCHANGED <<root, filesystem, file_descriptors, held, heap, opens, ok, pc, call>>
<1> DEFINE o == file_descriptors[fd]
<1>1. o = file_get_descriptor(fd) /\ o \in DOMAIN private
  <2>1. file_get_descriptor(fd) # NONE
    BY DEF fseek
  <2> QED BY <2>1, Found
<1>2. /\ by < root.item[private[o].item].size /\ private[o].pos + by <= MaxPos
      /\ private' = [private EXCEPT ![o].pos = @ + by]
      /\ UNCHANGED <<root, filesystem, file_descriptors, held, heap, opens, ok, pc, call>>
  BY <1>1 DEF fseek
<1> HIDE DEF o
<1>3. private[o] \in [item : 1 .. RootEntries, pos : 0 .. MaxPos]
  BY <1>1 DEF FilesInv, TypeOK
<1>4. private[o].pos + by \in 0 .. MaxPos
  BY <1>2, <1>3, Bounds
<1> QED BY <1>1, <1>2, <1>4 DEF o

(* fseek keeps every position within the bound and leaves all else alone. *)
LEMMA SeekStep ==
  ASSUME FilesInv, NEW fd \in held, NEW by \in 1 .. MaxPos, fseek(fd, by)
  PROVE  FilesInv'
<1> DEFINE o == file_descriptors[fd]
<1>1. /\ o \in DOMAIN private /\ DOMAIN private' = DOMAIN private
      /\ \A p \in DOMAIN private : p # o => private'[p] = private[p]
      /\ private'[o] = [private[o] EXCEPT !.pos = @ + by]
      /\ private[o].pos + by \in 0 .. MaxPos
      /\ UNCHANGED <<root, filesystem, file_descriptors, held, heap, opens, ok, pc, call>>
  BY SeekFacts
<1> HIDE DEF o
<1>2. \A p \in DOMAIN private : private[p] \in [item : 1 .. RootEntries, pos : 0 .. MaxPos]
  BY DEF FilesInv, TypeOK
<1>3. \A p \in DOMAIN private : /\ private'[p] \in [item : 1 .. RootEntries, pos : 0 .. MaxPos]
                                /\ private'[p].item = private[p].item
  BY <1>1, <1>2
<1>4. ok' \in BOOLEAN
  BY <1>1 DEF FilesInv, TypeOK
<1> QED BY <1>1, <1>3, <1>4, QuietSteps

(* A call that fails or uses a null pointer. *)
LEMMA FailStep ==
  ASSUME FilesInv, UNCHANGED <<root, filesystem, table, heap, opens>>,
         ok' \in BOOLEAN, Return \/ UNCHANGED <<pc, call>>
  PROVE  FilesInv'
<1>1. UNCHANGED <<file_descriptors, private, held>>
  BY DEF table
<1>2. \A o \in DOMAIN private : /\ private'[o] \in [item : 1 .. RootEntries, pos : 0 .. MaxPos]
                                /\ private'[o].item = private[o].item
  BY <1>1 DEF FilesInv, TypeOK
<1> QED BY <1>1, <1>2, QuietSteps

(* Every call keeps the invariant. *)
LEMMA FilesNext == FilesInv /\ [Next]_vars => FilesInv'
<1> SUFFICES ASSUME FilesInv, [Next]_vars PROVE FilesInv'
  OBVIOUS
<1>0. ok \in BOOLEAN
  BY DEF FilesInv, TypeOK
<1>1. ASSUME Fail PROVE FilesInv'
  BY <1>0, <1>1, FailStep DEF Fail
<1>2. ASSUME kzalloc_fails PROVE FilesInv'
  BY <1>2, FailStep DEF kzalloc_fails
<1>3. ASSUME NEW fd \in held, fclose_null(fd) PROVE FilesInv'
  BY <1>3, FailStep DEF fclose_null
<1>4. CASE UNCHANGED vars
  BY <1>0, <1>4, FailStep DEF vars
<1>5. CASE Step
  BY <1>1, <1>2, <1>5, PartStep, FatOpenStep, FindStep, FoundStep, DescriptorStep
  DEF Step, fat16_open_fails, fat16_get_directory_entry_fails, file_new_descriptor_fails
<1> QED BY <1>3, <1>4, <1>5, OpenStep, SeekStep, CloseStep DEF Next

(* The table of file.c, the FAT descriptors, the heap and the path in work *)
(* belong together after every call, and wherever an fopen fails.          *)
THEOREM FilesInvariant == Spec => []FilesInv
BY FilesInit, FilesNext, PTL DEF Spec

-----------------------------------------------------------------------------
(* What follows *)

(* The numbers that fopen returned and nobody has closed are valid: each   *)
(* has a FAT descriptor of its own, nothing it points to has been freed,   *)
(* and file_get_descriptor finds it unless it is the table's last.         *)
THEOREM NumbersStayValid == Spec => []HeldDescriptorsValid
<1>1. FilesInv => HeldDescriptorsValid
  <2> SUFFICES ASSUME FilesInv PROVE HeldDescriptorsValid
    OBVIOUS
  <2>1. TypeOK /\ TableMatches /\ Allocated
    BY DEF FilesInv
  <2>2. held = {fd \in Fds : file_descriptors[fd] # NONE}
    BY <2>1 DEF TableMatches
  <2>3. ASSUME NEW fd \in held
        PROVE  LET o == file_descriptors[fd]
               IN  /\ o \in DOMAIN private
                   /\ {<<"private", o, 0>>, <<"desc", o, 0>>, <<"item", o, private[o].item>>,
                       <<"clone", o, private[o].item>>} \subseteq heap
                   /\ \A other \in held \ {fd} : o # file_descriptors[other]
                   /\ file_get_descriptor(fd) = IF fd < MaxDescriptors THEN o ELSE NONE
    <3> DEFINE o == file_descriptors[fd]
    <3>1. o \in DOMAIN private /\ \A other \in held \ {fd} : o # file_descriptors[other]
      BY <2>1 DEF TableMatches
    <3>2. {<<"private", o, 0>>, <<"desc", o, 0>>, <<"item", o, private[o].item>>,
           <<"clone", o, private[o].item>>} \subseteq heap
      BY <2>1, <3>1 DEF Allocated
    <3>3. fd \in 1 .. MaxDescriptors
      BY <2>2 DEF Fds
    <3>4. file_get_descriptor(fd) = IF fd < MaxDescriptors THEN o ELSE NONE
      BY <3>3, Bounds DEF file_get_descriptor
    <3> QED BY <3>1, <3>2, <3>4
  <2> QED BY <2>1, <2>2, <2>3 DEF HeldDescriptorsValid
<1> QED BY <1>1, FilesInvariant, PTL

(* fclose frees all that fopen allocated for a file but the parsed path,   *)
(* unless the directory has another entry that the code takes for the same *)
(* name or the entry is a directory.                                       *)
THEOREM ClosingReleases == Spec => ClosedReleased
<1> DEFINE Released(o) ==
             \/ root.item[private[o].item].attribute = SUBDIR
             \/ \E k \in 1 .. root.total : k # private[o].item /\ Alike(k, private[o].item)
             \/ \A object \in heap' : object[2] = o => object[1] \in {"root", "string", "part"}
<1>1. ASSUME FilesInv, [Next]_vars PROVE [\A o \in DOMAIN private \ DOMAIN private' : Released(o)]_vars
  <2>1. CASE DOMAIN private \subseteq DOMAIN private'
    BY <2>1
  <2>2. ASSUME NEW fd \in held, fclose(fd), NEW o \in DOMAIN private \ DOMAIN private',
               root.item[private[o].item].attribute # SUBDIR,
               \A k \in 1 .. root.total : k # private[o].item => ~Alike(k, private[o].item),
               NEW object \in heap', object[2] = o
        PROVE  object[1] \in {"root", "string", "part"}
    <3>1. o = file_descriptors[fd] /\ file_get_descriptor(fd) = o
      <4>1. file_get_descriptor(fd) = file_descriptors[fd]
        BY <1>1, <2>2, Found DEF fclose
      <4> QED BY <2>2, <4>1 DEF fclose
    <3>2. /\ object \in heap
          /\ object \notin {<<"private", o, 0>>, <<"desc", o, 0>>, <<"item", o, private[o].item>>,
                            <<"clone", o, private[o].item>>}
      BY <2>2, <3>1 DEF fclose, fat16_close, fat16_fat_item_free
    <3>3. PICK kind \in Kinds, k \in Nat : object = <<kind, o, k>>
      BY <1>1, <2>2, <3>2 DEF FilesInv, TypeOK
    <3>4. o \in Opens
      BY <1>1 DEF FilesInv, TypeOK
    <3>5. /\ kind \in {"private", "desc"} => k = 0
          /\ kind \in ItemKinds => k \in 1 .. root.total /\ Alike(k, private[o].item)
          /\ kind \in {"directory", "items"} => root.item[k].attribute = SUBDIR
      BY <1>1, <3>2, <3>3, <3>4 DEF FilesInv, Leftovers
    <3>6. kind \in ItemKinds => k = private[o].item
      BY <2>2, <3>5
    <3>7. kind \notin {"private", "desc"}
      BY <3>2, <3>3, <3>5
    <3>8. kind \notin ItemKinds
      BY <2>2, <3>2, <3>3, <3>5, <3>6 DEF ItemKinds
    <3>9. kind \in {"root", "string", "part"}
      BY <3>7, <3>8 DEF Kinds, ItemKinds
    <3> QED BY <3>3, <3>9
  <2>3. ASSUME NEW fd \in held, fclose(fd) PROVE \A o \in DOMAIN private \ DOMAIN private' : Released(o)
    BY <2>2, <2>3
  <2>4. ASSUME private' = private PROVE DOMAIN private \subseteq DOMAIN private'
    BY <2>4
  <2>5. ASSUME NEW fd \in held, NEW by \in 1 .. MaxPos, fseek(fd, by)
        PROVE  DOMAIN private \subseteq DOMAIN private'
    BY <1>1, <2>5, SeekFacts
  <2>6. ASSUME file_new_descriptor PROVE DOMAIN private \subseteq DOMAIN private'
    BY <2>6 DEF file_new_descriptor
  <2>7. CASE Step
    <3>1. private' = private \/ file_new_descriptor
      BY <2>7 DEF Step, pathparser_parse_path_part, fat16_open, fat16_open_fails, fat16_find_item_in_directory,
         fat16_get_directory_entry, fat16_get_directory_entry_fails, file_new_descriptor_fails, kzalloc_fails,
         Fail, table
    <3> QED BY <2>1, <2>4, <2>6, <3>1
  <2>8. ASSUME NEW p \in Paths, fopen(p) PROVE private' = private
    BY <2>8 DEF fopen, table
  <2>9. ASSUME NEW fd \in held, fclose_null(fd) PROVE private' = private
    BY <2>9 DEF fclose_null, table
  <2>10. CASE UNCHANGED vars
    BY <2>10
  <2> QED BY <1>1, <2>1, <2>3, <2>4, <2>5, <2>7, <2>8, <2>9, <2>10 DEF Next
<1> QED BY <1>1, FilesInvariant, PTL DEF Spec, ClosedReleased

(* The calls implement what open files promise: fopen gives the smallest   *)
(* free number, at the beginning of a file; fseek moves the position of    *)
(* one number, fclose gives one back, and no other call, failed or not,    *)
(* changes what a number stands for.                                       *)
THEOREM OpenFilesImplemented == Spec => KeepsPromise
<1> DEFINE Behind(fd) == [name |-> root.item[private[file_descriptors[fd]].item],
                          pos  |-> private[file_descriptors[fd]].pos]
<1>1. Init => Promise!Init
  <2> SUFFICES ASSUME Init PROVE OpenNumbers = [fd \in {} |-> 0]
    BY DEF Promise!Init
  <2>1. held = {}
    BY DEF Init
  <2> QED BY <2>1 DEF OpenNumbers
<1>2. FilesInv /\ [Next]_vars => [Promise!Next]_OpenNumbers
  <2> SUFFICES ASSUME FilesInv, [Next]_vars PROVE Promise!Next \/ OpenNumbers' = OpenNumbers
    OBVIOUS
  <2>0. /\ held \subseteq Fds /\ \A fd \in held : file_descriptors[fd] \in DOMAIN private
        /\ OpenNumbers = [fd \in held |-> Behind(fd)] /\ DOMAIN OpenNumbers = held
    BY DEF FilesInv, TypeOK, TableMatches, OpenNumbers
  <2>1. ASSUME UNCHANGED <<root, file_descriptors, private, held>> PROVE OpenNumbers' = OpenNumbers
    BY <2>1 DEF OpenNumbers
  <2>2. ASSUME file_new_descriptor PROVE Promise!Next
    <3>0. PICK fd : fd = FirstFree
      OBVIOUS
    <3> DEFINE file == root.item[f_item]
    <3>1. /\ held' = held \cup {fd} /\ root' = root
          /\ file_descriptors' = [file_descriptors EXCEPT ![fd] = opens]
          /\ private' = [o \in DOMAIN private \cup {opens} |->
                           IF o = opens THEN [item |-> f_item, pos |-> 0] ELSE private[o]]
          /\ FreeFds # {} /\ pc = "desc"
      BY <2>2, <3>0 DEF file_new_descriptor
    <3>2. /\ fd \in Fds /\ fd \notin held
          /\ \A other \in Fds \ held : fd <= other
      BY <3>0, <3>1, FreePlace DEF FilesInv, TableMatches, FreeFds
    <3>3. file \in UNION {ToSet(area) : area \in Disks}
      <4>1. f_item \in 1 .. root.total
        BY <3>1 DEF FilesInv, Search
      <4> QED BY <4>1 DEF FilesInv, RootRead, Entries
    <3>4. opens \notin DOMAIN private
      BY <3>1 DEF FilesInv, TableMatches
    <3>5. /\ file_descriptors'[fd] = opens
          /\ \A n \in Fds : n # fd => file_descriptors'[n] = file_descriptors[n]
      BY <3>1, <3>2 DEF FilesInv, TypeOK
    <3>6. /\ private'[opens] = [item |-> f_item, pos |-> 0]
          /\ \A o \in DOMAIN private : private'[o] = private[o]
      BY <3>1, <3>4
    <3>7. /\ root'.item[private'[file_descriptors'[fd]].item] = file
          /\ private'[file_descriptors'[fd]].pos = 0
      BY <3>1, <3>5, <3>6
    <3>8. \A n \in held : n # fd /\ private'[file_descriptors'[n]] = private[file_descriptors[n]]
      BY <2>0, <3>2, <3>5, <3>6
    <3>9. OpenNumbers' = [n \in held \cup {fd} |->
                            IF n = fd THEN [name |-> file, pos |-> 0] ELSE OpenNumbers[n]]
      <4>1. OpenNumbers' = [n \in held' |-> Behind(n)']
        BY DEF OpenNumbers
      <4>2. \A n \in held : Behind(n)' = Behind(n) /\ OpenNumbers[n] = Behind(n)
        BY <2>0, <3>1, <3>8
      <4>3. Behind(fd)' = [name |-> file, pos |-> 0]
        BY <3>7
      <4> HIDE DEF Behind, file
      <4> QED BY <3>1, <3>2, <4>1, <4>2, <4>3
    <3>10. Promise!Open(fd, file)
      BY <2>0, <3>2, <3>9 DEF Promise!Open, Promise!Free
    <3> QED BY <3>2, <3>3, <3>10 DEF Promise!Next
  <2>3. ASSUME NEW fd \in held, NEW by \in 1 .. MaxPos, fseek(fd, by) PROVE Promise!Next
    <3> DEFINE o == file_descriptors[fd]
    <3>1. /\ o \in DOMAIN private
          /\ \A p \in DOMAIN private : p # o => private'[p] = private[p]
          /\ private'[o] = [private[o] EXCEPT !.pos = @ + by]
          /\ by < root.item[private[o].item].size
          /\ UNCHANGED <<root, file_descriptors, held>>
      BY <2>3, SeekFacts
    <3>2. private[o] \in [item : 1 .. RootEntries, pos : 0 .. MaxPos]
      BY <3>1 DEF FilesInv, TypeOK
    <3> HIDE DEF o
    <3>3. private'[o].item = private[o].item /\ private'[o].pos = private[o].pos + by
      BY <3>1, <3>2
    <3>4. \A n \in held : n # fd => file_descriptors[n] \in DOMAIN private /\ file_descriptors[n] # o
      BY DEF FilesInv, TableMatches, o
    <3>5. \A n \in held : n # fd => Behind(n)' = Behind(n)
      BY <3>1, <3>4
    <3>6. Behind(fd)' = [Behind(fd) EXCEPT !.pos = @ + by]
      <4>1. Behind(fd)' = [name |-> root.item[private[o].item], pos |-> private[o].pos + by]
        BY <3>1, <3>3 DEF o
      <4>2. Behind(fd) = [name |-> root.item[private[o].item], pos |-> private[o].pos]
        BY DEF o
      <4> HIDE DEF Behind
      <4> QED BY <4>1, <4>2
    <3>7. Behind(fd).name = root.item[private[o].item] /\ OpenNumbers[fd] = Behind(fd)
      BY <2>0 DEF o
    <3>8. OpenNumbers' = [n \in held' |-> Behind(n)']
      BY DEF OpenNumbers
    <3> HIDE DEF Behind
    <3>9. OpenNumbers' = [OpenNumbers EXCEPT ![fd].pos = @ + by]
      <4>1. [OpenNumbers EXCEPT ![fd].pos = @ + by]
              = [n \in held |-> IF n = fd THEN [OpenNumbers[n] EXCEPT !.pos = @ + by] ELSE OpenNumbers[n]]
        BY <2>0
      <4> QED BY <2>0, <3>1, <3>5, <3>6, <3>8, <4>1
    <3>10. root.item[private[o].item].size \in Nat
      <4>1. private[o].item \in 1 .. root.total
        BY <3>1 DEF FilesInv, TableMatches
      <4> QED BY <4>1, NameFacts DEF FilesInv, RootRead
    <3>11. SizeOf(OpenNumbers[fd].name) = root.item[private[o].item].size
      BY <3>7 DEF SizeOf
    <3>12. by \in 1 .. (SizeOf(OpenNumbers[fd].name) - 1)
      BY <3>1, <3>10, <3>11
    <3>13. Promise!Seek(fd)
      BY <3>9, <3>12 DEF Promise!Seek
    <3> QED BY <2>0, <3>13 DEF Promise!Next
  <2>4. ASSUME NEW fd \in held, fclose(fd) PROVE Promise!Next
    <3> DEFINE o == file_descriptors[fd]
    <3>1. file_get_descriptor(fd) = o /\ fd \in Fds
      BY <2>4, Found DEF fclose
    <3>2. /\ held' = held \ {fd} /\ root' = root
          /\ private' = [p \in DOMAIN private \ {o} |-> private[p]]
          /\ file_descriptors' = [file_descriptors EXCEPT ![fd] = NONE]
      BY <2>4, <3>1 DEF fclose
    <3>3. \A n \in held \ {fd} : file_descriptors[n] \in DOMAIN private \ {o}
      BY DEF FilesInv, TableMatches
    <3>4. \A n \in held \ {fd} : file_descriptors'[n] = file_descriptors[n]
      BY <2>0, <3>1, <3>2 DEF FilesInv, TypeOK
    <3> HIDE DEF o
    <3>5. \A n \in held \ {fd} : private'[file_descriptors'[n]] = private[file_descriptors[n]]
      BY <3>2, <3>3, <3>4
    <3>6. \A n \in held \ {fd} : Behind(n)' = Behind(n)
      BY <3>2, <3>5
    <3>7. OpenNumbers' = [n \in held' |-> Behind(n)']
      BY DEF OpenNumbers
    <3> HIDE DEF Behind
    <3>8. OpenNumbers' = [n \in DOMAIN OpenNumbers \ {fd} |-> OpenNumbers[n]]
      BY <2>0, <3>2, <3>6, <3>7
    <3>9. Promise!Close(fd)
      BY <3>8 DEF Promise!Close
    <3> QED BY <2>0, <3>9 DEF Promise!Next
  <2>5. CASE Step
    <3>1. UNCHANGED <<root, file_descriptors, private, held>> \/ file_new_descriptor
      BY <2>5 DEF Step, pathparser_parse_path_part, fat16_open, fat16_open_fails, fat16_find_item_in_directory,
         fat16_get_directory_entry, fat16_get_directory_entry_fails, file_new_descriptor_fails, kzalloc_fails,
         Fail, table
    <3> QED BY <2>1, <2>2, <3>1
  <2>6. ASSUME NEW p \in Paths, fopen(p) PROVE UNCHANGED <<root, file_descriptors, private, held>>
    BY <2>6 DEF fopen, table
  <2>7. ASSUME NEW fd \in held, fclose_null(fd) PROVE UNCHANGED <<root, file_descriptors, private, held>>
    BY <2>7 DEF fclose_null, table
  <2>8. CASE UNCHANGED vars
    BY <2>1, <2>8 DEF vars, table
  <2> QED BY <2>1, <2>3, <2>4, <2>5, <2>6, <2>7, <2>8 DEF Next
<1> QED BY <1>1, <1>2, FilesInvariant, PTL DEF Spec, KeepsPromise, Promise!Spec

-----------------------------------------------------------------------------
(* Parsing a path *)

(* The path behind its drive. *)
PathText == SubSeq(path, 4, Len(path))

(* What is behind place last of a text. *)
RestBehind(text, last) ==
  IF last >= Len(text) THEN <<>> ELSE SubSeq(text, last + 1, Len(text))

(* What the parser has not read yet starts behind the last cut; when it    *)
(* stops, nothing or a slash stands there.                                 *)
ParsedSoFar(cut) ==
  LET last == cut[Len(parts)]
  IN  /\ CutInParts(PathText, cut)
      /\ pc = "part" => tmp_path = RestBehind(PathText, last)
      /\ pc = "disk" => last >= Len(PathText) \/ PathText[last + 1] = "/"

Parsing ==
  /\ pc = "idle" => parts = <<>>
  /\ pc \in {"part", "disk"} =>
       /\ Len(path) >= 3
       /\ \E cut \in [0 .. Len(parts) -> 0 .. (Len(PathText) + 1)] : ParsedSoFar(cut)

-----------------------------------------------------------------------------
(* Looking a name up *)

(* The entries looked at are in front of the one that ends the directory,  *)
(* and all of them that are in front of the first deleted one.             *)
Counted ==
  /\ DOMAIN root.item = 1 .. RootEntries
  /\ \A k \in 1 .. root.total : root.item[k].filename[1] # ZERO
  /\ \A k \in DOMAIN root.item :
       (\A d \in 1 .. k : root.item[d].filename[1] \notin {ZERO, DELETED}) => k <= root.total

(* The match that the search has kept is the last one so far. *)
LastMatch ==
  pc \in {"find", "desc"} =>
    /\ f_item # NONE => \A k \in (f_item + 1) .. (i - 1) : ~Matches(k)
    /\ pc = "desc" => i > root.total /\ Len(parts) = 1

-----------------------------------------------------------------------------
(* What the copying loops return *)

(* The copy is the beginning of the string up to the first character of    *)
(* stop.                                                                   *)
LEMMA UntilExact ==
  ASSUME NEW s \in Seq(Chars), NEW stop
  PROVE  LET n == Len(Until(s, stop))
         IN  /\ n \in 0 .. Len(s) /\ Until(s, stop) = SubSeq(s, 1, n)
             /\ \A j \in 1 .. n : Until(s, stop)[j] = s[j] /\ s[j] \notin stop
             /\ n < Len(s) => s[n + 1] \in stop
<1> DEFINE I  == {j \in 1 .. Len(s) : s[j] \in stop}
           at == IF I # {} THEN Min(I) ELSE 0
           n  == IF at = 0 THEN Len(s) ELSE at - 1
           t  == SubSeq(s, 1, n)
<1>0. Len(s) \in Nat /\ DOMAIN s = 1 .. Len(s)
  OBVIOUS
<1>1. Until(s, stop) = IF at = 0 THEN s ELSE SubSeq(s, 1, at - 1)
  BY DEF Until, SelectInSeq
<1>2. I \in SUBSET Nat
  OBVIOUS
<1>3. I # {} => at \in I /\ \A y \in I : at <= y
  BY <1>2, MinFacts
<1>4. I = {} => at = 0
  OBVIOUS
<1> HIDE DEF at
<1>5. n \in 0 .. Len(s) /\ (n < Len(s) => n + 1 \in I) /\ \A j \in 1 .. n : j \notin I
  BY <1>0, <1>3, <1>4
<1>6. t \in Seq(Chars) /\ Len(t) = n /\ \A j \in 1 .. n : t[j] = s[j]
  <2>1. 1 \in 1 .. (Len(s) + 1) /\ n \in 0 .. Len(s)
    BY <1>0, <1>5
  <2> QED BY <2>1, SubSeqProperties
<1>7. Until(s, stop) = t
  <2>1. CASE at = 0
    <3>1. n = Len(s)
      BY <2>1
    <3>2. s = t
      BY <1>0, <1>6, <3>1, SeqEqual
    <3> QED BY <1>1, <2>1, <3>2
  <2>2. CASE at # 0
    BY <1>1, <2>2
  <2> QED BY <2>1, <2>2
<1> HIDE DEF n, t
<1>8. \A j \in 1 .. n : j \in 1 .. Len(s)
  BY <1>0, <1>5
<1> QED BY <1>5, <1>6, <1>7, <1>8 DEF t

(* If the first n characters and no more are not in stop, they are copied. *)
LEMMA UntilAt ==
  ASSUME NEW s \in Seq(Chars), NEW stop, NEW n \in 0 .. (Len(s) - 1),
         s[n + 1] \in stop, \A j \in 1 .. n : s[j] \notin stop
  PROVE  Until(s, stop) = SubSeq(s, 1, n)
<1> DEFINE m == Len(Until(s, stop))
<1>1. /\ m \in 0 .. Len(s) /\ Until(s, stop) = SubSeq(s, 1, m)
      /\ \A j \in 1 .. m : s[j] \notin stop
      /\ m < Len(s) => s[m + 1] \in stop
  BY UntilExact
<1> HIDE DEF m
<1>2. Len(s) \in Nat
  OBVIOUS
<1>3. ~(n < m)
  <2>1. n < m => n + 1 \in 1 .. m
    BY <1>1, <1>2
  <2> QED BY <1>1, <2>1
<1>4. ~(m < n)
  <2>1. m < n => m + 1 \in 1 .. n /\ m < Len(s)
    BY <1>1, <1>2
  <2> QED BY <1>1, <2>1
<1>5. m = n
  BY <1>1, <1>2, <1>3, <1>4
<1> QED BY <1>1, <1>5

-----------------------------------------------------------------------------
(* The parts of a path *)

(* A piece of a piece of a string is a piece of the string. *)
LEMMA PieceOfPiece ==
  ASSUME NEW s \in Seq(Chars), NEW d \in 0 .. Len(s),
         NEW a \in Nat \ {0}, NEW b \in Nat, b <= Len(s) - d
  PROVE  SubSeq(SubSeq(s, d + 1, Len(s)), a, b) = SubSeq(s, d + a, d + b)
<1> DEFINE t == SubSeq(s, d + 1, Len(s))
           u == SubSeq(t, a, b)
           v == SubSeq(s, d + a, d + b)
<1>0. Len(s) \in Nat /\ \A j \in 1 .. Len(s) : s[j] \in Chars
  OBVIOUS
<1>1. Len(t) = Len(s) - d /\ \A j \in 1 .. (Len(s) - d) : t[j] = s[d + j] /\ t[j] \in Chars
  <2>1. d + 1 \in Int /\ Len(s) \in Int /\ \A j \in (d + 1) .. Len(s) : s[j] \in Chars
    BY <1>0
  <2>2. /\ Len(t) = IF d + 1 <= Len(s) THEN Len(s) - (d + 1) + 1 ELSE 0
        /\ \A j \in 1 .. (Len(s) - (d + 1) + 1) : t[j] = s[(d + 1) + j - 1]
    BY <2>1, SubSeqProperties
  <2> HIDE DEF t
  <2>3. \A j \in 1 .. (Len(s) - d) : /\ j \in 1 .. (Len(s) - (d + 1) + 1) /\ (d + 1) + j - 1 = d + j
                                     /\ d + j \in 1 .. Len(s)
    BY <1>0
  <2> QED BY <1>0, <2>2, <2>3
<1> HIDE DEF t
<1>2. u \in Seq(Chars) /\ Len(u) = (IF a <= b THEN b - a + 1 ELSE 0) /\ \A j \in 1 .. (b - a + 1) : u[j] = t[a + j - 1]
  <2>1. \A j \in a .. b : j \in 1 .. (Len(s) - d)
    BY <1>0
  <2>2. \A j \in a .. b : t[j] \in Chars
    BY <1>1, <2>1
  <2> QED BY <2>2, SubSeqProperties
<1>3. v \in Seq(Chars) /\ Len(v) = (IF a <= b THEN b - a + 1 ELSE 0) /\ \A j \in 1 .. (b - a + 1) : v[j] = s[d + a + j - 1]
  <2>1. d + a \in Int /\ d + b \in Int /\ \A j \in (d + a) .. (d + b) : s[j] \in Chars
    BY <1>0
  <2>2. /\ v \in Seq(Chars) /\ Len(v) = IF d + a <= d + b THEN (d + b) - (d + a) + 1 ELSE 0
        /\ \A j \in 1 .. ((d + b) - (d + a) + 1) : v[j] = s[(d + a) + j - 1]
    BY <2>1, SubSeqProperties
  <2> HIDE DEF v
  <2>3. (d + b) - (d + a) + 1 = b - a + 1 /\ (d + a <= d + b <=> a <= b)
    OBVIOUS
  <2> QED BY <2>2, <2>3
<1> HIDE DEF u, v
<1>4. ASSUME NEW j \in 1 .. Len(u) PROVE u[j] = v[j]
  <2>0. j \in 1 .. (b - a + 1)
    <3>1. CASE a <= b
      BY <1>2, <3>1
    <3>2. CASE ~(a <= b)
      BY <1>2, <3>2
    <3> QED BY <3>1, <3>2
  <2>1. a + j - 1 \in 1 .. (Len(s) - d) /\ d + (a + j - 1) = d + a + j - 1
    BY <1>0, <2>0
  <2> QED BY <1>1, <1>2, <1>3, <2>0, <2>1
<1>5. u = v
  BY <1>2, <1>3, <1>4, SeqEqual
<1> QED BY <1>5 DEF t, u, v

(* The path behind its drive is a string. *)
LEMMA PathTextFacts ==
  ASSUME path \in Seq(Chars), Len(path) >= 3
  PROVE  PathText \in Seq(Chars)
<1>1. Len(path) \in Nat /\ \A j \in 4 .. Len(path) : path[j] \in Chars
  OBVIOUS
<1> QED BY <1>1, SubSeqProperties DEF PathText

(* The next cut of a text that was cut at last, when part and rest are read. *)
CutBehind(text, last, part, rest) ==
  /\ part = <<>> => last >= Len(text) \/ text[last + 1] = "/"
  /\ part # <<>> =>
       LET next == last + Len(part) + 1
       IN  /\ next \in 0 .. (Len(text) + 1)
           /\ part = SubSeq(text, last + 1, next - 1)
           /\ next = Len(text) + 1 \/ text[next] = "/"
           /\ rest = RestBehind(text, next)

(* pathparser_get_path_part on what is behind the last cut. *)
LEMMA NextCut ==
  ASSUME NEW text \in Seq(Chars), NEW last \in 0 .. (Len(text) + 1)
  PROVE  LET got == pathparser_get_path_part(RestBehind(text, last))
         IN  CutBehind(text, last, got[1], got[2])
<1> DEFINE tmp  == RestBehind(text, last)
           part == Until(tmp, {"/"})
           rest == pathparser_get_path_part(tmp)[2]
<1>1. pathparser_get_path_part(tmp)[1] = part
  BY DEF pathparser_get_path_part
<1>2. tmp = IF last >= Len(text) THEN <<>> ELSE SubSeq(text, last + 1, Len(text))
  BY DEF RestBehind
<1>3. part = Until(tmp, {"/"})
  OBVIOUS
<1>4. rest = IF part = tmp THEN <<>> ELSE SubSeq(tmp, Len(part) + 2, Len(tmp))
  BY DEF pathparser_get_path_part
<1> SUFFICES CutBehind(text, last, part, rest)
  BY <1>1
<1> HIDE DEF tmp, part, rest
<1>5. Len(text) \in Nat /\ \A j \in 1 .. Len(text) : text[j] \in Chars
  OBVIOUS
<1>6. CASE last >= Len(text)
  <2>1. tmp = <<>> /\ tmp \in Seq(Chars) /\ Len(tmp) = 0
    BY <1>6, <1>2
  <2> DEFINE n == Len(Until(tmp, {"/"}))
  <2>2. n \in 0 .. Len(tmp) /\ Until(tmp, {"/"}) = SubSeq(tmp, 1, n)
    BY <2>1, UntilExact
  <2>3. part = <<>>
    <3>1. n = 0
      BY <2>1, <2>2
    <3>2. SubSeq(tmp, 1, 0) = <<>>
      BY SubSeqEmpty
    <3> QED BY <1>3, <2>2, <3>1, <3>2
  <2> QED BY <1>6, <2>3 DEF CutBehind
<1>7. CASE last < Len(text)
  <2>0. last \in 0 .. Len(text) /\ last \in Nat
    BY <1>5, <1>7
  <2>1. tmp = SubSeq(text, last + 1, Len(text))
    BY <1>5, <1>7, <1>2
  <2>2. tmp \in Seq(Chars) /\ Len(tmp) = Len(text) - last /\ \A j \in 1 .. (Len(text) - last) : tmp[j] = text[last + j]
    <3>1. last + 1 \in Int /\ Len(text) \in Int /\ \A j \in (last + 1) .. Len(text) : text[j] \in Chars
      BY <1>5, <2>0
    <3>2. /\ tmp \in Seq(Chars) /\ Len(tmp) = IF last + 1 <= Len(text) THEN Len(text) - (last + 1) + 1 ELSE 0
          /\ \A j \in 1 .. (Len(text) - (last + 1) + 1) : tmp[j] = text[(last + 1) + j - 1]
      BY <2>1, <3>1, SubSeqProperties
    <3>3. Len(text) - (last + 1) + 1 = Len(text) - last /\ last + 1 <= Len(text)
      BY <1>5, <1>7, <2>0
    <3>4. ASSUME NEW j \in 1 .. (Len(text) - last) PROVE tmp[j] = text[last + j]
      <4>1. (last + 1) + j - 1 = last + j
        BY <2>0
      <4>2. tmp[j] = text[(last + 1) + j - 1]
        BY <3>2, <3>3
      <4> QED BY <4>1, <4>2
    <3>5. tmp \in Seq(Chars) /\ Len(tmp) = Len(text) - last
      BY <3>2, <3>3
    <3> QED BY <3>4, <3>5
  <2> DEFINE n == Len(part)
  <2>3. /\ n \in 0 .. Len(tmp) /\ part = SubSeq(tmp, 1, n)
        /\ n < Len(tmp) => tmp[n + 1] \in {"/"}
    BY <1>3, <2>2, UntilExact
  <2> HIDE DEF n
  <2>4. ASSUME part = <<>> PROVE text[last + 1] = "/"
    <3>1. n = 0
      BY <2>4 DEF n
    <3>2. 0 < Len(tmp) /\ 1 \in 1 .. (Len(text) - last)
      BY <1>5, <1>7, <2>0, <2>2
    <3> QED BY <2>2, <2>3, <3>1, <3>2
  <2> DEFINE next == last + n + 1
  <2>5. next \in 1 .. (Len(text) + 1) /\ next - 1 = last + n /\ (n = Len(tmp) <=> next = Len(text) + 1)
    <3>1. PICK N \in Nat : N = Len(text)
      BY <1>5
    <3>2. n \in 0 .. (N - last) /\ Len(tmp) = N - last
      BY <2>2, <2>3, <3>1
    <3>3. next \in 1 .. (N + 1) /\ next - 1 = last + n /\ (n = N - last <=> next = N + 1)
      BY <2>0, <3>2
    <3> QED BY <3>1, <3>2, <3>3
  <2>6. part = SubSeq(text, last + 1, next - 1)
    <3>1. n \in Nat /\ n <= Len(text) - last
      BY <1>5, <2>0, <2>2, <2>3
    <3> QED BY <2>0, <2>1, <2>3, <2>5, <3>1, PieceOfPiece
  <2>7. next = Len(text) + 1 \/ text[next] = "/"
    <3> SUFFICES ASSUME next # Len(text) + 1 PROVE text[next] = "/"
      OBVIOUS
    <3>1. n < Len(tmp) /\ n + 1 \in 1 .. (Len(text) - last) /\ last + (n + 1) = next
      BY <1>5, <2>0, <2>2, <2>3, <2>5
    <3> QED BY <2>2, <2>3, <3>1
  <2>8. rest = RestBehind(text, next)
    <3>1. rest = IF part = tmp THEN <<>> ELSE SubSeq(tmp, n + 2, Len(tmp))
      BY <1>4 DEF n
    <3>2. CASE n = Len(tmp)
      <4>1. part = tmp
        <5>1. SubSeq(tmp, 1, Len(tmp)) = tmp
          BY <2>2, SubSeqFull
        <5> QED BY <2>3, <3>2, <5>1
      <4>2. next >= Len(text)
        BY <1>5, <2>5, <3>2
      <4> QED BY <3>1, <4>1, <4>2 DEF RestBehind
    <3>3. CASE n < Len(tmp)
      <4>1. part # tmp
        <5>1. Len(tmp) \in Nat
          BY <2>2
        <5>2. part = tmp => n = Len(tmp)
          BY DEF n
        <5> QED BY <3>3, <5>1, <5>2
      <4>2. SubSeq(tmp, n + 2, Len(tmp)) = SubSeq(text, last + (n + 2), last + Len(tmp))
        <5>1. n + 2 \in Nat \ {0} /\ Len(tmp) \in Nat /\ Len(tmp) <= Len(text) - last
          BY <1>5, <2>0, <2>2, <2>3
        <5>2. PICK M \in Nat : M = Len(tmp)
          BY <5>1
        <5>3. SubSeq(SubSeq(text, last + 1, Len(text)), n + 2, M) = SubSeq(text, last + (n + 2), last + M)
          BY <2>0, <5>1, <5>2, PieceOfPiece
        <5> QED BY <2>1, <5>2, <5>3
      <4>3. last + (n + 2) = next + 1 /\ last + Len(tmp) = Len(text)
        BY <1>5, <2>0, <2>2, <2>3
      <4>4. next >= Len(text) => SubSeq(text, next + 1, Len(text)) = <<>>
        <5>1. next + 1 \in Int /\ Len(text) \in Int /\ (next >= Len(text) => Len(text) < next + 1)
          BY <1>5, <2>5
        <5> QED BY <5>1, SubSeqEmpty
      <4> QED BY <3>1, <4>1, <4>2, <4>3, <4>4 DEF RestBehind
    <3>4. Len(tmp) \in Nat
      BY <2>2
    <3>5. n = Len(tmp) \/ n < Len(tmp)
      BY <2>3, <3>4
    <3> QED BY <3>2, <3>3, <3>5
  <2>9. next \in 0 .. (Len(text) + 1)
    BY <1>5, <2>5
  <2> QED BY <2>4, <2>6, <2>7, <2>8, <2>9 DEF n, CutBehind
<1> QED BY <1>5, <1>6, <1>7

(* Before the first part is read nothing is cut. *)
LEMMA OpenCuts ==
  ASSUME Parsing, NEW p \in Paths, fopen(p)
  PROVE  Parsing'
<1>1. CASE ~pathparser_path_valid_format(p)
  <2>1. pc' = "idle" /\ parts' = <<>>
    BY <1>1 DEF fopen, Return
  <2> QED BY <2>1 DEF Parsing
<1>2. CASE pathparser_path_valid_format(p)
  <2>1. /\ pc' = "part" /\ path' = p /\ tmp_path' = SubSeq(p, 4, Len(p)) /\ parts' = <<>>
        /\ Len(p) >= 3 /\ p \in Seq(Chars)
    BY <1>2, FilesAssumption DEF fopen, pathparser_path_valid_format, Parsing
  <2> DEFINE text == SubSeq(p, 4, Len(p))
             cut == [k \in 0 .. 0 |-> 0]
  <2>2. text \in Seq(Chars) /\ PathText' = text
    <3>1. Len(p) \in Nat /\ \A j \in 4 .. Len(p) : p[j] \in Chars
      BY <2>1
    <3>2. text \in Seq(Chars)
      BY <3>1, SubSeqProperties
    <3> QED BY <2>1, <3>2 DEF PathText
  <2>3. tmp_path' = text
    BY <2>1
  <2> HIDE DEF text
  <2>4. Len(text) \in Nat /\ Len(parts') = 0 /\ DOMAIN parts' = {}
    BY <2>1, <2>2
  <2>5. cut \in [0 .. Len(parts') -> 0 .. (Len(text) + 1)] /\ cut[0] = 0
    BY <2>4
  <2> HIDE DEF cut
  <2>6. text = RestBehind(text, 0)
    <3>1. Len(text) = 0 => text = <<>>
      BY <2>2, EmptySeq
    <3>2. SubSeq(text, 1, Len(text)) = text
      BY <2>2, SubSeqFull
    <3> QED BY <2>4, <3>1, <3>2 DEF RestBehind
  <2>7. ParsedSoFar(cut)'
    BY <2>1, <2>2, <2>3, <2>4, <2>5, <2>6 DEF ParsedSoFar, CutInParts
  <2> QED BY <2>1, <2>2, <2>5, <2>7 DEF Parsing
<1> QED BY <1>1, <1>2

(* One more part is one more cut. *)
LEMMA PartCuts ==
  ASSUME FilesInv, Parsing, pathparser_parse_path_part
  PROVE  Parsing'
<1>1. /\ path \in Seq(Chars) /\ tmp_path \in Seq(Chars) /\ parts \in Seq(Seq(Chars))
  BY DEF FilesInv, Search
<1> DEFINE get == pathparser_get_path_part(tmp_path)
<1>2. /\ pc = "part" /\ tmp_path' = get[2] /\ path' = path
      /\ \/ get[1] = <<>> /\ pc' = "disk" /\ parts' = parts
         \/ get[1] # <<>> /\ pc' = "part" /\ parts' = Append(parts, get[1])
  BY DEF pathparser_parse_path_part
<1>3. Len(path) >= 3
  BY <1>2 DEF Parsing
<1>4. PICK L \in Nat : L = Len(parts)
  BY <1>1
<1>5. PICK text \in Seq(Chars) : text = PathText
  BY <1>1, <1>3, PathTextFacts
<1>6. PathText' = text
  BY <1>2, <1>5 DEF PathText
<1>7. PICK cut \in [0 .. L -> 0 .. (Len(text) + 1)] : ParsedSoFar(cut)
  BY <1>2, <1>4, <1>5 DEF Parsing
<1>8. PICK last \in 0 .. (Len(text) + 1) : last = cut[L]
  BY <1>4, <1>7
<1>9. PICK part, rest : part = get[1] /\ rest = get[2]
  OBVIOUS
<1>10. PICK tmp : tmp = tmp_path
  OBVIOUS
<1>11. tmp = RestBehind(text, last)
  BY <1>2, <1>4, <1>5, <1>7, <1>8, <1>10 DEF ParsedSoFar
<1>12. part = Until(tmp, {"/"})
  BY <1>9, <1>10 DEF pathparser_get_path_part
<1>13. CutBehind(text, last, part, rest)
  BY <1>9, <1>10, <1>11, NextCut
<1> HIDE DEF get
<1>14. /\ cut[0] = 0
       /\ \A k \in DOMAIN parts :
            /\ parts[k] = SubSeq(text, cut[k - 1] + 1, cut[k] - 1)
            /\ cut[k] = Len(text) + 1 \/ text[cut[k]] = "/"
  BY <1>5, <1>7 DEF ParsedSoFar, CutInParts
<1>15. CASE part = <<>>
  <2>1. pc' = "disk" /\ parts' = parts /\ Len(parts') = L
    BY <1>2, <1>4, <1>9, <1>15
  <2>2. cut \in [0 .. Len(parts') -> 0 .. (Len(PathText') + 1)]
    BY <1>6, <2>1
  <2>3. ParsedSoFar(cut)'
    <3>1. CutInParts(PathText, cut)'
      BY <1>6, <1>14, <2>1 DEF CutInParts
    <3>2. last >= Len(text) \/ text[last + 1] = "/"
      BY <1>13, <1>15 DEF CutBehind
    <3> QED BY <1>6, <1>8, <2>1, <3>1, <3>2 DEF ParsedSoFar
  <2> QED BY <1>2, <1>3, <2>1, <2>2, <2>3 DEF Parsing
<1>16. CASE part # <<>>
  <2>1. pc' = "part" /\ parts' = Append(parts, part) /\ tmp_path' = rest
    BY <1>2, <1>9, <1>16
  <2>2. part \in Seq(Chars)
    BY <1>1, <1>10, <1>12, UntilFacts
  <2>3. /\ DOMAIN parts = 1 .. L /\ DOMAIN parts' = 1 .. (L + 1) /\ Len(parts') = L + 1
        /\ \A k \in 1 .. L : parts'[k] = parts[k]
        /\ parts'[L + 1] = part
    BY <1>1, <1>4, <2>1, <2>2
  <2>4. PICK next : next = last + Len(part) + 1
    OBVIOUS
  <2>5. /\ next \in 0 .. (Len(text) + 1)
        /\ part = SubSeq(text, last + 1, next - 1)
        /\ next = Len(text) + 1 \/ text[next] = "/"
        /\ rest = RestBehind(text, next)
    BY <1>13, <1>16, <2>4 DEF CutBehind
  <2> DEFINE more == [k \in 0 .. (L + 1) |-> IF k = L + 1 THEN next ELSE cut[k]]
  <2>6. /\ more \in [0 .. (L + 1) -> 0 .. (Len(text) + 1)]
        /\ more[L + 1] = next
        /\ \A k \in 0 .. L : more[k] = cut[k]
    BY <2>5
  <2> HIDE DEF more
  <2>7. more[0] = 0
    BY <1>14, <2>6
  <2>8. ASSUME NEW k \in DOMAIN parts'
        PROVE  /\ parts'[k] = SubSeq(text, more[k - 1] + 1, more[k] - 1)
               /\ more[k] = Len(text) + 1 \/ text[more[k]] = "/"
    <3>1. CASE k = L + 1
      <4>1. k - 1 = L /\ L \in 0 .. L
        BY <3>1
      <4>2. more[k - 1] = last /\ more[k] = next /\ parts'[k] = part
        BY <1>8, <2>3, <2>6, <3>1, <4>1
      <4> QED BY <2>5, <4>2
    <3>2. CASE k # L + 1
      <4>1. k \in 1 .. L /\ k \in 0 .. L /\ k - 1 \in 0 .. L
        BY <2>3, <3>2
      <4>2. more[k - 1] = cut[k - 1] /\ more[k] = cut[k] /\ parts'[k] = parts[k]
        BY <2>3, <2>6, <4>1
      <4>3. /\ parts[k] = SubSeq(text, cut[k - 1] + 1, cut[k] - 1)
            /\ cut[k] = Len(text) + 1 \/ text[cut[k]] = "/"
        BY <1>14, <2>3, <4>1
      <4> QED BY <4>2, <4>3
    <3> QED BY <3>1, <3>2
  <2>9. ParsedSoFar(more)'
    <3>1. CutInParts(PathText, more)'
      BY <1>6, <2>7, <2>8 DEF CutInParts
    <3> QED BY <1>6, <2>1, <2>3, <2>5, <2>6, <3>1 DEF ParsedSoFar
  <2>10. more \in [0 .. Len(parts') -> 0 .. (Len(PathText') + 1)]
    BY <1>6, <2>3, <2>6
  <2> QED BY <1>2, <1>3, <2>1, <2>9, <2>10 DEF Parsing
<1> QED BY <1>15, <1>16

(* Every step keeps what was parsed. *)
LEMMA ParsingNext == FilesInv /\ Parsing /\ [Next]_vars => Parsing'
<1> SUFFICES ASSUME FilesInv, Parsing, [Next]_vars PROVE Parsing'
  OBVIOUS
<1>1. ASSUME pc' \notin {"idle", "part", "disk"} PROVE Parsing'
  BY <1>1 DEF Parsing
<1>2. ASSUME Return PROVE Parsing'
  BY <1>2 DEF Parsing, Return
<1>3. ASSUME UNCHANGED <<pc, call>> PROVE Parsing'
  BY <1>3 DEF Parsing, ParsedSoFar, CutInParts, PathText, call
<1>4. ASSUME NEW p \in Paths, fopen(p) PROVE Parsing'
  BY <1>4, OpenCuts
<1>5. CASE pathparser_parse_path_part
  BY <1>5, PartCuts
<1>6. CASE \E letter \in {"r", "w", "a", "x"} : fat16_open(letter)
  BY <1>1, <1>6 DEF fat16_open
<1>7. CASE fat16_find_item_in_directory
  BY <1>1, <1>7 DEF fat16_find_item_in_directory
<1>8. CASE fat16_get_directory_entry
  BY <1>1, <1>8 DEF fat16_get_directory_entry
<1>9. CASE fat16_open_fails \/ fat16_get_directory_entry_fails \/ file_new_descriptor_fails
  BY <1>2, <1>9 DEF fat16_open_fails, fat16_get_directory_entry_fails, file_new_descriptor_fails, Fail
<1>10. CASE file_new_descriptor \/ kzalloc_fails
  BY <1>2, <1>10 DEF file_new_descriptor, kzalloc_fails
<1>11. ASSUME NEW fd \in held, (\E by \in 1 .. MaxPos : fseek(fd, by)) \/ fclose(fd) \/ fclose_null(fd)
       PROVE  Parsing'
  BY <1>3, <1>11 DEF fseek, fclose, fclose_null
<1>12. CASE UNCHANGED vars
  BY <1>3, <1>12 DEF vars
<1> QED BY <1>4, <1>5, <1>6, <1>7, <1>8, <1>9, <1>10, <1>11, <1>12 DEF Next, Step

(* pathparser_parse reads every path as it should: the parts are what      *)
(* stands between the slashes, in their order, up to the end of the path   *)
(* or the first empty part, and each fits its buffer.                      *)
THEOREM PathsReadRight == Spec => []PathRead
<1>1. Init => Parsing
  BY DEF Init, Parsing
<1>2. FilesInv /\ Parsing => PathRead
  <2> SUFFICES ASSUME FilesInv, Parsing PROVE PathRead
    OBVIOUS
  <2>1. PartsFit
    BY DEF FilesInv, Search
  <2>2. ASSUME pc = "disk"
        PROVE  \E cut \in [0 .. Len(parts) -> 0 .. (Len(PathText) + 1)] :
                 /\ CutInParts(PathText, cut)
                 /\ cut[Len(parts)] >= Len(PathText) \/ PathText[cut[Len(parts)] + 1] = "/"
    BY <2>2 DEF Parsing, ParsedSoFar
  <2> QED BY <2>1, <2>2 DEF PathRead, PathText
<1> QED BY <1>1, <1>2, ParsingNext, FilesInvariant, PTL DEF Spec

-----------------------------------------------------------------------------
(* Names on the disk *)

(* Only spaces follow the name in a field. *)
LEMMA NameLengthFacts ==
  ASSUME NEW f \in Seq(Chars)
  PROVE  /\ NameLength(f) \in 0 .. Len(f)
         /\ \A k \in (NameLength(f) + 1) .. Len(f) : f[k] = SPACE
<1> DEFINE S == {n \in 0 .. Len(f) : \A k \in (n + 1) .. Len(f) : f[k] = SPACE}
<1>1. Len(f) \in Nat
  OBVIOUS
<1>2. Len(f) \in S
  BY <1>1
<1>3. S \in SUBSET Nat /\ S # {}
  BY <1>2
<1>4. Min(S) \in S
  BY <1>3, MinFacts
<1> QED BY <1>4 DEF NameLength

(* The beginning of two strings in a row. *)
LEMMA BeginningOfTwo ==
  ASSUME NEW s \in Seq(Chars), NEW t \in Seq(Chars), NEW n \in 0 .. Len(s)
  PROVE  /\ s \o t \in Seq(Chars) /\ Len(s \o t) = Len(s) + Len(t)
         /\ SubSeq(s \o t, 1, n) = SubSeq(s, 1, n)
         /\ \A j \in 1 .. Len(s) : (s \o t)[j] = s[j]
<1> DEFINE st == s \o t
           u  == SubSeq(st, 1, n)
           v  == SubSeq(s, 1, n)
<1>1. Len(s) \in Nat /\ Len(t) \in Nat /\ \A j \in 1 .. Len(s) : s[j] \in Chars
  OBVIOUS
<1>2. /\ st \in Seq(Chars) /\ Len(st) = Len(s) + Len(t)
      /\ \A j \in 1 .. (Len(s) + Len(t)) : st[j] = IF j <= Len(s) THEN s[j] ELSE t[j - Len(s)]
  BY ConcatProperties
<1> HIDE DEF st
<1>3. \A j \in 1 .. Len(s) : j \in 1 .. (Len(s) + Len(t)) /\ j <= Len(s)
  BY <1>1
<1>4. \A j \in 1 .. Len(s) : st[j] = s[j]
  BY <1>2, <1>3
<1>5. \A j \in 1 .. n : j \in 1 .. Len(s)
  BY <1>1
<1>6. 1 \in Int /\ n \in Int /\ n - 1 + 1 = n /\ (IF 1 <= n THEN n - 1 + 1 ELSE 0) = n /\ \A j \in 1 .. n : 1 + j - 1 = j
  BY <1>1
<1>7. u \in Seq(Chars) /\ Len(u) = n /\ \A j \in 1 .. n : u[j] = st[j]
  <2>1. \A j \in 1 .. n : st[j] \in Chars
    BY <1>1, <1>4, <1>5
  <2>2. /\ u \in Seq(Chars) /\ Len(u) = IF 1 <= n THEN n - 1 + 1 ELSE 0
        /\ \A j \in 1 .. (n - 1 + 1) : u[j] = st[1 + j - 1]
    BY <1>6, <2>1, SubSeqProperties
  <2> QED BY <1>6, <2>2
<1>8. v \in Seq(Chars) /\ Len(v) = n /\ \A j \in 1 .. n : v[j] = s[j]
  <2>1. \A j \in 1 .. n : s[j] \in Chars
    BY <1>1, <1>5
  <2>2. /\ v \in Seq(Chars) /\ Len(v) = IF 1 <= n THEN n - 1 + 1 ELSE 0
        /\ \A j \in 1 .. (n - 1 + 1) : v[j] = s[1 + j - 1]
    BY <1>6, <2>1, SubSeqProperties
  <2> QED BY <1>6, <2>2
<1> HIDE DEF u, v
<1>9. \A j \in 1 .. n : u[j] = v[j]
  BY <1>4, <1>5, <1>7, <1>8
<1>10. u = v
  BY <1>7, <1>8, <1>9, SeqEqual
<1> QED BY <1>2, <1>4, <1>10 DEF st, u, v

(* fat16_to_proper_string of a field and what follows it in memory, if the *)
(* field ends.                                                             *)
LEMMA ProperField ==
  ASSUME NEW f \in Seq(Chars), NEW t \in Seq(Chars), t # <<>>,
         \A k \in 1 .. NameLength(f) : f[k] \notin {ZERO, SPACE},
         NameLength(f) < Len(f) \/ t[1] \in {ZERO, SPACE}
  PROVE  fat16_to_proper_string(f \o t) = SubSeq(f, 1, NameLength(f))
<1>1. PICK n \in 0 .. Len(f) : n = NameLength(f)
  BY NameLengthFacts
<1>2. Len(f) \in Nat /\ Len(t) \in Nat /\ Len(t) > 0
  BY EmptySeq
<1> DEFINE ft == f \o t
<1>3. /\ ft \in Seq(Chars) /\ Len(ft) = Len(f) + Len(t) /\ SubSeq(ft, 1, n) = SubSeq(f, 1, n)
      /\ \A j \in 1 .. Len(f) : ft[j] = f[j]
  BY BeginningOfTwo
<1>4. n < Len(f) => f[n + 1] = SPACE
  <2>1. n < Len(f) => n + 1 \in (n + 1) .. Len(f)
    BY <1>2
  <2> QED BY <1>1, <2>1, NameLengthFacts
<1>5. ft[n + 1] \in {ZERO, SPACE}
  <2>1. CASE n < Len(f)
    <3>1. n + 1 \in 1 .. Len(f)
      BY <1>2, <2>1
    <3> QED BY <1>3, <1>4, <2>1, <3>1
  <2>2. CASE ~(n < Len(f))
    <3>1. n = Len(f) /\ n + 1 \in 1 .. (Len(f) + Len(t)) /\ ~(n + 1 <= Len(f)) /\ n + 1 - Len(f) = 1
      BY <1>2, <2>2
    <3>2. ft[n + 1] = t[n + 1 - Len(f)]
      BY <3>1, ConcatProperties
    <3> QED BY <1>1, <2>2, <3>1, <3>2
  <2> QED BY <2>1, <2>2
<1>6. \A j \in 1 .. n : ft[j] \notin {ZERO, SPACE}
  <2>1. \A j \in 1 .. n : j \in 1 .. Len(f)
    BY <1>2
  <2> QED BY <1>1, <1>3, <2>1
<1>7. n \in 0 .. (Len(ft) - 1)
  BY <1>2, <1>3
<1> HIDE DEF ft
<1>8. Until(ft, {ZERO, SPACE}) = SubSeq(ft, 1, n)
  BY <1>3, <1>5, <1>6, <1>7, UntilAt
<1> QED BY <1>1, <1>3, <1>8 DEF fat16_to_proper_string, ft

(* What an entry is made of. *)
LEMMA EntryFacts ==
  ASSUME NEW e \in Entries
  PROVE  /\ e.filename \in Seq(Chars) /\ e.filename # <<>> /\ e.ext \in Seq(Chars) /\ e.ext # <<>>
         /\ <<e.attribute, ZERO>> \in Seq(Chars) /\ <<".">> \in Seq(Chars)
         /\ e.ext \o <<e.attribute, ZERO>> \in Seq(Chars) /\ e.ext \o <<e.attribute, ZERO>> # <<>>
         /\ (e.ext \o <<e.attribute, ZERO>>)[1] = e.ext[1]
<1>1. e \in fat_directory_item
  <2>1. PICK area \in Disks : e \in ToSet(area)
    BY DEF Entries
  <2>2. area \in Seq(fat_directory_item)
    BY FilesAssumption
  <2> QED BY <2>1, <2>2 DEF ToSet
<1>2. /\ e.filename \in Seq(Chars) /\ e.filename # <<>> /\ e.ext \in Seq(Chars) /\ e.ext # <<>>
      /\ e.attribute \in Chars /\ ZERO \in Chars /\ "." \in Chars
  BY <1>1, FilesAssumption DEF fat_directory_item
<1>3. <<e.attribute, ZERO>> \in Seq(Chars) /\ <<".">> \in Seq(Chars) /\ Len(<<e.attribute, ZERO>>) = 2
  BY <1>2
<1>4. Len(e.ext) \in Nat /\ Len(e.ext) > 0
  BY <1>2, EmptySeq
<1> DEFINE rest == e.ext \o <<e.attribute, ZERO>>
<1>5. rest \in Seq(Chars) /\ Len(rest) = Len(e.ext) + 2 /\ \A j \in 1 .. Len(e.ext) : rest[j] = e.ext[j]
  <2>1. 0 \in 0 .. Len(e.ext)
    BY <1>4
  <2> QED BY <1>2, <1>3, <2>1, BeginningOfTwo
<1> HIDE DEF rest
<1>6. rest # <<>> /\ rest[1] = e.ext[1]
  <2>1. 1 \in 1 .. Len(e.ext) /\ Len(rest) > 0
    BY <1>4, <1>5
  <2> QED BY <1>5, <2>1, EmptySeq
<1> QED BY <1>2, <1>3, <1>5, <1>6 DEF rest

(* The code's name of an entry whose fields end is the one on the disk. *)
LEMMA NamesAgree ==
  ASSUME NEW e \in Entries, FieldsEnd(e)
  PROVE  fat16_get_full_relative_filename(e) = NameOnDisk(e)
<1>1. /\ e.filename \in Seq(Chars) /\ e.ext \in Seq(Chars) /\ e.ext # <<>>
      /\ <<e.attribute, ZERO>> \in Seq(Chars) /\ <<".">> \in Seq(Chars)
  BY EntryFacts
<1> DEFINE tail == <<e.attribute, ZERO>>
           rest == e.ext \o tail
           name == SubSeq(e.filename, 1, NameLength(e.filename))
           ext  == SubSeq(e.ext, 1, NameLength(e.ext))
<1>2. rest \in Seq(Chars) /\ rest # <<>>
  BY EntryFacts
<1>3. /\ \A k \in 1 .. NameLength(e.filename) : e.filename[k] \notin {ZERO, SPACE}
      /\ \A k \in 1 .. NameLength(e.ext) : e.ext[k] \notin {ZERO, SPACE}
      /\ NameLength(e.filename) < Len(e.filename)
      /\ NameLength(e.ext) < Len(e.ext) \/ e.attribute \in {SPACE, ZERO}
  BY DEF FieldsEnd
<1>4. tail # <<>> /\ tail[1] = e.attribute
  OBVIOUS
<1> HIDE DEF tail
<1>5. fat16_to_proper_string(rest) = ext
  BY <1>1, <1>3, <1>4, ProperField DEF tail
<1> HIDE DEF rest
<1>6. fat16_to_proper_string(e.filename \o rest) = name
  BY <1>1, <1>2, <1>3, ProperField
<1>7. name \in Seq(Chars) /\ ext \in Seq(Chars) /\ (ext = <<>> <=> NameLength(e.ext) = 0)
  <2>1. ASSUME NEW f \in Seq(Chars)
        PROVE  /\ SubSeq(f, 1, NameLength(f)) \in Seq(Chars)
               /\ SubSeq(f, 1, NameLength(f)) = <<>> <=> NameLength(f) = 0
    <3>1. PICK n \in 0 .. Len(f) : n = NameLength(f)
      BY NameLengthFacts
    <3>2. n \in Int /\ 1 \in Int /\ (IF 1 <= n THEN n - 1 + 1 ELSE 0) = n /\ \A j \in 1 .. n : f[j] \in Chars
      OBVIOUS
    <3>3. SubSeq(f, 1, n) \in Seq(Chars) /\ Len(SubSeq(f, 1, n)) = n
      BY <3>2, SubSeqProperties
    <3> QED BY <3>1, <3>3, EmptySeq
  <2> QED BY <1>1, <2>1
<1>8. e.ext[1] \in {ZERO, SPACE} <=> NameLength(e.ext) = 0
  <2>1. PICK m \in 0 .. Len(e.ext) : m = NameLength(e.ext)
    BY <1>1, NameLengthFacts
  <2>2. Len(e.ext) \in Nat /\ Len(e.ext) > 0
    BY <1>1, EmptySeq
  <2>3. m = 0 => 1 \in (m + 1) .. Len(e.ext)
    BY <2>2
  <2>4. m = 0 => e.ext[1] = SPACE
    BY <1>1, <2>1, <2>3, NameLengthFacts
  <2>5. m # 0 => 1 \in 1 .. m
    BY <2>2
  <2> QED BY <1>3, <2>1, <2>4, <2>5
<1>9. fat16_get_full_relative_filename(e) = IF NameLength(e.ext) = 0 THEN name ELSE name \o <<".">> \o ext
  BY <1>5, <1>6, <1>8 DEF fat16_get_full_relative_filename, rest, tail
<1>10. NameOnDisk(e) = name \o IF NameLength(e.ext) = 0 THEN <<>> ELSE <<".">> \o ext
  BY <1>7 DEF NameOnDisk
<1> HIDE DEF name, ext
<1>11. (name \o <<".">>) \o ext = name \o (<<".">> \o ext)
  BY <1>1, <1>7, ConcatAssociative
<1>12. name \o <<>> = name
  BY <1>7, ConcatEmptySeq
<1> QED BY <1>9, <1>10, <1>11, <1>12

(* The name of a deleted entry begins with the byte of deletion, and so    *)
(* does every string that the code takes for the same.                     *)
LEMMA DeletedNames ==
  ASSUME NEW e \in Entries, e.filename[1] = DELETED, NEW p \in Seq(Chars),
         SameIgnoringCase(fat16_get_full_relative_filename(e), p)
  PROVE  p[1] = DELETED
<1> DEFINE rest == e.ext \o <<e.attribute, ZERO>>
           all  == e.filename \o rest
           name == fat16_to_proper_string(all)
           full == fat16_get_full_relative_filename(e)
<1>1. e.filename \in Seq(Chars) /\ e.filename # <<>> /\ rest \in Seq(Chars) /\ <<".">> \in Seq(Chars)
  BY EntryFacts
<1>2. Len(e.filename) \in Nat /\ Len(e.filename) > 0 /\ Len(rest) \in Nat
  BY <1>1, EmptySeq
<1>3. full = name \/ full = name \o <<".">> \o fat16_to_proper_string(rest)
  BY DEF fat16_get_full_relative_filename
<1>4. fat16_to_proper_string(rest) \in Seq(Chars)
  BY <1>1, UntilFacts DEF fat16_to_proper_string
<1> HIDE DEF rest
<1>5. all \in Seq(Chars) /\ Len(all) > 0 /\ Len(all) \in Nat /\ all[1] = DELETED
  <2>1. 0 \in 0 .. Len(e.filename) /\ 1 \in 1 .. Len(e.filename)
    BY <1>2
  <2>2. all \in Seq(Chars) /\ Len(all) = Len(e.filename) + Len(rest) /\ \A j \in 1 .. Len(e.filename) : all[j] = e.filename[j]
    BY <1>1, <2>1, BeginningOfTwo
  <2> QED BY <1>2, <2>1, <2>2
<1> HIDE DEF all
<1>6. name \in Seq(Chars) /\ Len(name) > 0 /\ name[1] = DELETED
  <2> DEFINE n == Len(Until(all, {ZERO, SPACE}))
  <2>1. /\ n \in 0 .. Len(all)
        /\ \A j \in 1 .. n : Until(all, {ZERO, SPACE})[j] = all[j] /\ all[j] \notin {ZERO, SPACE}
        /\ n < Len(all) => all[n + 1] \in {ZERO, SPACE}
    BY <1>5, UntilExact
  <2>2. DELETED \notin {ZERO, SPACE}
    BY DEF DELETED, ZERO, SPACE
  <2>3. name = Until(all, {ZERO, SPACE}) /\ name \in Seq(Chars)
    BY <1>5, UntilFacts DEF fat16_to_proper_string
  <2> HIDE DEF n
  <2>4. n # 0
    BY <1>5, <2>1, <2>2
  <2>5. 1 \in 1 .. n
    BY <1>5, <2>1, <2>4
  <2>6. Len(name) = n /\ name[1] = all[1]
    BY <2>1, <2>3, <2>5 DEF n
  <2>7. n > 0
    <3>1. n \in 0 .. Len(all)
      BY <2>1
    <3> QED BY <1>5, <2>4, <3>1
  <2> QED BY <1>5, <2>3, <2>6, <2>7
<1> HIDE DEF name
<1>7. 1 \in DOMAIN full /\ full[1] = DELETED
  <2>1. 1 \in 1 .. Len(name) /\ Len(name) \in Nat
    BY <1>6
  <2>2. CASE full = name
    BY <1>6, <2>1, <2>2
  <2>3. CASE full = name \o <<".">> \o fat16_to_proper_string(rest)
    <3> DEFINE more == <<".">> \o fat16_to_proper_string(rest)
    <3>1. full = name \o more
      <4>1. \A u \in Seq(Chars) : (name \o <<".">>) \o u = name \o (<<".">> \o u)
        BY <1>1, <1>6, ConcatAssociative
      <4>2. full = (name \o <<".">>) \o fat16_to_proper_string(rest)
        BY <2>3
      <4> QED BY <1>4, <4>1, <4>2
    <3>2. more \in Seq(Chars) /\ Len(more) \in Nat
      BY <1>1, <1>4, ConcatProperties
    <3> HIDE DEF more
    <3>3. 0 \in 0 .. Len(name)
      BY <2>1
    <3>4. /\ name \o more \in Seq(Chars) /\ Len(name \o more) = Len(name) + Len(more)
          /\ \A j \in 1 .. Len(name) : (name \o more)[j] = name[j]
      BY <1>6, <3>2, <3>3, BeginningOfTwo
    <3>5. 1 \in 1 .. Len(name \o more) /\ (name \o more)[1] = DELETED
      BY <1>6, <2>1, <3>2, <3>4
    <3> QED BY <3>1, <3>4, <3>5
  <2> QED BY <1>3, <2>2, <2>3
<1> HIDE DEF full
<1>8. tolower(DELETED) = tolower(p[1])
  BY <1>7 DEF SameIgnoringCase, full
<1>9. \A c : tolower(c) = DELETED <=> c = DELETED
  BY DEF tolower, LowerCase, DELETED
<1> QED BY <1>8, <1>9

(* The entries that are looked at. *)
LEMMA RootCounts ==
  ASSUME NEW area \in Disks, root = fat16_get_root_directory(area, RootEntries)
  PROVE  Counted
<1> DEFINE I   == {j \in 1 .. Len(area) : area[j].filename[1] = ZERO}
           end == Min(I)
           used == {j \in 1 .. (end - 1) : area[j].filename[1] # DELETED}
<1>1. /\ RootEntries \in Nat /\ area \in Seq(fat_directory_item)
      /\ Len(area) >= RootEntries /\ Len(area) \in Nat
      /\ \E k \in DOMAIN area : k <= RootEntries + 1 /\ area[k].filename[1] = ZERO
  BY FilesAssumption
<1>2. I # {} /\ I \in SUBSET Nat
  BY <1>1
<1>3. end \in I /\ \A y \in I : end <= y
  BY <1>2, MinFacts
<1>4. SelectInSeq(area, LAMBDA e : e.filename[1] = ZERO) = end
  BY <1>2 DEF SelectInSeq
<1>5. root.total = Cardinality(used) /\ root.item = SubSeq(area, 1, RootEntries)
  BY <1>4 DEF fat16_get_root_directory, fat16_get_total_items_for_directory
<1>6. root.total \in 0 .. RootEntries
  BY RootFacts
<1>7. DOMAIN root.item = 1 .. RootEntries /\ \A k \in 1 .. RootEntries : root.item[k] = area[k]
  <2>1. \A k \in 1 .. RootEntries : k \in 1 .. Len(area) /\ area[k] \in fat_directory_item
    BY <1>1
  <2> QED BY <1>1, <1>5, <2>1
<1>8. end \in 1 .. Len(area) /\ area[end].filename[1] = ZERO
  BY <1>3
<1> HIDE DEF end
<1>9. IsFiniteSet(1 .. (end - 1)) /\ Cardinality(1 .. (end - 1)) = end - 1
  <2>1. end - 1 \in Int /\ 1 \in Int /\ (IF 1 > end - 1 THEN 0 ELSE (end - 1) - 1 + 1) = end - 1
    BY <1>1, <1>8
  <2> QED BY <2>1, FS_Interval
<1>10. used \in SUBSET (1 .. (end - 1))
  OBVIOUS
<1>11. IsFiniteSet(used) /\ Cardinality(used) <= end - 1
  BY <1>9, <1>10, FS_Subset
<1>12. ASSUME NEW k \in 1 .. root.total PROVE root.item[k].filename[1] # ZERO
  <2>1. k \in 1 .. RootEntries /\ k \in 1 .. Len(area) /\ k < end
    BY <1>1, <1>5, <1>6, <1>8, <1>11
  <2>2. k \notin I
    BY <1>1, <1>3, <1>8, <2>1
  <2> QED BY <1>7, <2>1, <2>2
<1>13. ASSUME NEW k \in 1 .. RootEntries,
              \A d \in 1 .. k : root.item[d].filename[1] \notin {ZERO, DELETED}
       PROVE  k <= root.total
  <2>1. \A d \in 1 .. k : d \in 1 .. RootEntries /\ area[d].filename[1] \notin {ZERO, DELETED}
    <3>1. \A d \in 1 .. k : d \in 1 .. RootEntries
      BY <1>1
    <3> QED BY <1>7, <1>13, <3>1
  <2>2. ~(end <= k)
    <3>1. end <= k => end \in 1 .. k
      BY <1>8
    <3> QED BY <1>8, <2>1, <3>1
  <2>3. 1 .. k \in SUBSET used
    <3>1. \A d \in 1 .. k : d \in 1 .. (end - 1)
      BY <1>1, <1>8, <2>2
    <3> QED BY <2>1, <3>1
  <2>4. Cardinality(1 .. k) = k
    <3>1. k \in Int /\ 1 \in Int /\ (IF 1 > k THEN 0 ELSE k - 1 + 1) = k
      OBVIOUS
    <3> QED BY <3>1, FS_Interval
  <2>5. Cardinality(1 .. k) <= Cardinality(used)
    BY <1>11, <2>3, FS_Subset
  <2> QED BY <1>5, <2>4, <2>5
<1> QED BY <1>7, <1>12, <1>13 DEF Counted

-----------------------------------------------------------------------------
(* The lookup is exact *)

LookupInv == Counted /\ LastMatch

(* A step that leaves the search of the running fopen alone, or ends it. *)
LEMMA LookupNext == FilesInv /\ LookupInv /\ [Next]_vars => LookupInv'
<1> SUFFICES ASSUME FilesInv, LookupInv, [Next]_vars PROVE LookupInv'
  OBVIOUS
<1>1. root' = root
  BY DEF Next, Step, fopen, pathparser_parse_path_part, fat16_open, fat16_open_fails, Fail,
         fat16_find_item_in_directory, fat16_get_directory_entry, fat16_get_directory_entry_fails,
         file_new_descriptor, file_new_descriptor_fails, kzalloc_fails, fseek, fclose, fclose_null, vars
<1>2. Counted'
  BY <1>1 DEF LookupInv, Counted
<1> SUFFICES LastMatch'
  BY <1>2 DEF LookupInv
<1>3. ASSUME pc' \notin {"find", "desc"} PROVE LastMatch'
  BY <1>3 DEF LastMatch
<1>4. ASSUME UNCHANGED <<pc, call>> PROVE LastMatch'
  BY <1>1, <1>4 DEF LookupInv, LastMatch, Matches, call
<1>5. CASE \E p \in Paths : fopen(p)
  BY <1>3, <1>5 DEF fopen, Return
<1>6. CASE pathparser_parse_path_part
  BY <1>3, <1>6 DEF pathparser_parse_path_part
<1>7. CASE \E letter \in {"r", "w", "a", "x"} : fat16_open(letter)
  <2>1. pc = "disk" /\ pc' = "find" /\ f_item' = f_item
    BY <1>7 DEF fat16_open
  <2>2. f_item = NONE
    BY <2>1 DEF FilesInv, Search
  <2> QED BY <2>1, <2>2 DEF LastMatch
<1>8. CASE fat16_find_item_in_directory
  <2>1. /\ pc = "find" /\ pc' = "find" /\ i' = i + 1 /\ parts' = parts
        /\ \/ Matches(i) /\ f_item' \in {i, NONE}
           \/ ~Matches(i) /\ f_item' = f_item
    BY <1>8 DEF fat16_find_item_in_directory
  <2>2. i \in Nat /\ f_item \in Nat
    BY Bounds DEF FilesInv, TypeOK
  <2>3. \A k : Matches(k)' <=> Matches(k)
    BY <1>1, <2>1 DEF Matches
  <2>4. ASSUME f_item' # NONE, NEW k \in (f_item' + 1) .. (i' - 1) PROVE ~Matches(k)
    <3>1. CASE f_item' = i
      BY <2>1, <2>2, <2>4, <3>1
    <3>2. CASE ~Matches(i) /\ f_item' = f_item
      <4>1. CASE k = i
        BY <3>2, <4>1
      <4>2. CASE k # i
        <5>1. k \in (f_item + 1) .. (i - 1)
          BY <2>1, <2>2, <3>2, <4>2
        <5> QED BY <2>1, <2>4, <3>2, <5>1 DEF LookupInv, LastMatch
      <4> QED BY <4>1, <4>2
    <3> QED BY <2>1, <2>4, <3>1, <3>2
  <2> QED BY <2>1, <2>3, <2>4 DEF LastMatch
<1>9. CASE fat16_get_directory_entry
  <2>1. pc = "find" /\ pc' = "desc" /\ i > root.total /\ Len(parts) = 1 /\ UNCHANGED <<parts, i, f_item>>
    BY <1>9 DEF fat16_get_directory_entry, call
  <2> QED BY <1>1, <2>1 DEF LookupInv, LastMatch, Matches
<1>10. CASE fat16_open_fails \/ fat16_get_directory_entry_fails \/ file_new_descriptor_fails
  BY <1>3, <1>10 DEF fat16_open_fails, fat16_get_directory_entry_fails, file_new_descriptor_fails, Fail, Return
<1>11. CASE file_new_descriptor \/ kzalloc_fails
  BY <1>3, <1>11 DEF file_new_descriptor, kzalloc_fails, Return
<1>12. ASSUME NEW fd \in held, (\E by \in 1 .. MaxPos : fseek(fd, by)) \/ fclose(fd) \/ fclose_null(fd)
       PROVE  LastMatch'
  BY <1>4, <1>12 DEF fseek, fclose, fclose_null
<1>13. CASE UNCHANGED vars
  BY <1>4, <1>13 DEF vars
<1> QED BY <1>5, <1>6, <1>7, <1>8, <1>9, <1>10, <1>11, <1>12, <1>13 DEF Next, Step

(* fat16_find_item_in_directory finds the entry that the path names and no *)
(* other: the last one with its name, as far as the directory is counted,  *)
(* which is at least up to the first deleted entry.                        *)
THEOREM LookupsAreExact == Spec => []LookupExact
<1>1. Init => LookupInv
  <2> SUFFICES ASSUME Init PROVE LookupInv
    OBVIOUS
  <2>1. Counted
    BY RootCounts DEF Init
  <2>2. LastMatch
    BY DEF Init, LastMatch
  <2> QED BY <2>1, <2>2 DEF LookupInv
<1>2. FilesInv /\ LookupInv => LookupExact
  <2> SUFFICES ASSUME FilesInv, LookupInv PROVE LookupExact
    OBVIOUS
  <2>0. /\ root.total \in 0 .. RootEntries /\ \A k \in 1 .. root.total : root.item[k] \in Entries
        /\ parts \in Seq(Seq(Chars)) /\ i \in Nat /\ f_item \in Nat /\ RootEntries \in Nat
    BY Bounds DEF FilesInv, RootRead, Search, TypeOK
  <2>1. ASSUME NEW k \in 1 .. root.total, FieldsEnd(root.item[k]), Named(k) PROVE Matches(k)
    <3>1. fat16_get_full_relative_filename(root.item[k]) = NameOnDisk(root.item[k])
      BY <2>0, <2>1, NamesAgree
    <3>2. Len(parts) = 1 /\ Head(parts) = parts[1]
      BY <2>0, <2>1 DEF Named
    <3> QED BY <2>1, <3>1, <3>2 DEF Named, Matches
  <2>2. OpenedIsNamed
    <3> SUFFICES ASSUME pc = "desc"
                 PROVE  LET e == root.item[f_item]
                        IN  /\ Len(parts) = 1
                            /\ e.filename[1] # ZERO
                            /\ e.filename[1] = DELETED => parts[1][1] = DELETED
                            /\ FieldsEnd(e) => Named(f_item)
                            /\ \A k \in (f_item + 1) .. root.total : FieldsEnd(root.item[k]) => ~Named(k)
      BY DEF OpenedIsNamed
    <3>1. f_item \in 1 .. root.total /\ f_item # NONE /\ Matches(f_item)
      BY DEF FilesInv, Search
    <3>2. Len(parts) = 1 /\ i > root.total /\ \A k \in (f_item + 1) .. (i - 1) : ~Matches(k)
      BY <3>1 DEF LookupInv, LastMatch
    <3>3. Head(parts) = parts[1] /\ parts[1] \in Seq(Chars)
      BY <2>0, <3>2
    <3>4. root.item[f_item].filename[1] # ZERO /\ root.item[f_item] \in Entries
      BY <2>0, <3>1 DEF LookupInv, Counted
    <3>5. root.item[f_item].filename[1] = DELETED => parts[1][1] = DELETED
      BY <3>1, <3>3, <3>4, DeletedNames DEF Matches
    <3>6. FieldsEnd(root.item[f_item]) => Named(f_item)
      BY <3>1, <3>2, <3>3, <3>4, NamesAgree DEF Matches, Named
    <3>7. ASSUME NEW k \in (f_item + 1) .. root.total, FieldsEnd(root.item[k]) PROVE ~Named(k)
      <4>1. k \in 1 .. root.total /\ k \in (f_item + 1) .. (i - 1)
        BY <2>0, <3>1, <3>2
      <4> QED BY <2>1, <3>2, <3>7, <4>1
    <3> QED BY <3>2, <3>4, <3>5, <3>6, <3>7
  <2>3. FoundIfThere
    <3> SUFFICES ASSUME pc = "find", i > root.total, NEW k \in DOMAIN root.item,
                        Named(k), FieldsEnd(root.item[k]),
                        \A d \in 1 .. k : root.item[d].filename[1] \notin {ZERO, DELETED},
                        ~(f_item >= k)
                 PROVE  f_item = NONE /\ \E m \in 1 .. root.total : m >= k /\ Matches(m)
      BY DEF FoundIfThere
    <3>1. k <= root.total /\ k \in 1 .. RootEntries
      BY DEF LookupInv, Counted
    <3>2. k \in 1 .. root.total
      BY <2>0, <3>1
    <3>3. Matches(k)
      BY <2>1, <3>2
    <3>4. f_item = NONE
      <4> SUFFICES ASSUME f_item # NONE PROVE FALSE
        OBVIOUS
      <4>1. k \in (f_item + 1) .. (i - 1)
        BY <2>0, <3>2
      <4> QED BY <3>3, <4>1 DEF LookupInv, LastMatch
    <3>5. k >= k
      BY <3>2
    <3> QED BY <3>2, <3>3, <3>4, <3>5
  <2> QED BY <2>2, <2>3 DEF LookupExact
<1> QED BY <1>1, <1>2, LookupNext, FilesInvariant, PTL DEF Spec

-----------------------------------------------------------------------------
(* Reading: the inductive invariant *)

(* The arguments of the call, and the drive that was asked for the sector  *)
(* that the stream is in.                                                  *)
CallArguments ==
  /\ pos \in Nat /\ size \in Nat \ {0} /\ nmemb \in Nat \ {0} /\ offset \in Nat
  /\ drive \in [lba : Int, sectors : {0, 1}, status : {"idle", "busy", "ready", "error"}]
  /\ stage = "sector" => /\ drive.lba = Addressed(CommandRegisters(stream_pos \div SectorSize))
                         /\ drive.sectors = 1

(* How many bytes have arrived at each step: those of the items that are   *)
(* complete, what was read of this item in earlier calls of                *)
(* fat16_read_internal_from_stream, and what was read in this one.         *)
BytesCounted ==
  /\ stage # "done" => res = 0
  /\ stage = "item" => Len(out) = items * size
  /\ stage \in {"walk", "stream", "sector"} => items < nmemb /\ total > 0
  /\ stage = "walk" => Len(out) = (items * size) + (size - total)
  /\ stage \in {"stream", "sector"} =>
       /\ left > 0 /\ left <= total
       /\ Len(out) = (items * size) + (size - total) + (Min({total, ClusterBytes}) - left)
  /\ stage = "done" => \/ res = -EIO /\ Len(out) <= size * nmemb
                       \/ res = nmemb /\ Len(out) = size * nmemb

(* In a simple read every byte so far is the file's, the stream is at the  *)
(* next one, and what is left lies in the sector or starts with it.        *)
BytesExact ==
  Simple =>
    /\ \A j \in 1 .. Len(out) : out[j] = FilePosition(pos + j - 1)
    /\ stage \in {"walk", "stream", "sector"} => offset = pos + (items * size) /\ total = size
    /\ stage = "walk" => cluster = FirstCluster /\ ahead = 0
    /\ stage \in {"stream", "sector"} =>
         /\ stream_pos = FilePosition(pos + Len(out))
         /\ stream_pos % SectorSize = 0 \/ (stream_pos % SectorSize) + left <= SectorSize
    /\ stage = "done" => res = nmemb

ReadInv == ReadTypeOK /\ CallArguments /\ BytesCounted /\ BytesExact

-----------------------------------------------------------------------------
(* Arithmetic *)

(* The sizes. *)
LEMMA Sizes ==
  /\ SectorSize \in Nat \ {0} /\ SectorsPerCluster \in Nat \ {0} /\ ClusterBytes \in Nat \ {0}
  /\ ClusterBytes = SectorsPerCluster * SectorSize
  /\ DataSector \in Nat /\ FirstCluster \in Nat /\ FirstCluster >= 2
<1>1. /\ SectorSize \in Nat \ {0} /\ SectorsPerCluster \in Nat \ {0} /\ DataSector \in Nat
      /\ Chain \in Seq(Nat \ {0, 1}) /\ Chain # <<>>
  BY FileReadAssumption
<1>2. \A x, y \in Nat \ {0} : x * y \in Nat \ {0}
  OBVIOUS
<1>3. Chain[1] \in Nat \ {0, 1}
  BY <1>1
<1> QED BY <1>1, <1>2, <1>3 DEF ClusterBytes, FirstCluster

(* The smaller of two numbers. *)
LEMMA MinOfTwo ==
  ASSUME NEW a \in Nat, NEW b \in Nat
  PROVE  Min({a, b}) = IF a <= b THEN a ELSE b
<1> DEFINE m == IF a <= b THEN a ELSE b
<1>1. m \in {a, b} /\ \A y \in {a, b} : m <= y
  OBVIOUS
<1>2. \A x \in {a, b} : (\A y \in {a, b} : x <= y) => x = m
  OBVIOUS
<1> HIDE DEF m
<1>3. Min({a, b}) = m
  BY <1>1, <1>2 DEF Min
<1> QED BY <1>3 DEF m

(* The items before the last one leave room for one more. *)
LEMMA ItemsFit ==
  ASSUME NEW n \in Nat, NEW m \in Nat, NEW s \in Nat, n < m
  PROVE  n * s \in Nat /\ s * m \in Nat /\ (n + 1) * s = (n * s) + s /\ (n * s) + s <= s * m
<1>1. \A x, y, z \in Nat : x <= y => x * z <= z * y
  OBVIOUS
<1>2. \A x, y \in Nat : x * y \in Nat /\ (x + 1) * y = (x * y) + y
  OBVIOUS
<1>3. (n + 1) * s <= s * m
  BY <1>1
<1> QED BY <1>2, <1>3

(* The bytes of the first cluster lie behind one another, in sectors that  *)
(* the drive is asked for as they are.                                     *)
LEMMA FirstClusterBytes ==
  ASSUME NEW b \in Nat, b < ClusterBytes
  PROVE  LET p == FilePosition(b)
         IN  /\ p \in Nat /\ p % SectorSize = b % SectorSize
             /\ p = (SectorSize * (p \div SectorSize)) + (p % SectorSize)
             /\ p \div SectorSize \in Nat
             /\ Addressed(CommandRegisters(p \div SectorSize)) = p \div SectorSize
             /\ p = (fat16_cluster_to_sector(FirstCluster) * SectorSize) + b
<1> DEFINE base == DataSector + ((FirstCluster - 2) * SectorsPerCluster)
           q == b \div SectorSize
           r == b % SectorSize
           p == FilePosition(b)
<1>1. q \in Nat /\ r \in 0 .. (SectorSize - 1) /\ b = (SectorSize * q) + r
  BY Sizes, DivMod
<1>2. base \in Nat
  <2>1. \A x, y \in Nat : x * y \in Nat
    OBVIOUS
  <2>2. FirstCluster - 2 \in Nat
    BY Sizes
  <2> QED BY <2>1, <2>2, Sizes
<1>3. p = (base * SectorSize) + b
  <2> DEFINE c == FirstCluster - 2
  <2>1. c \in Nat
    BY Sizes
  <2>2. \A x, y, z, w \in Nat : (x * w) + (y * (z * w)) = (x + (y * z)) * w
    OBVIOUS
  <2>3. (DataSector * SectorSize) + (c * (SectorsPerCluster * SectorSize))
          = (DataSector + (c * SectorsPerCluster)) * SectorSize
    BY <2>1, <2>2, Sizes
  <2> QED BY <2>3, Sizes DEF FilePosition
<1> HIDE DEF q, r, base, p
<1>4. p = (SectorSize * (base + q)) + r
  <2>1. \A x, y, z \in Nat : (x * y) + (y * z) = y * (x + z)
    OBVIOUS
  <2>2. (base * SectorSize) + (SectorSize * q) = SectorSize * (base + q)
    BY <1>1, <1>2, <2>1, Sizes
  <2>3. base * SectorSize \in Nat /\ SectorSize * q \in Nat
    BY <1>1, <1>2, Sizes
  <2> QED BY <1>1, <1>3, <2>2, <2>3
<1>5. base + q \in Nat /\ p \div SectorSize = base + q /\ p % SectorSize = r
  BY <1>1, <1>2, <1>4, Sizes, DivModUnique
<1>6. q < SectorsPerCluster
  <2>1. SectorSize * q < SectorsPerCluster * SectorSize
    <3>1. SectorSize * q \in Nat /\ SectorsPerCluster * SectorSize \in Nat
      BY <1>1, Sizes
    <3> QED BY <1>1, <3>1, Sizes
  <2>2. \A x, y, z \in Nat : x * y < z * x => y < z
    OBVIOUS
  <2> QED BY <1>1, <2>1, <2>2, Sizes
<1>7. base + q < (Byte * Half) * Nibble
  <2> DEFINE reach == (Byte * Half) * Nibble
             low   == (FirstCluster - 2) * SectorsPerCluster
  <2>1. reach \in Nat
    <3>1. \A x, y \in Nat : x * y \in Nat
      OBVIOUS
    <3> QED BY <3>1, Widths
  <2>2. (FirstCluster - 1) * SectorsPerCluster = low + SectorsPerCluster /\ low \in Nat
    <3>1. FirstCluster - 2 \in Nat /\ FirstCluster - 1 = (FirstCluster - 2) + 1
      BY Sizes
    <3>2. \A x, y \in Nat : (x + 1) * y = (x * y) + y /\ x * y \in Nat
      OBVIOUS
    <3> QED BY <3>1, <3>2, Sizes
  <2>3. DataSector + (low + SectorsPerCluster) <= reach
    BY <2>2, FileReadAssumption DEF FirstCluster
  <2>4. base = DataSector + low
    BY DEF base
  <2> HIDE DEF reach, low
  <2>5. base + q < reach
    BY <1>1, <1>6, <2>1, <2>2, <2>3, <2>4, Sizes
  <2> QED BY <2>5 DEF reach
<1>8. Addressed(CommandRegisters(base + q)) = base + q
  BY <1>5, <1>7, SectorAddressed
<1>9. p \in Nat /\ p = (SectorSize * (p \div SectorSize)) + (p % SectorSize)
  <2>1. base * SectorSize \in Nat
    BY <1>2, Sizes
  <2> QED BY <1>3, <1>4, <1>5, <2>1
<1> QED BY <1>3, <1>5, <1>8, <1>9 DEF p, r, base, fat16_cluster_to_sector

-----------------------------------------------------------------------------
(* Reading: the invariant holds *)

(* Nothing has been read at the start. *)
LEMMA ReadBegins == ReadInit => ReadInv
<1> SUFFICES ASSUME ReadInit PROVE ReadInv
  OBVIOUS
<1>1. /\ stage = "item" /\ items = 0 /\ offset = 0 /\ total = 0 /\ cluster = FirstCluster /\ ahead = 0
      /\ fat_pos = -1 /\ stream_pos = 0 /\ left = 0 /\ out = <<>> /\ res = 0
  BY DEF ReadInit
<1>2. pos \in Nat /\ size \in Nat \ {0} /\ nmemb \in Nat \ {0}
  BY FileReadAssumption DEF ReadInit
<1>3. out \in Seq(Int) /\ Len(out) = 0 /\ items * size = 0
  BY <1>1, <1>2
<1>4. items \in 0 .. nmemb /\ total \in 0 .. size /\ left \in 0 .. ClusterBytes
      /\ cluster \in Nat /\ ahead \in Nat /\ fat_pos \in Int /\ stream_pos \in Int
  BY <1>1, <1>2, Sizes
<1>5. ReadTypeOK
  BY <1>1, <1>3, <1>4 DEF ReadTypeOK
<1>6. CallArguments /\ BytesCounted
  <2>1. drive \in [lba : Int, sectors : {0, 1}, status : {"idle", "busy", "ready", "error"}]
    BY DEF ReadInit, DriveIdle
  <2> QED BY <1>1, <1>2, <1>3, <2>1 DEF CallArguments, BytesCounted
<1>7. BytesExact
  BY <1>1, <1>3 DEF BytesExact
<1> QED BY <1>5, <1>6, <1>7 DEF ReadInv

(* Simple is about the arguments, which no step changes. *)
LEMMA StillSimple ==
  ASSUME UNCHANGED <<pos, size, nmemb>>
  PROVE  Simple' = Simple
BY DEF Simple

(* The items of a simple read lie in the first cluster. *)
LEMMA SimpleItems ==
  ASSUME ReadInv, Simple, items < nmemb
  PROVE  /\ items * size \in Nat /\ pos + (items * size) + size <= ClusterBytes
         /\ \/ (pos + (items * size)) % SectorSize = 0
            \/ ((pos + (items * size)) % SectorSize) + size <= SectorSize
<1>1. pos \in Nat /\ size \in Nat /\ nmemb \in Nat /\ items \in Nat /\ items \in 0 .. (nmemb - 1)
  BY DEF ReadInv, CallArguments, ReadTypeOK
<1>2. items * size \in Nat /\ size * nmemb \in Nat /\ (items * size) + size <= size * nmemb
  BY <1>1, ItemsFit
<1>3. pos + (size * nmemb) <= ClusterBytes
  BY DEF Simple
<1>4. pos + (items * size) + size <= ClusterBytes
  <2> DEFINE before == items * size
             all    == size * nmemb
  <2>1. before \in Nat /\ all \in Nat /\ before + size <= all /\ pos + all <= ClusterBytes
    BY <1>2, <1>3
  <2> HIDE DEF before, all
  <2>2. pos + before + size <= ClusterBytes
    BY <1>1, <2>1, Sizes
  <2> QED BY <2>2 DEF before
<1> QED BY <1>1, <1>2, <1>4 DEF Simple

(* fat16_read begins an item, or ends. *)
LEMMA ItemStep ==
  ASSUME ReadInv, fat16_read
  PROVE  ReadInv'
<1>0. ReadTypeOK /\ CallArguments /\ BytesCounted /\ BytesExact
  BY DEF ReadInv
<1>1. /\ stage = "item"
      /\ UNCHANGED <<pos, size, nmemb, items, fat_pos, stream_pos, left, out, drive>>
  BY DEF fat16_read
<1>2. /\ pos \in Nat /\ size \in Nat \ {0} /\ nmemb \in Nat \ {0} /\ items \in 0 .. nmemb /\ items \in Nat
      /\ Len(out) = items * size /\ res = 0
  BY <1>0, <1>1 DEF CallArguments, ReadTypeOK, BytesCounted
<1>3. Simple' = Simple
  BY <1>1, StillSimple
<1>4. CASE items < nmemb
  <2>1. /\ offset' = pos + (items * size) /\ total' = size /\ cluster' = FirstCluster
        /\ ahead' = offset' \div ClusterBytes /\ stage' = "walk" /\ res' = res
    BY <1>2, <1>4 DEF fat16_read, StartWalk
  <2>2. items * size \in Nat
    BY <1>2
  <2>3. offset' \in Nat /\ ahead' \in Nat /\ cluster' \in Nat /\ total' \in 0 .. size
    <3>1. offset' \in Nat
      BY <1>2, <2>1, <2>2
    <3>2. ahead' \in Nat
      BY <2>1, <3>1, Sizes, DivMod
    <3> QED BY <1>2, <2>1, <3>1, <3>2, Sizes
  <2>4. ReadTypeOK'
    BY <1>0, <1>1, <2>1, <2>3 DEF ReadTypeOK
  <2>5. CallArguments'
    BY <1>0, <1>1, <2>1, <2>3 DEF CallArguments
  <2>6. BytesCounted'
    BY <1>1, <1>2, <1>4, <2>1, <2>2 DEF BytesCounted
  <2>7. ASSUME Simple PROVE ahead' = 0
    <3>1. pos + (items * size) + size <= ClusterBytes
      BY <1>4, <2>7, SimpleItems
    <3> DEFINE o == pos + (items * size)
    <3>2. o \in Nat /\ o + size <= ClusterBytes /\ ahead' = o \div ClusterBytes
      BY <1>2, <2>1, <2>2, <3>1
    <3> HIDE DEF o
    <3>3. o < ClusterBytes
      BY <1>2, <3>2, Sizes
    <3>4. \A x \in Nat, m \in Nat \ {0} : x < m => x \div m = 0
      OBVIOUS
    <3> QED BY <3>2, <3>3, <3>4, Sizes
  <2>8. BytesExact'
    BY <1>0, <1>1, <1>3, <2>1, <2>7 DEF BytesExact, FilePosition
  <2> QED BY <2>4, <2>5, <2>6, <2>8 DEF ReadInv
<1>5. CASE items = nmemb
  <2>1. /\ res' = nmemb /\ stage' = "done" /\ UNCHANGED <<offset, total, cluster, ahead>>
    BY <1>2, <1>5 DEF fat16_read
  <2>2. Len(out) = size * nmemb
    BY <1>2, <1>5
  <2>3. ReadTypeOK'
    BY <1>0, <1>1, <2>1 DEF ReadTypeOK
  <2>4. CallArguments' /\ BytesCounted'
    BY <1>0, <1>1, <2>1, <2>2 DEF CallArguments, BytesCounted
  <2>5. BytesExact'
    BY <1>0, <1>1, <1>3, <2>1 DEF BytesExact, FilePosition
  <2> QED BY <2>3, <2>4, <2>5 DEF ReadInv
<1> QED BY <1>2, <1>4, <1>5

(* What the walk finds is a number, whatever is on the disk. *)
LEMMA FatValuesNat ==
  ASSUME NEW p, NEW entry \in FatValues(p)
  PROVE  entry \in Nat
<1>1. /\ StopValues \subseteq Nat /\ OtherValues \subseteq Nat /\ EndMark \in Nat
      /\ Chain \in Seq(Nat \ {0, 1})
  BY FileReadAssumption
<1>2. \A k \in 1 .. Len(Chain) : k < Len(Chain) => Chain[k + 1] \in Nat
  BY <1>1
<1> QED BY <1>1, <1>2 DEF FatValues

(* fat16_get_cluster_for_offset goes to the next cluster or gives up; a    *)
(* simple read never gets here.                                            *)
LEMMA WalkStep ==
  ASSUME ReadInv, fat16_get_cluster_for_offset
  PROVE  ReadInv'
<1>0. ReadTypeOK /\ CallArguments /\ BytesCounted /\ BytesExact
  BY DEF ReadInv
<1>1. /\ stage = "walk" /\ ahead > 0 /\ fat_pos' = SoughtPosition(cluster)
      /\ UNCHANGED <<pos, size, nmemb, items, offset, total, stream_pos, left, out, drive>>
  BY DEF fat16_get_cluster_for_offset
<1>2. ~Simple /\ ~Simple'
  BY <1>0, <1>1, StillSimple DEF BytesExact
<1>3. BytesExact'
  BY <1>2 DEF BytesExact
<1>4. /\ size \in Nat \ {0} /\ nmemb \in Nat \ {0} /\ items \in Nat /\ items < nmemb /\ total \in 1 .. size
      /\ Len(out) = (items * size) + (size - total) /\ res = 0
  BY <1>0, <1>1 DEF CallArguments, ReadTypeOK, BytesCounted
<1>5. fat_pos' \in Int
  <2>1. FatSector \in Nat /\ SectorSize \in Nat /\ cluster \in Nat
    BY <1>0, FileReadAssumption DEF ReadTypeOK
  <2>2. \A x, y \in Nat : x * y \in Nat
    OBVIOUS
  <2> QED BY <1>1, <2>1, <2>2 DEF SoughtPosition, ENTRY_SIZE
<1>6. PICK entry \in FatValues(fat_pos') :
       \/ /\ res' = -EIO /\ stage' = "done" /\ UNCHANGED <<cluster, ahead>>
       \/ /\ cluster' = entry /\ ahead' = ahead - 1 /\ UNCHANGED <<stage, res>>
  BY DEF fat16_get_cluster_for_offset
<1>7. CASE /\ res' = -EIO /\ stage' = "done" /\ UNCHANGED <<cluster, ahead>>
  <2>1. Len(out) <= size * nmemb
    <3> DEFINE before == items * size
               all    == size * nmemb
    <3>1. before \in Nat /\ all \in Nat /\ before + size <= all /\ Len(out) = before + (size - total)
      BY <1>4, ItemsFit
    <3> HIDE DEF before, all
    <3>2. Len(out) <= all
      BY <1>4, <3>1
    <3> QED BY <3>2 DEF all
  <2>2. ReadTypeOK'
    BY <1>0, <1>1, <1>5, <1>7 DEF ReadTypeOK
  <2>3. CallArguments' /\ BytesCounted'
    BY <1>0, <1>1, <1>7, <2>1 DEF CallArguments, BytesCounted
  <2> QED BY <1>3, <2>2, <2>3 DEF ReadInv
<1>8. CASE /\ cluster' = entry /\ ahead' = ahead - 1 /\ UNCHANGED <<stage, res>>
  <2>1. cluster' \in Nat /\ ahead' \in Nat
    BY <1>0, <1>1, <1>6, <1>8, FatValuesNat DEF ReadTypeOK
  <2>2. ReadTypeOK'
    BY <1>0, <1>1, <1>5, <1>8, <2>1 DEF ReadTypeOK
  <2>3. CallArguments' /\ BytesCounted'
    BY <1>0, <1>1, <1>8 DEF CallArguments, BytesCounted
  <2> QED BY <1>3, <2>2, <2>3 DEF ReadInv
<1> QED BY <1>6, <1>7, <1>8

(* diskstreamer_seek: the stream is put at the item's first byte. *)
LEMMA StreamSeekStep ==
  ASSUME ReadInv, diskstreamer_seek
  PROVE  ReadInv'
<1>0. ReadTypeOK /\ CallArguments /\ BytesCounted /\ BytesExact
  BY DEF ReadInv
<1>1. /\ stage = "walk" /\ ahead = 0 /\ stage' = "stream" /\ left' = Min({total, ClusterBytes})
      /\ stream_pos' = (fat16_cluster_to_sector(cluster) * SectorSize) + (offset % ClusterBytes)
      /\ UNCHANGED <<pos, size, nmemb, items, offset, total, cluster, ahead, fat_pos, out, res, drive>>
  BY DEF diskstreamer_seek
<1>2. /\ size \in Nat \ {0} /\ nmemb \in Nat \ {0} /\ items \in Nat /\ items < nmemb
      /\ total \in Nat /\ total > 0 /\ total <= size /\ pos \in Nat /\ offset \in Nat /\ cluster \in Nat
      /\ Len(out) = (items * size) + (size - total) /\ res = 0
  BY <1>0, <1>1 DEF CallArguments, ReadTypeOK, BytesCounted
<1>3. left' = IF total <= ClusterBytes THEN total ELSE ClusterBytes
  BY <1>1, <1>2, MinOfTwo, Sizes
<1>4. left' \in 0 .. ClusterBytes /\ left' > 0 /\ left' <= total /\ left' \in Nat
  BY <1>2, <1>3, Sizes
<1>5. stream_pos' \in Int
  <2>1. \A x, y \in Int : x * y \in Int
    OBVIOUS
  <2>2. offset % ClusterBytes \in Int
    BY <1>2, Sizes, DivMod
  <2>3. (cluster - 2) * SectorsPerCluster \in Int
    BY <1>2, <2>1, Sizes
  <2>4. fat16_cluster_to_sector(cluster) \in Int
    BY <2>3, Sizes DEF fat16_cluster_to_sector
  <2>5. fat16_cluster_to_sector(cluster) * SectorSize \in Int
    BY <2>1, <2>4, Sizes
  <2> QED BY <1>1, <2>2, <2>5
<1>6. ReadTypeOK'
  BY <1>0, <1>1, <1>4, <1>5 DEF ReadTypeOK
<1>7. CallArguments'
  BY <1>0, <1>1 DEF CallArguments
<1>8. BytesCounted'
  <2> DEFINE before == items * size
  <2>1. before \in Nat /\ Len(out) = before + (size - total)
    BY <1>2
  <2> HIDE DEF before
  <2>2. Min({total, ClusterBytes}) - left' = 0 /\ out' = out /\ size - total \in Int
    BY <1>1, <1>2, <1>4
  <2>3. Len(out') = before + (size - total) + (Min({total, ClusterBytes}) - left')
    BY <2>1, <2>2
  <2> QED BY <1>1, <1>2, <1>4, <2>3 DEF BytesCounted, before
<1>9. BytesExact'
  <2> SUFFICES ASSUME Simple PROVE BytesExact'
    BY <1>1, StillSimple DEF BytesExact
  <2>1. /\ \A j \in 1 .. Len(out) : out[j] = FilePosition(pos + j - 1)
        /\ offset = pos + (items * size) /\ total = size /\ cluster = FirstCluster
    BY <1>0, <1>1 DEF BytesExact
  <2>2. /\ pos + (items * size) + size <= ClusterBytes
        /\ \/ (pos + (items * size)) % SectorSize = 0
           \/ ((pos + (items * size)) % SectorSize) + size <= SectorSize
    BY <1>2, SimpleItems
  <2>3. Len(out) = items * size /\ pos + Len(out) = offset
    <3>1. items * size \in Nat
      BY <1>2
    <3> QED BY <1>2, <2>1, <3>1
  <2>4. offset < ClusterBytes /\ size <= ClusterBytes
    BY <1>2, <2>1, <2>2, Sizes
  <2>5. offset % ClusterBytes = offset
    <3>1. \A x \in Nat, m \in Nat \ {0} : x < m => x % m = x
      OBVIOUS
    <3> QED BY <1>2, <2>4, <3>1, Sizes
  <2>6. /\ FilePosition(offset) % SectorSize = offset % SectorSize
        /\ FilePosition(offset) = (fat16_cluster_to_sector(FirstCluster) * SectorSize) + offset
    BY <1>2, <2>4, FirstClusterBytes
  <2>7. stream_pos' = FilePosition(offset) /\ left' = size
    BY <1>1, <1>3, <2>1, <2>4, <2>5, <2>6
  <2>8. stream_pos' % SectorSize = 0 \/ (stream_pos' % SectorSize) + left' <= SectorSize
    BY <2>1, <2>2, <2>6, <2>7
  <2>9. stream_pos' = FilePosition(pos' + Len(out'))
    BY <1>1, <2>3, <2>7
  <2> QED BY <1>1, <2>1, <2>8, <2>9 DEF BytesExact, FilePosition
<1> QED BY <1>6, <1>7, <1>8, <1>9 DEF ReadInv

(* Digits are integers, of negative numbers too. *)
LEMMA AddressInt ==
  ASSUME NEW lba \in Int
  PROVE  Addressed(CommandRegisters(lba)) \in Int
<1>1. \A n \in Int, w \in Nat \ {0}, k \in Nat \ {0} : (n \div w) % k \in Int
  OBVIOUS
<1> DEFINE a == Digit(lba, 1, Byte)
           b == Digit(lba, Byte, Byte)
           c == Digit(lba, Half, Byte)
           d == Digit(lba, Byte * Half, Nibble)
<1>2. a \in Int /\ b \in Int /\ c \in Int /\ d \in Int
  BY <1>1, Widths DEF Digit
<1>3. CommandRegisters(lba) = <<a, b, c, d>>
  BY DEF CommandRegisters
<1> HIDE DEF a, b, c, d
<1>4. \A x, y \in Int : x * y \in Int
  OBVIOUS
<1>5. b * Byte \in Int /\ c * Half \in Int /\ d * Byte * Half \in Int
  BY <1>2, <1>4, Widths
<1> QED BY <1>2, <1>3, <1>5 DEF Addressed

(* The drive is asked for a sector, answers or fails. *)
LEMMA CommandStep ==
  ASSUME ReadInv, disk_read_sector \/ DriveStep
  PROVE  ReadInv'
<1>0. ReadTypeOK /\ CallArguments /\ BytesCounted /\ BytesExact
  BY DEF ReadInv
<1>1. CASE disk_read_sector
  <2>1. /\ stage = "stream" /\ stage' = "sector"
        /\ drive' = [lba |-> Addressed(CommandRegisters(stream_pos \div SectorSize)),
                     sectors |-> 1, status |-> "busy"]
        /\ UNCHANGED <<pos, size, nmemb, items, offset, total, cluster, ahead, fat_pos, stream_pos, left, out, res>>
    BY <1>1 DEF disk_read_sector, read_command
  <2>2. stream_pos \div SectorSize \in Int
    BY <1>0, Sizes DEF ReadTypeOK
  <2>3. /\ drive'.lba = Addressed(CommandRegisters(stream_pos \div SectorSize)) /\ drive'.sectors = 1
        /\ drive' \in [lba : Int, sectors : {0, 1}, status : {"idle", "busy", "ready", "error"}]
    BY <2>1, <2>2, AddressInt
  <2>4. ReadTypeOK' /\ CallArguments'
    BY <1>0, <2>1, <2>3 DEF ReadTypeOK, CallArguments
  <2>5. BytesCounted'
    BY <1>0, <2>1 DEF BytesCounted
  <2>6. BytesExact'
    BY <1>0, <2>1, StillSimple DEF BytesExact, FilePosition
  <2> QED BY <2>4, <2>5, <2>6 DEF ReadInv
<1>2. CASE DriveStep
  <2>1. /\ drive'.lba = drive.lba /\ drive'.sectors = drive.sectors
        /\ drive' \in [lba : Int, sectors : {0, 1}, status : {"idle", "busy", "ready", "error"}]
        /\ UNCHANGED <<stage, pos, size, nmemb, items, offset, total, cluster, ahead, fat_pos,
                       stream_pos, left, out, res>>
    BY <1>0, <1>2 DEF DriveStep, DriveAnswers, DriveFails, CallArguments
  <2>2. ReadTypeOK' /\ CallArguments'
    BY <1>0, <2>1 DEF ReadTypeOK, CallArguments
  <2>3. BytesCounted'
    BY <1>0, <2>1 DEF BytesCounted
  <2>4. BytesExact'
    BY <1>0, <2>1, StillSimple DEF BytesExact, FilePosition
  <2> QED BY <2>2, <2>3, <2>4 DEF ReadInv
<1> QED BY <1>1, <1>2

(* What is copied out of the sector buffer. *)
LEMMA CopiedBytes ==
  ASSUME ReadInv, stage = "sector", NEW n \in Nat
  PROVE  LET new == [j \in 1 .. n |-> BufferByte(stream_pos, j - 1)]
         IN  new \in Seq(Int) /\ Len(new) = n
<1> DEFINE new == [j \in 1 .. n |-> BufferByte(stream_pos, j - 1)]
<1>1. drive.lba \in Int /\ stream_pos \in Int
  BY DEF ReadInv, CallArguments, ReadTypeOK
<1>2. stream_pos % SectorSize \in Int /\ drive.lba * SectorSize \in Int
  BY <1>1, Sizes
<1>3. \A j \in 1 .. n : BufferByte(stream_pos, j - 1) \in Int
  BY <1>2 DEF BufferByte, JUNK
<1>4. new \in [1 .. n -> Int]
  BY <1>3
<1> HIDE DEF new
<1>5. new \in Seq(Int)
  BY <1>4, SeqDef
<1>6. Len(new) \in Nat /\ DOMAIN new = 1 .. Len(new) /\ DOMAIN new = 1 .. n
  BY <1>4, <1>5
<1>7. \A a, b \in Nat : 1 .. a = 1 .. b => a = b
  <2> SUFFICES ASSUME NEW a \in Nat, NEW b \in Nat, 1 .. a = 1 .. b PROVE a = b
    OBVIOUS
  <2>1. a > 0 => a \in 1 .. b
    OBVIOUS
  <2>2. b > 0 => b \in 1 .. a
    OBVIOUS
  <2> QED BY <2>1, <2>2
<1> QED BY <1>5, <1>6, <1>7 DEF new

(* In a simple read they are the next bytes of the file. *)
LEMMA CopiedExactly ==
  ASSUME ReadInv, Simple, stage = "sector"
  PROVE  /\ total = size /\ Min({total, ClusterBytes}) = size
         /\ \A j \in 1 .. left : j <= SectorSize =>
              BufferByte(stream_pos, j - 1) = FilePosition(pos + Len(out) + j - 1)
         /\ stream_pos = FilePosition(pos + Len(out))
         /\ left > SectorSize => /\ stream_pos % SectorSize = 0
                                 /\ (stream_pos + SectorSize) % SectorSize = 0
<1>0. ReadTypeOK /\ CallArguments /\ BytesCounted /\ BytesExact
  BY DEF ReadInv
<1>1. /\ pos \in Nat /\ size \in Nat \ {0} /\ items \in Nat /\ items < nmemb /\ left \in Nat /\ left > 0
      /\ left <= total
  BY <1>0 DEF CallArguments, ReadTypeOK, BytesCounted
<1>2. /\ total = size /\ stream_pos = FilePosition(pos + Len(out))
      /\ stream_pos % SectorSize = 0 \/ (stream_pos % SectorSize) + left <= SectorSize
  BY <1>0 DEF BytesExact
<1> DEFINE before == items * size
           b == pos + Len(out)
<1>3. before \in Nat /\ pos + before + size <= ClusterBytes
  BY <1>1, SimpleItems
<1>4. Min({total, ClusterBytes}) = size
  BY <1>1, <1>2, <1>3, MinOfTwo, Sizes
<1>5. Len(out) = before + (size - total) + (Min({total, ClusterBytes}) - left)
  BY <1>0 DEF BytesCounted
<1> HIDE DEF before
<1>6. Len(out) = before + (size - left) /\ b \in Nat /\ b < ClusterBytes
  BY <1>1, <1>2, <1>3, <1>4, <1>5, Sizes
<1> HIDE DEF b
<1> DEFINE q == stream_pos \div SectorSize
           r == stream_pos % SectorSize
<1>7. /\ stream_pos \in Nat /\ q \in Nat /\ stream_pos = (SectorSize * q) + r
      /\ Addressed(CommandRegisters(q)) = q
  BY <1>2, <1>6, FirstClusterBytes DEF b
<1>8. r \in 0 .. (SectorSize - 1)
  BY <1>7, Sizes, DivMod
<1>9. drive.lba = q
  BY <1>0, <1>7 DEF CallArguments
<1>10. r = 0 \/ r + left <= SectorSize
  BY <1>2
<1>11. SectorSize * q \in Nat /\ SectorSize * q = q * SectorSize
  BY <1>7, Sizes
<1>12. ASSUME NEW j \in 1 .. left, j <= SectorSize
       PROVE  BufferByte(stream_pos, j - 1) = FilePosition(b + j - 1)
  <2>1. r + (j - 1) < SectorSize
    BY <1>1, <1>8, <1>10, <1>12, Sizes
  <2>2. BufferByte(stream_pos, j - 1) = (q * SectorSize) + (r + (j - 1))
    BY <1>9, <2>1 DEF BufferByte
  <2>3. BufferByte(stream_pos, j - 1) = stream_pos + (j - 1)
    BY <1>1, <1>7, <1>8, <1>11, <2>2, Sizes
  <2> DEFINE start == (DataSector * SectorSize) + ((FirstCluster - 2) * ClusterBytes)
  <2>4. start \in Int
    <3>1. \A x, y \in Int : x * y \in Int
      OBVIOUS
    <3> QED BY <3>1, Sizes
  <2>5. stream_pos = start + b /\ FilePosition(b + j - 1) = start + (b + j - 1)
    BY <1>2 DEF FilePosition, b
  <2> HIDE DEF start
  <2> QED BY <1>1, <1>6, <2>3, <2>4, <2>5
<1>13. left > SectorSize => r = 0 /\ (stream_pos + SectorSize) % SectorSize = 0
  <2> SUFFICES ASSUME left > SectorSize PROVE r = 0 /\ (stream_pos + SectorSize) % SectorSize = 0
    OBVIOUS
  <2>1. r = 0
    BY <1>1, <1>8, <1>10, Sizes
  <2>2. stream_pos + SectorSize = (SectorSize * (q + 1)) + 0
    <3>1. \A x, y \in Nat : x * (y + 1) = (x * y) + x
      OBVIOUS
    <3>2. SectorSize * (q + 1) = (SectorSize * q) + SectorSize
      BY <1>7, <3>1, Sizes
    <3> QED BY <1>7, <1>11, <2>1, <3>2, Sizes
  <2>3. q + 1 \in Nat /\ 0 \in 0 .. (SectorSize - 1)
    BY <1>7, Sizes
  <2>4. ((SectorSize * (q + 1)) + 0) % SectorSize = 0
    BY <2>3, Sizes, DivModUnique
  <2> QED BY <2>1, <2>2, <2>4
<1> QED BY <1>2, <1>4, <1>12, <1>13 DEF b

(* diskstreamer_read: the bytes of one sector arrive. *)
LEMMA SectorStep ==
  ASSUME ReadInv, diskstreamer_read
  PROVE  ReadInv'
<1>0. ReadTypeOK /\ CallArguments /\ BytesCounted /\ BytesExact
  BY DEF ReadInv
<1> DEFINE n == Min({left, SectorSize})
           m == Min({total, ClusterBytes})
           new == [j \in 1 .. n |-> BufferByte(stream_pos, j - 1)]
<1>1. /\ stage = "sector" /\ take_sector /\ out' = out \o new /\ stream_pos' = stream_pos + n
      /\ UNCHANGED <<pos, size, nmemb, fat_pos, res>>
      /\ IF left > SectorSize
         THEN /\ left' = left - SectorSize /\ stage' = "stream"
              /\ UNCHANGED <<items, offset, total, cluster, ahead>>
         ELSE /\ left' = 0
              /\ EndRead(m)
  BY DEF diskstreamer_read
<1>2. /\ pos \in Nat /\ size \in Nat \ {0} /\ nmemb \in Nat \ {0} /\ items \in Nat /\ items < nmemb
      /\ left \in Nat /\ left > 0 /\ left <= total /\ total \in Nat /\ total <= size /\ left <= ClusterBytes
      /\ offset \in Nat /\ stream_pos \in Int /\ cluster \in Nat /\ ahead \in Nat /\ res = 0 /\ out \in Seq(Int)
  BY <1>0, <1>1 DEF CallArguments, ReadTypeOK, BytesCounted
<1>3. n = IF left <= SectorSize THEN left ELSE SectorSize
  BY <1>2, MinOfTwo, Sizes
<1>4. m = IF total <= ClusterBytes THEN total ELSE ClusterBytes
  BY <1>2, MinOfTwo, Sizes
<1> HIDE DEF n, m
<1>5. n \in Nat /\ n > 0 /\ n <= left /\ n <= SectorSize /\ m \in Nat /\ m > 0 /\ m <= total /\ left <= m
  BY <1>2, <1>3, <1>4, Sizes
<1>6. new \in Seq(Int) /\ Len(new) = n /\ \A j \in 1 .. n : new[j] = BufferByte(stream_pos, j - 1)
  BY <1>1, <1>5, CopiedBytes
<1> HIDE DEF new
<1>7. /\ out' \in Seq(Int) /\ Len(out') = Len(out) + n /\ Len(out) \in Nat
      /\ \A j \in 1 .. Len(out) : out'[j] = out[j]
      /\ \A j \in 1 .. n : out'[Len(out) + j] = new[j]
  <2>1. Len(out) \in Nat /\ Len(new) = n
    BY <1>2, <1>6
  <2>2. out \o new \in Seq(Int) /\ Len(out \o new) = Len(out) + Len(new)
    BY <1>2, <1>6, ConcatProperties
  <2>3. \A j \in 1 .. (Len(out) + Len(new)) :
          (out \o new)[j] = IF j <= Len(out) THEN out[j] ELSE new[j - Len(out)]
    BY <1>2, <1>6, ConcatProperties
  <2>4. \A j \in 1 .. Len(out) : j \in 1 .. (Len(out) + n) /\ j <= Len(out)
    BY <1>5, <2>1
  <2>5. \A j \in 1 .. n : /\ Len(out) + j \in 1 .. (Len(out) + n) /\ ~(Len(out) + j <= Len(out))
                          /\ (Len(out) + j) - Len(out) = j
    BY <1>5, <2>1
  <2> QED BY <1>1, <2>1, <2>2, <2>3, <2>4, <2>5
<1> DEFINE before == items * size
<1>8. before \in Nat /\ Len(out) = before + (size - total) + (m - left)
  BY <1>0, <1>1, <1>2 DEF BytesCounted, m
<1> HIDE DEF before
<1>9. drive' \in [lba : Int, sectors : {0, 1}, status : {"idle", "busy", "ready", "error"}]
  BY <1>0, <1>1 DEF CallArguments, take_sector, DriveIdle
<1>10. stream_pos' \in Int
  BY <1>1, <1>2, <1>5
<1>11. ASSUME Simple
       PROVE  /\ \A j \in 1 .. Len(out') : out'[j] = FilePosition(pos + j - 1)
              /\ total = size /\ m = size
              /\ stream_pos' = FilePosition(pos + Len(out'))
              /\ left > SectorSize => stream_pos' % SectorSize = 0
  <2>1. /\ total = size /\ m = size /\ stream_pos = FilePosition(pos + Len(out))
        /\ \A j \in 1 .. left : j <= SectorSize =>
              BufferByte(stream_pos, j - 1) = FilePosition(pos + Len(out) + j - 1)
        /\ left > SectorSize => (stream_pos + SectorSize) % SectorSize = 0
    BY <1>1, <1>11, CopiedExactly DEF m
  <2>2. \A j \in 1 .. Len(out) : out[j] = FilePosition(pos + j - 1)
    BY <1>0, <1>11 DEF BytesExact
  <2>3. ASSUME NEW j \in 1 .. n PROVE out'[Len(out) + j] = FilePosition(pos + (Len(out) + j) - 1)
    <3>1. j \in 1 .. left /\ j <= SectorSize
      BY <1>2, <1>5, Sizes
    <3>2. out'[Len(out) + j] = FilePosition(pos + Len(out) + j - 1)
      BY <1>6, <1>7, <2>1, <3>1
    <3>3. pos + Len(out) + j - 1 = pos + (Len(out) + j) - 1
      BY <1>2, <1>7
    <3> QED BY <3>2, <3>3
  <2>4. ASSUME NEW j \in 1 .. Len(out') PROVE out'[j] = FilePosition(pos + j - 1)
    <3>1. CASE j <= Len(out)
      BY <1>7, <2>2, <3>1
    <3>2. CASE j > Len(out)
      <4>1. j - Len(out) \in 1 .. n /\ Len(out) + (j - Len(out)) = j
        BY <1>5, <1>7, <3>2
      <4>2. out'[Len(out) + (j - Len(out))] = FilePosition(pos + (Len(out) + (j - Len(out))) - 1)
        BY <2>3, <4>1
      <4> QED BY <4>1, <4>2
    <3> QED BY <1>7, <3>1, <3>2
  <2>5. stream_pos' = FilePosition(pos + Len(out'))
    <3> DEFINE start == (DataSector * SectorSize) + ((FirstCluster - 2) * ClusterBytes)
    <3>1. start \in Int
      <4>1. \A x, y \in Int : x * y \in Int
        OBVIOUS
      <4> QED BY <4>1, Sizes
    <3>2. stream_pos = start + (pos + Len(out)) /\ FilePosition(pos + Len(out')) = start + (pos + Len(out'))
      BY <2>1 DEF FilePosition
    <3> HIDE DEF start
    <3> QED BY <1>1, <1>2, <1>5, <1>7, <3>1, <3>2
  <2>6. left > SectorSize => n = SectorSize
    BY <1>2, <1>3, Sizes
  <2> QED BY <1>1, <2>1, <2>4, <2>5, <2>6
<1>12. Simple' = Simple
  BY <1>1, StillSimple
<1>13. CASE left > SectorSize
  <2>1. n = SectorSize /\ left' = left - SectorSize /\ stage' = "stream"
        /\ UNCHANGED <<items, offset, total, cluster, ahead>>
    BY <1>1, <1>2, <1>3, <1>13, Sizes
  <2>2. left' \in 0 .. ClusterBytes /\ left' > 0 /\ left' <= total /\ left' \in Nat
    BY <1>2, <1>13, <2>1, Sizes
  <2>3. ReadTypeOK'
    BY <1>0, <1>1, <1>7, <1>10, <2>1, <2>2 DEF ReadTypeOK
  <2>4. CallArguments'
    BY <1>1, <1>2, <1>9, <2>1 DEF CallArguments
  <2>5. Len(out') = before + (size - total) + (m - left')
    BY <1>2, <1>5, <1>7, <1>8, <2>1, <2>2, Sizes
  <2>6. BytesCounted'
    BY <1>1, <1>2, <2>1, <2>2, <2>5 DEF BytesCounted, before, m
  <2>7. BytesExact'
    <3> SUFFICES ASSUME Simple PROVE BytesExact'
      BY <1>12 DEF BytesExact
    <3>1. /\ \A j \in 1 .. Len(out') : out'[j] = FilePosition(pos + j - 1)
          /\ total = size /\ stream_pos' = FilePosition(pos + Len(out')) /\ stream_pos' % SectorSize = 0
      BY <1>11, <1>13
    <3>2. offset = pos + (items * size)
      BY <1>0, <1>1 DEF BytesExact
    <3> QED BY <1>1, <2>1, <3>1, <3>2 DEF BytesExact, FilePosition
  <2> QED BY <2>3, <2>4, <2>6, <2>7 DEF ReadInv
<1>14. CASE ~(left > SectorSize)
  <2>1. n = left /\ left' = 0 /\ total' = total - m /\ total' \in Nat
    BY <1>1, <1>2, <1>3, <1>5, <1>14, Sizes DEF EndRead
  <2>2. Len(out') = before + (size - total')
    BY <1>2, <1>5, <1>7, <1>8, <2>1
  <2>3. left' \in 0 .. ClusterBytes /\ total' \in 0 .. size
    BY <1>2, <1>5, <2>1, Sizes
  <2>4. CASE total' > 0
    <3>1. /\ offset' = offset + m /\ cluster' = FirstCluster /\ ahead' = offset' \div ClusterBytes
          /\ stage' = "walk" /\ items' = items
      BY <1>1, <1>14, <2>4 DEF EndRead, StartWalk
    <3>2. offset' \in Nat /\ ahead' \in Nat /\ cluster' \in Nat
      <4>1. offset' \in Nat
        BY <1>2, <1>5, <3>1
      <4>2. ahead' \in Nat
        BY <3>1, <4>1, Sizes, DivMod
      <4> QED BY <3>1, <4>1, <4>2, Sizes
    <3>3. ReadTypeOK'
      BY <1>0, <1>1, <1>7, <1>10, <2>3, <3>1, <3>2 DEF ReadTypeOK
    <3>4. CallArguments'
      BY <1>1, <1>2, <1>9, <3>1, <3>2 DEF CallArguments
    <3>5. BytesCounted'
      BY <1>1, <1>2, <2>2, <2>4, <3>1 DEF BytesCounted, before
    <3>6. ~Simple
      BY <1>2, <1>11, <2>1, <2>4
    <3> QED BY <1>12, <3>3, <3>4, <3>5, <3>6 DEF ReadInv, BytesExact
  <2>5. CASE ~(total' > 0)
    <3>1. items' = items + 1 /\ stage' = "item" /\ UNCHANGED <<offset, cluster, ahead>> /\ total' = 0
      BY <1>1, <1>14, <2>1, <2>5 DEF EndRead
    <3>2. items' \in 0 .. nmemb
      BY <1>2, <3>1
    <3>3. ReadTypeOK'
      BY <1>0, <1>1, <1>7, <1>10, <2>3, <3>1, <3>2 DEF ReadTypeOK
    <3>4. CallArguments'
      BY <1>1, <1>2, <1>9, <3>1 DEF CallArguments
    <3>5. Len(out') = items' * size'
      <4>1. (items + 1) * size = before + size
        BY <1>2, ItemsFit DEF before
      <4> QED BY <1>1, <1>2, <1>8, <2>2, <3>1, <4>1
    <3>6. BytesCounted'
      BY <1>1, <1>2, <3>1, <3>5 DEF BytesCounted
    <3>7. BytesExact'
      BY <1>1, <1>11, <1>12, <3>1 DEF BytesExact, FilePosition
    <3> QED BY <3>3, <3>4, <3>6, <3>7 DEF ReadInv
  <2> QED BY <2>4, <2>5
<1> QED BY <1>13, <1>14

(* Every step of a read keeps the invariant. *)
LEMMA ReadContinues == ReadInv /\ [ReadNext]_read_vars => ReadInv'
<1> SUFFICES ASSUME ReadInv, [ReadNext]_read_vars PROVE ReadInv'
  OBVIOUS
<1>1. CASE UNCHANGED read_vars
  <2>1. UNCHANGED <<stage, pos, size, nmemb, items, offset, total, cluster, ahead, fat_pos,
                    stream_pos, left, out, res, drive>>
    BY <1>1 DEF read_vars
  <2> QED BY <2>1, StillSimple DEF ReadInv, ReadTypeOK, CallArguments, BytesCounted, BytesExact, FilePosition
<1> QED BY <1>1, ItemStep, WalkStep, StreamSeekStep, CommandStep, SectorStep DEF ReadNext, ReadStep

(* How many bytes have arrived, and in a simple read which, at every step  *)
(* of fat16_read, fat16_read_internal_from_stream and diskstreamer_read.   *)
THEOREM ReadInvariant == ReadSpec => []ReadInv
BY ReadBegins, ReadContinues, PTL DEF ReadSpec

(* fat16_read never writes more to the caller's buffer than was asked for, *)
(* and no less if it succeeds, whatever the allocation table says.         *)
THEOREM ReadFitsBuffer == ReadSpec => []BufferRespected
<1>1. ReadInv => BufferRespected
  <2> SUFFICES ASSUME ReadInv PROVE BufferRespected
    OBVIOUS
  <2>0. ReadTypeOK /\ CallArguments /\ BytesCounted
    BY DEF ReadInv
  <2>1. /\ size \in Nat \ {0} /\ nmemb \in Nat \ {0} /\ items \in Nat /\ items <= nmemb
        /\ total \in Nat /\ total <= size /\ left \in Nat /\ Len(out) \in Nat
        /\ stage \in {"item", "walk", "stream", "sector", "done"}
    BY <2>0 DEF ReadTypeOK, CallArguments
  <2> DEFINE before == items * size
             all    == size * nmemb
             m      == Min({total, ClusterBytes})
  <2>2. before \in Nat /\ all \in Nat /\ (items < nmemb => before + size <= all)
    <3>1. \A x, y \in Nat : x * y \in Nat
      OBVIOUS
    <3> QED BY <2>1, <3>1, ItemsFit
  <2>3. items = nmemb => before = all
    BY <2>1
  <2>4. m \in Nat /\ m <= total
    BY <2>1, MinOfTwo, Sizes
  <2>5. /\ stage = "item" => Len(out) = before
        /\ stage \in {"walk", "stream", "sector"} => items < nmemb
        /\ stage = "walk" => Len(out) = before + (size - total)
        /\ stage \in {"stream", "sector"} => Len(out) = before + (size - total) + (m - left)
        /\ stage = "done" => \/ res = -EIO /\ Len(out) <= all
                             \/ res = nmemb /\ Len(out) = all
    BY <2>0 DEF BytesCounted
  <2> HIDE DEF before, all, m
  <2>6. Len(out) <= all
    BY <2>1, <2>2, <2>3, <2>4, <2>5
  <2>7. stage = "done" /\ res >= 0 => Len(out) = all
    BY <2>1, <2>5 DEF EIO
  <2> QED BY <2>0, <2>6, <2>7 DEF BufferRespected, all
<1> QED BY <1>1, ReadInvariant, PTL

(* A read that stays in the file's first cluster, and whose items start at *)
(* a sector or end in the one they start in, delivers exactly the bytes of *)
(* the file: this is how process_load_binary reads a program.              *)
THEOREM SimpleReadsAreExact == ReadSpec => []SimpleReadExact
<1>1. ReadInv => SimpleReadExact
  <2> SUFFICES ASSUME ReadInv, stage = "done", Simple
      PROVE  res = nmemb /\ out = [j \in 1 .. (size * nmemb) |-> FilePosition(pos + j - 1)]
    BY DEF SimpleReadExact
  <2>1. res = nmemb /\ \A j \in 1 .. Len(out) : out[j] = FilePosition(pos + j - 1)
    BY DEF ReadInv, BytesExact
  <2>2. nmemb \in Nat /\ out \in Seq(Int)
    BY DEF ReadInv, CallArguments, ReadTypeOK
  <2>3. Len(out) = size * nmemb
    BY <2>1, <2>2 DEF ReadInv, BytesCounted, EIO
  <2>4. out = [j \in 1 .. Len(out) |-> out[j]]
    BY <2>2
  <2> QED BY <2>1, <2>3, <2>4
<1> QED BY <1>1, ReadInvariant, PTL
=============================================================================
