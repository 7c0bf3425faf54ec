------------------------------- MODULE Files -------------------------------
(***************************************************************************)
(* Opening, positioning and closing files: the descriptor table of         *)
(* src/fs/file.c, the path parser of src/fs/pparser.c and the lookup and   *)
(* the descriptors of src/fs/fat/fat16.c, under any sequence of calls.     *)
(* fopen is followed step by step, through everything it allocates;        *)
(* nothing else runs meanwhile.  Callers use the descriptors that fopen    *)
(* gave them and that they have not closed; fclose (0), which the loader   *)
(* calls after a failed fopen, has no effect.  Module FileRead follows a   *)
(* read.                                                                   *)
(*                                                                         *)
(* An object on the heap is a kind, the number of the fopen that made it   *)
(* and the path part or directory entry it was made for.                   *)
(***************************************************************************)
EXTENDS FatDirectory

CONSTANTS
  MaxDescriptors,  \* LAMEOS_MAX_FILE_DESCRIPTORS
  MaxPath,         \* LAMEOS_MAX_PATH
  Paths,           \* the paths that callers open, as sequences of characters
  Disks,           \* what may lie on the disk from the root directory on
  RootEntries,     \* root_dir_entries
  MaxOpens,        \* how often fopen is called, a bound of the model
  MaxPos           \* positions are followed up to here, a bound of the model

Fds    == 1 .. MaxDescriptors
Opens  == 1 .. MaxOpens
NONE   == 0

ASSUME FilesAssumption ==
  /\ MaxDescriptors \in Nat \ {0} /\ MaxPath \in Nat /\ RootEntries \in Nat
  /\ MaxOpens \in Nat /\ MaxPos \in Nat
  /\ {ZERO, "."} \subseteq Chars /\ Paths \subseteq Seq(Chars) /\ Disks \subseteq Seq(fat_directory_item)
  \* An entry that begins with zero ends the root directory, or follows it.
  /\ \A area \in Disks :
       /\ Len(area) >= RootEntries
       /\ \E k \in DOMAIN area : k <= RootEntries + 1 /\ area[k].filename[1] = ZERO

VARIABLES
  root,              \* the root directory that fat16_resolve read
  filesystem,        \* whether the disk has a file system
  file_descriptors,  \* the table: the fopen whose descriptor is in each place
  private,           \* the FAT descriptors: the entry opened and the position
  heap,              \* the objects allocated
  opens,             \* the calls of fopen so far
  held,              \* the descriptors callers hold
  ok,                \* FALSE once a null pointer has been used
  pc,                \* where the running fopen is, or "idle"
  path, tmp_path,    \* its path, and what the parser has not read yet
  parts,             \* the parts of the path
  i, f_item          \* fat16_find_item_in_directory: the entry looked at, the last match

table == <<file_descriptors, private, held>>
call  == <<path, tmp_path, parts, i, f_item>>
vars  == <<root, filesystem, table, heap, opens, ok, pc, call>>

Init ==
  /\ \E area \in Disks : root = fat16_get_root_directory(area, RootEntries)
  /\ filesystem \in BOOLEAN
  /\ file_descriptors = [fd \in Fds |-> NONE]
  /\ private = [o \in {} |-> NONE]
  /\ heap = {} /\ opens = 0 /\ held = {} /\ ok = TRUE
  /\ pc = "idle" /\ path = <<>> /\ tmp_path = <<>> /\ parts = <<>>
  /\ i = 0 /\ f_item = NONE

-----------------------------------------------------------------------------
(* fopen.  A call that ends forgets its local variables. *)

Return == pc' = "idle" /\ path' = <<>> /\ tmp_path' = <<>> /\ parts' = <<>> /\ i' = 0 /\ f_item' = NONE

(* fopen returns 0.  Nothing that was allocated is freed. *)
Fail == Return /\ UNCHANGED <<root, filesystem, table, heap, opens, ok>>

Object(kind, k) == <<kind, opens, k>>

kzalloc(objects) == heap' = heap \cup objects

(* The path is not too long and begins with a drive. *)
pathparser_path_valid_format(p) ==
  Len(p) <= MaxPath /\ Len(p) >= 3 /\ isdigit(p[1]) /\ SubSeq(p, 2, 3) = <<":", "/">>

(* pathparser_parse of a path: 0, or a root is made. *)
fopen(p) ==
  /\ pc = "idle" /\ ok /\ opens < MaxOpens
  /\ opens' = opens + 1
  /\ IF pathparser_path_valid_format(p)
     THEN /\ pc' = "part" /\ path' = p /\ tmp_path' = SubSeq(p, 4, Len(p))
          /\ heap' = heap \cup {<<"root", opens + 1, 0>>}
          /\ UNCHANGED <<parts, i, f_item>>
     ELSE Return /\ UNCHANGED heap
  /\ UNCHANGED <<root, filesystem, table, ok>>

(* Mutant of pathparser_get_path_part: the slash is not skipped. *)
PartAndSlash(text) ==
  LET part == Until(text, {"/"})
  IN  <<part, SubSeq(text, Len(part) + 1, Len(text))>>

(* The part up to the next slash, and what is behind the slash, if there   *)
(* is one.                                                                 *)
pathparser_get_path_part(text) ==
  LET part == Until(text, {"/"})
  IN  <<part, IF part = text THEN <<>> ELSE SubSeq(text, Len(part) + 2, Len(text))>>

(* One more part of the path; an empty one is freed and ends the path. *)
pathparser_parse_path_part ==
  /\ pc = "part"
  /\ LET next == pathparser_get_path_part(tmp_path)
     IN  /\ tmp_path' = next[2]
         /\ IF next[1] = <<>>
            THEN pc' = "disk" /\ UNCHANGED <<parts, heap>>
            ELSE /\ parts' = Append(parts, next[1])
                 /\ kzalloc({Object("string", Len(parts')), Object("part", Len(parts'))})
                 /\ UNCHANGED pc
  /\ UNCHANGED <<root, filesystem, table, opens, ok, path, i, f_item>>

(* disk_get: there is one disk. *)
disk_get(drive_no) == drive_no = 0

(* The mode, by the first letter. *)
file_mode_get_by_string(letter) ==
  CASE letter = "r" -> "READ" [] letter = "w" -> "WRITE" [] letter = "a" -> "APPEND"
    [] OTHER -> "INVALID"

(* What fopen tests before it calls the file system: a path with a part,   *)
(* the disk, its file system and the mode.                                 *)
PassesTests(letter) ==
  /\ parts # <<>> /\ disk_get(tonumericdigit(path[1])) /\ filesystem
  /\ file_mode_get_by_string(letter) # "INVALID"

(* fat16_open up to its descriptor. *)
fat16_open(letter) ==
  /\ pc = "disk" /\ PassesTests(letter) /\ file_mode_get_by_string(letter) = "READ"
  /\ pc' = "find" /\ i' = 1
  /\ kzalloc({Object("private", 0)})
  /\ UNCHANGED <<root, filesystem, table, opens, ok, path, tmp_path, parts, f_item>>

(* One of the tests fails, or the mode is not for reading, or there is no  *)
(* memory for the descriptor.                                              *)
fat16_open_fails == pc = "disk" /\ Fail

(* A directory is loaded, unless that fails and it is freed. *)
fat16_load_fat_directory(k) == {{}, {Object("directory", k), Object("items", k)}}

(* The heap objects of a new fat_item: the item and the copy of the entry. *)
(* The pointer to a directory that was loaded is overwritten by the        *)
(* copy's, and the item's type by FAT_ITEM_TYPE_FILE.  An attribute is     *)
(* SUBDIR when bit 0x10 is set in it.                                      *)
fat16_new_fat_item_for_directory_item(k) ==
  LET item == {Object("item", k), Object("clone", k)}
  IN  IF root.item[k].attribute = SUBDIR
      THEN {item \cup directory : directory \in fat16_load_fat_directory(k)}
      ELSE {item}

(* istrncmp with the first part of the path. *)
Matches(k) == SameIgnoringCase(fat16_get_full_relative_filename(root.item[k]), Head(parts))

(* Mutant of fat16_find_item_in_directory: the search stops at the first   *)
(* match.                                                                  *)
FindFirst ==
  /\ pc = "find" /\ i <= root.total
  /\ i' = IF Matches(i) THEN root.total + 1 ELSE i + 1
  /\ IF Matches(i)
     THEN /\ f_item' = i
          /\ \E new \in fat16_new_fat_item_for_directory_item(i) : kzalloc(new)
     ELSE UNCHANGED <<heap, f_item>>
  /\ UNCHANGED <<root, filesystem, table, opens, ok, pc, path, tmp_path, parts>>

(* One entry: the item of an earlier match is forgotten, not freed.  When  *)
(* there is no memory for the item, that match counts for none.            *)
fat16_find_item_in_directory ==
  /\ pc = "find" /\ i <= root.total
  /\ i' = i + 1
  /\ IF Matches(i)
     THEN \/ /\ f_item' = i
             /\ \E new \in fat16_new_fat_item_for_directory_item(i) : kzalloc(new)
          \/ f_item' = NONE /\ UNCHANGED heap
     ELSE UNCHANGED <<heap, f_item>>
  /\ UNCHANGED <<root, filesystem, table, opens, ok, pc, path, tmp_path, parts>>

(* The search found an entry and it is the path's only part.  (With        *)
(* another part the item, never of type FAT_ITEM_TYPE_DIRECTORY, is        *)
(* dropped; the rest of the loop is not reached.)                          *)
fat16_get_directory_entry ==
  /\ pc = "find" /\ i > root.total /\ f_item # NONE /\ Len(parts) = 1
  /\ pc' = "desc"
  /\ UNCHANGED <<root, filesystem, table, heap, opens, ok, call>>

(* Mutant of fat16_get_directory_entry_fails: next_part does not move on. *)
NextPartStays ==
  /\ pc = "find" /\ i > root.total /\ f_item = NONE
  /\ Fail

(* fat16_open returns an error; its descriptor is not freed. *)
fat16_get_directory_entry_fails ==
  /\ pc = "find" /\ i > root.total /\ (f_item = NONE \/ Len(parts) > 1)
  /\ Fail

FreeFds == {fd \in Fds : file_descriptors[fd] = NONE}

(* Mutant of FirstFree: the search runs backwards. *)
LastFree == CHOOSE fd \in FreeFds : \A other \in FreeFds : fd >= other

FirstFree == CHOOSE fd \in FreeFds : \A other \in FreeFds : fd <= other

(* The descriptor goes to the first free place of the table; fopen returns *)
(* the number of the place, from 1 on.                                     *)
file_new_descriptor ==
  /\ pc = "desc" /\ FreeFds # {}
  /\ file_descriptors' = [file_descriptors EXCEPT ![FirstFree] = opens]
  /\ private' = [o \in DOMAIN private \cup {opens} |->
                   IF o = opens THEN [item |-> f_item, pos |-> 0] ELSE private[o]]
  /\ held' = held \cup {FirstFree}
  /\ kzalloc({Object("desc", 0)})
  /\ Return
  /\ UNCHANGED <<root, filesystem, opens, ok>>

(* The table is full. *)
file_new_descriptor_fails == pc = "desc" /\ FreeFds = {} /\ Fail

(* A kzalloc fails whose result is not checked, of the root, of a part, of *)
(* the copy of an entry or of the descriptor: a null pointer is used, now  *)
(* or at the first use of the file.  Nothing is claimed about what follows.*)
kzalloc_fails ==
  /\ \/ pc = "part" \/ pc = "desc"
     \/ pc = "find" /\ i <= root.total /\ Matches(i)
  /\ ok' = FALSE
  /\ Return
  /\ UNCHANGED <<root, filesystem, table, heap, opens>>

-----------------------------------------------------------------------------
(* Calls on a descriptor. *)

(* Mutant of file_get_descriptor: the index is not shifted. *)
DescriptorAtNumber(fd) ==
  IF fd <= 0 \/ fd >= MaxDescriptors THEN NONE ELSE file_descriptors[fd + 1]

(* The last descriptor is refused. *)
file_get_descriptor(fd) ==
  IF fd <= 0 \/ fd >= MaxDescriptors THEN NONE ELSE file_descriptors[fd]

(* fseek: SEEK_CUR moves the position, SEEK_SET and SEEK_END do not; an    *)
(* offset that is not in the file is refused, whatever the position.       *)
fseek(fd, offset) ==
  LET o == file_get_descriptor(fd)
  IN  /\ pc = "idle" /\ ok /\ o # NONE
      /\ offset < root.item[private[o].item].size
      /\ private[o].pos + offset <= MaxPos
      /\ private' = [private EXCEPT ![o].pos = @ + offset]
      /\ UNCHANGED <<root, filesystem, file_descriptors, held, heap, opens, ok, pc, call>>

(* Mutant of fat16_close: the item and the copy of the entry stay. *)
CloseKeepsItem(o) == heap' = heap \ {<<"private", o, 0>>, <<"desc", o, 0>>}

(* An item has always the type of a file: the copy goes with it. *)
fat16_fat_item_free(o, k) == {<<"item", o, k>>, <<"clone", o, k>>}

(* fat16_close and the kfree of file_free_descriptor: what fopen o made    *)
(* for its file is freed, the path is not.                                 *)
fat16_close(o) ==
  heap' = heap \ ({<<"private", o, 0>>, <<"desc", o, 0>>} \cup fat16_fat_item_free(o, private[o].item))

(* fclose: fat16_close, then file_free_descriptor. *)
fclose(fd) ==
  LET o == file_get_descriptor(fd)
  IN  /\ pc = "idle" /\ ok /\ o # NONE
      /\ fat16_close(o)
      /\ private' = [p \in DOMAIN private \ {o} |-> private[p]]
      /\ file_descriptors' = [file_descriptors EXCEPT ![fd] = NONE]
      /\ held' = held \ {fd}
      /\ UNCHANGED <<root, filesystem, opens, ok, pc, call>>

(* fclose of a descriptor that file_get_descriptor does not find: only the *)
(* number is tested, and the null descriptor is used.                      *)
fclose_null(fd) ==
  /\ pc = "idle" /\ ok /\ file_get_descriptor(fd) = NONE
  /\ ok' = FALSE
  /\ UNCHANGED <<root, filesystem, table, heap, opens, pc, call>>

Step ==
  \/ pathparser_parse_path_part
  \/ \E letter \in {"r", "w", "a", "x"} : fat16_open(letter)
  \/ fat16_open_fails
  \/ fat16_find_item_in_directory
  \/ fat16_get_directory_entry \/ fat16_get_directory_entry_fails
  \/ file_new_descriptor \/ file_new_descriptor_fails
  \/ kzalloc_fails

Next ==
  \/ \E p \in Paths : fopen(p)
  \/ Step
  \/ \E fd \in held : \/ \E offset \in 1 .. MaxPos : fseek(fd, offset)
                      \/ fclose(fd) \/ fclose_null(fd)

(* A call of fopen runs to its end. *)
Spec == Init /\ [][Next]_vars /\ WF_vars(Step)

-----------------------------------------------------------------------------
(* Properties *)

Kinds == {"root", "string", "part", "private", "item", "clone", "directory", "items", "desc"}

TypeOK ==
  /\ root.total \in 0 .. RootEntries /\ filesystem \in BOOLEAN
  /\ file_descriptors \in [Fds -> 0 .. MaxOpens]
  /\ DOMAIN private \subseteq Opens
  /\ \A o \in DOMAIN private : private[o] \in [item : 1 .. RootEntries, pos : 0 .. MaxPos]
  /\ heap \subseteq Kinds \X Opens \X Nat
  /\ opens \in 0 .. MaxOpens /\ held \subseteq Fds /\ ok \in BOOLEAN
  /\ pc \in {"idle", "part", "disk", "find", "desc"}
  /\ i \in 0 .. (RootEntries + 1) /\ f_item \in 0 .. RootEntries

(* Whatever was opened and closed before, and wherever an fopen failed, a  *)
(* descriptor that a caller holds is in the table, no other is, no two     *)
(* share a FAT descriptor, nothing they point to has been freed, and the   *)
(* number is found by every call, unless it is the table's last: only that *)
(* one makes fclose use a null descriptor.                                 *)
HeldDescriptorsValid ==
  /\ TypeOK
  /\ held = {fd \in Fds : file_descriptors[fd] # NONE}
  /\ \A fd \in held :
       LET o == file_descriptors[fd]
       IN  /\ o \in DOMAIN private
           /\ {<<"private", o, 0>>, <<"desc", o, 0>>, <<"item", o, private[o].item>>,
               <<"clone", o, private[o].item>>} \subseteq heap
           /\ \A other \in held \ {fd} : o # file_descriptors[other]
           /\ file_get_descriptor(fd) = IF fd < MaxDescriptors THEN o ELSE NONE

(* The code takes the entries k and m for the same name. *)
Alike(k, m) ==
  SameIgnoringCase(fat16_get_full_relative_filename(root.item[k]),
                   fat16_get_full_relative_filename(root.item[m]))

(* Closing a file frees all that opening it allocated but the parsed path, *)
(* if the file's name occurs once in the directory and is no directory's.  *)
ClosedReleased ==
  [][\A o \in DOMAIN private \ DOMAIN private' :
       \/ root.item[private[o].item].attribute = SUBDIR
       \/ \E k \in 1 .. root.total : k # private[o].item /\ Alike(k, private[o].item)
       \/ \A object \in heap' : object[2] = o => object[1] \in {"root", "string", "part"}]_vars

(* No part is empty or has a slash in it, and every part fits the buffer   *)
(* of LAMEOS_MAX_PATH bytes that it was copied to, with its terminating    *)
(* zero.                                                                   *)
PartsFit ==
  \A k \in DOMAIN parts :
    parts[k] # <<>> /\ "/" \notin ToSet(parts[k]) /\ Len(parts[k]) < MaxPath

(* The path behind its drive and the parts that were read of it: cut[k] is *)
(* the place of the slash behind part k, or of the path's end.             *)
CutInParts(text, cut) ==
  /\ cut[0] = 0
  /\ \A k \in DOMAIN parts :
       /\ parts[k] = SubSeq(text, cut[k - 1] + 1, cut[k] - 1)
       /\ cut[k] = Len(text) + 1 \/ text[cut[k]] = "/"

(* What the parser made of the path: its parts are what stands between the *)
(* slashes, one after the other from the drive on, up to the path's end, a *)
(* last slash or the first empty part (two slashes in a row), and they fit *)
(* their buffers.                                                          *)
PathRead ==
  /\ PartsFit
  /\ pc = "disk" =>
       LET text == SubSeq(path, 4, Len(path))
       IN  \E cut \in [0 .. Len(parts) -> 0 .. (Len(text) + 1)] :
             /\ CutInParts(text, cut)
             /\ cut[Len(parts)] >= Len(text) \/ text[cut[Len(parts)] + 1] = "/"

(* The entry k of the root directory is called like the path's only part. *)
Named(k) == Len(parts) = 1 /\ SameIgnoringCase(NameOnDisk(root.item[k]), parts[1])

(* The file that fopen opens is the one that was asked for: an entry in    *)
(* use of the root directory with the path's name, and the last one with   *)
(* that name.  Entries whose fields do not end are left out (an            *)
(* eight-letter name reads on into the ext, FieldsEnd); a path with more   *)
(* than one part opens nothing.  A deleted entry is opened only by a path  *)
(* that has the byte of deletion in it.                                    *)
OpenedIsNamed ==
  pc = "desc" =>
    LET e == root.item[f_item]
    IN  /\ Len(parts) = 1
        /\ e.filename[1] # ZERO
        /\ e.filename[1] = DELETED => parts[1][1] = DELETED
        /\ FieldsEnd(e) => Named(f_item)
        /\ \A k \in (f_item + 1) .. root.total : FieldsEnd(root.item[k]) => ~Named(k)

(* A file is found if no entry before it was deleted: the search ends      *)
(* without an item only if no such entry has the path's name, or there was *)
(* no memory for an item.                                                  *)
FoundIfThere ==
  pc = "find" /\ i > root.total =>
    \A k \in DOMAIN root.item :
      \/ ~Named(k) \/ ~FieldsEnd(root.item[k])
      \/ \E d \in 1 .. k : root.item[d].filename[1] \in {ZERO, DELETED}
      \/ f_item >= k
      \/ f_item = NONE /\ \E m \in 1 .. root.total : m >= k /\ Matches(m)

(* The lookup finds the file that the path names, and no other. *)
LookupExact == OpenedIsNamed /\ FoundIfThere

(* The entries of a directory are its files; the FAT descriptor says how   *)
(* far a number has got.                                                   *)
SizeOf(e) == e.size
OpenNumbers ==
  [fd \in held |-> [name |-> root.item[private[file_descriptors[fd]].item],
                    pos  |-> private[file_descriptors[fd]].pos]]
Promise == INSTANCE OpenFiles WITH
  Numbers <- Fds, Files <- UNION {ToSet(area) : area \in Disks}, Size <- SizeOf,
  open <- OpenNumbers

(* All of it implements what open files promise: one number, one file, one *)
(* position, changed by no call on another number and by no failed call.   *)
KeepsPromise == Promise!Spec

(* Every fopen ends. *)
OpensEnd == pc # "idle" ~> pc = "idle"
=============================================================================
