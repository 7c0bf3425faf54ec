---------------------------- MODULE FatDirectory ----------------------------
(***************************************************************************)
(* The entries of a FAT16 directory and their names (src/fs/fat/fat16.c).  *)
(* An entry is a record of its filename and ext fields, as sequences of    *)
(* the field's length, its attribute byte and its size.  A byte is the     *)
(* character it stands for; the values that the code tests have names.     *)
(***************************************************************************)
EXTENDS Strings

ZERO    == "0x00"   \* ends a directory, and a string
SPACE   == "0x20"   \* fills a field; as an attribute it is FAT_FILE_ARCHIVE
DELETED == "0xE5"   \* the first byte of an entry that is not used
SUBDIR  == "0x10"   \* FAT_FILE_SUBDIRECTORY
LABEL   == "0x08"   \* FAT_FILE_VOLUME_LABEL

fat_directory_item ==
  [filename : Seq(Chars) \ {<<>>}, ext : Seq(Chars) \ {<<>>}, attribute : Chars, size : Nat]

(* The entries in use up to the first whose name begins with zero; area is *)
(* what lies on the disk from the directory on and has such an entry.      *)
fat16_get_total_items_for_directory(area) ==
  LET end == SelectInSeq(area, LAMBDA e : e.filename[1] = ZERO)
  IN  Cardinality({i \in 1 .. (end - 1) : area[i].filename[1] # DELETED})

(* The directory read into memory whole, with the entries not in use; only *)
(* the first total of them are looked at.                                  *)
fat16_get_root_directory(area, root_dir_entries) ==
  [item  |-> SubSeq(area, 1, root_dir_entries),
   total |-> fat16_get_total_items_for_directory(area)]

(* Up to a space or a zero, wherever that is: not up to the field's end. *)
fat16_to_proper_string(in) == Until(in, {ZERO, SPACE})

(* The name of an entry.  In memory the ext follows the filename, and the  *)
(* attribute and a reserved zero follow the ext.                           *)
fat16_get_full_relative_filename(item) ==
  LET rest == item.ext \o <<item.attribute, ZERO>>
      name == fat16_to_proper_string(item.filename \o rest)
  IN  IF item.ext[1] \in {ZERO, SPACE} THEN name
      ELSE name \o <<".">> \o fat16_to_proper_string(rest)

-----------------------------------------------------------------------------
(* Reference definitions, for the properties. *)

(* How much of a field is name: only spaces follow it. *)
NameLength(field) ==
  Min({n \in 0 .. Len(field) : \A k \in (n + 1) .. Len(field) : field[k] = SPACE})

(* The name that a FAT directory gives an entry. *)
NameOnDisk(e) ==
  LET used(field) == SubSeq(field, 1, NameLength(field))
  IN  used(e.filename) \o IF used(e.ext) = <<>> THEN <<>> ELSE <<".">> \o used(e.ext)

(* The names in both fields have no space or zero in them and are followed *)
(* by one, so that the code reads the name and no more.                    *)
FieldsEnd(e) ==
  /\ \A field \in {e.filename, e.ext} :
       \A k \in 1 .. NameLength(field) : field[k] \notin {ZERO, SPACE}
  /\ NameLength(e.filename) < Len(e.filename)
  /\ NameLength(e.ext) < Len(e.ext) \/ e.attribute \in {SPACE, ZERO}
=============================================================================
