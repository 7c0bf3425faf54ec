-------------------------------- MODULE Gdt --------------------------------
(***************************************************************************)
(* The segment descriptors of src/gdt/gdt.c: encoding a base, a limit and  *)
(* a type into the eight bytes that the processor reads.  The upper half   *)
(* of byte 6 is kept apart: 0x40 is "bytes", 0xC0 "pages".                 *)
(***************************************************************************)
EXTENDS Words

Page == Byte * Nibble   \* 12 bits

(* encodeGdtEntry panics: a limit above 16 bits must end with a page. *)
Refused(source) == source.limit > Half /\ source.limit % Page # Page - 1

(* Mutant of encodeGdtEntry: a limit in pages is not shifted. *)
EncodeNotShifted(source) ==
  << Digit(source.limit, 1, Byte), Digit(source.limit, Byte, Byte),
     Digit(source.base, 1, Byte), Digit(source.base, Byte, Byte), Digit(source.base, Half, Byte),
     source.type,
     <<IF source.limit > Half THEN "pages" ELSE "bytes", Digit(source.limit, Half, Nibble)>>,
     Digit(source.base, Byte * Half, Byte) >>

(* The bytes of a descriptor. *)
encodeGdtEntry(source) ==
  LET pages == source.limit > Half
      limit == IF pages THEN source.limit \div Page ELSE source.limit
  IN  << Digit(limit, 1, Byte), Digit(limit, Byte, Byte),
         Digit(source.base, 1, Byte), Digit(source.base, Byte, Byte), Digit(source.base, Half, Byte),
         source.type,
         <<IF pages THEN "pages" ELSE "bytes", Digit(limit, Half, Nibble)>>,
         Digit(source.base, Byte * Half, Byte) >>

(* The processor's reading of a descriptor: the segment it describes. *)
Decoded(d) ==
  LET limit == d[1] + (d[2] * Byte) + (d[7][2] * Half)
  IN  [base  |-> d[3] + (d[4] * Byte) + (d[5] * Half) + (d[8] * Byte * Half),
       limit |-> IF d[7][1] = "pages" THEN (limit * Page) + Page - 1 ELSE limit,
       type  |-> d[6]]
=============================================================================
