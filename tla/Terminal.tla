------------------------------ MODULE Terminal ------------------------------
(***************************************************************************)
(* The text screen of src/kernel.c: print writes a string character by     *)
(* character at the cursor.  Only newlines are told from other characters. *)
(***************************************************************************)
EXTENDS Integers, Sequences

CONSTANTS
  VGA_WIDTH,
  RowMod,      \* 2^16, the modulus of the uint16_t term_row
  Messages     \* the strings the kernel prints

ASSUME TerminalAssumption ==
  /\ VGA_WIDTH \in Nat \ {0} /\ RowMod \in Nat \ {0}
  /\ Messages \subseteq Seq({"\n", "x"})

VARIABLES
  term_row, term_col,
  cell,      \* the index in video_mem that was written last, -1 if none
  str        \* what is left of the string that print writes

term_vars == <<term_row, term_col, cell, str>>

(* term_initialize leaves the cursor in the first cell. *)
TermInit ==
  /\ term_row = 0
  /\ term_col = 0
  /\ cell = -1
  /\ str = <<>>

(* A caller starts to print a message. *)
print ==
  /\ str = <<>>
  /\ str' \in Messages
  /\ UNCHANGED <<term_row, term_col, cell>>

(* The index of the cell that term_putchar writes. *)
term_putchar(x, y) == (y * VGA_WIDTH) + x

(* Mutant of NextRow: the row does not advance. *)
SameRow(c) ==
  /\ term_col' = 0
  /\ cell' = c
  /\ UNCHANGED term_row

(* term_row += 1 and term_col = 0 after cell c was written last.  A row    *)
(* that wraps in 16 bits starts the screen again from its first cell.      *)
NextRow(c) ==
  /\ term_row' = (term_row + 1) % RowMod
  /\ term_col' = 0
  /\ cell' = IF term_row' = 0 THEN -1 ELSE c

(* The cursor after a character is put at it: at the end of a row it moves *)
(* to the next one.                                                        *)
Advance(c) ==
  \/ /\ term_col + 1 >= VGA_WIDTH
     /\ NextRow(c)
  \/ /\ term_col + 1 < VGA_WIDTH
     /\ term_col' = term_col + 1
     /\ cell' = c
     /\ UNCHANGED term_row

(* term_writechar: a newline only moves the cursor. *)
term_writechar ==
  /\ str # <<>>
  /\ str' = Tail(str)
  /\ \/ Head(str) = "\n" /\ NextRow(cell)
     \/ Head(str) # "\n" /\ Advance(term_putchar(term_col, term_row))

TermNext == print \/ term_writechar

TermSpec == TermInit /\ [][TermNext]_term_vars

-----------------------------------------------------------------------------
(* Properties *)

TermTypeOK ==
  /\ term_row \in 0 .. (RowMod - 1) /\ term_col \in 0 .. (VGA_WIDTH - 1)
  /\ cell \in -1 .. (RowMod * VGA_WIDTH)
  /\ str \in Seq({"\n", "x"})

(* No character overwrites an earlier one: across line ends, newlines and  *)
(* messages the cursor stands behind every cell that was written, until    *)
(* term_row wraps.                                                         *)
CursorBehindText == TermTypeOK /\ term_putchar(term_col, term_row) > cell
=============================================================================
