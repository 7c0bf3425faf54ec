------------------------------- MODULE Words -------------------------------
(***************************************************************************)
(* Numbers of a fixed width and their parts.  The width of half a byte is  *)
(* a parameter, so that small instances keep the layout of bit fields.     *)
(***************************************************************************)
EXTENDS Integers

CONSTANT Nibble   \* the values of half a byte, 16 in the code

ASSUME WordsAssumption == Nibble \in Nat \ {0, 1}

Byte == Nibble * Nibble
Half == Byte * Byte      \* 16 bits
Word == Half * Half      \* 32 bits

(* The digit of n that has the given weight, of digits of the given size:  *)
(* (n >> s) & mask, for a mask of ones.                                    *)
Digit(n, weight, size) == (n \div weight) % size
=============================================================================
