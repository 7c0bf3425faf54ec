------------------------------ MODULE Strings ------------------------------
(***************************************************************************)
(* The operations of src/string/string.c that paths and file names need,   *)
(* on sequences of characters without their terminating zero.              *)
(***************************************************************************)
EXTENDS Integers, SequencesExt

CONSTANT Chars   \* the bytes that paths and names are made of

(* The capitals with the letters 32 places behind them, and the digits. *)
LowerCase ==
  [A |-> "a", B |-> "b", C |-> "c", D |-> "d", E |-> "e", F |-> "f", G |-> "g",
   H |-> "h", I |-> "i", J |-> "j", K |-> "k", L |-> "l", M |-> "m", N |-> "n",
   O |-> "o", P |-> "p", Q |-> "q", R |-> "r", S |-> "s", T |-> "t", U |-> "u",
   V |-> "v", W |-> "w", X |-> "x", Y |-> "y", Z |-> "z"]
Digits == <<"0", "1", "2", "3", "4", "5", "6", "7", "8", "9">>

tolower(c) == IF c \in DOMAIN LowerCase THEN LowerCase[c] ELSE c

isdigit(c) == c \in ToSet(Digits)

tonumericdigit(c) == (CHOOSE i \in DOMAIN Digits : Digits[i] = c) - 1

(* istrncmp (s, t, n) == 0, for an n that is longer than both strings. *)
SameIgnoringCase(s, t) ==
  /\ Len(s) = Len(t)
  /\ \A i \in DOMAIN s : tolower(s[i]) = tolower(t[i])

(* What comes before the first character of stop: the loops that copy up   *)
(* to one of several characters.                                           *)
Until(s, stop) ==
  LET at == SelectInSeq(s, LAMBDA c : c \in stop)
  IN  IF at = 0 THEN s ELSE SubSeq(s, 1, at - 1)
=============================================================================
