------------------------------ MODULE MCBoot ------------------------------
(* Half bytes of one bit: addresses of eight bits, of which tss may have   *)
(* any.  Four vectors, a kernel of two sectors of which three are read.    *)
EXTENDS Boot

MCTssAddresses == 0 .. (Word - 1)
MCHandler == [idt_zero |-> 21, int21h |-> 100, isr80h_wrapper |-> 201, no_interrupt |-> 15]
===========================================================================
