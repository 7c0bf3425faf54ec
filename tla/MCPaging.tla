----------------------------- MODULE MCPaging -----------------------------
(* 36 pages of two bytes in six tables: the stack on pages 5 and 6, which  *)
(* belong to two tables, a page between, the program from page 8, the      *)
(* kernel's stack on page 11, the heap behind it.                          *)
EXTENDS Paging
=============================================================================
