---------------------------- MODULE MCFileRead ----------------------------
(* Sectors of four bytes, two to a cluster, and a file of three clusters   *)
(* in no order.                                                            *)
EXTENDS FileRead

MCChain == <<3, 10, 4>>
=============================================================================
