---------------------------- MODULE MC_PagingInit ----------------------------
(* Every value of &end in the second and third pages: the kernel image    *)
(* ends above the text buffer, aligned or not.                             *)
EXTENDS PagingInit

MCKernelEnds == 32 .. 63
=============================================================================
