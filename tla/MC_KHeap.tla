------------------------------ MODULE MC_KHeap ------------------------------
(* Instances of KHeap for TLC.  Sizes are in bytes with the page scaled   *)
(* from 0x1000 to 32 bytes; header_t and footer_t keep their real sizes.  *)
EXTENDS KHeap

CONSTANTS s1, s2, s3, s4

MCSlots == {s1, s2, s3}
SymSlots == Permutations(MCSlots)
MCSlots4 == {s1, s2, s3, s4}
SymSlots4 == Permutations(MCSlots4)
=============================================================================
