----------------------------- MODULE MpChecksum -----------------------------
(***************************************************************************)
(* sum of xv6_dregmod/src/mp.c: the bytes of a structure added in an int   *)
(* and returned as a uchar, so a structure is valid when its bytes add up  *)
(* to a multiple of 256.  A structure's bytes are a sequence of 0..255.    *)
(***************************************************************************)
EXTENDS Naturals, Sequences

(* Mutant: the int total returned without the truncation to uchar. *)
RECURSIVE sum_wide_loop(_, _, _)
sum_wide_loop(addr, i, s) ==
  IF i > Len(addr) THEN s ELSE sum_wide_loop(addr, i + 1, s + addr[i])

sum_wide(addr) == sum_wide_loop(addr, 1, 0)

(* for(i=0; i<len; i++) sum += addr[i]; *)
RECURSIVE sum_loop(_, _, _)
sum_loop(addr, i, s) ==
  IF i > Len(addr) THEN s ELSE sum_loop(addr, i + 1, s + addr[i])

(* return sum: the int is narrowed to uchar. *)
sum(addr) == sum_loop(addr, 1, 0) % 256

=============================================================================
