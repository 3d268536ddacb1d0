------------------------------ MODULE MpSearch ------------------------------
(***************************************************************************)
(* mpsearch and mpsearch1 of xv6_dregmod/src/mp.c: the search of low      *)
(* memory for the MP floating pointer structure.                          *)
(*                                                                         *)
(* Memory is cut into 16-byte slots, the size of struct mp, so that slot a *)
(* is physical address 16 * a.  A slot holds a structure that has the      *)
(* "_MP_" signature or not and whose bytes add up to a checksum.  The BIOS *)
(* data area gives the EBDA segment (seg << 4 is slot seg) and the size of *)
(* base memory in KB; KB is the number of slots in a kilobyte.            *)
(***************************************************************************)
EXTENDS Naturals, Sequences, FiniteSets, FiniteSetsExt, SequencesExt, MpChecksum

CONSTANTS
  KB,           \* slots per kilobyte (64)
  Space,        \* slots of the 32-bit physical address space
  RomBase,      \* 0xF0000 as a slot
  RomLen,       \* 0x10000 bytes as slots
  EbdaSegs,     \* values of bda[0x0E..0x0F]
  BaseKBs,      \* values of bda[0x13..0x14]
  Candidates,   \* slots the BIOS may have put a structure at
  Variants,     \* structures: [sig |-> BOOLEAN, bytes |-> Seq(0..255)]
  MaxPlanted    \* structures in one memory

None == -1      \* the NULL struct mp*

Zero == [sig |-> FALSE, bytes |-> <<0>>]

VARIABLES
  ebda,         \* the EBDA segment the BDA holds
  basekb,       \* base memory in KB the BDA holds
  mem,          \* slot -> the 16 bytes there
  found,        \* what mpsearch returned
  done          \* mpsearch has run

vars == <<ebda, basekb, mem, found, done>>

Init ==
  /\ ebda \in EbdaSegs
  /\ basekb \in BaseKBs
  /\ \E P \in SUBSET Candidates :
        /\ Cardinality(P) <= MaxPlanted
        /\ \E v \in [P -> Variants] :
              mem = [a \in 0 .. Space - 1 |-> IF a \in P THEN v[a] ELSE Zero]
  /\ found = None
  /\ done = FALSE

(* memcmp(p, "_MP_", 4) == 0 && sum(p, sizeof(struct mp)) == 0 *)
IsMp(p) == mem[p].sig /\ sum(mem[p].bytes) = 0

(* for(p = addr; p < e; p += sizeof(struct mp)) *)
RECURSIVE Scan(_, _)
Scan(p, e) ==
  IF p >= e THEN None ELSE IF IsMp(p) THEN p ELSE Scan(p + 1, e)

mpsearch1(a, len) == Scan(a, a + len)

(* The EBDA when its segment is set, else the last KB of base memory (in  *)
(* uint arithmetic), then the BIOS ROM.                                   *)
mpsearch ==
  LET first == IF ebda # 0 THEN mpsearch1(ebda, KB)
               ELSE mpsearch1((basekb * KB - KB) % Space, KB)
  IN IF first # None THEN first ELSE mpsearch1(RomBase, RomLen)

(* mpconfig's call of mpsearch. *)
Search ==
  /\ ~done
  /\ found' = mpsearch
  /\ done' = TRUE
  /\ UNCHANGED <<ebda, basekb, mem>>

Next == Search

Spec == Init /\ [][Next]_vars

-----------------------------------------------------------------------------
(* Properties.                                                             *)

(* A reference for the search: a structure is valid when it is signed and *)
(* its bytes add up to 0 modulo 256; the result is the lowest valid slot  *)
(* of the first KB of the EBDA (or, with no EBDA, of the last KB of base  *)
(* memory) and else the lowest valid slot of the ROM.                     *)
Valid(a) == mem[a].sig /\ FoldLeft(+, 0, mem[a].bytes) % 256 = 0

Lowest(R) == IF \E a \in R : Valid(a) THEN Min({a \in R : Valid(a)}) ELSE None

FirstKB == IF ebda # 0 THEN ebda .. ebda + KB - 1
           ELSE basekb * KB - KB .. basekb * KB - 1

Rom == RomBase .. RomBase + RomLen - 1

(* mpsearch reads only the two ranges it searches: what it returns is     *)
(* NULL or a slot of one of them.                                          *)
SearchTypeOK ==
  /\ found \in {None} \cup FirstKB \cup Rom
  /\ done \in BOOLEAN

(* mpsearch returns the first valid MP structure in the order the code's  *)
(* comment and the MP specification give, and NULL when there is none.    *)
SearchFindsFirst ==
  done =>
    found = IF Lowest(FirstKB) # None THEN Lowest(FirstKB)
            ELSE Lowest(Rom)

=============================================================================
