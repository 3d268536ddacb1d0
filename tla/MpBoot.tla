------------------------------- MODULE MpBoot -------------------------------
(***************************************************************************)
(* mpinit of xv6_dregmod/src/mp.c from its first step: mpconfig calls     *)
(* mpsearch, which looks for the MP floating pointer in low memory        *)
(* (MpSearch), and the configuration table at the pointer's physaddr is   *)
(* checked and its entries walked (MpInit).                               *)
(*                                                                         *)
(* A structure in memory carries, besides its signature and bytes, the    *)
(* physaddr and imcrp fields mpconfig and mpinit read from the structure  *)
(* mpsearch returns.  The table at physaddr is read only by mpconfig,     *)
(* after the search, and only when the pointer leads to one, so what it   *)
(* holds is chosen there; until then conf is a table with no entries.     *)
(***************************************************************************)
EXTENDS Naturals, Sequences

CONSTANTS
  KB, Space, RomBase, RomLen, EbdaSegs, BaseKBs, Candidates, Variants, MaxPlanted,
  NCPU, Tables, TABLE, NULL

VARIABLES
  ebda, basekb, mem, found, done,
  mp, conf, phase, p, ismp, ncpu, cpus, ioapicid, lapic, imcr

searchVars == <<ebda, basekb, mem, found, done>>
initVars == <<mp, conf, phase, p, ismp, ncpu, cpus, ioapicid, lapic, imcr>>
vars == <<searchVars, initVars>>

S == INSTANCE MpSearch
W == INSTANCE MpInit WITH Found <- {NULL}

NoTable == CHOOSE t \in Tables : t.entries = <<>>

(* The pointer mpconfig takes from what mpsearch returned. *)
Pointer(f) ==
  IF f = S!None THEN NULL ELSE [physaddr |-> mem[f].physaddr, imcrp |-> mem[f].imcrp]

Init ==
  /\ S!Init
  /\ mp = NULL /\ conf = NoTable /\ phase = "start"
  /\ p = 1 /\ ismp = 0 /\ ncpu = 0 /\ ioapicid = 0 /\ lapic = 0
  /\ cpus = [i \in 0 .. NCPU - 1 |-> 0]
  /\ imcr = FALSE

(* mpconfig's call of mpsearch. *)
Search ==
  /\ S!Search
  /\ mp' = Pointer(found')
  /\ UNCHANGED <<conf, phase, p, ismp, ncpu, cpus, ioapicid, lapic, imcr>>

(* The tables mpconfig may read: the one at a non-zero physaddr of a     *)
(* found pointer, none otherwise.                                          *)
TablesRead == IF mp = NULL \/ mp.physaddr = 0 THEN {conf} ELSE Tables

(* MpInit's Config once mpsearch has returned, the table read as it is    *)
(* checked.                                                                *)
Config ==
  /\ done /\ phase = "start"
  /\ \E c \in TablesRead :
       /\ conf' = c
       /\ IF W!mpconfig(mp, c) = NULL
          THEN phase' = "panic" /\ UNCHANGED <<ismp, lapic>>
          ELSE phase' = "walk" /\ ismp' = 1 /\ lapic' = c.lapicaddr
  /\ UNCHANGED <<mp, p, ncpu, cpus, ioapicid, imcr>>
  /\ UNCHANGED searchVars

(* The entry loop and its exit. *)
Walk ==
  /\ W!Proc \/ W!IoApic \/ W!Skip \/ W!Default \/ W!LoopExit
  /\ UNCHANGED searchVars

Next == Search \/ Config \/ Walk

(* mpinit runs alone on the boot processor. *)
Spec == Init /\ [][Next]_vars /\ WF_vars(Next)

-----------------------------------------------------------------------------
(* Properties: those of the search and of the walk, over the whole boot.  *)

(* mpsearch returns NULL or a slot of a range it searches, and mpinit's   *)
(* counters stay within cpus[] and the table.                             *)
BootTypeOK == S!SearchTypeOK /\ W!MpTypeOK

(* mpsearch returns the first valid MP structure in the order the code's  *)
(* comment and the MP specification give, and NULL when there is none.    *)
SearchFindsFirst == S!SearchFindsFirst

(* When mpinit returns, cpus[] holds the apicids of the first NCPU         *)
(* processor entries of the table the found pointer leads to, in order,   *)
(* and ioapicid the last I/O APIC's id.                                   *)
CpusRecorded == W!CpusRecorded

=============================================================================
