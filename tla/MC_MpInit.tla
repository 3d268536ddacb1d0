----------------------------- MODULE MC_MpInit -----------------------------
EXTENDS MpInit

CONSTANTS LAPIC, MaxEntries, EntryTypes

(* No pointer, a pointer to the default configurations (physaddr 0), and  *)
(* pointers to the table with and without an IMCR.                         *)
MCFound ==
  {NULL} \cup {[physaddr |-> a, imcrp |-> b] : a \in {0, TABLE}, b \in BOOLEAN}

MCEntries ==
  [type : {MPPROC, MPIOAPIC}, apicid : {1, 2}] \cup
  [type : EntryTypes \ {MPPROC, MPIOAPIC}, apicid : {0}]

(* Tables with a good or bad signature, versions 1, 4 and 2, bytes that  *)
(* sum to 0 or 1, and up to MaxEntries entries.                           *)
MCTables ==
  [sig : BOOLEAN, version : {1, 4, 2}, bytes : {<<0, 0>>, <<1, 0>>},
   lapicaddr : {LAPIC}, entries : SeqOf(MCEntries, MaxEntries)]

=============================================================================
