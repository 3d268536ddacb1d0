----------------------------- MODULE MC_MpBoot ------------------------------
EXTENDS MpBoot, SequencesExt

CONSTANTS LAPIC, MaxEntries, EntryTypes

MPPROC == "PROC"
MPIOAPIC == "IOAPIC"

(* Signed structures whose bytes add to 0 and to 256 (0 as a uchar)        *)
(* pointing at the table, with and without an IMCR; one pointing at        *)
(* physaddr 0 (the default configurations); a signed one whose bytes add *)
(* to 1; and an unsigned one.                                              *)
MCVariants ==
  { [sig |-> TRUE,  bytes |-> <<0, 0>>,     physaddr |-> TABLE, imcrp |-> TRUE],
    [sig |-> TRUE,  bytes |-> <<128, 128>>, physaddr |-> TABLE, imcrp |-> FALSE],
    [sig |-> TRUE,  bytes |-> <<0, 0>>,     physaddr |-> 0,     imcrp |-> FALSE],
    [sig |-> TRUE,  bytes |-> <<1, 0>>,     physaddr |-> TABLE, imcrp |-> FALSE],
    [sig |-> FALSE, bytes |-> <<0, 0>>,     physaddr |-> TABLE, imcrp |-> FALSE] }

(* The EBDA at 3..4, base memory ending at 8 or 10, the ROM at 12..14, and *)
(* the slots just past each range.                                         *)
MCCandidates == {3, 5, 8, 10, 12, 14, 15}

MCEntries ==
  [type : {MPPROC, MPIOAPIC}, apicid : {1, 2}] \cup
  [type : EntryTypes \ {MPPROC, MPIOAPIC}, apicid : {0}]

(* Tables with a good or bad signature, versions 1, 4 and 2, bytes that *)
(* sum to 0 or 1, and up to MaxEntries entries.                          *)
MCTables ==
  [sig : BOOLEAN, version : {1, 4, 2}, bytes : {<<0, 0>>, <<1, 0>>},
   lapicaddr : {LAPIC}, entries : SeqOf(MCEntries, MaxEntries)]

(* The view leaves out the BIOS data area and memory once mpconfig has    *)
(* gone past the search, when no step reads them any more.  The state     *)
(* mpsearch returns in keeps them, so SearchFindsFirst is checked for     *)
(* every memory.                                                           *)
BootView ==
  <<IF phase = "start" THEN searchVars ELSE done, initVars>>

=============================================================================
