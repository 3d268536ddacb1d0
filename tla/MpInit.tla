------------------------------- MODULE MpInit -------------------------------
(***************************************************************************)
(* mpconfig and mpinit of xv6_dregmod/src/mp.c: the MP configuration table *)
(* is checked and its entries are walked to fill cpus[], ncpu and          *)
(* ioapicid.                                                               *)
(*                                                                         *)
(* What mpsearch returned (MpSearch models the search) is NULL or a        *)
(* structure with a physaddr (0, or the address of the table) and an       *)
(* imcrp flag.  The table has a signature, a version, bytes whose sum      *)
(* the checksum tests, and its entries in the order they are laid out.     *)
(* Each entry is as long as the code steps over (20 bytes for a processor, *)
(* 8 for the others) and conf->length ends the table after the last one,   *)
(* so p is the index of the entry it points at.                            *)
(***************************************************************************)
EXTENDS Naturals, Sequences, FiniteSets, FiniteSetsExt, SequencesExt, MpChecksum

CONSTANTS
  NCPU,         \* the size of cpus[]
  Found,        \* what mpsearch may return: NULL or [physaddr, imcrp]
  Tables,       \* configuration tables the pointer may lead to
  TABLE,        \* the physical address of the table
  NULL          \* a null pointer



(* The entry types mp.h names; any other byte is an unknown type. *)
MPPROC == "PROC"
MPIOAPIC == "IOAPIC"
Skipped == {"BUS", "IOINTR", "LINTR"}

VARIABLES
  mp,           \* mpconfig's *pmp
  conf,         \* the table at mp->physaddr
  phase,        \* "start", "walk", "done", "panic"
  p,            \* the entry mpinit's loop is at
  ismp,
  ncpu,
  cpus,         \* cpus[i].apicid
  ioapicid,
  lapic,
  imcr          \* the IMCR was written to mask external interrupts

vars == <<mp, conf, phase, p, ismp, ncpu, cpus, ioapicid, lapic, imcr>>

(* The globals are zero when mpinit is called. *)
Init ==
  /\ mp \in Found
  /\ conf \in Tables
  /\ phase = "start"
  /\ p = 1 /\ ismp = 0 /\ ncpu = 0 /\ ioapicid = 0 /\ lapic = 0
  /\ cpus = [i \in 0 .. NCPU - 1 |-> 0]
  /\ imcr = FALSE

(* mpconfig: the table, or 0 when there is no pointer, its physaddr is 0, *)
(* or the table's signature, version or checksum is wrong.                 *)
mpconfig(m, c) ==
  IF m = NULL \/ m.physaddr = 0 THEN NULL
  ELSE IF ~c.sig THEN NULL
  ELSE IF c.version # 1 /\ c.version # 4 THEN NULL
  ELSE IF sum(c.bytes) # 0 THEN NULL
  ELSE c

(* mpinit up to the loop. *)
Config ==
  /\ phase = "start"
  /\ IF mpconfig(mp, conf) = NULL
     THEN phase' = "panic" /\ UNCHANGED <<ismp, lapic>>
     ELSE phase' = "walk" /\ ismp' = 1 /\ lapic' = conf.lapicaddr
  /\ UNCHANGED <<mp, conf, p, ncpu, cpus, ioapicid, imcr>>

Entry == conf.entries[p]

InLoop == phase = "walk" /\ p <= Len(conf.entries)

(* Mutant: the bound checked with <=, one CPU past cpus[]. *)
Proc_nocap ==
  /\ InLoop /\ Entry.type = MPPROC
  /\ IF ncpu <= NCPU
     THEN cpus' = [cpus EXCEPT ![ncpu] = Entry.apicid] /\ ncpu' = ncpu + 1
     ELSE UNCHANGED <<cpus, ncpu>>
  /\ p' = p + 1
  /\ UNCHANGED <<mp, conf, phase, ismp, ioapicid, lapic, imcr>>

(* case MPPROC: the CPU is recorded while cpus[] has room. *)
Proc ==
  /\ InLoop /\ Entry.type = MPPROC
  /\ IF ncpu < NCPU
     THEN cpus' = [cpus EXCEPT ![ncpu] = Entry.apicid] /\ ncpu' = ncpu + 1
     ELSE UNCHANGED <<cpus, ncpu>>
  /\ p' = p + 1
  /\ UNCHANGED <<mp, conf, phase, ismp, ioapicid, lapic, imcr>>

(* Mutant: only the first I/O APIC is kept. *)
IoApic_first ==
  /\ InLoop /\ Entry.type = MPIOAPIC
  /\ ioapicid' = IF ioapicid = 0 THEN Entry.apicid ELSE ioapicid
  /\ p' = p + 1
  /\ UNCHANGED <<mp, conf, phase, ismp, ncpu, cpus, lapic, imcr>>

(* case MPIOAPIC *)
IoApic ==
  /\ InLoop /\ Entry.type = MPIOAPIC
  /\ ioapicid' = Entry.apicid
  /\ p' = p + 1
  /\ UNCHANGED <<mp, conf, phase, ismp, ncpu, cpus, lapic, imcr>>

(* case MPBUS, MPIOINTR, MPLINTR: p += 8 *)
Skip ==
  /\ InLoop /\ Entry.type \in Skipped
  /\ p' = p + 1
  /\ UNCHANGED <<mp, conf, phase, ismp, ncpu, cpus, ioapicid, lapic, imcr>>

(* default: ismp = 0 and `break', which leaves the switch and not the      *)
(* loop: p stays where it is and the loop goes round again.               *)
Default ==
  /\ InLoop /\ Entry.type \notin {MPPROC, MPIOAPIC} \cup Skipped
  /\ ismp' = 0
  /\ UNCHANGED <<mp, conf, phase, p, ncpu, cpus, ioapicid, lapic, imcr>>

(* p reaches e: panic when ismp was cleared, else mask external           *)
(* interrupts through the IMCR when the pointer says it is present.       *)
LoopExit ==
  /\ phase = "walk" /\ p > Len(conf.entries)
  /\ IF ismp = 0 THEN phase' = "panic" /\ UNCHANGED imcr
     ELSE phase' = "done" /\ imcr' = mp.imcrp
  /\ UNCHANGED <<mp, conf, p, ismp, ncpu, cpus, ioapicid, lapic>>

Next == Config \/ Proc \/ IoApic \/ Skip \/ Default \/ LoopExit

(* mpinit runs alone on the boot processor. *)
Spec == Init /\ [][Next]_vars /\ WF_vars(Next)

-----------------------------------------------------------------------------
(* Properties.                                                             *)

MpTypeOK ==
  /\ phase \in {"start", "walk", "done", "panic"}
  /\ ncpu \in 0 .. NCPU
  /\ cpus \in [0 .. NCPU - 1 -> Nat]
  /\ p \in 1 .. Len(conf.entries) + 1

ProcIds == [i \in 1 .. Len(SelectSeq(conf.entries, LAMBDA e : e.type = MPPROC)) |->
              SelectSeq(conf.entries, LAMBDA e : e.type = MPPROC)[i].apicid]
IoApics == SelectSeq(conf.entries, LAMBDA e : e.type = MPIOAPIC)

(* When mpinit returns, cpus[] holds the apicids of the table's first NCPU *)
(* processor entries in table order, ncpu counts them, and ioapicid is the *)
(* id of the table's last I/O APIC entry.                                  *)
CpusRecorded ==
  phase = "done" =>
    /\ ncpu = Min({NCPU, Len(ProcIds)})
    /\ \A i \in 0 .. ncpu - 1 : cpus[i] = ProcIds[i + 1]
    /\ ioapicid = IF IoApics = <<>> THEN 0 ELSE Last(IoApics).apicid

(* mpinit returns or panics: every table, whatever its entries, ends the  *)
(* walk, an entry of unknown type in panic("Didn't find a suitable        *)
(* machine").                                                             *)
Termination == <>(phase \in {"done", "panic"})

=============================================================================
