----------------------------- MODULE PagingInit -----------------------------
(***************************************************************************)
(* Boot-time paging of x86osdev/paging: initialise_paging, get_page,       *)
(* alloc_frame and switch_page_directory of paging.c over the placement    *)
(* allocator of kheap.c, driven by main.c.                                 *)
(*                                                                         *)
(* Addresses are bytes with the page scaled from 0x1000 to PAGE and a page *)
(* table covering PagesPerTable pages instead of 1024.  The linker symbol  *)
(* `end', where placement allocation starts, is one of KernelEnds.         *)
(***************************************************************************)
EXTENDS Naturals, FiniteSetsExt

CONSTANTS
  PAGE,            \* 0x1000
  PagesPerTable,   \* pages of one page_table_t (1024)
  NTables,         \* page tables of one page_directory_t (1024)
  MemEnd,          \* mem_end_page
  KernelEnds,      \* possible values of &end
  VgaAddr,         \* the text buffer monitor_write writes
  ProbeAddr        \* the address main reads to provoke a fault (0xA0000000)

ASSUME PAGE % 4 = 0 /\ MemEnd % PAGE = 0 /\ KernelEnds \subseteq 1 .. MemEnd

Page(a) == a \div PAGE
PageFloor(a) == a - (a % PAGE)
Table(a) == Page(a) \div PagesPerTable
Pages == 0 .. NTables * PagesPerTable - 1
nframes == MemEnd \div PAGE
Frames == 0 .. nframes - 1
INDEX_FROM_BIT(a) == a \div 32
SizeofTable == 4 * PagesPerTable         \* page_t pages[1024]
SizeofDir == 4 * NTables + 4 * NTables + 4 \* tables, tablesPhysical, physicalAddr

VARIABLES
  placement,   \* placement_address
  i,           \* the loop variable of initialise_paging
  phase,       \* "boot", "loop", "paged", "hello", "done", "panic"
  frames_at,   \* frames, the bitmap
  kdir,        \* kernel_directory
  tables,      \* kernel_directory->tables: table index -> address, 0 if none
  pte,         \* page -> [present, frame]
  used,        \* the frame bitmap
  cr3,         \* the directory paging runs on, 0 before it is enabled
  fault        \* the address page_fault reported

vars == <<placement, i, phase, frames_at, kdir, tables, pte, used, cr3, fault>>

(* kmalloc_int: `placement_address & 0xFFFFF000' is nonzero for every      *)
(* address past the first page, aligned or not, so an aligned address is   *)
(* moved to the next page too.                                             *)
kmalloc_int(pa, sz, align) ==
  LET a == IF align = 1 /\ PageFloor(pa) # 0 THEN PageFloor(pa) + PAGE ELSE pa
  IN [ret |-> a, pa |-> a + sz]

(* Mutant: the page table taken with kmalloc_p, unaligned. *)
get_page_unaligned(pa, tbl, address) ==
  LET t == Table(address)
      r == kmalloc_int(pa, SizeofTable, 0)
  IN IF tbl[t] # 0 THEN [pa |-> pa, tables |-> tbl]
     ELSE [pa |-> r.pa, tables |-> [tbl EXCEPT ![t] = r.ret]]

(* get_page(address, 1, dir): a missing table is made with kmalloc_ap. *)
get_page(pa, tbl, address) ==
  LET t == Table(address)
      r == kmalloc_int(pa, SizeofTable, 1)
  IN IF tbl[t] # 0 THEN [pa |-> pa, tables |-> tbl]
     ELSE [pa |-> r.pa, tables |-> [tbl EXCEPT ![t] = r.ret]]

set_frame(u, f) == u \cup {f}

first_frame(u) == Min(Frames \ u)

(* alloc_frame(page, 0, 0): a page whose frame field is 0 gets the first  *)
(* clear bit of the bitmap.                                                *)
alloc_frame(pt, u, pg) ==
  IF pt[pg].frame # 0 THEN [pte |-> pt, used |-> u]
  ELSE [pte |-> [pt EXCEPT ![pg] = [present |-> TRUE, frame |-> first_frame(u)]],
        used |-> set_frame(u, first_frame(u))]

Mapped(a) == tables[Table(a)] # 0 /\ pte[Page(a)].present

Init ==
  /\ placement \in KernelEnds
  /\ i = 0
  /\ phase = "boot"
  /\ frames_at = 0 /\ kdir = 0 /\ cr3 = 0 /\ fault = 0
  /\ tables = [t \in 0 .. NTables - 1 |-> 0]
  /\ pte = [pg \in Pages |-> [present |-> FALSE, frame |-> 0]]
  /\ used = {}

(* initialise_paging up to the loop: the bitmap (of INDEX_FROM_BIT(nframes) *)
(* bytes, cleared by memset) and the kernel directory.                     *)
AllocTables ==
  LET r1 == kmalloc_int(placement, INDEX_FROM_BIT(nframes), 0)
      r2 == kmalloc_int(r1.pa, SizeofDir, 1)
  IN /\ phase = "boot"
     /\ frames_at' = r1.ret
     /\ kdir' = r2.ret
     /\ placement' = r2.pa
     /\ used' = {}
     /\ phase' = "loop"
     /\ UNCHANGED <<i, tables, pte, cr3, fault>>

(* The loop bound: placement_address, read again on every iteration.      *)
(* Mutant: the bound read once, before the loop (the value AllocTables    *)
(* leaves, which is kdir + sizeof(page_directory_t)).                     *)
LoopCond_once(x, pa) == x < kdir + SizeofDir

LoopCond(x, pa) == x < pa

(* One iteration: get_page may allocate the page table, moving            *)
(* placement_address, before alloc_frame maps the page.                   *)
IdentityMapStep ==
  LET g == get_page(placement, tables, i)
      f == alloc_frame(pte, used, Page(i))
  IN /\ phase = "loop"
     /\ LoopCond(i, placement)
     /\ Frames \ used # {}
     /\ placement' = g.pa
     /\ tables' = g.tables
     /\ pte' = f.pte
     /\ used' = f.used
     /\ i' = i + PAGE
     /\ UNCHANGED <<phase, frames_at, kdir, cr3, fault>>

(* The loop ends; the fault handler is registered and                      *)
(* switch_page_directory loads the kernel directory and sets CR0.PG.       *)
EnablePaging ==
  /\ phase = "loop"
  /\ ~LoopCond(i, placement)
  /\ cr3' = kdir
  /\ phase' = "paged"
  /\ UNCHANGED <<placement, i, frames_at, kdir, tables, pte, used, fault>>

(* page_fault: the message, then PANIC. *)
page_fault(a) == phase' = "panic" /\ fault' = a

(* main: monitor_write to the text buffer, then the read at 0xA0000000.    *)
(* An access to an unmapped page ends in page_fault's PANIC.               *)
Access(a, from, to) ==
  /\ phase = from
  /\ IF Mapped(a) THEN phase' = to /\ UNCHANGED fault
     ELSE page_fault(a)
  /\ UNCHANGED <<placement, i, frames_at, kdir, tables, pte, used, cr3>>

Next ==
  \/ AllocTables
  \/ IdentityMapStep
  \/ EnablePaging
  \/ Access(VgaAddr, "paged", "hello")
  \/ Access(ProbeAddr, "hello", "done")

Spec == Init /\ [][Next]_vars

-----------------------------------------------------------------------------
(* Properties.                                                             *)

(* The directory and every page table are page aligned, as CR3 and the    *)
(* directory entries require.                                              *)
PagingTypeOK ==
  /\ phase \in {"boot", "loop", "paged", "hello", "done", "panic"}
  /\ kdir % PAGE = 0 /\ cr3 \in {0, kdir}
  /\ \A t \in DOMAIN tables : tables[t] % PAGE = 0
  /\ used \subseteq Frames
  /\ pte \in [Pages -> [present : BOOLEAN, frame : Frames]]

(* Once paging is on, every byte below placement_address (the kernel, the *)
(* bitmap, the directory and the page tables the loop itself allocated)   *)
(* is identity mapped: the loop re-reads placement_address for this.      *)
IdentityMapped ==
  phase # "boot" /\ phase # "loop" =>
     \A a \in 0 .. placement - 1 : Mapped(a) /\ pte[Page(a)].frame = Page(a)

=============================================================================
