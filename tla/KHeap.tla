------------------------------- MODULE KHeap -------------------------------
(***************************************************************************)
(* The kernel heap of x86osdev/multitasking/src/kheap.c (create_heap,      *)
(* alloc, free, expand, contract, find_smallest_hole) over the frame       *)
(* allocator of x86osdev/paging/src/paging.c (first_frame, alloc_frame,    *)
(* free_frame) that expand and contract call.                              *)
(*                                                                         *)
(* Memory is kept as the heap's own records: `mem' maps an address to the  *)
(* header_t or footer_t whose magic word starts there.  Writing a record   *)
(* destroys every record whose bytes it overlaps; any other byte is user   *)
(* data, index entries or page contents, none of which equals HEAP_MAGIC.  *)
(* The index (an ordered_array of header pointers sorted with              *)
(* header_t_less_than) is a sequence of addresses.  Each C function is an  *)
(* operator from a heap record H to the next one; the first ASSERT that    *)
(* fails, page fault, u32 wrap of a size or read through a pointer that no *)
(* longer names a header sets H.err, and the kernel stops there.           *)
(***************************************************************************)
EXTENDS Naturals, Sequences, SequencesExt, FiniteSetsExt, TLC

CONSTANTS
  PAGE,           \* the page size, 0x1000 in the code
  HDR, FTR,       \* sizeof(header_t), sizeof(footer_t)
  HeapStart,      \* heap->start_address: first byte after the index
  InitEnd,        \* end_addr passed to create_heap
  MaxAddr,        \* heap->max_address
  HEAP_MIN_SIZE,  \* contract never goes below this length
  NFrames,        \* nframes of the frame bitmap
  NKernelFrames,  \* frames 0..NKernelFrames-1 are set before the heap exists
  Slots,          \* callers of kmalloc/kfree, each holding at most one block
  Sizes,          \* request sizes
  Aligns          \* page_align arguments used (FALSE: kmalloc, TRUE: kmalloc_a)

ASSUME /\ HDR + FTR < PAGE /\ HeapStart % PAGE = 0 /\ InitEnd % PAGE = 0
       /\ HeapStart + HEAP_MIN_SIZE <= InitEnd /\ InitEnd <= MaxAddr
       /\ 2 * PAGE < HEAP_MIN_SIZE
       /\ 0 < NKernelFrames /\ NKernelFrames + (InitEnd - HeapStart) \div PAGE <= NFrames

VARIABLES
  heap,   \* [mem, index, end, pte, used, err]
  live    \* slot -> [p |-> pointer kmalloc returned or 0, n |-> size]

vars == <<heap, live>>

Page(a) == a \div PAGE
HeapPages == Page(HeapStart) .. Page(MaxAddr)
Frames == 0 .. NFrames - 1
NoErr == "none"
Errs == {NoErr, "full", "assert", "pagefault", "wrap", "misread", "noframe"}

Hdr(hole, size) == [t |-> "H", hole |-> hole, size |-> size, hdr |-> 0]
Ftr(h) == [t |-> "F", hole |-> FALSE, size |-> 0, hdr |-> h]

Ok(H) == H.err = NoErr
Fail(H, why) == IF Ok(H) THEN [H EXCEPT !.err = why] ELSE H

-----------------------------------------------------------------------------
(* Memory.                                                                 *)

Span(r) == IF r.t = "H" THEN HDR ELSE FTR

(* The records still intact after w bytes are written at a. *)
Clear(m, a, w) ==
  [x \in {y \in DOMAIN m : y + Span(m[y]) <= a \/ a + w <= y} |-> m[x]]

(* The index region below HeapStart is always mapped. *)
Mapped(H, a, w) ==
  \A pg \in Page(a) .. Page(a + w - 1) :
     pg < Page(HeapStart) \/ (pg \in HeapPages /\ H.pte[pg].present)

IsHdr(H, a) == a \in DOMAIN H.mem /\ H.mem[a].t = "H"
IsFtr(H, a) == a \in DOMAIN H.mem /\ H.mem[a].t = "F"
IsMagic(H, a) == a \in DOMAIN H.mem

Write(H, a, r) ==
  IF ~Ok(H) THEN H
  ELSE IF ~Mapped(H, a, Span(r)) THEN Fail(H, "pagefault")
  ELSE [H EXCEPT !.mem = (a :> r) @@ Clear(@, a, Span(r))]

SizeOf(H, a) == H.mem[a].size

SetSize(H, a, n) == IF Ok(H) THEN [H EXCEPT !.mem[a].size = n] ELSE H

(* footer->header = h: only the pointer word is written, so where no      *)
(* footer stands no magic appears.                                         *)
SetLink(H, f, h) == IF Ok(H) /\ IsFtr(H, f) THEN [H EXCEPT !.mem[f].hdr = h] ELSE H

-----------------------------------------------------------------------------
(* paging.c: the frame bitmap is `used'; page->frame and page->present of *)
(* the heap's pages are `pte'.  A page's bytes are those of its frame, so *)
(* remapping it leaves none of the heap's records on it.                   *)

(* The bitmap helpers take a frame address and divide it by 0x1000.  The  *)
(* page is scaled in the model, the frame numbers are not: the divisor   *)
(* stays the code's 0x1000.                                               *)
FRAME_ADDR_DIV == 4096

set_frame(u, frame_addr) == u \cup {frame_addr \div FRAME_ADDR_DIV}
clear_frame(u, frame_addr) == u \ {frame_addr \div FRAME_ADDR_DIV}

first_frame(H) == Min(Frames \ H.used)

alloc_frame(H, pg) ==
  IF ~Ok(H) \/ H.pte[pg].frame # 0 THEN H
  ELSE IF Frames \subseteq H.used THEN Fail(H, "noframe")
  ELSE [H EXCEPT !.used = set_frame(@, first_frame(H) * FRAME_ADDR_DIV),
                 !.pte[pg] = [present |-> TRUE, frame |-> first_frame(H)],
                 !.mem = Clear(@, pg * PAGE, PAGE)]

(* free_frame passes page->frame, a frame index, to clear_frame, which   *)
(* divides it by 0x1000 again: the bit cleared is frame 0's, and the      *)
(* freed frame stays marked used.  page->frame is cleared; page->present  *)
(* stays set.                                                              *)
free_frame(H, pg) ==
  IF ~Ok(H) \/ H.pte[pg].frame = 0 THEN H
  ELSE [H EXCEPT !.used = clear_frame(@, H.pte[pg].frame),
                 !.pte[pg].frame = 0,
                 !.mem = Clear(@, pg * PAGE, PAGE)]

-----------------------------------------------------------------------------
(* ordered_array: insert_ordered_array walks while less_than(array[i],    *)
(* item), comparing the sizes the headers hold now.                       *)

Readable(H, k) == IsHdr(H, H.index[k])

header_t_less_than(H, a, b) == SizeOf(H, a) < SizeOf(H, b)

(* Position of the first entry the walk stops at, Len+1 if none. *)
Scan(H, Stop(_)) ==
  Min({k \in 1..Len(H.index) : ~Readable(H, k) \/ Stop(k)} \cup {Len(H.index) + 1})

ScanFault(H, k) == k <= Len(H.index) /\ ~Readable(H, k)

insert_ordered_array(H, a) ==
  LET Stop(k) == ~header_t_less_than(H, H.index[k], a)
      k == Scan(H, Stop)
  IN IF ~Ok(H) THEN H
     ELSE IF ~IsHdr(H, a) \/ ScanFault(H, k) THEN Fail(H, "misread")
     ELSE [H EXCEPT !.index = InsertAt(@, k, a)]

IndexOf(H, a) ==
  IF a \in ToSet(H.index) THEN Min({k \in 1..Len(H.index) : H.index[k] = a}) ELSE 0

(* Mutant: the entry stays where it was. *)
remove_ordered_array_noop(H, k) == H

remove_ordered_array(H, k) == [H EXCEPT !.index = RemoveAt(@, k)]

-----------------------------------------------------------------------------
(* kheap.c.                                                                *)

(* `x & 0xFFFFF000 != 0' parses as `x & (0xFFFFF000 != 0)', that is x & 1. *)
Odd(x) == x % 2 = 1
(* The page-aligned address at or below x: x & 0xFFFFF000. *)
PageFloor(x) == x - (x % PAGE)

RECURSIVE ExpandLoop(_, _, _)
ExpandLoop(H, i, ns) ==
  IF i >= ns THEN H ELSE ExpandLoop(alloc_frame(H, Page(HeapStart + i)), i + PAGE, ns)

expand(H, new_size) ==
  LET ns == IF Odd(new_size) THEN PageFloor(new_size) + PAGE ELSE new_size
      old_size == H.end - HeapStart
      H1 == ExpandLoop(H, old_size, ns)
  IN IF ~Ok(H) THEN H
     ELSE IF ~(new_size > old_size) THEN Fail(H, "assert")
     ELSE IF HeapStart + ns > MaxAddr THEN Fail(H, "full")
     ELSE IF ~Ok(H1) THEN H1
     ELSE [H1 EXCEPT !.end = HeapStart + ns]

RECURSIVE ContractLoop(_, _, _)
ContractLoop(H, i, ns) ==
  IF ~(ns < i) THEN H ELSE ContractLoop(free_frame(H, Page(HeapStart + i)), i - PAGE, ns)

(* Mutant: the HEAP_MIN_SIZE clamp left out. *)
contract_noclamp(H, new_size) ==
  LET ns == IF Odd(new_size \div PAGE) THEN 2 * PAGE ELSE new_size
      old_size == H.end - HeapStart
  IN IF ~Ok(H) THEN H
     ELSE IF ~(new_size < old_size) THEN Fail(H, "assert")
     ELSE [ContractLoop(H, old_size - PAGE, ns) EXCEPT !.end = HeapStart + ns]

(* `new_size &= 0x1000; new_size += 0x1000' when bit 12 is set. *)
contract(H, new_size) ==
  LET ns1 == IF Odd(new_size \div PAGE) THEN 2 * PAGE ELSE new_size
      ns == IF ns1 < HEAP_MIN_SIZE THEN HEAP_MIN_SIZE ELSE ns1
      old_size == H.end - HeapStart
  IN IF ~Ok(H) THEN H
     ELSE IF ~(new_size < old_size) THEN Fail(H, "assert")
     ELSE [ContractLoop(H, old_size - PAGE, ns) EXCEPT !.end = HeapStart + ns]

(* The index position of the first hole that fits, Len+1 for -1.  With    *)
(* page_align the offset is taken only when location+sizeof(header_t) is  *)
(* odd, by the same precedence slip.                                       *)
find_smallest_hole(H, size, page_align) ==
  LET Fit(k) ==
        LET loc == H.index[k]
            offset == IF Odd(loc + HDR) THEN PAGE - ((loc + HDR) % PAGE) ELSE 0
        IN IF page_align THEN SizeOf(H, loc) - offset >= size
                         ELSE SizeOf(H, loc) >= size
  IN Scan(H, Fit)

(* The iterator == -1 branch of alloc: expand by the request, then grow the *)
(* endmost header in the index, or add one at the old end if there is none. *)
GrowHeap(H, new_size) ==
  LET old_length == H.end - HeapStart
      old_end == H.end
      H1 == expand(H, old_length + new_size)
      grow == H1.end - HeapStart - old_length
      last == Max(ToSet(H1.index))
      lsz == SizeOf(H1, last) + grow
  IN IF ~Ok(H1) THEN H1
     ELSE IF H1.index = <<>>
          THEN insert_ordered_array(
                 Write(Write(H1, old_end, Hdr(TRUE, grow)), old_end + grow - FTR, Ftr(old_end)),
                 old_end)
     ELSE IF ~IsHdr(H1, last) THEN Fail(H1, "misread")
     ELSE Write(SetSize(H1, last, lsz), last + lsz - FTR, Ftr(last))

(* Takes the hole at index position k for a block of `size' user bytes.    *)
Carve(H, k, size, page_align) ==
  LET new_size == size + HDR + FTR
      hpos == H.index[k]
      hsize == SizeOf(H, hpos)
      absorb == hsize - new_size < HDR + FTR
      sz == IF absorb THEN size + hsize - new_size ELSE size
      bsize == IF absorb THEN hsize ELSE new_size
      front == page_align /\ PageFloor(hpos) # 0
      fsize == PAGE - (hpos % PAGE) - HDR
      pos == IF front THEN hpos + fsize ELSE hpos
      rest == (IF front THEN hsize - fsize ELSE hsize) - bsize
      H1 == IF ~front THEN remove_ordered_array(H, k)
            ELSE IF fsize < 0 THEN Fail(H, "wrap")
            ELSE Write(Write(H, hpos, Hdr(TRUE, fsize)), pos - FTR, Ftr(hpos))
      H2 == Write(Write(H1, pos, Hdr(FALSE, bsize)), pos + HDR + sz, Ftr(pos))
      nh == pos + HDR + sz + FTR
      nf == nh + rest - FTR
      H3 == Write(H2, nh, Hdr(TRUE, rest))
      H4 == IF nf < H.end THEN Write(H3, nf, Ftr(nh)) ELSE H3
  IN [h |-> IF rest < 0 THEN Fail(H2, "wrap")
            ELSE IF rest = 0 THEN H2
            ELSE insert_ordered_array(H4, nh),
      p |-> pos + HDR]

RECURSIVE alloc(_, _, _)
alloc(H, size, page_align) ==
  LET k == find_smallest_hole(H, size + HDR + FTR, page_align)
  IN IF ~Ok(H) THEN [h |-> H, p |-> 0]
     ELSE IF ScanFault(H, k) THEN [h |-> Fail(H, "misread"), p |-> 0]
     ELSE IF k > Len(H.index)
          THEN LET H1 == GrowHeap(H, size + HDR + FTR)
               IN IF Ok(H1) THEN alloc(H1, size, page_align) ELSE [h |-> H1, p |-> 0]
     ELSE Carve(H, k, size, page_align)

(* The tail of free: give pages back when the freed chunk ends the heap,  *)
(* then add the header to the index unless unify-left found it there.     *)
(* When the chunk vanishes the code searches the index for test_header,   *)
(* not for header.                                                         *)
Release(H, header, footer, test_header, do_add) ==
  LET old_length == H.end - HeapStart
      Hc == contract(H, header - HeapStart)
      new_length == Hc.end - HeapStart
      rest == SizeOf(Hc, header) - (old_length - new_length)
      k == IndexOf(Hc, test_header)
      H1 == IF footer + FTR # H.end THEN H
            ELSE IF ~Ok(Hc) THEN Hc
            ELSE IF ~IsHdr(Hc, header) THEN Fail(Hc, "misread")
            ELSE IF rest > 0
                 THEN Write(SetSize(Hc, header, rest), header + rest - FTR, Ftr(header))
            ELSE IF rest < 0 THEN Fail(Hc, "wrap")
            ELSE IF k = 0 THEN Hc
            ELSE remove_ordered_array(Hc, k)
  IN IF do_add THEN insert_ordered_array(H1, header) ELSE H1

(* Unify right: the right hole's size is added and it leaves the index;   *)
(* its footer keeps pointing at the right hole's own header.              *)
UnifyRight(H, header, footer, do_add) ==
  LET test_header == footer + FTR
      rsize == SizeOf(H, test_header)
      k == IndexOf(H, test_header)
  IN IF ~Mapped(H, test_header, 4) THEN Fail(H, "pagefault")
     ELSE IF IsMagic(H, test_header) /\ ~IsHdr(H, test_header) THEN Fail(H, "misread")
     ELSE IF IsHdr(H, test_header) /\ H.mem[test_header].hole
          THEN IF k = 0 THEN Fail(H, "assert")
               ELSE Release(remove_ordered_array(SetSize(H, header, SizeOf(H, header) + rsize), k),
                            header, test_header + rsize - FTR, test_header, do_add)
     ELSE Release(H, header, footer, test_header, do_add)

(* Unify left: a hole whose footer sits just below the header absorbs it. *)
UnifyLeft(H, header) ==
  LET footer == header + SizeOf(H, header) - FTR
      test_footer == header - FTR
      left == H.mem[test_footer].hdr
  IN IF IsMagic(H, test_footer) /\ ~IsFtr(H, test_footer) THEN Fail(H, "misread")
     ELSE IF IsFtr(H, test_footer) /\ ~IsHdr(H, left) THEN Fail(H, "misread")
     ELSE IF IsFtr(H, test_footer) /\ H.mem[left].hole
          THEN UnifyRight(SetSize(SetLink(H, footer, left), left,
                                  SizeOf(H, left) + SizeOf(H, header)),
                          left, footer, FALSE)
     ELSE UnifyRight(H, header, footer, TRUE)

free(H, p) ==
  LET header == p - HDR
  IN IF ~IsMagic(H, header) THEN Fail(H, "assert")
     ELSE IF ~IsHdr(H, header) THEN Fail(H, "misread")
     ELSE IF ~IsMagic(H, header + SizeOf(H, header) - FTR) THEN Fail(H, "assert")
     ELSE UnifyLeft([H EXCEPT !.mem[header].hole = TRUE], header)

-----------------------------------------------------------------------------
(* The system: callers of kmalloc, kmalloc_a and kfree once the heap       *)
(* exists (kheap != 0).                                                    *)

(* Frames the heap's first pages were given after the kernel's. *)
InitFrame(pg) == NKernelFrames + pg - Page(HeapStart)

(* create_heap: one hole spanning the heap, with no footer written. *)
HeapInit ==
  /\ heap = [mem   |-> (HeapStart :> Hdr(TRUE, InitEnd - HeapStart)),
             index |-> <<HeapStart>>,
             end   |-> InitEnd,
             pte   |-> [pg \in HeapPages |->
                          IF pg < Page(InitEnd) THEN [present |-> TRUE, frame |-> InitFrame(pg)]
                          ELSE [present |-> FALSE, frame |-> 0]],
             used  |-> 0 .. InitFrame(Page(InitEnd)) - 1,
             err   |-> NoErr]
  /\ live = [s \in Slots |-> [p |-> 0, n |-> 0]]

kmalloc_int(s, sz, page_align) ==
  /\ Ok(heap)
  /\ live[s].p = 0
  /\ LET r == alloc(heap, sz, page_align)
     IN /\ heap' = r.h
        /\ live' = IF Ok(r.h) THEN [live EXCEPT ![s] = [p |-> r.p, n |-> sz]] ELSE live

kfree(s) ==
  /\ Ok(heap)
  /\ live[s].p # 0
  /\ heap' = free(heap, live[s].p)
  /\ live' = [live EXCEPT ![s] = [p |-> 0, n |-> 0]]

HeapNext ==
  \E s \in Slots :
    \/ \E sz \in Sizes, a \in Aligns : kmalloc_int(s, sz, a)
    \/ kfree(s)

HeapSpec == HeapInit /\ [][HeapNext]_vars

-----------------------------------------------------------------------------
(* Properties.                                                             *)

Rec == [t : {"H", "F"}, hole : BOOLEAN, size : Int, hdr : Nat]

HeapTypeOK ==
  /\ heap.err \in Errs
  /\ heap.end \in HeapStart + HEAP_MIN_SIZE .. MaxAddr
  /\ heap.used \subseteq Frames
  /\ heap.pte \in [HeapPages -> [present : BOOLEAN, frame : Frames]]
  /\ \A a \in DOMAIN heap.mem : heap.mem[a] \in Rec
  /\ heap.index \in Seq(Nat)
  /\ live \in [Slots -> [p : Nat, n : Sizes \cup {0}]]

(* kmalloc never returns a block that overlaps one another caller holds, *)
(* or that lies outside the heap's address range: alloc and free         *)
(* together implement the Allocator specification.                      *)
Abs == INSTANCE Allocator WITH Lo <- HeapStart, Hi <- MaxAddr, blocks <- live
AllocatorRefined == Abs!Spec

(* Every page the heap spans, [start_address, end_address), is present   *)
(* and backed by a frame of its own that the bitmap marks used: expand   *)
(* maps each page it grows over and contract unmaps only pages past the  *)
(* new end.                                                             *)
HeapPagesBacked ==
  \A pg \in Page(HeapStart) .. Page(heap.end - 1) :
     heap.pte[pg].present /\ heap.pte[pg].frame # 0 /\ heap.pte[pg].frame \in heap.used

(* No frame backs a present page of the heap and a kernel page, or two    *)
(* present pages of the heap: expand maps each page it grows over to a     *)
(* frame first_frame finds clear.  free_frame hands clear_frame a frame    *)
(* index where it wants an address (paging.c:104), so the bit of frame 0,  *)
(* the kernel's, is cleared and the next expand maps a heap page onto it.  *)
FramesExclusive ==
  \A pg, qg \in Page(HeapStart) .. Page(heap.end - 1) :
     heap.pte[pg].present =>
        /\ heap.pte[pg].frame >= NKernelFrames
        /\ (pg # qg /\ heap.pte[qg].present => heap.pte[pg].frame # heap.pte[qg].frame)

(* The index stays ordered by the sizes the headers hold, which is what  *)
(* makes the first fit find_smallest_hole finds the smallest one.        *)
IndexSorted ==
  \A i, j \in 1 .. Len(heap.index) :
     (i < j /\ IsHdr(heap, heap.index[i]) /\ IsHdr(heap, heap.index[j]))
        => SizeOf(heap, heap.index[i]) <= SizeOf(heap, heap.index[j])

(* A legal sequence of kmalloc and kfree calls never fails an ASSERT of  *)
(* kheap.c (magic numbers, the index search of unify-right, the sanity   *)
(* checks of expand and contract).                                       *)
HeapAssertsHold == heap.err # "assert"

(* kfree never touches an unmapped page: the header after the freed      *)
(* chunk that unify-right reads lies inside the mapped heap.             *)
KfreeNoFault == heap.err # "pagefault"

(* Every pointer free and alloc follow (a footer's header, an index      *)
(* entry) still names a header when it is read.                          *)
NoStaleHeaderRead == heap.err # "misread"

=============================================================================
