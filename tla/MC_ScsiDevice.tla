--------------------------- MODULE MC_ScsiDevice ---------------------------
(* Command sets for ScsiDevice: decoded CDBs a front end sends.  Disks of *)
(* DiskBlocks blocks with a DMA buffer of DmaBlocks blocks, so that a READ *)
(* or WRITE of three blocks takes two buffers and one near the end runs   *)
(* past the image.                                                         *)
EXTENDS ScsiDevice

CONSTANTS t1, t2

MCTags == {t1, t2}
SymTags == Permutations(MCTags)

Cdb(op, b1, page, b4, lba, len) ==
  [op |-> op, lun |-> 0, lunf |-> 0, b1 |-> b1, page |-> page, b4 |-> b4,
   lba |-> lba, len |-> len]

TUR == Cdb(\h00, 0, 0, 0, 0, 0)
Read3 == Cdb(\h28, 0, 0, 0, 0, 3)
ReadEnd == Cdb(\h28, 0, 0, 0, 3, 2)
ReadBad == Cdb(\h28, 0, 0, 0, 5, 1)
Write3 == Cdb(\h2a, 0, 0, 0, 1, 3)
Inquiry36 == Cdb(\h12, 0, 0, 0, 0, 36)
Sense18 == Cdb(\h03, 0, 0, 0, 0, 18)
ModeAll == Cdb(\h1a, 0, \h3f, 0, 0, 8)
Unknown == Cdb(\h04, 0, 0, 0, 0, 0)
OtherLun == [Cdb(\h00, 0, 0, 0, 0, 0) EXCEPT !.lunf = 1]
Capacity == Cdb(\h25, 0, 0, 0, 0, 0)
Toc == Cdb(\h43, 0, 0, 0, 0, 12)
Prevent == Cdb(\h1e, 0, 0, 1, 0, 0)
Eject == Cdb(\h1b, 0, 0, 2, 0, 0)
EvpdId == Cdb(\h12, 1, \h83, 0, 0, 4)

(* States that differ only in what no later step reads are identified:   *)
(* the fields of a request on the free list (scsi_new_request resets all  *)
(* but `sector', which READ and WRITE set before it is read), curr_lba    *)
(* (only the seek time depends on it) and the tag of a stopped timer.      *)
OnFree(o) == \E i \in 1 .. Len(dev.free) : dev.free[i] = o

View ==
  <<[dev EXCEPT !.obj = [o \in Objs |-> IF OnFree(o) THEN NoReq ELSE @[o]],
                !.curr_lba = 0,
                !.timer.tag = IF dev.timer.active THEN @ ELSE NULL],
    host>>

MCDiskCmds == {TUR, Read3, ReadEnd, ReadBad, Write3, Inquiry36, Sense18,
               ModeAll, Unknown, OtherLun}
MCRwCmds == {Read3, Write3}
MCCdCmds == {TUR, Read3, Write3, Capacity, Toc, Prevent, Eject, Sense18}
MCAllCmds == {TUR, Read3, ReadEnd, ReadBad, Write3, Inquiry36, Sense18,
              Capacity, Prevent, Eject, Unknown}
(* Without TCQ a tag is sent only while every other tag is idle, and a    *)
(* request never outlives its tag's command, so the run with every        *)
(* command uses one tag; the TCQ run uses two.                            *)
MCTag1 == {t1}
MCEjectCmds == {Prevent, Eject, Capacity}
MCEvpdCmds == {Inquiry36, EvpdId}
=============================================================================
