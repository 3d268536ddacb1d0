----------------------------- MODULE ScsiDevice -----------------------------
(***************************************************************************)
(* The SCSI device of iodev/usb/scsi_device.cc as a USB mass-storage      *)
(* front end drives it: requests are sent by tag, data moves through the  *)
(* request's DMA buffer, and the device answers through the completion    *)
(* callback with SCSI_REASON_DATA (a buffer is ready or wanted) and        *)
(* SCSI_REASON_DONE (the request is finished and freed).                   *)
(*                                                                         *)
(* SCSIRequest objects are numbered; `requests' and the static            *)
(* `free_requests' are the two linked lists, head first, and `obj' holds  *)
(* the objects' fields.  The seek timer is the device's one bochs timer:  *)
(* whether it is active and the tag setTimerParam gave it.  Sizes are in  *)
(* bytes with the block size scaled; the DMA buffer holds DmaBlocks        *)
(* blocks.  A command is its decoded CDB: opcode, LUN field, the flag and  *)
(* page bytes the code tests, the LBA and the length.                     *)
(*                                                                         *)
(* The front end (usb_msd) is not in the repository; Host models what the *)
(* callback interface lets it do.                                          *)
(***************************************************************************)
EXTENDS Naturals, Integers, Sequences, SequencesExt, FiniteSets

CONSTANTS
  Types,         \* the constructors used: SCSIDEV_TYPE_DISK ("disk"), SCSIDEV_TYPE_CDROM ("cdrom")
  BS,            \* block_size
  DmaBlocks,     \* SCSI_DMA_BUF_SIZE / block_size
  DiskBlocks,    \* hdimage->hd_size / block_size, or the CD's capacity
  Tags,          \* the tags the front end uses
  Cmds,          \* the commands it sends
  AsyncModes,    \* the async argument of scsi_send_command
  Faults,        \* the image failures that may happen: "lseek", "io"
  MaxObjs,       \* SCSIRequest objects `new' may create
  Tcq            \* the front end keeps several tags outstanding

NULL == 0
Objs == 1 .. MaxObjs
ALL == -1                 \* (Bit32u)-1 in sector_count: data other than sectors

SENSE_NO_SENSE == 0
SENSE_NOT_READY == 2
SENSE_MEDIUM_ERROR == 3
SENSE_HARDWARE_ERROR == 4
SENSE_ILLEGAL_REQUEST == 5
STATUS_GOOD == 0
STATUS_CHECK_CONDITION == 2
SCSI_MAX_INQUIRY_LEN == 256

VARIABLES
  dev,      \* the device: type, requests, free_requests, obj, nalloc, timer, curr_lba,
            \* sense, locked, inserted, max_lba
  host      \* the front end: per tag its state, the length the command
            \* announced, the bytes moved, and the last DONE it got

vars == <<dev, host>>

(* `buf' says whether dma_buf holds the request's own bytes ("data") or  *)
(* whatever it held before ("garbage").  `status' is not a field: only    *)
(* scsi_new_request writes it, always 0.                                   *)
NoReq == [tag |-> NULL, sector |-> 0, count |-> 0, buf_len |-> 0,
          write |-> FALSE, async |-> FALSE, seek |-> 0, buf |-> "garbage"]

-----------------------------------------------------------------------------
(* The request lists.                                                      *)

(* scsi_find_request: the first request of the list with the tag. *)
scsi_find_request(D, t) ==
  LET ix == {i \in 1 .. Len(D.requests) : D.obj[D.requests[i]].tag = t}
  IN IF ix = {} THEN NULL ELSE D.requests[Min(ix)]

(* Mutant: the free list is not consulted and a fresh object is made. *)
NewObj_nofree(D) == D.nalloc + 1

NewObj(D) == IF D.free # <<>> THEN Head(D.free) ELSE D.nalloc + 1

(* scsi_new_request: a request from the free list, or a new one, reset and *)
(* pushed at the head of `requests'.  `sector' keeps its old value.        *)
scsi_new_request(D, t) ==
  LET o == NewObj(D) IN
  [D EXCEPT !.free = IF D.free # <<>> /\ Head(D.free) = o THEN Tail(@) ELSE @,
            !.nalloc = IF o > D.nalloc THEN o ELSE @,
            !.obj[o] = [@ EXCEPT !.tag = t, !.count = 0, !.write = FALSE,
                                 !.async = FALSE, !.seek = 0, !.buf_len = 0,
                                 !.buf = "garbage"],
            !.requests = <<o>> \o @]

(* Mutant: the request pushed on free_requests without being unlinked. *)
scsi_remove_request_nounlink(D, o) ==
  [D EXCEPT !.free = <<o>> \o @]

(* scsi_remove_request: unlink the first occurrence (an object not in the *)
(* list is only logged as orphaned) and push it on free_requests.         *)
scsi_remove_request(D, o) ==
  LET ix == {i \in 1 .. Len(D.requests) : D.requests[i] = o}
  IN [D EXCEPT !.requests = IF ix = {} THEN @ ELSE RemoveAt(@, Min(ix)),
               !.free = <<o>> \o @]

Ev(t, reason, arg) == [tag |-> t, reason |-> reason, arg |-> arg]

(* scsi_command_complete: sense is set, the request freed, and DONE sent. *)
scsi_command_complete(D, o, status, sns) ==
  [d |-> scsi_remove_request([D EXCEPT !.sense = sns], o),
   ev |-> <<Ev(D.obj[o].tag, "DONE", status)>>]

(* Mutant: the request freed but the seek timer left running. *)
scsi_cancel_io_keeptimer(D, t) ==
  LET o == scsi_find_request(D, t)
  IN IF o = NULL THEN D ELSE scsi_remove_request(D, o)

(* scsi_cancel_io: the request of the tag is freed and the seek timer     *)
(* stopped, whichever request it was started for.  No callback.           *)
scsi_cancel_io(D, t) ==
  LET o == scsi_find_request(D, t)
  IN IF o = NULL THEN D
     ELSE scsi_remove_request([D EXCEPT !.timer.active = FALSE], o)

-----------------------------------------------------------------------------
(* The data path.  A handler returns the device state and the callbacks   *)
(* it made, in order: [d |-> ..., ev |-> <<...>>].                         *)

Quiet(D) == [d |-> D, ev |-> <<>>]

Then(r, F(_)) == LET s == F(r.d) IN [d |-> s.d, ev |-> r.ev \o s.ev]

(* start_seek: the one seek timer is (re)armed for this request's tag. *)
start_seek(D, o) ==
  [D EXCEPT !.timer = [active |-> TRUE, tag |-> D.obj[o].tag],
            !.obj[o].seek = 1]

(* Mutant: DATA reports the size of the DMA buffer, not what was read. *)
scsi_read_complete_full(D, o) ==
  [d |-> [D EXCEPT !.curr_lba = D.obj[o].sector],
   ev |-> <<Ev(D.obj[o].tag, "DATA", DmaBlocks * BS)>>]

(* scsi_read_complete(r, 0): the buffer is ready. *)
scsi_read_complete(D, o) ==
  [d |-> [D EXCEPT !.curr_lba = D.obj[o].sector],
   ev |-> <<Ev(D.obj[o].tag, "DATA", D.obj[o].buf_len)>>]

(* scsi_write_complete(r, 0): DONE when no sector is left, else the next  *)
(* buffer, of at most the DMA buffer's size, is asked for.                 *)
scsi_write_complete(D, o) ==
  LET r == D.obj[o]
      len == IF r.count * BS > DmaBlocks * BS THEN DmaBlocks * BS ELSE r.count * BS
  IN IF r.count = 0
     THEN scsi_command_complete(D, o, STATUS_GOOD, SENSE_NO_SENSE)
     ELSE [d |-> [D EXCEPT !.obj[o].buf_len = len, !.curr_lba = r.sector],
           ev |-> <<Ev(r.tag, "DATA", len)>>]

(* The sectors of one buffer moved: sector advances, sector_count drops. *)
Advance(D, o, n) ==
  [D EXCEPT !.obj[o].sector = @ + n, !.obj[o].count = @ - n]

ReadChunk(count) == IF count > DmaBlocks THEN DmaBlocks ELSE count

(* seek_complete with the image failure f ("none", "lseek" or "io").      *)
(* Reading: at most a DMA buffer of sectors; a failed lseek or short read  *)
(* of the image (a read past its end is one) completes the request with  *)
(* CHECK CONDITION.  Writing: the *)
(* buffer's blocks are written; a failed lseek completes the request but  *)
(* the code goes on writing to it.                                        *)
seek_complete(D0, o, f) ==
  LET D == [D0 EXCEPT !.obj[o].seek = 0]
      r == D.obj[o]
  IN IF ~r.write THEN
       LET n == ReadChunk(r.count)
           D1 == [D EXCEPT !.obj[o].buf_len = n * BS]
           g == IF r.sector + n > DiskBlocks THEN "io" ELSE f
       IN IF D.type = "cdrom" /\ g = "io"
          THEN scsi_command_complete(D1, o, STATUS_CHECK_CONDITION, SENSE_MEDIUM_ERROR)
          ELSE IF D.type = "disk" /\ g \in {"lseek", "io"}
          THEN scsi_command_complete(D1, o, STATUS_CHECK_CONDITION, SENSE_HARDWARE_ERROR)
          ELSE scsi_read_complete(Advance([D1 EXCEPT !.obj[o].buf = "data"], o, n), o)
     ELSE
       LET n == r.buf_len \div BS
           lseekFail == IF f = "lseek"
                        THEN scsi_command_complete(D, o, STATUS_CHECK_CONDITION, SENSE_HARDWARE_ERROR)
                        ELSE Quiet(D)
           Write(E) == IF f = "io"
                       THEN scsi_command_complete(E, o, STATUS_CHECK_CONDITION, SENSE_HARDWARE_ERROR)
                       ELSE scsi_write_complete(Advance(E, o, n), o)
       IN IF n = 0 THEN Quiet(D) ELSE Then(lseekFail, Write)

(* scsi_read_data: unknown tag ignored; data other than sectors sent once; *)
(* no sector left completes; else the first async read starts the seek     *)
(* timer and any other read seeks at once (none while a seek is pending).  *)
scsi_read_data(D, t, f) ==
  LET o == scsi_find_request(D, t)
      r == D.obj[o]
  IN IF o = NULL THEN Quiet(D)
     ELSE IF r.count = ALL
     THEN [d |-> [D EXCEPT !.obj[o].count = 0], ev |-> <<Ev(t, "DATA", r.buf_len)>>]
     ELSE IF r.count = 0
     THEN scsi_command_complete(D, o, STATUS_GOOD, SENSE_NO_SENSE)
     ELSE IF r.async /\ r.seek = 2 THEN Quiet(start_seek(D, o))
     ELSE IF r.seek = 0 THEN seek_complete(D, o, f)
     ELSE Quiet(D)

(* scsi_write_data: on a disk, a buffer holding a block is written (after *)
(* the seek timer the first time in async mode), an empty one asks for    *)
(* data; a CD-ROM refuses.                                                 *)
scsi_write_data(D, t, f) ==
  LET o == scsi_find_request(D, t)
      r == D.obj[o]
  IN IF o = NULL THEN Quiet(D)
     ELSE IF D.type # "disk"
     THEN scsi_command_complete(D, o, STATUS_CHECK_CONDITION, SENSE_HARDWARE_ERROR)
     ELSE IF r.buf_len \div BS > 0
          THEN IF r.async /\ r.seek = 2 THEN Quiet(start_seek(D, o))
               ELSE IF r.seek = 0 THEN seek_complete(D, o, f)
               ELSE Quiet(D)
     ELSE scsi_write_complete(D, o)

(* seek_timer: the request of the timer's tag, which may be gone (NULL). *)
seek_timer(D, f) ==
  LET D1 == [D EXCEPT !.timer.active = FALSE]
      o == scsi_find_request(D1, D.timer.tag)
  IN IF o = NULL THEN [d |-> [D1 EXCEPT !.crashed = TRUE], ev |-> <<>>]
     ELSE seek_complete(D1, o, f)

-----------------------------------------------------------------------------
(* scsi_send_command.  Exec gives the outcome of the command switch:      *)
(* "ok" with the request's fields set, or the label it jumps to.          *)

SerialLen == 8        \* strlen(drive_serial_str): serial numbers from 12345678
IdLen == 10           \* strlen(DEVICE_NAME)
TocLen == 20          \* the length cdrom->read_toc returns

Bit(x, b) == (x \div b) % 2 = 1

Clamp(x, m) == IF x > m THEN m ELSE x

(* The three EVPD pages: 0x00 lists the pages, 0x80 is the serial number  *)
(* (cut to len), 0x83 the device identification; the lengths are not cut *)
(* to len.                                                                 *)
Evpd(c) ==
  IF c.len < 4 THEN [res |-> "fail"]
  ELSE CASE c.page = \h00 -> [res |-> "ok", buf_len |-> 7]
         [] c.page = \h80 -> [res |-> "ok", buf_len |-> 4 + Clamp(SerialLen, c.len)]
         [] c.page = \h83 -> [res |-> "ok", buf_len |-> 8 + IdLen]
         [] OTHER -> [res |-> "fail"]

Inquiry(c) ==
  IF Bit(c.b1, 2) THEN [res |-> "fail"]
  ELSE IF Bit(c.b1, 1) THEN Evpd(c)
  ELSE IF c.page # 0 \/ c.len < 5 THEN [res |-> "fail"]
  ELSE [res |-> "ok", buf_len |-> Clamp(c.len, SCSI_MAX_INQUIRY_LEN)]

(* MODE SENSE: a 4-byte header, the caching page, the CD page on a CD,    *)
(* cut to len.                                                             *)
ModeSense(D, c) ==
  LET pg == c.page % 64
      n == 4 + (IF pg \in {8, \h3f} THEN 20 ELSE 0)
             + (IF pg \in {\h3f, \h2a} /\ D.type = "cdrom" THEN 22 ELSE 0)
  IN [res |-> "ok", buf_len |-> Clamp(n, c.len)]

NbSectors(D) == IF D.type = "cdrom" THEN D.max_lba ELSE DiskBlocks - 1

(* The command switch: `ok' outcomes give buf_len and, for READ and WRITE, *)
(* the sectors; `inserted' and `locked' change on START STOP and PREVENT. *)
Exec(D, c) ==
  LET Ok(n) == [res |-> "ok", buf_len |-> n]
      Rw(w) == [res |-> "ok", buf_len |-> 0, rw |-> TRUE, write |-> w]
  IN CASE c.op = \h00 -> IF ~D.inserted THEN [res |-> "notready"] ELSE Ok(0)
       [] c.op = \h03 -> IF c.len < 4 THEN [res |-> "fail"]
                         ELSE Ok(IF D.sense = SENSE_NOT_READY /\ c.len >= 18 THEN 18 ELSE 4)
       [] c.op = \h12 -> Inquiry(c)
       [] c.op \in {\h16, \h17} -> IF Bit(c.b1, 1) THEN [res |-> "fail"] ELSE Ok(0)
       [] c.op \in {\h1a, \h5a} -> ModeSense(D, c)
       [] c.op = \h1b -> [res |-> "ok", buf_len |-> 0,
                          eject |-> D.type = "cdrom" /\ Bit(c.b4, 2) /\ ~Bit(c.b4, 1)]
       [] c.op = \h1e -> [res |-> "ok", buf_len |-> 0, lock |-> Bit(c.b4, 1)]
       [] c.op = \h25 -> IF NbSectors(D) # 0 THEN Ok(8) ELSE [res |-> "notready"]
       [] c.op \in {\h08, \h28, \h88} ->
             IF ~D.inserted THEN [res |-> "notready"]
             ELSE IF c.lba > D.max_lba THEN [res |-> "illegal"] ELSE Rw(FALSE)
       [] c.op \in {\h0a, \h2a, \h8a} ->
             IF c.lba > D.max_lba THEN [res |-> "illegal"] ELSE Rw(TRUE)
       [] c.op = \h35 -> Ok(0)
       [] c.op = \h43 -> IF D.type # "cdrom" THEN [res |-> "fail"]
                         ELSE IF ~D.inserted THEN [res |-> "notready"]
                         ELSE Ok(Clamp(c.len, TocLen))
       [] c.op = \h46 -> Ok(8)
       [] c.op \in {\h56, \h57} -> IF c.b1 % 4 # 0 THEN [res |-> "fail"] ELSE Ok(0)
       [] c.op = \ha0 -> IF c.len < 16 THEN [res |-> "fail"] ELSE Ok(16)
       [] c.op = \h2f -> IF c.lba > D.max_lba THEN [res |-> "illegal"]
                         ELSE IF Bit(c.b1, 2) THEN [res |-> "fail"] ELSE Ok(0)
       [] c.op = \h23 -> Ok(Clamp(c.len, 12))
       [] OTHER -> [res |-> "fail"]

(* The CDB length switch and the LUN check, which lets REQUEST SENSE and *)
(* INQUIRY through.                                                        *)
Decode(c) ==
  IF c.op \div 32 \notin {0, 1, 2, 4, 5} THEN [res |-> "fail"]
  ELSE IF (c.lun # 0 \/ c.lunf # 0) /\ c.op \notin {\h03, \h12} THEN [res |-> "fail"]
  ELSE [res |-> "ok"]

(* The request's fields and the device flags an "ok" outcome sets. *)
Apply(D, o, c, x, async) ==
  LET rw == "rw" \in DOMAIN x
  IN [D EXCEPT
        !.obj[o] = [@ EXCEPT !.buf_len = x.buf_len,
                             !.buf = IF x.buf_len > 0 THEN "data" ELSE @,
                             !.sector = IF rw THEN c.lba ELSE @,
                             !.count = IF rw THEN c.len ELSE @,
                             !.write = rw /\ x.write,
                             !.seek = IF rw /\ async THEN 2 ELSE @,
                             !.async = IF rw THEN async ELSE @],
        !.inserted = IF "eject" \in DOMAIN x /\ x.eject THEN FALSE ELSE @,
        !.locked = IF "lock" \in DOMAIN x THEN x.lock ELSE @]

Failed(res) ==
  CASE res = "fail" -> SENSE_ILLEGAL_REQUEST
    [] res = "illegal" -> SENSE_HARDWARE_ERROR
    [] res = "notready" -> SENSE_NOT_READY

(* scsi_send_command: a request still holding the tag is cancelled, a new *)
(* one made, the command run; failures complete it with CHECK CONDITION   *)
(* and return 0.  A command with no data completes with GOOD, and the     *)
(* epilogue then still writes sector_count = -1 into the freed request   *)
(* of a read.  The result is negative for writes.                          *)
scsi_send_command(D0, t, c, async) ==
  LET D1 == scsi_new_request(scsi_cancel_io(D0, t), t)
      o == D1.requests[1]
      x == IF Decode(c).res = "ok" THEN Exec(D1, c) ELSE Decode(c)
  IN IF x.res # "ok"
     THEN scsi_command_complete(D1, o, STATUS_CHECK_CONDITION, Failed(x.res))
            @@ [ret |-> 0]
     ELSE
       LET D2 == Apply(D1, o, c, x, async)
           r == D2.obj[o]
           e == IF r.count = 0 /\ r.buf_len = 0
                THEN scsi_command_complete(D2, o, STATUS_GOOD, SENSE_NO_SENSE)
                ELSE Quiet(D2)
           len == r.count * BS + r.buf_len
       IN IF r.write THEN e @@ [ret |-> -len]
          ELSE [e EXCEPT !.d.obj[o].count = IF r.count = 0 THEN ALL ELSE @]
                 @@ [ret |-> len]

-----------------------------------------------------------------------------
(* Save and restore.  save_requests writes one block of lines per request *)
(* of `requests', head first, numbered from 0; a line is its first token  *)
(* (the number, a field name or "}") and its value as the format prints   *)
(* it.  A request's buffer goes to a file of its own.  restore_requests   *)
(* reads the lines back into a device just constructed in a new bochs     *)
(* process: no requests, and the static free_requests empty.               *)

Line(k, v) == [k |-> k, v |-> v]

(* One request's block, each value as fprintf's conversion prints it:     *)
(* bools as 0 or 1.  sector_count is printed with %u and read back with   *)
(* strtoll and a (Bit32u) cast, which gives back its 32 bits, ALL         *)
(* ((Bit32u)-1, printed 4294967295) included, so it is kept as it is.     *)
SavedRequest(i, r) ==
  << Line("{", i), Line("tag", r.tag), Line("sector", r.sector),
     Line("sector_count", r.count), Line("buf_len", r.buf_len),
     Line("status", 0), Line("write_cmd", IF r.write THEN 1 ELSE 0),
     Line("async_mode", IF r.async THEN 1 ELSE 0),
     Line("seek_pending", r.seek), Line("}", 0) >>

(* save_requests: the request file's lines (none when there is no request: *)
(* no file is written, and nothing is restored).                           *)
save_requests(D) ==
  FlattenSeq([i \in 1 .. Len(D.requests) |-> SavedRequest(i - 1, D.obj[D.requests[i]])])

(* The request of a new scsi_device_t, before register_state's values     *)
(* (sense, locked, curr_lba), the timers and the configuration (inserted, *)
(* max_lba) are restored, which leaves those as they were saved.           *)
Constructed(D) ==
  [D EXCEPT !.requests = <<>>, !.free = <<>>, !.nalloc = 0,
            !.obj = [o \in Objs |-> NoReq]]

(* A field line: strtoll of the value, cast to the field's type. *)
SetField(r, k, v) ==
  CASE k = "sector" -> [r EXCEPT !.sector = v]
    [] k = "sector_count" -> [r EXCEPT !.count = v]
    [] k = "buf_len" -> [r EXCEPT !.buf_len = v]
    [] k = "status" -> r
    [] k = "write_cmd" -> [r EXCEPT !.write = (v # 0)]
    [] k = "async_mode" -> [r EXCEPT !.async = (v # 0)]
    [] k = "seek_pending" -> [r EXCEPT !.seek = v]

Fields == {"sector", "sector_count", "buf_len", "status", "write_cmd",
           "async_mode", "seek_pending"}

(* Mutant: the seek_pending branch missing, a data format error. *)
restore_line_noseek(P, l) ==
  IF P.err THEN P
  ELSE IF l.k = "}" THEN [P EXCEPT !.reqid = -1, !.r = NULL, !.tag = 0]
  ELSE IF P.reqid < 0 THEN [P EXCEPT !.reqid = l.v]
  ELSE IF l.k = "tag"
       THEN IF P.tag # 0 THEN [P EXCEPT !.err = TRUE]
            ELSE LET D == scsi_new_request(P.d, l.v)
                 IN [P EXCEPT !.d = D, !.r = D.requests[1], !.tag = l.v]
  ELSE IF l.k \in Fields \ {"seek_pending"}
       THEN [P EXCEPT !.d.obj[P.r] = SetField(@, l.k, l.v)]
  ELSE [P EXCEPT !.err = TRUE]

(* One line of restore_requests' loop, which stops at a format error.     *)
(* "}" ends a block: the buffer file is opened with "wb", which empties   *)
(* it, and the fread from the write-only stream reads nothing, so dma_buf *)
(* keeps what the new buffer held.  A first token of a block is its        *)
(* number; "tag" creates the request (a second tag in a block is an        *)
(* error); the other names set its fields.                                 *)
restore_line(P, l) ==
  IF P.err THEN P
  ELSE IF l.k = "}" THEN [P EXCEPT !.reqid = -1, !.r = NULL, !.tag = 0]
  ELSE IF P.reqid < 0 THEN [P EXCEPT !.reqid = l.v]
  ELSE IF l.k = "tag"
       THEN IF P.tag # 0 THEN [P EXCEPT !.err = TRUE]
            ELSE LET D == scsi_new_request(P.d, l.v)
                 IN [P EXCEPT !.d = D, !.r = D.requests[1], !.tag = l.v]
  ELSE IF l.k \in Fields
       THEN [P EXCEPT !.d.obj[P.r] = SetField(@, l.k, l.v)]
  ELSE [P EXCEPT !.err = TRUE]

restore_requests(D, lines) ==
  FoldLeft(restore_line, [d |-> D, reqid |-> -1, r |-> NULL, tag |-> 0, err |-> FALSE],
           lines).d

-----------------------------------------------------------------------------
(* The front end.  Per tag: "idle", "xfer" (a buffer may be moved) or      *)
(* "wait" (a read or write call returned without a callback); the length  *)
(* scsi_send_command returned, the bytes DATA callbacks offered, the       *)
(* command, and the status and byte counts of the last DONE.  A callback  *)
(* for a tag the front end is not using is recorded in `stray'.           *)

NoCmd == [op |-> -1, lun |-> 0, lunf |-> 0, b1 |-> 0, page |-> 0, b4 |-> 0,
          lba |-> 0, len |-> 0]

Idle == [st |-> "idle", out |-> FALSE, expect |-> 0, moved |-> 0, cmd |-> NoCmd]

ApplyEv(H, e) ==
  LET t == e.tag IN
  IF H.tag[t].st = "idle" THEN [H EXCEPT !.stray = TRUE]
  ELSE IF e.reason = "DATA"
  THEN [H EXCEPT !.tag[t].st = "xfer", !.tag[t].moved = @ + e.arg]
  ELSE [H EXCEPT !.tag[t] = Idle,
                 !.last[t] = [status |-> e.arg, moved |-> H.tag[t].moved,
                              expect |-> H.tag[t].expect]]

Deliver(H, evs) == FoldLeft(ApplyEv, H, evs)

Init ==
  /\ dev \in {[type |-> ty, requests |-> <<>>, free |-> <<>>, nalloc |-> 0,
               obj |-> [o \in Objs |-> NoReq],
               timer |-> [active |-> FALSE, tag |-> NULL],
               curr_lba |-> IF ty = "disk" THEN DiskBlocks - 1 ELSE 0,
               sense |-> SENSE_NO_SENSE, locked |-> FALSE,
               inserted |-> ty = "disk",
               max_lba |-> IF ty = "disk" THEN DiskBlocks - 1 ELSE 0,
               crashed |-> FALSE] : ty \in Types}
  /\ host = [tag |-> [t \in Tags |-> Idle],
             last |-> [t \in Tags |-> [status |-> STATUS_GOOD, moved |-> 0, expect |-> 0]],
             stray |-> FALSE]

(* A command on tag t: without tagged queueing only when no other tag is  *)
(* in use.  The front end records the length and direction the call       *)
(* returns, then takes the callbacks it made.                              *)
SendCommand(t, c, async) ==
  LET r == scsi_send_command(dev, t, c, async)
      n == IF r.ret < 0 THEN -r.ret ELSE r.ret
      H == [host EXCEPT !.tag[t] = [st |-> "wait", out |-> r.ret < 0,
                                    expect |-> n, moved |-> 0, cmd |-> c]]
      H2 == Deliver(H, r.ev)
  IN /\ ~dev.crashed
     /\ Tcq \/ \A u \in Tags \ {t} : host.tag[u].st = "idle"
     /\ dev.nalloc < MaxObjs \/ dev.free # <<>>
     /\ dev' = r.d
     /\ host' = IF H2.tag[t].st = "wait" /\ n > 0
                THEN [H2 EXCEPT !.tag[t].st = "xfer"] ELSE H2

ReadData(t, f) ==
  LET r == scsi_read_data(dev, t, f) IN
  /\ ~dev.crashed /\ host.tag[t].st = "xfer" /\ ~host.tag[t].out
  /\ dev' = r.d
  /\ host' = Deliver([host EXCEPT !.tag[t].st = "wait"], r.ev)

(* scsi_get_buf: the buffer of the tag's request, into which the front    *)
(* end copies the data of a write before it calls scsi_write_data.         *)
scsi_get_buf(D, t) ==
  LET o == scsi_find_request(D, t)
  IN IF o = NULL THEN D ELSE [D EXCEPT !.obj[o].buf = "data"]

WriteData(t, f) ==
  LET r == scsi_write_data(scsi_get_buf(dev, t), t, f) IN
  /\ ~dev.crashed /\ host.tag[t].st = "xfer" /\ host.tag[t].out
  /\ dev' = r.d
  /\ host' = Deliver([host EXCEPT !.tag[t].st = "wait"], r.ev)

(* The front end abandons a command (reset, or the guest gave up). *)
CancelIo(t) ==
  /\ ~dev.crashed /\ host.tag[t].st # "idle"
  /\ dev' = scsi_cancel_io(dev, t)
  /\ host' = [host EXCEPT !.tag[t] = Idle]

SeekTimer(f) ==
  LET r == seek_timer(dev, f) IN
  /\ ~dev.crashed /\ dev.timer.active
  /\ dev' = r.d
  /\ host' = Deliver(host, r.ev)

(* set_inserted: a CD is put in (max_lba from its capacity) or taken out. *)
set_inserted(D, v) ==
  [D EXCEPT !.inserted = v,
            !.max_lba = IF v THEN DiskBlocks - 1 ELSE 0,
            !.curr_lba = IF v THEN DiskBlocks - 1 ELSE @]

SetInserted(v) ==
  /\ dev.type = "cdrom" /\ ~dev.crashed /\ dev.inserted # v
  /\ dev' = set_inserted(dev, v)
  /\ UNCHANGED host

(* The state is saved and bochs is restarted from it: the requests go     *)
(* through the request file; the front end restores its own state.         *)
SaveRestore ==
  /\ ~dev.crashed
  /\ dev' = restore_requests(Constructed(dev), save_requests(dev))
  /\ UNCHANGED host

FaultsOf == {"none"} \cup Faults

Next ==
  \/ \E t \in Tags, c \in Cmds, a \in AsyncModes : SendCommand(t, c, a)
  \/ \E t \in Tags, f \in FaultsOf : ReadData(t, f) \/ WriteData(t, f)
  \/ \E t \in Tags : CancelIo(t)
  \/ \E f \in FaultsOf : SeekTimer(f)
  \/ \E v \in BOOLEAN : SetInserted(v)
  \/ SaveRestore

(* The bochs timer fires once armed, and the front end moves every buffer *)
(* it was offered.                                                         *)
Fairness ==
  /\ WF_vars(\E f \in FaultsOf : SeekTimer(f))
  /\ \A t \in Tags : WF_vars(\E f \in FaultsOf : ReadData(t, f) \/ WriteData(t, f))

Spec == Init /\ [][Next]_vars /\ Fairness

-----------------------------------------------------------------------------
(* Properties.                                                             *)

(* Types; and the pool of SCSIRequest objects never holds more than one   *)
(* per tag: freed requests are reused, none leaks.                         *)
ScsiTypeOK ==
  /\ dev.nalloc \in 0 .. Cardinality(Tags)
  /\ \A i \in 1 .. Len(dev.requests) : dev.requests[i] \in 1 .. dev.nalloc
  /\ \A i \in 1 .. Len(dev.free) : dev.free[i] \in 1 .. dev.nalloc
  /\ dev.timer.tag \in Tags \cup {NULL}
  /\ \A t \in Tags : host.tag[t].st \in {"idle", "xfer", "wait"}
  /\ host.stray \in BOOLEAN

(* The request lists stay sound: no SCSIRequest is on both lists or twice  *)
(* on one, and the device holds a request only for a tag whose command the *)
(* front end still has outstanding, one per tag.                           *)
RequestsMatchCommands ==
  LET rs == dev.requests IN
  /\ IsInjective(rs \o dev.free)
  /\ \A i \in 1 .. Len(rs) : host.tag[dev.obj[rs[i]].tag].st # "idle"
  /\ \A i, j \in 1 .. Len(rs) : i # j => dev.obj[rs[i]].tag # dev.obj[rs[j]].tag

(* The DATA callbacks of a command never offer more than the length       *)
(* scsi_send_command announced, and a command that ends GOOD has moved     *)
(* exactly that much: the sectors of a READ or WRITE come in DMA-buffer    *)
(* chunks over several read_data / write_data calls and seek timers.       *)
TransferMatchesLength ==
  \A t \in Tags :
     /\ host.tag[t].moved <= host.tag[t].expect
     /\ host.last[t].status = STATUS_GOOD => host.last[t].moved = host.last[t].expect

(* An armed seek timer belongs to a live request that waits for it: when  *)
(* it fires, seek_timer finds the request of its tag (a NULL request would *)
(* be dereferenced by seek_complete).                                      *)
TimerOwned ==
  /\ ~dev.crashed
  /\ dev.timer.active =>
        LET o == scsi_find_request(dev, dev.timer.tag)
        IN o # NULL /\ dev.obj[o].seek = 1

(* A read or write call that returned waiting for the seek timer is       *)
(* eventually answered by a callback.                                      *)
SeekCompletes ==
  \A t \in Tags : host.tag[t].st = "wait" ~> host.tag[t].st # "wait"

(* A save and restore gives back every request: the same tags, each with *)
(* the sectors, counts, buffer length, direction, mode and seek state it   *)
(* had, through fprintf's formats and restore_requests' parser.            *)
ReqFields(D, o) == <<D.obj[o].tag, D.obj[o].sector, D.obj[o].count, D.obj[o].buf_len,
                     D.obj[o].write, D.obj[o].async, D.obj[o].seek>>

RestoreKeepsRequests ==
  [][SaveRestore =>
       \A t \in Tags :
          LET o == scsi_find_request(dev, t)
              o2 == scsi_find_request(dev', t)
          IN /\ (o = NULL) = (o2 = NULL)
             /\ o # NULL => ReqFields(dev, o) = ReqFields(dev', o2)]_vars

(* The buffer of a read whose DATA the front end was offered, and which   *)
(* it copies out over several USB packets, holds the bytes read, also     *)
(* across a save and restore.                                              *)
OfferedDataIntact ==
  \A t \in Tags :
     host.tag[t].st = "xfer" /\ ~host.tag[t].out /\ host.tag[t].moved > 0 =>
        LET o == scsi_find_request(dev, t) IN o # NULL => dev.obj[o].buf = "data"

(* Every callback is for a command the front end has outstanding: nothing *)
(* arrives for a tag whose command already got its DONE.                   *)
NoStrayCallback == ~host.stray

(* A command with an allocation length (REQUEST SENSE, INQUIRY, MODE      *)
(* SENSE, READ TOC, GET CONFIGURATION, REPORT LUNS, READ FORMAT            *)
(* CAPACITIES) returns no more bytes than it allows.                       *)
AllocOps == {\h03, \h12, \h1a, \h5a, \h43, \h46, \ha0, \h23}

ReplyWithinAllocation ==
  \A t \in Tags :
     host.tag[t].st # "idle" /\ host.tag[t].cmd.op \in AllocOps =>
        host.tag[t].expect <= host.tag[t].cmd.len

(* A medium the front end locked with PREVENT ALLOW MEDIUM REMOVAL is not *)
(* ejected by START STOP UNIT.                                             *)
NoEjectWhileLocked ==
  [][dev.locked /\ dev.inserted /\ ~dev'.inserted => \E v \in BOOLEAN : SetInserted(v)]_vars

(* Without a medium there is no capacity: READ CAPACITY answers NOT READY *)
(* only when max_lba is 0, and set_inserted keeps the two together.        *)
NoMediumNoCapacity == ~dev.inserted => dev.max_lba = 0

=============================================================================
