# TLA+ models of the bochs slirp stack, the USB SCSI and HID devices and the x86osdev kernels

This directory holds TLA+ models of four parts of the repository:
* `src/bochs/iodev/network/slirp/slirp.cc`: the event loop, the Ethernet/ARP translator
  and the host-forwarding API of the user-mode networking back end;
* `src/bochs/iodev/usb/scsi_device.cc`: the SCSI disk and CD-ROM behind the USB
  mass-storage device;
* `src/bochs/iodev/usb/usb_hid.cc`: the USB mouse, tablet, keypad and keyboard;
* the teaching kernels under `src/bochs/x86osdev`: the kernel heap (`kheap.c`), the frame
  allocator and boot-time paging (`paging.c`), tasking and fork (`task.c`), and xv6's MP
  table parsing (`mp.c`).

Each model is written from the C source. Callees that are not in the
repository (if.c, socket.c, arp_table.c, tcp_*.c, udp.c, icmp.c) are modelled from
`spec.md`. PROJECT.json marks those definitions `spec_modelled`. Its `map` lists the source
lines that every other definition translates.

## The system and how its parts interact

### slirp

* **Ethernet/ARP translator.** `slirp_input` dispatches guest frames:
  * ARP frames go to `arp_input`;
  * IPv4 frames go to ip_input;
  * IPv6 frames are dropped;
  * anything else is ignored.

  `arp_input` learns guest MAC addresses into a small ARP cache and answers requests for
  the virtual host, the DNS server and exec addresses. `if_encap` is called from
  `if_start` (reached through `if_output`). If the cache has the guest's MAC, it frames
  the packet. Otherwise it sends an ARP request, keeps the packet queued and drops it
  one second after that request.
* **Readiness multiplexer.** `slirp_select_fill` runs before every host `select`:
  * it tears down idle UDP and ICMP flows (`so_expire`);
  * it builds the read, write and exception fd sets from each socket's state;
  * it asks for the fast or slow TCP timer;
  * it shortens the select timeout (`slirp_update_timeout`).
* **Dispatch engine.** `slirp_select_poll` runs after `select`:
  * it samples `curtime` and runs the 2 ms and 500 ms TCP timers;
  * it walks the TCP sockets: out-of-band data, accept or read, connect completion, write;
  * it reads the UDP and ICMP sockets;
  * it calls `if_start` and clears the global fd-set pointers.
* **Host forwarding.** `slirp_add_hostfwd`, `slirp_remove_hostfwd` and `slirp_add_exec`
  change the socket registry between event-loop cycles.

The guest side and the host side meet in the socket records. Guest TCP segments, modelled
as the guest actions, move sockets through their states. The loop reads those states to
build its watch sets. The loop's sends go through the same output queue and ARP cache as
the guest's ARP traffic.

### USB SCSI device

`scsi_device_t` serves commands that the USB mass-storage front end sends by tag.
`scsi_send_command` decodes the CDB and runs the command. It answers at once, or it
prepares a request whose data then moves through the 128 KiB DMA buffer. Each later
`scsi_read_data` or `scsi_write_data` call moves one buffer. In async mode the first buffer
waits for the device's one seek timer (`start_seek`, `seek_timer`, `seek_complete`).
The device answers through the completion callback:
* `SCSI_REASON_DATA` means a buffer is ready or wanted;
* `SCSI_REASON_DONE` means the request is finished and back on `free_requests`.

On a save, `save_requests` writes each live request as `key = value` lines and its DMA
buffer to a file; on a restore, `restore_requests` reads those lines back into a freshly
constructed device, recreating each request by its tag.

The front end (`usb_msd`) is not in the repository.

### USB HID device

`usb_hid_device_c` is one of four devices: a mouse, a tablet, a keypad or a keyboard.
* The GUI side calls `mouse_enq` (through `mouse_enabled_changed` and the mouse event
  handler) and `gen_scancode` (through the keyboard event handler). A mouse event is
  clamped, accumulated and queued as a packet in `mouse_event_buf` (up to
  `BX_KBD_ELEMENTS` packets); a key event is converted by `usbkbd_conv` and queued as a
  keycode in `kbd_event_buf`.
* The host side polls the interrupt endpoint (`handle_data`, IN token) and sends control
  requests (`handle_control`: GET_REPORT, SET_REPORT, SET_IDLE among the HID ones).
  `mouse_poll` and `keyboard_poll` build the report from the device's current state.
* With a non-zero idle rate, the idle timer (`hid_timer_handler`) makes the next poll send
  a report even when nothing changed.
* SET_REPORT on a keyboard sets the NUM/CAPS/SCROLL lock indicators.

### x86osdev kernels

* **Heap.** `kmalloc`/`kfree` of the multitasking kernel go through `alloc` and `free` of
  `kheap.c`, which keep an ordered index of holes. `expand` and `contract` move the heap's
  end and call `alloc_frame`/`free_frame` of `paging.c` for each page.
* **Boot-time paging.** In the paging kernel, `initialise_paging` places the frame bitmap
  and the kernel directory with the placement allocator. It then identity-maps everything
  that allocator used, page tables included, and `main` touches memory.
* **Tasking.** `initialise_tasking`, `fork`, the timer's `switch_task` and
  `switch_to_user_mode` share the ready queue and the TSS on one CPU. Interrupts are the
  only source of preemption. `initialise_tasking` first calls `move_stack`, which copies
  the boot stack to a fixed new address and rebases esp, ebp and the words that look like
  pointers into the old stack.
* **MP tables.** `mpinit` finds the MP floating pointer (`mpsearch`, `mpsearch1`, `sum`),
  checks the configuration table (`mpconfig`), and walks its entries to record the
  processors and the I/O APIC. The table `mpconfig` checks is the one the pointer
  `mpsearch` found points at.

## Modules

### slirp

| module | models | state | actions |
|---|---|---|---|
| `SlirpArp` | ARP cache, `arp_input`, `slirp_input` dispatch, `if_encap`, the output queue and mbuf pool | `arptbl` (slots of IP/MAC), `next_victim`, `exec_list`, `client_ipaddr`, `ifq` (queued mbufs), `pkt` (per-mbuf record: destination, `arp_requested`, age), `mfree` | `SlirpInputArp`, `SlirpInputIPv6`, `IfOutput`, `IfStart`, `Tick`, `slirp_add_exec` |
| `SlirpLoop` (extends `SlirpArp`) | `slirp_select_fill`, `slirp_select_poll`, `slirp_update_timeout`, host forwarding, the TCP/UDP/ICMP socket records | `curtime` (mod `Wrap`), `time_fasttimo`, `last_slowtimo`, `do_slowtimo`, `timeout`, `phase` (guest → select → poll), socket lists `tcb`/`udb`/`icmp`, per-socket `so_state` flags, `has_fd`, `rcv_cc`/`snd_cc`, `delack`, `so_expire`, fd sets | `slirp_select_fill`, `SelectAndTimers`, `PollTcp(s)`, `PollDgram`, `slirp_add_hostfwd`, `slirp_remove_hostfwd`, guest TCP/UDP actions, `GuestArp`, `AddExec` |

`MC_SlirpArp` and `MC_SlirpLoop` give the constants model values (host, DNS, exec, guest,
broadcast, foreign addresses; MACs; sockets; forwarding keys).

How the model corresponds to the code:
* One `select` cycle is three steps: `slirp_select_fill`, then `SelectAndTimers`, then one
  `PollTcp(s)` per TCP socket of the snapshot `todo`, in any order. `PollDgram` ends the cycle.
* The loop's `so_next` walk is modelled by the unordered `todo`. This allows every order
  of the list.
* Results of `select` (the sets of ready fds and the error) and of the host calls (read
  data, `EAGAIN`, EOF; a send that works, is retried or fails; accept) are chosen
  nondeterministically.
* `curtime` is a u_int counter. It is modelled mod `Wrap` so that its wrap is reachable.

### USB SCSI device and x86osdev kernels

| module | models | state | actions |
|---|---|---|---|
| `ScsiDevice` | `scsi_device.cc`: the request pool and lists, `scsi_send_command` (CDB decode, LUN check, every command of the switch), the read/write data paths with `scsi_get_buf`, the seek timer, `seek_complete` with image failures, `scsi_cancel_io`, `set_inserted`, and a save followed by a restore (`save_requests` writes one `key = value` line per field, `restore_requests` folds over those lines into a freshly constructed device) | `dev` (request list, free list, request objects with whether their buffer holds data or garbage, timer, sense, inserted, locked, max_lba) and `host` (per tag: idle/xfer/wait, announced length, bytes offered, last DONE) | `SendCommand`, `ReadData`, `WriteData`, `CancelIo`, `SeekTimer`, `SetInserted`, `SaveRestore` |
| `Allocator` | what `kmalloc`/`kfree` promise: disjoint blocks inside the heap | `blocks` | `Alloc`, `Free` |
| `KHeap` | `kheap.c` of the multitasking kernel over `paging.c`'s frame allocator | headers and footers in memory, the index, the heap end, the frame bitmap, page tables, the callers' blocks | `Kmalloc(s, n)`, `Kfree(s)` |
| `PagingInit` | `initialise_paging`, `get_page`, `alloc_frame`, `switch_page_directory`, `page_fault`, `main` of the paging kernel | `placement`, the bitmap, the directory, page tables, PTEs, `cr3` | `AllocTables`, `IdentityMapStep`, `EnablePaging`, `Access` |
| `Task` | `task.c` of the user-mode kernel, with `move_stack` inside `initialise_tasking` | `current`, the ready queue, pids, kernel stacks, saved eips, IF, TSS stack; the boot stack (`boot`: esp, ebp and its words, each marked as a pointer or not), the relocated stack `stk` and the registers `regs` | `initialise_tasking`, `switch_task`, `ForkLink`, `ForkReturn`, `ChildReturn`, `switch_to_user_mode` |
| `MpChecksum` | `sum` of `mp.c` (RECURSIVE) | none | none |
| `MpSearch` | `mpsearch1`, `mpsearch` over a small physical memory with planted MP structures | BDA words, memory, the result | `Search` |
| `MpInit` | `mpconfig` and the entry loop of `mpinit` | the entry pointer, `ismp`, `ncpu`, `cpus`, `ioapicid`, `lapic` | `Config`, `Proc`, `IoApic`, `Skip`, `Default`, `LoopExit` |
| `MpBoot` | `mpinit` from its first step: instantiates `MpSearch` and `MpInit`, and feeds the pointer the search found (its `physaddr` and `imcrp`) to `mpconfig` | both modules' variables | `Search`, `Config` (the table at `physaddr` is read here), `Walk` (MpInit's loop actions) |
| `UsbHid` | `usb_hid.cc`: `mouse_enq`, `gen_scancode` with `usbkbd_conv`, `mouse_poll`, `keyboard_poll`, `handle_data`, the HID requests of `handle_control`, the idle timer, `handle_reset`, `mouse_enabled_changed` | `type`, the device record `s` (idle rate, delayed motion, last position and buttons, mouse queue, modifiers, key, indicators, key queue), `timer`, `stall`, the host's view (`leds`, `report`), and history (`held`, `moved`, `sent`, `overflow`, counters) | `KeyPress`, `KeyRelease`, `MouseMove`, `MouseEnabled`, `DataIn`, `GetReport`, `SetReport`, `SetIdle`, `Stall`, `IdleTimer`, `Reset`, `Deliver` |

The handlers of `ScsiDevice` are operators from the device record to
`[d |-> device, ev |-> callbacks]`, one per C function. `Then` chains two of them the way
the C calls follow each other. The front end applies the callbacks in order.
`KHeap` and `UsbHid` follow the same style with a heap record `H` and a device record
`S`: `mouse_poll(S, len, force)` returns the new record, the reply and whether the timer is
re-armed. In `UsbHid`, a report is a record of the bytes the properties compare: the
modifier set and keycode for keyboards, the motion and buttons for the mouse; `NAK` and
`STALL` are the replies `USB_RET_NAK` and `USB_RET_STALL`. `MC_ScsiDevice`, `MC_MpBoot`,
`MC_MpInit` and `MC_UsbHid` define the command sets, memory layouts, tables, keys and
motions.

The refinement: `KHeap` instantiates `Allocator` with the callers' live blocks
(`Abs == INSTANCE Allocator WITH ...`). The `kheap` run checks `Abs!Spec` as
`AllocatorRefined`. `MpSearch` checks the recursive `Scan` and `sum` against declarative
reference definitions (`FoldLeft` sums, the lowest valid address).

## Runs

PROJECT.json lists the runs below. A passing run checks every property listed for it, and
each of these properties has a mutant in PROJECT.json: a plausible bug in a mapped
definition that makes the run's own cfg find the property violated. A violation run checks
one property that the code breaks; its counterexample is a finding.

| run | module / cfg | expect | shows |
|---|---|---|---|
| arp | `MC_SlirpArp` / `SlirpArp.cfg` | pass | Under any interleaving of ARP traffic, IP packets, ticks and `if_start` passes, every packet queued for an unresolved guest eventually leaves the queue: it is sent, or dropped one second after its own request (`PendingLeaves`). |
| loop_tcp | `MC_SlirpLoop` / `SlirpLoop_tcp.cfg` | pass | With one TCP socket through listens, accepts, connects, resets and failures, and `curtime` wrapping, a delayed ACK owed by `tcp_fasttimo` is eventually flushed (`DelackFlushed`). The fast-timer request made at `curtime` 0 is lost, but the u_int difference at line 476 still reaches `TIMEOUT_FAST` a cycle later. |
| loop_dgram | `MC_SlirpLoop` / `SlirpLoop_udp.cfg` | pass | A read may queue the `MaxFrags` fragments of one datagram (the comment at slirp.cc:414), and a UDP flow never has more than `QueueLimit + MaxFrags` mbufs queued (`UdpQueueBounded`), and expiry and failures never reclaim a forwarding socket (`HostFwdRulesLive`). |
| udp_expiry_wrap | `MC_SlirpLoop` / `SlirpLoop_expiry.cfg` | violation | `ExpiryNotPremature` fails: `curtime + SO_EXPIRE` wraps, and `so_expire <= curtime` tears down a flow that has just been used. |
| kheap | `MC_KHeap` / `KHeap.cfg` | pass | Four callers allocate and free, through `expand` and `contract`, and `kmalloc`/`kfree` refine `Allocator` (`AllocatorRefined`). |
| kheap_overlap | `MC_KHeap` / `KHeap_overlap.cfg` | violation | `AllocatorRefined` fails: after `expand`, `alloc` grows the highest-addressed hole, which need not be the last chunk, and two callers get overlapping blocks. |
| task | `MC_Task` / `Task.cfg` | pass | On boot stacks whose integers lie outside the old stack's range, `move_stack` copies every word to the new stack and rebases exactly the frame pointers, and moves esp and ebp by the same offset (`StackRelocated`). `switch_task` never jumps to an eip of 0 (`SwitchResumesSaved`). In kernel mode every task keeps running (`KernelRoundRobin`). |
| paging_init | `MC_PagingInit` / `PagingInit.cfg` | pass | Every byte the placement allocator used is identity-mapped when paging starts (`IdentityMapped`). |
| mp_boot | `MC_MpBoot` / `MpBoot.cfg` | pass | Over memories with up to two planted structures and tables of up to three entries of every type, `mpsearch` returns the first valid structure of the specified regions (`SearchFindsFirst`), and `mpinit`, following that structure's pointer, records the first NCPU processors and the I/O APIC (`CpusRecorded`). |
| hid | `MC_UsbHid` / `UsbHid.cfg` | pass | On each of the four device types, under key presses, mouse motion, polls of both lengths, GET/SET_REPORT, SET_IDLE, stalls and resets: the motion the mouse accepted is either delivered or still queued (`MotionConserved`), and, at idle rate 0, delivered once the moves stop, the unit `mouse_delayed_dy` holds back included (`MotionDelivered`); with a non-zero idle rate the host eventually sees the keyboard's state (`IdleReportsState`); the key queue never exceeds its size (`HidTypeOK`). |
| scsi | `MC_ScsiDevice` / `ScsiDevice.cfg` | pass | On a disk and on a CD-ROM whose medium comes and goes, eleven commands are sent synchronously and asynchronously, with image I/O failures. The request lists stay sound (`RequestsMatchCommands`), the pool does not grow (`ScsiTypeOK`), GOOD means exactly the announced bytes moved (`TransferMatchesLength`), the seek timer is armed only for a live waiting request (`TimerOwned`), and a save followed by a restore gives back every live request with the same tag, sector, count, buffer length, mode and pending seek (`RestoreKeepsRequests`). |
| scsi_lseek | `MC_ScsiDevice` / `ScsiDevice_lseek.cfg` | violation | `NoStrayCallback` fails: a failed lseek on a write completes the request without returning (line 1062), and the write then sends DATA for the finished tag. |

The mutants of the slirp runs are:
* the `% size` dropped in the ARP victim index;
* ARP expiry never firing;
* the half-closed test dropped from the TCP watch;
* the fast-timer difference taken as a signed int;
* the UDP cap loosened;
* the `so_expire != 0` guard dropped.

The other mutants are:
* `contract` without its clamp to the minimum size;
* an index removal that does nothing;
* a `move_stack` loop that stops one word short of the stack top;
* a restore that does not recognise the `seek_pending` line;
* the task ring without its wrap, or wrapping to the second task;
* `fork` without its `cli`;
* the identity-map bound read once before the loop;
* a page table allocated unaligned;
* a checksum sum that is not truncated to a byte;
* a CPU bound tested with `<=`, recording one processor past `cpus[]`;
* only the first I/O APIC recorded;
* a request object taken past the free list;
* a request removed without being unlinked;
* a read completed as a full buffer;
* a cancel that leaves the seek timer armed;
* a key queued past `BX_KBD_ELEMENTS`;
* a mouse packet built without clearing the delayed motion it sent;
* a mouse poll that clears the queue instead of taking one packet;
* a keyboard poll that does not re-arm the idle timer.

### Further counterexamples

Some cfgs are not among the listed runs but reproduce a counterexample, or check a
liveness property, by themselves (`tlc -config X.cfg MC_M`). PROJECT.json records each
of them as a hazard note.

| cfg | property | result |
|---|---|---|
| `SlirpArp_leak.cfg` | `MbufsAccounted` | violated: the IPv6 branch of `slirp_input` (slirp.cc:744) takes an mbuf and never frees it. |
| `SlirpArp_arpreq.cfg` | `OneArpRequestPerDestination` | violated: `arp_requested` is per mbuf, so two packets to one unresolved guest send two requests. Spec §4.2 says they should not. |
| `SlirpLoop_udpcap.cfg` | `UdpQueueBelowLimit` | violated: `so_queued <= 4` (slirp.cc:420) admits one datagram more than spec §4.3 allows. |
| `SlirpLoop_fasttimo.cfg` | `DelayedAckClampsTimeout` | violated: at `curtime == 0`, `time_fasttimo = curtime` records "no request". |
| `SlirpLoop_connect.cfg` | `ConnectCompletionAnswered` | violated: `SS_ISFCONNECTING` is cleared before the send, and a transient error leaves a socket that is neither connecting nor connected. |
| `KHeap_frames.cfg` | `FramesExclusive` | violated: `free_frame` passes the frame index to `clear_frame`, which divides it by 0x1000 again (paging.c:104), so bit 0 is cleared, the freed frame leaks, and the next `expand` maps a page onto frame 0. |
| `KHeap_assert.cfg`, `KHeap_fault.cfg`, `KHeap_shrink.cfg`, `KHeap_order.cfg`, `KHeap_expand.cfg` | heap invariants (`HeapPagesBacked` for the last) | violated: a failed ASSERT after unify-right, a fault reading a header on an unmapped page, a `contract` that writes a footer over a header, an index left unsorted, and `expand`'s page rounding. |
| `Task_user.cfg` | `RoundRobin` | violated: after `switch_to_user_mode`, IF stays clear and no other task runs. |
| `Task_kstack.cfg` | `UserTrapStackOwned` | violated: `fork` gives the new kernel stack to the parent. |
| `Task_alias.cfg` | `StackRelocated` | violated: `move_stack` rebases every word that lies between the old esp and `initial_esp`, so a local integer that happens to have such a value is changed too. |
| `MpInit_hang.cfg` | `Termination` | violated: an unknown entry type makes the `mpinit` loop spin for ever. |
| `ScsiDevice_tcq.cfg` | `SeekCompletes` | violated with two tags: `start_seek` re-arms the single timer for the newer tag, and the older request waits for ever. |
| `ScsiDevice_evpd.cfg` | `ReplyWithinAllocation` | violated: EVPD INQUIRY pages are not cut to the allocation length. |
| `ScsiDevice_locked.cfg` | `NoEjectWhileLocked` | violated: START STOP UNIT ejects a locked CD. |
| `ScsiDevice_eject.cfg` | `NoMediumNoCapacity` | violated: the eject clears `inserted` but not `max_lba`, so READ CAPACITY still reports the disc. |
| `ScsiDevice_restore.cfg` | `OfferedDataIntact` | violated: `restore_requests` opens the buffer file with `"wb"` (line 297), truncating it, and then reads it, so a read request restored mid-transfer offers garbage to the host. |
| `UsbHid_modifier.cfg` | `KbdStateReported` | violated: with idle rate 0, Shift pressed and released changes only the modifiers; `keyboard_poll` compares only the keycode and the host never sees the change. |
| `UsbHid_queue.cfg` | `KbdQueueDrains` | violated: a modifier key, or a release of a key that is not the current one, is queued but `gen_scancode` only dequeues in `keyboard_poll` on a keycode change, so the queue stays stuck. |
| `UsbHid_wheel.cfg` | `WheelReported` | violated: on the mouse at idle rate 0, a wheel-only event sets `mouse_z` but neither queues a packet nor sets `has_events`; the flush in `mouse_poll` repeats the same zero motion, so every poll answers NAK and the turn is never sent. |
| `UsbHid_delayed.cfg` | `MotionDeliveredAnyIdle` | violated: at an idle rate above 0, `hid_idle_timer` sets `has_events` before each poll, `mouse_poll` skips the "handle delayed one" flush and sends an empty packet, and the unit in `mouse_delayed_dy` is never delivered. |
| `UsbHid_leds.cfg` | `LedsFollowIndicators` | violated: SET_REPORT that changes NUM and CAPS together toggles only NUM (the changes are tested with else-if). |

## Bounds

### slirp

* **ARP.** The guest addresses are {guest, foreign, broadcast}. There are 2 MACs, a table
  of 2 slots, 2 mbufs and an expiry of 1 tick. `slirp_add_exec` is called with zero (the
  default address), the host (refused) and the guest's address. This is enough for:
  * an eviction by round-robin;
  * an entry update;
  * a broadcast that must not be recorded;
  * a second packet behind a pending request;
  * an expiry.
* **TCP loop.** The `loop_tcp` run has one TCP socket, one mbuf and one forwarding key.
  `curtime` wraps at 4 and a select advances it by at most 1. The timers are
  `TIMEOUT_FAST` = 1, `TIMEOUT_SLOW` = 2 and `SO_EXPIRE` = 2. Buffers count to
  `SbDatalen` = 2. One socket goes through listen, accept, connect, reset and failure with
  every flag combination the poll loop tests, and its delayed ACK meets the wrap of
  `curtime`. No VIEW or symmetry is used, because `DelackFlushed` is a liveness property.
  The connect and fast-timer reproducers use two sockets.
* **UDP and ICMP.** There is one UDP socket, one ICMP socket and 4 mbufs. The queue limit is
  1: the limit is a constant, and only the comparison with it matters. In `loop_dgram` a
  read may queue up to `MaxFrags` = 2 fragments, so the bound 1 + 2 is met, and a cap
  loosened by one would need the fourth mbuf. The reproducers use one fragment per read.

The passing slirp runs reach between 30 k and 700 k distinct states; the largest,
`loop_dgram`, takes about 2 minutes.

### USB SCSI device and x86osdev kernels

* **SCSI.** Sizes are in bytes, with a block size of 512:
  * the disk has 4 blocks;
  * the DMA buffer holds 2 blocks, so a three-block transfer takes a full buffer and then
    a partial one, and a two-block read at block 3 runs past the image;
  * the `scsi` run has one tag: without tagged queueing the front end sends a command only
    while every other tag is idle, and `RequestsMatchCommands` shows that no request
    outlives its tag's command, so a second tag would only repeat the first one's states.
    The TCQ reproducer uses 2 tags, symmetric because they are model values;
  * there are at most 3 request objects, more than the live requests of either run, so a
    pool that grows past its live requests shows up.

  Commands are decoded CDBs: only the bytes the code tests are kept, and the data is
  abstracted to lengths. A VIEW identifies states that differ only in fields no later step
  reads: the fields of requests on the free list (reset by `scsi_new_request` or
  overwritten before use), `curr_lba` (it affects only the seek time) and the tag of a
  stopped timer.
* **Heap.** The page is 32 bytes, with a 12-byte header and an 8-byte footer. There are 4
  callers of one size (12 bytes), which is enough to fill the initial heap and to force
  `expand` and `contract`. One size keeps the run under five minutes. With this size
  `contract` never gives back a whole page, so `free_frame` is not called in the `kheap`
  run. The violation runs, `KHeap_frames.cfg` among them, use sizes 4 and 40, which do
  free frames.
* **Paging.** Pages are 16 bytes and page tables hold 4 entries. `end` ranges over every
  address from 32 to 63, aligned or not. Some of these values make the loop allocate a
  page table past the loop's first bound.
* **Tasking.** `MaxPid` = 3: the kernel task and two forks. `MC_Task` gives the boot stack:
  `initial_esp` = 20, esp 10 and ebp 12, ten words holding two saved frame pointers, integers,
  and one local that is an integer (7) or a pointer (18). The new stack starts at 40 and
  is 12 words long. The copy (words 30 to 39) lies wholly inside the words the backtrace
  loop visits, as it does in the code, where the boot stack is much smaller than 0x2000
  bytes. So the branch for copied words below the new stack's bottom is not reached. The alias reproducer adds a local integer of 15, which lies in the old stack range.
* **MP.** Memory is 16 units with a 2-unit KB. Up to two structures are planted, with
  valid, invalid-checksum and wrong-signature variants, and pointers with a zero or a
  table `physaddr`. MP tables have up to 3 entries of all six types. The view of `mp_boot`
  drops the memory once the search has returned (only the pointer it found is read after
  that), and keeps it while the search runs, so the search's invariants are checked on
  every memory.
* **HID.** The queues hold `Elements` = 2 entries, so a full queue is reached. Signed
  bytes are scaled to -4..3 and 16-bit positions to 16, so that one move of (9, -9)
  reaches both the clamp (dx) and the delayed motion (dy halves to -4, and
  `mouse_delayed_dy -= -4` gives 4, past 3). Three keys (a modifier, a letter and a
  keypad key) cover the modifier path, the keycode path and the keypad's filter. At most
  `MaxMoves` = 2 mouse events and `MaxKeys` = 4 key events. The view leaves out the host's
  last report for a mouse or a tablet (only the keyboard properties read it); the LEDs
  are dropped by the `hid` view too, and the LED reproducer runs without a view.

## Fairness

* `IfStart` and `Tick` are weakly fair. The output queue is drained and the ARP expiry
  timer advances on every loop cycle (`if_start` at line 642).
* In `SlirpLoop`, `slirp_select_fill`, `SelectAndTimers`, each `PollTcp` and `PollDgram`
  are weakly fair. Bochs calls the fill/poll pair from its network timer for as long as
  the instance exists.
* No fairness is assumed for guest actions or for host-forwarding calls.
* In `ScsiDevice`, `SeekTimer` is weakly fair, because a bochs timer fires once it is
  activated. Each tag's read/write data calls are weakly fair, because the front end
  moves every buffer it is offered. Sending, cancelling and media changes are not fair.
* In `Task`, `switch_task` (the PIT interrupt while IF is set) and each task's return
  from `fork` are weakly fair. In `MpInit` and `MpBoot` the single boot CPU runs the loop
  (`WF_vars(Next)`).
* In `UsbHid`, the host's interrupt IN poll of each length and the idle timer are weakly
  fair: the host controller polls an interrupt endpoint every frame, and a bochs timer
  fires once armed. Key and mouse events, control requests and resets are not fair.

## Not modelled

* `get_dns_addr`. It reads the host resolver file and has no state shared with the loop.
* The guest-forwarding channel (`slirp_socket_can_recv`, `slirp_socket_recv`,
  `slirp_send`). Its device side is not in the repository.
* `slirp_cleanup` and multiple instances.
* File descriptor numbers. The watch sets hold socket records, so an fd that is closed
  between fill and poll and reused by another socket is out of the model's reach.
* The TCP state machine beyond what the loop reads:
  * the handshake, data, ACK and reset are guest actions;
  * retransmission is abstracted into the keep timer.
* In `usb_hid.cc`, these are not modelled: the descriptors returned by GET_DESCRIPTOR
  and the standard requests that only read them, the byte layout of the reports (a
  report is the record of the values it carries), `register_state` and the save/restore
  of the queues, and the wheel and tablet report bytes beyond what `mouse_enq` accumulates.
* In `scsi_device.cc`, these are not modelled:
  * the save file's text format beyond one line per field, and the buffer file's bytes
    (a buffer is "data" or "garbage");
  * `register_state` and the destructor;
  * the 32-bit overflow of the returned length (PROJECT.json lists it as a hazard).
* In the x86osdev kernels, these are not modelled:
  * `getpid`, which only reads;
  * `clone_directory`, which is not in the repository;
  * `forktest.c`, a user program of an xv6 kernel that is not in the repository;
  * `descriptor_tables.h` and the CPU database, which are declarations only.
