------------------------------- MODULE UsbHid -------------------------------
(***************************************************************************)
(* The USB HID device of iodev/usb/usb_hid.cc: a mouse, a tablet, a keypad *)
(* or a keyboard, as the constructor's device name chooses.  The GUI      *)
(* feeds it through mouse_enq and gen_scancode; the host controller polls *)
(* the interrupt endpoint (handle_data) and sends control requests        *)
(* (handle_control); the one-shot idle timer sets has_events.             *)
(*                                                                         *)
(* `s' is the device's state struct, which handle_reset clears with       *)
(* memset.  kbd_packet is kept as the modifier byte (the set of modifier  *)
(* bits, each modifier code being one bit) and the key code of byte 2.   *)
(* The event buffers are sequences whose length is the event count.  A    *)
(* report is the packet the host received, its bytes decoded.  The mouse  *)
(* ranges are scaled: Bit8s is S8Min .. S8Max and Bit16s has S16 values.  *)
(*                                                                         *)
(* The host controller, the keyboard front end that calls gen_scancode    *)
(* and usb_common's handle_control_common are not in the repository; the  *)
(* actions let them do what the interfaces allow.                         *)
(***************************************************************************)
EXTENDS Integers, Sequences, SequencesExt, FiniteSets

CONSTANTS
  Types,         \* constructor names: "mouse", "tablet", "keypad", "keyboard"
  Keys,          \* the bochs keys the GUI sends (a subset of DOMAIN usbkbd_conv)
  Elements,      \* BX_KBD_ELEMENTS, the depth of each event buffer
  S8Min, S8Max,  \* the Bit8s range, -128 .. 127
  S16,           \* the number of Bit16s values, 2^16
  Moves,         \* [dx, dy, dz] the GUI reports
  Buttons,       \* button_state values
  Lens,          \* buffer lengths of the host's IN packets
  IdleRates,     \* value >> 8 of SET_IDLE
  LedBytes,      \* data[0] of SET_REPORT, as sets of LED bits
  MaxMoves,      \* mouse_enq calls the GUI makes
  MaxKeys        \* gen_scancode calls the GUI makes

MouseTypes == {"mouse", "tablet"}
KbdTypes == {"keypad", "keyboard"}
NAK == [nak |-> TRUE]     \* USB_RET_NAK
STALL == "STALL"
NoReport == [none |-> TRUE]
LED_NUM == 1
LED_CAPS == 2
LED_SCRL == 4

(* usbkbd_conv: the usage code of a bochs key, and whether it is a         *)
(* modifier (a bit of byte 0) or a key code (byte 2).  Only the keys of    *)
(* each kind the code tells apart are kept: modifiers, letters, a keypad   *)
(* key and a key with no usage code.                                       *)
usbkbd_conv ==
  ("CTRL_L" :> [code |-> 1, modkey |-> TRUE]) @@
  ("SHIFT_L" :> [code |-> 2, modkey |-> TRUE]) @@
  ("NUM_LOCK" :> [code |-> 83, modkey |-> FALSE]) @@
  ("A" :> [code |-> 4, modkey |-> FALSE]) @@
  ("B" :> [code |-> 5, modkey |-> FALSE]) @@
  ("KP_1" :> [code |-> 89, modkey |-> FALSE]) @@
  ("INT_MAIL" :> [code |-> 0, modkey |-> FALSE])

ASSUME Keys \subseteq DOMAIN usbkbd_conv /\ Elements \in Nat \ {0}

VARIABLES
  type,      \* d.type
  s,         \* the state struct
  timer,     \* the idle timer is active
  stall,     \* d.stall
  leds,      \* the LEDs DEV_kbd_set_indicator last set on the keyboard
  report,    \* the last report the host received
  held,      \* keys the user holds down
  moves,     \* mouse_enq calls so far
  keys,      \* gen_scancode calls so far
  moved,     \* history: the mouse motion the device accepted, after scaling
  sent,      \* history: the motion of the reports the host received
  overflow   \* history: a mouse event arrived with the event buffer full

vars == <<type, s, timer, stall, leds, report, held, moves, keys, moved, sent, overflow>>

(* memset(&s, 0, sizeof(s)) *)
S0 == [has_events |-> FALSE, idle |-> 0,
       mouse_delayed_dx |-> 0, mouse_delayed_dy |-> 0,
       mouse_x |-> 0, mouse_y |-> 0, mouse_z |-> 0, b_state |-> 0,
       mouse_event_buf |-> <<>>,
       mods |-> {}, key |-> 0, indicators |-> {}, kbd_event_buf |-> <<>>]

Zero2 == [x |-> 0, y |-> 0]

Init ==
  /\ type \in Types
  /\ s = S0
  /\ timer = FALSE
  /\ stall = FALSE
  /\ leds = {}
  /\ report = NoReport
  /\ held = {}
  /\ moves = 0 /\ keys = 0 /\ moved = Zero2 /\ sent = Zero2
  /\ overflow = FALSE

(* start_idle_timer: arm the one-shot timer for a non-zero idle rate,     *)
(* stop it otherwise.                                                      *)
start_idle_timer(S) == S.idle > 0

-----------------------------------------------------------------------------
(* The mouse and the tablet.                                               *)

(* The (Bit8s) and (Bit16s) casts: the value modulo the width.            *)
ToS8(v) == ((v - S8Min) % (S8Max - S8Min + 1)) + S8Min
ToS16(v) == ((v + S16 \div 2) % S16) - S16 \div 2

(* C's int division by 2, which truncates towards zero. *)
Half(v) == IF v >= 0 THEN v \div 2 ELSE -((-v) \div 2)

(* The scaling of a relative mouse delta: halved unless it is -1, 0 or 1, *)
(* then clamped to the Bit8s range.                                        *)
Scale(v) ==
  LET h == IF v < -1 \/ v > 1 THEN Half(v) ELSE v
  IN IF h > S8Max THEN S8Max ELSE IF h < S8Min THEN S8Min ELSE h

(* What one report may carry of the delayed motion, and what stays.        *)
Emit(acc) ==
  IF acc > S8Max THEN [d |-> S8Max, rest |-> acc - S8Max]
  ELSE IF acc < S8Min THEN [d |-> S8Min, rest |-> acc - S8Min]
  ELSE [d |-> acc, rest |-> 0]

(* Mutant: the mouse's motion is not cleared once it is in a packet. *)
create_mouse_packet_noclear(S, len) ==
  [p |-> [b |-> S.b_state, x |-> S.mouse_x, y |-> S.mouse_y,
          z |-> IF type = "mouse" /\ len < 4 THEN 0 ELSE S.mouse_z], s |-> S]

(* create_mouse_packet(buf, len): the packet and the state after it.  The *)
(* tablet reports its absolute position; the mouse reports its motion,    *)
(* clears it, and sends and clears the wheel only with room for byte 3.   *)
create_mouse_packet(S, len) ==
  IF type = "tablet"
  THEN [p |-> [b |-> S.b_state, x |-> S.mouse_x, y |-> S.mouse_y, z |-> S.mouse_z], s |-> S]
  ELSE [p |-> [b |-> S.b_state, x |-> S.mouse_x, y |-> S.mouse_y,
               z |-> IF len >= 4 THEN S.mouse_z ELSE 0],
        s |-> [S EXCEPT !.mouse_x = 0, !.mouse_y = 0,
                        !.mouse_z = IF len >= 4 THEN 0 ELSE @]]

(* Queue create_mouse_packet's packet if the buffer has room. *)
Enqueue(S, len) ==
  LET r == create_mouse_packet(S, len)
  IN IF Len(S.mouse_event_buf) < Elements
     THEN [r.s EXCEPT !.mouse_event_buf = Append(@, r.p)]
     ELSE S

(* get_mouse_packet: the oldest queued packet, its wheel byte cut when a   *)
(* mouse packet is read into fewer than 4 bytes.                           *)
get_mouse_packet(S, len) ==
  LET q == Head(S.mouse_event_buf)
  IN [p |-> IF type = "mouse" /\ len < 4 THEN [q EXCEPT !.z = 0] ELSE q,
      s |-> [S EXCEPT !.mouse_event_buf = Tail(@)]]

(* mouse_enq for the mouse: the scaled delta joins the delayed motion, of  *)
(* which at most one Bit8s step is taken; a move or a button change        *)
(* queues a packet and sets has_events.                                    *)
MouseEnq(S, dx, dy, dz, b) ==
  LET ex == Emit(S.mouse_delayed_dx + Scale(dx))
      ey == Emit(S.mouse_delayed_dy - Scale(dy))
      S1 == [S EXCEPT !.mouse_delayed_dx = ex.rest, !.mouse_delayed_dy = ey.rest,
                      !.mouse_x = ex.d, !.mouse_y = ey.d, !.mouse_z = ToS8(dz)]
  IN IF ex.d # 0 \/ ey.d # 0 \/ b # S.b_state
     THEN [Enqueue([S1 EXCEPT !.b_state = b], 4) EXCEPT !.has_events = TRUE]
     ELSE S1

(* mouse_enq for the tablet: an absolute or relative position, clamped at *)
(* 0; a packet is queued only for a button or wheel change.                *)
TabletEnq(S, dx, dy, dz, b, absxy) ==
  LET x0 == ToS16(IF absxy THEN dx ELSE S.mouse_x + dx)
      y0 == ToS16(IF absxy THEN dy ELSE S.mouse_y - dy)
      S1 == [S EXCEPT !.mouse_x = IF x0 < 0 THEN 0 ELSE x0,
                      !.mouse_y = IF y0 < 0 THEN 0 ELSE y0]
      S2 == IF b # S.b_state \/ dz # S.mouse_z
            THEN Enqueue([S1 EXCEPT !.mouse_z = ToS8(dz), !.b_state = b], 6)
            ELSE S1
  IN IF S1.mouse_x # S.mouse_x \/ S1.mouse_y # S.mouse_y \/ dz # S.mouse_z \/ b # S.b_state
     THEN [S2 EXCEPT !.has_events = TRUE]
     ELSE S1

mouse_enq(S, dx, dy, dz, b, absxy) ==
  IF type = "mouse" THEN MouseEnq(S, dx, dy, dz, b) ELSE TabletEnq(S, dx, dy, dz, b, absxy)

(* Mutant: has_events is cleared after every poll, queued packets or not. *)
mouse_poll_clear(S0_, len, force) ==
  LET S == IF type = "mouse" /\ ~S0_.has_events
           THEN MouseEnq(S0_, 0, 0, S0_.mouse_z, S0_.b_state) ELSE S0_
      r == IF S.mouse_event_buf # <<>> THEN get_mouse_packet(S, len)
           ELSE create_mouse_packet(S, len)
  IN IF S.has_events \/ force
     THEN [s |-> [r.s EXCEPT !.has_events = FALSE],
           ret |-> r.p, timer |-> start_idle_timer(S)]
     ELSE [s |-> S, ret |-> NAK, timer |-> timer]

(* mouse_poll(buf, len, force): the mouse first flushes delayed motion    *)
(* with a zero move when nothing is pending; with events (or force) a     *)
(* queued packet, else a fresh one, is returned and the idle timer         *)
(* restarted; otherwise NAK.                                               *)
mouse_poll(S0_, len, force) ==
  LET S == IF type = "mouse" /\ ~S0_.has_events
           THEN MouseEnq(S0_, 0, 0, S0_.mouse_z, S0_.b_state) ELSE S0_
      r == IF S.mouse_event_buf # <<>> THEN get_mouse_packet(S, len)
           ELSE create_mouse_packet(S, len)
  IN IF S.has_events \/ force
     THEN [s |-> [r.s EXCEPT !.has_events = r.s.mouse_event_buf # <<>>],
           ret |-> r.p, timer |-> start_idle_timer(S)]
     ELSE [s |-> S, ret |-> NAK, timer |-> timer]

-----------------------------------------------------------------------------
(* The keypad and the keyboard.                                            *)

(* Mutant: the queue takes an event when it already holds Elements. *)
gen_scancode_overfill(S, k, released) ==
  LET c == usbkbd_conv[k].code
  IN CASE type = "keypad" /\ (c < 83 \/ c > 99) -> S
       [] type = "keyboard" /\ c = 0 -> S
       [] S.has_events ->
            IF Len(S.kbd_event_buf) <= Elements
            THEN [S EXCEPT !.kbd_event_buf = Append(@, [key |-> k, released |-> released])]
            ELSE S
       [] usbkbd_conv[k].modkey ->
            [S EXCEPT !.mods = IF released THEN @ \ {c} ELSE @ \cup {c}]
       [] released -> IF c = S.key THEN [S EXCEPT !.key = 0, !.has_events = TRUE] ELSE S
       [] OTHER -> [S EXCEPT !.key = c, !.has_events = TRUE]

(* gen_scancode(key): a keypad takes only usage codes 0x53 .. 0x63 and a   *)
(* keyboard drops keys without a code.  While a report is pending the key  *)
(* is queued (or lost when the buffer is full); otherwise a modifier       *)
(* changes byte 0 and a key press or the release of the key in byte 2      *)
(* changes byte 2 and sets has_events.                                     *)
gen_scancode(S, k, released) ==
  LET c == usbkbd_conv[k].code
  IN CASE type = "keypad" /\ (c < 83 \/ c > 99) -> S
       [] type = "keyboard" /\ c = 0 -> S
       [] S.has_events ->
            IF Len(S.kbd_event_buf) < Elements
            THEN [S EXCEPT !.kbd_event_buf = Append(@, [key |-> k, released |-> released])]
            ELSE S
       [] usbkbd_conv[k].modkey ->
            [S EXCEPT !.mods = IF released THEN @ \ {c} ELSE @ \cup {c}]
       [] released -> IF c = S.key THEN [S EXCEPT !.key = 0, !.has_events = TRUE] ELSE S
       [] OTHER -> [S EXCEPT !.key = c, !.has_events = TRUE]

(* Mutant: keyboard_poll does not restart the idle timer. *)
keyboard_poll_norearm(S, len, force) ==
  IF S.has_events \/ force
  THEN LET S1 == [S EXCEPT !.has_events = FALSE]
           e == Head(S.kbd_event_buf)
           S2 == IF S.kbd_event_buf # <<>>
                 THEN [gen_scancode(S1, e.key, e.released) EXCEPT !.kbd_event_buf = Tail(@)]
                 ELSE S1
       IN [s |-> S2, ret |-> [mods |-> S.mods, key |-> S.key], timer |-> timer]
  ELSE [s |-> S, ret |-> NAK, timer |-> timer]

(* keyboard_poll(buf, len, force): with events (or force) the packet is    *)
(* returned, has_events cleared, the oldest queued key applied and the    *)
(* idle timer restarted; otherwise NAK.                                    *)
keyboard_poll(S, len, force) ==
  IF S.has_events \/ force
  THEN LET S1 == [S EXCEPT !.has_events = FALSE]
           e == Head(S.kbd_event_buf)
           S2 == IF S.kbd_event_buf # <<>>
                 THEN [gen_scancode(S1, e.key, e.released) EXCEPT !.kbd_event_buf = Tail(@)]
                 ELSE S1
       IN [s |-> S2, ret |-> [mods |-> S.mods, key |-> S.key], timer |-> start_idle_timer(S2)]
  ELSE [s |-> S, ret |-> NAK, timer |-> timer]

poll(S, len, force) ==
  IF type \in MouseTypes THEN mouse_poll(S, len, force) ELSE keyboard_poll(S, len, force)

-----------------------------------------------------------------------------
(* The GUI's calls.                                                        *)

(* gen_scancode for a key pressed or released; the GUI only releases a    *)
(* key that is held.                                                       *)
KeyPress(k) ==
  /\ type \in KbdTypes /\ k \notin held /\ keys < MaxKeys
  /\ s' = gen_scancode(s, k, FALSE)
  /\ held' = held \cup {k} /\ keys' = keys + 1
  /\ UNCHANGED <<type, timer, stall, leds, report, moves, moved, sent, overflow>>

KeyRelease(k) ==
  /\ type \in KbdTypes /\ k \in held /\ keys < MaxKeys
  /\ s' = gen_scancode(s, k, TRUE)
  /\ held' = held \ {k} /\ keys' = keys + 1
  /\ UNCHANGED <<type, timer, stall, leds, report, moves, moved, sent, overflow>>

(* mouse_enq from the GUI; the history adds the motion after scaling (the *)
(* y axis inverted, as mouse_delayed_dy counts it) and notes an event     *)
(* that met a full buffer.                                                 *)
MouseMove(m, b, absxy) ==
  /\ type \in MouseTypes /\ moves < MaxMoves
  /\ s' = mouse_enq(s, m.dx, m.dy, m.dz, b, absxy)
  /\ moves' = moves + 1
  /\ moved' = IF type = "mouse" THEN [x |-> moved.x + Scale(m.dx), y |-> moved.y - Scale(m.dy)]
              ELSE moved
  /\ overflow' = (overflow \/ Len(s.mouse_event_buf) = Elements)
  /\ UNCHANGED <<type, timer, stall, leds, report, held, keys, sent>>

(* mouse_enabled_changed(enabled = 1) resets the device. *)
MouseEnabled ==
  /\ type \in MouseTypes
  /\ s' = S0
  /\ moved' = sent
  /\ UNCHANGED <<type, timer, stall, leds, report, held, moves, keys, sent, overflow>>

-----------------------------------------------------------------------------
(* The host controller's packets.                                          *)

(* The host receives a report: for the mouse its motion joins the history. *)
Deliver(r) ==
  /\ s' = r.s
  /\ timer' = r.timer
  /\ report' = IF r.ret = NAK THEN report ELSE r.ret
  /\ sent' = IF type = "mouse" /\ r.ret # NAK
             THEN [x |-> sent.x + r.ret.x, y |-> sent.y + r.ret.y] ELSE sent

(* handle_data: an IN token to endpoint 1 polls the device without force. *)
DataIn(len) ==
  /\ Deliver(poll(s, len, FALSE))
  /\ UNCHANGED <<type, stall, leds, held, moves, keys, moved, overflow>>

(* handle_control GET_REPORT polls the device with force. *)
GetReport(len) ==
  /\ Deliver(poll(s, len, TRUE))
  /\ UNCHANGED <<type, stall, leds, held, moves, keys, moved, overflow>>

(* handle_control SET_REPORT: a keyboard or keypad compares the LED byte   *)
(* with s.indicators and sets one changed LED on the keyboard, NUM first;  *)
(* CAPS and SCRL only on the keyboard, CAPS before SCRL.  The value test   *)
(* is the assignment (value = 0x200), true for any value.  A mouse or a    *)
(* tablet stalls (Stall).                                                  *)
SetReport(data) ==
  /\ type \in KbdTypes
  /\ LET change == (data \ s.indicators) \cup (s.indicators \ data)
         led == CASE LED_NUM \in change -> LED_NUM
                  [] type = "keyboard" /\ LED_CAPS \in change -> LED_CAPS
                  [] type = "keyboard" /\ LED_SCRL \in change -> LED_SCRL
                  [] OTHER -> 0
     IN /\ leds' = CASE led = 0 -> leds
                      [] led \in data -> leds \cup {led}
                      [] OTHER -> leds \ {led}
        /\ s' = IF change = {} THEN s ELSE [s EXCEPT !.indicators = data]
  /\ UNCHANGED <<type, timer, stall, report, held, moves, keys, moved, sent, overflow>>

(* handle_control SET_IDLE stores the rate and restarts the idle timer. *)
SetIdle(v) ==
  /\ s' = [s EXCEPT !.idle = v]
  /\ timer' = start_idle_timer(s')
  /\ UNCHANGED <<type, stall, leds, report, held, moves, keys, moved, sent, overflow>>

(* The packets that stall the device: handle_data's OUT token and IN     *)
(* token to an endpoint other than 1; and handle_control's failures:      *)
(* SET_FEATURE and CLEAR_FEATURE to the device, unknown string,           *)
(* descriptor and HID descriptor types, the HID physical descriptor, an   *)
(* endpoint halt to clear other than 0x81, SET_REPORT to a mouse or a     *)
(* tablet, and an unknown request.  The requests it answers (the          *)
(* descriptors, GET_IDLE, SET_PROTOCOL) change no state.                  *)
Stall ==
  /\ stall' = TRUE
  /\ UNCHANGED <<type, s, timer, leds, report, held, moves, keys, moved, sent, overflow>>

(* hid_idle_timer: the one-shot idle timer fires and sets has_events. *)
IdleTimer ==
  /\ timer
  /\ s' = [s EXCEPT !.has_events = TRUE]
  /\ timer' = FALSE
  /\ UNCHANGED <<type, stall, leds, report, held, moves, keys, moved, sent, overflow>>

(* handle_reset (a bus reset): the state struct is cleared; the timer and *)
(* the keyboard's LEDs are left as they are.                               *)
Reset ==
  /\ s' = S0
  /\ moved' = sent
  /\ UNCHANGED <<type, timer, stall, leds, report, held, moves, keys, sent, overflow>>

(* The mouse ignores absxy. *)
AbsXY == IF type = "tablet" THEN BOOLEAN ELSE {FALSE}

Next ==
  \/ \E k \in Keys : KeyPress(k) \/ KeyRelease(k)
  \/ \E m \in Moves, b \in Buttons, a \in AbsXY : MouseMove(m, b, a)
  \/ MouseEnabled
  \/ \E len \in Lens : DataIn(len) \/ GetReport(len)
  \/ \E d \in LedBytes : SetReport(d)
  \/ \E v \in IdleRates : SetIdle(v)
  \/ Stall
  \/ IdleTimer
  \/ Reset

(* The host controller polls the interrupt endpoint every frame and the   *)
(* bochs timer fires once armed.                                           *)
Fairness ==
  /\ \A len \in Lens : WF_vars(DataIn(len))
  /\ WF_vars(IdleTimer)

Spec == Init /\ [][Next]_vars /\ Fairness

-----------------------------------------------------------------------------
(* Properties.                                                             *)

ModCodes == {usbkbd_conv[k].code : k \in {j \in Keys : usbkbd_conv[j].modkey}}
KeyCodes == {0} \cup {usbkbd_conv[k].code : k \in {j \in Keys : ~usbkbd_conv[j].modkey}}
KbdState == [mods |-> s.mods, key |-> s.key]

(* The device's state has its type: both event buffers hold at most      *)
(* BX_KBD_ELEMENTS events, the mouse's motion fits a Bit8s and the        *)
(* tablet's position is never negative.                                    *)
HidTypeOK ==
  /\ type \in Types
  /\ s.has_events \in BOOLEAN /\ s.idle \in {0} \cup IdleRates
  /\ Len(s.mouse_event_buf) <= Elements /\ Len(s.kbd_event_buf) <= Elements
  /\ type = "mouse" => {s.mouse_x, s.mouse_y} \subseteq S8Min .. S8Max
  /\ type = "tablet" => s.mouse_x >= 0 /\ s.mouse_y >= 0
  /\ s.mods \subseteq ModCodes /\ s.key \in KeyCodes
  /\ {timer, stall, overflow} \subseteq BOOLEAN
  /\ held \subseteq Keys /\ moves \in 0 .. MaxMoves /\ keys \in 0 .. MaxKeys

(* The mouse's motion in flight: the delayed part mouse_enq has not yet    *)
(* emitted, the part in mouse_x/mouse_y not yet in a packet, and the       *)
(* queued packets.                                                         *)
Queued(f) == FoldSeq(LAMBDA q, acc : acc + q[f], 0, s.mouse_event_buf)
InFlight == [x |-> s.mouse_delayed_dx + s.mouse_x + Queued("x"),
             y |-> s.mouse_delayed_dy + s.mouse_y + Queued("y")]

(* No mouse motion is lost or invented: while no event has met a full    *)
(* event buffer, the motion mouse_enq accepted is the motion reported to   *)
(* the host plus the motion in flight, across the delayed-motion split in *)
(* mouse_enq, the flush in mouse_poll and the packets of get_mouse_packet *)
(* and create_mouse_packet.                                                *)
MotionConserved ==
  type = "mouse" /\ ~overflow =>
    moved = [x |-> sent.x + InFlight.x, y |-> sent.y + InFlight.y]

(* Once the GUI stops moving the mouse, the host's polls deliver all of   *)
(* the motion, the delayed part included (mouse_poll's flush), unless an  *)
(* event met a full buffer.  mouse_poll flushes the delayed motion only   *)
(* when has_events is clear, and hid_idle_timer sets it: with an idle rate *)
(* above 0 the timer (4 ms per unit) may fire before every poll (the      *)
(* endpoint's bInterval is 10 ms), each poll then sends an empty packet   *)
(* and the delayed unit stays, so this fails.                              *)
MotionDeliveredAnyIdle ==
  (type = "mouse" /\ moves = MaxMoves /\ ~overflow) ~> (sent = moved)

(* The same at idle rate 0, where only motion and buttons set has_events: *)
(* the polls drain the queued packets, then flush the delayed motion, and *)
(* the host receives all of it unless the rate is set above 0 first.      *)
MotionDelivered ==
  (type = "mouse" /\ moves = MaxMoves /\ ~overflow /\ s.idle = 0)
    ~> (sent = moved \/ s.idle # 0)

(* With a non-zero idle rate the host eventually receives the keyboard's *)
(* state, unless the rate is set to 0 first: the idle timer that          *)
(* keyboard_poll and SET_IDLE arm sets has_events, and each poll takes    *)
(* one queued key.                                                         *)
IdleReportsState ==
  (type \in KbdTypes /\ s.idle > 0 /\ KbdState # report)
    ~> (KbdState = report \/ s.idle = 0)

(* Every change of the keyboard's state after the first report is        *)
(* eventually reported to the host: what a HID keyboard promises at an    *)
(* idle rate of 0, where reports are sent only on change.                  *)
KbdStateReported ==
  (type \in KbdTypes /\ report # NoReport /\ KbdState # report) ~> (KbdState = report)

(* A wheel turn of the mouse is eventually taken out of mouse_z by a      *)
(* report, as the comment of mouse_poll's flush ("handle delayed one")    *)
(* intends when it passes s.mouse_z back to mouse_enq; mouse_enq queues a *)
(* packet and sets has_events only for motion or a button change.         *)
WheelReported ==
  (type = "mouse" /\ s.mouse_z # 0) ~> (s.mouse_z = 0)

(* Every keyboard event queued while a report was pending is eventually   *)
(* taken from the queue by keyboard_poll (or dropped by a reset).          *)
KbdQueueDrains ==
  \A n \in 1 .. Elements :
    (type \in KbdTypes /\ Len(s.kbd_event_buf) = n) ~> (Len(s.kbd_event_buf) < n)

(* The keyboard's LEDs show the LED byte the host last set with            *)
(* SET_REPORT.                                                             *)
LedsFollowIndicators ==
  type = "keyboard" => leds = s.indicators

====
