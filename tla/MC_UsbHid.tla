------------------------------ MODULE MC_UsbHid ------------------------------
EXTENDS UsbHid

(* Bit8s scaled to -4 .. 3.  One move of (9, -9): dx halves (truncating)  *)
(* to 4 and is clamped to 3; dy halves to -4, which mouse_delayed_dy -=   *)
(* turns into +4, past 3, so one unit is delayed to the next report (the  *)
(* y axis is the only one where a single move overflows, as -128 does in *)
(* the code); the wheel moves by 1, and a zero move carries a button      *)
(* change.                                                                 *)
MCMoves ==
  {[dx |-> 9, dy |-> -9, dz |-> 0],
   [dx |-> 0, dy |-> 0, dz |-> 1], [dx |-> 0, dy |-> 0, dz |-> 0]}

(* A modifier, a letter and a keypad key. *)
MCKeys == {"SHIFT_L", "A", "KP_1"}

MCS8Min == -4

MCLedBytes == {{}, {LED_NUM}}

(* The host switching NUM and CAPS on together. *)
MCLedPairs == {{}, {LED_NUM, LED_CAPS}}

(* The counterexamples that are not about a reset leave bus resets out. *)
MCNoReset == FALSE

(* The view leaves out the keyboard's LEDs, and the mouse's and tablet's *)
(* last report, which no property reads and no other variable depends on. *)
HidView == <<type, s, timer, stall, IF type \in KbdTypes THEN report ELSE NoReport,
             held, moves, keys, moved, sent, overflow>>

=============================================================================
