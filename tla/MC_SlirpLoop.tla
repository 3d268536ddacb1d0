---------------------------- MODULE MC_SlirpLoop ----------------------------
(* One guest g with one MAC and a one-slot ARP cache; one forwarding key. *)
(* The TCP instance has one TCP record (a listener, an outbound or an exec *)
(* connection) and no datagram records; the reproducers of the connect   *)
(* and fast-timer bugs use two; the datagram                              *)
(* instance has one UDP and one ICMP record and no TCP ones.  curtime     *)
(* wraps at 4 ticks (TIMEOUT_FAST 1, TIMEOUT_SLOW 2, the 1000 ms cap 3);  *)
(* the UDP queue test is at 1 instead of 4, with three mbufs so that one  *)
(* more than the code allows can be queued.                                *)
EXTENDS SlirpLoop

CONSTANTS h, d, e, g, bc, x, m1, t1, t2, u1, i1, k1

MCIPs == {h, d, e, g, bc, x}
MCVNetwork == {h, d, e, g, bc}
MCGuestIPs == {g}
MCExecArgs == {NoIP}
MCMACs == {m1}
MCPkts4 == {1, 2, 3, 4}
MCPkts3 == {1, 2, 3}
MCPkts2 == {1, 2}
MCPkts1 == {1}
MCNone == {}
MCTcp == {t1, t2}
MCTcp1 == {t1}
MCTcpIcmp == {t1, i1}
MCUdp == {u1}
MCIcmp == {i1}
MCDgram == {u1, i1}
MCAll == {t1, u1, i1}
MCKeys == {k1}

====
