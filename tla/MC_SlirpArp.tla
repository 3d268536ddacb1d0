---------------------------- MODULE MC_SlirpArp ----------------------------
(* The translator with the virtual host h, nameserver d, the default exec  *)
(* address e, one guest g, the broadcast address bc and one outside host x;*)
(* two guest MACs, a two-slot cache and two mbufs; exec addresses of zero, *)
(* the host (refused) and the guest.                                        *)
EXTENDS SlirpArp

CONSTANTS h, d, e, g, bc, x, m1, m2, ow

MCIPs == {h, d, e, g, bc, x}
MCVNetwork == {h, d, e, g, bc}
MCGuestIPs == {g, x, bc}
MCExecArgs == {NoIP, h, g}
MCMACs == {m1, m2}
MCPkts == {1, 2}
MCOwners == {ow}
====
