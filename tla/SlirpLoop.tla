----------------------------- MODULE SlirpLoop -----------------------------
(***************************************************************************)
(* The readiness multiplexer and dispatch engine of slirp.cc over the     *)
(* socket registry, composed with the translator of SlirpArp:             *)
(*   - slirp_select_fill: UDP/ICMP expiry, the watch sets, the timer       *)
(*     requests and slirp_update_timeout;                                  *)
(*   - the host's select(), which keeps a subset of each watch set, and   *)
(*     the passing of time;                                                *)
(*   - slirp_select_poll: the fast and slow timers, one step per TCP       *)
(*     socket of the list as it was when the loop began, then the UDP and  *)
(*     ICMP receives and if_start;                                         *)
(*   - slirp_add_hostfwd / slirp_remove_hostfwd;                           *)
(*   - the guest side of the sockets (tcp_input, udp_input, icmp_input)   *)
(*     and the socket helpers of socket.c, which are not in the            *)
(*     repository and follow spec sections 3, 4.1 and 7.                   *)
(* curtime is a u_int count of milliseconds: it is kept modulo Wrap, with *)
(* the timer constants scaled down alongside it.                          *)
(***************************************************************************)
EXTENDS SlirpArp

CONSTANTS
  TcpSocks, UdpSocks, IcmpSocks, \* socket records of tcb, udb and icmp
  HostKeys, NoKey,               \* host address:port pairs of forwarding rules
  GuestIP,                       \* destination of guest-bound packets
  Wrap,                          \* 2^w: curtime is taken modulo Wrap
  TIMEOUT_FAST, TIMEOUT_SLOW,    \* timer periods in ticks
  TimeoutCap,                    \* the 1000 ms ceiling of slirp_update_timeout
  ProposedTimeout,               \* *timeout passed by the caller
  SO_EXPIRE,                     \* idle lifetime of a UDP/ICMP socket
  MaxElapse,                     \* ticks that may pass during one select
  SbDatalen,                     \* so_snd.sb_datalen
  QueueLimit,                    \* the "4" of the UDP so_queued test
  MaxFrags                       \* fragments ip_output may cut one datagram into

ASSUME /\ GuestIP \in GuestIPs /\ NoKey \notin HostKeys
       /\ Owners = TcpSocks \cup UdpSocks \cup IcmpSocks
       /\ \A n \in {Wrap, TIMEOUT_FAST, TIMEOUT_SLOW, SO_EXPIRE, MaxElapse, SbDatalen} :
            n \in Nat \ {0}
       /\ TIMEOUT_FAST < TIMEOUT_SLOW /\ TIMEOUT_SLOW <= TimeoutCap
       /\ QueueLimit \in Nat /\ ProposedTimeout \in Nat /\ MaxFrags \in Nat \ {0}

Socks == TcpSocks \cup UdpSocks \cup IcmpSocks
Dgram == UdpSocks \cup IcmpSocks
Flags == {"FACCEPTCONN", "ISFCONNECTING", "ISFCONNECTED", "FCANTSENDMORE",
          "FCANTRCVMORE", "NOFDREF", "HOSTFWD", "INCOMING"}
SS_PERSISTENT_MASK == {"HOSTFWD", "INCOMING"}
Ticks == 0 .. Wrap - 1

VARIABLES
  curtime, time_fasttimo, last_slowtimo, do_slowtimo, timeout,
  phase,         \* "guest" between cycles, "select" after fill, "poll"
  todo,          \* TCP sockets the poll loop has still to visit
  select_error,
  tcb, udb, icmp,
  so_state, has_fd, fwd_key,
  rcv_cc,        \* so_rcv.sb_cc: guest data waiting to be written to the host
  snd_cc,        \* so_snd.sb_cc: host data waiting to reach the guest
  delack,        \* TF_DELACK of the socket's tcpcb
  synsent,       \* our SYN or SYN-ACK is out and the guest has not ACKed
  so_expire,
  readfds, writefds, xfds,
  idle,          \* history: ticks since the flow last carried a datagram
  fwd_rules      \* history: rules added and not yet removed

loopVars == <<curtime, time_fasttimo, last_slowtimo, do_slowtimo, timeout,
              phase, todo, select_error, tcb, udb, icmp, so_state, has_fd,
              fwd_key, rcv_cc, snd_cc, delack, synsent, so_expire,
              readfds, writefds, xfds, idle, fwd_rules>>
vars == <<arpVars, loopVars>>

Live == tcb \cup udb \cup icmp
Rule == [udp : BOOLEAN, key : HostKeys]

LoopTypeOK ==
  /\ ArpTypeOK
  /\ {curtime, time_fasttimo, last_slowtimo} \subseteq Ticks
  /\ do_slowtimo \in BOOLEAN /\ timeout \in Nat
  /\ phase \in {"guest", "select", "poll"} /\ todo \subseteq tcb
  /\ select_error \in BOOLEAN
  /\ tcb \subseteq TcpSocks /\ udb \subseteq UdpSocks /\ icmp \subseteq IcmpSocks
  /\ so_state \in [Socks -> SUBSET Flags] /\ has_fd \in [Socks -> BOOLEAN]
  /\ fwd_key \in [Socks -> HostKeys \cup {NoKey}]
  /\ rcv_cc \in [Socks -> 0 .. 1] /\ snd_cc \in [Socks -> 0 .. SbDatalen]
  /\ delack \in [Socks -> BOOLEAN] /\ synsent \in [Socks -> BOOLEAN]
  /\ so_expire \in [Socks -> Ticks] /\ idle \in [Socks -> 0 .. SO_EXPIRE]
  /\ readfds \cup writefds \cup xfds \subseteq Socks
  /\ fwd_rules \subseteq Rule

LoopInit ==
  /\ ArpInit
  /\ curtime = 0 /\ time_fasttimo = 0 /\ last_slowtimo = 0
  /\ do_slowtimo = FALSE /\ timeout = ProposedTimeout
  /\ phase = "guest" /\ todo = {} /\ select_error = FALSE
  /\ tcb = {} /\ udb = {} /\ icmp = {}
  /\ so_state = [s \in Socks |-> {}] /\ has_fd = [s \in Socks |-> FALSE]
  /\ fwd_key = [s \in Socks |-> NoKey]
  /\ rcv_cc = [s \in Socks |-> 0] /\ snd_cc = [s \in Socks |-> 0]
  /\ delack = [s \in Socks |-> FALSE] /\ synsent = [s \in Socks |-> FALSE]
  /\ so_expire = [s \in Socks |-> 0] /\ idle = [s \in Socks |-> 0]
  /\ readfds = {} /\ writefds = {} /\ xfds = {}
  /\ fwd_rules = {}

-----------------------------------------------------------------------------
(* Socket predicates of slirp.cc and socket.c.                             *)

CONN_CANFSEND(s) == so_state[s] \cap {"FCANTSENDMORE", "ISFCONNECTED"} = {"ISFCONNECTED"}
CONN_CANFRCV(s) == so_state[s] \cap {"FCANTRCVMORE", "ISFCONNECTED"} = {"ISFCONNECTED"}

(* "NOFDREF can include still connecting to local-host, newly socreated() *)
(* sockets etc. Don't want to select these."                              *)
Selectable(s) == "NOFDREF" \notin so_state[s] /\ has_fd[s]

(* sofcantrcvmore / sofcantsendmore: the second shutdown drops every       *)
(* non-persistent flag and marks the socket NOFDREF.                       *)
SoFcantRcvMore(st) ==
  IF "FCANTSENDMORE" \in st THEN (st \cap SS_PERSISTENT_MASK) \cup {"NOFDREF"}
                            ELSE st \cup {"FCANTRCVMORE"}
SoFcantSendMore(st) ==
  IF "FCANTRCVMORE" \in st THEN (st \cap SS_PERSISTENT_MASK) \cup {"NOFDREF"}
                           ELSE st \cup {"FCANTSENDMORE"}

(* so_queued of a UDP socket: if_output increments it for every mbuf the  *)
(* socket queues and if_start decrements it for every one that leaves.     *)
Queued(u) == Cardinality({m \in ToSet(ifq) : pkt[m].so = u})

(* Packets an action sends to the guest, one per owner socket.             *)
Outs(S) == [i \in 1 .. Cardinality(S) |-> [so |-> SetToSeq(S)[i], big |-> FALSE]]

(* The fragments of one datagram per socket of S, nf[s] of them for s.   *)
Frags(S, nf) ==
  FlattenSeq([i \in 1 .. Cardinality(S) |->
                LET s == SetToSeq(S)[i] IN [j \in 1 .. nf[s] |-> [so |-> s, big |-> FALSE]]])

Anon(n) == [i \in 1 .. n |-> [so |-> NoOwner, big |-> FALSE]]

(* sofree of the sockets in S: they leave their lists and their records   *)
(* are reset for reuse.  Queued packets keep flowing but no longer count  *)
(* against the freed record.                                               *)
Reset(f, S, v) == [s \in DOMAIN f |-> IF s \in S THEN v ELSE f[s]]
Disown(p, S) == [m \in Pkts |-> IF p[m].so \in S THEN [p[m] EXCEPT !.so = NoOwner]
                                                 ELSE p[m]]

-----------------------------------------------------------------------------
(* slirp_select_fill                                                       *)

(* The UDP/ICMP expiry test "so_expire && so_expire <= curtime", on u_int  *)
(* values; a zero so_expire means the socket never expires.                *)
ExpiryDue_noguard(s) == so_expire[s] <= curtime

ExpiryDue(s) == so_expire[s] # 0 /\ so_expire[s] <= curtime

(* The TCP part of the loop: accepting sockets are read-watched, connecting *)
(* ones write-watched, connected ones write-watched with guest data to     *)
(* send and read- and urgent-watched while so_snd is under half full.      *)
TcpWatch_nohalf(s) ==
  CASE ~Selectable(s) -> [r |-> FALSE, w |-> FALSE, x |-> FALSE]
    [] "FACCEPTCONN" \in so_state[s] -> [r |-> TRUE, w |-> FALSE, x |-> FALSE]
    [] "ISFCONNECTING" \in so_state[s] -> [r |-> FALSE, w |-> TRUE, x |-> FALSE]
    [] OTHER -> [r |-> CONN_CANFRCV(s), x |-> CONN_CANFRCV(s),
                 w |-> CONN_CANFSEND(s) /\ rcv_cc[s] > 0]

TcpWatch(s) ==
  CASE ~Selectable(s) -> [r |-> FALSE, w |-> FALSE, x |-> FALSE]
    [] "FACCEPTCONN" \in so_state[s] -> [r |-> TRUE, w |-> FALSE, x |-> FALSE]
    [] "ISFCONNECTING" \in so_state[s] -> [r |-> FALSE, w |-> TRUE, x |-> FALSE]
    [] OTHER -> LET rd == CONN_CANFRCV(s) /\ snd_cc[s] < SbDatalen \div 2
                IN [r |-> rd, x |-> rd, w |-> CONN_CANFSEND(s) /\ rcv_cc[s] > 0]

(* UDP sockets are read-watched while connected with so_queued <= 4.      *)
UdpWatch_loose(u) == "ISFCONNECTED" \in so_state[u] /\ Queued(u) <= QueueLimit + 1

UdpWatch(u) == "ISFCONNECTED" \in so_state[u] /\ Queued(u) <= QueueLimit

(* slirp_update_timeout: leave a timeout of at most TIMEOUT_FAST alone;   *)
(* otherwise TIMEOUT_FAST if a fast timer is requested, else the smaller  *)
(* of 1000 ms, the caller's value and (if slow timers run) TIMEOUT_SLOW.  *)
slirp_update_timeout_slowfirst(t, fast, slow) ==
  IF t <= TIMEOUT_FAST THEN t
  ELSE IF slow THEN Min({TIMEOUT_SLOW, TimeoutCap, t})
  ELSE IF fast # 0 THEN TIMEOUT_FAST
  ELSE Min({TimeoutCap, t})

slirp_update_timeout(t, fast, slow) ==
  IF t <= TIMEOUT_FAST THEN t
  ELSE IF fast # 0 THEN TIMEOUT_FAST
  ELSE IF slow THEN Min({TIMEOUT_SLOW, TimeoutCap, t})
  ELSE Min({TimeoutCap, t})

(* The whole of slirp_select_fill for the one instance.  do_slowtimo is   *)
(* set for a non-empty tcb (the fragment queue is not modelled) and by any *)
(* surviving expirable UDP/ICMP socket; time_fasttimo takes curtime when   *)
(* a tcpcb has TF_DELACK and no fast timer is pending.                     *)
slirp_select_fill ==
  /\ phase = "guest"
  /\ LET reaped == {s \in udb \cup icmp : ExpiryDue(s)}
         fast == IF time_fasttimo = 0 /\ \E s \in tcb : delack[s]
                 THEN curtime ELSE time_fasttimo
         slow == tcb # {} \/ \E s \in (udb \cup icmp) \ reaped : so_expire[s] # 0
     IN /\ udb' = udb \ reaped
        /\ icmp' = icmp \ reaped
        /\ so_state' = Reset(so_state, reaped, {})
        /\ has_fd' = Reset(has_fd, reaped, FALSE)
        /\ fwd_key' = Reset(fwd_key, reaped, NoKey)
        /\ so_expire' = Reset(so_expire, reaped, 0)
        /\ pkt' = Disown(pkt, reaped)
        /\ readfds' = {s \in tcb : TcpWatch(s).r}
                      \cup {u \in udb \ reaped : UdpWatch(u)}
                      \cup {i \in icmp \ reaped : "ISFCONNECTED" \in so_state[i]}
        /\ writefds' = {s \in tcb : TcpWatch(s).w}
        /\ xfds' = {s \in tcb : TcpWatch(s).x}
        /\ time_fasttimo' = fast
        /\ do_slowtimo' = slow
        /\ timeout' = slirp_update_timeout(ProposedTimeout, fast, slow)
        /\ phase' = "select"
  /\ UNCHANGED <<arptbl, next_victim, exec_list, client_ipaddr, ifq, mfree,
                 curtime, last_slowtimo, todo, select_error, tcb, rcv_cc, snd_cc,
                 delack, synsent, idle, fwd_rules>>

-----------------------------------------------------------------------------
(* slirp_select_poll                                                       *)

(* Mutant: the difference taken as a signed int, so it is negative after  *)
(* curtime wraps past time_fasttimo.                                       *)
FastTimerDue_signed(c, tf) == c - tf >= TIMEOUT_FAST

(* The fast-timer test "(curtime - time_fasttimo) >= TIMEOUT_FAST" on u_int *)
(* values, which stays right across the wrap of curtime.                   *)
FastTimerDue(c, tf) == (c - tf) % Wrap >= TIMEOUT_FAST

(* Connections tcp_slowtimo may drop: those still in the handshake, whose  *)
(* connection-establishment timer (TCPT_KEEP) runs.                        *)
KeepCandidates == {s \in tcb : so_state[s] \cap {"ISFCONNECTED", "FACCEPTCONN"} = {}}

(* The host's select() returns after d ticks with a subset of each watch   *)
(* set, or with an error; then slirp_select_poll samples curtime, runs the *)
(* timers and starts the TCP loop over the current list.  tcp_fasttimo    *)
(* sends the delayed ACK of every tcpcb with TF_DELACK; tcp_slowtimo may   *)
(* drop handshaking connections (with a reset to the guest).              *)
SelectAndTimers ==
  /\ phase = "select"
  /\ \E d \in 1 .. MaxElapse, err \in BOOLEAN, R \in SUBSET readfds,
        W \in SUBSET writefds, X \in SUBSET xfds, drop \in SUBSET KeepCandidates :
       LET c == (curtime + d) % Wrap
           fast == time_fasttimo # 0 /\ FastTimerDue(c, time_fasttimo)
           slow == do_slowtimo /\ (c - last_slowtimo) % Wrap >= TIMEOUT_SLOW
           acks == IF fast THEN {s \in tcb : delack[s]} ELSE {}
           dropped == IF slow THEN drop ELSE {}
       IN /\ ~slow => drop = {}
          /\ curtime' = c
          /\ time_fasttimo' = IF fast THEN 0 ELSE time_fasttimo
          /\ last_slowtimo' = IF slow THEN c ELSE last_slowtimo
          /\ delack' = [s \in Socks |-> delack[s] /\ s \notin acks \cup dropped]
          /\ IfOutputs(GuestIP, Outs(acks) \o Anon(Cardinality(dropped)))
          /\ tcb' = tcb \ dropped
          /\ so_state' = Reset(so_state, dropped, {})
          /\ has_fd' = Reset(has_fd, dropped, FALSE)
          /\ rcv_cc' = Reset(rcv_cc, dropped, 0)
          /\ snd_cc' = Reset(snd_cc, dropped, 0)
          /\ synsent' = Reset(synsent, dropped, FALSE)
          /\ idle' = [s \in Socks |-> IF s \in udb \cup icmp
                                     THEN Min({idle[s] + d, SO_EXPIRE}) ELSE 0]
          /\ readfds' = R /\ writefds' = W /\ xfds' = X
          /\ select_error' = err
          /\ todo' = IF err THEN {} ELSE tcb \ dropped
          /\ phase' = "poll"
  /\ UNCHANGED <<arptbl, next_victim, exec_list, do_slowtimo, timeout,
                 udb, icmp, fwd_key, so_expire, fwd_rules>>

(* One pass of the TCP loop body for socket s.  Sockets that are NOFDREF or *)
(* have no fd are skipped.  Urgent data (sorecvoob) and plain reads share *)
(* soread's outcomes: data, EAGAIN or end of stream/error.  A readable     *)
(* accepting socket runs tcp_connect, which takes a free record for the   *)
(* new connection (NOFDREF until the guest completes the handshake) and   *)
(* sends the SYN, and then skips the write test.  A writable connecting   *)
(* socket has ISFCONNECTING cleared before the zero-byte send: a transient *)
(* error continues, any other error makes the socket NOFDREF and          *)
(* tcp_input(NULL) closes it, success lets tcp_input(NULL) send the       *)
(* SYN-ACK.  Any other writable socket runs sowrite.                      *)
PollTcp(s) ==
  /\ phase = "poll" /\ s \in todo
  /\ todo' = todo \ {s}
  /\ IF ~Selectable(s)
     THEN UNCHANGED <<ifq, pkt, mfree, client_ipaddr, tcb, so_state, has_fd,
                      rcv_cc, snd_cc, synsent, delack>>
     ELSE \E ro \in {"data", "again", "eof"}, wo \in {"ok", "again", "fail"},
              newSock \in IF "FACCEPTCONN" \in so_state[s] /\ s \notin xfds /\ s \in readfds
                            /\ TcpSocks \ tcb # {}
                           THEN {{n} : n \in TcpSocks \ tcb} ELSE {{}} :
       LET st == so_state[s]
           urg == s \in xfds
           rd == urg \/ s \in readfds
           accept == ~urg /\ rd /\ "FACCEPTCONN" \in st
           st1 == IF rd /\ ~accept /\ ro = "eof" THEN SoFcantRcvMore(st) ELSE st
           wr == ~accept /\ s \in writefds
           conn == wr /\ "ISFCONNECTING" \in st1
           st2 == IF conn THEN st1 \ {"ISFCONNECTING"} ELSE st1
           failed == conn /\ wo = "fail"
           st3 == CASE failed -> (st2 \cap SS_PERSISTENT_MASK) \cup {"NOFDREF"}
                    [] wr /\ ~conn /\ wo = "fail" -> SoFcantSendMore(st2)
                    [] OTHER -> st2
           readOut == IF rd /\ ~accept /\ ro # "again" THEN {s} ELSE {}
           writeOut == IF wr /\ wo = "ok" /\ conn THEN {s}
                       ELSE IF wr /\ ~conn /\ wo = "fail" THEN {s} ELSE {}
       IN /\ IfOutputs(GuestIP, Outs(readOut) \o Outs(writeOut) \o Outs(newSock))
          /\ tcb' = (tcb \cup newSock) \ (IF failed THEN {s} ELSE {})
          /\ so_state' = [t \in Socks |-> CASE t = s /\ failed -> {}
                                            [] t = s -> st3
                                            [] t \in newSock -> {"NOFDREF", "INCOMING"}
                                            [] OTHER -> so_state[t]]
          /\ has_fd' = [t \in Socks |-> IF t = s THEN ~failed
                                         ELSE t \in newSock \/ has_fd[t]]
          /\ rcv_cc' = [rcv_cc EXCEPT ![s] = IF (wr /\ ~conn /\ wo = "ok") \/ failed THEN 0 ELSE @]
          /\ snd_cc' = [snd_cc EXCEPT ![s] = IF rd /\ ~accept /\ ro = "data"
                                             THEN @ + 1
                                             ELSE IF failed THEN 0 ELSE @]
          /\ synsent' = [t \in Socks |-> IF t \in newSock \/ (t = s /\ conn /\ wo = "ok")
                                         THEN TRUE ELSE IF t = s /\ failed THEN FALSE
                                         ELSE synsent[t]]
          /\ delack' = [delack EXCEPT ![s] = @ /\ ~failed]
  /\ UNCHANGED <<arptbl, next_victim, exec_list, curtime, time_fasttimo,
                 last_slowtimo, do_slowtimo, timeout, phase, select_error, udb, icmp,
                 fwd_key, so_expire, readfds, writefds, xfds, idle, fwd_rules>>

(* The end of the poll: every readable UDP socket runs sorecvfrom, which   *)
(* relays one datagram to the guest (ip_output may cut it into fragments, *)
(* each an mbuf that counts in so_queued: the "could have more queued" of *)
(* the comment at line 414) and renews an expirable so_expire, or         *)
(* on an error answers the guest with an ICMP error; every readable ICMP  *)
(* socket relays its reply and is detached.  Then if_start.  After a      *)
(* select error the sockets are not looked at.  The fd sets live on the   *)
(* caller's stack and are dropped when the poll returns.                  *)
PollDgram ==
  /\ phase = "poll" /\ todo = {}
  /\ \E ok \in SUBSET (udb \cap readfds) :
       LET U == IF select_error THEN {} ELSE udb \cap readfds
           I == IF select_error THEN {} ELSE icmp \cap readfds
           got == U \cap ok
       IN \E nf \in [got -> 1 .. MaxFrags] :
          /\ IfOutputs(GuestIP, Frags(got, nf) \o Anon(Cardinality(U \ got) + Cardinality(I)))
          /\ so_expire' = [s \in Socks |-> CASE s \in I -> 0
                                             [] s \in got /\ so_expire[s] # 0 ->
                                                  (curtime + SO_EXPIRE) % Wrap
                                             [] OTHER -> so_expire[s]]
          /\ idle' = Reset(idle, got, 0)
          /\ icmp' = icmp \ I
          /\ so_state' = Reset(so_state, I, {})
          /\ has_fd' = Reset(has_fd, I, FALSE)
  /\ phase' = "guest"
  /\ readfds' = {} /\ writefds' = {} /\ xfds' = {} /\ select_error' = FALSE
  /\ UNCHANGED <<arptbl, next_victim, exec_list, curtime, time_fasttimo,
                 last_slowtimo, do_slowtimo, timeout, todo, tcb, udb,
                 fwd_key, rcv_cc, snd_cc, delack, synsent, fwd_rules>>

-----------------------------------------------------------------------------
(* Host forwarding (slirp.cc) and the guest side of the sockets.           *)

(* slirp_add_hostfwd: tcp_listen / udp_listen create a persistent socket   *)
(* bound to the host key; binding a key already bound for that protocol   *)
(* fails, as does running out of records.  A UDP rule never expires.      *)
slirp_add_hostfwd(is_udp, key) ==
  LET pool == IF is_udp THEN UdpSocks \ udb ELSE TcpSocks \ tcb
      list == IF is_udp THEN udb ELSE tcb
  IN /\ phase = "guest"
     /\ pool # {}
     /\ ~\E t \in list : fwd_key[t] = key
     /\ \E s \in pool :
           /\ IF is_udp THEN udb' = udb \cup {s} /\ UNCHANGED tcb
                        ELSE tcb' = tcb \cup {s} /\ UNCHANGED udb
           /\ so_state' = [so_state EXCEPT ![s] = IF is_udp THEN {"ISFCONNECTED", "HOSTFWD"}
                                                  ELSE {"FACCEPTCONN", "HOSTFWD"}]
           /\ has_fd' = [has_fd EXCEPT ![s] = TRUE]
           /\ fwd_key' = [fwd_key EXCEPT ![s] = key]
           /\ so_expire' = [so_expire EXCEPT ![s] = 0]
           /\ fwd_rules' = fwd_rules \cup {[udp |-> is_udp, key |-> key]}
     /\ UNCHANGED <<arpVars, curtime, time_fasttimo, last_slowtimo, do_slowtimo,
                    timeout, phase, todo, select_error, icmp, rcv_cc, snd_cc, delack,
                    synsent, readfds, writefds, xfds, idle>>

(* slirp_remove_hostfwd: close and sofree the first HOSTFWD socket of the *)
(* list whose bound address is the key; -1 (no change) if there is none.  *)
slirp_remove_hostfwd(is_udp, key) ==
  LET list == IF is_udp THEN udb ELSE tcb
      hits == {t \in list : "HOSTFWD" \in so_state[t] /\ fwd_key[t] = key}
  IN /\ phase = "guest"
     /\ hits # {}
     /\ LET s == CHOOSE t \in hits : TRUE
        IN /\ IF is_udp THEN udb' = udb \ {s} /\ UNCHANGED tcb
                        ELSE tcb' = tcb \ {s} /\ UNCHANGED udb
           /\ so_state' = [so_state EXCEPT ![s] = {}]
           /\ has_fd' = [has_fd EXCEPT ![s] = FALSE]
           /\ fwd_key' = [fwd_key EXCEPT ![s] = NoKey]
           /\ pkt' = Disown(pkt, {s})
           /\ fwd_rules' = fwd_rules \ {[udp |-> is_udp, key |-> key]}
     /\ UNCHANGED <<arptbl, next_victim, exec_list, client_ipaddr, ifq, mfree,
                    curtime, time_fasttimo, last_slowtimo, do_slowtimo, timeout,
                    phase, todo, select_error, icmp, rcv_cc, snd_cc, delack, synsent,
                    so_expire, readfds, writefds, xfds, idle>>

(* Guest-side TCP (tcp_input, not in the repository, spec 3 and 7).  A SYN *)
(* to an outside host opens a non-blocking connect (ISFCONNECTING); one to *)
(* an exec address is served without a host fd.                          *)
TcpGuestSyn(s, exec) ==
  /\ phase = "guest" /\ s \in TcpSocks \ tcb
  /\ exec => exec_list # {}
  /\ tcb' = tcb \cup {s}
  /\ so_state' = [so_state EXCEPT ![s] = IF exec THEN {"ISFCONNECTED"} ELSE {"ISFCONNECTING"}]
  /\ has_fd' = [has_fd EXCEPT ![s] = ~exec]
  /\ UNCHANGED <<arpVars, curtime, time_fasttimo, last_slowtimo, do_slowtimo, timeout,
                 phase, todo, select_error, udb, icmp, fwd_key, rcv_cc, snd_cc, delack,
                 synsent, so_expire, readfds, writefds, xfds, idle, fwd_rules>>

(* The guest ACKs our SYN or SYN-ACK: soisfconnected.                      *)
TcpGuestAck(s) ==
  /\ phase = "guest" /\ s \in tcb /\ synsent[s]
  /\ so_state' = [so_state EXCEPT ![s] = (@ \ {"NOFDREF", "ISFCONNECTING"}) \cup {"ISFCONNECTED"}]
  /\ synsent' = [synsent EXCEPT ![s] = FALSE]
  /\ UNCHANGED <<arpVars, curtime, time_fasttimo, last_slowtimo, do_slowtimo, timeout,
                 phase, todo, select_error, tcb, udb, icmp, has_fd, fwd_key, rcv_cc,
                 snd_cc, delack, so_expire, readfds, writefds, xfds, idle, fwd_rules>>

(* Guest data lands in so_rcv and the ACK is delayed (TF_DELACK).          *)
TcpGuestData(s) ==
  /\ phase = "guest" /\ s \in tcb /\ CONN_CANFSEND(s)
  /\ rcv_cc' = [rcv_cc EXCEPT ![s] = 1]
  /\ delack' = [delack EXCEPT ![s] = TRUE]
  /\ UNCHANGED <<arpVars, curtime, time_fasttimo, last_slowtimo, do_slowtimo, timeout,
                 phase, todo, select_error, tcb, udb, icmp, so_state, has_fd, fwd_key,
                 snd_cc, synsent, so_expire, readfds, writefds, xfds, idle, fwd_rules>>

(* The guest acknowledges data: sbdrop on so_snd.                          *)
TcpGuestAckData(s) ==
  /\ phase = "guest" /\ s \in tcb /\ snd_cc[s] > 0
  /\ snd_cc' = [snd_cc EXCEPT ![s] = @ - 1]
  /\ UNCHANGED <<arpVars, curtime, time_fasttimo, last_slowtimo, do_slowtimo, timeout,
                 phase, todo, select_error, tcb, udb, icmp, so_state, has_fd, fwd_key,
                 rcv_cc, delack, synsent, so_expire, readfds, writefds, xfds, idle,
                 fwd_rules>>

(* A reset from the guest ends any connection but a listener: tcp_close.   *)
TcpGuestReset(s) ==
  /\ phase = "guest" /\ s \in tcb /\ "FACCEPTCONN" \notin so_state[s]
  /\ tcb' = tcb \ {s}
  /\ so_state' = [so_state EXCEPT ![s] = {}]
  /\ has_fd' = [has_fd EXCEPT ![s] = FALSE]
  /\ rcv_cc' = [rcv_cc EXCEPT ![s] = 0]
  /\ snd_cc' = [snd_cc EXCEPT ![s] = 0]
  /\ delack' = [delack EXCEPT ![s] = FALSE]
  /\ synsent' = [synsent EXCEPT ![s] = FALSE]
  /\ UNCHANGED <<arpVars, curtime, time_fasttimo, last_slowtimo, do_slowtimo, timeout,
                 phase, todo, select_error, udb, icmp, fwd_key, so_expire, readfds,
                 writefds, xfds, idle, fwd_rules>>

(* A guest datagram (udp_input, icmp_input): a new flow gets a socket with *)
(* so_expire = curtime + SO_EXPIRE; sosendto renews an expirable one.     *)
DgramGuestSend(s) ==
  /\ phase = "guest" /\ s \in Dgram
  /\ LET new == s \notin udb \cup icmp
     IN /\ new \/ s \in UdpSocks
        /\ udb' = IF s \in UdpSocks THEN udb \cup {s} ELSE udb
        /\ icmp' = IF s \in IcmpSocks THEN icmp \cup {s} ELSE icmp
        /\ so_state' = [so_state EXCEPT ![s] = IF new THEN {"ISFCONNECTED"} ELSE @]
        /\ has_fd' = [has_fd EXCEPT ![s] = TRUE]
        /\ so_expire' = [so_expire EXCEPT ![s] = IF new \/ @ # 0
                                                THEN (curtime + SO_EXPIRE) % Wrap ELSE @]
        /\ idle' = [idle EXCEPT ![s] = 0]
  /\ UNCHANGED <<arpVars, curtime, time_fasttimo, last_slowtimo, do_slowtimo, timeout,
                 phase, todo, select_error, tcb, fwd_key, rcv_cc, snd_cc, delack,
                 synsent, readfds, writefds, xfds, fwd_rules>>

(* The ARP branch of slirp_input, and slirp_add_exec.                     *)
GuestArp == phase = "guest" /\ SlirpInputArp /\ UNCHANGED loopVars
AddExec == phase = "guest" /\ \E a \in ExecArgs : slirp_add_exec(a) /\ UNCHANGED loopVars

LoopNext ==
  \/ slirp_select_fill
  \/ SelectAndTimers
  \/ \E s \in TcpSocks : PollTcp(s)
  \/ PollDgram
  \/ \E u \in BOOLEAN, k \in HostKeys : slirp_add_hostfwd(u, k) \/ slirp_remove_hostfwd(u, k)
  \/ \E s \in TcpSocks : \/ \E e \in BOOLEAN : TcpGuestSyn(s, e)
                         \/ TcpGuestAck(s) \/ TcpGuestData(s)
                         \/ TcpGuestAckData(s) \/ TcpGuestReset(s)
  \/ \E s \in Dgram : DgramGuestSend(s)
  \/ GuestArp
  \/ AddExec

-----------------------------------------------------------------------------
(* Properties.                                                             *)

(* The UDP flood control of slirp_select_fill: with so_queued tested as   *)
(* "<= 4" before each read and one read queueing the fragments of one     *)
(* datagram, a flow never has more than 4 + MaxFrags mbufs queued for the *)
(* guest, however reads, ARP misses, if_start passes and expiries         *)
(* interleave across cycles.                                               *)
UdpQueueBounded == \A u \in udb : Queued(u) <= QueueLimit + MaxFrags

(* Spec 4.3, 8: a UDP flow with 4 datagrams queued is not read from until *)
(* the queue drops below 4, so it never has more than 4 queued.           *)
UdpQueueBelowLimit == \A u \in udb : Queued(u) <= QueueLimit

(* Spec 3, 4.5: a forwarding rule added and not removed keeps its         *)
(* persistent socket in the registry: expiry, resets, connect failures   *)
(* and timers never reclaim it.                                           *)
HostFwdRulesLive ==
  \A r \in fwd_rules :
    \E s \in (IF r.udp THEN udb ELSE tcb) : "HOSTFWD" \in so_state[s] /\ fwd_key[s] = r.key

(* Spec 4.3: while a tcpcb has a delayed ACK, the timeout that fill hands *)
(* to select is TIMEOUT_FAST.  fill requests the fast timer by storing    *)
(* curtime in time_fasttimo, where 0 means "no request", so at curtime 0  *)
(* (before the first poll, and at every wrap) the request is lost.        *)
DelayedAckClampsTimeout ==
  (phase = "select" /\ ProposedTimeout > TIMEOUT_FAST /\ \E s \in tcb : delack[s])
    => timeout = TIMEOUT_FAST

(* Spec 4.4, 7: a transient error of the connect-completion send is      *)
(* retried on the next cycle.  The poll loop clears ISFCONNECTING before  *)
(* the send, so after such an error the socket is neither connecting nor  *)
(* connected, is never watched again, and no SYN-ACK reaches the guest.   *)
ConnectCompletionAnswered ==
  \A s \in tcb :
    (has_fd[s] /\ so_state[s] \cap {"FACCEPTCONN", "ISFCONNECTING", "ISFCONNECTED", "NOFDREF"} = {})
      => synsent[s]

(* Spec 3: a UDP/ICMP flow is reclaimed only after SO_EXPIRE without a    *)
(* datagram.  so_expire = curtime + SO_EXPIRE wraps with the u_int clock, *)
(* and the "so_expire <= curtime" test then reaps a fresh flow at once.   *)
ExpiryNotPremature ==
  [][(phase = "guest" /\ phase' = "select") =>
       \A s \in (udb \cup icmp) \ (udb' \cup icmp') : idle[s] >= SO_EXPIRE]_vars

(* A delayed ACK is eventually sent: tcp_fasttimo clears TF_DELACK, as    *)
(* long as fill, select and poll keep running.  fill records the request  *)
(* as time_fasttimo = curtime, which is lost when curtime is 0 (line 341), *)
(* and poll tests the u_int difference curtime - time_fasttimo across the *)
(* wrap of curtime (line 476): the ACK may be late, never lost.            *)
DelackFlushed == \A s \in TcpSocks : delack[s] ~> ~delack[s]

(* The caller runs fill, select and poll from a periodic timer, so each   *)
(* step of the cycle is weakly fair; the guest is not.                     *)
LoopSpec ==
  /\ LoopInit /\ [][LoopNext]_vars
  /\ WF_vars(slirp_select_fill) /\ WF_vars(SelectAndTimers)
  /\ WF_vars(\E s \in TcpSocks : PollTcp(s)) /\ WF_vars(PollDgram)

====
