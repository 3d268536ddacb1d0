------------------------------ MODULE SlirpArp ------------------------------
(***************************************************************************)
(* The Ethernet/ARP translator of one slirp instance (slirp.cc):           *)
(*   - the ARP cache (arp_table_add / arp_table_search, arp_table.c),      *)
(*   - arp_input and the ARP branch of slirp_input,                        *)
(*   - if_encap, which turns a guest-bound IP packet into a frame or asks  *)
(*     for the guest's hardware address first,                             *)
(*   - the queue of guest-bound packets (if_output / if_start, if.c).      *)
(* arp_table.c and if.c are not in the repository: their definitions      *)
(* follow spec section 4.2 and are marked as such in PROJECT.json.         *)
(*                                                                         *)
(* Frames are abstracted to the fields the code branches on: ARP op,       *)
(* sender/target IP, sender MAC; an outbound packet to its destination IP, *)
(* its oversize flag, its ARP state and the socket that queued it.         *)
(***************************************************************************)
EXTENDS Naturals, Sequences, SequencesExt, FiniteSetsExt

CONSTANTS
  IPs,          \* IPv4 addresses seen in frames (model values)
  VNetwork,     \* addresses a with (a & vnetwork_mask) = vnetwork_addr
  Broadcast,    \* ~vnetwork_mask | vnetwork_addr, never cached
  VHost,        \* vhost_addr
  VNameserver,  \* vnameserver_addr
  MACs,         \* guest hardware addresses
  GuestIPs,     \* sender addresses of guest frames, destinations of packets
  ArpTableSize, \* ARP_TABLE_SIZE
  ArpExpire,    \* ticks after the ARP request that a pending packet lives
  Pkts,         \* mbufs available for guest-bound packets (1..n)
  Owners,       \* sockets that may own a queued packet
  ExecDefault,  \* vnetwork_addr | (0x0204 & ~vnetwork_mask)
  ExecArgs,     \* guest_addr values passed to slirp_add_exec (NoIP: zero)
  NoIP, NoMAC, NoOwner

ASSUME /\ VNetwork \subseteq IPs /\ GuestIPs \subseteq IPs /\ ExecArgs \subseteq IPs \cup {NoIP} /\ Broadcast \in IPs
       /\ {VHost, VNameserver, ExecDefault} \subseteq VNetwork
       /\ ArpTableSize \in Nat \ {0} /\ ArpExpire \in Nat
       /\ Pkts \subseteq Nat \ {0}
       /\ NoIP \notin IPs /\ NoMAC \notin MACs /\ NoOwner \notin Owners

ArpOps == {"REQUEST", "REPLY", "OTHER"}

VARIABLES
  arptbl,        \* slirp->arp_table.table: index -> [sip, sha]
  next_victim,   \* slirp->arp_table.next_victim
  exec_list,     \* addresses of slirp->exec_list entries
  client_ipaddr, \* slirp->client_ipaddr
  ifq,           \* if_fastq/if_batchq: sequence of mbufs in send order
  pkt,           \* mbuf -> [dst, oversize, arp_requested, age, so]
  mfree          \* mbufs on slirp->m_freelist

arpVars == <<arptbl, next_victim, exec_list, client_ipaddr, ifq, pkt, mfree>>

Slots == 0 .. ArpTableSize - 1
Entry == [sip : IPs \cup {NoIP}, sha : MACs \cup {NoMAC}]
Packet == [dst : IPs, oversize : BOOLEAN, arp_requested : BOOLEAN,
           age : 0 .. ArpExpire + 1, so : Owners \cup {NoOwner}]

ArpTypeOK ==
  /\ arptbl \in [Slots -> Entry]
  /\ next_victim \in Slots
  /\ exec_list \subseteq VNetwork
  /\ client_ipaddr \in IPs \cup {NoIP}
  /\ ifq \in Seq(Pkts) /\ Len(ifq) = Cardinality(ToSet(ifq))
  /\ pkt \in [Pkts -> Packet]
  /\ mfree \subseteq Pkts

ArpInit ==
  /\ arptbl = [i \in Slots |-> [sip |-> NoIP, sha |-> NoMAC]]
  /\ next_victim = 0
  /\ exec_list = {}
  /\ client_ipaddr = NoIP
  /\ ifq = <<>>
  /\ pkt = [m \in Pkts |-> [dst |-> VHost, oversize |-> FALSE,
                            arp_requested |-> FALSE, age |-> 0, so |-> NoOwner]]
  /\ mfree = Pkts

-----------------------------------------------------------------------------
(* ARP cache (arp_table.c, spec 4.2): update the first entry for the IP, or *)
(* overwrite the round-robin victim; broadcast is never recorded.          *)

CachedAt(ip) == {i \in Slots : arptbl[i].sip = ip}

arp_table_search(ip) == ip = Broadcast \/ CachedAt(ip) # {}

(* Variant that advances the victim index without wrapping it.           *)
arp_table_add_nomod(ip, mac) ==
  IF ip = Broadcast
  THEN UNCHANGED <<arptbl, next_victim>>
  ELSE IF CachedAt(ip) # {}
          THEN /\ arptbl' = [arptbl EXCEPT ![Min(CachedAt(ip))].sha = mac]
               /\ UNCHANGED next_victim
          ELSE /\ arptbl' = [arptbl EXCEPT ![next_victim] = [sip |-> ip, sha |-> mac]]
               /\ next_victim' = next_victim + 1

arp_table_add(ip, mac) ==
  IF ip = Broadcast
  THEN UNCHANGED <<arptbl, next_victim>>
  ELSE IF CachedAt(ip) # {}
          THEN /\ arptbl' = [arptbl EXCEPT ![Min(CachedAt(ip))].sha = mac]
               /\ UNCHANGED next_victim
          ELSE /\ arptbl' = [arptbl EXCEPT ![next_victim] = [sip |-> ip, sha |-> mac]]
               /\ next_victim' = (next_victim + 1) % ArpTableSize

(* The targets arp_input answers for: the nameserver, the virtual host and  *)
(* the exec_list addresses, all inside the virtual network.                *)
Answered(tip) == tip \in VNetwork /\ tip \in {VNameserver, VHost} \cup exec_list

(* arp_input: a gratuitous request or a reply only updates the cache; a     *)
(* request for an answered target records the sender and is replied to;    *)
(* anything else is ignored.  The reply frame itself carries no state.     *)
arp_input(op, sip, sha, tip) ==
  /\ \/ /\ op = "REQUEST" /\ tip = sip
        /\ arp_table_add(sip, sha)
     \/ /\ op = "REQUEST" /\ tip # sip /\ Answered(tip)
        /\ arp_table_add(sip, sha)
     \/ /\ op = "REQUEST" /\ tip # sip /\ ~Answered(tip)
        /\ UNCHANGED <<arptbl, next_victim>>
     \/ /\ op = "REPLY"
        /\ arp_table_add(sip, sha)
     \/ /\ op = "OTHER"
        /\ UNCHANGED <<arptbl, next_victim>>
  /\ UNCHANGED <<exec_list, client_ipaddr, ifq, pkt, mfree>>

-----------------------------------------------------------------------------
(* Outbound path.  if_encap(m) returns 1 (the mbuf may be freed) for an     *)
(* oversize packet or a cache hit, and 0 (re-queue) on a miss, sending one  *)
(* ARP request the first time and stamping the 1 s expiry.  The operators  *)
(* take the mbuf table p so that callers can apply them to a primed one.   *)

EncapSent(p, m) == p[m].oversize \/ arp_table_search(p[m].dst)

EncapRequests(p, m) == ~EncapSent(p, m) /\ ~p[m].arp_requested

if_encap(p, m) ==
  IF EncapRequests(p, m)
  THEN [p[m] EXCEPT !.arp_requested = TRUE, !.age = 0]
  ELSE p[m]

(* if_start (if.c, spec 4.2): every queued mbuf whose ARP request has       *)
(* expired is dropped; every other one is handed to if_encap and leaves     *)
(* the queue when if_encap returns 1.  client_ipaddr is set by each ARP     *)
(* request, so the last one sent in the pass wins.                         *)
(* Variant in which a pending packet never expires.                       *)
Expired_never(p, m) == FALSE

Expired(p, m) == p[m].arp_requested /\ p[m].age > ArpExpire

IfStartLeaving(q, p) == {m \in ToSet(q) : Expired(p, m) \/ EncapSent(p, m)}

IfStartPass(q, p) ==
  LET out == IfStartLeaving(q, p)
      req == SelectSeq(q, LAMBDA m : ~Expired(p, m) /\ EncapRequests(p, m))
  IN [queue  |-> SelectSeq(q, LAMBDA m : m \notin out),
      mbufs  |-> [m \in Pkts |-> IF m \in ToSet(q) /\ ~Expired(p, m)
                                 THEN if_encap(p, m) ELSE p[m]],
      freed  |-> out,
      client |-> IF req = <<>> THEN client_ipaddr ELSE p[Last(req)].dst]

(* if_output: take a free mbuf (m_get), fill it with a packet for dst     *)
(* owned by socket so and append it to the queue; with no mbuf left the    *)
(* packet is lost.  Each element of outs is [so, big]: the owner and      *)
(* whether the packet is too long for if_encap's 1600-byte frame.         *)
RECURSIVE IfOutputSeq(_, _, _, _, _)
IfOutputSeq(q, p, free, dst, outs) ==
  IF outs = <<>> \/ free = {}
  THEN [queue |-> q, mbufs |-> p, free |-> free]
  ELSE LET m == Min(free)
       IN IfOutputSeq(Append(q, m),
                      [p EXCEPT ![m] = [dst |-> dst, oversize |-> Head(outs).big,
                                        arp_requested |-> FALSE, age |-> 0,
                                        so |-> Head(outs).so]],
                      free \ {m}, dst, Tail(outs))

(* One handler's packets go through if_output, then if_start runs over the *)
(* queue.  if_output calls if_start after every packet; the ARP cache does *)
(* not change between those calls, so one pass sends and requests exactly  *)
(* what the per-packet passes do.                                          *)
IfOutputs(dst, outs) ==
  LET o == IfOutputSeq(ifq, pkt, mfree, dst, outs)
      r == IfStartPass(o.queue, o.mbufs)
  IN /\ ifq' = r.queue
     /\ pkt' = r.mbufs
     /\ client_ipaddr' = r.client
     /\ mfree' = o.free \cup r.freed

(* Time passes for the ARP-pending mbufs (their expiration_date is in 64-bit *)
(* nanoseconds, so only the age since the request matters, saturating just *)
(* past the 1 s expiry).                                                   *)
AgePkts ==
  [m \in Pkts |-> IF pkt[m].arp_requested /\ m \in ToSet(ifq)
                  THEN [pkt[m] EXCEPT !.age = IF @ > ArpExpire THEN @ ELSE @ + 1]
                  ELSE pkt[m]]

-----------------------------------------------------------------------------
(* Actions of the translator on its own.                                   *)

(* slirp_input, Ethertype ARP: arp_input on the frame's fields.            *)
SlirpInputArp ==
  \E op \in ArpOps, sip \in GuestIPs, sha \in MACs, tip \in IPs :
    arp_input(op, sip, sha, tip)

(* slirp_input, Ethertype IPv6: m_get succeeds, the frame is copied into   *)
(* the mbuf, an error is logged, and the mbuf is never given back.         *)
SlirpInputIPv6 ==
  /\ mfree # {}
  /\ mfree' = mfree \ {Min(mfree)}
  /\ UNCHANGED <<arptbl, next_victim, exec_list, client_ipaddr, ifq, pkt>>

(* A guest-bound IP packet produced by a protocol output routine: if_output *)
(* followed by if_start.                                                   *)
IfOutput(dst, big) ==
  /\ IfOutputs(dst, <<[so |-> NoOwner, big |-> big]>>)
  /\ UNCHANGED <<arptbl, next_victim, exec_list>>

(* The if_start call at the end of slirp_select_poll.                      *)
IfStart ==
  LET r == IfStartPass(ifq, pkt)
  IN /\ ifq' = r.queue
     /\ pkt' = r.mbufs
     /\ client_ipaddr' = r.client
     /\ mfree' = mfree \cup r.freed
     /\ UNCHANGED <<arptbl, next_victim, exec_list>>

(* The clock runs while a requested packet waits for its ARP reply.        *)
Tick ==
  /\ \E m \in ToSet(ifq) : pkt[m].arp_requested /\ pkt[m].age <= ArpExpire
  /\ pkt' = AgePkts
  /\ UNCHANGED <<arptbl, next_victim, exec_list, client_ipaddr, ifq, mfree>>

(* slirp_add_exec: a zero address means vnetwork | 0.0.2.4 (ExecDefault);  *)
(* an address outside the network, the host or the nameserver is refused. *)
slirp_add_exec(addr) ==
  LET a == IF addr = NoIP THEN ExecDefault ELSE addr
  IN /\ a \in VNetwork /\ a \notin {VHost, VNameserver}
     /\ exec_list' = exec_list \cup {a}
     /\ UNCHANGED <<arptbl, next_victim, client_ipaddr, ifq, pkt, mfree>>


-----------------------------------------------------------------------------
(* Properties.                                                             *)

(* Every mbuf taken by slirp_input or if_output is given back: each is     *)
(* either free or queued for the guest.  The IPv6 branch of slirp_input    *)
(* keeps its mbuf, so this fails.                                          *)
MbufsAccounted == mfree \cup ToSet(ifq) = Pkts

(* Spec 4.2/8: an ARP request is sent only when none is outstanding for    *)
(* that destination, so two live queued packets to one destination never  *)
(* both carry arp_requested.  if_encap keeps the flag per mbuf, so a       *)
(* second packet to an unresolved guest sends a second request.            *)
OneArpRequestPerDestination ==
  \A m1, m2 \in ToSet(ifq) :
    (m1 # m2 /\ pkt[m1].dst = pkt[m2].dst
             /\ pkt[m1].arp_requested /\ pkt[m2].arp_requested)
      => Expired(pkt, m1) \/ Expired(pkt, m2)

(* A packet queued for the guest leaves the queue, sent or dropped after   *)
(* the ARP expiry, provided if_start keeps being called and time passes.   *)
PendingLeaves == \A m \in Pkts : (m \in ToSet(ifq)) ~> (m \notin ToSet(ifq))

ArpNext ==
  \/ SlirpInputArp
  \/ SlirpInputIPv6
  \/ \E dst \in GuestIPs, big \in BOOLEAN : IfOutput(dst, big)
  \/ IfStart
  \/ Tick
  \/ \E a \in ExecArgs : slirp_add_exec(a)


ArpSpec == ArpInit /\ [][ArpNext]_arpVars /\ WF_arpVars(IfStart) /\ WF_arpVars(Tick)

=============================================================================
