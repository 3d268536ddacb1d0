CONSTANTS
  h = h  d = d  e = e  g = g  bc = bc  x = x  m1 = m1
  t1 = t1  t2 = t2  u1 = u1  i1 = i1  k1 = k1
  NoIP = NoIP  NoMAC = NoMAC  NoOwner = NoOwner  NoKey = NoKey
  IPs <- MCIPs
  VNetwork <- MCVNetwork
  GuestIPs <- MCGuestIPs
  MACs <- MCMACs
  ExecArgs <- MCExecArgs
  Pkts <- MCPkts1
  Owners <- MCTcp1
  TcpSocks <- MCTcp1
  UdpSocks <- MCNone
  IcmpSocks <- MCNone
  HostKeys <- MCKeys
  Broadcast = bc
  VHost = h
  VNameserver = d
  ExecDefault = e
  GuestIP = g
  ArpTableSize = 1
  ArpExpire = 1
  Wrap = 4
  TIMEOUT_FAST = 1
  TIMEOUT_SLOW = 2
  TimeoutCap = 3
  ProposedTimeout = 4
  SO_EXPIRE = 2
  MaxElapse = 1
  SbDatalen = 2
  QueueLimit = 1
  MaxFrags = 1
SPECIFICATION LoopSpec
INVARIANT DelayedAckClampsTimeout
