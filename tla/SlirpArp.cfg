CONSTANTS
  h = h  d = d  e = e  g = g  bc = bc  x = x  m1 = m1  m2 = m2  ow = ow
  NoIP = NoIP  NoMAC = NoMAC  NoOwner = NoOwner
  IPs <- MCIPs
  VNetwork <- MCVNetwork
  MACs <- MCMACs
  ExecArgs <- MCExecArgs
  GuestIPs <- MCGuestIPs
  Pkts <- MCPkts
  Owners <- MCOwners
  Broadcast = bc
  VHost = h
  VNameserver = d
  ExecDefault = e
  ArpTableSize = 2
  ArpExpire = 1
SPECIFICATION ArpSpec
INVARIANTS ArpTypeOK
PROPERTIES PendingLeaves
