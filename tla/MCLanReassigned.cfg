SPECIFICATION HonestSpec
CONSTANTS
  gw = gw
  f = f
  h = h
  x = x
  ipg = ipg
  ips = ips
  ipd = ipd
  zero = zero
  lan = lan
  LanInterfaces <- MCLan
  Ips = {ipg, ips, ipd, zero}
  Macs = {gw, f, h, x}
  Broadcast = ff
  Unbound = Unbound
  OwnIp <- MCOwnIp
  OwnMac <- MCOwnMac
  InterfaceOf <- MCNetworks
  Traffic <- MCTraffic
  LeaseFiles <- MCLeaseFiles
  NeighTables <- MCNeighTables
  Fixed <- MCFixed
  CutTo <- MCCutNever
  Unspecified = zero
  Clients = {h, x}
  ConfirmThreshold = 2
  LearnThreshold = 2
  IdleExpiry = 3
  ResyncInterval = 3
  CleanupInterval = 2
  StartTime = 4
  Elapsed = {2}
  MaxTime = 12
  MaxCount = 2
SYMMETRY MCSymmetry
PROPERTY
  RouterEvidenceIsProof
