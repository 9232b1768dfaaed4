SPECIFICATION Spec
CONSTANTS
  gw = gw
  h = h
  x = x
  ipg = ipg
  iph = iph
  ipo = ipo
  lan = lan
  lan2 = lan2
  LanInterfaces <- MCOneLan
  Ips = {ipg, iph}
  Macs = {gw, h, x}
  Broadcast = ff
  Unbound = Unbound
  OwnIp <- MCOwnIp
  OwnMac <- MCOwnMac
  InterfaceOf <- MCFlat
  Traffic <- MCClaims
  LeaseFiles <- MCNoLeases
  NeighTables <- MCNeigh
  ConfirmThreshold = 3
  LearnThreshold = 3
  IdleExpiry = 3
  ResyncInterval = 3
  CleanupInterval = 2
  StartTime = 4
  Elapsed <- MCElapsed
  MaxTime = 8
  MaxCount = 3
INVARIANTS
  TypeOK
  PendingBelowThreshold
  ConfirmedIffEvidence
PROPERTIES
  OnlyDhcpRebinds
  LearnedFromFreshClaims
  ImplementsBoard
