SPECIFICATION VolumeSpec
CONSTANTS
  gw = gw
  h = h
  x = x
  ipg = ipg
  iph = iph
  ipo = ipo
  lan = lan
  lan2 = lan2
  LanInterfaces <- MCOneLan
  Ips = {ipg, iph}
  Macs = {gw, h, x}
  Broadcast = ff
  Unbound = Unbound
  OwnIp <- MCOwnIp
  OwnMac <- MCOwnMac
  InterfaceOf <- MCFlat
  Traffic <- MCContest
  LeaseFiles <- MCNoLeases
  NeighTables <- MCNoNeigh
  ConfirmThreshold = 2
  LearnThreshold = 2
  IdleExpiry = 3
  ResyncInterval = 3
  CleanupInterval = 2
  StartTime = 4
  Elapsed = {0, 4}
  MaxTime = 16
  MaxCount = 3
PROPERTY
  VolumeDecides
