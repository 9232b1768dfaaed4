SPECIFICATION Spec
CONSTANTS
  alice = alice
  bob = bob
  ipa = ipa
  ipb = ipb
  lan = lan
  Interfaces = {lan}
  Macs = {alice, bob}
  Ips = {ipa, ipb}
  Ports = {1, 2, 9}
  SeqSpace = 4
  Segments <- MCSegments
  Threshold = 3
  IdleExpiry = 4
  CleanupInterval = 2
  PortAlertThreshold = 2
  StartTime = 3
  Elapsed <- MCElapsed
  MaxTime = 11
  MaxSetback = 6
  MaxCount = 4
INVARIANTS
  TypeOK
  RepliesAccounted
  ConfirmedIffEvidence
  SweepLinesMatchPorts
  DecayedIsIdle
  StalenessBounded
PROPERTY
  ImplementsBoard
