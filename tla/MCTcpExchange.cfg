SPECIFICATION TcpSpec
CONSTANTS
  alice = alice
  bob = bob
  ipa = ipa
  ipb = ipb
  lan = lan
  Interfaces = {lan}
  Macs = {alice, bob}
  Ips = {ipa, ipb}
  Ports = {1, 2, 9}
  SeqSpace = 4
  Segments <- MCSegments
  Opens <- MCOpens
  Isns = {1, 3}
  Resets = TRUE
  Accepting <- MCAccepting
  MaxSyns = 2
  MaxAnswers = 2
  Threshold = 3
  IdleExpiry = 3
  CleanupInterval = 2
  PortAlertThreshold = 2
  StartTime = 3
  Elapsed = {0, 4}
  MaxTime = 11
  MaxSetback = 0
  MaxCount = 8
CHECK_DEADLOCK FALSE
INVARIANT
  RepliesExplained
