SPECIFICATION CaptureSpec
CONSTANTS
  Links = {"lo", "eth", "bond", "br", "wan", "master0"}
  MasterNamed = {"master0"}
  Lo = "lo"
  NoLink = "nolink"
  Topologies <- MCTopologies
  MaxChanges = 1
  MaxFailures = 1
  IdleExpiry = 1
  Macs = {"a", "b"}
  Packets <- MCPackets
  Caches <- MCCaches
  MaxCount = 4
INVARIANTS
  TypeOK
  SeenExactlyOnce
  EverySegmentWatched
  SummaryGrouped
  RungIsCounted
PROPERTIES
  BoardAtEveryStatement
  EveryDetectorSees
  SummaryPrinted
