----------------------------- MODULE MCCapture -----------------------------
(***************************************************************************)
(* A router with a LAN bridge, a bond as its only member and a port as the *)
(* bond's, and an uplink, the bridge coming up or the default route        *)
(* arriving while the program starts, and an interface with "master" in    *)
(* its name.  The attacker scans and spoofs on the LAN, whose neighbour    *)
(* cache may be poisoned too, and scans on the uplink, which is watched as *)
(* a LAN if there is no route.                                             *)
(***************************************************************************)
EXTENDS Capture

\* The port is enslaved to the bond, the bond to the bridge if there is one.
Network(up, uplink) ==
  [up |-> {"lo"} \cup up, uplink |-> uplink,
   master |-> [l \in Links |-> CASE l = "eth" /\ "bond" \in up -> "bond"
                                [] l = "bond" /\ "br" \in up -> "br"
                                [] OTHER -> "nolink"]]

MCTopologies ==
  { Network({"eth", "bond", "br", "wan"}, "wan"),
    Network({"eth", "bond", "br", "wan"}, "nolink"),
    Network({"eth", "bond", "wan", "master0"}, "wan"),
    Network({}, "nolink") }

Against(i, a, v, floor) == [interface |-> i, attacker |-> a, victim |-> v, floor |-> floor]

Frame(i, layers, scan, spoof) ==
  [interface |-> i, layers |-> layers,
   evidence |-> [d \in Detectors |-> IF d = "port_scan" THEN scan ELSE spoof]]

MCPackets ==
  { Frame("br", {"ip", "tcp"}, <<Against("br", "a", "b", None)>>,
          <<Against("br", "a", "b", "confirmed")>>),
    Frame("br", {"arp"}, <<>>, <<Against("br", "a", "b", None), Against("br", "a", "b", None)>>),
    Frame("br", {"ip", "udp"}, <<>>, <<>>),
    Frame("wan", {"ip", "tcp"}, <<Against("wan", "a", "b", "confirmed")>>, <<>>),
    Frame("wan", {"tcp", "other"}, <<>>, <<>>) }

MCCaches == {<<Against("br", "a", "b", None)>>}
=============================================================================
