----------------------------- MODULE MCArpSpoof -----------------------------
(***************************************************************************)
(* Constants for model checking ArpSpoofDetector.  One LAN, the router gw, *)
(* host h and another machine x; ipo is an address of the LAN that nobody  *)
(* is configured with.                                                     *)
(***************************************************************************)
EXTENDS ArpSpoofDetector

CONSTANTS gw, h, x, ipg, iph, ipo, lan, lan2

Pkt(i, sip, smac, dip, dmac, proto) ==
  [interface |-> i, src_ip |-> sip, src_mac |-> smac, dst_ip |-> dip,
   dst_mac |-> dmac, proto |-> proto]

Line(ip, mac) == [ip |-> ip, mac |-> mac]

MCOneLan   == <<lan>>
MCTwoLans  == <<lan, lan2>>
MCOwnIp    == [i \in Lan |-> ipg]
MCOwnMac   == [i \in Lan |-> gw]
MCNetworks == [ip \in Ips |-> IF ip = ipo THEN lan2 ELSE lan]

\* h and x claim iph, x also claims the router's IP, h sends to the router
\* and the router to h through x.
MCClaims ==
  {Pkt(lan, iph, h, ipg, Broadcast, "arp"), Pkt(lan, iph, x, ipg, gw, "arp"),
   Pkt(lan, ipg, x, iph, h, "tcp"), Pkt(lan, iph, h, ipg, x, "tcp"),
   Pkt(lan, ipg, gw, iph, x, "udp")}

\* The router and its host, each reached through x once.
MCDelivery ==
  {Pkt(lan, iph, h, ipg, Broadcast, "arp"), Pkt(lan, ipg, gw, iph, x, "udp"),
   Pkt(lan, iph, h, ipg, x, "tcp")}

\* A renumbered host: h talks from its new IP and still from its old one.
MCRenumbered ==
  {Pkt(lan, iph, h, ipg, gw, "tcp"), Pkt(lan, ipo, h, ipg, gw, "tcp")}

\* Two LANs, h and x on the first and x on the second; x claims the router's
\* IP too.
MCRoaming ==
  {Pkt(lan, iph, h, ipg, Broadcast, "arp"), Pkt(lan, iph, x, ipg, gw, "arp"),
   Pkt(lan, ipg, x, iph, h, "arp"),
   Pkt(lan2, ipo, x, ipg, gw, "tcp")}

MCNoLeases  == {<<>>}
\* There is no file yet, or h has its lease; x is refused the router's IP,
\* gets one on each LAN, or loses the first to a torn line.
MCLeases ==
  {<<>>, <<Line(iph, x), Line(iph, h)>>, <<Line(ipg, x), Line(iph, h), Line(ipo, x)>>,
   <<Line(iph, h), Line(Torn, x), Line(ipo, x)>>}
MCOneLease  == {<<Line(iph, h)>>}
MCFlat      == [ip \in Ips |-> lan]
MCNoNeigh   == {<<>>}
MCNeigh     == {<<>>, <<Line(iph, x), Line(ipg, x)>>}
MCOwnCached == {<<>>, <<Line(ipg, x)>>}

\* The clock stands still, moves on by more than every interval, or is set
\* back by as much.
MCElapsed == {-4, 0, 4}
=============================================================================
