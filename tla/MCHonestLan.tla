----------------------------- MODULE MCHonestLan -----------------------------
(***************************************************************************)
(* Constants for model checking HonestLan.  One LAN with the router gw, a  *)
(* host f with an address of its own, ips, and two machines h and x that   *)
(* share one DHCP address, ipd.  Cut short, ipd (x.x.x.123, say) reads as  *)
(* ips (.12), as the router's ipg (.1) or as no address at all.            *)
(***************************************************************************)
EXTENDS HonestLan, TLC

CONSTANTS gw, f, h, x, ipg, ips, ipd, zero, lan

MCLan      == <<lan>>
MCOwnIp    == [i \in Lan |-> ipg]
MCOwnMac   == [i \in Lan |-> gw]
MCNetworks == [ip \in Ips |-> IF ip \in {ipd, ips} THEN lan ELSE None]
MCFixed    == {<<lan, ipg, gw>>, <<lan, ips, f>>}
MCCutTo    == [ip \in Ips |-> IF ip = ipd THEN {ips, ipg, Torn} ELSE {}]
MCCutNever == [ip \in Ips |-> {}]

Frame(sip, smac, dip, dmac, proto) ==
  [interface |-> lan, src_ip |-> sip, src_mac |-> smac, dst_ip |-> dip,
   dst_mac |-> dmac, proto |-> proto]

\* The router talks to the holder of ipd and to f, they to it, and a machine
\* without an address asks for one.
MCTraffic ==
  {Frame(ipg, gw, ipd, m, "udp") : m \in {h, x}}
    \cup {Frame(ipd, m, ipg, gw, "tcp") : m \in {h, x}}
    \cup {Frame(zero, m, ipg, Broadcast, "arp") : m \in {h, x}}
    \cup {Frame(ipg, gw, ips, f, "udp"), Frame(ips, f, ipg, gw, "tcp")}

LineFor(m, ip) == [mac |-> m, ip |-> ip]

\* The line of ipd's holder, missing, whole or cut.
MCLeaseFiles  ==
  {<<>>} \cup {<<LineFor(m, ip)>> : m \in {h, x}, ip \in {ipd, ips, ipg, Torn}}
MCNeighTables == {<<>>} \cup {<<LineFor(m, ipd)>> : m \in {h, x}}

MCSymmetry == Permutations({h, x})
=============================================================================
