-------------------------- MODULE ArpSpoofDetector --------------------------
(***************************************************************************)
(* detectors/arp_spoof_detector.py with attacks/arp_spoof_attack.py.  Every *)
(* captured packet, and every entry of the OS neighbour cache, is a claim  *)
(* "this MAC holds this IP", judged against the router's own identity and  *)
(* the trusted bindings.  Bindings come from the DHCP lease file at once,  *)
(* or from claims once a MAC has made learn_threshold of them.             *)
(*                                                                         *)
(* A call handles the packet and may then run a resync, which reads the    *)
(* lease file and each interface's neighbour cache.  The resync is one     *)
(* step per line read: the program is single threaded, so nothing else     *)
(* happens between them but time, and the contents of the files are only   *)
(* fixed when they are read.  The constructor runs a resync of its own.    *)
(*                                                                         *)
(* Missing dict entries: bindings map to Unbound, pending candidates have  *)
(* count 0, incidents are "absent".                                        *)
(***************************************************************************)
EXTENDS Attack, Sequences, FiniteSets

CONSTANTS
  LanInterfaces,     \* lan_interfaces, a sequence without repetition
  Ips, Macs,
  Broadcast,         \* the Ethernet broadcast address
  Unbound,           \* what bindings.get() gives for an IP not bound
  OwnIp, OwnMac,     \* own_identity, per interface
  InterfaceOf,       \* the LAN interface whose network holds an IP, or None
  Traffic,           \* the packets that may be captured
  LeaseFiles,        \* what reading the lease file may give
  NeighTables,       \* what reading one interface's neighbour cache may give
  ConfirmThreshold, LearnThreshold, ResyncInterval, CleanupInterval,
  StartTime,         \* epoch seconds when the detector is constructed
  Elapsed,           \* seconds the clock may move between two looks at it
  MaxTime, MaxCount  \* bounds: on the clock, on an incident's count

Lan == {LanInterfaces[n] : n \in DOMAIN LanInterfaces}

\* The fields of a PacketEvent the checks read; dst_ip and dst_mac are None
\* for a neighbour cache entry.
Claim == [interface : Lan, src_ip : Ips, src_mac : Macs, dst_ip : Ips \cup {None},
          dst_mac : Macs \cup {Broadcast, None}, proto : {"arp", "tcp", "udp"}]

\* A lease line whose IP is not in Ips does not parse: a file read while it
\* is being rewritten.
Torn  == "torn"
Lease == [mac : Macs, ip : Ips \cup {Torn}]
Neigh == [ip : Ips, mac : Macs]

ASSUME ArpSpoofAssumption ==
  /\ LanInterfaces \in Seq(Lan)
  /\ Broadcast \notin Macs /\ Unbound \notin Macs /\ None \notin Macs
  /\ Torn \notin Ips /\ None \notin Ips /\ None \notin Lan
  /\ OwnIp \in [Lan -> Ips] /\ OwnMac \in [Lan -> Macs]
  /\ InterfaceOf \in [Ips -> Lan \cup {None}]
  /\ Traffic \subseteq Claim
  /\ LeaseFiles \subseteq Seq(Lease)
  /\ NeighTables \subseteq Seq(Neigh)
  /\ ConfirmThreshold \in Nat \ {0} /\ LearnThreshold \in Nat \ {0}
  /\ ResyncInterval \in Nat /\ CleanupInterval \in Nat
  /\ StartTime \in Nat
  /\ Elapsed \subseteq Int
  /\ MaxTime \in Nat /\ MaxCount \in Nat

VARIABLES
  bindings,       \* (interface, ip) -> the trusted MAC
  pending,        \* (interface, ip, mac) -> claims counted towards a binding
  incidents,      \* (interface, attacker, victim) -> incident
  last_resync, last_cleanup,
  now,            \* time.time(), which may have been set back since
  phase,          \* where the call is: see Phases
  stamp,          \* timestamp of the packet whose call resyncs, 0 in __init__
  todo,           \* lines read and not yet processed
  unread,         \* interfaces whose neighbour cache is still to be read
  leased          \* history: leases of the file read last, in force

trust == <<bindings, pending>>
vars  == <<bindings, pending, incidents, last_resync, last_cleanup, now,
           phase, stamp, todo, unread, leased>>

Phases == {"listening",  \* between two calls
           "opening",    \* a resync begins
           "leases",     \* applying lease lines
           "neigh",      \* feeding neighbour cache entries
           "failed"}     \* the constructor raised

Bindings   == Lan \X Ips
Candidates == Lan \X Ips \X Macs
Victims    == Macs \cup {"broadcast", "unknown"}
Keys       == Lan \X Macs \X Victims

\* Evidence is a claim someone makes or a fact that was observed.
Grounds == {"claim", "fact"}

\* grounds is history: the strongest there has been.
NewArpSpoofAttack(ts) ==
  [status |-> "suspected", pre_decay |-> None, count |-> 0, last_seen |-> ts,
   grounds |-> "claim"]

AbsentAttack == [NewArpSpoofAttack(0) EXCEPT !.status = "absent"]

----------------------------------------------------------------------------
(* The checks.  Each returns the incidents after it.                       *)

\* _get_attack.
GetAttack(incs, k, ts) == IF Known(incs[k]) THEN incs[k] ELSE NewArpSpoofAttack(ts)

\* Mutant of Floor: the packet being recorded is not counted.
FloorWithoutThis(a, kind) ==
  IF kind = "fact" \/ a.count >= ConfirmThreshold THEN "confirmed" ELSE None

\* min_status: an observed fact confirms on sight, a claim by number.
Floor(a, kind) ==
  IF kind = "fact" \/ a.count + 1 >= ConfirmThreshold THEN "confirmed" ELSE None

\* Evidence against k: _get_attack, then record.
Accuse(incs, k, kind, ts) ==
  LET a == GetAttack(incs, k, ts)
  IN  [incs EXCEPT ![k] =
         Record([a EXCEPT !.grounds = IF kind = "fact" THEN kind ELSE @],
                ts, Floor(a, kind))]

\* The condition under which _check_gateway_impersonation fires.
ClaimsGateway(c) == c.src_ip = OwnIp[c.interface] /\ c.src_mac # OwnMac[c.interface]

\* Whom a claim to be the gateway is made to.
ClaimVictim(c) == CASE c.dst_mac = Broadcast -> "broadcast"
                    [] c.dst_mac = None -> "unknown"
                    [] OTHER -> c.dst_mac

GatewayImpersonation(incs, c, ts) ==
  Accuse(incs, <<c.interface, c.src_mac, ClaimVictim(c)>>,
         IF c.proto = "arp" THEN "claim" ELSE "fact", ts)

\* Mutant of Misdelivered: whoever receives a packet is suspect.
MisdeliveredAlways(c, mac) == c.dst_mac \notin {None, Broadcast}

\* The packet was delivered to one MAC, and not to mac.
Misdelivered(c, mac) == c.dst_mac \notin {None, Broadcast, mac}

HostsRouterCachePoisoned(incs, c, ts) ==
  IF c.dst_ip = OwnIp[c.interface] /\ Misdelivered(c, OwnMac[c.interface])
    THEN Accuse(incs, <<c.interface, c.dst_mac, c.src_mac>>, "fact", ts)
    ELSE incs

\* bindings.get((interface, dst_ip)).
KnownDst(c) == IF c.dst_ip = None THEN Unbound ELSE bindings[<<c.interface, c.dst_ip>>]

\* The sender's cache is poisoned, or the router's own: then the victim is
\* the owner of the IP the router misdirects.
HostsHostCachePoisoned(incs, c, ts) ==
  LET victim == IF c.src_mac = OwnMac[c.interface] THEN KnownDst(c) ELSE c.src_mac
  IN  IF KnownDst(c) # Unbound /\ Misdelivered(c, KnownDst(c))
        THEN Accuse(incs, <<c.interface, c.dst_mac, victim>>, "fact", ts)
        ELSE incs

HostImpersonation(incs, c, ts) ==
  LET known  == bindings[<<c.interface, c.src_ip>>]
      victim == IF c.dst_mac = OwnMac[c.interface] THEN OwnMac[c.interface] ELSE known
  IN  IF known \notin {Unbound, c.src_mac}
        THEN Accuse(incs, <<c.interface, c.src_mac, victim>>, "claim", ts)
        ELSE incs

\* The incidents after every check of _run_checks, short circuits included.
Judged(incs, c, ts) ==
  IF ClaimsGateway(c)
    THEN GatewayImpersonation(incs, c, ts)
    ELSE HostImpersonation(
           HostsHostCachePoisoned(HostsRouterCachePoisoned(incs, c, ts), c, ts), c, ts)

----------------------------------------------------------------------------
(* Learning a binding.                                                     *)

\* Mutant of TrackedCount: the count is not reset after an idle gap.
TrackedCountForever(k, ts) == pending[k].count + 1

\* _track_count.
TrackedCount(k, ts) ==
  IF pending[k].count = 0 \/ ts - pending[k].last_seen > IdleExpiry
    THEN 1
    ELSE pending[k].count + 1

Tracked(c, ts) ==
  LET k == <<c.interface, c.src_ip, c.src_mac>>
  IN  [pending EXCEPT ![k] = [count |-> TrackedCount(k, ts), last_seen |-> ts]]

NotPending == [count |-> 0, last_seen |-> 0]

\* The candidates _resolve_pending finds with the highest count.
Winners(pend, i, ip) ==
  {m \in Macs : /\ pend[<<i, ip, m>>].count > 0
                /\ \A n \in Macs : pend[<<i, ip, n>>].count <= pend[<<i, ip, m>>].count}

\* Mutant of Resolved: one claim more than the threshold is asked for.
ResolvedLate(c, ts) ==
  IF TrackedCount(<<c.interface, c.src_ip, c.src_mac>>, ts) > LearnThreshold
    THEN Winners(Tracked(c, ts), c.interface, c.src_ip)
    ELSE {}

\* Who may be bound after this claim: nobody before the threshold, and
\* nobody if there are several.
Resolved(c, ts) ==
  IF TrackedCount(<<c.interface, c.src_ip, c.src_mac>>, ts) >= LearnThreshold
    THEN Winners(Tracked(c, ts), c.interface, c.src_ip)
    ELSE {}

\* Mutant of Trusted: an IP that is bound is learned again.
TrustedNever(c) == FALSE

Trusted(c) == bindings[<<c.interface, c.src_ip>>] # Unbound

\* _check_new_binding with _resolve_pending.
NewBinding(c, ts) ==
  \/ Trusted(c) /\ UNCHANGED trust
  \/ /\ ~Trusted(c)
     /\ Cardinality(Resolved(c, ts)) # 1
     /\ pending' = Tracked(c, ts)
     /\ UNCHANGED bindings
  \/ /\ ~Trusted(c)
     /\ \E m \in Macs :
          /\ Resolved(c, ts) = {m}
          /\ bindings' = [bindings EXCEPT ![<<c.interface, c.src_ip>>] = m]
     /\ pending' = [k \in Candidates |->
                      IF k[1] = c.interface /\ k[2] = c.src_ip
                        THEN NotPending ELSE pending[k]]

\* _run_checks.
RunChecks(incs, c, ts) ==
  /\ incidents' = Judged(incs, c, ts)
  /\ IF ClaimsGateway(c) THEN UNCHANGED trust ELSE NewBinding(c, ts)

----------------------------------------------------------------------------
(* __call__.                                                               *)

CleanupDue(ts) == ts - last_cleanup > CleanupInterval

\* A packet on a LAN interface.
Receive(c, d) ==
  LET ts == now + d IN
  /\ phase = "listening"
  /\ ts \in 0..MaxTime
  /\ \A k \in Keys : incidents[k].count < MaxCount
  /\ now' = ts
  /\ last_cleanup' = IF CleanupDue(ts) THEN ts ELSE last_cleanup
  /\ RunChecks(IF CleanupDue(ts) THEN ExpireIdle(incidents, ts) ELSE incidents, c, ts)
  /\ IF ts - last_resync > ResyncInterval
       THEN phase' = "opening" /\ stamp' = ts
       ELSE UNCHANGED <<phase, stamp>>
  /\ UNCHANGED <<last_resync, todo, unread, leased>>

\* A packet on any other interface is ignored.
Ignore(d) ==
  /\ phase = "listening"
  /\ now + d \in 0..MaxTime
  /\ now' = now + d
  /\ UNCHANGED <<bindings, pending, incidents, last_resync, last_cleanup,
                 phase, stamp, todo, unread, leased>>

----------------------------------------------------------------------------
(* _resync_all.                                                            *)

\* Reading the lease file; no file, or an unreadable one, is an empty one.
OpenLeases(file) ==
  /\ phase = "opening"
  /\ phase' = "leases"
  /\ todo' = file
  /\ leased' = {}
  /\ UNCHANGED <<bindings, pending, incidents, last_resync, last_cleanup,
                 now, stamp, unread>>

\* Mutant of OwnLease: a lease may rebind the router's own IP.
OwnLeaseNever(i, ip) == FALSE

OwnLease(i, ip) == ip = OwnIp[i]

\* Mutant of Authorised: a binding already learned is kept.
AuthorisedIfUnbound(i, ip, mac) ==
  IF bindings[<<i, ip>>] # Unbound THEN bindings
  ELSE [k \in Bindings |-> IF k = <<i, ip>> THEN mac
                           ELSE IF k[1] = i /\ bindings[k] = mac THEN Unbound
                           ELSE bindings[k]]

\* _apply_authoritative once the own IP is ruled out.
Authorised(i, ip, mac) ==
  IF bindings[<<i, ip>>] = mac THEN bindings
  ELSE [k \in Bindings |-> IF k = <<i, ip>> THEN mac
                           ELSE IF k[1] = i /\ bindings[k] = mac THEN Unbound
                           ELSE bindings[k]]

\* A torn line only raises if there is an interface to match it with.
Raises(l) == l.ip = Torn /\ \E ip \in Ips : InterfaceOf[ip] # None

\* The interface whose network holds the IP of a lease.
LeaseInterface(l) == IF l.ip = Torn THEN None ELSE InterfaceOf[l.ip]

\* One lease line.
ApplyLease ==
  /\ phase = "leases"
  /\ todo # <<>>
  /\ ~Raises(Head(todo))
  /\ LET l == Head(todo)
         i == LeaseInterface(l)
     IN  IF i = None \/ OwnLease(i, l.ip)
           THEN UNCHANGED <<bindings, leased>>
           ELSE /\ bindings' = Authorised(i, l.ip, l.mac)
                /\ leased' = {o \in leased : /\ o.ip # l.ip
                                             /\ LeaseInterface(o) = i => o.mac # l.mac}
                               \cup {l}
  /\ todo' = Tail(todo)
  /\ UNCHANGED <<pending, incidents, last_resync, last_cleanup, now, phase,
                 stamp, unread>>

\* ip_address() raises and nothing in the detector catches it: the call is
\* abandoned where it is, the constructor fails.
AbortResync ==
  /\ phase = "leases"
  /\ todo # <<>>
  /\ Raises(Head(todo))
  /\ phase' = IF stamp = 0 THEN "failed" ELSE "listening"
  /\ todo' = <<>>
  /\ UNCHANGED <<bindings, pending, incidents, last_resync, last_cleanup,
                 now, stamp, unread, leased>>

\* The leases are done: time.time() is read for the neighbour caches.
StartNeigh(d) ==
  /\ phase = "leases"
  /\ todo = <<>>
  /\ now + d \in 0..MaxTime
  /\ now' = now + d
  /\ phase' = "neigh"
  /\ unread' = LanInterfaces
  /\ UNCHANGED <<bindings, pending, incidents, last_resync, last_cleanup,
                 stamp, todo, leased>>

\* ip neigh show dev <the next interface>; a failing call gives nothing.
ReadNeigh(table) ==
  /\ phase = "neigh"
  /\ todo = <<>>
  /\ unread # <<>>
  /\ todo' = [n \in DOMAIN table |->
                [interface |-> Head(unread), ip |-> table[n].ip, mac |-> table[n].mac]]
  /\ unread' = Tail(unread)
  /\ UNCHANGED <<bindings, pending, incidents, last_resync, last_cleanup, now,
                 phase, stamp, leased>>

\* A neighbour cache entry as a claim without destination.
NeighClaim(e) == [interface |-> e.interface, src_ip |-> e.ip, src_mac |-> e.mac,
                  dst_ip |-> None, dst_mac |-> None, proto |-> "arp"]

\* One entry: the router's own IP is skipped.
CheckNeigh ==
  /\ phase = "neigh"
  /\ todo # <<>>
  /\ LET e == Head(todo)
     IN  IF e.ip = OwnIp[e.interface]
           THEN UNCHANGED <<bindings, pending, incidents>>
           ELSE RunChecks(incidents, NeighClaim(e), now)
  /\ todo' = Tail(todo)
  /\ UNCHANGED <<last_resync, last_cleanup, now, phase, stamp, unread, leased>>

\* The call ends; after the constructor's resync _last_resync is still 0.
EndResync ==
  /\ phase = "neigh"
  /\ todo = <<>>
  /\ unread = <<>>
  /\ phase' = "listening"
  /\ last_resync' = stamp
  /\ UNCHANGED <<bindings, pending, incidents, last_cleanup, now, stamp, todo,
                 unread, leased>>

Stopped == phase = "failed" /\ UNCHANGED vars

Init ==
  /\ bindings = [k \in Bindings |-> Unbound]
  /\ pending = [k \in Candidates |-> NotPending]
  /\ incidents = [k \in Keys |-> AbsentAttack]
  /\ last_resync = 0
  /\ last_cleanup = 0
  /\ now = StartTime
  /\ phase = "opening"
  /\ stamp = 0
  /\ todo = <<>>
  /\ unread = <<>>
  /\ leased = {}

Resync ==
  \/ \E file \in LeaseFiles : OpenLeases(file)
  \/ ApplyLease
  \/ AbortResync
  \/ \E d \in Elapsed : StartNeigh(d)
  \/ \E table \in NeighTables : ReadNeigh(table)
  \/ CheckNeigh
  \/ EndResync

Next ==
  \/ \E c \in Traffic, d \in Elapsed : Receive(c, d)
  \/ \E d \in Elapsed : Ignore(d)
  \/ Resync
  \/ Stopped

Spec == Init /\ [][Next]_vars

\* The call runs to its end: it is plain sequential code.
FairSpec == Spec /\ WF_vars(Resync)

----------------------------------------------------------------------------
(* Properties.                                                             *)

ArpSpoofAttack ==
  [status : Status, pre_decay : Severity \cup {None}, count : Nat,
   last_seen : Nat, grounds : Grounds]

\* The state has its type, and exactly the decayed incidents remember a rung.
TypeOK ==
  /\ bindings \in [Bindings -> Macs \cup {Unbound}]
  /\ pending \in [Candidates -> [count : Nat, last_seen : Nat]]
  /\ incidents \in [Keys -> ArpSpoofAttack]
  /\ \A k \in Keys : incidents[k].status = "decayed" <=> incidents[k].pre_decay # None
  /\ last_resync \in Nat /\ last_cleanup \in Nat /\ now \in Nat
  /\ phase \in Phases
  /\ stamp \in Nat
  /\ todo \in Seq(IF phase = "neigh" THEN [interface : Lan, ip : Ips, mac : Macs]
                                     ELSE Lease)
  /\ unread \in Seq(Lan)
  /\ leased \subseteq [ip : Ips, mac : Macs]

\* No candidate is ever left waiting at the threshold: the claim that brings
\* a MAC to learn_threshold always binds it, whatever the others have made
\* of their counts and whatever DHCP did to the IP meanwhile.  The first to
\* reach the threshold wins, and no tie is ever deferred; _resolve_pending is
\* documented to do otherwise, see module ClaimVolume.
PendingBelowThreshold ==
  \A k \in Candidates : pending[k].count < LearnThreshold

\* An incident leaves "suspected" exactly when it has an observed fact or
\* confirm_threshold pieces of evidence, over all the checks and both paths
\* that feed it and however often it decayed, and it is "ongoing" at the
\* latest one piece of evidence later.
ConfirmedIffEvidence ==
  \A k \in Keys : LET a == incidents[k] IN
    Known(a) => /\ Peak(a) = "suspected" <=> (a.grounds = "claim" /\ a.count < ConfirmThreshold)
                /\ Peak(a) = "confirmed" => a.count <= ConfirmThreshold

\* The router's own IP is never trusted under, nor about to be learned for,
\* another MAC than its own, whatever is claimed, leased or cached.
OwnBindingGenuine ==
  \A i \in Lan :
    /\ bindings[<<i, OwnIp[i]>>] \in {Unbound, OwnMac[i]}
    /\ \A m \in Macs \ {OwnMac[i]} : pending[<<i, OwnIp[i], m>>].count = 0

\* The leases of the file read last stay in force until the next is read:
\* no packet, no cache entry and no other lease takes their binding away,
\* except a later line of the same file for the IP or for the MAC.
LeasesInForce ==
  \A l \in leased : bindings[<<LeaseInterface(l), l.ip>>] = l.mac

\* Only DHCP moves or drops a binding: no amount of traffic or of neighbour
\* cache entries does.
OnlyDhcpRebinds ==
  [][phase # "leases" =>
       \A k \in Bindings : bindings[k] # Unbound => bindings'[k] = bindings[k]]_vars

\* A binding learned from claims is learned from a run of them without an
\* idle gap, made by the MAC it names: the claim before was the last but one
\* and no older than idle_expiry.
LearnedFromFreshClaims ==
  [][phase # "leases" =>
       \A k \in Bindings :
         LET before == pending[<<k[1], k[2], bindings'[k]>>] IN
         bindings'[k] # bindings[k] =>
           /\ before.count = LearnThreshold - 1
           /\ before.count > 0 => now' - before.last_seen <= IdleExpiry]_vars

\* How far an incident has climbed, 0 where there is none.
Level(a) == IF Known(a) THEN Rank(Peak(a)) ELSE 0

\* The refinement of what a detector promises.  One packet may be evidence
\* twice against one key, from the two cache checks.
Board == INSTANCE IncidentBoard WITH
           Burst    <- TRUE,
           severity <- [k \in Keys |-> Level(incidents[k])],
           idle     <- {k \in Keys : incidents[k].status = "decayed"}

ImplementsBoard == Board!BoardSpec

\* The leases that lines grant: not after a torn line, not overridden by a
\* later line.
Grants(lines) ==
  {lines[n] : n \in {n \in DOMAIN lines :
     \A m \in DOMAIN lines :
       /\ m <= n => ~Raises(lines[m])
       /\ m > n => lines[m].ip # lines[n].ip /\ lines[m].mac # lines[n].mac}}

\* DHCP prevails: whenever a file is read, every lease it grants becomes the
\* trusted binding, even where traffic has already taught another MAC and
\* whatever the other lines move.
LeasesPrevail ==
  \A l \in [mac : Macs, ip : Ips] :
    LeaseInterface(l) # None /\ ~OwnLease(LeaseInterface(l), l.ip) =>
      (phase = "leases" /\ l \in Grants(todo)
         ~> bindings[<<LeaseInterface(l), l.ip>>] = l.mac)

\* "If this MAC previously held a different IP, that stale entry is removed
\* so one MAC is never trusted under two IPs at once"
\* (arp_spoof_detector.py:122-125): while the leases are applied, no MAC of
\* a lease just applied is trusted under another IP of that LAN.
LeasedMacUnique ==
  phase = "leases" =>
    \A l \in leased : \A ip \in Ips \ {l.ip} :
      bindings[<<LeaseInterface(l), ip>>] # l.mac
=============================================================================
