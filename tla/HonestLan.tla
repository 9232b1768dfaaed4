------------------------------ MODULE HonestLan ------------------------------
(***************************************************************************)
(* The ARP detector on a LAN where nobody lies: the false accusations left *)
(* are those the code makes by itself.                                     *)
(*                                                                         *)
(* Hosts speak from an address they hold, or once held: a packet, an ARP   *)
(* cache or the kernel's neighbour cache may be late.  A host without an   *)
(* address speaks from 0.0.0.0, as ARP probes and DHCP discovers do.  The  *)
(* DHCP server leases, releases and reassigns addresses at any moment.     *)
(* The lease file holds what is leased when it is read, or less while the  *)
(* server rewrites it: lines may be missing, and the last one may be cut   *)
(* short in its address.  Hosts and server are outside the repository;     *)
(* every step of the detector is its own.                                  *)
(***************************************************************************)
EXTENDS ArpSpoofDetector, SequencesExt

CONSTANTS
  Fixed,        \* <<interface, ip, mac>> of what never changes: the router
                \* itself, hosts without DHCP, what lies behind the router
  Unspecified,  \* 0.0.0.0
  Clients,      \* the machines that use DHCP
  CutTo         \* what an address cut short reads as: addresses, or Torn

ASSUME HonestLanAssumption ==
  /\ Fixed \subseteq Candidates
  /\ \A i \in Lan : <<i, OwnIp[i], OwnMac[i]>> \in Fixed
  /\ \A f, g \in Fixed : f[1] = g[1] /\ f[2] = g[2] => f = g
  /\ Unspecified \in Ips /\ InterfaceOf[Unspecified] = None
  /\ Clients \subseteq Macs
  /\ CutTo \in [Ips -> SUBSET (Ips \cup {Torn})]

VARIABLES
  leases,   \* the server's table: ip -> its holder, or Unbound
  used,     \* history: every <<interface, ip, mac>> there has been
  misread,  \* history: every <<interface, ip, mac>> a cut line has named
  moved     \* history: IPs leased since the lease file was last opened, and
            \* those that reading did not settle

world == <<leases, used, misread, moved>>
honestVars == <<vars, world>>

Use(ip) == <<InterfaceOf[ip], ip, leases[ip]>>

\* One lease per machine and LAN.
Assign(ip, m) ==
  /\ InterfaceOf[ip] # None
  /\ \A n \in Macs : <<InterfaceOf[ip], ip, n>> \notin Fixed
  /\ leases[ip] = Unbound
  /\ \A o \in Ips : InterfaceOf[o] = InterfaceOf[ip] => leases[o] # m
  /\ leases' = [leases EXCEPT ![ip] = m]
  /\ used' = used \cup {<<InterfaceOf[ip], ip, m>>}
  /\ moved' = moved \cup {ip}
  /\ UNCHANGED <<misread, vars>>

Release(ip) ==
  /\ leases[ip] # Unbound
  /\ leases' = [leases EXCEPT ![ip] = Unbound]
  /\ UNCHANGED <<used, misread, moved, vars>>

\* A machine without an address comes up.
Join(i, m) ==
  /\ used' = used \cup {<<i, Unspecified, m>>}
  /\ UNCHANGED <<leases, misread, moved, vars>>

\* A frame of a host that has, or had, the addresses it names: it was sent
\* to everybody, or to a machine that has or had the destination's.
Genuine(c) ==
  /\ <<c.interface, c.src_ip, c.src_mac>> \in used
  /\ c.dst_ip # None
  /\ \/ c.dst_mac = Broadcast
     \/ <<c.interface, c.dst_ip, c.dst_mac>> \in used

Hear(c, d) == Genuine(c) /\ Receive(c, d) /\ UNCHANGED world

Leased == {ip \in Ips : leases[ip] # Unbound}

\* The line of a lease.
Entry(ip) == [mac |-> leases[ip], ip |-> ip]

\* The lines of these leases, once each, in any order.
Lists(file, ips) ==
  /\ {file[n] : n \in DOMAIN file} = {Entry(ip) : ip \in ips}
  /\ \A m, n \in DOMAIN file : file[m] = file[n] => m = n

\* The file as far as the server has written it, all of it at best.
OpenTable(file) ==
  \E listed \in SUBSET Leased :
    /\ Lists(file, listed)
    /\ OpenLeases(file)
    /\ moved' = Leased \ listed
    /\ UNCHANGED <<leases, used, misread>>

\* What a line binds.
Binds(l) ==
  LET i == LeaseInterface(l)
  IN  IF i = None \/ OwnLease(i, l.ip) THEN {} ELSE {<<i, l.ip, l.mac>>}

\* The file up to somewhere in the address of a line.  What the cut line
\* names is bound and what its machine had is dropped, so neither is settled.
OpenCut(file) ==
  \E listed \in SUBSET Leased : \E ip \in Leased \ listed : \E cut \in CutTo[ip] :
    LET l == [mac |-> leases[ip], ip |-> cut]
    IN  /\ file # <<>> /\ Lists(Front(file), listed) /\ Last(file) = l
        /\ OpenLeases(file)
        /\ misread' = misread \cup Binds(l)
        /\ moved' = Leased \ {o \in listed : o # l.ip /\ leases[o] # l.mac}
        /\ UNCHANGED <<leases, used>>

\* The kernel's cache remembers uses, current or not.
ReadCache(table) ==
  /\ unread # <<>>
  /\ \A n \in DOMAIN table : <<Head(unread), table[n].ip, table[n].mac>> \in used
  /\ ReadNeigh(table)
  /\ UNCHANGED world

HonestInit ==
  /\ Init
  /\ leases = [ip \in Ips |-> Unbound]
  /\ used = Fixed
  /\ misread = {}
  /\ moved = {}

HonestNext ==
  \/ \E ip \in Ips, m \in Clients : Assign(ip, m)
  \/ \E ip \in Ips : Release(ip)
  \/ \E i \in Lan, m \in Clients : Join(i, m)
  \/ \E c \in Traffic, d \in Elapsed : Hear(c, d)
  \/ \E d \in Elapsed : Ignore(d) /\ UNCHANGED world
  \/ \E file \in LeaseFiles : OpenTable(file) \/ OpenCut(file)
  \/ ApplyLease /\ UNCHANGED world
  \/ AbortResync /\ UNCHANGED world
  \/ \E d \in Elapsed : StartNeigh(d) /\ UNCHANGED world
  \/ \E table \in NeighTables : ReadCache(table)
  \/ CheckNeigh /\ UNCHANGED world
  \/ EndResync /\ UNCHANGED world
  \/ Stopped /\ UNCHANGED world

HonestSpec == HonestInit /\ [][HonestNext]_honestVars

----------------------------------------------------------------------------
(* Properties.                                                             *)

\* Who may be accused where nobody lies: only a machine that has held, at
\* some time, an address another machine has held too, or that a cut lease
\* line gave to another.  While every address keeps its holder and no line is
\* cut, nobody is accused, by any check, packet or cache entry; two machines
\* that were both without address share 0.0.0.0.
AccusedShareAddress ==
  \A k \in Keys :
    Known(incidents[k]) =>
      \E ip \in Ips, m \in Macs \ {k[2]} :
        <<k[1], ip, k[2]>> \in used /\ <<k[1], ip, m>> \in used \cup misread

\* m holds ip now, and did when the lease file was last opened, by its line
\* there; or has held it always, and no cut line ever named it.
Settled(i, ip, m) ==
  \/ /\ <<i, ip, m>> \in Fixed /\ ip # Unspecified
     /\ \A n \in Macs : <<i, ip, n>> \notin misread
  \/ i = InterfaceOf[ip] /\ leases[ip] = m /\ ip \notin moved

SettledFrame(c) ==
  /\ Settled(c.interface, c.src_ip, c.src_mac)
  /\ c.dst_mac = Broadcast \/ Settled(c.interface, c.dst_ip, c.dst_mac)

NoEvidence == \A k \in Keys : incidents'[k].count = incidents[k].count

\* A resync heals: a frame between machines whose addresses have not moved
\* since the lease file was opened is never evidence, whatever was learned,
\* cached, leased or accused before.
SettledNeverAccused ==
  [][\A c \in Traffic, d \in Elapsed :
       SettledFrame(c) /\ Hear(c, d) => NoEvidence]_honestVars

\* arp_spoof_detector.py:323-326: "if the sender is the router itself, this
\* proves the router's own ARP cache has been poisoned": what the router
\* sends to the machine that now holds the destination is no evidence.
RouterEvidenceIsProof ==
  [][\A c \in Traffic, d \in Elapsed :
       (/\ c.src_ip = OwnIp[c.interface] /\ c.src_mac = OwnMac[c.interface]
        /\ <<c.interface, c.dst_ip, c.dst_mac>> = Use(c.dst_ip)
        /\ Hear(c, d)) => NoEvidence]_honestVars
=============================================================================
