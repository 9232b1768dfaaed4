--------------------------- MODULE HonestLanProofs ---------------------------
(***************************************************************************)
(* Proofs about HonestLan, for any number of machines, addresses, LANs,    *)
(* leases and packets, any thresholds and any pace of time.                *)
(*                                                                         *)
(* The hosts and the server only choose the detector's inputs, so what is  *)
(* proved of the detector holds.  What is added relates what the detector  *)
(* believes to what was ever true, or ever misread (LearnedInv, LinesInv)  *)
(* and, for the addresses that have not moved since the lease file was     *)
(* opened, to what is true now (CurrentInv).                               *)
(***************************************************************************)
EXTENDS HonestLan, ArpSpoofProofs

IsLeased(ip) == leases[ip] # Unbound

\* A lease line that is or was true, for an address that is not fixed.
Line(l) ==
  /\ l.ip \in Ips /\ l.mac \in Macs
  /\ InterfaceOf[l.ip] # None
  /\ <<InterfaceOf[l.ip], l.ip, l.mac>> \in used
  /\ \A m \in Macs : <<InterfaceOf[l.ip], l.ip, m>> \notin Fixed

\* What the detector was ever told, truly or by a cut line.
Told == used \cup misread

\* A line that binds only what Told accounts for.
Named(l) == Binds(l) \subseteq Told

\* Two lines that do not override each other.
Apart(l, o) ==
  /\ l.ip # o.ip
  /\ LeaseInterface(l) = LeaseInterface(o) => l.mac # o.mac

WorldInv ==
  /\ used \subseteq Candidates /\ Fixed \subseteq used
  /\ \A f \in Fixed, u \in used :
       f[1] = u[1] /\ f[2] = u[2] /\ f[2] # Unspecified => u = f
  /\ leases \in [Ips -> Macs \cup {Unbound}]
  /\ \A ip \in Ips : IsLeased(ip) => Line(Entry(ip))
  /\ \A ip, o \in Ips : ip # o /\ IsLeased(ip) /\ IsLeased(o) => Apart(Entry(ip), Entry(o))

\* What is trusted was true once or misread, and what is about to be learned
\* was true.
LearnedInv ==
  /\ \A b \in Bindings : bindings[b] # Unbound => <<b[1], b[2], bindings[b]>> \in Told
  /\ phase = "neigh" =>
       \A n \in DOMAIN todo : <<todo[n].interface, todo[n].ip, todo[n].mac>> \in used

\* So were the lines still to be applied; only the last may be torn.
LinesInv ==
  phase = "leases" =>
    \A n \in DOMAIN todo : Named(todo[n]) /\ (todo[n].ip = Torn => n = Len(todo))

\* A lease that has not moved is in force, or its line is still to come, and
\* no other line still to come takes it away.
CurrentInv ==
  \A ip \in Ips :
    IsLeased(ip) /\ ip \notin moved =>
      /\ \/ Entry(ip) \in leased
         \/ phase = "leases" /\ \E n \in DOMAIN todo : todo[n] = Entry(ip)
      /\ phase = "leases" =>
           \A n \in DOMAIN todo : todo[n] = Entry(ip) \/ Apart(Entry(ip), todo[n])

HonestInv == WorldInv /\ LearnedInv /\ LinesInv /\ CurrentInv /\ AccusedShareAddress

-----------------------------------------------------------------------------
(* The detector on an honest LAN is the detector.                          *)

LEMMA StepIsNext == [HonestNext]_honestVars => [Next]_vars
  BY DEF HonestNext, honestVars, vars, world, Assign, Release, Join, Hear, OpenTable,
         OpenCut, ReadCache, Next, Resync

\* Everything proved of the detector holds on the honest LAN.
THEOREM HonestLanIsALan == HonestSpec => Spec
<1>1. HonestInit => Init
  BY DEF HonestInit
<1> QED  BY <1>1, StepIsNext, PTL DEF HonestSpec, Spec

-----------------------------------------------------------------------------
(* The world.                                                              *)

LEMMA HonestStart == HonestInit => HonestInv
<1> SUFFICES ASSUME HonestInit PROVE HonestInv
  OBVIOUS
<1> USE HonestLanAssumption, ArpSpoofAssumption
<1>1. /\ bindings = [k \in Bindings |-> Unbound] /\ phase = "opening"
      /\ \A k \in Keys : ~Known(incidents[k])
      /\ leases = [ip \in Ips |-> Unbound] /\ used = Fixed
  BY DEF HonestInit, Init, AbsentAttack, NewArpSpoofAttack, Known
<1>2. WorldInv
  BY <1>1 DEF WorldInv, IsLeased
<1> QED
  BY <1>1, <1>2 DEF HonestInv, LearnedInv, LinesInv, CurrentInv, IsLeased, AccusedShareAddress

LEMMA AssignOK ==
  ASSUME WorldInv, NEW ip \in Ips, NEW m \in Clients, Assign(ip, m)
  PROVE  WorldInv' /\ used \subseteq used'
<1> USE HonestLanAssumption, ArpSpoofAssumption
<1> DEFINE i == InterfaceOf[ip]
<1>1. /\ m \in Macs /\ m # Unbound /\ i \in Lan /\ ip # Unspecified
      /\ leases' = [leases EXCEPT ![ip] = m] /\ used' = used \cup {<<i, ip, m>>}
      /\ \A n \in Macs : <<i, ip, n>> \notin Fixed
      /\ \A o \in Ips : InterfaceOf[o] = i => leases[o] # m
  BY DEF Assign
<1>2. used' \subseteq Candidates /\ Fixed \subseteq used' /\ used \subseteq used'
  BY <1>1 DEF WorldInv, Candidates
<1>3. ASSUME NEW f \in Fixed, NEW u \in used', f[1] = u[1], f[2] = u[2], f[2] # Unspecified
      PROVE  u = f
  <2>1. f \in Lan \X Ips \X Macs
    BY DEF Candidates
  <2>2. f[3] \in Macs /\ f = <<f[1], f[2], f[3]>>
    BY <2>1
  <2>3. u # <<i, ip, m>>
    BY <1>1, <1>3, <2>2
  <2> QED  BY <1>1, <1>3, <2>3 DEF WorldInv
<1>4. leases' \in [Ips -> Macs \cup {Unbound}]
  BY <1>1 DEF WorldInv
<1>5. /\ leases'[ip] = m /\ \A o \in Ips \ {ip} : leases'[o] = leases[o]
  BY <1>1 DEF WorldInv
<1>6. ASSUME NEW o \in Ips, IsLeased(o)'
      PROVE  Line(Entry(o))'
  <2>1. CASE o = ip
    BY <1>1, <1>5, <2>1 DEF Line, Entry
  <2>2. CASE o # ip
    BY <1>2, <1>5, <1>6, <2>2 DEF WorldInv, IsLeased, Line, Entry
  <2> QED  BY <2>1, <2>2
<1>7. ASSUME NEW o \in Ips, NEW p \in Ips, o # p, IsLeased(o)', IsLeased(p)'
      PROVE  Apart(Entry(o), Entry(p))'
  BY <1>1, <1>5, <1>7 DEF WorldInv, IsLeased, Apart, Entry, LeaseInterface
<1> QED  BY <1>2, <1>3, <1>4, <1>6, <1>7 DEF WorldInv

LEMMA ReleaseOK ==
  ASSUME WorldInv, NEW ip \in Ips, Release(ip)
  PROVE  WorldInv' /\ used' = used
<1>1. leases' = [leases EXCEPT ![ip] = Unbound] /\ used' = used
  BY DEF Release
<1>2. leases' \in [Ips -> Macs \cup {Unbound}]
  BY <1>1 DEF WorldInv
<1>3. leases'[ip] = Unbound /\ \A o \in Ips \ {ip} : leases'[o] = leases[o]
  BY <1>1 DEF WorldInv
<1> QED  BY <1>1, <1>2, <1>3 DEF WorldInv, IsLeased, Entry, Line, Apart

LEMMA JoinOK ==
  ASSUME WorldInv, NEW i \in Lan, NEW m \in Clients, Join(i, m)
  PROVE  WorldInv' /\ used \subseteq used'
<1>1. /\ leases' = leases /\ used' = used \cup {<<i, Unspecified, m>>}
  BY DEF Join
<1>2. used' \subseteq Candidates /\ Fixed \subseteq used' /\ used \subseteq used'
  BY <1>1, HonestLanAssumption DEF WorldInv, Candidates
<1>3. ASSUME NEW f \in Fixed, NEW u \in used', f[1] = u[1], f[2] = u[2], f[2] # Unspecified
      PROVE  u = f
  BY <1>1, <1>3 DEF WorldInv
<1> QED  BY <1>1, <1>2, <1>3 DEF WorldInv, IsLeased, Entry, Line, Apart

\* Nothing ever becomes untrue that was true once, and the leases stay
\* those of a server.
LEMMA WorldOK ==
  ASSUME WorldInv, [HonestNext]_honestVars
  PROVE  WorldInv' /\ used \subseteq used' /\ Told \subseteq Told'
<1>1. ASSUME leases' = leases, used' = used PROVE WorldInv' /\ used \subseteq used'
  BY <1>1 DEF WorldInv, IsLeased, Entry, Line, Apart
<1>2. WorldInv' /\ used \subseteq used'
  BY <1>1, AssignOK, ReleaseOK, JoinOK
     DEF HonestNext, honestVars, world, Hear, OpenTable, OpenCut, ReadCache
<1>3. misread \subseteq misread'
  BY DEF HonestNext, honestVars, world, Assign, Release, Join, Hear, OpenTable, OpenCut,
         ReadCache
<1> QED  BY <1>2, <1>3 DEF Told

-----------------------------------------------------------------------------
(* Whom the checks accuse.                                                 *)

\* m has held an address that another machine has held too, or was told to.
Shares(i, m) ==
  \E ip \in Ips, n \in Macs \ {m} : <<i, ip, m>> \in used /\ <<i, ip, n>> \in Told

\* All incidents of after that are new accuse one who shares an address.
OnlySharers(before, after) ==
  /\ DOMAIN after = Keys
  /\ \A k \in Keys : Known(after[k]) => Known(before[k]) \/ Shares(k[1], k[2])

\* What a claim says, of its source and of where it was delivered.
GenuineClaim(c) ==
  /\ <<c.interface, c.src_ip, c.src_mac>> \in used
  /\ \/ c.dst_mac \in {None, Broadcast}
     \/ c.dst_ip # None /\ <<c.interface, c.dst_ip, c.dst_mac>> \in used

LEMMA AccuseSharer ==
  ASSUME NEW incs, NEW before, OnlySharers(before, incs),
         NEW k \in Keys, Shares(k[1], k[2]), NEW kind, NEW ts
  PROVE  OnlySharers(before, Accuse(incs, k, kind, ts))
<1> DEFINE after == Accuse(incs, k, kind, ts)
<1>1. DOMAIN after = Keys /\ \A j \in Keys \ {k} : after[j] = incs[j]
  BY DEF Accuse, OnlySharers
<1> HIDE DEF after
<1>2. ASSUME NEW j \in Keys, Known(after[j])
      PROVE  Known(before[j]) \/ Shares(j[1], j[2])
  <2>1. CASE j = k
    BY <2>1
  <2>2. CASE j # k
    BY <1>1, <1>2, <2>2 DEF OnlySharers
  <2> QED  BY <2>1, <2>2
<1> QED  BY <1>1, <1>2 DEF OnlySharers, after

LEMMA JudgedSharers ==
  ASSUME WorldInv, LearnedInv, bindings \in [Bindings -> Macs \cup {Unbound}],
         NEW c \in Claim, GenuineClaim(c), NEW ts,
         NEW before, DOMAIN before = Keys
  PROVE  OnlySharers(before, Judged(before, c, ts))
<1> USE ArpSpoofAssumption
<1> DEFINE i     == c.interface
           known == bindings[<<i, c.src_ip>>]
<1>1. /\ i \in Lan /\ c.src_ip \in Ips /\ c.src_mac \in Macs
      /\ c.dst_ip \in Ips \cup {None} /\ c.dst_mac \in Macs \cup {Broadcast, None}
      /\ <<i, c.src_ip>> \in Bindings
      /\ <<i, c.src_ip, c.src_mac>> \in used
      /\ <<i, OwnIp[i], OwnMac[i]>> \in used /\ used \subseteq Told
      /\ OwnIp[i] \in Ips /\ OwnMac[i] \in Macs
  BY HonestLanAssumption DEF Claim, Bindings, GenuineClaim, WorldInv, Told
<1>2. OnlySharers(before, before)
  BY DEF OnlySharers
<1>3. CASE ClaimsGateway(c)
  <2>1. Shares(i, c.src_mac)
    BY <1>1, <1>3 DEF ClaimsGateway, Shares
  <2>2. <<i, c.src_mac, ClaimVictim(c)>> \in Keys
    BY AccusedKeys
  <2>3. OnlySharers(before, GatewayImpersonation(before, c, ts))
    BY <1>2, <2>1, <2>2, AccuseSharer DEF GatewayImpersonation
  <2> QED  BY <1>3, <2>3 DEF Judged
<1>4. CASE ~ClaimsGateway(c)
  <2> DEFINE a == HostsRouterCachePoisoned(before, c, ts)
             b == HostsHostCachePoisoned(a, c, ts)
  <2>1. OnlySharers(before, a)
    <3>1. CASE c.dst_ip = OwnIp[i] /\ Misdelivered(c, OwnMac[i])
      <4>1. Shares(i, c.dst_mac)
        BY <1>1, <3>1 DEF GenuineClaim, Misdelivered, Shares
      <4>2. <<i, c.dst_mac, c.src_mac>> \in Keys
        BY <3>1, AccusedKeys
      <4> QED  BY <1>2, <3>1, <4>1, <4>2, AccuseSharer DEF HostsRouterCachePoisoned
    <3> QED  BY <1>2, <3>1 DEF HostsRouterCachePoisoned
  <2> HIDE DEF a
  <2>2. OnlySharers(before, b)
    <3>1. CASE KnownDst(c) # Unbound /\ Misdelivered(c, KnownDst(c))
      <4>1. c.dst_ip \in Ips /\ KnownDst(c) = bindings[<<i, c.dst_ip>>] /\ KnownDst(c) \in Macs
        BY <1>1, <3>1 DEF KnownDst, Bindings
      <4>2. <<i, c.dst_ip, KnownDst(c)>> \in Told
        BY <1>1, <3>1, <4>1 DEF LearnedInv, Bindings
      <4>3. Shares(i, c.dst_mac)
        BY <1>1, <3>1, <4>1, <4>2 DEF GenuineClaim, Misdelivered, Shares
      <4>4. /\ <<i, c.dst_mac, c.src_mac>> \in Keys
            /\ <<i, c.dst_mac, KnownDst(c)>> \in Keys
        BY <3>1, AccusedKeys
      <4> QED  BY <2>1, <3>1, <4>3, <4>4, AccuseSharer DEF HostsHostCachePoisoned
    <3> QED  BY <2>1, <3>1 DEF HostsHostCachePoisoned
  <2> HIDE DEF b
  <2>3. OnlySharers(before, HostImpersonation(b, c, ts))
    <3>1. CASE known \notin {Unbound, c.src_mac}
      <4>1. known \in Macs /\ <<i, c.src_ip, known>> \in Told
        BY <1>1, <3>1 DEF LearnedInv
      <4>2. Shares(i, c.src_mac)
        BY <1>1, <3>1, <4>1 DEF Shares
      <4>3. <<i, c.src_mac, known>> \in Keys /\ <<i, c.src_mac, OwnMac[i]>> \in Keys
        BY <3>1, AccusedKeys
      <4> QED  BY <2>2, <3>1, <4>2, <4>3, AccuseSharer DEF HostImpersonation
    <3> QED  BY <2>2, <3>1 DEF HostImpersonation
  <2> QED  BY <1>4, <2>3 DEF Judged, a, b
<1> QED  BY <1>3, <1>4

\* The decay sweep finds nobody new.
LEMMA SweepKnown ==
  ASSUME IncidentsOK(incidents), NEW ts \in Nat, NEW k \in Keys
  PROVE  LET s == ExpireIdle(incidents, ts)
         IN  /\ DOMAIN s = Keys
             /\ Known(s[k]) => Known(incidents[k])
             /\ s[k].count = incidents[k].count
<1> DEFINE a == incidents[k]
           s == ExpireIdle(incidents, ts)
<1>1. a \in ArpSpoofAttack /\ IncidentsOK(s)
  BY SweepOK DEF IncidentsOK
<1>2. DOMAIN s = Keys
  BY <1>1 DEF IncidentsOK
<1>3. s[k] = a \/ (s[k] = Decay(a) /\ a.status \in Severity)
  BY SweepOK
<1>4. Decay(a).count = a.count
  BY <1>1 DEF Decay, ArpSpoofAttack
<1> QED  BY <1>2, <1>3, <1>4 DEF Known, Severity

\* Sharing an address is for ever.
LEMMA SharersStay ==
  ASSUME AccusedShareAddress, used \subseteq used', Told \subseteq Told',
         \A k \in Keys : Known(incidents'[k]) => Known(incidents[k]) \/ Shares(k[1], k[2])
  PROVE  AccusedShareAddress'
  BY DEF AccusedShareAddress, Shares, Told

LEMMA ChecksSharers ==
  ASSUME IInv, WorldInv, LearnedInv, AccusedShareAddress, UNCHANGED world,
         NEW incs, DOMAIN incs = Keys,
         \A k \in Keys : Known(incs[k]) => Known(incidents[k]),
         NEW c \in Claim, GenuineClaim(c), NEW ts, RunChecks(incs, c, ts)
  PROVE  AccusedShareAddress'
<1>1. bindings \in [Bindings -> Macs \cup {Unbound}]
  BY DEF IInv, TrustInv
<1>2. OnlySharers(incs, incidents')
  BY <1>1, JudgedSharers DEF RunChecks
<1>3. used' = used /\ Told' = Told
  BY DEF world, Told
<1> QED  BY <1>2, <1>3, SharersStay DEF OnlySharers

\* What is learned from a genuine claim is accounted for.
LEMMA LearnedOK ==
  ASSUME IInv, LearnedInv, NEW c \in Claim, NEW incs, NEW ts \in Nat, RunChecks(incs, c, ts),
         <<c.interface, c.src_ip, c.src_mac>> \in used
  PROVE  \A b \in Bindings : bindings'[b] # Unbound => <<b[1], b[2], bindings'[b]>> \in Told
<1> DEFINE k == <<c.interface, c.src_ip>>
<1>1. TrustInv /\ bindings \in [Bindings -> Macs \cup {Unbound}]
  BY DEF IInv, TrustInv
<1>2. bindings' = bindings \/ bindings' = [bindings EXCEPT ![k] = c.src_mac]
  BY <1>1, Learned DEF RunChecks, trust
<1>3. ASSUME NEW b \in Bindings, bindings'[b] # Unbound
      PROVE  <<b[1], b[2], bindings'[b]>> \in Told
  <2>1. bindings'[b] = bindings[b] \/ (b = k /\ bindings'[b] = c.src_mac)
    BY <1>1, <1>2
  <2> QED  BY <1>3, <2>1 DEF LearnedInv, Told
<1> QED  BY <1>3

-----------------------------------------------------------------------------
(* Steps.                                                                  *)

\* What only reads the world, or adds to it, leaves what was learned true.
LEMMA LearnedStays ==
  ASSUME LearnedInv, bindings' = bindings, used \subseteq used', Told \subseteq Told',
         phase' # "neigh" \/ (phase' = phase /\ todo' = todo) \/ todo' = <<>>
  PROVE  LearnedInv'
  BY DEF LearnedInv

LEMMA LinesStay ==
  ASSUME LinesInv, Told \subseteq Told',
         phase' # "leases" \/ (phase' = phase /\ todo' = todo)
  PROVE  LinesInv'
  BY DEF LinesInv, Named

LEMMA CurrentStays ==
  ASSUME CurrentInv, leases' = leases, moved' = moved, leased' = leased,
         \/ phase' = phase /\ todo' = todo
         \/ phase' # "leases" /\ (phase = "leases" => todo = <<>>)
  PROVE  CurrentInv'
  BY DEF CurrentInv, IsLeased, Entry, Apart

LEMMA AccusedStays ==
  ASSUME AccusedShareAddress, used \subseteq used', Told \subseteq Told',
         incidents' = incidents
  PROVE  AccusedShareAddress'
  BY DEF AccusedShareAddress, Told

\* What only reads the world leaves it in order.
LEMMA WorldStays ==
  ASSUME WorldInv, leases' = leases, used' = used
  PROVE  WorldInv'
  BY DEF WorldInv, IsLeased, Entry, Line, Apart

\* The server and the hosts.
LEMMA WorldStepOK ==
  ASSUME HonestInv,
         \/ \E ip \in Ips, m \in Clients : Assign(ip, m)
         \/ \E ip \in Ips : Release(ip)
         \/ \E i \in Lan, m \in Clients : Join(i, m)
  PROVE  HonestInv'
<1>1. WorldInv' /\ used \subseteq used' /\ Told \subseteq Told'
  BY WorldOK DEF HonestInv, HonestNext
<1>2. /\ bindings' = bindings /\ incidents' = incidents /\ phase' = phase
      /\ todo' = todo /\ leased' = leased
  BY DEF Assign, Release, Join, vars
<1>3. LearnedInv' /\ LinesInv' /\ AccusedShareAddress'
  BY <1>1, <1>2, LearnedStays, LinesStay, AccusedStays DEF HonestInv
<1>4. ASSUME NEW o \in Ips, IsLeased(o)', o \notin moved'
      PROVE  IsLeased(o) /\ o \notin moved /\ Entry(o)' = Entry(o)
  <2>1. leases \in [Ips -> Macs \cup {Unbound}]
    BY DEF HonestInv, WorldInv
  <2>2. CASE \E ip \in Ips, m \in Clients : Assign(ip, m)
    BY <1>4, <2>1, <2>2 DEF Assign, IsLeased, Entry
  <2>3. CASE \E ip \in Ips : Release(ip)
    BY <1>4, <2>1, <2>3 DEF Release, IsLeased, Entry
  <2>4. CASE \E i \in Lan, m \in Clients : Join(i, m)
    BY <1>4, <2>4 DEF Join, IsLeased, Entry
  <2> QED  BY <2>2, <2>3, <2>4
<1>5. CurrentInv'
  BY <1>2, <1>4 DEF HonestInv, CurrentInv, Apart
<1> QED  BY <1>1, <1>3, <1>5 DEF HonestInv

LEMMA HearOK ==
  ASSUME IInv, HonestInv, NEW c \in Traffic, NEW d \in Elapsed, Hear(c, d)
  PROVE  HonestInv'
<1> USE ArpSpoofAssumption
<1> DEFINE ts   == now + d
           incs == IF CleanupDue(ts) THEN ExpireIdle(incidents, ts) ELSE incidents
<1>1. /\ ts \in Nat /\ c \in Claim /\ IncidentsOK(incidents)
  BY DEF IInv, ResyncInv, Hear, Receive
<1>2. /\ phase = "listening" /\ phase' \in {"listening", "opening"}
      /\ RunChecks(incs, c, ts) /\ leased' = leased /\ UNCHANGED world
      /\ Genuine(c)
  BY DEF Hear, Receive
<1>3. used' = used /\ leases' = leases /\ moved' = moved /\ Told' = Told
  BY <1>2 DEF world, Told
<1>4. GenuineClaim(c) /\ <<c.interface, c.src_ip, c.src_mac>> \in used
  BY <1>2 DEF Genuine, GenuineClaim
<1>5. DOMAIN incs = Keys /\ \A k \in Keys : Known(incs[k]) => Known(incidents[k])
  <2>1. CASE CleanupDue(ts)
    <3>1. \A k \in Keys : Known(incs[k]) => Known(incidents[k])
      BY <1>1, <2>1, SweepKnown
    <3>2. IncidentsOK(incs)
      BY <1>1, <2>1, SweepOK
    <3> QED  BY <3>1, <3>2 DEF IncidentsOK
  <2>2. CASE ~CleanupDue(ts)
    BY <1>1, <2>2 DEF IncidentsOK
  <2> QED  BY <2>1, <2>2
<1> HIDE DEF incs, ts
<1>6. AccusedShareAddress'
  BY <1>1, <1>2, <1>3, <1>4, <1>5, ChecksSharers DEF HonestInv
<1>7. LearnedInv'
  <2>1. \A b \in Bindings : bindings'[b] # Unbound => <<b[1], b[2], bindings'[b]>> \in Told
    BY <1>1, <1>2, <1>4, LearnedOK DEF HonestInv
  <2> QED  BY <1>2, <1>3, <2>1 DEF LearnedInv
<1>8. WorldInv' /\ LinesInv' /\ CurrentInv'
  <2>1. WorldInv'
    BY <1>3, WorldStays DEF HonestInv
  <2> QED  BY <1>2, <1>3, <2>1, LinesStay, CurrentStays DEF HonestInv
<1> QED  BY <1>6, <1>7, <1>8 DEF HonestInv

\* Opening a file: its lines are named, and keep what has not moved.
LEMMA OpenedOK ==
  ASSUME HonestInv, NEW file \in LeaseFiles, OpenLeases(file),
         leases' = leases, used' = used, misread \subseteq misread',
         \A n \in DOMAIN file : Named(file[n])' /\ (file[n].ip = Torn => n = Len(file)),
         \A ip \in Ips : IsLeased(ip) /\ ip \notin moved' =>
           /\ \E n \in DOMAIN file : file[n] = Entry(ip)
           /\ \A n \in DOMAIN file : file[n] = Entry(ip) \/ Apart(Entry(ip), file[n])
  PROVE  HonestInv'
<1>1. /\ phase' = "leases" /\ todo' = file /\ leased' = {}
      /\ bindings' = bindings /\ incidents' = incidents
      /\ used \subseteq used' /\ Told \subseteq Told'
  BY DEF OpenLeases, Told
<1>2. WorldInv' /\ LearnedInv' /\ AccusedShareAddress'
  BY <1>1, WorldStays, LearnedStays, AccusedStays DEF HonestInv
<1>3. LinesInv'
  BY <1>1 DEF LinesInv, Named
<1>4. CurrentInv'
  BY <1>1 DEF CurrentInv, IsLeased, Entry, Apart
<1> QED  BY <1>2, <1>3, <1>4 DEF HonestInv

\* The line of a lease binds its address, and names what is true.
LEMMA EntryNamed ==
  ASSUME WorldInv, NEW ip \in Ips, IsLeased(ip)
  PROVE  /\ LeaseInterface(Entry(ip)) = InterfaceOf[ip] /\ InterfaceOf[ip] \in Lan
         /\ ~OwnLease(InterfaceOf[ip], ip)
         /\ Entry(ip).ip = ip /\ Entry(ip).mac = leases[ip] /\ ip # Torn
         /\ <<InterfaceOf[ip], ip, leases[ip]>> \in used
<1> USE HonestLanAssumption, ArpSpoofAssumption
<1>1. /\ Line(Entry(ip)) /\ ip # Torn /\ Entry(ip).ip = ip /\ Entry(ip).mac = leases[ip]
  BY DEF WorldInv, Entry
<1> QED  BY <1>1 DEF Line, LeaseInterface, OwnLease

\* Opening the file as far as it is written: every lease it lists is
\* current, and its line is to come.
LEMMA OpenTableOK ==
  ASSUME HonestInv, NEW file \in LeaseFiles, OpenTable(file)
  PROVE  HonestInv'
<1>1. PICK listed \in SUBSET Leased :
        Lists(file, listed) /\ OpenLeases(file) /\ moved' = Leased \ listed
  BY DEF OpenTable
<1>2. leases' = leases /\ used' = used /\ misread' = misread /\ WorldInv
  BY DEF OpenTable, HonestInv
<1>3. {file[n] : n \in DOMAIN file} = {Entry(ip) : ip \in listed}
  BY <1>1 DEF Lists
<1>4. ASSUME NEW n \in DOMAIN file
      PROVE  \E ip \in listed : ip \in Ips /\ IsLeased(ip) /\ file[n] = Entry(ip)
  BY <1>1, <1>3 DEF Leased, IsLeased
<1>5. ASSUME NEW n \in DOMAIN file PROVE Named(file[n])' /\ file[n].ip # Torn
  <2>1. PICK ip \in listed : ip \in Ips /\ IsLeased(ip) /\ file[n] = Entry(ip)
    BY <1>4
  <2>2. <<LeaseInterface(file[n]), file[n].ip, file[n].mac>> \in used /\ file[n].ip # Torn
    BY <1>2, <2>1, EntryNamed
  <2> QED  BY <1>2, <2>2 DEF Named, Binds, Told
<1>6. ASSUME NEW ip \in Ips, IsLeased(ip), ip \notin moved'
      PROVE  /\ \E n \in DOMAIN file : file[n] = Entry(ip)
             /\ \A n \in DOMAIN file : file[n] = Entry(ip) \/ Apart(Entry(ip), file[n])
  <2>1. ip \in listed
    BY <1>1, <1>6 DEF Leased, IsLeased
  <2>2. \E n \in DOMAIN file : file[n] = Entry(ip)
    BY <1>3, <2>1
  <2>3. ASSUME NEW n \in DOMAIN file, file[n] # Entry(ip) PROVE Apart(Entry(ip), file[n])
    BY <1>2, <1>4, <1>6, <2>3 DEF WorldInv
  <2> QED  BY <2>2, <2>3
<1> QED  BY <1>1, <1>2, <1>5, <1>6, OpenedOK

\* Opening it up to a cut line: what this may name or take away is not
\* settled.
LEMMA OpenCutOK ==
  ASSUME HonestInv, NEW file \in LeaseFiles, OpenCut(file)
  PROVE  HonestInv'
<1> USE ArpSpoofAssumption
<1> DEFINE line(ip, cut) == [mac |-> leases[ip], ip |-> cut]
           Cut(listed, l) ==
             /\ Lists(Front(file), listed) /\ Last(file) = l
             /\ misread' = misread \cup Binds(l)
             /\ moved' = Leased \ {o \in listed : o # l.ip /\ leases[o] # l.mac}
<1>1. PICK listed \in SUBSET Leased : \E ip \in Leased : \E cut \in CutTo[ip] :
        Cut(listed, line(ip, cut))
  BY DEF OpenCut
<1>2. PICK l : Cut(listed, l)
  BY <1>1
<1> HIDE DEF line
<1>4. /\ OpenLeases(file) /\ leases' = leases /\ used' = used /\ WorldInv
      /\ file \in Seq(Lease) /\ file # <<>>
  BY DEF OpenCut, HonestInv
<1>5. /\ Lists(Front(file), listed) /\ Last(file) = l
      /\ moved' = Leased \ {o \in listed : o # l.ip /\ leases[o] # l.mac}
  BY <1>2
<1>6. misread \subseteq misread' /\ Named(l)'
  BY <1>2 DEF Named, Told, Binds
<1> HIDE DEF Cut
<1>7. /\ Len(file) \in DOMAIN file /\ file[Len(file)] = l
      /\ DOMAIN Front(file) = DOMAIN file \ {Len(file)}
      /\ \A n \in DOMAIN file \ {Len(file)} : Front(file)[n] = file[n]
  <2>1. /\ Len(file) \in Nat \ {0} /\ DOMAIN file = 1 .. Len(file)
        /\ Front(file) = [n \in 1 .. (Len(file) - 1) |-> file[n]]
    BY <1>4 DEF Front
  <2> QED  BY <1>5, <2>1 DEF Last
<1>8. /\ \A n \in DOMAIN file \ {Len(file)} : \E o \in listed : file[n] = Entry(o)
      /\ \A o \in listed : \E n \in DOMAIN file : file[n] = Entry(o)
  <2> DEFINE f == Front(file)
  <2>1. {f[n] : n \in DOMAIN f} = {Entry(o) : o \in listed}
    BY <1>5 DEF Lists
  <2> HIDE DEF f
  <2>2. /\ \A n \in DOMAIN f : \E o \in listed : f[n] = Entry(o)
        /\ \A o \in listed : \E n \in DOMAIN f : f[n] = Entry(o)
    BY <2>1
  <2> QED  BY <1>7, <2>2 DEF f
<1>9. ASSUME NEW n \in DOMAIN file, n # Len(file)
      PROVE  \E o \in listed : o \in Ips /\ IsLeased(o) /\ file[n] = Entry(o)
  BY <1>8, <1>9 DEF Leased, IsLeased
<1>10. ASSUME NEW n \in DOMAIN file
       PROVE  Named(file[n])' /\ (file[n].ip = Torn => n = Len(file))
  <2>1. CASE n = Len(file)
    BY <1>6, <1>7, <2>1
  <2>2. CASE n # Len(file)
    <3>1. PICK o \in listed : o \in Ips /\ IsLeased(o) /\ file[n] = Entry(o)
      BY <1>9, <2>2
    <3>2. <<LeaseInterface(file[n]), file[n].ip, file[n].mac>> \in used /\ file[n].ip # Torn
      BY <1>4, <3>1, EntryNamed
    <3> QED  BY <1>4, <3>2 DEF Named, Binds, Told
  <2> QED  BY <2>1, <2>2
<1>11. ASSUME NEW o \in Ips, IsLeased(o), o \notin moved'
       PROVE  /\ \E n \in DOMAIN file : file[n] = Entry(o)
              /\ \A n \in DOMAIN file : file[n] = Entry(o) \/ Apart(Entry(o), file[n])
  <2>1. o \in listed /\ o # l.ip /\ leases[o] # l.mac
    BY <1>5, <1>11 DEF Leased, IsLeased
  <2>2. \E n \in DOMAIN file : file[n] = Entry(o)
    BY <1>8, <2>1
  <2>3. ASSUME NEW n \in DOMAIN file, file[n] # Entry(o) PROVE Apart(Entry(o), file[n])
    <3>1. CASE n = Len(file)
      BY <1>7, <2>1, <3>1 DEF Apart, Entry
    <3>2. CASE n # Len(file)
      BY <1>4, <1>9, <1>11, <2>3, <3>2 DEF WorldInv
    <3> QED  BY <3>1, <3>2
  <2> QED  BY <2>2, <2>3
<1> QED  BY <1>4, <1>6, <1>10, <1>11, OpenedOK

\* One line: it binds what it names, and takes no lease away that has not
\* moved.
LEMMA ApplyLineOK ==
  ASSUME IInv, HonestInv, ApplyLease, UNCHANGED world
  PROVE  HonestInv'
<1> USE ArpSpoofAssumption
<1> DEFINE l == todo[1]
           i == LeaseInterface(l)
<1>1. /\ phase = "leases" /\ phase' = phase /\ todo \in Seq(Lease) /\ todo # <<>>
      /\ todo' = Tail(todo) /\ Head(todo) = l /\ incidents' = incidents
      /\ leases' = leases /\ used' = used /\ moved' = moved /\ Told' = Told
  BY DEF ApplyLease, world, Told, IInv, ResyncInv
<1>2. /\ Len(todo) \in Nat \ {0} /\ DOMAIN todo = 1 .. Len(todo)
      /\ DOMAIN todo' = 1 .. (Len(todo) - 1) /\ Len(todo') = Len(todo) - 1
      /\ \A n \in DOMAIN todo' : n + 1 \in DOMAIN todo /\ todo'[n] = todo[n + 1]
  BY <1>1
<1>3. Named(l) /\ 1 \in DOMAIN todo
  BY <1>1, <1>2 DEF HonestInv, LinesInv
<1>4. \/ (i = None \/ OwnLease(i, l.ip)) /\ bindings' = bindings /\ leased' = leased
      \/ /\ ~(i = None \/ OwnLease(i, l.ip))
         /\ bindings' = Authorised(i, l.ip, l.mac)
         /\ leased' = {o \in leased : /\ o.ip # l.ip
                                      /\ LeaseInterface(o) = i => o.mac # l.mac} \cup {l}
  BY <1>1 DEF ApplyLease
<1> HIDE DEF l
<1>5. LearnedInv'
  <2>1. ASSUME NEW b \in Bindings, bindings'[b] # Unbound
        PROVE  <<b[1], b[2], bindings'[b]>> \in Told
    <3>1. \/ bindings'[b] = bindings[b]
          \/ /\ <<i, l.ip, l.mac>> \in Told
             /\ b = <<i, l.ip>> /\ bindings'[b] = l.mac
      <4> HIDE DEF i
      <4>1. CASE bindings' = bindings
        BY <4>1
      <4>2. CASE bindings' = Authorised(i, l.ip, l.mac) /\ ~(i = None \/ OwnLease(i, l.ip))
        <5>1. <<i, l.ip, l.mac>> \in Told
          BY <1>3, <4>2 DEF Named, Binds, i
        <5>2. CASE bindings[<<i, l.ip>>] = l.mac
          BY <4>2, <5>2 DEF Authorised
        <5>3. CASE bindings[<<i, l.ip>>] # l.mac
          <6>1. bindings' = [d \in Bindings |-> IF d = <<i, l.ip>> THEN l.mac
                               ELSE IF d[1] = i /\ bindings[d] = l.mac THEN Unbound
                               ELSE bindings[d]]
            BY <4>2, <5>3 DEF Authorised
          <6> QED  BY <2>1, <5>1, <6>1
        <5> QED  BY <5>2, <5>3
      <4> QED  BY <1>4, <4>1, <4>2 DEF i
    <3>2. CASE bindings'[b] = bindings[b]
      BY <2>1, <3>2 DEF HonestInv, LearnedInv
    <3>3. CASE <<i, l.ip, l.mac>> \in Told /\ b = <<i, l.ip>> /\ bindings'[b] = l.mac
      <4>1. b[1] = i /\ b[2] = l.ip
        BY <3>3
      <4> QED  BY <3>3, <4>1
    <3> QED  BY <3>1, <3>2, <3>3
  <2> QED  BY <1>1, <2>1 DEF LearnedInv
<1>6. LinesInv'
  <2>1. \A n \in DOMAIN todo : Named(todo[n]) /\ (todo[n].ip = Torn => n = Len(todo))
    BY <1>1 DEF HonestInv, LinesInv
  <2>2. \A n \in DOMAIN todo' : Named(todo'[n]) /\ (todo'[n].ip = Torn => n = Len(todo'))
    BY <1>2, <2>1
  <2> QED  BY <1>1, <2>2 DEF LinesInv, Named
<1>7. CurrentInv'
  <2>1. ASSUME NEW ip \in Ips, IsLeased(ip), ip \notin moved
        PROVE  /\ Entry(ip) \in leased' \/ \E n \in DOMAIN todo' : todo'[n] = Entry(ip)
               /\ \A n \in DOMAIN todo' : todo'[n] = Entry(ip) \/ Apart(Entry(ip), todo'[n])
    <3>1. \A n \in DOMAIN todo : todo[n] = Entry(ip) \/ Apart(Entry(ip), todo[n])
      BY <1>1, <2>1 DEF HonestInv, CurrentInv
    <3>2. Entry(ip) \in leased => Entry(ip) \in leased'
      BY <1>3, <1>4, <3>1 DEF Apart, l
    <3>3. l = Entry(ip) => Entry(ip) \in leased'
      <4> DEFINE e == Entry(ip)
      <4>1. LeaseInterface(e) # None /\ ~OwnLease(LeaseInterface(e), e.ip)
        <5>1. LeaseInterface(e) = InterfaceOf[ip] /\ e.ip = ip
          BY <2>1, EntryNamed DEF HonestInv
        <5>2. InterfaceOf[ip] # None /\ ~OwnLease(InterfaceOf[ip], ip)
          BY <2>1, EntryNamed DEF HonestInv
        <5> QED  BY <5>1, <5>2
      <4> QED  BY <1>4, <4>1
    <3>4. CASE Entry(ip) \notin leased /\ l # Entry(ip)
      <4>1. PICK n \in DOMAIN todo : todo[n] = Entry(ip) /\ n # 1
        BY <2>1, <3>4 DEF HonestInv, CurrentInv, l
      <4>2. n - 1 \in DOMAIN todo' /\ todo'[n - 1] = todo[n]
        BY <1>1, <1>2, <4>1
      <4> QED  BY <1>2, <3>1, <4>1, <4>2
    <3> QED  BY <1>2, <3>1, <3>2, <3>3, <3>4
  <2>2. phase' = "leases" /\ leases' = leases /\ moved' = moved
    BY <1>1
  <2> QED  BY <2>1, <2>2 DEF CurrentInv, IsLeased, Entry, Apart
<1>8. WorldInv' /\ AccusedShareAddress'
  BY <1>1, WorldStays, AccusedStays DEF HonestInv
<1> QED  BY <1>5, <1>6, <1>7, <1>8 DEF HonestInv

\* A torn line ends the resync, but no line comes after it.
LEMMA AbortOK ==
  ASSUME IInv, HonestInv, AbortResync, UNCHANGED world
  PROVE  HonestInv'
<1> USE ArpSpoofAssumption
<1>1. /\ phase = "leases" /\ phase' \in {"failed", "listening"}
      /\ todo \in Seq(Lease) /\ todo # <<>> /\ todo[1].ip = Torn
      /\ bindings' = bindings /\ incidents' = incidents /\ leased' = leased
      /\ leases' = leases /\ used' = used /\ moved' = moved /\ Told' = Told
  BY DEF AbortResync, Raises, world, Told, IInv, ResyncInv
<1>2. WorldInv' /\ LearnedInv' /\ LinesInv' /\ AccusedShareAddress'
  BY <1>1, WorldStays, LearnedStays, LinesStay, AccusedStays DEF HonestInv
<1>3. \A n \in DOMAIN todo : n = 1
  <2>1. Len(todo) \in Nat \ {0} /\ DOMAIN todo = 1 .. Len(todo)
    BY <1>1
  <2>2. Len(todo) = 1
    BY <1>1, <2>1 DEF HonestInv, LinesInv
  <2> QED  BY <2>1, <2>2
<1>4. ASSUME NEW ip \in Ips, IsLeased(ip), ip \notin moved
      PROVE  Entry(ip) \in leased
  <2>1. todo[1] # Entry(ip)
    BY <1>1, <1>4, EntryNamed DEF HonestInv
  <2> QED  BY <1>3, <1>4, <2>1 DEF HonestInv, CurrentInv
<1>5. CurrentInv'
  BY <1>1, <1>4 DEF CurrentInv, IsLeased, Entry
<1> QED  BY <1>2, <1>5 DEF HonestInv

LEMMA CacheOK ==
  ASSUME IInv, HonestInv, NEW table \in NeighTables, ReadCache(table)
  PROVE  HonestInv'
<1>1. /\ phase = "neigh" /\ phase' = phase /\ leased' = leased
      /\ bindings' = bindings /\ incidents' = incidents
      /\ leases' = leases /\ used' = used /\ moved' = moved /\ Told' = Told
      /\ todo' = [n \in DOMAIN table |->
                    [interface |-> Head(unread), ip |-> table[n].ip, mac |-> table[n].mac]]
      /\ \A n \in DOMAIN table : <<Head(unread), table[n].ip, table[n].mac>> \in used
  BY DEF ReadCache, ReadNeigh, world, Told
<1>2. LearnedInv'
  BY <1>1 DEF HonestInv, LearnedInv
<1>3. WorldInv'
  BY <1>1, WorldStays DEF HonestInv
<1>4. LinesInv' /\ CurrentInv' /\ AccusedShareAddress'
  BY <1>1, LinesStay, CurrentStays, AccusedStays DEF HonestInv
<1> QED  BY <1>2, <1>3, <1>4 DEF HonestInv

LEMMA EntryOK ==
  ASSUME IInv, HonestInv, CheckNeigh, UNCHANGED world
  PROVE  HonestInv'
<1> DEFINE e == todo[1]
           Neighbour == [interface : Lan, ip : Ips, mac : Macs]
<1>1. /\ phase = "neigh" /\ phase' = phase /\ leased' = leased
      /\ leases' = leases /\ used' = used /\ moved' = moved /\ Told' = Told
      /\ todo \in Seq(Neighbour) /\ todo # <<>> /\ todo' = Tail(todo) /\ Head(todo) = e
      /\ now \in Nat /\ IncidentsOK(incidents)
  BY DEF CheckNeigh, world, Told, IInv, ResyncInv
<1>2. /\ e \in Neighbour /\ 1 \in DOMAIN todo
      /\ \A n \in DOMAIN todo' : n + 1 \in DOMAIN todo /\ todo'[n] = todo[n + 1]
  <2> HIDE DEF Neighbour
  <2>1. DOMAIN todo = 1 .. Len(todo) /\ Len(todo) \in Nat \ {0}
    BY <1>1
  <2>2. e \in Neighbour /\ 1 \in DOMAIN todo
    BY <1>1, <2>1
  <2>3. DOMAIN todo' = 1 .. (Len(todo) - 1) /\ \A n \in DOMAIN todo' : todo'[n] = todo[n + 1]
    BY <1>1, <2>1
  <2> QED  BY <2>1, <2>2, <2>3
<1>3. <<e.interface, e.ip, e.mac>> \in used
  BY <1>1, <1>2 DEF HonestInv, LearnedInv
<1> HIDE DEF e
<1> DEFINE c == NeighClaim(e)
<1>4. /\ c \in Claim /\ GenuineClaim(c)
      /\ <<c.interface, c.src_ip, c.src_mac>> \in used
  BY <1>2, <1>3 DEF NeighClaim, Claim, GenuineClaim
<1>5. \/ bindings' = bindings /\ incidents' = incidents
      \/ RunChecks(incidents, c, now)
  BY <1>1 DEF CheckNeigh
<1> HIDE DEF c
<1>6. \A b \in Bindings : bindings'[b] # Unbound => <<b[1], b[2], bindings'[b]>> \in Told
  <2>1. CASE bindings' = bindings
    BY <2>1 DEF HonestInv, LearnedInv
  <2>2. CASE RunChecks(incidents, c, now)
    BY <1>1, <1>4, <2>2, LearnedOK DEF HonestInv
  <2> QED  BY <1>5, <2>1, <2>2
<1>7. LearnedInv'
  BY <1>1, <1>2, <1>6 DEF HonestInv, LearnedInv
<1>8. AccusedShareAddress'
  <2>1. CASE incidents' = incidents
    BY <1>1, <2>1, AccusedStays DEF HonestInv
  <2>2. CASE RunChecks(incidents, c, now)
    BY <1>1, <1>4, <2>2, ChecksSharers DEF HonestInv, IncidentsOK
  <2> QED  BY <1>5, <2>1, <2>2
<1>9. WorldInv'
  BY <1>1, WorldStays DEF HonestInv
<1>10. LinesInv' /\ CurrentInv'
  BY <1>1, LinesStay, CurrentStays DEF HonestInv
<1> QED  BY <1>7, <1>8, <1>9, <1>10 DEF HonestInv

\* The steps that neither judge, bind nor read.
LEMMA PassOK ==
  ASSUME IInv, HonestInv, UNCHANGED world,
         \/ \E d \in Elapsed : Ignore(d) \/ StartNeigh(d)
         \/ EndResync
         \/ Stopped
         \/ UNCHANGED vars
  PROVE  HonestInv'
<1>1. /\ bindings' = bindings /\ incidents' = incidents /\ leased' = leased
      /\ leases' = leases /\ used' = used /\ moved' = moved /\ Told' = Told
  BY DEF Ignore, StartNeigh, EndResync, Stopped, vars, world, Told
<1>2. \/ phase' = phase /\ todo' = todo
      \/ phase' = "neigh" /\ todo' = todo /\ todo = <<>>
      \/ phase = "neigh" /\ phase' = "listening" /\ todo' = todo
  BY DEF Ignore, StartNeigh, EndResync, Stopped, vars
<1>3. WorldInv'
  BY <1>1, WorldStays DEF HonestInv
<1>4. LearnedInv' /\ LinesInv' /\ AccusedShareAddress'
  BY <1>1, <1>2, LearnedStays, LinesStay, AccusedStays DEF HonestInv
<1>5. CurrentInv'
  BY <1>1, <1>2, CurrentStays DEF HonestInv
<1> QED  BY <1>3, <1>4, <1>5 DEF HonestInv

LEMMA HonestStepOK ==
  ASSUME IInv, HonestInv, [HonestNext]_honestVars
  PROVE  HonestInv'
<1>1. CASE \E ip \in Ips, m \in Clients : Assign(ip, m)
  BY <1>1, WorldStepOK
<1>2. CASE \E ip \in Ips : Release(ip)
  BY <1>2, WorldStepOK
<1>3. CASE \E i \in Lan, m \in Clients : Join(i, m)
  BY <1>3, WorldStepOK
<1>4. CASE \E c \in Traffic, d \in Elapsed : Hear(c, d)
  BY <1>4, HearOK
<1>5. CASE \E file \in LeaseFiles : OpenTable(file) \/ OpenCut(file)
  BY <1>5, OpenTableOK, OpenCutOK
<1>6. CASE ApplyLease /\ UNCHANGED world
  BY <1>6, ApplyLineOK
<1>7. CASE \E table \in NeighTables : ReadCache(table)
  BY <1>7, CacheOK
<1>8. CASE CheckNeigh /\ UNCHANGED world
  BY <1>8, EntryOK
<1>9. CASE AbortResync /\ UNCHANGED world
  BY <1>9, AbortOK
<1>10. CASE /\ UNCHANGED world
            /\ \/ \E d \in Elapsed : Ignore(d) \/ StartNeigh(d)
               \/ EndResync
               \/ Stopped
               \/ UNCHANGED vars
  BY <1>10, PassOK
<1> QED  BY <1>1, <1>2, <1>3, <1>4, <1>5, <1>6, <1>7, <1>8, <1>9, <1>10
         DEF HonestNext, honestVars

LEMMA HonestInductive == HonestSpec => [](IInv /\ HonestInv)
<1>1. IInv /\ HonestInv /\ [HonestNext]_honestVars => HonestInv'
  BY HonestStepOK
<1>2. HonestSpec => []IInv
  BY HonestLanIsALan, Inductive, PTL
<1> QED  BY HonestStart, <1>1, <1>2, PTL DEF HonestSpec

-----------------------------------------------------------------------------
(* Theorems.                                                               *)

\* Where nobody lies, only machines that have held an address which another
\* machine has held too are ever accused: by no check, on no packet, through
\* no binding however it was learned.
THEOREM AccusedShareAddressAlways == HonestSpec => []AccusedShareAddress
<1>1. IInv /\ HonestInv => AccusedShareAddress
  BY DEF HonestInv
<1> QED  BY <1>1, HonestInductive, PTL

\* Between two packets, whoever holds an address that has not moved since
\* the lease file was opened is trusted for it, or nobody is.
LEMMA SettledBinding ==
  ASSUME IInv, HonestInv, phase = "listening",
         NEW i \in Lan, NEW ip \in Ips, NEW m \in Macs, Settled(i, ip, m)
  PROVE  /\ bindings[<<i, ip>>] \in {Unbound, m}
         /\ ip = OwnIp[i] => m = OwnMac[i]
<1> USE HonestLanAssumption, ArpSpoofAssumption
<1>1. <<i, ip>> \in Bindings /\ <<i, OwnIp[i], OwnMac[i]>> \in Fixed
  BY DEF Bindings
<1>2. CASE /\ <<i, ip, m>> \in Fixed /\ ip # Unspecified
           /\ \A n \in Macs : <<i, ip, n>> \notin misread
  <2>1. bindings[<<i, ip>>] # Unbound => <<i, ip, bindings[<<i, ip>>]>> \in used
    <3>1. bindings[<<i, ip>>] \in Macs \cup {Unbound}
      BY <1>1 DEF IInv, TrustInv
    <3> QED  BY <1>1, <1>2, <3>1 DEF HonestInv, LearnedInv, Told
  <2>2. bindings[<<i, ip>>] # Unbound => bindings[<<i, ip>>] = m
    BY <1>2, <2>1 DEF HonestInv, WorldInv
  <2>3. ip = OwnIp[i] => m = OwnMac[i]
    BY <1>1, <1>2
  <2> QED  BY <2>2, <2>3
<1>3. CASE i = InterfaceOf[ip] /\ leases[ip] = m /\ ip \notin moved
  <2>1. IsLeased(ip) /\ Line(Entry(ip))
    BY <1>3 DEF IsLeased, HonestInv, WorldInv
  <2>2. Entry(ip) \in leased
    BY <1>3, <2>1 DEF HonestInv, CurrentInv
  <2>3. bindings[<<LeaseInterface(Entry(ip)), Entry(ip).ip>>] = Entry(ip).mac
    BY <2>2 DEF IInv, LeasedInv, LeasesInForce
  <2>4. bindings[<<i, ip>>] = m
    BY <1>3, <2>3 DEF LeaseInterface, Entry
  <2>5. ip # OwnIp[i]
    BY <1>1, <1>3, <2>1 DEF Line, Entry
  <2> QED  BY <2>4, <2>5
<1> QED  BY <1>2, <1>3 DEF Settled

\* A frame between settled machines passes every check.
LEMMA SettledFrameOK ==
  ASSUME IInv, HonestInv, NEW c \in Traffic, NEW d \in Elapsed,
         SettledFrame(c), Hear(c, d)
  PROVE  NoEvidence
<1> USE ArpSpoofAssumption
<1> DEFINE ts   == now + d
           incs == IF CleanupDue(ts) THEN ExpireIdle(incidents, ts) ELSE incidents
           i    == c.interface
<1>1. /\ ts \in Nat /\ IncidentsOK(incidents)
      /\ i \in Lan /\ c.src_ip \in Ips /\ c.src_mac \in Macs
      /\ c.dst_ip \in Ips \cup {None} /\ c.dst_mac \in Macs \cup {Broadcast, None}
  BY DEF IInv, ResyncInv, Claim, Hear, Receive
<1>2. /\ phase = "listening" /\ Genuine(c) /\ RunChecks(incs, c, ts)
  BY DEF Hear, Receive
<1>3. /\ bindings[<<i, c.src_ip>>] \in {Unbound, c.src_mac}
      /\ c.src_ip = OwnIp[i] => c.src_mac = OwnMac[i]
  BY <1>1, <1>2, SettledBinding DEF SettledFrame
<1>4. ASSUME c.dst_mac # Broadcast
      PROVE  /\ c.dst_ip \in Ips
             /\ bindings[<<i, c.dst_ip>>] \in {Unbound, c.dst_mac}
             /\ c.dst_ip = OwnIp[i] => c.dst_mac = OwnMac[i]
  <2>1. Settled(i, c.dst_ip, c.dst_mac) /\ <<i, c.dst_ip, c.dst_mac>> \in used
    BY <1>2, <1>4 DEF SettledFrame, Genuine
  <2>2. c.dst_ip \in Ips /\ c.dst_mac \in Macs
    BY <2>1 DEF HonestInv, WorldInv, Candidates
  <2> QED  BY <1>1, <1>2, <2>1, <2>2, SettledBinding
<1>5. Judged(incs, c, ts) = incs
  <2> HIDE DEF ts, incs
  <2>1. ~ClaimsGateway(c)
    BY <1>3 DEF ClaimsGateway
  <2>2. HostsRouterCachePoisoned(incs, c, ts) = incs
    BY <1>4 DEF HostsRouterCachePoisoned, Misdelivered
  <2>3. HostsHostCachePoisoned(incs, c, ts) = incs
    BY <1>2, <1>4 DEF HostsHostCachePoisoned, Misdelivered, KnownDst, Genuine
  <2>4. HostImpersonation(incs, c, ts) = incs
    BY <1>3 DEF HostImpersonation
  <2> QED  BY <2>1, <2>2, <2>3, <2>4 DEF Judged
<1>6. \A k \in Keys : incs[k].count = incidents[k].count
  BY <1>1, SweepKnown
<1> QED  BY <1>2, <1>5, <1>6 DEF RunChecks, NoEvidence

\* A resync heals: whatever the detector had learned or accused, a frame
\* between machines whose addresses have not moved since the lease file was
\* opened is evidence against nobody.
THEOREM SettledNeverAccusedAlways == HonestSpec => SettledNeverAccused
<1>1. IInv /\ HonestInv /\ [HonestNext]_honestVars =>
        [\A c \in Traffic, d \in Elapsed :
           SettledFrame(c) /\ Hear(c, d) => NoEvidence]_honestVars
  BY SettledFrameOK
<1> QED  BY <1>1, HonestInductive, PTL DEF HonestSpec, SettledNeverAccused
=============================================================================
