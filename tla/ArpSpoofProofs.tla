--------------------------- MODULE ArpSpoofProofs ---------------------------
(***************************************************************************)
(* Proofs about ArpSpoofDetector, for every network, any traffic, lease    *)
(* files and neighbour caches, any thresholds and any pace of time.        *)
(*                                                                         *)
(* Three invariants, kept apart because different code touches them: the   *)
(* incidents, which checks and sweeps change one piece of evidence at a    *)
(* time; the trust, which learning and leases change; and the resync,      *)
(* which only moves forward through what it reads.                         *)
(***************************************************************************)
EXTENDS ArpSpoofDetector, FiniteSetTheorems, SequenceTheorems, TLAPS

----------------------------------------------------------------------------
(* One incident.                                                           *)

Typed(a) ==
  /\ a \in ArpSpoofAttack
  /\ a.status = "decayed" <=> a.pre_decay # None

Graded(a) ==
  Known(a) => /\ Peak(a) = "suspected" <=> (a.grounds = "claim" /\ a.count < ConfirmThreshold)
              /\ Peak(a) = "confirmed" => a.count <= ConfirmThreshold

IncidentOK(a) == Typed(a) /\ Graded(a)

IncidentsOK(incs) ==
  /\ incs \in [Keys -> ArpSpoofAttack]
  /\ \A k \in Keys : IncidentOK(incs[k])

\* The record of one more piece of evidence against a.
Accused(a, kind, ts) ==
  Record([a EXCEPT !.grounds = IF kind = "fact" THEN kind ELSE @], ts, Floor(a, kind))

LEMMA Fields ==
  ASSUME NEW a \in ArpSpoofAttack
  PROVE  /\ a.count \in Nat /\ a.last_seen \in Nat /\ a.status \in Status
         /\ a.pre_decay \in Severity \cup {None} /\ a.grounds \in Grounds
  BY DEF ArpSpoofAttack

\* Nothing is held against a key without an entry, nor against one whose
\* entry _get_attack has just made.
LEMMA NewOK ==
  ASSUME NEW ts \in Nat
  PROVE  /\ IncidentOK(AbsentAttack) /\ Level(AbsentAttack) = 0
         /\ AbsentAttack.status = "absent"
         /\ IncidentOK(NewArpSpoofAttack(ts)) /\ Known(NewArpSpoofAttack(ts))
         /\ Level(NewArpSpoofAttack(ts)) = 1
<1> USE ArpSpoofAssumption
<1> DEFINE a == AbsentAttack
           n == NewArpSpoofAttack(ts)
<1>1. /\ a \in ArpSpoofAttack /\ n \in ArpSpoofAttack
      /\ a.status = "absent" /\ a.pre_decay = None
      /\ n.status = "suspected" /\ n.pre_decay = None
      /\ n.count = 0 /\ n.grounds = "claim"
  BY DEF AbsentAttack, NewArpSpoofAttack, ArpSpoofAttack, Status, Severity, None, Grounds
<1> HIDE DEF a, n
<1>2. ~Known(a) /\ Known(n) /\ Peak(n) = "suspected"
  BY <1>1 DEF Known, Peak
<1>3. Level(a) = 0 /\ Level(n) = 1
  BY <1>2 DEF Level, Rank
<1>4. Typed(a) /\ Typed(n)
  BY <1>1 DEF Typed
<1>5. Graded(a) /\ Graded(n)
  BY <1>1, <1>2 DEF Graded
<1> QED  BY <1>1, <1>2, <1>3, <1>4, <1>5 DEF IncidentOK, a, n

\* Decay only hides the rung.
LEMMA DecayOK ==
  ASSUME NEW a, IncidentOK(a), a.status \in Severity
  PROVE  /\ IncidentOK(Decay(a)) /\ Level(Decay(a)) = Level(a) /\ Level(a) > 0
         /\ Decay(a).status = "decayed"
<1> DEFINE b == [a EXCEPT !.pre_decay = a.status, !.status = "decayed"]
<1>1. Decay(a) = b
  BY DEF Decay, Severity
<1>2. a \in ArpSpoofAttack /\ Graded(a)
  BY DEF IncidentOK, Typed
<1>3. /\ b \in ArpSpoofAttack /\ b.status = "decayed" /\ b.pre_decay = a.status
      /\ b.count = a.count /\ b.grounds = a.grounds
  BY <1>2 DEF ArpSpoofAttack, Status
<1> HIDE DEF b
<1>4. Peak(b) = Peak(a) /\ Known(b) /\ Known(a) /\ Peak(a) \in Severity
  BY <1>3 DEF Peak, Known, Severity
<1>5. Level(b) = Level(a) /\ Level(a) > 0
  BY <1>4 DEF Level, Rank, Severity
<1>6. Typed(b)
  BY <1>3 DEF Typed, Severity, None
<1>7. Graded(b)
  BY <1>2, <1>3, <1>4 DEF Graded
<1> QED  BY <1>1, <1>3, <1>5, <1>6, <1>7 DEF IncidentOK

\* Evidence climbs one step of the ladder, to exactly the rung it supports.
LEMMA AccusedOK ==
  ASSUME NEW a, IncidentOK(a), Known(a), NEW kind \in Grounds, NEW ts \in Nat
  PROVE  LET b == Accused(a, kind, ts)
         IN  /\ IncidentOK(b) /\ b.status \in Severity
             /\ Level(b) \in Board!Raise(Level(a))
<1> USE ArpSpoofAssumption
<1> DEFINE g     == IF kind = "fact" THEN kind ELSE a.grounds
           n     == a.count + 1
           floor == Floor(a, kind)
           rung  == IF Peak(a) = "confirmed" THEN "ongoing" ELSE Peak(a)
           up    == IF floor # None /\ Rank(floor) > Rank(rung) THEN floor ELSE rung
           b     == [a EXCEPT !.grounds = g, !.count = n, !.last_seen = ts,
                              !.status = up, !.pre_decay = None]
<1>1. a \in ArpSpoofAttack /\ Graded(a)
  BY DEF IncidentOK, Typed
<1>2. a.count \in Nat /\ n \in Nat /\ g \in Grounds
  BY <1>1, Fields DEF Grounds
<1>3. Accused(a, kind, ts) = b
  <2> DEFINE c == [a EXCEPT !.grounds = g, !.count = n, !.last_seen = ts]
  <2>1. Accused(a, kind, ts) = Escalate(c, floor)
    BY <1>1 DEF Accused, Record, ArpSpoofAttack
  <2>2. Peak(c) = Peak(a)
    BY <1>1 DEF Peak, ArpSpoofAttack
  <2>3. Escalate(c, floor) = [c EXCEPT !.status = up, !.pre_decay = None]
    BY <2>2 DEF Escalate
  <2> HIDE DEF up, g, n, floor
  <2> QED  BY <1>1, <2>1, <2>3 DEF ArpSpoofAttack
<1>4. Peak(a) \in Severity
  BY <1>1 DEF Peak, Known, IncidentOK, Typed, ArpSpoofAttack, Status, Severity, None
<1>5. floor = IF kind = "fact" \/ n >= ConfirmThreshold THEN "confirmed" ELSE None
  BY DEF Floor
<1>6. up \in Severity
  BY <1>4, <1>5 DEF Severity, None
<1>7. /\ b \in ArpSpoofAttack /\ b.status = up /\ b.pre_decay = None
      /\ b.count = n /\ b.grounds = g
  <2> HIDE DEF up, g, n
  <2> QED  BY <1>1, <1>2, <1>6 DEF ArpSpoofAttack, Status
<1>8. Peak(b) = up /\ Known(b)
  BY <1>6, <1>7 DEF Peak, Known, Severity
<1>9. Typed(b)
  BY <1>6, <1>7 DEF Typed, Severity
<1>10. /\ up = "suspected" <=> (g = "claim" /\ n < ConfirmThreshold)
       /\ up = "confirmed" => n <= ConfirmThreshold
  <2>1. CASE Peak(a) = "suspected"
    <3>1. a.grounds = "claim" /\ a.count < ConfirmThreshold /\ rung = "suspected"
      BY <1>1, <2>1 DEF Graded
    <3>2. CASE floor = "confirmed"
      <4>1. up = "confirmed"
        BY <3>1, <3>2 DEF Rank, None
      <4> QED  BY <1>2, <1>5, <3>1, <3>2, <4>1 DEF None
    <3>3. CASE floor = None
      <4>1. up = "suspected" /\ kind # "fact" /\ ~(n >= ConfirmThreshold)
        BY <1>5, <3>1, <3>3 DEF None
      <4> QED  BY <1>2, <3>1, <4>1
    <3> QED  BY <1>5, <3>2, <3>3
  <2>2. CASE Peak(a) # "suspected"
    <3>1. up = "ongoing"
      BY <1>4, <1>5, <2>2 DEF Rank, None, Severity
    <3>2. ~(a.grounds = "claim" /\ a.count < ConfirmThreshold)
      BY <1>1, <2>2 DEF Graded
    <3>3. ~(g = "claim" /\ n < ConfirmThreshold)
      BY <1>2, <3>2
    <3> QED  BY <3>1, <3>3
  <2> QED  BY <2>1, <2>2
<1>11. Graded(b)
  BY <1>7, <1>8, <1>10 DEF Graded
<1>12. Level(b) \in Board!Raise(Level(a))
  <2>1. Level(a) = Rank(Peak(a)) /\ Level(b) = Rank(up)
    BY <1>8 DEF Level
  <2>2. CASE Peak(a) = "suspected"
    <3>1. Rank(Peak(a)) = 1 /\ Rank(up) \in {1, 2}
      BY <1>5, <2>2 DEF Rank, None
    <3> QED  BY <2>1, <3>1 DEF Board!Raise
  <2>3. CASE Peak(a) # "suspected"
    <3>1. rung = "ongoing" /\ up = "ongoing"
      BY <1>4, <1>5, <2>3 DEF Rank, None, Severity
    <3>2. Rank(Peak(a)) \in {2, 3} /\ Rank(up) = 3
      BY <1>4, <2>3, <3>1 DEF Rank, Severity
    <3> QED  BY <2>1, <3>2 DEF Board!Raise
  <2> QED  BY <2>2, <2>3
<1> QED  BY <1>3, <1>6, <1>7, <1>9, <1>11, <1>12 DEF IncidentOK

----------------------------------------------------------------------------
(* The checks of one packet.                                               *)

\* What a call may do to one incident: nothing, or evidence once or more.
Moved(a, b) ==
  \/ b = a
  \/ b.status \in Severity /\ Level(b) \in Board!Climb(Level(a))

LEMMA LevelType ==
  ASSUME NEW a, IncidentOK(a)
  PROVE  Level(a) \in 0..3
<1>1. CASE ~Known(a)
  BY <1>1 DEF Level
<1>2. CASE Known(a)
  <2>1. Peak(a) \in Severity
    BY <1>2 DEF IncidentOK, Typed, ArpSpoofAttack, Peak, Known, Status, Severity, None
  <2> QED  BY <1>2, <2>1 DEF Level, Rank, Severity
<1> QED  BY <1>1, <1>2

\* What a burst reaches, and that a burst of bursts reaches no more.
LEMMA Reaches ==
  ASSUME NEW s \in 0..3
  PROVE  /\ Board!Raise(s) = IF s \in {0, 1} THEN {1, 2} ELSE {3}
         /\ Board!Climb(s) = IF s \in {0, 1} THEN {1, 2, 3} ELSE {3}
<1>1. \A t \in 0..3 : Board!Raise(t) = IF t \in {0, 1} THEN {1, 2} ELSE {3}
  BY DEF Board!Raise
<1>2. Board!Climb(s) = Board!Raise(s) \cup UNION {Board!Raise(t) : t \in Board!Raise(s)}
  BY DEF Board!Climb
<1>3. CASE s \in {0, 1}
  <2>1. Board!Raise(s) = {1, 2} /\ Board!Raise(1) = {1, 2} /\ Board!Raise(2) = {3}
    BY <1>1, <1>3
  <2>2. UNION {Board!Raise(t) : t \in {1, 2}} = Board!Raise(1) \cup Board!Raise(2)
    OBVIOUS
  <2> QED  BY <1>2, <1>3, <2>1, <2>2
<1>4. CASE s \notin {0, 1}
  <2>1. Board!Raise(s) = {3} /\ Board!Raise(3) = {3}
    BY <1>1, <1>4
  <2>2. UNION {Board!Raise(t) : t \in {3}} = Board!Raise(3)
    OBVIOUS
  <2> QED  BY <1>2, <1>4, <2>1, <2>2
<1> QED  BY <1>1, <1>3, <1>4

LEMMA MovedTwice ==
  ASSUME NEW a, NEW b, NEW c, IncidentOK(a), IncidentOK(b), Moved(a, b), Moved(b, c)
  PROVE  Moved(a, c)
<1>1. Level(a) \in 0..3 /\ Level(b) \in 0..3
  BY LevelType
<1>2. CASE b = a \/ c = b
  BY <1>2 DEF Moved
<1>3. CASE Level(b) \in Board!Climb(Level(a)) /\ c.status \in Severity
           /\ Level(c) \in Board!Climb(Level(b))
  BY <1>1, <1>3, Reaches DEF Moved
<1> QED  BY <1>2, <1>3 DEF Moved

\* One piece of evidence.
LEMMA AccuseOK ==
  ASSUME NEW incs, IncidentsOK(incs), NEW k \in Keys, NEW kind \in Grounds, NEW ts \in Nat
  PROVE  /\ IncidentsOK(Accuse(incs, k, kind, ts))
         /\ \A j \in Keys : Moved(incs[j], Accuse(incs, k, kind, ts)[j])
<1> DEFINE a == GetAttack(incs, k, ts)
           b == Accused(a, kind, ts)
           r == Accuse(incs, k, kind, ts)
<1>1. incs \in [Keys -> ArpSpoofAttack] /\ \A j \in Keys : IncidentOK(incs[j])
  BY DEF IncidentsOK
<1>2. /\ IncidentOK(a) /\ Known(a)
      /\ \/ Level(a) = Level(incs[k])
         \/ Level(a) = 1 /\ Level(incs[k]) = 0
  <2>1. CASE Known(incs[k])
    BY <1>1, <2>1 DEF GetAttack
  <2>2. CASE ~Known(incs[k])
    BY <2>2, NewOK DEF GetAttack, Level
  <2> QED  BY <2>1, <2>2
<1>3. r = [incs EXCEPT ![k] = b]
  BY DEF Accuse, Accused
<1> HIDE DEF a
<1>4. IncidentOK(b) /\ b.status \in Severity /\ Level(b) \in Board!Raise(Level(a))
  BY <1>2, AccusedOK
<1> HIDE DEF b, r
<1>5. b \in ArpSpoofAttack
  BY <1>4 DEF IncidentOK, Typed
<1>6. r \in [Keys -> ArpSpoofAttack] /\ r[k] = b /\ \A j \in Keys \ {k} : r[j] = incs[j]
  BY <1>1, <1>3, <1>5
<1>7. Level(b) \in Board!Climb(Level(incs[k]))
  <2>1. Level(incs[k]) \in 0..3 /\ Level(a) \in 0..3
    BY <1>1, <1>2, LevelType
  <2> QED  BY <1>2, <1>4, <2>1, Reaches
<1>8. \A j \in Keys : IncidentOK(r[j]) /\ Moved(incs[j], r[j])
  BY <1>1, <1>4, <1>6, <1>7 DEF Moved
<1> QED  BY <1>6, <1>8 DEF IncidentsOK, r

\* The keys the checks accuse are keys of the dict.
LEMMA AccusedKeys ==
  ASSUME NEW c \in Claim, bindings \in [Bindings -> Macs \cup {Unbound}]
  PROVE  LET i     == c.interface
             known == bindings[<<i, c.src_ip>>]
         IN  /\ <<i, c.src_ip>> \in Bindings
             /\ <<i, c.src_ip, c.src_mac>> \in Candidates
             /\ OwnMac[i] \in Macs
             /\ <<i, c.src_mac, ClaimVictim(c)>> \in Keys
             /\ \A m : Misdelivered(c, m) => <<i, c.dst_mac, c.src_mac>> \in Keys
             /\ \A m : Misdelivered(c, m) /\ KnownDst(c) # Unbound =>
                         <<i, c.dst_mac, KnownDst(c)>> \in Keys
             /\ <<i, c.src_mac, OwnMac[i]>> \in Keys
             /\ known # Unbound => <<i, c.src_mac, known>> \in Keys
<1> USE ArpSpoofAssumption
<1>1. /\ c.interface \in Lan /\ c.src_ip \in Ips /\ c.src_mac \in Macs
      /\ c.dst_ip \in Ips \cup {None} /\ c.dst_mac \in Macs \cup {Broadcast, None}
  BY DEF Claim
<1>2. OwnMac[c.interface] \in Macs
  BY <1>1
<1>3. <<c.interface, c.src_ip>> \in Bindings /\ <<c.interface, c.src_ip, c.src_mac>> \in Candidates
  BY <1>1 DEF Bindings, Candidates
<1>4. ClaimVictim(c) \in Victims
  BY <1>1 DEF ClaimVictim, Victims
<1>5. \A m : Misdelivered(c, m) => c.dst_mac \in Macs
  BY <1>1 DEF Misdelivered
<1>6. KnownDst(c) # Unbound => KnownDst(c) \in Macs
  <2>1. CASE c.dst_ip = None
    BY <2>1 DEF KnownDst
  <2>2. CASE c.dst_ip # None
    <3>1. <<c.interface, c.dst_ip>> \in Bindings
      BY <1>1, <2>2 DEF Bindings
    <3> QED  BY <2>2, <3>1 DEF KnownDst
  <2> QED  BY <2>1, <2>2
<1>7. bindings[<<c.interface, c.src_ip>>] \in Macs \cup {Unbound}
  BY <1>3
<1> QED  BY <1>1, <1>2, <1>3, <1>4, <1>5, <1>6, <1>7 DEF Keys, Victims

\* All the checks of a packet.
LEMMA JudgedOK ==
  ASSUME NEW incs, IncidentsOK(incs), NEW c \in Claim, NEW ts \in Nat,
         bindings \in [Bindings -> Macs \cup {Unbound}]
  PROVE  /\ IncidentsOK(Judged(incs, c, ts))
         /\ \A k \in Keys : Moved(incs[k], Judged(incs, c, ts)[k])
<1> DEFINE r1 == HostsRouterCachePoisoned(incs, c, ts)
           r2 == HostsHostCachePoisoned(r1, c, ts)
           r3 == HostImpersonation(r2, c, ts)
<1>0. "claim" \in Grounds /\ "fact" \in Grounds
  BY DEF Grounds
<1>1. CASE ClaimsGateway(c)
  <2>1. <<c.interface, c.src_mac, ClaimVictim(c)>> \in Keys
    BY AccusedKeys
  <2> DEFINE kind == IF c.proto = "arp" THEN "claim" ELSE "fact"
  <2>2. kind \in Grounds
    BY <1>0
  <2>3. Judged(incs, c, ts) = Accuse(incs, <<c.interface, c.src_mac, ClaimVictim(c)>>, kind, ts)
    BY <1>1 DEF Judged, GatewayImpersonation
  <2> HIDE DEF kind
  <2> QED  BY <2>1, <2>2, <2>3, AccuseOK
<1>2. CASE ~ClaimsGateway(c)
  <2>1. IncidentsOK(r1) /\ \A k \in Keys : Moved(incs[k], r1[k])
    <3>1. CASE r1 = incs
      BY <3>1 DEF Moved
    <3>2. CASE Misdelivered(c, OwnMac[c.interface])
               /\ r1 = Accuse(incs, <<c.interface, c.dst_mac, c.src_mac>>, "fact", ts)
      BY <1>0, <3>2, AccusedKeys, AccuseOK
    <3> QED  BY <3>1, <3>2 DEF HostsRouterCachePoisoned
  <2> HIDE DEF r1
  <2>2. IncidentsOK(r2) /\ \A k \in Keys : Moved(r1[k], r2[k])
    <3> DEFINE victim == IF c.src_mac = OwnMac[c.interface] THEN KnownDst(c) ELSE c.src_mac
    <3>1. CASE r2 = r1
      BY <2>1, <3>1 DEF Moved
    <3>2. CASE KnownDst(c) # Unbound /\ Misdelivered(c, KnownDst(c))
               /\ r2 = Accuse(r1, <<c.interface, c.dst_mac, victim>>, "fact", ts)
      <4>1. <<c.interface, c.dst_mac, victim>> \in Keys
        BY <3>2, AccusedKeys
      <4> HIDE DEF victim
      <4> QED  BY <1>0, <2>1, <3>2, <4>1, AccuseOK
    <3> QED  BY <3>1, <3>2 DEF HostsHostCachePoisoned
  <2> HIDE DEF r2
  <2>3. IncidentsOK(r3) /\ \A k \in Keys : Moved(r2[k], r3[k])
    <3> DEFINE known  == bindings[<<c.interface, c.src_ip>>]
               victim == IF c.dst_mac = OwnMac[c.interface] THEN OwnMac[c.interface] ELSE known
    <3>1. CASE r3 = r2
      BY <2>2, <3>1 DEF Moved
    <3>2. CASE known # Unbound
               /\ r3 = Accuse(r2, <<c.interface, c.src_mac, victim>>, "claim", ts)
      <4>1. <<c.interface, c.src_mac, victim>> \in Keys
        BY <3>2, AccusedKeys
      <4> HIDE DEF victim
      <4> QED  BY <1>0, <2>2, <3>2, <4>1, AccuseOK
    <3> QED  BY <3>1, <3>2 DEF HostImpersonation
  <2> HIDE DEF r3
  <2>4. ASSUME NEW k \in Keys PROVE Moved(incs[k], r3[k])
    <3>1. Moved(incs[k], r2[k])
      BY <2>1, <2>2, MovedTwice DEF IncidentsOK
    <3> QED  BY <2>2, <2>3, <3>1, MovedTwice DEF IncidentsOK
  <2>5. Judged(incs, c, ts) = r3
    BY <1>2 DEF Judged, r1, r2, r3
  <2> QED  BY <2>3, <2>4, <2>5
<1> QED  BY <1>1, <1>2

----------------------------------------------------------------------------
(* Trust.                                                                  *)

Candidate == [count : Nat, last_seen : Nat]

TrustInv ==
  /\ bindings \in [Bindings -> Macs \cup {Unbound}]
  /\ pending \in [Candidates -> Candidate]
  /\ PendingBelowThreshold
  /\ OwnBindingGenuine

\* The claim that reaches the threshold has no rival there.
LEMMA SoleWinner ==
  ASSUME TrustInv, NEW c \in Claim, NEW ts \in Nat,
         TrackedCount(<<c.interface, c.src_ip, c.src_mac>>, ts) >= LearnThreshold
  PROVE  Resolved(c, ts) = {c.src_mac}
<1> USE ArpSpoofAssumption
<1> DEFINE i == c.interface
           k == <<i, c.src_ip, c.src_mac>>
           n == TrackedCount(k, ts)
           pend == Tracked(c, ts)
<1>1. k \in Candidates /\ i \in Lan /\ c.src_ip \in Ips /\ c.src_mac \in Macs
  BY AccusedKeys DEF Claim, Candidates
<1>2. pending[k].count \in Nat
  BY <1>1 DEF TrustInv, Candidate
<1>3. n \in Nat /\ n >= LearnThreshold /\ n > 0
  BY <1>2 DEF TrackedCount
<1>4. pend = [pending EXCEPT ![k] = [count |-> n, last_seen |-> ts]]
  BY DEF Tracked
<1>5. \A m \in Macs : <<i, c.src_ip, m>> \in Candidates
  BY <1>1 DEF Candidates
<1> HIDE DEF n, pend
<1>6. pend[k].count = n
  BY <1>1, <1>4 DEF TrustInv
<1>7. \A m \in Macs \ {c.src_mac} :
        pend[<<i, c.src_ip, m>>].count \in Nat /\ pend[<<i, c.src_ip, m>>].count < LearnThreshold
  <2> TAKE m \in Macs \ {c.src_mac}
  <2>1. pend[<<i, c.src_ip, m>>] = pending[<<i, c.src_ip, m>>]
    BY <1>4, <1>5 DEF TrustInv
  <2>2. pending[<<i, c.src_ip, m>>].count \in Nat
    BY <1>5 DEF TrustInv, Candidate
  <2> QED  BY <1>5, <2>1, <2>2 DEF TrustInv, PendingBelowThreshold
<1>8. Winners(pend, i, c.src_ip) = {c.src_mac}
  <2>1. \A m \in Macs : pend[<<i, c.src_ip, m>>].count <= pend[k].count
    <3> TAKE m \in Macs
    <3>1. CASE m = c.src_mac
      BY <1>3, <1>6, <3>1
    <3>2. CASE m # c.src_mac
      BY <1>3, <1>6, <1>7, <3>2
    <3> QED  BY <3>1, <3>2
  <2>2. \A m \in Macs \ {c.src_mac} : ~(pend[k].count <= pend[<<i, c.src_ip, m>>].count)
    BY <1>3, <1>6, <1>7
  <2>3. pend[k].count > 0
    BY <1>3, <1>6
  <2> QED  BY <1>1, <2>1, <2>2, <2>3 DEF Winners
<1> QED  BY <1>3, <1>8 DEF Resolved, n, pend

\* Passive learning counts a claim, or ends the contest for its claimant.
LEMMA Learned ==
  ASSUME TrustInv, NEW c \in Claim, NEW ts \in Nat, NewBinding(c, ts)
  PROVE  LET i == c.interface
             b == <<i, c.src_ip>>
             k == <<i, c.src_ip, c.src_mac>>
             n == TrackedCount(k, ts)
         IN  \/ UNCHANGED trust
             \/ /\ bindings[b] = Unbound /\ n < LearnThreshold
                /\ bindings' = bindings
                /\ pending' = [pending EXCEPT ![k] = [count |-> n, last_seen |-> ts]]
             \/ /\ bindings[b] = Unbound /\ n >= LearnThreshold
                /\ bindings' = [bindings EXCEPT ![b] = c.src_mac]
                /\ pending' = [j \in Candidates |->
                                 IF j[1] = i /\ j[2] = c.src_ip THEN NotPending ELSE pending[j]]
<1> USE ArpSpoofAssumption
<1> DEFINE k == <<c.interface, c.src_ip, c.src_mac>>
           n == TrackedCount(k, ts)
<1>1. n \in Nat
  <2>1. k \in Candidates
    BY AccusedKeys DEF TrustInv
  <2>2. pending[k].count \in Nat
    BY <2>1 DEF TrustInv, Candidate
  <2> QED  BY <2>2 DEF TrackedCount
<1>2. CASE Trusted(c)
  BY <1>2 DEF NewBinding
<1>3. CASE ~Trusted(c) /\ n < LearnThreshold
  <2>1. Resolved(c, ts) = {}
    BY <1>1, <1>3 DEF Resolved
  <2>2. pending' = Tracked(c, ts) /\ bindings' = bindings
    BY <1>3, <2>1 DEF NewBinding
  <2> QED  BY <1>3, <2>2 DEF Trusted, Tracked
<1>4. CASE ~Trusted(c) /\ n >= LearnThreshold
  <2>1. Resolved(c, ts) = {c.src_mac}
    BY <1>4, SoleWinner
  <2>2. Cardinality(Resolved(c, ts)) = 1
    BY <2>1, FS_Singleton
  <2> QED  BY <1>4, <2>1, <2>2 DEF NewBinding, Trusted
<1> QED  BY <1>1, <1>2, <1>3, <1>4

\* Learning keeps the trust, for any claim that is not to be the router.
LEMMA LearningOK ==
  ASSUME TrustInv, NEW c \in Claim, NEW ts \in Nat, NewBinding(c, ts), ~ClaimsGateway(c)
  PROVE  /\ TrustInv'
         /\ \A b \in Bindings : bindings[b] # Unbound => bindings'[b] = bindings[b]
<1> USE ArpSpoofAssumption
<1> DEFINE i == c.interface
           b == <<i, c.src_ip>>
           k == <<i, c.src_ip, c.src_mac>>
           n == TrackedCount(k, ts)
<1>1. /\ k \in Candidates /\ b \in Bindings /\ i \in Lan
      /\ c.src_mac \in Macs /\ c.src_ip \in Ips
  BY AccusedKeys DEF TrustInv, Claim
<1>2. n \in Nat
  BY <1>1 DEF TrustInv, Candidate, TrackedCount
<1>3. c.src_ip = OwnIp[i] => c.src_mac = OwnMac[i]
  BY DEF ClaimsGateway
<1>4. /\ bindings \in [Bindings -> Macs \cup {Unbound}]
      /\ pending \in [Candidates -> Candidate]
      /\ PendingBelowThreshold /\ OwnBindingGenuine
  BY DEF TrustInv
<1> HIDE DEF n
<1>5. CASE UNCHANGED trust
  BY <1>4, <1>5 DEF trust, TrustInv, PendingBelowThreshold, OwnBindingGenuine
<1>6. CASE /\ n < LearnThreshold /\ bindings' = bindings
           /\ pending' = [pending EXCEPT ![k] = [count |-> n, last_seen |-> ts]]
  <2>1. [count |-> n, last_seen |-> ts] \in Candidate
    BY <1>2 DEF Candidate
  <2>2. pending' \in [Candidates -> Candidate]
    BY <1>4, <1>6, <2>1
  <2>3. \A j \in Candidates : pending'[j].count = IF j = k THEN n ELSE pending[j].count
    BY <1>4, <1>6
  <2>4. PendingBelowThreshold'
    BY <1>4, <1>6, <2>3 DEF PendingBelowThreshold
  <2>5. OwnBindingGenuine'
    <3>1. ASSUME NEW l \in Lan, NEW m \in Macs \ {OwnMac[l]}
          PROVE  pending'[<<l, OwnIp[l], m>>].count = 0
      <4>1. <<l, OwnIp[l], m>> \in Candidates /\ <<l, OwnIp[l], m>> # k
        BY <1>3 DEF Candidates
      <4> QED  BY <1>4, <2>3, <4>1 DEF OwnBindingGenuine
    <3> QED  BY <1>4, <1>6, <3>1 DEF OwnBindingGenuine
  <2> QED  BY <1>4, <1>6, <2>2, <2>4, <2>5 DEF TrustInv
<1>7. CASE /\ bindings[b] = Unbound
           /\ bindings' = [bindings EXCEPT ![b] = c.src_mac]
           /\ pending' = [j \in Candidates |->
                            IF j[1] = i /\ j[2] = c.src_ip THEN NotPending ELSE pending[j]]
  <2>1. bindings' \in [Bindings -> Macs \cup {Unbound}]
    BY <1>1, <1>4, <1>7
  <2>2. NotPending \in Candidate /\ NotPending.count = 0
    BY DEF NotPending, Candidate
  <2>3. pending' \in [Candidates -> Candidate]
    BY <1>4, <1>7, <2>2
  <2>4. \A j \in Candidates : pending'[j].count = pending[j].count \/ pending'[j].count = 0
    BY <1>7, <2>2
  <2>5. PendingBelowThreshold'
    BY <1>4, <2>4 DEF PendingBelowThreshold
  <2>6. \A d \in Bindings : bindings'[d] = IF d = b THEN c.src_mac ELSE bindings[d]
    BY <1>4, <1>7
  <2>7. OwnBindingGenuine'
    <3>1. ASSUME NEW l \in Lan
          PROVE  bindings'[<<l, OwnIp[l]>>] \in {Unbound, OwnMac[l]}
      <4>1. <<l, OwnIp[l]>> \in Bindings
        BY DEF Bindings
      <4>2. <<l, OwnIp[l]>> = b => c.src_mac = OwnMac[l]
        BY <1>3
      <4> QED  BY <1>4, <2>6, <4>1, <4>2 DEF OwnBindingGenuine
    <3>2. ASSUME NEW l \in Lan, NEW m \in Macs \ {OwnMac[l]}
          PROVE  pending'[<<l, OwnIp[l], m>>].count = 0
      <4>1. <<l, OwnIp[l], m>> \in Candidates
        BY DEF Candidates
      <4> QED  BY <1>4, <2>4, <4>1 DEF OwnBindingGenuine
    <3> QED  BY <3>1, <3>2 DEF OwnBindingGenuine
  <2>8. \A d \in Bindings : bindings[d] # Unbound => bindings'[d] = bindings[d]
    BY <1>7, <2>6
  <2> QED  BY <2>1, <2>3, <2>5, <2>7, <2>8 DEF TrustInv
<1> QED  BY <1>4, <1>5, <1>6, <1>7, Learned DEF n, trust

\* What a binding is learned from.
LEMMA LearnedFresh ==
  ASSUME TrustInv, NEW c \in Claim, NEW ts \in Nat, NewBinding(c, ts),
         NEW b \in Bindings, bindings'[b] # bindings[b]
  PROVE  LET before == pending[<<b[1], b[2], bindings'[b]>>]
         IN  /\ before.count = LearnThreshold - 1
             /\ before.count > 0 => ts - before.last_seen <= IdleExpiry
<1> USE ArpSpoofAssumption
<1> DEFINE k == <<c.interface, c.src_ip, c.src_mac>>
           n == TrackedCount(k, ts)
<1>1. bindings \in [Bindings -> Macs \cup {Unbound}]
  BY DEF TrustInv
<1>2. /\ n >= LearnThreshold
      /\ bindings' = [bindings EXCEPT ![<<c.interface, c.src_ip>>] = c.src_mac]
  BY Learned DEF trust
<1>3. b = <<c.interface, c.src_ip>> /\ bindings'[b] = c.src_mac
  BY <1>1, <1>2
<1>4. <<b[1], b[2], bindings'[b]>> = k
  BY <1>3
<1>5. k \in Candidates
  BY <1>1, AccusedKeys
<1>6. pending[k].count \in Nat /\ pending[k].last_seen \in Nat /\ pending[k].count < LearnThreshold
  BY <1>5 DEF TrustInv, Candidate, PendingBelowThreshold
<1>7. /\ pending[k].count = LearnThreshold - 1
      /\ pending[k].count > 0 => ts - pending[k].last_seen <= IdleExpiry
  BY <1>2, <1>6, IdleExpiryAssumption DEF TrackedCount
<1> QED  BY <1>4, <1>7

----------------------------------------------------------------------------
(* Steps.                                                                  *)

\* What a step does to one incident: nothing, decay, or evidence.
Stepped(a, b) ==
  \/ b = a
  \/ b = Decay(a) /\ a.status \in Severity
  \/ b.status \in Severity /\ Level(b) \in Board!Climb(Level(a))

\* What a step that applies no lease does to the bindings.
Kept == \A b \in Bindings : bindings[b] # Unbound => bindings'[b] = bindings[b]

Fresh ==
  \A b \in Bindings :
    LET before == pending[<<b[1], b[2], bindings'[b]>>] IN
    bindings'[b] # bindings[b] =>
      /\ before.count = LearnThreshold - 1
      /\ before.count > 0 => now' - before.last_seen <= IdleExpiry

\* The rest of the type invariant: where the resync is.
ResyncInv ==
  /\ last_resync \in Nat /\ last_cleanup \in Nat /\ now \in Nat
  /\ phase \in Phases
  /\ stamp \in Nat
  /\ todo \in Seq(IF phase = "neigh" THEN [interface : Lan, ip : Ips, mac : Macs]
                                     ELSE Lease)
  /\ unread \in Seq(Lan)

\* A lease in force is one that some LAN interface has accepted.
LeasedInv ==
  /\ leased \subseteq [ip : Ips, mac : Macs]
  /\ \A l \in leased : LeaseInterface(l) \in Lan
  /\ LeasesInForce

IInv == IncidentsOK(incidents) /\ TrustInv /\ ResyncInv /\ LeasedInv

LEMMA SweepOK ==
  ASSUME NEW incs, IncidentsOK(incs), NEW ts \in Nat
  PROVE  /\ IncidentsOK(ExpireIdle(incs, ts))
         /\ \A k \in Keys :
              LET s == ExpireIdle(incs, ts)[k]
              IN  /\ Level(s) = Level(incs[k])
                  /\ \/ s = incs[k]
                     \/ s = Decay(incs[k]) /\ incs[k].status \in Severity
<1> DEFINE r == ExpireIdle(incs, ts)
<1>1. incs \in [Keys -> ArpSpoofAttack] /\ \A k \in Keys : IncidentOK(incs[k])
  BY DEF IncidentsOK
<1>2. r = [k \in Keys |-> IF incs[k].status \in Severity /\ IsExpired(incs[k], ts)
                            THEN Decay(incs[k]) ELSE incs[k]]
  BY <1>1 DEF ExpireIdle
<1> HIDE DEF r
<1>3. ASSUME NEW k \in Keys
      PROVE  /\ IncidentOK(r[k]) /\ Level(r[k]) = Level(incs[k])
             /\ \/ r[k] = incs[k]
                \/ r[k] = Decay(incs[k]) /\ incs[k].status \in Severity
  <2>1. CASE incs[k].status \in Severity /\ IsExpired(incs[k], ts)
    <3>1. r[k] = Decay(incs[k])
      BY <1>2, <2>1
    <3> QED  BY <1>1, <2>1, <3>1, DecayOK
  <2>2. CASE ~(incs[k].status \in Severity /\ IsExpired(incs[k], ts))
    <3>1. r[k] = incs[k]
      BY <1>2, <2>2
    <3> QED  BY <1>1, <3>1
  <2> QED  BY <2>1, <2>2
<1>4. r \in [Keys -> ArpSpoofAttack]
  <2>1. \A k \in Keys : r[k] \in ArpSpoofAttack
    BY <1>3 DEF IncidentOK, Typed
  <2> QED  BY <1>2, <2>1
<1> QED  BY <1>3, <1>4 DEF IncidentsOK, r

\* _run_checks over incidents that the sweep has been through.
LEMMA ChecksOK ==
  ASSUME TrustInv, NEW incs, IncidentsOK(incs), NEW c \in Claim, NEW ts \in Nat,
         RunChecks(incs, c, ts), now' = ts
  PROVE  /\ IncidentsOK(incidents')
         /\ \A k \in Keys : Moved(incs[k], incidents'[k])
         /\ TrustInv' /\ Kept /\ Fresh
<1>1. IncidentsOK(incidents') /\ \A k \in Keys : Moved(incs[k], incidents'[k])
  BY JudgedOK DEF RunChecks, TrustInv
<1>2. CASE ClaimsGateway(c)
  <2>1. bindings' = bindings /\ pending' = pending
    BY <1>2 DEF RunChecks, trust
  <2>2. TrustInv'
    BY <2>1 DEF TrustInv, PendingBelowThreshold, OwnBindingGenuine
  <2> QED  BY <1>1, <2>1, <2>2 DEF Kept, Fresh
<1>3. CASE ~ClaimsGateway(c)
  <2>1. NewBinding(c, ts)
    BY <1>3 DEF RunChecks
  <2>2. TrustInv' /\ Kept
    BY <1>3, <2>1, LearningOK DEF Kept
  <2>3. Fresh
    BY <2>1, LearnedFresh DEF Fresh
  <2> QED  BY <1>1, <2>2, <2>3
<1> QED  BY <1>2, <1>3

\* Leases keep their binding where bindings are kept.
LEMMA LeasedKept ==
  ASSUME LeasedInv, Kept, leased' = leased
  PROVE  LeasedInv'
<1> USE ArpSpoofAssumption
<1>1. ASSUME NEW l \in leased PROVE bindings'[<<LeaseInterface(l), l.ip>>] = l.mac
  <2>1. <<LeaseInterface(l), l.ip>> \in Bindings /\ l.mac \in Macs
    BY DEF LeasedInv, Bindings
  <2>2. bindings[<<LeaseInterface(l), l.ip>>] = l.mac
    BY DEF LeasedInv, LeasesInForce
  <2> QED  BY <2>1, <2>2 DEF Kept
<1> QED  BY <1>1 DEF LeasedInv, LeasesInForce

\* One authoritative lease: the router's own IP is out of its reach, and the
\* leases it takes a binding from are those it overrides.
LEMMA LeaseOK ==
  ASSUME IInv, ApplyLease
  PROVE  TrustInv' /\ LeasedInv'
<1> USE ArpSpoofAssumption
<1> DEFINE l == Head(todo)
           i == LeaseInterface(l)
           b == <<i, l.ip>>
<1>1. l \in Lease
  <2>1. todo \in Seq(Lease) /\ todo # <<>>
    BY DEF IInv, ResyncInv, ApplyLease
  <2> QED  BY <2>1, HeadTailProperties
<1>2. /\ bindings \in [Bindings -> Macs \cup {Unbound}]
      /\ pending \in [Candidates -> Candidate]
      /\ PendingBelowThreshold /\ OwnBindingGenuine /\ LeasedInv
  BY DEF IInv, TrustInv
<1>3. pending' = pending
  BY DEF ApplyLease
<1> HIDE DEF l
<1>4. CASE i = None \/ OwnLease(i, l.ip)
  <2>1. bindings' = bindings /\ leased' = leased
    BY <1>4 DEF ApplyLease, l
  <2> QED  BY <1>2, <1>3, <2>1
           DEF TrustInv, PendingBelowThreshold, OwnBindingGenuine, LeasedInv, LeasesInForce
<1>5. CASE ~(i = None \/ OwnLease(i, l.ip))
  <2>1. l.ip \in Ips /\ i \in Lan /\ l.mac \in Macs /\ l.ip # OwnIp[i] /\ b \in Bindings
    <3>1. l.ip \in Ips /\ l.mac \in Macs
      BY <1>1, <1>5 DEF Lease, LeaseInterface
    <3>2. i \in Lan
      BY <1>5, <3>1 DEF LeaseInterface
    <3> QED  BY <1>5, <3>1, <3>2 DEF OwnLease, Bindings
  <2>2. /\ bindings' = Authorised(i, l.ip, l.mac)
        /\ leased' = {o \in leased : /\ o.ip # l.ip
                                     /\ LeaseInterface(o) = i => o.mac # l.mac} \cup {l}
    BY <1>5 DEF ApplyLease, l
  <2> HIDE DEF i
  <2>3. \A d \in Bindings :
          /\ d = b => bindings'[d] = l.mac
          /\ d # b => bindings'[d] \in {bindings[d], Unbound}
          /\ d # b /\ ~(d[1] = i /\ bindings[d] = l.mac) => bindings'[d] = bindings[d]
    <3>1. CASE bindings[b] = l.mac
      BY <2>2, <3>1 DEF Authorised
    <3>2. CASE bindings[b] # l.mac
      <4>1. bindings' = [d \in Bindings |-> IF d = b THEN l.mac
                           ELSE IF d[1] = i /\ bindings[d] = l.mac THEN Unbound
                           ELSE bindings[d]]
        BY <2>2, <3>2 DEF Authorised
      <4> QED  BY <4>1
    <3> QED  BY <3>1, <3>2
  <2>4. bindings' \in [Bindings -> Macs \cup {Unbound}]
    <3>1. DOMAIN bindings' = Bindings /\ bindings' = [d \in Bindings |-> bindings'[d]]
      BY <1>2, <2>2 DEF Authorised
    <3>2. \A d \in Bindings : bindings'[d] \in Macs \cup {Unbound}
      BY <1>2, <2>1, <2>3
    <3> QED  BY <3>1, <3>2
  <2>5. OwnBindingGenuine'
    <3>1. ASSUME NEW j \in Lan PROVE bindings'[<<j, OwnIp[j]>>] \in {Unbound, OwnMac[j]}
      <4>1. <<j, OwnIp[j]>> \in Bindings /\ <<j, OwnIp[j]>> # b
        BY <2>1 DEF Bindings
      <4> QED  BY <1>2, <2>3, <4>1 DEF OwnBindingGenuine
    <3> QED  BY <1>2, <1>3, <3>1 DEF OwnBindingGenuine
  <2>6. TrustInv'
    BY <1>2, <1>3, <2>4, <2>5 DEF TrustInv, PendingBelowThreshold
  <2>7. l \in [ip : Ips, mac : Macs] /\ LeaseInterface(l) = i
    BY <1>1, <2>1 DEF Lease, i
  <2>8. ASSUME NEW o \in leased'
        PROVE  /\ o \in [ip : Ips, mac : Macs] /\ LeaseInterface(o) \in Lan
               /\ bindings'[<<LeaseInterface(o), o.ip>>] = o.mac
    <3>1. CASE o = l
      BY <2>1, <2>3, <2>7, <3>1
    <3>2. CASE o # l
      <4>1. /\ o \in leased /\ o.ip # l.ip
            /\ LeaseInterface(o) = i => o.mac # l.mac
        BY <2>2, <3>2
      <4>2. /\ o \in [ip : Ips, mac : Macs] /\ LeaseInterface(o) \in Lan
            /\ bindings[<<LeaseInterface(o), o.ip>>] = o.mac
        BY <1>2, <4>1 DEF LeasedInv, LeasesInForce
      <4>3. <<LeaseInterface(o), o.ip>> \in Bindings /\ <<LeaseInterface(o), o.ip>> # b
        BY <4>1, <4>2 DEF Bindings
      <4> QED  BY <2>3, <4>1, <4>2, <4>3
    <3> QED  BY <3>1, <3>2
  <2>9. LeasedInv'
    BY <2>8 DEF LeasedInv, LeasesInForce
  <2> QED  BY <2>6, <2>9
<1> QED  BY <1>4, <1>5

\* A packet: the sweep, then the checks.
LEMMA ReceiveOK ==
  ASSUME IInv, NEW c \in Traffic, NEW d \in Elapsed, Receive(c, d)
  PROVE  /\ IInv'
         /\ \A k \in Keys : Stepped(incidents[k], incidents'[k])
         /\ Kept /\ Fresh
<1> USE ArpSpoofAssumption
<1> DEFINE ts == now + d
           s  == IF CleanupDue(ts) THEN ExpireIdle(incidents, ts) ELSE incidents
<1>1. ts \in Nat /\ c \in Claim /\ now' = ts
  BY DEF IInv, ResyncInv, Receive
<1>2. RunChecks(s, c, ts)
  BY DEF Receive
<1> HIDE DEF ts
<1>3. /\ IncidentsOK(s)
      /\ \A k \in Keys : /\ Level(s[k]) = Level(incidents[k])
                         /\ \/ s[k] = incidents[k]
                            \/ s[k] = Decay(incidents[k]) /\ incidents[k].status \in Severity
  BY <1>1, SweepOK DEF IInv
<1> HIDE DEF s
<1>4. /\ IncidentsOK(incidents') /\ TrustInv' /\ Kept /\ Fresh
      /\ \A k \in Keys : Moved(s[k], incidents'[k])
  BY <1>1, <1>2, <1>3, ChecksOK DEF IInv
<1>5. \A k \in Keys : Stepped(incidents[k], incidents'[k])
  BY <1>3, <1>4 DEF Moved, Stepped
<1>6. LeasedInv'
  BY <1>4, LeasedKept DEF IInv, Receive
<1>7. ResyncInv'
  <2>1. /\ last_resync' = last_resync /\ todo' = todo /\ unread' = unread
        /\ last_cleanup' \in Nat /\ phase = "listening"
        /\ phase' \in {"listening", "opening"} /\ stamp' \in Nat
    BY <1>1 DEF Receive, IInv, ResyncInv, ts
  <2> QED  BY <1>1, <2>1 DEF IInv, ResyncInv, Phases
<1> QED  BY <1>4, <1>5, <1>6, <1>7 DEF IInv

\* An entry of a neighbour cache: the checks, without a sweep.
LEMMA CheckNeighOK ==
  ASSUME IInv, CheckNeigh
  PROVE  /\ IInv'
         /\ \A k \in Keys : Stepped(incidents[k], incidents'[k])
         /\ Kept /\ Fresh
<1> USE ArpSpoofAssumption
<1> DEFINE e == Head(todo)
           Entry == [interface : Lan, ip : Ips, mac : Macs]
<1>1. /\ todo \in Seq(Entry) /\ todo # <<>> /\ now \in Nat /\ now' = now
      /\ phase = "neigh" /\ phase' = phase
  BY DEF IInv, ResyncInv, CheckNeigh
<1>2. e \in Entry /\ Tail(todo) \in Seq(Entry)
  <2> HIDE DEF Entry
  <2> QED  BY <1>1, HeadTailProperties
<1>3. NeighClaim(e) \in Claim
  <2> HIDE DEF e
  <2> QED  BY <1>2 DEF NeighClaim, Claim
<1>4. ResyncInv'
  <2>1. /\ last_resync' = last_resync /\ last_cleanup' = last_cleanup
        /\ stamp' = stamp /\ unread' = unread /\ todo' = Tail(todo)
    BY DEF CheckNeigh
  <2> QED  BY <1>1, <1>2, <2>1 DEF IInv, ResyncInv
<1>5. CASE e.ip = OwnIp[e.interface]
  <2>1. bindings' = bindings /\ pending' = pending /\ incidents' = incidents
    BY <1>5 DEF CheckNeigh
  <2>2. Kept /\ Fresh
    BY <2>1 DEF Kept, Fresh
  <2>3. TrustInv' /\ IncidentsOK(incidents')
    BY <2>1 DEF IInv, TrustInv, PendingBelowThreshold, OwnBindingGenuine
  <2>4. LeasedInv'
    BY <2>2, LeasedKept DEF IInv, CheckNeigh
  <2> QED  BY <1>4, <2>1, <2>2, <2>3, <2>4 DEF IInv, Stepped
<1>6. CASE e.ip # OwnIp[e.interface]
  <2>1. RunChecks(incidents, NeighClaim(e), now)
    BY <1>6 DEF CheckNeigh
  <2>2. /\ IncidentsOK(incidents') /\ TrustInv' /\ Kept /\ Fresh
        /\ \A k \in Keys : Moved(incidents[k], incidents'[k])
    BY <1>1, <1>3, <2>1, ChecksOK DEF IInv
  <2>3. LeasedInv'
    BY <2>2, LeasedKept DEF IInv, CheckNeigh
  <2> QED  BY <1>4, <2>2, <2>3 DEF IInv, Moved, Stepped
<1> QED  BY <1>5, <1>6

\* The steps that judge nobody and bind nothing.
Idle == UNCHANGED <<bindings, pending, incidents>>

LEMMA IdleOK ==
  ASSUME IInv, Idle
  PROVE  /\ IncidentsOK(incidents') /\ TrustInv' /\ Kept /\ Fresh
         /\ \A k \in Keys : Stepped(incidents[k], incidents'[k])
         /\ leased' = leased => LeasedInv'
<1>1. bindings' = bindings /\ pending' = pending /\ incidents' = incidents
  BY DEF Idle
<1>2. Kept /\ Fresh
  BY <1>1 DEF Kept, Fresh
<1>3. IncidentsOK(incidents') /\ TrustInv'
  BY <1>1 DEF IInv, TrustInv, PendingBelowThreshold, OwnBindingGenuine
<1> QED  BY <1>1, <1>2, <1>3, LeasedKept DEF IInv, Stepped

\* Reading a neighbour cache.
LEMMA EntriesType ==
  ASSUME NEW table \in NeighTables, NEW i \in Lan
  PROVE  [n \in DOMAIN table |->
            [interface |-> i, ip |-> table[n].ip, mac |-> table[n].mac]]
           \in Seq([interface : Lan, ip : Ips, mac : Macs])
<1> DEFINE Entry == [interface : Lan, ip : Ips, mac : Macs]
           e(n) == [interface |-> i, ip |-> table[n].ip, mac |-> table[n].mac]
<1>1. table \in Seq(Neigh)
  BY ArpSpoofAssumption
<1>2. Len(table) \in Nat /\ DOMAIN table = 1..Len(table)
  BY <1>1, LenProperties
<1>3. \A n \in 1..Len(table) : table[n] \in Neigh
  BY <1>1, ElementOfSeq
<1>4. \A n \in 1..Len(table) : e(n) \in Entry
  BY <1>3 DEF Neigh
<1>5. [n \in 1..Len(table) |-> e(n)] \in [1..Len(table) -> Entry]
  BY <1>4
<1> QED  BY <1>2, <1>5

\* A step keeps the invariants; it moves each incident on the board's terms,
\* and the bindings on those of the tiers of trust.
Sound ==
  /\ IInv'
  /\ \A k \in Keys : Stepped(incidents[k], incidents'[k])
  /\ phase # "leases" => Kept /\ Fresh

LEMMA StepOK == ASSUME IInv, [Next]_vars PROVE Sound
<1> USE ArpSpoofAssumption
<1>1. ASSUME NEW c \in Traffic, NEW d \in Elapsed, Receive(c, d) PROVE Sound
  BY <1>1, ReceiveOK DEF Sound
<1>2. CASE CheckNeigh
  BY <1>2, CheckNeighOK DEF Sound
<1>3. ASSUME Idle, leased' = leased, ResyncInv' PROVE Sound
  BY <1>3, IdleOK DEF Sound, IInv
<1>4. /\ last_resync \in Nat /\ last_cleanup \in Nat /\ now \in Nat /\ phase \in Phases
      /\ stamp \in Nat /\ unread \in Seq(Lan)
      /\ phase = "neigh" => todo \in Seq([interface : Lan, ip : Ips, mac : Macs])
      /\ phase # "neigh" => todo \in Seq(Lease)
  BY DEF IInv, ResyncInv
<1>5. ASSUME NEW d \in Elapsed, Ignore(d) PROVE Sound
  <2>1. Idle /\ leased' = leased
    BY <1>5 DEF Ignore, Idle
  <2>2. now' \in Nat
    BY <1>4, <1>5 DEF Ignore
  <2>3. ResyncInv'
    BY <1>4, <1>5, <2>2 DEF Ignore, ResyncInv
  <2> QED  BY <1>3, <2>1, <2>3
<1>6. ASSUME NEW file \in LeaseFiles, OpenLeases(file) PROVE Sound
  <2>1. Idle /\ leased' = {} /\ phase = "opening"
    BY <1>6 DEF OpenLeases, Idle
  <2>2. LeasedInv'
    BY <2>1 DEF LeasedInv, LeasesInForce
  <2>3. ResyncInv'
    <3>1. file \in Seq(Lease) /\ phase' = "leases" /\ todo' = file
      BY <1>6 DEF OpenLeases
    <3> QED  BY <1>4, <1>6, <3>1 DEF OpenLeases, ResyncInv, Phases
  <2> QED  BY <2>1, <2>2, <2>3, IdleOK DEF Sound, IInv
<1>7. CASE ApplyLease
  <2>1. /\ phase = "leases" /\ phase' = phase /\ todo # <<>> /\ todo' = Tail(todo)
        /\ incidents' = incidents
    BY <1>7 DEF ApplyLease
  <2>2. Tail(todo) \in Seq(Lease)
    BY <1>4, <2>1, HeadTailProperties
  <2>3. ResyncInv'
    BY <1>4, <1>7, <2>1, <2>2 DEF ApplyLease, ResyncInv
  <2> QED  BY <1>7, <2>1, <2>3, LeaseOK DEF Sound, IInv, Stepped
<1>8. CASE AbortResync
  <2>1. Idle /\ leased' = leased
    BY <1>8 DEF AbortResync, Idle
  <2>2. phase' \in {"failed", "listening"} /\ todo' = <<>>
    BY <1>8 DEF AbortResync
  <2>3. todo' \in Seq(Lease)
    BY <2>2, EmptySeq
  <2>4. ResyncInv'
    BY <1>4, <1>8, <2>2, <2>3 DEF AbortResync, ResyncInv, Phases
  <2> QED  BY <1>3, <2>1, <2>4
<1>9. ASSUME NEW d \in Elapsed, StartNeigh(d) PROVE Sound
  <2>1. Idle /\ leased' = leased
    BY <1>9 DEF StartNeigh, Idle
  <2>2. now' \in Nat /\ phase' = "neigh" /\ todo' = <<>> /\ unread' = LanInterfaces
    BY <1>4, <1>9 DEF StartNeigh
  <2>3. todo' \in Seq([interface : Lan, ip : Ips, mac : Macs])
    BY <2>2, EmptySeq
  <2>4. ResyncInv'
    BY <1>4, <1>9, <2>2, <2>3 DEF StartNeigh, ResyncInv, Phases
  <2> QED  BY <1>3, <2>1, <2>4
<1>10. ASSUME NEW table \in NeighTables, ReadNeigh(table) PROVE Sound
  <2>1. Idle /\ leased' = leased
    BY <1>10 DEF ReadNeigh, Idle
  <2>2. /\ phase = "neigh" /\ phase' = phase /\ unread # <<>> /\ unread' = Tail(unread)
        /\ todo' = [n \in DOMAIN table |->
                      [interface |-> Head(unread), ip |-> table[n].ip, mac |-> table[n].mac]]
    BY <1>10 DEF ReadNeigh
  <2>3. Head(unread) \in Lan /\ Tail(unread) \in Seq(Lan)
    BY <1>4, <2>2, HeadTailProperties
  <2>4. todo' \in Seq([interface : Lan, ip : Ips, mac : Macs])
    BY <2>2, <2>3, EntriesType
  <2>5. ResyncInv'
    BY <1>4, <1>10, <2>2, <2>3, <2>4 DEF ReadNeigh, ResyncInv
  <2> QED  BY <1>3, <2>1, <2>5
<1>11. CASE EndResync
  <2>1. Idle /\ leased' = leased
    BY <1>11 DEF EndResync, Idle
  <2>2. phase' = "listening" /\ todo' = <<>> /\ last_resync' \in Nat
    BY <1>4, <1>11 DEF EndResync
  <2>3. todo' \in Seq(Lease)
    BY <2>2, EmptySeq
  <2>4. ResyncInv'
    BY <1>4, <1>11, <2>2, <2>3 DEF EndResync, ResyncInv, Phases
  <2> QED  BY <1>3, <2>1, <2>4
<1>12. CASE UNCHANGED vars
  <2>1. Idle /\ leased' = leased
    BY <1>12 DEF vars, Idle
  <2>2. ResyncInv'
    BY <1>4, <1>12 DEF vars, ResyncInv
  <2> QED  BY <1>3, <2>1, <2>2
<1> QED  BY <1>1, <1>2, <1>5, <1>6, <1>7, <1>8, <1>9, <1>10, <1>11, <1>12
         DEF Next, Resync, Stopped

LEMMA InitOK == Init => IInv
<1> SUFFICES ASSUME Init PROVE IInv
  OBVIOUS
<1> USE ArpSpoofAssumption
<1>1. IncidentsOK(incidents)
  <2>1. IncidentOK(AbsentAttack) /\ AbsentAttack \in ArpSpoofAttack
    BY NewOK DEF IncidentOK, Typed
  <2> QED  BY <2>1 DEF Init, IncidentsOK
<1>2. TrustInv
  <2>1. NotPending \in Candidate /\ NotPending.count = 0
    BY DEF NotPending, Candidate
  <2>2. /\ bindings \in [Bindings -> Macs \cup {Unbound}]
        /\ pending \in [Candidates -> Candidate]
    BY <2>1 DEF Init
  <2>3. PendingBelowThreshold
    BY <2>1 DEF Init, PendingBelowThreshold
  <2>4. OwnBindingGenuine
    BY <2>1 DEF Init, OwnBindingGenuine, Bindings, Candidates
  <2> QED  BY <2>2, <2>3, <2>4 DEF TrustInv
<1>3. ResyncInv
  <2>1. todo \in Seq(Lease) /\ unread \in Seq(Lan)
    BY EmptySeq DEF Init
  <2> QED  BY <2>1 DEF Init, ResyncInv, Phases
<1>4. LeasedInv
  BY DEF Init, LeasedInv, LeasesInForce
<1> QED  BY <1>1, <1>2, <1>3, <1>4 DEF IInv

LEMMA Inductive == Spec => []IInv
<1>1. IInv /\ [Next]_vars => IInv'
  BY StepOK DEF Sound
<1> QED  BY InitOK, <1>1, PTL DEF Spec

----------------------------------------------------------------------------
(* Theorems.                                                               *)

\* The detector's state always has its type, whatever the files hold.
THEOREM TypeCorrect == Spec => []TypeOK
<1>1. IInv => TypeOK
  BY DEF IInv, IncidentsOK, IncidentOK, Typed, TrustInv, Candidate, ResyncInv, LeasedInv, TypeOK
<1> QED  BY <1>1, Inductive, PTL

\* An incident is confirmed exactly by a fact or by confirm_threshold pieces
\* of evidence, over all checks and any number of decays
\* (arp_spoof_detector.py:231-236, 257-260).
THEOREM ConfirmedIffEvidenceAlways == Spec => []ConfirmedIffEvidence
<1>1. IInv => ConfirmedIffEvidence
  BY DEF IInv, IncidentsOK, IncidentOK, Graded, ConfirmedIffEvidence
<1> QED  BY <1>1, Inductive, PTL

\* No candidate is ever left at learn_threshold, so that _resolve_pending
\* never has a contest or a tie to decide (arp_spoof_detector.py:388-406).
THEOREM PendingBelowThresholdAlways == Spec => []PendingBelowThreshold
<1>1. IInv => PendingBelowThreshold
  BY DEF IInv, TrustInv
<1> QED  BY <1>1, Inductive, PTL

\* No traffic, lease or cache entry binds the router's own IP to another
\* machine (arp_spoof_detector.py:130, 182, 244).
THEOREM OwnBindingGenuineAlways == Spec => []OwnBindingGenuine
<1>1. IInv => OwnBindingGenuine
  BY DEF IInv, TrustInv
<1> QED  BY <1>1, Inductive, PTL

\* A lease that a file has put in force stays in force until the next file
\* (arp_spoof_detector.py:117-143).
THEOREM LeasesInForceAlways == Spec => []LeasesInForce
<1>1. IInv => LeasesInForce
  BY DEF IInv, LeasedInv
<1> QED  BY <1>1, Inductive, PTL

\* Outside a resync's leases a binding, once made, is never moved or dropped.
THEOREM OnlyDhcpRebindsAlways == Spec => OnlyDhcpRebinds
<1>1. IInv /\ [Next]_vars =>
        [phase # "leases" =>
           \A k \in Bindings : bindings[k] # Unbound => bindings'[k] = bindings[k]]_vars
  BY StepOK DEF Sound, Kept
<1> QED  BY <1>1, Inductive, PTL DEF Spec, OnlyDhcpRebinds

\* A binding that claims teach is taught by a run of them without an idle
\* gap, all of the MAC it names.
THEOREM LearnedFromFreshClaimsAlways == Spec => LearnedFromFreshClaims
<1>1. IInv /\ [Next]_vars =>
        [phase # "leases" =>
           \A k \in Bindings :
             LET before == pending[<<k[1], k[2], bindings'[k]>>] IN
             bindings'[k] # bindings[k] =>
               /\ before.count = LearnThreshold - 1
               /\ before.count > 0 => now' - before.last_seen <= IdleExpiry]_vars
  BY StepOK DEF Sound, Fresh
<1> QED  BY <1>1, Inductive, PTL DEF Spec, LearnedFromFreshClaims

LEMMA StepBoard == IInv /\ [Next]_vars => [Board!Packet]_(Board!boardVars)
<1> SUFFICES ASSUME IInv, [Next]_vars PROVE Board!Packet
  OBVIOUS
<1>1. IInv' /\ \A k \in Keys : Stepped(incidents[k], incidents'[k])
  BY StepOK DEF Sound
<1>2. \A k \in Keys : IncidentOK(incidents[k]) /\ IncidentOK(incidents'[k])
  BY <1>1 DEF IInv, IncidentsOK
<1>3. \A k \in Keys : Level(incidents'[k]) \in 0..3
  BY <1>2, LevelType
<1>4. ASSUME NEW k \in Keys PROVE Board!Hit(k) \/ Board!Quiet(k)
  <2> DEFINE a == incidents[k]
             b == incidents'[k]
  <2>1. CASE b = a
    BY <2>1 DEF Board!Quiet
  <2>2. CASE b = Decay(a) /\ a.status \in Severity
    <3>1. Level(b) = Level(a) /\ Level(a) > 0
      BY <1>2, <2>2, DecayOK
    <3>2. a.status # "decayed"
      BY <2>2 DEF Severity
    <3> QED  BY <3>1, <3>2 DEF Board!Quiet
  <2>3. CASE b.status \in Severity /\ Level(b) \in Board!Climb(Level(a))
    <3>1. b.status # "decayed"
      BY <2>3 DEF Severity
    <3> QED  BY <2>3, <3>1 DEF Board!Hit
  <2> QED  BY <1>1, <2>1, <2>2, <2>3 DEF Stepped
<1> QED  BY <1>3, <1>4 DEF Board!Packet

\* The ARP detector implements the incident board: over four checks, sweeps
\* and resyncs no incident is forgotten or demoted, and only incidents are
\* hidden.
THEOREM ArpSpoofImplementsBoard == Spec => ImplementsBoard
<1>1. Init => Board!BoardInit
  <2> SUFFICES ASSUME Init PROVE Board!BoardInit
    OBVIOUS
  <2>1. \A k \in Keys : Level(incidents[k]) = 0 /\ incidents[k].status # "decayed"
    BY NewOK DEF Init
  <2> QED  BY <2>1 DEF Board!BoardInit
<1> QED  BY <1>1, Inductive, StepBoard, PTL DEF Spec, ImplementsBoard, Board!BoardSpec

----------------------------------------------------------------------------
(* What the board promises, of the ARP detector itself.                    *)

Promises == INSTANCE IncidentBoardProofs WITH
  Burst    <- TRUE,
  severity <- [k \in Keys |-> Level(incidents[k])],
  idle     <- {k \in Keys : incidents[k].status = "decayed"}

LEMMA BoardPromises ==
  Board!BoardSpec => Board!NeverDemoted /\ Board!HiddenIsHeld
<1>1. Promises!BoardSpec => Promises!NeverDemoted /\ Promises!HiddenIsHeld
  BY Promises!NeverDemotedAlways, Promises!HiddenIsHeldAlways
<1>2. Board!BoardSpec => Promises!BoardSpec
  BY DEF Board!BoardSpec, Board!BoardInit, Board!Packet, Board!boardVars,
         Board!Hit, Board!Quiet, Board!Climb, Board!Raise,
         Promises!BoardSpec, Promises!BoardInit, Promises!Packet, Promises!boardVars,
         Promises!Hit, Promises!Quiet, Promises!Climb, Promises!Raise
<1>3. /\ Promises!NeverDemoted => Board!NeverDemoted
      /\ Promises!HiddenIsHeld => Board!HiddenIsHeld
  BY DEF Board!NeverDemoted, Board!HiddenIsHeld, Board!boardVars,
         Promises!NeverDemoted, Promises!HiddenIsHeld, Promises!boardVars
<1> QED  BY <1>1, <1>2, <1>3

\* However claims, leases, caches, idle gaps and setbacks of the clock are
\* mixed, no ARP incident is lost or loses its rung, and only incidents are
\* shown as decayed, at the rung they keep (attack.py:66-68).
THEOREM ArpSpoofNeverDemotes == Spec => Board!NeverDemoted /\ Board!HiddenIsHeld
BY ArpSpoofImplementsBoard, BoardPromises DEF ImplementsBoard
=============================================================================
