--------------------------- MODULE PortScanProofs ---------------------------
(***************************************************************************)
(* Proofs about PortScanDetector, for every set of hosts and segments, any *)
(* thresholds and any pace of time, a clock that is set back included.     *)
(*                                                                         *)
(* The invariant is about one incident at a time: a packet turns one       *)
(* incident into its successor and the sweep decays others, so it is       *)
(* enough that decaying, counting a SYN and counting a reply each preserve *)
(* IncidentOK.  IncidentOK adds to the checked invariants that the open    *)
(* probes are finitely many and that what is absent is untouched.          *)
(***************************************************************************)
EXTENDS PortScanDetector, FiniteSetTheorems, TLAPS

\* The conjuncts of the invariants for one incident.
Typed(a) ==
  /\ a \in PortScanAttack
  /\ a.status = "decayed" <=> a.pre_decay # None

Accounted(a) ==
  /\ IsFiniteSet(a.open)
  /\ a.count = a.probes + a.replies
  /\ a.unmatched <= a.replies
  /\ Cardinality(a.open) + (a.replies - a.unmatched) <= a.probes

Graded(a) ==
  Known(a) => /\ Peak(a) = "suspected" <=> Evidence(a) < Threshold
              /\ Peak(a) = "confirmed" => Evidence(a) = Threshold

Untouched(a) == ~Known(a) => a = AbsentAttack

IncidentOK(a) == Typed(a) /\ Accounted(a) /\ Graded(a) /\ Untouched(a)

IInv ==
  /\ \A k \in Keys : IncidentOK(incidents[k])
  /\ incidents \in [Keys -> PortScanAttack]
  /\ last_cleanup \in Nat
  /\ now \in Nat /\ setback \in Nat
  /\ sweep_lines \in [Keys -> Nat]

\* When an incident was last seen, against the last sweep at s and the
\* seconds b the clock has been set back since.
Timed(a, s, b) ==
  /\ a.status \in Severity =>
       s - a.last_seen <= (IF b > IdleExpiry THEN b ELSE IdleExpiry)
  /\ a.status = "decayed" => s - a.last_seen > IdleExpiry

\* Sweeps only move forward, however the clock moves, since one is due only
\* after the one before: so what was idle at its decay is idle at them all.
TimeInv ==
  /\ last_cleanup <= now + setback
  /\ \A k \in Keys :
       /\ Known(incidents[k]) => now - last_cleanup <= CleanupInterval
       /\ Timed(incidents[k], last_cleanup, setback)

-----------------------------------------------------------------------------

\* Nothing is held against a key without an entry.
LEMMA AbsentOK == IncidentOK(AbsentAttack)
<1> USE PortScanAssumption
<1>1. Typed(AbsentAttack)
  BY DEF Typed, AbsentAttack, NewPortScanAttack, PortScanAttack, Status, Severity, None
<1>2. Accounted(AbsentAttack)
  BY FS_EmptySet DEF Accounted, AbsentAttack, NewPortScanAttack
<1>3. Graded(AbsentAttack) /\ Untouched(AbsentAttack)
  BY DEF Graded, Untouched, AbsentAttack, NewPortScanAttack, Known
<1> QED  BY <1>1, <1>2, <1>3 DEF IncidentOK

\* Nor against one whose entry _get_attack has just made.
LEMMA NewOK == ASSUME NEW ts \in Nat
               PROVE  IncidentOK(NewPortScanAttack(ts)) /\ Known(NewPortScanAttack(ts))
<1> USE PortScanAssumption
<1>1. Typed(NewPortScanAttack(ts))
  BY DEF Typed, NewPortScanAttack, PortScanAttack, Status, Severity, None
<1>2. Accounted(NewPortScanAttack(ts))
  BY FS_EmptySet DEF Accounted, NewPortScanAttack
<1>3. Graded(NewPortScanAttack(ts)) /\ Untouched(NewPortScanAttack(ts))
  BY DEF Graded, Untouched, NewPortScanAttack, Known, Peak, Evidence
<1> QED  BY <1>1, <1>2, <1>3 DEF IncidentOK, NewPortScanAttack, Known

\* Decay only hides the rung.
LEMMA DecayOK == ASSUME NEW a, IncidentOK(a), a.status \in Severity
                 PROVE  IncidentOK(Decay(a))
<1> DEFINE b == [a EXCEPT !.pre_decay = a.status, !.status = "decayed"]
<1>1. Decay(a) = b
  BY DEF Decay, Severity
<1>2. a \in PortScanAttack /\ Accounted(a) /\ Graded(a)
  BY DEF IncidentOK, Typed
<1>3. b \in PortScanAttack /\ b.status = "decayed" /\ b.pre_decay = a.status
  BY <1>2 DEF PortScanAttack, Status
<1>4. /\ b.open = a.open /\ b.count = a.count /\ b.probes = a.probes
      /\ b.replies = a.replies /\ b.unmatched = a.unmatched
  BY <1>2 DEF PortScanAttack
<1>5. Typed(b)
  BY <1>3 DEF Typed, Severity, None
<1>6. Accounted(b)
  BY <1>2, <1>4 DEF Accounted
<1>7. Graded(b)
  <2>1. Peak(b) = Peak(a) /\ Known(b) /\ Known(a)
    BY <1>3 DEF Peak, Known, Severity
  <2> QED  BY <1>2, <1>4, <2>1 DEF Graded, Evidence
<1>8. Untouched(b)
  BY <1>3 DEF Untouched, Known
<1> QED  BY <1>1, <1>5, <1>6, <1>7, <1>8 DEF IncidentOK

\* Recording evidence: the rung is re-derived, the bookkeeping is kept.  It
\* is given what update_attack has made of an incident: counters that
\* account for each other, one more packet than count says, and the rung of
\* the evidence before it.
LEMMA SettleOK ==
  ASSUME NEW a, a \in PortScanAttack, NEW ts \in Nat,
         a.status = "decayed" <=> a.pre_decay # None,
         Known(a),
         IsFiniteSet(a.open),
         a.count + 1 = a.probes + a.replies,
         a.unmatched <= a.replies,
         Cardinality(a.open) + (a.replies - a.unmatched) <= a.probes,
         NEW e \in Nat, Evidence(a) \in {e, e + 1},
         Peak(a) = "suspected" <=> e < Threshold,
         Peak(a) = "confirmed" => e = Threshold
  PROVE  /\ IncidentOK(Settle(a, ts))
         /\ Known(Settle(a, ts))
         /\ Settle(a, ts).last_seen = ts
         /\ Settle(a, ts).status \in Severity
         /\ Level(Settle(a, ts)) \in Board!Raise(Level(a))
<1> USE PortScanAssumption
<1> DEFINE c     == [a EXCEPT !.count = @ + 1, !.last_seen = ts]
           floor == IF ConfirmedBy(a) # {} THEN "confirmed" ELSE None
           b     == Settle(a, ts)
           rung  == IF Peak(a) = "confirmed" THEN "ongoing" ELSE Peak(a)
           up    == IF floor # None /\ Rank(floor) > Rank(rung) THEN floor ELSE rung
<1>1. /\ c \in PortScanAttack
      /\ c.status = a.status /\ c.pre_decay = a.pre_decay
      /\ c.open = a.open /\ c.count = a.count + 1 /\ c.probes = a.probes
      /\ c.replies = a.replies /\ c.unmatched = a.unmatched
      /\ c.last_seen = ts
  <2> DEFINE n == a.count + 1
  <2>1. n \in Nat /\ n = a.count + 1
    BY DEF PortScanAttack
  <2>2. c = [a EXCEPT !.count = n, !.last_seen = ts]
    OBVIOUS
  <2> HIDE DEF c, n
  <2> QED  BY <2>1, <2>2 DEF PortScanAttack
<1>2. Peak(c) = Peak(a)
  BY <1>1 DEF Peak
<1>3. b = [c EXCEPT !.status = up, !.pre_decay = None]
  BY <1>2 DEF Settle, Record, Escalate
<1>4. Peak(a) \in Severity
  BY DEF Peak, Known, PortScanAttack, Status, Severity, None
<1>5. up \in Severity
  BY <1>4 DEF Severity
<1>6. /\ b \in PortScanAttack
      /\ b.status = up /\ b.pre_decay = None
      /\ b.open = a.open /\ b.count = a.count + 1 /\ b.probes = a.probes
      /\ b.replies = a.replies /\ b.unmatched = a.unmatched
      /\ b.last_seen = ts
  BY <1>1, <1>3, <1>5 DEF PortScanAttack, Status
<1>7. Peak(b) = up /\ Known(b)
  BY <1>5, <1>6 DEF Peak, Known, Severity
<1>8. Typed(b) /\ Accounted(b) /\ Untouched(b)
  BY <1>5, <1>6, <1>7 DEF Typed, Accounted, Untouched, Severity
<1>9. floor = IF Evidence(a) >= Threshold THEN "confirmed" ELSE None
  <2>1. a.probes \in Nat /\ a.replies \in Nat /\ a.unmatched \in Nat
    BY DEF PortScanAttack
  <2>2. Cardinality(a.open) \in Nat
    BY FS_CardinalityType
  <2>3. a.replies <= Evidence(a) /\ a.probes <= Evidence(a)
    BY <2>1, <2>2 DEF Evidence
  <2>4. ConfirmedBy(a) # {} <=> Evidence(a) >= Threshold
    BY <2>1, <2>3 DEF ConfirmedBy, Evidence
  <2> QED  BY <2>4
<1>10. Graded(b)
  <2>1. Evidence(b) = Evidence(a)
    BY <1>6 DEF Evidence
  <2>2. Evidence(a) \in Nat
    BY DEF Evidence, PortScanAttack
  <2>3. CASE Evidence(a) < Threshold
    <3>1. floor = None /\ Peak(a) = "suspected"
      BY <1>9, <2>2, <2>3
    <3> QED  BY <1>7, <2>1, <2>2, <2>3, <3>1 DEF Graded, None
  <2>4. CASE Evidence(a) >= Threshold
    <3>1. floor = "confirmed"
      BY <1>9, <2>4
    <3>2. CASE Peak(a) = "suspected"
      <4>1. up = "confirmed"
        BY <3>1, <3>2 DEF Rank, None
      <4>2. Evidence(a) = Threshold
        BY <2>2, <2>4, <3>2
      <4> QED  BY <1>7, <2>1, <4>1, <4>2 DEF Graded
    <3>3. CASE Peak(a) # "suspected"
      <4>1. up = "ongoing"
        BY <1>4, <3>1, <3>3 DEF Rank, None, Severity
      <4> QED  BY <1>7, <2>1, <2>2, <2>4, <4>1 DEF Graded
    <3> QED  BY <3>2, <3>3
  <2> QED  BY <2>2, <2>3, <2>4
<1>11. Level(b) \in Board!Raise(Level(a))
  <2>1. Level(a) = Rank(Peak(a)) /\ Level(b) = Rank(up)
    BY <1>7 DEF Level
  <2>2. CASE Peak(a) = "suspected"
    BY <2>1, <2>2 DEF Rank, Board!Raise, None
  <2>3. CASE Peak(a) # "suspected"
    <3>1. rung = "ongoing" /\ up = "ongoing"
      BY <1>4, <2>3 DEF Rank, None, Severity
    <3>2. Rank(Peak(a)) \in {2, 3} /\ Rank(up) = 3
      BY <1>4, <2>3, <3>1 DEF Rank, Severity
    <3> QED  BY <2>1, <3>2 DEF Board!Raise
  <2> QED  BY <2>2, <2>3
<1> QED  BY <1>5, <1>6, <1>7, <1>8, <1>10, <1>11 DEF IncidentOK

-----------------------------------------------------------------------------

\* What PortScanAttack says field by field, for the provers.
LEMMA Fields ==
  ASSUME NEW a \in PortScanAttack
  PROVE  /\ a.count \in Nat /\ a.probes \in Nat /\ a.replies \in Nat
         /\ a.unmatched \in Nat /\ a.last_seen \in Nat
         /\ a.open \subseteq [conn : Connections, ack : Nat]
         /\ a.ports \subseteq Ports /\ a.status \in Status
  BY DEF PortScanAttack

LEMMA SegmentFields ==
  ASSUME NEW e \in Segment
  PROVE  /\ PortOf(e) \in Ports
         /\ <<e.src, e.dst>> \in Connections
         /\ e.seq + 1 \in Nat
         /\ ProbeKey(e) \in Keys /\ ReplyKey(e) \in Keys
  BY PortScanAssumption
     DEF Segment, Endpoints, Connections, SeqNumbers, PortOf, Keys, ProbeKey, ReplyKey

\* update_attack keeps the type.
LEMMA ProbeType ==
  ASSUME NEW a \in PortScanAttack, NEW e \in Segment
  PROVE  ProbeSeen(a, e) \in PortScanAttack
<1> DEFINE c     == <<e.src, e.dst>>
           new   == OpenProbe(c, e.seq + 1)
           ports == a.ports \cup {PortOf(e)}
           open  == {p \in a.open : p.conn # c} \cup {new}
           n     == a.probes + 1
<1>1. n \in Nat /\ ports \subseteq Ports
  <2>1. a.probes \in Nat /\ a.ports \subseteq Ports
    BY Fields
  <2>2. n \in Nat
    BY <2>1
  <2>3. PortOf(e) \in Ports
    BY SegmentFields
  <2> QED  BY <2>1, <2>2, <2>3
<1>2. new \in [conn : Connections, ack : Nat]
  BY SegmentFields DEF OpenProbe
<1>3. open \subseteq [conn : Connections, ack : Nat]
  BY <1>2, Fields
<1>4. ProbeSeen(a, e) = [a EXCEPT !.ports = ports, !.probes = n, !.open = open]
  BY DEF ProbeSeen
<1> HIDE DEF ports, open, n
<1> QED  BY <1>1, <1>3, <1>4 DEF PortScanAttack

LEMMA ReplyType ==
  ASSUME NEW a \in PortScanAttack, NEW e \in Segment
  PROVE  ReplySeen(a, e) \in PortScanAttack
<1> DEFINE answered == OpenProbe(<<e.dst, e.src>>, e.ack)
           ports    == a.ports \cup {PortOf(e)}
           open     == a.open \ {answered}
           n        == a.replies + 1
           u        == a.unmatched + 1
<1>1. n \in Nat /\ u \in Nat /\ ports \subseteq Ports
  <2>1. a.replies \in Nat /\ a.unmatched \in Nat /\ a.ports \subseteq Ports
    BY Fields
  <2>2. n \in Nat /\ u \in Nat
    BY <2>1
  <2>3. PortOf(e) \in Ports
    BY SegmentFields
  <2> QED  BY <2>1, <2>2, <2>3
<1>2. open \subseteq [conn : Connections, ack : Nat]
  BY Fields
<1>3. \/ ReplySeen(a, e) = [a EXCEPT !.ports = ports, !.replies = n, !.open = open]
      \/ ReplySeen(a, e) = [a EXCEPT !.ports = ports, !.replies = n, !.unmatched = u]
  BY DEF ReplySeen, PortScanAttack
<1> HIDE DEF ports, open, n, u
<1> QED  BY <1>1, <1>2, <1>3 DEF PortScanAttack

\* A SYN opens at most one probe more.
LEMMA ProbeOK ==
  ASSUME NEW a, IncidentOK(a), Known(a), NEW e \in Segment, NEW ts \in Nat
  PROVE  LET b == Settle(ProbeSeen(a, e), ts)
         IN  /\ IncidentOK(b) /\ Known(b) /\ b.last_seen = ts /\ b.status \in Severity
             /\ Level(b) \in Board!Raise(Level(a))
<1> DEFINE c    == <<e.src, e.dst>>
           rest == {p \in a.open : p.conn # c}
           new  == OpenProbe(c, e.seq + 1)
           seen == ProbeSeen(a, e)
<1>1. a \in PortScanAttack /\ Typed(a) /\ Accounted(a) /\ Graded(a)
  BY DEF IncidentOK, Typed
<1>2. new \in [conn : Connections, ack : Nat]
  BY SegmentFields DEF OpenProbe
<1>3. IsFiniteSet(rest) /\ Cardinality(rest) <= Cardinality(a.open)
  BY <1>1, FS_Subset DEF Accounted
<1>4. /\ IsFiniteSet(rest \cup {new})
      /\ Cardinality(rest \cup {new}) <= Cardinality(a.open) + 1
  <2>1. Cardinality(rest) \in Nat /\ Cardinality(a.open) \in Nat
    BY <1>1, <1>3, FS_CardinalityType DEF Accounted
  <2> HIDE DEF rest, new
  <2>2. IsFiniteSet(rest \cup {new})
    BY <1>3, FS_AddElement
  <2>3. Cardinality(rest \cup {new}) = IF new \in rest THEN Cardinality(rest)
                                       ELSE Cardinality(rest) + 1
    BY <1>3, FS_AddElement
  <2> QED  BY <1>3, <2>1, <2>2, <2>3
<1>5. rest \cup {new} \subseteq [conn : Connections, ack : Nat]
  BY <1>1, <1>2, Fields
<1>6. a.ports \cup {PortOf(e)} \subseteq Ports
  BY <1>1, Fields, SegmentFields
<1> DEFINE ports == a.ports \cup {PortOf(e)}
           open  == rest \cup {new}
           n     == a.probes + 1
<1>7. n \in Nat
  BY <1>1, Fields
<1>8. seen = [a EXCEPT !.ports = ports, !.probes = n, !.open = open]
  BY DEF ProbeSeen
<1> HIDE DEF ports, open, n, seen
<1>9. /\ seen \in PortScanAttack
      /\ seen.status = a.status /\ seen.pre_decay = a.pre_decay
      /\ seen.count = a.count /\ seen.replies = a.replies
      /\ seen.unmatched = a.unmatched /\ seen.probes = n /\ seen.open = open
  BY <1>1, <1>5, <1>6, <1>7, <1>8 DEF PortScanAttack, ports, open
<1>10. Peak(seen) = Peak(a) /\ Known(seen) /\ Level(seen) = Level(a)
  BY <1>9 DEF Peak, Known, Level
<1>11. /\ IsFiniteSet(seen.open)
       /\ seen.count + 1 = seen.probes + seen.replies
       /\ seen.unmatched <= seen.replies
       /\ Cardinality(seen.open) + (seen.replies - seen.unmatched) <= seen.probes
  <2>1. Cardinality(open) \in Nat /\ Cardinality(a.open) \in Nat
    BY <1>1, <1>4, FS_CardinalityType DEF Accounted, open
  <2>2. Cardinality(open) <= Cardinality(a.open) + 1
    BY <1>4 DEF open
  <2> QED  BY <1>1, <1>4, <1>9, <2>1, <2>2, Fields DEF Accounted, n, open
<1>12. Evidence(seen) = Evidence(a) + 1 /\ Evidence(a) \in Nat
  BY <1>1, <1>9, Fields DEF Evidence, n
<1>13. /\ Peak(seen) = "suspected" <=> Evidence(a) < Threshold
       /\ Peak(seen) = "confirmed" => Evidence(a) = Threshold
  BY <1>1, <1>10 DEF Graded
<1>14. seen.status = "decayed" <=> seen.pre_decay # None
  BY <1>1, <1>9 DEF Typed
<1> QED  BY <1>9, <1>10, <1>11, <1>12, <1>13, <1>14, SettleOK DEF seen

\* A reply uses up an open probe or counts as unmatched.
LEMMA ReplyOK ==
  ASSUME NEW a, IncidentOK(a), Known(a), NEW e \in Segment, NEW ts \in Nat
  PROVE  LET b == Settle(ReplySeen(a, e), ts)
         IN  /\ IncidentOK(b) /\ Known(b) /\ b.last_seen = ts /\ b.status \in Severity
             /\ Level(b) \in Board!Raise(Level(a))
<1> DEFINE answered == OpenProbe(<<e.dst, e.src>>, e.ack)
           seen     == ReplySeen(a, e)
           ports    == a.ports \cup {PortOf(e)}
           open     == a.open \ {answered}
           n        == a.replies + 1
           u        == a.unmatched + 1
<1>1. a \in PortScanAttack /\ Typed(a) /\ Accounted(a) /\ Graded(a)
  BY DEF IncidentOK, Typed
<1>2. ports \subseteq Ports
  BY <1>1, Fields, SegmentFields
<1>3. n \in Nat /\ u \in Nat /\ Evidence(a) \in Nat
  BY <1>1, Fields DEF Evidence
<1>4. open \subseteq [conn : Connections, ack : Nat]
  BY <1>1, Fields
<1>5. Cardinality(a.open) \in Nat
  BY <1>1, FS_CardinalityType DEF Accounted
<1>6. /\ Peak(a) = "suspected" <=> Evidence(a) < Threshold
      /\ Peak(a) = "confirmed" => Evidence(a) = Threshold
  BY <1>1 DEF Graded
<1>7. CASE answered \in a.open
  <2>1. seen = [a EXCEPT !.ports = ports, !.replies = n, !.open = open]
    BY <1>1, <1>7 DEF ReplySeen, PortScanAttack
  <2>2. IsFiniteSet(open) /\ Cardinality(open) = Cardinality(a.open) - 1
    BY <1>1, <1>7, FS_RemoveElement DEF Accounted
  <2> HIDE DEF ports, open, n, seen
  <2>3. /\ seen \in PortScanAttack
        /\ seen.status = a.status /\ seen.pre_decay = a.pre_decay
        /\ seen.count = a.count /\ seen.replies = n /\ seen.probes = a.probes
        /\ seen.unmatched = a.unmatched /\ seen.open = open
    BY <1>1, <1>2, <1>3, <1>4, <2>1 DEF PortScanAttack
  <2>4. /\ Peak(seen) = Peak(a) /\ Known(seen) /\ Level(seen) = Level(a)
        /\ Evidence(seen) = Evidence(a)
    BY <2>3 DEF Peak, Known, Level, Evidence
  <2>5. /\ IsFiniteSet(seen.open)
        /\ seen.count + 1 = seen.probes + seen.replies
        /\ seen.unmatched <= seen.replies
        /\ Cardinality(seen.open) + (seen.replies - seen.unmatched) <= seen.probes
    <3>1. IsFiniteSet(seen.open)
      BY <2>2, <2>3
    <3>2. Cardinality(seen.open) = Cardinality(a.open) - 1
      BY <2>2, <2>3
    <3>3. /\ a.count = a.probes + a.replies /\ a.unmatched <= a.replies
          /\ Cardinality(a.open) + (a.replies - a.unmatched) <= a.probes
      BY <1>1 DEF Accounted
    <3>4. /\ a.probes \in Nat /\ a.replies \in Nat /\ a.unmatched \in Nat
          /\ a.count \in Nat /\ n = a.replies + 1
      BY <1>1, Fields DEF n
    <3>5. seen.count + 1 = seen.probes + seen.replies /\ seen.unmatched <= seen.replies
      BY <2>3, <3>3, <3>4
    <3>6. Cardinality(seen.open) + (seen.replies - seen.unmatched) <= seen.probes
      BY <1>5, <2>3, <3>2, <3>3, <3>4
    <3> QED  BY <3>1, <3>5, <3>6
  <2>6. seen.status = "decayed" <=> seen.pre_decay # None
    BY <1>1, <2>3 DEF Typed
  <2> QED  BY <1>3, <1>6, <2>3, <2>4, <2>5, <2>6, SettleOK DEF seen
<1>8. CASE answered \notin a.open
  <2>1. seen = [a EXCEPT !.ports = ports, !.replies = n, !.unmatched = u]
    BY <1>1, <1>8 DEF ReplySeen, PortScanAttack
  <2> HIDE DEF ports, n, u, seen
  <2>2. /\ seen \in PortScanAttack
        /\ seen.status = a.status /\ seen.pre_decay = a.pre_decay
        /\ seen.count = a.count /\ seen.replies = n /\ seen.probes = a.probes
        /\ seen.unmatched = u /\ seen.open = a.open
    BY <1>1, <1>2, <1>3, <2>1 DEF PortScanAttack
  <2>3. Peak(seen) = Peak(a) /\ Known(seen) /\ Level(seen) = Level(a)
    BY <2>2 DEF Peak, Known, Level
  <2>4. Evidence(seen) = Evidence(a) + 1
    BY <1>1, <2>2, Fields DEF Evidence, u
  <2>5. /\ IsFiniteSet(seen.open)
        /\ seen.count + 1 = seen.probes + seen.replies
        /\ seen.unmatched <= seen.replies
        /\ Cardinality(seen.open) + (seen.replies - seen.unmatched) <= seen.probes
    BY <1>1, <1>5, <2>2, Fields DEF Accounted, n, u
  <2>6. seen.status = "decayed" <=> seen.pre_decay # None
    BY <1>1, <2>2 DEF Typed
  <2> QED  BY <1>3, <1>6, <2>2, <2>3, <2>4, <2>5, <2>6, SettleOK DEF seen
<1> QED  BY <1>7, <1>8

-----------------------------------------------------------------------------

\* The sweep leaves an incident alone or decays it for being idle.
LEMMA SweepOK ==
  ASSUME IInv, NEW ts \in Nat, NEW k \in Keys
  PROVE  LET a == incidents[k]
             s == AfterSweep(ts)[k]
         IN  /\ IncidentOK(s)
             /\ \/ s = a /\ (CleanupDue(ts) /\ a.status \in Severity => ~IsExpired(a, ts))
                \/ /\ s = Decay(a) /\ a.status \in Severity
                   /\ CleanupDue(ts) /\ IsExpired(a, ts)
<1> DEFINE a == incidents[k]
<1>1. IncidentOK(a) /\ DOMAIN incidents = Keys
  BY DEF IInv
<1>2. CASE ~CleanupDue(ts)
  BY <1>1, <1>2 DEF AfterSweep
<1>3. CASE CleanupDue(ts) /\ a.status \in Severity /\ IsExpired(a, ts)
  <2>1. AfterSweep(ts)[k] = Decay(a)
    BY <1>1, <1>3 DEF AfterSweep, ExpireIdle
  <2> QED  BY <1>1, <1>3, <2>1, DecayOK
<1>4. CASE CleanupDue(ts) /\ ~(a.status \in Severity /\ IsExpired(a, ts))
  <2>1. AfterSweep(ts)[k] = a
    BY <1>1, <1>4 DEF AfterSweep, ExpireIdle
  <2> QED  BY <1>1, <1>4, <2>1
<1> QED  BY <1>2, <1>3, <1>4

\* The sweep moves no incident on the ladder.
LEMMA SweptLevel ==
  ASSUME IInv, NEW ts \in Nat, NEW k \in Keys
  PROVE  Level(AfterSweep(ts)[k]) = Level(incidents[k])
<1> DEFINE a == incidents[k]
           s == AfterSweep(ts)[k]
<1>1. CASE s = a
  BY <1>1
<1>2. CASE s = Decay(a) /\ a.status \in Severity
  <2>1. a \in PortScanAttack
    BY DEF IInv
  <2>2. s.status = "decayed" /\ s.pre_decay = a.status
    BY <1>2, <2>1 DEF Decay, Severity, PortScanAttack
  <2> QED  BY <1>2, <2>2 DEF Level, Known, Peak, Severity
<1> QED  BY <1>1, <1>2, SweepOK

LEMMA SweepShape ==
  ASSUME IInv, NEW ts \in Nat
  PROVE  AfterSweep(ts) \in [Keys -> PortScanAttack]
<1>1. DOMAIN AfterSweep(ts) = Keys
  BY DEF AfterSweep, ExpireIdle, IInv
<1>2. \A k \in Keys : AfterSweep(ts)[k] \in PortScanAttack
  BY SweepOK DEF IncidentOK, Typed
<1>3. AfterSweep(ts) = [k \in Keys |-> AfterSweep(ts)[k]]
  BY <1>1 DEF AfterSweep, ExpireIdle, IInv
<1> QED  BY <1>2, <1>3

\* What _get_attack gives is a sound, known incident.
LEMMA GetAttackOK ==
  ASSUME IInv, NEW ts \in Nat, NEW k \in Keys
  PROVE  LET a == GetAttack(AfterSweep(ts), k, ts)
         IN  /\ IncidentOK(a) /\ Known(a)
             /\ Board!Raise(Level(a)) = Board!Raise(Level(incidents[k]))
<1> DEFINE s == AfterSweep(ts)[k]
           a == GetAttack(AfterSweep(ts), k, ts)
<1>1. IncidentOK(s) /\ Level(s) = Level(incidents[k])
  BY SweepOK, SweptLevel
<1>2. CASE Known(s)
  BY <1>1, <1>2 DEF GetAttack
<1>3. CASE ~Known(s)
  <2>1. a = NewPortScanAttack(ts)
    BY <1>3 DEF GetAttack
  <2>2. Level(a) = 1
    BY <2>1 DEF NewPortScanAttack, Level, Known, Peak, Rank
  <2>3. Level(incidents[k]) = 0
    BY <1>1, <1>3 DEF Level
  <2>4. Board!Raise(0) = Board!Raise(1)
    BY DEF Board!Raise
  <2> QED  BY <2>1, <2>2, <2>3, <2>4, NewOK
<1> QED  BY <1>2, <1>3

\* What a packet of incident k does to it and to the rest.
Evidenced(k, b, ts) ==
  /\ incidents' = [AfterSweep(ts) EXCEPT ![k] = b]
  /\ IncidentOK(b) /\ Known(b) /\ b.last_seen = ts /\ b.status \in Severity
  /\ Level(b) \in Board!Raise(Level(incidents[k]))

\* Every step is a sweep if one is due, then at most one incident recorded.
LEMMA StepShape ==
  ASSUME IInv, Next
  PROVE  \E d \in Elapsed :
           /\ Arrives(d)
           /\ sweep_lines' \in [Keys -> Nat]
           /\ \/ incidents' = AfterSweep(now + d)
              \/ \E k \in Keys, b \in PortScanAttack : Evidenced(k, b, now + d)
<1> USE PortScanAssumption
<1>1. PICK e \in Segments, d \in Elapsed :
        Probe(e, d) \/ Reply(e, d) \/ OtherSegment(e, d)
  BY DEF Next
<1> DEFINE ts == now + d
<1>2. ts \in Nat /\ e \in Segment
  BY <1>1 DEF Arrives, Probe, Reply, OtherSegment
<1>3. sweep_lines \in [Keys -> Nat]
  BY DEF IInv
<1>4. ASSUME NEW k \in Keys, NEW before, NEW after,
             UpdateIncident(k, before, after, ts)
      PROVE  sweep_lines' \in [Keys -> Nat]
  <2> DEFINE m == sweep_lines[k] + (IF SweepLine(before, after) THEN 1 ELSE 0)
  <2>1. m \in Nat
    BY <1>3
  <2>2. sweep_lines' = [sweep_lines EXCEPT ![k] = m]
    BY <1>4 DEF UpdateIncident
  <2> HIDE DEF m
  <2> QED  BY <1>3, <2>1, <2>2
<1>5. CASE Probe(e, d)
  <2> DEFINE k == ProbeKey(e)
             a == GetAttack(AfterSweep(ts), k, ts)
             b == Settle(ProbeSeen(a, e), ts)
  <2>1. k \in Keys
    BY <1>2, SegmentFields
  <2>2. Arrives(d) /\ UpdateIncident(k, a, ProbeSeen(a, e), ts)
    BY <1>5 DEF Probe
  <2>3. /\ IncidentOK(a) /\ Known(a)
        /\ Board!Raise(Level(a)) = Board!Raise(Level(incidents[k]))
    BY <1>2, <2>1, GetAttackOK
  <2> HIDE DEF a, k
  <2>4. /\ IncidentOK(b) /\ Known(b) /\ b.last_seen = ts /\ b.status \in Severity
        /\ Level(b) \in Board!Raise(Level(a))
    BY <1>2, <2>3, ProbeOK
  <2>5. Evidenced(k, b, ts) /\ b \in PortScanAttack
    BY <2>2, <2>3, <2>4 DEF Evidenced, UpdateIncident, IncidentOK, Typed
  <2>6. sweep_lines' \in [Keys -> Nat]
    BY <1>4, <2>1, <2>2
  <2> QED  BY <2>1, <2>2, <2>5, <2>6
<1>6. CASE Reply(e, d)
  <2> DEFINE k == ReplyKey(e)
             a == GetAttack(AfterSweep(ts), k, ts)
             b == Settle(ReplySeen(a, e), ts)
  <2>1. k \in Keys
    BY <1>2, SegmentFields
  <2>2. Arrives(d) /\ UpdateIncident(k, a, ReplySeen(a, e), ts)
    BY <1>6 DEF Reply
  <2>3. /\ IncidentOK(a) /\ Known(a)
        /\ Board!Raise(Level(a)) = Board!Raise(Level(incidents[k]))
    BY <1>2, <2>1, GetAttackOK
  <2> HIDE DEF a, k
  <2>4. /\ IncidentOK(b) /\ Known(b) /\ b.last_seen = ts /\ b.status \in Severity
        /\ Level(b) \in Board!Raise(Level(a))
    BY <1>2, <2>3, ReplyOK
  <2>5. Evidenced(k, b, ts) /\ b \in PortScanAttack
    BY <2>2, <2>3, <2>4 DEF Evidenced, UpdateIncident, IncidentOK, Typed
  <2>6. sweep_lines' \in [Keys -> Nat]
    BY <1>4, <2>1, <2>2
  <2> QED  BY <2>1, <2>2, <2>5, <2>6
<1>7. CASE OtherSegment(e, d)
  BY <1>3, <1>7 DEF OtherSegment
<1> QED  BY <1>1, <1>5, <1>6, <1>7

-----------------------------------------------------------------------------

LEMMA InitIInv == Init => IInv /\ TimeInv
<1> SUFFICES ASSUME Init PROVE IInv /\ TimeInv
  OBVIOUS
<1>1. \A k \in Keys : incidents[k] = AbsentAttack
  BY DEF Init
<1>2. AbsentAttack \in PortScanAttack
  BY AbsentOK DEF IncidentOK, Typed
<1>3. IInv
  BY <1>1, <1>2, AbsentOK, PortScanAssumption DEF Init, IInv
<1>4. ~Known(AbsentAttack) /\ AbsentAttack.status \notin Severity \cup {"decayed"}
  BY DEF AbsentAttack, NewPortScanAttack, Known, Severity
<1>5. TimeInv
  BY <1>1, <1>4, PortScanAssumption DEF Init, TimeInv, Timed
<1> QED  BY <1>3, <1>5

LEMMA StepIInv == IInv /\ [Next]_vars => IInv'
<1> SUFFICES ASSUME IInv, [Next]_vars PROVE IInv'
  OBVIOUS
<1> USE PortScanAssumption
<1>1. CASE Next
  <2>1. PICK d \in Elapsed :
          /\ Arrives(d)
          /\ sweep_lines' \in [Keys -> Nat]
          /\ \/ incidents' = AfterSweep(now + d)
             \/ \E k \in Keys, b \in PortScanAttack : Evidenced(k, b, now + d)
    BY <1>1, StepShape
  <2>2. now + d \in Nat
    BY <2>1 DEF Arrives
  <2>3. now' \in Nat /\ last_cleanup' \in Nat /\ setback' \in Nat
    BY <2>1, <2>2 DEF Arrives, IInv
  <2>4. CASE incidents' = AfterSweep(now + d)
    BY <2>1, <2>2, <2>3, <2>4, SweepOK, SweepShape DEF IInv
  <2>5. ASSUME NEW k \in Keys, NEW b \in PortScanAttack, Evidenced(k, b, now + d)
        PROVE  IInv'
    <3>1. AfterSweep(now + d) \in [Keys -> PortScanAttack]
      BY <2>2, SweepShape
    <3>2. incidents' \in [Keys -> PortScanAttack]
      BY <2>5, <3>1 DEF Evidenced
    <3>3. ASSUME NEW j \in Keys PROVE IncidentOK(incidents'[j])
      BY <2>2, <2>5, <3>1, SweepOK DEF Evidenced
    <3> QED  BY <2>1, <2>3, <3>2, <3>3 DEF IInv
  <2> QED  BY <2>1, <2>4, <2>5
<1>2. CASE UNCHANGED vars
  BY <1>2 DEF vars, IInv
<1> QED  BY <1>1, <1>2

LEMMA StepTimeInv == IInv /\ TimeInv /\ [Next]_vars => TimeInv'
<1> SUFFICES ASSUME IInv, TimeInv, [Next]_vars PROVE TimeInv'
  OBVIOUS
<1> USE PortScanAssumption, IdleExpiryAssumption
<1>1. CASE Next
  <2>1. PICK d \in Elapsed :
          /\ Arrives(d)
          /\ \/ incidents' = AfterSweep(now + d)
             \/ \E k \in Keys, b \in PortScanAttack : Evidenced(k, b, now + d)
    BY <1>1, StepShape
  <2> DEFINE ts == now + d
  <2>2. /\ ts \in Nat /\ now \in Nat /\ last_cleanup \in Nat /\ setback \in Nat
        /\ d \in Int /\ last_cleanup <= now + setback
    BY <2>1 DEF IInv, TimeInv, Arrives
  <2>3. /\ now' = ts
        /\ last_cleanup' = IF CleanupDue(ts) THEN ts ELSE last_cleanup
        /\ setback' = IF CleanupDue(ts) THEN 0 ELSE setback + (IF d < 0 THEN -d ELSE 0)
    BY <2>1 DEF Arrives
  <2>4. /\ last_cleanup' \in Nat /\ setback' \in Nat
        /\ last_cleanup' <= ts + setback'
        /\ ts - last_cleanup' <= CleanupInterval
    BY <2>2, <2>3 DEF CleanupDue
  <2>5. ASSUME NEW k \in Keys PROVE Timed(AfterSweep(ts)[k], last_cleanup', setback')
    <3> DEFINE a == incidents[k]
               s == AfterSweep(ts)[k]
    <3>1. a.last_seen \in Nat /\ a \in PortScanAttack /\ Timed(a, last_cleanup, setback)
      BY Fields DEF IInv, TimeInv
    <3>2. CASE s = a /\ (CleanupDue(ts) /\ a.status \in Severity => ~IsExpired(a, ts))
      <4>1. CASE CleanupDue(ts)
        <5>1. last_cleanup' = ts /\ setback' = 0 /\ ts > last_cleanup
          BY <2>2, <2>3, <4>1 DEF CleanupDue
        <5> QED  BY <2>2, <3>1, <3>2, <4>1, <5>1 DEF Timed, IsExpired
      <4>2. CASE ~CleanupDue(ts)
        <5>1. last_cleanup' = last_cleanup /\ setback' >= setback
          BY <2>2, <2>3, <4>2
        <5> QED  BY <2>2, <2>4, <3>1, <3>2, <5>1 DEF Timed
      <4> QED  BY <4>1, <4>2
    <3>3. CASE s = Decay(a) /\ a.status \in Severity /\ CleanupDue(ts) /\ IsExpired(a, ts)
      <4>1. s.status = "decayed" /\ s.last_seen = a.last_seen
        BY <3>1, <3>3 DEF Decay, Severity, PortScanAttack
      <4> QED  BY <2>2, <2>3, <3>1, <3>3, <4>1 DEF Timed, IsExpired, Severity
    <3> QED  BY <2>2, <3>2, <3>3, SweepOK
  <2>6. CASE incidents' = AfterSweep(ts)
    BY <2>3, <2>4, <2>5, <2>6 DEF TimeInv
  <2>7. ASSUME NEW k \in Keys, NEW b \in PortScanAttack, Evidenced(k, b, ts)
        PROVE  TimeInv'
    <3>1. AfterSweep(ts) \in [Keys -> PortScanAttack]
      BY <2>2, SweepShape
    <3>2. Timed(b, last_cleanup', setback')
      BY <2>2, <2>4, <2>7 DEF Timed, Evidenced, Severity
    <3>3. ASSUME NEW j \in Keys PROVE Timed(incidents'[j], last_cleanup', setback')
      <4>1. CASE j = k
        BY <2>7, <3>1, <3>2, <4>1 DEF Evidenced
      <4>2. CASE j # k
        BY <2>5, <2>7, <3>1, <4>2 DEF Evidenced
      <4> QED  BY <4>1, <4>2
    <3> QED  BY <2>3, <2>4, <3>3 DEF TimeInv
  <2> QED  BY <2>1, <2>6, <2>7
<1>2. CASE UNCHANGED vars
  BY <1>2 DEF vars, TimeInv, Timed, Known
<1> QED  BY <1>1, <1>2

LEMMA Inductive == Spec => [](IInv /\ TimeInv)
<1>1. IInv /\ TimeInv /\ [Next]_vars => IInv' /\ TimeInv'
  BY StepIInv, StepTimeInv
<1> QED  BY InitIInv, <1>1, PTL DEF Spec

-----------------------------------------------------------------------------

\* The detector's state always has its type, so that no escalation ever
\* compares a rung that is not on the ladder (attack.py:73-79).
THEOREM TypeCorrect == Spec => []TypeOK
<1>1. IInv => TypeOK
  BY DEF IInv, IncidentOK, Typed, TypeOK
<1> QED  BY <1>1, Inductive, PTL

\* Every packet and every answered SYN is accounted for, however probes and
\* replies of any number of hosts interleave (port_scan_attack.py:57-95).
THEOREM RepliesAccountedAlways == Spec => []RepliesAccounted
<1>1. IInv => RepliesAccounted
  BY DEF IInv, IncidentOK, Accounted, RepliesAccounted
<1> QED  BY <1>1, Inductive, PTL

\* An incident is confirmed exactly by its independent evidence, whatever
\* the clauses of confirmed_by and the decays in between.
THEOREM ConfirmedIffEvidenceAlways == Spec => []ConfirmedIffEvidence
<1>1. IInv => ConfirmedIffEvidence
  BY DEF IInv, IncidentOK, Graded, ConfirmedIffEvidence
<1> QED  BY <1>1, Inductive, PTL

\* Only what is idle is shown as decayed.
THEOREM DecayedIsIdleAlways == Spec => []DecayedIsIdle
<1>1. ASSUME IInv, TimeInv PROVE DecayedIsIdle
  <2> SUFFICES ASSUME NEW k \in Keys, incidents[k].status = "decayed"
               PROVE  now - incidents[k].last_seen > IdleExpiry - setback
    BY DEF DecayedIsIdle
  <2>1. /\ last_cleanup <= now + setback
        /\ last_cleanup - incidents[k].last_seen > IdleExpiry
    BY <1>1 DEF TimeInv, Timed
  <2>2. /\ now \in Nat /\ setback \in Nat /\ last_cleanup \in Nat
        /\ incidents[k].last_seen \in Nat
    BY <1>1, Fields DEF IInv
  <2> QED  BY <2>1, <2>2, IdleExpiryAssumption
<1> QED  BY <1>1, Inductive, PTL

\* The time gate delays a decay by no more than one cleanup interval.
THEOREM StalenessBoundedAlways == Spec => []StalenessBounded
<1>1. ASSUME IInv, TimeInv PROVE StalenessBounded
  <2> DEFINE lag == IF setback > IdleExpiry THEN setback ELSE IdleExpiry
  <2> SUFFICES ASSUME NEW k \in Keys, incidents[k].status \in Severity
               PROVE  now - incidents[k].last_seen <= CleanupInterval + lag
    BY DEF StalenessBounded
  <2>1. Known(incidents[k])
    BY DEF Known, Severity
  <2>2. /\ now - last_cleanup <= CleanupInterval
        /\ last_cleanup - incidents[k].last_seen <= lag
    BY <1>1, <2>1 DEF TimeInv, Timed
  <2>3. /\ now \in Nat /\ last_cleanup \in Nat /\ incidents[k].last_seen \in Nat
        /\ lag \in Int
    BY <1>1, Fields, IdleExpiryAssumption DEF IInv
  <2> HIDE DEF lag
  <2> QED  BY <2>2, <2>3, PortScanAssumption
<1> QED  BY <1>1, Inductive, PTL

-----------------------------------------------------------------------------

\* Levels and idleness of the board, incident by incident.
LEMMA LevelType ==
  ASSUME NEW a, IncidentOK(a)
  PROVE  Level(a) \in 0..3 /\ (Known(a) => Level(a) > 0)
<1>1. CASE ~Known(a)
  BY <1>1 DEF Level
<1>2. CASE Known(a)
  <2>1. Peak(a) \in Severity
    BY <1>2 DEF IncidentOK, Typed, PortScanAttack, Peak, Known, Status, Severity, None
  <2> QED  BY <1>2, <2>1 DEF Level, Rank, Severity
<1> QED  BY <1>1, <1>2

\* A key whose incident the step does not record is quiet on the board.
LEMMA SweptQuiet ==
  ASSUME IInv, NEW ts \in Nat, NEW k \in Keys, incidents'[k] = AfterSweep(ts)[k]
  PROVE  Board!Quiet(k)
<1> DEFINE a == incidents[k]
           s == AfterSweep(ts)[k]
<1>1. Level(s) = Level(a)
  BY SweptLevel
<1>2. /\ a.status = "decayed" => s.status = "decayed"
      /\ s.status = "decayed" => a.status = "decayed" \/ Level(a) > 0
  <2>1. CASE s = a
    BY <2>1
  <2>2. CASE s = Decay(a) /\ a.status \in Severity
    <3>1. Known(a)
      BY <2>2 DEF Known, Severity
    <3> QED  BY <2>2, <3>1, LevelType DEF IInv, Severity
  <2> QED  BY <2>1, <2>2, SweepOK
<1>3. Level(incidents'[k]) = Level(incidents[k])
  BY <1>1
<1> QED  BY <1>2, <1>3 DEF Board!Quiet

LEMMA StepBoard == IInv /\ [Next]_vars => [Board!Packet]_(Board!boardVars)
<1> SUFFICES ASSUME IInv, [Next]_vars PROVE [Board!Packet]_(Board!boardVars)
  OBVIOUS
<1> USE PortScanAssumption
<1>1. CASE Next
  <2>1. PICK d \in Elapsed :
          /\ Arrives(d)
          /\ incidents' = AfterSweep(now + d)
             \/ \E k \in Keys, b \in PortScanAttack : Evidenced(k, b, now + d)
    BY <1>1, StepShape
  <2> DEFINE ts == now + d
  <2>2. ts \in Nat
    BY <2>1 DEF Arrives
  <2>3. IInv'
    BY StepIInv
  <2>4. \A k \in Keys : Level(incidents'[k]) \in 0..3
    BY <2>3, LevelType DEF IInv
  <2>5. \A k \in Keys : Board!Hit(k) \/ Board!Quiet(k)
    <3>1. CASE incidents' = AfterSweep(ts)
      BY <2>2, <3>1, SweptQuiet
    <3>2. ASSUME NEW j \in Keys, NEW b \in PortScanAttack, Evidenced(j, b, ts),
                 NEW k \in Keys
          PROVE  Board!Hit(k) \/ Board!Quiet(k)
      <4>1. AfterSweep(ts) \in [Keys -> PortScanAttack]
        BY <2>2, SweepShape
      <4>2. CASE k = j
        <5>1. incidents'[k] = b
          BY <3>2, <4>1, <4>2 DEF Evidenced
        <5>2. Level(incidents'[k]) \in Board!Raise(Level(incidents[k]))
          BY <3>2, <4>2, <5>1 DEF Evidenced
        <5>3. incidents'[k].status # "decayed"
          BY <3>2, <5>1 DEF Evidenced, Severity
        <5> QED  BY <5>2, <5>3 DEF Board!Hit, Board!Climb, Board!Raise
      <4>3. CASE k # j
        <5>1. incidents'[k] = AfterSweep(ts)[k]
          BY <3>2, <4>1, <4>3 DEF Evidenced
        <5> QED  BY <2>2, <5>1, SweptQuiet
      <4> QED  BY <4>2, <4>3
    <3> QED  BY <2>1, <3>1, <3>2
  <2> QED  BY <2>4, <2>5 DEF Board!Packet
<1>2. CASE UNCHANGED vars
  BY <1>2 DEF vars, Board!boardVars, Level, Known, Peak
<1> QED  BY <1>1, <1>2

\* The port scan detector implements the incident board: a packet is
\* evidence against at most the incidents it names, nothing is ever
\* forgotten or demoted, and only idle incidents are hidden.
THEOREM PortScanImplementsBoard == Spec => ImplementsBoard
<1>1. Init => Board!BoardInit
  <2> SUFFICES ASSUME Init PROVE Board!BoardInit
    OBVIOUS
  <2>1. \A k \in Keys : Level(incidents[k]) = 0 /\ incidents[k].status # "decayed"
    BY DEF Init, AbsentAttack, NewPortScanAttack, Level, Known
  <2> QED  BY <2>1 DEF Board!BoardInit
<1> QED  BY <1>1, Inductive, StepBoard, PTL DEF Spec, ImplementsBoard, Board!BoardSpec

-----------------------------------------------------------------------------

(* The [PORT SWEEP] lines: only the ports of an incident matter, and only  *)
(* the packet that is evidence against it adds one.                        *)

LinesOf(a, lines) ==
  IsFiniteSet(a.ports) /\ lines = Cardinality(a.ports) \div PortAlertThreshold

LinesInv == \A k \in Keys : LinesOf(incidents[k], sweep_lines[k])

\* Counting on by one passes a multiple exactly when it reaches one.
LEMMA NextMultiple ==
  ASSUME NEW n \in Nat
  PROVE  (n + 1) \div PortAlertThreshold =
           (n \div PortAlertThreshold) + (IF (n + 1) % PortAlertThreshold = 0 THEN 1 ELSE 0)
  BY PortScanAssumption, SMTT(30)

\* Neither the sweep nor record touches the ports.
LEMMA SweptPorts ==
  ASSUME IInv, NEW ts \in Nat, NEW k \in Keys
  PROVE  AfterSweep(ts)[k].ports = incidents[k].ports
<1>1. incidents[k] \in PortScanAttack
  BY DEF IInv
<1>2. Decay(incidents[k]).ports = incidents[k].ports
  BY <1>1 DEF Decay, PortScanAttack
<1> QED  BY <1>2, SweepOK

LEMMA SettledPorts ==
  ASSUME NEW a \in PortScanAttack, NEW ts \in Nat
  PROVE  Settle(a, ts).ports = a.ports
  BY DEF Settle, Record, Escalate, PortScanAttack

\* One packet of incident k, with the line it prints or not.
LEMMA LineStep ==
  ASSUME IInv, LinesInv, NEW ts \in Nat, NEW k \in Keys, NEW port,
         NEW after \in PortScanAttack,
         after.ports = GetAttack(AfterSweep(ts), k, ts).ports \cup {port},
         UpdateIncident(k, GetAttack(AfterSweep(ts), k, ts), after, ts)
  PROVE  LinesInv'
<1> USE PortScanAssumption
<1> DEFINE before == GetAttack(AfterSweep(ts), k, ts)
           m == Cardinality(before.ports)
           n == Cardinality(after.ports)
<1>1. AfterSweep(ts) \in [Keys -> PortScanAttack] /\ sweep_lines \in [Keys -> Nat]
  BY SweepShape DEF IInv
<1>2. before.ports = incidents[k].ports
  <2>1. CASE Known(AfterSweep(ts)[k])
    BY <2>1, SweptPorts DEF GetAttack
  <2>2. CASE ~Known(AfterSweep(ts)[k])
    <3>1. AfterSweep(ts)[k] = AbsentAttack
      BY <2>2, SweepOK DEF IncidentOK, Untouched
    <3>2. incidents[k].ports = {}
      BY <3>1, SweptPorts DEF AbsentAttack, NewPortScanAttack
    <3> QED  BY <2>2, <3>2 DEF GetAttack, NewPortScanAttack
  <2> QED  BY <2>1, <2>2
<1>3. IsFiniteSet(before.ports) /\ sweep_lines[k] = m \div PortAlertThreshold
  BY <1>2 DEF LinesInv, LinesOf
<1>4. m \in Nat
  BY <1>3, FS_CardinalityType
<1>5. IsFiniteSet(after.ports) /\ n = IF port \in before.ports THEN m ELSE m + 1
  BY <1>3, FS_AddElement
<1>6. /\ incidents'[k].ports = after.ports
      /\ sweep_lines'[k] = sweep_lines[k] + (IF SweepLine(before, after) THEN 1 ELSE 0)
  BY <1>1, SettledPorts DEF UpdateIncident
<1>7. \A j \in Keys \ {k} : /\ incidents'[j].ports = incidents[j].ports
                            /\ sweep_lines'[j] = sweep_lines[j]
  BY <1>1, SweptPorts DEF UpdateIncident
<1>8. sweep_lines'[k] = n \div PortAlertThreshold
  <2>1. CASE port \in before.ports
    <3>1. n = m /\ ~SweepLine(before, after)
      BY <1>5, <2>1 DEF SweepLine
    <3> QED  BY <1>3, <1>4, <1>6, <3>1
  <2>2. CASE port \notin before.ports
    <3>1. n = m + 1
      BY <1>5, <2>2
    <3>2. SweepLine(before, after) <=> (m + 1) % PortAlertThreshold = 0
      BY <1>4, <3>1 DEF SweepLine
    <3>3. (m + 1) \div PortAlertThreshold =
            (m \div PortAlertThreshold)
              + (IF (m + 1) % PortAlertThreshold = 0 THEN 1 ELSE 0)
      BY <1>4, NextMultiple
    <3> HIDE DEF m, n, before
    <3> QED  BY <1>3, <1>6, <3>1, <3>2, <3>3
  <2> QED  BY <2>1, <2>2
<1>9. LinesOf(incidents'[k], sweep_lines'[k])
  BY <1>5, <1>6, <1>8 DEF LinesOf
<1>10. ASSUME NEW j \in Keys PROVE LinesOf(incidents'[j], sweep_lines'[j])
  <2>1. CASE j = k
    BY <1>9, <2>1
  <2>2. CASE j # k
    BY <1>7, <2>2 DEF LinesInv, LinesOf
  <2> QED  BY <2>1, <2>2
<1> QED  BY <1>10 DEF LinesInv

LEMMA StepLinesInv == IInv /\ LinesInv /\ [Next]_vars => LinesInv'
<1> SUFFICES ASSUME IInv, LinesInv, [Next]_vars PROVE LinesInv'
  OBVIOUS
<1> USE PortScanAssumption
<1>1. CASE Next
  <2>1. PICK e \in Segments, d \in Elapsed :
          Probe(e, d) \/ Reply(e, d) \/ OtherSegment(e, d)
    BY <1>1 DEF Next
  <2> DEFINE ts == now + d
  <2>2. ts \in Nat /\ e \in Segment
    BY <2>1 DEF Arrives, Probe, Reply, OtherSegment
  <2>3. CASE Probe(e, d)
    <3> DEFINE k == ProbeKey(e)
               a == GetAttack(AfterSweep(ts), k, ts)
               after == ProbeSeen(a, e)
    <3>1. k \in Keys
      BY <2>2, SegmentFields
    <3>2. UpdateIncident(k, a, after, ts)
      BY <2>3 DEF Probe
    <3>3. a \in PortScanAttack
      BY <2>2, <3>1, GetAttackOK DEF IncidentOK, Typed
    <3> HIDE DEF a, k
    <3>4. after.ports = a.ports \cup {PortOf(e)} /\ after \in PortScanAttack
      <4>1. after.ports = a.ports \cup {PortOf(e)}
        BY <3>3 DEF ProbeSeen, PortScanAttack
      <4>2. after \in PortScanAttack
        BY <2>2, <3>3, ProbeType
      <4> QED  BY <4>1, <4>2
    <3> HIDE DEF after
    <3> QED  BY <2>2, <3>1, <3>2, <3>4, LineStep DEF a
  <2>4. CASE Reply(e, d)
    <3> DEFINE k == ReplyKey(e)
               a == GetAttack(AfterSweep(ts), k, ts)
               after == ReplySeen(a, e)
    <3>1. k \in Keys
      BY <2>2, SegmentFields
    <3>2. UpdateIncident(k, a, after, ts)
      BY <2>4 DEF Reply
    <3>3. a \in PortScanAttack
      BY <2>2, <3>1, GetAttackOK DEF IncidentOK, Typed
    <3> HIDE DEF a, k
    <3>4. after.ports = a.ports \cup {PortOf(e)} /\ after \in PortScanAttack
      <4>1. after.ports = a.ports \cup {PortOf(e)}
        BY <3>3 DEF ReplySeen, PortScanAttack
      <4>2. after \in PortScanAttack
        BY <2>2, <3>3, ReplyType
      <4> QED  BY <4>1, <4>2
    <3> HIDE DEF after
    <3> QED  BY <2>2, <3>1, <3>2, <3>4, LineStep DEF a
  <2>5. CASE OtherSegment(e, d)
    <3>1. incidents' = AfterSweep(ts) /\ sweep_lines' = sweep_lines
      BY <2>5 DEF OtherSegment
    <3> QED  BY <2>2, <3>1, SweptPorts DEF LinesInv, LinesOf
  <2> QED  BY <2>1, <2>3, <2>4, <2>5
<1>2. CASE UNCHANGED vars
  BY <1>2 DEF vars, LinesInv
<1> QED  BY <1>1, <1>2

\* The [PORT SWEEP] lines printed for an incident are one per multiple of
\* port_alert_threshold its distinct ports have reached
\* (port_scan_detector.py:112-117).
THEOREM SweepLinesMatchPortsAlways == Spec => []SweepLinesMatchPorts
<1>1. Init => LinesInv
  <2>1. 0 \div PortAlertThreshold = 0
    BY PortScanAssumption
  <2>2. IsFiniteSet({}) /\ Cardinality({}) = 0
    BY FS_EmptySet
  <2>3. AbsentAttack.ports = {}
    BY DEF AbsentAttack, NewPortScanAttack
  <2> QED  BY <2>1, <2>2, <2>3 DEF Init, LinesInv, LinesOf
<1>2. LinesInv => SweepLinesMatchPorts
  BY DEF LinesInv, LinesOf, SweepLinesMatchPorts
<1>3. Spec => []LinesInv
  BY <1>1, Inductive, StepLinesInv, PTL DEF Spec
<1> QED  BY <1>2, <1>3, PTL

----------------------------------------------------------------------------
(* What the board promises, of the port scan detector itself.              *)

Promises == INSTANCE IncidentBoardProofs WITH
  Burst    <- FALSE,
  severity <- [k \in Keys |-> Level(incidents[k])],
  idle     <- {k \in Keys : incidents[k].status = "decayed"}

LEMMA BoardPromises ==
  Board!BoardSpec => Board!NeverDemoted /\ Board!HiddenIsHeld
<1>1. Promises!BoardSpec => Promises!NeverDemoted /\ Promises!HiddenIsHeld
  BY Promises!NeverDemotedAlways, Promises!HiddenIsHeldAlways
<1>2. Board!BoardSpec => Promises!BoardSpec
  BY DEF Board!BoardSpec, Board!BoardInit, Board!Packet, Board!boardVars,
         Board!Hit, Board!Quiet, Board!Climb, Board!Raise,
         Promises!BoardSpec, Promises!BoardInit, Promises!Packet, Promises!boardVars,
         Promises!Hit, Promises!Quiet, Promises!Climb, Promises!Raise
<1>3. /\ Promises!NeverDemoted => Board!NeverDemoted
      /\ Promises!HiddenIsHeld => Board!HiddenIsHeld
  BY DEF Board!NeverDemoted, Board!HiddenIsHeld, Board!boardVars,
         Promises!NeverDemoted, Promises!HiddenIsHeld, Promises!boardVars
<1> QED  BY <1>1, <1>2, <1>3

\* However SYNs, answers, idle gaps and setbacks of the clock are mixed, no
\* port scan incident is lost or loses its rung, and only incidents are shown
\* as decayed, at the rung they keep (attack.py:66-68).
THEOREM PortScanNeverDemotes == Spec => Board!NeverDemoted /\ Board!HiddenIsHeld
BY PortScanImplementsBoard, BoardPromises DEF ImplementsBoard
=============================================================================
