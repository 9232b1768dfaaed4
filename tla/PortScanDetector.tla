-------------------------- MODULE PortScanDetector --------------------------
(***************************************************************************)
(* detectors/port_scan_detector.py with attacks/port_scan_attack.py: the   *)
(* detector is called with every TCP segment the sniffer parses, one at a  *)
(* time.  A SYN is a probe of its receiver by its sender; a RST, RST-ACK   *)
(* or SYN-ACK is a reply, evidence that its receiver probed its sender.    *)
(* A reply that answers a recorded SYN adds no new evidence; any other     *)
(* reply does.                                                             *)
(*                                                                         *)
(* Addresses and ports are opaque.  Sequence numbers are the wire's: they  *)
(* live in 0..SeqSpace-1 and a TCP stack adds modulo SeqSpace.             *)
(***************************************************************************)
EXTENDS Attack, FiniteSets

CONSTANTS
  Interfaces, Macs, Ips, Ports,
  SeqSpace,            \* 2^32 on the wire
  Segments,            \* the TCP segments that may be captured
  Threshold,           \* independent evidence that confirms an incident
  CleanupInterval,     \* minimum seconds between two decay sweeps
  PortAlertThreshold,  \* distinct ports per [PORT SWEEP] line
  StartTime,           \* epoch seconds when the capture starts
  Elapsed,             \* seconds the clock may move between two segments
  MaxTime, MaxSetback, \* bounds: on the clock, on setback,
  MaxCount             \* on an incident's count

Flags      == {"S", "R", "RA", "SA", "other"}
ReplyFlags == {"R", "RA", "SA"}
Endpoints  == [ip : Ips, port : Ports]
SeqNumbers == 0..(SeqSpace - 1)

\* A TCP segment as build_event turns it into a PacketEvent.
Segment == [interface : Interfaces, src_mac : Macs, dst_mac : Macs,
            src : Endpoints, dst : Endpoints, flags : Flags,
            seq : SeqNumbers, ack : SeqNumbers]

ASSUME PortScanAssumption ==
  /\ SeqSpace \in Nat \ {0}
  /\ Segments \subseteq Segment
  /\ Threshold \in Nat \ {0}
  /\ CleanupInterval \in Nat
  /\ PortAlertThreshold \in Nat \ {0}
  /\ StartTime \in Nat
  /\ Elapsed \subseteq Int
  /\ MaxTime \in Nat /\ MaxSetback \in Nat
  /\ MaxCount \in Nat

VARIABLES
  incidents,      \* the incidents dict, "absent" where there is no entry
  last_cleanup,   \* time of the last decay sweep
  now,            \* timestamp of the last event
  setback,        \* history: seconds the clock was set back since that sweep
  sweep_lines     \* history: [PORT SWEEP] lines printed per incident

vars == <<incidents, last_cleanup, now, setback, sweep_lines>>

Keys        == Interfaces \X Macs \X Macs
Connections == Endpoints \X Endpoints

NewPortScanAttack(ts) ==
  [status |-> "suspected", pre_decay |-> None, count |-> 0, last_seen |-> ts,
   probes |-> 0, replies |-> 0, unmatched |-> 0, ports |-> {}, open |-> {}]

AbsentAttack == [NewPortScanAttack(0) EXCEPT !.status = "absent"]

\* _open_probes is a dict from connections to the ack a reply must carry,
\* kept here as the set of its items.
OpenProbe(c, ack) == [conn |-> c, ack |-> ack]

----------------------------------------------------------------------------
(* The handler, one operator per method; ProbeSeen and ReplySeen are the   *)
(* two branches of update_attack.                                          *)

\* build_event: the port a segment is about.
PortOf(e) == IF e.flags \in ReplyFlags THEN e.src.port ELSE e.dst.port

ProbeSeen(a, e) ==
  LET c == <<e.src, e.dst>>
  IN  [a EXCEPT !.ports = @ \cup {PortOf(e)}, !.probes = @ + 1,
                !.open = {p \in @ : p.conn # c} \cup {OpenProbe(c, e.seq + 1)}]

\* Mutant of ReplySeen: an answered SYN stays open, and is answered again.
ReplySeenKeepsProbe(a, e) ==
  LET seen == [a EXCEPT !.ports = @ \cup {PortOf(e)}, !.replies = @ + 1]
  IN  IF OpenProbe(<<e.dst, e.src>>, e.ack) \in a.open
        THEN seen
        ELSE [seen EXCEPT !.unmatched = @ + 1]

\* Mutant of ReplySeen: the connection is looked up without reversing it.
ReplySeenUnreversed(a, e) ==
  LET answered == OpenProbe(<<e.src, e.dst>>, e.ack)
      seen     == [a EXCEPT !.ports = @ \cup {PortOf(e)}, !.replies = @ + 1]
  IN  IF answered \in a.open
        THEN [seen EXCEPT !.open = @ \ {answered}]
        ELSE [seen EXCEPT !.unmatched = @ + 1]

ReplySeen(a, e) ==
  LET answered == OpenProbe(<<e.dst, e.src>>, e.ack)
      seen     == [a EXCEPT !.ports = @ \cup {PortOf(e)}, !.replies = @ + 1]
  IN  IF answered \in a.open
        THEN [seen EXCEPT !.open = @ \ {answered}]
        ELSE [seen EXCEPT !.unmatched = @ + 1]

\* Mutant of ConfirmedBy: the combined clause is forgotten.
ConfirmedByOneSide(a) ==
  {c \in {"syns", "replies"} : \/ c = "syns" /\ a.probes >= Threshold
                               \/ c = "replies" /\ a.replies >= Threshold}

\* confirmed_by: the clauses that hold, the combined one only as a fallback.
ConfirmedBy(a) ==
  LET alone == {c \in {"syns", "replies"} :
                  \/ c = "syns" /\ a.probes >= Threshold
                  \/ c = "replies" /\ a.replies >= Threshold}
  IN  IF alone = {} /\ a.probes + a.unmatched >= Threshold
        THEN {"syns+unmatched"}
        ELSE alone

\* Mutant of SweepLine: a repeated hit on the last port prints again.
SweepLineOnRepeat(before, after) ==
  Cardinality(after.ports) # 0 /\ Cardinality(after.ports) % PortAlertThreshold = 0

\* The condition under which _update_incident prints a [PORT SWEEP] line.
SweepLine(before, after) ==
  LET n == Cardinality(after.ports)
  IN  n # Cardinality(before.ports) /\ n # 0 /\ n % PortAlertThreshold = 0

\* _get_attack.
GetAttack(incs, k, ts) == IF Known(incs[k]) THEN incs[k] ELSE NewPortScanAttack(ts)

\* Mutant of CleanupDue: one sweep at the first segment and none after it.
CleanupDueOnce(ts) == last_cleanup = 0

\* The sweep at the head of __call__.
CleanupDue(ts) == ts - last_cleanup > CleanupInterval

AfterSweep(ts) == IF CleanupDue(ts) THEN ExpireIdle(incidents, ts) ELSE incidents

\* The rest of _update_incident once update_attack has turned before into after.
Settle(after, ts) ==
  Record(after, ts, IF ConfirmedBy(after) # {} THEN "confirmed" ELSE None)

\* The next event runs the sweep if it is due.  Its time is the wall clock's
\* (parser.py:79), which may have been set back since the last one.
Arrives(d) ==
  /\ now + d \in 0..MaxTime
  /\ now' = now + d
  /\ last_cleanup' = IF CleanupDue(now + d) THEN now + d ELSE last_cleanup
  /\ setback' = IF CleanupDue(now + d) THEN 0
                ELSE setback + (IF d < 0 THEN -d ELSE 0)
  /\ setback' <= MaxSetback

\* The attacker a segment accuses comes first in the key.
ProbeKey(e) == <<e.interface, e.src_mac, e.dst_mac>>

ReplyKey(e) == <<e.interface, e.dst_mac, e.src_mac>>

UpdateIncident(k, before, after, ts) ==
  /\ before.count < MaxCount
  /\ incidents' = [AfterSweep(ts) EXCEPT ![k] = Settle(after, ts)]
  /\ sweep_lines' = [sweep_lines EXCEPT
                       ![k] = @ + (IF SweepLine(before, after) THEN 1 ELSE 0)]

\* A SYN.
Probe(e, d) ==
  /\ e.flags = "S"
  /\ Arrives(d)
  /\ LET before == GetAttack(AfterSweep(now + d), ProbeKey(e), now + d)
     IN  UpdateIncident(ProbeKey(e), before, ProbeSeen(before, e), now + d)

\* A RST, RST-ACK or SYN-ACK.
Reply(e, d) ==
  /\ e.flags \in ReplyFlags
  /\ Arrives(d)
  /\ LET before == GetAttack(AfterSweep(now + d), ReplyKey(e), now + d)
     IN  UpdateIncident(ReplyKey(e), before, ReplySeen(before, e), now + d)

\* Any other segment only gives the sweep its chance.
OtherSegment(e, d) ==
  /\ e.flags \notin {"S"} \cup ReplyFlags
  /\ Arrives(d)
  /\ incidents' = AfterSweep(now + d)
  /\ UNCHANGED sweep_lines

Init ==
  /\ incidents = [k \in Keys |-> AbsentAttack]
  /\ last_cleanup = 0
  /\ now = StartTime
  /\ setback = 0
  /\ sweep_lines = [k \in Keys |-> 0]

Next ==
  \E e \in Segments, d \in Elapsed :
    Probe(e, d) \/ Reply(e, d) \/ OtherSegment(e, d)

Spec == Init /\ [][Next]_vars

----------------------------------------------------------------------------
(* Properties.                                                             *)

PortScanAttack ==
  [status : Status, pre_decay : Severity \cup {None}, count : Nat,
   last_seen : Nat, probes : Nat, replies : Nat, unmatched : Nat,
   ports : SUBSET Ports, open : SUBSET [conn : Connections, ack : Nat]]

\* The state has its type, and exactly the decayed incidents remember a rung:
\* a decayed one without it would make max(..., key=order.index) raise.
TypeOK ==
  /\ incidents \in [Keys -> PortScanAttack]
  /\ last_cleanup \in Nat
  /\ now \in Nat /\ setback \in Nat
  /\ sweep_lines \in [Keys -> Nat]
  /\ \A k \in Keys : incidents[k].status = "decayed" <=> incidents[k].pre_decay # None

\* Evidence that does not depend on the recorded SYNs' answers.
Evidence(a) == a.probes + a.unmatched

\* The counters account for each other: every packet is one probe or one
\* reply, and every reply that was not counted as unmatched used up one
\* recorded SYN, so the SYNs still open and the answered ones are no more
\* than the probes (update_attack, RULES 1 to 3).
RepliesAccounted ==
  \A k \in Keys : LET a == incidents[k] IN
    /\ a.count = a.probes + a.replies
    /\ a.unmatched <= a.replies
    /\ Cardinality(a.open) + (a.replies - a.unmatched) <= a.probes

\* An incident is confirmed exactly when its independent evidence, SYNs plus
\* unmatched replies, reaches the threshold, and is ongoing from the next
\* packet on, however often it decayed in between.  The three clauses of
\* confirmed_by therefore come to the single combined one.
ConfirmedIffEvidence ==
  \A k \in Keys : LET a == incidents[k] IN
    Known(a) => /\ Peak(a) = "suspected" <=> Evidence(a) < Threshold
                /\ Peak(a) = "confirmed" => Evidence(a) = Threshold

\* The [PORT SWEEP] lines printed for an incident are one per multiple of
\* port_alert_threshold its distinct ports have reached: repeated hits print
\* nothing and no multiple is skipped.
SweepLinesMatchPorts ==
  \A k \in Keys :
    sweep_lines[k] = Cardinality(incidents[k].ports) \div PortAlertThreshold

\* What is shown as decayed is idle: no packet of a decayed incident arrived
\* within idle_expiry, whatever the clock did up to the last sweep.  Only a
\* setback after it can make it look less idle than that.
DecayedIsIdle ==
  \A k \in Keys :
    incidents[k].status = "decayed" =>
      now - incidents[k].last_seen > IdleExpiry - setback

\* What is not shown as decayed has not been idle for long: the time gate of
\* the sweep delays a decay by at most cleanup_interval, as of the last TCP
\* segment.  A clock set back since the last sweep silences the sweep until
\* it catches up, which costs nothing up to idle_expiry.
StalenessBounded ==
  \A k \in Keys :
    incidents[k].status \in Severity =>
      now - incidents[k].last_seen <=
        CleanupInterval + (IF setback > IdleExpiry THEN setback ELSE IdleExpiry)

\* How far an incident has climbed, 0 where there is none.
Level(a) == IF Known(a) THEN Rank(Peak(a)) ELSE 0

\* The refinement of what a detector promises: severities never drop, no
\* incident is forgotten, only idle marking and evidence move the board.
Board == INSTANCE IncidentBoard WITH
           Burst    <- FALSE,
           severity <- [k \in Keys |-> Level(incidents[k])],
           idle     <- {k \in Keys : incidents[k].status = "decayed"}

ImplementsBoard == Board!BoardSpec

\* port_scan_detector.py:69-72 says that the sweep runs first "so a packet
\* resuming a long-idle incident finds it already decayed and can restore it,
\* instead of refreshing last_seen before the sweep looks": whenever an idle
\* incident gets a packet, it was decayed, by this packet's sweep or before.
ResumedFromDecay ==
  [][\A k \in Keys :
       (/\ incidents[k].status \in Severity
        /\ incidents'[k].count > incidents[k].count
        /\ now' - incidents[k].last_seen > IdleExpiry)
         => now' - last_cleanup > CleanupInterval]_vars
=============================================================================
