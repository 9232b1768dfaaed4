-------------------------- MODULE TcpExchangeProofs --------------------------
(***************************************************************************)
(* Proofs about TcpExchange, for any connections between any hosts, any    *)
(* number of losses and resends, and any sequence numbers.                 *)
(*                                                                         *)
(* The hosts only make the detector take steps of its own, so all that is  *)
(* proved of the detector holds.  What is added ties the open probes to    *)
(* the connections: a connection has one exactly while its SYN waits for   *)
(* the answer, except that a probe with the last sequence number stays.    *)
(***************************************************************************)
EXTENDS TcpExchange, PortScanProofs

Connection(o) == <<o.src, o.dst>>

\* The probe a SYN of o leaves behind.
ProbeOf(o) == OpenProbe(Connection(o), isn[o] + 1)

ProbesInv ==
  /\ \A k \in Keys : \A p \in incidents[k].open : p.ack >= 1
  /\ \A o \in Opens :
       /\ conn[o] = "syn_sent" => ProbeOf(o) \in incidents[KeyOf(o)].open
       /\ \A p \in incidents[KeyOf(o)].open :
            p.conn = Connection(o) =>
              /\ p.ack = isn[o] + 1
              /\ conn[o] = "syn_sent" \/ isn[o] + 1 = SeqSpace

HostsInv ==
  /\ isn \in [Opens -> SeqNumbers]
  /\ conn \in [Opens -> {"closed", "syn_sent", "answered", "half_open", "refused", "reset"}]
  /\ ledger \in [Keys -> [Kinds -> Nat]]

ExchangeInv == HostsInv /\ ProbesInv /\ RepliesExplained

-----------------------------------------------------------------------------
(* The detector among TCP hosts is the detector.                           *)

LEMMA OpenType ==
  ASSUME NEW o \in Opens
  PROVE  /\ KeyOf(o) \in Keys /\ AgainstOf(o) \in Keys
         /\ Connection(o) \in Connections
  BY TcpExchangeAssumption DEF KeyOf, AgainstOf, Connection, Keys, Connections

LEMMA HandshakeSegments ==
  ASSUME NEW o \in Opens, NEW s \in SeqNumbers
  PROVE  /\ FromClient(o, "S", s, 0) \in Segments
         /\ FromServer(o, "SA", 0, s) \in Segments
         /\ FromServer(o, "RA", 0, s) \in Segments
         /\ FromClient(o, "R", s, 0) \in Segments
  BY TcpExchangeAssumption DEF Handshakes

LEMMA NextIsn ==
  ASSUME NEW s \in SeqNumbers
  PROVE  /\ (s + 1) % SeqSpace \in SeqNumbers
         /\ s + 1 = SeqSpace => (s + 1) % SeqSpace = 0
         /\ s + 1 # SeqSpace => (s + 1) % SeqSpace = s + 1
<1>1. SeqSpace \in Nat /\ SeqSpace > 0 /\ s \in Nat /\ s < SeqSpace
  BY PortScanAssumption DEF SeqNumbers
<1> QED  BY <1>1 DEF SeqNumbers

\* Every step of a host is a segment the detector handles.
LEMMA StepIsNext == HostsInv /\ [TcpNext]_tcpVars => [Next]_vars
<1> SUFFICES ASSUME HostsInv, TcpNext PROVE Next
  BY DEF tcpVars, vars
<1>1. PICK o \in Opens, d \in Elapsed :
        \/ \E s \in Isns : Connect(o, s, d)
        \/ ResendSyn(o, d)
        \/ \E arrives \in BOOLEAN : Answer(o, arrives, d)
        \/ ResetHalfOpen(o, d)
  BY DEF TcpNext
<1>2. isn[o] \in SeqNumbers /\ (isn[o] + 1) % SeqSpace \in SeqNumbers
  BY NextIsn DEF HostsInv
<1>3. ASSUME NEW s \in Isns, Connect(o, s, d) PROVE Next
  <2>1. FromClient(o, "S", s, 0) \in Segments
    BY HandshakeSegments, TcpExchangeAssumption
  <2> QED  BY <1>3, <2>1 DEF Connect, Next
<1>4. CASE ResendSyn(o, d)
  BY <1>2, <1>4, HandshakeSegments DEF ResendSyn, Next
<1>5. ASSUME NEW arrives \in BOOLEAN, Answer(o, arrives, d) PROVE Next
  <2>1. FromServer(o, IF o \in Accepting THEN "SA" ELSE "RA", 0,
                   (isn[o] + 1) % SeqSpace) \in Segments
    BY <1>2, HandshakeSegments
  <2> QED  BY <1>5, <2>1 DEF Answer, Next
<1>6. CASE ResetHalfOpen(o, d)
  BY <1>2, <1>6, HandshakeSegments DEF ResetHalfOpen, Next
<1> QED  BY <1>1, <1>3, <1>4, <1>5, <1>6

LEMMA HostsInit == TcpInit => HostsInv
<1>1. 0 \in SeqNumbers
  BY PortScanAssumption DEF SeqNumbers
<1> QED  BY <1>1 DEF TcpInit, HostsInv

LEMMA EnterType ==
  ASSUME HostsInv, NEW k \in Keys, NEW kind \in Kinds, Enter(k, kind)
  PROVE  /\ ledger' \in [Keys -> [Kinds -> Nat]]
         /\ ledger'[k][kind] = ledger[k][kind] + 1
         /\ \A j \in Keys, c \in Kinds :
              j # k \/ c # kind => ledger'[j][c] = ledger[j][c]
<1>1. ledger \in [Keys -> [Kinds -> Nat]]
  BY DEF HostsInv
<1> DEFINE row == [ledger[k] EXCEPT ![kind] = ledger[k][kind] + 1]
<1>2. ledger' = [ledger EXCEPT ![k] = row]
  BY DEF Enter
<1>3. row \in [Kinds -> Nat] /\ row[kind] = ledger[k][kind] + 1
  BY <1>1
<1>4. \A c \in Kinds \ {kind} : row[c] = ledger[k][c]
  BY <1>1
<1> HIDE DEF row
<1> QED  BY <1>1, <1>2, <1>3, <1>4

LEMMA KindType == \A o \in Opens : KindOf(o) \in Kinds
  BY DEF KindOf, Kinds

LEMMA HostsStep == HostsInv /\ [TcpNext]_tcpVars => HostsInv'
<1> SUFFICES ASSUME HostsInv, [TcpNext]_tcpVars PROVE HostsInv'
  OBVIOUS
<1>1. CASE UNCHANGED tcpVars
  BY <1>1 DEF tcpVars, HostsInv
<1>2. ASSUME NEW o \in Opens, NEW d \in Elapsed, NEW s \in Isns, Connect(o, s, d)
      PROVE  HostsInv'
  BY <1>2, TcpExchangeAssumption DEF HostsInv, Connect
<1>3. ASSUME NEW o \in Opens, NEW d \in Elapsed, ResendSyn(o, d)
      PROVE  HostsInv'
  BY <1>3 DEF HostsInv, ResendSyn
<1>4. ASSUME NEW o \in Opens, NEW d \in Elapsed, NEW arrives \in BOOLEAN,
             Answer(o, arrives, d)
      PROVE  HostsInv'
  <2>1. ledger' \in [Keys -> [Kinds -> Nat]]
    BY <1>4, KindType, OpenType, EnterType DEF Answer
  <2>2. conn[o] \in {"closed", "syn_sent", "answered", "half_open", "refused", "reset"}
    BY DEF HostsInv
  <2>3. conn' \in [Opens -> {"closed", "syn_sent", "answered", "half_open", "refused", "reset"}]
    BY <1>4, <2>2 DEF HostsInv, Answer
  <2> QED  BY <1>4, <2>1, <2>3 DEF HostsInv, Answer
<1>5. ASSUME NEW o \in Opens, NEW d \in Elapsed, ResetHalfOpen(o, d)
      PROVE  HostsInv'
  <2>1. ledger' \in [Keys -> [Kinds -> Nat]]
    BY <1>5, OpenType, EnterType DEF ResetHalfOpen, Kinds
  <2> QED  BY <1>5, <2>1 DEF HostsInv, ResetHalfOpen
<1> QED  BY <1>1, <1>2, <1>3, <1>4, <1>5 DEF TcpNext

\* The detector watching TCP hosts behaves as the detector specified alone:
\* everything proved of it holds of this composition.
THEOREM ExchangesAreTraffic == TcpSpec => Spec
<1>1. TcpInit => Init
  BY DEF TcpInit
<1> QED  BY <1>1, HostsInit, HostsStep, StepIsNext, PTL DEF TcpSpec, Spec

-----------------------------------------------------------------------------
(* What a segment does to the reply counters and to the open probes.       *)

\* Two incidents agree on replies and probes.
Alike(a, b) == a.open = b.open /\ a.replies = b.replies /\ a.unmatched = b.unmatched

LEMMA SettleAlike ==
  ASSUME NEW a \in PortScanAttack, NEW ts \in Nat
  PROVE  Alike(Settle(a, ts), a)
<1> DEFINE n == a.count + 1
           c == [a EXCEPT !.count = n, !.last_seen = ts]
<1>1. n \in Nat
  BY DEF PortScanAttack
<1>2. c \in PortScanAttack /\ Alike(c, a)
  BY <1>1 DEF PortScanAttack, Alike
<1>3. \A st \in STRING : Alike([c EXCEPT !.status = st, !.pre_decay = None], c)
  BY <1>2 DEF PortScanAttack, Alike
<1>4. Settle(a, ts) = Escalate(c, IF ConfirmedBy(a) # {} THEN "confirmed" ELSE None)
  BY DEF Settle, Record
<1> HIDE DEF c, n
<1>5. \A f : Alike(Escalate(c, f), c)
  BY <1>2 DEF PortScanAttack, Alike, Escalate
<1> QED  BY <1>2, <1>4, <1>5 DEF Alike

\* What the sweep and _get_attack hand to update_attack.
LEMMA BeforeAlike ==
  ASSUME IInv, NEW ts \in Nat, NEW k \in Keys
  PROVE  /\ Alike(AfterSweep(ts)[k], incidents[k])
         /\ GetAttack(AfterSweep(ts), k, ts) \in PortScanAttack
         /\ Alike(GetAttack(AfterSweep(ts), k, ts), incidents[k])
<1> DEFINE a == incidents[k]
           s == AfterSweep(ts)[k]
           g == GetAttack(AfterSweep(ts), k, ts)
<1>1. a \in PortScanAttack
  BY DEF IInv
<1>2. IncidentOK(s) /\ (s = a \/ s = Decay(a))
  BY SweepOK
<1>3. Alike(s, a)
  <2>1. Alike(Decay(a), a)
    BY <1>1 DEF Decay, Alike, PortScanAttack
  <2> QED  BY <1>2, <2>1 DEF Alike
<1>4. IncidentOK(g)
  BY GetAttackOK
<1>5. g \in PortScanAttack
  BY <1>4 DEF IncidentOK, Typed
<1>6. CASE Known(s)
  BY <1>3, <1>5, <1>6 DEF GetAttack
<1>7. CASE ~Known(s)
  <2>1. s = AbsentAttack /\ g = NewPortScanAttack(ts)
    BY <1>2, <1>7 DEF GetAttack, IncidentOK, Untouched
  <2>2. Alike(g, s)
    BY <2>1 DEF Alike, AbsentAttack, NewPortScanAttack
  <2> QED  BY <1>3, <1>5, <2>2 DEF Alike
<1> QED  BY <1>3, <1>6, <1>7

LEMMA UpdateAlike ==
  ASSUME IInv, NEW ts \in Nat, NEW k \in Keys, NEW before, NEW after \in PortScanAttack,
         UpdateIncident(k, before, after, ts)
  PROVE  /\ Alike(incidents'[k], after)
         /\ \A j \in Keys \ {k} : Alike(incidents'[j], incidents[j])
<1>1. DOMAIN AfterSweep(ts) = Keys
  BY DEF IInv, AfterSweep, ExpireIdle
<1>2. incidents'[k] = Settle(after, ts)
  BY <1>1 DEF UpdateIncident
<1>3. \A j \in Keys \ {k} : incidents'[j] = AfterSweep(ts)[j]
  BY <1>1 DEF UpdateIncident
<1> QED  BY <1>2, <1>3, SettleAlike, BeforeAlike

\* A SYN replaces the open probe of its connection.
LEMMA ProbeEffect ==
  ASSUME IInv, NEW e \in Segment, NEW d \in Elapsed, Probe(e, d)
  PROVE  LET k == ProbeKey(e)
             c == <<e.src, e.dst>>
         IN  /\ incidents'[k].open = {p \in incidents[k].open : p.conn # c}
                                       \cup {OpenProbe(c, e.seq + 1)}
             /\ incidents'[k].replies = incidents[k].replies
             /\ incidents'[k].unmatched = incidents[k].unmatched
             /\ \A j \in Keys \ {k} : Alike(incidents'[j], incidents[j])
<1> DEFINE k  == ProbeKey(e)
           ts == now + d
           b  == GetAttack(AfterSweep(ts), k, ts)
           a  == ProbeSeen(b, e)
<1>1. ts \in Nat
  BY DEF Probe, Arrives
<1>2. k \in Keys
  BY SegmentFields
<1>3. b \in PortScanAttack /\ Alike(b, incidents[k])
  BY <1>1, <1>2, BeforeAlike
<1>4. a \in PortScanAttack
  BY <1>3, ProbeType
<1>5. UpdateIncident(k, b, a, ts)
  BY DEF Probe
<1> HIDE DEF k, ts, b, a
<1>6. Alike(incidents'[k], a) /\ \A j \in Keys \ {k} : Alike(incidents'[j], incidents[j])
  BY <1>1, <1>2, <1>4, <1>5, UpdateAlike
<1>7. /\ a.open = {p \in b.open : p.conn # <<e.src, e.dst>>}
                    \cup {OpenProbe(<<e.src, e.dst>>, e.seq + 1)}
      /\ a.replies = b.replies /\ a.unmatched = b.unmatched
  BY <1>3 DEF a, ProbeSeen, PortScanAttack
<1> QED  BY <1>3, <1>6, <1>7 DEF k, Alike

\* A reply uses up the probe it answers, or counts as unmatched.
LEMMA ReplyEffect ==
  ASSUME IInv, NEW e \in Segment, NEW d \in Elapsed, Reply(e, d)
  PROVE  LET k == ReplyKey(e)
             p == OpenProbe(<<e.dst, e.src>>, e.ack)
         IN  /\ incidents'[k].open = incidents[k].open \ {p}
             /\ incidents'[k].replies = incidents[k].replies + 1
             /\ incidents'[k].unmatched =
                  incidents[k].unmatched + (IF p \in incidents[k].open THEN 0 ELSE 1)
             /\ \A j \in Keys \ {k} : Alike(incidents'[j], incidents[j])
<1> DEFINE k  == ReplyKey(e)
           p  == OpenProbe(<<e.dst, e.src>>, e.ack)
           ts == now + d
           b  == GetAttack(AfterSweep(ts), k, ts)
           a  == ReplySeen(b, e)
<1>1. ts \in Nat
  BY DEF Reply, Arrives
<1>2. k \in Keys
  BY SegmentFields
<1>3. b \in PortScanAttack /\ Alike(b, incidents[k])
  BY <1>1, <1>2, BeforeAlike
<1>4. a \in PortScanAttack
  BY <1>3, ReplyType
<1>5. UpdateIncident(k, b, a, ts)
  BY DEF Reply
<1> HIDE DEF k, ts, b, a
<1>6. Alike(incidents'[k], a) /\ \A j \in Keys \ {k} : Alike(incidents'[j], incidents[j])
  BY <1>1, <1>2, <1>4, <1>5, UpdateAlike
<1>7. /\ a.open = b.open \ {p}
      /\ a.replies = b.replies + 1
      /\ a.unmatched = b.unmatched + (IF p \in b.open THEN 0 ELSE 1)
  <2> HIDE DEF p
  <2> DEFINE q     == OpenProbe(<<e.dst, e.src>>, e.ack)
             ports == b.ports \cup {PortOf(e)}
             n     == b.replies + 1
             v     == [b EXCEPT !.ports = ports, !.replies = n]
  <2>1. a = IF q \in b.open THEN [v EXCEPT !.open = v.open \ {q}]
                             ELSE [v EXCEPT !.unmatched = v.unmatched + 1]
    BY DEF a, ReplySeen
  <2>2. q = p
    BY DEF p
  <2>3. ports \subseteq Ports /\ n \in Nat /\ b.unmatched \in Nat
    <3>1. b.ports \subseteq Ports /\ b.replies \in Nat /\ b.unmatched \in Nat
      BY <1>3, Fields
    <3>2. PortOf(e) \in Ports
      BY SegmentFields
    <3> QED  BY <3>1, <3>2
  <2> HIDE DEF q, ports, n
  <2>4. v \in PortScanAttack
    BY <1>3, <2>3 DEF PortScanAttack
  <2>5. v.open = b.open /\ v.replies = n /\ v.unmatched = b.unmatched
    BY <1>3 DEF PortScanAttack
  <2> HIDE DEF v
  <2>6. CASE q \in b.open
    BY <2>1, <2>2, <2>4, <2>5, <2>6 DEF PortScanAttack, n
  <2>7. CASE q \notin b.open
    BY <2>1, <2>2, <2>3, <2>4, <2>5, <2>7 DEF PortScanAttack, n
  <2> QED  BY <2>6, <2>7
<1> QED  BY <1>3, <1>6, <1>7 DEF k, p, Alike

-----------------------------------------------------------------------------
(* Every step keeps the probes tied to the connections.                    *)

\* A connection is its key and its endpoints.
LEMMA OneConnection ==
  ASSUME NEW o \in Opens, NEW q \in Opens,
         KeyOf(q) = KeyOf(o), Connection(q) = Connection(o)
  PROVE  q = o
  BY TcpExchangeAssumption DEF KeyOf, Connection

LEMMA ExchangeInit == TcpInit => ExchangeInv
<1> SUFFICES ASSUME TcpInit PROVE ProbesInv /\ RepliesExplained
  BY HostsInit DEF ExchangeInv
<1>1. \A k \in Keys : /\ incidents[k].open = {} /\ incidents[k].replies = 0
                       /\ incidents[k].unmatched = 0
  BY DEF TcpInit, Init, AbsentAttack, NewPortScanAttack
<1>2. ProbesInv
  BY <1>1, OpenType DEF TcpInit, ProbesInv
<1>3. RepliesExplained
  BY <1>1 DEF TcpInit, RepliesExplained, Kinds
<1> QED  BY <1>2, <1>3

\* A SYN, sent for the first time or again.
LEMMA SynStep ==
  ASSUME ExchangeInv, IInv, NEW o \in Opens, NEW s \in SeqNumbers, NEW d \in Elapsed,
         Probe(FromClient(o, "S", s, 0), d),
         conn' = [conn EXCEPT ![o] = "syn_sent"],
         isn' = [isn EXCEPT ![o] = s],
         ledger' = ledger
  PROVE  ProbesInv' /\ RepliesExplained'
<1> DEFINE e == FromClient(o, "S", s, 0)
           k == KeyOf(o)
           c == Connection(o)
<1>1. e \in Segment
  BY HandshakeSegments, PortScanAssumption
<1>2. ProbeKey(e) = k /\ <<e.src, e.dst>> = c /\ e.seq = s /\ k \in Keys
  BY OpenType DEF FromClient, ProbeKey, KeyOf, Connection
<1>3. Probe(e, d)
  OBVIOUS
<1> HIDE DEF e
<1>4. /\ incidents'[k].open = {p \in incidents[k].open : p.conn # c} \cup {OpenProbe(c, s + 1)}
      /\ incidents'[k].replies = incidents[k].replies
      /\ incidents'[k].unmatched = incidents[k].unmatched
      /\ \A j \in Keys \ {k} : Alike(incidents'[j], incidents[j])
  BY <1>1, <1>2, <1>3, ProbeEffect
<1>5. RepliesExplained'
  BY <1>4 DEF ExchangeInv, RepliesExplained, Alike
<1>6. s \in Nat
  BY PortScanAssumption DEF SeqNumbers
<1>7. \A j \in Keys : \A p \in incidents'[j].open : p.ack >= 1
  BY <1>4, <1>6 DEF ExchangeInv, ProbesInv, Alike, OpenProbe
<1>8. ASSUME NEW q \in Opens
      PROVE  /\ conn'[q] = "syn_sent" =>
                  OpenProbe(Connection(q), isn'[q] + 1) \in incidents'[KeyOf(q)].open
             /\ \A p \in incidents'[KeyOf(q)].open :
                  p.conn = Connection(q) =>
                    /\ p.ack = isn'[q] + 1
                    /\ conn'[q] = "syn_sent" \/ isn'[q] + 1 = SeqSpace
  <2>1. CASE q = o
    <3>1. conn'[q] = "syn_sent" /\ isn'[q] = s
      BY <2>1 DEF ExchangeInv, HostsInv
    <3> QED  BY <1>4, <2>1, <3>1 DEF OpenProbe
  <2>2. CASE q # o
    <3>1. conn'[q] = conn[q] /\ isn'[q] = isn[q] /\ KeyOf(q) \in Keys
      BY <2>2, OpenType DEF ExchangeInv, HostsInv
    <3>2. KeyOf(q) = k => Connection(q) # c
      BY <2>2, OneConnection
    <3>3. \A p : p.conn = Connection(q) =>
             (p \in incidents'[KeyOf(q)].open <=> p \in incidents[KeyOf(q)].open)
      BY <1>4, <3>1, <3>2 DEF Alike, OpenProbe
    <3>4. OpenProbe(Connection(q), isn[q] + 1).conn = Connection(q)
      BY DEF OpenProbe
    <3> QED  BY <3>1, <3>3, <3>4 DEF ExchangeInv, ProbesInv, ProbeOf
  <2> QED  BY <2>1, <2>2
<1> QED  BY <1>5, <1>7, <1>8 DEF ProbesInv, ProbeOf

\* An answer finds its probe if it is the first since the SYN, unless its
\* number has wrapped, and only then.
LEMMA AnswerStep ==
  ASSUME ExchangeInv, IInv, NEW o \in Opens, NEW arrives \in BOOLEAN, NEW d \in Elapsed,
         Answer(o, arrives, d)
  PROVE  ProbesInv' /\ RepliesExplained'
<1> DEFINE n == (isn[o] + 1) % SeqSpace
           e == FromServer(o, IF o \in Accepting THEN "SA" ELSE "RA", 0, n)
           k == KeyOf(o)
           c == Connection(o)
           p == OpenProbe(c, n)
<1>1. isn[o] \in SeqNumbers
  BY DEF ExchangeInv, HostsInv
<1>2. /\ n \in SeqNumbers
      /\ isn[o] + 1 = SeqSpace => n = 0
      /\ isn[o] + 1 # SeqSpace => n = isn[o] + 1
  BY <1>1, NextIsn
<1> HIDE DEF n
<1>3. e \in Segment
  BY <1>2, HandshakeSegments, PortScanAssumption
<1>4. ReplyKey(e) = k /\ <<e.dst, e.src>> = c /\ e.ack = n /\ k \in Keys
  BY OpenType DEF FromServer, ReplyKey, KeyOf, Connection
<1>5. Reply(e, d)
  BY DEF Answer, n
<1> HIDE DEF e
<1>6. /\ incidents'[k].open = incidents[k].open \ {p}
      /\ incidents'[k].replies = incidents[k].replies + 1
      /\ incidents'[k].unmatched =
           incidents[k].unmatched + (IF p \in incidents[k].open THEN 0 ELSE 1)
      /\ \A j \in Keys \ {k} : Alike(incidents'[j], incidents[j])
  BY <1>3, <1>4, <1>5, ReplyEffect
<1>7. p.conn = c /\ p.ack = n
  BY DEF OpenProbe
<1>8. p \in incidents[k].open <=> KindOf(o) = "first"
  <2>1. ASSUME p \in incidents[k].open PROVE KindOf(o) = "first"
    <3>1. n >= 1 /\ (conn[o] = "syn_sent" \/ isn[o] + 1 = SeqSpace)
      BY <1>4, <1>7, <2>1 DEF ExchangeInv, ProbesInv
    <3> QED  BY <1>2, <3>1 DEF KindOf
  <2>2. ASSUME KindOf(o) = "first" PROVE p \in incidents[k].open
    <3>1. conn[o] = "syn_sent" /\ n = isn[o] + 1
      BY <1>2, <2>2 DEF KindOf
    <3> QED  BY <3>1 DEF ExchangeInv, ProbesInv, ProbeOf
  <2> QED  BY <2>1, <2>2
<1>9. /\ ledger'[k][KindOf(o)] = ledger[k][KindOf(o)] + 1
      /\ \A j \in Keys, x \in Kinds : j # k \/ x # KindOf(o) => ledger'[j][x] = ledger[j][x]
      /\ KindOf(o) \in Kinds
  BY <1>4, KindType, EnterType DEF ExchangeInv, Answer
<1>10. RepliesExplained'
  <2>1. ASSUME NEW j \in Keys
        PROVE  /\ \A x \in Kinds : ledger[j][x] \in Nat
               /\ incidents[j].replies = ledger[j]["first"] + ledger[j]["wrapped"]
                                           + ledger[j]["again"] + ledger[j]["reset"]
               /\ incidents[j].unmatched = ledger[j]["wrapped"] + ledger[j]["again"]
                                             + ledger[j]["reset"]
    BY DEF ExchangeInv, HostsInv, RepliesExplained
  <2>2. ASSUME NEW j \in Keys, j # k
        PROVE  /\ incidents'[j].replies = ledger'[j]["first"] + ledger'[j]["wrapped"]
                                            + ledger'[j]["again"] + ledger'[j]["reset"]
               /\ incidents'[j].unmatched = ledger'[j]["wrapped"] + ledger'[j]["again"]
                                              + ledger'[j]["reset"]
    BY <1>6, <1>9, <2>1, <2>2 DEF Alike, Kinds
  <2>3. /\ incidents'[k].replies = ledger'[k]["first"] + ledger'[k]["wrapped"]
                                     + ledger'[k]["again"] + ledger'[k]["reset"]
        /\ incidents'[k].unmatched = ledger'[k]["wrapped"] + ledger'[k]["again"]
                                       + ledger'[k]["reset"]
    <3> HIDE DEF k
    <3>1. \A x \in Kinds : /\ ledger[k][x] \in Nat
                            /\ ledger'[k][x] = ledger[k][x] + (IF x = KindOf(o) THEN 1 ELSE 0)
      BY <1>4, <1>9, <2>1
    <3>2. /\ incidents'[k].replies = ledger[k]["first"] + ledger[k]["wrapped"]
                                       + ledger[k]["again"] + ledger[k]["reset"] + 1
          /\ incidents'[k].unmatched = ledger[k]["wrapped"] + ledger[k]["again"]
                + ledger[k]["reset"] + (IF KindOf(o) = "first" THEN 0 ELSE 1)
      BY <1>4, <1>6, <1>8, <2>1
    <3>3. KindOf(o) \in {"first", "wrapped", "again"}
      BY DEF KindOf
    <3> QED  BY <3>1, <3>2, <3>3 DEF Kinds
  <2> QED  BY <2>2, <2>3 DEF RepliesExplained
<1>11. \A j \in Keys : \A r \in incidents'[j].open : r.ack >= 1
  BY <1>6 DEF ExchangeInv, ProbesInv, Alike
<1>12. ASSUME NEW q \in Opens
       PROVE  /\ conn'[q] = "syn_sent" =>
                   OpenProbe(Connection(q), isn'[q] + 1) \in incidents'[KeyOf(q)].open
              /\ \A r \in incidents'[KeyOf(q)].open :
                   r.conn = Connection(q) =>
                     /\ r.ack = isn'[q] + 1
                     /\ conn'[q] = "syn_sent" \/ isn'[q] + 1 = SeqSpace
  <2>1. isn' = isn
    BY DEF Answer
  <2>2. CASE q = o
    <3>1. conn'[o] # "syn_sent"
      BY DEF Answer, ExchangeInv, HostsInv
    <3>2. ASSUME NEW r \in incidents'[k].open, r.conn = c
          PROVE  r.ack = isn[o] + 1 /\ isn[o] + 1 = SeqSpace
      <4>1. r \in incidents[k].open /\ r # p
        BY <1>6
      <4>2. r.ack = isn[o] + 1
        BY <3>2, <4>1 DEF ExchangeInv, ProbesInv
      <4>3. r \in [conn : Connections, ack : Nat]
        BY <1>4, <4>1, Fields DEF IInv
      <4>4. r.ack # n
        BY <3>2, <4>1, <4>3 DEF OpenProbe
      <4> QED  BY <1>2, <4>2, <4>4
    <3> QED  BY <2>1, <2>2, <3>1, <3>2
  <2>3. CASE q # o
    <3>1. conn'[q] = conn[q] /\ KeyOf(q) \in Keys
      BY <2>3, OpenType DEF Answer, ExchangeInv, HostsInv
    <3>2. KeyOf(q) = k => Connection(q) # c
      BY <2>3, OneConnection
    <3>3. \A r : r.conn = Connection(q) =>
             (r \in incidents'[KeyOf(q)].open <=> r \in incidents[KeyOf(q)].open)
      BY <1>6, <1>7, <3>1, <3>2 DEF Alike
    <3>4. OpenProbe(Connection(q), isn[q] + 1).conn = Connection(q)
      BY DEF OpenProbe
    <3> QED  BY <2>1, <3>1, <3>3, <3>4 DEF ExchangeInv, ProbesInv, ProbeOf
  <2> QED  BY <2>2, <2>3
<1> QED  BY <1>10, <1>11, <1>12 DEF ProbesInv, ProbeOf

\* A reset acknowledges nothing, so it finds no probe.
LEMMA ResetStep ==
  ASSUME ExchangeInv, IInv, NEW o \in Opens, NEW d \in Elapsed, ResetHalfOpen(o, d)
  PROVE  ProbesInv' /\ RepliesExplained'
<1> DEFINE n == (isn[o] + 1) % SeqSpace
           e == FromClient(o, "R", n, 0)
           k == AgainstOf(o)
           p == OpenProbe(<<o.dst, o.src>>, 0)
<1>1. n \in SeqNumbers
  BY NextIsn DEF ExchangeInv, HostsInv
<1>2. Reply(e, d)
  BY DEF ResetHalfOpen
<1> HIDE DEF n
<1>3. e \in Segment
  BY <1>1, HandshakeSegments, PortScanAssumption
<1>4. ReplyKey(e) = k /\ <<e.dst, e.src>> = <<o.dst, o.src>> /\ e.ack = 0 /\ k \in Keys
  BY OpenType DEF FromClient, ReplyKey, AgainstOf
<1> HIDE DEF e
<1>5. p \notin incidents[k].open
  BY <1>4 DEF OpenProbe, ExchangeInv, ProbesInv
<1>6. /\ incidents'[k].open = incidents[k].open \ {p}
      /\ incidents'[k].replies = incidents[k].replies + 1
      /\ incidents'[k].unmatched =
           incidents[k].unmatched + (IF p \in incidents[k].open THEN 0 ELSE 1)
      /\ \A j \in Keys \ {k} : Alike(incidents'[j], incidents[j])
  <2> HIDE DEF k
  <2> QED  BY <1>2, <1>3, <1>4, ReplyEffect
<1>7. /\ ledger'[k]["reset"] = ledger[k]["reset"] + 1
      /\ \A j \in Keys, x \in Kinds : j # k \/ x # "reset" => ledger'[j][x] = ledger[j][x]
  BY <1>4, EnterType DEF ExchangeInv, ResetHalfOpen, Kinds
<1>8. RepliesExplained'
  <2>1. ASSUME NEW j \in Keys
        PROVE  /\ \A x \in Kinds : ledger[j][x] \in Nat
               /\ incidents[j].replies = ledger[j]["first"] + ledger[j]["wrapped"]
                                           + ledger[j]["again"] + ledger[j]["reset"]
               /\ incidents[j].unmatched = ledger[j]["wrapped"] + ledger[j]["again"]
                                             + ledger[j]["reset"]
    BY DEF ExchangeInv, HostsInv, RepliesExplained
  <2> HIDE DEF k
  <2>2. ASSUME NEW j \in Keys
        PROVE  /\ incidents'[j].replies = ledger'[j]["first"] + ledger'[j]["wrapped"]
                                            + ledger'[j]["again"] + ledger'[j]["reset"]
               /\ incidents'[j].unmatched = ledger'[j]["wrapped"] + ledger'[j]["again"]
                                              + ledger'[j]["reset"]
    <3>1. \A x \in Kinds : /\ ledger[j][x] \in Nat
                            /\ ledger'[j][x] = ledger[j][x]
                                 + (IF j = k /\ x = "reset" THEN 1 ELSE 0)
      BY <1>4, <1>7, <2>1
    <3>2. /\ incidents'[j].replies = incidents[j].replies + (IF j = k THEN 1 ELSE 0)
          /\ incidents'[j].unmatched = incidents[j].unmatched + (IF j = k THEN 1 ELSE 0)
      <4>1. incidents[j].replies \in Nat /\ incidents[j].unmatched \in Nat
        BY Fields DEF IInv
      <4> QED  BY <1>5, <1>6, <4>1 DEF Alike
    <3>3. CASE j = k
      BY <2>1, <3>1, <3>2, <3>3 DEF Kinds
    <3>4. CASE j # k
      BY <2>1, <3>1, <3>2, <3>4 DEF Kinds
    <3> QED  BY <3>3, <3>4
  <2> QED  BY <2>2 DEF RepliesExplained
<1>9. \A j \in Keys : incidents'[j].open = incidents[j].open
  BY <1>4, <1>5, <1>6 DEF Alike
<1>10. /\ isn' = isn
       /\ \A q \in Opens : conn'[q] = "syn_sent" <=> conn[q] = "syn_sent"
  BY DEF ResetHalfOpen, ExchangeInv, HostsInv
<1> QED  BY <1>8, <1>9, <1>10, OpenType DEF ExchangeInv, ProbesInv, ProbeOf

LEMMA ExchangeStep == ExchangeInv /\ IInv /\ [TcpNext]_tcpVars => ExchangeInv'
<1> SUFFICES ASSUME ExchangeInv, IInv, [TcpNext]_tcpVars
             PROVE  ProbesInv' /\ RepliesExplained'
  BY HostsStep DEF ExchangeInv
<1>1. CASE UNCHANGED tcpVars
  BY <1>1 DEF tcpVars, vars, ExchangeInv, ProbesInv, ProbeOf, RepliesExplained
<1>2. ASSUME NEW o \in Opens, NEW d \in Elapsed, NEW s \in Isns, Connect(o, s, d)
      PROVE  ProbesInv' /\ RepliesExplained'
  <2>1. s \in SeqNumbers
    BY TcpExchangeAssumption
  <2> QED  BY <1>2, <2>1, SynStep DEF Connect
<1>3. ASSUME NEW o \in Opens, NEW d \in Elapsed, ResendSyn(o, d)
      PROVE  ProbesInv' /\ RepliesExplained'
  <2>1. isn[o] \in SeqNumbers /\ isn' = [isn EXCEPT ![o] = isn[o]]
    BY <1>3 DEF ResendSyn, ExchangeInv, HostsInv
  <2> QED  BY <1>3, <2>1, SynStep DEF ResendSyn
<1> QED  BY <1>1, <1>2, <1>3, AnswerStep, ResetStep DEF TcpNext

\* Between TCP hosts every reply is explained, for any number of them and
\* any losses: the first answer to a SYN is recognised, and nothing else is.
THEOREM RepliesExplainedAlways == TcpSpec => []RepliesExplained
<1>1. TcpSpec => []IInv
  BY ExchangesAreTraffic, Inductive, PTL
<1>2. TcpSpec => []ExchangeInv
  BY <1>1, ExchangeInit, ExchangeStep, PTL DEF TcpSpec
<1>3. ExchangeInv => RepliesExplained
  BY DEF ExchangeInv
<1> QED  BY <1>2, <1>3, PTL
=============================================================================
