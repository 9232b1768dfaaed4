------------------------------- MODULE Capture -------------------------------
(***************************************************************************)
(* The program as a whole: capture/sniffer.py, capture/parser.py,          *)
(* detection/dispatcher.py, detection/attacks/attacker.py and the base     *)
(* class Detector, one statement per step wherever Ctrl+C between two      *)
(* statements leaves something a reader of the summary may see.            *)
(*                                                                         *)
(* Which packets are evidence, and for what, is decided in modules         *)
(* PortScanDetector and ArpSpoofDetector; here every packet carries the    *)
(* evidence each detector will find in it.  The clock may step either way  *)
(* (time.time()), so any incident may look idle at any sweep.              *)
(*                                                                         *)
(* sniff() is scapy's (2.7.0, requirements.txt): it calls handle_packet    *)
(* for one packet at a time; an exception of the callback closes the       *)
(* socket the packet came from, and without sockets sniff() returns.       *)
(***************************************************************************)
EXTENDS Netinfo, Attack, SequencesExt

CONSTANTS
  Macs,      \* attackers and victims
  Packets,   \* what may pass the interfaces
  Caches,    \* what the neighbour caches may be evidence of
  MaxCount   \* bound: on the evidence counted

\* One piece of evidence, for one detector.
Evidence == [interface : Links, attacker : Macs, victim : Macs,
             floor : {None, "confirmed"}]

\* _register_default_detectors, in order.
Registrations ==
  << [detector |-> "port_scan", protos |-> {"tcp"}],
     [detector |-> "arp_spoof", protos |-> {"arp", "tcp", "udp"}] >>

Detectors == {Registrations[n].detector : n \in DOMAIN Registrations}

\* _detectors_by_proto[proto], by position.
DetectorsFor(proto) ==
  {n \in DOMAIN Registrations : proto \in Registrations[n].protos}

\* Mutant of IsNext: last registered, first called.
IsNextReversed(n, pending) == n \in pending /\ \A m \in pending : m <= n

\* The loop of dispatch takes them in the order of registration.
IsNext(n, pending) == n \in pending /\ \A m \in pending : n <= m

\* bpf_filter.
Filter == UNION {Registrations[n].protos : n \in DOMAIN Registrations}

Layers == {"arp", "ip", "tcp", "udp", "other"}

Packet == [interface : Links, layers : SUBSET Layers,
           evidence : [Detectors -> Seq(Evidence)]]

NoEvent == [interface |-> NoLink, layers |-> {}, evidence |-> [d \in Detectors |-> <<>>]]

\* A packet is evidence of what happens on its own interface.
ASSUME CaptureAssumption ==
  /\ Packets \subseteq Packet
  /\ \A p \in Packets, d \in Detectors : \A n \in DOMAIN p.evidence[d] :
       p.evidence[d][n].interface = p.interface
  /\ Caches \subseteq Seq(Evidence)
  /\ MaxCount \in Nat

\* build_event: the protocol of the event, or None for no event.
ProtoOf(p) ==
  CASE "arp" \in p.layers -> "arp"
    [] "arp" \notin p.layers /\ {"ip", "tcp"} \subseteq p.layers -> "tcp"
    [] "tcp" \notin p.layers /\ "arp" \notin p.layers /\ {"ip", "udp"} \subseteq p.layers -> "udp"
    [] OTHER -> None

VARIABLES
  open,        \* interfaces whose socket sniff() still reads
  event,       \* the packet being handled, or NoEvent
  calls,       \* detectors dispatch has yet to call for it, or is calling
  evidence,    \* what the running call has still to record
  swept,       \* incidents the running call's decay sweep has passed
  due,         \* the running call has yet to resync
  incidents,   \* per detector, the values of its incidents dict in order
  attackers,   \* the list the summary is printed from
  pressed,     \* Ctrl+C was pressed
  seen         \* history: detectors the event has been passed to

callVars == <<event, calls, evidence, swept, due, seen>>
captureVars == <<at, netVars, open, callVars, incidents, attackers, pressed>>

----------------------------------------------------------------------------
(* main before sniff().                                                    *)

Configure ==
  /\ NetNext
  /\ UNCHANGED <<open, callVars, incidents, attackers, pressed>>

\* The constructor of the ARP detector resyncs: the same statements as in a
\* packet's call, without a packet.  The histories of the start-up end.
Construct ==
  /\ at = "ready"
  /\ calls' = {n \in DOMAIN Registrations : Registrations[n].detector = "arp_spoof"}
  /\ due' = TRUE
  /\ at' = "find"
  /\ steady' = {} /\ failed' = {} /\ changes' = 0
  /\ UNCHANGED <<topology, listed, sniffed, wan, lan, open, event, evidence, swept, seen,
                 incidents, attackers, pressed>>

Constructing == event = NoEvent /\ calls # {}

\* sniff() opens its sockets.
Start ==
  /\ at = "opening"
  /\ sniffed # {} /\ sniffed \subseteq topology.up
  /\ at' = "waiting"
  /\ open' = sniffed
  /\ UNCHANGED <<netVars, callVars, incidents, attackers, pressed>>

\* Or raises, and nothing in main catches it: an interface is gone, or there
\* is none at all.
StartFails ==
  /\ at = "opening"
  /\ sniffed = {} \/ ~(sniffed \subseteq topology.up)
  /\ at' = "killed"
  /\ UNCHANGED <<netVars, open, callVars, incidents, attackers, pressed>>

----------------------------------------------------------------------------
(* handle_packet and dispatch.                                             *)

NoCall ==
  /\ event' = NoEvent /\ calls' = {} /\ evidence' = <<>> /\ swept' = 0
  /\ due' = FALSE /\ seen' = {}

\* The attacks of every detector, one detector after the other.
Attacks == FlattenSeq([n \in DOMAIN Registrations |-> incidents[Registrations[n].detector]])

\* The bound: more evidence may come.
Room == FoldLeft(LAMBDA total, a : total + a.count, 0, Attacks) < MaxCount

\* A packet that passes the filter and is an event.
Receive(p) ==
  /\ at = "waiting"
  /\ p.interface \in open
  /\ p.layers \cap Filter # {}
  /\ ProtoOf(p) # None
  /\ Room \/ \A d \in Detectors : p.evidence[d] = <<>>
  /\ event' = p
  /\ calls' = DetectorsFor(ProtoOf(p))
  /\ at' = "dispatch"
  /\ UNCHANGED <<netVars, open, evidence, swept, due, seen, incidents, attackers, pressed>>

\* The position, and the detector, whose turn it is.
Turn == CHOOSE n \in calls : IsNext(n, calls)

Current == Registrations[Turn].detector

\* The ARP detector returns at once outside the LAN.
Ignores(d) == d = "arp_spoof" /\ event.interface \notin lan

\* detector(event): whether its decay sweep is due, and for the ARP detector
\* its resync, is up to the clock.
Call ==
  /\ at = "dispatch"
  /\ calls # {}
  /\ seen' = seen \cup {Turn}
  /\ IF Ignores(Current)
       THEN calls' = calls \ {Turn} /\ UNCHANGED <<at, evidence, due>>
       ELSE /\ evidence' = event.evidence[Current]
            /\ at' \in {"sweep", "find"}
            /\ due' \in (IF Current = "arp_spoof" THEN BOOLEAN ELSE {FALSE})
            /\ UNCHANGED calls
  /\ UNCHANGED <<netVars, open, event, swept, incidents, attackers, pressed>>

\* The for loop of dispatch ends.
Dispatched ==
  /\ at = "dispatch"
  /\ calls = {}
  /\ at' = "waiting"
  /\ NoCall
  /\ UNCHANGED <<netVars, open, incidents, attackers, pressed>>

----------------------------------------------------------------------------
(* One call of a detector.                                                 *)

\* The incidents of the detector that is called.
Own == incidents[Current]

SetOwn(n, a) == incidents' = [incidents EXCEPT ![Current][n] = a]

\* The incidents of the key of a piece of evidence: one, or none.
At(d, e) ==
  {n \in DOMAIN incidents[d] :
     LET a == incidents[d][n]
     IN  a.interface = e.interface /\ a.attacker = e.attacker /\ a.victim = e.victim}

Found == At(Current, Head(evidence))

NewIncident(e) ==
  [kind |-> Current, interface |-> e.interface, attacker |-> e.attacker,
   victim |-> e.victim, status |-> "suspected", pre_decay |-> None, count |-> 0]

\* _expire_idle passes an incident that is not idle, or already decayed.
Pass ==
  /\ at = "sweep"
  /\ swept < Len(Own)
  /\ swept' = swept + 1
  /\ UNCHANGED <<at, netVars, open, event, calls, evidence, due, seen,
                 incidents, attackers, pressed>>

\* Mutant of Remembers: the status changes before it is remembered.
RemembersLate(a) == [a EXCEPT !.status = "decayed"]

Remembers(a) == [a EXCEPT !.pre_decay = a.status]

Hides(a) == [a EXCEPT !.status = "decayed"]

\* decay, first statement.
Remember ==
  /\ at = "sweep"
  /\ swept < Len(Own)
  /\ Own[swept + 1].status # "decayed"
  /\ SetOwn(swept + 1, Remembers(Own[swept + 1]))
  /\ at' = "decay"
  /\ UNCHANGED <<netVars, open, callVars, attackers, pressed>>

\* decay, second statement.
Hide ==
  /\ at = "decay"
  /\ SetOwn(swept + 1, Hides(Own[swept + 1]))
  /\ swept' = swept + 1
  /\ at' = "sweep"
  /\ UNCHANGED <<netVars, open, event, calls, evidence, due, seen, attackers, pressed>>

Swept ==
  /\ at = "sweep"
  /\ swept = Len(Own)
  /\ swept' = 0
  /\ at' = "find"
  /\ UNCHANGED <<netVars, open, event, calls, evidence, due, seen, incidents, attackers, pressed>>

\* _get_attack.
Find ==
  /\ at = "find"
  /\ evidence # <<>>
  /\ incidents' = IF Found # {} THEN incidents
                  ELSE [incidents EXCEPT ![Current] = Append(@, NewIncident(Head(evidence)))]
  /\ at' = "count"
  /\ UNCHANGED <<netVars, open, callVars, attackers, pressed>>

\* Mutant of Counted: a decayed incident that resumes is counted afresh.
CountedAfresh(a) == [a EXCEPT !.count = IF a.status = "decayed" THEN 1 ELSE @ + 1]

Counted(a) == [a EXCEPT !.count = @ + 1]

\* record, the count: the summary shows no other field it assigns.
Count ==
  /\ at = "count"
  /\ \E n \in Found : SetOwn(n, Counted(Own[n]))
  /\ at' = "climb"
  /\ UNCHANGED <<netVars, open, callVars, attackers, pressed>>

\* _escalate, the assignment to status.
Climb ==
  /\ at = "climb"
  /\ \E n \in Found :
       SetOwn(n, [Own[n] EXCEPT !.status = Escalate(Own[n], Head(evidence).floor).status])
  /\ at' = "forget"
  /\ UNCHANGED <<netVars, open, callVars, attackers, pressed>>

\* Mutant of Forgets: the assignment is missing.
ForgetsNever(a) == a

Forgets(a) == [a EXCEPT !.pre_decay = None]

\* _escalate, the assignment to _pre_decay_status.
Forget ==
  /\ at = "forget"
  /\ \E n \in Found : SetOwn(n, Forgets(Own[n]))
  /\ evidence' = Tail(evidence)
  /\ at' = "find"
  /\ UNCHANGED <<netVars, open, event, calls, swept, due, seen, attackers, pressed>>

\* _resync_all: the lease file is read, and the caches of the LAN interfaces
\* may be evidence on any of them.
Resync(found) ==
  /\ at = "find"
  /\ evidence = <<>>
  /\ due
  /\ \A n \in DOMAIN found : found[n].interface \in lan
  /\ Room \/ found = <<>>
  /\ evidence' = found
  /\ due' = FALSE
  /\ UNCHANGED <<at, netVars, open, event, calls, swept, seen, incidents, attackers, pressed>>

\* Or meets a lease line cut short: ValueError, up to sniff(), or out of the
\* program.  Without LAN interfaces no line is matched with one.
Fail ==
  /\ at = "find"
  /\ evidence = <<>>
  /\ due /\ lan # {}
  /\ open' = open \ {event.interface}
  /\ at' = IF Constructing THEN "killed" ELSE IF open' = {} THEN "summary" ELSE "waiting"
  /\ NoCall
  /\ UNCHANGED <<netVars, incidents, attackers, pressed>>

Return ==
  /\ at = "find"
  /\ evidence = <<>>
  /\ ~due
  /\ calls' = calls \ {Turn}
  /\ at' = IF Constructing THEN "opening" ELSE "dispatch"
  /\ UNCHANGED <<netVars, open, event, evidence, swept, due, seen, incidents, attackers, pressed>>

----------------------------------------------------------------------------
(* Ctrl+C and the summary.                                                 *)

Handling == {"dispatch", "sweep", "decay", "find", "count", "climb", "forget"}

\* Inside sniff() once it has its sockets.
Sniffing == at \in {"waiting"} \cup Handling /\ ~Constructing

\* Mutant of Interrupted: nothing catches it.
InterruptedNever == "killed"

\* Where KeyboardInterrupt leads: out of sniff(), the opening of its sockets
\* included, to the summary, and out of the program before that.
Interrupted == IF at = "opening" \/ Sniffing THEN "summary" ELSE "killed"

\* Once: a second Ctrl+C would interrupt the summary itself.
Interrupt ==
  /\ at \in StartUp \cup {"ready", "opening", "waiting"} \cup Handling
  /\ at' = Interrupted
  /\ pressed' = TRUE
  /\ NoCall
  /\ UNCHANGED <<netVars, open, incidents, attackers>>

\* Mutant of Groups: the interface is not part of an attacker's identity.
GroupsByMac(attacker, a) == attacker.mac = a.attacker

\* The key of Attacker.group.
Groups(attacker, a) == attacker.interface = a.interface /\ attacker.mac = a.attacker

\* One round of its loop: setdefault, then append.
AddAttack(list, a) ==
  IF \E n \in DOMAIN list : Groups(list[n], a)
    THEN [n \in DOMAIN list |->
            IF Groups(list[n], a) THEN [list[n] EXCEPT !.attacks = Append(@, a)] ELSE list[n]]
    ELSE Append(list, [interface |-> a.interface, mac |-> a.attacker, attacks |-> <<a>>])

Group(attacks) == FoldLeft(AddAttack, <<>>, attacks)

\* The print at the end of main.
Summarize ==
  /\ at = "summary"
  /\ attackers' = Group(Attacks)
  /\ at' = "done"
  /\ UNCHANGED <<netVars, open, callVars, incidents, pressed>>

Stopped == at \in {"done", "killed"} /\ UNCHANGED captureVars

CaptureInit ==
  /\ NetInit
  /\ open = {}
  /\ event = NoEvent /\ calls = {} /\ evidence = <<>> /\ swept = 0
  /\ due = FALSE /\ seen = {}
  /\ incidents = [d \in Detectors |-> <<>>]
  /\ attackers = <<>>
  /\ pressed = FALSE

\* The statements of a packet's handling, and of a resync's.
Handle ==
  \/ Call \/ Dispatched \/ Return \/ Fail
  \/ \E found \in Caches \cup {<<>>} : Resync(found)
  \/ Pass \/ Remember \/ Hide \/ Swept
  \/ Find \/ Count \/ Climb \/ Forget

CaptureNext ==
  \/ Configure
  \/ Construct \/ Start \/ StartFails
  \/ \E p \in Packets : Receive(p)
  \/ Handle
  \/ Interrupt
  \/ Summarize
  \/ Stopped

\* Statements follow each other; packets and Ctrl+C may or may not come.
CaptureSpec ==
  /\ CaptureInit /\ [][CaptureNext]_captureVars
  /\ WF_captureVars(Handle) /\ WF_captureVars(Summarize)

----------------------------------------------------------------------------
(* Properties.                                                             *)

Incident == [kind : Detectors, interface : Links, attacker : Macs, victim : Macs,
             status : Severity \cup {"decayed"}, pre_decay : Severity \cup {None},
             count : Nat]

\* An incident remembers a rung if and only if it is decayed.
Consistent(a) == a.status = "decayed" <=> a.pre_decay # None

\* The state has its type, a call is under way exactly in its statements,
\* and between calls every incident is consistent.
TypeOK ==
  /\ at \in StartUp \cup Handling
          \cup {"ready", "opening", "waiting", "summary", "done", "killed"}
  /\ open \subseteq sniffed
  /\ event \in Packets \cup {NoEvent}
  /\ at \in Handling <=> event # NoEvent \/ Constructing
  /\ calls \subseteq DOMAIN Registrations /\ evidence \in Seq(Evidence)
  /\ swept \in Nat /\ due \in BOOLEAN /\ seen \subseteq DOMAIN Registrations
  /\ incidents \in [Detectors -> Seq(Incident)]
  /\ at \in {"opening", "waiting", "dispatch"} =>
       \A d \in Detectors : \A n \in DOMAIN incidents[d] : Consistent(incidents[d][n])
  /\ pressed \in BOOLEAN

\* What is held against a key of a detector, at any statement.
BoardKeys == Detectors \X Links \X Macs \X Macs

KeyedAt(k) == At(k[1], [interface |-> k[2], attacker |-> k[3], victim |-> k[4]])

Shown(k) == incidents[k[1]][CHOOSE n \in KeyedAt(k) : TRUE]

\* An incident's rung: none if it is decayed and remembers nothing.
Rung(a) == IF Peak(a) \in Severity THEN Rank(Peak(a)) ELSE 0

SeverityOf(k) == IF KeyedAt(k) = {} THEN 0 ELSE Rung(Shown(k))

IsIdle(k) == KeyedAt(k) # {} /\ Shown(k).status = "decayed"

Board == INSTANCE IncidentBoard WITH
           Keys     <- BoardKeys,
           Burst    <- FALSE,
           severity <- [k \in BoardKeys |-> SeverityOf(k)],
           idle     <- {k \in BoardKeys : IsIdle(k)}

\* Every single statement keeps the promise of the incident board, whatever
\* the clock does: wherever Ctrl+C stops the program, and whichever sockets
\* are lost, the summary forgets and demotes nothing.
BoardAtEveryStatement == Board!BoardSpec

\* What the summary shows of an incident agrees wherever it is stopped: the
\* count may be one ahead of the rung, an incident counted and not escalated,
\* but a rung is never shown without the evidence that was counted for it,
\* and one that was never counted only if Ctrl+C cut its recording off.
RungIsCounted ==
  \A d \in Detectors : \A n \in DOMAIN incidents[d] :
    LET a == incidents[d][n] IN
      /\ Rung(a) <= a.count + 1
      /\ at = "done" /\ ~pressed => a.count > 0

\* dispatcher.py:59-65: an event reaches every detector registered for its
\* protocol, even if one of them raises: the one that may is called last.
EveryDetectorSees ==
  [][event # NoEvent /\ event' = NoEvent /\ ~pressed'
       => DetectorsFor(ProtoOf(event)) \subseteq seen]_captureVars

\* The lines of the summary.
Lines == UNION {{<<n, m>> : m \in DOMAIN attackers[n].attacks} : n \in DOMAIN attackers}

\* attacker.py:25-34: one attacker per (interface, MAC), with every incident
\* of every detector against it, as it stands, on exactly one line.
SummaryGrouped ==
  at = "done" =>
    /\ \A n, m \in DOMAIN attackers :
         /\ attackers[n].interface = attackers[m].interface
         /\ attackers[n].mac = attackers[m].mac
         => n = m
    /\ \A l \in Lines : LET a == attackers[l[1]].attacks[l[2]] IN
         a.interface = attackers[l[1]].interface /\ a.attacker = attackers[l[1]].mac
    /\ \A d \in Detectors : \A n \in DOMAIN incidents[d] :
         \E l \in Lines : attackers[l[1]].attacks[l[2]] = incidents[d][n]
    /\ \A l, k \in Lines :
         attackers[l[1]].attacks[l[2]] = attackers[k[1]].attacks[k[2]] => l = k

\* sniffer.py:37-39: once sniffing has begun the program sniffs for ever or
\* ends with the summary, however it is stopped.
SummaryPrinted ==
  [](Sniffing => (<>(at = "done") \/ <>[]Sniffing))

\* sniffer.py:32, "sniff until Ctrl+C": nothing else ends the capture.
SniffsUntilInterrupt == at \in {"summary", "done"} => pressed
=============================================================================
