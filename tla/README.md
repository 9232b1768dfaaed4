# MantisEye, specified in TLA+

MantisEye is a passive LAN monitor that runs on the router. It sniffs the LAN
interfaces with Scapy, turns each packet into a `PacketEvent`, and hands it to
two detectors, one for port scans and one for ARP spoofing. Each keeps a dict of
incidents, one per (interface, attacker MAC, victim MAC), that climb the ladder
*suspected → confirmed → ongoing* with the evidence and are shown as *decayed*
while they are idle. On Ctrl+C the incidents are grouped by attacker and
summarised.

This directory specifies the program from interface discovery to the summary,
model-checks it with TLC on small instances and proves its safety properties for
every value of the constants. Paths below are relative to `src/src/mantis_eye/` unless they start
with `src/`.

## 1. Inventory

| Component | State | Operations | Correct when |
|---|---|---|---|
| `detection/attacks/attack.py` **Attack** | status, `_pre_decay_status`, count, last_seen, idle_expiry, evidence for display | `record`, `_escalate`, `decay`, `is_expired`, `to_dict` | a rung is never lost, whatever decays come between; a rung is remembered exactly while decayed |
| `detection/detectors/detector.py` **Detector** | `incidents` | `_expire_idle`, `attacks`, alerts | only what is idle decays, and it decays in bounded time |
| `detectors/port_scan_detector.py`, `attacks/port_scan_attack.py` **PortScanDetector** | per incident: SYN, reply and unmatched counters, ports, `_open_probes`; `_last_cleanup` | `__call__`, `_update_incident`, `update_attack` | an answer to a SYN is no new evidence, anything else counts once; confirmed exactly at the threshold |
| `detectors/arp_spoof_detector.py`, `attacks/arp_spoof_attack.py` **ArpSpoofDetector** | `own_identity`, `bindings`, `pending_state`, `_last_resync`, `_last_cleanup` | `__call__`, four checks, passive learning, resync from DHCP leases and neighbour caches | the router's identity cannot be taken; DHCP prevails over traffic; nothing but DHCP moves a binding |
| `capture/parser.py` **build_event** | – | packet → event, with the direction-adjusted port | a SYN and its answer name the same port |
| `detection/dispatcher.py` **Dispatcher** | protocol → detectors, in order | registration, `bpf_filter`, `dispatch`, `attackers` | every detector of the protocol sees every event, even if one raises |
| `capture/sniffer.py` **Sniffer** | the sockets `sniff()` reads | `main`, `handle_packet`, Ctrl+C, summary | an interrupt between any two statements leaves a truthful summary |
| `detection/attacks/attacker.py` **Attacker** | – | `group`, `summarize` | one attacker per (interface, MAC), every incident on exactly one line |
| `netinfo/interfaces.py` | – | two lists of interfaces from five looks at the OS | a frame is captured once, and the two lists agree |
| `netinfo/dhcp.py` | – | where the lease file is | – |

**How they interact.** The program is one thread: `sniff()` calls
`handle_packet`, which parses, dispatches and returns before the next packet is
taken. The detectors share nothing with each other; both receive TCP. What is
concurrent is the world outside: the hosts whose connections interleave, the
DHCP server that rewrites the lease file while it is read, the kernel's
neighbour caches, the clock, which runs during a resync and may be set back at any
time, and the signal that ends the capture. During start-up it is also the network itself, which is
looked at five times and never again.

**What is hard.** The decay sweep is gated both by time and by traffic. Evidence,
decay and resumption come in any order over hours. Two independent counters
and a dict of open probes decide one status. In the ARP detector four checks
can hit the same incident for one packet, and three sources of trust (own
identity, DHCP, traffic) write to one map at different moments; nobody has to lie
for a lease, a cache and a binding to contradict each other. An exception of a
detector ends not the program but the capture on one interface. Ctrl+C falls
between two assignments that belong together.
`PROJECT.json` lists these hazards, each at its line with the
properties that watch it.

## 2. Modules

| Module | Models | Notes |
|---|---|---|
| `Attack` | attack.py, `Detector._expire_idle` | the incident record and its operators; no state of its own |
| `IncidentBoard` | what both detectors promise | the abstract specification: a severity per key and a set of idle keys; not run on its own, but the target of three refinements |
| `PortScanDetector` | the port scan detector with `update_attack` | one action per kind of segment |
| `TcpExchange` | the same detector between hosts that follow TCP | composes the detector's `Probe` and `Reply` with clients and servers |
| `ArpSpoofDetector` | the ARP detector | one action per packet, one per line read by a resync |
| `ClaimVolume` | the same detector with a history of all claims for an IP | for the contest `_resolve_pending` is documented to hold |
| `HonestLan` | the same detector where nobody lies | composes its actions with a DHCP server, its half-written lease file, hosts and late caches |
| `Netinfo` | interfaces.py during start-up | one action per look at the OS, with changes and failures between them |
| `Capture` | sniffer.py, parser.py, dispatcher.py, attacker.py, detector.py | EXTENDS `Netinfo`; one action per statement whose effect the summary can show |
| `IncidentBoardProofs`, `PortScanProofs`, `TcpExchangeProofs`, `ArpSpoofProofs`, `HonestLanProofs`, `CaptureProofs`, `SummaryProofs` | – | theorems about the specifications |
| `MC*` | – | constants for TLC |

`Attack` is EXTENDed by both detectors, which add their fields to its record
and their own `ConfirmedBy`/`Floor`, and by `Capture`. `IncidentBoard` is INSTANCEd
by all three: the detectors implement it packet by packet, the program statement
by statement. `TcpExchange` EXTENDS `PortScanDetector` and `HonestLan`
`ArpSpoofDetector`, so that their hosts drive the very same actions; `ClaimVolume` adds a
history variable to the latter.

### State and actions against the code

*Dicts* are total functions: a missing incident has status `"absent"`, a
missing binding is `Unbound`, a missing candidate has count 0. `Attack.record`
is `Record`, `_escalate` is `Escalate`, and `max(..., key=order.index)` becomes
the comparison of `Rank`s. `Peak` is the rung an incident holds or remembers.

*PortScanDetector.* `Probe(e, d)`, `Reply(e, d)` and `OtherSegment(e, d)` are the
three paths of `__call__`, `d` seconds after the last event by the wall clock; `d` is
negative where the clock was set back. Each begins with
the sweep when it is due (`AfterSweep`), then finds or makes the incident
(`GetAttack`), applies `update_attack` (`ProbeSeen`, `ReplySeen`), and escalates
(`Settle`). `_open_probes` is the set of its items. `sweep_lines` is a history
variable: the `[PORT SWEEP]` lines printed; `setback` is another, the seconds the clock was
set back since the last sweep. `TcpExchange` adds, for every
connection, its state at the client (`"answered"`: its SYN was answered but the
answer got lost behind the sniffer), the sequence number it drew, the SYNs
sent and the answers sent; `ledger` is history: the replies against every
incident by what they are, a first answer, one whose acknowledgement wrapped to
0, one sent again, a reset. The server answers every SYN and may resend a SYN-ACK, as TCP
stacks do while the handshake is open.

*ArpSpoofDetector.* `Receive(c, d)` is `__call__` up to the resync: sweep,
`_run_checks` (`Judged` for the incidents, `NewBinding` for the trust state),
then either the end of the call or `phase = "opening"`. The resync is one step
per line: `OpenLeases`, `ApplyLease` per lease, `AbortResync` where
`ip_address()` raises on a torn line, `StartNeigh` (where `time.time()` is
read), `ReadNeigh` per interface, `CheckNeigh` per entry, `EndResync`. No packet
is handled in between, since the program is sequential; but the contents of the
files are only chosen when they are read, and time passes. The specification
starts in the constructor's own resync, with `stamp = 0`, which
fails for good (`"failed"`) if the lease file raises. `leased` is a history
variable: the leases of the last file read that no later line of it has
overridden. `grounds` in an incident is history too: whether there has been an
observed fact or only claims.

*HonestLan.* `leases` is the DHCP server's table, `used` every address any machine has
held on an interface, `moved` the addresses leased since the lease file was last
opened, and those whose line that reading did not find whole. A frame names addresses its sender, and the machine it is sent to, hold
or held (`Genuine`): caches may be late without bound. `Hear`, `OpenTable` and
`ReadCache` are the detector's `Receive`, `OpenLeases` and `ReadNeigh`
restricted to such frames, to a file that lists the table or, while the server rewrites
it, a part of it, and to cache entries that were true once. `OpenCut` is `OpenLeases`
where the last line read is cut in its address: `CutTo` is what the rest of it reads as, another
address or none, and `misread` remembers what such lines have bound. A machine without an address speaks from 0.0.0.0.

*Netinfo.* `GetIfList`, `GetBridgeMembers` and `GetWanInterface` are the looks; the
first two happen twice, for `main` and for the Dispatcher. `Change` replaces the topology
between any two of them. `steady` is the set of links nothing has changed about,
`failed` the looks whose command failed, both history.

*Capture.* `at` is the statement: the looks; the constructor's resync, which is a call
without a packet (`Construct`) and may record incidents from the neighbour caches or raise out
of the program; `"opening"`, where `sniff()` opens its sockets; then `"waiting"`,
`"dispatch"`, and inside a call `"sweep"`, `"decay"` (between the two assignments of
`decay`), `"find"`, `"count"` (before `record` counts), `"climb"`, `"forget"` (between the
two assignments of `_escalate`). A packet carries the evidence each detector will find in it
on its own interface, and a resync (`due`, `Resync`) may find some on any LAN interface; what is
evidence, the detectors' own modules decide. Whether a sweep or a resync is due, and whether an
incident is idle, is left open, because `timestamp` is `time.time()` and may step
either way. `Fail` is the `ValueError` of a torn lease file: Scapy catches it, closes the
socket the packet came from, and `sniff()` returns when it has none left.
`Interrupt` is Ctrl+C at any statement; out of `sniff()`, the opening of its sockets included,
it leads to the summary, before that out of the program. Of what `record` assigns, `last_seen`
is not shown and only `to_dict` reads it besides the sweep, for which idleness is left open.

## 3. Runs

| Run | Shows | States |
|---|---|---|
| `port_scan` | two SYNs' ports, their answers, a stray reply, the opposite direction, idle gaps, a clock that is set back: counters, ladder, sweep lines, decay, refinement of the board | 271,902 |
| `tcp_exchange` | lost answers, resent SYNs and SYN-ACKs, two connections and one the other way, resets, the last sequence number: every reply lands on the right incident and is matched unless it is of one of three known kinds | 299,250 |
| `arp_claims` | two machines claim one IP, the router's IP is claimed, traffic is misdelivered, poisoned cache entries: learning, escalation, decay, refinement, by a clock that is set back | 78,632 |
| `arp_leases` | two LANs and a lease file that is absent at first, changes between reads and may be torn: DHCP prevails over a MAC that traffic has already taught and stays in force; the router's own IP, leased, claimed and cached for another, is out of reach | 145,117 |
| `honest_lan` | the router, a host with a fixed address and two machines that share a DHCP address, joins from 0.0.0.0, late caches, a lease file with a line missing or cut, one address reading as the fixed one, as the router's or as none: whom the detector accuses though nobody lies, and that a resync heals | 439,559 |
| `capture` | start-up on a changing topology, the constructor's resync, five kinds of packets on two interfaces and what resyncs find, exceptions, Ctrl+C at any statement, the summary | 87,419 |

The other six runs check one sentence of the repository each and are expected to be
violated; they are the findings of section 6.

**Properties.** `RepliesAccounted` says that the SYNs still open and those
answered are no more than the SYNs counted. `ConfirmedIffEvidence` gives, for
either detector, the status as a function of the evidence, over any number of
decays; for the port scan detector it says that the three clauses of
`confirmed_by` come to one. `DecayedIsIdle` and `StalenessBounded` frame the
sweep from both sides, for a wall clock that may be set back: what is decayed is idle but for the
seconds set back since that sweep, and what is shown as active has been silent for at most
`CleanupInterval` and the larger of these seconds and `IdleExpiry`. `PendingBelowThreshold` says that a candidate never waits
at `learn_threshold`; with it, `_resolve_pending` never finds a second candidate at the
threshold: the first MAC there always wins and no tie is ever deferred, against what is
written at `arp_spoof_detector.py:389-396`; `VolumeDecides`, over the history of all claims, is
that sentence, and the run `arp_contest` refutes it (section 6). `OnlyDhcpRebinds`,
`LearnedFromFreshClaims`, `LeasesInForce` and `OwnBindingGenuine` are the trust
tiers; `LeasesPrevail` is liveness: every lease of a file that its later lines do not override,
and that no torn line comes before, becomes the binding, whoever was learned before the file
held it. `RepliesExplained` accounts for every reply of TCP
hosts: what is not matched is known by kind, including the two kinds the
code does not mean to leave unmatched. `AccusedShareAddress` bounds the false
accusations from above: a machine that never shared an address with another is
never accused, whatever is cached, leased or learned, unless a cut lease line
gave an address of its own to another; 0.0.0.0 counts as
shared by all that ever lacked an address, so two machines that join a network can
accuse each other. `SettledNeverAccused` is its counterpart in time: once the
lease file was opened, frames between machines whose lines it held and whose addresses
have not moved since are no evidence. `SeenExactlyOnce` and `EverySegmentWatched` say what the two
lists guarantee although the network changed while they were made: about any
path nothing changed about, everything. For a path that did change there is no
such promise: a link that joins a bridge between the two looks of
`detect_interfaces` is left out as a member while the bridge is missing from the
list. An interface that is no member but has `master` in its name is taken for one and
left out; that is the only loss on an unchanged path. `BoardAtEveryStatement` is the refinement that matters for Ctrl+C: every
statement, not only every packet, implements the board. `RungIsCounted` relates what the summary
prints of an incident, its rung and its count: since the first piece of evidence may confirm and every
further one gains at most a rung, the rung is at most the count plus one, and at no statement, whatever
was decayed, resumed or cut off in between, is a rung shown that was not counted; an incident that was
created but never counted is printed only after Ctrl+C. `EveryDetectorSees` rests on
the order of registration: the detector that may raise is registered last.
`SummaryGrouped` compares what is printed with the incidents; `SummaryPrinted` is
liveness. Each property has a mutant, a small wrong
variant of one definition (they stand above the definition they vary, commented
as mutants), under which its run fails.

**Bounds.** `MaxTime` bounds the clock; `MaxCount` an incident's packets in the detectors' runs and all
evidence counted in `capture`; both are guards. Thresholds are 2 or 3, and `MaxCount` is at or above them, so
that incidents reach *ongoing* and are decayed and resumed there; in `port_scan`,
`IdleExpiry` 4 and `CleanupInterval` 2 with steps of 0, 2 and 4 seconds give gaps
below, at and above each of them, and sweeps both due and not due, and a step of -6,
which `MaxSetback` allows once between two sweeps, sets the clock back by more than either; `arp_claims`
uses steps of 0, 4 and -4 around an `IdleExpiry` and a `ResyncInterval` of 3, the other runs of
`ArpSpoofDetector` alone 0 and 4. `SeqSpace` is 4 so that
the wrap-around of sequence numbers is one step away: `tcp_exchange` draws
from {1, 3}, and 3 wraps. Two
machines and the router on one LAN suffice for every check of
the ARP detector (attacker, victim and router are all of them); `arp_leases` has
a second LAN because `_apply_authoritative` removes bindings per interface; its `MaxTime` of 12 leaves
room for two steps of 4 after the constructor's resync, so that two claims can teach a MAC
while there is no file and a later reading finds the lease of another.
`honest_lan` learns from one packet and gives each packet, and each reading of a cache, a step of 2;
with a `ResyncInterval` of 3 and a `MaxTime` of 12 that leaves room for several packets and for several
readings of the file, so what was learned or read cut before meets a whole reading, and the reverse; two machines and one DHCP
address give every contradiction between binding, lease and cache.
`capture` has loopback, a port enslaved to a bond that is enslaved to a bridge, an uplink and an interface
named `master0`: one link for every case the code distinguishes, and a member that has members; `MaxChanges` and `MaxFailures` are 1 and bound only
the start-up, so one change falls between any two looks, and one look fails. The proofs allow masters to nest to any
depth, without loops, as the kernel does. Ctrl+C comes once: a second one would interrupt the
summary.
`StartTime` exceeds the intervals in the configurations, as epoch seconds do, so the first
event sweeps; nothing that is proved assumes it.

**Fairness.** `LeasesPrevail` needs `WF_vars(Resync)`: a resync is plain
sequential code over files that end, so it runs to its end once begun.
`SummaryPrinted` needs weak fairness of the statements of a packet's handling and of the
print at the end of `main`, for the same reason. No fairness is assumed of
packets, of Ctrl+C or of time. Deadlock is checked except in the
`tcp` runs, where all connections may be over; the ARP constructor's failure
is an explicit final state (`Stopped`).

## 4. Proofs

The safety properties of the passing runs are proved for every set of hosts, any traffic, lease
files and caches, any topologies, any thresholds, and any pace and direction of time. The
assumptions are the named ones of the modules: thresholds positive, intervals
natural numbers, `None` and `Unbound` no
addresses, packets, files and topologies well typed, fixed addresses held by one machine.

| Property | Theorem |
|---|---|
| port scan: `TypeOK`, `ConfirmedIffEvidence`, `RepliesAccounted`, `SweepLinesMatchPorts`, `DecayedIsIdle`, `StalenessBounded`, `ImplementsBoard` | `TypeCorrect`, `...Always`, `PortScanImplementsBoard` in `PortScanProofs` |
| ARP: `TypeOK`, `ConfirmedIffEvidence`, `PendingBelowThreshold`, `OwnBindingGenuine`, `LeasesInForce`, `OnlyDhcpRebinds`, `LearnedFromFreshClaims`, `ImplementsBoard` | `TypeCorrect`, `...Always`, `ArpSpoofImplementsBoard` in `ArpSpoofProofs` |
| what the refinements of the board imply: no incident is lost or demoted, and a hidden one keeps its rung | `PortScanNeverDemotes`, `ArpSpoofNeverDemotes`, `ProgramNeverDemotes`, in the modules of what implements it, over lemmas in `IncidentBoardProofs` |
| TCP hosts: `RepliesExplained` | `RepliesExplainedAlways`, over `ExchangesAreTraffic`, in `TcpExchangeProofs` |
| honest LAN: `AccusedShareAddress`, `SettledNeverAccused` | `...Always`, over `HonestLanIsALan`, in `HonestLanProofs` |
| program: `SeenExactlyOnce`, `EverySegmentWatched`, `EveryDetectorSees`, `TypeOK`, `BoardAtEveryStatement`, `RungIsCounted` | `...Always` in `CaptureProofs` |
| summary: `SummaryGrouped` | `SummaryGroupedAlways` in `SummaryProofs` |

*PortScanProofs.* A packet replaces one incident by its successor, and the sweep
decays others, so the invariant speaks of one incident at a time. `IncidentOK`
is the checked invariants for one incident plus what makes them inductive: the
open probes are finite in number (or `Cardinality` says nothing), and an absent
key is untouched, so that a new incident starts from zero. `AbsentOK`, `NewOK`,
`DecayOK`, `ProbeOK` and `ReplyOK` say that each operation preserves it; the heart
is `SettleOK`, which shows that the escalation agrees with the evidence by
comparing it before and after the packet: it grows by at most one, so an
incident cannot jump over *confirmed*. `TimeInv` adds what relates an incident to
the last sweep: at the last sweep nothing shown as active was idle, the sweeps' times
only move forward, since one is due only when the clock has passed the one before by the
interval, and the last sweep is at most `CleanupInterval` back and at most `setback` seconds
ahead; the bound of `StalenessBounded` is their sum. That the clock only runs forward
is nowhere needed. `LinesInv` adds that the ports of an incident are
finitely many; `NextMultiple` is the arithmetic, one more port raises the
quotient exactly when it reaches a multiple.

*ArpSpoofProofs.* Three invariants that different code touches: the incidents,
the trust, the resync. For the incidents, `AccusedOK` is one piece of evidence
and `JudgedOK` all the checks of a packet: each check moves the incidents by
at most one `Raise`, `Reaches` shows that a burst of bursts reaches no further than a
burst, and so no case distinction over which checks hit the same key is
needed. For the trust, `SoleWinner` is the key fact: since every waiting count is
below the threshold, a claim that reaches it is the only candidate there, so
`_resolve_pending` binds it and clears the rest, and the counts are below the
threshold again. `LearningOK` and `LeaseOK` keep the router's IP out of reach, the
first because a claim to be the router never gets to learning, the second
by the explicit return. `LeasesInForce` needs besides that a lease in force has
been accepted by a LAN interface (`LeasedInv`): learning only binds what is
unbound (`Kept`), and a later line takes away only the bindings of the leases it
overrides. `StepOK` puts the steps together, and all eight theorems follow from it.

*IncidentBoardProofs.* Two lemmas only, `NeverDemotedAlways` and `HiddenIsHeldAlways`: they say of
the abstract board what holds by its shape, and say something of the code only through a refinement. `PortScanProofs`, `ArpSpoofProofs` and `CaptureProofs`
instantiate that module as `Promises`, under the refinement mapping of their `Board`, and
compose it with their refinement theorems: `PortScanNeverDemotes`, `ArpSpoofNeverDemotes`
and `ProgramNeverDemotes` are the two promises, of either detector and of every statement
of the program.

*TcpExchangeProofs.* `TcpSpec => Spec`, so the detector's invariants are available. The
new one ties every open probe to a connection whose SYN has not been answered, by
connection and by acknowledgement number: then a first answer finds its probe, and
nothing else does.

*HonestLanProofs.* `HonestSpec => Spec` again. The invariant says that whatever the
detector has learned, or a line still to be applied will bind, was in use at some time or
misread from a cut line (`Told`); a conflict, or a misdelivery, is then between two of
whom `Told` says that they held one address, and the accused did hold it. For
`SettledNeverAccused`, a second invariant follows a resync (`CurrentInv`): the lease of
an address that has not moved is in force or its line is still to come, and no other
line to come overrides it. It needs the server's table to give an address and a machine
one lease, `moved` to take in whatever a cut line overrides, and a torn line to be the
last (`LinesInv`), since the lines after it are never applied; the detector's
`LeasesInForce` does the rest.

*CaptureProofs.* `NetInv` states of each look that what it read still holds of the
links nothing changed about; both start-up properties are consequences at
`"ready"`. `CallsInv` says that a detector of the event's protocol was called or is
still to be, and that the running call is the first of those left: so when the
ARP detector raises, none is left. `IncidentsInv` says which incident the
running statement has left half done, and that every decayed incident
remembers a rung; a statement replaces one incident by one of the same key
(`ReplaceOK`) or adds one (`AppendOK`), and either moves the board as it may. For
`RungIsCounted` it has `CountedFirst`: when an incident is about to climb, its rung is at most its
count, the evidence being counted already, so that the climb leaves it at most one above; and only the
incident whose recording is under way, or was cut off by Ctrl+C, has nothing counted (`CountOK`,
`SameCountOK`).
Nothing in it depends on the clock, on how packets end, or on where the program stops.

*SummaryProofs.* `group` is a fold over the list of incidents, and what a fold
does to a list of any length needs an induction; the library's induction theorems take a
predicate as a parameter, which the provers cannot instantiate. The induction is
therefore written out (`Induction`): a set that holds 0, and with every number its
successor, holds every number, since there would be a least one it lacks. `FoldExists`
shows that the fold's steps form a function, `GroupIsFold` that `group` is its last
value. `GroupOK` is the invariant of the loop: the attackers are distinct and have
exactly the (interface, MAC) pairs of the incidents so far, and every incident so far
is on exactly one line, that of its own attacker; `AddAttackAdds` is one round.
`SummaryGroupedAlways` follows for wherever Ctrl+C falls.

*Only model-checked:* the liveness properties `LeasesPrevail` and `SummaryPrinted`. They
rest on weak fairness, that is on ENABLED, which is out of the prover's reach.

## 5. Not modelled

* Alert and summary text, `to_dict`, `claimed_ips`, `check_counts`, the
  `victim_ips`: no decision reads them. Of the summary, which incident is on which
  line, with which rung and count, is modelled; the claimed IPs it also prints are not.
* Frames without an Ethernet layer (MAC `None`); the neighbour cache's entries without
  `lladdr`, which are skipped. IPv6: the filter `tcp` lets it pass, `build_event`
  gives no event.
* What `get_interface_network` parses: its result is a constant of `ArpSpoofDetector`. An
  interface without IPv4 address gives `get_if_addr` 0.0.0.0, an own IP like any other.
* Changes of the network after start-up: the code never looks again, although
  `get_bridge_members` (`netinfo/interfaces.py:16-18`) calls itself correct "if bridge
  membership changes at runtime".
* Upper-case MAC addresses: the OS, Scapy and dnsmasq all print lower case.

## 6. Findings

| Run | The sentence | What happens |
|---|---|---|
| `tcp_resent` | any reply "adds no new evidence, since the SYN was already counted" (`port_scan_attack.py:61-64`) | a SYN-ACK sent again finds its probe used up and is new evidence: a server whose SYN-ACKs draw no answer resends them, and raises its client's incident |
| `port_scan_resume` | a packet resuming a long-idle incident "finds it already decayed" (`port_scan_detector.py:69-71`) | not when the sweep is not due yet |
| `arp_contest` | the IP goes by "packet volume, not by which one reached the threshold first", and a tie "defers the decision" (`arp_spoof_detector.py:389-394`) | the claim that brings its MAC to the threshold binds it at once, while every other candidate is below: the first there always wins, no tie is deferred, and one that sends its claims in a row beats one that has made more, whose count an idle gap has restarted |
| `arp_one_ip` | "one MAC is never trusted under two IPs at once" (`arp_spoof_detector.py:122-125`) | the early return of a lease already in force skips the removal |
| `lan_reassigned` | a packet of the router to the wrong MAC "proves the router's own ARP cache has been poisoned" (`arp_spoof_detector.py:323-326`) | after a reassignment the detector's binding is what is out of date: the new holder is confirmed as an attacker at once |
| `capture_until_interrupt` | main will "sniff until Ctrl+C" (`sniffer.py:32`) | a lease file read while it is rewritten raises; Scapy closes the interface's socket, and when all are closed the capture ends |

Without a run of their own:

* `seq + 1` is not reduced modulo 2^32 (`port_scan_attack.py:85`), so the answer to
  the last sequence number never matches, where `packet_event.py:37-39` promises an
  exact match: the kind `"wrapped"` of `RepliesExplained`.
* A RST need not be an answer: a client that resets a half-open connection makes
  the server an attacker, against `port_scan_detector.py:10-12`: the kind `"reset"`.
* `src/README.md:9` says that a scan is confirmed "only when both signals
  independently cross threshold"; `ConfirmedIffEvidence`, proved, shows that the sum
  decides, so SYNs alone confirm.
* `src/README.md:15` says that detectors "expire idle state to bound memory growth";
  idle incidents are marked and kept.
* `arp_spoof_detector.py:321` speaks of "any known non-gateway binding"; the router's own
  packets teach a binding for its own IP, which `OwnBindingGenuine` shows to be
  the right one.
* `detect_interfaces` raises when only loopback is there, but not when bridge members are
  all there is besides: `sniff()` is then called with an empty list
  (`netinfo/interfaces.py:46-49`, `StartFails`).
* `get_bridge_members` looks for `master` anywhere in an interface's line, so one that has
  it in its name is not sniffed, where `netinfo/interfaces.py:36` promises "everything
  except loopback and bridge members": `Members`, and the exception `SeenExactlyOnce` makes.
* A link that joins a bridge between the two looks of `detect_interfaces` is not sniffed, and neither is
  the bridge (`netinfo/interfaces.py:45-49`): `SeenExactlyOnce` speaks only of paths that did not change.

## 7. Plan

Done: the incident record, the board, both detectors, the TCP hosts, the
honest LAN, start-up, the capture loop and the summary, with the proofs of section 4:
every safety property the passing runs check is a theorem. The
promises of the board are theorems of whatever implements it. What could be added next
is a network that changes after start-up, and with it the interfaces the program keeps
watching or missing until it is started again.
