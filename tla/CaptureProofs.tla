---------------------------- MODULE CaptureProofs ----------------------------
(***************************************************************************)
(* Proofs about Netinfo and Capture, for any network, any number of        *)
(* changes and failing looks during start-up, any packets and evidence.    *)
(*                                                                         *)
(* Start-up: what each look has read is still true of the links nothing    *)
(* has changed about (NetInv).  Capture: the incident a half-executed      *)
(* statement has left inconsistent is the one being decayed or recorded    *)
(* (IncidentsInv), and a call that may raise is the last of its packet     *)
(* (CallsInv).                                                             *)
(***************************************************************************)
EXTENDS Capture, FiniteSetTheorems, SequenceTheorems, TLAPS

----------------------------------------------------------------------------
(* Start-up.                                                               *)

IsTaken(l) == topology.master[l] # NoLink \/ l \in MasterNamed

\* get_if_list, as far as it still holds.
ListedRight ==
  at \in {"sniff_members", "lan_members"} =>
    /\ listed \subseteq Links \ {Lo}
    /\ \A l \in steady \ {Lo} : l \in listed <=> l \in topology.up

SniffedRight ==
  at \in {"route", "lan_list", "lan_members", "ready"} =>
    /\ sniffed \subseteq Links \ {Lo}
    /\ \A l \in steady \ {Lo} :
         l \in sniffed <=> l \in topology.up /\ (~IsTaken(l) \/ "sniff_members" \in failed)

WanRight ==
  at \in {"lan_list", "lan_members"} =>
    \A l \in steady : wan = l <=> topology.uplink = l /\ "route" \notin failed

LanRight ==
  at = "ready" =>
    \A l \in steady :
      l \in sniffed /\ "sniff_members" \notin failed =>
        (l \in lan <=> ~(topology.uplink = l /\ "route" \notin failed))

FailedRight ==
  /\ at \in {"sniff_list", "sniff_members"} => failed = {}
  /\ at = "route" => "route" \notin failed

NetInv ==
  /\ topology \in Topologies /\ steady \subseteq Links
  /\ ListedRight /\ SniffedRight /\ WanRight /\ LanRight /\ FailedRight

LEMMA NetStart == NetInit => NetInv
  BY DEF NetInit, NetInv, ListedRight, SniffedRight, WanRight, LanRight, FailedRight

LEMMA ChangeOK ==
  ASSUME NetInv, NEW t \in Topologies, Change(t)
  PROVE  NetInv'
<1>1. /\ at' = at /\ topology' = t /\ listed' = listed /\ sniffed' = sniffed
      /\ wan' = wan /\ lan' = lan /\ failed' = failed
      /\ steady' \subseteq steady /\ at \in StartUp
      /\ \A l \in steady' : /\ l \in topology'.up <=> l \in topology.up
                            /\ topology'.master[l] = topology.master[l]
                            /\ topology'.uplink = l <=> topology.uplink = l
  BY DEF Change, Unchanged
<1>2. topology' \in Topologies /\ steady' \subseteq Links
  BY <1>1 DEF NetInv
<1>3. ListedRight'
  BY <1>1 DEF NetInv, ListedRight
<1>4. SniffedRight'
  BY <1>1 DEF NetInv, SniffedRight, IsTaken
<1>5. WanRight'
  BY <1>1 DEF NetInv, WanRight
<1>6. LanRight' /\ FailedRight'
  BY <1>1 DEF NetInv, LanRight, FailedRight, StartUp
<1> QED  BY <1>2, <1>3, <1>4, <1>5, <1>6 DEF NetInv

LEMMA ListOK ==
  ASSUME NetInv, GetIfList
  PROVE  NetInv'
<1>1. /\ topology' = topology /\ sniffed' = sniffed /\ wan' = wan /\ lan' = lan
      /\ steady' = steady /\ failed' = failed
      /\ listed' = topology.up \ {Lo}
      /\ \/ at = "sniff_list" /\ at' \in {"sniff_members", "killed"}
         \/ at = "lan_list" /\ at' \in {"lan_members", "killed"}
  BY DEF GetIfList, After
<1>2. topology.up \subseteq Links
  BY NetinfoAssumption DEF NetInv, Topology
<1>3. ListedRight'
  BY <1>1, <1>2 DEF NetInv, ListedRight
<1>4. SniffedRight' /\ WanRight'
  BY <1>1 DEF NetInv, SniffedRight, WanRight, IsTaken
<1>5. LanRight' /\ FailedRight'
  BY <1>1 DEF NetInv, LanRight, FailedRight
<1> QED  BY <1>1, <1>3, <1>4, <1>5 DEF NetInv

LEMMA MembersOK ==
  ASSUME NetInv, GetBridgeMembers({}) \/ GetBridgeMembers(Members)
  PROVE  NetInv'
<1>1. PICK members : GetBridgeMembers(members)
  OBVIOUS
<1>2. /\ topology' = topology /\ steady' = steady /\ listed' = {}
      /\ \/ members = Members /\ failed' = failed
         \/ members = {} /\ failed' = failed \cup {at}
  BY <1>1 DEF GetBridgeMembers, Fails
<1>3. CASE at = "sniff_members"
  <2>1. sniffed' = listed \ members /\ at' = "route"
    BY <1>1, <1>3 DEF GetBridgeMembers, Sniffable
  <2>2. failed = {} /\ listed \subseteq Links \ {Lo}
        /\ \A l \in steady \ {Lo} : l \in listed <=> l \in topology.up
    BY <1>3 DEF NetInv, FailedRight, ListedRight
  <2>3. SniffedRight'
    <3>1. CASE members = Members /\ failed' = failed
      <4>1. \A l \in topology.up : l \in members <=> IsTaken(l)
        BY <3>1 DEF Members, IsTaken
      <4> QED  BY <1>2, <2>1, <2>2, <3>1, <4>1 DEF NetInv, SniffedRight, IsTaken
    <3>2. CASE members = {} /\ failed' = failed \cup {at}
      BY <1>2, <1>3, <2>1, <2>2, <3>2 DEF NetInv, SniffedRight, IsTaken
    <3> QED  BY <1>2, <3>1, <3>2
  <2>4. ListedRight' /\ WanRight' /\ LanRight' /\ FailedRight'
    BY <1>2, <1>3, <2>1, <2>2 DEF ListedRight, WanRight, LanRight, FailedRight
  <2> QED  BY <1>2, <2>3, <2>4 DEF NetInv
<1>4. CASE at = "lan_members"
  <2>1. lan' = (listed \ members) \ {wan} /\ at' = "ready" /\ sniffed' = sniffed
    BY <1>1, <1>4 DEF GetBridgeMembers, Sniffable, LanOf
  <2>2. /\ \A l \in steady \ {Lo} : l \in listed <=> l \in topology.up
        /\ sniffed \subseteq Links \ {Lo}
        /\ \A l \in steady \ {Lo} :
             l \in sniffed <=> l \in topology.up /\ (~IsTaken(l) \/ "sniff_members" \in failed)
        /\ \A l \in steady : wan = l <=> topology.uplink = l /\ "route" \notin failed
    BY <1>4 DEF NetInv, ListedRight, SniffedRight, WanRight
  <2>3. /\ "sniff_members" \in failed' <=> "sniff_members" \in failed
        /\ "route" \in failed' <=> "route" \in failed
    BY <1>2, <1>4
  <2>4. SniffedRight'
    BY <1>2, <2>1, <2>2, <2>3 DEF SniffedRight, IsTaken
  <2>5. LanRight'
    <3> SUFFICES ASSUME NEW l \in steady, l \in sniffed, "sniff_members" \notin failed
                 PROVE  l \in lan' <=> ~(topology.uplink = l /\ "route" \notin failed)
      BY <1>2, <2>1, <2>3 DEF LanRight
    <3>1. l # Lo /\ l \in listed /\ ~IsTaken(l)
      BY <2>2
    <3>2. l \notin members
      BY <1>2, <3>1 DEF Members, IsTaken
    <3> QED  BY <2>1, <2>2, <3>1, <3>2
  <2>6. ListedRight' /\ WanRight' /\ FailedRight'
    BY <2>1 DEF ListedRight, WanRight, FailedRight
  <2> QED  BY <1>2, <2>4, <2>5, <2>6 DEF NetInv
<1> QED  BY <1>1, <1>3, <1>4 DEF GetBridgeMembers

LEMMA RouteOK ==
  ASSUME NetInv, GetWanInterface
  PROVE  NetInv'
<1>1. /\ at = "route" /\ at' = "lan_list" /\ topology' = topology /\ sniffed' = sniffed
      /\ steady' = steady
      /\ \/ wan' = topology.uplink /\ failed' = failed
         \/ wan' = NoLink /\ failed' = failed \cup {"route"}
  BY DEF GetWanInterface, Fails
<1>2. "route" \notin failed
  BY <1>1 DEF NetInv, FailedRight
<1>3. WanRight'
  BY <1>1, <1>2, NetinfoAssumption DEF NetInv, WanRight
<1>4. SniffedRight'
  BY <1>1 DEF NetInv, SniffedRight, IsTaken
<1>5. ListedRight' /\ LanRight' /\ FailedRight'
  BY <1>1 DEF ListedRight, LanRight, FailedRight
<1> QED  BY <1>1, <1>3, <1>4, <1>5 DEF NetInv

\* What holds at "ready" is no concern of what comes after.
LEMMA NetStepOK ==
  ASSUME NetInv, [CaptureNext]_captureVars
  PROVE  NetInv'
<1>1. CASE NetNext
  BY <1>1, ChangeOK, ListOK, MembersOK, RouteOK DEF NetNext, Look
<1>2. CASE UNCHANGED <<at, netVars>>
  BY <1>2 DEF netVars, NetInv, ListedRight, SniffedRight, WanRight, LanRight, FailedRight,
              IsTaken
<1>3. CASE /\ topology' = topology /\ steady' \subseteq steady
           /\ at' \notin StartUp \cup {"ready"}
  BY <1>3 DEF NetInv, ListedRight, SniffedRight, WanRight, LanRight, FailedRight, StartUp
<1> QED
  <2>1. CASE Interrupt
    BY <1>3, <2>1 DEF Interrupt, Interrupted, netVars, StartUp
  <2>2. CASE Configure
    BY <1>1, <2>2 DEF Configure
  <2>3. CASE Construct \/ Start \/ StartFails \/ Summarize
    BY <1>3, <2>3 DEF NetInv, Construct, Start, StartFails, Summarize, netVars, StartUp
  <2>4. CASE \E p \in Packets : Receive(p)
    BY <1>3, <2>4 DEF Receive, netVars, StartUp
  <2>5. CASE Handle
    <3>1. UNCHANGED netVars
      BY <2>5 DEF Handle, Call, Dispatched, Return, Fail, Resync, Pass, Remember, Hide, Swept,
                  Find, Count, Climb, Forget
    <3>2. at' \notin StartUp \cup {"ready"}
      BY <2>5 DEF Handle, Call, Dispatched, Return, Fail, Resync, Pass, Remember, Hide, Swept,
                  Find, Count, Climb, Forget, StartUp
    <3> QED  BY <1>3, <3>1, <3>2 DEF netVars
  <2>6. CASE Stopped \/ UNCHANGED captureVars
    BY <1>2, <2>6 DEF Stopped, captureVars
  <2> QED  BY <2>1, <2>2, <2>3, <2>4, <2>5, <2>6 DEF CaptureNext

LEMMA NetInductive == CaptureSpec => []NetInv
<1>1. NetInv /\ [CaptureNext]_captureVars => NetInv'
  BY NetStepOK
<1>2. CaptureInit => NetInv
  BY NetStart DEF CaptureInit
<1> QED  BY <1>1, <1>2, PTL DEF CaptureSpec

\* The masters above an interface are the least set that is closed.
LEMMA AboveOK ==
  ASSUME NEW M, \A j \in Links : M[j] \in Links \cup {NoLink}, NEW l \in Links
  PROVE  /\ l \in Above(M, l) /\ Above(M, l) \subseteq Links
         /\ \A j \in Above(M, l) : M[j] \in Above(M, l) \cup {NoLink}
         /\ \A S \in SUBSET Links :
              l \in S /\ (\A j \in S : M[j] \in S \cup {NoLink}) => Above(M, l) \subseteq S
BY DEF Above

\* Only one of them has no master.
LEMMA OneTop ==
  ASSUME NEW M, \A j \in Links : M[j] \in Links \cup {NoLink}, NEW l \in Links,
         NEW k \in Above(M, l), M[k] = NoLink, NEW m \in Above(M, l), M[m] = NoLink
  PROVE  k = m
<1> DEFINE S == {j \in Above(M, l) : k \in Above(M, j) /\ m \in Above(M, j)}
<1>1. Above(M, l) \subseteq Links /\ l \in Above(M, l) /\ NoLink \notin Links
  BY AboveOK, NetinfoAssumption
<1>2. ASSUME NEW j \in S, M[j] # NoLink PROVE M[j] \in S
  <2>1. M[j] \in Above(M, l) /\ j \in Links /\ M[j] \in Links
    BY <1>1, <1>2, AboveOK
  <2>2. /\ Above(M, M[j]) \subseteq Links /\ M[j] \in Above(M, M[j])
        /\ \A i \in Above(M, M[j]) : M[i] \in Above(M, M[j]) \cup {NoLink}
    BY <2>1, AboveOK
  <2>3. Above(M, j) \subseteq {j} \cup Above(M, M[j])
    <3> DEFINE R == {j} \cup Above(M, M[j])
    <3>1. R \in SUBSET Links /\ j \in R /\ \A i \in R : M[i] \in R \cup {NoLink}
      BY <2>1, <2>2
    <3> HIDE DEF R
    <3>2. Above(M, j) \subseteq R
      BY <2>1, <3>1, AboveOK
    <3> QED  BY <3>2 DEF R
  <2>4. k # j /\ m # j
    BY <1>2
  <2> QED  BY <1>2, <2>1, <2>3, <2>4
<1>3. Above(M, l) \subseteq S
  <2>1. S \in SUBSET Links /\ l \in S /\ \A j \in S : M[j] \in S \cup {NoLink}
    BY <1>1, <1>2
  <2> HIDE DEF S
  <2> QED  BY <2>1, AboveOK
<1>4. k \in Links /\ m \in Above(M, k)
  BY <1>1, <1>3
<1>5. Above(M, k) \subseteq {k}
  <2>1. {k} \in SUBSET Links /\ k \in {k} /\ \A j \in {k} : M[j] \in {k} \cup {NoLink}
    BY <1>4
  <2> QED  BY <1>4, <2>1, AboveOK
<1> QED  BY <1>4, <1>5

\* A frame is captured at most once on its way over links that nothing has
\* changed about, unless the bridge members could not be read, and at least
\* once, unless the last of them was mistaken for a member.
THEOREM SeenExactlyOnceAlways == CaptureSpec => []SeenExactlyOnce
<1>1. ASSUME NetInv PROVE SeenExactlyOnce
  <2> SUFFICES ASSUME at = "ready", NEW l \in topology.up \ {Lo}, Path(l) \subseteq steady
               PROVE  /\ "sniff_members" \in failed \/ ~(\E j \in Path(l) : Mistaken(j))
                           => sniffed \cap Path(l) # {}
                      /\ "sniff_members" \notin failed => Cardinality(sniffed \cap Path(l)) <= 1
    BY DEF SeenExactlyOnce, Chosen
  <2>1. /\ l \in Links /\ topology.up \subseteq Links /\ NoLink \notin Links
        /\ \A j \in Links : /\ topology.master[j] \in Links \cup {NoLink}
                            /\ topology.master[j] \in (topology.up \ {Lo}) \cup {NoLink}
        /\ \E k \in Path(l) : topology.master[k] = NoLink
    BY <1>1, NetinfoAssumption DEF NetInv, Topology, Path
  <2>2. \A j \in steady \ {Lo} :
          j \in sniffed <=> j \in topology.up /\ (~IsTaken(j) \/ "sniff_members" \in failed)
    BY <1>1 DEF NetInv, SniffedRight
  <2>3. PICK k : /\ k \in Path(l) /\ k \in topology.up \ {Lo} /\ topology.master[k] = NoLink
                 /\ \A j \in Path(l) :
                      j # k => j \in topology.up \ {Lo} /\ topology.master[j] # NoLink
    <3>1. PICK k \in Path(l) : topology.master[k] = NoLink
      BY <2>1
    <3>2. Path(l) \subseteq topology.up \ {Lo}
      <4> DEFINE S == topology.up \ {Lo}
      <4>1. S \in SUBSET Links /\ l \in S /\ \A j \in S : topology.master[j] \in S \cup {NoLink}
        BY <2>1
      <4> HIDE DEF S
      <4>2. Path(l) \subseteq S
        BY <2>1, <4>1, AboveOK DEF Path
      <4> QED  BY <4>2 DEF S
    <3>3. \A j \in Path(l) : topology.master[j] = NoLink => j = k
      BY <2>1, <3>1, OneTop DEF Path
    <3> QED  BY <3>1, <3>2, <3>3
  <2>4. "sniff_members" \in failed \/ k \notin MasterNamed => k \in sniffed
    BY <2>2, <2>3 DEF IsTaken
  <2>5. ASSUME "sniff_members" \notin failed PROVE Cardinality(sniffed \cap Path(l)) <= 1
    <3>1. \A j \in sniffed \cap Path(l) : j = k
      <4>1. SUFFICES ASSUME NEW j \in Path(l), j # k PROVE j \notin sniffed
        OBVIOUS
      <4>2. j \in steady \ {Lo} /\ IsTaken(j)
        BY <2>3, <4>1 DEF IsTaken
      <4> QED  BY <2>2, <2>5, <4>2
    <3>2. sniffed \cap Path(l) \in {{}, {k}}
      BY <3>1
    <3>3. Cardinality({k}) = 1 /\ Cardinality({}) = 0
      BY FS_Singleton, FS_EmptySet
    <3> QED  BY <3>2, <3>3
  <2> QED  BY <2>3, <2>4, <2>5 DEF Mistaken
<1> QED  BY <1>1, NetInductive, PTL

\* The ARP detector watches what is sniffed, except the uplink.
THEOREM EverySegmentWatchedAlways == CaptureSpec => []EverySegmentWatched
<1>1. NetInv => EverySegmentWatched
  BY DEF NetInv, LanRight, EverySegmentWatched, Chosen
<1> QED  BY <1>1, NetInductive, PTL

----------------------------------------------------------------------------
(* The detectors of a call.                                                *)

LEMMA TwoDetectors ==
  /\ DOMAIN Registrations = {1, 2}
  /\ Registrations[1].detector = "port_scan" /\ Registrations[2].detector = "arp_spoof"
  /\ Detectors = {"port_scan", "arp_spoof"}
<1>1. /\ DOMAIN Registrations = {1, 2}
      /\ Registrations[1].detector = "port_scan" /\ Registrations[2].detector = "arp_spoof"
  BY DEF Registrations
<1> QED  BY <1>1 DEF Detectors

LEMMA TurnOK ==
  ASSUME calls \subseteq DOMAIN Registrations, calls # {}
  PROVE  /\ Turn \in calls /\ \A m \in calls : Turn <= m
         /\ Turn \in {1, 2} /\ Current \in Detectors
         /\ Current = "arp_spoof" => calls = {Turn}
<1>1. calls \subseteq {1, 2}
  BY TwoDetectors
<1>2. \E n \in calls : IsNext(n, calls)
  <2>1. CASE 1 \in calls
    BY <1>1, <2>1 DEF IsNext
  <2>2. CASE 1 \notin calls
    BY <1>1, <2>2 DEF IsNext
  <2> QED  BY <2>1, <2>2
<1>3. IsNext(Turn, calls)
  BY <1>2 DEF Turn
<1>4. Turn \in calls /\ \A m \in calls : Turn <= m
  BY <1>3 DEF IsNext
<1>5. Turn \in {1, 2}
  BY <1>1, <1>4
<1>6. Current \in Detectors
  BY <1>5, TwoDetectors DEF Current
<1>7. Current = "arp_spoof" => Turn = 2
  BY <1>5, TwoDetectors DEF Current
<1>8. Turn = 2 => calls = {2}
  BY <1>1, <1>4
<1> QED  BY <1>4, <1>5, <1>6, <1>7, <1>8

InCall == {"sweep", "decay", "find", "count", "climb", "forget"}

\* A registered detector was called, or will be; the running call has begun.
\* Of the constructor's resync, there is no more than the one detector.
CallsInv ==
  /\ at \in StartUp \cup Handling
          \cup {"ready", "opening", "waiting", "summary", "done", "killed"}
  /\ calls \subseteq DOMAIN Registrations /\ seen \subseteq DOMAIN Registrations
  /\ evidence \in Seq(Evidence) /\ swept \in Nat /\ due \in BOOLEAN
  /\ at \in Handling =>
       \/ /\ event \in Packets /\ DetectorsFor(ProtoOf(event)) \subseteq seen \cup calls
          /\ at \in InCall => Turn \in seen
       \/ /\ event = NoEvent /\ Current = "arp_spoof" /\ calls # {}
          /\ at \in {"find", "count", "climb", "forget"}
  /\ at \notin Handling => event = NoEvent /\ calls = {}
  /\ at \in InCall => calls # {}
  /\ due => at \in InCall /\ Current = "arp_spoof"
  /\ at \in {"count", "climb", "forget"} => evidence # <<>>
  /\ open \subseteq sniffed /\ pressed \in BOOLEAN
  /\ at \in StartUp => open = {}

LEMMA Distinct ==
  /\ InCall \subseteq Handling /\ StartUp \cap Handling = {}
  /\ {"ready", "opening", "waiting", "summary", "done", "killed"} \cap (StartUp \cup Handling) = {}
  BY DEF StartUp, Handling, InCall

LEMMA NoPacket == NoEvent \notin Packets
  BY CaptureAssumption, NetinfoAssumption DEF NoEvent, Packet

LEMMA CallsStart == CaptureInit => CallsInv
<1> SUFFICES ASSUME CaptureInit PROVE CallsInv
  OBVIOUS
<1>1. /\ at = "sniff_list" /\ open = {} /\ sniffed = {}
      /\ event = NoEvent /\ calls = {} /\ evidence = <<>> /\ swept = 0 /\ seen = {}
      /\ due = FALSE /\ pressed = FALSE
  BY DEF CaptureInit, NetInit
<1>2. at \in StartUp /\ at \notin {"count", "climb", "forget"}
  BY <1>1 DEF StartUp
<1>3. at \notin Handling /\ at \notin InCall
  BY <1>2, Distinct
<1>4. evidence \in Seq(Evidence)
  BY <1>1
<1> QED  BY <1>1, <1>2, <1>3, <1>4 DEF CallsInv

LEMMA NoCallOK ==
  ASSUME NoCall
  PROVE  /\ event' = NoEvent /\ calls' = {} /\ seen' = {} /\ swept' \in Nat
         /\ evidence' \in Seq(Evidence) /\ due' = FALSE
<1>1. <<>> \in Seq(Evidence)
  OBVIOUS
<1> QED  BY <1>1 DEF NoCall

\* Before and after sniffing.
LEMMA IdleCallsOK ==
  ASSUME CallsInv,
         \/ Configure \/ Construct \/ Start \/ StartFails \/ Interrupt \/ Summarize \/ Stopped
         \/ UNCHANGED captureVars
  PROVE  CallsInv'
<1>1. CASE Configure
  <2>1. UNCHANGED <<open, callVars, pressed>>
    BY <1>1 DEF Configure
  <2>2. at \in StartUp /\ at' \in StartUp \cup {"ready", "killed"}
    BY <1>1 DEF Configure, NetNext, Look, Change, GetIfList, GetBridgeMembers, GetWanInterface,
                StartUp, After
  <2>3. open' = {} /\ event' = NoEvent /\ calls' = {} /\ ~due
    BY <2>1, <2>2, Distinct DEF CallsInv, callVars
  <2>4. at' \notin {"count", "climb", "forget"}
    BY <2>2 DEF StartUp
  <2>5. at' \notin Handling /\ at' \notin InCall
    BY <2>2, Distinct
  <2> QED  BY <2>1, <2>2, <2>3, <2>4, <2>5 DEF CallsInv, callVars
<1>2. CASE Construct
  <2>1. calls' = {2}
    BY <1>2, TwoDetectors DEF Construct
  <2>2. Turn' = 2
    BY <2>1 DEF Turn, IsNext
  <2>3. Current' = "arp_spoof"
    BY <2>2, TwoDetectors DEF Current
  <2> QED  BY <1>2, <2>1, <2>3, TwoDetectors DEF Construct, CallsInv, StartUp, Handling, InCall
<1>3. CASE Start \/ StartFails \/ Summarize
  BY <1>3 DEF Start, StartFails, Summarize, CallsInv, callVars, netVars, StartUp, Handling, InCall
<1>4. CASE Interrupt
  <2>1. /\ at' \in {"summary", "killed"} /\ pressed' = TRUE /\ NoCall
        /\ UNCHANGED <<netVars, open>>
    BY <1>4 DEF Interrupt, Interrupted
  <2> QED  BY <2>1, NoCallOK DEF CallsInv, netVars, StartUp, Handling, InCall
<1>5. CASE Stopped \/ UNCHANGED captureVars
  <2>1. UNCHANGED captureVars
    BY <1>5 DEF Stopped
  <2>2. Turn' = Turn /\ Current' = Current
    BY <2>1 DEF captureVars, callVars, Turn, Current
  <2> QED  BY <2>1, <2>2 DEF captureVars, callVars, netVars, CallsInv
<1> QED  BY <1>1, <1>2, <1>3, <1>4, <1>5

LEMMA HandleCallsOK ==
  ASSUME CallsInv, Handle \/ \E p \in Packets : Receive(p)
  PROVE  CallsInv'
<1>1. CASE \E p \in Packets : Receive(p)
  <2>1. /\ at = "waiting" /\ at' = "dispatch" /\ event' \in Packets
        /\ calls' = DetectorsFor(ProtoOf(event')) /\ calls' \subseteq DOMAIN Registrations
        /\ UNCHANGED <<netVars, open, evidence, swept, due, seen, pressed>>
    BY <1>1 DEF Receive, DetectorsFor
  <2> QED  BY <2>1 DEF CallsInv, netVars, StartUp, Handling, InCall
<1>2. CASE Call
  <2>1. /\ at = "dispatch" /\ calls # {} /\ calls \subseteq DOMAIN Registrations
        /\ event' = event /\ event \in Packets /\ ~due
        /\ DetectorsFor(ProtoOf(event)) \subseteq seen \cup calls
        /\ seen' = seen \cup {Turn} /\ UNCHANGED <<netVars, open, swept, pressed>>
    BY <1>2 DEF Call, CallsInv, Handling, InCall
  <2>2. Turn \in calls /\ Current \in Detectors
    BY <2>1, TurnOK
  <2>3. event.evidence[Current] \in Seq(Evidence)
    BY <2>1, <2>2, CaptureAssumption DEF Packet
  <2>4. CASE Ignores(Current)
    BY <1>2, <2>1, <2>2, <2>4 DEF Call, CallsInv, netVars, StartUp, Handling, InCall
  <2>5. CASE ~Ignores(Current)
    <3>1. /\ evidence' = event.evidence[Current] /\ at' \in {"sweep", "find"} /\ calls' = calls
          /\ due' \in BOOLEAN /\ (due' => Current = "arp_spoof")
      BY <1>2, <2>5 DEF Call
    <3>2. Turn' = Turn /\ Current' = Current
      BY <3>1 DEF Turn, Current
    <3> QED
      BY <2>1, <2>2, <2>3, <3>1, <3>2 DEF CallsInv, netVars, StartUp, Handling, InCall
  <2> QED  BY <2>4, <2>5
<1>3. CASE Dispatched
  BY <1>3, NoCallOK DEF Dispatched, CallsInv, netVars, StartUp, Handling, InCall
<1>4. CASE Return
  <2>1. /\ at = "find" /\ ~due /\ calls # {} /\ calls \subseteq DOMAIN Registrations
        /\ calls' = calls \ {Turn}
        /\ UNCHANGED <<netVars, open, event, evidence, swept, due, seen, pressed>>
    BY <1>4 DEF Return, CallsInv, InCall
  <2>2. CASE Constructing
    <3>1. event = NoEvent /\ Current = "arp_spoof" /\ at' = "opening"
      BY <1>4, <2>1, <2>2, NoPacket DEF Return, Constructing, CallsInv, Handling
    <3>2. calls' = {}
      BY <2>1, <3>1, TurnOK
    <3> QED  BY <2>1, <3>1, <3>2 DEF CallsInv, netVars, StartUp, Handling, InCall
  <2>3. CASE ~Constructing
    <3>1. /\ event \in Packets /\ at' = "dispatch" /\ Turn \in seen
          /\ DetectorsFor(ProtoOf(event)) \subseteq seen \cup calls
      BY <1>4, <2>1, <2>3 DEF Return, Constructing, CallsInv, Handling, InCall
    <3> QED  BY <2>1, <3>1 DEF CallsInv, netVars, StartUp, Handling, InCall
  <2> QED  BY <2>2, <2>3
<1>5. CASE Fail
  <2>1. /\ at' \in {"killed", "summary", "waiting"} /\ open' \subseteq open
        /\ NoCall /\ UNCHANGED <<netVars, pressed>>
    BY <1>5 DEF Fail
  <2> QED  BY <2>1, NoCallOK DEF CallsInv, netVars, StartUp, Handling, InCall
<1>6. CASE \/ \E found \in Caches \cup {<<>>} : Resync(found)
           \/ Pass \/ Remember \/ Hide \/ Swept \/ Find \/ Count \/ Climb \/ Forget
  <2>1. /\ at \in InCall /\ at' \in InCall
        /\ at \in {"find", "count", "climb", "forget"} =>
             at' \in {"find", "count", "climb", "forget"}
        /\ calls' = calls /\ seen' = seen /\ event' = event
        /\ due' = due \/ due' = FALSE
        /\ UNCHANGED <<netVars, open, pressed>>
    BY <1>6 DEF Resync, Pass, Remember, Hide, Swept, Find, Count, Climb, Forget, InCall, callVars
  <2>2. Turn' = Turn /\ Current' = Current
    BY <2>1 DEF Turn, Current
  <2>3. swept' \in Nat
    BY <1>6 DEF CallsInv, Resync, Pass, Remember, Hide, Swept, Find, Count, Climb, Forget, callVars
  <2>4. evidence' \in Seq(Evidence)
    <3>1. CASE Forget
      <4>1. evidence \in Seq(Evidence) /\ evidence # <<>> /\ evidence' = Tail(evidence)
        BY <3>1 DEF Forget, CallsInv
      <4> QED  BY <4>1, HeadTailProperties
    <3>2. CASE \E found \in Caches \cup {<<>>} : Resync(found)
      <4>1. evidence' \in Caches \cup {<<>>}
        BY <3>2 DEF Resync
      <4>2. <<>> \in Seq(Evidence)
        OBVIOUS
      <4> QED  BY <4>1, <4>2, CaptureAssumption
    <3>3. CASE Pass \/ Remember \/ Hide \/ Swept \/ Find \/ Count \/ Climb
      BY <3>3 DEF CallsInv, Pass, Remember, Hide, Swept, Find, Count, Climb, callVars
    <3> QED  BY <1>6, <3>1, <3>2, <3>3
  <2>5. at' \in {"count", "climb", "forget"} => evidence' # <<>>
    BY <1>6 DEF CallsInv, Resync, Pass, Remember, Hide, Swept, Find, Count, Climb, Forget, callVars
  <2>6. at \in Handling /\ at' \in Handling /\ at' \notin StartUp
    BY <2>1, Distinct
  <2>7. \/ /\ event' \in Packets /\ DetectorsFor(ProtoOf(event')) \subseteq seen' \cup calls'
           /\ Turn' \in seen'
        \/ /\ event' = NoEvent /\ Current' = "arp_spoof" /\ calls' # {}
           /\ at' \in {"find", "count", "climb", "forget"}
    BY <2>1, <2>2, <2>6 DEF CallsInv
  <2>8. /\ calls' # {} /\ calls' \subseteq DOMAIN Registrations
        /\ seen' \subseteq DOMAIN Registrations /\ open' \subseteq sniffed'
    BY <2>1 DEF CallsInv, netVars
  <2>9. (due' => Current' = "arp_spoof") /\ due' \in BOOLEAN /\ pressed' \in BOOLEAN
    <3>1. pressed' = pressed
      BY <2>1
    <3>2. CASE due' = due
      BY <2>2, <3>1, <3>2 DEF CallsInv
    <3>3. CASE due' = FALSE
      BY <3>1, <3>3 DEF CallsInv
    <3> QED  BY <2>1, <3>2, <3>3
  <2> QED  BY <2>1, <2>3, <2>4, <2>5, <2>6, <2>7, <2>8, <2>9 DEF CallsInv
<1> QED  BY <1>1, <1>2, <1>3, <1>4, <1>5, <1>6 DEF Handle

LEMMA CallsStepOK == CallsInv /\ [CaptureNext]_captureVars => CallsInv'
  BY IdleCallsOK, HandleCallsOK DEF CaptureNext

LEMMA CallsInductive == CaptureSpec => []CallsInv
  BY CallsStart, CallsStepOK, PTL DEF CaptureSpec

\* The event has reached every detector registered for its protocol when its
\* handling ends, by an exception too.
THEOREM EveryDetectorSeesAlways == CaptureSpec => EveryDetectorSees
<1>1. ASSUME CallsInv, [CaptureNext]_captureVars, event # NoEvent, event' = NoEvent, ~pressed'
      PROVE  DetectorsFor(ProtoOf(event)) \subseteq seen
  <2>1. /\ at \in Handling /\ DetectorsFor(ProtoOf(event)) \subseteq seen \cup calls
        /\ at \in InCall => Turn \in seen
    BY <1>1 DEF CallsInv
  <2>2. CASE Dispatched
    BY <2>1, <2>2 DEF Dispatched
  <2>3. CASE Fail
    <3>1. /\ Current = "arp_spoof" /\ calls # {}
          /\ calls \subseteq DOMAIN Registrations /\ Turn \in seen
      BY <1>1, <2>1, <2>3 DEF Fail, CallsInv, InCall
    <3>2. calls = {Turn}
      BY <3>1, TurnOK
    <3> QED  BY <2>1, <3>1, <3>2
  <2>4. ~Dispatched /\ ~Fail => event' = event \/ pressed'
    <3>1. UNCHANGED captureVars => event' = event
      BY DEF captureVars, callVars
    <3>2. Configure \/ Construct \/ Start \/ StartFails \/ Summarize \/ Stopped => event' = event
      BY <3>1 DEF Configure, Construct, Start, StartFails, Summarize, Stopped, callVars
    <3>3. ~(\E p \in Packets : Receive(p))
      BY <2>1 DEF Receive, Handling
    <3>4. Interrupt => pressed'
      BY DEF Interrupt
    <3>5. Handle /\ ~Dispatched /\ ~Fail => event' = event
      BY DEF Handle, Call, Return, Resync, Pass, Remember, Hide, Swept, Find, Count, Climb, Forget,
             callVars
    <3> QED  BY <1>1, <3>1, <3>2, <3>3, <3>4, <3>5 DEF CaptureNext
  <2> QED  BY <1>1, <2>2, <2>3, <2>4
<1>2. CallsInv /\ [CaptureNext]_captureVars =>
        [event # NoEvent /\ event' = NoEvent /\ ~pressed'
           => DetectorsFor(ProtoOf(event)) \subseteq seen]_captureVars
  BY <1>1
<1> QED  BY <1>2, CallsInductive, PTL DEF CaptureSpec, EveryDetectorSees

----------------------------------------------------------------------------
(* The incidents, as a function of the detectors.                          *)

KeyedIn(I, k) ==
  {n \in DOMAIN I[k[1]] :
     I[k[1]][n].interface = k[2] /\ I[k[1]][n].attacker = k[3] /\ I[k[1]][n].victim = k[4]}

The(S) == CHOOSE n \in S : TRUE

SeverityIn(I, k) == IF KeyedIn(I, k) = {} THEN 0 ELSE Rung(I[k[1]][The(KeyedIn(I, k))])

IdleIn(I, k) == KeyedIn(I, k) # {} /\ I[k[1]][The(KeyedIn(I, k))].status = "decayed"

SameKey(a, b) == a.interface = b.interface /\ a.attacker = b.attacker /\ a.victim = b.victim

\* A decayed incident remembers its rung.
Remembered(a) == a.status = "decayed" => a.pre_decay # None

\* One incident per key of a detector, each with a rung.
Sound(I) ==
  /\ I \in [Detectors -> Seq(Incident)]
  /\ \A d \in Detectors : \A n \in DOMAIN I[d] :
       /\ Remembered(I[d][n])
       /\ \A m \in DOMAIN I[d] : SameKey(I[d][n], I[d][m]) => n = m

LEMMA RungOK ==
  ASSUME NEW a \in Incident, Remembered(a)
  PROVE  /\ Peak(a) \in Severity /\ Rung(a) = Rank(Peak(a)) /\ Rung(a) \in 1..3
         /\ a.status # "decayed" => Peak(a) = a.status
<1>1. a.status \in Severity \cup {"decayed"} /\ a.pre_decay \in Severity \cup {None}
  BY DEF Incident
<1>2. Peak(a) \in Severity
  BY <1>1 DEF Peak, Remembered
<1>3. Rank(Peak(a)) \in 1..3
  BY <1>2 DEF Severity, Rank
<1> QED  BY <1>2, <1>3 DEF Rung, Peak

LEMMA OneIncident ==
  ASSUME NEW I, Sound(I), NEW k \in BoardKeys, NEW n \in KeyedIn(I, k)
  PROVE  /\ KeyedIn(I, k) = {n} /\ I[k[1]][n] \in Incident /\ Remembered(I[k[1]][n])
         /\ SeverityIn(I, k) = Rung(I[k[1]][n])
         /\ IdleIn(I, k) <=> I[k[1]][n].status = "decayed"
<1>1. k[1] \in Detectors
  BY DEF BoardKeys
<1>2. n \in DOMAIN I[k[1]] /\ I[k[1]] \in Seq(Incident)
  BY <1>1 DEF KeyedIn, Sound
<1>3. \A m \in KeyedIn(I, k) : m = n
  BY <1>1, <1>2 DEF KeyedIn, Sound, SameKey
<1>4. KeyedIn(I, k) = {n}
  BY <1>3
<1>5. The({n}) = n
  BY DEF The
<1>6. I[k[1]][n] \in Incident
  BY <1>2, ElementOfSeq
<1> QED  BY <1>1, <1>2, <1>4, <1>5, <1>6 DEF SeverityIn, IdleIn, Sound

LEMMA SeverityType ==
  ASSUME NEW I, Sound(I), NEW k \in BoardKeys
  PROVE  SeverityIn(I, k) \in 0..3 /\ (IdleIn(I, k) => SeverityIn(I, k) > 0)
<1>1. CASE KeyedIn(I, k) = {}
  BY <1>1 DEF SeverityIn, IdleIn
<1>2. CASE KeyedIn(I, k) # {}
  <2>1. PICK n : n \in KeyedIn(I, k)
    BY <1>2
  <2>2. SeverityIn(I, k) = Rung(I[k[1]][n]) /\ Rung(I[k[1]][n]) \in 1..3
    BY <2>1, OneIncident, RungOK
  <2> QED  BY <2>2
<1> QED  BY <1>1, <1>2

\* What a step may do to a key of the board.
Moves(I, J, k) ==
  \/ /\ SeverityIn(J, k) = SeverityIn(I, k)
     /\ IdleIn(I, k) => IdleIn(J, k)
  \/ /\ SeverityIn(J, k) \in (IF SeverityIn(I, k) \in {0, 1} THEN {1, 2} ELSE {3})
     /\ ~IdleIn(J, k)

\* J is I with incident n of detector d replaced by b.
Replaced(I, J, d, n, b) ==
  /\ J \in [Detectors -> Seq(Incident)]
  /\ J[d][n] = b
  /\ \A e \in Detectors : DOMAIN J[e] = DOMAIN I[e]
  /\ \A e \in Detectors : \A m \in DOMAIN I[e] : e # d \/ m # n => J[e][m] = I[e][m]

LEMMA ExceptReplaces ==
  ASSUME NEW I \in [Detectors -> Seq(Incident)], NEW d \in Detectors, NEW n \in DOMAIN I[d],
         NEW b \in Incident, NEW J, J = [I EXCEPT ![d][n] = b]
  PROVE  Replaced(I, J, d, n, b)
<1>1. I[d] \in Seq(Incident)
  OBVIOUS
<1>2. J = [I EXCEPT ![d] = [I[d] EXCEPT ![n] = b]]
  OBVIOUS
<1>3. /\ [I[d] EXCEPT ![n] = b] \in Seq(Incident)
      /\ DOMAIN [I[d] EXCEPT ![n] = b] = DOMAIN I[d]
  BY <1>1, ExceptSeq
<1>4. J \in [Detectors -> Seq(Incident)]
  BY <1>1, <1>2, <1>3
<1>5. J[d][n] = b /\ \A e \in Detectors : DOMAIN J[e] = DOMAIN I[e]
  BY <1>1, <1>2, <1>3
<1>6. \A e \in Detectors : \A m \in DOMAIN I[e] : e # d \/ m # n => J[e][m] = I[e][m]
  BY <1>1, <1>2, <1>3
<1> QED  BY <1>4, <1>5, <1>6 DEF Replaced

\* One of the same key: the board moves by that incident.
LEMMA ReplaceOK ==
  ASSUME NEW I, Sound(I), NEW d \in Detectors, NEW n \in DOMAIN I[d],
         NEW b \in Incident, SameKey(b, I[d][n]), Remembered(b),
         NEW J, Replaced(I, J, d, n, b)
  PROVE  /\ Sound(J)
         /\ \A k \in BoardKeys : KeyedIn(J, k) = KeyedIn(I, k)
         /\ \/ Rung(b) = Rung(I[d][n]) /\ (I[d][n].status = "decayed" => b.status = "decayed")
            \/ /\ Rung(b) \in (IF Rung(I[d][n]) \in {0, 1} THEN {1, 2} ELSE {3})
               /\ b.status # "decayed"
            => \A k \in BoardKeys : Moves(I, J, k)
<1>4. J \in [Detectors -> Seq(Incident)]
  BY DEF Replaced
<1>5. J[d][n] = b /\ \A e \in Detectors : DOMAIN J[e] = DOMAIN I[e]
  BY DEF Replaced
<1>6. \A e \in Detectors : \A m \in DOMAIN I[e] : e # d \/ m # n => J[e][m] = I[e][m]
  BY DEF Replaced
<1>7. \A e \in Detectors : \A m \in DOMAIN I[e] : SameKey(J[e][m], I[e][m]) /\ Remembered(J[e][m])
  BY <1>5, <1>6 DEF Sound, SameKey
<1>8. Sound(J)
  BY <1>4, <1>5, <1>7 DEF Sound, SameKey
<1>9. \A k \in BoardKeys : KeyedIn(J, k) = KeyedIn(I, k)
  <2> TAKE k \in BoardKeys
  <2>1. k[1] \in Detectors
    BY DEF BoardKeys
  <2> QED  BY <1>5, <1>7, <2>1 DEF KeyedIn, SameKey
<1>10. ASSUME \/ /\ Rung(b) = Rung(I[d][n])
                 /\ I[d][n].status = "decayed" => b.status = "decayed"
              \/ /\ Rung(b) \in (IF Rung(I[d][n]) \in {0, 1} THEN {1, 2} ELSE {3})
                 /\ b.status # "decayed",
              NEW k \in BoardKeys
       PROVE  Moves(I, J, k)
  <2>1. CASE KeyedIn(I, k) = {}
    BY <1>9, <2>1 DEF Moves, SeverityIn, IdleIn
  <2>2. CASE KeyedIn(I, k) # {}
    <3>1. PICK m : m \in KeyedIn(I, k)
      BY <2>2
    <3>2. k[1] \in Detectors /\ m \in DOMAIN I[k[1]] /\ m \in KeyedIn(J, k)
      BY <1>9, <3>1 DEF BoardKeys, KeyedIn
    <3>3. SeverityIn(I, k) = Rung(I[k[1]][m]) /\ (IdleIn(I, k) <=> I[k[1]][m].status = "decayed")
      BY <3>1, OneIncident
    <3>4. SeverityIn(J, k) = Rung(J[k[1]][m]) /\ (IdleIn(J, k) <=> J[k[1]][m].status = "decayed")
      BY <1>8, <3>2, OneIncident
    <3>5. CASE k[1] = d /\ m = n
      BY <1>5, <1>10, <3>3, <3>4, <3>5 DEF Moves
    <3>6. CASE ~(k[1] = d /\ m = n)
      BY <1>6, <3>2, <3>3, <3>4, <3>6 DEF Moves
    <3> QED  BY <3>5, <3>6
  <2> QED  BY <2>1, <2>2
<1> QED  BY <1>8, <1>9, <1>10

\* J is I with one more incident, of detector d.
Grown(I, J, d, b) ==
  /\ J \in [Detectors -> Seq(Incident)]
  /\ \A e \in Detectors : \A m \in DOMAIN I[e] : m \in DOMAIN J[e] /\ J[e][m] = I[e][m]
  /\ \E last \in DOMAIN J[d] :
       /\ last \notin DOMAIN I[d] /\ J[d][last] = b
       /\ \A e \in Detectors : \A m \in DOMAIN J[e] : m \in DOMAIN I[e] \/ (e = d /\ m = last)

LEMMA AppendGrows ==
  ASSUME NEW I \in [Detectors -> Seq(Incident)], NEW d \in Detectors, NEW b \in Incident,
         NEW J, J = [I EXCEPT ![d] = Append(@, b)]
  PROVE  Grown(I, J, d, b)
<1> DEFINE last == Len(I[d]) + 1
<1>2. I[d] \in Seq(Incident)
  OBVIOUS
<1>3. /\ Append(I[d], b) \in Seq(Incident) /\ Len(Append(I[d], b)) = last
      /\ \A m \in 1..Len(I[d]) : Append(I[d], b)[m] = I[d][m]
      /\ Append(I[d], b)[last] = b
  BY <1>2, AppendProperties
<1>4. DOMAIN I[d] = 1..Len(I[d]) /\ Len(I[d]) \in Nat /\ DOMAIN Append(I[d], b) = 1..last
  BY <1>2, <1>3
<1>5. J \in [Detectors -> Seq(Incident)] /\ J[d] = Append(I[d], b)
      /\ \A e \in Detectors : e # d => J[e] = I[e]
  BY <1>2, <1>3
<1>6. last \in DOMAIN J[d] /\ last \notin DOMAIN I[d] /\ J[d][last] = b
  BY <1>3, <1>4, <1>5
<1>7. \A e \in Detectors : \A m \in DOMAIN I[e] : m \in DOMAIN J[e] /\ J[e][m] = I[e][m]
  BY <1>3, <1>4, <1>5
<1>8. \A e \in Detectors : \A m \in DOMAIN J[e] : m \in DOMAIN I[e] \/ (e = d /\ m = last)
  BY <1>3, <1>4, <1>5
<1> HIDE DEF last
<1> QED  BY <1>5, <1>6, <1>7, <1>8 DEF Grown

\* A first piece of evidence against a key.
LEMMA AppendOK ==
  ASSUME NEW I, Sound(I), NEW K \in BoardKeys, KeyedIn(I, K) = {},
         NEW b \in Incident, b.interface = K[2], b.attacker = K[3], b.victim = K[4],
         b.status = "suspected",
         NEW J, Grown(I, J, K[1], b)
  PROVE  /\ Sound(J) /\ KeyedIn(J, K) # {}
         /\ \A e \in Detectors : \A m \in DOMAIN J[e] :
              (m \in DOMAIN I[e] /\ J[e][m] = I[e][m]) \/ J[e][m] = b
         /\ \A k \in BoardKeys : Moves(I, J, k)
<1> DEFINE d == K[1]
<1>1. d \in Detectors
  BY DEF BoardKeys
<1>5. J \in [Detectors -> Seq(Incident)]
  BY DEF Grown
<1>7. \A e \in Detectors : \A m \in DOMAIN I[e] : m \in DOMAIN J[e] /\ J[e][m] = I[e][m]
  BY DEF Grown
<1>2. PICK last \in DOMAIN J[d] :
        /\ last \notin DOMAIN I[d] /\ J[d][last] = b
        /\ \A e \in Detectors : \A m \in DOMAIN J[e] : m \in DOMAIN I[e] \/ (e = d /\ m = last)
  BY DEF Grown
<1>6. last \in DOMAIN J[d] /\ last \notin DOMAIN I[d] /\ J[d][last] = b
  BY <1>2
<1>8. \A e \in Detectors : \A m \in DOMAIN J[e] : m \in DOMAIN I[e] \/ (e = d /\ m = last)
  BY <1>2
<1> HIDE DEF d
<1>9. \A m \in DOMAIN I[d] : ~SameKey(I[d][m], b)
  BY DEF KeyedIn, SameKey, d
<1>10. Sound(J)
  <2>1. ASSUME NEW e \in Detectors, NEW m \in DOMAIN J[e] PROVE Remembered(J[e][m])
    BY <2>1, <1>6, <1>7, <1>8 DEF Sound, Remembered
  <2>2. ASSUME NEW e \in Detectors, NEW m \in DOMAIN J[e], NEW j \in DOMAIN J[e],
               SameKey(J[e][m], J[e][j])
        PROVE  m = j
    <3>1. CASE m \in DOMAIN I[e] /\ j \in DOMAIN I[e]
      BY <2>2, <3>1, <1>7 DEF Sound
    <3>2. CASE e = d /\ m = last /\ j \in DOMAIN I[e]
      BY <2>2, <3>2, <1>6, <1>7, <1>9 DEF SameKey
    <3>3. CASE e = d /\ j = last /\ m \in DOMAIN I[e]
      BY <2>2, <3>3, <1>6, <1>7, <1>9 DEF SameKey
    <3> QED  BY <1>8, <3>1, <3>2, <3>3
  <2> QED  BY <1>5, <2>1, <2>2 DEF Sound
<1>11. last \in KeyedIn(J, K)
  BY <1>6 DEF KeyedIn, d
<1>12. ASSUME NEW k \in BoardKeys PROVE Moves(I, J, k)
  <2>1. k[1] \in Detectors
    BY DEF BoardKeys
  <2>2. CASE last \in KeyedIn(J, k) /\ k[1] = d
    <3>1. KeyedIn(I, k) = {}
      <4>1. k[2] = b.interface /\ k[3] = b.attacker /\ k[4] = b.victim
        BY <1>6, <2>2 DEF KeyedIn
      <4> QED  BY <1>9, <2>2, <4>1 DEF KeyedIn, SameKey
    <3>2. SeverityIn(J, k) = Rung(b) /\ ~IdleIn(J, k)
      <4>1. /\ SeverityIn(J, k) = Rung(J[k[1]][last])
            /\ IdleIn(J, k) <=> J[k[1]][last].status = "decayed"
        BY <1>10, <2>2, OneIncident
      <4> QED  BY <1>6, <2>2, <4>1
    <3>3. Rung(b) = 1
      BY DEF Rung, Peak, Severity, Rank
    <3>4. SeverityIn(I, k) = 0
      BY <3>1 DEF SeverityIn
    <3> QED  BY <3>2, <3>3, <3>4 DEF Moves
  <2>3. CASE ~(last \in KeyedIn(J, k) /\ k[1] = d)
    <3>1. KeyedIn(J, k) = KeyedIn(I, k)
      BY <1>7, <1>8, <2>1, <2>3 DEF KeyedIn
    <3>2. CASE KeyedIn(I, k) = {}
      BY <3>1, <3>2 DEF Moves, SeverityIn, IdleIn
    <3>3. CASE KeyedIn(I, k) # {}
      <4>1. PICK m : m \in KeyedIn(I, k)
        BY <3>3
      <4>2. J[k[1]][m] = I[k[1]][m]
        BY <1>7, <2>1, <4>1 DEF KeyedIn
      <4>3. SeverityIn(I, k) = Rung(I[k[1]][m]) /\ (IdleIn(I, k) <=> I[k[1]][m].status = "decayed")
        BY <4>1, OneIncident
      <4>4. SeverityIn(J, k) = Rung(J[k[1]][m]) /\ (IdleIn(J, k) <=> J[k[1]][m].status = "decayed")
        BY <1>10, <3>1, <4>1, OneIncident
      <4> QED  BY <4>2, <4>3, <4>4 DEF Moves
    <3> QED  BY <3>2, <3>3
  <2> QED  BY <2>2, <2>3
<1>13. \A e \in Detectors : \A m \in DOMAIN J[e] :
         (m \in DOMAIN I[e] /\ J[e][m] = I[e][m]) \/ J[e][m] = b
  BY <1>6, <1>7, <1>8
<1> QED  BY <1>10, <1>11, <1>12, <1>13

----------------------------------------------------------------------------
(* The statements of a call.                                               *)

Ended == {"summary", "done", "killed"}

\* The incident between the two assignments of decay, or of _escalate.
HalfDone(d, n) ==
  /\ d = Current
  /\ \/ at = "decay" /\ n = swept + 1
     \/ at = "forget" /\ n \in Found

\* Evidence is counted before an incident climbs for it; what was never
\* counted is being recorded, or Ctrl+C has cut its recording off.
CountedFirst ==
  /\ \A d \in Detectors : \A n \in DOMAIN incidents[d] :
       LET a == incidents[d][n] IN
         /\ Rung(a) <= a.count + 1
         /\ a.count = 0 => pressed \/ (at = "count" /\ d = Current /\ n \in Found)
  /\ at = "climb" => \A n \in Found : Rung(Own[n]) <= Own[n].count

IncidentsInv ==
  /\ Sound(incidents)
  /\ at \notin Ended => \A d \in Detectors : \A n \in DOMAIN incidents[d] :
                          Consistent(incidents[d][n]) \/ HalfDone(d, n)
  /\ at = "decay" => /\ swept + 1 \in DOMAIN Own
                     /\ Own[swept + 1].status # "decayed"
                     /\ Own[swept + 1].pre_decay = Own[swept + 1].status
  /\ at \in {"count", "climb", "forget"} => Found # {}
  /\ at = "forget" => \A n \in Found : Own[n].status # "decayed"
  /\ CountedFirst

RunningKey == <<Current, Head(evidence).interface, Head(evidence).attacker, Head(evidence).victim>>

LEMMA RunningOK ==
  ASSUME CallsInv, at \in InCall
  PROVE  /\ Current \in Detectors
         /\ evidence # <<>> => /\ Head(evidence) \in Evidence /\ RunningKey \in BoardKeys
                               /\ Found = KeyedIn(incidents, RunningKey)
<1>1. Current \in Detectors
  BY TurnOK DEF CallsInv
<1>2. ASSUME evidence # <<>>
      PROVE  /\ Head(evidence) \in Evidence /\ RunningKey \in BoardKeys
             /\ Found = KeyedIn(incidents, RunningKey)
  <2>1. Head(evidence) \in Evidence
    BY <1>2, HeadTailProperties DEF CallsInv
  <2>2. RunningKey \in BoardKeys
    BY <1>1, <2>1 DEF RunningKey, BoardKeys, Evidence
  <2>3. Found = KeyedIn(incidents, RunningKey)
    BY DEF Found, At, KeyedIn, RunningKey
  <2> QED  BY <2>1, <2>2, <2>3
<1> QED  BY <1>1, <1>2

\* _escalate: up the ladder, or up to the floor.
LEMMA EscalateOK ==
  ASSUME NEW a \in Incident, Remembered(a), NEW floor \in {None, "confirmed"}
  PROVE  /\ Escalate(a, floor).status \in Severity
         /\ Rank(Escalate(a, floor).status) \in (IF Rung(a) \in {0, 1} THEN {1, 2} ELSE {3})
<1> DEFINE current == IF Peak(a) = "confirmed" THEN "ongoing" ELSE Peak(a)
           s == IF floor # None /\ Rank(floor) > Rank(current) THEN floor ELSE current
<1>1. Peak(a) \in Severity /\ Rung(a) = Rank(Peak(a))
  BY RungOK
<1>2. Escalate(a, floor).status = s
  BY DEF Escalate, Incident
<1>3. s \in Severity /\ Rank(s) \in (IF Rank(Peak(a)) \in {0, 1} THEN {1, 2} ELSE {3})
  BY <1>1 DEF Severity, Rank, None
<1> QED  BY <1>1, <1>2, <1>3

\* No incident changes.
LEMMA QuietOK ==
  ASSUME IncidentsInv, incidents' = incidents, pressed => pressed',
         \/ at' \in Ended /\ (at = "count" => pressed')
         \/ /\ at \notin {"decay", "forget", "count"} \cup Ended
            /\ at' \notin {"decay", "forget", "climb"} \cup Ended
            /\ at' = "count" => Found' # {}
  PROVE  IncidentsInv'
<1>1. Sound(incidents')
  BY DEF IncidentsInv
<1>2. at' # "climb" /\ (at = "count" => pressed')
  BY DEF Ended
<1>3. CountedFirst'
  <2>1. \A d \in Detectors : \A n \in DOMAIN incidents[d] :
          /\ Rung(incidents[d][n]) <= incidents[d][n].count + 1
          /\ incidents[d][n].count = 0 => pressed \/ at = "count"
    BY DEF IncidentsInv, CountedFirst
  <2>2. \A d \in Detectors : \A n \in DOMAIN incidents'[d] :
          /\ Rung(incidents'[d][n]) <= incidents'[d][n].count + 1
          /\ incidents'[d][n].count = 0 => pressed'
    BY <1>2, <2>1
  <2> QED  BY <1>2, <2>2 DEF CountedFirst
<1>4. CASE at' \in Ended
  BY <1>1, <1>3, <1>4 DEF IncidentsInv, Ended
<1>5. CASE /\ at \notin {"decay", "forget", "count"} \cup Ended
           /\ at' \notin {"decay", "forget", "climb"} \cup Ended
           /\ at' = "count" => Found' # {}
  <2>1. \A d \in Detectors : \A n \in DOMAIN incidents[d] : Consistent(incidents[d][n])
    BY <1>5 DEF IncidentsInv, HalfDone
  <2> QED  BY <1>1, <1>3, <1>5, <2>1 DEF IncidentsInv
<1> QED  BY <1>4, <1>5

LEMMA QuietMoves ==
  ASSUME incidents' = incidents, NEW k \in BoardKeys
  PROVE  Moves(incidents, incidents', k)
  BY DEF Moves

LEMMA FindOK ==
  ASSUME CallsInv, IncidentsInv, Find
  PROVE  IncidentsInv' /\ \A k \in BoardKeys : Moves(incidents, incidents', k)
<1>1. /\ at = "find" /\ at' = "count" /\ evidence # <<>>
      /\ Turn' = Turn /\ evidence' = evidence /\ pressed' = pressed
  BY DEF Find, callVars, Turn
<1>2. Current' = Current
  BY <1>1 DEF Current
<1>3. CASE Found # {}
  <2>1. incidents' = incidents
    BY <1>3 DEF Find
  <2>2. Found' # {}
    BY <1>1, <1>2, <1>3, <2>1 DEF Found, At
  <2> QED  BY <1>1, <2>1, <2>2, QuietOK, QuietMoves DEF Ended
<1>4. CASE Found = {}
  <2> DEFINE b == NewIncident(Head(evidence))
  <2>1. /\ Current \in Detectors /\ Head(evidence) \in Evidence
        /\ RunningKey \in BoardKeys /\ Found = KeyedIn(incidents, RunningKey)
    BY <1>1, RunningOK DEF InCall
  <2>2. b \in Incident /\ b.status = "suspected" /\ b.pre_decay = None /\ b.count = 0
        /\ b.interface = RunningKey[2] /\ b.attacker = RunningKey[3] /\ b.victim = RunningKey[4]
    BY <2>1 DEF NewIncident, Incident, Evidence, Severity, RunningKey
  <2>3. Sound(incidents) /\ incidents \in [Detectors -> Seq(Incident)]
    BY DEF IncidentsInv, Sound
  <2>4. incidents' = [incidents EXCEPT ![Current] = Append(@, b)]
    BY <1>4 DEF Find
  <2>5. Grown(incidents, incidents', RunningKey[1], b)
    BY <2>1, <2>2, <2>3, <2>4, AppendGrows DEF RunningKey
  <2> HIDE DEF b
  <2>6. /\ Sound(incidents') /\ KeyedIn(incidents', RunningKey) # {}
        /\ \A e \in Detectors : \A m \in DOMAIN incidents'[e] :
             \/ m \in DOMAIN incidents[e] /\ incidents'[e][m] = incidents[e][m]
             \/ incidents'[e][m] = b
        /\ \A k \in BoardKeys : Moves(incidents, incidents', k)
    <3> HIDE <2>4
    <3> QED  BY <1>4, <2>1, <2>2, <2>3, <2>5, AppendOK
  <2>7. Found' # {}
    <3>1. Found' = KeyedIn(incidents', RunningKey)
      BY <1>1, <1>2 DEF Found, At, KeyedIn, RunningKey
    <3> QED  BY <2>6, <3>1
  <2>8. Consistent(b)
    BY <2>2 DEF Consistent
  <2>9. \A d \in Detectors : \A n \in DOMAIN incidents[d] : Consistent(incidents[d][n])
    BY <1>1 DEF IncidentsInv, HalfDone, Ended
  <2>10. \A d \in Detectors : \A n \in DOMAIN incidents'[d] : Consistent(incidents'[d][n])
    BY <2>6, <2>8, <2>9
  <2>11. CountedFirst'
    <3>1. \A d \in Detectors : \A n \in DOMAIN incidents[d] :
            /\ Rung(incidents[d][n]) <= incidents[d][n].count + 1
            /\ incidents[d][n].count = 0 => pressed
      BY <1>1 DEF IncidentsInv, CountedFirst
    <3>2. Rung(b) = 1
      BY <2>2 DEF Rung, Peak, Severity, Rank
    <3>3. ASSUME NEW d \in Detectors, NEW n \in DOMAIN incidents'[d],
                 ~(n \in DOMAIN incidents[d] /\ incidents'[d][n] = incidents[d][n])
          PROVE  /\ Rung(incidents'[d][n]) <= incidents'[d][n].count + 1
                 /\ d = Current' /\ n \in Found'
      <4>1. incidents'[d][n] = b
        BY <2>6, <3>3
      <4>2. d = Current
        BY <2>5, <3>3 DEF Grown, RunningKey
      <4>3. n \in Found'
        BY <1>1, <1>2, <2>2, <3>3, <4>1, <4>2 DEF Found, At, RunningKey
      <4> QED  BY <1>2, <2>2, <3>2, <4>1, <4>2, <4>3
    <3>4. ASSUME NEW d \in Detectors, NEW n \in DOMAIN incidents'[d]
          PROVE  /\ Rung(incidents'[d][n]) <= incidents'[d][n].count + 1
                 /\ incidents'[d][n].count = 0 =>
                      pressed' \/ (at' = "count" /\ d = Current' /\ n \in Found')
      BY <1>1, <3>1, <3>3
    <3> QED  BY <1>1, <3>4 DEF CountedFirst
  <2> QED  BY <1>1, <2>6, <2>7, <2>10, <2>11 DEF IncidentsInv
<1> QED  BY <1>3, <1>4

\* One assignment to a field of an incident.
LEMMA AssignOK ==
  ASSUME IncidentsInv, Current \in Detectors, NEW n \in DOMAIN Own, NEW b \in Incident,
         SetOwn(n, b), SameKey(b, Own[n]), Remembered(b),
         \/ Rung(b) = Rung(Own[n]) /\ (Own[n].status = "decayed" => b.status = "decayed")
         \/ /\ Rung(b) \in (IF Rung(Own[n]) \in {0, 1} THEN {1, 2} ELSE {3})
            /\ b.status # "decayed",
         Current' = Current
  PROVE  /\ Sound(incidents')
         /\ DOMAIN Own' = DOMAIN Own /\ Own'[n] = b
         /\ \A d \in Detectors : \A m \in DOMAIN incidents'[d] :
              /\ m \in DOMAIN incidents[d]
              /\ incidents'[d][m] = incidents[d][m] \/ (d = Current /\ m = n)
         /\ \A k \in BoardKeys : KeyedIn(incidents', k) = KeyedIn(incidents, k)
         /\ \A k \in BoardKeys : Moves(incidents, incidents', k)
<1> DEFINE d == Current
<1>1. /\ Sound(incidents) /\ d \in Detectors /\ n \in DOMAIN incidents[d]
      /\ SameKey(b, incidents[d][n]) /\ incidents' = [incidents EXCEPT ![d][n] = b]
      /\ \/ Rung(b) = Rung(incidents[d][n])
            /\ (incidents[d][n].status = "decayed" => b.status = "decayed")
         \/ /\ Rung(b) \in (IF Rung(incidents[d][n]) \in {0, 1} THEN {1, 2} ELSE {3})
            /\ b.status # "decayed"
  BY DEF IncidentsInv, Own, SetOwn
<1> HIDE DEF d
<1>2. Replaced(incidents, incidents', d, n, b)
  BY <1>1, ExceptReplaces DEF Sound
<1>3. /\ Sound(incidents')
      /\ \A k \in BoardKeys : KeyedIn(incidents', k) = KeyedIn(incidents, k)
      /\ \A k \in BoardKeys : Moves(incidents, incidents', k)
  <2>1. /\ Sound(incidents) /\ d \in Detectors /\ n \in DOMAIN incidents[d]
        /\ SameKey(b, incidents[d][n])
        /\ \/ Rung(b) = Rung(incidents[d][n])
              /\ (incidents[d][n].status = "decayed" => b.status = "decayed")
           \/ /\ Rung(b) \in (IF Rung(incidents[d][n]) \in {0, 1} THEN {1, 2} ELSE {3})
              /\ b.status # "decayed"
    BY <1>1
  <2> HIDE <1>1
  <2> QED  BY <1>2, <2>1, ReplaceOK
<1>4. Own' = incidents'[d] /\ Own = incidents[d]
  BY DEF Own, d
<1> QED  BY <1>1, <1>2, <1>3, <1>4 DEF d, Replaced

LEMMA OwnIncident ==
  ASSUME IncidentsInv, Current \in Detectors, NEW n \in DOMAIN Own
  PROVE  Own[n] \in Incident /\ Remembered(Own[n])
<1>1. incidents[Current] \in Seq(Incident)
  BY DEF IncidentsInv, Sound
<1>2. Own[n] \in Incident
  BY <1>1, ElementOfSeq DEF Own
<1> QED  BY <1>2 DEF IncidentsInv, Sound, Own

\* Where the count and the rung stay what they were.
LEMMA SameCountOK ==
  ASSUME IncidentsInv, Current \in Detectors, NEW n \in DOMAIN Own, NEW b,
         Own'[n] = b, Current' = Current, pressed => pressed',
         \A d \in Detectors : \A m \in DOMAIN incidents'[d] :
           /\ m \in DOMAIN incidents[d]
           /\ incidents'[d][m] = incidents[d][m] \/ (d = Current /\ m = n),
         Rung(b) = Rung(Own[n]), b.count = Own[n].count,
         at # "count", at' # "climb"
  PROVE  CountedFirst'
<1>1. \A d \in Detectors : \A m \in DOMAIN incidents[d] :
        /\ Rung(incidents[d][m]) <= incidents[d][m].count + 1
        /\ incidents[d][m].count = 0 => pressed
  BY DEF IncidentsInv, CountedFirst
<1>2. Own = incidents[Current] /\ incidents'[Current][n] = b
  BY DEF Own
<1>3. ASSUME NEW d \in Detectors, NEW m \in DOMAIN incidents'[d]
      PROVE  /\ Rung(incidents'[d][m]) <= incidents'[d][m].count + 1
             /\ incidents'[d][m].count = 0 => pressed'
  <2>1. CASE incidents'[d][m] = incidents[d][m]
    BY <1>1, <1>3, <2>1
  <2>2. CASE d = Current /\ m = n
    BY <1>1, <1>2, <2>2
  <2> QED  BY <1>3, <2>1, <2>2
<1> QED  BY <1>3 DEF CountedFirst

\* decay remembers, then hides.
LEMMA RememberOK ==
  ASSUME CallsInv, IncidentsInv, Remember
  PROVE  IncidentsInv' /\ \A k \in BoardKeys : Moves(incidents, incidents', k)
<1> DEFINE n == swept + 1
           a == Own[n]
           b == Remembers(a)
<1>1. /\ at = "sweep" /\ at' = "decay" /\ swept < Len(Own) /\ swept \in Nat
      /\ a.status # "decayed" /\ SetOwn(n, b) /\ swept' = swept /\ Turn' = Turn
      /\ pressed' = pressed
  BY DEF Remember, callVars, CallsInv, Turn
<1>2. Current \in Detectors /\ Current' = Current
  BY <1>1, RunningOK DEF InCall, Current
<1>3. n \in DOMAIN Own
  <2>1. incidents[Current] \in Seq(Incident)
    BY <1>2 DEF IncidentsInv, Sound
  <2> QED  BY <1>1, <2>1 DEF Own
<1>4. a \in Incident
  BY <1>2, <1>3, OwnIncident
<1>5. /\ b \in Incident /\ b.status = a.status /\ b.pre_decay = a.status /\ b.count = a.count
      /\ SameKey(b, a) /\ Remembered(b) /\ Rung(b) = Rung(a)
  BY <1>1, <1>4 DEF Remembers, Incident, SameKey, Remembered, Rung, Peak
<1> HIDE DEF n, b
<1>6. /\ Sound(incidents') /\ DOMAIN Own' = DOMAIN Own /\ Own'[n] = b
      /\ \A d \in Detectors : \A m \in DOMAIN incidents'[d] :
           /\ m \in DOMAIN incidents[d]
           /\ incidents'[d][m] = incidents[d][m] \/ (d = Current /\ m = n)
      /\ \A k \in BoardKeys : Moves(incidents, incidents', k)
  BY <1>1, <1>2, <1>3, <1>5, AssignOK
<1>7. \A d \in Detectors : \A m \in DOMAIN incidents'[d] :
        Consistent(incidents'[d][m]) \/ HalfDone(d, m)'
  BY <1>1, <1>2, <1>6 DEF IncidentsInv, HalfDone, Ended, n
<1>8. CountedFirst'
  BY <1>1, <1>2, <1>3, <1>5, <1>6, SameCountOK
<1> QED  BY <1>1, <1>3, <1>5, <1>6, <1>7, <1>8 DEF IncidentsInv, n

LEMMA HideOK ==
  ASSUME CallsInv, IncidentsInv, Hide
  PROVE  IncidentsInv' /\ \A k \in BoardKeys : Moves(incidents, incidents', k)
<1> DEFINE n == swept + 1
           a == Own[n]
           b == Hides(a)
<1>1. /\ at = "decay" /\ at' = "sweep" /\ SetOwn(n, b) /\ Turn' = Turn /\ pressed' = pressed
  BY DEF Hide, Turn
<1>2. Current \in Detectors /\ Current' = Current
  BY <1>1, RunningOK DEF InCall, Current
<1>3. n \in DOMAIN Own /\ a.status # "decayed" /\ a.pre_decay = a.status
  BY <1>1 DEF IncidentsInv
<1>4. a \in Incident
  BY <1>2, <1>3, OwnIncident
<1>5. /\ b \in Incident /\ b.status = "decayed" /\ b.pre_decay = a.status /\ a.status \in Severity
      /\ SameKey(b, a) /\ Rung(b) = Rung(a) /\ b.count = a.count
  BY <1>3, <1>4 DEF Hides, Incident, SameKey, Rung, Peak
<1>6. Remembered(b) /\ Consistent(b)
  BY <1>5 DEF Remembered, Consistent, Severity, None
<1> HIDE DEF n, b
<1>7. /\ Sound(incidents') /\ Own'[n] = b
      /\ \A d \in Detectors : \A m \in DOMAIN incidents'[d] :
           /\ m \in DOMAIN incidents[d]
           /\ incidents'[d][m] = incidents[d][m] \/ (d = Current /\ m = n)
      /\ \A k \in BoardKeys : Moves(incidents, incidents', k)
  BY <1>1, <1>2, <1>3, <1>5, <1>6, AssignOK
<1>8. \A d \in Detectors : \A m \in DOMAIN incidents'[d] : Consistent(incidents'[d][m])
  BY <1>1, <1>2, <1>6, <1>7 DEF IncidentsInv, HalfDone, Ended, Own, n
<1>9. CountedFirst'
  BY <1>1, <1>2, <1>3, <1>5, <1>7, SameCountOK
<1> QED  BY <1>1, <1>7, <1>8, <1>9 DEF IncidentsInv

\* record counts, whatever the incident is shown as.
LEMMA CountOK ==
  ASSUME CallsInv, IncidentsInv, Count
  PROVE  IncidentsInv' /\ \A k \in BoardKeys : Moves(incidents, incidents', k)
<1>1. /\ at = "count" /\ at' = "climb" /\ evidence # <<>>
      /\ Turn' = Turn /\ evidence' = evidence /\ pressed' = pressed
  BY DEF Count, callVars, CallsInv, Turn
<1>2. /\ Current \in Detectors /\ Current' = Current
      /\ RunningKey \in BoardKeys /\ Found = KeyedIn(incidents, RunningKey)
  BY <1>1, RunningOK DEF InCall, Current
<1>3. PICK n \in Found : SetOwn(n, Counted(Own[n]))
  BY DEF Count
<1> DEFINE a == Own[n]
           b == Counted(a)
<1>4. n \in DOMAIN Own /\ Found = {n}
  <2>1. KeyedIn(incidents, RunningKey) = {n}
    BY <1>2, <1>3, OneIncident DEF IncidentsInv
  <2> QED  BY <1>2, <1>3, <2>1 DEF Found, At, Own
<1>5. a \in Incident /\ Remembered(a)
  BY <1>2, <1>4, OwnIncident
<1>6. /\ b \in Incident /\ b.status = a.status /\ b.pre_decay = a.pre_decay
      /\ b.count = a.count + 1 /\ a.count \in Nat
      /\ SameKey(b, a) /\ Remembered(b) /\ Rung(b) = Rung(a)
      /\ Consistent(a) => Consistent(b)
  BY <1>5 DEF Counted, Incident, SameKey, Remembered, Consistent, Rung, Peak
<1> HIDE DEF b
<1>7. /\ Sound(incidents') /\ Own'[n] = b
      /\ \A d \in Detectors : \A m \in DOMAIN incidents'[d] :
           /\ m \in DOMAIN incidents[d]
           /\ incidents'[d][m] = incidents[d][m] \/ (d = Current /\ m = n)
      /\ \A k \in BoardKeys : KeyedIn(incidents', k) = KeyedIn(incidents, k)
      /\ \A k \in BoardKeys : Moves(incidents, incidents', k)
  <2>1. SetOwn(n, b)
    BY <1>3 DEF b
  <2> QED  BY <1>2, <1>4, <1>6, <2>1, AssignOK
<1>8. Found' = {n}
  <2>1. Found' = KeyedIn(incidents', RunningKey)
    BY <1>1, <1>2 DEF Found, At, KeyedIn, RunningKey
  <2> QED  BY <1>2, <1>4, <1>7, <2>1
<1>9. Own = incidents[Current] /\ incidents'[Current][n] = b
  BY <1>2, <1>7 DEF Own
<1>10. \A d \in Detectors : \A m \in DOMAIN incidents'[d] : Consistent(incidents'[d][m])
  <2>1. \A d \in Detectors : \A m \in DOMAIN incidents[d] : Consistent(incidents[d][m])
    BY <1>1 DEF IncidentsInv, HalfDone, Ended
  <2> QED  BY <1>2, <1>4, <1>6, <1>7, <1>9, <2>1
<1>11. CountedFirst'
  <2>1. \A d \in Detectors : \A m \in DOMAIN incidents[d] :
          /\ Rung(incidents[d][m]) <= incidents[d][m].count + 1
          /\ incidents[d][m].count = 0 => pressed \/ (d = Current /\ m = n)
    BY <1>4 DEF IncidentsInv, CountedFirst
  <2>2. Rung(a) <= a.count + 1 /\ Rung(a) \in 1..3
    BY <1>2, <1>4, <1>5, <1>9, <2>1, RungOK
  <2>3. Rung(b) <= b.count /\ b.count # 0 /\ Rung(b) <= b.count + 1
    BY <1>6, <2>2
  <2>4. \A d \in Detectors : \A m \in DOMAIN incidents'[d] :
          /\ Rung(incidents'[d][m]) <= incidents'[d][m].count + 1
          /\ incidents'[d][m].count = 0 => pressed'
    BY <1>1, <1>7, <1>9, <2>1, <2>3
  <2>5. \A m \in Found' : Rung(Own'[m]) <= Own'[m].count
    BY <1>7, <1>8, <2>3
  <2> QED  BY <2>4, <2>5 DEF CountedFirst
<1> QED  BY <1>1, <1>7, <1>8, <1>10, <1>11 DEF IncidentsInv

\* _escalate raises, then forgets what was remembered.
LEMMA ClimbOK ==
  ASSUME CallsInv, IncidentsInv, Climb
  PROVE  IncidentsInv' /\ \A k \in BoardKeys : Moves(incidents, incidents', k)
<1> DEFINE e == Head(evidence)
<1>1. /\ at = "climb" /\ at' = "forget" /\ evidence # <<>>
      /\ Turn' = Turn /\ evidence' = evidence /\ pressed' = pressed
  BY DEF Climb, callVars, CallsInv, Turn
<1>2. /\ Current \in Detectors /\ Current' = Current /\ e \in Evidence
      /\ RunningKey \in BoardKeys /\ Found = KeyedIn(incidents, RunningKey)
  BY <1>1, RunningOK DEF InCall, Current
<1>3. PICK n \in Found : SetOwn(n, [Own[n] EXCEPT !.status = Escalate(Own[n], e.floor).status])
  BY DEF Climb
<1> DEFINE a == Own[n]
           s == Escalate(a, e.floor).status
           b == [a EXCEPT !.status = s]
<1>4. n \in DOMAIN Own /\ Found = {n}
  <2>1. KeyedIn(incidents, RunningKey) = {n}
    BY <1>2, <1>3, OneIncident DEF IncidentsInv
  <2> QED  BY <1>2, <1>3, <2>1 DEF Found, At, Own
<1>5. a \in Incident /\ Remembered(a)
  BY <1>2, <1>4, OwnIncident
<1>6. s \in Severity /\ Rank(s) \in (IF Rung(a) \in {0, 1} THEN {1, 2} ELSE {3})
  <2>1. e.floor \in {None, "confirmed"}
    BY <1>2 DEF Evidence
  <2> QED  BY <1>5, <2>1, EscalateOK
<1> HIDE DEF s
<1>7. b \in Incident /\ b.status = s /\ SameKey(b, a) /\ b.count = a.count /\ a.count \in Nat
  BY <1>5, <1>6 DEF Incident, SameKey
<1>8. s # "decayed"
  BY <1>6 DEF Severity
<1>9. Remembered(b) /\ Rung(b) = Rank(s)
  BY <1>6, <1>7, <1>8 DEF Remembered, Rung, Peak
<1>10. SetOwn(n, b)
  BY <1>3 DEF s
<1> HIDE DEF b
<1>11. /\ Sound(incidents') /\ Own'[n] = b
       /\ \A d \in Detectors : \A m \in DOMAIN incidents'[d] :
            /\ m \in DOMAIN incidents[d]
            /\ incidents'[d][m] = incidents[d][m] \/ (d = Current /\ m = n)
       /\ \A k \in BoardKeys : KeyedIn(incidents', k) = KeyedIn(incidents, k)
       /\ \A k \in BoardKeys : Moves(incidents, incidents', k)
  BY <1>2, <1>4, <1>6, <1>7, <1>8, <1>9, <1>10, AssignOK
<1>12. Found' = {n}
  <2>1. Found' = KeyedIn(incidents', RunningKey)
    BY <1>1, <1>2 DEF Found, At, KeyedIn, RunningKey
  <2> QED  BY <1>2, <1>4, <1>11, <2>1
<1>13. \A d \in Detectors : \A m \in DOMAIN incidents'[d] :
         Consistent(incidents'[d][m]) \/ HalfDone(d, m)'
  BY <1>1, <1>2, <1>11, <1>12 DEF IncidentsInv, HalfDone, Ended
<1>14. CountedFirst'
  <2>1. Own = incidents[Current] /\ incidents'[Current][n] = b
    BY <1>2, <1>11 DEF Own
  <2>2. \A d \in Detectors : \A m \in DOMAIN incidents[d] :
          /\ Rung(incidents[d][m]) <= incidents[d][m].count + 1
          /\ incidents[d][m].count = 0 => pressed
    BY <1>1 DEF IncidentsInv, CountedFirst
  <2>3. Rung(a) <= a.count /\ Rung(a) \in 1..3 /\ (a.count = 0 => pressed)
    BY <1>1, <1>2, <1>4, <1>5, <2>1, <2>2, RungOK DEF IncidentsInv, CountedFirst
  <2>4. Rung(b) \in 1..Rung(a) + 1
    BY <1>6, <1>9, <2>3
  <2>5. Rung(b) <= b.count + 1 /\ (b.count = 0 => pressed)
    BY <1>7, <2>3, <2>4
  <2>6. \A d \in Detectors : \A m \in DOMAIN incidents'[d] :
          /\ Rung(incidents'[d][m]) <= incidents'[d][m].count + 1
          /\ incidents'[d][m].count = 0 => pressed'
    BY <1>1, <1>11, <2>1, <2>2, <2>5
  <2> QED  BY <1>1, <2>6 DEF CountedFirst
<1> QED  BY <1>1, <1>7, <1>8, <1>11, <1>12, <1>13, <1>14 DEF IncidentsInv

LEMMA ForgetOK ==
  ASSUME CallsInv, IncidentsInv, Forget
  PROVE  IncidentsInv' /\ \A k \in BoardKeys : Moves(incidents, incidents', k)
<1>1. /\ at = "forget" /\ at' = "find" /\ evidence # <<>> /\ Turn' = Turn /\ pressed' = pressed
  BY DEF Forget, CallsInv, Turn
<1>2. /\ Current \in Detectors /\ Current' = Current
      /\ RunningKey \in BoardKeys /\ Found = KeyedIn(incidents, RunningKey)
  BY <1>1, RunningOK DEF InCall, Current
<1>3. PICK n \in Found : SetOwn(n, Forgets(Own[n]))
  BY DEF Forget
<1> DEFINE a == Own[n]
           b == Forgets(a)
<1>4. n \in DOMAIN Own /\ Found = {n} /\ a.status # "decayed"
  <2>1. KeyedIn(incidents, RunningKey) = {n}
    BY <1>2, <1>3, OneIncident DEF IncidentsInv
  <2>2. a.status # "decayed"
    BY <1>1, <1>3 DEF IncidentsInv
  <2> QED  BY <1>2, <1>3, <2>1, <2>2 DEF Found, At, Own
<1>5. a \in Incident
  BY <1>2, <1>4, OwnIncident
<1>6. /\ b \in Incident /\ b.status = a.status /\ b.pre_decay = None /\ b.count = a.count
      /\ SameKey(b, a) /\ Remembered(b) /\ Consistent(b) /\ Rung(b) = Rung(a)
  BY <1>4, <1>5 DEF Forgets, Incident, SameKey, Remembered, Consistent, Rung, Peak
<1> HIDE DEF b
<1>7. /\ Sound(incidents') /\ Own'[n] = b
      /\ \A d \in Detectors : \A m \in DOMAIN incidents'[d] :
           /\ m \in DOMAIN incidents[d]
           /\ incidents'[d][m] = incidents[d][m] \/ (d = Current /\ m = n)
      /\ \A k \in BoardKeys : Moves(incidents, incidents', k)
  <2>1. SetOwn(n, b)
    BY <1>3 DEF b
  <2> QED  BY <1>2, <1>4, <1>6, <2>1, AssignOK
<1>8. \A d \in Detectors : \A m \in DOMAIN incidents'[d] : Consistent(incidents'[d][m])
  BY <1>1, <1>2, <1>4, <1>6, <1>7 DEF IncidentsInv, HalfDone, Ended, Own
<1>9. CountedFirst'
  BY <1>1, <1>2, <1>4, <1>6, <1>7, SameCountOK
<1> QED  BY <1>1, <1>7, <1>8, <1>9 DEF IncidentsInv

LEMMA IncidentsStart == CaptureInit => IncidentsInv
<1> SUFFICES ASSUME CaptureInit PROVE IncidentsInv
  OBVIOUS
<1>1. at = "sniff_list" /\ incidents = [d \in Detectors |-> <<>>]
  BY DEF CaptureInit, NetInit
<1>2. incidents \in [Detectors -> Seq(Incident)] /\ \A d \in Detectors : DOMAIN incidents[d] = {}
  BY <1>1
<1> QED  BY <1>1, <1>2 DEF IncidentsInv, Sound, CountedFirst

\* Every statement keeps the invariant and moves the board.
LEMMA IncidentsStepOK ==
  ASSUME CallsInv, IncidentsInv, [CaptureNext]_captureVars
  PROVE  IncidentsInv' /\ \A k \in BoardKeys : Moves(incidents, incidents', k)
<1>1. CASE Stopped \/ UNCHANGED captureVars
  <2>1. UNCHANGED captureVars
    BY <1>1 DEF Stopped
  <2>2. /\ at' = at /\ swept' = swept /\ incidents' = incidents /\ evidence' = evidence
        /\ pressed' = pressed /\ Turn' = Turn
    BY <2>1 DEF captureVars, callVars, Turn
  <2>3. Current' = Current /\ Own' = Own /\ Found' = Found
    BY <2>2 DEF Current, Own, Found, At
  <2> QED  BY <2>2, <2>3, QuietMoves DEF IncidentsInv, HalfDone, CountedFirst
<1>2. CASE Configure \/ Construct \/ Start \/ StartFails \/ Interrupt \/ Summarize
  <2>1. incidents' = incidents /\ (pressed => pressed')
    BY <1>2 DEF Configure, Construct, Start, StartFails, Interrupt, Summarize
  <2>2. \/ at' \in Ended /\ (at = "count" => pressed')
        \/ at \in StartUp /\ at' \in StartUp \cup {"ready"}
        \/ at \in {"ready", "opening"} /\ at' \in {"find", "waiting"}
    BY <1>2 DEF Configure, NetNext, Look, Change, GetIfList, GetBridgeMembers, GetWanInterface,
                StartUp, After, Construct, Start, StartFails, Interrupt, Interrupted, Summarize,
                Ended
  <2> QED  BY <2>1, <2>2, QuietOK, QuietMoves DEF StartUp, Ended
<1>3. CASE \/ \E p \in Packets : Receive(p)
           \/ \E found \in Caches \cup {<<>>} : Resync(found)
           \/ Call \/ Dispatched \/ Return \/ Fail \/ Pass \/ Swept
  <2>1. incidents' = incidents /\ pressed' = pressed
    BY <1>3 DEF Receive, Resync, Call, Dispatched, Return, Fail, Pass, Swept
  <2>2. /\ at \in {"waiting", "dispatch", "sweep", "find"}
        /\ at' \in {"opening", "waiting", "dispatch", "sweep", "find", "summary", "killed"}
    BY <1>3 DEF Receive, Resync, Call, Dispatched, Return, Fail, Pass, Swept
  <2> QED  BY <2>1, <2>2, QuietOK, QuietMoves DEF Ended
<1>4. CASE Find \/ Remember \/ Hide \/ Count \/ Climb \/ Forget
  BY <1>4, FindOK, RememberOK, HideOK, CountOK, ClimbOK, ForgetOK
<1> QED  BY <1>1, <1>2, <1>3, <1>4 DEF CaptureNext, Handle

LEMMA IncidentsInductive == CaptureSpec => [](CallsInv /\ IncidentsInv)
<1>1. CallsInv /\ IncidentsInv /\ [CaptureNext]_captureVars => IncidentsInv'
  BY IncidentsStepOK
<1> QED  BY <1>1, IncidentsStart, CallsInductive, PTL DEF CaptureSpec

\* Between calls no incident is left half-recorded or half-decayed, whatever
\* calls and exceptions there were before.
THEOREM TypeOKAlways == CaptureSpec => []TypeOK
<1>1. ASSUME CallsInv, IncidentsInv PROVE TypeOK
  <2>1. at \in Handling <=> event # NoEvent \/ Constructing
    BY <1>1, NoPacket DEF CallsInv, Constructing
  <2>2. event \in Packets \cup {NoEvent}
    BY <1>1 DEF CallsInv
  <2>3. at \in {"opening", "waiting", "dispatch"} =>
          \A d \in Detectors : \A n \in DOMAIN incidents[d] : Consistent(incidents[d][n])
    BY <1>1 DEF IncidentsInv, HalfDone, Ended
  <2> QED  BY <1>1, <2>1, <2>2, <2>3 DEF CallsInv, IncidentsInv, Sound, TypeOK
<1> QED  BY <1>1, IncidentsInductive, PTL

\* Wherever the program stops, the summary shows no rung without the evidence
\* that was counted for it.
THEOREM RungIsCountedAlways == CaptureSpec => []RungIsCounted
<1>1. ASSUME IncidentsInv PROVE RungIsCounted
  <2>1. \A d \in Detectors : \A n \in DOMAIN incidents[d] : incidents[d][n].count \in Nat
    <3> TAKE d \in Detectors
    <3> TAKE n \in DOMAIN incidents[d]
    <3>1. incidents[d] \in Seq(Incident)
      BY <1>1 DEF IncidentsInv, Sound
    <3>2. incidents[d][n] \in Incident
      BY <3>1, ElementOfSeq
    <3> QED  BY <3>2 DEF Incident
  <2> QED  BY <1>1, <2>1 DEF IncidentsInv, CountedFirst, RungIsCounted
<1> QED  BY <1>1, IncidentsInductive, PTL

LEMMA BoardIs ==
  ASSUME NEW k \in BoardKeys
  PROVE  /\ SeverityOf(k) = SeverityIn(incidents, k) /\ (IsIdle(k) <=> IdleIn(incidents, k))
         /\ SeverityOf(k)' = SeverityIn(incidents', k) /\ (IsIdle(k)' <=> IdleIn(incidents', k))
<1>1. KeyedAt(k) = KeyedIn(incidents, k) /\ KeyedAt(k)' = KeyedIn(incidents', k)
  BY DEF KeyedAt, At, KeyedIn
<1>2. /\ Shown(k) = incidents[k[1]][The(KeyedAt(k))]
      /\ Shown(k)' = incidents'[k[1]][The(KeyedAt(k)')]
  BY DEF Shown, The
<1> QED  BY <1>1, <1>2 DEF SeverityOf, IsIdle, SeverityIn, IdleIn

LEMMA BoardStepOK ==
  ASSUME CallsInv, IncidentsInv, [CaptureNext]_captureVars
  PROVE  Board!Packet
<1> DEFINE sev == [k \in BoardKeys |-> SeverityOf(k)]
           hid == {k \in BoardKeys : IsIdle(k)}
<1>1. \A k \in BoardKeys : Moves(incidents, incidents', k)
  BY IncidentsStepOK
<1>2. Sound(incidents) /\ Sound(incidents')
  BY IncidentsStepOK DEF IncidentsInv
<1>3. ASSUME NEW k \in BoardKeys
      PROVE  /\ sev[k] \in 0..3 /\ sev'[k] \in 0..3
             /\ \/ /\ sev'[k] \in (IF sev[k] \in {0, 1} THEN {1, 2} ELSE {3}) /\ k \notin hid'
                \/ /\ sev'[k] = sev[k]
                   /\ k \in hid => k \in hid'
                   /\ k \in hid' => k \in hid \/ sev[k] > 0
  <2>1. /\ sev[k] = SeverityIn(incidents, k) /\ (k \in hid <=> IdleIn(incidents, k))
        /\ sev'[k] = SeverityIn(incidents', k) /\ (k \in hid' <=> IdleIn(incidents', k))
    BY BoardIs
  <2>2. /\ SeverityIn(incidents, k) \in 0..3 /\ SeverityIn(incidents', k) \in 0..3
        /\ IdleIn(incidents', k) => SeverityIn(incidents', k) > 0
    BY <1>2, SeverityType
  <2> HIDE DEF sev, hid
  <2> QED  BY <1>1, <2>1, <2>2 DEF Moves
<1>4. sev' \in [BoardKeys -> 0..3] /\ hid' \in SUBSET BoardKeys
  BY <1>3
<1>5. ASSUME NEW k \in BoardKeys PROVE Board!Hit(k) \/ Board!Quiet(k)
  BY <1>3 DEF Board!Hit, Board!Quiet, Board!Climb, Board!Raise
<1> QED  BY <1>4, <1>5 DEF Board!Packet

\* Wherever Ctrl+C or an exception stops the program, between any two
\* statements, no incident is lost, demoted or shown without its rung.
THEOREM BoardAtEveryStatementAlways == CaptureSpec => BoardAtEveryStatement
<1>1. CaptureInit => Board!BoardInit
  <2> SUFFICES ASSUME CaptureInit PROVE Board!BoardInit
    OBVIOUS
  <2>1. \A d \in Detectors : incidents[d] = <<>>
    BY DEF CaptureInit
  <2>2. \A k \in BoardKeys : KeyedAt(k) = {}
    BY <2>1 DEF BoardKeys, KeyedAt, At
  <2> QED  BY <2>2 DEF Board!BoardInit, SeverityOf, IsIdle
<1>2. CallsInv /\ IncidentsInv /\ [CaptureNext]_captureVars => [Board!Packet]_(Board!boardVars)
  BY BoardStepOK
<1> QED
  BY <1>1, <1>2, IncidentsInductive, PTL
  DEF CaptureSpec, BoardAtEveryStatement, Board!BoardSpec

----------------------------------------------------------------------------
(* What the board promises, of the program itself.                         *)

Promises == INSTANCE IncidentBoardProofs WITH
  Keys     <- BoardKeys,
  Burst    <- FALSE,
  severity <- [k \in BoardKeys |-> SeverityOf(k)],
  idle     <- {k \in BoardKeys : IsIdle(k)}

LEMMA BoardPromises ==
  Board!BoardSpec => Board!NeverDemoted /\ Board!HiddenIsHeld
<1>1. Promises!BoardSpec => Promises!NeverDemoted /\ Promises!HiddenIsHeld
  BY Promises!NeverDemotedAlways, Promises!HiddenIsHeldAlways
<1>2. Board!BoardSpec => Promises!BoardSpec
  BY DEF Board!BoardSpec, Board!BoardInit, Board!Packet, Board!boardVars,
         Board!Hit, Board!Quiet, Board!Climb, Board!Raise,
         Promises!BoardSpec, Promises!BoardInit, Promises!Packet, Promises!boardVars,
         Promises!Hit, Promises!Quiet, Promises!Climb, Promises!Raise
<1>3. /\ Promises!NeverDemoted => Board!NeverDemoted
      /\ Promises!HiddenIsHeld => Board!HiddenIsHeld
  BY DEF Board!NeverDemoted, Board!HiddenIsHeld, Board!boardVars,
         Promises!NeverDemoted, Promises!HiddenIsHeld, Promises!boardVars
<1> QED  BY <1>1, <1>2, <1>3

\* Between any two statements of the program, whatever raises and wherever
\* Ctrl+C falls, no incident is lost or loses its rung, and only incidents
\* count as idle, at the rung they keep.
THEOREM ProgramNeverDemotes == CaptureSpec => Board!NeverDemoted /\ Board!HiddenIsHeld
BY BoardAtEveryStatementAlways, BoardPromises DEF BoardAtEveryStatement
=============================================================================
