------------------------------ MODULE Netinfo ------------------------------
(***************************************************************************)
(* netinfo/interfaces.py as the program uses it at start-up: main lists    *)
(* the interfaces to sniff, then the Dispatcher lists those of the LAN.    *)
(* Each list takes several looks at a network the operator or the kernel   *)
(* may be changing meanwhile, and each look may fail.  Nothing is read     *)
(* again afterwards.                                                       *)
(***************************************************************************)
EXTENDS Integers, FiniteSets

CONSTANTS
  Links,        \* interface names
  Lo,           \* the loopback interface
  NoLink,       \* no interface: no master, no default route
  MasterNamed,  \* the interfaces with "master" in a name on their line
  Topologies,   \* the states the network may be in
  MaxChanges, MaxFailures  \* bounds: on changes and failing looks at start-up

\* What the kernel reports: the interfaces there are, the bridge or bond each
\* is enslaved to, and the one of the first default route.
Topology == [up : SUBSET Links, master : [Links -> Links \cup {NoLink}],
             uplink : Links \cup {NoLink}]

\* The interfaces a frame on l passes: l, its master, the master's master.
Above(master, l) ==
  {k \in Links : \A S \in SUBSET Links :
     l \in S /\ (\A j \in S : master[j] \in S \cup {NoLink}) => k \in S}

\* A bond may be a member of a bridge, but the kernel makes no loops.
ASSUME NetinfoAssumption ==
  /\ Lo \in Links /\ NoLink \notin Links
  /\ MasterNamed \subseteq Links \ {Lo}
  /\ Topologies \subseteq Topology
  /\ \A t \in Topologies :
       /\ Lo \in t.up /\ t.master[Lo] = NoLink /\ t.uplink # Lo
       /\ \A l \in Links :
            /\ t.master[l] # NoLink => l \in t.up /\ t.master[l] \in t.up \ {Lo}
            /\ \E k \in Above(t.master, l) : t.master[k] = NoLink
  /\ MaxChanges \in Nat /\ MaxFailures \in Nat

VARIABLES
  at,         \* the statement main is at
  topology,
  listed,     \* interfaces of the running detect_interfaces
  sniffed,    \* what main passes to sniff()
  wan,        \* get_wan_interface() of the running detect_lan_interfaces
  lan,        \* what the Dispatcher passes to ArpSpoofDetector
  steady,     \* history: links nothing has changed about
  failed,     \* history: the looks that failed
  changes     \* history: number of changes

netVars == <<topology, listed, sniffed, wan, lan, steady, failed, changes>>

StartUp == {"sniff_list", "sniff_members", "route", "lan_list", "lan_members"}

Unchanged(l, t) ==
  /\ l \in t.up <=> l \in topology.up
  /\ t.master[l] = topology.master[l]
  /\ t.uplink = l <=> topology.uplink = l

\* Interfaces come, go, join and leave bridges; the default route moves.
Change(t) ==
  /\ at \in StartUp
  /\ changes < MaxChanges
  /\ topology' = t
  /\ steady' = {l \in steady : Unchanged(l, t)}
  /\ changes' = changes + 1
  /\ UNCHANGED <<at, listed, sniffed, wan, lan, failed>>

After(look) == IF look = "sniff_list" THEN "sniff_members" ELSE "lan_members"

\* get_if_list, the first look of detect_interfaces: RuntimeError if there is
\* only the loopback interface.
GetIfList ==
  /\ at \in {"sniff_list", "lan_list"}
  /\ listed' = topology.up \ {Lo}
  /\ at' = IF listed' = {} THEN "killed" ELSE After(at)
  /\ UNCHANGED <<topology, sniffed, wan, lan, steady, failed, changes>>

\* The interfaces whose line of "ip -o link show" has "master" in it: as the
\* token before their bridge, or in their name.
Members == {l \in topology.up : topology.master[l] # NoLink \/ l \in MasterNamed}

\* Mutant of Sniffable: members are not left out.
SniffableMembers(members) == listed

Sniffable(members) == listed \ members

\* Mutant of LanOf: the uplink is no exception.
LanOfAll(interfaces) == interfaces

LanOf(interfaces) == interfaces \ {wan}

Fails == Cardinality(failed) < MaxFailures /\ failed' = failed \cup {at}

\* get_bridge_members, the second: a failing call gives no members.
GetBridgeMembers(members) ==
  /\ \/ members = Members /\ UNCHANGED failed
     \/ members = {} /\ Fails
  /\ \/ /\ at = "sniff_members"
        /\ sniffed' = Sniffable(members)
        /\ at' = "route"
        /\ UNCHANGED <<wan, lan>>
     \/ /\ at = "lan_members"
        /\ lan' = LanOf(Sniffable(members))
        /\ wan' = NoLink
        /\ at' = "ready"
        /\ UNCHANGED sniffed
  /\ listed' = {}
  /\ UNCHANGED <<topology, steady, changes>>

\* get_wan_interface, before the second list: a failing call gives None.
GetWanInterface ==
  /\ at = "route"
  /\ \/ wan' = topology.uplink /\ UNCHANGED failed
     \/ wan' = NoLink /\ Fails
  /\ at' = "lan_list"
  /\ UNCHANGED <<topology, listed, sniffed, lan, steady, changes>>

NetInit ==
  /\ at = "sniff_list"
  /\ topology \in Topologies
  /\ listed = {} /\ sniffed = {} /\ lan = {}
  /\ wan = NoLink
  /\ steady = Links /\ failed = {} /\ changes = 0

Look ==
  \/ GetIfList
  \/ GetBridgeMembers({}) \/ GetBridgeMembers(Members)
  \/ GetWanInterface

NetNext == Look \/ \E t \in Topologies : Change(t)

NetSpec == NetInit /\ [][NetNext]_<<at, netVars>>

----------------------------------------------------------------------------
(* Properties.                                                             *)

Path(l) == Above(topology.master, l)

\* Taken for a bridge member by its name alone.
Mistaken(l) == l \in MasterNamed /\ topology.master[l] = NoLink

\* Both lists are made; neither is ever made again.
Chosen == at = "ready"

\* interfaces.py:3-6: a frame is never captured on a member and on its
\* bridge or bond both, however deep they nest, and never on none of them,
\* whatever else changed during start-up; if the members could not be read,
\* it is captured at least.  What passes an interface that is no member but
\* has "master" in its name may be missed.
SeenExactlyOnce ==
  Chosen =>
    \A l \in topology.up \ {Lo} :
      Path(l) \subseteq steady =>
        /\ "sniff_members" \in failed \/ ~(\E k \in Path(l) : Mistaken(k))
             => sniffed \cap Path(l) # {}
        /\ "sniff_members" \notin failed => Cardinality(sniffed \cap Path(l)) <= 1

\* The two lists agree: the ARP detector watches every interface that is
\* sniffed, except the uplink, and the uplink too only if the route could not
\* be read.
EverySegmentWatched ==
  Chosen /\ "sniff_members" \notin failed =>
    \A l \in sniffed \cap steady :
      l \in lan <=> l # topology.uplink \/ "route" \in failed
=============================================================================
