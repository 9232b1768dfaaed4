---------------------------- MODULE IncidentBoard ----------------------------
(***************************************************************************)
(* What a detector promises about its incidents, whatever evidence it      *)
(* collects: the abstract specification the two detectors implement.       *)
(*                                                                         *)
(* Every key has a severity, 0 while nothing is held against it.  Evidence *)
(* raises it, 1 suspected, 2 confirmed, 3 ongoing; nothing lowers it and   *)
(* nothing removes an incident.  An incident may be marked idle, which     *)
(* hides its severity without losing it, and only evidence unmarks it.     *)
(***************************************************************************)
EXTENDS Integers

CONSTANTS
  Keys,     \* (interface, attacker, victim) triples
  Burst     \* TRUE if one packet may be evidence twice against one key

VARIABLES
  severity,   \* severity[k] \in 0..3
  idle        \* the keys now shown as decayed

boardVars == <<severity, idle>>

\* One piece of evidence: a new or suspected incident is at least suspected
\* and may be confirmed; a confirmed one is ongoing from then on.
Raise(s) == IF s \in {0, 1} THEN {1, 2} ELSE {3}

Climb(s) == Raise(s) \cup (IF Burst THEN UNION {Raise(t) : t \in Raise(s)} ELSE {})

BoardInit == severity = [k \in Keys |-> 0] /\ idle = {}

\* A packet is evidence against k, which is shown again.
Hit(k) == severity'[k] \in Climb(severity[k]) /\ k \notin idle'

\* It is not, and all that may happen to k is to be marked idle.
Quiet(k) ==
  /\ severity'[k] = severity[k]
  /\ k \in idle => k \in idle'
  /\ k \in idle' => k \in idle \/ severity[k] > 0

Packet ==
  /\ severity' \in [Keys -> 0..3]
  /\ idle' \in SUBSET Keys
  /\ \A k \in Keys : Hit(k) \/ Quiet(k)

BoardSpec == BoardInit /\ [][Packet]_boardVars

-----------------------------------------------------------------------------

\* Two consequences of the promise, for whatever implements it.

\* No incident is ever lost or shown at a lower rung than it had reached,
\* however long it was idle (attack.py:66-68).
NeverDemoted == [][\A k \in Keys : severity'[k] >= severity[k]]_boardVars

\* Only incidents are idle, and an idle one keeps its rung until evidence
\* shows it again: marking and demoting never happen together.
HiddenIsHeld ==
  [][/\ \A k \in idle' : severity'[k] > 0
     /\ \A k \in idle \cap idle' : severity'[k] = severity[k]]_boardVars
=============================================================================
