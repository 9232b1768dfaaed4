------------------------- MODULE IncidentBoardProofs -------------------------
(***************************************************************************)
(* What the promise of IncidentBoard amounts to, for any keys and with or  *)
(* without bursts.  These are lemmas only: they say something of the code  *)
(* through the theorems that the detectors and the program keep the        *)
(* promise.                                                                *)
(***************************************************************************)
EXTENDS IncidentBoard, TLAPS

\* What is marked idle has an incident.
BoardInv ==
  /\ severity \in [Keys -> 0..3]
  /\ idle \subseteq Keys
  /\ \A k \in idle : severity[k] > 0

\* Evidence leads up the ladder, and off its foot.
LEMMA ClimbUp ==
  ASSUME NEW s \in 0..3, NEW t \in Climb(s)
  PROVE  t \in 1..3 /\ t >= s
<1>1. \A r \in 0..3 : \A u \in Raise(r) : u \in 1..3 /\ u >= r
  BY DEF Raise
<1>2. CASE t \in Raise(s)
  BY <1>1, <1>2
<1>3. CASE \E r \in Raise(s) : t \in Raise(r)
  <2>1. PICK r \in Raise(s) : t \in Raise(r)
    BY <1>3
  <2>2. r \in 1..3 /\ r >= s
    BY <1>1
  <2>3. t \in 1..3 /\ t >= r
    BY <1>1, <2>1, <2>2
  <2> QED  BY <2>2, <2>3
<1> QED  BY <1>2, <1>3 DEF Climb

LEMMA PacketOK ==
  ASSUME BoardInv, Packet
  PROVE  /\ BoardInv'
         /\ \A k \in Keys : severity'[k] >= severity[k]
         /\ \A k \in idle \cap idle' : severity'[k] = severity[k]
<1>1. ASSUME NEW k \in Keys
      PROVE  /\ severity'[k] >= severity[k]
             /\ k \in idle' => severity'[k] > 0 /\ severity'[k] = severity[k]
  <2>1. severity[k] \in 0..3
    BY DEF BoardInv
  <2>2. CASE Hit(k)
    BY <2>1, <2>2, ClimbUp DEF Hit
  <2>3. CASE Quiet(k)
    BY <2>1, <2>3 DEF Quiet, BoardInv
  <2> QED  BY <2>2, <2>3 DEF Packet
<1>2. idle \subseteq Keys /\ idle' \subseteq Keys /\ severity' \in [Keys -> 0..3]
  BY DEF BoardInv, Packet
<1> QED  BY <1>1, <1>2 DEF BoardInv

LEMMA BoardInductive == BoardSpec => []BoardInv
<1>1. BoardInit => BoardInv
  BY DEF BoardInit, BoardInv
<1>2. BoardInv /\ [Packet]_boardVars => BoardInv'
  <2>1. CASE UNCHANGED boardVars
    BY <2>1 DEF boardVars, BoardInv
  <2> QED  BY <2>1, PacketOK
<1> QED  BY <1>1, <1>2, PTL DEF BoardSpec

\* No incident is lost or demoted, in any order of evidence and idleness
\* (attack.py:66-68).
LEMMA NeverDemotedAlways == BoardSpec => NeverDemoted
<1>1. BoardInv /\ [Packet]_boardVars =>
        [\A k \in Keys : severity'[k] >= severity[k]]_boardVars
  BY PacketOK
<1> QED  BY <1>1, BoardInductive, PTL DEF BoardSpec, NeverDemoted

\* Only incidents are hidden, and a hidden one keeps its rung.
LEMMA HiddenIsHeldAlways == BoardSpec => HiddenIsHeld
<1>1. BoardInv /\ [Packet]_boardVars =>
        [/\ \A k \in idle' : severity'[k] > 0
         /\ \A k \in idle \cap idle' : severity'[k] = severity[k]]_boardVars
  BY PacketOK DEF BoardInv
<1> QED  BY <1>1, BoardInductive, PTL DEF BoardSpec, HiddenIsHeld
=============================================================================
