----------------------------- MODULE ClaimVolume -----------------------------
(***************************************************************************)
(* ArpSpoofDetector with a history of every claim that was counted towards *)
(* a binding, for the contest that _resolve_pending is documented to hold. *)
(* The detector starts a count again after an idle gap, and acts at the    *)
(* first candidate whose count reaches the threshold: the history does     *)
(* neither.                                                                *)
(***************************************************************************)
EXTENDS ArpSpoofDetector

VARIABLE volume   \* (interface, ip, mac) -> claims since the IP was contested

volumeVars == <<vars, volume>>

VolumeInit == Init /\ volume = [k \in Candidates |-> 0]

\* The contest for an IP ends when it is learned.
VolumeOf(k) ==
  IF bindings'[<<k[1], k[2]>>] # bindings[<<k[1], k[2]>>] THEN 0
  ELSE IF pending'[k] # pending[k] THEN volume[k] + 1
  ELSE volume[k]

VolumeNext == Next /\ volume' = [k \in Candidates |-> VolumeOf(k)]

VolumeSpec == VolumeInit /\ [][VolumeNext]_volumeVars

\* "decide which candidate MAC actually owns the IP by packet volume, not by
\* which one reached the threshold first" (arp_spoof_detector.py:389-391): a
\* MAC is learned from claims only if, this claim included, no other has made
\* more of them.
VolumeDecides ==
  [][phase # "leases" =>
       \A k \in Bindings : bindings'[k] # bindings[k] =>
         \A m \in Macs :
           volume[<<k[1], k[2], m>>] <= volume[<<k[1], k[2], bindings'[k]>>] + 1]_volumeVars
=============================================================================
