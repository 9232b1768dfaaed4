---------------------------- MODULE MCClaimVolume ----------------------------
(***************************************************************************)
(* Constants for model checking ClaimVolume: h talks now and then, x sends *)
(* two claims for the same IP one after the other.                         *)
(***************************************************************************)
EXTENDS MCArpSpoof, ClaimVolume

MCContest ==
  {Pkt(lan, iph, h, ipg, Broadcast, "arp"), Pkt(lan, iph, x, ipg, gw, "arp")}
=============================================================================
