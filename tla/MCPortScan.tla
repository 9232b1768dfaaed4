----------------------------- MODULE MCPortScan -----------------------------
(***************************************************************************)
(* Constants for model checking PortScanDetector: one interface, alice     *)
(* scanning ports of bob from one source port, stray replies, and a        *)
(* segment from bob to alice that opens the opposite incident.             *)
(***************************************************************************)
EXTENDS PortScanDetector

CONSTANTS alice, bob, ipa, ipb, lan

At(h, p) == [ip |-> IF h = alice THEN ipa ELSE ipb, port |-> p]

Seg(from, sport, to, dport, flags, seq, ack) ==
  [interface |-> lan, src_mac |-> from, dst_mac |-> to,
   src |-> At(from, sport), dst |-> At(to, dport),
   flags |-> flags, seq |-> seq, ack |-> ack]

\* SYNs to two ports, the reply each must draw, a reply that answers nothing,
\* the opposite direction, and a segment the detector does not count.
MCSegments ==
  {Seg(alice, 9, bob, p, "S", 0, 0) : p \in {1, 2}}
    \cup {Seg(bob, p, alice, 9, "RA", 0, 1) : p \in {1, 2}}
    \cup {Seg(bob, 1, alice, 9, "SA", 1, 0), Seg(bob, 9, alice, 1, "S", 0, 0),
          Seg(alice, 9, bob, 1, "other", 1, 1)}

\* The clock stands still, moves on by less and by more than an interval, or
\* is set back by more than idle_expiry.
MCElapsed == {-6, 0, 2, 4}
=============================================================================
