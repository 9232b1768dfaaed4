---------------------------- MODULE MCTcpExchange ----------------------------
(***************************************************************************)
(* Constants for model checking TcpExchange: alice opens connections to    *)
(* two ports of bob, and bob one to alice.                                 *)
(***************************************************************************)
EXTENDS TcpExchange

CONSTANTS alice, bob, ipa, ipb, lan

At(h, p) == [ip |-> IF h = alice THEN ipa ELSE ipb, port |-> p]

Open(from, sport, to, dport) ==
  [interface |-> lan, client |-> from, server |-> to,
   src |-> At(from, sport), dst |-> At(to, dport)]

\* One of bob's ports is closed.
MCAccepting == {Open(alice, 9, bob, 1), Open(bob, 9, alice, 1)}

MCOpens == {Open(alice, 9, bob, 1), Open(alice, 9, bob, 2), Open(bob, 9, alice, 1)}

MCSegments == Handshakes
=============================================================================
