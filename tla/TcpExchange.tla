---------------------------- MODULE TcpExchange ----------------------------
(***************************************************************************)
(* The port scan detector watching real TCP hosts instead of arbitrary     *)
(* segments.  A client opens connections to server ports and resends a SYN *)
(* until it gets an answer.  The server answers every SYN, with a SYN-ACK  *)
(* where the port accepts and a RST-ACK where it does not, acknowledging   *)
(* the sequence number after it, modulo SeqSpace; it may resend a SYN-ACK. *)
(* An answer may be lost after it was captured.  A client that only wanted *)
(* to know may reset a half-open connection.  Nothing is forged.  The      *)
(* hosts are TCP as RFC 9293 has it, not part of the repository.           *)
(***************************************************************************)
EXTENDS PortScanDetector

CONSTANTS
  Opens,          \* connections: [client, server, src, dst] plus interface
  Accepting,      \* those to an open port
  Isns,           \* initial sequence numbers the clients draw
  Resets,         \* TRUE if clients may reset half-open connections
  MaxSyns,        \* bound on the SYNs sent for one connection
  MaxAnswers      \* bound on the answers to one connection

FromClient(o, flags, seq, ack) ==
  [interface |-> o.interface, src_mac |-> o.client, dst_mac |-> o.server,
   src |-> o.src, dst |-> o.dst, flags |-> flags, seq |-> seq, ack |-> ack]

FromServer(o, flags, seq, ack) ==
  [interface |-> o.interface, src_mac |-> o.server, dst_mac |-> o.client,
   src |-> o.dst, dst |-> o.src, flags |-> flags, seq |-> seq, ack |-> ack]

\* The segments of the connections' handshakes.
Handshakes ==
  {FromClient(o, "S", s, 0) : o \in Opens, s \in SeqNumbers}
    \cup {FromServer(o, f, 0, s) : o \in Opens, f \in {"SA", "RA"}, s \in SeqNumbers}
    \cup {FromClient(o, "R", s, 0) : o \in Opens, s \in SeqNumbers}

ASSUME TcpExchangeAssumption ==
  /\ Opens \subseteq [interface : Interfaces, client : Macs, server : Macs,
                      src : Endpoints, dst : Endpoints]
  /\ Accepting \subseteq Opens
  /\ Handshakes \subseteq Segments
  /\ Isns \subseteq SeqNumbers
  /\ Resets \in BOOLEAN
  /\ MaxSyns \in Nat /\ MaxAnswers \in Nat

VARIABLES
  conn,       \* state of each connection at its client
  isn,        \* the sequence number of its SYN
  syns,       \* SYNs sent on it
  answers,    \* answers the server has sent to it
  ledger      \* history: the replies against every key, by what they are

tcpVars == <<vars, conn, isn, syns, answers, ledger>>

\* The incident a connection's SYNs belong to, and the one of the opposite
\* direction.
KeyOf(o)    == <<o.interface, o.client, o.server>>
AgainstOf(o) == <<o.interface, o.server, o.client>>

\* What a reply is: the first answer since a SYN, which acknowledges the
\* number after the SYN's or has wrapped to 0; another answer; a reset.
Kinds == {"first", "wrapped", "again", "reset"}

KindOf(o) == CASE conn[o] # "syn_sent" -> "again"
               [] conn[o] = "syn_sent" /\ isn[o] + 1 = SeqSpace -> "wrapped"
               [] OTHER -> "first"

Enter(k, kind) == ledger' = [ledger EXCEPT ![k][kind] = @ + 1]

\* The client draws a sequence number and sends its SYN.
Connect(o, s, d) ==
  /\ conn[o] = "closed"
  /\ Probe(FromClient(o, "S", s, 0), d)
  /\ conn' = [conn EXCEPT ![o] = "syn_sent"]
  /\ isn' = [isn EXCEPT ![o] = s]
  /\ syns' = [syns EXCEPT ![o] = @ + 1]
  /\ UNCHANGED <<answers, ledger>>

\* No answer has reached the client: it sends the same SYN again.
ResendSyn(o, d) ==
  /\ conn[o] \in {"syn_sent", "answered"}
  /\ syns[o] < MaxSyns
  /\ Probe(FromClient(o, "S", isn[o], 0), d)
  /\ conn' = [conn EXCEPT ![o] = "syn_sent"]
  /\ syns' = [syns EXCEPT ![o] = @ + 1]
  /\ UNCHANGED <<isn, answers, ledger>>

\* The server answers a SYN, or resends its SYN-ACK.  A connection answered
\* but not yet half open or refused has lost its answers; arrived answers
\* to a connection that has one change nothing.
Answer(o, arrives, d) ==
  /\ conn[o] \notin {"closed", "reset"}
  /\ answers[o] < MaxAnswers
  /\ o \notin Accepting => answers[o] < syns[o]
  /\ Reply(FromServer(o, IF o \in Accepting THEN "SA" ELSE "RA",
                      0, (isn[o] + 1) % SeqSpace), d)
  /\ conn' = [conn EXCEPT ![o] =
                IF ~arrives THEN (IF @ = "syn_sent" THEN "answered" ELSE @)
                ELSE IF o \in Accepting THEN "half_open" ELSE "refused"]
  /\ answers' = [answers EXCEPT ![o] = @ + 1]
  /\ Enter(KeyOf(o), KindOf(o))
  /\ UNCHANGED <<isn, syns>>

\* The client resets the connection the server just accepted.
ResetHalfOpen(o, d) ==
  /\ Resets
  /\ conn[o] = "half_open"
  /\ Reply(FromClient(o, "R", (isn[o] + 1) % SeqSpace, 0), d)
  /\ conn' = [conn EXCEPT ![o] = "reset"]
  /\ Enter(AgainstOf(o), "reset")
  /\ UNCHANGED <<isn, syns, answers>>

TcpInit ==
  /\ Init
  /\ conn = [o \in Opens |-> "closed"]
  /\ isn = [o \in Opens |-> 0]
  /\ syns = [o \in Opens |-> 0]
  /\ answers = [o \in Opens |-> 0]
  /\ ledger = [k \in Keys |-> [kind \in Kinds |-> 0]]

TcpNext ==
  \E o \in Opens, d \in Elapsed :
    \/ \E s \in Isns : Connect(o, s, d)
    \/ ResendSyn(o, d)
    \/ \E arrives \in BOOLEAN : Answer(o, arrives, d)
    \/ ResetHalfOpen(o, d)

TcpSpec == TcpInit /\ [][TcpNext]_tcpVars

----------------------------------------------------------------------------
(* Properties.                                                             *)

\* Between hosts that follow TCP every reply is accounted for: an answer
\* lands on the incident of its SYN and is recognised there however the
\* exchanges interleave (port_scan_detector.py:6-7, port_scan_attack.py:60-64).
\* The only replies left unmatched are answers sent again to a SYN already
\* answered, resets of connections the victim opened, and the answer to the
\* last sequence number, since seq + 1 is not reduced modulo SeqSpace.
RepliesExplained ==
  \A k \in Keys : LET l == ledger[k] IN
    /\ incidents[k].replies = l["first"] + l["wrapped"] + l["again"] + l["reset"]
    /\ incidents[k].unmatched = l["wrapped"] + l["again"] + l["reset"]

\* port_scan_attack.py:60-64: "Any reply [...] clears the matching entry [...]
\* and adds no new evidence, since the SYN was already counted": what counts
\* as new evidence is no answer to a SYN.
AnswersAddNothing ==
  \A k \in Keys : incidents[k].unmatched <= ledger[k]["reset"]
=============================================================================
