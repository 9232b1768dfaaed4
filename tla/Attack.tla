------------------------------- MODULE Attack -------------------------------
(***************************************************************************)
(* The incident record that both detectors keep, one per (interface,       *)
(* attacker MAC, victim MAC): attacks/attack.py, and the decay sweep of    *)
(* detectors/detector.py.  An incident accumulates evidence, climbs the    *)
(* ladder suspected -> confirmed -> ongoing, and is shown as "decayed"     *)
(* while it is idle, remembering the rung it held.                         *)
(*                                                                         *)
(* A detector's incidents dict is a total function on the incident keys; a *)
(* key that is not in the dict maps to a record whose status is "absent".  *)
(* The subclass fields of the two detectors extend the record.             *)
(***************************************************************************)
EXTENDS Integers

CONSTANT
  IdleExpiry    \* seconds without evidence after which an incident is idle

ASSUME IdleExpiryAssumption == IdleExpiry \in Nat

Severity == {"suspected", "confirmed", "ongoing"}       \* _STATUS_ORDER
Status   == Severity \cup {"absent", "decayed"}
None     == "none"                                      \* Python's None

\* _STATUS_ORDER.index(s); asking it for anything else is a ValueError.
Rank(s) == CASE s = "suspected" -> 1
             [] s = "confirmed" -> 2
             [] s = "ongoing"   -> 3

Known(a) == a.status # "absent"

\* The rung of the ladder an incident holds, or will resume from.
Peak(a) == IF a.status = "decayed" THEN a.pre_decay ELSE a.status

\* Mutant of Escalate: a decayed incident restarts at the bottom.
EscalateFromScratch(a, floor) ==
  [a EXCEPT !.status = IF floor # None THEN floor ELSE "suspected",
            !.pre_decay = None]

\* Mutant of Escalate: the rung remembered while decayed is not cleared.
EscalateKeepsMemory(a, floor) ==
  LET current == IF Peak(a) = "confirmed" THEN "ongoing" ELSE Peak(a)
  IN  [a EXCEPT !.status = IF floor # None /\ Rank(floor) > Rank(current)
                             THEN floor ELSE current]

\* _escalate: the higher of the current rung, after the built-in step from
\* confirmed to ongoing, and the floor the detector asserts.
Escalate(a, floor) ==
  LET current == IF Peak(a) = "confirmed" THEN "ongoing" ELSE Peak(a)
  IN  [a EXCEPT !.status = IF floor # None /\ Rank(floor) > Rank(current)
                             THEN floor ELSE current,
                !.pre_decay = None]

\* record: count one piece of evidence seen at ts and re-derive the status.
Record(a, ts, floor) ==
  Escalate([a EXCEPT !.count = @ + 1, !.last_seen = ts], floor)

\* decay: mark as idle, remembering the rung held.
Decay(a) == IF a.status # "decayed"
              THEN [a EXCEPT !.pre_decay = a.status, !.status = "decayed"]
              ELSE a

\* Mutant of IsExpired: idle one tick too early.
IsExpiredEarly(a, now) == now - a.last_seen >= IdleExpiry

\* is_expired.
IsExpired(a, now) == now - a.last_seen > IdleExpiry

\* _expire_idle over the whole incidents dict.
ExpireIdle(incidents, now) ==
  [k \in DOMAIN incidents |->
     IF incidents[k].status \in Severity /\ IsExpired(incidents[k], now)
       THEN Decay(incidents[k])
       ELSE incidents[k]]
=============================================================================
