---------------------------- MODULE SummaryProofs ----------------------------
(***************************************************************************)
(* The summary, for any list of incidents.  Attacker.group folds over the  *)
(* list, so a fact about it needs an induction over the list's length.     *)
(* The library's induction theorems take an operator; here the predicate   *)
(* is the set T of the numbers that have it, and the induction is spelled  *)
(* out from the least number that T lacks.  With it FoldLeft is unfolded   *)
(* (Folded, GroupIsFold), and Grouped is shown to hold after every round   *)
(* of the loop.                                                            *)
(***************************************************************************)
EXTENDS CaptureProofs, WellFoundedInduction

\* The order of the natural numbers, as a relation.
Below == {pair \in Nat \X Nat : pair[1] < pair[2]}

LEMMA BelowIsWellFounded == IsWellFoundedOn(Below, Nat)
<1> DEFINE R == OpToRel(<, Nat)
<1>1. IsWellFoundedOn(R, Nat)
  BY NatLessThanWellFounded
<1>2. R = Below
  BY DEF OpToRel, Below
<1> HIDE DEF R
<1> QED  BY <1>1, <1>2

\* A set of natural numbers has a least element.
LEMMA LeastNumber ==
  ASSUME NEW T \in SUBSET Nat, T # {}
  PROVE  \E n \in T : \A m \in T : n <= m
<1>1. PICK n \in T : \A m \in T : <<m, n>> \notin Below
  BY BelowIsWellFounded, WFMin
<1>2. \A m \in T : m < n => <<m, n>> \in Below
  BY DEF Below
<1>3. \A m \in T : ~(m < n)
  BY <1>1, <1>2
<1>4. \A m \in T : m \in Nat /\ n \in Nat
  OBVIOUS
<1> QED  BY <1>3, <1>4

\* Induction over the natural numbers, for the predicate "is an element of T".
LEMMA Induction ==
  ASSUME NEW T, 0 \in T, \A n \in Nat : n \in T => n + 1 \in T
  PROVE  Nat \subseteq T
<1> SUFFICES ASSUME Nat \ T # {} PROVE FALSE
  OBVIOUS
<1>1. PICK n \in Nat \ T : \A m \in Nat \ T : n <= m
  BY LeastNumber
<1>2. n # 0 /\ n - 1 \in Nat /\ n - 1 \in T
  BY <1>1
<1>3. (n - 1) + 1 = n
  BY <1>2
<1> QED  BY <1>1, <1>2, <1>3

\* Max of the community modules, on the sets the fold goes through.
LEMMA GreatestNumber ==
  ASSUME NEW N \in Nat, NEW T \in SUBSET (1..N), N \in T
  PROVE  Max(T) = N
<1>1. \A y \in T : y \in Int /\ N >= y
  OBVIOUS
<1>2. \A x \in T : (\A y \in T : x >= y) => x = N
  BY <1>1
<1> QED  BY <1>1, <1>2, Zenon DEF Max

LEMMA MaxIn ==
  ASSUME NEW N \in Nat, NEW T \in SUBSET (1..N), T # {}
  PROVE  Max(T) \in T
<1> DEFINE Bounds == {n \in Nat : \A m \in T : m <= n}
<1>1. N \in Bounds
  OBVIOUS
<1>2. PICK n \in Bounds : \A m \in Bounds : n <= m
  <2> HIDE DEF Bounds
  <2>1. Bounds \subseteq Nat
    BY DEF Bounds
  <2> QED  BY <1>1, <2>1, LeastNumber
<1>3. n \in Nat /\ \A m \in T : m \in Nat /\ 1 <= m /\ m <= n
  OBVIOUS
<1>4. n \in T
  <2> SUFFICES ASSUME n \notin T PROVE FALSE
    OBVIOUS
  <2>1. n - 1 \in Nat
    <3>1. PICK m \in T : TRUE
      OBVIOUS
    <3> QED  BY <1>3, <3>1
  <2>2. \A m \in T : m <= n - 1
    BY <1>3
  <2>3. n <= n - 1
    BY <1>2, <2>1, <2>2
  <2> QED  BY <1>3, <2>3
<1>5. T \subseteq 1..n
  BY <1>3
<1> QED  BY <1>3, <1>4, <1>5, GreatestNumber

----------------------------------------------------------------------------
(* The loop of Attacker.group.                                             *)

\* f gives what the loop has built, from the set of the indices it has seen.
Folded(f, s, N) ==
  f = [t \in SUBSET (1..N) |->
         IF t = {} THEN <<>> ELSE AddAttack(f[t \ {Max(t)}], s[Max(t)])]

\* The recursive function that FoldLeft chooses exists, so it is the fold.
LEMMA FoldExists ==
  ASSUME NEW s, NEW N \in Nat
  PROVE  \E f : Folded(f, s, N)
<1> DEFINE T == {n \in Nat : \E f : Folded(f, s, n)}
<1>1. 0 \in T
  <2> DEFINE f == [t \in SUBSET (1..0) |-> <<>>]
  <2>1. \A t \in SUBSET (1..0) : t = {}
    OBVIOUS
  <2>2. Folded(f, s, 0)
    BY <2>1, Zenon DEF Folded
  <2> QED  BY <2>2
<1>2. ASSUME NEW n \in Nat, n \in T PROVE n + 1 \in T
  <2>1. PICK f : Folded(f, s, n)
    BY <1>2
  <2> DEFINE k == n + 1
             g == [t \in SUBSET (1..k) |->
                     IF k \in t THEN AddAttack(f[t \ {k}], s[k]) ELSE f[t]]
  <2>2. ASSUME NEW t \in SUBSET (1..k)
        PROVE  g[t] = IF t = {} THEN <<>> ELSE AddAttack(g[t \ {Max(t)}], s[Max(t)])
    <3>1. CASE k \in t
      <4>1. Max(t) = k /\ t # {}
        BY <3>1, GreatestNumber
      <4>2. t \ {k} \in SUBSET (1..k) /\ k \notin t \ {k}
        OBVIOUS
      <4>3. g[t] = AddAttack(f[t \ {k}], s[k]) /\ g[t \ {k}] = f[t \ {k}]
        BY <3>1, <4>2
      <4> HIDE DEF g
      <4> QED  BY <4>1, <4>3
    <3>2. CASE k \notin t
      <4>1. t \in SUBSET (1..n)
        BY <3>2
      <4>2. f[t] = IF t = {} THEN <<>> ELSE AddAttack(f[t \ {Max(t)}], s[Max(t)])
        BY <2>1, <4>1, Zenon DEF Folded
      <4>3. g[t] = f[t]
        BY <3>2
      <4>4. ASSUME t # {} PROVE g[t \ {Max(t)}] = f[t \ {Max(t)}]
        <5>1. t \ {Max(t)} \in SUBSET (1..k) /\ k \notin t \ {Max(t)}
          BY <3>2
        <5> QED  BY <5>1
      <4> HIDE DEF g
      <4> QED  BY <4>2, <4>3, <4>4
    <3> QED  BY <3>1, <3>2
  <2>3. g = [t \in SUBSET (1..k) |->
               IF k \in t THEN AddAttack(f[t \ {k}], s[k]) ELSE f[t]]
    OBVIOUS
  <2>4. \A t \in SUBSET (1..k) :
          g[t] = IF k \in t THEN AddAttack(f[t \ {k}], s[k]) ELSE f[t]
    OBVIOUS
  <2> HIDE DEF g
  <2>5. Folded(g, s, k)
    BY <2>2, <2>3, <2>4, Zenon DEF Folded
  <2> QED  BY <2>5
<1> HIDE DEF T
<1>3. Nat \subseteq T
  BY <1>1, <1>2, Induction
<1> QED  BY <1>3 DEF T

\* Attacker.group is the fold after all indices.
LEMMA GroupIsFold ==
  ASSUME NEW s, DOMAIN s = 1..Len(s), Len(s) \in Nat
  PROVE  \E f : Folded(f, s, Len(s)) /\ Group(s) = f[1..Len(s)]
<1> DEFINE f == CHOOSE f : Folded(f, s, Len(s))
<1>1. Folded(f, s, Len(s))
  BY FoldExists
<1>2. Group(s) = f[1..Len(s)]
  BY DEF Group, FoldLeft, MapThenFoldSet, Folded
<1> QED  BY <1>1, <1>2

----------------------------------------------------------------------------
(* One round of the loop.                                                  *)

\* One entry of the summary: an attacker with its incidents.
Attacker == [interface : Links, mac : Macs, attacks : Seq(Incident)]

\* Line m of attacker n exists.
Line(list, n, m) == n \in DOMAIN list /\ m \in DOMAIN list[n].attacks

\* more is list with the line of one more incident, of a new attacker or not.
Added(list, more, a) ==
  /\ more \in Seq(Attacker)
  /\ \A n \in DOMAIN list : /\ n \in DOMAIN more
                            /\ more[n].interface = list[n].interface
                            /\ more[n].mac = list[n].mac
  /\ \A n, m : Line(list, n, m) =>
       Line(more, n, m) /\ more[n].attacks[m] = list[n].attacks[m]
  /\ \E p \in DOMAIN more : \E q \in DOMAIN more[p].attacks :
       /\ ~Line(list, p, q)
       /\ more[p].attacks[q] = a /\ Groups(more[p], a)
       /\ \A n \in DOMAIN more : n \in DOMAIN list \/ n = p
       /\ p \in DOMAIN list \/ \A n \in DOMAIN list : ~Groups(list[n], a)
       /\ \A n, m : Line(more, n, m) => Line(list, n, m) \/ (n = p /\ m = q)

\* One attacker per (interface, MAC).
Identities(list) ==
  \A n, m \in DOMAIN list :
    list[n].interface = list[m].interface /\ list[n].mac = list[m].mac => n = m

\* Appending adds one index, and leaves the others what they were.
LEMMA AppendLine ==
  ASSUME NEW S, NEW s \in Seq(S), NEW a \in S
  PROVE  /\ Append(s, a) \in Seq(S)
         /\ \A m \in DOMAIN s : m \in DOMAIN Append(s, a) /\ Append(s, a)[m] = s[m]
         /\ \E last \in DOMAIN Append(s, a) :
              /\ last \notin DOMAIN s /\ Append(s, a)[last] = a
              /\ \A m \in DOMAIN Append(s, a) : m \in DOMAIN s \/ m = last
<1>1. /\ Append(s, a) \in Seq(S) /\ Len(Append(s, a)) = Len(s) + 1
      /\ \A m \in 1..Len(s) : Append(s, a)[m] = s[m]
      /\ Append(s, a)[Len(s) + 1] = a
  BY AppendProperties
<1>2. DOMAIN s = 1..Len(s) /\ Len(s) \in Nat /\ DOMAIN Append(s, a) = 1..Len(s) + 1
  BY <1>1
<1>3. Len(s) + 1 \in DOMAIN Append(s, a) /\ Len(s) + 1 \notin DOMAIN s
  BY <1>2
<1>4. \A m \in DOMAIN Append(s, a) : m \in DOMAIN s \/ m = Len(s) + 1
  BY <1>2
<1>5. \A m \in DOMAIN s : m \in DOMAIN Append(s, a) /\ Append(s, a)[m] = s[m]
  BY <1>1, <1>2
<1> QED  BY <1>1, <1>3, <1>4, <1>5

\* One round of the loop adds one line, and one attacker if it has to.
LEMMA AddAttackAdds ==
  ASSUME NEW list \in Seq(Attacker), Identities(list), NEW a \in Incident
  PROVE  Added(list, AddAttack(list, a), a)
<1> DEFINE more == AddAttack(list, a)
<1>1. CASE \E n \in DOMAIN list : Groups(list[n], a)
  <2>1. PICK p \in DOMAIN list : Groups(list[p], a)
    BY <1>1
  <2>2. \A n \in DOMAIN list : Groups(list[n], a) <=> n = p
    BY <2>1 DEF Identities, Groups
  <2>3. \A n \in DOMAIN list : list[n] \in Attacker
    BY ElementOfSeq
  <2>4. list[p].attacks \in Seq(Incident)
    BY <2>1, <2>3 DEF Attacker
  <2> DEFINE longer == Append(list[p].attacks, a)
  <2>5. /\ longer \in Seq(Incident)
        /\ \A m \in DOMAIN list[p].attacks :
             m \in DOMAIN longer /\ longer[m] = list[p].attacks[m]
        /\ \E q \in DOMAIN longer :
             /\ q \notin DOMAIN list[p].attacks /\ longer[q] = a
             /\ \A m \in DOMAIN longer : m \in DOMAIN list[p].attacks \/ m = q
    BY <2>4, AppendLine
  <2>6. more = [n \in DOMAIN list |->
                  IF Groups(list[n], a) THEN [list[n] EXCEPT !.attacks = Append(@, a)]
                                        ELSE list[n]]
    BY <1>1 DEF AddAttack
  <2>7. /\ DOMAIN more = DOMAIN list /\ more[p] = [list[p] EXCEPT !.attacks = longer]
        /\ \A n \in DOMAIN list : n # p => more[n] = list[n]
    BY <2>1, <2>2, <2>6
  <2> HIDE DEF longer, more
  <2>8. /\ more[p] \in Attacker /\ more[p].attacks = longer
        /\ more[p].interface = list[p].interface /\ more[p].mac = list[p].mac
    BY <2>3, <2>5, <2>7 DEF Attacker
  <2>9. more \in Seq(Attacker)
    <3>1. DOMAIN more = 1..Len(list) /\ Len(list) \in Nat
      BY <2>7
    <3>2. \A n \in 1..Len(list) : more[n] \in Attacker
      BY <2>3, <2>7, <2>8
    <3>3. more = [n \in 1..Len(list) |-> more[n]]
      BY <2>6, <3>1
    <3> QED  BY <3>1, <3>2, <3>3, IsASeq
  <2>10. Groups(more[p], a)
    BY <2>1, <2>8 DEF Groups
  <2>11. \A n \in DOMAIN list : /\ n \in DOMAIN more
                                /\ more[n].interface = list[n].interface
                                /\ more[n].mac = list[n].mac
    BY <2>7, <2>8
  <2>12. \A n, m : Line(list, n, m) =>
           Line(more, n, m) /\ more[n].attacks[m] = list[n].attacks[m]
    BY <2>5, <2>7, <2>8 DEF Line
  <2>13. PICK q \in DOMAIN longer :
           /\ q \notin DOMAIN list[p].attacks /\ longer[q] = a
           /\ \A m \in DOMAIN longer : m \in DOMAIN list[p].attacks \/ m = q
    BY <2>5
  <2>14. \A n, m : Line(more, n, m) => Line(list, n, m) \/ (n = p /\ m = q)
    BY <2>7, <2>8, <2>13 DEF Line
  <2>15. ~Line(list, p, q) /\ q \in DOMAIN more[p].attacks /\ more[p].attacks[q] = a
    BY <2>8, <2>13 DEF Line
  <2> QED
    BY <2>1, <2>7, <2>9, <2>10, <2>11, <2>12, <2>14, <2>15 DEF Added, more
<1>2. CASE ~\E n \in DOMAIN list : Groups(list[n], a)
  <2> DEFINE new == [interface |-> a.interface, mac |-> a.attacker, attacks |-> <<a>>]
  <2>1. more = Append(list, new)
    BY <1>2 DEF AddAttack
  <2>2. new \in Attacker
    BY DEF Attacker, Incident
  <2>3. /\ new.attacks[1] = a /\ DOMAIN new.attacks = {1}
        /\ new.interface = a.interface /\ new.mac = a.attacker
    OBVIOUS
  <2> HIDE DEF new, more
  <2>4. /\ more \in Seq(Attacker)
        /\ \A n \in DOMAIN list : n \in DOMAIN more /\ more[n] = list[n]
        /\ \E p \in DOMAIN more : /\ p \notin DOMAIN list /\ more[p] = new
                                  /\ \A n \in DOMAIN more : n \in DOMAIN list \/ n = p
    BY <2>1, <2>2, AppendLine
  <2>5. PICK p \in DOMAIN more : /\ p \notin DOMAIN list /\ more[p] = new
                                 /\ \A n \in DOMAIN more : n \in DOMAIN list \/ n = p
    BY <2>4
  <2>6. \A n, m : Line(list, n, m) =>
          Line(more, n, m) /\ more[n].attacks[m] = list[n].attacks[m]
    BY <2>4 DEF Line
  <2>7. \A n, m : Line(more, n, m) => Line(list, n, m) \/ (n = p /\ m = 1)
    BY <2>3, <2>4, <2>5 DEF Line
  <2>8. /\ 1 \in DOMAIN more[p].attacks /\ ~Line(list, p, 1)
        /\ more[p].attacks[1] = a /\ Groups(more[p], a)
    BY <2>3, <2>5 DEF Line, Groups
  <2> QED  BY <1>2, <2>4, <2>5, <2>6, <2>7, <2>8 DEF Added, more
<1> QED  BY <1>1, <1>2

\* list is what the first k of the incidents in s have been grouped into.
Grouped(list, s, k) ==
  /\ list \in Seq(Attacker)
  /\ Identities(list)
  /\ \A n, m : Line(list, n, m) =>
       /\ Groups(list[n], list[n].attacks[m])
       /\ \E i \in 1..k : list[n].attacks[m] = s[i]
  /\ \A i \in 1..k : \E n, m : Line(list, n, m) /\ list[n].attacks[m] = s[i]
  /\ \A n, m, j, l :
       Line(list, n, m) /\ Line(list, j, l) /\ list[n].attacks[m] = list[j].attacks[l]
         => n = j /\ m = l

\* An incident is appended where it belongs, and is the only line of its own.
LEMMA RoundOK ==
  ASSUME NEW s, NEW k \in Nat, NEW list, Grouped(list, s, k),
         NEW more, Added(list, more, s[k + 1]),
         \A i \in 1..k : s[i] # s[k + 1]
  PROVE  Grouped(more, s, k + 1)
<1> DEFINE a == s[k + 1]
<1>1. /\ more \in Seq(Attacker)
      /\ \A n \in DOMAIN list : /\ n \in DOMAIN more
                                /\ more[n].interface = list[n].interface
                                /\ more[n].mac = list[n].mac
      /\ \A n, m : Line(list, n, m) =>
           Line(more, n, m) /\ more[n].attacks[m] = list[n].attacks[m]
  BY DEF Added
<1>2. PICK p, q :
        /\ p \in DOMAIN more /\ q \in DOMAIN more[p].attacks
        /\ ~Line(list, p, q)
        /\ more[p].attacks[q] = a /\ Groups(more[p], a)
        /\ \A n \in DOMAIN more : n \in DOMAIN list \/ n = p
        /\ p \in DOMAIN list \/ \A n \in DOMAIN list : ~Groups(list[n], a)
        /\ \A n, m : Line(more, n, m) => Line(list, n, m) \/ (n = p /\ m = q)
  BY DEF Added
<1>3. /\ Identities(list)
      /\ \A n, m : Line(list, n, m) =>
           /\ Groups(list[n], list[n].attacks[m])
           /\ \E i \in 1..k : list[n].attacks[m] = s[i]
      /\ \A i \in 1..k : \E n, m : Line(list, n, m) /\ list[n].attacks[m] = s[i]
      /\ \A n, m, j, l :
           Line(list, n, m) /\ Line(list, j, l) /\ list[n].attacks[m] = list[j].attacks[l]
             => n = j /\ m = l
  BY DEF Grouped
<1>4. 1..k + 1 = (1..k) \cup {k + 1}
  OBVIOUS
<1> HIDE DEF a
<1>5. Line(more, p, q)
  BY <1>2 DEF Line
<1>6. \A n, m : Line(list, n, m) => list[n].attacks[m] # a
  BY <1>3 DEF a
<1>7. Identities(more)
  <2>1. ASSUME NEW n \in DOMAIN more, NEW m \in DOMAIN more,
               more[n].interface = more[m].interface, more[n].mac = more[m].mac
        PROVE  n = m
    <3>1. CASE n \in DOMAIN list /\ m \in DOMAIN list
      BY <1>1, <1>3, <2>1, <3>1 DEF Identities
    <3>2. CASE n \notin DOMAIN list
      <4>1. n = p /\ \A j \in DOMAIN list : ~Groups(list[j], a)
        BY <1>2, <2>1, <3>2
      <4>2. m \in DOMAIN list => Groups(list[m], a)
        BY <1>1, <1>2, <2>1, <4>1 DEF Groups
      <4> QED  BY <1>2, <2>1, <4>1, <4>2
    <3>3. CASE m \notin DOMAIN list
      <4>1. m = p /\ \A j \in DOMAIN list : ~Groups(list[j], a)
        BY <1>2, <2>1, <3>3
      <4>2. n \in DOMAIN list => Groups(list[n], a)
        BY <1>1, <1>2, <2>1, <4>1 DEF Groups
      <4> QED  BY <1>2, <2>1, <4>1, <4>2
    <3> QED  BY <3>1, <3>2, <3>3
  <2> QED  BY <2>1 DEF Identities
<1>8. ASSUME NEW n, NEW m, Line(more, n, m)
      PROVE  /\ Groups(more[n], more[n].attacks[m])
             /\ \E i \in 1..k + 1 : more[n].attacks[m] = s[i]
  <2>1. CASE Line(list, n, m)
    <3>1. more[n].attacks[m] = list[n].attacks[m] /\ n \in DOMAIN list
      BY <1>1, <2>1 DEF Line
    <3>2. Groups(list[n], list[n].attacks[m]) /\ \E i \in 1..k : list[n].attacks[m] = s[i]
      BY <1>3, <2>1
    <3> QED  BY <1>1, <1>4, <3>1, <3>2 DEF Groups
  <2>2. CASE n = p /\ m = q
    BY <1>2, <1>4, <2>2 DEF a
  <2> QED  BY <1>2, <1>8, <2>1, <2>2
<1>9. ASSUME NEW i \in 1..k + 1
      PROVE  \E n, m : Line(more, n, m) /\ more[n].attacks[m] = s[i]
  <2>1. CASE i = k + 1
    BY <1>2, <1>5, <2>1 DEF a
  <2>2. CASE i \in 1..k
    BY <1>1, <1>3, <2>2
  <2> QED  BY <1>4, <2>1, <2>2
<1>10. ASSUME NEW n, NEW m, NEW j, NEW l, Line(more, n, m), Line(more, j, l),
              more[n].attacks[m] = more[j].attacks[l]
       PROVE  n = j /\ m = l
  <2>1. CASE Line(list, n, m) /\ Line(list, j, l)
    BY <1>1, <1>3, <1>10, <2>1
  <2>2. CASE Line(list, n, m) /\ j = p /\ l = q
    BY <1>1, <1>2, <1>6, <1>10, <2>2
  <2>3. CASE Line(list, j, l) /\ n = p /\ m = q
    BY <1>1, <1>2, <1>6, <1>10, <2>3
  <2> QED  BY <1>2, <1>10, <2>1, <2>2, <2>3
<1> QED  BY <1>1, <1>7, <1>8, <1>9, <1>10 DEF Grouped

\* Attacker.group, for any list of different incidents.
LEMMA GroupOK ==
  ASSUME NEW s \in Seq(Incident), \A i, j \in DOMAIN s : s[i] = s[j] => i = j
  PROVE  Grouped(Group(s), s, Len(s))
<1>1. DOMAIN s = 1..Len(s) /\ Len(s) \in Nat
  OBVIOUS
<1>2. PICK f : Folded(f, s, Len(s)) /\ Group(s) = f[1..Len(s)]
  BY <1>1, GroupIsFold
<1> DEFINE T == {k \in Nat : k <= Len(s) => Grouped(f[1..k], s, k)}
<1>3. 0 \in T
  <2>1. 1..0 = {} /\ {} \in SUBSET (1..Len(s))
    OBVIOUS
  <2>2. f[1..0] = <<>>
    BY <1>2, <2>1 DEF Folded
  <2>3. Grouped(<<>>, s, 0)
    BY <2>1 DEF Grouped, Line, Identities
  <2> QED  BY <2>2, <2>3
<1>4. ASSUME NEW k \in Nat, k \in T PROVE k + 1 \in T
  <2> SUFFICES ASSUME k + 1 <= Len(s) PROVE Grouped(f[1..k + 1], s, k + 1)
    OBVIOUS
  <2>1. Grouped(f[1..k], s, k)
    BY <1>1, <1>4
  <2>2. k + 1 \in DOMAIN s /\ 1..k + 1 \in SUBSET (1..Len(s)) /\ 1..k + 1 # {}
    BY <1>1
  <2>3. Max(1..k + 1) = k + 1 /\ (1..k + 1) \ {k + 1} = 1..k
    BY GreatestNumber
  <2>4. f[1..k + 1] = AddAttack(f[1..k], s[k + 1])
    BY <1>2, <2>2, <2>3 DEF Folded
  <2>5. s[k + 1] \in Incident
    BY <2>2, ElementOfSeq
  <2>6. Added(f[1..k], f[1..k + 1], s[k + 1])
    BY <2>1, <2>4, <2>5, AddAttackAdds DEF Grouped
  <2>7. \A i \in 1..k : s[i] # s[k + 1]
    <3>1. \A i \in 1..k : i \in DOMAIN s /\ i # k + 1
      BY <1>1
    <3> QED  BY <2>2, <3>1
  <2> QED  BY <2>1, <2>6, <2>7, RoundOK
<1> HIDE DEF T
<1>5. Len(s) \in T
  BY <1>1, <1>3, <1>4, Induction
<1> QED  BY <1>1, <1>2, <1>5 DEF T

----------------------------------------------------------------------------
(* What is grouped: the incidents of both detectors.                       *)

\* main collects the incidents detector by detector.
LEMMA AttacksAre == Attacks = incidents["port_scan"] \o incidents["arp_spoof"]
<1> DEFINE seqs == [n \in DOMAIN Registrations |-> incidents[Registrations[n].detector]]
           flat == CHOOSE g : g = [i \in 1..2 |-> IF i = 1 THEN seqs[i] ELSE g[i - 1] \o seqs[i]]
           both == [i \in 1..2 |-> IF i = 1 THEN seqs[1] ELSE seqs[1] \o seqs[2]]
<1>1. DOMAIN Registrations = 1..2 /\ Registrations[1].detector = "port_scan"
      /\ Registrations[2].detector = "arp_spoof"
  BY DEF Registrations
<1>2. Len(seqs) = 2 /\ seqs[1] = incidents["port_scan"] /\ seqs[2] = incidents["arp_spoof"]
  BY <1>1
<1> HIDE DEF seqs
<1>3. both = [i \in 1..2 |-> IF i = 1 THEN seqs[i] ELSE both[i - 1] \o seqs[i]]
  OBVIOUS
<1>4. flat = [i \in 1..2 |-> IF i = 1 THEN seqs[i] ELSE flat[i - 1] \o seqs[i]]
  <2> HIDE DEF both
  <2> QED  BY <1>3
<1>5. FlattenSeq(seqs) = flat[2]
  BY <1>2 DEF FlattenSeq
<1> HIDE DEF flat
<1>6. flat[1] = seqs[1] /\ flat[2] = flat[1] \o seqs[2]
  <2>1. \A i \in 1..2 : flat[i] = IF i = 1 THEN seqs[i] ELSE flat[i - 1] \o seqs[i]
    BY <1>4, Zenon
  <2>2. 1 \in 1..2 /\ 2 \in 1..2 /\ 2 # 1 /\ 2 - 1 = 1
    OBVIOUS
  <2> QED  BY <2>1, <2>2
<1>7. Attacks = FlattenSeq(seqs)
  BY DEF Attacks, seqs
<1> QED  BY <1>2, <1>5, <1>6, <1>7

\* An incident is of the detector that keeps it.
KindsRight ==
  \A d \in Detectors : \A n \in DOMAIN incidents[d] : incidents[d][n].kind = d

\* So the list it groups holds every incident, once.
LEMMA AttacksOK ==
  ASSUME Sound(incidents), KindsRight
  PROVE  /\ Attacks \in Seq(Incident)
         /\ \A i, j \in DOMAIN Attacks : Attacks[i] = Attacks[j] => i = j
         /\ \A d \in Detectors : \A n \in DOMAIN incidents[d] :
              \E i \in DOMAIN Attacks : Attacks[i] = incidents[d][n]
<1> DEFINE s == incidents["port_scan"]
           t == incidents["arp_spoof"]
<1>1. Detectors = {"port_scan", "arp_spoof"}
  BY DEF Detectors, Registrations
<1>2. s \in Seq(Incident) /\ t \in Seq(Incident)
  BY <1>1 DEF Sound
<1>3. /\ \A m, n \in DOMAIN s : s[m] = s[n] => m = n
      /\ \A m, n \in DOMAIN t : t[m] = t[n] => m = n
      /\ \A m \in DOMAIN s : \A n \in DOMAIN t : s[m] # t[n]
  BY <1>1 DEF Sound, SameKey, KindsRight
<1>4. Attacks = s \o t
  BY AttacksAre
<1> HIDE DEF s, t
<1>5. /\ s \o t \in Seq(Incident) /\ Len(s \o t) = Len(s) + Len(t)
      /\ \A i \in 1..Len(s) + Len(t) :
           (s \o t)[i] = IF i <= Len(s) THEN s[i] ELSE t[i - Len(s)]
  BY <1>2, ConcatProperties
<1>6. /\ DOMAIN s = 1..Len(s) /\ Len(s) \in Nat /\ DOMAIN t = 1..Len(t) /\ Len(t) \in Nat
      /\ DOMAIN Attacks = 1..Len(s) + Len(t)
  BY <1>2, <1>4, <1>5
<1>7. \A i \in DOMAIN Attacks :
        /\ i <= Len(s) => i \in DOMAIN s /\ Attacks[i] = s[i]
        /\ ~(i <= Len(s)) => i - Len(s) \in DOMAIN t /\ Attacks[i] = t[i - Len(s)]
  BY <1>4, <1>5, <1>6
<1>8. ASSUME NEW i \in DOMAIN Attacks, NEW j \in DOMAIN Attacks, Attacks[i] = Attacks[j]
      PROVE  i = j
  <2>1. CASE i <= Len(s) /\ j <= Len(s)
    BY <1>3, <1>7, <1>8, <2>1
  <2>2. CASE ~(i <= Len(s)) /\ ~(j <= Len(s))
    <3>1. i - Len(s) = j - Len(s)
      BY <1>3, <1>7, <1>8, <2>2
    <3> QED  BY <1>6, <3>1
  <2>3. CASE i <= Len(s) /\ ~(j <= Len(s))
    BY <1>3, <1>7, <1>8, <2>3
  <2>4. CASE ~(i <= Len(s)) /\ j <= Len(s)
    <3>1. Attacks[j] = s[j] /\ j \in DOMAIN s /\ i - Len(s) \in DOMAIN t
          /\ Attacks[i] = t[i - Len(s)]
      BY <1>7, <2>4
    <3> QED  BY <1>3, <1>8, <3>1
  <2> QED  BY <2>1, <2>2, <2>3, <2>4
<1>9. \A n \in DOMAIN s : \E i \in DOMAIN Attacks : Attacks[i] = s[n]
  BY <1>6, <1>7
<1>10. ASSUME NEW n \in DOMAIN t PROVE \E i \in DOMAIN Attacks : Attacks[i] = t[n]
  <2>1. Len(s) + n \in DOMAIN Attacks /\ ~(Len(s) + n <= Len(s)) /\ (Len(s) + n) - Len(s) = n
    BY <1>6
  <2> QED  BY <1>7, <2>1
<1>11. ASSUME NEW d \in Detectors, NEW n \in DOMAIN incidents[d]
       PROVE  \E i \in DOMAIN Attacks : Attacks[i] = incidents[d][n]
  <2>1. CASE d = "port_scan"
    BY <1>9, <1>11, <2>1 DEF s
  <2>2. CASE d = "arp_spoof"
    BY <1>10, <1>11, <2>2 DEF t
  <2> QED  BY <1>1, <2>1, <2>2
<1> QED  BY <1>4, <1>5, <1>8, <1>11

\* One assignment to a field of an incident.
LEMMA KindKept ==
  ASSUME Sound(incidents), KindsRight, Current \in Detectors, NEW n \in DOMAIN Own,
         NEW b, SetOwn(n, b), b.kind = Own[n].kind
  PROVE  KindsRight'
<1> DEFINE d == Current
<1>1. incidents[d] \in Seq(Incident) /\ incidents \in [Detectors -> Seq(Incident)]
  BY DEF Sound
<1>2. /\ d \in Detectors /\ n \in DOMAIN incidents[d] /\ b.kind = incidents[d][n].kind
      /\ incidents' = [incidents EXCEPT ![d][n] = b]
  BY DEF Own, SetOwn
<1> HIDE DEF d
<1>3. incidents'[d] = [incidents[d] EXCEPT ![n] = b]
      /\ \A e \in Detectors : e # d => incidents'[e] = incidents[e]
  BY <1>1, <1>2
<1>4. ASSUME NEW e \in Detectors, NEW m \in DOMAIN incidents'[e]
      PROVE  incidents'[e][m].kind = e
  BY <1>1, <1>2, <1>3, <1>4 DEF KindsRight
<1> QED  BY <1>4 DEF KindsRight

\* No step moves an incident to another detector.
LEMMA KindsStepOK ==
  ASSUME CallsInv, IncidentsInv, KindsRight, [CaptureNext]_captureVars
  PROVE  KindsRight'
<1>1. Sound(incidents)
  BY DEF IncidentsInv
<1>2. CASE Remember
  <2>1. /\ at = "sweep" /\ swept < Len(Own) /\ swept \in Nat
        /\ SetOwn(swept + 1, Remembers(Own[swept + 1]))
    BY <1>2 DEF Remember, CallsInv
  <2>2. Current \in Detectors
    BY <2>1, RunningOK DEF InCall
  <2>3. swept + 1 \in DOMAIN Own
    <3>1. incidents[Current] \in Seq(Incident)
      BY <1>1, <2>2 DEF Sound
    <3> QED  BY <2>1, <3>1 DEF Own
  <2>4. Remembers(Own[swept + 1]).kind = Own[swept + 1].kind
    BY <2>2, <2>3, OwnIncident DEF Remembers, Incident
  <2> QED  BY <1>1, <2>1, <2>2, <2>3, <2>4, KindKept
<1>3. CASE Hide
  <2>1. at = "decay" /\ SetOwn(swept + 1, Hides(Own[swept + 1])) /\ swept + 1 \in DOMAIN Own
    BY <1>3 DEF Hide, IncidentsInv
  <2>2. Current \in Detectors
    BY <2>1, RunningOK DEF InCall
  <2>3. Hides(Own[swept + 1]).kind = Own[swept + 1].kind
    BY <2>1, <2>2, OwnIncident DEF Hides, Incident
  <2> QED  BY <1>1, <2>1, <2>2, <2>3, KindKept
<1>4. CASE Count \/ Climb \/ Forget
  <2>1. at \in {"count", "climb", "forget"}
    BY <1>4 DEF Count, Climb, Forget
  <2>2. Current \in Detectors
    BY <2>1, RunningOK DEF InCall
  <2>3. \E n \in Found : \E s :
          \/ SetOwn(n, [Own[n] EXCEPT !.status = s])
          \/ SetOwn(n, Forgets(Own[n]))
          \/ SetOwn(n, Counted(Own[n]))
    BY <1>4 DEF Count, Climb, Forget
  <2>4. PICK n \in Found : \E s :
          \/ SetOwn(n, [Own[n] EXCEPT !.status = s])
          \/ SetOwn(n, Forgets(Own[n]))
          \/ SetOwn(n, Counted(Own[n]))
    BY <2>3
  <2>5. n \in DOMAIN Own
    BY DEF Found, At, Own
  <2>6. Own[n] \in Incident
    BY <2>2, <2>5, OwnIncident
  <2>7. PICK s : \/ SetOwn(n, [Own[n] EXCEPT !.status = s])
                 \/ SetOwn(n, Forgets(Own[n]))
                 \/ SetOwn(n, Counted(Own[n]))
    BY <2>4
  <2>8. /\ [Own[n] EXCEPT !.status = s].kind = Own[n].kind
        /\ Forgets(Own[n]).kind = Own[n].kind /\ Counted(Own[n]).kind = Own[n].kind
    BY <2>6 DEF Forgets, Counted, Incident
  <2> QED  BY <1>1, <2>2, <2>5, <2>7, <2>8, KindKept
<1>5. CASE Find
  <2>1. at = "find" /\ evidence # <<>>
    BY <1>5 DEF Find
  <2>2. Current \in Detectors /\ Head(evidence) \in Evidence
    BY <2>1, RunningOK DEF InCall
  <2> DEFINE b == NewIncident(Head(evidence))
             d == Current
  <2>3. b \in Incident /\ b.kind = d
    BY <2>2 DEF NewIncident, Incident, Evidence, Severity
  <2>4. incidents \in [Detectors -> Seq(Incident)] /\ d \in Detectors
    BY <1>1, <2>2 DEF Sound
  <2>5. incidents' = incidents \/ incidents' = [incidents EXCEPT ![d] = Append(@, b)]
    BY <1>5 DEF Find
  <2> HIDE DEF b, d
  <2>6. CASE incidents' = [incidents EXCEPT ![d] = Append(@, b)]
    <3>1. Grown(incidents, incidents', d, b)
      BY <2>3, <2>4, <2>6, AppendGrows
    <3> QED  BY <2>3, <3>1 DEF Grown, KindsRight
  <2> QED  BY <2>5, <2>6 DEF KindsRight
<1>6. CASE incidents' = incidents
  BY <1>6 DEF KindsRight
<1>7. \/ Remember \/ Hide \/ Count \/ Climb \/ Forget \/ Find
      \/ incidents' = incidents
  BY DEF CaptureNext, Handle, captureVars, Configure, Construct, Start, StartFails, Receive, Call,
         Dispatched, Return, Fail, Resync, Pass, Swept, Interrupt, Summarize, Stopped
<1> QED  BY <1>2, <1>3, <1>4, <1>5, <1>6, <1>7

----------------------------------------------------------------------------
(* The summary.                                                            *)

\* Nothing touches the list, or an incident, once it is printed.
PrintedRight == at = "done" => attackers = Group(Attacks)

\* What is printed is what Attacker.group made of the incidents there are.
LEMMA PrintedStepOK == PrintedRight /\ [CaptureNext]_captureVars => PrintedRight'
<1> SUFFICES ASSUME PrintedRight, [CaptureNext]_captureVars, at' = "done"
             PROVE  attackers' = Group(Attacks)'
  BY DEF PrintedRight
<1>1. CASE Summarize
  <2>1. incidents' = incidents /\ attackers' = Group(Attacks)
    BY <1>1 DEF Summarize
  <2>2. Attacks' = Attacks
    BY <2>1 DEF Attacks
  <2> QED  BY <2>1, <2>2
<1>2. CASE Stopped \/ UNCHANGED captureVars
  <2>1. at = "done" /\ incidents' = incidents /\ attackers' = attackers
    BY <1>2 DEF Stopped, captureVars
  <2>2. Attacks' = Attacks
    BY <2>1 DEF Attacks
  <2> QED  BY <2>1, <2>2 DEF PrintedRight
<1>3. CASE ~Summarize /\ ~Stopped /\ ~UNCHANGED captureVars
  <2>1. at' # "done"
    BY <1>3
    DEF CaptureNext, Handle, Configure, NetNext, Look, Change, GetIfList, GetBridgeMembers,
        GetWanInterface, StartUp, After, Construct, Start, StartFails, Receive, Call, Dispatched,
        Return, Fail, Resync, Pass, Swept, Interrupt, Interrupted, Remember, Hide, Find, Count,
        Climb, Forget
  <2> QED  BY <2>1
<1> QED  BY <1>1, <1>2, <1>3

\* For any incidents of both detectors, in any order, and wherever the program
\* was stopped: the summary has one attacker per (interface, MAC), and every
\* incident, as it stands, on exactly one line, under its own attacker.
THEOREM SummaryGroupedAlways == CaptureSpec => []SummaryGrouped
<1>1. CaptureInit => KindsRight /\ PrintedRight
  <2> SUFFICES ASSUME CaptureInit PROVE KindsRight /\ PrintedRight
    OBVIOUS
  <2>1. at # "done" /\ \A d \in Detectors : DOMAIN incidents[d] = {}
    BY DEF CaptureInit, NetInit
  <2> QED  BY <2>1 DEF KindsRight, PrintedRight
<1>2. CallsInv /\ IncidentsInv /\ KindsRight /\ PrintedRight /\ [CaptureNext]_captureVars
        => KindsRight' /\ PrintedRight'
  BY KindsStepOK, PrintedStepOK
<1>3. ASSUME IncidentsInv, KindsRight, PrintedRight PROVE SummaryGrouped
  <2> SUFFICES ASSUME at = "done" PROVE SummaryGrouped
    BY DEF SummaryGrouped
  <2>1. /\ Attacks \in Seq(Incident)
        /\ \A i, j \in DOMAIN Attacks : Attacks[i] = Attacks[j] => i = j
        /\ \A d \in Detectors : \A n \in DOMAIN incidents[d] :
             \E i \in DOMAIN Attacks : Attacks[i] = incidents[d][n]
    BY <1>3, AttacksOK DEF IncidentsInv
  <2>2. Grouped(attackers, Attacks, Len(Attacks))
    BY <1>3, <2>1, GroupOK DEF PrintedRight
  <2>3. DOMAIN Attacks = 1..Len(Attacks)
    BY <2>1
  <2>4. \A l \in Lines : Line(attackers, l[1], l[2])
    BY DEF Lines, Line
  <2>5. \A l, k \in Lines : l[1] = k[1] /\ l[2] = k[2] => l = k
    BY DEF Lines
  <2>6. ASSUME NEW n, NEW m, Line(attackers, n, m)
        PROVE  <<n, m>> \in Lines
    BY <2>6 DEF Lines, Line
  <2>7. \A n, m \in DOMAIN attackers :
          attackers[n].interface = attackers[m].interface /\ attackers[n].mac = attackers[m].mac
            => n = m
    BY <2>2 DEF Grouped, Identities
  <2>8. ASSUME NEW l \in Lines
        PROVE  LET a == attackers[l[1]].attacks[l[2]] IN
                 a.interface = attackers[l[1]].interface /\ a.attacker = attackers[l[1]].mac
    BY <2>2, <2>4 DEF Grouped, Groups
  <2>9. ASSUME NEW d \in Detectors, NEW n \in DOMAIN incidents[d]
        PROVE  \E l \in Lines : attackers[l[1]].attacks[l[2]] = incidents[d][n]
    <3>1. PICK i \in 1..Len(Attacks) : Attacks[i] = incidents[d][n]
      BY <2>1, <2>3
    <3>2. PICK p, q : Line(attackers, p, q) /\ attackers[p].attacks[q] = Attacks[i]
      BY <2>2 DEF Grouped
    <3>3. <<p, q>> \in Lines /\ <<p, q>>[1] = p /\ <<p, q>>[2] = q
      BY <2>6, <3>2
    <3> QED  BY <3>1, <3>2, <3>3
  <2>10. ASSUME NEW l \in Lines, NEW k \in Lines,
                attackers[l[1]].attacks[l[2]] = attackers[k[1]].attacks[k[2]]
         PROVE  l = k
    <3>1. l[1] = k[1] /\ l[2] = k[2]
      BY <2>2, <2>4, <2>10 DEF Grouped
    <3> QED  BY <2>5, <3>1
  <2> QED  BY <2>7, <2>8, <2>9, <2>10 DEF SummaryGrouped
<1> QED
  BY <1>1, <1>2, <1>3, IncidentsInductive, PTL DEF CaptureSpec
=============================================================================
