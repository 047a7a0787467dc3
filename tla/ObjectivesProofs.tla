-------------------------- MODULE ObjectivesProofs --------------------------
(***************************************************************************)
(* For every set of objectives and names and any number of scopes: no      *)
(* reference to an objective outlives it (NoDangling and what it rests on), *)
(* no pop gives a name another meaning, and, in the sessions that give no  *)
(* outer name away, recording sizes restores the whole problem.            *)
(***************************************************************************)
EXTENDS MCObjectives, TLAPS

(* The sizes recorded by the open scopes grow inwards up to the present one. *)
SizesNested ==
    \A i \in 1 .. Len(frames) :
        /\ frames[i] <= Len(objectives)
        /\ \A j \in i .. Len(frames) : frames[i] <= frames[j]

(* What a name denoted at a push was listed then, so it still is. *)
SnapshotsKept ==
    \A i \in 1 .. Len(frames) : \A a \in Name : snapshots[i][a] \in Kept(frames[i]) \cup {NULL}

(* An objective that was popped has no members, and no other objective      *)
(* refers to it.                                                            *)
DeadIsUnused == \A o \in Objective : o \notin Listed => members[o] = {}

(* The inductive invariant of every session. *)
LiveInv ==
    TypeOK /\ SizesNested /\ SnapshotsKept
    /\ NoDangling /\ DeadIsUnused /\ ListedOnce /\ NamesOfScope

(* The first k elements of a sequence; sequences that agree on them have the *)
(* same ones.                                                                *)
FirstOf(s, k) == {s[j] : j \in 1 .. k}

LEMMA SameFirst ==
    ASSUME NEW s, NEW t, NEW k, \A j \in 1 .. k : s[j] = t[j]
    PROVE  FirstOf(s, k) = FirstOf(t, k)
<1>1. \A x \in FirstOf(s, k) : x \in FirstOf(t, k)
  BY DEF FirstOf
<1>2. \A x \in FirstOf(t, k) : x \in FirstOf(s, k)
  BY DEF FirstOf
<1> QED BY <1>1, <1>2

(* An operation that appends one fresh objective, and may name it. *)
LEMMA AddStep ==
    ASSUME LiveInv, NEW o \in Objective, Fresh(o),
           objectives' = Append(objectives, o), UNCHANGED <<frames, snapshots>>,
           named' \in Naming, \A a \in Name : named'[a] \in {named[a], o},
           members' \in [Objective -> SUBSET (Objective \cup {NULL})],
           \A p \in Objective : p # o => members'[p] = members[p],
           members'[o] \subseteq Listed \cup {NULL}
    PROVE  LiveInv'
<1> DEFINE n == Len(objectives)
<1>1. /\ objectives \in Seq(Objective) /\ n \in Nat
      /\ objectives' \in Seq(Objective) /\ Len(objectives') = n + 1
      /\ DOMAIN objectives = 1 .. n /\ DOMAIN objectives' = 1 .. n + 1
      /\ \A i \in 1 .. n : objectives'[i] = objectives[i] /\ objectives[i] \in Objective
      /\ objectives'[n + 1] = o
  BY DEF LiveInv, TypeOK
<1>2. /\ frames' = frames /\ snapshots' = snapshots /\ frames \in Seq(Nat)
      /\ Len(frames) \in Nat /\ \A i \in 1 .. Len(frames) : frames[i] \in Nat /\ frames[i] <= n
  BY DEF LiveInv, TypeOK, SizesNested
<1>3. \A i \in 1 .. n : objectives[i] # o
  BY <1>1 DEF Fresh, Listed
<1>4. /\ Listed = {objectives[j] : j \in 1 .. n}
      /\ Listed' = {objectives'[j] : j \in 1 .. n + 1}
  BY <1>1 DEF Listed
<1> HIDE DEF n
<1>5. Listed' = Listed \cup {o}
  <2>1. 1 .. n + 1 = (1 .. n) \cup {n + 1}
    BY <1>1
  <2> QED BY <2>1, <1>1, <1>4
<1>6. TypeOK'
  BY <1>1, <1>2 DEF LiveInv, TypeOK
<1>7. SizesNested'
  BY <1>1, <1>2 DEF LiveInv, SizesNested, n
<1>8. SnapshotsKept'
  <2> SUFFICES ASSUME NEW i \in 1 .. Len(frames) PROVE Kept(frames[i])' = Kept(frames[i])
    BY <1>2 DEF LiveInv, SnapshotsKept
  <2>0. frames[i] \in Nat /\ frames[i] <= n
    BY <1>2
  <2>1. ASSUME NEW k \in Nat, k <= n PROVE FirstOf(objectives', k) = FirstOf(objectives, k)
    <3>1. \A j \in 1 .. k : objectives'[j] = objectives[j]
      BY <1>1, <2>1
    <3> QED BY <3>1, SameFirst
  <2>2. /\ Kept(frames[i]) = FirstOf(objectives, frames[i])
        /\ Kept(frames[i])' = FirstOf(objectives', frames[i])
    BY <1>2 DEF Kept, FirstOf
  <2>3. FirstOf(objectives', frames[i]) = FirstOf(objectives, frames[i])
    BY <2>0, <2>1
  <2> QED BY <2>2, <2>3
<1>9. NoDangling'
  <2>1. ASSUME NEW a \in Name PROVE named'[a] \in Listed' \cup {NULL}
    BY <1>5 DEF LiveInv, NoDangling
  <2>2. ASSUME NEW i \in 1 .. n + 1
        PROVE members'[objectives'[i]] \subseteq {objectives'[j] : j \in 1 .. i - 1} \cup {NULL}
    <3>1. CASE i = n + 1
      <4>1. i - 1 = n /\ members'[objectives'[i]] = members'[o]
        BY <3>1, <1>1
      <4>2. {objectives'[j] : j \in 1 .. n} = Listed
        BY <1>1, <1>4
      <4> QED BY <4>1, <4>2
    <3>2. CASE i \in 1 .. n
      <4>1. members'[objectives'[i]] = members[objectives[i]]
        BY <3>2, <1>1, <1>3
      <4>2. members[objectives[i]] \subseteq {objectives[j] : j \in 1 .. i - 1} \cup {NULL}
        BY <3>2, <1>1 DEF LiveInv, NoDangling
      <4>3. \A j \in 1 .. i - 1 : objectives'[j] = objectives[j]
        BY <3>2, <1>1
      <4>4. FirstOf(objectives', i - 1) = FirstOf(objectives, i - 1)
        BY <4>3, SameFirst
      <4> QED BY <4>1, <4>2, <4>4 DEF FirstOf
    <3> QED BY <3>1, <3>2, <1>1
  <2> QED BY <2>1, <2>2, <1>1 DEF NoDangling
<1>10. DeadIsUnused'
  BY <1>5 DEF LiveInv, DeadIsUnused
<1>11. ListedOnce'
  <2> SUFFICES ASSUME NEW i \in 1 .. n + 1, NEW j \in 1 .. n + 1, objectives'[i] = objectives'[j]
               PROVE i = j
    BY <1>1 DEF ListedOnce
  <2>1. \A k, l \in 1 .. n : objectives[k] = objectives[l] => k = l
    BY <1>1 DEF LiveInv, ListedOnce
  <2> QED BY <2>1, <1>1, <1>3
<1>12. NamesOfScope'
  <2> SUFFICES ASSUME NEW i \in 1 .. Len(frames), NEW a \in Name
               PROVE \/ named'[a] = snapshots[i][a] \/ named'[a] \in AddedSince(i)' \/ named'[a] = NULL
    BY <1>2 DEF NamesOfScope
  <2>1. AddedSince(i) = {objectives[j] : j \in frames[i] + 1 .. n}
    BY DEF AddedSince, n
  <2>2. AddedSince(i)' = {objectives'[j] : j \in frames[i] + 1 .. n + 1}
    BY <1>1, <1>2 DEF AddedSince
  <2>3. n + 1 \in frames[i] + 1 .. n + 1 /\ \A j \in frames[i] + 1 .. n :
            j \in frames[i] + 1 .. n + 1 /\ objectives'[j] = objectives[j]
    BY <1>1, <1>2
  <2>4. AddedSince(i) \cup {o} \subseteq AddedSince(i)'
    <3>1. ASSUME NEW j \in frames[i] + 1 .. n PROVE objectives[j] \in AddedSince(i)'
      BY <2>2, <2>3
    <3>2. o \in AddedSince(i)'
      BY <2>2, <2>3, <1>1
    <3> QED BY <2>1, <3>1, <3>2
  <2>5. named[a] = snapshots[i][a] \/ named[a] \in AddedSince(i) \/ named[a] = NULL
    BY DEF LiveInv, NamesOfScope
  <2> QED BY <2>4, <2>5
<1> QED BY <1>6, <1>7, <1>8, <1>9, <1>10, <1>11, <1>12 DEF LiveInv

(* What the three operations that add an objective have in common. *)
LEMMA AddingIsAddStep ==
    ASSUME LiveInv, NEW o \in Objective,
           \/ AddSingleObjective(o)
           \/ \E a \in Name : DefineObjective(a, o)
           \/ \E names \in SUBSET Name : AddMultiObjective(names, o)
    PROVE  /\ Fresh(o) /\ objectives' = Append(objectives, o)
           /\ UNCHANGED <<frames, snapshots>>
           /\ named' \in Naming /\ \A a \in Name : named'[a] \in {named[a], o}
           /\ members' \in [Objective -> SUBSET (Objective \cup {NULL})]
           /\ \A p \in Objective : p # o => members'[p] = members[p]
           /\ members'[o] \subseteq Listed \cup {NULL}
<1>1. /\ named \in Naming /\ members \in [Objective -> SUBSET (Objective \cup {NULL})]
  BY DEF LiveInv, TypeOK
<1>2. Fresh(o) => members[o] = {}
  BY DEF LiveInv, DeadIsUnused, Fresh
<1>3. CASE AddSingleObjective(o)
  BY <1>1, <1>2, <1>3 DEF AddSingleObjective
<1>4. CASE \E a \in Name : DefineObjective(a, o)
  BY <1>1, <1>2, <1>4 DEF DefineObjective, Naming
<1>5. CASE \E names \in SUBSET Name : AddMultiObjective(names, o)
  <2> PICK names \in SUBSET Name : AddMultiObjective(names, o)
    BY <1>5
  <2> DEFINE M == {named[a] : a \in names}
  <2>1. M \subseteq Listed \cup {NULL} /\ M \subseteq Objective \cup {NULL}
    BY <1>1 DEF LiveInv, NoDangling, Naming
  <2>2. members' = [members EXCEPT ![o] = M]
    BY DEF AddMultiObjective
  <2> HIDE DEF M
  <2>3. /\ members' \in [Objective -> SUBSET (Objective \cup {NULL})]
        /\ \A p \in Objective : p # o => members'[p] = members[p]
        /\ members'[o] = M
    BY <1>1, <2>1, <2>2
  <2> QED BY <1>1, <2>1, <2>3 DEF AddMultiObjective
<1> QED BY <1>3, <1>4, <1>5

(* What a pop does, whether popToSize returns early or not: with m objectives *)
(* to keep, the objectives added since are cut.                               *)
LEMMA PopFacts ==
    ASSUME LiveInv, PopLevel
    PROVE  LET m == frames[Len(frames)]
               cut == AddedSince(Len(frames)) IN
           /\ Len(frames) \in Nat /\ 0 < Len(frames) /\ m \in Nat /\ m <= Len(objectives)
           /\ objectives' \in Seq(Objective) /\ Len(objectives') = m
           /\ \A j \in 1 .. m : objectives'[j] = objectives[j]
           /\ named' \in Naming
           /\ \A a \in Name : named'[a] = IF named[a] \in cut THEN NULL ELSE named[a]
           /\ members' \in [Objective -> SUBSET (Objective \cup {NULL})]
           /\ \A o \in Objective : members'[o] = IF o \in cut THEN {} ELSE members[o]
           /\ frames' \in Seq(Nat) /\ Len(frames') = Len(frames) - 1
           /\ snapshots' \in Seq(Naming) /\ Len(snapshots') = Len(frames) - 1
           /\ \A i \in 1 .. Len(frames) - 1 :
                 /\ frames'[i] = frames[i] /\ snapshots'[i] = snapshots[i]
                 /\ frames[i] \in Nat /\ frames[i] <= m
<1> DEFINE m == frames[Len(frames)]
           n == Len(objectives)
           cut == AddedSince(Len(frames))
<1>1. /\ objectives \in Seq(Objective) /\ n \in Nat
      /\ named \in Naming /\ members \in [Objective -> SUBSET (Objective \cup {NULL})]
      /\ frames \in Seq(Nat) /\ snapshots \in Seq(Naming) /\ Len(snapshots) = Len(frames)
  BY DEF LiveInv, TypeOK
<1>2. /\ Len(frames) \in Nat /\ 0 < Len(frames)
      /\ frames' = Outer(frames) /\ snapshots' = Outer(snapshots) /\ PopToSize(m)
  BY <1>1 DEF PopLevel
<1>3. /\ m \in Nat /\ m <= n
      /\ \A i \in 1 .. Len(frames) - 1 : frames[i] \in Nat /\ frames[i] <= m
  BY <1>1, <1>2 DEF LiveInv, SizesNested
<1>4. /\ frames' \in Seq(Nat) /\ Len(frames') = Len(frames) - 1
      /\ \A i \in 1 .. Len(frames) - 1 : frames'[i] = frames[i]
  BY <1>1, <1>2 DEF Outer
<1>5. /\ snapshots' \in Seq(Naming) /\ Len(snapshots') = Len(frames) - 1
      /\ \A i \in 1 .. Len(frames) - 1 : snapshots'[i] = snapshots[i]
  BY <1>1, <1>2 DEF Outer
<1>6. cut = {objectives[j] : j \in m + 1 .. n}
  BY DEF AddedSince
<1> HIDE DEF m, n, cut
<1>7. /\ objectives' \in Seq(Objective) /\ Len(objectives') = m
      /\ \A j \in 1 .. m : objectives'[j] = objectives[j]
      /\ named' \in Naming
      /\ \A a \in Name : named'[a] = IF named[a] \in cut THEN NULL ELSE named[a]
      /\ members' \in [Objective -> SUBSET (Objective \cup {NULL})]
      /\ \A o \in Objective : members'[o] = IF o \in cut THEN {} ELSE members[o]
  <2>1. CASE m >= n
    <3>1. m = n /\ UNCHANGED <<objectives, named, members>>
      BY <2>1, <1>1, <1>2, <1>3 DEF PopToSize, n
    <3>2. cut = {}
      BY <3>1, <1>1, <1>6
    <3> QED BY <3>1, <3>2, <1>1 DEF n
  <2>2. CASE ~(m >= n)
    <3>1. /\ objectives' = [i \in 1 .. m |-> objectives[i]]
          /\ named' = [a \in Name |-> IF named[a] \in cut THEN NULL ELSE named[a]]
          /\ members' = [o \in Objective |-> IF o \in cut THEN {} ELSE members[o]]
      BY <2>2, <1>2, <1>6 DEF PopToSize, n
    <3>2. /\ objectives' \in Seq(Objective) /\ Len(objectives') = m
          /\ \A j \in 1 .. m : objectives'[j] = objectives[j]
      <4>1. \A i \in 1 .. m : objectives[i] \in Objective
        BY <1>1, <1>3 DEF n
      <4> QED BY <3>1, <4>1, <1>3
    <3> QED BY <3>1, <3>2, <1>1 DEF Naming
  <2> QED BY <2>1, <2>2
<1> QED BY <1>1, <1>2, <1>3, <1>4, <1>5, <1>7 DEF m, n, cut

LEMMA PopStep == LiveInv /\ PopLevel => LiveInv'
<1> SUFFICES ASSUME LiveInv, PopLevel PROVE LiveInv'
  OBVIOUS
<1> DEFINE m == frames[Len(frames)]
           n == Len(objectives)
           cut == AddedSince(Len(frames))
           d == Len(frames) - 1
<1>1. /\ d \in Nat /\ m \in Nat /\ m <= n
      /\ objectives' \in Seq(Objective) /\ Len(objectives') = m
      /\ DOMAIN objectives' = 1 .. m
      /\ \A j \in 1 .. m : objectives'[j] = objectives[j]
  BY PopFacts
<1>2. /\ named' \in Naming
      /\ \A a \in Name : named'[a] = IF named[a] \in cut THEN NULL ELSE named[a]
      /\ members' \in [Objective -> SUBSET (Objective \cup {NULL})]
      /\ \A o \in Objective : members'[o] = IF o \in cut THEN {} ELSE members[o]
  BY PopFacts
<1>3. /\ frames' \in Seq(Nat) /\ Len(frames') = d
      /\ snapshots' \in Seq(Naming) /\ Len(snapshots') = d
      /\ \A i \in 1 .. d :
            /\ frames'[i] = frames[i] /\ snapshots'[i] = snapshots[i]
            /\ frames[i] \in Nat /\ frames[i] <= m
  BY PopFacts
<1>4. /\ Len(frames) = d + 1 /\ n \in Nat /\ cut = {objectives[j] : j \in m + 1 .. n}
      /\ objectives \in Seq(Objective) /\ DOMAIN objectives = 1 .. n
  BY PopFacts DEF LiveInv, TypeOK, AddedSince
<1>5. /\ Listed = {objectives[j] : j \in 1 .. n}
      /\ Listed' = {objectives'[j] : j \in 1 .. m}
  BY <1>1, <1>4 DEF Listed
<1> HIDE DEF m, n, cut, d
<1>6. \A x \in Listed : x \in cut \/ x \in Listed'
  BY <1>1, <1>4, <1>5
<1>7. \A j \in 1 .. m : objectives[j] \notin cut
  BY <1>1, <1>4 DEF LiveInv, ListedOnce
<1>8. TypeOK'
  BY <1>1, <1>2, <1>3 DEF TypeOK
<1>9. SizesNested'
  BY <1>1, <1>3, <1>4 DEF LiveInv, SizesNested
<1>10. SnapshotsKept'
  <2> SUFFICES ASSUME NEW i \in 1 .. d, NEW a \in Name
               PROVE snapshots'[i][a] \in Kept(frames[i])' \cup {NULL}
    BY <1>3 DEF SnapshotsKept
  <2>1. snapshots[i][a] \in Kept(frames[i]) \cup {NULL}
    BY <1>1, <1>4 DEF LiveInv, SnapshotsKept
  <2>2. /\ Kept(frames[i]) = FirstOf(objectives, frames[i])
        /\ Kept(frames[i])' = FirstOf(objectives', frames[i])
    BY <1>3 DEF Kept, FirstOf
  <2>3. ASSUME NEW k \in Nat, k <= m PROVE FirstOf(objectives', k) = FirstOf(objectives, k)
    <3>1. \A j \in 1 .. k : objectives'[j] = objectives[j]
      BY <1>1, <2>3
    <3> QED BY <3>1, SameFirst
  <2>4. frames[i] \in Nat /\ frames[i] <= m
    BY <1>3
  <2>5. FirstOf(objectives', frames[i]) = FirstOf(objectives, frames[i])
    BY <2>3, <2>4
  <2> QED BY <2>1, <2>2, <2>5, <1>3
<1>11. NoDangling'
  <2>1. ASSUME NEW a \in Name PROVE named'[a] \in Listed' \cup {NULL}
    BY <1>2, <1>6 DEF LiveInv, NoDangling
  <2>2. ASSUME NEW i \in 1 .. m
        PROVE members'[objectives'[i]] \subseteq {objectives'[j] : j \in 1 .. i - 1} \cup {NULL}
    <3>1. i \in 1 .. n /\ objectives[i] \in Objective
      BY <1>1, <1>4 DEF n
    <3>2. members'[objectives'[i]] = members[objectives[i]]
      BY <3>1, <1>1, <1>2, <1>7
    <3>3. members[objectives[i]] \subseteq FirstOf(objectives, i - 1) \cup {NULL}
      BY <3>1, <1>4 DEF LiveInv, NoDangling, FirstOf
    <3>4. \A j \in 1 .. i - 1 : objectives'[j] = objectives[j]
      BY <1>1
    <3>5. FirstOf(objectives', i - 1) = FirstOf(objectives, i - 1)
      BY <3>4, SameFirst
    <3> QED BY <3>2, <3>3, <3>5 DEF FirstOf
  <2> QED BY <2>1, <2>2, <1>1 DEF NoDangling
<1>12. DeadIsUnused'
  BY <1>2, <1>6 DEF LiveInv, DeadIsUnused
<1>13. ListedOnce'
  BY <1>1, <1>4 DEF LiveInv, ListedOnce
<1>14. NamesOfScope'
  <2> SUFFICES ASSUME NEW i \in 1 .. d, NEW a \in Name
               PROVE \/ named'[a] = snapshots[i][a] \/ named'[a] \in AddedSince(i)' \/ named'[a] = NULL
    BY <1>3 DEF NamesOfScope
  <2>1. CASE named[a] \in cut
    BY <2>1, <1>2
  <2>2. CASE named[a] \notin cut
    <3>1. named'[a] = named[a]
      BY <2>2, <1>2
    <3>2. named[a] = snapshots[i][a] \/ named[a] \in AddedSince(i) \/ named[a] = NULL
      BY <1>1, <1>4 DEF LiveInv, NamesOfScope
    <3>3. ASSUME named[a] \in AddedSince(i) PROVE named[a] \in AddedSince(i)'
      <4>1. PICK j \in frames[i] + 1 .. n : named[a] = objectives[j]
        BY <3>3 DEF AddedSince, n
      <4>2. frames[i] \in Nat /\ j \in Nat /\ j <= m
        BY <4>1, <2>2, <1>1, <1>3, <1>4
      <4>3. j \in 1 .. m /\ j \in frames[i] + 1 .. m
        BY <4>1, <4>2, <1>1
      <4>4. AddedSince(i)' = {objectives'[k] : k \in frames[i] + 1 .. m}
        BY <1>1, <1>3 DEF AddedSince
      <4> QED BY <4>1, <4>3, <4>4, <1>1
    <3> QED BY <3>1, <3>2, <3>3
  <2> QED BY <2>1, <2>2
<1> QED BY <1>8, <1>9, <1>10, <1>11, <1>12, <1>13, <1>14 DEF LiveInv

LEMMA PushStep == LiveInv /\ PushLevel => LiveInv'
<1> SUFFICES ASSUME LiveInv, PushLevel PROVE LiveInv'
  OBVIOUS
<1> DEFINE d == Len(frames)
           n == Len(objectives)
<1>1. /\ d \in Nat /\ n \in Nat /\ Len(snapshots) = d
      /\ objectives' = objectives /\ named' = named /\ members' = members
      /\ named \in Naming
      /\ frames \in Seq(Nat) /\ snapshots \in Seq(Naming)
      /\ frames' = Append(frames, n) /\ snapshots' = Append(snapshots, named)
  BY DEF LiveInv, TypeOK, PushLevel
<1>2. /\ frames' \in Seq(Nat) /\ Len(frames') = d + 1 /\ frames'[d + 1] = n
      /\ \A i \in 1 .. d : frames'[i] = frames[i]
  <2> HIDE DEF n
  <2> QED BY <1>1
<1>3. /\ snapshots' \in Seq(Naming) /\ Len(snapshots') = d + 1 /\ snapshots'[d + 1] = named
      /\ \A i \in 1 .. d : snapshots'[i] = snapshots[i]
  BY <1>1
<1>4. \A i \in 1 .. d : frames[i] \in Nat /\ frames[i] <= n /\ \A j \in i .. d : frames[i] <= frames[j]
  BY <1>1 DEF LiveInv, SizesNested
<1>5. Listed' = Listed /\ n' = n
  BY <1>1 DEF Listed
<1>6. Listed = FirstOf(objectives, n)
  BY DEF Listed, FirstOf, LiveInv, TypeOK
<1> HIDE DEF d, n
<1>7. TypeOK'
  BY <1>1, <1>2, <1>3 DEF LiveInv, TypeOK
<1>8. SizesNested'
  <2> SUFFICES ASSUME NEW i \in 1 .. d + 1
               PROVE frames'[i] <= n /\ \A j \in i .. d + 1 : frames'[i] <= frames'[j]
    BY <1>1, <1>2, <1>5 DEF SizesNested, n
  <2> QED BY <1>1, <1>2, <1>4
<1>9. SnapshotsKept'
  <2> SUFFICES ASSUME NEW i \in 1 .. d + 1, NEW a \in Name
               PROVE snapshots'[i][a] \in FirstOf(objectives, frames'[i]) \cup {NULL}
    BY <1>1, <1>2 DEF SnapshotsKept, Kept, FirstOf
  <2>1. CASE i = d + 1
    BY <2>1, <1>2, <1>3, <1>6 DEF LiveInv, NoDangling
  <2>2. CASE i \in 1 .. d
    BY <2>2, <1>2, <1>3 DEF LiveInv, SnapshotsKept, Kept, FirstOf, d
  <2>3. i = d + 1 \/ i \in 1 .. d
    BY <1>1
  <2> QED BY <2>1, <2>2, <2>3
<1>10. NoDangling' /\ DeadIsUnused' /\ ListedOnce'
  BY <1>1, <1>5 DEF LiveInv, NoDangling, DeadIsUnused, ListedOnce
<1>11. NamesOfScope'
  <2> SUFFICES ASSUME NEW i \in 1 .. d + 1, NEW a \in Name
               PROVE \/ named[a] = snapshots'[i][a] \/ named[a] \in AddedSince(i)' \/ named[a] = NULL
    BY <1>1, <1>2 DEF NamesOfScope
  <2>1. CASE i = d + 1
    BY <2>1, <1>3
  <2>2. CASE i \in 1 .. d
    <3>1. AddedSince(i)' = AddedSince(i)
      BY <2>2, <1>1, <1>2 DEF AddedSince
    <3> QED BY <2>2, <3>1, <1>3 DEF LiveInv, NamesOfScope, d
  <2> QED BY <2>1, <2>2, <1>1
<1> QED BY <1>7, <1>8, <1>9, <1>10, <1>11 DEF LiveInv

LEMMA ResetStep == ResetAll => LiveInv'
<1> SUFFICES ASSUME ResetAll PROVE LiveInv'
  OBVIOUS
<1>1. TypeOK'
  BY DEF ResetAll, TypeOK, Unnamed, NoMembers, Naming
<1>2. NoDangling' /\ DeadIsUnused' /\ ListedOnce' /\ NamesOfScope' /\ SizesNested' /\ SnapshotsKept'
  BY DEF ResetAll, Unnamed, NoMembers, NoDangling, DeadIsUnused, ListedOnce, NamesOfScope,
         SizesNested, SnapshotsKept
<1> QED BY <1>1, <1>2 DEF LiveInv

LEMMA InitLive == Init => LiveInv
<1> SUFFICES ASSUME Init PROVE LiveInv
  OBVIOUS
<1>1. TypeOK
  BY DEF Init, TypeOK, Unnamed, NoMembers, Naming
<1>2. NoDangling /\ DeadIsUnused /\ ListedOnce /\ NamesOfScope /\ SizesNested /\ SnapshotsKept
  BY DEF Init, Unnamed, NoMembers, NoDangling, DeadIsUnused, ListedOnce, NamesOfScope,
         SizesNested, SnapshotsKept
<1> QED BY <1>1, <1>2 DEF LiveInv

LEMMA NextLive == LiveInv /\ [Next]_objectiveVars => LiveInv'
<1> SUFFICES ASSUME LiveInv, [Next]_objectiveVars PROVE LiveInv'
  OBVIOUS
<1>1. CASE Adding \/ \E a \in Name, o \in Objective : DefineObjective(a, o)
  <2>1. PICK o \in Objective : \/ AddSingleObjective(o)
                               \/ \E a \in Name : DefineObjective(a, o)
                               \/ \E names \in SUBSET Name : AddMultiObjective(names, o)
    BY <1>1 DEF Adding
  <2> QED BY <2>1, AddingIsAddStep, AddStep
<1>2. CASE PushLevel
  BY <1>2, PushStep
<1>3. CASE PopLevel
  BY <1>3, PopStep
<1>4. CASE ResetAll
  BY <1>4, ResetStep
<1>5. CASE UNCHANGED objectiveVars
  <2> USE <1>5 DEF objectiveVars
  <2>1. TypeOK' /\ SizesNested' /\ SnapshotsKept'
    BY DEF LiveInv, TypeOK, SizesNested, SnapshotsKept, Kept
  <2>2. NoDangling' /\ DeadIsUnused' /\ ListedOnce' /\ NamesOfScope'
    BY DEF LiveInv, NoDangling, DeadIsUnused, ListedOnce, NamesOfScope, Listed, AddedSince
  <2> QED BY <2>1, <2>2 DEF LiveInv
<1> QED BY <1>1, <1>2, <1>3, <1>4, <1>5 DEF Next

(* Type correctness of every session. *)
THEOREM TypeCorrect == Spec => []TypeOK
<1>1. LiveInv => TypeOK
  BY DEF LiveInv
<1> QED BY <1>1, InitLive, NextLive, PTL DEF Spec

(* In every session, whatever is added, defined again, popped or reset: no  *)
(* name and no multi-objective refers to an objective that left the list,   *)
(* none is listed twice, and names change their meaning in a scope only to  *)
(* objectives of that scope.                                                *)
THEOREM NothingDangles == Spec => [](NoDangling /\ ListedOnce /\ NamesOfScope)
<1>1. LiveInv => NoDangling /\ ListedOnce /\ NamesOfScope
  BY DEF LiveInv
<1> QED BY <1>1, InitLive, NextLive, PTL DEF Spec

(* A pop never gives a name a meaning that it did not have at the push. *)
THEOREM PopsNeverMisname == Spec => PopNeverMisnames
<1>1. LiveInv /\ [Next]_objectiveVars =>
        [PopLevel => \A a \in Name :
            named'[a] \in {NULL, snapshots[Len(snapshots)][a]}]_objectiveVars
  <2> SUFFICES ASSUME LiveInv, PopLevel, NEW a \in Name
               PROVE named'[a] \in {NULL, snapshots[Len(snapshots)][a]}
    OBVIOUS
  <2>1. /\ named'[a] = IF named[a] \in AddedSince(Len(frames)) THEN NULL ELSE named[a]
        /\ Len(frames) \in 1 .. Len(frames) /\ Len(snapshots) = Len(frames)
    BY PopFacts DEF LiveInv, TypeOK
  <2> QED BY <2>1 DEF LiveInv, NamesOfScope
<1> QED BY <1>1, InitLive, NextLive, PTL DEF Spec, PopNeverMisnames

-----------------------------------------------------------------------------
(* The sessions that give no outer name away. *)

(* In a session that gives no outer name away, the outer names stand.       *)
OuterNamesStand ==
    \A i \in 1 .. Len(frames) : \A a \in Name :
        snapshots[i][a] # NULL => named[a] = snapshots[i][a]

LEMMA NextOuterNames ==
    LiveInv /\ OuterNamesStand /\ [ScopedNext]_objectiveVars => OuterNamesStand'
<1> SUFFICES ASSUME LiveInv, OuterNamesStand, [ScopedNext]_objectiveVars PROVE OuterNamesStand'
  OBVIOUS
<1> DEFINE d == Len(frames)
<1>0. d \in Nat /\ Len(snapshots) = d /\ frames \in Seq(Nat) /\ snapshots \in Seq(Naming)
  BY DEF LiveInv, TypeOK
<1>1. ASSUME NEW i \in 1 .. d, NEW a \in Name, snapshots[i][a] # NULL, 0 < d
      PROVE /\ named[a] = snapshots[i][a]
            /\ named[a] \notin AddedSince(d)
            /\ snapshots[d][a] = named[a]
  <2>1. named[a] = snapshots[i][a]
    BY <1>1 DEF OuterNamesStand
  <2>2. PICK j \in 1 .. frames[i] : named[a] = objectives[j]
    BY <1>1, <2>1 DEF LiveInv, SnapshotsKept, Kept
  <2>3. /\ frames[i] \in Nat /\ frames[d] \in Nat /\ Len(objectives) \in Nat
        /\ frames[i] <= frames[d] /\ frames[d] <= Len(objectives)
        /\ DOMAIN objectives = 1 .. Len(objectives)
    BY <1>0 DEF LiveInv, SizesNested, TypeOK
  <2>4. \A k \in frames[d] + 1 .. Len(objectives) : objectives[k] # objectives[j]
    <3>1. \A k \in frames[d] + 1 .. Len(objectives) :
              j \in DOMAIN objectives /\ k \in DOMAIN objectives /\ j # k
      BY <2>3
    <3> QED BY <3>1 DEF LiveInv, ListedOnce
  <2>5. named[a] \notin AddedSince(d)
    BY <2>2, <2>4 DEF AddedSince
  <2>6. snapshots[d][a] = named[a]
    <3>1. d \in 1 .. Len(frames)
      BY <1>0, <1>1
    <3> QED BY <1>1, <2>1, <2>5, <3>1 DEF LiveInv, NamesOfScope
  <2> QED BY <2>1, <2>5, <2>6
<1>2. CASE Adding
  BY <1>2 DEF Adding, AddSingleObjective, AddMultiObjective, OuterNamesStand
<1>3. CASE \E a \in Name, o \in Objective :
              (frames # << >> => snapshots[Len(snapshots)][a] = NULL) /\ DefineObjective(a, o)
  <2>1. PICK a \in Name, o \in Objective :
              (frames # << >> => snapshots[Len(snapshots)][a] = NULL) /\ DefineObjective(a, o)
    BY <1>3
  <2>2. /\ frames' = frames /\ snapshots' = snapshots /\ named \in Naming
        /\ \A b \in Name : b # a => named'[b] = named[b]
    BY <2>1 DEF DefineObjective, Naming, LiveInv, TypeOK
  <2>3. ASSUME NEW i \in 1 .. d, NEW b \in Name, snapshots[i][b] # NULL
        PROVE named'[b] = snapshots[i][b]
    <3>1. 0 < d /\ frames # << >>
      BY <1>0
    <3>2. b # a
      BY <1>0, <1>1, <2>1, <2>3, <3>1
    <3> QED BY <1>1, <2>2, <2>3, <3>1, <3>2
  <2> QED BY <2>2, <2>3 DEF OuterNamesStand
<1>4. CASE PushLevel
  <2>1. /\ frames' = Append(frames, Len(objectives)) /\ snapshots' = Append(snapshots, named)
        /\ named' = named
    BY <1>4 DEF PushLevel
  <2>2. /\ Len(frames') = d + 1
        /\ snapshots'[d + 1] = named
        /\ \A i \in 1 .. d : snapshots'[i] = snapshots[i]
    BY <1>0, <2>1
  <2>3. ASSUME NEW i \in 1 .. d + 1, NEW a \in Name, snapshots'[i][a] # NULL
        PROVE named[a] = snapshots'[i][a]
    <3>1. CASE i = d + 1
      BY <2>2, <3>1
    <3>2. CASE i \in 1 .. d
      BY <2>2, <2>3, <3>2 DEF OuterNamesStand
    <3>3. i = d + 1 \/ i \in 1 .. d
      BY <1>0
    <3> QED BY <3>1, <3>2, <3>3
  <2> QED BY <2>1, <2>2, <2>3 DEF OuterNamesStand
<1>5. CASE PopLevel
  <2>1. /\ 0 < d /\ Len(frames') = d - 1
        /\ \A i \in 1 .. d - 1 : snapshots'[i] = snapshots[i]
        /\ \A a \in Name : named'[a] = IF named[a] \in AddedSince(d) THEN NULL ELSE named[a]
    BY <1>5, PopFacts
  <2>2. ASSUME NEW i \in 1 .. d - 1, NEW a \in Name, snapshots[i][a] # NULL
        PROVE named'[a] = snapshots[i][a]
    <3>1. i \in 1 .. d
      BY <1>0
    <3> QED BY <1>1, <2>1, <2>2, <3>1
  <2> QED BY <2>1, <2>2 DEF OuterNamesStand
<1>6. CASE ResetAll
  BY <1>6 DEF ResetAll, OuterNamesStand
<1>7. CASE UNCHANGED objectiveVars
  BY <1>7 DEF objectiveVars, OuterNamesStand
<1> QED BY <1>2, <1>3, <1>4, <1>5, <1>6, <1>7 DEF ScopedNext

LEMMA ScopedIsNext == [ScopedNext]_objectiveVars => [Next]_objectiveVars
  BY DEF ScopedNext, Next

(* In those sessions every outer name stands as long as its scope is open. *)
THEOREM OuterNamesKept == ScopedSpec => [](LiveInv /\ OuterNamesStand)
<1>1. Init => OuterNamesStand
  BY DEF Init, OuterNamesStand
<1> QED BY <1>1, InitLive, NextLive, NextOuterNames, ScopedIsNext, PTL DEF ScopedSpec

(* What scope i promises to give back depends only on the objectives listed *)
(* when it was opened.                                                      *)
LEMMA SameProblem ==
    ASSUME NEW k, NEW x,
           \A j \in 1 .. k : objectives'[j] = objectives[j],
           \A o \in Kept(k) : members'[o] = members[o]
    PROVE  Problem(k, x)' = Problem(k, x)
<1>1. FirstOf(objectives', k) = FirstOf(objectives, k)
  BY SameFirst
<1>2. Kept(k)' = Kept(k)
  BY <1>1 DEF Kept, FirstOf
<1>3. [i \in 1 .. k |-> objectives'[i]] = [i \in 1 .. k |-> objectives[i]]
  OBVIOUS
<1>4. [o \in Objective |-> IF o \in Kept(k) THEN members'[o] ELSE {}]
        = [o \in Objective |-> IF o \in Kept(k) THEN members[o] ELSE {}]
  OBVIOUS
<1>5. Problem(k, x)' = [objectives |-> [i \in 1 .. k |-> objectives'[i]], named |-> x,
                        members |-> [o \in Objective |-> IF o \in Kept(k)' THEN members'[o] ELSE {}]]
  BY DEF Problem
<1> QED BY <1>2, <1>3, <1>4, <1>5 DEF Problem

Saved == [i \in 1 .. Len(frames) |-> Problem(frames[i], snapshots[i])]
Current == [objectives |-> objectives, named |-> named, members |-> members]

LEMMA AddRefines ==
    ASSUME LiveInv, NEW o \in Objective,
           \/ AddSingleObjective(o)
           \/ \E a \in Name : DefineObjective(a, o)
           \/ \E names \in SUBSET Name : AddMultiObjective(names, o)
    PROVE  Saved' = Saved
<1>1. /\ Fresh(o) /\ objectives' = Append(objectives, o)
      /\ frames' = frames /\ snapshots' = snapshots
      /\ \A p \in Objective : p # o => members'[p] = members[p]
  BY AddingIsAddStep
<1>2. /\ objectives \in Seq(Objective) /\ Len(objectives) \in Nat
      /\ \A j \in 1 .. Len(objectives) :
            objectives[j] \in Objective /\ objectives'[j] = objectives[j] /\ objectives[j] # o
  BY <1>1 DEF LiveInv, TypeOK, Fresh, Listed
<1>3. ASSUME NEW k \in Nat, NEW x, k <= Len(objectives)
      PROVE  Problem(k, x)' = Problem(k, x)
  <2>1. \A j \in 1 .. k : objectives'[j] = objectives[j]
    BY <1>2, <1>3
  <2>2. \A p \in Kept(k) : members'[p] = members[p]
    BY <1>1, <1>2, <1>3 DEF Kept
  <2> QED BY <2>1, <2>2, SameProblem
<1>4. ASSUME NEW i \in 1 .. Len(frames)
      PROVE  Problem(frames[i], snapshots[i])' = Problem(frames[i], snapshots[i])
  <2>1. frames[i] \in Nat /\ frames[i] <= Len(objectives)
    BY DEF LiveInv, TypeOK, SizesNested
  <2> QED BY <1>3, <2>1, <1>1
<1> QED BY <1>1, <1>4 DEF Saved

LEMMA PushRefines == LiveInv /\ PushLevel => Store!Push
<1> SUFFICES ASSUME LiveInv, PushLevel PROVE Store!Push
  OBVIOUS
<1> DEFINE d == Len(frames)
           n == Len(objectives)
<1>1. /\ d \in Nat /\ n \in Nat /\ Len(snapshots) = d /\ objectives \in Seq(Objective)
      /\ frames \in Seq(Nat) /\ snapshots \in Seq(Naming)
      /\ members \in [Objective -> SUBSET (Objective \cup {NULL})]
      /\ frames' = Append(frames, n) /\ snapshots' = Append(snapshots, named)
      /\ objectives' = objectives /\ named' = named /\ members' = members
  BY DEF LiveInv, TypeOK, PushLevel
<1>2. /\ Len(frames') = d + 1 /\ frames'[d + 1] = n
      /\ \A i \in 1 .. d : frames'[i] = frames[i]
  <2> HIDE DEF n
  <2> QED BY <1>1
<1>3. /\ snapshots'[d + 1] = named
      /\ \A i \in 1 .. d : snapshots'[i] = snapshots[i]
  BY <1>1
<1>4. Problem(n, named) = Current
  <2>1. [i \in 1 .. n |-> objectives[i]] = objectives
    BY <1>1
  <2>2. [o \in Objective |-> IF o \in Kept(n) THEN members[o] ELSE {}] = members
    <3>1. Kept(n) = Listed
      BY <1>1 DEF Kept, Listed
    <3>2. \A o \in Objective : (IF o \in Kept(n) THEN members[o] ELSE {}) = members[o]
      BY <3>1 DEF LiveInv, DeadIsUnused
    <3> QED BY <3>2, <1>1
  <2> QED BY <2>1, <2>2 DEF Problem, Current
<1> HIDE DEF n, d
<1>5. Saved' = [i \in 1 .. d + 1 |-> IF i <= d THEN Problem(frames[i], snapshots[i]) ELSE Current]
  <2>1. \A k, x : Problem(k, x)' = Problem(k, x)
    BY <1>1 DEF Problem, Kept
  <2>2. Saved' = [i \in 1 .. d + 1 |-> Problem(frames'[i], snapshots'[i])]
    BY <1>1, <1>2, <2>1 DEF Saved, Problem, Kept
  <2>3. \A i \in 1 .. d + 1 : Problem(frames'[i], snapshots'[i])
            = IF i <= d THEN Problem(frames[i], snapshots[i]) ELSE Current
    <3> SUFFICES ASSUME NEW i \in 1 .. d + 1
                 PROVE Problem(frames'[i], snapshots'[i])
                         = IF i <= d THEN Problem(frames[i], snapshots[i]) ELSE Current
      OBVIOUS
    <3>1. CASE i <= d
      BY <1>1, <1>2, <1>3, <3>1
    <3>2. CASE ~(i <= d)
      <4>1. i = d + 1
        BY <1>1, <3>2
      <4> QED BY <1>2, <1>3, <1>4, <3>2, <4>1
    <3> QED BY <3>1, <3>2
  <2> QED BY <2>2, <2>3
<1>6. Append(Saved, Current)
        = [i \in 1 .. d + 1 |-> IF i <= d THEN Problem(frames[i], snapshots[i]) ELSE Current]
  <2> DEFINE at(i) == Problem(frames[i], snapshots[i])
             s == [i \in 1 .. d |-> at(i)]
  <2>1. Saved = s
    BY DEF Saved, d
  <2> HIDE DEF at
  <2>2. s \in Seq({at(i) : i \in 1 .. d}) /\ Len(s) = d
    <3> DEFINE T == {at(i) : i \in 1 .. d}
    <3>1. \A i \in 1 .. d : at(i) \in T
      OBVIOUS
    <3> HIDE DEF T
    <3>2. s \in Seq(T) /\ Len(s) = d
      BY <1>1, <3>1
    <3> QED BY <3>2 DEF T
  <2>3. Append(s, Current) = [i \in 1 .. d + 1 |-> IF i <= d THEN at(i) ELSE Current]
    BY <1>1, <2>2
  <2> QED BY <2>1, <2>3 DEF at
<1>7. UNCHANGED Current
  BY <1>1 DEF Current
<1> QED BY <1>5, <1>6, <1>7 DEF Store!Push, Saved, Current

LEMMA PopRefines == LiveInv /\ OuterNamesStand /\ PopLevel => Store!Pop
<1> SUFFICES ASSUME LiveInv, OuterNamesStand, PopLevel PROVE Store!Pop
  OBVIOUS
<1> DEFINE d == Len(frames)
           m == frames[d]
           cut == AddedSince(d)
           n == Len(objectives)
<1>1. /\ d \in Nat /\ 0 < d /\ m \in Nat /\ m <= n
      /\ objectives' \in Seq(Objective) /\ Len(objectives') = m
      /\ \A j \in 1 .. m : objectives'[j] = objectives[j]
  BY PopFacts
<1>2. /\ named' \in Naming /\ \A a \in Name : named'[a] = IF named[a] \in cut THEN NULL ELSE named[a]
      /\ members' \in [Objective -> SUBSET (Objective \cup {NULL})]
      /\ \A o \in Objective : members'[o] = IF o \in cut THEN {} ELSE members[o]
  BY PopFacts
<1>3. /\ Len(frames') = d - 1
      /\ \A i \in 1 .. d - 1 : /\ frames'[i] = frames[i] /\ snapshots'[i] = snapshots[i]
                               /\ frames[i] \in Nat /\ frames[i] <= m
  BY PopFacts
<1>4. /\ n \in Nat /\ objectives \in Seq(Objective) /\ cut = {objectives[j] : j \in m + 1 .. n}
      /\ DOMAIN objectives = 1 .. n
      /\ snapshots \in Seq(Naming) /\ Len(snapshots) = d
  BY DEF LiveInv, TypeOK, AddedSince
<1> HIDE DEF d, m, n, cut
<1>5. \A j \in 1 .. m : objectives[j] \notin cut
  BY <1>1, <1>4 DEF LiveInv, ListedOnce
<1>6. \A o \in Kept(m) : o \in Objective /\ o \notin cut /\ members'[o] = members[o]
  <2>1. \A j \in 1 .. m : objectives[j] \in Objective
    BY <1>1, <1>4, <1>5 DEF n
  <2> QED BY <2>1, <1>2, <1>5 DEF Kept
<1>7. Problem(m, snapshots[d]) = Current'
  <2>1. [i \in 1 .. m |-> objectives[i]] = objectives'
    BY <1>1
  <2>2. snapshots[d] = named'
    <3>1. snapshots[d] \in Naming /\ d \in 1 .. Len(frames)
      BY <1>1, <1>4 DEF d
    <3>2. ASSUME NEW a \in Name PROVE snapshots[d][a] = named'[a]
      <4>1. CASE snapshots[d][a] = NULL
        <5>1. named[a] = NULL \/ named[a] \in cut
          BY <3>1, <4>1 DEF LiveInv, NamesOfScope, cut
        <5> QED BY <5>1, <4>1, <1>2
      <4>2. CASE snapshots[d][a] # NULL
        <5>1. named[a] = snapshots[d][a]
          BY <3>1, <4>2 DEF OuterNamesStand
        <5>2. snapshots[d][a] \in Kept(m)
          BY <3>1, <4>2 DEF LiveInv, SnapshotsKept, m
        <5> QED BY <5>1, <5>2, <1>2, <1>6
      <4> QED BY <4>1, <4>2
    <3> QED BY <3>1, <3>2, <1>2 DEF Naming
  <2>3. [o \in Objective |-> IF o \in Kept(m) THEN members[o] ELSE {}] = members'
    <3>1. ASSUME NEW o \in Objective
          PROVE (IF o \in Kept(m) THEN members[o] ELSE {}) = members'[o]
      <4>1. CASE o \in Kept(m)
        BY <4>1, <1>6
      <4>2. CASE o \notin Kept(m) /\ o \in cut
        BY <4>2, <1>2
      <4>3. CASE o \notin Kept(m) /\ o \notin cut
        <5>1. o \notin Listed
          BY <4>3, <1>1, <1>4 DEF Listed, Kept
        <5> QED BY <5>1, <4>3, <1>2 DEF LiveInv, DeadIsUnused
      <4> QED BY <4>1, <4>2, <4>3
    <3> QED BY <3>1, <1>2
  <2> QED BY <2>1, <2>2, <2>3 DEF Problem, Current
<1>8. ASSUME NEW k \in Nat, NEW x, k <= m PROVE Problem(k, x)' = Problem(k, x)
  <2>1. \A j \in 1 .. k : objectives'[j] = objectives[j]
    BY <1>1, <1>8
  <2>2. \A o \in Kept(k) : members'[o] = members[o]
    <3>1. Kept(k) \subseteq Kept(m)
      BY <1>1, <1>8 DEF Kept
    <3> QED BY <3>1, <1>6
  <2> QED BY <2>1, <2>2, SameProblem
<1>9. Saved' = [i \in 1 .. d - 1 |-> Problem(frames[i], snapshots[i])]
  <2>1. ASSUME NEW i \in 1 .. d - 1
        PROVE  Problem(frames[i], snapshots[i])' = Problem(frames[i], snapshots[i])
    BY <1>3, <1>8
  <2> QED BY <1>3, <2>1 DEF Saved
<1>10. Saved # << >> /\ Len(Saved) = d /\ \A i \in 1 .. d : Saved[i] = Problem(frames[i], snapshots[i])
  BY <1>1 DEF Saved, d
<1>11. Saved' = [i \in 1 .. Len(Saved) - 1 |-> Saved[i]]
  BY <1>1, <1>9, <1>10
<1>12. Current' = Saved[Len(Saved)]
  BY <1>1, <1>7, <1>10 DEF m
<1> QED BY <1>10, <1>11, <1>12 DEF Store!Pop, Saved, Current

LEMMA StepRefines ==
    LiveInv /\ OuterNamesStand /\ [ScopedNext]_objectiveVars => [Store!Next]_(Store!storeVars)
<1> SUFFICES ASSUME LiveInv, OuterNamesStand, [ScopedNext]_objectiveVars
             PROVE  Store!Next \/ UNCHANGED Store!storeVars
  OBVIOUS
<1>1. CASE Adding \/ \E a \in Name, o \in Objective : DefineObjective(a, o)
  <2>1. PICK o \in Objective : \/ AddSingleObjective(o)
                               \/ \E a \in Name : DefineObjective(a, o)
                               \/ \E names \in SUBSET Name : AddMultiObjective(names, o)
    BY <1>1 DEF Adding
  <2>2. UNCHANGED Saved
    BY <2>1, AddRefines
  <2> QED BY <2>2 DEF Store!Next, Store!Update, Saved
<1>2. CASE PushLevel
  BY <1>2, PushRefines DEF Store!Next
<1>3. CASE PopLevel
  BY <1>3, PopRefines DEF Store!Next
<1>4. CASE ResetAll
  BY <1>4 DEF ResetAll, Store!Next, Store!Clear
<1>5. CASE UNCHANGED objectiveVars
  BY <1>5 DEF objectiveVars, Store!storeVars, Problem, Kept
<1> QED BY <1>1, <1>2, <1>3, <1>4, <1>5 DEF ScopedNext

(* Recorded sizes do as well as snapshots in those sessions: a pop brings   *)
(* back the list, the names and the members of the matching push.           *)
THEOREM PopRestoresObjectives == ScopedSpec => ImplementsStore
<1>1. Init => Store!Init
  BY DEF Init, Store!Init
<1>2. LiveInv /\ OuterNamesStand /\ [ScopedNext]_objectiveVars => [Store!Next]_(Store!storeVars)
  BY StepRefines
<1> QED BY <1>1, <1>2, OuterNamesKept, PTL DEF ScopedSpec, ImplementsStore, Store!Spec
-----------------------------------------------------------------------------
(* The sessions of MCObjectives, for any objectives, names and scopes *)

mcVars == <<objectiveVars, disciplined>>

MCInv == LiveInv /\ (disciplined => OuterNamesStand)

(* The kind of a session never changes, and a disciplined one takes the      *)
(* steps of ScopedNext.                                                      *)
LEMMA MCStep ==
    [MCNext]_mcVars => /\ [Next]_objectiveVars
                       /\ disciplined' = disciplined
                       /\ disciplined => [ScopedNext]_objectiveVars
BY DEF MCNext, mcVars, ScopedNext, Next

LEMMA MCInvariant == MCSpec => []MCInv
<1>1. MCInit => MCInv
  BY InitLive DEF MCInit, MCInv, Init, OuterNamesStand
<1>2. MCInv /\ [MCNext]_mcVars => MCInv'
  BY MCStep, NextLive, NextOuterNames DEF MCInv
<1> QED BY <1>1, <1>2, PTL DEF MCSpec, mcVars

LEMMA MCStepRefines ==
    MCInv /\ [MCNext]_mcVars => [DisciplinedStore!Next]_(DisciplinedStore!storeVars)
<1> SUFFICES ASSUME MCInv, [MCNext]_mcVars
             PROVE  [DisciplinedStore!Next]_(DisciplinedStore!storeVars)
  OBVIOUS
<1>1. CASE disciplined
  <2>1. disciplined' = disciplined /\ LiveInv /\ OuterNamesStand /\ [ScopedNext]_objectiveVars
    BY <1>1, MCStep DEF MCInv
  <2>2. [Store!Next]_(Store!storeVars)
    BY <2>1, StepRefines
  <2> DEFINE C == [objectives |-> IF disciplined THEN objectives ELSE << >>,
                   named |-> IF disciplined THEN named ELSE Unnamed,
                   members |-> IF disciplined THEN members ELSE NoMembers]
             S == [i \in 1 .. (IF disciplined THEN Len(frames) ELSE 0) |->
                     Problem(frames[i], snapshots[i])]
  <2>3. C = Current /\ C' = Current' /\ S = Saved /\ S' = Saved'
    BY <1>1, <2>1 DEF Current, Saved
  <2>4. CASE Store!Next
    <3>1. CASE UNCHANGED Saved
      <4>1. UNCHANGED S
        BY <2>3, <3>1
      <4> QED BY <4>1 DEF DisciplinedStore!Next, DisciplinedStore!Update
    <3>2. CASE Store!Push
      <4>1. Saved' = Append(Saved, Current) /\ UNCHANGED Current
        BY <3>2 DEF Store!Push, Saved, Current
      <4>2. S' = Append(S, C) /\ UNCHANGED C
        BY <2>3, <4>1
      <4> QED BY <4>2 DEF DisciplinedStore!Next, DisciplinedStore!Push
    <3>3. CASE Store!Pop
      <4>1. /\ Saved # << >> /\ Current' = Saved[Len(Saved)]
            /\ Saved' = [i \in 1 .. Len(Saved) - 1 |-> Saved[i]]
        BY <3>3 DEF Store!Pop, Saved, Current
      <4>2. S # << >> /\ C' = S[Len(S)] /\ S' = [i \in 1 .. Len(S) - 1 |-> S[i]]
        BY <2>3, <4>1
      <4> QED BY <4>2 DEF DisciplinedStore!Next, DisciplinedStore!Pop
    <3>4. CASE Store!Unwind
      <4>1. \E n \in 1 .. Len(Saved) : /\ Current' = Saved[n]
                                       /\ Saved' = [i \in 1 .. n - 1 |-> Saved[i]]
        BY <3>4 DEF Store!Unwind, Saved, Current
      <4>2. \E n \in 1 .. Len(S) : C' = S[n] /\ S' = [i \in 1 .. n - 1 |-> S[i]]
        <5> HIDE DEF C, S
        <5> QED BY <2>3, <4>1
      <4> QED BY <4>2 DEF DisciplinedStore!Next, DisciplinedStore!Unwind
    <3>5. CASE Store!Clear
      <4>1. /\ Current' = [objectives |-> << >>, named |-> Unnamed, members |-> NoMembers]
            /\ Saved' = << >>
        BY <3>5 DEF Store!Clear, Saved, Current
      <4>2. /\ C' = [objectives |-> << >>, named |-> Unnamed, members |-> NoMembers]
            /\ S' = << >>
        BY <2>3, <4>1
      <4> QED BY <4>2 DEF DisciplinedStore!Next, DisciplinedStore!Clear
    <3> QED BY <2>4, <3>1, <3>2, <3>3, <3>4, <3>5 DEF Store!Next, Store!Update, Saved
  <2>5. CASE UNCHANGED Store!storeVars
    <3>1. UNCHANGED <<Current, Saved>>
      BY <2>5 DEF Store!storeVars, Current, Saved
    <3>2. UNCHANGED <<C, S>>
      BY <2>3, <3>1
    <3> QED BY <3>2 DEF DisciplinedStore!storeVars
  <2> QED BY <2>2, <2>4, <2>5
<1>2. CASE ~disciplined
  <2>1. ~disciplined'
    BY <1>2, MCStep
  <2> QED BY <1>2, <2>1 DEF DisciplinedStore!storeVars
<1> QED BY <1>1, <1>2

(* What a scope records of the optimisation problem does as well as a       *)
(* snapshot of it, in the sessions of MCObjectives that are disciplined.    *)
THEOREM DisciplinedPopRestores == MCSpec => DisciplinedImplementsStore
<1>1. MCInit => DisciplinedStore!Init
  <2> SUFFICES ASSUME MCInit PROVE DisciplinedStore!Init
    OBVIOUS
  <2>1. objectives = << >> /\ named = Unnamed /\ members = NoMembers /\ frames = << >>
    BY DEF MCInit, Init
  <2>2. [i \in 1 .. (IF disciplined THEN Len(frames) ELSE 0) |-> Problem(frames[i], snapshots[i])]
          = << >>
    BY <2>1
  <2> QED BY <2>1, <2>2 DEF DisciplinedStore!Init
<1> QED BY <1>1, MCInvariant, MCStepRefines, PTL
       DEF MCSpec, mcVars, DisciplinedImplementsStore, DisciplinedStore!Spec
=============================================================================
