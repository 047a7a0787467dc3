----------------------------- MODULE PassesProofs -----------------------------
(***************************************************************************)
(* Proofs about the nodes of a manager and the passes over them.  Nothing   *)
(* is assumed of names, kinds, shapes and the order of calls.               *)
(***************************************************************************)
EXTENDS Passes, DataProofs, SequenceTheorems
-----------------------------------------------------------------------------
(* What is reached, and what is compared, are least closed sets.            *)

(* Heaps whose nodes refer to nodes of the heap. *)
Closed(h) == IsFiniteSet(DOMAIN h) /\ \A i \in DOMAIN h : h[i].kids \in Seq(DOMAIN h)

ClosedUnder(h, C) == C \subseteq DOMAIN h /\ \A i \in C : Range(h[i].kids) \subseteq C

Least(h, is, R) ==
    /\ is \subseteq R /\ ClosedUnder(h, R)
    /\ \A C : ClosedUnder(h, C) /\ is \subseteq C => R \subseteq C

(* Children of a node of the heap are in it. *)
LEMMA KidsOf ==
    ASSUME NEW h, Closed(h), NEW i \in DOMAIN h
    PROVE  /\ Kids(h, i) = Range(h[i].kids) /\ Range(h[i].kids) \subseteq DOMAIN h
           /\ DOMAIN h[i].kids = 1 .. Len(h[i].kids) /\ Len(h[i].kids) \in Nat
           /\ \A k \in DOMAIN h[i].kids : h[i].kids[k] \in DOMAIN h
<1>1. h[i].kids \in Seq(DOMAIN h)
  BY DEF Closed
<1>2. /\ DOMAIN h[i].kids = 1 .. Len(h[i].kids) /\ Len(h[i].kids) \in Nat
      /\ \A k \in DOMAIN h[i].kids : h[i].kids[k] \in DOMAIN h
  BY <1>1, SMT
<1> QED BY <1>2 DEF Kids, Range

(* The nodes reached from some are the least closed set that holds them. *)
LEMMA ReachLeast ==
    ASSUME NEW h, Closed(h), NEW is \in SUBSET DOMAIN h
    PROVE  Least(h, is, Reach(h, is))
<1> DEFINE U == DOMAIN h
           n == Cardinality(U)
           wide(X) == UNION { {i} \cup Kids(h, i) : i \in X }
           g == [X \in SUBSET U |-> wide(X)]
           P(f) == f = [k \in 0 .. n |-> IF k = 0 THEN is ELSE wide(f[k - 1])]
<1>1. IsFiniteSet(U) /\ n \in Nat
  BY FS_CardinalityType DEF Closed
<1>2. \A i \in U : Kids(h, i) \subseteq U
  BY KidsOf
<1>3. \A X \in SUBSET U : wide(X) \in SUBSET U /\ X \subseteq wide(X)
  BY <1>2
<1>4. g \in [SUBSET U -> SUBSET U] /\ \A X \in SUBSET U : g[X] = wide(X)
  BY <1>3
<1>5. \A X \in SUBSET U : X \subseteq g[X]
  BY <1>3, <1>4
<1>6. PICK f : Rounds(f, n, is, g, U)
  <2> HIDE DEF g, n, U
  <2>1. is \in SUBSET U
    BY DEF U
  <2> QED BY <1>1, <1>4, <2>1, RoundsExist
<1>7. P(f)
  <2> HIDE DEF g, n, wide
  <2>1. /\ f = [k \in 0 .. n |-> f[k]] /\ f[0] = is
        /\ \A k \in 1 .. n : f[k] = g[f[k - 1]]
        /\ \A k \in 0 .. n : f[k] \subseteq U
    BY <1>6 DEF Rounds
  <2>2. ASSUME NEW k \in 0 .. n PROVE f[k] = IF k = 0 THEN is ELSE wide(f[k - 1])
    <3>1. CASE k = 0
      BY <2>1, <3>1
    <3>2. CASE k # 0
      <4>1. k \in 1 .. n /\ k - 1 \in 0 .. n
        BY <1>1, <3>2
      <4>2. f[k - 1] \in SUBSET U
        BY <2>1, <4>1
      <4> QED BY <2>1, <4>1, <4>2, <1>4, <3>2
    <3> QED BY <3>1, <3>2
  <2>3. f = [k \in 0 .. n |-> IF k = 0 THEN is ELSE wide(f[k - 1])]
    <3> DEFINE e == [k \in 0 .. n |-> f[k]]
               d == [k \in 0 .. n |-> IF k = 0 THEN is ELSE wide(f[k - 1])]
    <3>1. e = d
      BY <2>2
    <3>2. f = e
      BY <2>1
    <3> QED BY <3>1, <3>2
  <2> QED BY <2>3
<1> DEFINE r == CHOOSE f1 : P(f1)
<1>8. P(r)
  <2> HIDE DEF P
  <2> QED BY <1>7
<1>9. Rounds(r, n, is, g, U)
  <2> DEFINE e == [k \in 0 .. n |-> IF k = 0 THEN is ELSE wide(r[k - 1])]
  <2> HIDE DEF g, n, wide, r
  <2>1. r = e
    BY <1>8
  <2>2. /\ e = [k \in 0 .. n |-> e[k]] /\ 0 \in 0 .. n
        /\ \A k \in 0 .. n : e[k] = IF k = 0 THEN is ELSE wide(r[k - 1])
        /\ \A k \in 1 .. n : k \in 0 .. n /\ k # 0
    BY <1>1
  <2> HIDE DEF e
  <2>3. r = [k \in 0 .. n |-> r[k]] /\ r[0] = is
    BY <2>1, <2>2
  <2>4. \A k \in 1 .. n : r[k - 1] \in SUBSET U => r[k] = g[r[k - 1]]
    BY <2>1, <2>2, <1>4
  <2> HIDE DEF U
  <2>5. is \in SUBSET U
    BY DEF U
  <2> QED BY <1>1, <1>4, <2>3, <2>4, <2>5, RoundsAre
<1>10. Reach(h, is) = r[n]
  BY DEF Reach
<1>11. is \subseteq r[n] /\ r[n] \in SUBSET U
  <2> HIDE DEF g, r, n, P, wide
  <2>1. \A Y \in SUBSET U : is \subseteq Y => is \subseteq g[Y]
    BY <1>5
  <2>2. is \subseteq r[n]
    <3> HIDE DEF U
    <3> QED BY <1>1, <1>9, <2>1, RoundsKeep
  <2>3. n \in 0 .. n
    BY <1>1
  <2> QED BY <1>9, <2>2, <2>3 DEF Rounds
<1>12. wide(r[n]) = r[n]
  <2> HIDE DEF g, r, P, wide
  <2>1. g[r[n]] = r[n]
    <3>1. Rounds(r, Cardinality(U), is, g, U)
      BY <1>9
    <3>2. Widens(g, U) /\ IsFiniteSet(U)
      BY <1>1, <1>4, <1>5 DEF Widens
    <3> HIDE DEF U, n
    <3>3. g[r[Cardinality(U)]] = r[Cardinality(U)]
      BY <3>1, <3>2, RoundsSettle
    <3> QED BY <3>3 DEF n
  <2> QED BY <1>4, <1>11, <2>1
<1>13. ClosedUnder(h, r[n])
  <2> HIDE DEF g, r, n, P
  <2>1. ASSUME NEW i \in r[n] PROVE Range(h[i].kids) \subseteq r[n]
    BY <1>11, <1>12, KidsOf
  <2> QED BY <1>11, <2>1 DEF ClosedUnder
<1>14. ASSUME NEW C, ClosedUnder(h, C), is \subseteq C PROVE r[n] \subseteq C
  <2> HIDE DEF g, r, n, P
  <2>1. C \in SUBSET U /\ \A i \in C : Kids(h, i) \subseteq C
    BY <1>14, KidsOf DEF ClosedUnder
  <2>2. \A Y \in SUBSET C : g[Y] \subseteq C
    BY <1>4, <2>1
  <2> HIDE DEF U, wide
  <2> QED BY <1>1, <1>9, <1>14, <2>1, <2>2, RoundsWithin
<1> HIDE DEF g, r, n, U, wide, P
<1> QED BY <1>10, <1>11, <1>13, <1>14 DEF Least

(* One heap has the nodes of a set as another has them. *)
Agree(h, g, U) == U \subseteq DOMAIN h \cap DOMAIN g /\ \A i \in U : g[i] = h[i]

(* What is reached within a closed set is reached alike in heaps that agree. *)
LEMMA ReachAgree ==
    ASSUME NEW h, Closed(h), NEW g, Closed(g), NEW U, ClosedUnder(h, U), Agree(h, g, U), NEW is \in SUBSET U
    PROVE  Reach(g, is) = Reach(h, is) /\ Reach(h, is) \subseteq U
<1>1. is \in SUBSET DOMAIN h /\ is \in SUBSET DOMAIN g
  BY DEF Agree
<1>2. Least(h, is, Reach(h, is)) /\ Least(g, is, Reach(g, is))
  BY <1>1, ReachLeast
<1>3. Reach(h, is) \subseteq U
  BY <1>2 DEF Least
<1>4. ClosedUnder(g, U)
  BY DEF ClosedUnder, Agree
<1>5. Reach(g, is) \subseteq U
  BY <1>2, <1>4 DEF Least
<1>6. ClosedUnder(g, Reach(h, is)) /\ ClosedUnder(h, Reach(g, is))
  BY <1>2, <1>3, <1>5 DEF Least, ClosedUnder, Agree
<1> QED BY <1>2, <1>3, <1>6 DEF Least

(* More is reached from more. *)
LEMMA ReachMonotone ==
    ASSUME NEW h, Closed(h), NEW js \in SUBSET DOMAIN h, NEW is \in SUBSET js
    PROVE  Reach(h, is) \subseteq Reach(h, js)
<1>1. Least(h, is, Reach(h, is)) /\ Least(h, js, Reach(h, js))
  BY ReachLeast
<1> QED BY <1>1 DEF Least

(* What is reached is a start or a child of what is reached. *)
LEMMA ReachFrom ==
    ASSUME NEW h, Closed(h), NEW is \in SUBSET DOMAIN h, NEW x \in Reach(h, is), x \notin is
    PROVE  \E i \in Reach(h, is) : x \in Range(h[i].kids)
<1> SUFFICES ASSUME \A i \in Reach(h, is) : x \notin Range(h[i].kids) PROVE FALSE
  OBVIOUS
<1>1. Least(h, is, Reach(h, is))
  BY ReachLeast
<1>2. ClosedUnder(h, Reach(h, is) \ {x})
  BY <1>1 DEF Least, ClosedUnder
<1> QED BY <1>1, <1>2 DEF Least
-----------------------------------------------------------------------------
(* Equivalence is the greatest relation between nodes that look alike and    *)
(* have related children.                                                   *)
Matching(h, R) ==
    /\ R \subseteq (DOMAIN h) \X (DOMAIN h)
    /\ \A p \in R :
          \/ p[1] = p[2]
          \/ /\ Alike(h[p[1]], h[p[2]])
             /\ \A k \in DOMAIN h[p[1]].kids : <<h[p[1]].kids[k], h[p[2]].kids[k]>> \in R

Matched(h, i, j) == \E R : Matching(h, R) /\ <<i, j>> \in R

(* Nodes that look alike have as many children. *)
LEMMA AlikeKids ==
    ASSUME NEW h, Closed(h), NEW i \in DOMAIN h, NEW j \in DOMAIN h, Alike(h[i], h[j])
    PROVE  DOMAIN h[i].kids = DOMAIN h[j].kids
BY KidsOf DEF Alike

(* Equivalent nodes match: the pairs compared are closed under the pairs of  *)
(* children, and all alike.                                                 *)
LEMMA ComparedMatching ==
    ASSUME NEW h, Closed(h), NEW i \in DOMAIN h, NEW j \in DOMAIN h
    PROVE  /\ Compared(h, i, j) \subseteq (DOMAIN h) \X (DOMAIN h)
           /\ <<i, j>> \in Compared(h, i, j)
           /\ \A p \in Compared(h, i, j) : KidPairs(h, p) \subseteq Compared(h, i, j)
           /\ \A C \in SUBSET ((DOMAIN h) \X (DOMAIN h)) :
                 <<i, j>> \in C /\ (\A p \in C : KidPairs(h, p) \subseteq C) => Compared(h, i, j) \subseteq C
<1> DEFINE A == Reach(h, {i})
           B == Reach(h, {j})
           U == A \X B
           n == Cardinality(A) * Cardinality(B)
           wide(X) == UNION { {p} \cup KidPairs(h, p) : p \in X }
           g == [X \in SUBSET U |-> wide(X)]
           P(f) == f = [k \in 0 .. n |-> IF k = 0 THEN {<<i, j>>} ELSE wide(f[k - 1])]
<1>1. /\ {i} \subseteq A /\ A \subseteq DOMAIN h /\ \A a \in A : Range(h[a].kids) \subseteq A
      /\ {j} \subseteq B /\ B \subseteq DOMAIN h /\ \A b \in B : Range(h[b].kids) \subseteq B
  <2>1. Least(h, {i}, A) /\ Least(h, {j}, B)
    BY ReachLeast
  <2> QED BY <2>1 DEF Least, ClosedUnder
<1>2. IsFiniteSet(A) /\ IsFiniteSet(B) /\ IsFiniteSet(U) /\ Cardinality(U) = n /\ n \in Nat
  <2>1. IsFiniteSet(A) /\ IsFiniteSet(B)
    BY <1>1, FS_Subset DEF Closed
  <2>2. IsFiniteSet(U) /\ Cardinality(U) = n
    <3> HIDE DEF A, B
    <3> QED BY <2>1, FS_Product
  <2> QED BY <2>1, <2>2, FS_CardinalityType
<1>3. ASSUME NEW p \in U PROVE KidPairs(h, p) \subseteq U
  <2> HIDE DEF A, B
  <2>1. p[1] \in A /\ p[2] \in B /\ p[1] \in DOMAIN h /\ p[2] \in DOMAIN h
    BY <1>1
  <2>2. CASE p[1] # p[2] /\ Alike(h[p[1]], h[p[2]])
    <3>1. DOMAIN h[p[1]].kids = DOMAIN h[p[2]].kids
      BY <2>1, <2>2, AlikeKids
    <3>2. ASSUME NEW k \in DOMAIN h[p[1]].kids PROVE h[p[1]].kids[k] \in A /\ h[p[2]].kids[k] \in B
      <4>1. h[p[1]].kids[k] \in Range(h[p[1]].kids) /\ h[p[2]].kids[k] \in Range(h[p[2]].kids)
        BY <3>1 DEF Range
      <4> QED BY <4>1, <2>1, <1>1
    <3> QED BY <2>2, <3>2 DEF KidPairs
  <2>3. CASE ~ (p[1] # p[2] /\ Alike(h[p[1]], h[p[2]]))
    BY <2>3 DEF KidPairs
  <2> QED BY <2>2, <2>3
<1>4. \A X \in SUBSET U : wide(X) \in SUBSET U /\ X \subseteq wide(X)
  <2> HIDE DEF U
  <2> QED BY <1>3
<1>5. g \in [SUBSET U -> SUBSET U] /\ \A X \in SUBSET U : g[X] = wide(X)
  <2> HIDE DEF U, wide
  <2> QED BY <1>4
<1>6. \A X \in SUBSET U : X \subseteq g[X]
  <2> HIDE DEF U, wide, g
  <2> QED BY <1>4, <1>5
<1>7. {<<i, j>>} \in SUBSET U
  BY <1>1
<1> HIDE DEF g, n, U, A, B
<1>8. PICK f : Rounds(f, n, {<<i, j>>}, g, U)
  BY <1>2, <1>5, <1>7, RoundsExist
<1>9. P(f)
  <2> HIDE DEF wide
  <2>1. /\ f = [k \in 0 .. n |-> f[k]] /\ f[0] = {<<i, j>>}
        /\ \A k \in 1 .. n : f[k] = g[f[k - 1]]
        /\ \A k \in 0 .. n : f[k] \subseteq U
    BY <1>8 DEF Rounds
  <2>2. ASSUME NEW k \in 0 .. n PROVE f[k] = IF k = 0 THEN {<<i, j>>} ELSE wide(f[k - 1])
    <3>1. CASE k = 0
      BY <2>1, <3>1
    <3>2. CASE k # 0
      <4>1. k \in 1 .. n /\ k - 1 \in 0 .. n
        BY <1>2, <3>2
      <4>2. f[k - 1] \in SUBSET U
        BY <2>1, <4>1
      <4> QED BY <2>1, <4>1, <4>2, <1>5, <3>2
    <3> QED BY <3>1, <3>2
  <2> DEFINE e == [k \in 0 .. n |-> f[k]]
             d == [k \in 0 .. n |-> IF k = 0 THEN {<<i, j>>} ELSE wide(f[k - 1])]
  <2>3. e = d
    BY <2>2
  <2>4. f = e
    BY <2>1
  <2> QED BY <2>3, <2>4
<1> DEFINE r == CHOOSE f1 : P(f1)
<1>10. P(r)
  <2> HIDE DEF P
  <2> QED BY <1>9
<1>11. Rounds(r, n, {<<i, j>>}, g, U)
  <2> DEFINE e == [k \in 0 .. n |-> IF k = 0 THEN {<<i, j>>} ELSE wide(r[k - 1])]
  <2> HIDE DEF wide, r
  <2>1. r = e
    BY <1>10
  <2>2. /\ e = [k \in 0 .. n |-> e[k]] /\ 0 \in 0 .. n
        /\ \A k \in 0 .. n : e[k] = IF k = 0 THEN {<<i, j>>} ELSE wide(r[k - 1])
        /\ \A k \in 1 .. n : k \in 0 .. n /\ k # 0
    BY <1>2
  <2> HIDE DEF e
  <2>3. r = [k \in 0 .. n |-> r[k]] /\ r[0] = {<<i, j>>}
    BY <2>1, <2>2
  <2>4. \A k \in 1 .. n : r[k - 1] \in SUBSET U => r[k] = g[r[k - 1]]
    BY <2>1, <2>2, <1>5
  <2> QED BY <1>2, <1>5, <1>7, <2>3, <2>4, RoundsAre
<1>12. Compared(h, i, j) = r[n]
  BY DEF Compared, n, A, B
<1> HIDE DEF P, r, wide
<1>13. <<i, j>> \in r[n] /\ r[n] \in SUBSET U
  <2>1. \A Y \in SUBSET U : {<<i, j>>} \subseteq Y => {<<i, j>>} \subseteq g[Y]
    BY <1>6
  <2>2. {<<i, j>>} \subseteq r[n]
    BY <1>2, <1>11, <2>1, RoundsKeep
  <2>3. n \in 0 .. n
    BY <1>2
  <2> QED BY <1>11, <2>2, <2>3 DEF Rounds
<1>14. wide(r[n]) = r[n]
  <2>1. Widens(g, U)
    BY <1>5, <1>6 DEF Widens
  <2>2. Rounds(r, Cardinality(U), {<<i, j>>}, g, U)
    BY <1>2, <1>11
  <2>3. g[r[Cardinality(U)]] = r[Cardinality(U)]
    BY <1>2, <2>1, <2>2, RoundsSettle
  <2> QED BY <2>3, <1>2, <1>5, <1>13
<1>15. \A p \in r[n] : KidPairs(h, p) \subseteq r[n]
  BY <1>14 DEF wide
<1>16. ASSUME NEW C \in SUBSET ((DOMAIN h) \X (DOMAIN h)), <<i, j>> \in C,
              \A p \in C : KidPairs(h, p) \subseteq C
       PROVE  r[n] \subseteq C
  <2> DEFINE D == C \cap U
  <2>1. \A Y \in SUBSET D : wide(Y) \subseteq D
    BY <1>3, <1>16 DEF wide
  <2>2. D \in SUBSET U /\ {<<i, j>>} \subseteq D
    BY <1>7, <1>16
  <2>3. \A Y \in SUBSET D : g[Y] \subseteq D
    BY <2>1, <2>2, <1>5
  <2> HIDE DEF D
  <2>4. r[n] \subseteq D
    BY <1>2, <1>11, <2>2, <2>3, RoundsWithin
  <2> QED BY <2>4 DEF D
<1>17. r[n] \subseteq (DOMAIN h) \X (DOMAIN h)
  BY <1>1, <1>13 DEF U
<1> QED BY <1>12, <1>13, <1>15, <1>16, <1>17

(* Equivalent is what some matching relates. *)
LEMMA SameMatched ==
    ASSUME NEW h, Closed(h), NEW i \in DOMAIN h, NEW j \in DOMAIN h
    PROVE  Same(h, i, j) <=> Matched(h, i, j)
<1>1. CASE i = j
  <2> DEFINE R == {<<k, k>> : k \in DOMAIN h}
  <2>1. Matching(h, R) /\ <<i, j>> \in R
    BY <1>1 DEF Matching
  <2> HIDE DEF R
  <2> QED BY <1>1, <2>1 DEF Same, Matched
<1>2. CASE i # j
  <2> DEFINE R == Compared(h, i, j)
  <2>1. /\ R \subseteq (DOMAIN h) \X (DOMAIN h) /\ <<i, j>> \in R
        /\ \A p \in R : KidPairs(h, p) \subseteq R
        /\ \A C \in SUBSET ((DOMAIN h) \X (DOMAIN h)) :
              <<i, j>> \in C /\ (\A p \in C : KidPairs(h, p) \subseteq C) => R \subseteq C
    BY ComparedMatching
  <2> HIDE DEF R
  <2>2. ASSUME Same(h, i, j) PROVE Matched(h, i, j)
    <3>1. \A p \in R : p[1] = p[2] \/ Alike(h[p[1]], h[p[2]])
      BY <1>2, <2>2 DEF Same, R
    <3>2. ASSUME NEW p \in R, p[1] # p[2], NEW k \in DOMAIN h[p[1]].kids
          PROVE  <<h[p[1]].kids[k], h[p[2]].kids[k]>> \in R
      BY <2>1, <3>1, <3>2 DEF KidPairs
    <3>3. Matching(h, R)
      BY <2>1, <3>1, <3>2 DEF Matching
    <3> QED BY <2>1, <3>3 DEF Matched
  <2>3. ASSUME Matched(h, i, j) PROVE Same(h, i, j)
    <3>1. PICK C : Matching(h, C) /\ <<i, j>> \in C
      BY <2>3 DEF Matched
    <3>2. ASSUME NEW p \in C PROVE KidPairs(h, p) \subseteq C
      <4>1. CASE p[1] # p[2]
        BY <3>1, <4>1 DEF Matching, KidPairs
      <4>2. CASE p[1] = p[2]
        BY <4>2 DEF KidPairs
      <4> QED BY <4>1, <4>2
    <3>3. R \subseteq C
      BY <2>1, <3>1, <3>2 DEF Matching
    <3>4. \A p \in C : p[1] = p[2] \/ Alike(h[p[1]], h[p[2]])
      BY <3>1 DEF Matching
    <3>5. Alike(h[i], h[j])
      BY <3>1, <3>4, <1>2
    <3> QED BY <3>3, <3>4, <3>5 DEF Same, R
  <2> QED BY <2>2, <2>3
<1> QED BY <1>1, <1>2

(* Equivalence of different nodes, one level down. *)
LEMMA SameBelow ==
    ASSUME NEW h, Closed(h), NEW i \in DOMAIN h, NEW j \in DOMAIN h, i # j
    PROVE  Same(h, i, j) => /\ Alike(h[i], h[j]) /\ DOMAIN h[i].kids = DOMAIN h[j].kids
                            /\ \A k \in DOMAIN h[i].kids : Same(h, h[i].kids[k], h[j].kids[k])
<1> SUFFICES ASSUME Same(h, i, j)
             PROVE  /\ Alike(h[i], h[j]) /\ DOMAIN h[i].kids = DOMAIN h[j].kids
                    /\ \A k \in DOMAIN h[i].kids : Same(h, h[i].kids[k], h[j].kids[k])
  OBVIOUS
<1>1. PICK R : Matching(h, R) /\ <<i, j>> \in R
  BY SameMatched DEF Matched
<1>2. /\ Alike(h[i], h[j])
      /\ \A k \in DOMAIN h[i].kids : <<h[i].kids[k], h[j].kids[k]>> \in R
  BY <1>1 DEF Matching
<1>3. DOMAIN h[i].kids = DOMAIN h[j].kids
  BY <1>2, AlikeKids
<1>4. ASSUME NEW k \in DOMAIN h[i].kids PROVE Same(h, h[i].kids[k], h[j].kids[k])
  <2>1. Matched(h, h[i].kids[k], h[j].kids[k])
    BY <1>1, <1>2 DEF Matched
  <2>2. h[i].kids[k] \in DOMAIN h /\ h[j].kids[k] \in DOMAIN h
    BY <1>3, KidsOf
  <2> QED BY <2>1, <2>2, SameMatched
<1> QED BY <1>2, <1>3, <1>4

LEMMA AlikeSymmetric == ASSUME NEW m, NEW n, Alike(m, n) PROVE Alike(n, m)
BY DEF Alike

(* Equivalence is symmetric. *)
LEMMA SameSymmetric ==
    ASSUME NEW h, Closed(h), NEW i \in DOMAIN h, NEW j \in DOMAIN h, Same(h, i, j)
    PROVE  Same(h, j, i)
<1>1. PICK R : Matching(h, R) /\ <<i, j>> \in R
  BY SameMatched DEF Matched
<1> DEFINE Q == { q \in (DOMAIN h) \X (DOMAIN h) : <<q[2], q[1]>> \in R }
<1>2. ASSUME NEW q \in Q, q[1] # q[2]
      PROVE  /\ Alike(h[q[1]], h[q[2]])
             /\ \A k \in DOMAIN h[q[1]].kids : <<h[q[1]].kids[k], h[q[2]].kids[k]>> \in Q
  <2>1. <<q[2], q[1]>> \in R /\ q[1] \in DOMAIN h /\ q[2] \in DOMAIN h
    OBVIOUS
  <2> HIDE DEF Q
  <2>2. /\ Alike(h[q[2]], h[q[1]])
        /\ \A k \in DOMAIN h[q[2]].kids : <<h[q[2]].kids[k], h[q[1]].kids[k]>> \in R
    BY <1>1, <1>2, <2>1 DEF Matching
  <2>3. Alike(h[q[1]], h[q[2]]) /\ DOMAIN h[q[1]].kids = DOMAIN h[q[2]].kids
    BY <2>1, <2>2, AlikeSymmetric, AlikeKids
  <2>4. ASSUME NEW k \in DOMAIN h[q[1]].kids PROVE <<h[q[1]].kids[k], h[q[2]].kids[k]>> \in Q
    <3>1. h[q[1]].kids[k] \in DOMAIN h /\ h[q[2]].kids[k] \in DOMAIN h
      BY <2>1, <2>3, KidsOf
    <3>2. <<h[q[2]].kids[k], h[q[1]].kids[k]>> \in R
      BY <2>2, <2>3
    <3> QED BY <3>1, <3>2 DEF Q
  <2> QED BY <2>3, <2>4
<1>3. <<j, i>> \in Q
  BY <1>1
<1>4. Matching(h, Q)
  BY <1>2 DEF Matching
<1> HIDE DEF Q
<1> QED BY <1>3, <1>4, SameMatched DEF Matched

(* Equivalence depends on what is below the nodes only. *)
LEMMA SameAgree ==
    ASSUME NEW h, Closed(h), NEW g, Closed(g), NEW U, ClosedUnder(h, U), Agree(h, g, U),
           NEW i \in U, NEW j \in U, Same(h, i, j)
    PROVE  Same(g, i, j)
<1>1. i \in DOMAIN h /\ j \in DOMAIN h /\ i \in DOMAIN g /\ j \in DOMAIN g
  BY DEF Agree
<1>2. PICK R : Matching(h, R) /\ <<i, j>> \in R
  BY <1>1, SameMatched DEF Matched
<1> DEFINE Q == R \cap (U \X U)
<1>3. ASSUME NEW q \in Q, q[1] # q[2]
      PROVE  /\ Alike(g[q[1]], g[q[2]])
             /\ \A k \in DOMAIN g[q[1]].kids : <<g[q[1]].kids[k], g[q[2]].kids[k]>> \in Q
  <2>1. /\ q \in R /\ q[1] \in U /\ q[2] \in U /\ q[1] \in DOMAIN h /\ q[2] \in DOMAIN h
        /\ g[q[1]] = h[q[1]] /\ g[q[2]] = h[q[2]]
    BY DEF Agree
  <2> HIDE DEF Q
  <2>2. /\ Alike(h[q[1]], h[q[2]])
        /\ \A k \in DOMAIN h[q[1]].kids : <<h[q[1]].kids[k], h[q[2]].kids[k]>> \in R
    BY <1>2, <1>3, <2>1 DEF Matching
  <2>3. DOMAIN h[q[1]].kids = DOMAIN h[q[2]].kids
    BY <2>1, <2>2, AlikeKids
  <2>4. ASSUME NEW k \in DOMAIN h[q[1]].kids PROVE <<h[q[1]].kids[k], h[q[2]].kids[k]>> \in U \X U
    BY <2>1, <2>3 DEF ClosedUnder, Range
  <2> QED BY <2>1, <2>2, <2>4 DEF Q
<1>4. Q \subseteq (DOMAIN g) \X (DOMAIN g)
  BY DEF Agree
<1>5. Matching(g, Q) /\ <<i, j>> \in Q
  BY <1>2, <1>3, <1>4 DEF Matching
<1> HIDE DEF Q
<1> QED BY <1>1, <1>5, SameMatched DEF Matched
-----------------------------------------------------------------------------
(* Destroying nodes without a reference takes no root and no child of what   *)
(* is left.                                                                 *)
LeftOver(h, roots, L) ==
    /\ L = [i \in DOMAIN L |-> h[i]]
    /\ ClosedUnder(h, DOMAIN L)
    /\ DOMAIN h \cap (roots \cup StaticIds) \subseteq DOMAIN L
    /\ \A x \in DOMAIN L : x \in roots \cup StaticIds \cup UNION { Kids(h, i) : i \in DOMAIN h }

LEMMA CollectLeaves ==
    ASSUME NEW h, Closed(h), NEW roots
    PROVE  LeftOver(h, roots, Collect(h, roots))
<1> DEFINE U == DOMAIN h
           n == Cardinality(U)
           less(X) == UNION { Referenced(h, is, roots) : is \in {X} }
           g == [X \in SUBSET U |-> less(X)]
           P(f) == f = [k \in 0 .. n |-> IF k = 0 THEN U ELSE less(f[k - 1])]
<1>1. n \in Nat /\ IsFiniteSet(U)
  BY FS_CardinalityType DEF Closed
<1>2. \A X : less(X) = Referenced(h, X, roots)
  OBVIOUS
<1>3. \A X \in SUBSET U : less(X) \in SUBSET U
  BY <1>2 DEF Referenced
<1>4. g \in [SUBSET U -> SUBSET U] /\ \A X \in SUBSET U : g[X] = less(X)
  <2> HIDE DEF less, U
  <2> QED BY <1>3
<1> HIDE DEF g, n, U, less
<1>5. U \in SUBSET U
  OBVIOUS
<1>6. PICK f : Rounds(f, n, U, g, U)
  BY <1>1, <1>4, <1>5, RoundsExist
<1>7. P(f)
  <2>1. /\ f = [k \in 0 .. n |-> f[k]] /\ f[0] = U
        /\ \A k \in 1 .. n : f[k] = g[f[k - 1]]
        /\ \A k \in 0 .. n : f[k] \subseteq U
    BY <1>6 DEF Rounds
  <2>2. ASSUME NEW k \in 0 .. n PROVE f[k] = IF k = 0 THEN U ELSE less(f[k - 1])
    <3>1. CASE k = 0
      BY <2>1, <3>1
    <3>2. CASE k # 0
      <4>1. k \in 1 .. n /\ k - 1 \in 0 .. n
        BY <1>1, <3>2
      <4>2. f[k - 1] \in SUBSET U
        BY <2>1, <4>1
      <4> QED BY <2>1, <4>1, <4>2, <1>4, <3>2
    <3> QED BY <3>1, <3>2
  <2> DEFINE e == [k \in 0 .. n |-> f[k]]
             d == [k \in 0 .. n |-> IF k = 0 THEN U ELSE less(f[k - 1])]
  <2>3. e = d
    BY <2>2
  <2>4. f = e
    BY <2>1
  <2> QED BY <2>3, <2>4
<1> DEFINE r == CHOOSE f1 : P(f1)
<1>8. P(r)
  <2> HIDE DEF P
  <2> QED BY <1>7
<1>9. Rounds(r, n, U, g, U)
  <2> DEFINE e == [k \in 0 .. n |-> IF k = 0 THEN U ELSE less(r[k - 1])]
  <2> HIDE DEF r
  <2>1. r = e
    BY <1>8
  <2>2. /\ e = [k \in 0 .. n |-> e[k]] /\ 0 \in 0 .. n
        /\ \A k \in 0 .. n : e[k] = IF k = 0 THEN U ELSE less(r[k - 1])
        /\ \A k \in 1 .. n : k \in 0 .. n /\ k # 0
    BY <1>1
  <2> HIDE DEF e
  <2>3. r = [k \in 0 .. n |-> r[k]] /\ r[0] = U
    BY <2>1, <2>2
  <2>4. \A k \in 1 .. n : r[k - 1] \in SUBSET U => r[k] = g[r[k - 1]]
    BY <2>1, <2>2, <1>4
  <2> QED BY <1>1, <1>4, <1>5, <2>3, <2>4, RoundsAre
<1>10. Collect(h, roots) = [i \in r[n] |-> h[i]]
  BY DEF Collect, n, U, less
<1> HIDE DEF P, r
<1>11. /\ r[0] = U
       /\ \A k \in 1 .. n : r[k] = Referenced(h, r[k - 1], roots)
       /\ \A k \in 0 .. n : r[k] \subseteq U
  <2>1. /\ r[0] = U
        /\ \A k \in 1 .. n : r[k] = g[r[k - 1]]
        /\ \A k \in 0 .. n : r[k] \subseteq U
    BY <1>9 DEF Rounds
  <2>2. \A k \in 1 .. n : k - 1 \in 0 .. n
    BY <1>1
  <2> QED BY <1>2, <1>4, <2>1, <2>2
<1> DEFINE Good == {k \in 0 .. n : /\ \A i \in r[k] : Range(h[i].kids) \subseteq r[k]
                                   /\ U \cap (roots \cup StaticIds) \subseteq r[k]}
<1>12. 0 \in Good
  <2>1. \A i \in U : Range(h[i].kids) \subseteq U
    BY KidsOf DEF U
  <2> QED BY <1>1, <1>11, <2>1
<1>13. ASSUME NEW k \in 1 .. n, k - 1 \in Good PROVE k \in Good
  <2>1. /\ \A i \in r[k - 1] : Range(h[i].kids) \subseteq r[k - 1]
        /\ U \cap (roots \cup StaticIds) \subseteq r[k - 1]
        /\ r[k - 1] \subseteq U /\ k \in 0 .. n
    BY <1>1, <1>11, <1>13
  <2>2. r[k] = r[k - 1] \cap (roots \cup StaticIds \cup UNION { Kids(h, i) : i \in r[k - 1] })
    BY <1>11 DEF Referenced
  <2>3. ASSUME NEW i \in r[k] PROVE Range(h[i].kids) \subseteq r[k]
    <3>1. i \in r[k - 1] /\ i \in DOMAIN h
      BY <2>1, <2>2 DEF U
    <3>2. Kids(h, i) = Range(h[i].kids)
      BY <3>1, KidsOf
    <3> QED BY <2>1, <2>2, <3>1, <3>2
  <2>4. U \cap (roots \cup StaticIds) \subseteq r[k]
    BY <2>1, <2>2
  <2> QED BY <2>1, <2>3, <2>4
<1>14. n \in 0 .. n /\ n \in Good
  <2> HIDE DEF Good
  <2>1. n \in 0 .. n
    BY <1>1
  <2> QED BY <1>1, <1>12, <1>13, <2>1, CountUp
<1>15. /\ \A i \in r[n] : Range(h[i].kids) \subseteq r[n]
       /\ U \cap (roots \cup StaticIds) \subseteq r[n] /\ r[n] \subseteq U
  BY <1>11, <1>14
<1>16. ASSUME NEW x \in r[n]
       PROVE  x \in roots \cup StaticIds \cup UNION { Kids(h, i) : i \in U }
  <2>1. n # 0
    BY <1>1, <1>15, FS_EmptySet DEF n
  <2>2. n \in 1 .. n /\ n - 1 \in 0 .. n
    BY <1>1, <2>1
  <2>3. x \in Referenced(h, r[n - 1], roots) /\ r[n - 1] \subseteq U
    BY <1>11, <2>2
  <2> QED BY <2>3 DEF Referenced
<1> DEFINE L == [i \in r[n] |-> h[i]]
<1>17. DOMAIN L = r[n] /\ L = [i \in DOMAIN L |-> h[i]]
  OBVIOUS
<1> HIDE DEF L
<1>18. LeftOver(h, roots, L)
  BY <1>15, <1>16, <1>17 DEF LeftOver, ClosedUnder, U
<1> QED BY <1>10, <1>18 DEF L

(* The roots are the vector of the manager and what is referred to outside.  *)
LEMMA CollectedLeaves ==
    ASSUME NEW h, Closed(h), NEW vector, NEW outside
    PROVE  LeftOver(h, Range(vector) \cup outside, Collected(h, vector, outside))
<1>1. Collected(h, vector, outside) = Collect(h, Range(vector) \cup outside)
  BY DEF Collected
<1> QED BY <1>1, CollectLeaves
-----------------------------------------------------------------------------
(* The store: what its heap, its vector and the history keep.               *)
NodeOK(node, D) ==
    /\ node = [kind |-> node.kind, name |-> node.name, kids |-> node.kids, hash |-> node.hash]
    /\ node.kids \in Seq(D) /\ Len(node.kids) \in 0 .. 3

HeapOK(h) ==
    /\ h = [i \in DOMAIN h |-> h[i]]
    /\ IsFiniteSet(DOMAIN h) /\ 0 \notin DOMAIN h
    /\ StaticIds \subseteq DOMAIN h
    /\ \A i \in DOMAIN h : i \in Nat /\ NodeOK(h[i], DOMAIN h)

StaticsOK(h) == \A i \in StaticIds : h[i].kids = << >> /\ h[i].kind \notin {"VAR", "FUNC_DEC"}

VectorOK(h, vector) ==
    /\ vector \in Seq(DOMAIN h)
    /\ \A p, q \in DOMAIN vector : vector[p] = vector[q] => p = q

(* A node that nobody changed is found under the hash of what it looks like. *)
HashKept(h, n) ==
    /\ n.hash.kind = n.kind /\ n.hash.name = NameHash(n.name)
    /\ n.hash.kids = [k \in DOMAIN n.kids |-> h[n.kids[k]].hash]
    /\ n.hash = [kind |-> n.hash.kind, name |-> n.hash.name, kids |-> n.hash.kids]
HashesKept(h, vector, t) == \A p \in DOMAIN vector : vector[p] \notin t => HashKept(h, h[vector[p]])

(* Until the first clear the vector has all nodes, the constants first;      *)
(* after it, no constant.                                                   *)
AllListed(h, vector) ==
    \/ (\A i \in StaticIds : i \in DOMAIN vector /\ vector[i] = i) /\ DOMAIN h \subseteq Range(vector)
    \/ StaticIds \cap Range(vector) = {}

OnceIn(h, vector, t) ==
    \A p, q \in DOMAIN vector :
        (p < q /\ Same(h, vector[p], vector[q])) => Reach(h, {vector[p], vector[q]}) \cap t # {}

StoreOK(h, vector, t) ==
    /\ HeapOK(h) /\ StaticsOK(h) /\ VectorOK(h, vector)
    /\ HashesKept(h, vector, t) /\ AllListed(h, vector) /\ OnceIn(h, vector, t)

LEMMA HeapClosed == ASSUME NEW h, HeapOK(h) PROVE Closed(h)
BY DEF HeapOK, NodeOK, Closed

LEMMA WholeClosed == ASSUME NEW h, Closed(h) PROVE ClosedUnder(h, DOMAIN h)
BY KidsOf DEF ClosedUnder

LEMMA VectorIndex ==
    ASSUME NEW D, NEW vector \in Seq(D)
    PROVE  /\ Len(vector) \in Nat /\ DOMAIN vector = 1 .. Len(vector)
           /\ \A p \in DOMAIN vector : vector[p] \in D /\ p \in Nat
           /\ Range(vector) \subseteq D
BY SMT DEF Range

(* A free address is free. *)
LEMMA FreeIsFree ==
    ASSUME NEW h, HeapOK(h)
    PROVE  FreeAddress(h) \notin DOMAIN h /\ FreeAddress(h) \in Nat \ {0}
<1> DEFINE n == Cardinality(DOMAIN h)
<1>1. n \in Nat /\ IsFiniteSet(DOMAIN h)
  BY FS_CardinalityType DEF HeapOK
<1>2. IsFiniteSet(1 .. n + 1) /\ Cardinality(1 .. n + 1) = n + 1
  <2> HIDE DEF n
  <2>1. 1 \in Int /\ n + 1 \in Int
    BY <1>1
  <2>2. /\ IsFiniteSet(1 .. n + 1)
        /\ Cardinality(1 .. n + 1) = IF 1 > n + 1 THEN 0 ELSE (n + 1) - 1 + 1
    BY <2>1, FS_Interval
  <2> QED BY <1>1, <2>2
<1>3. \E i \in 1 .. n + 1 : i \notin DOMAIN h
  <2> SUFFICES ASSUME 1 .. n + 1 \in SUBSET DOMAIN h PROVE FALSE
    OBVIOUS
  <2>1. Cardinality(1 .. n + 1) <= Cardinality(DOMAIN h)
    BY <1>1, FS_Subset
  <2> QED BY <1>1, <1>2, <2>1
<1>4. FreeAddress(h) \in 1 .. n + 1 /\ FreeAddress(h) \notin DOMAIN h
  BY <1>3 DEF FreeAddress
<1> QED BY <1>1, <1>4

(* A store stays in order when nodes go that the vector does not have, and   *)
(* others are changed that are noted.                                       *)
LEMMA StoreChanged ==
    ASSUME NEW h, NEW vector, NEW t, StoreOK(h, vector, t),
           NEW g, HeapOK(g), StaticsOK(g), DOMAIN g \subseteq DOMAIN h, Range(vector) \subseteq DOMAIN g,
           NEW u, t \cap DOMAIN g \subseteq u,
           \A i \in DOMAIN g : g[i].hash = h[i].hash /\ (i \notin u => g[i] = h[i])
    PROVE  StoreOK(g, vector, u)
<1>1. /\ HeapOK(h) /\ VectorOK(h, vector) /\ HashesKept(h, vector, t)
      /\ AllListed(h, vector) /\ OnceIn(h, vector, t)
  BY DEF StoreOK
<1>2. Closed(h) /\ Closed(g)
  BY <1>1, HeapClosed
<1>3. /\ vector \in Seq(DOMAIN h) /\ Len(vector) \in Nat /\ DOMAIN vector = 1 .. Len(vector)
      /\ \A p \in DOMAIN vector : vector[p] \in DOMAIN g
  BY <1>1, VectorIndex DEF VectorOK, Range
<1>4. VectorOK(g, vector)
  <2>1. vector \in Seq(DOMAIN g)
    <3>1. vector = [p \in 1 .. Len(vector) |-> vector[p]]
      BY <1>3
    <3> QED BY <1>3, <3>1
  <2> QED BY <1>1, <2>1 DEF VectorOK
<1>5. HashesKept(g, vector, u)
  <2> SUFFICES ASSUME NEW p \in DOMAIN vector, vector[p] \notin u PROVE HashKept(g, g[vector[p]])
    BY DEF HashesKept
  <2> DEFINE i == vector[p]
  <2>1. i \in DOMAIN g /\ i \in DOMAIN h /\ g[i] = h[i] /\ i \notin t
    BY <1>3
  <2>2. HashKept(h, h[i])
    BY <1>1, <2>1 DEF HashesKept
  <2>3. \A k \in DOMAIN g[i].kids : g[g[i].kids[k]].hash = h[h[i].kids[k]].hash
    BY <1>2, <2>1, KidsOf
  <2>4. [k \in DOMAIN g[i].kids |-> g[g[i].kids[k]].hash] = [k \in DOMAIN h[i].kids |-> h[h[i].kids[k]].hash]
    BY <2>1, <2>3
  <2> HIDE DEF i
  <2>5. HashKept(g, g[i])
    BY <2>1, <2>2, <2>4 DEF HashKept
  <2> QED BY <2>5 DEF i
<1>6. AllListed(g, vector)
  BY <1>1 DEF AllListed
<1>7. OnceIn(g, vector, u)
  <2> SUFFICES ASSUME NEW p \in DOMAIN vector, NEW q \in DOMAIN vector, p < q,
                      Same(g, vector[p], vector[q]),
                      Reach(g, {vector[p], vector[q]}) \cap u = {}
               PROVE  FALSE
    BY DEF OnceIn
  <2> DEFINE is == {vector[p], vector[q]}
             R == Reach(g, is)
  <2>1. is \in SUBSET DOMAIN g
    BY <1>3
  <2>2. is \subseteq R /\ ClosedUnder(g, R)
    BY <1>2, <2>1, ReachLeast DEF Least
  <2>3. R \cap u = {}
    OBVIOUS
  <2> HIDE DEF R
  <2>4. Agree(g, h, R)
    BY <2>2, <2>3 DEF Agree, ClosedUnder
  <2>5. Same(h, vector[p], vector[q])
    BY <1>2, <2>2, <2>4, SameAgree
  <2>6. Reach(h, is) = R
    <3>1. is \in SUBSET R
      BY <2>2
    <3> QED BY <1>2, <2>2, <2>4, <3>1, ReachAgree DEF R
  <2>7. R \cap t = {}
    BY <2>2, <2>3 DEF ClosedUnder
  <2> QED BY <1>1, <2>5, <2>6, <2>7 DEF OnceIn
<1> QED BY <1>4, <1>5, <1>6, <1>7 DEF StoreOK
-----------------------------------------------------------------------------
(* Interning: the heap has what it had, and perhaps a new node.             *)
Extends(h, g) == DOMAIN h \subseteq DOMAIN g /\ \A i \in DOMAIN h : g[i] = h[i]

FoundOld(h, vector, made) == made.heap = h /\ made.nodes = vector /\ made.node \in Range(vector)

MadeNew(h, vector, node, made) ==
    /\ made.node \notin DOMAIN h
    /\ DOMAIN made.heap = DOMAIN h \cup {made.node} /\ made.heap[made.node] = node
    /\ Range(made.nodes) = Range(vector) \cup {made.node}

Interned(h, vector, node, made) ==
    /\ Extends(h, made.heap)
    /\ made.node \in DOMAIN made.heap /\ made.node \in Range(made.nodes)
    /\ FoundOld(h, vector, made) \/ MadeNew(h, vector, node, made)

(* A heap that extends another agrees with it. *)
LEMMA ExtendsAgree ==
    ASSUME NEW h, Closed(h), NEW g, Extends(h, g)
    PROVE  /\ ClosedUnder(h, DOMAIN h) /\ ClosedUnder(g, DOMAIN h)
           /\ Agree(h, g, DOMAIN h) /\ Agree(g, h, DOMAIN h)
BY KidsOf DEF ClosedUnder, Agree, Extends

(* The fields of a node to be created. *)
LEMMA NodeFields ==
    ASSUME NEW h, NEW kind, NEW name, NEW kids
    PROVE  LET node == Node(h, kind, name, kids)
           IN  /\ node.kind = kind /\ node.name = name /\ node.kids = kids
               /\ node = [kind |-> kind, name |-> name, kids |-> kids, hash |-> node.hash]
               /\ node.hash.kind = kind /\ node.hash.name = NameHash(name)
               /\ node.hash.kids = [k \in DOMAIN kids |-> h[kids[k]].hash]
               /\ node.hash = [kind |-> node.hash.kind, name |-> node.hash.name, kids |-> node.hash.kids]
BY DEF Node

(* A node looked for and not found is equivalent to none that nobody changed. *)
LEMMA NotFoundDiffers ==
    ASSUME NEW h, NEW vector, NEW t, StoreOK(h, vector, t),
           NEW kind, NEW name, NEW kids \in Seq(DOMAIN h),
           NEW p \in DOMAIN vector, vector[p] \notin t,
           Alike(h[vector[p]], Node(h, kind, name, kids)),
           \A k \in DOMAIN kids : Same(h, kids[k], h[vector[p]].kids[k])
    PROVE  p \in Found(h, vector, Node(h, kind, name, kids))
<1> DEFINE node == Node(h, kind, name, kids)
           i == vector[p]
<1>1. /\ node.kind = kind /\ node.name = name /\ node.kids = kids
      /\ node.hash.kind = kind /\ node.hash.name = NameHash(name)
      /\ node.hash.kids = [k \in DOMAIN kids |-> h[kids[k]].hash]
      /\ node.hash = [kind |-> node.hash.kind, name |-> node.hash.name, kids |-> node.hash.kids]
  BY NodeFields
<1>2. HeapOK(h) /\ VectorOK(h, vector) /\ HashesKept(h, vector, t) /\ Closed(h)
  BY HeapClosed DEF StoreOK
<1>3. i \in DOMAIN h
  BY <1>2, VectorIndex DEF VectorOK
<1>4. HashKept(h, h[i])
  BY <1>2 DEF HashesKept
<1> HIDE DEF node, i
<1>5. Alike(h[i], node) /\ Alike(node, h[i])
  BY AlikeSymmetric DEF i, node
<1>6. DOMAIN h[i].kids = DOMAIN kids
  <2>1. Len(h[i].kids) = Len(kids)
    BY <1>1, <1>5 DEF Alike
  <2>2. DOMAIN kids = 1 .. Len(kids)
    OBVIOUS
  <2>3. DOMAIN h[i].kids = 1 .. Len(h[i].kids)
    BY <1>2, <1>3, KidsOf
  <2> QED BY <2>1, <2>2, <2>3
<1>7. h[i].hash.kids = node.hash.kids
  <2>1. CASE h[i].hash.kids = node.hash.kids
    BY <2>1
  <2>2. CASE h[i].hash.kids # node.hash.kids
    <3>1. << >> = h[i].hash.kids \/ << >> = node.hash.kids
      BY <1>5, <2>2 DEF Alike
    <3>2. h[i].hash.kids = [k \in DOMAIN kids |-> h[h[i].kids[k]].hash]
      BY <1>4, <1>6 DEF HashKept
    <3>3. DOMAIN h[i].hash.kids = DOMAIN kids /\ DOMAIN node.hash.kids = DOMAIN kids
      BY <1>1, <3>2
    <3>4. DOMAIN kids = {}
      BY <3>1, <3>3
    <3>5. [k \in DOMAIN kids |-> h[h[i].kids[k]].hash] = [k \in DOMAIN kids |-> h[kids[k]].hash]
      BY <3>4
    <3> QED BY <1>1, <3>2, <3>5
  <2> QED BY <2>1, <2>2
<1>8. h[i].kind = kind /\ h[i].name = name
  BY <1>1, <1>5 DEF Alike
<1>9. h[i].hash = node.hash
  BY <1>1, <1>4, <1>7, <1>8 DEF HashKept
<1>10. IsEquivalentTo(h, node, i)
  BY <1>1, <1>5 DEF IsEquivalentTo, i
<1> QED BY <1>9, <1>10 DEF Found, i, node

(* The two outcomes of interning. *)
LEMMA InternOld ==
    ASSUME NEW h, NEW vector, NEW t, StoreOK(h, vector, t), NEW node, Found(h, vector, node) # {}
    PROVE  FoundOld(h, vector, Intern(h, vector, node))
<1> DEFINE F == Found(h, vector, node)
<1>1. vector \in Seq(DOMAIN h)
  BY DEF StoreOK, VectorOK
<1>2. F \in SUBSET Nat /\ F \subseteq DOMAIN vector
  BY <1>1, VectorIndex DEF Found
<1>3. \E p \in F : \A q \in F : p <= q
  <2> HIDE DEF F
  <2> QED BY <1>2, LeastNat DEF F
<1>4. Min(F) \in F
  <2> HIDE DEF F
  <2> QED BY <1>3 DEF Min
<1> QED BY <1>2, <1>4 DEF Intern, FoundOld, Range

(* The heap with a new node. *)
Grown(h, new, node) == [i \in DOMAIN h \cup {new} |-> IF i = new THEN node ELSE h[i]]

GrownWell(h, new, node, g) ==
    /\ HeapOK(g) /\ StaticsOK(g) /\ Extends(h, g)
    /\ DOMAIN g = DOMAIN h \cup {new} /\ g[new] = node

LEMMA HeapGrows ==
    ASSUME NEW h, HeapOK(h), StaticsOK(h), NEW new \in Nat \ {0}, new \notin DOMAIN h,
           NEW kind, NEW name, NEW kids \in Seq(DOMAIN h), Len(kids) \in 0 .. 3
    PROVE  GrownWell(h, new, Node(h, kind, name, kids), Grown(h, new, Node(h, kind, name, kids)))
<1> DEFINE node == Node(h, kind, name, kids)
           g == Grown(h, new, node)
<1>1. /\ node.kind = kind /\ node.name = name /\ node.kids = kids
      /\ node = [kind |-> kind, name |-> name, kids |-> kids, hash |-> node.hash]
  BY DEF Node
<1> HIDE DEF node
<1>2. /\ DOMAIN g = DOMAIN h \cup {new} /\ g[new] = node
      /\ \A i \in DOMAIN h : g[i] = h[i]
  BY DEF Grown
<1>3. /\ IsFiniteSet(DOMAIN h) /\ 0 \notin DOMAIN h /\ StaticIds \subseteq DOMAIN h
      /\ \A i \in DOMAIN h : i \in Nat /\ NodeOK(h[i], DOMAIN h)
  BY DEF HeapOK
<1>4. g = [i \in DOMAIN g |-> g[i]]
  <2> DEFINE f == [i \in DOMAIN h \cup {new} |-> IF i = new THEN node ELSE h[i]]
  <2>1. f = [i \in DOMAIN f |-> f[i]]
    OBVIOUS
  <2>2. g = f
    BY DEF Grown
  <2> QED BY <2>1, <2>2
<1> HIDE DEF g
<1>5. IsFiniteSet(DOMAIN g)
  BY <1>2, <1>3, FS_AddElement
<1>6. ASSUME NEW s \in Seq(DOMAIN h) PROVE s \in Seq(DOMAIN g)
  <2>1. DOMAIN h \subseteq DOMAIN g
    BY <1>2
  <2> QED BY <2>1
<1>7. NodeOK(node, DOMAIN g)
  <2>1. kids \in Seq(DOMAIN g)
    BY <1>6
  <2> QED BY <1>1, <2>1 DEF NodeOK
<1>8. ASSUME NEW i \in DOMAIN g PROVE i \in Nat /\ NodeOK(g[i], DOMAIN g)
  <2>1. CASE i = new
    BY <1>2, <1>7, <2>1
  <2>2. CASE i # new
    <3>1. i \in DOMAIN h /\ g[i] = h[i] /\ NodeOK(h[i], DOMAIN h) /\ i \in Nat
      BY <1>2, <1>3, <2>2
    <3> QED BY <3>1, <1>6 DEF NodeOK
  <2> QED BY <2>1, <2>2
<1>9. HeapOK(g)
  BY <1>2, <1>3, <1>4, <1>5, <1>8 DEF HeapOK
<1>10. StaticsOK(g)
  BY <1>2, <1>3 DEF StaticsOK
<1> QED BY <1>2, <1>9, <1>10 DEF Extends, GrownWell, g, node

LEMMA InternNew ==
    ASSUME NEW h, NEW vector, NEW t, StoreOK(h, vector, t),
           NEW kind, NEW name, NEW kids \in Seq(DOMAIN h), Len(kids) \in 0 .. 3,
           NEW node, node = Node(h, kind, name, kids), Found(h, vector, node) = {},
           NEW made, made = Intern(h, vector, node)
    PROVE  StoreOK(made.heap, made.nodes, t) /\ Interned(h, vector, node, made)
<1> DEFINE new == FreeAddress(h)
           g == [i \in DOMAIN h \cup {new} |-> IF i = new THEN node ELSE h[i]]
           v == Append(vector, new)
<1>1. made.heap = g /\ made.nodes = v /\ made.node = new
  BY DEF Intern
<1>2. /\ HeapOK(h) /\ StaticsOK(h) /\ VectorOK(h, vector) /\ HashesKept(h, vector, t)
      /\ AllListed(h, vector) /\ OnceIn(h, vector, t)
  BY DEF StoreOK
<1>3. new \notin DOMAIN h /\ new \in Nat \ {0}
  BY <1>2, FreeIsFree
<1> HIDE DEF new
<1>4. HeapOK(g) /\ StaticsOK(g) /\ Extends(h, g) /\ DOMAIN g = DOMAIN h \cup {new} /\ g[new] = node
  <2>1. g = Grown(h, new, Node(h, kind, name, kids))
    BY DEF Grown
  <2> HIDE DEF g
  <2>2. GrownWell(h, new, node, g)
    <3>1. HeapOK(h) /\ StaticsOK(h)
      BY <1>2
    <3> QED BY <1>3, <2>1, <3>1, HeapGrows
  <2> QED BY <2>2 DEF GrownWell
<1> HIDE DEF g
<1>5. Closed(h) /\ Closed(g)
  BY <1>2, <1>4, HeapClosed
<1>6. /\ ClosedUnder(h, DOMAIN h) /\ ClosedUnder(g, DOMAIN h)
      /\ Agree(h, g, DOMAIN h) /\ Agree(g, h, DOMAIN h)
  BY <1>4, <1>5, ExtendsAgree
<1> DEFINE n == Len(vector)
<1>7. /\ n \in Nat /\ DOMAIN vector = 1 .. n /\ \A p \in 1 .. n : vector[p] \in DOMAIN h
      /\ vector \in Seq(DOMAIN h)
  BY <1>2, VectorIndex DEF VectorOK
<1>8. /\ v \in Seq(DOMAIN g) /\ DOMAIN v = 1 .. n + 1 /\ v[n + 1] = new
      /\ \A p \in 1 .. n : v[p] = vector[p]
  <2>1. DOMAIN h \subseteq DOMAIN g /\ new \in DOMAIN g
    BY <1>4
  <2>2. vector \in Seq(DOMAIN g)
    BY <1>7, <2>1
  <2> QED BY <1>7, <2>1, <2>2
<1> HIDE DEF v, n
<1>9. \A p \in 1 .. n + 1 : p \in 1 .. n \/ p = n + 1
  BY <1>7
<1>10. VectorOK(g, v)
  <2> SUFFICES ASSUME NEW p \in 1 .. n + 1, NEW q \in 1 .. n + 1, v[p] = v[q] PROVE p = q
    BY <1>8 DEF VectorOK
  <2>1. \A i, j \in DOMAIN vector : vector[i] = vector[j] => i = j
    BY <1>2 DEF VectorOK
  <2> QED BY <2>1, <1>3, <1>7, <1>8, <1>9
<1>11. Range(v) = Range(vector) \cup {new}
  <2>1. 1 .. n + 1 = 1 .. n \cup {n + 1}
    BY <1>7
  <2> QED BY <1>7, <1>8, <2>1 DEF Range
<1>12. HashesKept(g, v, t)
  <2> SUFFICES ASSUME NEW p \in 1 .. n + 1, v[p] \notin t PROVE HashKept(g, g[v[p]])
    BY <1>8 DEF HashesKept
  <2>1. CASE p \in 1 .. n
    <3> DEFINE i == vector[p]
    <3>1. i \in DOMAIN h /\ v[p] = i /\ g[i] = h[i] /\ i \notin t
      BY <1>4, <1>7, <1>8, <2>1 DEF Extends
    <3>2. HashKept(h, h[i])
      BY <1>2, <1>7, <2>1, <3>1 DEF HashesKept
    <3> HIDE DEF i
    <3>3. \A k \in DOMAIN h[i].kids : g[h[i].kids[k]].hash = h[h[i].kids[k]].hash
      BY <1>4, <1>5, <3>1, KidsOf DEF Extends
    <3>4. [k \in DOMAIN h[i].kids |-> g[h[i].kids[k]].hash] = [k \in DOMAIN h[i].kids |-> h[h[i].kids[k]].hash]
      BY <3>3
    <3> QED BY <3>1, <3>2, <3>4 DEF HashKept
  <2>2. CASE p = n + 1
    <3>1. /\ node.kind = kind /\ node.name = name /\ node.kids = kids
          /\ node.hash.kind = kind /\ node.hash.name = NameHash(name)
          /\ node.hash.kids = [k \in DOMAIN kids |-> h[kids[k]].hash]
          /\ node.hash = [kind |-> node.hash.kind, name |-> node.hash.name, kids |-> node.hash.kids]
      BY NodeFields
    <3>2. \A k \in DOMAIN kids : g[kids[k]].hash = h[kids[k]].hash
      BY <1>4 DEF Extends
    <3>3. [k \in DOMAIN kids |-> g[kids[k]].hash] = [k \in DOMAIN kids |-> h[kids[k]].hash]
      BY <3>2
    <3>4. HashKept(g, node)
      BY <3>1, <3>3 DEF HashKept
    <3> QED BY <1>4, <1>8, <2>2, <3>4
  <2> QED BY <1>9, <2>1, <2>2
<1>13. AllListed(g, v)
  <2>1. CASE (\A i \in StaticIds : i \in DOMAIN vector /\ vector[i] = i) /\ DOMAIN h \subseteq Range(vector)
    <3>1. \A i \in StaticIds : i \in DOMAIN v /\ v[i] = i
      BY <1>7, <1>8, <2>1
    <3>2. DOMAIN g \subseteq Range(v)
      BY <1>4, <1>11, <2>1
    <3> QED BY <3>1, <3>2 DEF AllListed
  <2>2. CASE StaticIds \cap Range(vector) = {}
    <3>1. new \notin StaticIds
      BY <1>2, <1>3 DEF HeapOK
    <3> QED BY <1>11, <2>2, <3>1 DEF AllListed
  <2> QED BY <1>2, <2>1, <2>2 DEF AllListed
<1>14. OnceIn(g, v, t)
  <2> SUFFICES ASSUME NEW p \in 1 .. n + 1, NEW q \in 1 .. n + 1, p < q, Same(g, v[p], v[q])
               PROVE  Reach(g, {v[p], v[q]}) \cap t # {}
    BY <1>8 DEF OnceIn
  <2>1. p \in 1 .. n
    BY <1>7, <1>9
  <2> DEFINE i == vector[p]
  <2>2. v[p] = i /\ i \in DOMAIN h /\ i \in DOMAIN g /\ g[i] = h[i]
    BY <1>4, <1>7, <1>8, <2>1 DEF Extends
  <2>3. CASE q \in 1 .. n
    <3>1. v[q] = vector[q] /\ vector[q] \in DOMAIN h
      BY <1>7, <1>8, <2>3
    <3>2. Same(h, i, vector[q])
      BY <1>5, <1>6, <2>2, <3>1, SameAgree
    <3>3. Reach(h, {i, vector[q]}) \cap t # {}
      BY <1>2, <1>7, <2>1, <2>3, <3>2 DEF OnceIn
    <3>4. {i, vector[q]} \in SUBSET DOMAIN h
      BY <2>2, <3>1
    <3>5. Reach(g, {i, vector[q]}) = Reach(h, {i, vector[q]})
      BY <1>5, <1>6, <3>4, ReachAgree
    <3> QED BY <2>2, <3>1, <3>3, <3>5
  <2>4. CASE q = n + 1
    <3>1. v[q] = new /\ new \in DOMAIN g /\ g[new] = node /\ i # new
      BY <1>3, <1>4, <1>8, <2>2, <2>4
    <3>2. node.kids = kids
      BY DEF Node
    <3>3. /\ Alike(g[i], g[new]) /\ DOMAIN g[i].kids = DOMAIN g[new].kids
          /\ \A k \in DOMAIN g[i].kids : Same(g, g[i].kids[k], g[new].kids[k])
      BY <1>5, <2>2, <3>1, SameBelow
    <3>4. ASSUME NEW k \in DOMAIN kids PROVE Same(h, kids[k], h[i].kids[k])
      <4>1. kids[k] \in DOMAIN h
        OBVIOUS
      <4>2. k \in DOMAIN h[i].kids
        BY <2>2, <3>1, <3>2, <3>3
      <4>3. h[i].kids[k] \in DOMAIN h
        BY <1>5, <2>2, <4>2, KidsOf
      <4>4. Same(g, h[i].kids[k], kids[k])
        BY <2>2, <3>1, <3>2, <3>3, <4>2
      <4>5. Same(h, h[i].kids[k], kids[k])
        BY <1>5, <1>6, <4>1, <4>3, <4>4, SameAgree
      <4> QED BY <1>5, <4>1, <4>3, <4>5, SameSymmetric
    <3>5. i \in t
      <4> SUFFICES ASSUME i \notin t PROVE FALSE
        OBVIOUS
      <4>1. Alike(h[i], node)
        BY <2>2, <3>1, <3>3
      <4>2. p \in Found(h, vector, node)
        BY <1>7, <2>1, <3>4, <4>1, NotFoundDiffers
      <4> QED BY <4>2
    <3>6. {v[p], v[q]} \in SUBSET DOMAIN g
      BY <2>2, <3>1
    <3>7. i \in Reach(g, {v[p], v[q]})
      BY <1>5, <2>2, <3>6, ReachLeast DEF Least
    <3> QED BY <3>5, <3>7
  <2> QED BY <1>9, <2>3, <2>4
<1>15. MadeNew(h, vector, node, made)
  BY <1>1, <1>3, <1>4, <1>11 DEF MadeNew
<1> QED BY <1>1, <1>4, <1>10, <1>11, <1>12, <1>13, <1>14, <1>15 DEF StoreOK, Interned

(* Creating a node keeps the store in order. *)
MadeWell(h, vector, t, node, made) ==
    StoreOK(made.heap, made.nodes, t) /\ Interned(h, vector, node, made)

LEMMA CreateNodeKeeps ==
    ASSUME NEW h, NEW vector, NEW t, StoreOK(h, vector, t),
           NEW kind, NEW name, NEW kids \in Seq(DOMAIN h), Len(kids) \in 0 .. 3
    PROVE  MadeWell(h, vector, t, Node(h, kind, name, kids), CreateNode(h, vector, kind, name, kids))
<1> DEFINE node == Node(h, kind, name, kids)
           made == Intern(h, vector, node)
<1>1. CreateNode(h, vector, kind, name, kids) = made
  BY DEF CreateNode
<1>2. CASE Found(h, vector, node) # {}
  <2>1. FoundOld(h, vector, made)
    <3> HIDE DEF node
    <3> QED BY <1>2, InternOld
  <2> HIDE DEF made
  <2>2. StoreOK(made.heap, made.nodes, t)
    BY <2>1 DEF FoundOld
  <2>3. Interned(h, vector, node, made)
    <3>1. vector \in Seq(DOMAIN h)
      BY DEF StoreOK, VectorOK
    <3>2. Range(vector) \subseteq DOMAIN h
      BY <3>1, VectorIndex
    <3> QED BY <2>1, <3>2 DEF FoundOld, Interned, Extends
  <2> QED BY <1>1, <2>2, <2>3 DEF MadeWell
<1>3. CASE Found(h, vector, node) = {}
  <2> HIDE DEF node, made
  <2>1. StoreOK(made.heap, made.nodes, t) /\ Interned(h, vector, node, made)
    BY <1>3, InternNew DEF node, made
  <2> QED BY <1>1, <2>1 DEF node, MadeWell
<1> HIDE DEF node, made
<1> QED BY <1>2, <1>3
-----------------------------------------------------------------------------
(* What somebody can reach is there and was not cleared.                    *)
Unblanked(h, X) == ClosedUnder(h, X) /\ \A i \in X : ~ IsBlank(h[i])

Whole(h, is) == \E X : Unblanked(h, X) /\ is \subseteq X

(* A step that creates nodes: the store stays in order, what could be        *)
(* reached stays whole, and so does what the step returns.                  *)
Outcome(h, vector, t, roots, s) ==
    /\ StoreOK(s.heap, s.nodes, t) /\ Extends(h, s.heap)
    /\ Range(vector) \subseteq Range(s.nodes)
    /\ Whole(s.heap, roots \cup Range(s.nodes) \cup {s.node})

(* A node is created. *)
LEMMA CreateOutcome ==
    ASSUME NEW h, NEW vector, NEW t, StoreOK(h, vector, t),
           NEW roots, Whole(h, roots), Range(vector) \subseteq roots,
           NEW kind, NEW name, ~ (kind = "ERROR" /\ name = ""),
           NEW kids \in Seq(DOMAIN h), Len(kids) \in 0 .. 3, Range(kids) \subseteq roots
    PROVE  Outcome(h, vector, t, roots, CreateNode(h, vector, kind, name, kids))
<1> DEFINE node == Node(h, kind, name, kids)
           made == CreateNode(h, vector, kind, name, kids)
<1>1. MadeWell(h, vector, t, node, made)
  BY CreateNodeKeeps
<1>2. node.kids = kids /\ ~ IsBlank(node)
  BY DEF Node, IsBlank
<1> HIDE DEF node, made
<1>3. PICK X : Unblanked(h, X) /\ roots \subseteq X
  BY DEF Whole
<1> DEFINE after == roots \cup Range(made.nodes) \cup {made.node}
<1>4. ASSUME FoundOld(h, vector, made) PROVE Outcome(h, vector, t, roots, made)
  <2>1. made.heap = h /\ made.nodes = vector /\ made.node \in Range(vector)
    BY <1>4 DEF FoundOld
  <2>2. after \subseteq X
    BY <1>3, <2>1
  <2> HIDE DEF after
  <2>3. Whole(made.heap, after)
    BY <1>3, <2>1, <2>2 DEF Whole
  <2>4. StoreOK(made.heap, made.nodes, t) /\ Extends(h, made.heap)
    BY <1>1 DEF MadeWell, Interned
  <2>5. Range(vector) \subseteq Range(made.nodes)
    BY <2>1
  <2> QED BY <2>3, <2>4, <2>5 DEF Outcome, after
<1>5. ASSUME MadeNew(h, vector, node, made) PROVE Outcome(h, vector, t, roots, made)
  <2> DEFINE Y == X \cup {made.node}
             g == made.heap
  <2>1. Extends(h, g) /\ DOMAIN g = DOMAIN h \cup {made.node} /\ g[made.node] = node
    BY <1>1, <1>5 DEF MadeWell, Interned, MadeNew
  <2>2. Range(node.kids) \subseteq X
    BY <1>2, <1>3
  <2> HIDE DEF g
  <2>3. Unblanked(g, Y)
    BY <1>2, <1>3, <2>1, <2>2 DEF Unblanked, ClosedUnder, Extends
  <2>4. after \subseteq Y
    BY <1>3, <1>5 DEF MadeNew
  <2> HIDE DEF Y, after
  <2>5. Whole(made.heap, after)
    BY <2>3, <2>4 DEF Whole, g
  <2>6. Range(vector) \subseteq Range(made.nodes)
    BY <1>5 DEF MadeNew
  <2>7. StoreOK(made.heap, made.nodes, t) /\ Extends(h, made.heap)
    BY <1>1 DEF MadeWell, Interned
  <2> QED BY <2>5, <2>6, <2>7 DEF Outcome, after
<1> QED BY <1>1, <1>4, <1>5 DEF MadeWell, Interned, made

(* No node is created: the node returned is one that was reached. *)
LEMMA StoreOutcome ==
    ASSUME NEW h, NEW vector, NEW t, StoreOK(h, vector, t),
           NEW roots, Whole(h, roots), Range(vector) \subseteq roots,
           NEW i, \A X : Unblanked(h, X) /\ roots \subseteq X => i \in X
    PROVE  Outcome(h, vector, t, roots, Store(h, vector, i))
<1>1. PICK X : Unblanked(h, X) /\ roots \subseteq X
  BY DEF Whole
<1>2. roots \cup Range(vector) \cup {i} \subseteq X
  BY <1>1
<1>3. Whole(h, roots \cup Range(vector) \cup {i})
  BY <1>1, <1>2 DEF Whole
<1> QED BY <1>3 DEF Outcome, Store, Extends

(* One such step after another. *)
LEMMA OutcomeTwice ==
    ASSUME NEW h, NEW vector, NEW t, NEW roots, NEW s, Outcome(h, vector, t, roots, s),
           NEW u, Outcome(s.heap, s.nodes, t, roots \cup Range(s.nodes) \cup {s.node}, u)
    PROVE  Outcome(h, vector, t, roots, u)
<1>1. Extends(h, u.heap)
  BY DEF Outcome, Extends
<1>2. Whole(u.heap, roots \cup Range(u.nodes) \cup {u.node})
  <2>1. PICK X : /\ Unblanked(u.heap, X)
                 /\ roots \cup Range(s.nodes) \cup {s.node} \cup Range(u.nodes) \cup {u.node} \subseteq X
    BY DEF Outcome, Whole
  <2> QED BY <2>1 DEF Whole
<1> QED BY <1>1, <1>2 DEF Outcome
-----------------------------------------------------------------------------
(* The rewriter: a node like another, and what a handler puts in its place.  *)

(* Children of a node that can be reached can be reached. *)
LEMMA KidsReached ==
    ASSUME NEW h, Closed(h), NEW X, ClosedUnder(h, X), NEW i \in X
    PROVE  /\ h[i].kids \in Seq(DOMAIN h) /\ Len(h[i].kids) \in Nat
           /\ h[i].kids # << >> => Len(h[i].kids) >= 1
           /\ \A k \in 1 .. Len(h[i].kids) : h[i].kids[k] \in X
<1>1. i \in DOMAIN h /\ Range(h[i].kids) \subseteq X
  BY DEF ClosedUnder
<1>2. h[i].kids \in Seq(DOMAIN h)
  BY <1>1 DEF Closed
<1>3. h[i].kids # << >> => Len(h[i].kids) >= 1
  <2> DEFINE s == h[i].kids
  <2> HIDE DEF s
  <2>1. s \in Seq(DOMAIN h)
    BY <1>2 DEF s
  <2>2. s # << >> => Len(s) >= 1
    BY <2>1
  <2> QED BY <2>2 DEF s
<1> QED BY <1>1, <1>2, <1>3, KidsOf DEF Range

(* A default handler returns a constant, a child or a child's child. *)
LEMMA ReplacementReached ==
    ASSUME NEW h, Closed(h), NEW X, ClosedUnder(h, X), StaticIds \subseteq X, NEW i \in X,
           Replacement(h, i) # 0
    PROVE  Replacement(h, i) \in X
<1> DEFINE kids == h[i].kids
<1>1. True \in X /\ False \in X
  <2>1. 1 \in DOMAIN Statics /\ 2 \in DOMAIN Statics
    BY StaticsAssumption
  <2> QED BY <2>1 DEF StaticIds, True, False
<1>2. Len(kids) \in Nat /\ (kids # << >> => Len(kids) >= 1) /\ \A k \in 1 .. Len(kids) : kids[k] \in X
  BY KidsReached
<1> HIDE DEF kids
<1>3. CASE h[i].kind = "NOT" /\ kids # << >>
  <2> DEFINE a == kids[1]
  <2>1. a \in X
    BY <1>2, <1>3
  <2> HIDE DEF a
  <2>2. Replacement(h, i) = RuleNot(h, a)
    BY <1>3 DEF Replacement, kids, a
  <2>3. h[a].kids # << >> => h[a].kids[1] \in X
    <3>1. /\ Len(h[a].kids) \in Nat /\ (h[a].kids # << >> => Len(h[a].kids) >= 1)
          /\ \A k \in 1 .. Len(h[a].kids) : h[a].kids[k] \in X
      BY <2>1, KidsReached
    <3> QED BY <3>1
  <2>4. RuleNot(h, a) \in X \cup {0}
    BY <1>1, <2>3 DEF RuleNot
  <2> QED BY <2>2, <2>4
<1>4. CASE h[i].kind = "AND" /\ Len(kids) = 2
  <2> DEFINE l == kids[1]
             r == kids[2]
  <2>1. l \in X /\ r \in X
    BY <1>2, <1>4
  <2> HIDE DEF l, r
  <2>2. Replacement(h, i) = RuleAnd(l, r)
    BY <1>4 DEF Replacement, kids, l, r
  <2>3. RuleAnd(l, r) \in X \cup {0}
    BY <1>1, <2>1 DEF RuleAnd
  <2> QED BY <2>2, <2>3
<1>5. CASE h[i].kind = "ADD" /\ Len(kids) = 2
  <2> DEFINE l == kids[1]
             r == kids[2]
  <2>1. l \in X /\ r \in X
    BY <1>2, <1>5
  <2> HIDE DEF l, r
  <2>2. Replacement(h, i) = RuleAdd(h, l, r)
    BY <1>5 DEF Replacement, kids, l, r
  <2>3. RuleAdd(h, l, r) \in X \cup {0}
    BY <2>1 DEF RuleAdd
  <2> QED BY <2>2, <2>3
<1>6. CASE ~ (\/ h[i].kind = "NOT" /\ kids # << >>
              \/ h[i].kind = "AND" /\ Len(kids) = 2
              \/ h[i].kind = "ADD" /\ Len(kids) = 2)
  <2>1. Replacement(h, i) = 0
    BY <1>6 DEF Replacement, kids
  <2> QED BY <2>1
<1> QED BY <1>3, <1>4, <1>5, <1>6

(* Rebuilding keeps the store in order and creates from what is reached. *)
LEMMA RebuildOutcome ==
    ASSUME NEW h, NEW vector, NEW t, StoreOK(h, vector, t),
           NEW roots, Whole(h, roots), Range(vector) \subseteq roots, NEW i \in roots,
           NEW kids \in Seq(DOMAIN h), Len(kids) \in 0 .. 3, Range(kids) \subseteq roots
    PROVE  Outcome(h, vector, t, roots, RebuildLike(h, vector, i, kids))
<1>1. PICK X : Unblanked(h, X) /\ roots \subseteq X
  BY DEF Whole
<1>2. ~ (h[i].kind = "ERROR" /\ h[i].name = "")
  BY <1>1 DEF Unblanked, IsBlank
<1>3. Outcome(h, vector, t, roots, CreateNode(h, vector, h[i].kind, h[i].name, kids))
  BY <1>2, CreateOutcome
<1>4. Outcome(h, vector, t, roots, Store(h, vector, i))
  <2>1. \A Y : Unblanked(h, Y) /\ roots \subseteq Y => i \in Y
    OBVIOUS
  <2> QED BY <2>1, StoreOutcome
<1> QED BY <1>3, <1>4 DEF RebuildLike

(* So do the handlers. *)
LEMMA DispatchOutcome ==
    ASSUME NEW h, NEW vector, NEW t, NEW roots, StaticIds \subseteq roots,
           NEW s, Outcome(h, vector, t, roots, s)
    PROVE  Outcome(h, vector, t, roots, Dispatch(s))
<1> DEFINE g == s.heap
           v == s.nodes
           i == s.node
           from == roots \cup Range(v) \cup {i}
           j == Replacement(g, i)
           name == Exchanged(g[i].name)
           made == CreateNode(g, v, "VAR", name, << >>)
<1>1. StoreOK(g, v, t) /\ Whole(g, from) /\ Range(v) \subseteq from /\ StaticIds \subseteq from /\ i \in from
  BY DEF Outcome
<1>2. Dispatch(s) \in {made, Store(g, v, j), s} /\ (Dispatch(s) = Store(g, v, j) => j # 0 \/ Dispatch(s) \in {made, s})
  BY DEF Dispatch
<1> HIDE DEF g, v, i, from, j, name, made
<1>3. Outcome(g, v, t, from, made)
  <2>1. << >> \in Seq(DOMAIN g) /\ Len(<< >>) \in 0 .. 3 /\ Range(<< >>) \subseteq from
    BY DEF Range
  <2>2. ~ ("VAR" = "ERROR" /\ name = "")
    OBVIOUS
  <2> QED BY <1>1, <2>1, <2>2, CreateOutcome DEF made
<1>4. ASSUME j # 0 PROVE Outcome(g, v, t, from, Store(g, v, j))
  <2>1. Closed(g)
    BY <1>1, HeapClosed DEF StoreOK
  <2>2. ASSUME NEW X, Unblanked(g, X), from \subseteq X PROVE j \in X
    <3>1. ClosedUnder(g, X) /\ StaticIds \subseteq X /\ i \in X
      BY <1>1, <2>2 DEF Unblanked
    <3> QED BY <1>4, <2>1, <3>1, ReplacementReached DEF j
  <2> QED BY <1>1, <2>2, StoreOutcome
<1>5. \A u : Outcome(g, v, t, from, u) => Outcome(h, vector, t, roots, u)
  BY OutcomeTwice DEF g, v, i, from
<1> QED BY <1>2, <1>3, <1>4, <1>5
-----------------------------------------------------------------------------
(* The memo: what is known stays known while nodes are only added.          *)
LEMMA KnownGrows ==
    ASSUME NEW h, Closed(h), NEW g, Closed(g), Extends(h, g), NEW m, DOMAIN m \subseteq DOMAIN h,
           NEW x \in DOMAIN h, Known(h, m, x), NEW n, DOMAIN m \subseteq DOMAIN n
    PROVE  Known(g, n, x)
<1>1. PICK k \in DOMAIN m : NodeEqual(h, k, x)
  BY DEF Known, Keys
<1>2. k \in DOMAIN h /\ h[k].hash = h[x].hash /\ Same(h, k, x)
  BY <1>1 DEF NodeEqual
<1>3. Same(g, k, x)
  BY <1>2, ExtendsAgree, SameAgree
<1>4. g[k] = h[k] /\ g[x] = h[x]
  BY <1>2 DEF Extends
<1>5. NodeEqual(g, k, x)
  BY <1>2, <1>3, <1>4 DEF NodeEqual
<1> QED BY <1>1, <1>5 DEF Known, Keys

(* What is put into the memo is known. *)
LEMMA MemoisedKnown ==
    ASSUME NEW h, NEW m, NEW i, NEW j
    PROVE  /\ Known(h, Memoised(m, i, j), i)
           /\ DOMAIN Memoised(m, i, j) = DOMAIN m \cup {i}
           /\ Range(Memoised(m, i, j)) \subseteq Range(m) \cup {j}
<1>1. DOMAIN Memoised(m, i, j) = DOMAIN m \cup {i}
  BY DEF Memoised
<1>2. Known(h, Memoised(m, i, j), i)
  <2>1. NodeEqual(h, i, i)
    BY DEF NodeEqual, Same
  <2>2. i \in Keys(h, Memoised(m, i, j), i)
    BY <1>1, <2>1 DEF Keys
  <2> QED BY <2>2 DEF Known
<1>3. Range(Memoised(m, i, j)) \subseteq Range(m) \cup {j}
  BY DEF Memoised, Range
<1> QED BY <1>1, <1>2, <1>3

(* The memo answers with what it has. *)
LEMMA MemoAtIn ==
    ASSUME NEW h, NEW m, NEW i, Known(h, m, i)
    PROVE  MemoAt(h, m, i) \in Range(m)
<1>1. (CHOOSE k \in Keys(h, m, i) : TRUE) \in DOMAIN m
  BY DEF Known, Keys
<1> QED BY <1>1 DEF MemoAt, Range
-----------------------------------------------------------------------------
(* The stack of a pass.                                                     *)
Frames == [node : Nat, processed : BOOLEAN]

(* What pushing the last k nodes adds: all that are not skipped. *)
Pushed(stack, is, skipped, k, after) ==
    /\ after \in Seq(Frames) /\ Len(stack) <= Len(after)
    /\ \A p \in 1 .. Len(stack) : after[p] = stack[p]
    /\ \A p \in Len(stack) + 1 .. Len(after) : after[p].node \in Range(is) /\ ~ after[p].processed
    /\ \A l \in Len(is) - k + 1 .. Len(is) :
          is[l] \in skipped \/ \E p \in Len(stack) + 1 .. Len(after) : after[p].node = is[l]

(* One more node is pushed. *)
LEMMA PushedOne ==
    ASSUME NEW stack \in Seq(Frames), NEW is \in Seq(Nat), NEW skipped, NEW k \in 1 .. Len(is),
           NEW s, Pushed(stack, is, skipped, k - 1, s)
    PROVE  LET i == is[Len(is) - k + 1]
           IN  Pushed(stack, is, skipped, k, IF i \in skipped THEN s ELSE Append(s, Frame(i)))
<1> DEFINE n == Len(is)
           i == is[n - k + 1]
           m == Len(s)
<1>1. n \in Nat /\ n - k + 1 \in 1 .. n /\ i \in Nat /\ i \in Range(is) /\ n - (k - 1) + 1 = n - k + 2
  BY DEF Range
<1>2. /\ s \in Seq(Frames) /\ Len(stack) <= m
      /\ \A p \in 1 .. Len(stack) : s[p] = stack[p]
      /\ \A p \in Len(stack) + 1 .. m : s[p].node \in Range(is) /\ ~ s[p].processed
      /\ \A l \in n - k + 2 .. n :
            is[l] \in skipped \/ \E p \in Len(stack) + 1 .. m : s[p].node = is[l]
  BY <1>1 DEF Pushed
<1>3. ASSUME NEW l \in n - k + 1 .. n PROVE l = n - k + 1 \/ l \in n - k + 2 .. n
  <2>1. k \in Int /\ n \in Int
    BY <1>1
  <2> HIDE DEF n
  <2> QED BY <2>1
<1>4. Len(stack) \in Nat /\ m \in Nat
  BY <1>2
<1>5. CASE i \in skipped
  <2>1. \A l \in n - k + 1 .. n :
            is[l] \in skipped \/ \E p \in Len(stack) + 1 .. m : s[p].node = is[l]
    BY <1>2, <1>3, <1>5
  <2>2. Pushed(stack, is, skipped, k, s)
    BY <1>2, <2>1 DEF Pushed
  <2> QED BY <1>5, <2>2
<1>6. CASE i \notin skipped
  <2> DEFINE f == Frame(i)
             u == Append(s, f)
  <2>1. f \in Frames /\ f.node = i /\ ~ f.processed
    BY <1>1 DEF Frame, Frames
  <2> HIDE DEF f, i
  <2>2. u \in Seq(Frames) /\ Len(u) = m + 1 /\ u[m + 1] = f /\ \A p \in 1 .. m : u[p] = s[p]
    BY <1>2, <2>1
  <2> HIDE DEF u, m, n
  <2>3. Len(stack) <= Len(u) /\ \A p \in 1 .. Len(stack) : u[p] = stack[p]
    BY <1>2, <1>4, <2>2
  <2>4. \A p \in Len(stack) + 1 .. Len(u) : p = m + 1 \/ (p \in Len(stack) + 1 .. m /\ u[p] = s[p])
    BY <1>4, <2>2
  <2>5. \A p \in Len(stack) + 1 .. Len(u) : u[p].node \in Range(is) /\ ~ u[p].processed
    BY <1>1, <1>2, <2>1, <2>2, <2>4
  <2>6. ASSUME NEW l \in n - k + 1 .. n
        PROVE  is[l] \in skipped \/ \E p \in Len(stack) + 1 .. Len(u) : u[p].node = is[l]
    <3>1. CASE l = n - k + 1
      <4>1. m + 1 \in Len(stack) + 1 .. Len(u) /\ u[m + 1].node = is[l]
        BY <1>2, <1>4, <2>1, <2>2, <3>1 DEF i
      <4> QED BY <4>1
    <3>2. CASE l \in n - k + 2 .. n
      <4>1. CASE is[l] \in skipped
        BY <4>1
      <4>2. CASE is[l] \notin skipped
        <5>1. PICK p \in Len(stack) + 1 .. m : s[p].node = is[l]
          BY <1>2, <3>2, <4>2
        <5>2. p \in Len(stack) + 1 .. Len(u) /\ u[p] = s[p]
          BY <1>4, <2>2, <5>1
        <5> QED BY <5>1, <5>2
      <4> QED BY <4>1, <4>2
    <3> QED BY <1>3, <3>1, <3>2
  <2>7. Pushed(stack, is, skipped, k, u)
    BY <2>2, <2>3, <2>5, <2>6 DEF Pushed, n
  <2> QED BY <1>6, <2>7 DEF u, f, i, n
<1> QED BY <1>5, <1>6

(* PushAll pushes all of them. *)
LEMMA PushAllPushes ==
    ASSUME NEW stack \in Seq(Frames), NEW is \in Seq(Nat), NEW skipped
    PROVE  Pushed(stack, is, skipped, Len(is), PushAll(stack, is, skipped))
<1> DEFINE n == Len(is)
           next(s, k) == IF is[n - k + 1] \in skipped THEN s ELSE Append(s, Frame(is[n - k + 1]))
           S == [k \in 0 .. n |-> {s \in Seq(Frames) : Pushed(stack, is, skipped, k, s)}]
           g == [p \in (1 .. n) \X Seq(Frames) |-> next(p[2], p[1])]
           P(f) == f = [k \in 0 .. n |-> IF k = 0 THEN stack ELSE next(f[k - 1], k)]
           h == CHOOSE f : P(f)
<1>1. n \in Nat /\ \A k \in 1 .. n : k \in 0 .. n /\ k - 1 \in 0 .. n /\ k # 0
  OBVIOUS
<1>2. PushAll(stack, is, skipped) = h[n]
  BY DEF PushAll
<1>3. stack \in S[0]
  <2>1. /\ \A p \in Len(stack) + 1 .. Len(stack) : FALSE
        /\ \A l \in Len(is) - 0 + 1 .. Len(is) : FALSE
        /\ Len(stack) <= Len(stack)
    OBVIOUS
  <2>2. Pushed(stack, is, skipped, 0, stack)
    BY <2>1 DEF Pushed
  <2>3. 0 \in 0 .. n
    BY <1>1
  <2> QED BY <2>2, <2>3
<1>4. ASSUME NEW k \in 1 .. n, NEW s \in S[k - 1]
      PROVE  next(s, k) \in S[k] /\ g[<<k, s>>] = next(s, k)
  <2>1. s \in Seq(Frames) /\ Pushed(stack, is, skipped, k - 1, s)
    BY <1>1
  <2>2. Pushed(stack, is, skipped, k, next(s, k))
    BY <2>1, PushedOne
  <2> HIDE DEF next
  <2>3. next(s, k) \in S[k]
    BY <1>1, <2>2 DEF Pushed
  <2>4. g[<<k, s>>] = next(s, k)
    BY <2>1
  <2> QED BY <2>3, <2>4
<1>5. \A k \in 0 .. n : S[k] = {s \in Seq(Frames) : Pushed(stack, is, skipped, k, s)}
  OBVIOUS
<1> HIDE DEF n, next, S, g
<1>6. PICK r : Turns(r, n, stack, g) /\ Throughout(r, n, S)
  <2>1. Leads(g, n, S)
    BY <1>4 DEF Leads
  <2> QED BY <1>1, <1>3, <2>1, TurnsExist
<1>7. r[0] = stack /\ \A k \in 1 .. n : r[k] = next(r[k - 1], k)
  BY <1>1, <1>4, <1>6 DEF Turns, Throughout
<1>8. P([k \in 0 .. n |-> r[k]])
  BY <1>1, <1>7
<1>9. P(h)
  <2> HIDE DEF P
  <2> QED BY <1>8
<1> HIDE DEF h
<1>10. h[0] = stack /\ \A k \in 1 .. n : h[k] = next(h[k - 1], k)
  <2>1. \A k \in 0 .. n : h[k] = IF k = 0 THEN stack ELSE next(h[k - 1], k)
    BY <1>9, Zenon
  <2>2. 0 \in 0 .. n
    BY <1>1
  <2> HIDE DEF P
  <2> QED BY <1>1, <2>1, <2>2
<1>11. Throughout(h, n, S)
  <2>1. h[0] \in S[0]
    BY <1>3, <1>10
  <2>2. \A k \in 1 .. n : h[k - 1] \in S[k - 1] => h[k] \in S[k]
    BY <1>4, <1>10
  <2> QED BY <1>1, <2>1, <2>2, TurnsKeep
<1>12. h[n] \in S[n] /\ n \in 0 .. n
  BY <1>1, <1>11 DEF Throughout
<1> QED BY <1>2, <1>5, <1>12 DEF n
-----------------------------------------------------------------------------
(* What the operations do to the store.                                     *)

(* Nodes without a reference go. *)
LEMMA CollectedKeeps ==
    ASSUME NEW h, NEW vector, NEW t, StoreOK(h, vector, t),
           NEW outside, Whole(h, outside \cup Range(vector) \cup StaticIds),
           NEW g, g = Collected(h, vector, outside)
    PROVE  /\ StoreOK(g, vector, t \cap DOMAIN g)
           /\ Whole(g, outside \cup Range(vector) \cup StaticIds)
<1> DEFINE roots == Range(vector) \cup outside
<1>1. HeapOK(h) /\ StaticsOK(h) /\ Closed(h)
  BY HeapClosed DEF StoreOK
<1>2. LeftOver(h, roots, g)
  BY <1>1, CollectedLeaves
<1>3. /\ g = [i \in DOMAIN g |-> h[i]] /\ ClosedUnder(h, DOMAIN g)
      /\ DOMAIN h \cap (roots \cup StaticIds) \subseteq DOMAIN g
  BY <1>2 DEF LeftOver
<1>4. DOMAIN g \subseteq DOMAIN h /\ \A i \in DOMAIN g : g[i] = h[i] /\ Range(h[i].kids) \subseteq DOMAIN g
  BY <1>3 DEF ClosedUnder
<1>5. PICK X : Unblanked(h, X) /\ roots \cup StaticIds \subseteq X
  BY DEF Whole
<1>6. /\ X \subseteq DOMAIN h /\ \A i \in X : Range(h[i].kids) \subseteq X
      /\ \A i \in X : ~ IsBlank(h[i])
  BY <1>5 DEF Unblanked, ClosedUnder
<1>7. roots \cup StaticIds \subseteq DOMAIN g
  BY <1>3, <1>5, <1>6
<1>8. HeapOK(g)
  <2>1. IsFiniteSet(DOMAIN g) /\ 0 \notin DOMAIN g /\ StaticIds \subseteq DOMAIN g
    BY <1>1, <1>4, <1>7, FS_Subset DEF HeapOK
  <2>2. ASSUME NEW i \in DOMAIN g PROVE i \in Nat /\ NodeOK(g[i], DOMAIN g)
    <3>1. i \in DOMAIN h /\ g[i] = h[i] /\ Range(h[i].kids) \subseteq DOMAIN g
      BY <1>4
    <3>2. i \in Nat /\ NodeOK(h[i], DOMAIN h)
      BY <1>1, <3>1 DEF HeapOK
    <3>3. h[i].kids \in Seq(DOMAIN g)
      <4>1. /\ Len(h[i].kids) \in Nat /\ DOMAIN h[i].kids = 1 .. Len(h[i].kids)
            /\ h[i].kids \in Seq(DOMAIN h)
        BY <1>1, <3>1, KidsOf DEF Closed
      <4>2. \A k \in 1 .. Len(h[i].kids) : h[i].kids[k] \in DOMAIN g
        BY <3>1, <4>1 DEF Range
      <4> DEFINE s == h[i].kids
      <4> HIDE DEF s
      <4>3. s \in Seq(DOMAIN h) /\ \A k \in 1 .. Len(s) : s[k] \in DOMAIN g
        BY <4>1, <4>2 DEF s
      <4>4. s \in Seq(DOMAIN g)
        BY <4>3
      <4> QED BY <4>4 DEF s
    <3> QED BY <3>1, <3>2, <3>3 DEF NodeOK
  <2>3. g = [i \in DOMAIN g |-> g[i]]
    BY <1>3, <1>4
  <2> QED BY <2>1, <2>2, <2>3 DEF HeapOK
<1>9. StaticsOK(g)
  BY <1>1, <1>4, <1>7 DEF StaticsOK
<1>10. StoreOK(g, vector, t \cap DOMAIN g)
  <2>1. Range(vector) \subseteq DOMAIN g
    BY <1>7
  <2>2. \A i \in DOMAIN g : g[i].hash = h[i].hash /\ (i \notin t \cap DOMAIN g => g[i] = h[i])
    BY <1>4
  <2>3. DOMAIN g \subseteq DOMAIN h
    BY <1>4
  <2>4. t \cap DOMAIN g \subseteq t \cap DOMAIN g
    OBVIOUS
  <2> DEFINE u == t \cap DOMAIN g
  <2> HIDE DEF u, roots
  <2>5. StoreOK(g, vector, u)
    BY <1>8, <1>9, <2>1, <2>2, <2>3, <2>4, StoreChanged DEF u
  <2> QED BY <2>5 DEF u
<1>11. Unblanked(g, X \cap DOMAIN g)
  BY <1>4, <1>6 DEF Unblanked, ClosedUnder
<1>12. outside \cup Range(vector) \cup StaticIds \subseteq X \cap DOMAIN g
  BY <1>5, <1>7
<1> QED BY <1>10, <1>11, <1>12 DEF Whole

(* A node is changed in place. *)
LEMMA ChangedKeeps ==
    ASSUME NEW h, NEW vector, NEW t, StoreOK(h, vector, t), NEW roots, Whole(h, roots),
           NEW i \in roots, h[i].kind \in {"VAR", "FUNC_DEC"},
           NEW g, g = [h EXCEPT ![i] = g[i]], NodeOK(g[i], DOMAIN h), g[i].hash = h[i].hash,
           ~ IsBlank(g[i]), Range(g[i].kids) \subseteq Range(h[i].kids) \cup roots
    PROVE  StoreOK(g, vector, t \cup {i}) /\ Whole(g, roots)
<1>1. HeapOK(h) /\ StaticsOK(h) /\ VectorOK(h, vector)
  BY DEF StoreOK
<1>2. PICK X : Unblanked(h, X) /\ roots \subseteq X
  BY DEF Whole
<1>3. /\ X \subseteq DOMAIN h /\ i \in X /\ \A j \in X : Range(h[j].kids) \subseteq X
      /\ \A j \in X : ~ IsBlank(h[j])
  BY <1>2 DEF Unblanked, ClosedUnder
<1>4. DOMAIN g = DOMAIN h /\ \A j \in DOMAIN h : j # i => g[j] = h[j]
  BY <1>1, <1>3 DEF HeapOK
<1>5. i \notin StaticIds
  BY <1>1 DEF StaticsOK
<1>6. HeapOK(g)
  <2>1. \A j \in DOMAIN g : j \in Nat /\ NodeOK(g[j], DOMAIN g)
    BY <1>1, <1>4 DEF HeapOK
  <2>2. g = [j \in DOMAIN g |-> g[j]]
    <3> DEFINE f == [h EXCEPT ![i] = g[i]]
    <3>1. f = [j \in DOMAIN f |-> f[j]]
      OBVIOUS
    <3>2. f = g
      OBVIOUS
    <3> HIDE DEF f
    <3> QED BY <3>1, <3>2
  <2> QED BY <1>1, <1>4, <2>1, <2>2 DEF HeapOK
<1>7. StaticsOK(g)
  BY <1>1, <1>4, <1>5 DEF StaticsOK, HeapOK
<1>8. StoreOK(g, vector, t \cup {i})
  <2>1. DOMAIN g \subseteq DOMAIN h /\ Range(vector) \subseteq DOMAIN g
    BY <1>1, <1>4, VectorIndex DEF VectorOK
  <2>2. \A j \in DOMAIN g : g[j].hash = h[j].hash /\ (j \notin t \cup {i} => g[j] = h[j])
    BY <1>4
  <2>3. t \cap DOMAIN g \subseteq t \cup {i}
    OBVIOUS
  <2> DEFINE u == t \cup {i}
  <2> HIDE DEF u
  <2>4. StoreOK(g, vector, u)
    BY <1>6, <1>7, <2>1, <2>2, <2>3, StoreChanged DEF u
  <2> QED BY <2>4 DEF u
<1>9. Unblanked(g, X)
  <2>1. Range(g[i].kids) \subseteq X
    BY <1>2, <1>3
  <2>2. \A j \in X : Range(g[j].kids) \subseteq X /\ ~ IsBlank(g[j])
    BY <1>3, <1>4, <2>1
  <2> QED BY <1>3, <1>4, <2>2 DEF Unblanked, ClosedUnder
<1> QED BY <1>2, <1>8, <1>9 DEF Whole
-----------------------------------------------------------------------------
(* clear: the nodes with more references than the manager accounts for.     *)

(* A node has more when it is referred to from outside, or is a child of a   *)
(* node that the manager does not have.                                     *)
LEMMA CountsDiffer ==
    ASSUME HeapOK(heap), nodes \in Seq(DOMAIN heap), NEW outside, NEW i \in Managed
    PROVE  (UseCount(i, outside) > InternalRefs(i))
              <=> (i \in outside \/ ~ (Links(heap, DOMAIN heap, i) \subseteq Links(heap, Managed, i)))
<1> DEFINE A == Links(heap, DOMAIN heap, i)
           B == Links(heap, Managed, i)
<1>1. Managed \subseteq DOMAIN heap
  BY VectorIndex, StaticsAssumption DEF Managed
<1>2. B \subseteq A
  BY <1>1 DEF Links
<1>3. IsFiniteSet(A)
  <2>1. IsFiniteSet(1 .. 3) /\ IsFiniteSet(DOMAIN heap)
    <3>1. 1 \in Int /\ 3 \in Int
      OBVIOUS
    <3>2. IsFiniteSet(1 .. 3)
      BY <3>1, FS_Interval
    <3> QED BY <3>2 DEF HeapOK
  <2>2. IsFiniteSet((DOMAIN heap) \X (1 .. 3))
    BY <2>1, FS_Product
  <2>3. A \subseteq (DOMAIN heap) \X (1 .. 3)
    BY DEF Links
  <2> HIDE DEF A
  <2> QED BY <2>2, <2>3, FS_Subset
<1> DEFINE a == Cardinality(A)
           b == Cardinality(B)
<1>4. UseCount(i, outside) = 2 + a + (IF i \in outside THEN 1 ELSE 0) /\ InternalRefs(i) = 2 + b
  BY DEF UseCount, InternalRefs
<1> HIDE DEF A, B
<1>5. a \in Nat /\ b \in Nat /\ b <= a /\ (a = b => A = B)
  BY <1>2, <1>3, FS_Subset, FS_CardinalityType
<1>6. A = B => a = b
  OBVIOUS
<1>7. A \subseteq B <=> A = B
  BY <1>2
<1> HIDE DEF a, b
<1>8. UseCount(i, outside) > InternalRefs(i) <=> (i \in outside \/ a # b)
  BY <1>4, <1>5
<1> QED BY <1>5, <1>6, <1>7, <1>8 DEF A, B

(* What a node outside of the manager refers to is kept with all below it. *)
LEMMA KeptClosed ==
    ASSUME HeapOK(heap), nodes \in Seq(DOMAIN heap), NEW outside \in SUBSET DOMAIN heap
    PROVE  /\ ClosedUnder(heap, (DOMAIN heap \ Managed) \cup Kept(outside))
           /\ outside \subseteq (DOMAIN heap \ Managed) \cup Kept(outside)
           /\ ClosedUnder(heap, Kept(outside))
<1> DEFINE from == { i \in Managed : UseCount(i, outside) > InternalRefs(i) }
           W == (DOMAIN heap \ Managed) \cup Kept(outside)
<1>1. Managed \subseteq DOMAIN heap
  BY VectorIndex, StaticsAssumption DEF Managed
<1>2. Closed(heap)
  BY HeapClosed
<1>3. Least(heap, from, Kept(outside))
  <2>1. from \in SUBSET DOMAIN heap
    BY <1>1
  <2>2. Kept(outside) = Reach(heap, from)
    BY DEF Kept
  <2> HIDE DEF from
  <2> QED BY <1>2, <2>1, <2>2, ReachLeast
<1>4. from \subseteq Kept(outside) /\ ClosedUnder(heap, Kept(outside))
  BY <1>3 DEF Least
<1>5. outside \subseteq W
  <2> SUFFICES ASSUME NEW i \in outside, i \in Managed PROVE i \in Kept(outside)
    OBVIOUS
  <2>1. i \in from
    BY CountsDiffer
  <2> QED BY <1>4, <2>1
<1>6. ASSUME NEW j \in W, NEW i \in Range(heap[j].kids) PROVE i \in W
  <2>1. CASE j \in Kept(outside)
    BY <1>4, <2>1 DEF ClosedUnder
  <2>2. CASE j \in DOMAIN heap \ Managed
    <3>1. PICK k \in DOMAIN heap[j].kids : heap[j].kids[k] = i
      BY DEF Range
    <3>2. /\ Len(heap[j].kids) \in 0 .. 3 /\ DOMAIN heap[j].kids = 1 .. Len(heap[j].kids)
          /\ i \in DOMAIN heap
      BY <1>2, <2>2, <3>1, KidsOf DEF HeapOK, NodeOK
    <3>3. k \in 1 .. 3
      <4> DEFINE n == Len(heap[j].kids)
      <4>1. n \in 0 .. 3 /\ k \in 1 .. n
        BY <3>2
      <4> HIDE DEF n
      <4> QED BY <4>1
    <3>4. <<j, k>> \in Links(heap, DOMAIN heap, i) /\ <<j, k>> \notin Links(heap, Managed, i)
      BY <2>2, <3>1, <3>3 DEF Links
    <3>5. CASE i \in Managed
      <4>1. UseCount(i, outside) > InternalRefs(i)
        BY <3>4, <3>5, CountsDiffer
      <4> QED BY <1>4, <3>5, <4>1
    <3>6. CASE i \notin Managed
      BY <3>2, <3>6
    <3> QED BY <3>5, <3>6
  <2> QED BY <2>1, <2>2
<1>7. ClosedUnder(heap, W)
  BY <1>1, <1>4, <1>6 DEF ClosedUnder
<1> QED BY <1>4, <1>5, <1>7

(* The constants are not among what the manager takes apart. *)
LEMMA StaticsUnmanaged ==
    ASSUME StoreOK(heap, nodes, touched)
    PROVE  /\ StaticIds \cap Managed = {}
           /\ StaticIds \subseteq Range(nodes) => DOMAIN heap \ Managed = StaticIds
<1> DEFINE m == Len(Statics)
           n == Len(nodes)
<1>1. /\ m \in Nat /\ StaticIds = 1 .. m /\ m >= 2
      /\ n \in Nat /\ DOMAIN nodes = 1 .. n
      /\ \A p, q \in 1 .. n : nodes[p] = nodes[q] => p = q
      /\ StaticIds \subseteq DOMAIN heap
  <2>1. Statics \in Seq(Range(Statics)) /\ m >= 2
    BY StaticsAssumption
  <2>2. m \in Nat /\ DOMAIN Statics = 1 .. m
    BY <2>1, VectorIndex
  <2>3. nodes \in Seq(DOMAIN heap) /\ \A p, q \in DOMAIN nodes : nodes[p] = nodes[q] => p = q
    BY DEF StoreOK, VectorOK
  <2>4. n \in Nat /\ DOMAIN nodes = 1 .. n
    BY <2>3, VectorIndex
  <2> QED BY <2>1, <2>2, <2>3, <2>4 DEF StaticIds, StoreOK, HeapOK
<1>2. Managed = { nodes[p] : p \in m + 1 .. n }
  BY DEF Managed
<1> HIDE DEF m, n
<1>3. \A p \in m + 1 .. n : p \in 1 .. n /\ p \notin 1 .. m
  BY <1>1
<1>4. CASE (\A i \in StaticIds : i \in DOMAIN nodes /\ nodes[i] = i) /\ DOMAIN heap \subseteq Range(nodes)
  <2>1. ASSUME NEW p \in m + 1 .. n, nodes[p] \in StaticIds PROVE FALSE
    <3> DEFINE i == nodes[p]
    <3>1. i \in 1 .. m /\ i \in 1 .. n /\ nodes[i] = nodes[p]
      BY <1>1, <1>4, <2>1
    <3> HIDE DEF i
    <3>2. i = p
      BY <1>1, <1>3, <3>1
    <3> QED BY <1>3, <3>1, <3>2
  <2>2. ASSUME NEW i \in DOMAIN heap \ Managed PROVE i \in StaticIds
    <3>1. PICK p \in 1 .. n : nodes[p] = i
      BY <1>1, <1>4 DEF Range
    <3>2. p \notin m + 1 .. n
      BY <1>2, <3>1
    <3>3. p \in 1 .. m
      BY <1>1, <3>1, <3>2
    <3>4. nodes[p] = p
      BY <1>1, <1>4, <3>3
    <3> QED BY <1>1, <3>1, <3>3, <3>4
  <2> QED BY <1>1, <1>2, <2>1, <2>2
<1>5. CASE StaticIds \cap Range(nodes) = {}
  <2>1. Managed \subseteq Range(nodes)
    BY <1>1, <1>2, <1>3 DEF Range
  <2>2. 1 \in StaticIds
    BY <1>1
  <2> QED BY <1>5, <2>1, <2>2
<1>6. AllListed(heap, nodes)
  BY DEF StoreOK
<1> QED BY <1>4, <1>5, <1>6 DEF AllListed

(* The nodes that are not kept are blanked, in place. *)
Blanked(cleared) == [i \in DOMAIN heap |-> IF i \in cleared THEN Blank(heap[i]) ELSE heap[i]]

BlankedWell(b, cleared, outside) ==
    /\ StoreOK(b, << >>, touched) /\ Whole(b, outside \cup StaticIds)
    /\ \A i \in DOMAIN heap : IF i \in cleared THEN b[i].kids = << >> ELSE b[i] = heap[i]
    /\ Agree(heap, b, (DOMAIN heap \ Managed) \cup Kept(outside)) /\ DOMAIN b = DOMAIN heap

LEMMA BlankedKeeps ==
    ASSUME StoreOK(heap, nodes, touched), NEW outside, Whole(heap, outside \cup StaticIds),
           NEW cleared, cleared = Managed \ Kept(outside), NEW b, b = Blanked(cleared)
    PROVE  BlankedWell(b, cleared, outside)
<1> DEFINE W == (DOMAIN heap \ Managed) \cup Kept(outside)
<1>1. HeapOK(heap) /\ StaticsOK(heap) /\ nodes \in Seq(DOMAIN heap)
  BY DEF StoreOK, VectorOK
<1>2. PICK X : Unblanked(heap, X) /\ outside \cup StaticIds \subseteq X
  BY DEF Whole
<1>3. /\ X \subseteq DOMAIN heap /\ \A i \in X : Range(heap[i].kids) \subseteq X
      /\ \A i \in X : ~ IsBlank(heap[i])
  BY <1>2 DEF Unblanked, ClosedUnder
<1>4. ClosedUnder(heap, W) /\ outside \subseteq W
  BY <1>1, <1>2, <1>3, KeptClosed
<1>5. StaticIds \cap cleared = {} /\ StaticIds \subseteq W /\ StaticIds \subseteq DOMAIN heap
  BY <1>1, StaticsUnmanaged DEF HeapOK
<1>6. W \cap cleared = {}
  OBVIOUS
<1> HIDE DEF W
<1>7. /\ DOMAIN b = DOMAIN heap /\ b = [i \in DOMAIN b |-> b[i]]
      /\ \A i \in DOMAIN heap : b[i] = IF i \in cleared THEN Blank(heap[i]) ELSE heap[i]
  <2> DEFINE f == [i \in DOMAIN heap |-> IF i \in cleared THEN Blank(heap[i]) ELSE heap[i]]
  <2>1. f = [i \in DOMAIN f |-> f[i]]
    OBVIOUS
  <2>2. b = f
    BY DEF Blanked
  <2> HIDE DEF f
  <2>3. b = [i \in DOMAIN b |-> b[i]]
    BY <2>1, <2>2
  <2> QED BY <2>3 DEF Blanked
<1>8. ASSUME NEW i \in DOMAIN heap
      PROVE  /\ NodeOK(Blank(heap[i]), DOMAIN heap) /\ Blank(heap[i]).kids = << >>
  <2>1. NodeOK(heap[i], DOMAIN heap)
    BY <1>1 DEF HeapOK
  <2> DEFINE node == heap[i]
  <2> HIDE DEF node
  <2>3. Blank(node) = [kind |-> "ERROR", name |-> "", kids |-> << >>, hash |-> node.hash]
    BY DEF Blank
  <2> DEFINE blank == [kind |-> "ERROR", name |-> "", kids |-> << >>, hash |-> node.hash]
  <2>4. /\ blank = [kind |-> blank.kind, name |-> blank.name, kids |-> blank.kids, hash |-> blank.hash]
        /\ blank.kids = << >>
    OBVIOUS
  <2> HIDE DEF blank
  <2>5. << >> \in Seq(DOMAIN heap) /\ Len(<< >>) \in 0 .. 3
    OBVIOUS
  <2>6. NodeOK(blank, DOMAIN heap)
    BY <2>4, <2>5 DEF NodeOK
  <2> QED BY <2>3, <2>4, <2>6 DEF node, blank
<1>9. HeapOK(b)
  <2>1. ASSUME NEW i \in DOMAIN heap PROVE i \in Nat /\ NodeOK(b[i], DOMAIN heap)
    <3>1. i \in Nat /\ NodeOK(heap[i], DOMAIN heap)
      BY <1>1 DEF HeapOK
    <3>2. CASE i \in cleared
      BY <1>7, <1>8, <3>1, <3>2
    <3>3. CASE i \notin cleared
      BY <1>7, <3>1, <3>3
    <3> QED BY <3>2, <3>3
  <2>2. IsFiniteSet(DOMAIN heap) /\ 0 \notin DOMAIN heap /\ StaticIds \subseteq DOMAIN heap
    BY <1>1 DEF HeapOK
  <2> QED BY <1>7, <2>1, <2>2 DEF HeapOK
<1>10. StaticsOK(b)
  BY <1>1, <1>5, <1>7 DEF StaticsOK
<1>11. StoreOK(b, << >>, touched)
  <2>1. DOMAIN << >> = {} /\ << >> \in Seq(DOMAIN b) /\ Range(<< >>) = {}
    BY DEF Range
  <2>2. VectorOK(b, << >>) /\ HashesKept(b, << >>, touched) /\ AllListed(b, << >>) /\ OnceIn(b, << >>, touched)
    BY <2>1 DEF VectorOK, HashesKept, AllListed, OnceIn
  <2> QED BY <1>9, <1>10, <2>2 DEF StoreOK
<1>12. Whole(b, outside \cup StaticIds)
  <2>1. \A i \in X \cap W : b[i] = heap[i] /\ i \in DOMAIN heap
    BY <1>3, <1>6, <1>7
  <2>2. Unblanked(b, X \cap W)
    BY <1>3, <1>4, <1>7, <2>1 DEF Unblanked, ClosedUnder
  <2>3. outside \cup StaticIds \subseteq X \cap W
    BY <1>2, <1>4, <1>5
  <2> QED BY <2>2, <2>3 DEF Whole
<1>13. Agree(heap, b, W)
  BY <1>4, <1>6, <1>7 DEF Agree, ClosedUnder
<1>14. \A i \in DOMAIN heap : IF i \in cleared THEN b[i].kids = << >> ELSE b[i] = heap[i]
  BY <1>7, <1>8
<1> QED BY <1>7, <1>11, <1>12, <1>13, <1>14 DEF W, BlankedWell

(* The first clear leaves the constants and what is reached from outside. *)
LEMMA FirstClearLeaves ==
    ASSUME StoreOK(heap, nodes, touched), NEW outside, Whole(heap, outside \cup StaticIds),
           StaticIds \subseteq Range(nodes),
           NEW b, b = Blanked(Managed \ Kept(outside)), NEW g, g = Collected(b, << >>, outside)
    PROVE  DOMAIN g = StaticIds \cup Reach(heap, outside)
<1> DEFINE cleared == Managed \ Kept(outside)
           W == (DOMAIN heap \ Managed) \cup Kept(outside)
           R == Reach(heap, outside)
<1>1. /\ HeapOK(heap) /\ StaticsOK(heap) /\ nodes \in Seq(DOMAIN heap) /\ Closed(heap)
      /\ StaticIds \subseteq DOMAIN heap
  BY HeapClosed DEF StoreOK, VectorOK, HeapOK
<1>2. outside \subseteq DOMAIN heap
  BY DEF Whole, Unblanked, ClosedUnder
<1>3. /\ StoreOK(b, << >>, touched) /\ Agree(heap, b, W) /\ DOMAIN b = DOMAIN heap
      /\ \A i \in DOMAIN heap : IF i \in cleared THEN b[i].kids = << >> ELSE b[i] = heap[i]
  <2>1. cleared = Managed \ Kept(outside) /\ b = Blanked(cleared)
    OBVIOUS
  <2> HIDE DEF cleared
  <2>2. BlankedWell(b, cleared, outside)
    BY <2>1, BlankedKeeps
  <2> QED BY <2>2 DEF BlankedWell
<1>4. Closed(b)
  BY <1>3, HeapClosed DEF StoreOK
<1>5. ClosedUnder(heap, W) /\ outside \subseteq W /\ ClosedUnder(heap, Kept(outside))
  BY <1>1, <1>2, KeptClosed
<1>6. Reach(b, outside) = R /\ R \subseteq W
  <2> HIDE DEF W
  <2>1. outside \in SUBSET W
    BY <1>5
  <2>2. Agree(heap, b, W) /\ Closed(heap) /\ ClosedUnder(heap, W)
    BY <1>1, <1>3, <1>5
  <2>3. Reach(b, outside) = Reach(heap, outside) /\ Reach(heap, outside) \subseteq W
    BY <1>4, <2>1, <2>2, ReachAgree
  <2> QED BY <2>3
<1>7. Least(heap, outside, R) /\ Least(b, outside, R)
  <2>1. Least(heap, outside, Reach(heap, outside))
    BY <1>1, <1>2, ReachLeast
  <2>2. outside \in SUBSET DOMAIN b
    BY <1>2, <1>3
  <2>3. Least(b, outside, Reach(b, outside))
    BY <1>4, <2>2, ReachLeast
  <2> QED BY <1>6, <2>1, <2>3
<1>8. DOMAIN heap \ Managed = StaticIds
  BY StaticsUnmanaged
<1>9. \A i \in StaticIds : heap[i].kids = << >>
  BY <1>1 DEF StaticsOK
<1>10. Kept(outside) \subseteq R
  <2> DEFINE from == { i \in Managed : UseCount(i, outside) > InternalRefs(i) }
  <2>1. ASSUME NEW i \in from PROVE i \in outside
    <3> SUFFICES ASSUME i \notin outside PROVE FALSE
      OBVIOUS
    <3>1. ~ (Links(heap, DOMAIN heap, i) \subseteq Links(heap, Managed, i))
      BY <1>1, CountsDiffer
    <3>2. PICK l \in Links(heap, DOMAIN heap, i) : l \notin Links(heap, Managed, i)
      BY <3>1
    <3>3. l[1] \in DOMAIN heap \ Managed /\ l[2] \in DOMAIN heap[l[1]].kids
      BY <3>2 DEF Links
    <3>4. heap[l[1]].kids = << >>
      BY <1>8, <1>9, <3>3
    <3> QED BY <3>3, <3>4
  <2>2. from \in SUBSET outside
    BY <2>1
  <2>3. Kept(outside) = Reach(heap, from)
    BY DEF Kept
  <2> HIDE DEF from
  <2> QED BY <1>1, <1>2, <2>2, <2>3, ReachMonotone
<1>11. /\ LeftOver(b, Range(<< >>) \cup outside, g) /\ Range(<< >>) = {}
  <2>1. LeftOver(b, Range(<< >>) \cup outside, g)
    BY <1>4, CollectedLeaves
  <2> QED BY <2>1 DEF Range
<1>12. /\ ClosedUnder(b, DOMAIN g) /\ DOMAIN b \cap (outside \cup StaticIds) \subseteq DOMAIN g
       /\ \A x \in DOMAIN g : x \in outside \cup StaticIds \cup UNION { Kids(b, i) : i \in DOMAIN b }
  BY <1>11 DEF LeftOver
<1> HIDE DEF W, R
<1>13. StaticIds \cup R \subseteq DOMAIN g
  <2>1. StaticIds \cup outside \subseteq DOMAIN g
    BY <1>1, <1>2, <1>3, <1>12
  <2>2. R \subseteq DOMAIN g
    BY <1>7, <1>12, <2>1 DEF Least
  <2> QED BY <2>1, <2>2
<1>14. ASSUME NEW x \in DOMAIN g PROVE x \in StaticIds \cup R
  <2>1. CASE x \in outside \cup StaticIds
    BY <1>7, <2>1 DEF Least
  <2>2. CASE x \in UNION { Kids(b, i) : i \in DOMAIN b }
    <3>1. PICK i \in DOMAIN b : x \in Kids(b, i)
      BY <2>2
    <3>2. x \in Range(b[i].kids) /\ i \in DOMAIN heap
      BY <1>3, <1>4, <3>1, KidsOf
    <3>3. b[i].kids # << >>
      BY <1>11, <3>2
    <3>4. b[i] = heap[i] /\ i \notin cleared
      BY <1>3, <3>2, <3>3
    <3>5. i \notin StaticIds
      BY <1>9, <3>3, <3>4
    <3>6. i \in Kept(outside)
      BY <1>8, <3>2, <3>4, <3>5
    <3>7. x \in Kept(outside)
      BY <1>5, <3>2, <3>4, <3>6 DEF ClosedUnder
    <3> QED BY <1>10, <3>7
  <2> QED BY <1>12, <2>1, <2>2
<1> QED BY <1>13, <1>14 DEF R
-----------------------------------------------------------------------------
(* The invariant: the store is in order, what somebody can reach is there    *)
(* and was not cleared, and a pass finds in the memo what it asks for.       *)
Jobs == [op : {"idle", "once", "rewrite", "walk"}, root : Nat, round : Nat, stack : Seq(Frames)]

Roots == held \cup PassRefs \cup Range(nodes) \cup StaticIds

(* A node is in the memo, or on the stack above a frame. *)
Awaited(h, m, stack, p, i) ==
    Known(h, m, i) \/ \E q \in p + 1 .. Len(stack) : stack[q].node = i

(* The root of a pass and the children of a processed node will be in the    *)
(* memo when they are asked for.                                            *)
StackOK(h, m, j) ==
    j.op \in {"once", "rewrite"} =>
        /\ j.root # 0 /\ Awaited(h, m, j.stack, 0, j.root)
        /\ \A p \in 1 .. Len(j.stack) :
              j.stack[p].processed =>
                  \A x \in Range(h[j.stack[p].node].kids) : Awaited(h, m, j.stack, p, x)

PassOK ==
    /\ StoreOK(heap, nodes, touched) /\ touched \subseteq DOMAIN heap
    /\ visited \in Seq(Nat) /\ job \in Jobs
    /\ StackOK(heap, memo, job)
    /\ Whole(heap, Roots)

(* Without a call under way there is no stack to speak of. *)
LEMMA IdleStack == Idle \in Jobs /\ \A h, m : StackOK(h, m, Idle)
<1>1. << >> \in Seq(Frames)
  OBVIOUS
<1>2. Idle \in Jobs
  BY <1>1 DEF Idle, Jobs
<1>3. Idle.op = "idle"
  BY DEF Idle
<1> QED BY <1>2, <1>3 DEF StackOK

(* What is reached is an address. *)
LEMMA WholeAddresses ==
    ASSUME NEW h, HeapOK(h), NEW is, Whole(h, is)
    PROVE  is \subseteq DOMAIN h /\ is \subseteq Nat \ {0}
BY DEF Whole, Unblanked, ClosedUnder, HeapOK

LEMMA WholeSubset == ASSUME NEW h, NEW is, Whole(h, is), NEW js \in SUBSET is PROVE Whole(h, js)
BY DEF Whole

(* The store at the start: the constants, all different. *)
LEMMA InitStore == StoreInit => StoreOK(heap, nodes, touched) /\ Whole(heap, StaticIds) /\ nodes \in Seq(StaticIds)
<1> SUFFICES ASSUME StoreInit
             PROVE  StoreOK(heap, nodes, touched) /\ Whole(heap, StaticIds) /\ nodes \in Seq(StaticIds)
  OBVIOUS
<1> DEFINE m == Len(Statics)
           node(i) == Node(<< >>, Statics[i].kind, Statics[i].name, << >>)
<1>1. m \in Nat /\ StaticIds = 1 .. m
  <2>1. Statics \in Seq(Range(Statics))
    BY StaticsAssumption
  <2> QED BY <2>1, VectorIndex DEF StaticIds
<1>2. /\ DOMAIN heap = StaticIds /\ \A i \in StaticIds : heap[i] = node(i)
      /\ DOMAIN nodes = StaticIds /\ \A i \in StaticIds : nodes[i] = i
      /\ nodes = [i \in StaticIds |-> i] /\ touched = {}
  BY DEF StoreInit
<1>3. \A i \in StaticIds :
          /\ node(i).kind = Statics[i].kind /\ node(i).name = Statics[i].name /\ node(i).kids = << >>
          /\ node(i) = [kind |-> node(i).kind, name |-> node(i).name, kids |-> node(i).kids, hash |-> node(i).hash]
          /\ node(i).hash.kind = node(i).kind /\ node(i).hash.name = NameHash(node(i).name)
          /\ node(i).hash.kids = [k \in DOMAIN << >> |-> (<< >>)[(<< >>)[k]].hash]
          /\ node(i).hash = [kind |-> node(i).hash.kind, name |-> node(i).hash.name, kids |-> node(i).hash.kids]
  BY DEF Node
<1>4. \A i \in StaticIds :
          /\ Statics[i].kind \notin {"VAR", "FUNC_DEC"}
          /\ ~ (Statics[i].kind = "ERROR" /\ Statics[i].name = "")
  <2>1. \A i \in StaticIds : Statics[i] \in Range(Statics)
    BY DEF StaticIds, Range
  <2> QED BY <2>1, StaticsAssumption, StoreAssumption
<1> HIDE DEF node, m
<1>5. heap = [i \in DOMAIN heap |-> heap[i]]
  <2> DEFINE f == [i \in StaticIds |-> Node(<< >>, Statics[i].kind, Statics[i].name, << >>)]
  <2>1. f = [i \in DOMAIN f |-> f[i]]
    OBVIOUS
  <2>2. heap = f
    BY DEF StoreInit
  <2> HIDE DEF f
  <2> QED BY <2>1, <2>2
<1>6. IsFiniteSet(StaticIds) /\ StaticIds \subseteq Nat /\ 0 \notin StaticIds
  BY <1>1, FS_Interval
<1>7. << >> \in Seq(StaticIds) /\ Len(<< >>) \in 0 .. 3 /\ DOMAIN << >> = {} /\ Range(<< >>) = {}
  BY DEF Range
<1>8. HeapOK(heap)
  <2>1. \A i \in StaticIds : NodeOK(heap[i], StaticIds)
    BY <1>2, <1>3, <1>7 DEF NodeOK
  <2> QED BY <1>2, <1>5, <1>6, <2>1 DEF HeapOK
<1>9. ASSUME NEW i \in StaticIds
       PROVE  heap[i].kids = << >> /\ heap[i].kind = Statics[i].kind /\ heap[i].name = Statics[i].name
  <2>1. heap[i] = node(i)
    BY <1>2
  <2>2. node(i).kind = Statics[i].kind /\ node(i).name = Statics[i].name /\ node(i).kids = << >>
    BY <1>3
  <2> QED BY <2>1, <2>2
<1>10. StaticsOK(heap)
  BY <1>4, <1>9 DEF StaticsOK
<1>11. nodes \in Seq(StaticIds)
  <2>1. nodes = [i \in 1 .. m |-> i] /\ \A i \in 1 .. m : i \in StaticIds
    BY <1>1, <1>2
  <2> QED BY <1>1, <2>1
<1>12. VectorOK(heap, nodes)
  BY <1>2, <1>11 DEF VectorOK
<1>13. HashesKept(heap, nodes, touched)
  <2> SUFFICES ASSUME NEW i \in StaticIds PROVE HashKept(heap, heap[i])
    BY <1>2 DEF HashesKept
  <2>1. [k \in DOMAIN << >> |-> (<< >>)[(<< >>)[k]].hash] = [k \in DOMAIN << >> |-> heap[(<< >>)[k]].hash]
    BY <1>7
  <2>2. heap[i] = node(i) /\ node(i).kids = << >>
    BY <1>2, <1>3
  <2>3. HashKept(heap, node(i))
    BY <1>3, <2>1, <2>2 DEF HashKept
  <2> QED BY <2>2, <2>3
<1>14. AllListed(heap, nodes)
  <2>1. DOMAIN heap \subseteq Range(nodes)
    BY <1>2 DEF Range
  <2> QED BY <1>2, <2>1 DEF AllListed
<1>15. OnceIn(heap, nodes, touched)
  <2> SUFFICES ASSUME NEW p \in StaticIds, NEW q \in StaticIds, p < q, Same(heap, nodes[p], nodes[q])
               PROVE  FALSE
    BY <1>2 DEF OnceIn
  <2>1. p # q
    BY <1>6
  <2>2. Alike(heap[p], heap[q])
    BY <1>2, <2>1 DEF Same
  <2>3. Statics[p].kind = Statics[q].kind /\ Statics[p].name = Statics[q].name
    BY <1>2, <1>3, <2>2 DEF Alike
  <2> QED BY <2>1, <2>3, StaticsAssumption DEF StaticIds
<1>16. Whole(heap, StaticIds)
  <2>1. ASSUME NEW i \in StaticIds PROVE Range(heap[i].kids) = {} /\ ~ IsBlank(heap[i])
    BY <1>4, <1>7, <1>9 DEF IsBlank
  <2>2. Unblanked(heap, StaticIds)
    BY <1>2, <2>1 DEF Unblanked, ClosedUnder
  <2> QED BY <2>2 DEF Whole
<1> QED BY <1>8, <1>10, <1>11, <1>12, <1>13, <1>14, <1>15, <1>16 DEF StoreOK

LEMMA InitOK == Init => PassOK
<1> SUFFICES ASSUME Init PROVE PassOK
  OBVIOUS
<1>1. StoreOK(heap, nodes, touched) /\ Whole(heap, StaticIds) /\ nodes \in Seq(StaticIds)
  BY InitStore DEF Init
<1>2. touched = {} /\ held = StaticIds
  BY DEF Init, StoreInit
<1>3. visited = << >> /\ memo = << >> /\ job = Idle
  BY DEF Init
<1>4. PassRefs = {}
  <2>1. DOMAIN << >> = {} /\ Range(<< >>) = {}
    BY DEF Range
  <2>2. Idle.root = 0 /\ Idle.stack = << >>
    BY DEF Idle
  <2> QED BY <1>3, <2>1, <2>2 DEF PassRefs, CacheRefs, JobRefs
<1>5. Range(nodes) \subseteq StaticIds
  BY <1>1, VectorIndex
<1>6. Roots = StaticIds
  BY <1>2, <1>4, <1>5 DEF Roots
<1>7. << >> \in Seq(Nat)
  OBVIOUS
<1> QED BY <1>1, <1>2, <1>3, <1>6, <1>7, IdleStack DEF PassOK
-----------------------------------------------------------------------------
(* What the program does between calls.                                     *)

(* Without a call under way only the store and what is reached matter. *)
LEMMA BetweenCalls ==
    ASSUME PassOK, job = Idle, UNCHANGED passVars,
           StoreOK(heap', nodes', touched'), touched' \subseteq DOMAIN heap',
           Whole(heap', held' \cup PassRefs \cup Range(nodes') \cup StaticIds)
    PROVE  PassOK'
<1>1. visited' = visited /\ job' = Idle /\ memo' = memo
  BY DEF passVars
<1>2. PassRefs' = PassRefs
  BY <1>1 DEF PassRefs, CacheRefs, JobRefs
<1>3. Roots' = held' \cup PassRefs \cup Range(nodes') \cup StaticIds
  BY <1>2 DEF Roots, StaticIds
<1>4. StackOK(heap', memo', job') /\ job' \in Jobs
  BY <1>1, IdleStack
<1> QED BY <1>1, <1>3, <1>4 DEF PassOK

LEMMA CreateOK ==
    PassOK /\ job = Idle /\ CreateOne(Shapes) /\ UNCHANGED passVars
        => PassOK' /\ Range(nodes) \subseteq Range(nodes')
<1> SUFFICES ASSUME PassOK, job = Idle, UNCHANGED passVars,
                    NEW s \in Shapes, NEW kids \in [1 .. s.arity -> held], Create(s, kids)
             PROVE  PassOK' /\ Range(nodes) \subseteq Range(nodes')
  BY DEF CreateOne
<1> DEFINE made == CreateNode(heap, nodes, s.kind, s.name, kids)
<1>1. StoreOK(heap, nodes, touched) /\ Whole(heap, Roots) /\ touched \subseteq DOMAIN heap
  BY DEF PassOK
<1>2. Roots \subseteq DOMAIN heap
  BY <1>1, WholeAddresses DEF StoreOK
<1>3. held \subseteq Roots /\ Range(nodes) \subseteq Roots
  BY DEF Roots
<1>4. s.arity \in 0 .. 3 /\ ~ (s.kind = "ERROR" /\ s.name = "")
  BY StoreAssumption
<1>5. kids \in Seq(DOMAIN heap) /\ Len(kids) \in 0 .. 3 /\ Range(kids) \subseteq Roots
  <2> DEFINE n == s.arity
  <2>5. n \in 0 .. 3 /\ kids \in [1 .. n -> held]
    BY <1>4, Zenon
  <2> HIDE DEF n
  <2>1. n \in Nat /\ n \in 0 .. 3 /\ kids \in [1 .. n -> held]
    BY <2>5
  <2>2. kids \in [1 .. n -> DOMAIN heap]
    BY <1>2, <1>3, <2>1
  <2>3. kids \in Seq(DOMAIN heap) /\ Len(kids) = n
    BY <2>1, <2>2
  <2>4. Range(kids) \subseteq held
    BY <2>1 DEF Range
  <2> QED BY <1>3, <2>1, <2>3, <2>4
<1>6. Outcome(heap, nodes, touched, Roots, made)
  BY <1>1, <1>3, <1>4, <1>5, CreateOutcome
<1>7. heap' = made.heap /\ nodes' = made.nodes /\ held' = held \cup {made.node} /\ touched' = touched
  BY <1>1 DEF Create
<1> HIDE DEF made
<1>8. StoreOK(heap', nodes', touched') /\ touched' \subseteq DOMAIN heap'
  BY <1>1, <1>6, <1>7 DEF Outcome, Extends
<1>9. Whole(heap', held' \cup PassRefs \cup Range(nodes') \cup StaticIds)
  <2>1. Whole(heap', Roots \cup Range(nodes') \cup {made.node})
    BY <1>6, <1>7 DEF Outcome
  <2>2. held' \cup PassRefs \cup Range(nodes') \cup StaticIds \subseteq Roots \cup Range(nodes') \cup {made.node}
    BY <1>7 DEF Roots
  <2> QED BY <2>1, <2>2, WholeSubset
<1>10. Range(nodes) \subseteq Range(nodes')
  BY <1>6, <1>7 DEF Outcome
<1> QED BY <1>8, <1>9, <1>10, BetweenCalls

LEMMA DropOK == PassOK /\ job = Idle /\ DropOne /\ UNCHANGED passVars => PassOK'
<1> SUFFICES ASSUME PassOK, job = Idle, UNCHANGED passVars, NEW i \in held \ StaticIds, Drop(i, PassRefs)
             PROVE  PassOK'
  BY DEF DropOne
<1> DEFINE outside == held' \cup PassRefs
<1>1. StoreOK(heap, nodes, touched) /\ Whole(heap, Roots)
  BY DEF PassOK
<1>2. /\ held' = held \ {i} /\ nodes' = nodes /\ heap' = Collected(heap, nodes, outside)
      /\ touched' = touched \cap DOMAIN heap'
  BY DEF Drop
<1>3. outside \cup Range(nodes) \cup StaticIds \subseteq Roots
  BY <1>2 DEF Roots
<1> HIDE DEF outside
<1>4. Whole(heap, outside \cup Range(nodes) \cup StaticIds)
  BY <1>1, <1>3, WholeSubset
<1> DEFINE g == Collected(heap, nodes, outside)
<1>5. StoreOK(g, nodes, touched \cap DOMAIN g) /\ Whole(g, outside \cup Range(nodes) \cup StaticIds)
  <2>1. g = Collected(heap, nodes, outside)
    OBVIOUS
  <2> HIDE DEF g
  <2> QED BY <1>1, <1>4, <2>1, CollectedKeeps
<1>6. heap' = g
  BY <1>2
<1> HIDE DEF g
<1>7. StoreOK(heap', nodes', touched') /\ touched' \subseteq DOMAIN heap'
  BY <1>2, <1>5, <1>6
<1>8. Whole(heap', held' \cup PassRefs \cup Range(nodes') \cup StaticIds)
  BY <1>2, <1>5, <1>6 DEF outside
<1> QED BY <1>7, <1>8, BetweenCalls

LEMMA ClearOK == PassOK /\ job = Idle /\ Clear(PassRefs) /\ UNCHANGED passVars => PassOK'
<1> SUFFICES ASSUME PassOK, job = Idle, UNCHANGED passVars, Clear(PassRefs) PROVE PassOK'
  OBVIOUS
<1> DEFINE outside == held \cup PassRefs
           b == Blanked(Managed \ Kept(outside))
           g == Collected(b, << >>, outside)
<1>1. StoreOK(heap, nodes, touched) /\ Whole(heap, Roots)
  BY DEF PassOK
<1>2. heap' = g /\ nodes' = << >> /\ held' = held /\ touched' = touched \cap DOMAIN heap'
  BY DEF Clear, Blanked
<1>3. outside \cup StaticIds \subseteq Roots
  BY DEF Roots
<1>4. Range(<< >>) = {}
  BY DEF Range
<1> HIDE DEF outside
<1>5. Whole(heap, outside \cup StaticIds)
  BY <1>1, <1>3, WholeSubset
<1>6. StoreOK(b, << >>, touched) /\ Whole(b, outside \cup StaticIds)
  <2> DEFINE cleared == Managed \ Kept(outside)
  <2>1. cleared = Managed \ Kept(outside) /\ b = Blanked(cleared)
    OBVIOUS
  <2> HIDE DEF cleared, b
  <2>2. BlankedWell(b, cleared, outside)
    BY <1>1, <1>5, <2>1, BlankedKeeps
  <2> QED BY <2>2 DEF BlankedWell
<1> HIDE DEF b
<1>7. StoreOK(g, << >>, touched \cap DOMAIN g) /\ Whole(g, outside \cup StaticIds)
  <2>1. outside \cup Range(<< >>) \cup StaticIds = outside \cup StaticIds
    BY <1>4
  <2>2. Whole(b, outside \cup Range(<< >>) \cup StaticIds)
    BY <1>6, <2>1
  <2>3. g = Collected(b, << >>, outside)
    OBVIOUS
  <2> HIDE DEF g
  <2>4. StoreOK(g, << >>, touched \cap DOMAIN g) /\ Whole(g, outside \cup Range(<< >>) \cup StaticIds)
    BY <1>6, <2>2, <2>3, CollectedKeeps
  <2> QED BY <2>1, <2>4
<1> HIDE DEF g
<1>8. StoreOK(heap', nodes', touched') /\ touched' \subseteq DOMAIN heap'
  BY <1>2, <1>7
<1>9. Whole(heap', held' \cup PassRefs \cup Range(nodes') \cup StaticIds)
  <2>1. held' \cup PassRefs \cup Range(nodes') \cup StaticIds = outside \cup StaticIds
    BY <1>2, <1>4 DEF outside
  <2> QED BY <1>2, <1>7, <2>1
<1> QED BY <1>8, <1>9, BetweenCalls

(* A field of a record that is changed in place. *)
LEMMA RenameOK == PassOK /\ job = Idle /\ RenameOne /\ UNCHANGED passVars => PassOK'
<1> SUFFICES ASSUME PassOK, job = Idle, UNCHANGED passVars, NEW i \in held, NEW name, Rename(i, name)
             PROVE  PassOK'
  BY DEF RenameOne
<1> DEFINE g == [heap EXCEPT ![i].name = name]
<1>1. StoreOK(heap, nodes, touched) /\ Whole(heap, Roots) /\ touched \subseteq DOMAIN heap
  BY DEF PassOK
<1>2. heap[i].kind = "VAR" /\ heap' = g /\ touched' = touched \cup {i} /\ nodes' = nodes /\ held' = held
  BY DEF Rename
<1>3. i \in Roots
  BY DEF Roots
<1>4. i \in DOMAIN heap /\ NodeOK(heap[i], DOMAIN heap)
  BY <1>1, <1>3, WholeAddresses DEF StoreOK, HeapOK
<1>5. g = [heap EXCEPT ![i] = g[i]] /\ DOMAIN g = DOMAIN heap
  BY <1>4
<1>6. /\ g[i] = [kind |-> heap[i].kind, name |-> name, kids |-> heap[i].kids, hash |-> heap[i].hash]
  <2>1. g[i] = [heap[i] EXCEPT !.name = name]
    BY <1>4
  <2>2. heap[i] = [kind |-> heap[i].kind, name |-> heap[i].name, kids |-> heap[i].kids, hash |-> heap[i].hash]
    BY <1>4 DEF NodeOK
  <2> QED BY <2>1, <2>2
<1> HIDE DEF g
<1>7. NodeOK(g[i], DOMAIN heap) /\ ~ IsBlank(g[i]) /\ g[i].kids = heap[i].kids /\ g[i].hash = heap[i].hash
  BY <1>2, <1>4, <1>6 DEF NodeOK, IsBlank
<1>8. StoreOK(g, nodes, touched \cup {i}) /\ Whole(g, Roots)
  BY <1>1, <1>2, <1>3, <1>5, <1>7, ChangedKeeps
<1>9. Whole(heap', held' \cup PassRefs \cup Range(nodes') \cup StaticIds)
  BY <1>2, <1>8 DEF Roots
<1>10. StoreOK(heap', nodes', touched') /\ touched' \subseteq DOMAIN heap'
  BY <1>1, <1>2, <1>4, <1>5, <1>8
<1> QED BY <1>9, <1>10, BetweenCalls

LEMMA DefineOK == PassOK /\ job = Idle /\ DefineOne /\ UNCHANGED passVars => PassOK'
<1> SUFFICES ASSUME PassOK, job = Idle, UNCHANGED passVars,
                    NEW i \in held, NEW body \in held, UpdateFuncDef(i, body, PassRefs)
             PROVE  PassOK'
  BY DEF DefineOne
<1> DEFINE g == [heap EXCEPT ![i].kind = "FUNC_REC", ![i].kids = <<body>>]
           outside == held \cup PassRefs
           k == Collected(g, nodes, outside)
<1>1. StoreOK(heap, nodes, touched) /\ Whole(heap, Roots)
  BY DEF PassOK
<1>2. /\ heap[i].kind = "FUNC_DEC" /\ heap' = k /\ nodes' = nodes /\ held' = held
      /\ touched' = (touched \cup {i}) \cap DOMAIN heap'
  BY DEF UpdateFuncDef
<1>3. i \in Roots /\ body \in Roots
  BY DEF Roots
<1>4. i \in DOMAIN heap /\ body \in DOMAIN heap /\ NodeOK(heap[i], DOMAIN heap)
  BY <1>1, <1>3, WholeAddresses DEF StoreOK, HeapOK
<1>5. g = [heap EXCEPT ![i] = g[i]] /\ DOMAIN g = DOMAIN heap
  BY <1>4
<1>6. g[i] = [kind |-> "FUNC_REC", name |-> heap[i].name, kids |-> <<body>>, hash |-> heap[i].hash]
  <2>1. g[i] = [[heap[i] EXCEPT !.kind = "FUNC_REC"] EXCEPT !.kids = <<body>>]
    BY <1>4
  <2>2. heap[i] = [kind |-> heap[i].kind, name |-> heap[i].name, kids |-> heap[i].kids, hash |-> heap[i].hash]
    BY <1>4 DEF NodeOK
  <2> QED BY <2>1, <2>2
<1> HIDE DEF g
<1>7. NodeOK(g[i], DOMAIN heap) /\ ~ IsBlank(g[i]) /\ g[i].hash = heap[i].hash /\ Range(g[i].kids) \subseteq Roots
  <2>1. <<body>> \in Seq(DOMAIN heap) /\ Len(<<body>>) \in 0 .. 3
    BY <1>4
  <2>2. Range(<<body>>) \subseteq Roots
    BY <1>3 DEF Range
  <2> QED BY <1>6, <2>1, <2>2 DEF NodeOK, IsBlank
<1>8. StoreOK(g, nodes, touched \cup {i}) /\ Whole(g, Roots)
  BY <1>1, <1>2, <1>3, <1>5, <1>7, ChangedKeeps
<1>9. Whole(g, outside \cup Range(nodes) \cup StaticIds)
  BY <1>8 DEF Roots
<1> HIDE DEF outside
<1>10. /\ StoreOK(k, nodes, (touched \cup {i}) \cap DOMAIN k)
       /\ Whole(k, outside \cup Range(nodes) \cup StaticIds)
  <2>1. k = Collected(g, nodes, outside)
    OBVIOUS
  <2> HIDE DEF k
  <2> DEFINE u == touched \cup {i}
  <2> HIDE DEF u
  <2>2. StoreOK(g, nodes, u)
    BY <1>8 DEF u
  <2>3. StoreOK(k, nodes, u \cap DOMAIN k) /\ Whole(k, outside \cup Range(nodes) \cup StaticIds)
    BY <1>9, <2>1, <2>2, CollectedKeeps
  <2> QED BY <2>3 DEF u
<1> HIDE DEF k
<1>11. Whole(heap', held' \cup PassRefs \cup Range(nodes') \cup StaticIds)
  BY <1>2, <1>10 DEF outside
<1>12. StoreOK(heap', nodes', touched') /\ touched' \subseteq DOMAIN heap'
  BY <1>2, <1>10
<1> QED BY <1>11, <1>12, BetweenCalls
-----------------------------------------------------------------------------
(* The steps of a call.                                                     *)
LEMMA FrontLast ==
    ASSUME NEW T, NEW s \in Seq(T), s # << >>
    PROVE  /\ Len(s) \in Nat \ {0} /\ Last(s) = s[Len(s)] /\ Last(s) \in T
           /\ Front(s) \in Seq(T) /\ Len(Front(s)) = Len(s) - 1
           /\ \A p \in 1 .. Len(s) - 1 : Front(s)[p] = s[p]
<1>1. Len(s) \in Nat \ {0}
  OBVIOUS
<1>2. Last(s) = s[Len(s)] /\ Last(s) \in T
  BY <1>1 DEF Last
<1>3. /\ Front(s) \in Seq(T) /\ Len(Front(s)) = Len(s) - 1
      /\ \A p \in 1 .. Len(s) - 1 : Front(s)[p] = s[p]
  <2> DEFINE l == Len(s)
             t == SubSeq(s, 1, l - 1)
  <2>1. l \in Nat \ {0}
    BY <1>1
  <2>2. 1 \in 1 .. Len(s) + 1 /\ l - 1 \in 0 .. Len(s)
    BY <2>1
  <2> HIDE DEF l
  <2>3. /\ t \in Seq(T)
        /\ Len(t) = IF 1 <= l - 1 THEN (l - 1) - 1 + 1 ELSE 0
        /\ \A i \in 1 .. (l - 1) - 1 + 1 : t[i] = s[1 + i - 1]
    BY <2>2, SubSeqProperties
  <2> HIDE DEF t
  <2>4. Len(t) = l - 1 /\ \A p \in 1 .. l - 1 : t[p] = s[p]
    BY <2>1, <2>3
  <2> QED BY <2>3, <2>4 DEF Front, t, l
<1> QED BY <1>1, <1>2, <1>3

LEMMA JobFields ==
    ASSUME NEW j \in Jobs, NEW s \in Seq(Frames)
    PROVE  LET k == [j EXCEPT !.stack = s]
           IN  k \in Jobs /\ k.op = j.op /\ k.root = j.root /\ k.stack = s
BY DEF Jobs

(* What a call refers to. *)
LEMMA JobReaches ==
    ASSUME NEW j \in Jobs
    PROVE  /\ \A p \in 1 .. Len(j.stack) : j.stack[p] \in Frames /\ j.stack[p].node \in JobRefs(j)
           /\ j.root # 0 => j.root \in JobRefs(j)
           /\ \A S : (j.root # 0 => j.root \in S) /\ (\A p \in 1 .. Len(j.stack) : j.stack[p].node \in S)
                        => JobRefs(j) \subseteq S
<1>1. j.stack \in Seq(Frames)
  BY DEF Jobs
<1> DEFINE stack == j.stack
<1> HIDE DEF stack
<1>2. DOMAIN stack = 1 .. Len(stack) /\ \A p \in 1 .. Len(stack) : stack[p] \in Frames
  BY <1>1 DEF stack
<1>3. JobRefs(j) = ({j.root} \ {0}) \cup { stack[p].node : p \in 1 .. Len(stack) }
  BY <1>2 DEF JobRefs, Range, stack
<1>4. \A p \in 1 .. Len(stack) : stack[p] \in Frames /\ stack[p].node \in JobRefs(j)
  BY <1>2, <1>3
<1> QED BY <1>3, <1>4 DEF stack

(* The children of what can be reached can be reached. *)
LEMMA WholeKids ==
    ASSUME NEW h, NEW is, Whole(h, is), NEW i \in is
    PROVE  Whole(h, is \cup Range(h[i].kids))
<1>1. PICK X : Unblanked(h, X) /\ is \subseteq X
  BY DEF Whole
<1>2. is \cup Range(h[i].kids) \subseteq X
  BY <1>1 DEF Unblanked, ClosedUnder
<1> QED BY <1>1, <1>2 DEF Whole

(* A call goes on: nothing but its stack changes, or what was visited. *)
LEMMA StackChanges ==
    ASSUME PassOK, UNCHANGED <<storeVars, memo>>, visited' \in Seq(Nat), job' \in Jobs,
           StackOK(heap, memo, job'), NEW more, Whole(heap, Roots \cup more),
           Range(visited') \subseteq Roots \cup more, JobRefs(job') \subseteq Roots \cup more
    PROVE  PassOK'
<1>1. heap' = heap /\ nodes' = nodes /\ held' = held /\ touched' = touched /\ memo' = memo
  BY DEF storeVars
<1>2. Roots' \subseteq Roots \cup more
  BY <1>1 DEF Roots, PassRefs, CacheRefs, StaticIds
<1>3. Whole(heap', Roots')
  BY <1>1, <1>2, WholeSubset
<1> QED BY <1>1, <1>3 DEF PassOK

(* The stack without its top, which is in the memo now. *)
LEMMA StackPops ==
    ASSUME NEW h, NEW m, NEW j \in Jobs, j.stack # << >>, StackOK(h, m, j), Closed(h),
           j.op \in {"once", "rewrite"}, JobRefs(j) \subseteq DOMAIN h,
           NEW g, NEW n, Extends(h, g), Known(g, n, j.stack[Len(j.stack)].node),
           \A x \in DOMAIN h : Known(h, m, x) => Known(g, n, x)
    PROVE  StackOK(g, n, [j EXCEPT !.stack = Front(j.stack)])
<1> DEFINE stack == j.stack
           s == Front(stack)
           l == Len(stack)
           k == [j EXCEPT !.stack = s]
<1>1. stack \in Seq(Frames)
  BY DEF Jobs
<1>2. /\ l \in Nat \ {0} /\ s \in Seq(Frames) /\ Len(s) = l - 1
      /\ \A p \in 1 .. l - 1 : s[p] = stack[p]
  <2> HIDE DEF stack
  <2> QED BY <1>1, FrontLast DEF stack
<1>3. k.op = j.op /\ k.root = j.root /\ k.stack = s
  BY <1>2, JobFields
<1>4. \A p \in 1 .. l : stack[p].node \in DOMAIN h
  BY JobReaches
<1>5. /\ j.root # 0 /\ Awaited(h, m, stack, 0, j.root)
      /\ \A p \in 1 .. l : stack[p].processed =>
             \A x \in Range(h[stack[p].node].kids) : Awaited(h, m, stack, p, x)
  BY DEF StackOK
<1>6. j.root \in DOMAIN h
  BY <1>5, JobReaches
<1> HIDE DEF s, k, l, stack
<1>7. ASSUME NEW p \in 0 .. l - 1, NEW x \in DOMAIN h, Awaited(h, m, stack, p, x)
      PROVE  Awaited(g, n, s, p, x)
  <2>1. CASE Known(h, m, x)
    BY <2>1 DEF Awaited
  <2>2. CASE \E q \in p + 1 .. l : stack[q].node = x
    <3>1. PICK q \in p + 1 .. l : stack[q].node = x
      BY <2>2
    <3>2. CASE q = l
      BY <3>1, <3>2 DEF Awaited, stack, l
    <3>3. CASE q # l
      <4>1. q \in p + 1 .. Len(s) /\ q \in 1 .. l - 1
        BY <1>2, <3>1, <3>3
      <4>2. s[q].node = x
        BY <1>2, <3>1, <4>1
      <4> QED BY <4>1, <4>2 DEF Awaited
    <3> QED BY <3>2, <3>3
  <2> QED BY <1>7, <2>1, <2>2 DEF Awaited, l
<1>8. Awaited(g, n, s, 0, j.root)
  <2>1. 0 \in 0 .. l - 1
    BY <1>2
  <2> QED BY <1>5, <1>6, <1>7, <2>1
<1>9. ASSUME NEW p \in 1 .. Len(s), s[p].processed, NEW x \in Range(g[s[p].node].kids)
      PROVE  Awaited(g, n, s, p, x)
  <2>1. p \in 0 .. l - 1 /\ p \in 1 .. l /\ p \in 1 .. l - 1
    BY <1>2
  <2>2. s[p] = stack[p] /\ stack[p].node \in DOMAIN h
    BY <1>2, <1>4, <2>1
  <2>3. g[s[p].node] = h[stack[p].node]
    BY <2>2 DEF Extends
  <2>4. x \in Range(h[stack[p].node].kids)
    BY <1>9, <2>3
  <2>5. Awaited(h, m, stack, p, x)
    BY <1>5, <1>9, <2>1, <2>2, <2>4
  <2>6. x \in DOMAIN h
    BY <2>2, <2>4, KidsOf
  <2> QED BY <1>7, <2>1, <2>5, <2>6
<1>10. StackOK(g, n, k)
  BY <1>3, <1>5, <1>8, <1>9 DEF StackOK
<1> QED BY <1>10 DEF k, s, stack

(* The top was processed: its children are on the stack or in the memo. *)
LEMMA StackDescends ==
    ASSUME NEW h, NEW m, NEW j \in Jobs, j.stack # << >>, StackOK(h, m, j),
           NEW f \in Frames, f.node = j.stack[Len(j.stack)].node,
           NEW kids, kids = h[f.node].kids, kids \in Seq(Nat),
           NEW known, \A i \in known : Known(h, m, i),
           NEW u, Pushed(Append(Front(j.stack), f), kids, known, Len(kids), u)
    PROVE  StackOK(h, m, [j EXCEPT !.stack = u])
<1> DEFINE stack == j.stack
           l == Len(stack)
           s == Append(Front(stack), f)
           k == [j EXCEPT !.stack = u]
<1>1. stack \in Seq(Frames)
  BY DEF Jobs
<1>2. /\ l \in Nat \ {0} /\ Front(stack) \in Seq(Frames) /\ Len(Front(stack)) = l - 1
      /\ \A p \in 1 .. l - 1 : Front(stack)[p] = stack[p]
  <2> HIDE DEF stack
  <2> QED BY <1>1, FrontLast DEF stack
<1>3. /\ s \in Seq(Frames) /\ Len(s) = l /\ s[l] = f
      /\ \A p \in 1 .. l - 1 : s[p] = stack[p]
  <2> DEFINE t == Front(stack)
  <2> HIDE DEF t, l
  <2>1. /\ Append(t, f) \in Seq(Frames) /\ Len(Append(t, f)) = l /\ Append(t, f)[l] = f
        /\ \A p \in 1 .. l - 1 : Append(t, f)[p] = t[p]
    BY <1>2 DEF t
  <2> QED BY <1>2, <2>1 DEF t
<1>4. /\ u \in Seq(Frames) /\ l <= Len(u)
      /\ \A p \in 1 .. l : u[p] = s[p]
      /\ \A p \in l + 1 .. Len(u) : ~ u[p].processed
      /\ \A x \in Range(kids) : x \in known \/ \E p \in l + 1 .. Len(u) : u[p].node = x
  <2> HIDE DEF s, l
  <2>1. /\ u \in Seq(Frames) /\ l <= Len(u)
        /\ \A p \in 1 .. l : u[p] = s[p]
        /\ \A p \in l + 1 .. Len(u) : ~ u[p].processed
        /\ \A c \in Len(kids) - Len(kids) + 1 .. Len(kids) :
              kids[c] \in known \/ \E p \in l + 1 .. Len(u) : u[p].node = kids[c]
    BY <1>3 DEF Pushed, s
  <2>2. DOMAIN kids = Len(kids) - Len(kids) + 1 .. Len(kids)
    OBVIOUS
  <2>3. ASSUME NEW x \in Range(kids) PROVE x \in known \/ \E p \in l + 1 .. Len(u) : u[p].node = x
    <3>1. PICK c \in DOMAIN kids : kids[c] = x
      BY DEF Range
    <3> QED BY <2>1, <2>2, <3>1
  <2> QED BY <2>1, <2>3
<1>5. k.op = j.op /\ k.root = j.root /\ k.stack = u
  BY <1>4, JobFields
<1> SUFFICES ASSUME j.op \in {"once", "rewrite"} PROVE StackOK(h, m, k)
  BY <1>5 DEF StackOK
<1>6. /\ j.root # 0 /\ Awaited(h, m, stack, 0, j.root)
      /\ \A p \in 1 .. l : stack[p].processed =>
             \A x \in Range(h[stack[p].node].kids) : Awaited(h, m, stack, p, x)
  BY DEF StackOK
<1> HIDE DEF s, k, l, stack
<1>7. /\ Len(u) \in Nat
      /\ \A p \in 1 .. l : p = l \/ p \in 1 .. l - 1
      /\ \A p \in 1 .. Len(u) : p \in 1 .. l \/ p \in l + 1 .. Len(u)
  BY <1>2, <1>4
<1>8. \A p \in 1 .. l : u[p].node = stack[p].node
  BY <1>3, <1>4, <1>7 DEF stack, l
<1>9. ASSUME NEW p \in 0 .. l, NEW x, Awaited(h, m, stack, p, x) PROVE Awaited(h, m, u, p, x)
  <2>1. CASE Known(h, m, x)
    BY <2>1 DEF Awaited
  <2>2. CASE \E q \in p + 1 .. l : stack[q].node = x
    <3>1. PICK q \in p + 1 .. l : stack[q].node = x
      BY <2>2
    <3>2. q \in 1 .. l /\ q \in p + 1 .. Len(u)
      BY <1>2, <1>4, <1>7, <3>1
    <3> QED BY <1>8, <3>1, <3>2 DEF Awaited
  <2> QED BY <1>9, <2>1, <2>2 DEF Awaited, l
<1>10. Awaited(h, m, u, 0, j.root)
  <2>1. 0 \in 0 .. l
    BY <1>2
  <2> QED BY <1>6, <1>9, <2>1
<1>11. ASSUME NEW p \in 1 .. Len(u), u[p].processed, NEW x \in Range(h[u[p].node].kids)
       PROVE  Awaited(h, m, u, p, x)
  <2>1. CASE p = l
    <3>1. u[p].node = f.node
      BY <1>2, <1>3, <1>4, <2>1
    <3>2. x \in Range(kids)
      BY <1>11, <3>1
    <3> QED BY <1>4, <2>1, <3>2 DEF Awaited
  <2>2. CASE p \in 1 .. l - 1
    <3>1. p \in 1 .. l /\ p \in 0 .. l /\ u[p] = stack[p]
      BY SMTT(20), <1>2, <1>3, <1>4, <2>2
    <3>2. Awaited(h, m, stack, p, x)
      BY <1>6, <1>11, <3>1
    <3> QED BY <1>9, <3>1, <3>2
  <2>3. CASE p \in l + 1 .. Len(u)
    BY <1>4, <1>11, <2>3
  <2> QED BY <1>7, <2>1, <2>2, <2>3
<1>12. StackOK(h, m, k)
  BY <1>5, <1>6, <1>10, <1>11 DEF StackOK
<1> QED BY <1>12

(* A call, and the next pass of one, begins with its root on the stack. *)
LEMMA CallBegins ==
    ASSUME NEW op \in {"once", "rewrite", "walk"}, NEW i \in Nat \ {0}, NEW round \in Nat
    PROVE  LET j == Call(op, i, round)
           IN  j \in Jobs /\ (\A h, m : StackOK(h, m, j)) /\ JobRefs(j) \subseteq {i}
<1> DEFINE j == Call(op, i, round)
           f == Frame(i)
           s == <<f>>
<1>1. f \in Frames /\ f.node = i /\ f.processed = FALSE
  BY DEF Frame, Frames
<1> HIDE DEF f
<1>2. s \in Seq(Frames) /\ Len(s) = 1 /\ s[1] = f
  BY <1>1
<1>3. j.op = op /\ j.root = i /\ j.round = round /\ j.stack = s /\ j \in [op : {op}, root : {i}, round : {round}, stack : {s}]
  BY DEF Call, f
<1> HIDE DEF j, s
<1>4. j \in Jobs
  BY <1>2, <1>3 DEF Jobs
<1>5. 1 .. Len(s) = {1} /\ 0 + 1 .. Len(s) = {1}
  BY <1>2
<1>6. ASSUME NEW h, NEW m PROVE StackOK(h, m, j)
  BY <1>1, <1>2, <1>3, <1>5 DEF StackOK, Awaited
<1>7. JobRefs(j) \subseteq {i}
  BY <1>1, <1>2, <1>3, <1>4, <1>5, JobReaches
<1> QED BY <1>4, <1>6, <1>7 DEF j

LEMMA BeginOK ==
    PassOK /\ (\E i \in held : RewriteOnce(i) \/ Walk(i)) => PassOK'
<1> SUFFICES ASSUME PassOK, NEW i \in held, RewriteOnce(i) \/ Walk(i) PROVE PassOK'
  OBVIOUS
<1>1. PICK op \in {"once", "walk"} : job' = Call(op, i, 1)
  BY DEF RewriteOnce, Walk, Begin
<1>2. UNCHANGED <<storeVars, memo, visited>>
  BY DEF RewriteOnce, Walk, Begin, storeVars
<1>3. StoreOK(heap, nodes, touched) /\ Whole(heap, Roots) /\ i \in Roots /\ visited \in Seq(Nat)
  BY DEF PassOK, Roots
<1>4. i \in Nat \ {0}
  BY <1>3, WholeAddresses DEF StoreOK
<1>5. job' \in Jobs /\ StackOK(heap, memo, job') /\ JobRefs(job') \subseteq {i}
  BY <1>1, <1>4, CallBegins
<1>6. Whole(heap, Roots \cup {i})
  <2>1. Roots \cup {i} = Roots
    BY <1>3
  <2> QED BY <1>3, <2>1
<1>7. Range(visited') \subseteq Roots \cup {i} /\ visited' \in Seq(Nat)
  BY <1>2, <1>3 DEF Roots, PassRefs, CacheRefs
<1> QED BY <1>2, <1>5, <1>6, <1>7, StackChanges

(* A call that empties the memo: what only the memo referred to goes. *)
LEMMA MemoEmptied ==
    ASSUME PassOK, NEW others, Collecting(others), UNCHANGED <<nodes, held, visited>>, memo' = << >>,
           others \subseteq Roots, Range(visited) \subseteq others,
           job' \in Jobs, StackOK(heap', memo', job'), JobRefs(job') \subseteq held \cup others
    PROVE  PassOK'
<1> DEFINE outside == held \cup others
           g == Collected(heap, nodes, outside)
<1>1. StoreOK(heap, nodes, touched) /\ Whole(heap, Roots) /\ visited' \in Seq(Nat)
  BY DEF PassOK
<1>2. heap' = g /\ touched' = touched \cap DOMAIN heap'
  BY DEF Collecting
<1>3. outside \cup Range(nodes) \cup StaticIds \subseteq Roots
  BY DEF Roots
<1>4. Whole(heap, outside \cup Range(nodes) \cup StaticIds)
  <2> HIDE DEF outside
  <2> QED BY <1>1, <1>3, WholeSubset
<1>5. StoreOK(g, nodes, touched \cap DOMAIN g) /\ Whole(g, outside \cup Range(nodes) \cup StaticIds)
  <2>1. g = Collected(heap, nodes, outside)
    OBVIOUS
  <2> HIDE DEF g, outside
  <2> QED BY <1>1, <1>4, <2>1, CollectedKeeps
<1> HIDE DEF g
<1>6. DOMAIN memo' = {} /\ Range(memo') = {}
  BY DEF Range
<1>7. Roots' \subseteq outside \cup Range(nodes) \cup StaticIds
  BY <1>6 DEF Roots, PassRefs, CacheRefs, StaticIds
<1>8. Whole(heap', Roots')
  BY <1>2, <1>5, <1>7, WholeSubset
<1> QED BY <1>1, <1>2, <1>5, <1>8 DEF PassOK

LEMMA RewriteOK == PassOK /\ (\E i \in held : Rewrite(i)) => PassOK'
<1> SUFFICES ASSUME PassOK, NEW i \in held, Rewrite(i) PROVE PassOK'
  OBVIOUS
<1>1. job' = Call("rewrite", i, 1) /\ UNCHANGED <<nodes, held, visited>> /\ memo' = << >> /\ Collecting(Range(visited))
  BY DEF Rewrite, Begin
<1>2. StoreOK(heap, nodes, touched) /\ Whole(heap, Roots) /\ i \in Roots
  BY DEF PassOK, Roots
<1>3. i \in Nat \ {0}
  BY <1>2, WholeAddresses DEF StoreOK
<1>4. job' \in Jobs /\ StackOK(heap', memo', job') /\ JobRefs(job') \subseteq {i}
  BY <1>1, <1>3, CallBegins
<1>5. Range(visited) \subseteq Roots
  BY DEF Roots, PassRefs, CacheRefs
<1> QED BY <1>1, <1>4, <1>5, MemoEmptied

(* The stack of a call. *)
LEMMA CallStack ==
    ASSUME PassOK, job.stack # << >>
    PROVE  /\ job \in Jobs /\ job.stack \in Seq(Frames) /\ Len(job.stack) \in Nat \ {0}
           /\ Top = job.stack[Len(job.stack)] /\ Top \in Frames /\ Top.node \in Roots
           /\ Front(job.stack) \in Seq(Frames) /\ Len(Front(job.stack)) = Len(job.stack) - 1
           /\ \A p \in 1 .. Len(job.stack) - 1 : Front(job.stack)[p] = job.stack[p]
           /\ JobRefs(job) \subseteq Roots /\ Roots \subseteq DOMAIN heap /\ Roots \subseteq Nat
           /\ \A p \in 1 .. Len(job.stack) : job.stack[p].node \in Roots
<1>1. job \in Jobs /\ job.stack \in Seq(Frames)
  BY DEF PassOK, Jobs
<1>2. /\ Len(job.stack) \in Nat \ {0} /\ Top = job.stack[Len(job.stack)] /\ Top \in Frames
      /\ Front(job.stack) \in Seq(Frames) /\ Len(Front(job.stack)) = Len(job.stack) - 1
      /\ \A p \in 1 .. Len(job.stack) - 1 : Front(job.stack)[p] = job.stack[p]
  BY <1>1, FrontLast DEF Top
<1>3. JobRefs(job) \subseteq Roots
  BY DEF Roots, PassRefs
<1>4. \A p \in 1 .. Len(job.stack) : job.stack[p].node \in Roots
  BY <1>1, <1>3, JobReaches
<1>5. Roots \subseteq DOMAIN heap /\ Roots \subseteq Nat
  BY WholeAddresses DEF PassOK, StoreOK
<1>6. Top.node \in Roots
  <2> DEFINE l == Len(job.stack)
  <2>1. l \in Nat \ {0} /\ Top = job.stack[l]
    BY <1>2
  <2>2. \A p \in 1 .. l : job.stack[p].node \in Roots
    BY <1>4
  <2> HIDE DEF l
  <2> QED BY <2>1, <2>2
<1> QED BY <1>1, <1>2, <1>3, <1>4, <1>5, <1>6

(* What the stack without its top refers to. *)
LEMMA FrontReaches ==
    ASSUME PassOK, job.stack # << >>
    PROVE  LET j == [job EXCEPT !.stack = Front(job.stack)]
           IN  j \in Jobs /\ JobRefs(j) \subseteq Roots
<1> DEFINE s == Front(job.stack)
           j == [job EXCEPT !.stack = s]
<1>1. /\ job \in Jobs /\ s \in Seq(Frames) /\ Len(job.stack) \in Nat \ {0} /\ Len(s) = Len(job.stack) - 1
      /\ \A p \in 1 .. Len(job.stack) - 1 : s[p] = job.stack[p]
      /\ JobRefs(job) \subseteq Roots /\ \A p \in 1 .. Len(job.stack) : job.stack[p].node \in Roots
  BY CallStack
<1>2. j \in Jobs /\ j.root = job.root /\ j.stack = s
  BY <1>1, JobFields
<1> HIDE DEF j, s
<1>3. \A p \in 1 .. Len(s) : s[p].node \in Roots
  BY <1>1
<1>4. j.root # 0 => j.root \in Roots
  BY <1>1, <1>2, JobReaches
<1>5. JobRefs(j) \subseteq Roots
  BY <1>2, <1>3, <1>4, JobReaches
<1> QED BY <1>2, <1>5 DEF j, s

LEMMA PopOK == PassOK /\ Pop /\ UNCHANGED visited => PassOK'
<1> SUFFICES ASSUME PassOK, Pop, UNCHANGED visited PROVE PassOK'
  OBVIOUS
<1>1. /\ job.op \in {"once", "rewrite"} /\ job.stack # << >> /\ Known(heap, memo, Top.node)
      /\ job' = [job EXCEPT !.stack = Front(job.stack)] /\ UNCHANGED <<storeVars, memo>>
  BY DEF Pop, Rewriting
<1>2. job' \in Jobs /\ JobRefs(job') \subseteq Roots
  BY <1>1, FrontReaches
<1>3. Closed(heap) /\ StackOK(heap, memo, job) /\ Whole(heap, Roots) /\ visited' \in Seq(Nat)
  BY HeapClosed DEF PassOK, StoreOK
<1>4. /\ job \in Jobs /\ JobRefs(job) \subseteq DOMAIN heap
      /\ Known(heap, memo, job.stack[Len(job.stack)].node)
  BY <1>1, CallStack
<1>5. Extends(heap, heap)
  BY DEF Extends
<1>6. StackOK(heap, memo, job')
  BY <1>1, <1>3, <1>4, <1>5, StackPops
<1>7. Range(visited') \subseteq Roots \cup {} /\ Roots \cup {} = Roots
  BY DEF Roots, PassRefs, CacheRefs
<1>8. Whole(heap, Roots \cup {})
  BY <1>3, <1>7
<1> QED BY <1>1, <1>2, <1>3, <1>6, <1>7, <1>8, StackChanges

LEMMA DescendOK == PassOK /\ Descend /\ UNCHANGED visited => PassOK'
<1> SUFFICES ASSUME PassOK, Descend, UNCHANGED visited PROVE PassOK'
  OBVIOUS
<1> DEFINE top == Top.node
           kids == heap[top].kids
           known == { i \in Range(kids) : Known(heap, memo, i) }
           f == [Top EXCEPT !.processed = TRUE]
           s == Append(Front(job.stack), f)
           u == PushAll(s, kids, known)
<1>1. /\ job.op \in {"once", "rewrite"} /\ job.stack # << >> /\ UNCHANGED <<storeVars, memo>>
      /\ job' = [job EXCEPT !.stack = u]
  BY DEF Descend, Rewriting
<1>2. /\ job \in Jobs /\ Front(job.stack) \in Seq(Frames) /\ Len(job.stack) \in Nat \ {0}
      /\ Top = job.stack[Len(job.stack)] /\ Top \in Frames /\ top \in Roots
      /\ Len(Front(job.stack)) = Len(job.stack) - 1
      /\ \A p \in 1 .. Len(job.stack) - 1 : Front(job.stack)[p] = job.stack[p]
      /\ JobRefs(job) \subseteq Roots /\ Roots \subseteq DOMAIN heap /\ Roots \subseteq Nat
      /\ \A p \in 1 .. Len(job.stack) : job.stack[p].node \in Roots
  BY <1>1, CallStack
<1>3. f \in Frames /\ f.node = top
  BY <1>2 DEF Frames
<1>4. kids \in Seq(Nat)
  <2>1. HeapOK(heap) /\ top \in DOMAIN heap
    BY <1>2 DEF PassOK, StoreOK
  <2>2. kids \in Seq(DOMAIN heap) /\ DOMAIN heap \subseteq Nat
    BY <2>1 DEF HeapOK, NodeOK
  <2> HIDE DEF kids
  <2> QED BY <2>2
<1>5. s \in Seq(Frames)
  <2> HIDE DEF f
  <2> QED BY <1>2, <1>3
<1>6. Pushed(s, kids, known, Len(kids), u)
  <2> HIDE DEF s, kids, known
  <2> QED BY <1>4, <1>5, PushAllPushes
<1>7. \A i \in known : Known(heap, memo, i)
  OBVIOUS
<1>8. StackOK(heap, memo, job) /\ Whole(heap, Roots) /\ visited' \in Seq(Nat)
  BY DEF PassOK
<1>9. u \in Seq(Frames)
  BY <1>6 DEF Pushed
<1>10. job' \in Jobs /\ job'.root = job.root /\ job'.stack = u
  <2> HIDE DEF u
  <2> QED BY <1>1, <1>2, <1>9, JobFields
<1>11. StackOK(heap, memo, job')
  <2>1. f.node = job.stack[Len(job.stack)].node /\ kids = heap[f.node].kids
    BY <1>2, <1>3
  <2> HIDE DEF kids, known, f, u
  <2>2. Pushed(Append(Front(job.stack), f), kids, known, Len(kids), u)
    BY <1>6
  <2> HIDE DEF s
  <2> QED BY <1>1, <1>2, <1>3, <1>4, <1>7, <1>8, <2>1, <2>2, StackDescends
<1>12. JobRefs(job') \subseteq Roots \cup Range(kids)
  <2> DEFINE l == Len(job.stack)
  <2>1. l \in Nat \ {0} /\ Len(s) = l
        /\ s[l] = f /\ \A p \in 1 .. l - 1 : s[p] = job.stack[p]
    <3> DEFINE t == Front(job.stack)
    <3>1. t \in Seq(Frames) /\ l \in Nat \ {0} /\ Len(t) = l - 1 /\ \A p \in 1 .. l - 1 : t[p] = job.stack[p]
      BY <1>2
    <3> HIDE DEF t, f, l
    <3>2. Len(Append(t, f)) = l /\ Append(t, f)[l] = f /\ \A p \in 1 .. l - 1 : Append(t, f)[p] = t[p]
      BY <1>3, <3>1
    <3> QED BY <3>1, <3>2 DEF t
  <2>2. ASSUME NEW p \in 1 .. l PROVE s[p].node \in Roots
    <3>1. CASE p = l
      BY <1>2, <1>3, <2>1, <3>1
    <3>2. CASE p # l
      <4>1. p \in 1 .. l - 1 /\ p \in 1 .. Len(job.stack)
        BY <2>1, <3>2
      <4> QED BY <1>2, <2>1, <4>1
    <3> QED BY <3>1, <3>2
  <2> HIDE DEF u, s, kids, l, f
  <2>3. /\ Len(u) \in Nat /\ \A p \in 1 .. l : u[p] = s[p]
        /\ \A p \in l + 1 .. Len(u) : u[p].node \in Range(kids)
    BY <1>6, <1>9, <2>1 DEF Pushed
  <2>4. \A p \in 1 .. Len(u) : p \in 1 .. l \/ p \in l + 1 .. Len(u)
    BY <2>1, <2>3
  <2>5. \A p \in 1 .. Len(u) : u[p].node \in Roots \cup Range(kids)
    BY <2>2, <2>3, <2>4
  <2>6. job.root # 0 => job.root \in Roots
    BY <1>2, JobReaches
  <2> QED BY <1>10, <2>5, <2>6, JobReaches
<1>13. Whole(heap, Roots \cup Range(kids))
  BY <1>2, <1>8, WholeKids
<1>14. Range(visited') \subseteq Roots \cup Range(kids)
  BY DEF Roots, PassRefs, CacheRefs
<1> HIDE DEF kids
<1> QED BY <1>1, <1>8, <1>10, <1>11, <1>12, <1>13, <1>14, StackChanges

(* All children of a processed node on the top are in the memo. *)
LEMMA RebuildOK == PassOK /\ Rebuild /\ UNCHANGED visited => PassOK' /\ Range(nodes) \subseteq Range(nodes')
<1> SUFFICES ASSUME PassOK, Rebuild, UNCHANGED visited
             PROVE  PassOK' /\ Range(nodes) \subseteq Range(nodes')
  OBVIOUS
<1> DEFINE i == Top.node
           kids == [k \in DOMAIN heap[i].kids |-> MemoAt(heap, memo, heap[i].kids[k])]
           new == Dispatch(RebuildLike(heap, nodes, i, kids))
           l == Len(job.stack)
<1>1. /\ job.op \in {"once", "rewrite"} /\ job.stack # << >> /\ Top.processed
      /\ heap' = new.heap /\ nodes' = new.nodes /\ memo' = Memoised(memo, i, new.node)
      /\ job' = [job EXCEPT !.stack = Front(job.stack)] /\ held' = held /\ touched' = touched
  BY DEF Rebuild, Rewriting
<1>2. /\ job \in Jobs /\ l \in Nat \ {0} /\ Top = job.stack[l] /\ i \in Roots
      /\ JobRefs(job) \subseteq Roots /\ Roots \subseteq DOMAIN heap
  BY <1>1, CallStack
<1>3. /\ StoreOK(heap, nodes, touched) /\ Whole(heap, Roots) /\ HeapOK(heap) /\ Closed(heap)
      /\ StackOK(heap, memo, job) /\ touched \subseteq DOMAIN heap /\ visited' \in Seq(Nat)
  BY HeapClosed DEF PassOK, StoreOK
<1>4. /\ Range(memo) \subseteq Roots /\ DOMAIN memo \subseteq Roots /\ Range(nodes) \subseteq Roots
      /\ StaticIds \subseteq Roots /\ Range(visited') \subseteq Roots
  BY DEF Roots, PassRefs, CacheRefs
<1>5. ASSUME NEW x \in Range(heap[i].kids) PROVE Known(heap, memo, x)
  <2>1. \A p \in 1 .. l : job.stack[p].processed =>
            \A y \in Range(heap[job.stack[p].node].kids) : Awaited(heap, memo, job.stack, p, y)
    BY <1>1, <1>3 DEF StackOK
  <2>2. l \in 1 .. l /\ l + 1 .. l = {}
    BY <1>2
  <2>3. Awaited(heap, memo, job.stack, l, x)
    <3> HIDE DEF l
    <3> QED BY <1>1, <1>2, <1>5, <2>1, <2>2
  <2> QED BY <2>2, <2>3 DEF Awaited
<1>6. /\ heap[i].kids \in Seq(DOMAIN heap) /\ Len(heap[i].kids) \in 0 .. 3
      /\ DOMAIN heap[i].kids = 1 .. Len(heap[i].kids) /\ Len(heap[i].kids) \in Nat
  BY <1>2, <1>3, KidsOf DEF HeapOK, NodeOK
<1>7. \A k \in DOMAIN heap[i].kids : kids[k] \in Roots /\ kids[k] \in DOMAIN heap
  <2> SUFFICES ASSUME NEW k \in DOMAIN heap[i].kids PROVE kids[k] \in Roots
    BY <1>2
  <2>1. heap[i].kids[k] \in Range(heap[i].kids)
    BY DEF Range
  <2> QED BY <1>4, <1>5, <2>1, MemoAtIn
<1>8. kids \in Seq(DOMAIN heap) /\ Len(kids) \in 0 .. 3 /\ Range(kids) \subseteq Roots
  <2> DEFINE n == Len(heap[i].kids)
  <2>1. n \in Nat /\ n \in 0 .. 3 /\ DOMAIN kids = 1 .. n /\ kids = [k \in 1 .. n |-> kids[k]]
    BY <1>6
  <2>2. \A k \in 1 .. n : kids[k] \in Roots /\ kids[k] \in DOMAIN heap
    BY <1>6, <1>7
  <2> HIDE DEF n, kids
  <2>3. kids \in Seq(DOMAIN heap) /\ Len(kids) = n
    BY <2>1, <2>2
  <2>4. Range(kids) \subseteq Roots
    BY <2>1, <2>2 DEF Range
  <2> QED BY <2>1, <2>3, <2>4
<1>9. Outcome(heap, nodes, touched, Roots, new)
  <2>1. Outcome(heap, nodes, touched, Roots, RebuildLike(heap, nodes, i, kids))
    <3> HIDE DEF kids, i
    <3> QED BY <1>2, <1>3, <1>4, <1>8, RebuildOutcome
  <2> QED BY <1>4, <2>1, DispatchOutcome
<1> HIDE DEF new, kids
<1>10. StoreOK(heap', nodes', touched') /\ Extends(heap, heap') /\ Whole(heap', Roots \cup Range(nodes') \cup {new.node})
  BY <1>1, <1>9 DEF Outcome
<1>11. touched' \subseteq DOMAIN heap'
  BY <1>1, <1>3, <1>10 DEF Extends
<1>12. job' \in Jobs /\ JobRefs(job') \subseteq Roots
  BY <1>1, FrontReaches
<1>13. /\ Known(heap', memo', i) /\ DOMAIN memo' = DOMAIN memo \cup {i}
       /\ Range(memo') \subseteq Range(memo) \cup {new.node}
  BY <1>1, MemoisedKnown
<1>14. StackOK(heap', memo', job')
  <2>1. ASSUME NEW x \in DOMAIN heap, Known(heap, memo, x) PROVE Known(heap', memo', x)
    <3>1. Closed(heap')
      BY <1>10, HeapClosed DEF StoreOK
    <3> DEFINE g == heap'
               m == memo'
    <3>2. Closed(g) /\ Extends(heap, g) /\ DOMAIN memo \subseteq DOMAIN m /\ DOMAIN memo \subseteq DOMAIN heap
      BY <1>2, <1>4, <1>10, <1>13, <3>1
    <3> HIDE DEF g, m
    <3>3. Known(g, m, x)
      BY <1>3, <2>1, <3>2, KnownGrows
    <3> QED BY <3>3 DEF g, m
  <2>2. Known(heap', memo', job.stack[Len(job.stack)].node)
    BY <1>2, <1>13
  <2>3. JobRefs(job) \subseteq DOMAIN heap
    BY <1>2
  <2> DEFINE g == heap'
             m == memo'
  <2>4. /\ \A x \in DOMAIN heap : Known(heap, memo, x) => Known(g, m, x)
        /\ Known(g, m, job.stack[Len(job.stack)].node) /\ Extends(heap, g)
    BY <1>10, <2>1, <2>2
  <2> HIDE DEF g, m
  <2>5. StackOK(g, m, [job EXCEPT !.stack = Front(job.stack)])
    BY <1>1, <1>2, <1>3, <2>3, <2>4, StackPops
  <2> QED BY <1>1, <2>5 DEF g, m
<1>15. Roots' \subseteq Roots \cup Range(nodes') \cup {new.node}
  <2>1. CacheRefs(memo', visited') \subseteq Roots \cup {new.node}
    BY <1>2, <1>4, <1>13 DEF CacheRefs
  <2>2. held \subseteq Roots /\ StaticIds' = StaticIds
    BY DEF Roots, StaticIds
  <2> QED BY <1>1, <1>4, <1>12, <2>1, <2>2 DEF Roots, PassRefs
<1>16. Whole(heap', Roots')
  BY <1>10, <1>15, WholeSubset
<1>17. Range(nodes) \subseteq Range(nodes')
  BY <1>1, <1>9 DEF Outcome
<1> QED BY <1>3, <1>10, <1>11, <1>12, <1>14, <1>16, <1>17 DEF PassOK

LEMMA EndPassOK == PassOK /\ EndPass => PassOK'
<1> SUFFICES ASSUME PassOK, EndPass PROVE PassOK'
  OBVIOUS
<1>1. job.op \in {"once", "rewrite"} /\ job.stack = << >> /\ visited' = visited
  BY DEF EndPass
<1>2. /\ StoreOK(heap, nodes, touched) /\ Whole(heap, Roots) /\ StackOK(heap, memo, job) /\ job \in Jobs
      /\ touched \subseteq DOMAIN heap /\ visited \in Seq(Nat)
  BY DEF PassOK
<1>3. Result \in Roots
  <2>1. Known(heap, memo, job.root)
    <3>1. 0 + 1 .. Len(job.stack) = {}
      BY <1>1
    <3> QED BY <1>1, <1>2, <3>1 DEF StackOK, Awaited
  <2> QED BY <2>1, MemoAtIn DEF Result, Roots, PassRefs, CacheRefs
<1>4. Roots \subseteq Nat \ {0}
  BY <1>2, WholeAddresses DEF StoreOK
<1>5. Range(visited) \subseteq Roots
  BY DEF Roots, PassRefs, CacheRefs
<1>6. CASE LastRound
  <2>1. /\ job' = Idle /\ held' = held \cup {Result}
        /\ heap' = heap /\ nodes' = nodes /\ memo' = memo /\ touched' = touched
    BY <1>6 DEF EndPass
  <2>2. job' \in Jobs /\ StackOK(heap', memo', job')
    BY <2>1, IdleStack
  <2>3. JobRefs(job') = {}
    <3>1. Idle.root = 0 /\ Idle.stack = << >> /\ Range(<< >>) = {}
      BY DEF Idle, Range
    <3> QED BY <2>1, <3>1 DEF JobRefs
  <2>4. Roots' \subseteq Roots
    BY <1>1, <1>3, <2>1, <2>3 DEF Roots, PassRefs, CacheRefs, StaticIds
  <2>5. Whole(heap', Roots')
    BY <1>2, <2>1, <2>4, WholeSubset
  <2> QED BY <1>1, <1>2, <2>1, <2>2, <2>5 DEF PassOK
<1>7. CASE ~ LastRound
  <2>1. /\ job' = Call(job.op, Result, job.round + 1) /\ memo' = << >>
        /\ Collecting(Range(visited) \cup {Result}) /\ UNCHANGED <<nodes, held, visited>>
    BY <1>1, <1>7 DEF EndPass
  <2>2. job.round + 1 \in Nat /\ Result \in Nat \ {0}
    BY <1>2, <1>3, <1>4 DEF Jobs
  <2>3. job' \in Jobs /\ StackOK(heap', memo', job') /\ JobRefs(job') \subseteq {Result}
    <3> DEFINE r == Result
               n == job.round + 1
    <3>1. job' = Call(job.op, r, n) /\ r \in Nat \ {0} /\ n \in Nat
      BY <2>1, <2>2
    <3> HIDE DEF r, n
    <3>2. job' \in Jobs /\ (\A h, m : StackOK(h, m, job')) /\ JobRefs(job') \subseteq {r}
      BY <1>1, <3>1, CallBegins
    <3> QED BY <3>2 DEF r
  <2>4. Range(visited) \cup {Result} \subseteq Roots
    BY <1>3, <1>5
  <2> DEFINE others == Range(visited) \cup {Result}
  <2>5. Collecting(others) /\ others \subseteq Roots /\ Range(visited) \subseteq others /\ JobRefs(job') \subseteq held \cup others
    BY <2>1, <2>3, <2>4
  <2> HIDE DEF others
  <2> QED BY <2>1, <2>3, <2>5, MemoEmptied
<1> QED BY <1>6, <1>7

(* A walk: the children of the top go on the stack in its place. *)
LEMMA VisitOK == PassOK /\ Visit => PassOK'
<1> SUFFICES ASSUME PassOK, Visit PROVE PassOK'
  OBVIOUS
<1> DEFINE i == Top.node
           kids == heap[i].kids
           t == Front(job.stack)
           u == PushAll(t, kids, {})
<1>1. /\ job.op = "walk" /\ job.stack # << >> /\ UNCHANGED <<storeVars, memo>>
      /\ visited' \in {visited, Append(visited, i)}
      /\ job' \in {[job EXCEPT !.stack = t], [job EXCEPT !.stack = u]}
  BY DEF Visit
<1>2. /\ job \in Jobs /\ t \in Seq(Frames) /\ Len(job.stack) \in Nat \ {0} /\ i \in Roots
      /\ Len(t) = Len(job.stack) - 1
      /\ \A p \in 1 .. Len(job.stack) - 1 : t[p] = job.stack[p]
      /\ JobRefs(job) \subseteq Roots /\ Roots \subseteq DOMAIN heap /\ Roots \subseteq Nat
      /\ \A p \in 1 .. Len(job.stack) : job.stack[p].node \in Roots
  BY <1>1, CallStack
<1>3. kids \in Seq(Nat)
  <2>1. HeapOK(heap) /\ i \in DOMAIN heap
    BY <1>2 DEF PassOK, StoreOK
  <2>2. kids \in Seq(DOMAIN heap) /\ DOMAIN heap \subseteq Nat
    BY <2>1 DEF HeapOK, NodeOK
  <2> HIDE DEF kids
  <2> QED BY <2>2
<1> HIDE DEF kids
<1>4. Pushed(t, kids, {}, Len(kids), u)
  <2> HIDE DEF t
  <2> QED BY <1>2, <1>3, PushAllPushes
<1> HIDE DEF u
<1>5. u \in Seq(Frames) /\ \A p \in 1 .. Len(u) : u[p].node \in Roots \cup Range(kids)
  <2>1. /\ u \in Seq(Frames) /\ Len(t) <= Len(u) /\ \A p \in 1 .. Len(t) : u[p] = t[p]
        /\ \A p \in Len(t) + 1 .. Len(u) : u[p].node \in Range(kids)
    BY <1>4 DEF Pushed
  <2> DEFINE n == Len(t)
  <2>2. n \in Nat /\ Len(u) \in Nat
    BY <1>2, <2>1
  <2>3. \A p \in 1 .. n : t[p].node \in Roots
    <3> DEFINE l == Len(job.stack)
    <3>1. /\ l \in Nat \ {0} /\ n = l - 1 /\ \A p \in 1 .. l - 1 : t[p] = job.stack[p]
          /\ \A p \in 1 .. l : job.stack[p].node \in Roots
      BY <1>2
    <3> HIDE DEF l, n, t
    <3> QED BY <3>1
  <2>4. \A p \in 1 .. Len(u) : p \in 1 .. n \/ p \in n + 1 .. Len(u)
    BY <2>2
  <2> HIDE DEF t
  <2> QED BY <2>1, <2>3, <2>4
<1>6. /\ job' \in Jobs /\ job'.op = "walk" /\ JobRefs(job') \subseteq Roots \cup Range(kids)
  <2>1. CASE job' = [job EXCEPT !.stack = t]
    <3>1. job' \in Jobs /\ JobRefs(job') \subseteq Roots
      BY <1>1, <2>1, FrontReaches
    <3>2. job'.op = "walk"
      BY <1>1, <1>2, <2>1, JobFields
    <3> QED BY <3>1, <3>2
  <2>2. CASE job' = [job EXCEPT !.stack = u]
    <3>1. job' \in Jobs /\ job'.op = "walk" /\ job'.root = job.root /\ job'.stack = u
      BY <1>1, <1>2, <1>5, <2>2, JobFields
    <3>2. job.root # 0 => job.root \in Roots
      BY <1>2, JobReaches
    <3> QED BY <1>5, <3>1, <3>2, JobReaches
  <2> QED BY <1>1, <2>1, <2>2
<1>7. StackOK(heap, memo, job')
  BY <1>6 DEF StackOK
<1>8. Whole(heap, Roots \cup Range(kids))
  BY <1>2, WholeKids DEF PassOK, kids
<1>9. visited' \in Seq(Nat) /\ Range(visited') \subseteq Roots \cup Range(kids)
  <2>1. visited \in Seq(Nat) /\ Range(visited) \subseteq Roots
    BY DEF PassOK, Roots, PassRefs, CacheRefs
  <2>2. CASE visited' = visited
    BY <2>1, <2>2
  <2>3. CASE visited' = Append(visited, i)
    <3> DEFINE v == Append(visited, i)
    <3>1. i \in Nat
      BY <1>2
    <3> HIDE DEF i
    <3>2. /\ v \in Seq(Nat) /\ DOMAIN v = 1 .. Len(visited) + 1 /\ v[Len(visited) + 1] = i
          /\ \A p \in 1 .. Len(visited) : v[p] = visited[p] /\ p \in DOMAIN visited
          /\ Len(visited) \in Nat
      BY <2>1, <3>1
    <3>3. \A p \in 1 .. Len(visited) + 1 : p = Len(visited) + 1 \/ p \in 1 .. Len(visited)
      BY <3>2
    <3> HIDE DEF v
    <3>4. \A p \in DOMAIN v : v[p] \in Roots
      BY <1>2, <2>1, <3>2, <3>3 DEF Range
    <3>5. Range(v) \subseteq Roots
      BY <3>4 DEF Range
    <3> QED BY <2>3, <3>2, <3>5 DEF v
  <2> QED BY <1>1, <2>2, <2>3
<1> QED BY <1>1, <1>6, <1>7, <1>8, <1>9, StackChanges

LEMMA EndWalkOK == PassOK /\ EndWalk => PassOK'
<1> SUFFICES ASSUME PassOK, EndWalk PROVE PassOK'
  OBVIOUS
<1>1. job' = Idle /\ UNCHANGED <<storeVars, memo, visited>>
  BY DEF EndWalk
<1>2. job' \in Jobs /\ StackOK(heap, memo, job')
  BY <1>1, IdleStack
<1>3. JobRefs(job') = {}
  <2>1. Idle.root = 0 /\ Idle.stack = << >> /\ Range(<< >>) = {}
    BY DEF Idle, Range
  <2> QED BY <1>1, <2>1 DEF JobRefs
<1>4. Whole(heap, Roots \cup {}) /\ visited' \in Seq(Nat) /\ Range(visited') \subseteq Roots \cup {}
  <2>1. Roots \cup {} = Roots
    OBVIOUS
  <2>2. Whole(heap, Roots) /\ visited' \in Seq(Nat) /\ Range(visited') \subseteq Roots
    BY <1>1 DEF PassOK, Roots, PassRefs, CacheRefs
  <2> QED BY <2>1, <2>2
<1>5. JobRefs(job') \subseteq Roots \cup {}
  BY <1>3
<1> QED BY <1>1, <1>2, <1>4, <1>5, StackChanges

(* Nothing of the invariant speaks of the handlers. *)
LEMMA UntouchedOK == PassOK /\ UNCHANGED <<storeVars, memo, visited, job>> => PassOK'
BY DEF PassOK, storeVars, Roots, PassRefs, CacheRefs, JobRefs, StaticIds

LEMMA NextOK == PassOK /\ [Next]_vars => PassOK'
<1> SUFFICES ASSUME PassOK, [Next]_vars PROVE PassOK'
  OBVIOUS
<1>1. CASE UseStore(Shapes)
  BY <1>1, CreateOK, DropOK, ClearOK DEF UseStore
<1>2. CASE ChangeNode
  BY <1>2, RenameOK, DefineOK DEF ChangeNode
<1>3. CASE CallPass
  BY <1>3, BeginOK, RewriteOK DEF CallPass
<1>4. CASE PassStep
  BY <1>4, PopOK, DescendOK, RebuildOK DEF PassStep
<1>5. CASE EndPass \/ Visit \/ EndWalk
  BY <1>5, EndPassOK, VisitOK, EndWalkOK
<1>6. CASE \E rule \in {"default", "exchange"} : Install(rule)
  BY <1>6, UntouchedOK DEF Install
<1>7. CASE UNCHANGED vars
  BY <1>7, UntouchedOK DEF vars, passVars
<1> QED BY <1>1, <1>2, <1>3, <1>4, <1>5, <1>6, <1>7 DEF Next, Running

(* The store stays in order, whatever is created, dropped, cleared, renamed, *)
(* defined, rewritten and walked over: nodes are of the heap, the hash of a  *)
(* node nobody changed is that of its looks, and a pass finds what it needs. *)
THEOREM PassInvariant == Spec => []PassOK
<1>1. Init => PassOK
  BY InitOK
<1>2. PassOK /\ [Next]_vars => PassOK'
  BY NextOK
<1> QED BY <1>1, <1>2, PTL DEF Spec

(* Structurally equal nodes are one node, of those the manager has and       *)
(* nobody changed in place: what mkOper and the like return can be compared  *)
(* by address.                                                              *)
THEOREM EqualNodesAreOne == Spec => []InternedOnce
<1>1. PassOK => InternedOnce
  BY DEF PassOK, StoreOK, OnceIn, InternedOnce
<1> QED BY <1>1, PassInvariant, PTL

(* What a program, the memo, the visitor or a call reaches is there. *)
LEMMA SeesWhole == PassOK => HoldersSeeWhole(PassRefs)
<1> SUFFICES ASSUME PassOK, NEW i \in Reach(heap, held \cup PassRefs)
             PROVE  i \in DOMAIN heap /\ ~ IsBlank(heap[i])
  BY DEF HoldersSeeWhole
<1> DEFINE from == held \cup PassRefs
<1>1. Closed(heap) /\ Whole(heap, Roots)
  BY HeapClosed DEF PassOK, StoreOK
<1>2. PICK X : Unblanked(heap, X) /\ Roots \subseteq X
  BY <1>1 DEF Whole
<1>3. from \subseteq X /\ X \subseteq DOMAIN heap /\ ClosedUnder(heap, X) /\ \A j \in X : ~ IsBlank(heap[j])
  BY <1>2 DEF Roots, Unblanked, ClosedUnder
<1> HIDE DEF from
<1>4. Least(heap, from, Reach(heap, from))
  <2>1. from \in SUBSET DOMAIN heap
    BY <1>3
  <2> QED BY <1>1, <2>1, ReachLeast
<1>5. Reach(heap, from) \subseteq X
  BY <1>3, <1>4 DEF Least
<1> QED BY <1>3, <1>5 DEF from

(* Between calls only clear takes nodes from the vector, and it is emptied. *)
LEMMA OnlyClearEmpties ==
    ASSUME PassOK, Next, FirstClear
    PROVE  Clear(PassRefs)
<1>1. ~ (Range(nodes) \subseteq Range(nodes'))
  <2>1. Range(nodes') = {}
    BY DEF FirstClear, Range
  <2>2. 1 \in Range(nodes)
    BY StaticsAssumption DEF FirstClear, StaticIds
  <2> QED BY <2>1, <2>2
<1>2. CASE UseStore(Shapes)
  <2>1. CASE CreateOne(Shapes)
    BY <1>1, <1>2, <2>1, CreateOK DEF UseStore
  <2>2. CASE DropOne
    BY <1>1, <2>2 DEF DropOne, Drop
  <2> QED BY <1>2, <2>1, <2>2 DEF UseStore
<1>3. CASE ChangeNode
  BY <1>1, <1>3 DEF ChangeNode, RenameOne, Rename, DefineOne, UpdateFuncDef
<1>4. CASE CallPass
  <2>1. nodes' = nodes
    BY <1>4 DEF CallPass, RewriteOnce, Rewrite, Walk, Begin
  <2> QED BY <1>1, <2>1
<1>5. CASE PassStep
  <2>1. CASE Pop \/ Descend
    BY <1>1, <2>1 DEF Pop, Descend, storeVars
  <2>2. CASE Rebuild
    BY <1>1, <1>5, <2>2, RebuildOK DEF PassStep
  <2> QED BY <1>5, <2>1, <2>2 DEF PassStep
<1>6. CASE EndPass \/ Visit \/ EndWalk
  <2>1. nodes' = nodes
    BY <1>6 DEF EndPass, Visit, EndWalk, storeVars
  <2> QED BY <1>1, <2>1
<1>7. CASE \E rule \in {"default", "exchange"} : Install(rule)
  BY <1>1, <1>7 DEF Install, storeVars
<1> QED BY <1>2, <1>3, <1>4, <1>5, <1>6, <1>7 DEF Next, Running

(* The first clear leaves the constants and what somebody reaches. *)
LEMMA ClearLeavesTheRest ==
    ASSUME PassOK, Next, FirstClear
    PROVE  NothingElseLeft(PassRefs)
<1> DEFINE outside == held \cup PassRefs
           b == Blanked(Managed \ Kept(outside))
           g == Collected(b, << >>, outside)
<1>1. heap' = g
  BY OnlyClearEmpties DEF Clear, Blanked
<1>2. StoreOK(heap, nodes, touched) /\ Whole(heap, Roots)
  BY DEF PassOK
<1>3. outside \cup StaticIds \subseteq Roots /\ StaticIds \subseteq Range(nodes)
  BY DEF Roots, FirstClear
<1>4. b = Blanked(Managed \ Kept(outside))
  OBVIOUS
<1>5. g = Collected(b, << >>, outside)
  OBVIOUS
<1> HIDE DEF outside, b, g
<1>6. Whole(heap, outside \cup StaticIds)
  BY <1>2, <1>3, WholeSubset
<1>7. DOMAIN g = StaticIds \cup Reach(heap, outside)
  BY <1>2, <1>3, <1>4, <1>5, <1>6, FirstClearLeaves
<1> QED BY <1>1, <1>7 DEF NothingElseLeft, outside

(* Clearing the manager takes the nodes that no program, memo, visitor or    *)
(* call reaches, and no others: a node somebody reaches is there with its    *)
(* looks, and after the first clear the manager has nothing else but the     *)
(* constants, not even definitions that contain themselves.                  *)
THEOREM ClearTakesExactlyTheRest == Spec => ClearTakesTheRest
<1>1. Spec => []HoldersSeeWhole(PassRefs)
  BY SeesWhole, PassInvariant, PTL
<1>2. PassOK /\ [Next]_vars => [FirstClear => NothingElseLeft(PassRefs)]_storeVars
  <2>1. ASSUME PassOK, Next, FirstClear PROVE NothingElseLeft(PassRefs)
    BY <2>1, ClearLeavesTheRest
  <2>2. UNCHANGED vars => UNCHANGED storeVars
    BY DEF vars
  <2> QED BY <2>1, <2>2
<1>3. Spec => [][FirstClear => NothingElseLeft(PassRefs)]_storeVars
  BY <1>2, PassInvariant, PTL DEF Spec
<1> QED BY <1>1, <1>3 DEF ClearTakesTheRest

(* What the code asks the memo for with at, which throws when it is missing: *)
(* the children of a processed node on the top, and the root at the end.     *)
MemoHasAsked ==
    /\ Rewriting /\ Top.processed => \A x \in Range(heap[Top.node].kids) : Known(heap, memo, x)
    /\ job.op \in {"once", "rewrite"} /\ job.stack = << >> => Known(heap, memo, job.root)

(* memo_.at never misses, whatever the memo holds of earlier calls and       *)
(* although nodes were renamed, defined and cleared between them.            *)
THEOREM MemoNeverMisses == Spec => []MemoHasAsked
<1>1. PassOK => MemoHasAsked
  <2> SUFFICES ASSUME PassOK PROVE MemoHasAsked
    OBVIOUS
  <2>1. StackOK(heap, memo, job)
    BY DEF PassOK
  <2>2. ASSUME Rewriting, Top.processed, NEW x \in Range(heap[Top.node].kids) PROVE Known(heap, memo, x)
    <3> DEFINE l == Len(job.stack)
    <3>1. l \in Nat \ {0} /\ Top = job.stack[l] /\ job.op \in {"once", "rewrite"}
      BY <2>2, CallStack DEF Rewriting
    <3>2. \A p \in 1 .. l : job.stack[p].processed =>
              \A y \in Range(heap[job.stack[p].node].kids) : Awaited(heap, memo, job.stack, p, y)
      BY <2>1, <3>1 DEF StackOK
    <3>3. l \in 1 .. l /\ l + 1 .. l = {}
      BY <3>1
    <3>4. Awaited(heap, memo, job.stack, l, x)
      <4> HIDE DEF l
      <4> QED BY <2>2, <3>1, <3>2, <3>3
    <3> QED BY <3>3, <3>4 DEF Awaited
  <2>3. ASSUME job.op \in {"once", "rewrite"}, job.stack = << >> PROVE Known(heap, memo, job.root)
    <3>1. 0 + 1 .. Len(job.stack) = {}
      BY <2>3
    <3> QED BY <2>1, <2>3, <3>1 DEF StackOK, Awaited
  <2> QED BY <2>2, <2>3 DEF MemoHasAsked
<1> QED BY <1>1, PassInvariant, PTL
=============================================================================
