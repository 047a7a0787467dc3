------------------------- MODULE ScopedSymbolsProofs -------------------------
(***************************************************************************)
(* For any names, sorts and depth of scopes: types hold and every declared  *)
(* function and sort is listed in every session; in disciplined sessions    *)
(* no variable and no function is entered under both spellings, and what    *)
(* the frames record implements a stack of snapshots; a dump writes         *)
(* datatypes that mention one another in one command, for any number of     *)
(* datatypes.                                                               *)
(***************************************************************************)
EXTENDS MCScopedSymbols, DataProofs, SequenceTheorems

-----------------------------------------------------------------------------
(* Lists of names *)

(* What h has after each entry of order, as long as it lists those in m. *)
Listing(h, order, m) ==
    /\ h[0] = << >>
    /\ \A k \in 1 .. Len(order) :
           h[k] = IF m[order[k]] # Absent THEN Append(h[k - 1], order[k]) ELSE h[k - 1]

(* Listed, entry by entry. *)
LEMMA ListedTurns ==
    ASSUME NEW T, NEW order \in Seq(T), NEW m
    PROVE  \E h : /\ Listing(h, order, m)
                  /\ \A k \in 0 .. Len(order) : h[k] \in Seq(T)
                  /\ Listed(order, m) = h[Len(order)]
<1> DEFINE n == Len(order)
           next(s, k) == IF m[order[k]] # Absent THEN Append(s, order[k]) ELSE s
           P(q) == q = [k \in 0 .. n |->
                          IF k = 0 THEN << >>
                          ELSE IF m[order[k]] # Absent THEN Append(q[k - 1], order[k]) ELSE q[k - 1]]
           Z == [k \in 0 .. n |-> Seq(T)]
           go == [p \in (1 .. n) \X Seq(T) |-> next(p[2], p[1])]
           h == CHOOSE q : P(q)
<1>1. n \in Nat /\ \A k \in 1 .. n : k \in 0 .. n /\ k - 1 \in 0 .. n /\ order[k] \in T
  OBVIOUS
<1>2. Listed(order, m) = h[n]
  BY DEF Listed
<1> HIDE DEF n
<1>3. \A k \in 0 .. n : Z[k] = Seq(T)
  OBVIOUS
<1>4. << >> \in Z[0]
  BY <1>1, <1>3, EmptySeq
<1>5. ASSUME NEW k \in 1 .. n, NEW s \in Seq(T)
      PROVE  next(s, k) \in Seq(T) /\ go[<<k, s>>] = next(s, k)
  <2>1. next(s, k) \in Seq(T)
    BY <1>1
  <2> HIDE DEF next
  <2> QED BY <2>1
<1>6. PICK r : Turns(r, n, << >>, go) /\ Throughout(r, n, Z)
  <2>1. ASSUME NEW k \in 1 .. n, NEW s \in Z[k - 1] PROVE go[<<k, s>>] \in Z[k]
    <3> HIDE DEF go, next
    <3>1. s \in Seq(T)
      BY <1>1, <1>3
    <3> QED BY <1>1, <1>3, <1>5, <3>1
  <2> HIDE DEF Z, go, next
  <2>2. Leads(go, n, Z)
    BY <2>1 DEF Leads
  <2> QED BY <1>1, <1>4, <2>2, TurnsExist
<1>7. \A k \in 1 .. n : r[k] = next(r[k - 1], k)
  <2> HIDE DEF Z, go, next
  <2> QED BY <1>1, <1>3, <1>5, <1>6 DEF Turns, Throughout
<1>8. P([k \in 0 .. n |-> r[k]])
  <2>1. \A k \in 0 .. n : k # 0 => k \in 1 .. n /\ k - 1 \in 0 .. n
    BY <1>1
  <2>2. r[0] = << >>
    BY <1>6 DEF Turns
  <2> HIDE DEF go, Z
  <2> QED BY <1>7, <2>1, <2>2
<1>9. P(h)
  <2> HIDE DEF P
  <2> QED BY <1>8
<1> HIDE DEF h
<1>10. h[0] = << >> /\ \A k \in 1 .. n : h[k] = next(h[k - 1], k)
  <2>1. \A k \in 0 .. n : h[k] = IF k = 0 THEN << >> ELSE next(h[k - 1], k)
    BY <1>9, Zenon
  <2>2. 0 \in 0 .. n /\ \A k \in 1 .. n : k \in 0 .. n /\ k # 0
    BY <1>1
  <2> HIDE DEF P, next
  <2> QED BY <2>1, <2>2
<1>11. Throughout(h, n, Z)
  <2> HIDE DEF next, Z
  <2>1. h[0] \in Z[0]
    BY <1>4, <1>10
  <2>2. ASSUME NEW k \in 1 .. n, h[k - 1] \in Z[k - 1] PROVE h[k] \in Z[k]
    <3>1. h[k - 1] \in Seq(T) /\ h[k] = next(h[k - 1], k)
      BY <1>1, <1>3, <1>10, <2>2
    <3>2. h[k] \in Seq(T)
      BY <1>5, <3>1
    <3> QED BY <1>1, <1>3, <3>2
  <2> QED BY <1>1, <2>1, <2>2, TurnsKeep
<1>12. \A k \in 0 .. n : h[k] \in Seq(T)
  BY <1>3, <1>11 DEF Throughout
<1>13. Listing(h, order, m)
  BY <1>10 DEF n, Listing
<1> QED BY <1>2, <1>12, <1>13 DEF n

LEMMA ListedType ==
    ASSUME NEW T, NEW order \in Seq(T), NEW m
    PROVE  Listed(order, m) \in Seq(T)
<1>1. PICK h : /\ \A k \in 0 .. Len(order) : h[k] \in Seq(T)
               /\ Listed(order, m) = h[Len(order)]
  BY ListedTurns
<1>2. Len(order) \in 0 .. Len(order)
  OBVIOUS
<1> QED BY <1>1, <1>2

(* Whatever goes through the same turns ends with the same list. *)
LEMMA ListedIs ==
    ASSUME NEW T, NEW order \in Seq(T), NEW m, NEW r, Listing(r, order, m)
    PROVE  Listed(order, m) = r[Len(order)]
<1>1. PICK h : Listing(h, order, m) /\ Listed(order, m) = h[Len(order)]
  BY ListedTurns
<1> DEFINE n == Len(order)
           Good == {k \in 0 .. n : h[k] = r[k]}
<1>2. n \in Nat
  OBVIOUS
<1>3. 0 \in Good
  BY <1>1, <1>2 DEF Listing
<1>4. ASSUME NEW k \in 1 .. n, k - 1 \in Good PROVE k \in Good
  <2>1. h[k - 1] = r[k - 1] /\ k \in 0 .. n
    BY <1>4
  <2>2. h[k] = r[k]
    BY <1>1, <2>1 DEF Listing
  <2> QED BY <2>1, <2>2
<1>5. \A k \in 0 .. n : k \in Good
  <2> HIDE DEF Good, n
  <2> QED BY <1>2, <1>3, <1>4, CountUp
<1> QED BY <1>1, <1>2, <1>5

(* Only which of the names are there matters. *)
LEMMA ListedSame ==
    ASSUME NEW T, NEW order \in Seq(T), NEW m, NEW o,
           \A k \in 1 .. Len(order) : m[order[k]] = Absent <=> o[order[k]] = Absent
    PROVE  Listed(order, m) = Listed(order, o)
<1>1. PICK h : Listing(h, order, m) /\ Listed(order, m) = h[Len(order)]
  BY ListedTurns
<1>2. Listing(h, order, o)
  BY <1>1 DEF Listing
<1>3. Listed(order, o) = h[Len(order)]
  BY <1>1, <1>2, ListedIs
<1> QED BY <1>1, <1>3

(* A name at the end that is not there does not show. *)
LEMMA ListedAppend ==
    ASSUME NEW T, NEW order \in Seq(T), NEW m, NEW e \in T, m[e] = Absent
    PROVE  Listed(Append(order, e), m) = Listed(order, m)
<1>1. PICK h : Listing(h, order, m) /\ Listed(order, m) = h[Len(order)]
  BY ListedTurns
<1> DEFINE n == Len(order)
           long == Append(order, e)
           r == [k \in 0 .. n + 1 |-> IF k = n + 1 THEN h[n] ELSE h[k]]
<1>2. /\ n \in Nat /\ long \in Seq(T) /\ Len(long) = n + 1 /\ long[n + 1] = e
      /\ \A k \in 1 .. n : long[k] = order[k]
  OBVIOUS
<1> HIDE DEF long
<1>3. r[0] = << >> /\ r[n + 1] = h[n]
  BY <1>1, <1>2 DEF Listing
<1>4. ASSUME NEW k \in 1 .. n + 1
      PROVE  r[k] = IF m[long[k]] # Absent THEN Append(r[k - 1], long[k]) ELSE r[k - 1]
  <2>1. CASE k = n + 1
    <3>1. r[k] = h[n] /\ r[k - 1] = h[n] /\ long[k] = e
      BY <1>2, <2>1
    <3> QED BY <3>1
  <2>2. CASE k # n + 1
    <3>1. k \in 1 .. n /\ k - 1 \in 0 .. n /\ k - 1 # n + 1
      BY <1>2, <2>2
    <3>2. r[k] = h[k] /\ r[k - 1] = h[k - 1] /\ long[k] = order[k]
      BY <1>2, <2>2, <3>1
    <3> QED BY <1>1, <3>1, <3>2 DEF Listing
  <2> QED BY <2>1, <2>2
<1>5. Listed(long, m) = r[n + 1]
  <2> HIDE DEF r, n
  <2>1. Listing(r, long, m)
    BY <1>2, <1>3, <1>4 DEF Listing
  <2> QED BY <1>2, <2>1, ListedIs
<1> QED BY <1>1, <1>3, <1>5 DEF long
-----------------------------------------------------------------------------
(* Taking names out of a list *)

LEMMA RemovedAtFields ==
    ASSUME NEW T, NEW s \in Seq(T), NEW i \in 1 .. Len(s)
    PROVE  /\ RemoveAt(s, i) \in Seq(T)
           /\ Len(RemoveAt(s, i)) = Len(s) - 1
           /\ \A k \in 1 .. Len(s) - 1 : RemoveAt(s, i)[k] = IF k < i THEN s[k] ELSE s[k + 1]
<1> DEFINE p == SubSeq(s, 1, i - 1)
           q == SubSeq(s, i + 1, Len(s))
<1>1. /\ p \in Seq(T) /\ Len(p) = i - 1 /\ \A k \in 1 .. i - 1 : p[k] = s[k]
  OBVIOUS
<1>2. /\ q \in Seq(T) /\ Len(q) = Len(s) - i /\ \A k \in 1 .. Len(s) - i : q[k] = s[i + k]
  OBVIOUS
<1>3. RemoveAt(s, i) = p \o q
  BY DEF RemoveAt
<1>4. i \in Nat /\ Len(s) \in Nat /\ 1 <= i /\ i <= Len(s)
  OBVIOUS
<1> HIDE DEF p, q
<1>5. /\ p \o q \in Seq(T) /\ Len(p \o q) = Len(p) + Len(q)
      /\ \A k \in 1 .. Len(p) + Len(q) : (p \o q)[k] = IF k <= Len(p) THEN p[k] ELSE q[k - Len(p)]
  <2>1. p \in Seq(T) /\ q \in Seq(T)
    BY <1>1, <1>2
  <2> QED BY <2>1
<1>6. ASSUME NEW k \in 1 .. Len(s) - 1 PROVE (p \o q)[k] = IF k < i THEN s[k] ELSE s[k + 1]
  <2>1. k \in 1 .. Len(p) + Len(q) /\ k \in Int
    BY <1>1, <1>2, <1>4
  <2>2. CASE k < i
    <3>1. k \in 1 .. i - 1 /\ k <= Len(p)
      BY <1>1, <1>4, <2>1, <2>2
    <3> QED BY <1>1, <1>5, <2>1, <2>2, <3>1
  <2>3. CASE ~ (k < i)
    <3>1. ~ (k <= Len(p)) /\ k - Len(p) \in 1 .. Len(s) - i /\ i + (k - Len(p)) = k + 1
      BY <1>1, <1>4, <2>1, <2>3
    <3>2. (p \o q)[k] = q[k - Len(p)]
      BY <1>5, <2>1, <3>1
    <3>3. q[k - Len(p)] = s[i + (k - Len(p))]
      BY <1>2, <3>1
    <3> QED BY <2>3, <3>1, <3>2, <3>3
  <2> QED BY <2>2, <2>3
<1>7. Len(p) + Len(q) = Len(s) - 1
  BY <1>1, <1>2, <1>4
<1> QED BY <1>3, <1>5, <1>6, <1>7

(* RemoveFirst takes out one entry that is e, if there is one. *)
LEMMA RemovedWhere ==
    ASSUME NEW T, NEW s \in Seq(T), NEW e
    PROVE  \/ RemoveFirst(s, e) = s
           \/ \E i \in 1 .. Len(s) : s[i] = e /\ RemoveFirst(s, e) = RemoveAt(s, i)
<1> DEFINE I == {i \in 1 .. Len(s) : s[i] = e}
<1>1. CASE I = {}
  <2>1. ~ \E i \in 1 .. Len(s) : s[i] = e
    BY <1>1
  <2> QED BY <2>1 DEF RemoveFirst
<1>2. CASE I # {}
  <2>1. RemoveFirst(s, e) = RemoveAt(s, Min(I))
    <3>1. \E i \in 1 .. Len(s) : s[i] = e
      BY <1>2
    <3> QED BY <1>2, <3>1, Zenon DEF RemoveFirst, SelectInSeq
  <2>2. I \in SUBSET Nat
    OBVIOUS
  <2>3. Min(I) \in I
    <3> HIDE DEF I
    <3>1. \E i \in I : \A j \in I : i <= j
      BY <1>2, <2>2, LeastNat
    <3> QED BY <3>1, Zenon DEF Min
  <2> QED BY <2>1, <2>3
<1> QED BY <1>1, <1>2

LEMMA RemovedMembers ==
    ASSUME NEW T, NEW s \in Seq(T), NEW e
    PROVE  /\ RemoveFirst(s, e) \in Seq(T)
           /\ \A a \in ToSet(s) : a # e => a \in ToSet(RemoveFirst(s, e))
<1>1. CASE RemoveFirst(s, e) = s
  BY <1>1
<1>2. ASSUME NEW i \in 1 .. Len(s), s[i] = e, RemoveFirst(s, e) = RemoveAt(s, i)
      PROVE  /\ RemoveFirst(s, e) \in Seq(T)
             /\ \A a \in ToSet(s) : a # e => a \in ToSet(RemoveFirst(s, e))
  <2> DEFINE o == RemoveAt(s, i)
  <2>1. /\ o \in Seq(T) /\ Len(o) = Len(s) - 1
        /\ \A k \in 1 .. Len(s) - 1 : o[k] = IF k < i THEN s[k] ELSE s[k + 1]
    BY RemovedAtFields
  <2>2. Len(s) \in Nat /\ i \in Nat
    OBVIOUS
  <2>3. DOMAIN s = 1 .. Len(s) /\ (o \in Seq(T) => DOMAIN o = 1 .. Len(o))
    OBVIOUS
  <2> HIDE DEF o
  <2>4. ASSUME NEW k \in 1 .. Len(s), s[k] # e PROVE \E j \in 1 .. Len(s) - 1 : o[j] = s[k]
    <3>1. CASE k < i
      <4>1. k \in 1 .. Len(s) - 1 /\ o[k] = s[k]
        BY <2>1, <2>2, <3>1
      <4> QED BY <4>1
    <3>2. CASE ~ (k < i)
      <4>1. k # i
        BY <1>2, <2>4
      <4>2. k - 1 \in 1 .. Len(s) - 1 /\ ~ (k - 1 < i) /\ (k - 1) + 1 = k
        BY <2>2, <3>2, <4>1
      <4>3. o[k - 1] = s[k]
        BY <2>1, <4>2
      <4> QED BY <4>2, <4>3
    <3> QED BY <3>1, <3>2
  <2>5. ASSUME NEW a \in ToSet(s), a # e PROVE a \in ToSet(o)
    <3>1. PICK k \in 1 .. Len(s) : s[k] = a
      BY <2>3 DEF ToSet
    <3>2. PICK j \in 1 .. Len(s) - 1 : o[j] = s[k]
      BY <2>4, <2>5, <3>1
    <3> QED BY <2>1, <2>3, <3>1, <3>2 DEF ToSet
  <2>6. RemoveFirst(s, e) = o
    BY <1>2 DEF o
  <2> QED BY <2>1, <2>5, <2>6
<1> QED BY <1>1, <1>2, RemovedWhere

(* Readers of the list do not see that a name which is gone is taken out. *)
LEMMA RemovedListed ==
    ASSUME NEW T, NEW s \in Seq(T), NEW e, NEW m, m[e] = Absent
    PROVE  Listed(RemoveFirst(s, e), m) = Listed(s, m)
<1>1. CASE RemoveFirst(s, e) = s
  BY <1>1
<1>2. ASSUME NEW i \in 1 .. Len(s), s[i] = e, RemoveFirst(s, e) = RemoveAt(s, i)
      PROVE  Listed(RemoveFirst(s, e), m) = Listed(s, m)
  <2> DEFINE o == RemoveAt(s, i)
             n == Len(s)
  <2>1. /\ o \in Seq(T) /\ Len(o) = n - 1
        /\ \A k \in 1 .. n - 1 : o[k] = IF k < i THEN s[k] ELSE s[k + 1]
    BY RemovedAtFields
  <2>2. n \in Nat /\ i \in 1 .. n
    OBVIOUS
  <2>3. PICK h : Listing(h, s, m) /\ Listed(s, m) = h[n]
    BY ListedTurns
  <2> DEFINE r == [k \in 0 .. n - 1 |-> IF k < i THEN h[k] ELSE h[k + 1]]
  <2> HIDE DEF o
  <2>4. h[i] = h[i - 1]
    BY <1>2, <2>3 DEF Listing
  <2>5. r[0] = << >>
    BY <2>2, <2>3 DEF Listing
  <2>6. ASSUME NEW k \in 1 .. n - 1
        PROVE  r[k] = IF m[o[k]] # Absent THEN Append(r[k - 1], o[k]) ELSE r[k - 1]
    <3>1. k \in Nat /\ k - 1 \in 0 .. n - 1 /\ k \in 0 .. n - 1 /\ k \in 1 .. n /\ k + 1 \in 1 .. n
      BY <2>2
    <3>2. CASE k < i
      <4>1. r[k] = h[k] /\ r[k - 1] = h[k - 1] /\ o[k] = s[k]
        BY <2>1, <2>2, <3>1, <3>2
      <4> QED BY <2>3, <3>1, <4>1 DEF Listing
    <3>3. CASE ~ (k < i)
      <4>1. r[k] = h[k + 1] /\ o[k] = s[k + 1]
        BY <2>1, <2>2, <3>1, <3>3
      <4>2. r[k - 1] = h[k]
        <5>1. CASE k - 1 < i
          <6>1. k = i
            BY <2>2, <3>1, <3>3, <5>1
          <6> QED BY <2>4, <3>1, <5>1, <6>1
        <5>2. CASE ~ (k - 1 < i)
          BY <3>1, <5>2
        <5> QED BY <5>1, <5>2
      <4>3. h[k + 1] = IF m[s[k + 1]] # Absent THEN Append(h[k], s[k + 1]) ELSE h[k]
        <5>1. (k + 1) - 1 = k
          BY <3>1
        <5> QED BY <2>3, <3>1, <5>1 DEF Listing
      <4> QED BY <4>1, <4>2, <4>3
    <3> QED BY <3>2, <3>3
  <2>7. r[n - 1] = h[n]
    <3>1. CASE i = n
      BY <2>2, <2>4, <3>1
    <3>2. CASE i # n
      BY <2>2, <3>2
    <3> QED BY <3>1, <3>2
  <2>8. Listed(o, m) = r[n - 1]
    <3> HIDE DEF r, n
    <3>1. Listing(r, o, m)
      BY <2>1, <2>5, <2>6 DEF Listing
    <3> QED BY <2>1, <3>1, ListedIs
  <2> QED BY <1>2, <2>3, <2>7, <2>8 DEF o
<1> QED BY <1>1, <1>2, RemovedWhere
(* What is left of names after each entry of fs. *)
Unlisting(h, names, fs) ==
    /\ h[0] = names
    /\ \A k \in 1 .. Len(fs) : h[k] = RemoveFirst(h[k - 1], fs[k])

(* Unlisted, name by name. *)
LEMMA UnlistedTurns ==
    ASSUME NEW T, NEW names \in Seq(T), NEW fs \in Seq(T)
    PROVE  \E h : /\ Unlisting(h, names, fs)
                  /\ \A k \in 0 .. Len(fs) : h[k] \in Seq(T)
                  /\ Unlisted(names, fs) = h[Len(fs)]
<1> DEFINE n == Len(fs)
           P(q) == q = [k \in 0 .. n |-> IF k = 0 THEN names ELSE RemoveFirst(q[k - 1], fs[k])]
           Z == [k \in 0 .. n |-> Seq(T)]
           go == [p \in (1 .. n) \X Seq(T) |-> RemoveFirst(p[2], fs[p[1]])]
           h == CHOOSE q : P(q)
<1>1. n \in Nat /\ \A k \in 1 .. n : k \in 0 .. n /\ k - 1 \in 0 .. n /\ fs[k] \in T
  OBVIOUS
<1>2. Unlisted(names, fs) = h[n]
  BY DEF Unlisted
<1> HIDE DEF n
<1>3. \A k \in 0 .. n : Z[k] = Seq(T)
  OBVIOUS
<1>4. names \in Z[0]
  BY <1>1, <1>3
<1>5. ASSUME NEW k \in 1 .. n, NEW s \in Seq(T)
      PROVE  RemoveFirst(s, fs[k]) \in Seq(T) /\ go[<<k, s>>] = RemoveFirst(s, fs[k])
  <2>1. RemoveFirst(s, fs[k]) \in Seq(T)
    BY RemovedMembers
  <2> QED BY <2>1
<1>6. PICK r : Turns(r, n, names, go) /\ Throughout(r, n, Z)
  <2>1. ASSUME NEW k \in 1 .. n, NEW s \in Z[k - 1] PROVE go[<<k, s>>] \in Z[k]
    <3> HIDE DEF go
    <3>1. s \in Seq(T)
      BY <1>1, <1>3
    <3> QED BY <1>1, <1>3, <1>5, <3>1
  <2> HIDE DEF Z, go
  <2>2. Leads(go, n, Z)
    BY <2>1 DEF Leads
  <2> QED BY <1>1, <1>4, <2>2, TurnsExist
<1>7. \A k \in 1 .. n : r[k] = RemoveFirst(r[k - 1], fs[k])
  <2> HIDE DEF Z, go
  <2> QED BY <1>1, <1>3, <1>5, <1>6 DEF Turns, Throughout
<1>8. P([k \in 0 .. n |-> r[k]])
  <2>1. \A k \in 0 .. n : k # 0 => k \in 1 .. n /\ k - 1 \in 0 .. n
    BY <1>1
  <2>2. r[0] = names
    BY <1>6 DEF Turns
  <2> HIDE DEF go, Z
  <2> QED BY <1>7, <2>1, <2>2
<1>9. P(h)
  <2> HIDE DEF P
  <2> QED BY <1>8
<1> HIDE DEF h
<1>10. h[0] = names /\ \A k \in 1 .. n : h[k] = RemoveFirst(h[k - 1], fs[k])
  <2>1. \A k \in 0 .. n : h[k] = IF k = 0 THEN names ELSE RemoveFirst(h[k - 1], fs[k])
    BY <1>9, Zenon
  <2>2. 0 \in 0 .. n /\ \A k \in 1 .. n : k \in 0 .. n /\ k # 0
    BY <1>1
  <2> HIDE DEF P
  <2> QED BY <2>1, <2>2
<1>11. Throughout(h, n, Z)
  <2> HIDE DEF Z
  <2>1. h[0] \in Z[0]
    BY <1>4, <1>10
  <2>2. ASSUME NEW k \in 1 .. n, h[k - 1] \in Z[k - 1] PROVE h[k] \in Z[k]
    <3>1. h[k - 1] \in Seq(T) /\ h[k] = RemoveFirst(h[k - 1], fs[k])
      BY <1>1, <1>3, <1>10, <2>2
    <3>2. h[k] \in Seq(T)
      BY <1>5, <3>1
    <3> QED BY <1>1, <1>3, <3>2
  <2> QED BY <1>1, <2>1, <2>2, TurnsKeep
<1>12. \A k \in 0 .. n : h[k] \in Seq(T)
  BY <1>3, <1>11 DEF Throughout
<1>13. Unlisting(h, names, fs)
  BY <1>10 DEF n, Unlisting
<1> QED BY <1>2, <1>12, <1>13 DEF n

LEMMA UnlistedMembers ==
    ASSUME NEW T, NEW names \in Seq(T), NEW fs \in Seq(T)
    PROVE  /\ Unlisted(names, fs) \in Seq(T)
           /\ \A a \in ToSet(names) \ ToSet(fs) : a \in ToSet(Unlisted(names, fs))
<1>1. PICK h : /\ Unlisting(h, names, fs)
               /\ \A k \in 0 .. Len(fs) : h[k] \in Seq(T)
               /\ Unlisted(names, fs) = h[Len(fs)]
  BY UnlistedTurns
<1> DEFINE n == Len(fs)
<1>2. n \in Nat /\ n \in 0 .. n
  OBVIOUS
<1>3. ASSUME NEW a \in ToSet(names) \ ToSet(fs) PROVE a \in ToSet(h[n])
  <2> DEFINE Good == {k \in 0 .. n : a \in ToSet(h[k])}
  <2>1. 0 \in Good
    BY <1>1, <1>2 DEF Unlisting
  <2>2. ASSUME NEW k \in 1 .. n, k - 1 \in Good PROVE k \in Good
    <3>1. k \in 0 .. n /\ k - 1 \in 0 .. n /\ fs[k] \in ToSet(fs)
      BY <1>2 DEF ToSet
    <3>2. h[k - 1] \in Seq(T) /\ a \in ToSet(h[k - 1]) /\ a # fs[k]
      BY <1>1, <1>3, <2>2, <3>1
    <3>3. h[k] = RemoveFirst(h[k - 1], fs[k])
      BY <1>1 DEF Unlisting
    <3>4. a \in ToSet(RemoveFirst(h[k - 1], fs[k]))
      BY <3>2, RemovedMembers
    <3> QED BY <3>1, <3>3, <3>4
  <2>3. \A k \in 0 .. n : k \in Good
    <3> HIDE DEF Good, n
    <3> QED BY <1>2, <2>1, <2>2, CountUp
  <2> QED BY <1>2, <2>3
<1> QED BY <1>1, <1>2, <1>3

LEMMA UnlistedListed ==
    ASSUME NEW T, NEW names \in Seq(T), NEW fs \in Seq(T), NEW m,
           \A k \in 1 .. Len(fs) : m[fs[k]] = Absent
    PROVE  Listed(Unlisted(names, fs), m) = Listed(names, m)
<1>1. PICK h : /\ Unlisting(h, names, fs)
               /\ \A k \in 0 .. Len(fs) : h[k] \in Seq(T)
               /\ Unlisted(names, fs) = h[Len(fs)]
  BY UnlistedTurns
<1> DEFINE n == Len(fs)
           Good == {k \in 0 .. n : Listed(h[k], m) = Listed(names, m)}
<1>2. n \in Nat /\ n \in 0 .. n
  OBVIOUS
<1>3. 0 \in Good
  BY <1>1, <1>2 DEF Unlisting
<1>4. ASSUME NEW k \in 1 .. n, k - 1 \in Good PROVE k \in Good
  <2>1. k \in 0 .. n /\ k - 1 \in 0 .. n
    BY <1>2
  <2>2. h[k - 1] \in Seq(T) /\ Listed(h[k - 1], m) = Listed(names, m)
    BY <1>1, <1>4, <2>1
  <2>3. h[k] = RemoveFirst(h[k - 1], fs[k])
    BY <1>1 DEF Unlisting
  <2>4. Listed(RemoveFirst(h[k - 1], fs[k]), m) = Listed(h[k - 1], m)
    BY <2>2, RemovedListed
  <2> QED BY <2>1, <2>2, <2>3, <2>4
<1>5. \A k \in 0 .. n : k \in Good
  <2> HIDE DEF Good, n
  <2> QED BY <1>2, <1>3, <1>4, CountUp
<1> QED BY <1>1, <1>2, <1>5
LEMMA ListedEmpty == ASSUME NEW m PROVE Listed(<< >>, m) = << >>
<1>1. PICK h : Listing(h, << >>, m) /\ Listed(<< >>, m) = h[Len(<< >>)]
  BY ListedTurns, EmptySeq
<1> QED BY <1>1 DEF Listing

LEMMA GrownMembers ==
    ASSUME NEW T, NEW s \in Seq(T), NEW e \in T
    PROVE  Append(s, e) \in Seq(T) /\ ToSet(Append(s, e)) = ToSet(s) \cup {e}
<1>1. /\ Append(s, e) \in Seq(T) /\ Len(Append(s, e)) = Len(s) + 1 /\ Len(s) \in Nat
      /\ \A k \in 1 .. Len(s) : Append(s, e)[k] = s[k]
      /\ Append(s, e)[Len(s) + 1] = e
      /\ DOMAIN s = 1 .. Len(s) /\ DOMAIN Append(s, e) = 1 .. Len(Append(s, e))
  OBVIOUS
<1> QED BY <1>1 DEF ToSet

LEMMA JoinedMembers ==
    ASSUME NEW T, NEW s \in Seq(T), NEW t \in Seq(T)
    PROVE  s \o t \in Seq(T) /\ ToSet(s \o t) = ToSet(s) \cup ToSet(t)
<1> DEFINE o == s \o t
<1>1. /\ o \in Seq(T) /\ Len(o) = Len(s) + Len(t) /\ Len(s) \in Nat /\ Len(t) \in Nat
      /\ \A k \in 1 .. Len(o) : o[k] = IF k <= Len(s) THEN s[k] ELSE t[k - Len(s)]
      /\ DOMAIN s = 1 .. Len(s) /\ DOMAIN t = 1 .. Len(t)
  OBVIOUS
<1> HIDE DEF o
<1>2. DOMAIN o = 1 .. Len(o)
  BY <1>1
<1>3. ToSet(o) \subseteq ToSet(s) \cup ToSet(t)
  <2> SUFFICES ASSUME NEW k \in 1 .. Len(o) PROVE o[k] \in ToSet(s) \cup ToSet(t)
    BY <1>2 DEF ToSet
  <2>1. k <= Len(s) => k \in 1 .. Len(s)
    BY <1>1
  <2>2. ~ (k <= Len(s)) => k - Len(s) \in 1 .. Len(t)
    BY <1>1
  <2> QED BY <1>1, <2>1, <2>2 DEF ToSet
<1>4. ASSUME NEW k \in 1 .. Len(s) PROVE s[k] \in ToSet(o)
  <2>1. k \in 1 .. Len(o) /\ k <= Len(s)
    BY <1>1
  <2> QED BY <1>1, <1>2, <2>1 DEF ToSet
<1>5. ASSUME NEW k \in 1 .. Len(t) PROVE t[k] \in ToSet(o)
  <2>1. k + Len(s) \in 1 .. Len(o) /\ ~ (k + Len(s) <= Len(s)) /\ (k + Len(s)) - Len(s) = k
    BY <1>1
  <2>2. o[k + Len(s)] = t[k]
    BY <1>1, <2>1
  <2> QED BY <1>2, <2>1, <2>2 DEF ToSet
<1>6. ToSet(s) \cup ToSet(t) \subseteq ToSet(o)
  BY <1>1, <1>4, <1>5 DEF ToSet
<1> QED BY <1>1, <1>3, <1>6 DEF o

(* The lists of names that a command may give have names for entries. *)
LEMMA FunListsType == FunLists \subseteq Seq(FunName)
<1>1. ASSUME NEW a \in ScriptFun PROVE <<a>> \in Seq(FunName)
  BY ScriptAssumption
<1>2. ASSUME NEW fs \in ScriptFun \X ScriptFun PROVE fs \in Seq(FunName)
  <2>1. fs = <<fs[1], fs[2]>> /\ fs[1] \in FunName /\ fs[2] \in FunName
    BY ScriptAssumption
  <2>2. <<fs[1], fs[2]>> \in Seq(FunName)
    BY <2>1
  <2> QED BY <2>1, <2>2
<1> QED BY <1>1, <1>2 DEF FunLists
-----------------------------------------------------------------------------
(* Types, and what the order lists hold *)

LEMMA TopType ==
    ASSUME NEW fr \in Seq(Frame), fr # << >>
    PROVE  Len(fr) \in 1 .. Len(fr) /\ fr[Len(fr)] \in Frame
OBVIOUS

(* A stack whose top frame is replaced. *)
LEMMA TopReplaced ==
    ASSUME NEW fr \in Seq(Frame), fr # << >>, NEW t \in Frame
    PROVE  /\ [fr EXCEPT ![Len(fr)] = t] \in Seq(Frame)
           /\ Len([fr EXCEPT ![Len(fr)] = t]) = Len(fr)
           /\ \A i \in 1 .. Len(fr) :
                 [fr EXCEPT ![Len(fr)] = t][i] = IF i = Len(fr) THEN t ELSE fr[i]
<1> HIDE DEF Frame
<1> QED OBVIOUS

LEMMA FrameFields ==
    ASSUME NEW t \in Frame
    PROVE  /\ t.vars \in SUBSET VarName /\ t.funs \in Seq(FunName) /\ t.sorts \in SUBSET SortName
           /\ \A V \in SUBSET VarName : [t EXCEPT !.vars = V] \in Frame
           /\ \A V \in SUBSET SortName : [t EXCEPT !.sorts = V] \in Frame
           /\ \A q \in Seq(FunName) : [t EXCEPT !.funs = q] \in Frame
BY DEF Frame

(* The frame that a name is registered in. *)
VarFrame(t, s) == [t EXCEPT !.vars = @ \cup {s}]
FunFrame(t, s) == [t EXCEPT !.funs = Append(@, s)]
SortFrame(t, s) == [t EXCEPT !.sorts = @ \cup {s}]

(* Registering a name in the innermost scope changes the top frame only. *)
LEMMA InScopeFrames ==
    ASSUME TypeOK, frames # << >>
    PROVE  /\ \A s \in VarName : /\ VarFrame(Top, s) \in Frame
                                 /\ VarInScope(s) => frames' = [frames EXCEPT ![Len(frames)] = VarFrame(Top, s)]
           /\ \A s \in FunName : /\ FunFrame(Top, s) \in Frame
                                 /\ FunInScope(s) => frames' = [frames EXCEPT ![Len(frames)] = FunFrame(Top, s)]
           /\ \A s \in SortName : /\ SortFrame(Top, s) \in Frame
                                  /\ SortInScope(s) => frames' = [frames EXCEPT ![Len(frames)] = SortFrame(Top, s)]
<1>1. frames \in Seq(Frame) /\ Top \in Frame /\ Top = frames[Len(frames)]
  BY TopType DEF TypeOK, Top
<1>2. ASSUME NEW s \in VarName
      PROVE  /\ VarFrame(Top, s) \in Frame
             /\ VarInScope(s) => frames' = [frames EXCEPT ![Len(frames)] = VarFrame(Top, s)]
  <2>1. Top.vars \cup {s} \in SUBSET VarName
    BY <1>1, FrameFields
  <2>2. [Top EXCEPT !.vars = Top.vars \cup {s}] \in Frame
    BY <1>1, <2>1, FrameFields
  <2> QED BY <1>1, <2>2 DEF VarFrame, VarInScope
<1>3. ASSUME NEW s \in FunName
      PROVE  /\ FunFrame(Top, s) \in Frame
             /\ FunInScope(s) => frames' = [frames EXCEPT ![Len(frames)] = FunFrame(Top, s)]
  <2>1. Append(Top.funs, s) \in Seq(FunName)
    BY <1>1, FrameFields, GrownMembers
  <2>2. [Top EXCEPT !.funs = Append(Top.funs, s)] \in Frame
    BY <1>1, <2>1, FrameFields
  <2> QED BY <1>1, <2>2 DEF FunFrame, FunInScope
<1>4. ASSUME NEW s \in SortName
      PROVE  /\ SortFrame(Top, s) \in Frame
             /\ SortInScope(s) => frames' = [frames EXCEPT ![Len(frames)] = SortFrame(Top, s)]
  <2>1. Top.sorts \cup {s} \in SUBSET SortName
    BY <1>1, FrameFields
  <2>2. [Top EXCEPT !.sorts = Top.sorts \cup {s}] \in Frame
    BY <1>1, <2>1, FrameFields
  <2> QED BY <1>1, <2>2 DEF SortFrame, SortInScope
<1> QED BY <1>2, <1>3, <1>4

LEMMA InScopeType ==
    ASSUME TypeOK
    PROVE  /\ \A s \in VarName : VarInScope(s) => frames' \in Seq(Frame) /\ Len(frames') = Len(frames)
           /\ \A s \in FunName : FunInScope(s) => frames' \in Seq(Frame) /\ Len(frames') = Len(frames)
           /\ \A s \in SortName : SortInScope(s) => frames' \in Seq(Frame) /\ Len(frames') = Len(frames)
<1>1. frames \in Seq(Frame)
  BY DEF TypeOK
<1>2. CASE frames = << >>
  BY <1>1, <1>2 DEF VarInScope, FunInScope, SortInScope
<1>3. CASE frames # << >>
  BY <1>1, <1>3, InScopeFrames, TopReplaced
<1> QED BY <1>2, <1>3

LEMMA OuterType ==
    ASSUME NEW T, NEW q \in Seq(T), q # << >>
    PROVE  /\ Outer(q) \in Seq(T) /\ Len(Outer(q)) = Len(q) - 1
           /\ \A i \in 1 .. Len(q) - 1 : Outer(q)[i] = q[i]
<1>1. Len(q) - 1 \in Nat /\ \A i \in 1 .. Len(q) - 1 : q[i] \in T
  OBVIOUS
<1>2. Outer(q) = [i \in 1 .. Len(q) - 1 |-> q[i]]
  BY DEF Outer
<1>3. [i \in 1 .. Len(q) - 1 |-> q[i]] \in Seq(T)
  BY <1>1, IsASeq
<1> QED BY <1>1, <1>2, <1>3, LenProperties

(* o is table m, of the names n, without the names V. *)
Takes(o, m, n, V) == \A s \in n : o[s] = IF s \in V THEN Absent ELSE m[s]

LEMMA WithoutVars ==
    ASSUME NEW m \in VarTable, NEW V
    PROVE  Without(m, V) \in VarTable /\ Takes(Without(m, V), m, VarName, V)
BY DEF Without, VarTable, Takes

LEMMA WithoutFuns ==
    ASSUME NEW m \in FunTable, NEW V
    PROVE  Without(m, V) \in FunTable /\ Takes(Without(m, V), m, FunName, V)
BY DEF Without, FunTable, Takes

LEMMA WithoutSorts ==
    ASSUME NEW m \in SortTable, NEW V
    PROVE  Without(m, V) \in SortTable /\ Takes(Without(m, V), m, SortName, V)
BY DEF Without, SortTable, Takes

(* Every name that table m holds is in list. *)
InList(m, n, list) == \A s \in n : m[s] # Absent => s \in ToSet(list)

LEMMA DeclaredInLists ==
    DeclaredListed <=> InList(funs, FunName, functionNames) /\ InList(sorts, SortName, sortOrder)
BY DEF DeclaredListed, InList

LEMMA DeclaredInListsAfter ==
    DeclaredListed' <=> InList(funs', FunName, functionNames') /\ InList(sorts', SortName, sortOrder')
BY DEF DeclaredListed, InList
-----------------------------------------------------------------------------
(* Steps *)

LEMMA VarTypeStep ==
    ASSUME TypeOK
    PROVE  \A s \in VarName, sort \in Sort :
              MakeVar(s, sort) => vars' \in VarTable /\ varOrder' \in Seq(VarName)
<1> SUFFICES ASSUME NEW s \in VarName, NEW sort \in Sort, MakeVar(s, sort)
             PROVE  vars' \in VarTable /\ varOrder' \in Seq(VarName)
  OBVIOUS
<1>1. vars \in VarTable /\ varOrder \in Seq(VarName)
  BY DEF TypeOK
<1>2. CASE Found(vars, s)
  BY <1>1, <1>2 DEF MakeVar
<1>3. CASE ~ Found(vars, s)
  <2>1. vars' = [vars EXCEPT ![s] = sort] /\ varOrder' = OrderWith(varOrder, vars, s)
    BY <1>3 DEF MakeVar
  <2>2. vars' \in VarTable
    BY <1>1, <2>1 DEF VarTable
  <2>3. varOrder' \in Seq(VarName)
    BY <1>1, <2>1, GrownMembers DEF OrderWith
  <2> QED BY <2>2, <2>3
<1> QED BY <1>2, <1>3

(* A function entered in the table, or not, and listed. *)
LEMMA FunAdded ==
    ASSUME TypeOK, DeclaredListed, NEW s \in FunName, NEW kind \in FunKind \cup {Absent},
           funs' = [funs EXCEPT ![s] = kind], functionNames' = Append(functionNames, s)
    PROVE  /\ funs' \in FunTable /\ functionNames' \in Seq(FunName)
           /\ InList(funs', FunName, functionNames')
<1>1. funs \in FunTable /\ functionNames \in Seq(FunName) /\ InList(funs, FunName, functionNames)
  BY DeclaredInLists DEF TypeOK
<1>2. functionNames' \in Seq(FunName) /\ ToSet(functionNames') = ToSet(functionNames) \cup {s}
  BY <1>1, GrownMembers
<1>3. funs' \in FunTable /\ \A b \in FunName : funs'[b] = IF b = s THEN kind ELSE funs[b]
  BY <1>1 DEF FunTable
<1> QED BY <1>1, <1>2, <1>3 DEF InList

LEMMA SortAdded ==
    ASSUME TypeOK, DeclaredListed, NEW s \in SortName, NEW kind \in SortKind, MakeSort(s, kind)
    PROVE  /\ sorts' \in SortTable /\ sortOrder' \in Seq(SortName)
           /\ InList(sorts', SortName, sortOrder')
<1>1. sorts \in SortTable /\ sortOrder \in Seq(SortName) /\ InList(sorts, SortName, sortOrder)
  BY DeclaredInLists DEF TypeOK
<1>2. sortOrder' \in Seq(SortName) /\ ToSet(sortOrder') = ToSet(sortOrder) \cup {s}
  <2>1. CASE sorts[s] = Absent
    BY <1>1, <2>1, GrownMembers DEF MakeSort, OrderWith
  <2>2. CASE sorts[s] # Absent
    BY <1>1, <2>2 DEF MakeSort, OrderWith, InList
  <2> QED BY <2>1, <2>2
<1>3. sorts' \in SortTable /\ \A b \in SortName : sorts'[b] = IF b = s THEN kind ELSE sorts[b]
  BY <1>1 DEF MakeSort, SortTable
<1> QED BY <1>1, <1>2, <1>3 DEF InList

LEMMA PartMembers ==
    ASSUME NEW T, NEW fs \in Seq(T), NEW done \in 0 .. Len(fs)
    PROVE  /\ ToSet(SubSeq(fs, 1, done)) \subseteq ToSet(fs)
           /\ ToSet(SubSeq(fs, done + 1, Len(fs))) \subseteq ToSet(fs)
<1> DEFINE early == SubSeq(fs, 1, done)
           late == SubSeq(fs, done + 1, Len(fs))
<1>1. /\ Len(fs) \in Nat /\ done \in Nat /\ done <= Len(fs) /\ DOMAIN fs = 1 .. Len(fs)
      /\ Len(early) = done /\ DOMAIN early = 1 .. done
      /\ \A k \in 1 .. done : early[k] = fs[k]
      /\ Len(late) = Len(fs) - done /\ DOMAIN late = 1 .. Len(fs) - done
      /\ \A k \in 1 .. Len(fs) - done : late[k] = fs[done + k]
  OBVIOUS
<1> HIDE DEF early, late
<1>2. \A k \in 1 .. done : k \in 1 .. Len(fs)
  BY <1>1
<1>3. \A k \in 1 .. Len(fs) - done : done + k \in 1 .. Len(fs)
  BY <1>1
<1>4. ToSet(early) \subseteq ToSet(fs) /\ ToSet(late) \subseteq ToSet(fs)
  BY <1>1, <1>2, <1>3 DEF ToSet
<1> QED BY <1>4 DEF early, late

LEMMA FunsRecAdded ==
    ASSUME TypeOK, DeclaredListed, NEW fs \in Seq(FunName), NEW declared \in BOOLEAN,
           NEW done \in 0 .. Len(fs), DefineFunsRec(fs, declared, done)
    PROVE  /\ funs' \in FunTable /\ functionNames' \in Seq(FunName)
           /\ recGroup' \in [FunName -> Seq(FunName)]
           /\ InList(funs', FunName, functionNames')
<1>1. /\ funs \in FunTable /\ functionNames \in Seq(FunName) /\ recGroup \in [FunName -> Seq(FunName)]
      /\ InList(funs, FunName, functionNames)
  BY DeclaredInLists DEF TypeOK
<1> DEFINE early == SubSeq(fs, 1, done)
           late == SubSeq(fs, done + 1, Len(fs))
<1>2. functionNames' \in Seq(FunName) /\ ToSet(functionNames') = ToSet(functionNames) \cup ToSet(fs)
  BY <1>1, JoinedMembers DEF DefineFunsRec
<1>3. ToSet(early) \subseteq ToSet(fs) /\ ToSet(late) \subseteq ToSet(fs)
  BY PartMembers
<1> HIDE DEF early, late
<1>4. funs' = [a \in FunName |-> CASE declared /\ a \in ToSet(early) -> "rec"
                                   [] declared /\ a \in ToSet(late) -> "dec"
                                   [] OTHER -> funs[a]]
  BY DEF DefineFunsRec, early, late
<1>5. ASSUME NEW a \in FunName
      PROVE  /\ funs'[a] \in FunKind \cup {Absent}
             /\ funs'[a] # Absent => a \in ToSet(functionNames')
  <2>1. CASE declared /\ a \in ToSet(early)
    BY <1>2, <1>3, <1>4, <2>1 DEF FunKind
  <2>2. CASE ~ (declared /\ a \in ToSet(early)) /\ declared /\ a \in ToSet(late)
    BY <1>2, <1>3, <1>4, <2>2 DEF FunKind
  <2>3. CASE ~ (declared /\ a \in ToSet(early)) /\ ~ (declared /\ a \in ToSet(late))
    <3>1. funs'[a] = funs[a]
      BY <1>4, <2>3
    <3> QED BY <1>1, <1>2, <3>1 DEF FunTable, InList
  <2> QED BY <2>1, <2>2, <2>3
<1>6. funs' \in FunTable
  BY <1>4, <1>5 DEF FunTable
<1>7. recGroup' \in [FunName -> Seq(FunName)]
  BY <1>1 DEF DefineFunsRec
<1> QED BY <1>2, <1>5, <1>6, <1>7 DEF InList

(* Names that are taken out of the list are taken out of the table. *)
LEMMA FunsRemoved ==
    ASSUME TypeOK, DeclaredListed, NEW fs \in Seq(FunName),
           funs' = Without(funs, ToSet(fs)), functionNames' = Unlisted(functionNames, fs)
    PROVE  /\ funs' \in FunTable /\ functionNames' \in Seq(FunName)
           /\ InList(funs', FunName, functionNames')
<1>1. funs \in FunTable /\ functionNames \in Seq(FunName) /\ InList(funs, FunName, functionNames)
  BY DeclaredInLists DEF TypeOK
<1>2. /\ functionNames' \in Seq(FunName)
      /\ \A a \in ToSet(functionNames) \ ToSet(fs) : a \in ToSet(functionNames')
  BY <1>1, UnlistedMembers
<1>3. /\ funs' \in FunTable
      /\ \A a \in FunName : funs'[a] = IF a \in ToSet(fs) THEN Absent ELSE funs[a]
  <2>1. funs' \in FunTable /\ Takes(funs', funs, FunName, ToSet(fs))
    BY <1>1, WithoutFuns
  <2> QED BY <2>1 DEF Takes
<1> QED BY <1>1, <1>2, <1>3 DEF InList

LEMMA DeclaredType == ASSUME TypeOK PROVE Declared \in Snapshot
<1>1. Functions \in Seq(FunName)
  BY ListedType DEF TypeOK, Functions
<1> QED BY <1>1 DEF TypeOK, Declared, Snapshot

(* Every operation, of any names. *)
Operation ==
    \/ \E s \in VarName, sort \in Sort : DeclareVar(s, sort) \/ MkVar(s, sort)
    \/ \E s, t \in VarName : Rename(s, t)
    \/ \E s \in FunName : DeclareFun(s) \/ RemoveFun(s) \/ \E kind \in FunKind \cup {Absent} : DefineFun(s, kind)
    \/ \E fs \in Seq(FunName), declared \in BOOLEAN : \E done \in 0 .. Len(fs) : DefineFunsRec(fs, declared, done)
    \/ \E s \in SortName : DeclareSort(s) \/ \E kind \in SortKind : DefineSort(s, kind)
    \/ PushLevel \/ PopLevel \/ ResetAll

LEMMA NextIsOperation == Next => Operation
<1>1. ScriptFun \subseteq FunName /\ ScriptSort \subseteq SortName /\ FunLists \subseteq Seq(FunName)
  BY ScriptAssumption, FunListsType
<1> QED BY <1>1 DEF Next, DeclaringFun, Unscoped, Editing, Operation

(* Every operation keeps the types and both lists. *)
LEMMA OperationKeepsLists ==
    ASSUME TypeOK, DeclaredListed, Operation
    PROVE  TypeOK' /\ DeclaredListed'
<1> USE DEF FunKind
<1>0. /\ vars \in VarTable /\ varOrder \in Seq(VarName) /\ funs \in FunTable /\ functionNames \in Seq(FunName)
      /\ recGroup \in [FunName -> Seq(FunName)] /\ sorts \in SortTable /\ sortOrder \in Seq(SortName)
      /\ frames \in Seq(Frame) /\ snapshots \in Seq(Snapshot) /\ Len(snapshots) = Len(frames)
      /\ InList(funs, FunName, functionNames) /\ InList(sorts, SortName, sortOrder)
  BY DeclaredInLists DEF TypeOK
<1>1. ASSUME NEW s \in VarName, NEW sort \in Sort, DeclareVar(s, sort) PROVE TypeOK' /\ DeclaredListed'
  <2>1. vars' \in VarTable /\ varOrder' \in Seq(VarName)
    BY <1>1, VarTypeStep DEF DeclareVar
  <2>2. frames' \in Seq(Frame) /\ Len(frames') = Len(frames)
    BY <1>1, InScopeType DEF DeclareVar
  <2> QED BY <1>0, <1>1, <2>1, <2>2, DeclaredInListsAfter DEF DeclareVar, TypeOK
<1>2. ASSUME NEW s \in VarName, NEW sort \in Sort, MkVar(s, sort) PROVE TypeOK' /\ DeclaredListed'
  <2>1. vars' \in VarTable /\ varOrder' \in Seq(VarName)
    BY <1>2, VarTypeStep DEF MkVar
  <2> QED BY <1>0, <1>2, <2>1, DeclaredInListsAfter DEF MkVar, TypeOK
<1>3. ASSUME NEW s \in VarName, NEW t \in VarName, Rename(s, t) PROVE TypeOK' /\ DeclaredListed'
  <2>1. vars' \in VarTable
    BY <1>0, <1>3 DEF Rename, VarTable
  <2> QED BY <1>0, <1>3, <2>1, DeclaredInListsAfter DEF Rename, TypeOK
<1>4. ASSUME NEW s \in FunName, DeclareFun(s) PROVE TypeOK' /\ DeclaredListed'
  <2>1. /\ funs' \in FunTable /\ functionNames' \in Seq(FunName)
        /\ InList(funs', FunName, functionNames')
    BY <1>4, FunAdded DEF DeclareFun
  <2>2. frames' \in Seq(Frame) /\ Len(frames') = Len(frames)
    BY <1>4, InScopeType DEF DeclareFun
  <2> QED BY <1>0, <1>4, <2>1, <2>2, DeclaredInListsAfter DEF DeclareFun, TypeOK
<1>5. ASSUME NEW s \in FunName, NEW kind \in FunKind \cup {Absent}, DefineFun(s, kind)
      PROVE  TypeOK' /\ DeclaredListed'
  <2>1. /\ funs' \in FunTable /\ functionNames' \in Seq(FunName)
        /\ InList(funs', FunName, functionNames')
    BY <1>5, FunAdded DEF DefineFun
  <2>2. frames' \in Seq(Frame) /\ Len(frames') = Len(frames)
    BY <1>5, InScopeType DEF DefineFun
  <2> QED BY <1>0, <1>5, <2>1, <2>2, DeclaredInListsAfter DEF DefineFun, TypeOK
<1>6. ASSUME NEW fs \in Seq(FunName), NEW declared \in BOOLEAN, NEW done \in 0 .. Len(fs),
             DefineFunsRec(fs, declared, done)
      PROVE  TypeOK' /\ DeclaredListed'
  <2>1. /\ funs' \in FunTable /\ functionNames' \in Seq(FunName)
        /\ recGroup' \in [FunName -> Seq(FunName)]
        /\ InList(funs', FunName, functionNames')
    BY <1>6, FunsRecAdded
  <2> QED BY <1>0, <1>6, <2>1, DeclaredInListsAfter DEF DefineFunsRec, TypeOK
<1>7. ASSUME NEW s \in FunName, RemoveFun(s) PROVE TypeOK' /\ DeclaredListed'
  <2>1. <<s>> \in Seq(FunName) /\ ToSet(<<s>>) = {s}
    BY DEF ToSet
  <2>2. funs' = Without(funs, ToSet(<<s>>)) /\ functionNames' = Unlisted(functionNames, <<s>>)
    BY <1>0, <1>7, <2>1 DEF RemoveFun, Without, FunTable
  <2>3. /\ funs' \in FunTable /\ functionNames' \in Seq(FunName)
        /\ InList(funs', FunName, functionNames')
    BY <2>1, <2>2, FunsRemoved
  <2> QED BY <1>0, <1>7, <2>3, DeclaredInListsAfter DEF RemoveFun, TypeOK
<1>8. ASSUME NEW s \in SortName, DeclareSort(s) PROVE TypeOK' /\ DeclaredListed'
  <2>1. /\ sorts' \in SortTable /\ sortOrder' \in Seq(SortName)
        /\ InList(sorts', SortName, sortOrder')
    BY <1>8, SortAdded DEF DeclareSort, SortKind
  <2>2. frames' \in Seq(Frame) /\ Len(frames') = Len(frames)
    BY <1>8, InScopeType DEF DeclareSort
  <2> QED BY <1>0, <1>8, <2>1, <2>2, DeclaredInListsAfter DEF DeclareSort, TypeOK
<1>9. ASSUME NEW s \in SortName, NEW kind \in SortKind, DefineSort(s, kind) PROVE TypeOK' /\ DeclaredListed'
  <2>1. /\ sorts' \in SortTable /\ sortOrder' \in Seq(SortName)
        /\ InList(sorts', SortName, sortOrder')
    BY <1>9, SortAdded DEF DefineSort
  <2> QED BY <1>0, <1>9, <2>1, DeclaredInListsAfter DEF DefineSort, TypeOK
<1>10. ASSUME PushLevel PROVE TypeOK' /\ DeclaredListed'
  <2>1. [vars |-> {}, funs |-> << >>, sorts |-> {}] \in Frame
    BY EmptySeq DEF Frame
  <2>2. frames' \in Seq(Frame) /\ Len(frames') = Len(frames) + 1
    <3> HIDE DEF Frame
    <3> QED BY <1>0, <1>10, <2>1 DEF PushLevel
  <2>3. snapshots' \in Seq(Snapshot) /\ Len(snapshots') = Len(snapshots) + 1
    <3>1. Declared \in Snapshot
      BY DeclaredType
    <3> HIDE DEF Snapshot, Declared
    <3> QED BY <1>0, <1>10, <3>1 DEF PushLevel
  <2> QED BY <1>0, <1>10, <2>2, <2>3, DeclaredInListsAfter DEF PushLevel, tables, TypeOK
<1>11. ASSUME PopLevel PROVE TypeOK' /\ DeclaredListed'
  <2>1. frames # << >> /\ snapshots # << >>
    BY <1>0, <1>11, EmptySeq DEF PopLevel
  <2>2. Top \in Frame
    BY <1>0, <2>1, TopType DEF Top
  <2>3. frames' \in Seq(Frame) /\ Len(frames') = Len(frames) - 1
    BY <1>0, <1>11, <2>1, OuterType DEF PopLevel
  <2>4. snapshots' \in Seq(Snapshot) /\ Len(snapshots') = Len(snapshots) - 1
    BY <1>0, <1>11, <2>1, OuterType DEF PopLevel
  <2>5. vars' \in VarTable
    BY <1>0, <1>11, WithoutVars DEF PopLevel
  <2>6. /\ sorts' \in SortTable
        /\ \A a \in SortName : sorts'[a] # Absent => sorts[a] # Absent
    <3>1. sorts' \in SortTable /\ Takes(sorts', sorts, SortName, Top.sorts)
      BY <1>0, <1>11, WithoutSorts DEF PopLevel
    <3> QED BY <3>1 DEF Takes
  <2>7. /\ funs' \in FunTable /\ functionNames' \in Seq(FunName)
        /\ InList(funs', FunName, functionNames')
    BY <1>11, <2>2, FrameFields, FunsRemoved DEF PopLevel
  <2>8. InList(sorts', SortName, sortOrder')
    BY <1>0, <1>11, <2>6 DEF PopLevel, InList
  <2> QED BY <1>0, <1>11, <2>3, <2>4, <2>5, <2>6, <2>7, <2>8, DeclaredInListsAfter DEF PopLevel, TypeOK
<1>12. ASSUME ResetAll PROVE TypeOK' /\ DeclaredListed'
  <2>1. NoSymbols.vars \in VarTable /\ NoSymbols.funs \in FunTable /\ NoSymbols.sorts \in SortTable
    BY DEF NoSymbols, VarTable, FunTable, SortTable
  <2>2. InList(NoSymbols.funs, FunName, << >>) /\ InList(NoSymbols.sorts, SortName, << >>)
    BY DEF NoSymbols, InList
  <2> QED BY <1>12, <2>1, <2>2, DeclaredInListsAfter, EmptySeq DEF ResetAll, NoTables, TypeOK
<1> QED BY <1>1, <1>2, <1>3, <1>4, <1>5, <1>6, <1>7, <1>8, <1>9, <1>10, <1>11, <1>12 DEF Operation

(* A step that changes nothing. *)
LEMMA NothingKeepsLists ==
    ASSUME TypeOK, DeclaredListed, UNCHANGED symbolVars
    PROVE  TypeOK' /\ DeclaredListed'
BY DEF symbolVars, tables, TypeOK, DeclaredListed

LEMMA StepKeepsLists ==
    ASSUME TypeOK, DeclaredListed, [Next]_symbolVars
    PROVE  TypeOK' /\ DeclaredListed'
BY NextIsOperation, OperationKeepsLists, NothingKeepsLists

LEMMA InitLists == Init => TypeOK /\ DeclaredListed
<1> SUFFICES ASSUME Init PROVE TypeOK /\ DeclaredListed
  OBVIOUS
<1>1. NoSymbols.vars \in VarTable /\ NoSymbols.funs \in FunTable /\ NoSymbols.sorts \in SortTable
  BY DEF NoSymbols, VarTable, FunTable, SortTable
<1>2. InList(NoSymbols.funs, FunName, << >>) /\ InList(NoSymbols.sorts, SortName, << >>)
  BY DEF NoSymbols, InList
<1> QED BY <1>1, <1>2, DeclaredInLists, EmptySeq DEF Init, TypeOK

LEMMA SymbolsInvariant == Spec => [](TypeOK /\ DeclaredListed)
<1>1. TypeOK /\ DeclaredListed /\ [Next]_symbolVars => (TypeOK /\ DeclaredListed)'
  BY StepKeepsLists
<1> QED BY <1>1, InitLists, PTL DEF Spec

(* Whatever a script declares, defines, fails to define, removes or leaves    *)
(* with a scope, the tables and the record of each scope keep their types    *)
(* (struct ScopeFrame, symbol_manager.h).                                     *)
THEOREM TypeCorrect == Spec => []TypeOK
BY SymbolsInvariant, PTL

(* A function or sort that is declared can be found by who walks the order   *)
(* lists: getFunctions, and dumpSMT2, which writes nothing else.             *)
THEOREM DeclaredAreListed == Spec => []DeclaredListed
BY SymbolsInvariant, PTL
-----------------------------------------------------------------------------
(* Spellings *)

(* No name in n and its other spelling are both in table m. *)
Spelled(m, n) == \A s \in n, t \in n : t = OtherSpelling(s) => (m[s] = Absent \/ m[t] = Absent)

LEMMA SpelledTables == OneSpelling <=> Spelled(vars, VarName) /\ Spelled(funs, FunName)
BY DEF OneSpelling, Spelled

LEMMA SpelledTablesAfter == OneSpelling' <=> Spelled(vars', VarName) /\ Spelled(funs', FunName)
BY DEF OneSpelling, Spelled

(* The other spelling is another name, whose other spelling is the name. *)
LEMMA OtherIsOther ==
    ASSUME NEW s, s = <<s[1], s[2]>>, s[2] \in BOOLEAN
    PROVE  OtherSpelling(s) # s /\ OtherSpelling(OtherSpelling(s)) = s
<1> DEFINE a == s[1]
           q == s[2]
<1>1. q \in BOOLEAN /\ s = <<a, q>>
  OBVIOUS
<1>2. OtherSpelling(s) = <<a, ~q>>
  BY DEF OtherSpelling
<1> HIDE DEF a, q
<1>3. OtherSpelling(<<a, ~q>>) = <<a, ~(~q)>>
  BY DEF OtherSpelling
<1>4. CASE q = TRUE
  <2>1. s = <<a, TRUE>> /\ OtherSpelling(s) = <<a, FALSE>> /\ OtherSpelling(<<a, FALSE>>) = <<a, TRUE>>
    BY <1>1, <1>2, <1>3, <1>4
  <2>2. <<a, TRUE>> # <<a, FALSE>>
    OBVIOUS
  <2> QED BY <2>1, <2>2
<1>5. CASE q = FALSE
  <2>1. s = <<a, FALSE>> /\ OtherSpelling(s) = <<a, TRUE>> /\ OtherSpelling(<<a, TRUE>>) = <<a, FALSE>>
    BY <1>1, <1>2, <1>3, <1>5
  <2>2. <<a, TRUE>> # <<a, FALSE>>
    OBVIOUS
  <2> QED BY <2>1, <2>2
<1> QED BY <1>1, <1>4, <1>5

(* Entering names that are not found, none of them in both spellings. *)
LEMMA SpelledGrows ==
    ASSUME NEW n, \A s \in n : s = <<s[1], s[2]>> /\ s[2] \in BOOLEAN,
           NEW m, DOMAIN m = n, Spelled(m, n), NEW A \in SUBSET n,
           \A s \in A : ~ Found(m, s), \A s \in A, t \in A : t # OtherSpelling(s),
           NEW o, \A s \in n : o[s] # Absent => s \in A \/ m[s] # Absent
    PROVE  Spelled(o, n)
<1> SUFFICES ASSUME NEW s \in n, NEW t \in n, t = OtherSpelling(s), o[s] # Absent, o[t] # Absent
             PROVE  FALSE
  BY DEF Spelled
<1>1. s = OtherSpelling(t)
  BY OtherIsOther
<1>2. t \in Spellings(s) /\ s \in Spellings(t)
  BY <1>1 DEF Spellings
<1>3. CASE s \in A /\ t \in A
  BY <1>3
<1>4. CASE s \in A /\ m[t] # Absent
  BY <1>2, <1>4 DEF Found
<1>5. CASE t \in A /\ m[s] # Absent
  BY <1>2, <1>5 DEF Found
<1>6. CASE m[s] # Absent /\ m[t] # Absent
  BY <1>6 DEF Spelled
<1> QED BY <1>3, <1>4, <1>5, <1>6

LEMMA VarSpelled ==
    ASSUME TypeOK, Spelled(vars, VarName), NEW s \in VarName, NEW sort \in Sort, MakeVar(s, sort)
    PROVE  Spelled(vars', VarName)
<1>1. CASE Found(vars, s)
  BY <1>1 DEF MakeVar
<1>2. CASE ~ Found(vars, s)
  <2>1. vars' = [vars EXCEPT ![s] = sort] /\ DOMAIN vars = VarName
    BY <1>2 DEF MakeVar, TypeOK, VarTable
  <2> DEFINE A == {s}
  <2>2. \A t \in VarName : vars'[t] # Absent => t \in A \/ vars[t] # Absent
    BY <2>1
  <2>3. \A t \in VarName : t = <<t[1], t[2]>> /\ t[2] \in BOOLEAN
    BY NameAssumption
  <2>4. \A t \in A, b \in A : b # OtherSpelling(t)
    BY <2>3, OtherIsOther
  <2>5. A \in SUBSET VarName /\ \A t \in A : ~ Found(vars, t)
    BY <1>2
  <2> HIDE DEF A
  <2> QED BY <2>1, <2>2, <2>3, <2>4, <2>5, SpelledGrows
<1> QED BY <1>1, <1>2

LEMMA FunSpelled ==
    ASSUME TypeOK, Spelled(funs, FunName), NEW s \in FunName, NEW kind,
           ~ Found(funs, s), funs' = [funs EXCEPT ![s] = kind]
    PROVE  Spelled(funs', FunName)
<1>1. DOMAIN funs = FunName
  BY DEF TypeOK, FunTable
<1>2. \A t \in FunName : funs'[t] # Absent => t \in {s} \/ funs[t] # Absent
  BY <1>1
<1>3. \A t \in FunName : t = <<t[1], t[2]>> /\ t[2] \in BOOLEAN
  BY NameAssumption
<1> DEFINE A == {s}
<1>4. \A t \in A, b \in A : b # OtherSpelling(t)
  BY <1>3, OtherIsOther
<1>5. A \in SUBSET FunName /\ \A t \in A : ~ Found(funs, t)
  OBVIOUS
<1> HIDE DEF A
<1>6. \A t \in FunName : funs'[t] # Absent => t \in A \/ funs[t] # Absent
  BY <1>2 DEF A
<1> QED BY <1>1, <1>3, <1>4, <1>5, <1>6, SpelledGrows

LEMMA FunsRecSpelled ==
    ASSUME TypeOK, Spelled(funs, FunName), NEW fs \in FunLists, NEW declared, NEW done \in 0 .. Len(fs),
           DefineFunsRec(fs, declared, done)
    PROVE  Spelled(funs', FunName)
<1>1. DOMAIN funs = FunName
  BY DEF TypeOK, FunTable
<1>2. fs \in Seq(FunName)
  BY FunListsType
<1> DEFINE A == ToSet(fs)
<1>3. A \in SUBSET FunName /\ \A s \in A : ~ Found(funs, s)
  BY <1>2 DEF ToSet, DefineFunsRec
<1>4. \A s \in FunName : s = <<s[1], s[2]>> /\ s[2] \in BOOLEAN
  BY NameAssumption
<1>5. \A s \in A, t \in A : t # OtherSpelling(s)
  <2>1. CASE fs \in {<<a>> : a \in ScriptFun}
    <3>1. PICK a \in FunName : fs = <<a>>
      BY <2>1, ScriptAssumption
    <3>2. A = {a}
      BY <3>1 DEF ToSet
    <3> QED BY <1>4, <3>2, OtherIsOther
  <2>2. CASE fs \in ScriptFun \X ScriptFun /\ fs[2] \notin Spellings(fs[1])
    <3>1. fs = <<fs[1], fs[2]>> /\ fs[1] \in FunName /\ fs[2] \in FunName
      BY <2>2, ScriptAssumption
    <3>2. A = {fs[1], fs[2]}
      <4> DEFINE a == fs[1]
                 b == fs[2]
      <4>1. fs = <<a, b>>
        BY <3>1
      <4> HIDE DEF a, b
      <4>2. ToSet(<<a, b>>) = {a, b}
        BY DEF ToSet
      <4> QED BY <4>1, <4>2 DEF a, b
    <3>3. fs[2] # OtherSpelling(fs[1])
      BY <2>2 DEF Spellings
    <3>4. fs[1] # OtherSpelling(fs[2])
      BY <1>4, <3>1, <3>3, OtherIsOther
    <3>5. fs[1] # OtherSpelling(fs[1]) /\ fs[2] # OtherSpelling(fs[2])
      BY <1>4, <3>1, OtherIsOther
    <3> QED BY <3>2, <3>3, <3>4, <3>5
  <2> QED BY <2>1, <2>2 DEF FunLists
<1>6. \A s \in FunName : funs'[s] # Absent => s \in A \/ funs[s] # Absent
  <2> SUFFICES ASSUME NEW s \in FunName, s \notin A PROVE funs'[s] = funs[s]
    OBVIOUS
  <2>1. s \notin ToSet(SubSeq(fs, 1, done)) /\ s \notin ToSet(SubSeq(fs, done + 1, Len(fs)))
    BY <1>2, PartMembers
  <2> QED BY <2>1 DEF DefineFunsRec
<1> HIDE DEF A
<1> QED BY <1>1, <1>3, <1>4, <1>5, <1>6, SpelledGrows

(* The steps of ScopedNext are steps of Next. *)
LEMMA ScopedStepIsStep == ScopedNext => Next
BY DEF ScopedNext, Next

LEMMA StepKeepsSpelling ==
    ASSUME TypeOK, OneSpelling, [ScopedNext]_symbolVars
    PROVE  OneSpelling'
<1>0. Spelled(vars, VarName) /\ Spelled(funs, FunName)
  BY SpelledTables
<1>1. ASSUME NEW s \in VarName, NEW sort \in Sort, DeclareVar(s, sort) PROVE OneSpelling'
  BY <1>0, <1>1, VarSpelled, SpelledTablesAfter DEF DeclareVar
<1>2. ASSUME NEW s \in VarName, NEW sort \in Sort, MkVar(s, sort) PROVE OneSpelling'
  BY <1>0, <1>2, VarSpelled, SpelledTablesAfter DEF MkVar
<1>3. ASSUME NEW s \in FunName, DeclareFun(s) PROVE OneSpelling'
  BY <1>0, <1>3, FunSpelled, SpelledTablesAfter DEF DeclareFun
<1>4. ASSUME NEW s \in FunName, NEW kind, DefineFun(s, kind) PROVE OneSpelling'
  BY <1>0, <1>4, FunSpelled, SpelledTablesAfter DEF DefineFun
<1>5. ASSUME NEW fs \in FunLists, NEW declared \in BOOLEAN, NEW done \in 0 .. Len(fs),
             DefineFunsRec(fs, declared, done)
      PROVE  OneSpelling'
  <2>1. Spelled(funs', FunName)
    BY <1>0, <1>5, FunsRecSpelled
  <2>2. vars' = vars
    BY <1>5 DEF DefineFunsRec
  <2> QED BY <1>0, <2>1, <2>2, SpelledTablesAfter
<1>6. ASSUME NEW s, DeclareSort(s) PROVE OneSpelling'
  BY <1>0, <1>6, SpelledTablesAfter DEF DeclareSort
<1>7. ASSUME NEW s, NEW kind, DefineSort(s, kind) PROVE OneSpelling'
  BY <1>0, <1>7, SpelledTablesAfter DEF DefineSort
<1>8. ASSUME PushLevel PROVE OneSpelling'
  BY <1>0, <1>8, SpelledTablesAfter DEF PushLevel, tables
<1>9. ASSUME PopLevel PROVE OneSpelling'
  <2>1. vars' = Without(vars, Top.vars) /\ funs' = Without(funs, ToSet(Top.funs))
    BY <1>9 DEF PopLevel
  <2>2. vars \in VarTable /\ funs \in FunTable
    BY DEF TypeOK
  <2>3. Takes(vars', vars, VarName, Top.vars) /\ Takes(funs', funs, FunName, ToSet(Top.funs))
    BY <2>1, <2>2, WithoutVars, WithoutFuns
  <2> QED BY <1>0, <2>3, SpelledTablesAfter DEF Spelled, Takes
<1>10. ASSUME ResetAll PROVE OneSpelling'
  BY <1>10, SpelledTablesAfter DEF ResetAll, NoTables, NoSymbols, Spelled
<1>11. ASSUME UNCHANGED symbolVars PROVE OneSpelling'
  BY <1>0, <1>11, SpelledTablesAfter DEF symbolVars, tables
<1>12. ScriptFun \subseteq FunName
  BY ScriptAssumption
<1> QED BY <1>1, <1>2, <1>3, <1>4, <1>5, <1>6, <1>7, <1>8, <1>9, <1>10, <1>11, <1>12
        DEF ScopedNext, DeclaringFun, Unscoped

LEMMA InitSpelling == Init => OneSpelling
BY SpelledTables DEF Init, NoSymbols, Spelled
-----------------------------------------------------------------------------
(* What each scope would give back *)

(* The names that scopes i and further in registered, n scopes being open. *)
Added(q, i, n) == UNION {q[j] : j \in i .. n}

VarsOf(fr) == [j \in 1 .. Len(fr) |-> fr[j].vars]
FunsOf(fr) == [j \in 1 .. Len(fr) |-> ToSet(fr[j].funs)]
SortsOf(fr) == [j \in 1 .. Len(fr) |-> fr[j].sorts]

(* The content when what scopes i and further in registered is taken out. *)
Restored(v, fu, names, so, fr, i) ==
    [vars |-> Without(v, Added(VarsOf(fr), i, Len(fr))),
     funs |-> Without(fu, Added(FunsOf(fr), i, Len(fr))),
     functions |-> Listed(names, Without(fu, Added(FunsOf(fr), i, Len(fr)))),
     sorts |-> Without(so, Added(SortsOf(fr), i, Len(fr)))]

UndoneOf(v, fu, names, so, fr, sn) ==
    \A i \in 1 .. Len(fr) : sn[i] = Restored(v, fu, names, so, fr, i)

(* The invariant that popScope relies on: in each open scope, the tables as   *)
(* they were at the push are the present ones without the names that this    *)
(* scope and those further in registered.                                    *)
ScopesUndo == UndoneOf(vars, funs, functionNames, sorts, frames, snapshots)

(* Only the innermost of n scopes registers V; none registers anything. *)
Grows(q, r, n, V) == r[n] = q[n] \cup V /\ \A j \in 1 .. n : j # n => r[j] = q[j]
Agree(q, r, n) == \A j \in 1 .. n : r[j] = q[j]

LEMMA AddedTop ==
    ASSUME NEW n \in Nat, NEW i \in 1 .. n, NEW q, NEW r, NEW V, Grows(q, r, n, V)
    PROVE  Added(r, i, n) = Added(q, i, n) \cup V
<1>1. n \in i .. n /\ \A j \in i .. n : j \in 1 .. n
  OBVIOUS
<1> QED BY <1>1 DEF Added, Grows

LEMMA AddedSame ==
    ASSUME NEW n \in Nat, NEW i \in 1 .. n, NEW q, NEW r, Agree(q, r, n)
    PROVE  Added(r, i, n) = Added(q, i, n)
<1>1. \A j \in i .. n : j \in 1 .. n
  OBVIOUS
<1> QED BY <1>1 DEF Added, Agree

LEMMA AddedPush ==
    ASSUME NEW n \in Nat, NEW i \in 1 .. n, NEW q, NEW r, Agree(q, r, n), r[n + 1] = {}
    PROVE  Added(r, i, n + 1) = Added(q, i, n)
<1>1. \A j : j \in i .. n + 1 <=> j = n + 1 \/ j \in i .. n
  OBVIOUS
<1>2. \A j \in i .. n : j \in 1 .. n
  OBVIOUS
<1> QED BY <1>1, <1>2 DEF Added, Agree

LEMMA AddedLast ==
    ASSUME NEW n \in Nat, NEW q
    PROVE  Added(q, n, n) = q[n]
<1>1. n .. n = {n}
  OBVIOUS
<1> QED BY <1>1 DEF Added

LEMMA AddedPop ==
    ASSUME NEW n \in Nat, n > 0, NEW i \in 1 .. n - 1, NEW q, NEW r, Agree(q, r, n - 1)
    PROVE  Added(q, i, n) = Added(r, i, n - 1) \cup q[n]
<1>1. \A j : j \in i .. n <=> j = n \/ j \in i .. n - 1
  OBVIOUS
<1>2. \A j \in i .. n - 1 : j \in 1 .. n - 1
  OBVIOUS
<1> QED BY <1>1, <1>2 DEF Added, Agree

(* What the innermost scope registered, every outer one would take out too. *)
LEMMA AddedInner ==
    ASSUME NEW n \in Nat, NEW i \in 1 .. n, NEW q
    PROVE  Added(q, n, n) \subseteq Added(q, i, n)
BY DEF Added

(* A name that is in neither table, or is taken out, makes no difference. *)
EqualBut(m, o, n, s) == DOMAIN m = n /\ DOMAIN o = n /\ \A t \in n : t # s => o[t] = m[t]

LEMMA WithoutGrown ==
    ASSUME NEW n, NEW m, NEW o, NEW s, NEW V, NEW W, EqualBut(m, o, n, s),
           W = V \cup {s}, s \in n => (s \in V \/ m[s] = Absent)
    PROVE  Without(o, W) = Without(m, V)
<1>1. \A t \in n : (IF t \in W THEN Absent ELSE o[t]) = (IF t \in V THEN Absent ELSE m[t])
  BY DEF EqualBut
<1> QED BY <1>1 DEF Without, EqualBut

LEMMA WithoutTwice == ASSUME NEW m, NEW V, NEW W
                      PROVE  Without(Without(m, V), W) = Without(m, W \cup V)
BY DEF Without

LEMMA WithoutNone ==
    /\ \A m \in VarTable : Without(m, {}) = m
    /\ \A m \in FunTable : Without(m, {}) = m
    /\ \A m \in SortTable : Without(m, {}) = m
BY DEF Without, VarTable, FunTable, SortTable
LEMMA TopFields ==
    ASSUME NEW fr \in Seq(Frame), fr # << >>, NEW t \in Frame, NEW o, o = [fr EXCEPT ![Len(fr)] = t]
    PROVE  /\ Len(fr) \in Nat /\ Len(fr) > 0 /\ Len(o) = Len(fr)
           /\ \A V : t.vars = fr[Len(fr)].vars \cup V => Grows(VarsOf(fr), VarsOf(o), Len(fr), V)
           /\ \A V : ToSet(t.funs) = ToSet(fr[Len(fr)].funs) \cup V => Grows(FunsOf(fr), FunsOf(o), Len(fr), V)
           /\ \A V : t.sorts = fr[Len(fr)].sorts \cup V => Grows(SortsOf(fr), SortsOf(o), Len(fr), V)
           /\ t.vars = fr[Len(fr)].vars => Agree(VarsOf(fr), VarsOf(o), Len(fr))
           /\ t.funs = fr[Len(fr)].funs => Agree(FunsOf(fr), FunsOf(o), Len(fr))
           /\ t.sorts = fr[Len(fr)].sorts => Agree(SortsOf(fr), SortsOf(o), Len(fr))
<1> DEFINE n == Len(fr)
<1>1. n \in Nat /\ n > 0 /\ n \in 1 .. n
  OBVIOUS
<1>2. Len(o) = n /\ \A i \in 1 .. n : o[i] = IF i = n THEN t ELSE fr[i]
  BY TopReplaced
<1> HIDE DEF n
<1>3. ASSUME NEW j \in 1 .. n
      PROVE  /\ VarsOf(fr)[j] = fr[j].vars /\ VarsOf(o)[j] = o[j].vars
             /\ FunsOf(fr)[j] = ToSet(fr[j].funs) /\ FunsOf(o)[j] = ToSet(o[j].funs)
             /\ SortsOf(fr)[j] = fr[j].sorts /\ SortsOf(o)[j] = o[j].sorts
  BY <1>2 DEF VarsOf, FunsOf, SortsOf, n
<1>4. o[n] = t /\ \A j \in 1 .. n : j # n => o[j] = fr[j]
  BY <1>1, <1>2
<1>5. /\ VarsOf(fr)[n] = fr[n].vars /\ VarsOf(o)[n] = t.vars
      /\ FunsOf(fr)[n] = ToSet(fr[n].funs) /\ FunsOf(o)[n] = ToSet(t.funs)
      /\ SortsOf(fr)[n] = fr[n].sorts /\ SortsOf(o)[n] = t.sorts
  BY ZenonT(40), <1>1, <1>3, <1>4
<1>6. ASSUME NEW j \in 1 .. n, j # n
      PROVE  /\ VarsOf(o)[j] = VarsOf(fr)[j] /\ FunsOf(o)[j] = FunsOf(fr)[j]
             /\ SortsOf(o)[j] = SortsOf(fr)[j]
  <2>1. o[j] = fr[j]
    BY <1>4, <1>6
  <2>2. /\ VarsOf(fr)[j] = fr[j].vars /\ VarsOf(o)[j] = o[j].vars
        /\ FunsOf(fr)[j] = ToSet(fr[j].funs) /\ FunsOf(o)[j] = ToSet(o[j].funs)
        /\ SortsOf(fr)[j] = fr[j].sorts /\ SortsOf(o)[j] = o[j].sorts
    BY <1>3
  <2> QED BY <2>1, <2>2, Zenon
<1>7. /\ \A V : t.vars = fr[n].vars \cup V => Grows(VarsOf(fr), VarsOf(o), n, V)
      /\ t.vars = fr[n].vars => Agree(VarsOf(fr), VarsOf(o), n)
  BY <1>5, <1>6 DEF Grows, Agree
<1>8. /\ \A V : ToSet(t.funs) = ToSet(fr[n].funs) \cup V => Grows(FunsOf(fr), FunsOf(o), n, V)
      /\ t.funs = fr[n].funs => Agree(FunsOf(fr), FunsOf(o), n)
  BY <1>5, <1>6 DEF Grows, Agree
<1>9. /\ \A V : t.sorts = fr[n].sorts \cup V => Grows(SortsOf(fr), SortsOf(o), n, V)
      /\ t.sorts = fr[n].sorts => Agree(SortsOf(fr), SortsOf(o), n)
  BY <1>5, <1>6 DEF Grows, Agree
<1> QED BY <1>1, <1>2, <1>7, <1>8, <1>9 DEF n

LEMMA NothingOpen ==
    ASSUME frames = << >>, frames' = frames PROVE ScopesUndo'
<1>1. Len(frames') = 0
  BY EmptySeq
<1> QED BY <1>1 DEF ScopesUndo, UndoneOf

LEMMA DeclareVarUndone ==
    ASSUME TypeOK, ScopesUndo, NEW s \in VarName, NEW sort, NotOuter("vars", s), DeclareVar(s, sort)
    PROVE  ScopesUndo'
<1>1. CASE frames = << >>
  BY <1>1, NothingOpen DEF DeclareVar, VarInScope
<1>2. CASE frames # << >>
  <2> DEFINE n == Len(frames)
             t == VarFrame(Top, s)
  <2>1. frames \in Seq(Frame) /\ vars \in VarTable /\ Top = frames[n]
    BY DEF TypeOK, Top
  <2>2. t \in Frame /\ frames' = [frames EXCEPT ![n] = t]
    BY <1>2, InScopeFrames DEF DeclareVar
  <2>3. Top \in Frame
    BY <1>2, <2>1, TopType
  <2>4. t.vars = Top.vars \cup {s} /\ t.funs = Top.funs /\ t.sorts = Top.sorts
    BY <2>3 DEF VarFrame, Frame
  <2> HIDE DEF t
  <2>5. /\ n \in Nat /\ n > 0 /\ Len(frames') = n
        /\ Grows(VarsOf(frames), VarsOf(frames'), n, {s})
        /\ Agree(FunsOf(frames), FunsOf(frames'), n) /\ Agree(SortsOf(frames), SortsOf(frames'), n)
    BY <1>2, <2>1, <2>2, <2>4, TopFields
  <2>6. vars[s] # Absent => s \in Added(VarsOf(frames), n, n)
    <3>1. snapshots[n] = Restored(vars, funs, functionNames, sorts, frames, n)
      BY <2>5 DEF ScopesUndo, UndoneOf
    <3>2. snapshots[n]["vars"][s] = Absent
      BY <1>2 DEF NotOuter, TypeOK
    <3>3. Without(vars, Added(VarsOf(frames), n, n))[s] = Absent
      BY <3>1, <3>2 DEF Restored
    <3> QED BY <2>1, <3>3, WithoutVars DEF Takes
  <2>7. EqualBut(vars, vars', VarName, s)
    BY <2>1 DEF EqualBut, DeclareVar, MakeVar, VarTable
  <2>8. ASSUME NEW i \in 1 .. n
        PROVE  snapshots'[i] = Restored(vars', funs', functionNames', sorts', frames', i)
    <3>1. Added(VarsOf(frames'), i, n) = Added(VarsOf(frames), i, n) \cup {s}
      BY <2>5, AddedTop
    <3>2. /\ Added(FunsOf(frames'), i, n) = Added(FunsOf(frames), i, n)
          /\ Added(SortsOf(frames'), i, n) = Added(SortsOf(frames), i, n)
      BY <2>5, AddedSame
    <3>3. s \in Added(VarsOf(frames), i, n) \/ vars[s] = Absent
      BY <2>5, <2>6, AddedInner
    <3>4. Without(vars', Added(VarsOf(frames'), i, n)) = Without(vars, Added(VarsOf(frames), i, n))
      BY <2>7, <3>1, <3>3, WithoutGrown
    <3>5. snapshots[i] = Restored(vars, funs, functionNames, sorts, frames, i)
      BY DEF ScopesUndo, UndoneOf
    <3>6. funs' = funs /\ functionNames' = functionNames /\ sorts' = sorts /\ snapshots' = snapshots
      BY DEF DeclareVar
    <3> QED BY <2>5, <3>2, <3>4, <3>5, <3>6 DEF Restored
  <2> HIDE DEF n
  <2> QED BY <2>5, <2>8 DEF ScopesUndo, UndoneOf
<1> QED BY <1>1, <1>2

LEMMA DeclareSortUndone ==
    ASSUME TypeOK, ScopesUndo, NEW s \in SortName, NotOuter("sorts", s), DeclareSort(s)
    PROVE  ScopesUndo'
<1>1. CASE frames = << >>
  BY <1>1, NothingOpen DEF DeclareSort, SortInScope
<1>2. CASE frames # << >>
  <2> DEFINE n == Len(frames)
             t == SortFrame(Top, s)
  <2>1. frames \in Seq(Frame) /\ sorts \in SortTable /\ Top = frames[n]
    BY DEF TypeOK, Top
  <2>2. t \in Frame /\ frames' = [frames EXCEPT ![n] = t]
    BY <1>2, InScopeFrames DEF DeclareSort
  <2>3. Top \in Frame
    BY <1>2, <2>1, TopType
  <2>4. t.sorts = Top.sorts \cup {s} /\ t.funs = Top.funs /\ t.vars = Top.vars
    BY <2>3 DEF SortFrame, Frame
  <2> HIDE DEF t
  <2>5. /\ n \in Nat /\ n > 0 /\ Len(frames') = n
        /\ Grows(SortsOf(frames), SortsOf(frames'), n, {s})
        /\ Agree(FunsOf(frames), FunsOf(frames'), n) /\ Agree(VarsOf(frames), VarsOf(frames'), n)
    BY <1>2, <2>1, <2>2, <2>4, TopFields
  <2>6. sorts[s] # Absent => s \in Added(SortsOf(frames), n, n)
    <3>1. snapshots[n] = Restored(vars, funs, functionNames, sorts, frames, n)
      BY <2>5 DEF ScopesUndo, UndoneOf
    <3>2. snapshots[n]["sorts"][s] = Absent
      BY <1>2 DEF NotOuter, TypeOK
    <3>3. Without(sorts, Added(SortsOf(frames), n, n))[s] = Absent
      BY <3>1, <3>2 DEF Restored
    <3> QED BY <2>1, <3>3, WithoutSorts DEF Takes
  <2>7. EqualBut(sorts, sorts', SortName, s)
    BY <2>1 DEF EqualBut, DeclareSort, MakeSort, SortTable
  <2>8. ASSUME NEW i \in 1 .. n
        PROVE  snapshots'[i] = Restored(vars', funs', functionNames', sorts', frames', i)
    <3>1. Added(SortsOf(frames'), i, n) = Added(SortsOf(frames), i, n) \cup {s}
      BY <2>5, AddedTop
    <3>2. /\ Added(FunsOf(frames'), i, n) = Added(FunsOf(frames), i, n)
          /\ Added(VarsOf(frames'), i, n) = Added(VarsOf(frames), i, n)
      BY <2>5, AddedSame
    <3>3. s \in Added(SortsOf(frames), i, n) \/ sorts[s] = Absent
      BY <2>5, <2>6, AddedInner
    <3>4. Without(sorts', Added(SortsOf(frames'), i, n)) = Without(sorts, Added(SortsOf(frames), i, n))
      BY <2>7, <3>1, <3>3, WithoutGrown
    <3>5. snapshots[i] = Restored(vars, funs, functionNames, sorts, frames, i)
      BY DEF ScopesUndo, UndoneOf
    <3>6. funs' = funs /\ functionNames' = functionNames /\ vars' = vars /\ snapshots' = snapshots
      BY DEF DeclareSort
    <3> QED BY <2>5, <3>2, <3>4, <3>5, <3>6 DEF Restored
  <2> HIDE DEF n
  <2> QED BY <2>5, <2>8 DEF ScopesUndo, UndoneOf
<1> QED BY <1>1, <1>2

(* A function that is entered, or only listed: it was not found before. *)
LEMMA FunUndone ==
    ASSUME TypeOK, ScopesUndo, NEW s \in FunName, NEW kind, ~ Found(funs, s),
           funs' = [funs EXCEPT ![s] = kind], functionNames' = Append(functionNames, s), FunInScope(s),
           UNCHANGED <<vars, sorts, snapshots>>
    PROVE  ScopesUndo'
<1>1. CASE frames = << >>
  BY <1>1, NothingOpen DEF FunInScope
<1>2. CASE frames # << >>
  <2> DEFINE n == Len(frames)
             t == FunFrame(Top, s)
  <2>1. frames \in Seq(Frame) /\ funs \in FunTable /\ Top = frames[n] /\ functionNames \in Seq(FunName)
    BY DEF TypeOK, Top
  <2>2. t \in Frame /\ frames' = [frames EXCEPT ![n] = t]
    BY <1>2, InScopeFrames
  <2>3. Top \in Frame
    BY <1>2, <2>1, TopType
  <2>4. ToSet(t.funs) = ToSet(Top.funs) \cup {s} /\ t.sorts = Top.sorts /\ t.vars = Top.vars
    <3>1. t.funs = Append(Top.funs, s) /\ t.sorts = Top.sorts /\ t.vars = Top.vars
      BY <2>3 DEF FunFrame, Frame
    <3>2. Top.funs \in Seq(FunName)
      BY <2>3, FrameFields
    <3>3. ToSet(Append(Top.funs, s)) = ToSet(Top.funs) \cup {s}
      BY <3>2, GrownMembers
    <3> QED BY <3>1, <3>3
  <2> HIDE DEF t
  <2>5. /\ n \in Nat /\ n > 0 /\ Len(frames') = n
        /\ Grows(FunsOf(frames), FunsOf(frames'), n, {s})
        /\ Agree(SortsOf(frames), SortsOf(frames'), n) /\ Agree(VarsOf(frames), VarsOf(frames'), n)
    BY <1>2, <2>1, <2>2, <2>4, TopFields
  <2>6. EqualBut(funs, funs', FunName, s)
    BY <2>1 DEF EqualBut, FunTable
  <2>7. funs[s] = Absent
    BY <2>1 DEF Found, Spellings, FunTable
  <2>8. ASSUME NEW i \in 1 .. n
        PROVE  snapshots'[i] = Restored(vars', funs', functionNames', sorts', frames', i)
    <3>1. Added(FunsOf(frames'), i, n) = Added(FunsOf(frames), i, n) \cup {s}
      BY <2>5, AddedTop
    <3>2. /\ Added(VarsOf(frames'), i, n) = Added(VarsOf(frames), i, n)
          /\ Added(SortsOf(frames'), i, n) = Added(SortsOf(frames), i, n)
      BY <2>5, AddedSame
    <3>3. Without(funs', Added(FunsOf(frames'), i, n)) = Without(funs, Added(FunsOf(frames), i, n))
      BY <2>6, <2>7, <3>1, WithoutGrown
    <3> DEFINE before == Without(funs, Added(FunsOf(frames), i, n))
    <3>4. before[s] = Absent
      BY <2>1, <2>7, WithoutFuns DEF Takes
    <3> HIDE DEF before
    <3>5. Listed(functionNames', before) = Listed(functionNames, before)
      BY <2>1, <3>4, ListedAppend
    <3>6. snapshots[i] = Restored(vars, funs, functionNames, sorts, frames, i)
      BY DEF ScopesUndo, UndoneOf
    <3>7. vars' = vars /\ sorts' = sorts /\ snapshots' = snapshots
      OBVIOUS
    <3> QED BY <2>5, <3>2, <3>3, <3>5, <3>6, <3>7 DEF Restored, before
  <2> HIDE DEF n
  <2> QED BY <2>5, <2>8 DEF ScopesUndo, UndoneOf
<1> QED BY <1>1, <1>2
LEMMA PushUndone == ASSUME TypeOK, ScopesUndo, PushLevel PROVE ScopesUndo'
<1> DEFINE n == Len(frames)
           t == [vars |-> {}, funs |-> << >>, sorts |-> {}]
<1>1. frames \in Seq(Frame) /\ snapshots \in Seq(Snapshot) /\ Len(snapshots) = n /\ n \in Nat
  BY DEF TypeOK
<1>2. t \in Frame /\ t.vars = {} /\ t.funs = << >> /\ t.sorts = {} /\ ToSet(t.funs) = {}
  BY EmptySeq DEF Frame, ToSet
<1>3. Declared \in Snapshot
  BY DeclaredType
<1>4. frames' = Append(frames, t) /\ snapshots' = Append(snapshots, Declared)
  BY DEF PushLevel
<1>5. vars' = vars /\ funs' = funs /\ functionNames' = functionNames /\ sorts' = sorts
  BY DEF PushLevel, tables
<1> HIDE DEF t
<1>6. Len(frames') = n + 1 /\ frames'[n + 1] = t /\ \A j \in 1 .. n : frames'[j] = frames[j]
  <2> HIDE DEF Frame
  <2> QED BY <1>1, <1>2, <1>4
<1>7. snapshots'[n + 1] = Declared /\ \A j \in 1 .. n : snapshots'[j] = snapshots[j]
  <2> HIDE DEF Snapshot, Declared
  <2> QED BY <1>1, <1>3, <1>4
<1> HIDE DEF n
<1>8. /\ Agree(VarsOf(frames), VarsOf(frames'), n) /\ VarsOf(frames')[n + 1] = {}
      /\ Agree(FunsOf(frames), FunsOf(frames'), n) /\ FunsOf(frames')[n + 1] = {}
      /\ Agree(SortsOf(frames), SortsOf(frames'), n) /\ SortsOf(frames')[n + 1] = {}
  <2>1. n + 1 \in 1 .. n + 1 /\ \A j \in 1 .. n : j \in 1 .. n + 1
    BY <1>1
  <2>2. \A j \in 1 .. n + 1 : /\ VarsOf(frames')[j] = frames'[j].vars /\ FunsOf(frames')[j] = ToSet(frames'[j].funs)
                              /\ SortsOf(frames')[j] = frames'[j].sorts
    BY <1>6 DEF VarsOf, FunsOf, SortsOf
  <2>3. \A j \in 1 .. n : /\ VarsOf(frames)[j] = frames[j].vars /\ FunsOf(frames)[j] = ToSet(frames[j].funs)
                          /\ SortsOf(frames)[j] = frames[j].sorts
    BY DEF VarsOf, FunsOf, SortsOf, n
  <2> QED BY <1>2, <1>6, <2>1, <2>2, <2>3 DEF Agree
<1>9. ASSUME NEW i \in 1 .. n
      PROVE  snapshots'[i] = Restored(vars', funs', functionNames', sorts', frames', i)
  <2>1. /\ Added(VarsOf(frames'), i, n + 1) = Added(VarsOf(frames), i, n)
        /\ Added(FunsOf(frames'), i, n + 1) = Added(FunsOf(frames), i, n)
        /\ Added(SortsOf(frames'), i, n + 1) = Added(SortsOf(frames), i, n)
    BY <1>1, <1>8, AddedPush
  <2>2. snapshots[i] = Restored(vars, funs, functionNames, sorts, frames, i)
    BY DEF ScopesUndo, UndoneOf, n
  <2> QED BY <1>5, <1>6, <1>7, <2>1, <2>2 DEF Restored, n
<1>10. snapshots'[n + 1] = Restored(vars', funs', functionNames', sorts', frames', n + 1)
  <2>1. /\ Added(VarsOf(frames'), n + 1, n + 1) = {} /\ Added(FunsOf(frames'), n + 1, n + 1) = {}
        /\ Added(SortsOf(frames'), n + 1, n + 1) = {}
    <3>1. n + 1 \in Nat
      BY <1>1
    <3> QED BY <1>8, <3>1, AddedLast
  <2>2. Without(vars, {}) = vars /\ Without(funs, {}) = funs /\ Without(sorts, {}) = sorts
    BY WithoutNone DEF TypeOK
  <2> QED BY <1>5, <1>6, <1>7, <2>1, <2>2 DEF Restored, Declared, Functions
<1>11. \A i \in 1 .. n + 1 : i = n + 1 \/ i \in 1 .. n
  BY <1>1
<1> QED BY <1>6, <1>9, <1>10, <1>11 DEF ScopesUndo, UndoneOf

(* What popScope takes out is what the innermost scope registered. *)
LEMMA PopFields ==
    ASSUME TypeOK, PopLevel
    PROVE  /\ Len(frames) \in Nat /\ Len(frames) > 0 /\ Top \in Frame
           /\ Len(frames') = Len(frames) - 1
           /\ \A i \in 1 .. Len(frames) - 1 : snapshots'[i] = snapshots[i]
           /\ VarsOf(frames)[Len(frames)] = Top.vars
           /\ FunsOf(frames)[Len(frames)] = ToSet(Top.funs)
           /\ SortsOf(frames)[Len(frames)] = Top.sorts
           /\ Agree(VarsOf(frames), VarsOf(frames'), Len(frames) - 1)
           /\ Agree(FunsOf(frames), FunsOf(frames'), Len(frames) - 1)
           /\ Agree(SortsOf(frames), SortsOf(frames'), Len(frames) - 1)
<1> DEFINE n == Len(frames)
<1>1. frames \in Seq(Frame) /\ frames # << >> /\ snapshots \in Seq(Snapshot) /\ Len(snapshots) = n
  BY DEF TypeOK, PopLevel
<1>2. n \in Nat /\ n > 0 /\ snapshots # << >>
  BY <1>1
<1>3. Top \in Frame /\ Top = frames[n]
  BY <1>1, TopType DEF Top
<1>4. Len(frames') = n - 1 /\ \A i \in 1 .. n - 1 : frames'[i] = frames[i]
  BY <1>1, OuterType DEF PopLevel
<1>5. \A i \in 1 .. n - 1 : snapshots'[i] = snapshots[i]
  BY <1>1, <1>2, OuterType DEF PopLevel
<1>6. VarsOf(frames)[n] = Top.vars /\ FunsOf(frames)[n] = ToSet(Top.funs) /\ SortsOf(frames)[n] = Top.sorts
  BY <1>2, <1>3 DEF VarsOf, FunsOf, SortsOf
<1> HIDE DEF n
<1>7. /\ Agree(VarsOf(frames), VarsOf(frames'), n - 1) /\ Agree(FunsOf(frames), FunsOf(frames'), n - 1)
      /\ Agree(SortsOf(frames), SortsOf(frames'), n - 1)
  <2>1. ASSUME NEW j \in 1 .. n - 1
        PROVE  /\ VarsOf(frames')[j] = frames'[j].vars /\ FunsOf(frames')[j] = ToSet(frames'[j].funs)
               /\ SortsOf(frames')[j] = frames'[j].sorts
    BY <1>4 DEF VarsOf, FunsOf, SortsOf
  <2>2. ASSUME NEW j \in 1 .. n - 1
        PROVE  /\ VarsOf(frames)[j] = frames[j].vars /\ FunsOf(frames)[j] = ToSet(frames[j].funs)
               /\ SortsOf(frames)[j] = frames[j].sorts
    <3>1. j \in 1 .. n
      BY <1>2
    <3> QED BY <3>1 DEF VarsOf, FunsOf, SortsOf, n
  <2> QED BY <1>4, <2>1, <2>2 DEF Agree
<1> QED BY <1>2, <1>3, <1>4, <1>5, <1>6, <1>7 DEF n

(* Taking names out of the list does not show where they are out of the table. *)
LEMMA PopListed ==
    ASSUME TypeOK, PopLevel, NEW V, ToSet(Top.funs) \subseteq V
    PROVE  Listed(functionNames', Without(funs, V)) = Listed(functionNames, Without(funs, V))
<1> DEFINE m == Without(funs, V)
           fs == Top.funs
<1>1. fs \in Seq(FunName)
  BY PopFields, FrameFields
<1>2. funs \in FunTable /\ functionNames \in Seq(FunName)
  BY DEF TypeOK
<1>3. ASSUME NEW k \in 1 .. Len(fs) PROVE m[fs[k]] = Absent
  <2>1. fs[k] \in FunName /\ fs[k] \in ToSet(fs)
    BY <1>1 DEF ToSet
  <2>2. Takes(m, funs, FunName, V)
    BY <1>2, WithoutFuns
  <2> QED BY <2>1, <2>2 DEF Takes
<1> HIDE DEF m, fs
<1>4. Listed(Unlisted(functionNames, fs), m) = Listed(functionNames, m)
  BY <1>1, <1>2, <1>3, UnlistedListed
<1> QED BY <1>4 DEF PopLevel, m, fs

LEMMA PopUndone == ASSUME TypeOK, ScopesUndo, PopLevel PROVE ScopesUndo'
<1> DEFINE n == Len(frames)
<1>1. SUFFICES ASSUME NEW i \in 1 .. n - 1
               PROVE  snapshots'[i] = Restored(vars', funs', functionNames', sorts', frames', i)
  BY PopFields DEF ScopesUndo, UndoneOf
<1>2. n \in Nat /\ n > 0 /\ Len(frames') = n - 1 /\ snapshots'[i] = snapshots[i]
  BY PopFields
<1>3. /\ Added(VarsOf(frames), i, n) = Added(VarsOf(frames'), i, n - 1) \cup Top.vars
      /\ Added(FunsOf(frames), i, n) = Added(FunsOf(frames'), i, n - 1) \cup ToSet(Top.funs)
      /\ Added(SortsOf(frames), i, n) = Added(SortsOf(frames'), i, n - 1) \cup Top.sorts
  BY <1>2, PopFields, AddedPop
<1>4. vars' = Without(vars, Top.vars) /\ funs' = Without(funs, ToSet(Top.funs)) /\ sorts' = Without(sorts, Top.sorts)
  BY DEF PopLevel
<1>5. /\ Without(vars', Added(VarsOf(frames'), i, n - 1)) = Without(vars, Added(VarsOf(frames), i, n))
      /\ Without(funs', Added(FunsOf(frames'), i, n - 1)) = Without(funs, Added(FunsOf(frames), i, n))
      /\ Without(sorts', Added(SortsOf(frames'), i, n - 1)) = Without(sorts, Added(SortsOf(frames), i, n))
  BY <1>3, <1>4, WithoutTwice
<1>6. Listed(functionNames', Without(funs, Added(FunsOf(frames), i, n)))
        = Listed(functionNames, Without(funs, Added(FunsOf(frames), i, n)))
  BY <1>3, PopListed
<1>7. snapshots[i] = Restored(vars, funs, functionNames, sorts, frames, i)
  BY <1>2 DEF ScopesUndo, UndoneOf
<1> QED BY <1>2, <1>5, <1>6, <1>7 DEF Restored

(* The innermost snapshot is what popScope leaves. *)
LEMMA PopGivesBack == ASSUME TypeOK, ScopesUndo, PopLevel PROVE Declared' = snapshots[Len(frames)]
<1> DEFINE n == Len(frames)
<1>1. n \in Nat /\ n > 0 /\ n \in 1 .. n
  BY PopFields
<1>2. /\ Added(VarsOf(frames), n, n) = Top.vars
      /\ Added(FunsOf(frames), n, n) = ToSet(Top.funs)
      /\ Added(SortsOf(frames), n, n) = Top.sorts
  BY <1>1, PopFields, AddedLast
<1>3. vars' = Without(vars, Top.vars) /\ funs' = Without(funs, ToSet(Top.funs)) /\ sorts' = Without(sorts, Top.sorts)
  BY DEF PopLevel
<1>4. Listed(functionNames', Without(funs, ToSet(Top.funs))) = Listed(functionNames, Without(funs, ToSet(Top.funs)))
  BY PopListed
<1>5. snapshots[n] = Restored(vars, funs, functionNames, sorts, frames, n)
  BY <1>1 DEF ScopesUndo, UndoneOf
<1> QED BY <1>2, <1>3, <1>4, <1>5 DEF Restored, Declared, Functions

LEMMA StepUndone ==
    ASSUME TypeOK, ScopesUndo, [ScopedNext]_symbolVars
    PROVE  ScopesUndo'
<1>1. ASSUME NEW s \in VarName, NEW sort \in Sort, NotOuter("vars", s), DeclareVar(s, sort) PROVE ScopesUndo'
  BY <1>1, DeclareVarUndone
<1>2. ASSUME NEW s \in SortName, NotOuter("sorts", s), DeclareSort(s) PROVE ScopesUndo'
  BY <1>2, DeclareSortUndone
<1>3. ASSUME NEW s \in FunName, DeclareFun(s) PROVE ScopesUndo'
  BY <1>3, FunUndone DEF DeclareFun
<1>4. ASSUME NEW s \in FunName, NEW kind, DefineFun(s, kind) PROVE ScopesUndo'
  BY <1>4, FunUndone DEF DefineFun
<1>5. ASSUME frames = << >>, Unscoped PROVE ScopesUndo'
  BY <1>5, NothingOpen DEF Unscoped, MkVar, DefineFunsRec, DefineSort
<1>6. ASSUME PushLevel PROVE ScopesUndo'
  BY <1>6, PushUndone
<1>7. ASSUME PopLevel PROVE ScopesUndo'
  BY <1>7, PopUndone
<1>8. ASSUME ResetAll PROVE ScopesUndo'
  <2>1. Len(frames') = 0
    BY <1>8, EmptySeq DEF ResetAll
  <2> QED BY <2>1 DEF ScopesUndo, UndoneOf
<1>9. ASSUME UNCHANGED symbolVars PROVE ScopesUndo'
  BY <1>9 DEF symbolVars, tables, ScopesUndo, UndoneOf
<1>10. ScriptFun \subseteq FunName /\ ScriptSort \subseteq SortName
  BY ScriptAssumption
<1> QED BY <1>1, <1>2, <1>3, <1>4, <1>5, <1>6, <1>7, <1>8, <1>9, <1>10 DEF ScopedNext, DeclaringFun

LEMMA InitUndone == Init => ScopesUndo
BY EmptySeq DEF Init, ScopesUndo, UndoneOf
-----------------------------------------------------------------------------
(* Disciplined sessions *)

SymbolsInv == TypeOK /\ DeclaredListed /\ OneSpelling /\ ScopesUndo

LEMMA StepKeepsSymbols ==
    ASSUME SymbolsInv, [ScopedNext]_symbolVars
    PROVE  SymbolsInv'
<1>1. [Next]_symbolVars
  BY ScopedStepIsStep
<1>2. TypeOK /\ DeclaredListed /\ OneSpelling /\ ScopesUndo
  BY DEF SymbolsInv
<1>3. TypeOK' /\ DeclaredListed'
  BY <1>1, <1>2, StepKeepsLists
<1>4. OneSpelling' /\ ScopesUndo'
  BY <1>2, StepKeepsSpelling, StepUndone
<1> QED BY <1>3, <1>4 DEF SymbolsInv

LEMMA InitSymbols == Init => SymbolsInv
BY InitLists, InitSpelling, InitUndone DEF SymbolsInv

(* Every step between stores that ScopedNext takes. *)
LEMMA StoreStep ==
    ASSUME SymbolsInv, [ScopedNext]_symbolVars
    PROVE  \/ snapshots' = snapshots
           \/ Declared' = Declared /\ snapshots' = Append(snapshots, Declared)
           \/ /\ snapshots # << >> /\ Declared' = snapshots[Len(snapshots)]
              /\ snapshots' = [i \in 1 .. Len(snapshots) - 1 |-> snapshots[i]]
           \/ Declared' = NoSymbols /\ snapshots' = << >>
<1>1. TypeOK /\ ScopesUndo
  BY DEF SymbolsInv
<1>2. ASSUME PushLevel PROVE Declared' = Declared /\ snapshots' = Append(snapshots, Declared)
  BY <1>2 DEF PushLevel, tables, Declared, Functions
<1>3. ASSUME PopLevel
      PROVE  /\ snapshots # << >> /\ Declared' = snapshots[Len(snapshots)]
             /\ snapshots' = [i \in 1 .. Len(snapshots) - 1 |-> snapshots[i]]
  <2>1. Declared' = snapshots[Len(frames)] /\ Len(frames) > 0 /\ Len(snapshots) = Len(frames)
    BY <1>1, <1>3, PopGivesBack, PopFields DEF TypeOK
  <2>2. snapshots # << >>
    BY <2>1, EmptySeq
  <2>3. snapshots' = Outer(snapshots)
    BY <1>3 DEF PopLevel
  <2> QED BY <2>1, <2>2, <2>3 DEF Outer
<1>4. ASSUME ResetAll PROVE Declared' = NoSymbols /\ snapshots' = << >>
  <2>1. /\ vars' = NoSymbols.vars /\ funs' = NoSymbols.funs /\ functionNames' = << >> /\ sorts' = NoSymbols.sorts
        /\ snapshots' = << >>
    BY <1>4 DEF ResetAll, NoTables
  <2>2. Listed(<< >>, NoSymbols.funs) = << >>
    BY ListedEmpty
  <2>3. Declared' = [vars |-> NoSymbols.vars, funs |-> NoSymbols.funs, functions |-> << >>, sorts |-> NoSymbols.sorts]
    BY <2>1, <2>2 DEF Declared, Functions
  <2> QED BY <2>1, <2>3 DEF NoSymbols
<1>5. ASSUME Unscoped PROVE snapshots' = snapshots
  BY <1>5 DEF Unscoped, MkVar, DefineFunsRec, DefineSort
<1>6. ASSUME NEW s, NEW sort, DeclareVar(s, sort) PROVE snapshots' = snapshots
  BY <1>6 DEF DeclareVar
<1>7. ASSUME NEW s, DeclareSort(s) PROVE snapshots' = snapshots
  BY <1>7 DEF DeclareSort
<1>8. ASSUME DeclaringFun PROVE snapshots' = snapshots
  BY <1>8 DEF DeclaringFun, DeclareFun, DefineFun
<1>9. ASSUME UNCHANGED symbolVars PROVE snapshots' = snapshots
  BY <1>9 DEF symbolVars
<1> QED BY <1>2, <1>3, <1>4, <1>5, <1>6, <1>7, <1>8, <1>9 DEF ScopedNext

LEMMA StoreInit == Init => Declared = NoSymbols /\ snapshots = << >>
<1> SUFFICES ASSUME Init PROVE Declared = NoSymbols /\ snapshots = << >>
  OBVIOUS
<1>1. /\ vars = NoSymbols.vars /\ funs = NoSymbols.funs /\ functionNames = << >> /\ sorts = NoSymbols.sorts
      /\ snapshots = << >>
  BY DEF Init
<1>2. Listed(<< >>, NoSymbols.funs) = << >>
  BY ListedEmpty
<1>3. Declared = [vars |-> NoSymbols.vars, funs |-> NoSymbols.funs, functions |-> << >>, sorts |-> NoSymbols.sorts]
  BY <1>1, <1>2 DEF Declared, Functions
<1> QED BY <1>1, <1>3 DEF NoSymbols

LEMMA ScopedInvariant == ScopedSpec => []SymbolsInv
<1>1. SymbolsInv /\ [ScopedNext]_symbolVars => SymbolsInv'
  BY StepKeepsSymbols
<1> QED BY <1>1, InitSymbols, PTL DEF ScopedSpec

(* As long as a scope declares no name that was in use outside and nothing   *)
(* that no scope learns of, to take out the names that it registered gives    *)
(* back the tables and the list of functions of its push (popScope).         *)
THEOREM ScopesRestoreTables == ScopedSpec => ImplementsStore
<1>1. Init => Store!Init
  BY StoreInit DEF Store!Init
<1>2. SymbolsInv /\ [ScopedNext]_symbolVars => [Store!Next]_(Store!storeVars)
  <2> SUFFICES ASSUME SymbolsInv, [ScopedNext]_symbolVars PROVE Store!Next
    OBVIOUS
  <2> QED BY StoreStep DEF Store!Next, Store!Update, Store!Push, Store!Pop, Store!Clear
<1> QED BY <1>1, <1>2, ScopedInvariant, PTL DEF ScopedSpec, ImplementsStore, Store!Spec

(* A session keeps its kind; a disciplined one takes steps of ScopedNext. *)
LEMMA SessionStep ==
    [MCNext]_<<allVars, session>> => /\ disciplined' <=> disciplined
                                     /\ disciplined => [ScopedNext]_symbolVars
<1>1. UNCHANGED <<allVars, session>> => UNCHANGED symbolVars /\ UNCHANGED session
  BY DEF allVars
<1>2. disciplined => session # "free" /\ session # "dump" /\ session # "groups" /\ session # "failed"
  BY DEF disciplined
<1> QED BY <1>1, <1>2 DEF MCNext, disciplined

LEMMA DisciplinedInvariant == MCSpec => [](disciplined => SymbolsInv)
<1>1. MCInit => (disciplined => SymbolsInv)
  BY InitSymbols DEF MCInit
<1>2. (disciplined => SymbolsInv) /\ [MCNext]_<<allVars, session>> => (disciplined => SymbolsInv)'
  BY SessionStep, StepKeepsSymbols
<1> QED BY <1>1, <1>2, PTL DEF MCSpec

(* "abc and |abc| are the same symbol" (symbol_manager.cpp:33): in disciplined *)
(* sessions no variable and no function is entered under both spellings, so    *)
(* it does not matter which one findEitherSpelling tries first.                *)
THEOREM SymbolsSpelledOnce == MCSpec => []DisciplinedOneSpelling
<1>1. (disciplined => SymbolsInv) => DisciplinedOneSpelling
  BY DEF SymbolsInv, DisciplinedOneSpelling
<1> QED BY <1>1, DisciplinedInvariant, PTL

(* The refinement as the run checks it: a disciplined session implements a     *)
(* stack of snapshots, the others are mapped to a store in which nothing       *)
(* happens.                                                                    *)
THEOREM SessionsRestoreTables == MCSpec => DisciplinedImplementsStore
<1>1. MCInit => DisciplinedStore!Init
  BY StoreInit DEF MCInit, DisciplinedStore!Init
<1>2. (disciplined => SymbolsInv) /\ [MCNext]_<<allVars, session>>
        => [DisciplinedStore!Next]_(DisciplinedStore!storeVars)
  <2> SUFFICES ASSUME disciplined => SymbolsInv, [MCNext]_<<allVars, session>>
               PROVE  DisciplinedStore!Next
    OBVIOUS
  <2>1. CASE ~ disciplined
    BY <2>1, SessionStep DEF DisciplinedStore!Next, DisciplinedStore!Update
  <2>2. CASE disciplined
    <3>1. disciplined' /\ SymbolsInv /\ [ScopedNext]_symbolVars
      BY <2>2, SessionStep
    <3> QED BY <2>2, <3>1, StoreStep
            DEF DisciplinedStore!Next, DisciplinedStore!Update, DisciplinedStore!Push, DisciplinedStore!Pop,
                DisciplinedStore!Clear
  <2> QED BY <2>1, <2>2
<1> QED BY <1>1, <1>2, DisciplinedInvariant, PTL DEF MCSpec, DisciplinedImplementsStore, DisciplinedStore!Spec
-----------------------------------------------------------------------------
(* Groups of datatypes *)

OnStack(t) == ToSet(t.stack)
Called(t) == ToSet(t.calls)
Grouped(t) == UNION ToSet(t.groups)

(* deps lists what each datatype mentions. *)
Lists(deps) == \A s \in Datatypes : deps[s] \in Seq(Datatypes) /\ ToSet(deps[s]) = Dependencies[s]

(* The entries of q are met in the order of q. *)
Ascending(at, q) == \A i, j \in 1 .. Len(q) : i < j => at[q[i]] < at[q[j]]

(* Numbers are given once, in the order of meeting. *)
Numbered(t) ==
    /\ t.next # 0
    /\ \A s \in Datatypes : t.index[s] < t.next /\ (t.index[s] = 0 => t.seen[s] = 0)
    /\ \A s, u \in Datatypes : t.index[s] = t.index[u] /\ t.index[s] # 0 => s = u

(* What was met is on the stack, or in a group; what has not returned is on *)
(* the stack.                                                               *)
Placed(t) ==
    /\ Called(t) \subseteq OnStack(t)
    /\ OnStack(t) \cap Grouped(t) = {}
    /\ \A s \in Datatypes : t.index[s] # 0 <=> s \in OnStack(t) \cup Grouped(t)
    /\ Ascending(t.index, t.stack) /\ Ascending(t.index, t.calls)

(* What a loop looked at was met, and a call returns at the end of its loop. *)
Looked(deps, t) ==
    \A s \in Datatypes :
        /\ t.seen[s] <= Len(deps[s])
        /\ \A k \in 1 .. t.seen[s] : t.index[deps[s][k]] # 0
        /\ t.index[s] # 0 /\ s \notin Called(t) => t.seen[s] = Len(deps[s])

UpTo(groups, i) == UNION {groups[j] : j \in 1 .. i}

(* A group holds datatypes that reach each other, and mentions itself and   *)
(* groups before it only.                                                   *)
GroupsRight(groups) ==
    /\ \A i, j \in DOMAIN groups : i # j => groups[i] \cap groups[j] = {}
    /\ \A i \in DOMAIN groups :
          /\ groups[i] # {}
          /\ \A s \in groups[i] : Dependencies[s] \subseteq UpTo(groups, i)
          /\ \A s, u \in groups[i] : Reaches(s, u)

(* A call reaches what is above it on the stack. *)
Below(t) == \A s \in Called(t), u \in OnStack(t) : t.index[s] <= t.index[u] => Reaches(s, u)

(* low[s] is the number of a datatype on the stack that s reaches. *)
LowRight(t, s) ==
    /\ t.low[s] <= t.index[s]
    /\ \E w \in OnStack(t) : t.index[w] = t.low[s] /\ Reaches(s, w)
    /\ s \notin Called(t) => t.low[s] < t.index[s]
LowsRight(t) == \A s \in OnStack(t) : LowRight(t, s)

(* s is the innermost call that was entered before u. *)
Owns(t, s, u) ==
    /\ t.index[s] <= t.index[u]
    /\ \A h \in Called(t) : t.index[h] <= t.index[u] => t.index[h] <= t.index[s]

(* What is mentioned above a call, and still on the stack, is not below the *)
(* call's low.                                                              *)
LowsBound(deps, t) ==
    \A s \in Called(t), u \in OnStack(t) : Owns(t, s, u) =>
        \A k \in 1 .. t.seen[u] : deps[u][k] \in OnStack(t) => t.low[s] <= t.index[deps[u][k]]

WalkInv(deps, t) ==
    /\ t \in Walk
    /\ Numbered(t) /\ Placed(t) /\ Looked(deps, t) /\ GroupsRight(t.groups)
    /\ Below(t) /\ LowsRight(t) /\ LowsBound(deps, t)

(* Mentions, directly or not, are reflexive and transitive, and hold what a  *)
(* datatype mentions directly.                                              *)
LEMMA ReachesItself == \A s : s \in Datatypes => Reaches(s, s)
BY DEF Reaches

LEMMA ReachesOn ==
    ASSUME NEW s, NEW u, NEW w, Reaches(s, u), Reaches(u, w)
    PROVE  Reaches(s, w)
BY DEF Reaches

LEMMA ReachesMentioned ==
    ASSUME NEW s \in Datatypes, NEW w \in Dependencies[s]
    PROVE  Reaches(s, w)
BY DEF Reaches

(* The members of a walk's fields. *)
LEMMA WalkFields ==
    ASSUME NEW t \in Walk
    PROVE  /\ t.index \in [Datatypes -> Nat] /\ t.low \in [Datatypes -> Nat] /\ t.seen \in [Datatypes -> Nat]
           /\ t.next \in Nat /\ t.stack \in Seq(Datatypes) /\ t.calls \in Seq(Datatypes)
           /\ t.groups \in Seq(SUBSET Datatypes)
           /\ OnStack(t) \subseteq Datatypes /\ Called(t) \subseteq Datatypes /\ Grouped(t) \subseteq Datatypes
<1>1. /\ t.index \in [Datatypes -> Nat] /\ t.low \in [Datatypes -> Nat] /\ t.seen \in [Datatypes -> Nat]
      /\ t.next \in Nat /\ t.stack \in Seq(Datatypes) /\ t.calls \in Seq(Datatypes)
      /\ t.groups \in Seq(SUBSET Datatypes)
  BY DEF Walk
<1>2. \A q \in Seq(Datatypes) : ToSet(q) \subseteq Datatypes
  BY DEF ToSet
<1>3. \A q \in Seq(SUBSET Datatypes) : ToSet(q) \subseteq SUBSET Datatypes
  BY DEF ToSet
<1> QED BY <1>1, <1>2, <1>3 DEF OnStack, Called, Grouped

(* The call that is under way is the last to be entered; the others are     *)
(* those before it.                                                         *)
LEMMA LastCall ==
    ASSUME NEW t \in Walk, t.calls # << >>, Ascending(t.index, t.calls)
    PROVE  /\ Last(t.calls) \in Called(t) /\ Front(t.calls) \in Seq(Datatypes)
           /\ Ascending(t.index, Front(t.calls))
           /\ Called(t) = ToSet(Front(t.calls)) \cup {Last(t.calls)}
           /\ \A s \in ToSet(Front(t.calls)) : t.index[s] < t.index[Last(t.calls)]
           /\ Front(t.calls) # << >> =>
                 /\ Last(Front(t.calls)) \in ToSet(Front(t.calls))
                 /\ \A s \in ToSet(Front(t.calls)) : t.index[s] <= t.index[Last(Front(t.calls))]
<1> DEFINE q == t.calls
           n == Len(q)
           p == Front(q)
           at == t.index
<1>1. q \in Seq(Datatypes) /\ at \in [Datatypes -> Nat]
  BY WalkFields
<1>2. Ascending(at, q) /\ q # << >>
  OBVIOUS
<1> HIDE DEF q, at
<1>3. n \in Nat /\ n >= 1 /\ DOMAIN q = 1 .. n /\ \A i \in 1 .. n : q[i] \in Datatypes
  BY <1>1, <1>2
<1>4. p \in Seq(Datatypes) /\ Len(p) = n - 1 /\ \A i \in 1 .. n - 1 : p[i] = q[i]
  <2>1. /\ SubSeq(q, 1, n - 1) \in Seq(Datatypes)
        /\ Len(SubSeq(q, 1, n - 1)) = IF 1 <= n - 1 THEN (n - 1) - 1 + 1 ELSE 0
        /\ \A i \in 1 .. (n - 1) - 1 + 1 : SubSeq(q, 1, n - 1)[i] = q[1 + i - 1]
    <3> HIDE DEF n
    <3>1. n - 1 \in Int /\ \A i \in 1 .. n - 1 : q[i] \in Datatypes
      BY <1>3
    <3> QED BY <3>1, SubSeqProperties
  <2> QED BY <1>3, <2>1 DEF Front
<1>5. DOMAIN p = 1 .. n - 1
  BY <1>4
<1>6. Last(q) = q[n]
  BY DEF Last
<1>7. Last(p) = p[n - 1]
  BY <1>4 DEF Last
<1> HIDE DEF n, p
<1>8. Ascending(at, p)
  BY <1>2, <1>3, <1>4 DEF Ascending, n
<1>9. ToSet(q) = ToSet(p) \cup {q[n]}
  <2>1. ToSet(p) = {q[i] : i \in 1 .. n - 1}
    BY <1>4, <1>5 DEF ToSet
  <2>2. 1 .. n = (1 .. n - 1) \cup {n}
    BY <1>3
  <2> QED BY <2>1, <2>2, <1>3 DEF ToSet
<1>10. ASSUME NEW s \in ToSet(p)
       PROVE  at[s] < at[q[n]] /\ p # << >> /\ (s # p[n - 1] => at[s] < at[p[n - 1]])
  <2>1. PICK i \in 1 .. n - 1 : s = p[i] /\ s = q[i]
    BY <1>4, <1>5 DEF ToSet
  <2>2. i \in 1 .. n /\ n \in 1 .. n /\ i < n
    BY <1>3
  <2>3. at[s] < at[q[n]]
    BY <1>2, <2>1, <2>2 DEF Ascending, n
  <2>4. n - 1 >= 1
    BY <1>3
  <2>5. i # n - 1 => i < n - 1 /\ n - 1 \in 1 .. n - 1
    BY <1>3
  <2>6. s # p[n - 1] => at[s] < at[p[n - 1]]
    BY <2>1, <2>5, <1>4, <1>8 DEF Ascending
  <2> QED BY <2>3, <2>6, <2>4, <1>4
<1>11. p # << >> => p[n - 1] \in ToSet(p)
  <2>1. p # << >> => n - 1 \in 1 .. n - 1
    BY <1>3, <1>4, <1>5
  <2> QED BY <2>1, <1>5 DEF ToSet
<1>12. \A s \in Datatypes : at[s] \in Nat
  BY <1>1
<1>13. ToSet(p) \subseteq Datatypes
  BY <1>4 DEF ToSet
<1>14. \A s \in ToSet(p) : p # << >> => at[s] <= at[p[n - 1]]
  <2> SUFFICES ASSUME NEW s \in ToSet(p), p # << >> PROVE at[s] <= at[p[n - 1]]
    OBVIOUS
  <2>1. at[s] \in Nat /\ at[p[n - 1]] \in Nat
    BY <1>11, <1>12, <1>13
  <2> QED BY <1>10, <2>1
<1> QED BY <1>4, <1>6, <1>7, <1>8, <1>9, <1>10, <1>11, <1>14 DEF p, q, at, Called

(* The part of the stack from s on is what was not met before s. *)
LEMMA StackFrom ==
    ASSUME NEW at \in [Datatypes -> Nat], NEW q \in Seq(Datatypes), Ascending(at, q), NEW s \in ToSet(q),
           NEW first \in 1 .. Len(q), q[first] = s
    PROVE  /\ SubSeq(q, 1, first - 1) \in Seq(Datatypes)
           /\ Ascending(at, SubSeq(q, 1, first - 1))
           /\ ToSet(SubSeq(q, 1, first - 1)) = {u \in ToSet(q) : at[u] < at[s]}
           /\ ToSet(SubSeq(q, first, Len(q))) = {u \in ToSet(q) : at[s] <= at[u]}
<1> DEFINE n == Len(q)
           low == SubSeq(q, 1, first - 1)
           top == SubSeq(q, first, n)
<1>1. n \in Nat /\ DOMAIN q = 1 .. n /\ \A i \in 1 .. n : q[i] \in Datatypes /\ at[q[i]] \in Nat
  OBVIOUS
<1>2. first \in 1 .. n /\ q[first] = s /\ first \in Nat /\ n \in Nat
  BY <1>1
<1>3. \A i, j \in 1 .. n : i < j => at[q[i]] < at[q[j]]
  BY DEF Ascending
<1> HIDE DEF n
<1>4. low \in Seq(Datatypes) /\ Len(low) = first - 1 /\ \A i \in 1 .. first - 1 : low[i] = q[i]
  <2>1. /\ SubSeq(q, 1, first - 1) \in Seq(Datatypes)
        /\ Len(SubSeq(q, 1, first - 1)) = IF 1 <= first - 1 THEN (first - 1) - 1 + 1 ELSE 0
        /\ \A i \in 1 .. (first - 1) - 1 + 1 : SubSeq(q, 1, first - 1)[i] = q[1 + i - 1]
    <3>1. first - 1 \in Int /\ \A i \in 1 .. first - 1 : q[i] \in Datatypes
      BY <1>1, <1>2
    <3> QED BY <3>1, SubSeqProperties
  <2> QED BY <1>2, <2>1
<1>5. top \in Seq(Datatypes) /\ Len(top) = n - first + 1 /\ \A i \in 1 .. n - first + 1 : top[i] = q[first + i - 1]
  <2>1. /\ SubSeq(q, first, n) \in Seq(Datatypes)
        /\ Len(SubSeq(q, first, n)) = IF first <= n THEN n - first + 1 ELSE 0
        /\ \A i \in 1 .. n - first + 1 : SubSeq(q, first, n)[i] = q[first + i - 1]
    <3>1. first \in Int /\ n \in Int /\ \A i \in first .. n : q[i] \in Datatypes
      BY <1>1, <1>2
    <3> QED BY <3>1, SubSeqProperties
  <2> QED BY <1>2, <2>1
<1> HIDE DEF low, top
<1>6. DOMAIN low = 1 .. first - 1 /\ DOMAIN top = 1 .. n - first + 1
  BY <1>4, <1>5
<1>7. ASSUME NEW i \in 1 .. Len(low), NEW j \in 1 .. Len(low), i < j PROVE at[low[i]] < at[low[j]]
  <2>1. i \in 1 .. first - 1 /\ j \in 1 .. first - 1 /\ i \in 1 .. n /\ j \in 1 .. n
    BY <1>2, <1>4
  <2> QED BY <2>1, <1>3, <1>4, <1>7
<1>8. \A i \in 1 .. n : (i < first <=> at[q[i]] < at[s]) /\ (first <= i <=> at[s] <= at[q[i]])
  <2> SUFFICES ASSUME NEW i \in 1 .. n
               PROVE  (i < first <=> at[q[i]] < at[s]) /\ (first <= i <=> at[s] <= at[q[i]])
    OBVIOUS
  <2>1. at[q[i]] \in Nat /\ at[s] \in Nat
    BY <1>1, <1>2
  <2>2. CASE i < first
    BY <1>2, <1>3, <2>1, <2>2
  <2>3. CASE i = first
    BY <1>2, <2>1, <2>3
  <2>4. CASE first < i
    BY <1>2, <1>3, <2>1, <2>4
  <2> QED BY <1>2, <2>2, <2>3, <2>4
<1>9. ToSet(q) = {q[i] : i \in 1 .. n}
  BY <1>1 DEF ToSet
<1>10. ToSet(low) = {u \in ToSet(q) : at[u] < at[s]}
  <2>1. ASSUME NEW u \in ToSet(low) PROVE u \in ToSet(q) /\ at[u] < at[s]
    <3>1. PICK i \in 1 .. first - 1 : u = q[i]
      BY <1>4, <1>6 DEF ToSet
    <3>2. i \in 1 .. n /\ i < first
      BY <1>2
    <3> QED BY <3>1, <3>2, <1>8, <1>9
  <2>2. ASSUME NEW u \in ToSet(q), at[u] < at[s] PROVE u \in ToSet(low)
    <3>1. PICK i \in 1 .. n : u = q[i]
      BY <1>9
    <3>2. i \in 1 .. first - 1
      BY <2>2, <3>1, <1>2, <1>8
    <3> QED BY <3>1, <3>2, <1>4, <1>6 DEF ToSet
  <2> QED BY <2>1, <2>2
<1>11. ToSet(top) = {u \in ToSet(q) : at[s] <= at[u]}
  <2>1. ASSUME NEW u \in ToSet(top) PROVE u \in ToSet(q) /\ at[s] <= at[u]
    <3>1. PICK i \in 1 .. n - first + 1 : u = q[first + i - 1]
      BY <1>5, <1>6 DEF ToSet
    <3>2. first + i - 1 \in 1 .. n /\ first <= first + i - 1
      BY <1>1, <1>2
    <3> QED BY <3>1, <3>2, <1>8, <1>9
  <2>2. ASSUME NEW u \in ToSet(q), at[s] <= at[u] PROVE u \in ToSet(top)
    <3>1. PICK i \in 1 .. n : u = q[i]
      BY <1>9
    <3>2. i - first + 1 \in 1 .. n - first + 1 /\ first + (i - first + 1) - 1 = i
      BY <2>2, <3>1, <1>1, <1>2, <1>8
    <3>3. top[i - first + 1] = u
      BY <3>1, <3>2, <1>5
    <3> QED BY <3>2, <3>3, <1>6 DEF ToSet
  <2> QED BY <2>1, <2>2
<1> QED BY <1>4, <1>7, <1>10, <1>11 DEF low, top, n, Ascending

(* A datatype met now comes after what was met. *)
LEMMA AscendingAppend ==
    ASSUME NEW at \in [Datatypes -> Nat], NEW q \in Seq(Datatypes), Ascending(at, q), NEW w \in Datatypes,
           NEW next \in Nat, \A s \in Datatypes : at[s] < next, w \notin ToSet(q)
    PROVE  Ascending([at EXCEPT ![w] = next], Append(q, w))
<1> DEFINE n == Len(q)
           long == Append(q, w)
           later == [at EXCEPT ![w] = next]
<1>1. /\ n \in Nat /\ Len(long) = n + 1 /\ long[n + 1] = w /\ DOMAIN q = 1 .. n
      /\ \A i \in 1 .. n : long[i] = q[i] /\ q[i] \in Datatypes
  OBVIOUS
<1>2. later[w] = next /\ \A s \in Datatypes : s # w => later[s] = at[s]
  OBVIOUS
<1>3. \A i, j \in 1 .. n : i < j => at[q[i]] < at[q[j]]
  BY DEF Ascending
<1>4. \A i \in 1 .. n : q[i] # w
  BY <1>1 DEF ToSet
<1> HIDE DEF n, long, later
<1>5. ASSUME NEW i \in 1 .. n + 1, NEW j \in 1 .. n + 1, i < j PROVE later[long[i]] < later[long[j]]
  <2>1. i \in 1 .. n /\ later[long[i]] = at[q[i]] /\ q[i] \in Datatypes
    BY <1>1, <1>2, <1>4, <1>5
  <2>2. CASE j = n + 1
    BY <1>1, <1>2, <2>1, <2>2
  <2>3. CASE j # n + 1
    <3>1. j \in 1 .. n /\ later[long[j]] = at[q[j]]
      BY <1>1, <1>2, <1>4, <2>3
    <3> QED BY <1>3, <1>5, <2>1, <3>1
  <2> QED BY <2>2, <2>3
<1> QED BY <1>1, <1>5 DEF Ascending, long, later

(* u is t, but a loop of a call of t may have looked at w, too. *)
LooksOn(deps, t, u, w) ==
    /\ u \in Walk
    /\ u.index = t.index /\ u.low = t.low /\ u.next = t.next
    /\ u.stack = t.stack /\ u.calls = t.calls /\ u.groups = t.groups
    /\ \A s \in Datatypes :
          /\ u.seen[s] <= Len(deps[s])
          /\ s \notin Called(t) => u.seen[s] = t.seen[s]
          /\ \A k \in 1 .. u.seen[s] : k \in 1 .. t.seen[s] \/ deps[s][k] = w

(* r is u after w was entered. *)
WithCall(u, w, r) ==
    /\ r \in Walk
    /\ r.index = [u.index EXCEPT ![w] = u.next] /\ r.low = [u.low EXCEPT ![w] = u.next]
    /\ r.seen = u.seen /\ r.next = u.next + 1 /\ r.groups = u.groups
    /\ r.stack = Append(u.stack, w) /\ r.calls = Append(u.calls, w)
    /\ OnStack(r) = OnStack(u) \cup {w} /\ Called(r) = Called(u) \cup {w}
    /\ Grouped(r) = Grouped(u)

(* Entered, field by field. *)
LEMMA EnteredFields ==
    ASSUME NEW u \in Walk, NEW w \in Datatypes
    PROVE  WithCall(u, w, Entered(u, w))
<1> DEFINE r == Entered(u, w)
<1>1. /\ r.index = [u.index EXCEPT ![w] = u.next] /\ r.low = [u.low EXCEPT ![w] = u.next]
      /\ r.seen = u.seen /\ r.next = u.next + 1 /\ r.groups = u.groups
      /\ r.stack = Append(u.stack, w) /\ r.calls = Append(u.calls, w)
  BY DEF Entered, Walk
<1>3. /\ r.index \in [Datatypes -> Nat] /\ r.low \in [Datatypes -> Nat] /\ r.seen \in [Datatypes -> Nat]
      /\ r.next \in Nat /\ r.groups \in Seq(SUBSET Datatypes)
      /\ r.stack \in Seq(Datatypes) /\ r.calls \in Seq(Datatypes)
  BY <1>1, WalkFields
<1>2. r \in Walk
  BY <1>3, GrownMembers DEF Entered, Walk
<1>4. ToSet(r.stack) = ToSet(u.stack) \cup {w} /\ ToSet(r.calls) = ToSet(u.calls) \cup {w}
  BY <1>1, WalkFields, GrownMembers
<1> HIDE DEF r
<1>5. WithCall(u, w, r)
  BY <1>1, <1>2, <1>3, <1>4 DEF WithCall, Walk, OnStack, Called, Grouped
<1> QED BY <1>5 DEF r

(* A call. *)
LEMMA EnteredKeeps ==
    ASSUME NEW deps, Lists(deps), NEW t, WalkInv(deps, t), NEW w \in Datatypes, t.index[w] = 0,
           NEW u, LooksOn(deps, t, u, w), \A s \in Called(t) : Reaches(s, w),
           t.calls = << >> => OnStack(t) = {}
    PROVE  WalkInv(deps, Entered(u, w))
<1> DEFINE r == Entered(u, w)
<1>1. /\ t \in Walk /\ u \in Walk /\ Numbered(t) /\ Placed(t) /\ Looked(deps, t) /\ GroupsRight(t.groups)
      /\ Below(t) /\ LowsRight(t) /\ LowsBound(deps, t)
  BY DEF WalkInv, LooksOn
<1>2. /\ t.index \in [Datatypes -> Nat] /\ t.low \in [Datatypes -> Nat] /\ t.seen \in [Datatypes -> Nat]
      /\ t.next \in Nat /\ t.stack \in Seq(Datatypes) /\ t.calls \in Seq(Datatypes)
      /\ OnStack(t) \subseteq Datatypes /\ Called(t) \subseteq Datatypes /\ Grouped(t) \subseteq Datatypes
  BY <1>1, WalkFields
<1>3. u.seen \in [Datatypes -> Nat]
  BY <1>1, WalkFields
<1>4. /\ u.index = t.index /\ u.low = t.low /\ u.next = t.next
      /\ u.stack = t.stack /\ u.calls = t.calls /\ u.groups = t.groups
      /\ OnStack(u) = OnStack(t) /\ Called(u) = Called(t) /\ Grouped(u) = Grouped(t)
  BY DEF LooksOn, OnStack, Called, Grouped
<1>5. /\ r \in Walk
      /\ r.index = [t.index EXCEPT ![w] = t.next] /\ r.low = [t.low EXCEPT ![w] = t.next]
      /\ r.seen = u.seen /\ r.next = t.next + 1 /\ r.groups = t.groups
      /\ r.stack = Append(t.stack, w) /\ r.calls = Append(t.calls, w)
      /\ OnStack(r) = OnStack(t) \cup {w} /\ Called(r) = Called(t) \cup {w}
      /\ Grouped(r) = Grouped(t)
  <2>1. WithCall(u, w, r)
    BY <1>1, EnteredFields
  <2> HIDE DEF r
  <2> QED BY <1>4, <2>1 DEF WithCall
<1> HIDE DEF r
<1>6. /\ r.index[w] = t.next /\ r.low[w] = t.next
      /\ \A s \in Datatypes : s # w => r.index[s] = t.index[s] /\ r.low[s] = t.low[s]
  BY <1>2, <1>5
<1>7. /\ \A s \in Datatypes : t.index[s] \in Nat /\ t.low[s] \in Nat /\ t.index[s] < t.next /\ u.seen[s] \in Nat
      /\ t.next # 0
  BY <1>1, <1>2, <1>3 DEF Numbered
<1>8. w \notin OnStack(t) /\ w \notin Called(t) /\ w \notin Grouped(t)
  BY <1>1 DEF Placed
<1>9. w \notin Called(t) => u.seen[w] = t.seen[w]
  BY DEF LooksOn
<1>10. u.seen[w] = 0
  BY <1>1, <1>8, <1>9 DEF Numbered
<1>11. \A s \in OnStack(t) : s \in Datatypes /\ s # w
  BY <1>2, <1>8
<1>12. \A s \in Datatypes : t.index[s] < t.next
  BY <1>7
<1>20. Numbered(r)
  <2>1. ASSUME NEW s \in Datatypes PROVE r.index[s] < r.next
    <3>1. t.next < t.next + 1 /\ t.index[s] < t.next + 1
      BY <1>2, <1>7
    <3> QED BY <3>1, <1>5, <1>6
  <2>2. ASSUME NEW s \in Datatypes, r.index[s] = 0 PROVE r.seen[s] = 0
    <3>1. s # w /\ t.index[s] = 0
      BY <1>6, <1>7, <2>2
    <3>2. s \notin Called(t) /\ t.seen[s] = 0
      BY <3>1, <1>1 DEF Numbered, Placed
    <3> QED BY <3>2, <1>5 DEF LooksOn
  <2>3. ASSUME NEW s \in Datatypes, NEW v \in Datatypes, r.index[s] = r.index[v], r.index[s] # 0 PROVE s = v
    <3>1. CASE s = w \/ v = w
      BY <2>3, <3>1, <1>6, <1>7
    <3>2. CASE s # w /\ v # w
      BY <2>3, <3>2, <1>1, <1>6 DEF Numbered
    <3> QED BY <3>1, <3>2
  <2> QED BY <1>2, <1>5, <2>1, <2>2, <2>3 DEF Numbered
<1>21. Placed(r)
  <2>1. Ascending(r.index, r.stack)
    <3>1. Ascending(t.index, t.stack) /\ w \notin ToSet(t.stack)
      BY <1>1, <1>8 DEF Placed, OnStack
    <3>2. Ascending([t.index EXCEPT ![w] = t.next], Append(t.stack, w))
      BY <3>1, <1>2, <1>12, AscendingAppend
    <3> QED BY <3>2, <1>5
  <2>2. Ascending(r.index, r.calls)
    <3>1. Ascending(t.index, t.calls) /\ w \notin ToSet(t.calls)
      BY <1>1, <1>8 DEF Placed, Called
    <3>2. Ascending([t.index EXCEPT ![w] = t.next], Append(t.calls, w))
      BY <3>1, <1>2, <1>12, AscendingAppend
    <3> QED BY <3>2, <1>5
  <2>3. \A s \in Datatypes : r.index[s] # 0 <=> s \in OnStack(r) \cup Grouped(r)
    BY <1>1, <1>5, <1>6, <1>7 DEF Placed
  <2> QED BY <1>1, <1>5, <1>8, <2>1, <2>2, <2>3 DEF Placed
<1>22. Looked(deps, r)
  <2> SUFFICES ASSUME NEW s \in Datatypes
               PROVE  /\ u.seen[s] <= Len(deps[s])
                      /\ \A k \in 1 .. u.seen[s] : r.index[deps[s][k]] # 0
                      /\ r.index[s] # 0 /\ s \notin Called(r) => u.seen[s] = Len(deps[s])
    BY <1>5 DEF Looked
  <2>1. u.seen[s] <= Len(deps[s])
    BY DEF LooksOn
  <2>2. ASSUME NEW k \in 1 .. u.seen[s] PROVE r.index[deps[s][k]] # 0
    <3>1. k \in 1 .. t.seen[s] \/ deps[s][k] = w
      BY DEF LooksOn
    <3>2. CASE deps[s][k] = w
      BY <3>2, <1>6, <1>7
    <3>3. CASE k \in 1 .. t.seen[s]
      <4>1. k \in 1 .. Len(deps[s]) /\ deps[s] \in Seq(Datatypes)
        BY <1>3, <2>1 DEF Lists
      <4>2. deps[s][k] \in Datatypes
        BY <4>1
      <4>3. t.index[deps[s][k]] # 0
        BY <3>3, <1>1 DEF Looked
      <4> QED BY <4>2, <4>3, <1>6, <1>7
    <3> QED BY <3>1, <3>2, <3>3
  <2>3. ASSUME r.index[s] # 0, s \notin Called(r) PROVE u.seen[s] = Len(deps[s])
    <3>1. s # w /\ s \notin Called(t) /\ t.index[s] # 0
      BY <2>3, <1>5, <1>6
    <3> QED BY <3>1, <1>1 DEF LooksOn, Looked
  <2> QED BY <2>1, <2>2, <2>3
<1>23. GroupsRight(r.groups)
  BY <1>1, <1>5
<1>24. Below(r)
  <2> SUFFICES ASSUME NEW s \in Called(r), NEW v \in OnStack(r), r.index[s] <= r.index[v] PROVE Reaches(s, v)
    BY DEF Below
  <2>1. Called(t) \subseteq OnStack(t)
    BY <1>1 DEF Placed
  <2>2. CASE s = w
    <3>1. v = w
      <4>1. v # w => t.next <= t.index[v] /\ v \in Datatypes
        BY <2>2, <1>5, <1>6, <1>11
      <4> QED BY <4>1, <1>2, <1>7
    <3> QED BY <2>2, <3>1, ReachesItself
  <2>3. CASE s # w /\ v = w
    BY <2>3, <1>5
  <2>4. CASE s # w /\ v # w
    <3>1. s \in Called(t) /\ v \in OnStack(t) /\ t.index[s] <= t.index[v]
      BY <2>1, <2>4, <1>2, <1>5, <1>6
    <3> QED BY <3>1, <1>1 DEF Below
  <2> QED BY <2>2, <2>3, <2>4
<1>25. LowsRight(r)
  <2> SUFFICES ASSUME NEW s \in OnStack(r) PROVE LowRight(r, s)
    BY DEF LowsRight
  <2>1. CASE s = w
    <3>1. r.low[s] = r.index[s] /\ r.index[s] \in Nat /\ s \in Called(r) /\ Reaches(s, s)
      BY <2>1, <1>2, <1>5, <1>6, ReachesItself
    <3> QED BY <3>1 DEF LowRight
  <2>2. CASE s # w
    <3>1. s \in OnStack(t) /\ LowRight(t, s) /\ s \in Datatypes
      BY <2>2, <1>1, <1>2, <1>5 DEF LowsRight
    <3>2. PICK v \in OnStack(t) : t.index[v] = t.low[s] /\ Reaches(s, v)
      BY <3>1 DEF LowRight
    <3>3. r.index[v] = r.low[s] /\ v \in OnStack(r)
      BY <2>2, <3>1, <3>2, <1>5, <1>6, <1>11
    <3>4. r.low[s] <= r.index[s] /\ (s \notin Called(r) => r.low[s] < r.index[s])
      BY <2>2, <3>1, <1>5, <1>6 DEF LowRight
    <3> QED BY <3>2, <3>3, <3>4 DEF LowRight
  <2> QED BY <2>1, <2>2
<1>26. LowsBound(deps, r)
  <2> SUFFICES ASSUME NEW s \in Called(r), NEW v \in OnStack(r), Owns(r, s, v), NEW k \in 1 .. r.seen[v],
                      deps[v][k] \in OnStack(r)
               PROVE  r.low[s] <= r.index[deps[v][k]]
    BY DEF LowsBound
  <2> DEFINE e == deps[v][k]
  <2>0. e \in OnStack(r) /\ k \in 1 .. u.seen[v]
    BY <1>5
  <2>1. v # w /\ v \in OnStack(t) /\ v \in Datatypes
    <3>1. v # w
      BY <2>0, <1>10
    <3> QED BY <3>1, <1>2, <1>5
  <2>2. k \in 1 .. t.seen[v] \/ e = w
    BY <2>1, <1>5 DEF LooksOn
  <2> HIDE DEF e
  <2>3. s # w /\ s \in Called(t) /\ s \in OnStack(t) /\ s \in Datatypes
    <3>1. s = w => t.next <= t.index[v]
      BY <2>1, <1>6 DEF Owns
    <3>2. Called(t) \subseteq OnStack(t)
      BY <1>1 DEF Placed
    <3> QED BY <2>1, <3>1, <3>2, <1>2, <1>5, <1>7
  <2>4. CASE e = w
    <3>1. t.low[s] <= t.index[s]
      BY <2>3, <1>1 DEF LowsRight, LowRight
    <3> QED BY <2>3, <2>4, <3>1, <1>2, <1>6, <1>7 DEF e
  <2>5. CASE e # w
    <3>1. e \in OnStack(t) /\ e \in Datatypes
      BY <2>0, <2>5, <1>2, <1>5
    <3>2. Owns(t, s, v)
      <4>1. t.index[s] <= t.index[v]
        BY <2>1, <2>3, <1>6 DEF Owns
      <4>2. ASSUME NEW h \in Called(t), t.index[h] <= t.index[v] PROVE t.index[h] <= t.index[s]
        <5>1. h # w /\ h \in Called(r) /\ h \in Datatypes
          BY <1>2, <1>5, <1>8
        <5> QED BY <5>1, <4>2, <2>1, <2>3, <1>6 DEF Owns
      <4> QED BY <4>1, <4>2 DEF Owns
    <3>3. k \in 1 .. t.seen[v] /\ deps[v][k] \in OnStack(t)
      BY <2>2, <2>5, <3>1 DEF e
    <3>4. t.low[s] <= t.index[e]
      BY <2>1, <2>3, <3>2, <3>3, <1>1 DEF LowsBound, e
    <3> QED BY <2>3, <2>5, <3>1, <3>4, <1>6 DEF e
  <2> QED BY <2>4, <2>5
<1> QED BY <1>5, <1>20, <1>21, <1>22, <1>23, <1>24, <1>25, <1>26 DEF r, WalkInv

(* The call under way is the one that was entered last. *)
LEMMA UnderWay ==
    ASSUME NEW deps, NEW t, WalkInv(deps, t), t.calls # << >>, NEW v, v = Last(t.calls)
    PROVE  /\ v \in Called(t) /\ v \in OnStack(t) /\ v \in Datatypes
           /\ \A s \in Called(t) : t.index[s] <= t.index[v] /\ (s # v => t.index[s] < t.index[v])
           /\ \A s \in Called(t) : Reaches(s, v)
<1>1. t \in Walk /\ Placed(t) /\ Below(t) /\ Ascending(t.index, t.calls)
  BY DEF WalkInv, Placed
<1>2. /\ v \in Called(t) /\ Called(t) = ToSet(Front(t.calls)) \cup {v}
      /\ \A s \in ToSet(Front(t.calls)) : t.index[s] < t.index[v]
  BY <1>1, LastCall
<1>3. Called(t) \subseteq OnStack(t) /\ OnStack(t) \subseteq Datatypes /\ t.index \in [Datatypes -> Nat]
  BY <1>1, WalkFields DEF Placed
<1>4. \A s \in Called(t) : s # v => t.index[s] < t.index[v]
  BY <1>2
<1>5. \A s \in Called(t) : t.index[s] \in Nat
  BY <1>3
<1>6. \A s \in Called(t) : t.index[s] <= t.index[v]
  BY <1>2, <1>4, <1>5
<1>7. \A s \in Called(t) : Reaches(s, v)
  BY <1>1, <1>2, <1>3, <1>6 DEF Below
<1> QED BY <1>2, <1>3, <1>4, <1>6, <1>7

(* Its loop looks at w, which v mentions. *)
LooksAt(deps, t, v, u, w) ==
    /\ w \in Dependencies[v] /\ w \in Datatypes
    /\ u.seen = [t.seen EXCEPT ![v] = @ + 1]
    /\ LooksOn(deps, t, u, w)

(* The loop of the innermost call has counted its next dependency. *)
LEMMA NextLook ==
    ASSUME NEW deps, Lists(deps), NEW t, WalkInv(deps, t), t.calls # << >>, NEW v, v = Last(t.calls),
           t.seen[v] < Len(deps[v])
    PROVE  LooksAt(deps, t, v, [t EXCEPT !.seen[v] = @ + 1], deps[v][t.seen[v] + 1])
<1> DEFINE w == deps[v][t.seen[v] + 1]
           u == [t EXCEPT !.seen[v] = @ + 1]
<1>1. /\ v \in Called(t) /\ v \in Datatypes /\ t \in Walk /\ t.seen \in [Datatypes -> Nat]
      /\ deps[v] \in Seq(Datatypes) /\ ToSet(deps[v]) = Dependencies[v] /\ Looked(deps, t)
  BY UnderWay, WalkFields DEF WalkInv, Lists
<1>2. t.seen[v] + 1 \in 1 .. Len(deps[v]) /\ t.seen[v] + 1 <= Len(deps[v])
  BY <1>1
<1>3. w \in Datatypes /\ w \in Dependencies[v]
  <2>1. DOMAIN deps[v] = 1 .. Len(deps[v])
    BY <1>1
  <2> QED BY <1>1, <1>2, <2>1 DEF ToSet
<1>4. /\ u.index = t.index /\ u.low = t.low /\ u.next = t.next
      /\ u.stack = t.stack /\ u.calls = t.calls /\ u.groups = t.groups
      /\ u.seen = [t.seen EXCEPT ![v] = @ + 1] /\ u \in Walk
  <2>1. [t.seen EXCEPT ![v] = @ + 1] \in [Datatypes -> Nat]
    BY <1>1
  <2> QED BY <1>1, <2>1 DEF Walk
<1>5. ASSUME NEW s \in Datatypes
      PROVE  /\ u.seen[s] <= Len(deps[s])
             /\ s \notin Called(t) => u.seen[s] = t.seen[s]
             /\ \A k \in 1 .. u.seen[s] : k \in 1 .. t.seen[s] \/ deps[s][k] = w
  <2>1. CASE s = v
    <3>1. u.seen[s] = t.seen[v] + 1
      BY <2>1, <1>1, <1>4
    <3>2. \A k \in 1 .. t.seen[v] + 1 : k \in 1 .. t.seen[v] \/ k = t.seen[v] + 1
      BY <1>1
    <3> QED BY <2>1, <3>1, <3>2, <1>1, <1>2
  <2>2. CASE s # v
    <3>1. u.seen[s] = t.seen[s]
      BY <2>2, <1>1, <1>4
    <3> QED BY <3>1, <1>1 DEF Looked
  <2> QED BY <2>1, <2>2
<1> HIDE DEF w, u
<1>6. LooksAt(deps, t, v, u, w)
  BY <1>3, <1>4, <1>5 DEF LooksOn, LooksAt
<1> QED BY <1>6 DEF w, u

(* Lesser is one of its arguments, and no more than either. *)
LEMMA LesserIs ==
    ASSUME NEW a \in Nat, NEW b \in Nat
    PROVE  Lesser(a, b) \in {a, b} /\ Lesser(a, b) <= a /\ Lesser(a, b) <= b
BY DEF Lesser

(* w was met before. *)
LEMMA MetKeeps ==
    ASSUME NEW deps, Lists(deps), NEW t, WalkInv(deps, t), t.calls # << >>, NEW v, v = Last(t.calls),
           NEW w \in Datatypes, w \in Dependencies[v], t.index[w] # 0, NEW u, LooksOn(deps, t, u, w),
           \A s \in Datatypes : s # v => u.seen[s] = t.seen[s]
    PROVE  WalkInv(deps, Met(u, v, w))
<1> DEFINE r == Met(u, v, w)
<1>1. /\ t \in Walk /\ u \in Walk /\ Numbered(t) /\ Placed(t) /\ Looked(deps, t) /\ GroupsRight(t.groups)
      /\ Below(t) /\ LowsRight(t) /\ LowsBound(deps, t)
  BY DEF WalkInv, LooksOn
<1>2. /\ t.index \in [Datatypes -> Nat] /\ t.low \in [Datatypes -> Nat] /\ t.seen \in [Datatypes -> Nat]
      /\ t.next \in Nat /\ t.stack \in Seq(Datatypes) /\ t.calls \in Seq(Datatypes)
      /\ OnStack(t) \subseteq Datatypes /\ Called(t) \subseteq Datatypes /\ Grouped(t) \subseteq Datatypes
  BY <1>1, WalkFields
<1>3. u.seen \in [Datatypes -> Nat]
  BY <1>1, WalkFields
<1>4. /\ u.index = t.index /\ u.low = t.low /\ u.next = t.next
      /\ u.stack = t.stack /\ u.calls = t.calls /\ u.groups = t.groups
  BY DEF LooksOn
<1>5. /\ v \in Called(t) /\ v \in OnStack(t) /\ v \in Datatypes
      /\ \A s \in Called(t) : t.index[s] <= t.index[v] /\ (s # v => t.index[s] < t.index[v])
  BY UnderWay
<1>6. /\ r \in Walk /\ r.index = t.index /\ r.next = t.next /\ r.seen = u.seen
      /\ r.stack = t.stack /\ r.calls = t.calls /\ r.groups = t.groups
      /\ r.low = IF w \in OnStack(t) THEN [t.low EXCEPT ![v] = Lesser(@, t.index[w])] ELSE t.low
  <2>1. CASE w \in ToSet(u.stack)
    <3>1. r = [u EXCEPT !.low[v] = Lesser(@, u.index[w])]
      BY <2>1 DEF Met
    <3> HIDE DEF r
    <3>2. Lesser(u.low[v], u.index[w]) \in Nat
      <4>1. u.low[v] \in Nat /\ u.index[w] \in Nat
        BY <1>2, <1>4, <1>5
      <4> QED BY <4>1 DEF Lesser
    <3> QED BY <2>1, <3>1, <3>2, <1>1, <1>4 DEF Walk, OnStack
  <2>2. CASE w \notin ToSet(u.stack)
    <3>1. r = u
      BY <2>2 DEF Met
    <3> QED BY <2>2, <3>1, <1>1, <1>4 DEF OnStack
  <2> QED BY <2>1, <2>2
<1> HIDE DEF r
<1>7. OnStack(r) = OnStack(t) /\ Called(r) = Called(t) /\ Grouped(r) = Grouped(t)
  BY <1>6 DEF OnStack, Called, Grouped
<1>8. /\ \A s \in Datatypes : s # v => r.low[s] = t.low[s]
      /\ r.low[v] \in Nat /\ r.low[v] <= t.low[v]
      /\ w \in OnStack(t) => r.low[v] <= t.index[w]
      /\ r.low[v] = t.low[v] \/ (w \in OnStack(t) /\ r.low[v] = t.index[w])
  <2>1. CASE w \in OnStack(t)
    <3>1. t.low[v] \in Nat /\ t.index[w] \in Nat
      BY <1>2, <1>5
    <3>2. r.low = [t.low EXCEPT ![v] = Lesser(t.low[v], t.index[w])]
      BY <2>1, <1>6
    <3>3. r.low[v] = Lesser(t.low[v], t.index[w]) /\ \A s \in Datatypes : s # v => r.low[s] = t.low[s]
      BY <3>2, <1>2, <1>5
    <3> QED BY <2>1, <3>1, <3>3, LesserIs
  <2>2. CASE w \notin OnStack(t)
    BY <2>2, <1>2, <1>5, <1>6
  <2> QED BY <2>1, <2>2
<1>20. Numbered(r)
  <2>1. \A s \in Datatypes : t.index[s] = 0 => s \notin Called(t)
    BY <1>1 DEF Placed
  <2>2. \A s \in Datatypes : t.index[s] = 0 => u.seen[s] = 0
    BY <2>1, <1>1 DEF Numbered, LooksOn
  <2> QED BY <2>2, <1>1, <1>6 DEF Numbered
<1>21. Placed(r)
  BY <1>1, <1>6, <1>7 DEF Placed
<1>22. Looked(deps, r)
  <2> SUFFICES ASSUME NEW s \in Datatypes
               PROVE  /\ u.seen[s] <= Len(deps[s])
                      /\ \A k \in 1 .. u.seen[s] : t.index[deps[s][k]] # 0
                      /\ t.index[s] # 0 /\ s \notin Called(t) => u.seen[s] = Len(deps[s])
    BY <1>6, <1>7 DEF Looked
  <2>1. u.seen[s] <= Len(deps[s]) /\ (s \notin Called(t) => u.seen[s] = t.seen[s])
    BY DEF LooksOn
  <2>2. ASSUME NEW k \in 1 .. u.seen[s] PROVE t.index[deps[s][k]] # 0
    <3>1. k \in 1 .. t.seen[s] \/ deps[s][k] = w
      BY DEF LooksOn
    <3> QED BY <3>1, <1>1 DEF Looked
  <2> QED BY <2>1, <2>2, <1>1 DEF Looked
<1>23. GroupsRight(r.groups)
  BY <1>1, <1>6
<1>24. Below(r)
  BY <1>1, <1>6, <1>7 DEF Below
<1>25. LowsRight(r)
  <2> SUFFICES ASSUME NEW s \in OnStack(t) PROVE LowRight(r, s)
    BY <1>7 DEF LowsRight
  <2>1. LowRight(t, s) /\ s \in Datatypes
    BY <1>1, <1>2 DEF LowsRight
  <2>2. CASE r.low[s] = t.low[s]
    BY <2>1, <2>2, <1>6, <1>7 DEF LowRight
  <2>3. CASE r.low[s] # t.low[s]
    <3>1. s = v /\ w \in OnStack(t) /\ r.low[s] = t.index[w]
      BY <2>1, <2>3, <1>8
    <3>2. Reaches(s, w)
      BY <3>1, <1>5, ReachesMentioned
    <3>3. t.low[s] <= t.index[s] /\ t.low[s] \in Nat /\ t.index[s] \in Nat
      BY <2>1, <1>2 DEF LowRight
    <3>4. r.low[s] <= t.index[s]
      BY <3>1, <3>3, <1>8
    <3> QED BY <3>1, <3>2, <3>4, <1>5, <1>6, <1>7 DEF LowRight
  <2> QED BY <2>2, <2>3
<1>26. LowsBound(deps, r)
  <2> SUFFICES ASSUME NEW s \in Called(t), NEW z \in OnStack(t), Owns(t, s, z), NEW k \in 1 .. u.seen[z],
                      deps[z][k] \in OnStack(t)
               PROVE  r.low[s] <= t.index[deps[z][k]]
    BY <1>6, <1>7 DEF LowsBound, Owns
  <2> DEFINE e == deps[z][k]
  <2>0. e \in OnStack(t) /\ e \in Datatypes /\ s \in Datatypes /\ z \in Datatypes
    BY <1>2
  <2>1. t.low[s] \in Nat /\ r.low[s] \in Nat /\ r.low[s] <= t.low[s] /\ t.index[e] \in Nat
    <3>1. t.low[s] \in Nat /\ t.index[e] \in Nat
      BY <2>0, <1>2
    <3>2. s # v => r.low[s] = t.low[s]
      BY <2>0, <1>8
    <3> HIDE DEF e
    <3> QED BY <3>1, <3>2, <1>8
  <2> HIDE DEF e
  <2>2. CASE k \in 1 .. t.seen[z]
    <3>1. t.low[s] <= t.index[e]
      BY <2>0, <2>2, <1>1 DEF LowsBound, e
    <3> QED BY <2>1, <3>1 DEF e
  <2>3. CASE k \notin 1 .. t.seen[z]
    <3>1. e = w /\ z = v
      BY <2>0, <2>3 DEF LooksOn, e
    <3>2. t.index[v] <= t.index[s]
      BY <3>1, <1>2, <1>5 DEF Owns
    <3>3. s = v
      <4>1. t.index[s] \in Nat /\ t.index[v] \in Nat /\ (s # v => t.index[s] < t.index[v])
        BY <2>0, <1>2, <1>5
      <4> QED BY <3>2, <4>1
    <3> QED BY <2>0, <3>1, <3>3, <1>8 DEF e
  <2> QED BY <2>2, <2>3
<1> QED BY <1>6, <1>20, <1>21, <1>22, <1>23, <1>24, <1>25, <1>26 DEF r, WalkInv

(* What ends the stack when strongconnect(v) returns. *)
Above(t, v) == {s \in OnStack(t) : t.index[v] <= t.index[s]}

(* Groups mention each other only. *)
LEMMA GroupedMentions ==
    ASSUME NEW t \in Walk, GroupsRight(t.groups), NEW s \in Grouped(t)
    PROVE  Dependencies[s] \subseteq Grouped(t)
<1>1. t.groups \in Seq(SUBSET Datatypes)
  BY WalkFields
<1>2. PICK i \in DOMAIN t.groups : s \in t.groups[i]
  BY DEF Grouped, ToSet
<1>3. Dependencies[s] \subseteq UpTo(t.groups, i)
  BY <1>2 DEF GroupsRight
<1>4. DOMAIN t.groups = 1 .. Len(t.groups) /\ Len(t.groups) \in Nat
  BY <1>1
<1>5. \A j \in 1 .. i : j \in DOMAIN t.groups
  BY <1>2, <1>4
<1> QED BY <1>3, <1>5 DEF UpTo, Grouped, ToSet

(* When the loop of v has ended and no mention led below v, what ends the   *)
(* stack mentions itself and what is grouped.                               *)
LEMMA AboveMentions ==
    ASSUME NEW deps, Lists(deps), NEW t, WalkInv(deps, t), t.calls # << >>, NEW v, v = Last(t.calls),
           t.seen[v] = Len(deps[v]), t.low[v] = t.index[v], NEW s \in Above(t, v)
    PROVE  Dependencies[s] \subseteq Above(t, v) \cup Grouped(t)
<1> SUFFICES ASSUME NEW w \in Dependencies[s] PROVE w \in Above(t, v) \cup Grouped(t)
  OBVIOUS
<1>1. /\ t \in Walk /\ Placed(t) /\ Looked(deps, t) /\ LowsBound(deps, t)
      /\ t.index \in [Datatypes -> Nat] /\ t.low \in [Datatypes -> Nat] /\ t.seen \in [Datatypes -> Nat]
      /\ OnStack(t) \subseteq Datatypes
  BY WalkFields DEF WalkInv
<1>2. /\ v \in Called(t) /\ v \in OnStack(t) /\ v \in Datatypes
      /\ \A h \in Called(t) : t.index[h] <= t.index[v] /\ (h # v => t.index[h] < t.index[v])
  BY UnderWay
<1>3. s \in OnStack(t) /\ s \in Datatypes /\ t.index[v] <= t.index[s]
  BY <1>1 DEF Above
<1>4. s # v => s \notin Called(t)
  BY <1>1, <1>2, <1>3
<1>5. t.seen[s] = Len(deps[s])
  <2>1. t.index[s] # 0
    BY <1>1, <1>3 DEF Placed
  <2> QED BY <2>1, <1>1, <1>3, <1>4 DEF Looked
<1>6. PICK k \in 1 .. Len(deps[s]) : w = deps[s][k]
  <2>1. deps[s] \in Seq(Datatypes) /\ ToSet(deps[s]) = Dependencies[s]
    BY <1>3 DEF Lists
  <2>2. DOMAIN deps[s] = 1 .. Len(deps[s])
    BY <2>1
  <2> QED BY <2>1, <2>2 DEF ToSet
<1>7. w \in Datatypes /\ t.index[w] # 0
  <2>1. deps[s] \in Seq(Datatypes)
    BY <1>3 DEF Lists
  <2> QED BY <2>1, <1>1, <1>3, <1>5, <1>6 DEF Looked
<1>8. CASE w \in OnStack(t)
  <2>1. Owns(t, v, s)
    BY <1>2, <1>3 DEF Owns
  <2>2. t.low[v] <= t.index[w]
    BY <2>1, <1>1, <1>2, <1>3, <1>5, <1>6, <1>8 DEF LowsBound
  <2> QED BY <2>2, <1>8 DEF Above
<1> QED BY <1>1, <1>7, <1>8 DEF Placed

(* They reach each other. *)
LEMMA AboveReaches ==
    ASSUME NEW deps, Lists(deps), NEW t, WalkInv(deps, t), t.calls # << >>, NEW v, v = Last(t.calls),
           t.seen[v] = Len(deps[v]), t.low[v] = t.index[v]
    PROVE  \A s, u \in Above(t, v) : Reaches(s, u)
<1>1. /\ t \in Walk /\ Placed(t) /\ Below(t) /\ LowsRight(t) /\ GroupsRight(t.groups)
      /\ t.index \in [Datatypes -> Nat] /\ t.low \in [Datatypes -> Nat]
      /\ OnStack(t) \subseteq Datatypes /\ Grouped(t) \subseteq Datatypes
  BY WalkFields DEF WalkInv
<1>2. /\ v \in Called(t) /\ v \in OnStack(t) /\ v \in Datatypes
      /\ \A h \in Called(t) : t.index[h] <= t.index[v] /\ (h # v => t.index[h] < t.index[v])
  BY UnderWay
<1>3. \A s \in Above(t, v) : s \in OnStack(t) /\ s \in Datatypes /\ t.index[v] <= t.index[s] /\ t.index[s] \in Nat
  BY <1>1 DEF Above
<1>4. \A s \in Above(t, v) \cup Grouped(t) : Dependencies[s] \subseteq Above(t, v) \cup Grouped(t)
  BY <1>1, AboveMentions, GroupedMentions
<1>5. \A s \in Above(t, v), w \in Datatypes : Reaches(s, w) => w \in Above(t, v) \cup Grouped(t)
  <2>1. Above(t, v) \cup Grouped(t) \in SUBSET Datatypes
    BY <1>1, <1>3
  <2> QED BY <1>4, <2>1 DEF Reaches
<1>6. \A s \in Above(t, v) : Reaches(v, s)
  BY <1>1, <1>2, <1>3 DEF Below
<1>7. \A s \in Above(t, v) : Reaches(s, v)
  <2> DEFINE Bad == {n \in Nat : \E s \in Above(t, v) : t.index[s] = n /\ ~ Reaches(s, v)}
  <2> SUFFICES ASSUME Bad # {} PROVE FALSE
    BY <1>3
  <2>1. PICK n \in Bad : \A m \in Bad : n <= m
    <3>1. Bad \in SUBSET Nat
      OBVIOUS
    <3> HIDE DEF Bad
    <3> QED BY <3>1, LeastNat
  <2>2. PICK s \in Above(t, v) : t.index[s] = n /\ ~ Reaches(s, v)
    BY <2>1
  <2>3. s # v /\ s \notin Called(t)
    BY <2>2, <1>1, <1>2, <1>3, ReachesItself
  <2>4. LowRight(t, s)
    BY <1>1, <1>3, <2>2 DEF LowsRight
  <2>5. PICK w \in OnStack(t) : t.index[w] = t.low[s] /\ Reaches(s, w) /\ t.low[s] < t.index[s]
    BY <2>3, <2>4 DEF LowRight
  <2>6. w \in Above(t, v)
    BY <2>2, <2>5, <1>1, <1>5 DEF Placed
  <2>7. Reaches(w, v)
    BY <2>1, <2>2, <2>5, <2>6, <1>3
  <2> QED BY <2>2, <2>5, <2>7, ReachesOn
<1> QED BY <1>6, <1>7, ReachesOn

(* A group may follow when all it mentions is in it or in an earlier one.   *)
LEMMA GroupAdded ==
    ASSUME NEW groups \in Seq(SUBSET Datatypes), GroupsRight(groups), NEW new \in SUBSET Datatypes, new # {},
           new \cap UNION ToSet(groups) = {},
           \A s \in new : Dependencies[s] \subseteq new \cup UNION ToSet(groups),
           \A s, u \in new : Reaches(s, u)
    PROVE  GroupsRight(Append(groups, new))
<1> DEFINE n == Len(groups)
           more == Append(groups, new)
<1>1. /\ n \in Nat /\ Len(more) = n + 1 /\ DOMAIN groups = 1 .. n /\ DOMAIN more = 1 .. n + 1
      /\ more[n + 1] = new /\ \A i \in 1 .. n : more[i] = groups[i]
  OBVIOUS
<1>2. \A i \in 1 .. n : groups[i] \subseteq UNION ToSet(groups)
  BY <1>1 DEF ToSet
<1> HIDE DEF n, more
<1>3. \A i \in 1 .. n + 1 : i # n + 1 => i \in 1 .. n
  BY <1>1
<1>4. ASSUME NEW i \in 1 .. n + 1, NEW j \in 1 .. n + 1, i # j PROVE more[i] \cap more[j] = {}
  <2>1. CASE i = n + 1
    BY <2>1, <1>1, <1>2, <1>3, <1>4
  <2>2. CASE j = n + 1
    BY <2>2, <1>1, <1>2, <1>3, <1>4
  <2>3. CASE i # n + 1 /\ j # n + 1
    BY <2>3, <1>1, <1>3, <1>4 DEF GroupsRight
  <2> QED BY <2>1, <2>2, <2>3
<1>5. \A i \in 1 .. n : UpTo(more, i) = UpTo(groups, i)
  <2> SUFFICES ASSUME NEW i \in 1 .. n PROVE UpTo(more, i) = UpTo(groups, i)
    OBVIOUS
  <2>1. \A j \in 1 .. i : j \in 1 .. n
    BY <1>1
  <2> QED BY <2>1, <1>1 DEF UpTo
<1>6. UpTo(more, n + 1) = new \cup UNION ToSet(groups)
  <2>1. 1 .. n + 1 = (1 .. n) \cup {n + 1}
    BY <1>1
  <2>2. \A s : s \in UpTo(more, n + 1) <=> \E j \in 1 .. n + 1 : s \in more[j]
    BY DEF UpTo
  <2>3. \A s : s \in UNION ToSet(groups) <=> \E j \in 1 .. n : s \in groups[j]
    <3>1. ToSet(groups) = {groups[j] : j \in 1 .. n}
      BY <1>1 DEF ToSet
    <3> QED BY <3>1
  <2>4. \A s : (\E j \in 1 .. n + 1 : s \in more[j]) <=> s \in new \/ \E j \in 1 .. n : s \in groups[j]
    BY <2>1, <1>1
  <2> QED BY <2>2, <2>3, <2>4
<1>7. ASSUME NEW i \in 1 .. n + 1
      PROVE  /\ more[i] # {}
             /\ \A s \in more[i] : Dependencies[s] \subseteq UpTo(more, i)
             /\ \A s, u \in more[i] : Reaches(s, u)
  <2>1. CASE i = n + 1
    BY <2>1, <1>1, <1>6
  <2>2. CASE i # n + 1
    BY <2>2, <1>1, <1>3, <1>5 DEF GroupsRight
  <2> QED BY <2>1, <2>2
<1>8. GroupsRight(more)
  BY <1>1, <1>4, <1>7 DEF GroupsRight
<1> QED BY <1>8 DEF more

(* r is t after v returned: above is what left the stack with it. *)
WithoutCall(t, v, r, above) ==
    /\ r \in Walk
    /\ r.index = t.index /\ r.next = t.next /\ r.seen = t.seen
    /\ r.calls = Front(t.calls) /\ Called(r) = Called(t) \ {v}
    /\ OnStack(r) = OnStack(t) \ above /\ Ascending(t.index, r.stack)
    /\ Grouped(r) = Grouped(t) \cup above
    /\ r.groups = IF above = {} THEN t.groups ELSE Append(t.groups, above)
    /\ Called(r) = {} => r.low = t.low
    /\ \A s \in Datatypes : \/ r.low[s] = t.low[s]
                            \/ s \in Called(r) /\ r.low[s] = t.low[v]
    /\ \A s \in Called(r) : (\A h \in Called(r) : t.index[h] <= t.index[s]) => r.low[s] <= t.low[v]
    /\ \A s \in Datatypes : r.low[s] <= t.low[s]

(* Left, field by field: v and what was met after it leave the stack.        *)
LEMMA LeftFields ==
    ASSUME NEW t \in Walk, Ascending(t.index, t.stack), NEW v \in OnStack(t), NEW u, u = Left(t, v)
    PROVE  /\ u \in Walk /\ u.index = t.index /\ u.low = t.low /\ u.seen = t.seen /\ u.next = t.next
           /\ u.calls = t.calls /\ u.stack \in Seq(Datatypes) /\ Ascending(t.index, u.stack)
           /\ OnStack(u) = OnStack(t) \ Above(t, v) /\ u.groups = Append(t.groups, Above(t, v))
           /\ Above(t, v) \in SUBSET Datatypes
<1> DEFINE first == CHOOSE i \in DOMAIN t.stack : t.stack[i] = v
           q == t.stack
           before == SubSeq(q, 1, first - 1)
           top == SubSeq(q, first, Len(q))
<1>1. /\ t.index \in [Datatypes -> Nat] /\ q \in Seq(Datatypes) /\ t.groups \in Seq(SUBSET Datatypes)
      /\ OnStack(t) \subseteq Datatypes
  BY WalkFields
<1>2. first \in 1 .. Len(q) /\ q[first] = v
  <2>1. \E i \in DOMAIN t.stack : t.stack[i] = v
    BY DEF OnStack, ToSet
  <2>2. first \in DOMAIN t.stack /\ t.stack[first] = v
    BY <2>1
  <2> QED BY <2>2, <1>1
<1>3. u = [t EXCEPT !.stack = before, !.groups = Append(t.groups, ToSet(top))]
  BY DEF Left
<1> HIDE DEF first
<1>4. /\ before \in Seq(Datatypes) /\ Ascending(t.index, before)
      /\ ToSet(before) = {s \in ToSet(q) : t.index[s] < t.index[v]}
      /\ ToSet(top) = {s \in ToSet(q) : t.index[v] <= t.index[s]}
  <2> DEFINE at == t.index
  <2>1. at \in [Datatypes -> Nat] /\ q \in Seq(Datatypes) /\ v \in ToSet(q) /\ Ascending(at, q)
    BY <1>1 DEF OnStack
  <2>2. /\ SubSeq(q, 1, first - 1) \in Seq(Datatypes)
        /\ Ascending(at, SubSeq(q, 1, first - 1))
        /\ ToSet(SubSeq(q, 1, first - 1)) = {s \in ToSet(q) : at[s] < at[v]}
        /\ ToSet(SubSeq(q, first, Len(q))) = {s \in ToSet(q) : at[v] <= at[s]}
    <3> HIDE DEF q, at
    <3> QED BY <1>2, <2>1, StackFrom
  <2> QED BY <2>2
<1> HIDE DEF before, top
<1>5. ToSet(top) = Above(t, v) /\ Above(t, v) \in SUBSET Datatypes
  BY <1>1, <1>4 DEF Above, OnStack
<1>6. ToSet(before) = OnStack(t) \ Above(t, v)
  <2>1. \A s \in OnStack(t) : t.index[s] < t.index[v] <=> ~ (t.index[v] <= t.index[s])
    BY <1>1
  <2> QED BY <2>1, <1>4 DEF Above, OnStack
<1>7. u.stack = before /\ u.groups = Append(t.groups, Above(t, v))
      /\ u.index = t.index /\ u.low = t.low /\ u.seen = t.seen /\ u.next = t.next /\ u.calls = t.calls
  BY <1>3, <1>5 DEF Walk
<1>8. u \in Walk
  <2>1. Append(t.groups, ToSet(top)) \in Seq(SUBSET Datatypes)
    BY <1>1, <1>5
  <2> QED BY <1>3, <1>4, <2>1 DEF Walk
<1> QED BY <1>4, <1>5, <1>6, <1>7, <1>8 DEF OnStack

(* Returned, field by field. *)
LEMMA ReturnedFields ==
    ASSUME NEW deps, Lists(deps), NEW t, WalkInv(deps, t), t.calls # << >>, NEW v, v = Last(t.calls)
    PROVE  WithoutCall(t, v, Returned(t, v), IF t.low[v] = t.index[v] THEN Above(t, v) ELSE {})
<1> DEFINE above == IF t.low[v] = t.index[v] THEN Above(t, v) ELSE {}
           u == IF t.low[v] = t.index[v] THEN Left(t, v) ELSE t
           callers == Front(t.calls)
           p == Last(callers)
           r == Returned(t, v)
<1>1. /\ t \in Walk /\ Placed(t) /\ Numbered(t)
      /\ t.index \in [Datatypes -> Nat] /\ t.low \in [Datatypes -> Nat] /\ t.groups \in Seq(SUBSET Datatypes)
      /\ t.stack \in Seq(Datatypes)
      /\ OnStack(t) \subseteq Datatypes /\ Called(t) \subseteq Datatypes
      /\ Ascending(t.index, t.stack) /\ Ascending(t.index, t.calls) /\ Called(t) \subseteq OnStack(t)
  BY WalkFields DEF WalkInv, Placed
<1>2. v \in Called(t) /\ v \in OnStack(t) /\ v \in Datatypes
  BY UnderWay
<1>3. /\ callers \in Seq(Datatypes) /\ Called(t) = ToSet(callers) \cup {v}
      /\ \A s \in ToSet(callers) : t.index[s] < t.index[v]
      /\ callers # << >> => p \in ToSet(callers) /\ \A s \in ToSet(callers) : t.index[s] <= t.index[p]
  BY <1>1, LastCall
<1>4. ToSet(callers) = Called(t) \ {v} /\ (callers = << >> => ToSet(callers) = {})
  <2>1. v \notin ToSet(callers)
    BY <1>1, <1>2, <1>3
  <2>2. callers = << >> => ToSet(callers) = {}
    BY <1>3 DEF ToSet
  <2> QED BY <2>1, <2>2, <1>3
<1>5. /\ u \in Walk /\ u.index = t.index /\ u.low = t.low /\ u.seen = t.seen /\ u.next = t.next
      /\ Ascending(t.index, u.stack) /\ OnStack(u) = OnStack(t) \ above
      /\ u.groups = IF above = {} THEN t.groups ELSE Append(t.groups, above)
      /\ above \in SUBSET Datatypes
  <2>1. CASE t.low[v] = t.index[v]
    <3>1. u = Left(t, v) /\ above = Above(t, v)
      BY <2>1
    <3>2. v \in Above(t, v)
      BY <1>1, <1>2 DEF Above
    <3> HIDE DEF u, above
    <3> QED BY <3>1, <3>2, <1>1, <1>2, LeftFields
  <2>2. CASE t.low[v] # t.index[v]
    BY <2>2, <1>1
  <2> QED BY <2>1, <2>2
<1>6. r = IF callers = << >> THEN [u EXCEPT !.calls = callers]
          ELSE [u EXCEPT !.calls = callers, !.low[p] = Lesser(@, t.low[v])]
  BY DEF Returned
<1> HIDE DEF u, above, callers, r, p
<1>7. /\ r \in Walk /\ r.index = t.index /\ r.next = t.next /\ r.seen = t.seen /\ r.calls = callers
      /\ r.stack = u.stack /\ r.groups = u.groups
      /\ callers = << >> => r.low = t.low
      /\ callers # << >> => r.low = [t.low EXCEPT ![p] = Lesser(@, t.low[v])]
  <2>1. CASE callers = << >>
    <3>1. r = [u EXCEPT !.calls = callers]
      BY <2>1, <1>6
    <3> QED BY <2>1, <3>1, <1>3, <1>5 DEF Walk
  <2>2. CASE callers # << >>
    <3>1. p \in Datatypes
      BY <2>2, <1>1, <1>3
    <3>2. Lesser(u.low[p], t.low[v]) \in Nat
      BY <3>1, <1>1, <1>2, <1>5 DEF Lesser
    <3>3. r = [u EXCEPT !.calls = callers, !.low = [u.low EXCEPT ![p] = Lesser(u.low[p], t.low[v])]]
      BY <2>2, <1>6
    <3>4. [u.low EXCEPT ![p] = Lesser(u.low[p], t.low[v])] \in [Datatypes -> Nat]
      BY <3>2, <1>1, <1>5
    <3> QED BY <2>2, <3>3, <3>4, <1>3, <1>5 DEF Walk
  <2> QED BY <2>1, <2>2
<1>8. Called(r) = Called(t) \ {v} /\ Called(r) = ToSet(callers) /\ OnStack(r) = OnStack(t) \ above
  BY <1>4, <1>5, <1>7 DEF Called, OnStack
<1>9. Grouped(r) = Grouped(t) \cup above
  <2>1. CASE above = {}
    BY <2>1, <1>5, <1>7 DEF Grouped
  <2>2. CASE above # {}
    <3>1. ToSet(Append(t.groups, above)) = ToSet(t.groups) \cup {above}
      <4>1. t.groups \in Seq(SUBSET Datatypes) /\ above \in SUBSET Datatypes
        BY <1>1, <1>5
      <4> QED BY <4>1, GrownMembers
    <3> QED BY <2>2, <3>1, <1>5, <1>7 DEF Grouped
  <2> QED BY <2>1, <2>2
<1>10. CASE callers = << >>
  <2>1. r.low = t.low /\ Called(r) = {}
    BY <1>4, <1>7, <1>8, <1>10
  <2>2. \A s \in Datatypes : r.low[s] <= t.low[s]
    BY <2>1, <1>1
  <2> QED BY <2>1, <2>2, <1>5, <1>7, <1>8, <1>9 DEF WithoutCall, r, above, callers
<1>11. CASE callers # << >>
  <2>1. /\ p \in Called(r) /\ p \in Datatypes /\ \A s \in Called(r) : t.index[s] <= t.index[p]
        /\ Called(r) \subseteq Datatypes
    BY <1>1, <1>3, <1>8, <1>11
  <2>2. t.low[p] \in Nat /\ t.low[v] \in Nat
    BY <2>1, <1>1, <1>2
  <2>3. r.low[p] = Lesser(t.low[p], t.low[v]) /\ \A s \in Datatypes : s # p => r.low[s] = t.low[s]
    BY <2>1, <1>1, <1>7, <1>11
  <2>4. r.low[p] \in {t.low[p], t.low[v]} /\ r.low[p] <= t.low[p] /\ r.low[p] <= t.low[v]
    BY <2>2, <2>3, LesserIs
  <2>5. ASSUME NEW s \in Called(r), \A h \in Called(r) : t.index[h] <= t.index[s] PROVE r.low[s] <= t.low[v]
    <3>1. t.index[s] = t.index[p] /\ t.index[s] # 0 /\ s \in Datatypes
      <4>1. t.index[s] <= t.index[p] /\ t.index[p] <= t.index[s] /\ t.index[s] \in Nat /\ t.index[p] \in Nat
        BY <2>1, <2>5, <1>1
      <4>2. s \in OnStack(t) /\ s \in Datatypes
        BY <2>1, <1>1, <1>8
      <4> QED BY <4>1, <4>2, <1>1 DEF Placed
    <3>2. s = p
      BY <3>1, <2>1, <1>1 DEF Numbered
    <3> QED BY <3>2, <2>4
  <2>6. ASSUME NEW s \in Datatypes PROVE r.low[s] <= t.low[s]
    <3>1. t.low[s] \in Nat
      BY <1>1
    <3> QED BY <3>1, <2>3, <2>4
  <2>7. \A s \in Datatypes : \/ r.low[s] = t.low[s]
                             \/ s \in Called(r) /\ r.low[s] = t.low[v]
    BY <2>1, <2>3, <2>4
  <2>8. Called(r) # {}
    BY <2>1
  <2> QED BY <2>5, <2>6, <2>7, <2>8, <1>5, <1>7, <1>8, <1>9 DEF WithoutCall, r, above, callers
<1> QED BY <1>10, <1>11 DEF r, above

(* A return. *)
LEMMA ReturnedKeeps ==
    ASSUME NEW deps, Lists(deps), NEW t, WalkInv(deps, t), t.calls # << >>, NEW v, v = Last(t.calls),
           t.seen[v] = Len(deps[v])
    PROVE  WalkInv(deps, Returned(t, v))
<1> DEFINE r == Returned(t, v)
           above == IF t.low[v] = t.index[v] THEN Above(t, v) ELSE {}
           at == t.index
<1>1. /\ t \in Walk /\ Numbered(t) /\ Placed(t) /\ Looked(deps, t) /\ GroupsRight(t.groups)
      /\ Below(t) /\ LowsRight(t) /\ LowsBound(deps, t)
  BY DEF WalkInv
<1>2. /\ at \in [Datatypes -> Nat] /\ t.low \in [Datatypes -> Nat] /\ t.seen \in [Datatypes -> Nat]
      /\ t.groups \in Seq(SUBSET Datatypes)
      /\ OnStack(t) \subseteq Datatypes /\ Called(t) \subseteq Datatypes /\ Grouped(t) \subseteq Datatypes
      /\ Called(t) \subseteq OnStack(t)
  BY <1>1, WalkFields DEF Placed
<1>3. /\ v \in Called(t) /\ v \in OnStack(t) /\ v \in Datatypes
      /\ \A s \in Called(t) : at[s] <= at[v] /\ (s # v => at[s] < at[v])
      /\ \A s \in Called(t) : Reaches(s, v)
  BY UnderWay
<1>4. WithoutCall(t, v, r, above)
  BY ReturnedFields
<1> HIDE DEF r
<1>5. /\ r \in Walk /\ r.index = at /\ r.next = t.next /\ r.seen = t.seen
      /\ Called(r) = Called(t) \ {v}
      /\ OnStack(r) = OnStack(t) \ above /\ Grouped(r) = Grouped(t) \cup above
      /\ r.groups = IF above = {} THEN t.groups ELSE Append(t.groups, above)
  BY <1>4 DEF WithoutCall
<1>6. above \subseteq OnStack(t) /\ (above # {} => above = Above(t, v) /\ t.low[v] = at[v])
  BY DEF Above
<1>7. v \notin above => t.low[v] # at[v]
  BY <1>2, <1>3 DEF Above
<1>8. \A s \in OnStack(r) : above # {} => at[s] < at[v]
  <2> SUFFICES ASSUME NEW s \in OnStack(r), above # {} PROVE at[s] < at[v]
    OBVIOUS
  <2>1. s \in OnStack(t) /\ s \notin Above(t, v)
    BY <1>5, <1>6
  <2>2. ~ (at[v] <= at[s]) /\ at[v] \in Nat /\ at[s] \in Nat
    BY <2>1, <1>2, <1>3 DEF Above
  <2> QED BY <2>2
<1>9. \A w \in OnStack(t), s \in OnStack(r) : at[w] <= at[s] => w \in OnStack(r)
  <2> SUFFICES ASSUME NEW w \in OnStack(t), NEW s \in OnStack(r), at[w] <= at[s], w \in above PROVE FALSE
    BY <1>5
  <2>1. at[s] < at[v] /\ at[v] <= at[w]
    BY <1>6, <1>8 DEF Above
  <2>2. at[s] \in Nat /\ at[v] \in Nat /\ at[w] \in Nat
    BY <1>2, <1>3, <1>5
  <2> QED BY <2>1, <2>2
<1> HIDE DEF above
<1>10. \A s \in Called(r) : s \in OnStack(r) /\ s \in Called(t) /\ s \in Datatypes /\ at[s] < at[v]
  <2> SUFFICES ASSUME NEW s \in Called(r), s \in above PROVE FALSE
    BY <1>2, <1>3, <1>5
  <2>1. at[s] < at[v] /\ at[v] <= at[s]
    BY <1>3, <1>5, <1>6 DEF Above
  <2>2. at[s] \in Nat /\ at[v] \in Nat
    BY <1>2, <1>3, <1>5
  <2> QED BY <2>1, <2>2
<1>11. \A s \in Datatypes : at[s] \in Nat /\ t.low[s] \in Nat /\ r.low[s] \in Nat /\ r.low[s] <= t.low[s]
  BY <1>2, <1>4, <1>5, WalkFields DEF WithoutCall
<1>20. Numbered(r)
  BY <1>1, <1>5 DEF Numbered
<1>21. Placed(r)
  <2>1. Ascending(at, r.stack)
    BY <1>4 DEF WithoutCall
  <2>2. Ascending(at, r.calls)
    <3>1. r.calls = Front(t.calls) /\ Ascending(t.index, t.calls)
      BY <1>1, <1>4 DEF WithoutCall, Placed
    <3> QED BY <3>1, <1>1, LastCall
  <2>3. OnStack(r) \cap Grouped(r) = {}
    BY <1>1, <1>5 DEF Placed
  <2>4. OnStack(r) \cup Grouped(r) = OnStack(t) \cup Grouped(t)
    BY <1>5, <1>6
  <2> QED BY <2>1, <2>2, <2>3, <2>4, <1>1, <1>5, <1>10 DEF Placed
<1>22. Looked(deps, r)
  BY <1>1, <1>5 DEF Looked
<1>23. GroupsRight(r.groups)
  <2>1. CASE above = {}
    BY <2>1, <1>1, <1>5
  <2>2. CASE above # {}
    <3>1. above = Above(t, v) /\ t.low[v] = at[v]
      BY <2>2, <1>6
    <3>2. \A s \in above : Dependencies[s] \subseteq above \cup Grouped(t)
      BY <3>1, AboveMentions
    <3>3. \A s, u \in above : Reaches(s, u)
      BY <3>1, AboveReaches
    <3>4. above \in SUBSET Datatypes /\ above \cap Grouped(t) = {}
      BY <1>1, <1>2, <1>6 DEF Placed
    <3>5. GroupsRight(Append(t.groups, above))
      BY <2>2, <3>2, <3>3, <3>4, <1>1, <1>2, GroupAdded DEF Grouped
    <3> QED BY <2>2, <3>5, <1>5
  <2> QED BY <2>1, <2>2
<1>24. Below(r)
  BY <1>1, <1>5, <1>10 DEF Below
<1>25. LowsRight(r)
  <2> SUFFICES ASSUME NEW s \in OnStack(r) PROVE LowRight(r, s)
    BY DEF LowsRight
  <2>1. s \in OnStack(t) /\ s \in Datatypes /\ LowRight(t, s) /\ LowRight(t, v)
    BY <1>1, <1>2, <1>3, <1>5 DEF LowsRight
  <2>2. r.low[s] <= at[s]
    BY <2>1, <1>11 DEF LowRight
  <2>3. s \notin Called(r) => r.low[s] < at[s]
    <3> SUFFICES ASSUME s \notin Called(r) PROVE r.low[s] < at[s]
      OBVIOUS
    <3>1. r.low[s] = t.low[s]
      BY <2>1, <1>4 DEF WithoutCall
    <3>2. CASE s = v
      <4>1. t.low[v] # at[v] /\ t.low[v] <= at[v]
        BY <2>1, <3>2, <1>5, <1>7 DEF LowRight
      <4> QED BY <3>1, <3>2, <4>1, <1>3, <1>11
    <3>3. CASE s # v
      BY <2>1, <3>1, <3>3, <1>5 DEF LowRight
    <3> QED BY <3>2, <3>3
  <2>4. \E w \in OnStack(r) : at[w] = r.low[s] /\ Reaches(s, w)
    <3>1. CASE r.low[s] = t.low[s]
      <4>1. PICK w \in OnStack(t) : at[w] = t.low[s] /\ Reaches(s, w)
        BY <2>1 DEF LowRight
      <4>2. w \in OnStack(r)
        BY <2>2, <3>1, <4>1, <1>9
      <4> QED BY <3>1, <4>1, <4>2
    <3>2. CASE r.low[s] # t.low[s]
      <4>1. s \in Called(r) /\ r.low[s] = t.low[v]
        BY <2>1, <3>2, <1>4 DEF WithoutCall
      <4>2. PICK w \in OnStack(t) : at[w] = t.low[v] /\ Reaches(v, w)
        BY <2>1 DEF LowRight
      <4>3. w \in OnStack(r)
        BY <2>2, <4>1, <4>2, <1>9
      <4>4. Reaches(s, w)
        BY <4>1, <4>2, <1>3, <1>10, ReachesOn
      <4> QED BY <4>1, <4>2, <4>3, <4>4
    <3> QED BY <3>1, <3>2
  <2> QED BY <2>2, <2>3, <2>4, <1>5 DEF LowRight
<1>26. LowsBound(deps, r)
  <2> SUFFICES ASSUME NEW s \in Called(r), NEW z \in OnStack(r), Owns(r, s, z), NEW k \in 1 .. t.seen[z],
                      deps[z][k] \in OnStack(r)
               PROVE  r.low[s] <= at[deps[z][k]]
    BY <1>5 DEF LowsBound
  <2> DEFINE e == deps[z][k]
  <2>0. /\ e \in OnStack(t) /\ e \in Datatypes /\ s \in Datatypes /\ z \in Datatypes /\ s \in Called(t)
        /\ z \in OnStack(t)
    BY <1>2, <1>5
  <2>1. /\ t.low[s] \in Nat /\ r.low[s] \in Nat /\ r.low[s] <= t.low[s] /\ at[e] \in Nat
        /\ at[z] \in Nat /\ at[s] \in Nat /\ at[v] \in Nat /\ t.low[v] \in Nat
    BY <2>0, <1>3, <1>11
  <2>2. at[s] <= at[z] /\ \A h \in Called(r) : at[h] <= at[z] => at[h] <= at[s]
    BY <1>5 DEF Owns
  <2>3. CASE Owns(t, s, z)
    <3>1. t.low[s] <= at[e]
      BY <2>0, <2>3, <1>1 DEF LowsBound
    <3> HIDE DEF e
    <3>2. r.low[s] <= at[e]
      BY <2>1, <3>1
    <3> QED BY <3>2 DEF e
  <2>4. CASE ~ Owns(t, s, z)
    <3>1. at[v] <= at[z]
      <4>1. PICK h \in Called(t) : at[h] <= at[z] /\ ~ (at[h] <= at[s])
        BY <2>2, <2>4 DEF Owns
      <4>2. h = v
        BY <2>2, <4>1, <1>5
      <4> QED BY <4>1, <4>2
    <3>2. Owns(t, v, z)
      BY <3>1, <1>3 DEF Owns
    <3>3. t.low[v] <= at[e]
      BY <2>0, <3>2, <1>1, <1>3 DEF LowsBound
    <3>4. ASSUME NEW h \in Called(r) PROVE at[h] <= at[s]
      <4>1. at[h] < at[v] /\ at[h] \in Nat
        BY <1>10, <1>11
      <4>2. at[h] <= at[z]
        BY <2>1, <3>1, <4>1
      <4> QED BY <2>2, <4>2
    <3>5. r.low[s] <= t.low[v]
      BY <3>4, <1>4 DEF WithoutCall
    <3> HIDE DEF e
    <3>6. r.low[s] <= at[e]
      BY <2>1, <3>3, <3>5
    <3> QED BY <3>6 DEF e
  <2> QED BY <2>3, <2>4
<1> QED BY <1>5, <1>20, <1>21, <1>22, <1>23, <1>24, <1>25, <1>26 DEF r, WalkInv

(* With no call under way, the stack is empty. *)
LEMMA NothingLeft ==
    ASSUME NEW deps, NEW t, WalkInv(deps, t), t.calls = << >>
    PROVE  OnStack(t) = {}
<1>1. /\ t \in Walk /\ LowsRight(t) /\ t.index \in [Datatypes -> Nat] /\ t.low \in [Datatypes -> Nat]
      /\ OnStack(t) \subseteq Datatypes /\ Called(t) = {}
  BY WalkFields DEF WalkInv, Called, ToSet
<1> DEFINE Bad == {n \in Nat : \E s \in OnStack(t) : t.index[s] = n}
<1> SUFFICES ASSUME OnStack(t) # {} PROVE FALSE
  OBVIOUS
<1>2. PICK n \in Bad : \A m \in Bad : n <= m
  <2>1. Bad \in SUBSET Nat /\ Bad # {}
    BY <1>1
  <2> HIDE DEF Bad
  <2> QED BY <2>1, LeastNat
<1>3. PICK s \in OnStack(t) : t.index[s] = n
  BY <1>2
<1>4. PICK w \in OnStack(t) : t.index[w] = t.low[s] /\ t.low[s] < t.index[s]
  BY <1>1, <1>3 DEF LowsRight, LowRight
<1>5. t.index[w] \in Nat /\ t.index[w] < n
  BY <1>1, <1>3, <1>4
<1>6. t.index[w] \in Bad
  BY <1>5
<1> QED BY <1>2, <1>5, <1>6

(* The datatypes of a list of sorts are finitely many, and listed.           *)
LEMMA OrderType ==
    ASSUME NEW T, sortOrder \in Seq(T)
    PROVE  DatatypeOrder \in Seq(Datatypes) /\ IsFiniteSet(Datatypes)
<1> DEFINE q == DatatypeOrder
           n == Len(q)
<1>1. q \in Seq(T)
  BY ListedType DEF DatatypeOrder
<1> HIDE DEF q
<1>2. Datatypes = {q[i] : i \in 1 .. n} /\ n \in Nat /\ q = [i \in 1 .. n |-> q[i]]
  <2>1. DOMAIN q = 1 .. n /\ n \in Nat /\ q = [i \in 1 .. n |-> q[i]]
    BY <1>1
  <2> QED BY <2>1 DEF Datatypes, ToSet, q
<1>3. q \in Seq(Datatypes)
  BY <1>2
<1>4. IsFiniteSet(Datatypes)
  <2> HIDE DEF n
  <2>1. q \in Surjection(1 .. n, Datatypes)
    BY <1>2 DEF Surjection
  <2>2. IsFiniteSet(1 .. n)
    BY <1>2, FS_Interval
  <2> QED BY <2>1, <2>2, FS_Surjection
<1> QED BY <1>3, <1>4 DEF q

(* What is not met is met in the end. *)
LEMMA FirstIsNotMet ==
    ASSUME NEW T, sortOrder \in Seq(T), NEW t \in Walk, ~ AllMet(t)
    PROVE  FirstNotMet(t) \in Datatypes /\ t.index[FirstNotMet(t)] = 0
<1> DEFINE q == DatatypeOrder
           P(i) == t.index[q[i]] = 0 /\ \A j \in 1 .. (i - 1) : t.index[q[j]] # 0
           Bad == {i \in 1 .. Len(q) : t.index[q[i]] = 0}
<1>1. q \in Seq(Datatypes)
  BY OrderType
<1>2. DOMAIN q = 1 .. Len(q) /\ Len(q) \in Nat /\ \A i \in 1 .. Len(q) : q[i] \in Datatypes
  BY <1>1
<1>3. Bad # {}
  <2>1. PICK s \in Datatypes : t.index[s] = 0
    BY DEF AllMet
  <2>2. PICK i \in 1 .. Len(q) : s = q[i]
    BY <1>2 DEF Datatypes, ToSet
  <2> QED BY <2>1, <2>2
<1>4. PICK i \in Bad : \A j \in Bad : i <= j
  <2>1. Bad \in SUBSET Nat
    BY <1>2
  <2> HIDE DEF Bad
  <2> QED BY <1>3, <2>1, LeastNat
<1>5. i \in DOMAIN q /\ P(i)
  <2>1. ASSUME NEW j \in 1 .. (i - 1) PROVE t.index[q[j]] # 0
    <3>1. j \in 1 .. Len(q) /\ ~ (i <= j)
      BY <1>2, <1>4
    <3> QED BY <3>1, <1>4
  <2> QED BY <2>1, <1>2, <1>4
<1>6. FirstNotMet(t) = q[CHOOSE j \in DOMAIN q : P(j)]
  BY DEF FirstNotMet
<1>7. (CHOOSE j \in DOMAIN q : P(j)) \in DOMAIN q /\ P(CHOOSE j \in DOMAIN q : P(j))
  <2> HIDE DEF P, q
  <2> QED BY <1>5
<1> DEFINE c == CHOOSE j \in DOMAIN q : P(j)
<1>8. c \in DOMAIN q /\ t.index[q[c]] = 0
  BY <1>7
<1>9. FirstNotMet(t) = q[c]
  BY <1>6
<1> HIDE DEF c, q
<1> QED BY <1>2, <1>8, <1>9

(* No loop of t is ahead of itself. *)
LEMMA LooksOnItself ==
    ASSUME NEW deps, NEW t, WalkInv(deps, t), NEW w
    PROVE  LooksOn(deps, t, t, w)
BY DEF WalkInv, LooksOn, Looked

(* The turns that begin with a call under way, as the lemmas take them. *)
LEMMA TurnCases ==
    ASSUME NEW deps, Lists(deps), NEW t, WalkInv(deps, t), t.calls # << >>, NEW v, v = Last(t.calls)
    PROVE  \/ /\ t.seen[v] < Len(deps[v])
              /\ Turn(deps, t) = LookedAt(t, v, deps[v][t.seen[v] + 1])
           \/ t.seen[v] = Len(deps[v]) /\ Turn(deps, t) = Returned(t, v)
<1>1. v \in Datatypes /\ Looked(deps, t) /\ t.seen \in [Datatypes -> Nat]
  BY UnderWay, WalkFields DEF WalkInv
<1>2. t.seen[v] <= Len(deps[v]) /\ t.seen[v] \in Nat /\ Len(deps[v]) \in Nat
  BY <1>1 DEF Looked, Lists
<1>3. CASE t.seen[v] < Len(deps[v])
  BY <1>3 DEF Turn
<1>4. CASE ~ (t.seen[v] < Len(deps[v]))
  BY <1>2, <1>4 DEF Turn
<1> QED BY <1>3, <1>4

(* Every turn keeps the invariant. *)
LEMMA TurnKeepsWalk ==
    ASSUME NEW T, sortOrder \in Seq(T), NEW deps, Lists(deps), NEW t, WalkInv(deps, t)
    PROVE  WalkInv(deps, Turn(deps, t))
<1>1. CASE t.calls = << >> /\ AllMet(t)
  BY <1>1 DEF Turn
<1>2. CASE t.calls = << >> /\ ~ AllMet(t)
  <2> DEFINE w == FirstNotMet(t)
  <2>1. w \in Datatypes /\ t.index[w] = 0
    BY <1>2, FirstIsNotMet DEF WalkInv
  <2>2. Turn(deps, t) = Entered(t, w)
    BY <1>2 DEF Turn
  <2>3. OnStack(t) = {} /\ LooksOn(deps, t, t, w)
    BY <1>2, NothingLeft, LooksOnItself
  <2>4. Called(t) = {}
    BY <1>2 DEF Called, ToSet
  <2> HIDE DEF w
  <2>5. WalkInv(deps, Entered(t, w))
    BY <2>1, <2>3, <2>4, EnteredKeeps
  <2> QED BY <2>2, <2>5
<1>3. CASE t.calls # << >>
  <2> DEFINE v == Last(t.calls)
             w == deps[v][t.seen[v] + 1]
             u == [t EXCEPT !.seen[v] = @ + 1]
  <2>1. v = Last(t.calls)
    OBVIOUS
  <2>2. \A s \in Called(t) : Reaches(s, v)
    BY <1>3, UnderWay
  <2>3. v \in Datatypes /\ t \in Walk /\ t.seen \in [Datatypes -> Nat]
    BY <1>3, UnderWay, WalkFields DEF WalkInv
  <2>4. CASE t.seen[v] = Len(deps[v]) /\ Turn(deps, t) = Returned(t, v)
    <3> HIDE DEF v
    <3>1. WalkInv(deps, Returned(t, v))
      BY <1>3, <2>1, <2>4, ReturnedKeeps
    <3> QED BY <2>4, <3>1
  <2>5. CASE t.seen[v] < Len(deps[v]) /\ Turn(deps, t) = LookedAt(t, v, w)
    <3>1. Turn(deps, t) = IF t.index[w] = 0 THEN Entered(u, w) ELSE Met(u, v, w)
      BY <2>5 DEF LookedAt
    <3>2. /\ w \in Dependencies[v] /\ w \in Datatypes
          /\ u.seen = [t.seen EXCEPT ![v] = @ + 1]
          /\ LooksOn(deps, t, u, w)
      <4>1. LooksAt(deps, t, v, u, w)
        <5> HIDE DEF v
        <5> QED BY <1>3, <2>1, <2>5, NextLook
      <4> HIDE DEF u, v, w
      <4> QED BY <4>1 DEF LooksAt
    <3>3. \A s \in Datatypes : s # v => u.seen[s] = t.seen[s]
      BY <2>3, <3>2
    <3> HIDE DEF u, w, v
    <3>4. \A s \in Called(t) : Reaches(s, w)
      BY <2>2, <2>3, <3>2, ReachesMentioned, ReachesOn
    <3>5. CASE t.index[w] = 0
      <4>1. WalkInv(deps, Entered(u, w))
        BY <1>3, <3>2, <3>4, <3>5, EnteredKeeps
      <4> QED BY <3>1, <3>5, <4>1
    <3>6. CASE t.index[w] # 0
      <4>1. WalkInv(deps, Met(u, v, w))
        BY <1>3, <2>1, <3>2, <3>3, <3>6, MetKeeps
      <4> QED BY <3>1, <3>6, <4>1
    <3> QED BY <3>5, <3>6
  <2> QED BY <1>3, <2>1, <2>4, <2>5, TurnCases
<1> QED BY <1>1, <1>2, <1>3

(* What there is to do: to enter each datatype, to look at what it mentions, *)
(* and to return.                                                           *)
Work(deps) == UNION { {s} \X (0 .. Len(deps[s]) + 1) : s \in Datatypes }
Worked(deps, t) ==
    {e \in Work(deps) : /\ t.index[e[1]] # 0
                        /\ \/ e[2] <= t.seen[e[1]]
                           \/ e[2] = Len(deps[e[1]]) + 1 /\ e[1] \notin Called(t)}

(* More is done in u than in t. *)
WorksOn(deps, t, u) == \E e \in Work(deps) : e \notin Worked(deps, t) /\ Worked(deps, t) \cup {e} \subseteq Worked(deps, u)

(* The members of Work. *)
LEMMA WorkOf ==
    ASSUME NEW deps, NEW s \in Datatypes, NEW k \in 0 .. Len(deps[s]) + 1
    PROVE  <<s, k>> \in Work(deps) /\ <<s, k>>[1] = s /\ <<s, k>>[2] = k
<1>1. <<s, k>> \in {s} \X (0 .. Len(deps[s]) + 1)
  OBVIOUS
<1> QED BY <1>1 DEF Work

LEMMA WorkIs ==
    ASSUME NEW deps, NEW e \in Work(deps)
    PROVE  e[1] \in Datatypes /\ e[2] \in 0 .. Len(deps[e[1]]) + 1
<1>1. PICK s \in Datatypes : e \in {s} \X (0 .. Len(deps[s]) + 1)
  BY DEF Work
<1> QED BY <1>1

(* A call is work. *)
LEMMA EnteredWorks ==
    ASSUME NEW deps, Lists(deps), NEW t, WalkInv(deps, t), NEW u \in Walk, u.index = t.index, u.calls = t.calls,
           u.next = t.next, \A s \in Datatypes : t.seen[s] <= u.seen[s], NEW w \in Datatypes, t.index[w] = 0
    PROVE  WorksOn(deps, t, Entered(u, w))
<1> DEFINE r == Entered(u, w)
           e == <<w, 0>>
<1>1. WithCall(u, w, r)
  BY EnteredFields
<1> HIDE DEF r
<1>2. /\ t \in Walk /\ t.index \in [Datatypes -> Nat] /\ t.seen \in [Datatypes -> Nat] /\ u.seen \in [Datatypes -> Nat]
      /\ t.next \in Nat /\ t.next # 0
  BY WalkFields DEF WalkInv, Numbered
<1>3. Called(u) = Called(t)
  BY DEF Called
<1>4. /\ r.index[w] # 0 /\ \A s \in Datatypes : s # w => r.index[s] = t.index[s]
      /\ r.seen = u.seen /\ Called(r) = Called(t) \cup {w}
  BY <1>1, <1>2, <1>3 DEF WithCall
<1>5. e \in Work(deps) /\ e[1] = w /\ e[2] = 0
  <2>1. 0 \in 0 .. Len(deps[w]) + 1
    BY DEF Lists
  <2> QED BY <2>1, WorkOf
<1> HIDE DEF e
<1>6. e \notin Worked(deps, t)
  BY <1>5 DEF Worked
<1>7. e \in Worked(deps, r)
  BY <1>2, <1>4, <1>5 DEF Worked
<1>8. ASSUME NEW d \in Worked(deps, t) PROVE d \in Worked(deps, r)
  <2>1. d \in Work(deps) /\ t.index[d[1]] # 0
    BY DEF Worked
  <2>2. d[1] \in Datatypes /\ d[2] \in Nat
    BY <2>1, WorkIs
  <2>3. d[1] # w /\ r.index[d[1]] # 0
    BY <2>1, <2>2, <1>4
  <2>4. d[2] <= t.seen[d[1]] => d[2] <= r.seen[d[1]]
    <3>1. t.seen[d[1]] <= r.seen[d[1]] /\ t.seen[d[1]] \in Nat /\ r.seen[d[1]] \in Nat
      BY <2>2, <1>2, <1>4
    <3> QED BY <2>2, <3>1
  <2>5. d[1] \notin Called(t) => d[1] \notin Called(r)
    BY <2>3, <1>4
  <2> QED BY <2>1, <2>3, <2>4, <2>5 DEF Worked
<1>9. WorksOn(deps, t, r)
  BY <1>5, <1>6, <1>7, <1>8 DEF WorksOn
<1> QED BY <1>9 DEF r

(* So is a look at a datatype that was met before. *)
LEMMA MetWorks ==
    ASSUME NEW deps, Lists(deps), NEW t, WalkInv(deps, t), NEW v \in Called(t), t.seen[v] < Len(deps[v]),
           NEW w, NEW u \in Walk, u.index = t.index, u.calls = t.calls, u.seen = [t.seen EXCEPT ![v] = @ + 1]
    PROVE  WorksOn(deps, t, Met(u, v, w))
<1> DEFINE r == Met(u, v, w)
           k == t.seen[v] + 1
           e == <<v, k>>
<1>1. r.index = t.index /\ r.calls = t.calls /\ r.seen = u.seen
  BY DEF Met, Walk
<1> HIDE DEF r
<1>2. /\ t.index \in [Datatypes -> Nat] /\ t.seen \in [Datatypes -> Nat] /\ Placed(t)
      /\ v \in Datatypes /\ v \in OnStack(t)
  BY WalkFields DEF WalkInv, Placed
<1>3. Called(r) = Called(t)
  BY <1>1 DEF Called
<1>4. /\ t.seen[v] \in Nat /\ k \in Nat /\ Len(deps[v]) \in Nat /\ k <= Len(deps[v]) /\ ~ (k <= t.seen[v])
      /\ k \in 0 .. Len(deps[v]) + 1 /\ k # Len(deps[v]) + 1
  BY <1>2 DEF Lists
<1>5. r.seen[v] = k /\ \A s \in Datatypes : s # v => r.seen[s] = t.seen[s]
  BY <1>1, <1>2
<1>6. t.index[v] # 0
  BY <1>2 DEF Placed
<1> HIDE DEF k
<1>7. e \in Work(deps) /\ e[1] = v /\ e[2] = k
  BY <1>2, <1>4, WorkOf
<1> HIDE DEF e
<1>8. e \notin Worked(deps, t)
  BY <1>4, <1>7 DEF Worked
<1>9. e \in Worked(deps, r)
  BY <1>1, <1>4, <1>5, <1>6, <1>7 DEF Worked
<1>10. ASSUME NEW d \in Worked(deps, t) PROVE d \in Worked(deps, r)
  <2>1. d \in Work(deps) /\ t.index[d[1]] # 0
    BY DEF Worked
  <2>2. d[1] \in Datatypes /\ d[2] \in Nat
    BY <2>1, WorkIs
  <2>3. d[2] <= t.seen[d[1]] => d[2] <= r.seen[d[1]]
    <3>1. CASE d[1] = v
      BY <2>2, <3>1, <1>4, <1>5 DEF k
    <3>2. CASE d[1] # v
      BY <2>2, <3>2, <1>5
    <3> QED BY <3>1, <3>2
  <2> QED BY <2>1, <2>3, <1>1, <1>3 DEF Worked
<1>11. WorksOn(deps, t, r)
  BY <1>7, <1>8, <1>9, <1>10 DEF WorksOn
<1> QED BY <1>11 DEF r

(* So is a return. *)
LEMMA ReturnedWorks ==
    ASSUME NEW deps, Lists(deps), NEW t, WalkInv(deps, t), t.calls # << >>, NEW v, v = Last(t.calls),
           t.seen[v] = Len(deps[v])
    PROVE  WorksOn(deps, t, Returned(t, v))
<1> DEFINE r == Returned(t, v)
           k == Len(deps[v]) + 1
           e == <<v, k>>
<1>1. /\ t.index \in [Datatypes -> Nat] /\ t.seen \in [Datatypes -> Nat] /\ Placed(t)
      /\ v \in Datatypes /\ v \in OnStack(t) /\ v \in Called(t)
  BY UnderWay, WalkFields DEF WalkInv
<1>2. r.index = t.index /\ r.seen = t.seen /\ Called(r) = Called(t) \ {v}
  <2>1. WithoutCall(t, v, r, IF t.low[v] = t.index[v] THEN Above(t, v) ELSE {})
    BY ReturnedFields
  <2> HIDE DEF r
  <2> QED BY <2>1 DEF WithoutCall
<1> HIDE DEF r
<1>3. /\ k \in 0 .. Len(deps[v]) + 1 /\ ~ (k <= t.seen[v])
  BY <1>1 DEF Lists
<1>4. t.index[v] # 0
  BY <1>1 DEF Placed
<1>5. e \in Work(deps) /\ e[1] = v /\ e[2] = k
  <2> HIDE DEF k
  <2> QED BY <1>1, <1>3, WorkOf
<1> HIDE DEF e
<1>6. e \notin Worked(deps, t)
  BY <1>1, <1>3, <1>5 DEF Worked
<1>7. e \in Worked(deps, r)
  BY <1>2, <1>4, <1>5 DEF Worked
<1>8. Worked(deps, t) \subseteq Worked(deps, r)
  BY <1>2 DEF Worked
<1>9. WorksOn(deps, t, r)
  BY <1>5, <1>6, <1>7, <1>8 DEF WorksOn
<1> QED BY <1>9 DEF r

(* Every turn is work, until all are met and no call is under way. *)
LEMMA TurnWorks ==
    ASSUME NEW T, sortOrder \in Seq(T), NEW deps, Lists(deps), NEW t, WalkInv(deps, t),
           ~ (t.calls = << >> /\ AllMet(t))
    PROVE  WorksOn(deps, t, Turn(deps, t))
<1>1. CASE t.calls = << >>
  <2> DEFINE w == FirstNotMet(t)
  <2>1. w \in Datatypes /\ t.index[w] = 0 /\ t \in Walk
    BY <1>1, FirstIsNotMet DEF WalkInv
  <2>2. Turn(deps, t) = Entered(t, w)
    BY <1>1 DEF Turn
  <2>3. \A s \in Datatypes : t.seen[s] <= t.seen[s]
    BY <2>1, WalkFields
  <2> HIDE DEF w
  <2>4. WorksOn(deps, t, Entered(t, w))
    BY <2>1, <2>3, EnteredWorks
  <2> QED BY <2>2, <2>4
<1>2. CASE t.calls # << >>
  <2> DEFINE v == Last(t.calls)
             w == deps[v][t.seen[v] + 1]
             u == [t EXCEPT !.seen[v] = @ + 1]
  <2>1. v = Last(t.calls)
    OBVIOUS
  <2>2. v \in Called(t) /\ v \in Datatypes /\ t.seen \in [Datatypes -> Nat]
    BY <1>2, UnderWay, WalkFields DEF WalkInv
  <2>3. CASE t.seen[v] = Len(deps[v]) /\ Turn(deps, t) = Returned(t, v)
    <3> HIDE DEF v
    <3>1. WorksOn(deps, t, Returned(t, v))
      BY <1>2, <2>1, <2>3, ReturnedWorks
    <3> QED BY <2>3, <3>1
  <2>4. CASE t.seen[v] < Len(deps[v]) /\ Turn(deps, t) = LookedAt(t, v, w)
    <3>1. Turn(deps, t) = IF t.index[w] = 0 THEN Entered(u, w) ELSE Met(u, v, w)
      BY <2>4 DEF LookedAt
    <3>2. LooksAt(deps, t, v, u, w)
      <4> HIDE DEF v
      <4> QED BY <1>2, <2>1, <2>4, NextLook
    <3> HIDE DEF u, w, v
    <3>3. /\ w \in Datatypes /\ u \in Walk /\ u.seen = [t.seen EXCEPT ![v] = @ + 1]
          /\ u.index = t.index /\ u.calls = t.calls /\ u.next = t.next
      BY <3>2 DEF LooksAt, LooksOn
    <3>4. \A s \in Datatypes : t.seen[s] <= u.seen[s]
      <4> SUFFICES ASSUME NEW s \in Datatypes PROVE t.seen[s] <= u.seen[s]
        OBVIOUS
      <4>1. t.seen[s] \in Nat /\ u.seen[s] \in {t.seen[s], t.seen[s] + 1}
        BY <2>2, <3>3
      <4> QED BY <4>1
    <3>5. CASE t.index[w] = 0
      <4>1. WorksOn(deps, t, Entered(u, w))
        BY <3>3, <3>4, <3>5, EnteredWorks
      <4> QED BY <3>1, <3>5, <4>1
    <3>6. CASE t.index[w] # 0
      <4>1. WorksOn(deps, t, Met(u, v, w))
        BY <2>2, <2>4, <3>3, MetWorks
      <4> QED BY <3>1, <3>6, <4>1
    <3> QED BY <3>5, <3>6
  <2> QED BY <1>2, <2>1, <2>3, <2>4, TurnCases
<1> QED BY <1>1, <1>2

(* The invariant holds at the start. *)
LEMMA NothingMetInv ==
    ASSUME NEW deps, Lists(deps)
    PROVE  WalkInv(deps, NothingMet)
<1> DEFINE t == NothingMet
<1>1. /\ t.index = [s \in Datatypes |-> 0] /\ t.low = [s \in Datatypes |-> 0] /\ t.seen = [s \in Datatypes |-> 0]
      /\ t.next = 1 /\ t.stack = << >> /\ t.calls = << >> /\ t.groups = << >>
  BY DEF NothingMet
<1>2. t \in Walk
  BY DEF NothingMet, Walk
<1> HIDE DEF t
<1>3. OnStack(t) = {} /\ Called(t) = {} /\ Grouped(t) = {}
  BY <1>1 DEF OnStack, Called, Grouped, ToSet
<1>4. Numbered(t)
  BY <1>1 DEF Numbered
<1>5. Placed(t)
  BY <1>1, <1>3 DEF Placed, Ascending
<1>6. Looked(deps, t)
  <2>1. \A s \in Datatypes : Len(deps[s]) \in Nat
    BY DEF Lists
  <2> QED BY <2>1, <1>1 DEF Looked
<1>7. GroupsRight(t.groups)
  BY <1>1 DEF GroupsRight
<1>8. Below(t) /\ LowsRight(t) /\ LowsBound(deps, t)
  BY <1>3 DEF Below, LowsRight, LowsBound
<1> QED BY <1>2, <1>4, <1>5, <1>6, <1>7, <1>8 DEF t, WalkInv

(* There is as much work as TurnCount says. *)
LEMMA WorkFinite ==
    ASSUME NEW T, sortOrder \in Seq(T), NEW deps, Lists(deps)
    PROVE  IsFiniteSet(Work(deps)) /\ TurnCount(deps) = Cardinality(Work(deps)) /\ TurnCount(deps) \in Nat
<1> DEFINE part == [s \in Datatypes |-> {s} \X (0 .. Len(deps[s]) + 1)]
           parts == {part[s] : s \in Datatypes}
<1>1. IsFiniteSet(parts)
  <2>1. part \in Surjection(Datatypes, parts)
    BY DEF Surjection
  <2>2. IsFiniteSet(Datatypes)
    BY OrderType
  <2> HIDE DEF part, parts
  <2> QED BY <2>1, <2>2, FS_Surjection
<1>2. \A p \in parts : IsFiniteSet(p)
  <2> SUFFICES ASSUME NEW s \in Datatypes PROVE IsFiniteSet({s} \X (0 .. Len(deps[s]) + 1))
    OBVIOUS
  <2>1. IsFiniteSet({s})
    BY FS_Singleton
  <2>2. Len(deps[s]) + 1 \in Int
    BY DEF Lists
  <2>3. IsFiniteSet(0 .. Len(deps[s]) + 1)
    BY <2>2, FS_Interval
  <2> QED BY <2>1, <2>3, FS_Product
<1>3. IsFiniteSet(UNION parts)
  <2> HIDE DEF parts
  <2> QED BY <1>1, <1>2, FS_UNION
<1>4. Work(deps) = UNION parts
  BY DEF Work
<1>5. TurnCount(deps) = Cardinality(Work(deps))
  BY DEF TurnCount, Work
<1> HIDE DEF parts
<1> QED BY <1>3, <1>4, <1>5, FS_CardinalityType

(* After that many turns, all are met and no call is under way. *)
LEMMA WalkEnds ==
    ASSUME NEW T, sortOrder \in Seq(T), NEW deps, Lists(deps)
    PROVE  \E t : WalkInv(deps, t) /\ t.calls = << >> /\ AllMet(t) /\ Groups(deps) = t.groups
<1> DEFINE n == TurnCount(deps)
           Z == [k \in 0 .. n |-> {t \in Walk : WalkInv(deps, t)}]
           go == [p \in (1 .. n) \X Walk |-> Turn(deps, p[2])]
           P(q) == q = [k \in 0 .. n |-> IF k = 0 THEN NothingMet ELSE Turn(deps, q[k - 1])]
           walk == CHOOSE q : P(q)
<1>1. n \in Nat /\ n = Cardinality(Work(deps)) /\ IsFiniteSet(Work(deps))
  BY WorkFinite
<1>2. Groups(deps) = walk[n].groups
  BY DEF Groups
<1> HIDE DEF n
<1>3. \A t \in Walk : WalkInv(deps, t) => Turn(deps, t) \in Walk /\ WalkInv(deps, Turn(deps, t))
  BY TurnKeepsWalk DEF WalkInv
<1>4. NothingMet \in Walk /\ WalkInv(deps, NothingMet)
  BY NothingMetInv DEF WalkInv
<1>5. \A k \in 0 .. n : Z[k] = {t \in Walk : WalkInv(deps, t)}
  OBVIOUS
<1>6. \A k \in 1 .. n : \A d \in Walk : go[<<k, d>>] = Turn(deps, d)
  OBVIOUS
<1> HIDE DEF Z, go
<1>7. Leads(go, n, Z)
  <2> SUFFICES ASSUME NEW k \in 1 .. n, NEW d \in Z[k - 1] PROVE go[<<k, d>>] \in Z[k]
    BY DEF Leads
  <2>1. k - 1 \in 0 .. n /\ k \in 0 .. n
    BY <1>1
  <2>2. d \in Walk /\ WalkInv(deps, d)
    BY <2>1, <1>5
  <2> QED BY <2>1, <2>2, <1>3, <1>5, <1>6
<1>8. NothingMet \in Z[0]
  BY <1>1, <1>4, <1>5
<1>9. PICK h : Turns(h, n, NothingMet, go) /\ Throughout(h, n, Z)
  BY <1>1, <1>7, <1>8, TurnsExist
<1>10. \E q : P(q)
  <2> DEFINE q == [k \in 0 .. n |-> h[k]]
  <2>1. ASSUME NEW k \in 0 .. n PROVE q[k] = IF k = 0 THEN NothingMet ELSE Turn(deps, q[k - 1])
    <3>1. q[k] = h[k]
      OBVIOUS
    <3>2. CASE k = 0
      BY <3>1, <3>2, <1>9 DEF Turns
    <3>3. CASE k # 0
      <4>1. k \in 1 .. n /\ k - 1 \in 0 .. n
        BY <3>3, <1>1
      <4>2. q[k - 1] = h[k - 1]
        BY <4>1
      <4>3. h[k - 1] \in Walk
        BY <4>1, <1>5, <1>9 DEF Throughout
      <4>4. h[k] = Turn(deps, h[k - 1])
        BY <4>1, <4>3, <1>6, <1>9 DEF Turns
      <4> QED BY <3>1, <3>3, <4>2, <4>4
    <3> QED BY <3>2, <3>3
  <2>2. q = [k \in 0 .. n |-> q[k]]
    OBVIOUS
  <2> HIDE DEF q
  <2>3. P(q)
    BY <2>1, <2>2
  <2> QED BY <2>3
<1>11. P(walk)
  <2> HIDE DEF P
  <2> QED BY <1>10
<1> HIDE DEF walk
<1>12. walk[0] = NothingMet /\ \A k \in 1 .. n : walk[k] = Turn(deps, walk[k - 1])
  <2>1. \A k \in 0 .. n : walk[k] = IF k = 0 THEN NothingMet ELSE Turn(deps, walk[k - 1])
    BY <1>11
  <2>2. 0 \in 0 .. n /\ \A k \in 1 .. n : k \in 0 .. n /\ k # 0
    BY <1>1
  <2> QED BY <2>1, <2>2
<1> HIDE DEF P
<1> DEFINE Over(t) == t.calls = << >> /\ AllMet(t)
           Good == {k \in 0 .. n : /\ WalkInv(deps, walk[k])
                                   /\ Over(walk[k]) \/ k <= Cardinality(Worked(deps, walk[k]))}
<1>13. \A t : IsFiniteSet(Worked(deps, t)) /\ Cardinality(Worked(deps, t)) \in Nat
  <2> SUFFICES ASSUME NEW t PROVE IsFiniteSet(Worked(deps, t)) /\ Cardinality(Worked(deps, t)) \in Nat
    OBVIOUS
  <2>1. Worked(deps, t) \in SUBSET Work(deps)
    BY DEF Worked
  <2>2. IsFiniteSet(Worked(deps, t))
    BY <2>1, <1>1, FS_Subset
  <2> QED BY <2>2, FS_CardinalityType
<1>14. 0 \in Good
  BY <1>1, <1>4, <1>12, <1>13
<1>15. ASSUME NEW k \in 1 .. n, k - 1 \in Good PROVE k \in Good
  <2> DEFINE t == walk[k - 1]
             u == walk[k]
  <2>1. k \in Nat /\ k - 1 \in 0 .. n /\ k \in 0 .. n /\ WalkInv(deps, t) /\ u = Turn(deps, t)
    BY <1>1, <1>12, <1>15
  <2>2. WalkInv(deps, u)
    BY <2>1, TurnKeepsWalk
  <2>3. CASE Over(t)
    <3>1. u = t
      BY <2>1, <2>3 DEF Turn
    <3> QED BY <2>1, <2>2, <2>3, <3>1
  <2>4. CASE ~ Over(t)
    <3>1. k - 1 <= Cardinality(Worked(deps, t))
      BY <2>4, <1>15
    <3>2. WorksOn(deps, t, Turn(deps, t))
      BY <2>1, <2>4, TurnWorks
    <3> HIDE DEF t, u
    <3>3. PICK e \in Work(deps) : e \notin Worked(deps, t) /\ Worked(deps, t) \cup {e} \subseteq Worked(deps, u)
      BY <2>1, <3>2 DEF WorksOn
    <3>4. /\ IsFiniteSet(Worked(deps, t) \cup {e})
          /\ Cardinality(Worked(deps, t) \cup {e}) = Cardinality(Worked(deps, t)) + 1
      BY <3>3, <1>13, FS_AddElement
    <3>5. Cardinality(Worked(deps, t) \cup {e}) <= Cardinality(Worked(deps, u))
      BY <3>3, <1>13, FS_Subset
    <3>6. k <= Cardinality(Worked(deps, u))
      <4> DEFINE a == Cardinality(Worked(deps, t))
                 b == Cardinality(Worked(deps, u))
      <4>1. a \in Nat /\ b \in Nat /\ k \in Nat /\ k - 1 <= a /\ a + 1 <= b
        BY <2>1, <3>1, <3>4, <3>5, <1>13
      <4> HIDE DEF a, b
      <4>2. k <= b
        BY <4>1
      <4> QED BY <4>2 DEF b
    <3> QED BY <2>1, <2>2, <3>6 DEF u
  <2> QED BY <2>3, <2>4
<1>16. n \in Good
  <2> HIDE DEF Good
  <2>1. \A k \in 0 .. n : k \in Good
    BY <1>1, <1>14, <1>15, CountUp
  <2> QED BY <2>1, <1>1
<1>17. Over(walk[n])
  <2> SUFFICES ASSUME ~ Over(walk[n]) PROVE FALSE
    OBVIOUS
  <2>1. WalkInv(deps, walk[n]) /\ n <= Cardinality(Worked(deps, walk[n]))
    BY <1>16
  <2>2. Worked(deps, walk[n]) \in SUBSET Work(deps)
    BY DEF Worked
  <2>3. Cardinality(Worked(deps, walk[n])) <= n
    BY <2>2, <1>1, FS_Subset
  <2>4. Cardinality(Worked(deps, walk[n])) = Cardinality(Work(deps))
    BY <2>1, <2>3, <1>1, <1>13
  <2>5. Worked(deps, walk[n]) = Work(deps)
    BY <2>2, <2>4, <1>1, FS_Subset
  <2>6. WorksOn(deps, walk[n], Turn(deps, walk[n]))
    BY <2>1, TurnWorks
  <2> QED BY <2>5, <2>6 DEF WorksOn
<1> QED BY <1>2, <1>16, <1>17

(* The groups of a walk that has ended. *)
LEMMA GroupsAreClasses ==
    ASSUME NEW deps, NEW t, WalkInv(deps, t), t.calls = << >>, AllMet(t)
    PROVE  /\ UNION ToSet(t.groups) = Datatypes
           /\ \A i, j \in DOMAIN t.groups : i # j => t.groups[i] \cap t.groups[j] = {}
           /\ \A i \in DOMAIN t.groups :
                 /\ t.groups[i] # {}
                 /\ \A s \in t.groups[i] :
                       /\ t.groups[i] = { u \in Datatypes : Reaches(s, u) /\ Reaches(u, s) }
                       /\ Dependencies[s] \subseteq UNION { t.groups[j] : j \in 1 .. i }
<1> DEFINE groups == t.groups
<1>1. t \in Walk /\ Placed(t) /\ GroupsRight(groups) /\ groups \in Seq(SUBSET Datatypes)
  BY WalkFields DEF WalkInv
<1>2. UNION ToSet(groups) = Datatypes
  <2>1. OnStack(t) = {} /\ Grouped(t) \subseteq Datatypes
    BY <1>1, NothingLeft, WalkFields
  <2>2. \A s \in Datatypes : s \in Grouped(t)
    BY <2>1, <1>1 DEF AllMet, Placed
  <2> QED BY <2>1, <2>2 DEF Grouped
<1> HIDE DEF groups
<1>3. DOMAIN groups = 1 .. Len(groups) /\ Len(groups) \in Nat
  BY <1>1
<1>4. \A i \in DOMAIN groups : groups[i] \subseteq Datatypes
  BY <1>1
<1>5. \A s \in Datatypes : \E i \in DOMAIN groups : s \in groups[i]
  BY <1>2 DEF ToSet
<1>6. ASSUME NEW i \in DOMAIN groups, NEW s \in groups[i], NEW u \in Datatypes, Reaches(s, u)
      PROVE  u \in UpTo(groups, i)
  <2>1. \A j \in 1 .. i : j \in DOMAIN groups
    BY <1>3
  <2>2. UpTo(groups, i) \in SUBSET Datatypes
    BY <2>1, <1>4 DEF UpTo
  <2>3. s \in UpTo(groups, i)
    <3>1. i \in 1 .. i
      BY <1>3
    <3> QED BY <3>1 DEF UpTo
  <2>4. ASSUME NEW w \in UpTo(groups, i) PROVE Dependencies[w] \subseteq UpTo(groups, i)
    <3>1. PICK j \in 1 .. i : w \in groups[j]
      BY DEF UpTo
    <3>2. Dependencies[w] \subseteq UpTo(groups, j)
      BY <2>1, <3>1, <1>1 DEF GroupsRight
    <3>3. \A k \in 1 .. j : k \in 1 .. i
      BY <1>3
    <3> QED BY <3>2, <3>3 DEF UpTo
  <2> QED BY <1>6, <2>2, <2>3, <2>4 DEF Reaches
<1>7. ASSUME NEW i \in DOMAIN groups, NEW s \in groups[i]
      PROVE  groups[i] = { u \in Datatypes : Reaches(s, u) /\ Reaches(u, s) }
  <2>1. \A u \in groups[i] : u \in Datatypes /\ Reaches(s, u) /\ Reaches(u, s)
    BY <1>1, <1>4 DEF GroupsRight
  <2>2. ASSUME NEW u \in Datatypes, Reaches(s, u), Reaches(u, s) PROVE u \in groups[i]
    <3>1. PICK j \in 1 .. i : u \in groups[j]
      BY <2>2, <1>6 DEF UpTo
    <3>2. j \in DOMAIN groups /\ s \in Datatypes
      BY <1>3, <1>4
    <3>3. PICK k \in 1 .. j : s \in groups[k]
      BY <2>2, <3>1, <3>2, <1>6 DEF UpTo
    <3>4. k \in DOMAIN groups
      BY <3>2, <1>3
    <3>5. k = i
      BY <3>3, <3>4, <1>1 DEF GroupsRight
    <3>6. j = i
      BY <3>3, <3>5, <1>3
    <3> QED BY <3>1, <3>6
  <2> QED BY <2>1, <2>2
<1> QED BY <1>1, <1>2, <1>7 DEF groups, GroupsRight, UpTo

(* The orders of a dump list what each datatype mentions. *)
LEMMA OrdersList ==
    ASSUME NEW T, sortOrder \in Seq(T), NEW deps \in DependencyOrders
    PROVE  Lists(deps)
<1> SUFFICES ASSUME NEW s \in Datatypes PROVE deps[s] \in Seq(Datatypes) /\ ToSet(deps[s]) = Dependencies[s]
  BY DEF Lists
<1> DEFINE E1 == Dependencies[s]
           q == deps[s]
           c == Cardinality(E1)
<1>1. q \in SetToSeqs(E1)
  BY DEF DependencyOrders
<1>2. E1 \in SUBSET Datatypes
  BY DEF Dependencies
<1>3. IsFiniteSet(E1) /\ c \in Nat
  <2>1. IsFiniteSet(Datatypes)
    BY OrderType
  <2> HIDE DEF E1
  <2>2. IsFiniteSet(E1)
    BY <2>1, <1>2, FS_Subset
  <2> QED BY <2>2, FS_CardinalityType
<1> HIDE DEF E1, q
<1>4. q \in [1 .. c -> E1] /\ \A i, j \in 1 .. c : i # j => q[i] # q[j]
  BY <1>1 DEF SetToSeqs
<1> HIDE DEF c
<1>5. q \in Injection(1 .. c, E1)
  BY <1>4 DEF Injection, IsInjective
<1>6. Cardinality(1 .. c) = c
  BY <1>3, FS_Interval
<1>7. q \in Surjection(1 .. c, E1)
  BY <1>3, <1>5, <1>6, FS_Injection DEF c
<1>8. ToSet(q) = E1
  BY <1>4, <1>7 DEF ToSet, Surjection
<1>9. q \in Seq(Datatypes)
  BY <1>2, <1>3, <1>4
<1> QED BY <1>8, <1>9 DEF q, E1

(* In any state whose order of sorts is a list. *)
LEMMA GroupsOfState ==
    ASSUME NEW T, sortOrder \in Seq(T)
    PROVE  OneCommandPerGroup
<1> SUFFICES ASSUME NEW deps \in DependencyOrders
             PROVE  LET groups == Groups(deps)
                    IN  /\ UNION ToSet(groups) = Datatypes
                        /\ \A i, j \in DOMAIN groups : i # j => groups[i] \cap groups[j] = {}
                        /\ \A i \in DOMAIN groups :
                              /\ groups[i] # {}
                              /\ \A s \in groups[i] :
                                    /\ groups[i] = { t \in Datatypes : Reaches(s, t) /\ Reaches(t, s) }
                                    /\ Dependencies[s] \subseteq UNION { groups[j] : j \in 1 .. i }
  BY DEF OneCommandPerGroup
<1>1. Lists(deps)
  BY OrdersList
<1>2. PICK t : WalkInv(deps, t) /\ t.calls = << >> /\ AllMet(t) /\ Groups(deps) = t.groups
  BY <1>1, WalkEnds
<1> HIDE DEF Groups
<1> QED BY <1>2, GroupsAreClasses
-----------------------------------------------------------------------------
(* Commands *)

(* Every turn of n stays in S1, as h says; r is such a loop. *)
StaysIn(h, n, S1) == \A k \in 1 .. n : \A d \in S1 : h[<<k, d>>] \in S1
Runs(r, n, base, h, S1) == r[0] = base /\ \A k \in 1 .. n : r[k - 1] \in S1 /\ r[k] = h[<<k, r[k - 1]>>]

(* There is such a loop. *)
LEMMA LoopRuns ==
    ASSUME NEW n \in Nat, NEW S1, NEW base \in S1, NEW h, StaysIn(h, n, S1)
    PROVE  \E r : Runs(r, n, base, h, S1)
<1> DEFINE Z == [k \in 0 .. n |-> S1]
<1>1. \A k \in 0 .. n : Z[k] = S1
  OBVIOUS
<1>2. 0 \in 0 .. n /\ \A k \in 1 .. n : k \in 0 .. n /\ k - 1 \in 0 .. n
  OBVIOUS
<1> HIDE DEF Z
<1>3. base \in Z[0] /\ Leads(h, n, Z)
  BY <1>1, <1>2 DEF Leads, StaysIn
<1>4. PICK r : Turns(r, n, base, h) /\ Throughout(r, n, Z)
  BY <1>3, TurnsExist
<1>5. \A k \in 0 .. n : r[k] \in S1
  BY <1>1, <1>4 DEF Throughout
<1>6. r[0] = base /\ \A k \in 1 .. n : r[k] = h[<<k, r[k - 1]>>]
  BY <1>4 DEF Turns
<1> QED BY <1>2, <1>5, <1>6 DEF Runs

(* A loop stays where every turn stays. *)
LEMMA LoopStays ==
    ASSUME NEW n \in Nat, NEW S1, NEW h, h[0] \in S1, \A k \in 1 .. n : h[k - 1] \in S1 => h[k] \in S1
    PROVE  \A k \in 0 .. n : h[k] \in S1
<1> DEFINE Good == {k \in 0 .. n : h[k] \in S1}
<1>1. 0 \in Good /\ \A k \in 1 .. n : k - 1 \in Good => k \in Good
  OBVIOUS
<1> HIDE DEF Good
<1>2. \A k \in 0 .. n : k \in Good
  BY <1>1, CountUp
<1> QED BY <1>2 DEF Good

(* What a declare-datatypes fills, with the types of the tables; what is in  *)
(* a table is in its list.                                                   *)
TablesType ==
    [sorts : SortTable, order : Seq(SortName), scoped : SUBSET SortName, constructors : [SortName -> Seq(Constructor)],
     params : [SortName -> Seq(SortName)], funs : FunTable, names : Seq(FunName),
     mentions : [FunName -> SUBSET Name], failed : BOOLEAN]
TablesRight == { t \in TablesType : InList(t.sorts, SortName, t.order) /\ InList(t.funs, FunName, t.names) }

(* TablesRight, field by field. *)
RightFields(t) ==
    /\ t.sorts \in SortTable /\ t.order \in Seq(SortName) /\ t.scoped \in SUBSET SortName
    /\ t.constructors \in [SortName -> Seq(Constructor)] /\ t.params \in [SortName -> Seq(SortName)]
    /\ t.funs \in FunTable /\ t.names \in Seq(FunName) /\ t.mentions \in [FunName -> SUBSET Name]
    /\ t.failed \in BOOLEAN
    /\ InList(t.sorts, SortName, t.order) /\ InList(t.funs, FunName, t.names)

(* TablesRight gives the fields their types. *)
LEMMA RightIsFields == \A t : t \in TablesRight => t \in TablesType /\ RightFields(t)
<1> SUFFICES ASSUME NEW t \in TablesRight PROVE t \in TablesType /\ RightFields(t)
  OBVIOUS
<1>1. t \in TablesType /\ InList(t.sorts, SortName, t.order) /\ InList(t.funs, FunName, t.names)
  BY DEF TablesRight
<1> HIDE DEF SortTable, FunTable, Constructor
<1> QED BY <1>1 DEF TablesType, RightFields

(* A record of tables is in TablesType when its fields have the types. *)
LEMMA TablesAreTyped ==
    ASSUME NEW so \in SortTable, NEW o \in Seq(SortName), NEW sc \in SUBSET SortName,
           NEW cs \in [SortName -> Seq(Constructor)], NEW p \in [SortName -> Seq(SortName)], NEW fu \in FunTable,
           NEW n \in Seq(FunName), NEW m \in [FunName -> SUBSET Name], NEW b \in BOOLEAN,
           InList(so, SortName, o), InList(fu, FunName, n)
    PROVE  [sorts |-> so, order |-> o, scoped |-> sc, constructors |-> cs, params |-> p, funs |-> fu, names |-> n,
            mentions |-> m, failed |-> b] \in TablesRight
BY DEF TablesRight, TablesType

(* registerSort of one sort. *)
LEMMA WithSortRight ==
    ASSUME NEW t \in TablesRight, NEW s \in SortName, NEW kind \in SortKind
    PROVE  WithSort(t, s, kind) \in TablesRight
<1> DEFINE r == WithSort(t, s, kind)
           o == OrderWith(t.order, t.sorts, s)
<1>1. t \in TablesType /\ RightFields(t)
  BY RightIsFields
<1>2. o \in Seq(SortName) /\ ToSet(t.order) \cup {s} \subseteq ToSet(o)
  <2>1. CASE t.sorts[s] = Absent
    BY <1>1, <2>1, GrownMembers DEF OrderWith, RightFields
  <2>2. CASE t.sorts[s] # Absent
    BY <1>1, <2>2 DEF OrderWith, RightFields, InList
  <2> QED BY <2>1, <2>2
<1> HIDE DEF o
<1>3. r = [t EXCEPT !.order = o, !.sorts = [t.sorts EXCEPT ![s] = kind], !.scoped = t.scoped \cup {s}]
  BY <1>1 DEF WithSort, o, TablesType
<1>4. [t.sorts EXCEPT ![s] = kind] \in SortTable
  BY <1>1 DEF RightFields, SortTable
<1>5. InList([t.sorts EXCEPT ![s] = kind], SortName, o)
  BY <1>1, <1>2 DEF RightFields, InList, SortTable
<1> HIDE DEF r
<1>6. r \in TablesType
  <2> HIDE DEF SortTable, FunTable, Constructor, Name
  <2> QED BY <1>1, <1>2, <1>3, <1>4 DEF TablesType
<1>7. /\ r.order = o /\ r.sorts = [t.sorts EXCEPT ![s] = kind]
      /\ r.funs = t.funs /\ r.names = t.names
  BY <1>1, <1>3 DEF TablesType
<1>8. InList(r.sorts, SortName, r.order) /\ InList(r.funs, FunName, r.names)
  BY <1>1, <1>5, <1>7 DEF RightFields
<1> QED BY <1>6, <1>8 DEF r, TablesRight

(* WithSorts, sort by sort. *)
LEMMA WithSortsRight ==
    ASSUME NEW t \in TablesRight, NEW ss \in Seq(SortName), NEW kind \in SortKind
    PROVE  WithSorts(t, ss, kind) \in TablesRight
<1> DEFINE n == Len(ss)
           P(q) == q = [k \in 0 .. n |-> IF k = 0 THEN t ELSE WithSort(q[k - 1], ss[k], kind)]
           go == [p \in (1 .. n) \X TablesRight |-> WithSort(p[2], ss[p[1]], kind)]
           h == CHOOSE q : P(q)
<1>1. n \in Nat /\ \A k \in 1 .. n : ss[k] \in SortName /\ k \in 0 .. n /\ k - 1 \in 0 .. n /\ k # 0
  OBVIOUS
<1>2. WithSorts(t, ss, kind) = h[n]
  BY DEF WithSorts
<1> HIDE DEF n
<1>3. \A k \in 1 .. n : \A d \in TablesRight : go[<<k, d>>] = WithSort(d, ss[k], kind) /\ go[<<k, d>>] \in TablesRight
  BY <1>1, WithSortRight
<1> HIDE DEF go
<1>4. PICK r : Runs(r, n, t, go, TablesRight)
  <2>1. StaysIn(go, n, TablesRight)
    BY <1>3 DEF StaysIn
  <2> QED BY <1>1, <2>1, LoopRuns
<1>5. P([k \in 0 .. n |-> r[k]])
  <2>1. \A k \in 1 .. n : r[k] = WithSort(r[k - 1], ss[k], kind)
    BY <1>3, <1>4 DEF Runs
  <2>2. r[0] = t /\ \A k \in 0 .. n : k # 0 => k \in 1 .. n
    BY <1>1, <1>4 DEF Runs
  <2> QED BY <1>1, <2>1, <2>2
<1>6. P(h)
  <2> HIDE DEF P
  <2> QED BY <1>5
<1> HIDE DEF h
<1>7. h[0] = t /\ \A k \in 1 .. n : h[k] = WithSort(h[k - 1], ss[k], kind)
  <2>1. 0 \in 0 .. n
    BY <1>1
  <2> QED BY <1>1, <1>6, <2>1
<1>8. \A k \in 0 .. n : h[k] \in TablesRight
  BY <1>1, <1>7, WithSortRight, LoopStays
<1> QED BY <1>1, <1>2, <1>8

(* mkFuncDec of one member. *)
LEMMA WithMemberRight ==
    ASSUME NEW t \in TablesRight, NEW s \in FunName, NEW uses \in SUBSET Name
    PROVE  WithMember(t, s, uses) \in TablesRight
<1> DEFINE r == WithMember(t, s, uses)
           fu == [t.funs EXCEPT ![s] = "dec"]
           names == Append(t.names, s)
           m == [t.mentions EXCEPT ![s] = uses]
<1>1. t \in TablesType /\ RightFields(t)
  BY RightIsFields
<1>2. CASE t.failed \/ Found(t.funs, s)
  <2>1. r = [t EXCEPT !.failed = TRUE]
    BY <1>2 DEF WithMember
  <2>2. r \in TablesType
    <3> HIDE DEF SortTable, FunTable, Constructor, Name
    <3> QED BY <1>1, <2>1 DEF TablesType
  <2>3. r.sorts = t.sorts /\ r.order = t.order /\ r.funs = t.funs /\ r.names = t.names
    BY <1>1, <2>1 DEF TablesType
  <2> HIDE DEF r
  <2> QED BY <1>1, <2>2, <2>3 DEF r, TablesRight, RightFields
<1>3. CASE ~ (t.failed \/ Found(t.funs, s))
  <2>1. r = [t EXCEPT !.funs = fu, !.names = names, !.mentions = m]
    BY <1>1, <1>3 DEF WithMember, TablesType
  <2>2. names \in Seq(FunName) /\ ToSet(names) = ToSet(t.names) \cup {s}
    BY <1>1, GrownMembers DEF RightFields
  <2>3. fu \in FunTable /\ InList(fu, FunName, names)
    BY <1>1, <2>2 DEF RightFields, FunTable, FunKind, InList
  <2>4. m \in [FunName -> SUBSET Name]
    BY <1>1 DEF RightFields
  <2> HIDE DEF r, fu, names, m
  <2>5. r \in TablesType
    <3> HIDE DEF SortTable, FunTable, Constructor, Name
    <3> QED BY <1>1, <2>1, <2>2, <2>3, <2>4 DEF TablesType
  <2>6. r.sorts = t.sorts /\ r.order = t.order /\ r.funs = fu /\ r.names = names
    BY <1>1, <2>1 DEF TablesType
  <2> QED BY <1>1, <2>3, <2>5, <2>6 DEF r, TablesRight, RightFields
<1> QED BY <1>2, <1>3

(* WithMembers, member by member. *)
LEMMA WithMembersRight ==
    ASSUME NEW t \in TablesRight, NEW fs \in Seq(FunName), NEW uses \in SUBSET Name
    PROVE  WithMembers(t, fs, uses) \in TablesRight
<1> DEFINE n == Len(fs)
           P(q) == q = [k \in 0 .. n |-> IF k = 0 THEN t ELSE WithMember(q[k - 1], fs[k], uses)]
           go == [p \in (1 .. n) \X TablesRight |-> WithMember(p[2], fs[p[1]], uses)]
           h == CHOOSE q : P(q)
<1>1. n \in Nat /\ \A k \in 1 .. n : fs[k] \in FunName /\ k \in 0 .. n /\ k - 1 \in 0 .. n /\ k # 0
  OBVIOUS
<1>2. WithMembers(t, fs, uses) = h[n]
  BY DEF WithMembers
<1> HIDE DEF n
<1>3. \A k \in 1 .. n : \A d \in TablesRight : go[<<k, d>>] = WithMember(d, fs[k], uses) /\ go[<<k, d>>] \in TablesRight
  BY <1>1, WithMemberRight
<1> HIDE DEF go
<1>4. PICK r : Runs(r, n, t, go, TablesRight)
  <2>1. StaysIn(go, n, TablesRight)
    BY <1>3 DEF StaysIn
  <2> QED BY <1>1, <2>1, LoopRuns
<1>5. P([k \in 0 .. n |-> r[k]])
  <2>1. \A k \in 1 .. n : r[k] = WithMember(r[k - 1], fs[k], uses)
    BY <1>3, <1>4 DEF Runs
  <2>2. r[0] = t /\ \A k \in 0 .. n : k # 0 => k \in 1 .. n
    BY <1>1, <1>4 DEF Runs
  <2> QED BY <1>1, <2>1, <2>2
<1>6. P(h)
  <2> HIDE DEF P
  <2> QED BY <1>5
<1> HIDE DEF h
<1>7. h[0] = t /\ \A k \in 1 .. n : h[k] = WithMember(h[k - 1], fs[k], uses)
  <2>1. 0 \in 0 .. n
    BY <1>1
  <2> QED BY <1>1, <1>6, <2>1
<1>8. \A k \in 0 .. n : h[k] \in TablesRight
  BY <1>1, <1>7, WithMemberRight, LoopStays
<1> QED BY <1>1, <1>2, <1>8

(* A list of lists, one after the other. *)
LEMMA FlattenType ==
    ASSUME NEW T, NEW ls \in Seq(Seq(T))
    PROVE  FlattenSeq(ls) \in Seq(T)
<1> DEFINE n == Len(ls)
           P(q) == q = [i \in 1 .. n |-> IF i = 1 THEN ls[i] ELSE q[i - 1] \o ls[i]]
           go == [p \in (1 .. n) \X Seq(T) |-> p[2] \o ls[p[1]]]
           h == CHOOSE q : P(q)
<1>1. n \in Nat /\ \A k \in 1 .. n : ls[k] \in Seq(T) /\ k \in 0 .. n /\ k - 1 \in 0 .. n /\ k # 0
  OBVIOUS
<1>2. FlattenSeq(ls) = IF n = 0 THEN ls ELSE h[n]
  BY DEF FlattenSeq
<1>3. CASE n = 0
  BY <1>2, <1>3, EmptySeq
<1>4. CASE n # 0
  <2> HIDE DEF n
  <2>1. \A k \in 1 .. n : \A d \in Seq(T) : go[<<k, d>>] = d \o ls[k] /\ go[<<k, d>>] \in Seq(T)
    BY <1>1, ConcatProperties
  <2> HIDE DEF go
  <2>2. PICK r : Runs(r, n, << >>, go, Seq(T))
    <3>1. StaysIn(go, n, Seq(T)) /\ << >> \in Seq(T)
      BY <2>1, EmptySeq DEF StaysIn
    <3> QED BY <1>1, <3>1, LoopRuns
  <2>3. P([i \in 1 .. n |-> r[i]])
    <3>1. \A k \in 1 .. n : r[k] = r[k - 1] \o ls[k]
      BY <2>1, <2>2 DEF Runs
    <3>2. 1 \in 1 .. n => r[1] = ls[1]
      <4>1. r[0] = << >> /\ 1 - 1 = 0
        BY <2>2 DEF Runs
      <4>2. 1 \in 1 .. n => r[1] = r[1 - 1] \o ls[1] /\ ls[1] \in Seq(T)
        BY <1>1, <3>1
      <4> QED BY <4>1, <4>2, ConcatEmptySeq
    <3>3. \A k \in 1 .. n : k # 1 => k - 1 \in 1 .. n
      BY <1>1
    <3> QED BY <3>1, <3>2, <3>3
  <2>4. P(h)
    <3> HIDE DEF P
    <3> QED BY <2>3
  <2> HIDE DEF h
  <2> DEFINE u == [k \in 0 .. n |-> IF k = 0 THEN << >> ELSE h[k]]
  <2>5. \A k \in 1 .. n : k # 1 => k - 1 \in 1 .. n
    BY <1>1
  <2>6. \A k \in 1 .. n : h[k] = IF k = 1 THEN ls[k] ELSE h[k - 1] \o ls[k]
    BY <2>4, Zenon
  <2>7. u[0] = << >> /\ \A k \in 1 .. n : u[k] = h[k] /\ (u[k - 1] \in Seq(T) => u[k] \in Seq(T))
    <3>1. ASSUME NEW k \in 1 .. n, u[k - 1] \in Seq(T) PROVE u[k] \in Seq(T)
      <4>1. CASE k = 1
        BY <1>1, <2>6, <4>1
      <4>2. CASE k # 1
        <5>1. u[k - 1] = h[k - 1] /\ h[k - 1] \in Seq(T) /\ u[k] = h[k - 1] \o ls[k]
          BY <1>1, <2>5, <2>6, <3>1, <4>2
        <5> HIDE DEF u
        <5> QED BY <1>1, <5>1, ConcatProperties
      <4> QED BY <4>1, <4>2
    <3>2. u[0] = << >> /\ \A k \in 1 .. n : u[k] = h[k]
      BY <1>1
    <3> QED BY <3>1, <3>2
  <2> HIDE DEF u
  <2>8. \A k \in 0 .. n : u[k] \in Seq(T)
    <3>1. u[0] \in Seq(T)
      BY <2>7, EmptySeq
    <3> QED BY <1>1, <2>7, <3>1, LoopStays
  <2>9. n \in 1 .. n
    BY <1>1, <1>4
  <2>10. h[n] \in Seq(T)
    BY <1>1, <2>7, <2>8, <2>9
  <2> QED BY <1>2, <1>4, <2>10
<1> QED BY <1>3, <1>4

(* The members of a datatype are functions. *)
LEMMA MembersType ==
    ASSUME NEW cs \in Seq(Constructor)
    PROVE  MembersOf(cs) \in Seq(FunName)
<1> DEFINE ls == [i \in DOMAIN cs |-> Members(cs[i])]
<1>1. ASSUME NEW c \in Constructor PROVE Members(c) \in Seq(FunName)
  <2>1. /\ c.name \in FunName /\ Tester(c) \in FunName
        /\ c.selectors \in Seq([name : FunName, sort : SUBSET SortName])
    BY DEF Constructor
  <2>2. SelectorNames(c) \in Seq(FunName)
    <3> DEFINE q == c.selectors
               Selector == [name : FunName, sort : SUBSET SortName]
    <3>1. /\ Len(c.selectors) \in Nat /\ DOMAIN c.selectors = 1 .. Len(c.selectors)
          /\ \A i \in 1 .. Len(c.selectors) : c.selectors[i] \in Selector
      <4>1. q \in Seq(Selector)
        BY <2>1
      <4>2. Len(q) \in Nat /\ DOMAIN q = 1 .. Len(q) /\ \A i \in 1 .. Len(q) : q[i] \in Selector
        <5> HIDE DEF q, Selector
        <5> QED BY <4>1
      <4> QED BY <4>2
    <3>2. \A i \in 1 .. Len(c.selectors) : c.selectors[i].name \in FunName
      BY <3>1
    <3> QED BY <3>1, <3>2 DEF SelectorNames
  <2>3. <<c.name>> \in Seq(FunName) /\ <<Tester(c)>> \in Seq(FunName)
    BY <2>1
  <2> QED BY <2>2, <2>3, ConcatProperties DEF Members
<1>2. DOMAIN cs = 1 .. Len(cs) /\ Len(cs) \in Nat /\ \A i \in 1 .. Len(cs) : cs[i] \in Constructor
  OBVIOUS
<1>3. ls \in Seq(Seq(FunName))
  <2>1. \A i \in 1 .. Len(cs) : Members(cs[i]) \in Seq(FunName)
    BY <1>1, <1>2
  <2> QED BY <1>2, <2>1
<1> HIDE DEF ls
<1>4. FlattenSeq(ls) \in Seq(FunName)
  BY <1>3, FlattenType
<1> QED BY <1>4 DEF MembersOf, ls

(* One field is changed. *)
LEMMA ParamsRight ==
    ASSUME NEW t \in TablesRight, NEW s \in SortName, NEW ps \in Seq(SortName)
    PROVE  [t EXCEPT !.params[s] = ps] \in TablesRight
<1> DEFINE p == [t.params EXCEPT ![s] = ps]
           r == [t EXCEPT !.params = p]
<1>1. t \in TablesType /\ RightFields(t)
  BY RightIsFields
<1>2. [t EXCEPT !.params[s] = ps] = r
  BY <1>1 DEF TablesType
<1>3. p \in [SortName -> Seq(SortName)]
  BY <1>1 DEF RightFields
<1> HIDE DEF p
<1>4. r \in TablesType
  <2> HIDE DEF SortTable, FunTable, Constructor, Name
  <2> QED BY <1>1, <1>3 DEF TablesType
<1>5. r.sorts = t.sorts /\ r.order = t.order /\ r.funs = t.funs /\ r.names = t.names
  BY <1>1 DEF TablesType
<1> HIDE DEF r
<1> QED BY <1>1, <1>2, <1>4, <1>5 DEF TablesRight, RightFields

LEMMA ConstructorsRight ==
    ASSUME NEW t \in TablesRight, NEW s \in SortName, NEW cs \in Seq(Constructor)
    PROVE  [t EXCEPT !.constructors[s] = cs] \in TablesRight
<1> DEFINE p == [t.constructors EXCEPT ![s] = cs]
           r == [t EXCEPT !.constructors = p]
<1>1. t \in TablesType /\ RightFields(t)
  BY RightIsFields
<1>2. [t EXCEPT !.constructors[s] = cs] = r
  BY <1>1 DEF TablesType
<1>3. p \in [SortName -> Seq(Constructor)]
  BY <1>1 DEF RightFields
<1> HIDE DEF p
<1>4. r \in TablesType
  <2> HIDE DEF SortTable, FunTable, Constructor, Name
  <2> QED BY <1>1, <1>3 DEF TablesType
<1>5. r.sorts = t.sorts /\ r.order = t.order /\ r.funs = t.funs /\ r.names = t.names
  BY <1>1 DEF TablesType
<1> HIDE DEF r
<1> QED BY <1>1, <1>2, <1>4, <1>5 DEF TablesRight, RightFields

LEMMA FailedRight ==
    ASSUME NEW t \in TablesRight
    PROVE  [t EXCEPT !.failed = TRUE] \in TablesRight
<1> DEFINE r == [t EXCEPT !.failed = TRUE]
<1>1. t \in TablesType /\ RightFields(t)
  BY RightIsFields
<1>4. r \in TablesType
  <2> HIDE DEF SortTable, FunTable, Constructor, Name
  <2> QED BY <1>1 DEF TablesType
<1>5. r.sorts = t.sorts /\ r.order = t.order /\ r.funs = t.funs /\ r.names = t.names
  BY <1>1 DEF TablesType
<1> HIDE DEF r
<1> QED BY <1>1, <1>4, <1>5 DEF r, TablesRight, RightFields

LEMMA ForgottenRight ==
    ASSUME NEW t \in TablesRight, NEW V
    PROVE  [t EXCEPT !.sorts = Without(@, V)] \in TablesRight
<1> DEFINE p == Without(t.sorts, V)
           r == [t EXCEPT !.sorts = p]
<1>1. t \in TablesType /\ RightFields(t)
  BY RightIsFields
<1>2. [t EXCEPT !.sorts = Without(@, V)] = r
  BY <1>1 DEF TablesType
<1>3. p \in SortTable /\ InList(p, SortName, t.order)
  <2>1. p \in SortTable /\ Takes(p, t.sorts, SortName, V)
    BY <1>1, WithoutSorts DEF RightFields
  <2> HIDE DEF p
  <2> QED BY <1>1, <2>1 DEF Takes, InList, RightFields
<1> HIDE DEF p
<1>4. r \in TablesType
  <2> HIDE DEF SortTable, FunTable, Constructor, Name
  <2> QED BY <1>1, <1>3 DEF TablesType
<1>5. r.sorts = p /\ r.order = t.order /\ r.funs = t.funs /\ r.names = t.names
  BY <1>1 DEF TablesType
<1> HIDE DEF r
<1> QED BY <1>1, <1>2, <1>3, <1>4, <1>5 DEF TablesRight, RightFields

(* defineDatatypeConstructors of one datatype. *)
LEMMA WithDatatypeRight ==
    ASSUME NEW t \in TablesRight, NEW d \in DatatypeText
    PROVE  WithDatatype(t, d) \in TablesRight
<1> DEFINE named == IF d.params = << >> THEN t ELSE [t EXCEPT !.params[d.name] = d.params]
           opened == WithSorts(named, d.params, "dec")
           read == [opened EXCEPT !.constructors[d.name] = d.constructors]
           uses == {d.name} \cup SortsIn(d.constructors)
           made == WithMembers(read, MembersOf(d.constructors), uses)
<1>1. d.name \in SortName /\ d.params \in Seq(SortName) /\ d.constructors \in Seq(Constructor)
  <2> HIDE DEF Constructor
  <2> QED BY DEF DatatypeText
<1>2. named \in TablesRight
  BY <1>1, ParamsRight
<1> HIDE DEF named
<1>3. opened \in TablesRight
  BY <1>1, <1>2, WithSortsRight DEF SortKind
<1> HIDE DEF opened
<1>4. read \in TablesRight
  BY <1>1, <1>3, ConstructorsRight
<1> HIDE DEF read
<1>5. uses \in SUBSET Name
  <2>1. SortsIn(d.constructors) \subseteq SortName
    <3>1. ASSUME NEW c \in Constructor PROVE SelectorSorts(c) \subseteq SortName
      <4> DEFINE q == c.selectors
                 Selector == [name : FunName, sort : SUBSET SortName]
      <4>1. q \in Seq(Selector)
        BY DEF Constructor
      <4>2. ToSet(q) \subseteq Selector
        <5> HIDE DEF q, Selector
        <5> QED BY <4>1 DEF ToSet
      <4> HIDE DEF q
      <4>3. \A sel \in ToSet(q) : sel.sort \subseteq SortName
        BY <4>2
      <4> QED BY <4>3 DEF SelectorSorts, q
    <3>2. ToSet(d.constructors) \subseteq Constructor
      <4> HIDE DEF Constructor
      <4> QED BY <1>1 DEF ToSet
    <3> QED BY <3>1, <3>2 DEF SortsIn
  <2> QED BY <1>1, <2>1 DEF Name
<1> HIDE DEF uses
<1>6. made \in TablesRight
  BY <1>1, <1>4, <1>5, MembersType, WithMembersRight
<1> HIDE DEF made
<1>7. [opened EXCEPT !.failed = TRUE] \in TablesRight /\ [made EXCEPT !.sorts = Without(@, ToSet(d.params))] \in TablesRight
  BY <1>3, <1>6, FailedRight, ForgottenRight
<1>8. WithDatatype(t, d) =
        IF t.failed THEN t
        ELSE IF \E s \in SortsIn(d.constructors) : ~Found(opened.sorts, s) THEN [opened EXCEPT !.failed = TRUE]
        ELSE IF made.failed THEN made
        ELSE [made EXCEPT !.sorts = Without(@, ToSet(d.params))]
  BY DEF WithDatatype, made, uses, read, opened, named
<1> QED BY <1>3, <1>6, <1>7, <1>8

(* WithDatatypes, datatype by datatype. *)
LEMMA WithDatatypesRight ==
    ASSUME NEW list \in Seq(DatatypeText), Tables \in TablesRight
    PROVE  WithDatatypes(list) \in TablesRight
<1> DEFINE n == Len(list)
           base == WithSorts(Tables, Names(list), "datatype")
           P(q) == q = [k \in 0 .. n |-> IF k = 0 THEN base ELSE WithDatatype(q[k - 1], list[k])]
           go == [p \in (1 .. n) \X TablesRight |-> WithDatatype(p[2], list[p[1]])]
           h == CHOOSE q : P(q)
<1>1. n \in Nat /\ \A k \in 1 .. n : list[k] \in DatatypeText /\ k \in 0 .. n /\ k - 1 \in 0 .. n /\ k # 0
  OBVIOUS
<1>2. WithDatatypes(list) = h[n]
  BY DEF WithDatatypes
<1>3. base \in TablesRight
  <2>1. \A k \in 1 .. n : list[k].name \in SortName
    BY <1>1 DEF DatatypeText
  <2>2. Names(list) \in Seq(SortName)
    BY <2>1 DEF Names
  <2> QED BY <2>2, WithSortsRight DEF SortKind
<1> HIDE DEF n, base
<1>4. \A k \in 1 .. n : \A d \in TablesRight : go[<<k, d>>] = WithDatatype(d, list[k]) /\ go[<<k, d>>] \in TablesRight
  BY <1>1, WithDatatypeRight
<1> HIDE DEF go
<1>5. PICK r : Runs(r, n, base, go, TablesRight)
  <2>1. StaysIn(go, n, TablesRight)
    BY <1>4 DEF StaysIn
  <2> QED BY <1>1, <1>3, <2>1, LoopRuns
<1>6. P([k \in 0 .. n |-> r[k]])
  <2>1. \A k \in 1 .. n : r[k] = WithDatatype(r[k - 1], list[k])
    BY <1>4, <1>5 DEF Runs
  <2>2. r[0] = base /\ \A k \in 0 .. n : k # 0 => k \in 1 .. n
    BY <1>1, <1>5 DEF Runs
  <2> QED BY <1>1, <2>1, <2>2
<1>7. P(h)
  <2> HIDE DEF P
  <2> QED BY <1>6
<1> HIDE DEF h
<1>8. h[0] = base /\ \A k \in 1 .. n : h[k] = WithDatatype(h[k - 1], list[k])
  <2>1. 0 \in 0 .. n
    BY <1>1
  <2> QED BY <1>1, <1>7, <2>1
<1>9. \A k \in 0 .. n : h[k] \in TablesRight
  BY <1>1, <1>3, <1>8, WithDatatypeRight, LoopStays
<1> QED BY <1>1, <1>2, <1>9

(* The invariant of all sessions. *)
DumpInv == TypeOK /\ DeclaredListed /\ DumpTypeOK

(* The tables as a declare-datatypes finds them. *)
LEMMA TablesStart == ASSUME DumpInv PROVE Tables \in TablesRight
<1>1. /\ funs \in FunTable /\ functionNames \in Seq(FunName) /\ sorts \in SortTable /\ sortOrder \in Seq(SortName)
      /\ InList(funs, FunName, functionNames) /\ InList(sorts, SortName, sortOrder)
  BY DeclaredInLists DEF DumpInv, TypeOK
<1>2. /\ constructors \in [SortName -> Seq(Constructor)] /\ datatypeParams \in [SortName -> Seq(SortName)]
      /\ mentions \in [FunName -> SUBSET Name]
  BY DEF DumpInv, DumpTypeOK
<1> QED BY <1>1, <1>2, TablesAreTyped DEF Tables

(* A declare-datatypes that is read to the end or fails. *)
LEMMA DeclareDatatypesKeeps ==
    ASSUME DumpInv, NEW list \in Seq(DatatypeText), DeclareDatatypes(list)
    PROVE  /\ TypeOK' /\ DeclaredListed'
           /\ constructors' \in [SortName -> Seq(Constructor)] /\ datatypeParams' \in [SortName -> Seq(SortName)]
           /\ mentions' \in [FunName -> SUBSET Name]
<1> DEFINE t == WithDatatypes(list)
<1>1. RightFields(t)
  BY TablesStart, WithDatatypesRight, RightIsFields
<1> HIDE DEF t
<1>2. /\ sorts' = t.sorts /\ sortOrder' = t.order /\ funs' = t.funs /\ functionNames' = t.names
      /\ mentions' = t.mentions /\ constructors' = t.constructors /\ datatypeParams' = t.params
      /\ UNCHANGED <<vars, varOrder, recGroup, snapshots>>
      /\ frames' = IF frames = << >> THEN frames ELSE [frames EXCEPT ![Len(frames)].sorts = @ \cup t.scoped]
  BY DEF DeclareDatatypes, t
<1>3. /\ vars \in VarTable /\ varOrder \in Seq(VarName) /\ recGroup \in [FunName -> Seq(FunName)]
      /\ frames \in Seq(Frame) /\ snapshots \in Seq(Snapshot) /\ Len(snapshots) = Len(frames)
  BY DEF DumpInv, TypeOK
<1>4. frames' \in Seq(Frame) /\ Len(frames') = Len(frames)
  <2>1. CASE frames = << >>
    BY <1>2, <1>3, <2>1
  <2>2. CASE frames # << >>
    <3> DEFINE top == [Top EXCEPT !.sorts = Top.sorts \cup t.scoped]
    <3>1. Top \in Frame /\ Top = frames[Len(frames)]
      BY <1>3, <2>2, TopType DEF Top
    <3>2. Top.sorts \cup t.scoped \in SUBSET SortName
      BY <1>1, <3>1, FrameFields DEF RightFields
    <3>3. top \in Frame
      BY <3>1, <3>2, FrameFields
    <3>4. frames' = [frames EXCEPT ![Len(frames)] = top]
      BY <1>2, <2>2, <3>1
    <3> HIDE DEF top
    <3> QED BY <1>3, <2>2, <3>3, <3>4, TopReplaced
  <2> QED BY <2>1, <2>2
<1>5. DeclaredListed'
  BY <1>1, <1>2, DeclaredInListsAfter DEF RightFields
<1>6. TypeOK'
  <2> HIDE DEF Frame, Snapshot, VarTable, SortTable, FunTable
  <2> QED BY <1>1, <1>2, <1>3, <1>4 DEF RightFields, TypeOK
<1>7. /\ constructors' \in [SortName -> Seq(Constructor)] /\ datatypeParams' \in [SortName -> Seq(SortName)]
      /\ mentions' \in [FunName -> SUBSET Name]
  <2> HIDE DEF Constructor, Name
  <2> QED BY <1>1, <1>2 DEF RightFields
<1> QED BY <1>5, <1>6, <1>7

(* The fields of a command. *)
LEMMA CommandFields ==
    ASSUME NEW c \in CommandText
    PROVE  /\ Right(c) /\ c.texts \in Seq(DatatypeText) /\ c.names \in Seq(Name)
           /\ c.cmd \in {"declare-sort", "declare-datatypes", "declare-var", "group"} \cup FunKind
<1> HIDE DEF DatatypeText, Name, Right
<1> QED BY DEF CommandText

(* What functions mention. *)
LEMMA MentioningKeeps ==
    ASSUME NEW c \in CommandText, c.cmd \in FunKind \cup {"group"}, mentions \in [FunName -> SUBSET Name],
           Mentioning(c)
    PROVE  mentions' \in [FunName -> SUBSET Name]
<1>1. c.uses \in [DOMAIN c.names -> SUBSET Name]
  BY CommandFields DEF Right
<1> DEFINE names == c.names
           uses == c.uses
<1>2. mentions' = [a \in FunName |-> IF \E i \in DOMAIN names : names[i] = a
                                     THEN uses[CHOOSE i \in DOMAIN names : names[i] = a] ELSE mentions[a]]
  BY DEF Mentioning
<1>3. uses \in [DOMAIN names -> SUBSET Name]
  BY <1>1
<1> HIDE DEF names, uses, Name
<1> QED BY <1>2, <1>3

(* Any command that is read to the end. *)
LEMMA ExecuteKeeps ==
    ASSUME DumpInv, NEW c \in CommandText, Execute(c)
    PROVE  /\ TypeOK' /\ DeclaredListed'
           /\ constructors' \in [SortName -> Seq(Constructor)] /\ datatypeParams' \in [SortName -> Seq(SortName)]
           /\ mentions' \in [FunName -> SUBSET Name]
<1> DEFINE Typed == /\ constructors' \in [SortName -> Seq(Constructor)]
                    /\ datatypeParams' \in [SortName -> Seq(SortName)] /\ mentions' \in [FunName -> SUBSET Name]
<1>1. Right(c) /\ c.texts \in Seq(DatatypeText)
  BY CommandFields
<1>2. TypeOK /\ DeclaredListed
  BY DEF DumpInv
<1>3. /\ constructors \in [SortName -> Seq(Constructor)] /\ datatypeParams \in [SortName -> Seq(SortName)]
      /\ mentions \in [FunName -> SUBSET Name]
  BY DEF DumpInv, DumpTypeOK
<1>4. CASE c.cmd = "declare-datatypes" /\ DeclareDatatypes(c.texts)
  BY <1>1, <1>4, DeclareDatatypesKeeps
<1>5. CASE /\ \/ c.cmd = "declare-sort" /\ DeclareSort(c.names[1])
              \/ c.cmd = "declare-var" /\ DeclareVar(c.names[1], c.uses[1])
           /\ UNCHANGED <<mentions, constructors, datatypeParams>>
  <2>1. Operation
    BY <1>1, <1>5 DEF Right, Operation
  <2>2. Typed
    BY <1>3, <1>5
  <2> QED BY <1>2, <2>1, <2>2, OperationKeepsLists
<1>6. CASE /\ \/ c.cmd = "dec" /\ DeclareFun(c.names[1])
              \/ c.cmd \in {"def", "rec"} /\ DefineFun(c.names[1], c.cmd)
              \/ c.cmd = "group" /\ DefineFunsRec(c.names, TRUE, Len(c.names))
           /\ Mentioning(c)
           /\ UNCHANGED <<constructors, datatypeParams>>
  <2>1. c.cmd \in FunKind \cup {"group"}
    BY <1>6 DEF FunKind
  <2>2. c.names \in Seq(FunName) /\ c.names # << >>
    BY <1>1, <2>1 DEF Right
  <2> DEFINE names == c.names
  <2>3. names[1] \in FunName /\ Len(names) \in 0 .. Len(names)
    <3>1. names \in Seq(FunName) /\ names # << >>
      BY <2>2
    <3> HIDE DEF names
    <3> QED BY <3>1
  <2>4. Operation
    BY <1>6, <2>2, <2>3 DEF Operation, FunKind
  <2>5. Typed
    BY <1>3, <1>6, <2>1, MentioningKeeps
  <2> QED BY <1>2, <2>4, <2>5, OperationKeepsLists
<1> QED BY <1>4, <1>5, <1>6 DEF Execute

(* The commands that a dump writes, one kind after the other. *)
LEMMA CommandIsText ==
    ASSUME NEW cmd \in {"declare-sort", "declare-datatypes", "declare-var", "group"} \cup FunKind,
           NEW names \in Seq(Name), NEW uses \in Seq(Sort \cup SUBSET Name), Right(Command(cmd, names, uses))
    PROVE  Command(cmd, names, uses) \in CommandText
<1>1. << >> \in Seq(DatatypeText)
  BY EmptySeq
<1> HIDE DEF DatatypeText, Name, Right, FunKind
<1> QED BY <1>1 DEF CommandText, Command

(* Each kind of command is one that can be read. *)
LEMMA SortCommandType == \A s \in SortName : SortCommand(s) \in CommandText
<1> SUFFICES ASSUME NEW s \in SortName PROVE SortCommand(s) \in CommandText
  OBVIOUS
<1> DEFINE c == Command("declare-sort", <<s>>, << >>)
<1>1. c.cmd = "declare-sort" /\ c.names[1] = s
  BY DEF Command
<1>2. Right(c)
  BY <1>1 DEF Right, FunKind
<1>3. <<s>> \in Seq(Name) /\ << >> \in Seq(Sort \cup SUBSET Name)
  BY EmptySeq DEF Name
<1> QED BY <1>2, <1>3, CommandIsText DEF SortCommand

LEMMA VarCommandType == \A s \in VarName : \A sort \in Sort : VarCommand(s, sort) \in CommandText
<1> SUFFICES ASSUME NEW s \in VarName, NEW sort \in Sort PROVE VarCommand(s, sort) \in CommandText
  OBVIOUS
<1> DEFINE c == Command("declare-var", <<s>>, <<sort>>)
<1>1. c.cmd = "declare-var" /\ c.names[1] = s /\ c.uses[1] = sort
  BY DEF Command
<1>2. Right(c)
  BY <1>1 DEF Right, FunKind
<1>3. <<s>> \in Seq(Name) /\ <<sort>> \in Seq(Sort \cup SUBSET Name)
  BY DEF Name
<1> QED BY <1>2, <1>3, CommandIsText DEF VarCommand

(* A function, or a group of them. *)
LEMMA FunCommandType ==
    ASSUME NEW cmd \in FunKind \cup {"group"}, NEW names \in Seq(FunName), names # << >>,
           NEW uses \in [DOMAIN names -> SUBSET Name]
    PROVE  Command(cmd, names, uses) \in CommandText
<1> DEFINE c == Command(cmd, names, uses)
<1>1. c.cmd = cmd /\ c.names = names /\ c.uses = uses
  BY DEF Command
<1>2. Right(c)
  BY <1>1 DEF Right, FunKind
<1>3. DOMAIN names = 1 .. Len(names) /\ Len(names) \in Nat /\ \A i \in 1 .. Len(names) : names[i] \in FunName
  OBVIOUS
<1>4. names \in Seq(Name)
  BY <1>3 DEF Name
<1>5. uses \in Seq(Sort \cup SUBSET Name)
  <2> HIDE DEF Name
  <2> QED BY <1>3
<1> QED BY <1>2, <1>4, <1>5, CommandIsText

LEMMA DatatypesCommandType == \A list \in Seq(DatatypeText) : DatatypesCommand(list) \in CommandText
<1> SUFFICES ASSUME NEW list \in Seq(DatatypeText) PROVE DatatypesCommand(list) \in CommandText
  OBVIOUS
<1> DEFINE c == DatatypesCommand(list)
           names == Names(list)
<1>1. names \in Seq(Name)
  <2>1. DOMAIN list = 1 .. Len(list) /\ Len(list) \in Nat /\ \A i \in 1 .. Len(list) : list[i] \in DatatypeText
    OBVIOUS
  <2>2. \A i \in 1 .. Len(list) : list[i].name \in Name
    BY <2>1 DEF DatatypeText, Name
  <2> QED BY <2>1, <2>2 DEF Names
<1> HIDE DEF names
<1>2. c = [cmd |-> "declare-datatypes", names |-> names, uses |-> << >>, texts |-> list]
  BY DEF DatatypesCommand, Command, names
<1> HIDE DEF c
<1>3. Right(c)
  BY <1>2 DEF Right, FunKind
<1>4. << >> \in Seq(Sort \cup SUBSET Name)
  BY EmptySeq
<1> HIDE DEF DatatypeText, Name, Right
<1>5. c \in [cmd : {"declare-sort", "declare-datatypes", "declare-var", "group"} \cup FunKind, names : Seq(Name),
             uses : Seq(Sort \cup SUBSET Name), texts : Seq(DatatypeText)]
  BY <1>1, <1>2, <1>4
<1> QED BY <1>3, <1>5 DEF c, CommandText

(* What is listed is there. *)
LEMMA ListedThere ==
    ASSUME NEW T, NEW order \in Seq(T), NEW m
    PROVE  \A i \in 1 .. Len(Listed(order, m)) : Listed(order, m)[i] \in T /\ m[Listed(order, m)[i]] # Absent
<1> DEFINE n == Len(order)
           There == {a \in T : m[a] # Absent}
<1>1. PICK h : Listing(h, order, m) /\ Listed(order, m) = h[n]
  BY ListedTurns
<1>2. n \in Nat /\ \A k \in 1 .. n : order[k] \in T
  OBVIOUS
<1>3. /\ h[0] = << >>
      /\ \A k \in 1 .. n : h[k] = IF m[order[k]] # Absent THEN Append(h[k - 1], order[k]) ELSE h[k - 1]
  BY <1>1 DEF Listing
<1> HIDE DEF n
<1>4. ASSUME NEW k \in 1 .. n, h[k - 1] \in Seq(There) PROVE h[k] \in Seq(There)
  <2> DEFINE q == h[k - 1]
  <2>1. CASE m[order[k]] # Absent
    <3>1. order[k] \in There /\ q \in Seq(There) /\ h[k] = Append(q, order[k])
      BY <1>2, <1>3, <1>4, <2>1
    <3> HIDE DEF q, There
    <3> QED BY <3>1
  <2>2. CASE ~ (m[order[k]] # Absent)
    BY <1>3, <1>4, <2>2
  <2> QED BY <2>1, <2>2
<1>5. h[0] \in Seq(There)
  BY <1>3, EmptySeq
<1>6. h[n] \in Seq(There)
  <2> HIDE DEF There
  <2>1. \A k \in 0 .. n : h[k] \in Seq(There)
    BY <1>2, <1>4, <1>5, LoopStays
  <2> QED BY <1>2, <2>1
<1>7. \A i \in 1 .. Len(h[n]) : h[n][i] \in There
  <2> DEFINE q == h[n]
  <2> HIDE DEF q, There
  <2>1. q \in Seq(There)
    BY <1>6 DEF q
  <2>2. \A i \in 1 .. Len(q) : q[i] \in There
    BY <2>1
  <2> QED BY <2>2 DEF q
<1> QED BY <1>1, <1>7 DEF n

(* The parts of a dump. *)
LEMMA SortCommandsType == ASSUME TypeOK PROVE SortCommands \in Seq(CommandText)
<1> DEFINE q == Listed(sortOrder, [s \in SortName |-> IF sorts[s] = "dec" THEN "dec" ELSE Absent])
<1>1. q \in Seq(SortName)
  BY ListedType DEF TypeOK
<1> HIDE DEF q
<1>2. DOMAIN q = 1 .. Len(q) /\ Len(q) \in Nat /\ \A i \in 1 .. Len(q) : q[i] \in SortName
  BY <1>1
<1>3. SortCommands = [i \in DOMAIN q |-> SortCommand(q[i])]
  BY DEF SortCommands, q
<1>4. \A i \in 1 .. Len(q) : SortCommand(q[i]) \in CommandText
  BY <1>2, SortCommandType
<1> QED BY <1>2, <1>3, <1>4

LEMMA VarCommandsType == ASSUME TypeOK PROVE VarCommands \in Seq(CommandText)
<1> DEFINE q == Variables
<1>0. varOrder \in Seq(VarName) /\ vars \in VarTable
  BY DEF TypeOK
<1>1. q \in Seq(VarName) /\ \A i \in 1 .. Len(q) : q[i] \in VarName /\ vars[q[i]] # Absent
  BY <1>0, ListedType, ListedThere DEF Variables
<1> HIDE DEF q
<1>2. DOMAIN q = 1 .. Len(q) /\ Len(q) \in Nat
  BY <1>1
<1>3. VarCommands = [i \in DOMAIN q |-> VarCommand(q[i], vars[q[i]])]
  BY DEF VarCommands, q
<1>4. \A i \in 1 .. Len(q) : vars[q[i]] \in Sort
  BY <1>0, <1>1 DEF VarTable
<1>5. \A i \in 1 .. Len(q) : VarCommand(q[i], vars[q[i]]) \in CommandText
  BY <1>1, <1>4, VarCommandType
<1> QED BY <1>2, <1>3, <1>5

(* One listing of a function. *)
LEMMA WrittenType ==
    ASSUME DumpInv, NEW out \in Seq(CommandText), NEW s \in FunName
    PROVE  Written(out, s) \in Seq(CommandText)
<1>1. funs \in FunTable /\ recGroup \in [FunName -> Seq(FunName)] /\ mentions \in [FunName -> SUBSET Name]
  BY DEF DumpInv, TypeOK, DumpTypeOK
<1> DEFINE group == recGroup[s]
           uses == [i \in DOMAIN group |-> mentions[group[i]]]
<1>2. CASE funs[s] = Absent \/ s \in MemberNames \/ s \in UNION { ToSet(c.names) : c \in ToSet(out) }
  BY <1>2 DEF Written
<1>3. CASE /\ ~ (funs[s] = Absent \/ s \in MemberNames \/ s \in UNION { ToSet(c.names) : c \in ToSet(out) })
           /\ group # << >>
  <2>1. Written(out, s) = Append(out, Command("group", group, uses))
    BY <1>3 DEF Written
  <2>2. group \in Seq(FunName)
    BY <1>1
  <2>3. uses \in [DOMAIN group -> SUBSET Name]
    <3>1. \A i \in DOMAIN group : group[i] \in FunName
      <4> HIDE DEF group
      <4> QED BY <2>2
    <3> HIDE DEF group, Name
    <3> QED BY <1>1, <3>1
  <2>4. Command("group", group, uses) \in CommandText
    <3> HIDE DEF group, uses, Name
    <3> QED BY <1>3, <2>2, <2>3, FunCommandType
  <2> HIDE DEF CommandText, group, uses
  <2> QED BY <2>1, <2>4, AppendProperties
<1>4. CASE /\ ~ (funs[s] = Absent \/ s \in MemberNames \/ s \in UNION { ToSet(c.names) : c \in ToSet(out) })
           /\ ~ (group # << >>)
  <2>1. Written(out, s) = Append(out, Command(funs[s], <<s>>, <<mentions[s]>>))
    BY <1>4 DEF Written, FunCommand
  <2>2. funs[s] \in FunKind
    BY <1>1, <1>4 DEF FunTable
  <2>3. <<s>> \in Seq(FunName) /\ <<s>> # << >> /\ <<mentions[s]>> \in [DOMAIN <<s>> -> SUBSET Name]
    <3> HIDE DEF Name
    <3> QED BY <1>1
  <2>4. Command(funs[s], <<s>>, <<mentions[s]>>) \in CommandText
    <3> HIDE DEF FunKind, Name
    <3> QED BY <2>2, <2>3, FunCommandType
  <2> QED BY <2>1, <2>4, AppendProperties
<1> QED BY <1>2, <1>3, <1>4

(* FunCommands, listing by listing. *)
LEMMA FunCommandsType == ASSUME DumpInv PROVE FunCommands \in Seq(CommandText)
<1> DEFINE n == Len(functionNames)
           Texts == Seq(CommandText)
           P(q) == q = [k \in 0 .. n |-> IF k = 0 THEN << >> ELSE Written(q[k - 1], functionNames[k])]
           go == [p \in (1 .. n) \X Texts |-> Written(p[2], functionNames[p[1]])]
           h == CHOOSE q : P(q)
<1>0. functionNames \in Seq(FunName)
  BY DEF DumpInv, TypeOK
<1>1. n \in Nat /\ \A k \in 1 .. n : functionNames[k] \in FunName /\ k \in 0 .. n /\ k - 1 \in 0 .. n /\ k # 0
  BY <1>0
<1>2. FunCommands = h[n]
  BY DEF FunCommands
<1>3. << >> \in Texts
  BY EmptySeq
<1>4. \A k \in 1 .. n : \A d \in Texts : Written(d, functionNames[k]) \in Texts
  BY <1>1, WrittenType
<1> HIDE DEF n, Texts
<1>5. \A k \in 1 .. n : \A d \in Texts : go[<<k, d>>] = Written(d, functionNames[k]) /\ go[<<k, d>>] \in Texts
  BY <1>4
<1> HIDE DEF go
<1>6. PICK r : Runs(r, n, << >>, go, Texts)
  <2>1. StaysIn(go, n, Texts)
    BY <1>5 DEF StaysIn
  <2> QED BY <1>1, <1>3, <2>1, LoopRuns
<1>7. P([k \in 0 .. n |-> r[k]])
  <2>1. \A k \in 1 .. n : r[k] = Written(r[k - 1], functionNames[k])
    BY <1>5, <1>6 DEF Runs
  <2>2. r[0] = << >> /\ \A k \in 0 .. n : k # 0 => k \in 1 .. n
    BY <1>1, <1>6 DEF Runs
  <2> QED BY <1>1, <2>1, <2>2
<1>8. P(h)
  <2> HIDE DEF P
  <2> QED BY <1>7
<1> HIDE DEF h
<1>9. h[0] = << >> /\ \A k \in 1 .. n : h[k] = Written(h[k - 1], functionNames[k])
  <2>1. 0 \in 0 .. n
    BY <1>1
  <2> QED BY <1>1, <1>8, <2>1
<1>10. \A k \in 0 .. n : h[k] \in Texts
  BY <1>1, <1>3, <1>4, <1>9, LoopStays
<1> QED BY <1>1, <1>2, <1>10 DEF Texts

(* Sorted, datatype by datatype. *)
LEMMA SortedType ==
    ASSUME TypeOK, NEW group
    PROVE  Sorted(group) \in Seq(SortName)
<1> DEFINE q == DatatypeOrder
           n == Len(q)
           next(s, k) == IF q[k] \in group \ ToSet(s) THEN Append(s, q[k]) ELSE s
           P(r) == r = [k \in 0 .. n |-> IF k = 0 THEN << >>
                                         ELSE IF q[k] \in group \ ToSet(r[k - 1]) THEN Append(r[k - 1], q[k])
                                         ELSE r[k - 1]]
           Some == Seq(SortName)
           go == [p \in (1 .. n) \X Some |-> next(p[2], p[1])]
           h == CHOOSE r : P(r)
<1>1. q \in Seq(SortName)
  BY ListedType DEF DatatypeOrder, TypeOK
<1>2. Sorted(group) = h[n]
  BY DEF Sorted
<1> HIDE DEF q
<1>3. n \in Nat /\ \A k \in 1 .. n : q[k] \in SortName /\ k \in 0 .. n /\ k - 1 \in 0 .. n /\ k # 0
  BY <1>1
<1>4. << >> \in Some
  BY EmptySeq
<1>5. \A k \in 1 .. n : \A d \in Some : next(d, k) \in Some
  BY <1>3
<1> HIDE DEF n, Some
<1>6. \A k \in 1 .. n : \A d \in Some : go[<<k, d>>] = next(d, k) /\ go[<<k, d>>] \in Some
  <2> HIDE DEF next
  <2> QED BY <1>5
<1> HIDE DEF go
<1>7. PICK r : Runs(r, n, << >>, go, Some)
  <2>1. StaysIn(go, n, Some)
    BY <1>6 DEF StaysIn
  <2> QED BY <1>3, <1>4, <2>1, LoopRuns
<1>8. P([k \in 0 .. n |-> r[k]])
  <2>1. \A k \in 1 .. n : r[k] = next(r[k - 1], k)
    <3> HIDE DEF next
    <3> QED BY <1>6, <1>7 DEF Runs
  <2>2. r[0] = << >> /\ \A k \in 0 .. n : k # 0 => k \in 1 .. n
    BY <1>3, <1>7 DEF Runs
  <2> QED BY <1>3, <2>1, <2>2
<1>9. P(h)
  <2> HIDE DEF P
  <2> QED BY <1>8
<1> HIDE DEF h
<1>10. h[0] = << >> /\ \A k \in 1 .. n : h[k] = next(h[k - 1], k)
  <2>1. 0 \in 0 .. n
    BY <1>3
  <2> QED BY <1>3, <1>9, <2>1
<1>11. \A k \in 0 .. n : h[k] \in Some
  <2> HIDE DEF next
  <2>1. \A k \in 1 .. n : h[k - 1] \in Some => h[k] \in Some
    BY <1>5, <1>10
  <2> QED BY <1>3, <1>4, <1>10, <2>1, LoopStays
<1> QED BY <1>2, <1>3, <1>11 DEF Some

(* The command of a group. *)
LEMMA DatatypesOfType ==
    ASSUME DumpInv, NEW group
    PROVE  DatatypesOf(group) \in CommandText
<1> DEFINE order == Sorted(group)
           list == [i \in DOMAIN order |->
                       [name |-> order[i], params |-> datatypeParams[order[i]], constructors |-> constructors[order[i]]]]
<1>1. order \in Seq(SortName)
  BY SortedType DEF DumpInv
<1>2. constructors \in [SortName -> Seq(Constructor)] /\ datatypeParams \in [SortName -> Seq(SortName)]
  BY DEF DumpInv, DumpTypeOK
<1>3. DatatypesOf(group) = DatatypesCommand(list)
  BY DEF DatatypesOf
<1> HIDE DEF order
<1>4. DOMAIN order = 1 .. Len(order) /\ Len(order) \in Nat /\ \A i \in 1 .. Len(order) : order[i] \in SortName
  BY <1>1
<1>5. \A i \in 1 .. Len(order) :
         [name |-> order[i], params |-> datatypeParams[order[i]], constructors |-> constructors[order[i]]] \in DatatypeText
  <2> HIDE DEF Constructor
  <2> QED BY <1>2, <1>4 DEF DatatypeText
<1>6. list \in Seq(DatatypeText)
  <2> HIDE DEF DatatypeText
  <2> QED BY <1>4, <1>5
<1> HIDE DEF list
<1> QED BY <1>3, <1>6, DatatypesCommandType

(* A dump is a list of commands. *)
LEMMA DumpType ==
    ASSUME DumpInv, NEW deps \in DependencyOrders
    PROVE  DumpSMT2(deps) \in Seq(CommandText)
<1> DEFINE groups == Groups(deps)
           datatypes == [i \in DOMAIN groups |-> DatatypesOf(groups[i])]
<1>0. sortOrder \in Seq(SortName)
  BY DEF DumpInv, TypeOK
<1>1. groups \in Seq(SUBSET Datatypes)
  <2>1. Lists(deps)
    BY <1>0, OrdersList
  <2>2. PICK t : WalkInv(deps, t) /\ Groups(deps) = t.groups
    BY <1>0, <2>1, WalkEnds
  <2>3. t.groups \in Seq(SUBSET Datatypes)
    BY <2>2, WalkFields DEF WalkInv
  <2> QED BY <2>2, <2>3
<1>2. DumpSMT2(deps) = SortCommands \o datatypes \o VarCommands \o FunCommands
  BY DEF DumpSMT2
<1> HIDE DEF groups
<1>3. datatypes \in Seq(CommandText)
  <2>1. DOMAIN groups = 1 .. Len(groups) /\ Len(groups) \in Nat
    BY <1>1
  <2>2. \A i \in 1 .. Len(groups) : DatatypesOf(groups[i]) \in CommandText
    BY DatatypesOfType
  <2> QED BY <2>1, <2>2
<1> HIDE DEF datatypes
<1>4. SortCommands \in Seq(CommandText) /\ VarCommands \in Seq(CommandText) /\ FunCommands \in Seq(CommandText)
  BY SortCommandsType, VarCommandsType, FunCommandsType DEF DumpInv
<1>5. SortCommands \o datatypes \in Seq(CommandText)
  BY <1>3, <1>4, ConcatProperties
<1>6. (SortCommands \o datatypes) \o VarCommands \in Seq(CommandText)
  BY <1>4, <1>5, ConcatProperties
<1> QED BY <1>2, <1>4, <1>6, ConcatProperties

(* What the steps of all sessions have in common. *)
DumpTypesAfter ==
    /\ TypeOK' /\ DeclaredListed'
    /\ constructors' \in [SortName -> Seq(Constructor)] /\ datatypeParams' \in [SortName -> Seq(SortName)]
    /\ mentions' \in [FunName -> SUBSET Name]

(* A step that leaves the dump alone. *)
LEMMA ScriptSame ==
    ASSUME DumpInv, DumpTypesAfter, UNCHANGED <<script, dumped>>
    PROVE  DumpInv'
BY DEF DumpInv, DumpTypeOK, DumpTypesAfter

(* An operation that leaves datatypes alone. *)
LEMMA OperationKeepsDump ==
    ASSUME DumpInv, Operation, UNCHANGED <<constructors, datatypeParams, script, dumped>>,
           ForgetAbsent \/ UNCHANGED mentions
    PROVE  DumpInv'
<1>1. TypeOK /\ DeclaredListed /\ DumpTypeOK
  BY DEF DumpInv
<1>2. TypeOK' /\ DeclaredListed'
  BY <1>1, OperationKeepsLists
<1>3. mentions' \in [FunName -> SUBSET Name]
  <2>1. mentions \in [FunName -> SUBSET Name]
    BY <1>1 DEF DumpTypeOK
  <2> HIDE DEF Name
  <2> QED BY <2>1 DEF ForgetAbsent
<1> QED BY <1>1, <1>2, <1>3 DEF DumpInv, DumpTypeOK

(* A dump is taken, and read. *)
LEMMA TakeDumpKeeps == ASSUME DumpInv, TakeDump PROVE DumpInv'
<1>1. PICK deps \in DependencyOrders : script' = DumpSMT2(deps) /\ dumped' = DumpSMT2(deps)
  BY DEF TakeDump, Dumps
<1>2. script' \in Seq(CommandText) /\ dumped' \in Seq(CommandText)
  BY <1>1, DumpType
<1>3. Operation
  BY DEF TakeDump, ResetAll, Operation
<1>4. TypeOK' /\ DeclaredListed'
  BY <1>3, OperationKeepsLists DEF DumpInv
<1>5. /\ constructors' \in [SortName -> Seq(Constructor)] /\ datatypeParams' \in [SortName -> Seq(SortName)]
      /\ mentions' \in [FunName -> SUBSET Name]
  BY EmptySeq DEF TakeDump
<1> QED BY <1>2, <1>4, <1>5 DEF DumpInv, DumpTypeOK

LEMMA ReadCommandKeeps == ASSUME DumpInv, ReadCommand PROVE DumpInv'
<1>1. script \in Seq(CommandText) /\ script # << >> /\ dumped \in Seq(CommandText)
  BY DEF DumpInv, DumpTypeOK, ReadCommand
<1>2. Head(script) \in CommandText /\ Tail(script) \in Seq(CommandText)
  BY <1>1, HeadTailProperties
<1>3. DumpTypesAfter
  BY <1>2, ExecuteKeeps DEF ReadCommand, DumpTypesAfter
<1> QED BY <1>1, <1>2, <1>3 DEF ReadCommand, DumpInv, DumpTypeOK, DumpTypesAfter

(* Every step of every session keeps the types. *)
LEMMA SessionKeepsDump ==
    ASSUME DumpInv, [MCNext]_<<allVars, session>>
    PROVE  DumpInv'
<1>0. /\ ScriptCommands \subseteq CommandText /\ f \in FunName /\ g \in FunName
      /\ \A list \in DatatypeLists \cup GroupLists : list \in Seq(DatatypeText)
  BY CommandAssumption
<1>1. ASSUME NEW list \in DatatypeLists \cup GroupLists, Execute(DatatypesCommand(list)), UNCHANGED <<script, dumped>>
      PROVE  DumpInv'
  <2>1. DatatypesCommand(list) \in CommandText
    BY <1>0, DatatypesCommandType
  <2> QED BY <1>1, <2>1, ExecuteKeeps, ScriptSame DEF DumpTypesAfter
<1>2. ASSUME Next \/ ScopedNext, UNCHANGED dumpVars PROVE DumpInv'
  <2>1. Operation
    BY <1>2, ScopedStepIsStep, NextIsOperation
  <2> QED BY <1>2, <2>1, OperationKeepsDump DEF dumpVars
<1>3. ASSUME Scripting PROVE DumpInv'
  <2>1. ASSUME NEW c \in ScriptCommands, Execute(c), UNCHANGED <<script, dumped>> PROVE DumpInv'
    BY <1>0, <2>1, ExecuteKeeps, ScriptSame DEF DumpTypesAfter
  <2>2. ASSUME NEW n \in {f, g}, NEW kind \in {Absent, "dec"}, DefineFun(n, kind), ForgetAbsent,
               UNCHANGED <<constructors, datatypeParams, script, dumped>>
        PROVE  DumpInv'
    <3>1. Operation
      BY <1>0, <2>2 DEF Operation, FunKind
    <3> QED BY <2>2, <3>1, OperationKeepsDump
  <2>3. ASSUME PushLevel, UNCHANGED dumpVars PROVE DumpInv'
    BY <2>3, OperationKeepsDump DEF Operation, dumpVars
  <2>4. ASSUME PopLevel, ForgetAbsent, UNCHANGED <<constructors, datatypeParams, script, dumped>> PROVE DumpInv'
    BY <2>4, OperationKeepsDump DEF Operation
  <2> QED BY <1>1, <1>3, <2>1, <2>2, <2>3, <2>4 DEF Scripting
<1>4. ASSUME Grouping PROVE DumpInv'
  BY <1>1, <1>4 DEF Grouping
<1>5. ASSUME NEW list \in DatatypeLists, DeclareDatatypes(list), UNCHANGED <<script, dumped>> PROVE DumpInv'
  BY <1>0, <1>5, DeclareDatatypesKeeps, ScriptSame DEF DumpTypesAfter
<1>6. ASSUME PopLevel \/ ResetAll, UNCHANGED dumpVars PROVE DumpInv'
  BY <1>6, OperationKeepsDump DEF Operation, dumpVars
<1>7. ASSUME UNCHANGED <<allVars, session>> PROVE DumpInv'
  <2>1. UNCHANGED symbolVars /\ UNCHANGED dumpVars
    BY <1>7 DEF allVars
  <2>2. TypeOK' /\ DeclaredListed'
    BY <2>1, NothingKeepsLists DEF DumpInv
  <2> QED BY <2>1, <2>2 DEF dumpVars, DumpInv, DumpTypeOK
<1> QED BY <1>2, <1>3, <1>4, <1>5, <1>6, <1>7, TakeDumpKeeps, ReadCommandKeeps DEF MCNext

LEMMA SessionStart == MCInit => DumpInv
<1> SUFFICES ASSUME MCInit PROVE DumpInv
  OBVIOUS
<1>1. TypeOK /\ DeclaredListed
  BY InitLists DEF MCInit
<1>2. DumpTypeOK
  BY EmptySeq DEF MCInit, DumpInit, DumpTypeOK
<1> QED BY <1>1, <1>2 DEF DumpInv

LEMMA SessionInvariant == MCSpec => []DumpInv
<1>1. DumpInv /\ [MCNext]_<<allVars, session>> => DumpInv'
  BY SessionKeepsDump
<1> QED BY <1>1, SessionStart, PTL DEF MCSpec

(* Whatever is declared, popped, fails to be declared, is dumped or read back, *)
(* the tables, datatypes and commands keep their types.                       *)
THEOREM SessionsKeepTypes == MCSpec => [](TypeOK /\ DumpTypeOK)
BY SessionInvariant, PTL DEF DumpInv

(* getFunctions and dumpSMT2 walk the lists of names only: what a declare-     *)
(* datatypes declares is listed, too, even when it fails, and so is what is    *)
(* read back.                                                                 *)
THEOREM SessionsListDeclared == MCSpec => []DeclaredListed
BY SessionInvariant, PTL DEF DumpInv

(* A dump writes datatypes in one command when each mentions the other,        *)
(* directly or not, in no other case, and after what they mention              *)
(* (test_datatype_groups.cpp:15), whatever the datatypes are and however       *)
(* strongconnect finds their mentions ordered.                                *)
THEOREM GroupsAreWritten == MCSpec => []OneCommandPerGroup
<1>1. DumpInv => OneCommandPerGroup
  BY GroupsOfState DEF DumpInv, TypeOK
<1> QED BY <1>1, SessionInvariant, PTL

=============================================================================
