------------------------ MODULE AssertionNamesProofs ------------------------
(***************************************************************************)
(* Proofs about AssertionNames.  Types hold for every behaviour.  In the    *)
(* sessions of ScopedSpec the two maps are inverse to each other, and the  *)
(* recorded names and displaced bindings implement a stack of snapshots;   *)
(* the sessions of MCAssertionNames inherit this where they are             *)
(* disciplined.                                                             *)
(***************************************************************************)
EXTENDS MCAssertionNames, WellFoundedInduction, TLAPS

-----------------------------------------------------------------------------
(* Types *)

LEMMA DisplacedType ==
    ASSUME TypeOK, NEW a \in Name, NEW m \in Node
    PROVE  Displaced(a, m) \in Seq(Binding)
<1>1. LosesName(a, m) => [name |-> nameOf[m], node |-> m] \in Binding
  BY DEF LosesName, TypeOK, NamesOf, Binding
<1>2. StealsName(a, m) => [name |-> a, node |-> named[a]] \in Binding
  BY DEF StealsName, TypeOK, Naming, Binding
<1>3. (IF LosesName(a, m) THEN << [name |-> nameOf[m], node |-> m] >> ELSE << >>) \in Seq(Binding)
  BY <1>1
<1>4. (IF StealsName(a, m) THEN << [name |-> a, node |-> named[a]] >> ELSE << >>) \in Seq(Binding)
  BY <1>2
<1>. QED BY <1>3, <1>4 DEF Displaced

(* What a naming does to the frames, one field at a time. *)
LEMMA NamedFrame ==
    ASSUME TypeOK, NEW a \in Name, NEW m \in Node, NameAssertion(a, m), frames # << >>
    PROVE  /\ Len(frames) \in Nat \ {0}
           /\ frames' \in Seq(Frame)
           /\ Len(frames') = Len(frames)
           /\ \A i \in 1 .. Len(frames) - 1 : frames'[i] = frames[i]
           /\ frames'[Len(frames)] = [added |-> Top.added \cup {a},
                                      replaced |-> Top.replaced \o Displaced(a, m)]
<1>. DEFINE new == [added |-> Top.added \cup {a}, replaced |-> Top.replaced \o Displaced(a, m)]
<1>1. frames \in Seq(Frame) /\ Len(frames) \in Nat \ {0}
  BY DEF TypeOK
<1>2. Top \in Frame
  BY <1>1 DEF Top
<1>3. new \in Frame
  <2>1. Top.replaced \o Displaced(a, m) \in Seq(Binding)
    BY <1>2, DisplacedType DEF Frame
  <2>. QED BY <1>2, <2>1 DEF Frame
<1>4. frames' = [frames EXCEPT ![Len(frames)] = new]
  BY DEF NameAssertion, Top
<1>. HIDE DEF new
<1>5. /\ frames' \in Seq(Frame)
      /\ Len(frames') = Len(frames)
      /\ \A i \in 1 .. Len(frames) - 1 : frames'[i] = frames[i]
      /\ frames'[Len(frames)] = new
  BY <1>1, <1>3, <1>4
<1>. QED BY <1>1, <1>5 DEF new

(* Dropping the innermost scope. *)
LEMMA OuterType ==
    ASSUME NEW S, NEW s \in Seq(S), s # << >>
    PROVE  /\ Len(s) \in Nat \ {0} /\ Len(s) - 1 \in Nat
           /\ Outer(s) \in Seq(S)
           /\ Len(Outer(s)) = Len(s) - 1
           /\ \A i \in 1 .. Len(s) - 1 : Outer(s)[i] = s[i]
BY DEF Outer

(* A nonempty set of naturals has a least element. *)
LEMMA LeastNat ==
    ASSUME NEW S \in SUBSET Nat, S # {}
    PROVE  \E i \in S : \A j \in S : i <= j
<1>1. \E i \in S : \A j \in S : ~ (<<j, i>> \in OpToRel(<, Nat))
  BY WFMin, NatLessThanWellFounded, Zenon
<1>2. PICK i \in S : \A j \in S : ~ (<<j, i>> \in OpToRel(<, Nat))
  BY <1>1
<1>3. \A j \in S : ~ (j < i)
  BY <1>2, Zenon DEF OpToRel
<1>. QED BY <1>3

(* Where the records name a, the replay finds a first record of it. *)
LEMMA FirstOfNameExists ==
    ASSUME NEW r \in Seq(Binding), NEW a, \E i \in DOMAIN r : r[i].name = a
    PROVE  /\ FirstOfName(r, a) \in DOMAIN r
           /\ r[FirstOfName(r, a)].name = a
<1>. DEFINE S == {i \in DOMAIN r : r[i].name = a}
<1>0. S \in SUBSET Nat /\ S # {}
  OBVIOUS
<1>1. PICK i \in S : \A j \in S : i <= j
  <2>. HIDE DEF S
  <2>. QED BY <1>0, LeastNat
<1>2. i \in DOMAIN r /\ r[i].name = a /\ \A j \in 1 .. i - 1 : r[j].name # a
  BY <1>1
<1>. QED BY <1>2 DEF FirstOfName

LEMMA FirstOfNodeExists ==
    ASSUME NEW r \in Seq(Binding), NEW m, \E i \in DOMAIN r : r[i].node = m
    PROVE  /\ FirstOfNode(r, m) \in DOMAIN r
           /\ r[FirstOfNode(r, m)].node = m
<1>. DEFINE S == {i \in DOMAIN r : r[i].node = m}
<1>0. S \in SUBSET Nat /\ S # {}
  OBVIOUS
<1>1. PICK i \in S : \A j \in S : i <= j
  <2>. HIDE DEF S
  <2>. QED BY <1>0, LeastNat
<1>2. i \in DOMAIN r /\ r[i].node = m /\ \A j \in 1 .. i - 1 : r[j].node # m
  BY <1>1
<1>. QED BY <1>2 DEF FirstOfNode

LEMMA UndoType ==
    ASSUME NEW f \in Frame, NEW st \in [named : Naming, nameOf : NamesOf]
    PROVE  Undo(f, st) \in [named : Naming, nameOf : NamesOf]
<1>. DEFINE r == f.replaced
<1>0. r \in Seq(Binding)
  BY DEF Frame
<1>1. \A i \in DOMAIN r : r[i].name \in Name /\ r[i].node \in Node
  <2>. HIDE DEF r
  <2>1. \A i \in DOMAIN r : r[i] \in Binding
    BY <1>0
  <2>. QED BY <2>1 DEF Binding
<1>2. ASSUME NEW a \in Name PROVE Undo(f, st).named[a] \in Node \cup {NoNode}
  <2>1. CASE \E i \in DOMAIN r : r[i].name = a
    BY <1>0, <1>1, <2>1, FirstOfNameExists DEF Undo
  <2>2. CASE ~(\E i \in DOMAIN r : r[i].name = a)
    BY <2>2 DEF Undo, Naming
  <2>. QED BY <2>1, <2>2
<1>3. ASSUME NEW m \in Node PROVE Undo(f, st).nameOf[m] \in Name \cup {NoName}
  <2>1. CASE \E i \in DOMAIN r : r[i].node = m
    BY <1>0, <1>1, <2>1, FirstOfNodeExists DEF Undo
  <2>2. CASE ~(\E i \in DOMAIN r : r[i].node = m)
    BY <2>2 DEF Undo, NamesOf
  <2>. QED BY <2>1, <2>2
<1>. DEFINE u == Undo(f, st)
<1>4. /\ u = [named |-> u.named, nameOf |-> u.nameOf]
      /\ u.named = [a \in Name |-> u.named[a]]
      /\ u.nameOf = [m \in Node |-> u.nameOf[m]]
  BY DEF Undo
<1>5. \A a \in Name : u.named[a] \in Node \cup {NoNode}
  BY <1>2
<1>6. \A m \in Node : u.nameOf[m] \in Name \cup {NoName}
  BY <1>3
<1>. HIDE DEF u
<1>7. u.named \in Naming
  BY <1>4, <1>5 DEF Naming
<1>8. u.nameOf \in NamesOf
  BY <1>4, <1>6 DEF NamesOf
<1>9. u \in [named : Naming, nameOf : NamesOf]
  BY <1>4, <1>7, <1>8
<1>. QED BY <1>9 DEF u

LEMMA NextTypeOK == TypeOK /\ [Next]_nameVars => TypeOK'
<1>. SUFFICES ASSUME TypeOK, [Next]_nameVars PROVE TypeOK'
  OBVIOUS
<1>1. Unnamed.named \in Naming /\ Unnamed.nameOf \in NamesOf
  BY DEF Unnamed, Naming, NamesOf
<1>2. ASSUME NEW a \in Name, NEW m \in Node, NameAssertion(a, m) PROVE TypeOK'
  <2>1. named' \in Naming
    BY <1>2 DEF NameAssertion, TypeOK, Naming
  <2>2. nameOf' \in NamesOf
    BY <1>2 DEF NameAssertion, TypeOK, NamesOf
  <2>3. frames' \in Seq(Frame) /\ Len(frames') = Len(frames)
    BY <1>2, NamedFrame DEF NameAssertion, TypeOK
  <2>. QED BY <1>2, <2>1, <2>2, <2>3 DEF NameAssertion, TypeOK
<1>3. CASE PushLevel
  <2>1. [added |-> {}, replaced |-> << >>] \in Frame
    BY DEF Frame
  <2>2. Now \in [named : Naming, nameOf : NamesOf]
    BY DEF Now, TypeOK
  <2>. QED BY <1>3, <2>1, <2>2 DEF PushLevel, TypeOK
<1>4. CASE PopLevel
  <2>1. Top \in Frame /\ Now \in [named : Naming, nameOf : NamesOf]
    BY <1>4 DEF PopLevel, Top, Now, TypeOK
  <2>2. Undo(Top, Now) \in [named : Naming, nameOf : NamesOf]
    BY <2>1, UndoType
  <2>3. frames' \in Seq(Frame) /\ Len(frames') = Len(frames) - 1
    BY <1>4, OuterType DEF PopLevel, TypeOK
  <2>4. /\ snapshots' \in Seq([named : Naming, nameOf : NamesOf])
        /\ Len(snapshots') = Len(frames) - 1
    <3>1. frames # << >> /\ frames \in Seq(Frame)
      BY <1>4 DEF PopLevel, TypeOK
    <3>2. snapshots # << >> /\ Len(snapshots) = Len(frames)
      BY <3>1 DEF TypeOK
    <3>. QED BY <1>4, <3>2, OuterType DEF PopLevel, TypeOK
  <2>5. named' \in Naming /\ nameOf' \in NamesOf
    BY <1>4, <2>2 DEF PopLevel
  <2>. QED BY <2>3, <2>4, <2>5 DEF TypeOK
<1>5. CASE ResetAssertions
  <2>1. Unnamed \in [named : Naming, nameOf : NamesOf]
    BY <1>1 DEF Unnamed
  <2>2. /\ snapshots' \in Seq([named : Naming, nameOf : NamesOf])
        /\ Len(snapshots') = Len(frames)
    BY <1>5, <2>1 DEF ResetAssertions, TypeOK
  <2>. QED BY <1>1, <1>5, <2>2 DEF ResetAssertions, TypeOK
<1>6. CASE ResetAll
  BY <1>1, <1>6 DEF ResetAll, TypeOK
<1>7. CASE UNCHANGED nameVars
  BY <1>7 DEF nameVars, TypeOK
<1>. QED BY <1>2, <1>3, <1>4, <1>5, <1>6, <1>7 DEF Next

(* Both maps stay functions between names and nodes, and the replay of a   *)
(* pop always finds the record it looks for, in every session.             *)
THEOREM TypeCorrect == Spec => []TypeOK
<1>1. Init => TypeOK
  BY DEF Init, TypeOK, Unnamed, Naming, NamesOf
<1>. QED BY <1>1, NextTypeOK, PTL DEF Spec

-----------------------------------------------------------------------------
(* What a pop computes, in terms of the set of records *)

LEMMA UndoRecorded ==
    ASSUME NEW f \in Frame, NEW st, DisplacedOnce(f, st), NEW e \in Records(f)
    PROVE  /\ e \in Binding
           /\ Undo(f, st).named[e.name] = e.node
           /\ Undo(f, st).nameOf[e.node] = e.name
<1>1. f.replaced \in Seq(Binding)
  BY DEF Frame
<1>2. PICK i \in DOMAIN f.replaced : e = f.replaced[i]
  BY DEF Records
<1>3. e \in Binding
  BY <1>1, <1>2
<1>4. Undo(f, st).named[e.name] = e.node
  <2>. DEFINE j == FirstOfName(f.replaced, e.name)
  <2>1. j \in DOMAIN f.replaced /\ f.replaced[j].name = e.name
    BY <1>1, <1>2, FirstOfNameExists
  <2>2. f.replaced[j] = e
    BY <2>1 DEF DisplacedOnce, Records
  <2>. QED BY <1>2, <1>3, <2>2 DEF Undo, Binding
<1>5. Undo(f, st).nameOf[e.node] = e.name
  <2>. DEFINE j == FirstOfNode(f.replaced, e.node)
  <2>1. j \in DOMAIN f.replaced /\ f.replaced[j].node = e.node
    BY <1>1, <1>2, FirstOfNodeExists
  <2>2. f.replaced[j] = e
    BY <2>1 DEF DisplacedOnce, Records
  <2>. QED BY <1>2, <1>3, <2>2 DEF Undo, Binding
<1>. QED BY <1>3, <1>4, <1>5

LEMMA UndoUnrecorded ==
    ASSUME NEW f, NEW st
    PROVE  /\ \A a \in Name : (\A e \in Records(f) : e.name # a) =>
                Undo(f, st).named[a] = IF a \in f.added THEN NoNode ELSE st.named[a]
           /\ \A m \in Node : (\A e \in Records(f) : e.node # m) =>
                Undo(f, st).nameOf[m] =
                    IF \E a \in f.added : st.named[a] = m THEN NoName ELSE st.nameOf[m]
BY DEF Undo, Records

(* Two undo results that agree everywhere are the same. *)
LEMMA UndoEqual ==
    ASSUME NEW f, NEW st, NEW g, NEW tt,
           \A a \in Name : Undo(f, st).named[a] = Undo(g, tt).named[a],
           \A m \in Node : Undo(f, st).nameOf[m] = Undo(g, tt).nameOf[m]
    PROVE  Undo(f, st) = Undo(g, tt)
<1>. DEFINE u == Undo(f, st)
            w == Undo(g, tt)
<1>1. /\ u = [named |-> u.named, nameOf |-> u.nameOf]
      /\ u.named = [a \in Name |-> u.named[a]]
      /\ u.nameOf = [m \in Node |-> u.nameOf[m]]
  BY DEF Undo
<1>2. /\ w = [named |-> w.named, nameOf |-> w.nameOf]
      /\ w.named = [a \in Name |-> w.named[a]]
      /\ w.nameOf = [m \in Node |-> w.nameOf[m]]
  BY DEF Undo
<1>3. u.named = w.named /\ u.nameOf = w.nameOf
  <2>1. /\ \A a \in Name : u.named[a] = w.named[a]
        /\ \A m \in Node : u.nameOf[m] = w.nameOf[m]
    OBVIOUS
  <2>. HIDE DEF u, w
  <2>. QED BY <1>1, <1>2, <2>1
<1>4. u = w
  <2>. HIDE DEF u, w
  <2>. QED BY <1>1, <1>2, <1>3
<1>. QED BY <1>4

(* The records of the innermost scope after a naming. *)
LEMMA NamedRecords ==
    ASSUME TypeOK, frames # << >>, NEW a \in Name, NEW m \in Node,
           NEW f, f = [added |-> Top.added \cup {a}, replaced |-> Top.replaced \o Displaced(a, m)]
    PROVE  Records(f) = Records(Top)
                          \cup (IF LosesName(a, m) THEN {[name |-> nameOf[m], node |-> m]} ELSE {})
                          \cup (IF StealsName(a, m) THEN {[name |-> a, node |-> named[a]]} ELSE {})
<1>. DEFINE d == Displaced(a, m)
            r == Top.replaced
<1>0. Top \in Frame
  BY DEF TypeOK, Top
<1>1. r \in Seq(Binding) /\ d \in Seq(Binding)
  BY <1>0, DisplacedType DEF Frame
<1>2. {d[i] : i \in DOMAIN d}
        = (IF LosesName(a, m) THEN {[name |-> nameOf[m], node |-> m]} ELSE {})
            \cup (IF StealsName(a, m) THEN {[name |-> a, node |-> named[a]]} ELSE {})
  <2>. DEFINE p == [name |-> nameOf[m], node |-> m]
              q == [name |-> a, node |-> named[a]]
  <2>1. d = (IF LosesName(a, m) THEN << p >> ELSE << >>)
              \o (IF StealsName(a, m) THEN << q >> ELSE << >>)
    BY DEF Displaced
  <2>. HIDE DEF d, p, q
  <2>2. CASE LosesName(a, m) /\ StealsName(a, m)
    <3>1. d = << p >> \o << q >>
      BY <2>1, <2>2
    <3>2. DOMAIN d = {1, 2} /\ d[1] = p /\ d[2] = q
      BY <3>1
    <3>. QED BY <2>2, <3>2 DEF p, q
  <2>3. CASE LosesName(a, m) /\ ~StealsName(a, m)
    <3>1. d = << p >>
      BY <2>1, <2>3
    <3>. QED BY <2>3, <3>1 DEF p, q
  <2>4. CASE ~LosesName(a, m) /\ StealsName(a, m)
    <3>1. d = << q >>
      BY <2>1, <2>4
    <3>. QED BY <2>4, <3>1 DEF p, q
  <2>5. CASE ~LosesName(a, m) /\ ~StealsName(a, m)
    <3>1. d = << >>
      BY <2>1, <2>5
    <3>. QED BY <2>5, <3>1
  <2>. QED BY <2>2, <2>3, <2>4, <2>5
<1>3. {(r \o d)[i] : i \in DOMAIN (r \o d)} = {r[i] : i \in DOMAIN r} \cup {d[i] : i \in DOMAIN d}
  <2>. HIDE DEF r, d
  <2>1. ASSUME NEW i \in DOMAIN (r \o d)
        PROVE  (\E j \in DOMAIN r : (r \o d)[i] = r[j]) \/ (\E j \in DOMAIN d : (r \o d)[i] = d[j])
    <3>1. CASE i \in DOMAIN r
      BY <1>1, <3>1
    <3>2. CASE i \notin DOMAIN r
      <4>1. i - Len(r) \in DOMAIN d /\ (r \o d)[i] = d[i - Len(r)]
        BY <1>1, <2>1, <3>2
      <4>. QED BY <4>1
    <3>. QED BY <3>1, <3>2
  <2>2. ASSUME NEW j \in DOMAIN r PROVE \E i \in DOMAIN (r \o d) : (r \o d)[i] = r[j]
    BY SMTT(20), <1>1, <2>2
  <2>3. ASSUME NEW j \in DOMAIN d PROVE \E i \in DOMAIN (r \o d) : (r \o d)[i] = d[j]
    <3>1. Len(r) + j \in DOMAIN (r \o d) /\ (r \o d)[Len(r) + j] = d[j]
      BY <1>1, <2>3
    <3>. QED BY <3>1
  <2>. QED BY <2>1, <2>2, <2>3
<1>. QED BY ZenonT(40), <1>2, <1>3 DEF Records

-----------------------------------------------------------------------------
(* The inductive invariant of ScopedSpec *)

NamesInv == Bijection /\ ScopesUndo /\ OuterDisplacedOnce

(* A naming keeps the two maps inverse. *)
LEMMA NamingInverse ==
    ASSUME TypeOK, Bijection, NEW a \in Name, NEW m \in Node, NameAssertion(a, m)
    PROVE  Bijection'
<1>. SUFFICES ASSUME NEW x \in Name, NEW y \in Node
              PROVE  named'[x] = y <=> nameOf'[y] = x
  BY DEF Bijection, Inverse, Now
<1>1. /\ \A b \in Name, k \in Node : named[b] = k <=> nameOf[k] = b
      /\ \A k \in Node : nameOf[k] \in Name \cup {NoName}
      /\ \A b \in Name : named[b] \in Node \cup {NoNode}
      /\ NoName \notin Name /\ NoNode \notin Node
  BY AbsentAssumption DEF Bijection, Inverse, Now, TypeOK, Naming, NamesOf
<1>2. named'[x] = IF x = a THEN m ELSE IF nameOf[m] = x THEN NoNode ELSE named[x]
  BY <1>1 DEF NameAssertion, LosesName
<1>3. nameOf'[y] = IF y = m THEN a ELSE IF named[a] = y THEN NoName ELSE nameOf[y]
  BY <1>1 DEF NameAssertion, StealsName
<1>. QED BY <1>1, <1>2, <1>3

(* A naming that displaces outer bindings only is undone with the rest of  *)
(* its scope, and keeps the records free of repetitions.                   *)
LEMMA NamingUndone ==
    ASSUME TypeOK, Bijection, frames # << >>, DisplacedOnce(Top, Now),
           NEW a \in Name, NEW m \in Node, NameAssertion(a, m), DisplacesOuterOnly(a, m),
           NEW f \in Frame, f.added = Top.added \cup {a},
           Records(f) = Records(Top)
                          \cup (IF LosesName(a, m) THEN {[name |-> nameOf[m], node |-> m]} ELSE {})
                          \cup (IF StealsName(a, m) THEN {[name |-> a, node |-> named[a]]} ELSE {}),
           NEW st,
           \A x \in Name : st.named[x] = named'[x],
           \A y \in Node : st.nameOf[y] = nameOf'[y]
    PROVE  DisplacedOnce(f, st) /\ Undo(f, st) = Undo(Top, Now)
<1>. DEFINE lost == [name |-> nameOf[m], node |-> m]
            stolen == [name |-> a, node |-> named[a]]
<1>1. /\ \A b \in Name, k \in Node : named[b] = k <=> nameOf[k] = b
      /\ \A k \in Node : nameOf[k] \in Name \cup {NoName}
      /\ \A b \in Name : named[b] \in Node \cup {NoNode}
      /\ NoName \notin Name /\ NoNode \notin Node
      /\ named[a] # m
  BY AbsentAssumption DEF Bijection, Inverse, Now, TypeOK, Naming, NamesOf, NameAssertion
<1>2. \A x \in Name : st.named[x] = IF x = a THEN m ELSE IF nameOf[m] = x THEN NoNode ELSE named[x]
  BY <1>1 DEF NameAssertion, LosesName
<1>3. \A y \in Node : st.nameOf[y] = IF y = m THEN a ELSE IF named[a] = y THEN NoName ELSE nameOf[y]
  BY <1>1 DEF NameAssertion, StealsName
<1>4. Top \in Frame /\ f \in Frame /\ f.added = Top.added \cup {a}
  BY DEF TypeOK, Top
<1>5. Records(f) = Records(Top) \cup (IF LosesName(a, m) THEN {lost} ELSE {})
                                \cup (IF StealsName(a, m) THEN {stolen} ELSE {})
  OBVIOUS
<1>6. /\ \A d, e \in Records(Top) : (d.name = e.name \/ d.node = e.node) => d = e
      /\ \A e \in Records(Top) :
            /\ e.name \in Name /\ e.node \in Node
            /\ named[e.name] # NoNode => e.name \in Top.added
            /\ nameOf[e.node] # NoName => nameOf[e.node] \in Top.added
  BY <1>4, UndoRecorded DEF DisplacedOnce, Now, Binding
<1>7. LosesName(a, m) =>
         /\ nameOf[m] \in Name /\ nameOf[m] # a /\ nameOf[m] \notin Top.added
         /\ named[nameOf[m]] = m
         /\ lost.name = nameOf[m] /\ lost.node = m
  <2>. SUFFICES ASSUME LosesName(a, m) PROVE nameOf[m] \notin Top.added /\ nameOf[m] \in Name /\ nameOf[m] # a
    BY <1>1
  <2>1. nameOf[m] \in Name /\ nameOf[m] # a
    BY <1>1 DEF LosesName
  <2>2. 1 \in DOMAIN Displaced(a, m) /\ Displaced(a, m)[1] = lost
    BY DEF Displaced
  <2>. QED BY <2>1, <2>2 DEF DisplacesOuterOnly
<1>8. StealsName(a, m) =>
         /\ named[a] \in Node /\ named[a] # m /\ a \notin Top.added
         /\ nameOf[named[a]] = a
         /\ stolen.name = a /\ stolen.node = named[a]
  <2>. SUFFICES ASSUME StealsName(a, m) PROVE a \notin Top.added /\ named[a] \in Node /\ named[a] # m
    BY <1>1
  <2>1. named[a] \in Node /\ named[a] # m
    BY <1>1 DEF StealsName
  <2>2. \E i \in DOMAIN Displaced(a, m) : Displaced(a, m)[i] = stolen
    <3>1. CASE LosesName(a, m)
      <4>1. Displaced(a, m) = << lost >> \o << stolen >>
        BY <3>1 DEF Displaced
      <4>2. DOMAIN Displaced(a, m) = {1, 2} /\ Displaced(a, m)[2] = stolen
        <5>. HIDE DEF lost, stolen
        <5>. QED BY <4>1
      <4>. QED BY <4>2
    <3>2. CASE ~LosesName(a, m)
      <4>1. Displaced(a, m) = << stolen >>
        BY <3>2 DEF Displaced
      <4>. QED BY <4>1
    <3>. QED BY <3>1, <3>2
  <2>. QED BY <2>1, <2>2 DEF DisplacesOuterOnly
<1>9. LosesName(a, m) => \A e \in Records(Top) : e.name # nameOf[m] /\ e.node # m
  BY <1>1, <1>6, <1>7
<1>10. StealsName(a, m) => \A e \in Records(Top) : e.name # a /\ e.node # named[a]
  BY <1>1, <1>6, <1>8
<1>. HIDE DEF lost, stolen
<1>11. DisplacedOnce(f, st)
  <2>1. \A d, e \in Records(f) : (d.name = e.name \/ d.node = e.node) => d = e
    BY <1>5, <1>6, <1>7, <1>8, <1>9, <1>10
  <2>2. ASSUME NEW e \in Records(f)
        PROVE  /\ st.named[e.name] # NoNode => e.name \in f.added
               /\ st.nameOf[e.node] # NoName => st.nameOf[e.node] \in f.added
    <3>1. CASE e \in Records(Top)
      BY <1>1, <1>2, <1>3, <1>4, <1>6, <3>1
    <3>2. CASE LosesName(a, m) /\ e = lost
      BY <1>1, <1>2, <1>3, <1>4, <1>7, <3>2
    <3>3. CASE StealsName(a, m) /\ e = stolen
      BY <1>1, <1>2, <1>3, <1>4, <1>8, <3>3
    <3>. QED BY <1>5, <2>2, <3>1, <3>2, <3>3
  <2>. QED BY <2>1, <2>2 DEF DisplacedOnce
<1>12. ASSUME NEW x \in Name PROVE Undo(f, st).named[x] = Undo(Top, Now).named[x]
  <2>1. CASE \E e \in Records(Top) : e.name = x
    <3>1. PICK e \in Records(Top) : e.name = x
      BY <2>1
    <3>2. e \in Records(f)
      BY <1>5
    <3>. QED BY <1>4, <1>11, <3>1, <3>2, UndoRecorded
  <2>2. CASE \A e \in Records(Top) : e.name # x
    <3>1. Undo(Top, Now).named[x] = IF x \in Top.added THEN NoNode ELSE named[x]
      BY <2>2, UndoUnrecorded DEF Now
    <3>2. CASE LosesName(a, m) /\ x = nameOf[m]
      <4>1. lost \in Records(f) /\ Undo(f, st).named[lost.name] = lost.node
        BY <1>4, <1>5, <1>11, <3>2, UndoRecorded
      <4>. QED BY <1>7, <3>1, <3>2, <4>1
    <3>3. CASE StealsName(a, m) /\ x = a
      <4>1. stolen \in Records(f) /\ Undo(f, st).named[stolen.name] = stolen.node
        BY <1>4, <1>5, <1>11, <3>3, UndoRecorded
      <4>. QED BY <1>8, <3>1, <3>3, <4>1
    <3>4. CASE ~(LosesName(a, m) /\ x = nameOf[m]) /\ ~(StealsName(a, m) /\ x = a)
      <4>1. \A e \in Records(f) : e.name # x
        BY <1>5, <1>7, <1>8, <2>2, <3>4
      <4>2. Undo(f, st).named[x] = IF x \in f.added THEN NoNode ELSE st.named[x]
        BY <4>1, UndoUnrecorded
      <4>. QED BY <1>1, <1>2, <1>4, <3>1, <3>4, <4>2 DEF StealsName, LosesName
    <3>. QED BY <3>2, <3>3, <3>4
  <2>. QED BY <2>1, <2>2
<1>13. ASSUME NEW y \in Node PROVE Undo(f, st).nameOf[y] = Undo(Top, Now).nameOf[y]
  <2>1. CASE \E e \in Records(Top) : e.node = y
    <3>1. PICK e \in Records(Top) : e.node = y
      BY <2>1
    <3>2. e \in Records(f)
      BY <1>5
    <3>. QED BY <1>4, <1>11, <3>1, <3>2, UndoRecorded
  <2>2. CASE \A e \in Records(Top) : e.node # y
    <3>0. Top.added \subseteq Name
      BY <1>4 DEF Frame
    <3>1. Undo(Top, Now).nameOf[y] =
            IF \E b \in Top.added : named[b] = y THEN NoName ELSE nameOf[y]
      BY <2>2, UndoUnrecorded DEF Now
    <3>2. CASE LosesName(a, m) /\ y = m
      <4>1. lost \in Records(f) /\ Undo(f, st).nameOf[lost.node] = lost.name
        BY <1>4, <1>5, <1>11, <3>2, UndoRecorded
      <4>2. ~\E b \in Top.added : named[b] = y
        BY <1>1, <1>7, <3>0, <3>2
      <4>. QED BY <1>7, <3>1, <3>2, <4>1, <4>2
    <3>3. CASE StealsName(a, m) /\ y = named[a]
      <4>1. stolen \in Records(f) /\ Undo(f, st).nameOf[stolen.node] = stolen.name
        BY <1>4, <1>5, <1>11, <3>3, UndoRecorded
      <4>2. ~\E b \in Top.added : named[b] = y
        BY <1>1, <1>8, <3>0, <3>3
      <4>. QED BY <1>8, <3>1, <3>3, <4>1, <4>2
    <3>4. CASE ~(LosesName(a, m) /\ y = m) /\ ~(StealsName(a, m) /\ y = named[a])
      <4>1. \A e \in Records(f) : e.node # y
        BY <1>5, <1>7, <1>8, <2>2, <3>4
      <4>2. Undo(f, st).nameOf[y] =
              IF \E b \in f.added : st.named[b] = y THEN NoName ELSE st.nameOf[y]
        BY <4>1, UndoUnrecorded
      <4>3. CASE y = m
        <5>1. nameOf[m] = NoName
          BY <1>1, <3>4, <4>3 DEF LosesName
        <5>2. a \in f.added /\ st.named[a] = m
          BY <1>2, <1>4
        <5>. QED BY <3>1, <4>2, <4>3, <5>1, <5>2
      <4>4. CASE y # m
        <5>1. st.nameOf[y] = nameOf[y] /\ named[a] # y
          BY <1>1, <1>3, <3>4, <4>4 DEF StealsName
        <5>2. (\E b \in f.added : st.named[b] = y) <=> (\E b \in Top.added : named[b] = y)
          <6>1. \A b \in Name : st.named[b] = y <=> named[b] = y
            BY <1>1, <1>2, <4>4, <5>1
          <6>. QED BY <1>4, <3>0, <5>1, <6>1
        <5>. QED BY <3>1, <4>2, <5>1, <5>2
      <4>. QED BY <4>3, <4>4
    <3>. QED BY <3>2, <3>3, <3>4
  <2>. QED BY <2>1, <2>2
<1>. QED BY <1>11, <1>12, <1>13, UndoEqual

(* Undoing a scope that recorded nothing changes nothing. *)
LEMMA UndoFresh ==
    ASSUME NEW st \in [named : Naming, nameOf : NamesOf],
           NEW f, f = [added |-> {}, replaced |-> << >>]
    PROVE  Undo(f, st) = st /\ DisplacedOnce(f, st)
<1>1. Records(f) = {} /\ f.added = {}
  BY DEF Records
<1>2. DisplacedOnce(f, st)
  BY <1>1 DEF DisplacedOnce
<1>. DEFINE u == Undo(f, st)
<1>3. /\ u = [named |-> u.named, nameOf |-> u.nameOf]
      /\ u.named = [a \in Name |-> u.named[a]]
      /\ u.nameOf = [m \in Node |-> u.nameOf[m]]
  BY DEF Undo
<1>4. /\ \A a \in Name : u.named[a] = st.named[a]
      /\ \A m \in Node : u.nameOf[m] = st.nameOf[m]
  BY <1>1, UndoUnrecorded
<1>5. u = st
  <2>. HIDE DEF u
  <2>1. u.named = st.named
    BY <1>3, <1>4 DEF Naming
  <2>2. u.nameOf = st.nameOf
    BY <1>3, <1>4 DEF NamesOf
  <2>. QED BY <1>3, <2>1, <2>2
<1>. QED BY <1>2, <1>5

LEMMA NamingInv ==
    ASSUME TypeOK, NamesInv, NEW a \in Name, NEW m \in Node,
           NameAssertion(a, m), DisplacesOuterOnly(a, m)
    PROVE  NamesInv'
<1>1. Bijection'
  BY NamingInverse DEF NamesInv
<1>2. CASE frames = << >>
  BY <1>1, <1>2 DEF NameAssertion, NamesInv, ScopesUndo, OuterDisplacedOnce
<1>3. CASE frames # << >>
  <2>. DEFINE n == Len(frames)
              f == [added |-> Top.added \cup {a}, replaced |-> Top.replaced \o Displaced(a, m)]
  <2>1. /\ n \in Nat \ {0} /\ Len(frames') = n
        /\ \A i \in 1 .. n - 1 : frames'[i] = frames[i]
        /\ frames'[n] = f
        /\ snapshots' = snapshots
    BY <1>3, NamedFrame DEF NameAssertion
  <2>2. /\ Inverse(snapshots[n]) /\ Undo(Top, Now) = snapshots[n] /\ DisplacedOnce(Top, Now)
    BY <2>1 DEF NamesInv, ScopesUndo, OuterDisplacedOnce, StateAt, Top
  <2>3. f \in Frame /\ f.added = Top.added \cup {a}
    <3>1. Top \in Frame
      BY <1>3 DEF TypeOK, Top
    <3>2. Top.replaced \o Displaced(a, m) \in Seq(Binding)
      BY <3>1, DisplacedType DEF Frame
    <3>. QED BY <3>1, <3>2 DEF Frame
  <2>4. Records(f) = Records(Top)
                       \cup (IF LosesName(a, m) THEN {[name |-> nameOf[m], node |-> m]} ELSE {})
                       \cup (IF StealsName(a, m) THEN {[name |-> a, node |-> named[a]]} ELSE {})
    BY <1>3, NamedRecords
  <2>. HIDE DEF f
  <2>5. ASSUME NEW st, st = [named |-> named', nameOf |-> nameOf']
        PROVE  DisplacedOnce(f, st) /\ Undo(f, st) = Undo(Top, Now)
    <3>1. /\ \A x \in Name : st.named[x] = named'[x]
          /\ \A y \in Node : st.nameOf[y] = nameOf'[y]
      BY <2>5
    <3>2. Bijection
      BY DEF NamesInv
    <3>. QED BY <1>3, <2>2, <2>3, <2>4, <3>1, <3>2, NamingUndone
  <2>6. DisplacedOnce(f, Now') /\ Undo(f, Now') = snapshots[n]
    BY <2>2, <2>5 DEF Now
  <2>7. ASSUME NEW i \in 1 .. n
        PROVE  /\ Undo(frames'[i], StateAt(i)') = snapshots[i]
               /\ DisplacedOnce(frames'[i], StateAt(i)')
    <3>1. CASE i = n
      BY <2>1, <2>6, <3>1 DEF StateAt
    <3>2. CASE i < n
      <4>1. frames'[i] = frames[i] /\ StateAt(i)' = StateAt(i)
        BY <2>1, <2>7, <3>2 DEF StateAt
      <4>. QED BY <4>1 DEF NamesInv, ScopesUndo, OuterDisplacedOnce
    <3>. QED BY <2>1, <2>7, <3>1, <3>2
  <2>8. ScopesUndo'
    BY <2>1, <2>7 DEF NamesInv, ScopesUndo
  <2>9. OuterDisplacedOnce'
    BY <2>1, <2>7 DEF OuterDisplacedOnce
  <2>. QED BY <1>1, <2>8, <2>9 DEF NamesInv
<1>. QED BY <1>2, <1>3

LEMMA PushInv == TypeOK /\ NamesInv /\ PushLevel => NamesInv'
<1>. SUFFICES ASSUME TypeOK, NamesInv, PushLevel PROVE NamesInv'
  OBVIOUS
<1>. DEFINE n == Len(frames)
            f == [added |-> {}, replaced |-> << >>]
<1>1. /\ n \in Nat /\ Len(frames') = n + 1
      /\ \A i \in 1 .. n : frames'[i] = frames[i]
      /\ frames'[n + 1] = f
      /\ \A i \in 1 .. n : snapshots'[i] = snapshots[i]
      /\ snapshots'[n + 1] = Now
  BY DEF PushLevel, TypeOK
<1>2. Now' = Now
  BY DEF PushLevel, Now
<1>3. Now \in [named : Naming, nameOf : NamesOf]
  BY DEF TypeOK, Now
<1>4. Undo(f, Now) = Now /\ DisplacedOnce(f, Now)
  BY <1>3, UndoFresh
<1>5. Bijection /\ Bijection'
  BY <1>2 DEF NamesInv, Bijection
<1>. HIDE DEF f
<1>6. ASSUME NEW i \in 1 .. n + 1
      PROVE  /\ Inverse(snapshots'[i])
             /\ Undo(frames'[i], StateAt(i)') = snapshots'[i]
             /\ DisplacedOnce(frames'[i], StateAt(i)')
  <2>1. CASE i = n + 1
    BY <1>1, <1>2, <1>4, <1>5, <2>1 DEF StateAt, Bijection
  <2>2. CASE i < n + 1
    <3>1. frames'[i] = frames[i] /\ snapshots'[i] = snapshots[i]
      BY <1>1, <1>6, <2>2
    <3>2. StateAt(i)' = StateAt(i)
      <4>1. CASE i = n
        BY <1>1, <4>1 DEF StateAt
      <4>2. CASE i < n
        BY <1>1, <1>6, <4>2 DEF StateAt
      <4>. QED BY <1>1, <1>6, <2>2, <4>1, <4>2
    <3>. QED BY <1>1, <1>6, <2>2, <3>1, <3>2 DEF NamesInv, ScopesUndo, OuterDisplacedOnce
  <2>. QED BY <1>1, <1>6, <2>1, <2>2
<1>. QED BY <1>1, <1>5, <1>6 DEF NamesInv, ScopesUndo, OuterDisplacedOnce

(* A pop brings back both maps of the matching push. *)
LEMMA PopRestores ==
    TypeOK /\ NamesInv /\ PopLevel =>
        /\ Len(frames) \in Nat \ {0} /\ Len(snapshots) = Len(frames)
        /\ Now' = snapshots[Len(frames)]
        /\ Len(frames') = Len(frames) - 1
        /\ \A i \in 1 .. Len(frames) - 1 : frames'[i] = frames[i]
        /\ Len(snapshots') = Len(frames) - 1
        /\ \A i \in 1 .. Len(frames) - 1 : snapshots'[i] = snapshots[i]
<1>. SUFFICES ASSUME TypeOK, NamesInv, PopLevel
              PROVE  /\ Len(frames) \in Nat \ {0} /\ Len(snapshots) = Len(frames)
                     /\ Now' = snapshots[Len(frames)]
                     /\ Len(frames') = Len(frames) - 1
                     /\ \A i \in 1 .. Len(frames) - 1 : frames'[i] = frames[i]
                     /\ Len(snapshots') = Len(frames) - 1
                     /\ \A i \in 1 .. Len(frames) - 1 : snapshots'[i] = snapshots[i]
  OBVIOUS
<1>1. frames \in Seq(Frame) /\ frames # << >> /\ frames' = Outer(frames)
  BY DEF PopLevel, TypeOK
<1>2. /\ Len(frames) \in Nat \ {0} /\ Len(frames') = Len(frames) - 1
      /\ \A i \in 1 .. Len(frames) - 1 : frames'[i] = frames[i]
  BY <1>1, OuterType
<1>3. /\ snapshots \in Seq([named : Naming, nameOf : NamesOf])
      /\ Len(snapshots) = Len(frames) /\ snapshots' = Outer(snapshots)
  BY DEF PopLevel, TypeOK
<1>4. snapshots # << >>
  BY <1>2, <1>3
<1>5. /\ Len(snapshots') = Len(frames) - 1
      /\ \A i \in 1 .. Len(frames) - 1 : snapshots'[i] = snapshots[i]
  BY <1>3, <1>4, OuterType
<1>6. Undo(Top, Now) = snapshots[Len(frames)]
  BY <1>2 DEF NamesInv, ScopesUndo, StateAt, Top
<1>7. snapshots[Len(frames)] \in [named : Naming, nameOf : NamesOf]
  <2>. DEFINE T == [named : Naming, nameOf : NamesOf]
  <2>1. snapshots \in Seq(T)
    BY <1>3
  <2>. HIDE DEF T
  <2>2. snapshots[Len(frames)] \in T
    BY <1>2, <1>3, <2>1
  <2>. QED BY <2>2 DEF T
<1>8. Now' = snapshots[Len(frames)]
  BY <1>6, <1>7 DEF Now, PopLevel
<1>. QED BY <1>2, <1>3, <1>5, <1>8

LEMMA PopInv == TypeOK /\ NamesInv /\ PopLevel => NamesInv'
<1>. SUFFICES ASSUME TypeOK, NamesInv, PopLevel PROVE NamesInv'
  OBVIOUS
<1>. DEFINE n == Len(frames)
<1>1. /\ n \in Nat \ {0} /\ Now' = snapshots[n]
      /\ Len(frames') = n - 1
      /\ \A i \in 1 .. n - 1 : frames'[i] = frames[i]
      /\ \A i \in 1 .. n - 1 : snapshots'[i] = snapshots[i]
  BY PopRestores
<1>2. Bijection'
  BY <1>1 DEF NamesInv, ScopesUndo, Bijection
<1>3. ASSUME NEW i \in 1 .. n - 1 PROVE StateAt(i)' = StateAt(i)
  <2>1. CASE i = n - 1
    BY <1>1, <2>1 DEF StateAt
  <2>2. CASE i < n - 1
    BY <1>1, <1>3, <2>2 DEF StateAt
  <2>. QED BY <1>1, <1>3, <2>1, <2>2
<1>4. ScopesUndo'
  BY <1>1, <1>3 DEF NamesInv, ScopesUndo
<1>5. OuterDisplacedOnce'
  BY <1>1, <1>3 DEF NamesInv, OuterDisplacedOnce
<1>. QED BY <1>2, <1>4, <1>5 DEF NamesInv

LEMMA UnnamedInverse == Inverse(Unnamed)
BY AbsentAssumption DEF Inverse, Unnamed

LEMMA ScopedNextInv == TypeOK /\ NamesInv /\ [ScopedNext]_nameVars => TypeOK' /\ NamesInv'
<1>. SUFFICES ASSUME TypeOK, NamesInv, [ScopedNext]_nameVars PROVE TypeOK' /\ NamesInv'
  OBVIOUS
<1>1. [Next]_nameVars
  BY DEF ScopedNext, Next
<1>2. TypeOK'
  BY <1>1, NextTypeOK
<1>. SUFFICES NamesInv'
  BY <1>2
<1>3. ASSUME NEW a \in Name, NEW m \in Node, DisplacesOuterOnly(a, m), NameAssertion(a, m)
      PROVE  NamesInv'
  BY <1>3, NamingInv
<1>4. CASE PushLevel
  BY <1>4, PushInv
<1>5. CASE PopLevel
  BY <1>5, PopInv
<1>6. CASE ResetAll
  <2>1. Now' = Unnamed /\ frames' = << >>
    BY <1>6 DEF ResetAll, Now, Unnamed
  <2>. QED BY <2>1, UnnamedInverse DEF NamesInv, Bijection, ScopesUndo, OuterDisplacedOnce
<1>7. CASE frames = << >> /\ ResetAssertions
  <2>1. Now' = Unnamed /\ frames' = << >>
    BY <1>7 DEF ResetAssertions, Now, Unnamed
  <2>. QED BY <2>1, UnnamedInverse DEF NamesInv, Bijection, ScopesUndo, OuterDisplacedOnce
<1>8. CASE UNCHANGED nameVars
  BY <1>8 DEF nameVars, NamesInv, Bijection, ScopesUndo, OuterDisplacedOnce, Now, StateAt
<1>. QED BY <1>3, <1>4, <1>5, <1>6, <1>7, <1>8 DEF ScopedNext

(* The invariant of those sessions. *)
LEMMA NamesInvariant == ScopedSpec => [](TypeOK /\ NamesInv)
<1>1. Init => TypeOK
  BY DEF Init, TypeOK, Unnamed, Naming, NamesOf
<1>2. Init => NamesInv
  <2>. SUFFICES ASSUME Init PROVE NamesInv
    OBVIOUS
  <2>1. Now = Unnamed /\ frames = << >>
    BY DEF Init, Now, Unnamed
  <2>. QED BY <2>1, UnnamedInverse DEF NamesInv, Bijection, ScopesUndo, OuterDisplacedOnce
<1>. QED BY <1>1, <1>2, ScopedNextInv, PTL DEF ScopedSpec

(* In sessions whose scopes displace outer bindings only, a name refers to *)
(* one assertion and an assertion has one name, at every depth; each scope *)
(* can be undone to the state of its push, and records nothing twice.      *)
THEOREM NamesConsistent == ScopedSpec => [](Bijection /\ ScopesUndo /\ OuterDisplacedOnce)
<1>1. NamesInv => Bijection /\ ScopesUndo /\ OuterDisplacedOnce
  BY DEF NamesInv
<1>. QED BY <1>1, NamesInvariant, PTL

-----------------------------------------------------------------------------
(* The refinement *)

LEMMA StepRefines ==
    TypeOK /\ NamesInv /\ [ScopedNext]_nameVars => [Store!Next]_(Store!storeVars)
<1>. SUFFICES ASSUME TypeOK, NamesInv, [ScopedNext]_nameVars
              PROVE  Store!Next \/ UNCHANGED Store!storeVars
  OBVIOUS
<1>1. CASE \E a \in Name, m \in Node : NameAssertion(a, m)
  BY <1>1 DEF NameAssertion, Store!Next, Store!Update
<1>2. CASE PushLevel
  BY <1>2 DEF PushLevel, Now, Store!Next, Store!Push
<1>3. CASE PopLevel
  <2>1. /\ Len(frames) \in Nat \ {0} /\ Len(snapshots) = Len(frames)
        /\ Now' = snapshots[Len(frames)]
    BY <1>3, PopRestores
  <2>2. snapshots # << >>
    BY <2>1
  <2>3. snapshots' = [i \in 1 .. Len(snapshots) - 1 |-> snapshots[i]]
    BY <1>3 DEF PopLevel, Outer
  <2>. QED BY <2>1, <2>2, <2>3 DEF Store!Next, Store!Pop
<1>4. CASE ResetAll
  BY <1>4 DEF ResetAll, Now, Unnamed, Store!Next, Store!Clear
<1>5. CASE frames = << >> /\ ResetAssertions
  <2>1. snapshots = << >> /\ snapshots' = << >>
    BY <1>5 DEF ResetAssertions, TypeOK
  <2>. QED BY <2>1 DEF Store!Next, Store!Update
<1>6. CASE UNCHANGED nameVars
  BY <1>6 DEF nameVars, Now, Store!storeVars
<1>. QED BY <1>1, <1>2, <1>3, <1>4, <1>5, <1>6 DEF ScopedNext

(* The names and displaced bindings that a scope records do as well as     *)
(* snapshots of the two maps: every pop brings the maps of its push back.  *)
THEOREM PopRestoresNames == ScopedSpec => ImplementsStore
<1>1. Init => Store!Init
  BY DEF Init, Now, Unnamed, Store!Init
<1>. QED BY <1>1, NamesInvariant, ScopedNextInv, StepRefines, PTL
        DEF ScopedSpec, ImplementsStore, Store!Spec
-----------------------------------------------------------------------------
(* The sessions of MCAssertionNames, for any names, assertions and scopes *)

mcVars == <<nameVars, disciplined>>

MCInv == TypeOK /\ (disciplined => NamesInv)

LEMMA MCInitInv == MCInit => MCInv
<1>1. Init => TypeOK
  BY DEF Init, TypeOK, Unnamed, Naming, NamesOf
<1>2. Init => NamesInv
  <2>. SUFFICES ASSUME Init PROVE NamesInv
    OBVIOUS
  <2>1. Now = Unnamed /\ frames = << >>
    BY DEF Init, Now, Unnamed
  <2>. QED BY <2>1, UnnamedInverse DEF NamesInv, Bijection, ScopesUndo, OuterDisplacedOnce
<1>. QED BY <1>1, <1>2 DEF MCInit, MCInv

(* The kind of a session never changes, and a disciplined one takes the      *)
(* steps of ScopedNext.                                                      *)
LEMMA MCStep ==
    [MCNext]_mcVars => /\ [Next]_nameVars
                       /\ disciplined' = disciplined
                       /\ disciplined => [ScopedNext]_nameVars
BY DEF MCNext, mcVars, ScopedNext, Next

LEMMA MCNextInv == MCInv /\ [MCNext]_mcVars => MCInv'
<1>. SUFFICES ASSUME MCInv, [MCNext]_mcVars PROVE MCInv'
  OBVIOUS
<1>1. TypeOK'
  BY MCStep, NextTypeOK DEF MCInv
<1>2. ASSUME disciplined' PROVE NamesInv'
  BY <1>2, MCStep, ScopedNextInv DEF MCInv
<1>. QED BY <1>1, <1>2 DEF MCInv

LEMMA MCInvariant == MCSpec => []MCInv
BY MCInitInv, MCNextInv, PTL DEF MCSpec, mcVars

(* popScope of a disciplined session undoes every scope to the state of its  *)
(* push, in which names and assertions are inverse.                          *)
THEOREM DisciplinedNamesConsistent == MCSpec => []DisciplinedScopesUndo
<1>1. MCInv => DisciplinedScopesUndo
  BY DEF MCInv, NamesInv, DisciplinedScopesUndo
<1>. QED BY <1>1, MCInvariant, PTL

(* nameAssertion keeps the two maps inverse in every session.                *)
THEOREM NamingKeepsInverse == MCSpec => NamingKeepsBijection
<1>1. MCInv /\ [MCNext]_mcVars =>
        [(\E a \in Name, m \in Node : NameAssertion(a, m)) /\ Bijection => Bijection']_nameVars
  BY NamingInverse DEF MCInv
<1>. QED BY <1>1, MCInvariant, PTL DEF MCSpec, NamingKeepsBijection, mcVars

LEMMA MCStepRefines ==
    MCInv /\ [MCNext]_mcVars => [DisciplinedStore!Next]_(DisciplinedStore!storeVars)
<1>. SUFFICES ASSUME MCInv, [MCNext]_mcVars
              PROVE  [DisciplinedStore!Next]_(DisciplinedStore!storeVars)
  OBVIOUS
<1>1. CASE disciplined
  <2>1. disciplined' = disciplined /\ TypeOK /\ NamesInv /\ [ScopedNext]_nameVars
    BY <1>1, MCStep DEF MCInv
  <2>2. [Store!Next]_(Store!storeVars)
    BY <2>1, StepRefines
  <2>. DEFINE C == IF disciplined THEN Now ELSE Unnamed
              S == IF disciplined THEN snapshots ELSE << >>
  <2>3. C = Now /\ C' = Now' /\ S = snapshots /\ S' = snapshots'
    BY <1>1, <2>1
  <2>. HIDE DEF C, S
  <2>4. CASE Store!Next
    <3>1. CASE UNCHANGED snapshots
      BY <2>3, <3>1 DEF DisciplinedStore!Next, DisciplinedStore!Update, S
    <3>2. CASE Store!Push
      BY <2>3, <3>2 DEF Store!Push, DisciplinedStore!Next, DisciplinedStore!Push, C, S
    <3>3. CASE Store!Pop
      BY <2>3, <3>3 DEF Store!Pop, DisciplinedStore!Next, DisciplinedStore!Pop, C, S
    <3>4. CASE Store!Unwind
      BY <2>3, <3>4 DEF Store!Unwind, DisciplinedStore!Next, DisciplinedStore!Unwind, C, S
    <3>5. CASE Store!Clear
      BY <2>3, <3>5 DEF Store!Clear, DisciplinedStore!Next, DisciplinedStore!Clear, C, S
    <3>. QED BY <2>4, <3>1, <3>2, <3>3, <3>4, <3>5 DEF Store!Next, Store!Update
  <2>5. CASE UNCHANGED Store!storeVars
    BY <2>3, <2>5 DEF Store!storeVars, DisciplinedStore!storeVars, C, S
  <2>. QED BY <2>2, <2>4, <2>5
<1>2. CASE ~disciplined
  BY <1>2, MCStep DEF DisciplinedStore!storeVars
<1>. QED BY <1>1, <1>2

(* What a scope records of names does as well as snapshots of the two maps.  *)
THEOREM DisciplinedPopRestoresNames == MCSpec => DisciplinedImplementsStore
<1>1. MCInit => DisciplinedStore!Init
  BY DEF MCInit, Init, Now, Unnamed, DisciplinedStore!Init
<1>. QED BY <1>1, MCInvariant, MCStepRefines, PTL
        DEF MCSpec, mcVars, DisciplinedImplementsStore, DisciplinedStore!Spec
-----------------------------------------------------------------------------
(* The outer bindings, in the sessions whose scopes do not nest *)

(* No binding of a, and no name of m, among the first n records. *)
NoneOf(r, n, a, m) == \A j \in 1 .. n : r[j].name # a /\ r[j].node # m

(* The innermost scope neither recorded nor took the binding of a to m, ... *)
Untouched(f, st, a, m) ==
    /\ a \notin f.added
    /\ st.named[a] = m /\ st.nameOf[m] = a
    /\ NoneOf(f.replaced, Len(f.replaced), a, m)

(* ... or recorded it before any other binding of a and any other name of m. *)
Recorded(f, a, m) ==
    \E i \in DOMAIN f.replaced :
        /\ f.replaced[i].name = a /\ f.replaced[i].node = m
        /\ NoneOf(f.replaced, i - 1, a, m)

BindingKept(f, st, a, m) == Untouched(f, st, a, m) \/ Recorded(f, a, m)

OuterKept(f, st, before) ==
    Inverse(before) =>
        /\ Inverse(st)
        /\ \A a \in Name, m \in Node : before.named[a] = m => BindingKept(f, st, a, m)

(* The inductive invariant of those sessions. *)
SingleScopeKept ==
    /\ Len(frames) <= 1
    /\ frames # << >> => OuterKept(frames[1], Now, snapshots[1])

(* The first record of a name, and of a node, is the one the replay leaves. *)
LEMMA FirstRecord ==
    ASSUME NEW r \in Seq(Binding), NEW i \in DOMAIN r, NEW a, NEW m,
           r[i].name = a, r[i].node = m, NoneOf(r, i - 1, a, m)
    PROVE  FirstOfName(r, a) = i /\ FirstOfNode(r, m) = i
<1>0. DOMAIN r = 1 .. Len(r) /\ Len(r) \in Nat
  OBVIOUS
<1>1. ASSUME NEW k \in DOMAIN r, r[k].name = a, \A j \in 1 .. k - 1 : r[j].name # a
      PROVE  k = i
  <2>1. ~(k < i) /\ ~(i < k)
    BY <1>0, <1>1 DEF NoneOf
  <2>. QED BY <1>0, <2>1
<1>2. ASSUME NEW k \in DOMAIN r, r[k].node = m, \A j \in 1 .. k - 1 : r[j].node # m
      PROVE  k = i
  <2>1. ~(k < i) /\ ~(i < k)
    BY <1>0, <1>2 DEF NoneOf
  <2>. QED BY <1>0, <2>1
<1>3. FirstOfName(r, a) = i
  BY <1>1 DEF FirstOfName, NoneOf
<1>4. FirstOfNode(r, m) = i
  BY <1>2 DEF FirstOfNode, NoneOf
<1>. QED BY <1>3, <1>4

(* A pop brings back a binding that is kept. *)
LEMMA KeptComesBack ==
    ASSUME NEW f \in Frame, NEW st, Inverse(st), NEW a \in Name, NEW m \in Node,
           BindingKept(f, st, a, m)
    PROVE  Undo(f, st).named[a] = m /\ Undo(f, st).nameOf[m] = a
<1>. DEFINE r == f.replaced
<1>0. r \in Seq(Binding)
  BY DEF Frame
<1>1. CASE Recorded(f, a, m)
  <2>1. PICK i \in DOMAIN r : /\ r[i].name = a /\ r[i].node = m
                              /\ NoneOf(r, i - 1, a, m)
    BY <1>1 DEF Recorded
  <2>2. FirstOfName(r, a) = i /\ FirstOfNode(r, m) = i
    <3>. HIDE DEF r
    <3>. QED BY <1>0, <2>1, FirstRecord
  <2>3. Undo(f, st).named[a] = m
    BY <2>1, <2>2 DEF Undo
  <2>4. Undo(f, st).nameOf[m] = a
    BY <2>1, <2>2 DEF Undo
  <2>. QED BY <2>3, <2>4
<1>2. CASE Untouched(f, st, a, m)
  <2>1. /\ \A e \in Records(f) : e.name # a
        /\ \A e \in Records(f) : e.node # m
    BY <1>0, <1>2 DEF Untouched, Records, NoneOf
  <2>2. Undo(f, st).named[a] = m
    BY <1>2, <2>1, UndoUnrecorded DEF Untouched
  <2>3. ~ \E x \in f.added : st.named[x] = m
    <3>. SUFFICES ASSUME NEW x \in f.added, st.named[x] = m PROVE FALSE
      OBVIOUS
    <3>1. x \in Name
      BY DEF Frame
    <3>2. st.nameOf[m] = x
      BY <3>1 DEF Inverse
    <3>. QED BY <1>2, <3>2 DEF Untouched
  <2>4. Undo(f, st).nameOf[m] = a
    BY <1>2, <2>1, <2>3, UndoUnrecorded DEF Untouched
  <2>. QED BY <2>2, <2>4
<1>. QED BY <1>1, <1>2 DEF BindingKept

(* A record that is first stays first when more are appended. *)
LEMMA RecordedStays ==
    ASSUME NEW f, f.replaced \in Seq(Binding), NEW d \in Seq(Binding),
           NEW g, g.replaced = f.replaced \o d,
           NEW a, NEW m, Recorded(f, a, m)
    PROVE  Recorded(g, a, m)
<1>. DEFINE r == f.replaced
<1>1. PICK i \in DOMAIN r : /\ r[i].name = a /\ r[i].node = m
                            /\ NoneOf(r, i - 1, a, m)
  BY DEF Recorded
<1>0. r \in Seq(Binding) /\ g.replaced = r \o d
  OBVIOUS
<1>. HIDE DEF r
<1>2. i \in DOMAIN (r \o d) /\ \A j \in 1 .. i : (r \o d)[j] = r[j]
  BY <1>0, <1>1
<1>3. i \in 1 .. i /\ \A j \in 1 .. i - 1 : j \in 1 .. i
  BY <1>2
<1>4. NoneOf(r \o d, i - 1, a, m)
  BY <1>1, <1>2, <1>3 DEF NoneOf
<1>. QED BY <1>0, <1>1, <1>2, <1>3, <1>4 DEF Recorded

(* What a naming appends to the records, position by position. *)
LEMMA AppendedRecords ==
    ASSUME TypeOK, NEW a \in Name, NEW m \in Node
    PROVE  /\ \A i \in DOMAIN Displaced(a, m) :
                 \/ LosesName(a, m) /\ Displaced(a, m)[i] = [name |-> nameOf[m], node |-> m]
                 \/ StealsName(a, m) /\ Displaced(a, m)[i] = [name |-> a, node |-> named[a]]
           /\ LosesName(a, m) => /\ 1 \in DOMAIN Displaced(a, m)
                                 /\ Displaced(a, m)[1] = [name |-> nameOf[m], node |-> m]
           /\ StealsName(a, m) =>
                 \E k \in DOMAIN Displaced(a, m) :
                    /\ Displaced(a, m)[k] = [name |-> a, node |-> named[a]]
                    /\ \A j \in 1 .. k - 1 :
                          LosesName(a, m) /\ Displaced(a, m)[j] = [name |-> nameOf[m], node |-> m]
<1>. DEFINE p == [name |-> nameOf[m], node |-> m]
            q == [name |-> a, node |-> named[a]]
            d == Displaced(a, m)
<1>1. d = (IF LosesName(a, m) THEN << p >> ELSE << >>)
            \o (IF StealsName(a, m) THEN << q >> ELSE << >>)
  BY DEF Displaced
<1>2. /\ \A i \in DOMAIN d : \/ LosesName(a, m) /\ d[i] = p
                             \/ StealsName(a, m) /\ d[i] = q
      /\ LosesName(a, m) => 1 \in DOMAIN d /\ d[1] = p
      /\ StealsName(a, m) => \E k \in DOMAIN d :
             d[k] = q /\ \A j \in 1 .. k - 1 : LosesName(a, m) /\ d[j] = p
  <2>. HIDE DEF d, p, q
  <2>2. CASE LosesName(a, m) /\ StealsName(a, m)
    <3>1. d = << p >> \o << q >>
      BY <1>1, <2>2
    <3>2. DOMAIN d = {1, 2} /\ d[1] = p /\ d[2] = q
      BY <3>1
    <3>3. \A j \in 1 .. 2 - 1 : j = 1
      OBVIOUS
    <3>4. \A j \in 1 .. 2 - 1 : LosesName(a, m) /\ d[j] = p
      BY <2>2, <3>2, <3>3
    <3>. QED BY <2>2, <3>2, <3>4
  <2>3. CASE LosesName(a, m) /\ ~StealsName(a, m)
    <3>1. d = << p >>
      BY <1>1, <2>3
    <3>. QED BY <2>3, <3>1
  <2>4. CASE ~LosesName(a, m) /\ StealsName(a, m)
    <3>1. d = << q >>
      BY <1>1, <2>4
    <3>2. 1 \in DOMAIN d /\ d[1] = q /\ \A i \in DOMAIN d : i = 1
      BY <3>1
    <3>3. \A j \in 1 .. 1 - 1 : FALSE
      OBVIOUS
    <3>. QED BY <2>4, <3>2, <3>3
  <2>5. CASE ~LosesName(a, m) /\ ~StealsName(a, m)
    <3>1. d = << >>
      BY <1>1, <2>5
    <3>. QED BY <2>5, <3>1
  <2>. QED BY <2>2, <2>3, <2>4, <2>5
<1>. QED BY <1>2

(* A record is first when nothing before it is of its name or its node. *)
LEMMA RecordedFresh ==
    ASSUME NEW r \in Seq(Binding), NEW d \in Seq(Binding), NEW g, g.replaced = r \o d,
           NEW a, NEW m, NEW k \in DOMAIN d, d[k].name = a, d[k].node = m,
           NoneOf(r, Len(r), a, m), NoneOf(d, k - 1, a, m)
    PROVE  Recorded(g, a, m)
<1>1. /\ Len(r) \in Nat /\ k \in 1 .. Len(d) /\ DOMAIN r = 1 .. Len(r) /\ Len(d) \in Nat
      /\ DOMAIN (r \o d) = 1 .. Len(r) + Len(d)
  OBVIOUS
<1>2. Len(r) + k \in DOMAIN (r \o d) /\ (r \o d)[Len(r) + k] = d[k]
  BY <1>1
<1>3. ASSUME NEW j \in 1 .. Len(r) + k - 1
      PROVE  (r \o d)[j].name # a /\ (r \o d)[j].node # m
  <2>1. CASE j <= Len(r)
    <3>1. j \in DOMAIN r /\ (r \o d)[j] = r[j]
      BY <1>1, <1>3, <2>1
    <3>. QED BY <3>1 DEF NoneOf
  <2>2. CASE j > Len(r)
    <3>1. j - Len(r) \in 1 .. k - 1 /\ (r \o d)[j] = d[j - Len(r)]
      BY <1>1, <1>3, <2>2
    <3>. QED BY <3>1 DEF NoneOf
  <2>. QED BY <1>1, <1>3, <2>1, <2>2
<1>. DEFINE i == Len(r) + k
<1>4. i \in DOMAIN g.replaced /\ g.replaced[i].name = a /\ g.replaced[i].node = m
  BY <1>2
<1>5. NoneOf(g.replaced, i - 1, a, m)
  BY <1>3 DEF NoneOf
<1>. HIDE DEF i
<1>. QED BY <1>4, <1>5 DEF Recorded

(* Whatever a scope names, each outer binding stays untouched or becomes the *)
(* first record of its name and of its node.                                *)
LEMMA NamingKeepsOuter ==
    ASSUME TypeOK, Bijection, frames # << >>, NEW b \in Name, NEW n \in Node, NameAssertion(b, n),
           NEW a \in Name, NEW m \in Node, BindingKept(Top, Now, a, m),
           NEW f, f.added = Top.added \cup {b}, f.replaced = Top.replaced \o Displaced(b, n),
           NEW st, st.named = named', st.nameOf = nameOf'
    PROVE  BindingKept(f, st, a, m)
<1>. DEFINE r == Top.replaced
            d == Displaced(b, n)
<1>0. /\ Top \in Frame /\ r \in Seq(Binding) /\ d \in Seq(Binding)
      /\ f.replaced = r \o d /\ f.added = Top.added \cup {b}
  <2>1. Top \in Frame
    BY DEF TypeOK, Top
  <2>. QED BY <2>1, DisplacedType DEF Frame
<1>1. /\ \A x \in Name, y \in Node : named[x] = y <=> nameOf[y] = x
      /\ NoName \notin Name /\ NoNode \notin Node
  BY AbsentAssumption DEF Bijection, Inverse, Now
<1>2. CASE Recorded(Top, a, m)
  <2>1. Recorded(f, a, m)
    <3>1. Top.replaced \in Seq(Binding) /\ f.replaced = Top.replaced \o d
      BY <1>0
    <3>. HIDE DEF r, d
    <3>. QED BY <1>0, <1>2, <3>1, RecordedStays
  <2>. QED BY <2>1 DEF BindingKept
<1>3. CASE Untouched(Top, Now, a, m)
  <2>1. /\ a \notin Top.added /\ named[a] = m /\ nameOf[m] = a
        /\ NoneOf(r, Len(r), a, m)
    BY <1>3 DEF Untouched, Now
  <2>2. CASE b = a
    <3>1. m # n /\ StealsName(b, n) /\ nameOf[n] # a
      BY <1>1, <2>1, <2>2 DEF NameAssertion, StealsName
    <3>2. PICK k \in DOMAIN d :
             /\ d[k] = [name |-> b, node |-> named[b]]
             /\ \A j \in 1 .. k - 1 : LosesName(b, n) /\ d[j] = [name |-> nameOf[n], node |-> n]
      BY <3>1, AppendedRecords
    <3>3. d[k].name = a /\ d[k].node = m /\ NoneOf(d, k - 1, a, m)
      BY <2>1, <2>2, <3>1, <3>2 DEF NoneOf
    <3>4. Recorded(f, a, m)
      <4>. HIDE DEF r, d
      <4>. QED BY <1>0, <2>1, <3>3, RecordedFresh
    <3>. QED BY <3>4 DEF BindingKept
  <2>3. CASE b # a /\ n = m
    <3>1. LosesName(b, n)
      BY <1>1, <2>1, <2>3 DEF LosesName
    <3>2. 1 \in DOMAIN d /\ d[1] = [name |-> nameOf[n], node |-> n]
      BY <3>1, AppendedRecords
    <3>3. d[1].name = a /\ d[1].node = m /\ NoneOf(d, 1 - 1, a, m)
      BY <2>1, <2>3, <3>2 DEF NoneOf
    <3>4. Recorded(f, a, m)
      <4>. HIDE DEF r, d
      <4>. QED BY <1>0, <2>1, <3>2, <3>3, RecordedFresh
    <3>. QED BY <3>4 DEF BindingKept
  <2>4. CASE b # a /\ n # m
    <3>1. nameOf[n] # a /\ named[b] # m
      BY <1>1, <2>1, <2>4
    <3>2. named'[a] = m /\ nameOf'[m] = a
      BY <2>1, <2>4, <3>1 DEF NameAssertion
    <3>3. \A i \in DOMAIN d : d[i].name # a /\ d[i].node # m
      <4>1. \A i \in DOMAIN d : \/ d[i] = [name |-> nameOf[n], node |-> n]
                                \/ d[i] = [name |-> b, node |-> named[b]]
        BY AppendedRecords
      <4>. HIDE DEF d
      <4>. QED BY <2>4, <3>1, <4>1
    <3>4. NoneOf(f.replaced, Len(f.replaced), a, m)
      <4>. HIDE DEF r, d
      <4>1. ASSUME NEW i \in 1 .. Len(r \o d) PROVE (r \o d)[i].name # a /\ (r \o d)[i].node # m
        <5>1. CASE i \in 1 .. Len(r)
          BY <1>0, <2>1, <5>1 DEF NoneOf
        <5>2. CASE i \notin 1 .. Len(r)
          <6>1. i - Len(r) \in DOMAIN d /\ (r \o d)[i] = d[i - Len(r)]
            BY <1>0, <4>1, <5>2
          <6>. QED BY <3>3, <6>1
        <5>. QED BY <5>1, <5>2
      <4>. QED BY <1>0, <4>1 DEF NoneOf
    <3>5. Untouched(f, st, a, m)
      BY <1>0, <2>1, <2>4, <3>2, <3>4 DEF Untouched
    <3>. QED BY <3>5 DEF BindingKept
  <2>. QED BY <2>2, <2>3, <2>4
<1>. QED BY <1>2, <1>3 DEF BindingKept

(* A scope that was just pushed has touched nothing. *)
LEMMA FreshKept ==
    ASSUME NEW st PROVE OuterKept([added |-> {}, replaced |-> << >>], st, st)
<1>. DEFINE f == [added |-> {}, replaced |-> << >>]
<1>1. f.added = {} /\ Len(f.replaced) = 0
  OBVIOUS
<1>. HIDE DEF f
<1>2. ASSUME Inverse(st), NEW a \in Name, NEW m \in Node, st.named[a] = m
      PROVE  BindingKept(f, st, a, m)
  BY <1>1, <1>2 DEF BindingKept, Untouched, Inverse, NoneOf
<1>3. OuterKept(f, st, st)
  BY <1>2 DEF OuterKept
<1>. QED BY <1>3 DEF f

LEMMA NamingSingleScope ==
    ASSUME TypeOK, SingleScopeKept, NEW b \in Name, NEW n \in Node, NameAssertion(b, n)
    PROVE  SingleScopeKept'
<1>1. CASE frames = << >>
  BY <1>1 DEF NameAssertion, SingleScopeKept
<1>2. CASE frames # << >>
  <2>. DEFINE f == [added |-> Top.added \cup {b}, replaced |-> Top.replaced \o Displaced(b, n)]
  <2>1. /\ Len(frames) = 1 /\ Top = frames[1] /\ frames' # << >>
        /\ Len(frames') = 1 /\ frames'[1] = f /\ snapshots' = snapshots
    <3>1. Len(frames) = 1
      BY <1>2 DEF SingleScopeKept, TypeOK
    <3>2. Len(frames') = 1 /\ frames'[1] = f /\ frames' \in Seq(Frame)
      BY <1>2, <3>1, NamedFrame
    <3>3. Top = frames[1] /\ snapshots' = snapshots
      BY <3>1 DEF NameAssertion, Top
    <3>. HIDE DEF f
    <3>. QED BY <3>1, <3>2, <3>3
  <2>2. ASSUME Inverse(snapshots[1]) PROVE Bijection /\ Bijection'
    BY <1>2, <2>2, NamingInverse DEF SingleScopeKept, OuterKept, Bijection
  <2>3. /\ Now'.named = named' /\ Now'.nameOf = nameOf'
    BY DEF Now
  <2>6. f.added = Top.added \cup {b} /\ f.replaced = Top.replaced \o Displaced(b, n)
    OBVIOUS
  <2>4. ASSUME Inverse(snapshots[1]),
               NEW a \in Name, NEW m \in Node, snapshots[1].named[a] = m
        PROVE  BindingKept(f, Now', a, m)
    <3>1. BindingKept(Top, Now, a, m)
      BY <1>2, <2>1, <2>4 DEF SingleScopeKept, OuterKept
    <3>. HIDE DEF f
    <3>2. ASSUME NEW st, st.named = named', st.nameOf = nameOf' PROVE BindingKept(f, st, a, m)
      BY <1>2, <2>2, <2>4, <2>6, <3>1, <3>2, NamingKeepsOuter
    <3>. QED BY <2>3, <3>2
  <2>. HIDE DEF f
  <2>5. OuterKept(f, Now', snapshots[1])
    BY <2>2, <2>4 DEF OuterKept, Bijection
  <2>. QED BY <2>1, <2>5 DEF SingleScopeKept
<1>. QED BY <1>1, <1>2

(* One scope at a time, whatever else a session does. *)
LEMMA SingleScopeInv ==
    TypeOK /\ SingleScopeKept /\ [Next]_nameVars /\ Len(frames') <= 1 => SingleScopeKept'
<1>. SUFFICES ASSUME TypeOK, SingleScopeKept, [Next]_nameVars, Len(frames') <= 1
              PROVE  SingleScopeKept'
  OBVIOUS
<1>0. frames \in Seq(Frame) /\ Len(frames) \in Nat /\ Len(frames) <= 1
      /\ Len(snapshots) = Len(frames)
  BY DEF TypeOK, SingleScopeKept
<1>1. ASSUME NEW a \in Name, NEW m \in Node, NameAssertion(a, m) PROVE SingleScopeKept'
  BY <1>1, NamingSingleScope
<1>2. CASE PushLevel
  <2>1. Len(frames) = 0 /\ Len(snapshots) = 0
    BY <1>0, <1>2 DEF PushLevel
  <2>2. frames'[1] = [added |-> {}, replaced |-> << >>] /\ snapshots'[1] = Now /\ Now' = Now
    BY <1>2, <2>1 DEF PushLevel, TypeOK, Now
  <2>3. OuterKept(frames'[1], Now', snapshots'[1])
    BY <2>2, FreshKept
  <2>. QED BY <2>3 DEF SingleScopeKept
<1>3. CASE PopLevel
  <2>1. frames' = << >>
    BY <1>0, <1>3 DEF PopLevel, Outer
  <2>. QED BY <2>1 DEF SingleScopeKept
<1>4. CASE ResetAssertions
  <2>1. CASE frames = << >>
    BY <1>4, <2>1 DEF ResetAssertions, SingleScopeKept
  <2>2. CASE frames # << >>
    <3>1. Len(frames) = 1
      BY <1>0, <2>2
    <3>2. snapshots'[1] = Unnamed /\ Now' = Unnamed
      BY <1>4, <3>1 DEF ResetAssertions, Now, Unnamed
    <3>3. \A a \in Name, m \in Node : Unnamed.named[a] # m
      BY AbsentAssumption DEF Unnamed
    <3>4. OuterKept(frames'[1], Now', snapshots'[1])
      BY <3>2, <3>3, UnnamedInverse DEF OuterKept
    <3>. QED BY <3>4 DEF SingleScopeKept
  <2>. QED BY <2>1, <2>2
<1>5. CASE ResetAll
  BY <1>5 DEF ResetAll, SingleScopeKept
<1>6. CASE UNCHANGED nameVars
  BY <1>6 DEF nameVars, SingleScopeKept, Now
<1>. QED BY <1>1, <1>2, <1>3, <1>4, <1>5, <1>6 DEF Next

SingleInv == MCInv /\ (~disciplined => SingleScopeKept)

LEMMA SingleInvariant == MCSpec => []SingleInv
<1>1. MCInit => SingleInv
  BY MCInitInv DEF MCInit, Init, SingleInv, SingleScopeKept
<1>2. SingleInv /\ [MCNext]_mcVars => SingleInv'
  <2>. SUFFICES ASSUME SingleInv, [MCNext]_mcVars, ~disciplined' PROVE SingleScopeKept'
    BY MCNextInv DEF SingleInv
  <2>1. ~disciplined /\ TypeOK /\ SingleScopeKept /\ [Next]_nameVars
    BY MCStep DEF SingleInv, MCInv
  <2>2. Len(frames') <= 1
    BY <2>1 DEF MCNext, mcVars, nameVars, SingleScopeKept
  <2>. QED BY <2>1, <2>2, SingleScopeInv
<1>. QED BY <1>1, <1>2, PTL DEF MCSpec, mcVars

(* Where a scope displaces a binding of the outer ones, or of its own, as    *)
(* often as it likes, its pop brings every outer binding back: the record    *)
(* of the outermost one comes first and the reverse replay leaves it.       *)
THEOREM PopBringsBackOuter == MCSpec => OuterBindingsSurvive
<1>1. ASSUME SingleInv, [MCNext]_mcVars, PopLevel, Inverse(snapshots[Len(snapshots)]),
             NEW a \in Name, NEW m \in Node, snapshots[Len(snapshots)].named[a] = m
      PROVE  named'[a] = m /\ nameOf'[m] = a
  <2>0. frames # << >> /\ frames \in Seq(Frame) /\ Len(snapshots) = Len(frames)
    BY <1>1 DEF SingleInv, MCInv, TypeOK, PopLevel
  <2>1. CASE disciplined
    <3>1. Now' = snapshots[Len(snapshots)]
      BY <1>1, <2>0, <2>1, PopRestores DEF SingleInv, MCInv
    <3>. QED BY <1>1, <3>1 DEF Now, Inverse
  <2>2. CASE ~disciplined
    <3>1. Len(frames) = 1 /\ Len(snapshots) = 1 /\ Top = frames[1] /\ Top \in Frame
      BY <2>0, <2>2, <1>1 DEF SingleInv, SingleScopeKept, Top
    <3>2. Inverse(Now) /\ BindingKept(Top, Now, a, m)
      BY <1>1, <2>0, <2>2, <3>1 DEF SingleInv, SingleScopeKept, OuterKept
    <3>3. Undo(Top, Now).named[a] = m /\ Undo(Top, Now).nameOf[m] = a
      BY <3>1, <3>2, KeptComesBack
    <3>. QED BY <1>1, <3>3 DEF PopLevel
  <2>. QED BY <2>1, <2>2
<1>2. ASSUME SingleInv, [MCNext]_mcVars, PopLevel, NEW before, before = snapshots[Len(snapshots)],
             Inverse(before)
      PROVE  /\ \A a \in Name : before.named[a] # NoNode => named'[a] = before.named[a]
             /\ \A m \in Node : before.nameOf[m] # NoName => nameOf'[m] = before.nameOf[m]
  <2>1. before \in [named : Naming, nameOf : NamesOf]
    <3>. DEFINE T == [named : Naming, nameOf : NamesOf]
    <3>1. snapshots \in Seq(T) /\ Len(snapshots) = Len(frames) /\ frames \in Seq(Frame) /\ frames # << >>
      BY <1>2 DEF SingleInv, MCInv, TypeOK, PopLevel
    <3>. HIDE DEF T
    <3>2. before \in T
      BY <1>2, <3>1
    <3>. QED BY <3>2 DEF T
  <2>2. /\ \A a \in Name : before.named[a] \in Node \cup {NoNode}
        /\ \A m \in Node : before.nameOf[m] \in Name \cup {NoName}
    BY <2>1 DEF Naming, NamesOf
  <2>3. ASSUME NEW a \in Name, before.named[a] # NoNode PROVE named'[a] = before.named[a]
    BY <1>1, <1>2, <2>2, <2>3
  <2>4. ASSUME NEW m \in Node, before.nameOf[m] # NoName PROVE nameOf'[m] = before.nameOf[m]
    <3>1. before.nameOf[m] \in Name /\ before.named[before.nameOf[m]] = m
      BY <1>2, <2>2, <2>4 DEF Inverse
    <3>. QED BY <1>1, <1>2, <3>1
  <2>. QED BY <2>3, <2>4
<1>3. SingleInv /\ [MCNext]_mcVars =>
        [PopLevel /\ Inverse(snapshots[Len(snapshots)]) =>
            LET before == snapshots[Len(snapshots)] IN
            /\ \A a \in Name : before.named[a] # NoNode => named'[a] = before.named[a]
            /\ \A m \in Node : before.nameOf[m] # NoName => nameOf'[m] = before.nameOf[m]]_nameVars
  BY <1>2
<1>. QED BY <1>3, SingleInvariant, PTL DEF MCSpec, OuterBindingsSurvive, mcVars
=============================================================================
