------------------------ MODULE AssertionStackProofs ------------------------
(***************************************************************************)
(* Theorems about AssertionStack.                                          *)
(***************************************************************************)
EXTENDS AssertionStack, TLAPS

(* A vector stays one when an entry is appended. *)
LEMMA AppendEntry ==
    ASSUME TypeOK, NEW v \in Vectors, NEW e \in Node
    PROVE  Append(vec[v], e) \in Seq(Node \cup {NULL})
<1>1. vec[v] \in Seq(Node \cup {NULL}) /\ e \in Node \cup {NULL}
  BY DEF TypeOK
<1>. QED BY <1>1

(* Appending to a vector and joining a group, the common shape of Assert    *)
(* and AssertSoft, keep the types.                                          *)
LEMMA JoinGroupTypes ==
    ASSUME TypeOK, NEW v \in Grouped, NEW gs \in SUBSET Group, JoinGroup(v, gs)
    PROVE  /\ groups' \in [Grouped -> [Group -> SUBSET Nat]]
           /\ frames' \in Seq(Frame)
           /\ Len(frames') = Len(frames)
<1>1. Len(vec[v]) \in Nat
  BY DEF TypeOK, Grouped, Vectors
<1>2. groups' \in [Grouped -> [Group -> SUBSET Nat]]
  BY <1>1 DEF TypeOK, JoinGroup
<1>3. frames' \in Seq(Frame) /\ Len(frames') = Len(frames)
  <2>1. CASE frames = << >>
    BY <2>1 DEF TypeOK, JoinGroup
  <2>2. CASE frames # << >>
    <3>1. Len(frames) \in 1 .. Len(frames)
      BY <2>2 DEF TypeOK
    <3>2. frames[Len(frames)] \in Frame
      BY <3>1 DEF TypeOK
    <3>3. [frames[Len(frames)] EXCEPT !.added[v] = @ \cup gs] \in Frame
      BY <3>2 DEF Frame
    <3>4. frames' = [frames EXCEPT ![Len(frames)] =
                        [frames[Len(frames)] EXCEPT !.added[v] = @ \cup gs]]
      BY <2>2 DEF JoinGroup
    <3>. QED BY <3>1, <3>3, <3>4 DEF TypeOK
  <2>. QED BY <2>1, <2>2
<1>. QED BY <1>2, <1>3

(* Empty vectors, groups and scopes are well typed. *)
LEMMA EmptyTypes ==
    /\ NoVectors \in [Vectors -> Seq(Node \cup {NULL})]
    /\ NoGroups \in [Grouped -> [Group -> SUBSET Nat]]
    /\ << >> \in Seq(Frame)
<1>1. << >> \in Seq(Node \cup {NULL})
  OBVIOUS
<1>. QED BY <1>1 DEF NoVectors, NoGroups

(* Type correctness, for every step the code can take. *)
LEMMA NextTypeOK == TypeOK /\ [Next]_stackVars => TypeOK'
<1>. SUFFICES ASSUME TypeOK, [Next]_stackVars PROVE TypeOK'
  OBVIOUS
<1>1. ASSUME NEW e \in Node, NEW gs \in SUBSET Group, Assert(e, gs) PROVE TypeOK'
  <2>1. vec' \in [Vectors -> Seq(Node \cup {NULL})]
    BY <1>1, AppendEntry DEF TypeOK, Assert, Vectors
  <2>. QED BY <1>1, <2>1, JoinGroupTypes DEF TypeOK, Assert, Grouped
<1>2. ASSUME NEW e \in Node, NEW w \in Node, NEW gs \in SUBSET Group, AssertSoft(e, w, gs)
      PROVE  TypeOK'
  <2>1. /\ Append(vec["soft_assertions"], e) \in Seq(Node \cup {NULL})
        /\ Append(vec["soft_weights"], w) \in Seq(Node \cup {NULL})
    BY AppendEntry DEF Vectors
  <2>2. vec' \in [Vectors -> Seq(Node \cup {NULL})]
    BY <1>2, <2>1 DEF TypeOK, AssertSoft
  <2>. QED BY <1>2, <2>2, JoinGroupTypes DEF TypeOK, AssertSoft, Grouped
<1>3. ASSUME NEW e \in Node, AssertSoftBadWeight(e) \/ CheckSatAssuming(e) PROVE TypeOK'
  <2>1. vec' \in [Vectors -> Seq(Node \cup {NULL})]
    BY <1>3, AppendEntry DEF TypeOK, AssertSoftBadWeight, CheckSatAssuming, Vectors
  <2>. QED BY <1>3, <2>1 DEF TypeOK, AssertSoftBadWeight, CheckSatAssuming
<1>4. CASE PushLevel
  <2>1. [size |-> [v \in Vectors |-> Len(vec[v])], added |-> [v \in Grouped |-> {}]] \in Frame
    BY DEF TypeOK, Frame
  <2>. QED BY <1>4, <2>1 DEF TypeOK, PushLevel
<1>5. CASE PopLevel
  <2>1. Top \in Frame /\ Len(frames) \in Nat \ {0}
    BY <1>5 DEF TypeOK, PopLevel, Top
  <2>2. ASSUME NEW v \in Vectors PROVE Resize(vec[v], Top.size[v]) \in Seq(Node \cup {NULL})
    <3>1. vec[v] \in Seq(Node \cup {NULL}) /\ Top.size[v] \in Nat
      BY <2>1 DEF TypeOK, Frame
    <3>. QED BY <3>1 DEF Resize
  <2>3. vec' \in [Vectors -> Seq(Node \cup {NULL})]
    BY <1>5, <2>2 DEF PopLevel
  <2>4. groups' \in [Grouped -> [Group -> SUBSET Nat]]
    BY <1>5 DEF TypeOK, PopLevel, UpTo
  <2>5. frames' \in Seq(Frame)
    BY <1>5, <2>1 DEF TypeOK, PopLevel, Outer
  <2>. QED BY <2>3, <2>4, <2>5 DEF TypeOK
<1>6. CASE ResetAssertions \/ ResetAll
  BY <1>6, EmptyTypes DEF TypeOK, ResetAssertions, ResetAll
<1>7. ASSUME NEW n \in 0 .. MaxLen, NEW ls \in [1 .. n -> Node], SplitOp(ls) PROVE TypeOK'
  <2>1. n \in Nat
    BY BoundAssumption
  <2>2. ls \in Seq(Node \cup {NULL})
    BY <2>1
  <2>. QED BY <1>7, <2>2 DEF TypeOK, SplitOp, Vectors
<1>8. CASE UNCHANGED stackVars
  BY <1>8 DEF TypeOK, stackVars
<1>. QED
  BY <1>1, <1>2, <1>3, <1>4, <1>5, <1>6, <1>7, <1>8 DEF Next, Growing, Clearing

(* The vectors, groups and scopes keep their types, null entries included,  *)
(* in every session.                                                        *)
THEOREM TypeCorrect == Spec => []TypeOK
<1>1. Init => TypeOK
  BY EmptyTypes DEF Init, TypeOK
<1>. QED BY <1>1, NextTypeOK, PTL DEF Spec

-----------------------------------------------------------------------------
(* The parts of the type invariant, in the form the steps below use. *)
LEMMA Shapes ==
    ASSUME TypeOK
    PROVE  /\ \A v \in Vectors : vec[v] \in Seq(Node \cup {NULL}) /\ Len(vec[v]) \in Nat
           /\ Len(frames) \in Nat
           /\ \A i \in 1 .. Len(frames) : frames[i] \in Frame
           /\ \A i \in 1 .. Len(frames) : \A v \in Vectors : frames[i].size[v] \in Nat
           /\ Grouped \subseteq Vectors
           /\ frames # << >> => Len(frames) \in 1 .. Len(frames)
<1>1. \A v \in Vectors : vec[v] \in Seq(Node \cup {NULL})
  BY DEF TypeOK
<1>2. \A v \in Vectors : Len(vec[v]) \in Nat
  BY <1>1
<1>3. Len(frames) \in Nat /\ \A i \in 1 .. Len(frames) : frames[i] \in Frame
  BY DEF TypeOK
<1>4. \A i \in 1 .. Len(frames) : \A v \in Vectors : frames[i].size[v] \in Nat
  BY <1>3 DEF Frame
<1>5. Grouped \subseteq Vectors
  BY DEF Grouped, Vectors
<1>6. frames # << >> => Len(frames) \in 1 .. Len(frames)
  BY DEF TypeOK
<1>. QED BY <1>1, <1>2, <1>3, <1>4, <1>5, <1>6

(* The innermost scope remembers the groups that were joined; the others    *)
(* are left alone.                                                          *)
LEMMA JoinGroupFrames ==
    ASSUME TypeOK, NEW v \in Grouped, NEW gs \in SUBSET Group, JoinGroup(v, gs),
           NEW i \in 1 .. Len(frames)
    PROVE  /\ frames'[i].size = frames[i].size
           /\ \A u \in Grouped :
                 frames'[i].added[u] = IF i = Len(frames) /\ u = v
                                       THEN frames[i].added[u] \cup gs
                                       ELSE frames[i].added[u]
<1>1. frames # << >> /\ frames[i] \in Frame
  BY Shapes
<1>2. frames' = [frames EXCEPT ![Len(frames)] =
                    [frames[Len(frames)] EXCEPT !.added[v] = @ \cup gs]]
  BY <1>1 DEF JoinGroup
<1>3. DOMAIN frames = 1 .. Len(frames)
  BY DEF TypeOK
<1>4. frames'[i] = IF i = Len(frames) THEN [frames[i] EXCEPT !.added[v] = @ \cup gs]
                                      ELSE frames[i]
  BY <1>2, <1>3
<1>. DEFINE f == frames[i]
<1>5. /\ DOMAIN f = {"size", "added"}
      /\ f.added \in [Grouped -> SUBSET Group]
  BY <1>1 DEF Frame
<1>6. CASE i = Len(frames)
  <2>1. frames'[i] = [f EXCEPT !.added[v] = @ \cup gs]
    BY <1>4, <1>6
  <2>. HIDE DEF f
  <2>2. frames'[i].size = f.size
    BY <1>5, <2>1
  <2>3. frames'[i].added = [f.added EXCEPT ![v] = @ \cup gs]
    BY <1>5, <2>1
  <2>4. \A u \in Grouped : frames'[i].added[u] = IF u = v THEN f.added[u] \cup gs
                                                         ELSE f.added[u]
    BY <1>5, <2>3
  <2>. QED BY <1>6, <2>2, <2>4 DEF f
<1>7. CASE i # Len(frames)
  BY <1>4, <1>7
<1>. QED BY <1>6, <1>7

(* What the appending operations have in common: no vector is shortened or  *)
(* overwritten, no scope changes its sizes, and a new group member is a new *)
(* entry whose group the innermost scope remembers.                         *)
Extension ==
    /\ Len(frames') = Len(frames)
    /\ \A i \in 1 .. Len(frames) :
          /\ frames'[i].size = frames[i].size
          /\ \A v \in Grouped : frames[i].added[v] \subseteq frames'[i].added[v]
    /\ \A v \in Vectors :
          /\ Len(vec[v]) <= Len(vec'[v])
          /\ \A k \in 1 .. Len(vec[v]) : vec'[v][k] = vec[v][k]
    /\ \A v \in Grouped, g \in Group :
          /\ groups[v][g] \subseteq groups'[v][g]
          /\ \A p \in groups'[v][g] \ groups[v][g] :
                /\ p \in Len(vec[v]) + 1 .. Len(vec'[v])
                /\ frames # << >> => g \in frames'[Len(frames)].added[v]

LEMMA JoinGroupExtends ==
    ASSUME TypeOK, NEW v \in Grouped, NEW gs \in SUBSET Group, JoinGroup(v, gs),
           \A u \in Vectors :
              /\ Len(vec[u]) <= Len(vec'[u])
              /\ \A k \in 1 .. Len(vec[u]) : vec'[u][k] = vec[u][k],
           Len(vec'[v]) = Len(vec[v]) + 1
    PROVE  Extension
<1>1. Len(frames') = Len(frames)
  BY JoinGroupTypes
<1>2. ASSUME NEW i \in 1 .. Len(frames)
      PROVE  /\ frames'[i].size = frames[i].size
             /\ \A u \in Grouped : frames[i].added[u] \subseteq frames'[i].added[u]
  <2>1. frames'[i].size = frames[i].size
    BY JoinGroupFrames
  <2>2. ASSUME NEW u \in Grouped PROVE frames[i].added[u] \subseteq frames'[i].added[u]
    <3>1. frames'[i].added[u] = IF i = Len(frames) /\ u = v THEN frames[i].added[u] \cup gs
                                                            ELSE frames[i].added[u]
      BY ZenonT(40), JoinGroupFrames
    <3>. QED BY <3>1
  <2>. QED BY <2>1, <2>2
<1>3. ASSUME NEW u \in Grouped, NEW g \in Group
      PROVE  /\ groups[u][g] \subseteq groups'[u][g]
             /\ \A p \in groups'[u][g] \ groups[u][g] :
                   /\ p \in Len(vec[u]) + 1 .. Len(vec'[u])
                   /\ frames # << >> => g \in frames'[Len(frames)].added[u]
  <2>1. groups'[u][g] = IF u = v /\ g \in gs THEN groups[u][g] \cup {Len(vec[v]) + 1}
                                             ELSE groups[u][g]
    BY DEF JoinGroup, TypeOK
  <2>2. Len(vec[v]) \in Nat
    BY Shapes
  <2>3. ASSUME frames # << >>, g \in gs PROVE g \in frames'[Len(frames)].added[v]
    <3>. DEFINE n == Len(frames)
    <3>1. n \in 1 .. n
      BY <2>3, Shapes
    <3>2. frames'[n].added[v] = frames[n].added[v] \cup gs
      BY <3>1, JoinGroupFrames
    <3>. QED BY <2>3, <3>2
  <2>. QED BY <2>1, <2>2, <2>3
<1>. QED BY <1>1, <1>2, <1>3 DEF Extension

LEMMA AppendGrows ==
    ASSUME TypeOK, NEW v \in Vectors, NEW e \in Node, vec'[v] = Append(vec[v], e)
    PROVE  /\ Len(vec'[v]) = Len(vec[v]) + 1
           /\ Len(vec[v]) <= Len(vec'[v])
           /\ \A k \in 1 .. Len(vec[v]) : vec'[v][k] = vec[v][k]
<1>. DEFINE s == vec[v]
<1>1. s \in Seq(Node \cup {NULL}) /\ e \in Node \cup {NULL}
  BY DEF TypeOK
<1>. HIDE DEF s
<1>2. /\ Len(Append(s, e)) = Len(s) + 1
      /\ Len(s) <= Len(Append(s, e))
      /\ \A k \in 1 .. Len(s) : Append(s, e)[k] = s[k]
  BY <1>1
<1>. QED BY <1>2 DEF s

(* A vector that is left alone is not shortened or overwritten. *)
LEMMA SameGrows ==
    ASSUME TypeOK, NEW v \in Vectors, vec'[v] = vec[v]
    PROVE  /\ Len(vec[v]) <= Len(vec'[v])
           /\ \A k \in 1 .. Len(vec[v]) : vec'[v][k] = vec[v][k]
BY Shapes

LEMMA GrowingExtends == TypeOK /\ Growing => Extension
<1>. SUFFICES ASSUME TypeOK, Growing PROVE Extension
  OBVIOUS
<1>1. ASSUME NEW e \in Node, NEW gs \in SUBSET Group, Assert(e, gs) PROVE Extension
  <2>1. \A u \in Vectors : vec'[u] = IF u = "assertions" THEN Append(vec[u], e) ELSE vec[u]
    BY <1>1 DEF Assert, TypeOK
  <2>2. "assertions" \in Grouped /\ "assertions" \in Vectors
    BY DEF Grouped, Vectors
  <2>3. \A u \in Vectors : /\ Len(vec[u]) <= Len(vec'[u])
                           /\ \A k \in 1 .. Len(vec[u]) : vec'[u][k] = vec[u][k]
    BY <2>1, AppendGrows, SameGrows
  <2>4. Len(vec'["assertions"]) = Len(vec["assertions"]) + 1
    BY <2>1, <2>2, AppendGrows
  <2>5. JoinGroup("assertions", gs)
    BY <1>1 DEF Assert
  <2>. QED BY <2>2, <2>3, <2>4, <2>5, JoinGroupExtends
<1>2. ASSUME NEW e \in Node, NEW w \in Node, NEW gs \in SUBSET Group, AssertSoft(e, w, gs)
      PROVE  Extension
  <2>1. \A u \in Vectors : vec'[u] = CASE u = "soft_assertions" -> Append(vec[u], e)
                                       [] u = "soft_weights" -> Append(vec[u], w)
                                       [] OTHER -> vec[u]
    BY <1>2 DEF AssertSoft, TypeOK
  <2>2. "soft_assertions" \in Grouped /\ "soft_assertions" \in Vectors
    BY DEF Grouped, Vectors
  <2>3. \A u \in Vectors : /\ Len(vec[u]) <= Len(vec'[u])
                           /\ \A k \in 1 .. Len(vec[u]) : vec'[u][k] = vec[u][k]
    BY <2>1, AppendGrows, SameGrows
  <2>4. Len(vec'["soft_assertions"]) = Len(vec["soft_assertions"]) + 1
    BY <2>1, <2>2, AppendGrows
  <2>5. JoinGroup("soft_assertions", gs)
    BY <1>2 DEF AssertSoft
  <2>. QED BY <2>2, <2>3, <2>4, <2>5, JoinGroupExtends
<1>3. ASSUME NEW e \in Node, AssertSoftBadWeight(e) \/ CheckSatAssuming(e) PROVE Extension
  <2>1. PICK x \in Vectors :
           \A u \in Vectors : vec'[u] = IF u = x THEN Append(vec[u], e) ELSE vec[u]
    BY <1>3 DEF AssertSoftBadWeight, CheckSatAssuming, TypeOK, Vectors
  <2>2. UNCHANGED <<groups, frames>>
    BY <1>3 DEF AssertSoftBadWeight, CheckSatAssuming
  <2>3. \A u \in Vectors : /\ Len(vec[u]) <= Len(vec'[u])
                           /\ \A k \in 1 .. Len(vec[u]) : vec'[u][k] = vec[u][k]
    BY <2>1, AppendGrows, SameGrows
  <2>. QED BY <2>2, <2>3 DEF Extension
<1>. QED BY <1>1, <1>2, <1>3 DEF Growing

(* Appending keeps what a pop relies on. *)
LEMMA ExtensionScopeInv == TypeOK /\ TypeOK' /\ ScopeInv /\ Extension => ScopeInv'
<1>. SUFFICES ASSUME TypeOK, TypeOK', ScopeInv, Extension PROVE ScopeInv'
  OBVIOUS
<1>1. /\ \A v \in Vectors : Len(vec[v]) \in Nat /\ Len(vec'[v]) \in Nat
      /\ Len(frames) \in Nat
      /\ \A i \in 1 .. Len(frames) : \A v \in Vectors : frames[i].size[v] \in Nat
      /\ Grouped \subseteq Vectors
  <2>1. \A v \in Vectors : vec'[v] \in Seq(Node \cup {NULL})
    BY DEF TypeOK
  <2>2. \A v \in Vectors : Len(vec'[v]) \in Nat
    BY <2>1
  <2>. QED BY <2>2, Shapes
<1>2. FramesNested'
  BY <1>1 DEF ScopeInv, FramesNested, Extension
<1>3. GroupsInRange'
  BY <1>1 DEF ScopeInv, GroupsInRange, Extension
<1>4. GroupsRegistered'
  <2>. SUFFICES ASSUME NEW i \in 1 .. Len(frames), NEW v \in Grouped, NEW g \in Group,
                       NEW p \in groups'[v][g], frames[i].size[v] < p,
                       i < Len(frames) => p <= frames[i + 1].size[v]
                PROVE  g \in frames'[i].added[v]
    BY DEF GroupsRegistered, Extension
  <2>1. CASE p \in groups[v][g]
    BY <2>1 DEF ScopeInv, GroupsRegistered, Extension
  <2>2. CASE p \notin groups[v][g]
    <3>1. p \in Len(vec[v]) + 1 .. Len(vec'[v])
      BY <2>2 DEF Extension
    <3>2. i = Len(frames)
      BY <1>1, <3>1 DEF ScopeInv, FramesNested
    <3>. QED BY <1>1, <2>2, <3>2 DEF Extension
  <2>. QED BY <2>1, <2>2
<1>. QED BY <1>2, <1>3, <1>4 DEF ScopeInv

LEMMA PushScopeInv == TypeOK /\ ScopeInv /\ PushLevel => ScopeInv'
<1>. SUFFICES ASSUME TypeOK, ScopeInv, PushLevel PROVE ScopeInv'
  OBVIOUS
<1>1. /\ \A v \in Vectors : Len(vec[v]) \in Nat
      /\ Len(frames) \in Nat
      /\ \A i \in 1 .. Len(frames) : \A v \in Vectors : frames[i].size[v] \in Nat
      /\ Grouped \subseteq Vectors
  BY Shapes
<1>2. /\ Len(frames') = Len(frames) + 1
      /\ \A i \in 1 .. Len(frames) : frames'[i] = frames[i]
      /\ frames'[Len(frames) + 1].size = [v \in Vectors |-> Len(vec[v])]
      /\ UNCHANGED <<vec, groups>>
  BY DEF PushLevel, TypeOK
<1>3. FramesNested'
  BY <1>1, <1>2 DEF ScopeInv, FramesNested
<1>4. GroupsInRange'
  BY <1>2 DEF ScopeInv, GroupsInRange
<1>5. GroupsRegistered'
  <2>. SUFFICES ASSUME NEW i \in 1 .. Len(frames) + 1, NEW v \in Grouped, NEW g \in Group,
                       NEW p \in groups[v][g], frames'[i].size[v] < p,
                       i < Len(frames) + 1 => p <= frames'[i + 1].size[v]
                PROVE  g \in frames'[i].added[v]
    BY <1>2 DEF GroupsRegistered
  <2>1. p \in 1 .. Len(vec[v])
    BY DEF ScopeInv, GroupsInRange
  <2>2. i \in 1 .. Len(frames)
    BY <1>1, <1>2, <2>1
  <2>. QED BY <1>1, <1>2, <2>2 DEF ScopeInv, GroupsRegistered
<1>. QED BY <1>3, <1>4, <1>5 DEF ScopeInv

LEMMA PopScopeInv == TypeOK /\ ScopeInv /\ PopLevel => ScopeInv'
<1>. SUFFICES ASSUME TypeOK, ScopeInv, PopLevel PROVE ScopeInv'
  OBVIOUS
<1>. DEFINE n == Len(frames)
<1>1. /\ \A v \in Vectors : Len(vec[v]) \in Nat
      /\ n \in Nat \ {0}
      /\ \A i \in 1 .. n : \A v \in Vectors : frames[i].size[v] \in Nat
      /\ Grouped \subseteq Vectors
  BY Shapes DEF PopLevel
<1>2. /\ Len(frames') = n - 1
      /\ \A i \in 1 .. n - 1 : frames'[i] = frames[i]
  BY <1>1 DEF PopLevel, Outer
<1>3. \A v \in Vectors : Len(vec'[v]) = frames[n].size[v]
  BY <1>1 DEF PopLevel, Top, Resize
<1>4. \A v \in Grouped, g \in Group :
         groups'[v][g] = IF g \in frames[n].added[v] THEN UpTo(groups[v][g], frames[n].size[v])
                         ELSE groups[v][g]
  BY DEF PopLevel, Top
<1>5. \A v \in Grouped, g \in Group : groups'[v][g] = UpTo(groups[v][g], frames[n].size[v])
  <2>. SUFFICES ASSUME NEW v \in Grouped, NEW g \in Group, g \notin frames[n].added[v]
                PROVE  groups[v][g] = UpTo(groups[v][g], frames[n].size[v])
    BY <1>4
  <2>1. \A p \in groups[v][g] : p \in Nat /\ ~(frames[n].size[v] < p)
    BY <1>1 DEF ScopeInv, GroupsRegistered, TypeOK
  <2>. QED BY <1>1, <2>1 DEF UpTo
<1>6. FramesNested'
  BY <1>1, <1>2, <1>3 DEF ScopeInv, FramesNested
<1>7. GroupsInRange'
  BY <1>1, <1>3, <1>5 DEF ScopeInv, GroupsInRange, UpTo
<1>8. GroupsRegistered'
  <2>. SUFFICES ASSUME NEW i \in 1 .. n - 1, NEW v \in Grouped, NEW g \in Group,
                       NEW p \in groups'[v][g], frames[i].size[v] < p,
                       i < n - 1 => p <= frames[i + 1].size[v]
                PROVE  g \in frames[i].added[v]
    BY <1>1, <1>2 DEF GroupsRegistered
  <2>1. p \in groups[v][g] /\ p <= frames[n].size[v]
    BY <1>5 DEF UpTo
  <2>2. i < n => p <= frames[i + 1].size[v]
    BY <1>1, <2>1
  <2>. QED BY <1>1, <2>1, <2>2 DEF ScopeInv, GroupsRegistered
<1>. QED BY <1>6, <1>7, <1>8 DEF ScopeInv

LEMMA ScopedNextInv ==
    TypeOK /\ ScopeInv /\ [ScopedNext]_stackVars => TypeOK' /\ ScopeInv'
<1>. SUFFICES ASSUME TypeOK, ScopeInv, [ScopedNext]_stackVars PROVE TypeOK' /\ ScopeInv'
  OBVIOUS
<1>1. TypeOK'
  BY NextTypeOK DEF ScopedNext, Next
<1>2. CASE Growing
  BY <1>1, <1>2, GrowingExtends, ExtensionScopeInv
<1>3. CASE PushLevel
  BY <1>1, <1>3, PushScopeInv
<1>4. CASE PopLevel
  BY <1>1, <1>4, PopScopeInv
<1>5. CASE ResetAll
  BY <1>1, <1>5
     DEF ResetAll, ScopeInv, FramesNested, GroupsInRange, GroupsRegistered, NoGroups
<1>6. CASE frames = << >> /\ Clearing
  <2>1. frames' = << >> /\ Len(frames') = 0
    BY <1>6 DEF Clearing, ResetAssertions, SplitOp
  <2>2. GroupsInRange'
    <3>1. CASE ResetAssertions
      BY <3>1 DEF ResetAssertions, NoGroups, GroupsInRange
    <3>2. ASSUME NEW ls, SplitOp(ls) PROVE GroupsInRange'
      BY <3>2 DEF SplitOp, GroupsInRange, ScopeInv, Grouped, TypeOK, Vectors
    <3>. QED BY <1>6, <3>1, <3>2 DEF Clearing
  <2>. QED BY <1>1, <2>1, <2>2 DEF ScopeInv, FramesNested, GroupsRegistered
<1>7. CASE UNCHANGED stackVars
  BY <1>1, <1>7 DEF stackVars, ScopeInv, FramesNested, GroupsInRange, GroupsRegistered
<1>. QED BY <1>2, <1>3, <1>4, <1>5, <1>6, <1>7 DEF ScopedNext

(* In sessions that clear only outside scopes, recorded sizes stay nested,  *)
(* group indices stay in range, and every scope knows the groups it filled. *)
THEOREM ScopesConsistent == ScopedSpec => [](TypeOK /\ ScopeInv)
<1>1. Init => TypeOK /\ ScopeInv
  <2>1. Init => TypeOK
    BY EmptyTypes DEF Init, TypeOK
  <2>2. Init => ScopeInv
    BY DEF Init, ScopeInv, FramesNested, GroupsInRange, GroupsRegistered, NoGroups
  <2>. QED BY <2>1, <2>2
<1>. QED BY <1>1, ScopedNextInv, PTL DEF ScopedSpec

-----------------------------------------------------------------------------
(* The refinement. *)

Saved == [i \in 1 .. Len(frames) |-> RestoredTo(i)]
Current == [vec |-> vec, groups |-> groups]

(* Appending changes nothing that a pop would bring back. *)
LEMMA ExtensionSaved ==
    TypeOK /\ TypeOK' /\ ScopeInv /\ Extension => UNCHANGED Saved
<1>. SUFFICES ASSUME TypeOK, TypeOK', ScopeInv, Extension PROVE UNCHANGED Saved
  OBVIOUS
<1>1. Len(frames') = Len(frames)
  BY DEF Extension
<1>2. ASSUME NEW i \in 1 .. Len(frames) PROVE RestoredTo(i)' = RestoredTo(i)
  <2>1. \A v \in Vectors : Resize(vec'[v], frames'[i].size[v]) = Resize(vec[v], frames[i].size[v])
    <3>. TAKE v \in Vectors
    <3>1. /\ frames[i].size[v] \in Nat /\ frames[i].size[v] <= Len(vec[v])
          /\ Len(vec[v]) \in Nat
      BY Shapes DEF ScopeInv, FramesNested
    <3>2. /\ frames'[i].size[v] = frames[i].size[v]
          /\ Len(vec[v]) <= Len(vec'[v])
          /\ \A k \in 1 .. Len(vec[v]) : vec'[v][k] = vec[v][k]
      BY DEF Extension
    <3>3. Len(vec'[v]) \in Nat
      BY DEF TypeOK
    <3>. QED BY <3>1, <3>2, <3>3 DEF Resize
  <2>2. \A v \in Grouped, g \in Group :
           UpTo(groups'[v][g], frames'[i].size[v]) = UpTo(groups[v][g], frames[i].size[v])
    <3>. TAKE v \in Grouped, g \in Group
    <3>1. /\ frames[i].size[v] \in Nat /\ frames[i].size[v] <= Len(vec[v])
          /\ Len(vec[v]) \in Nat
      BY Shapes DEF ScopeInv, FramesNested
    <3>2. /\ frames'[i].size[v] = frames[i].size[v]
          /\ groups[v][g] \subseteq groups'[v][g]
          /\ \A p \in groups'[v][g] \ groups[v][g] : p \in Len(vec[v]) + 1 .. Len(vec'[v])
      BY Shapes DEF Extension
    <3>. QED BY <3>1, <3>2 DEF UpTo
  <2>. QED BY <2>1, <2>2 DEF RestoredTo
<1>. QED BY <1>1, <1>2 DEF Saved

LEMMA PushRefines == TypeOK /\ ScopeInv /\ PushLevel => Store!Push
<1>. SUFFICES ASSUME TypeOK, ScopeInv, PushLevel PROVE Store!Push
  OBVIOUS
<1>1. /\ Len(frames) \in Nat
      /\ Len(frames') = Len(frames) + 1
      /\ \A i \in 1 .. Len(frames) : frames'[i] = frames[i]
      /\ frames'[Len(frames) + 1].size = [v \in Vectors |-> Len(vec[v])]
      /\ vec' = vec /\ groups' = groups
  BY DEF PushLevel, TypeOK
<1>2. \A i \in 1 .. Len(frames) : RestoredTo(i)' = RestoredTo(i)
  BY <1>1 DEF RestoredTo
<1>3. ASSUME NEW l, l = Len(frames) + 1 PROVE RestoredTo(l)' = Current
  <2>1. \A v \in Vectors : Resize(vec[v], Len(vec[v])) = vec[v]
    <3>. TAKE v \in Vectors
    <3>1. vec[v] \in Seq(Node \cup {NULL})
      BY Shapes
    <3>. QED BY <3>1 DEF Resize
  <2>2. \A v \in Grouped, g \in Group : UpTo(groups[v][g], Len(vec[v])) = groups[v][g]
    BY Shapes DEF UpTo, ScopeInv, GroupsInRange
  <2>3. [v \in Vectors |-> Resize(vec[v], Len(vec[v]))] = vec
    BY <2>1 DEF TypeOK
  <2>4. [v \in Grouped |-> [g \in Group |-> UpTo(groups[v][g], Len(vec[v]))]] = groups
    BY <2>2 DEF TypeOK
  <2>5. \A v \in Vectors : frames'[l].size[v] = Len(vec[v])
    BY <1>1, <1>3
  <2>6. [v \in Vectors |-> Resize(vec'[v], frames'[l].size[v])] = vec
    BY <1>1, <2>3, <2>5
  <2>7. [v \in Grouped |-> [g \in Group |->
            UpTo(groups'[v][g], frames'[l].size[v])]] = groups
    BY <1>1, <2>4, <2>5, Shapes
  <2>. QED BY <2>6, <2>7 DEF RestoredTo, Current
<1>4. Saved' = Append(Saved, Current)
  <2>1. Saved' = [i \in 1 .. Len(frames) + 1 |-> IF i <= Len(frames) THEN RestoredTo(i) ELSE Current]
    <3>1. \A i \in 1 .. Len(frames) + 1 :
             RestoredTo(i)' = IF i <= Len(frames) THEN RestoredTo(i) ELSE Current
      <4>. TAKE i \in 1 .. Len(frames) + 1
      <4>1. CASE i <= Len(frames)
        BY <1>1, <1>2, <4>1
      <4>2. CASE i = Len(frames) + 1
        BY <1>1, <1>3, <4>2
      <4>. QED BY <1>1, <4>1, <4>2
    <3>. QED BY <1>1, <3>1 DEF Saved
  <2>2. Append(Saved, Current)
          = [i \in 1 .. Len(frames) + 1 |-> IF i <= Len(frames) THEN RestoredTo(i) ELSE Current]
    <3>1. Len(Saved) = Len(frames) /\ Saved \in Seq({RestoredTo(i) : i \in 1 .. Len(frames)})
      BY <1>1 DEF Saved
    <3>. QED BY <1>1, <3>1 DEF Saved
  <2>. QED BY <2>1, <2>2
<1>. QED BY <1>1, <1>4 DEF Store!Push, Saved, Current

LEMMA PopRefines == TypeOK /\ ScopeInv /\ PopLevel => Store!Pop
<1>. SUFFICES ASSUME TypeOK, ScopeInv, PopLevel PROVE Store!Pop
  OBVIOUS
<1>. DEFINE n == Len(frames)
<1>1. /\ n \in Nat \ {0}
      /\ frames' = [i \in 1 .. n - 1 |-> frames[i]]
      /\ n - 1 \in Nat
      /\ Len(frames') = n - 1
  BY DEF PopLevel, Outer, TypeOK
<1>2. \A v \in Vectors : vec'[v] = Resize(vec[v], frames[n].size[v])
  BY DEF PopLevel, Top
<1>3. \A v \in Grouped, g \in Group : groups'[v][g] = UpTo(groups[v][g], frames[n].size[v])
  <2>. SUFFICES ASSUME NEW v \in Grouped, NEW g \in Group, g \notin frames[n].added[v]
                PROVE  groups[v][g] = UpTo(groups[v][g], frames[n].size[v])
    BY DEF PopLevel, Top
  <2>1. \A p \in groups[v][g] : p \in Nat /\ ~(frames[n].size[v] < p)
    BY <1>1 DEF ScopeInv, GroupsRegistered, TypeOK
  <2>2. frames[n].size[v] \in Nat
    BY <1>1, Shapes
  <2>. QED BY <2>1, <2>2 DEF UpTo
<1>4. Current' = RestoredTo(n)
  BY <1>2, <1>3 DEF PopLevel, Current, RestoredTo, Top
<1>5. ASSUME NEW i \in 1 .. n - 1 PROVE RestoredTo(i)' = RestoredTo(i)
  <2>1. \A v \in Vectors :
           /\ frames[i].size[v] \in Nat /\ frames[n].size[v] \in Nat
           /\ frames[i].size[v] <= frames[n].size[v]
           /\ frames[n].size[v] <= Len(vec[v])
           /\ Len(vec[v]) \in Nat
    BY <1>1, Shapes DEF ScopeInv, FramesNested
  <2>2. frames'[i] = frames[i]
    BY <1>1
  <2>3. \A v \in Vectors : Resize(vec'[v], frames[i].size[v]) = Resize(vec[v], frames[i].size[v])
    <3>. TAKE v \in Vectors
    <3>0. vec'[v] = Resize(vec[v], frames[n].size[v])
      BY <1>2
    <3>1. vec'[v] = [k \in 1 .. frames[n].size[v] |-> vec[v][k]]
      <4>. HIDE DEF n
      <4>. QED BY <2>1, <3>0 DEF Resize
    <3>2. Len(vec'[v]) = frames[n].size[v]
      BY <2>1, <3>1
    <3>. QED BY <2>1, <3>1, <3>2 DEF Resize
  <2>4. \A v \in Grouped, g \in Group :
           UpTo(groups'[v][g], frames[i].size[v]) = UpTo(groups[v][g], frames[i].size[v])
    <3>. TAKE v \in Grouped, g \in Group
    <3>1. groups[v][g] \subseteq Nat /\ v \in Vectors
      BY Shapes DEF TypeOK
    <3>. QED BY <1>3, <2>1, <3>1 DEF UpTo
  <2>. QED BY <2>2, <2>3, <2>4 DEF RestoredTo
<1>6. Saved # << >> /\ Len(Saved) = n /\ Saved[n] = RestoredTo(n)
  BY <1>1 DEF Saved
<1>7. Saved' = [i \in 1 .. Len(Saved) - 1 |-> Saved[i]]
  BY <1>1, <1>5, <1>6 DEF Saved
<1>. QED BY <1>4, <1>6, <1>7 DEF Store!Pop, Saved, Current

LEMMA StepRefines ==
    TypeOK /\ ScopeInv /\ TypeOK' /\ [ScopedNext]_stackVars => [Store!Next]_(Store!storeVars)
<1>. SUFFICES ASSUME TypeOK, ScopeInv, TypeOK', [ScopedNext]_stackVars
              PROVE  Store!Next \/ UNCHANGED Store!storeVars
  OBVIOUS
<1>1. CASE Growing
  <2>1. UNCHANGED Saved
    BY <1>1, GrowingExtends, ExtensionSaved
  <2>. QED BY <2>1 DEF Store!Next, Store!Update, Saved
<1>2. CASE PushLevel
  BY <1>2, PushRefines DEF Store!Next
<1>3. CASE PopLevel
  BY <1>3, PopRefines DEF Store!Next
<1>4. CASE ResetAll
  BY <1>4 DEF ResetAll, Store!Next, Store!Clear
<1>5. CASE frames = << >> /\ Clearing
  <2>1. frames' = frames /\ Len(frames) = 0
    BY <1>5 DEF Clearing, ResetAssertions, SplitOp
  <2>2. UNCHANGED Saved
    BY <2>1 DEF Saved
  <2>. QED BY <2>2 DEF Store!Next, Store!Update, Saved
<1>6. CASE UNCHANGED stackVars
  BY <1>6 DEF stackVars, Store!storeVars, RestoredTo
<1>. QED BY <1>1, <1>2, <1>3, <1>4, <1>5, <1>6 DEF ScopedNext

(* Recorded sizes and group keys do as well as snapshots: every pop brings  *)
(* back the vectors and the groups of the matching push.                    *)
THEOREM PopRestoresAssertions == ScopedSpec => ImplementsStore
<1>1. Init => Store!Init
  BY DEF Init, Store!Init
<1>. QED BY <1>1, ScopesConsistent, ScopedNextInv, StepRefines, PTL
        DEF ScopedSpec, ImplementsStore, Store!Spec
=============================================================================
