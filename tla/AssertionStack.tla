--------------------------- MODULE AssertionStack ---------------------------
(***************************************************************************)
(* The vectors and groups of ParserContext under push and pop              *)
(* (src/frontend/parser_context.cpp): assertions, assumptions, soft        *)
(* assertions with their weights, and split lemmas.  A scope does not copy *)
(* them: push records their sizes, pop truncates back to those sizes and   *)
(* filters the groups the scope touched.                                   *)
(*                                                                         *)
(* A group holds 0-based indices in the code and 1-based positions here.   *)
(***************************************************************************)
EXTENDS Naturals, Sequences

CONSTANTS
    Node,             \* hash-consed terms; an assumption list counts as one
    Group,            \* names given with :id
    NULL,             \* the null pointer that vector::resize fills with
    MaxLen,           \* bound: entries in one vector
    MaxDepth          \* bound: open scopes

ASSUME NullAssumption == NULL \notin Node
ASSUME BoundAssumption == MaxLen \in Nat /\ MaxDepth \in Nat

VARIABLES
    vec,              \* the five vectors, by field name
    groups,           \* assertion_groups and soft_assertion_groups
    frames            \* the sizes and group keys of scope_stack_, outermost first

stackVars == <<vec, groups, frames>>

Vectors == {"assertions", "assumptions", "soft_assertions", "soft_weights", "split_lemmas"}
Grouped == {"assertions", "soft_assertions"}

Frame == [size: [Vectors -> Nat], added: [Grouped -> SUBSET Group]]

Top == frames[Len(frames)]
Outer == [i \in 1 .. Len(frames) - 1 |-> frames[i]]

NoVectors == [v \in Vectors |-> << >>]
NoGroups == [v \in Grouped |-> [g \in Group |-> {}]]

(* vector::resize: cut, or fill up with null pointers. *)
Resize(s, n) == [i \in 1 .. n |-> IF i <= Len(s) THEN s[i] ELSE NULL]

(* Positions of S among the first n. *)
UpTo(S, n) == {p \in S : p <= n}

TypeOK ==
    /\ vec \in [Vectors -> Seq(Node \cup {NULL})]
    /\ groups \in [Grouped -> [Group -> SUBSET Nat]]
    /\ frames \in Seq(Frame)

Init == vec = NoVectors /\ groups = NoGroups /\ frames = << >>

-----------------------------------------------------------------------------
(* Operations.  gs is {} when no :id is given and {g} when one is. *)

(* Mutant: the scope does not remember the group. *)
JoinGroupUnregistered(v, gs) ==
    /\ groups' = [groups EXCEPT ![v] =
                    [g \in Group |-> IF g \in gs THEN @[g] \cup {Len(vec[v]) + 1} ELSE @[g]]]
    /\ UNCHANGED frames

(* The entry appended to vector v joins group gs, and the innermost scope   *)
(* remembers that it touched gs.                                            *)
JoinGroup(v, gs) ==
    /\ groups' = [groups EXCEPT ![v] =
                    [g \in Group |-> IF g \in gs THEN @[g] \cup {Len(vec[v]) + 1} ELSE @[g]]]
    /\ frames' = IF frames = << >> THEN frames
                 ELSE [frames EXCEPT ![Len(frames)].added[v] = @ \cup gs]

(* (assert e [:id g]); with gs = {} also Parser::assert, and an assert whose *)
(* trailing keyword is unknown: the error is thrown after the append.       *)
Assert(e, gs) ==
    /\ Len(vec["assertions"]) < MaxLen
    /\ vec' = [vec EXCEPT !["assertions"] = Append(@, e)]
    /\ JoinGroup("assertions", gs)

(* (assert-soft e [:weight w] [:id g]) *)
AssertSoft(e, w, gs) ==
    /\ Len(vec["soft_assertions"]) < MaxLen /\ Len(vec["soft_weights"]) < MaxLen
    /\ vec' = [vec EXCEPT !["soft_assertions"] = Append(@, e),
                          !["soft_weights"] = Append(@, w)]
    /\ JoinGroup("soft_assertions", gs)

(* (assert-soft e :weight x) where x is no numeral: the soft assertion is   *)
(* already in when err_param_nnum throws; it has no weight and no group.    *)
AssertSoftBadWeight(e) ==
    /\ Len(vec["soft_assertions"]) < MaxLen
    /\ vec' = [vec EXCEPT !["soft_assertions"] = Append(@, e)]
    /\ UNCHANGED <<groups, frames>>

(* (check-sat-assuming (a)) keeps the assumption list. *)
CheckSatAssuming(a) ==
    /\ Len(vec["assumptions"]) < MaxLen
    /\ vec' = [vec EXCEPT !["assumptions"] = Append(@, a)]
    /\ UNCHANGED <<groups, frames>>

(* splitOp clears the lemmas of the previous call, then adds its own. *)
SplitOp(lemmas) ==
    /\ vec' = [vec EXCEPT !["split_lemmas"] = lemmas]
    /\ UNCHANGED <<groups, frames>>

(* One iteration of pushScope. *)
PushLevel ==
    /\ Len(frames) < MaxDepth
    /\ frames' = Append(frames, [size |-> [v \in Vectors |-> Len(vec[v])],
                                 added |-> [v \in Grouped |-> {}]])
    /\ UNCHANGED <<vec, groups>>

(* Mutant: popScope forgets the weights of the soft assertions. *)
PopLevelKeepsWeights ==
    /\ frames # << >>
    /\ vec' = [v \in Vectors |-> IF v = "soft_weights" THEN vec[v]
                                 ELSE Resize(vec[v], Top.size[v])]
    /\ groups' = [v \in Grouped |-> [g \in Group |->
                    IF g \in Top.added[v] THEN UpTo(groups[v][g], Top.size[v])
                    ELSE groups[v][g]]]
    /\ frames' = Outer

(* One iteration of popScope. *)
PopLevel ==
    /\ frames # << >>
    /\ vec' = [v \in Vectors |-> Resize(vec[v], Top.size[v])]
    /\ groups' = [v \in Grouped |-> [g \in Group |->
                    IF g \in Top.added[v] THEN UpTo(groups[v][g], Top.size[v])
                    ELSE groups[v][g]]]
    /\ frames' = Outer

(* resetAssertions keeps the open scopes. *)
ResetAssertions ==
    /\ vec' = NoVectors
    /\ groups' = NoGroups
    /\ UNCHANGED frames

ResetAll == vec' = NoVectors /\ groups' = NoGroups /\ frames' = << >>

Growing ==
    \/ \E e \in Node, gs \in {{}} \cup {{g} : g \in Group} :
          Assert(e, gs) \/ \E w \in Node : AssertSoft(e, w, gs)
    \/ \E e \in Node : AssertSoftBadWeight(e) \/ CheckSatAssuming(e)

(* The operations that may shorten a vector without a pop. *)
Clearing == ResetAssertions \/ \E n \in 0 .. MaxLen : \E ls \in [1 .. n -> Node] : SplitOp(ls)

Next == Growing \/ PushLevel \/ PopLevel \/ Clearing \/ ResetAll

Spec == Init /\ [][Next]_stackVars

(* The sessions that reset assertions, or split, only with no scope open. *)
ScopedNext == Growing \/ PushLevel \/ PopLevel \/ ResetAll \/ (frames = << >> /\ Clearing)

ScopedSpec == Init /\ [][ScopedNext]_stackVars
-----------------------------------------------------------------------------
(* Properties *)

(* The sizes a scope recorded never exceed those of the scopes inside it or *)
(* the present sizes, so popScope's resize is always a truncation.          *)
FramesNested ==
    \A i \in 1 .. Len(frames) : \A v \in Vectors :
        /\ frames[i].size[v] <= Len(vec[v])
        /\ \A j \in i .. Len(frames) : frames[i].size[v] <= frames[j].size[v]

(* getGroupedAssertions and getGroupedSoftAssertions only hand out indices  *)
(* of entries that exist, after any sequence of pushes, errors and pops.    *)
GroupsInRange ==
    \A v \in Grouped, g \in Group : groups[v][g] \subseteq 1 .. Len(vec[v])

(* An entry that joined a group while scope i was innermost is remembered   *)
(* by scope i: popScope filters no group but those it recorded.             *)
GroupsRegistered ==
    \A i \in 1 .. Len(frames) : \A v \in Grouped, g \in Group : \A p \in groups[v][g] :
        (frames[i].size[v] < p /\ (i < Len(frames) => p <= frames[i + 1].size[v]))
            => g \in frames[i].added[v]

(* What must hold for a pop to restore: the conjunction is inductive. *)
ScopeInv == FramesNested /\ GroupsInRange /\ GroupsRegistered

(* The content that popping down to below scope i would bring back. *)
RestoredTo(i) ==
    [vec |-> [v \in Vectors |-> Resize(vec[v], frames[i].size[v])],
     groups |-> [v \in Grouped |-> [g \in Group |-> UpTo(groups[v][g], frames[i].size[v])]]]

(* The stack of sizes and group keys implements a stack of snapshots: a pop *)
(* brings back exactly the vectors and groups of the matching push.         *)
Store == INSTANCE ScopedStore WITH
    Empty <- [vec |-> NoVectors, groups |-> NoGroups],
    current <- [vec |-> vec, groups |-> groups],
    saved <- [i \in 1 .. Len(frames) |-> RestoredTo(i)]

ImplementsStore == Store!Spec
=============================================================================
