--------------------------- MODULE AssertionNames ---------------------------
(***************************************************************************)
(* The names of assertions (ParserContext::nameAssertion and the part of   *)
(* popScope that undoes it, src/frontend/parser_context.cpp): two maps     *)
(* meant to be inverse to each other, and, per open scope, the names it    *)
(* bound and the bindings it displaced.                                    *)
(*                                                                         *)
(* Terms are hash-consed, so (! p :named a) and (! p :named b) name the    *)
(* same node: the second takes the name of the first away.  A name given   *)
(* to a second node is taken away from the first.                          *)
(***************************************************************************)
EXTENDS Naturals, Sequences

CONSTANTS
    Name, Node,
    NoName, NoNode,   \* absent from assertion_names_, from named_assertions
    MaxDepth,         \* bound: open scopes
    MaxDisplaced      \* bound: displaced bindings one scope records

ASSUME AbsentAssumption == NoName \notin Name /\ NoNode \notin Node
ASSUME BoundAssumption == MaxDepth \in Nat /\ MaxDisplaced \in Nat

VARIABLES
    named,            \* named_assertions
    nameOf,           \* assertion_names_, its inverse
    frames,           \* the name fields of scope_stack_, outermost first
    snapshots         \* history: the two maps as they were at each open push

nameVars == <<named, nameOf, frames, snapshots>>

Binding == [name : Name, node : Node]
Frame == [added : SUBSET Name, replaced : Seq(Binding)]

Naming == [Name -> Node \cup {NoNode}]
NamesOf == [Node -> Name \cup {NoName}]

Top == frames[Len(frames)]
Outer(s) == [i \in 1 .. Len(s) - 1 |-> s[i]]
Now == [named |-> named, nameOf |-> nameOf]

Unnamed == [named |-> [a \in Name |-> NoNode], nameOf |-> [m \in Node |-> NoName]]

TypeOK ==
    /\ named \in Naming
    /\ nameOf \in NamesOf
    /\ frames \in Seq(Frame)
    /\ snapshots \in Seq([named : Naming, nameOf : NamesOf])
    /\ Len(snapshots) = Len(frames)

Init ==
    /\ named = Unnamed.named
    /\ nameOf = Unnamed.nameOf
    /\ frames = << >>
    /\ snapshots = << >>

-----------------------------------------------------------------------------
(* Mutant: a second name for m leaves the first one in force. *)
NeverLosesName(a, m) == FALSE

(* Naming node m with a makes m lose another name it had, ... *)
LosesName(a, m) == nameOf[m] \notin {NoName, a}

(* ... and makes another node lose the name a. *)
StealsName(a, m) == named[a] \notin {NoNode, m}

(* Mutant: a scope does not record the node it takes the name from. *)
DisplacedNames(a, m) ==
    IF LosesName(a, m) THEN << [name |-> nameOf[m], node |-> m] >> ELSE << >>

(* What the innermost scope records, in this order, to put it back later. *)
Displaced(a, m) ==
    (IF LosesName(a, m) THEN << [name |-> nameOf[m], node |-> m] >> ELSE << >>)
    \o (IF StealsName(a, m) THEN << [name |-> a, node |-> named[a]] >> ELSE << >>)

(* nameAssertion(a, m).  Restating a binding returns early, so that the     *)
(* scope does not claim a name an enclosing scope owns.                     *)
NameAssertion(a, m) ==
    /\ named[a] # m
    /\ frames # << >> => Len(Top.replaced) + Len(Displaced(a, m)) <= MaxDisplaced
    /\ named' = [x \in Name |->
                   CASE x = a -> m
                     [] x # a /\ LosesName(a, m) /\ x = nameOf[m] -> NoNode
                     [] OTHER -> named[x]]
    /\ nameOf' = [y \in Node |->
                   CASE y = m -> a
                     [] y # m /\ StealsName(a, m) /\ y = named[a] -> NoName
                     [] OTHER -> nameOf[y]]
    /\ frames' = IF frames = << >> THEN frames
                 ELSE [frames EXCEPT ![Len(frames)] =
                         [added |-> @.added \cup {a},
                          replaced |-> @.replaced \o Displaced(a, m)]]
    /\ UNCHANGED snapshots

(* Mutant: popScope replays its records forwards, so the last one stays. *)
LastOfName(r, a) ==
    CHOOSE i \in DOMAIN r : r[i].name = a /\ \A j \in DOMAIN r : j > i => r[j].name # a

(* The names popScope erases, then the bindings it puts back in reverse     *)
(* order: where a name, or a node, was displaced more than once, the first  *)
(* record is written last and stays.                                        *)
FirstOfName(r, a) ==
    CHOOSE i \in DOMAIN r : r[i].name = a /\ \A j \in 1 .. i - 1 : r[j].name # a
FirstOfNode(r, m) ==
    CHOOSE i \in DOMAIN r : r[i].node = m /\ \A j \in 1 .. i - 1 : r[j].node # m

(* Mutant: popScope erases names from named_assertions only. *)
UndoOneWay(f, st) ==
    [named |-> [a \in Name |->
        CASE \E i \in DOMAIN f.replaced : f.replaced[i].name = a
                -> f.replaced[FirstOfName(f.replaced, a)].node
          [] ~(\E i \in DOMAIN f.replaced : f.replaced[i].name = a)
                -> IF a \in f.added THEN NoNode ELSE st.named[a]],
     nameOf |-> [m \in Node |->
        CASE \E i \in DOMAIN f.replaced : f.replaced[i].node = m
                -> f.replaced[FirstOfNode(f.replaced, m)].name
          [] ~(\E i \in DOMAIN f.replaced : f.replaced[i].node = m) -> st.nameOf[m]]]

Undo(f, st) ==
    [named |-> [a \in Name |->
        CASE \E i \in DOMAIN f.replaced : f.replaced[i].name = a
                -> f.replaced[FirstOfName(f.replaced, a)].node
          [] ~(\E i \in DOMAIN f.replaced : f.replaced[i].name = a)
                -> IF a \in f.added THEN NoNode ELSE st.named[a]],
     nameOf |-> [m \in Node |->
        CASE \E i \in DOMAIN f.replaced : f.replaced[i].node = m
                -> f.replaced[FirstOfNode(f.replaced, m)].name
          [] ~(\E i \in DOMAIN f.replaced : f.replaced[i].node = m)
                -> IF \E a \in f.added : st.named[a] = m THEN NoName ELSE st.nameOf[m]]]

(* One iteration of pushScope. *)
PushLevel ==
    /\ Len(frames) < MaxDepth
    /\ frames' = Append(frames, [added |-> {}, replaced |-> << >>])
    /\ snapshots' = Append(snapshots, Now)
    /\ UNCHANGED <<named, nameOf>>

(* One iteration of popScope. *)
PopLevel ==
    /\ frames # << >>
    /\ named' = Undo(Top, Now).named
    /\ nameOf' = Undo(Top, Now).nameOf
    /\ frames' = Outer(frames)
    /\ snapshots' = Outer(snapshots)

(* resetAssertions clears both maps and keeps the scopes with what they     *)
(* recorded.  No name is in force at any level any more.                    *)
ResetAssertions ==
    /\ named' = Unnamed.named
    /\ nameOf' = Unnamed.nameOf
    /\ snapshots' = [i \in 1 .. Len(frames) |-> Unnamed]
    /\ UNCHANGED frames

ResetAll ==
    /\ named' = Unnamed.named
    /\ nameOf' = Unnamed.nameOf
    /\ frames' = << >>
    /\ snapshots' = << >>

Next ==
    \/ \E a \in Name, m \in Node : NameAssertion(a, m)
    \/ PushLevel \/ PopLevel \/ ResetAssertions \/ ResetAll

Spec == Init /\ [][Next]_nameVars

(* Every binding that naming m with a displaces was made by an outer scope. *)
DisplacesOuterOnly(a, m) ==
    frames # << >> =>
        \A i \in DOMAIN Displaced(a, m) : Displaced(a, m)[i].name \notin Top.added

(* The sessions where a scope displaces no binding of its own and          *)
(* assertions are reset only with no scope open.                           *)
ScopedNext ==
    \/ \E a \in Name, m \in Node : DisplacesOuterOnly(a, m) /\ NameAssertion(a, m)
    \/ PushLevel \/ PopLevel \/ ResetAll
    \/ frames = << >> /\ ResetAssertions

ScopedSpec == Init /\ [][ScopedNext]_nameVars
-----------------------------------------------------------------------------
(* Properties *)

(* "every name refers to one assertion and every assertion carries at most  *)
(* one name" (parser_context.h:101): the two maps are inverse.              *)
Inverse(st) ==
    \A a \in Name, m \in Node : st.named[a] = m <=> st.nameOf[m] = a

Bijection == Inverse(Now)

(* A naming, in whatever state the maps are inverse, keeps them inverse.    *)
NamingKeepsBijection ==
    [][(\E a \in Name, m \in Node : NameAssertion(a, m)) /\ Bijection => Bijection']_nameVars

(* The maps as they are, or were, when scope i is, or was, the innermost.   *)
StateAt(i) == IF i < Len(frames) THEN snapshots[i + 1] ELSE Now

(* "popping has to put the outer binding back" (parser_context.h:62): each  *)
(* open scope's records undo it to the state of its push.                   *)
ScopesUndo ==
    \A i \in 1 .. Len(frames) :
        Inverse(snapshots[i]) /\ Undo(frames[i], StateAt(i)) = snapshots[i]

(* What makes the reverse replay of popScope well defined: a scope displaces *)
(* a name, or a node, of the outer scopes at most once, and one that is bound *)
(* again is bound under a name the scope added, which the pop erases.       *)
Records(f) == {f.replaced[i] : i \in DOMAIN f.replaced}

DisplacedOnce(f, st) ==
    /\ \A d, e \in Records(f) : (d.name = e.name \/ d.node = e.node) => d = e
    /\ \A e \in Records(f) :
          /\ st.named[e.name] # NoNode => e.name \in f.added
          /\ st.nameOf[e.node] # NoName => st.nameOf[e.node] \in f.added

OuterDisplacedOnce == \A i \in 1 .. Len(frames) : DisplacedOnce(frames[i], StateAt(i))

(* "the outermost binding -- recorded first -- is the one that survives"    *)
(* (parser_context.cpp:85): while scopes do not nest, a pop brings back     *)
(* every binding in force at the push, however often the scope displaced it *)
(* and whatever else it does, if the maps were inverse at the push.         *)
OuterBindingsSurvive ==
    [][PopLevel /\ Inverse(snapshots[Len(snapshots)]) =>
        LET before == snapshots[Len(snapshots)] IN
        /\ \A a \in Name : before.named[a] # NoNode => named'[a] = before.named[a]
        /\ \A m \in Node : before.nameOf[m] # NoName => nameOf'[m] = before.nameOf[m]]_nameVars

(* The names and displaced bindings recorded per scope implement a stack of *)
(* snapshots of the two maps.                                               *)
Store == INSTANCE ScopedStore WITH
    Empty <- Unnamed, current <- Now, saved <- snapshots

ImplementsStore == Store!Spec
=============================================================================
