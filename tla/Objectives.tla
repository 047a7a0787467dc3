----------------------------- MODULE Objectives -----------------------------
(***************************************************************************)
(* The objectives of an optimisation problem: ObjectiveManager             *)
(* (src/frontend/objective.cpp), the commands that fill it                  *)
(* (src/frontend/opt_parser.cpp) and the part of popScope that cuts it.     *)
(*                                                                         *)
(* Objectives are heap objects that the list, the names and the members of *)
(* multi-objectives refer to; a pop must leave no reference to an objective *)
(* it takes out of the list.  The terms, comparisons and identifiers an    *)
(* objective carries are left out.                                         *)
(***************************************************************************)
EXTENDS Naturals, Sequences

CONSTANTS
    Objective,        \* objects that may be allocated
    Name,             \* names given by define-objective
    NULL,             \* the null pointer getObjective returns for no name
    MaxDepth          \* bound: open scopes

ASSUME NullAssumption == NULL \notin Objective
ASSUME BoundAssumption == MaxDepth \in Nat

VARIABLES
    objectives,       \* objectives_
    named,            \* objective_map_
    members,          \* what each objective refers to; a single one, nothing
    frames,           \* objectives_size of scope_stack_, outermost first
    snapshots         \* history: objective_map_ as it was at each open push

objectiveVars == <<objectives, named, members, frames, snapshots>>

Naming == [Name -> Objective \cup {NULL}]

Listed == {objectives[i] : i \in DOMAIN objectives}

Unnamed == [a \in Name |-> NULL]
NoMembers == [o \in Objective |-> {}]

Outer(s) == [i \in 1 .. Len(s) - 1 |-> s[i]]

TypeOK ==
    /\ objectives \in Seq(Objective)
    /\ named \in Naming
    /\ members \in [Objective -> SUBSET (Objective \cup {NULL})]
    /\ frames \in Seq(Nat)
    /\ snapshots \in Seq(Naming)
    /\ Len(snapshots) = Len(frames)

Init ==
    /\ objectives = << >>
    /\ named = Unnamed
    /\ members = NoMembers
    /\ frames = << >>
    /\ snapshots = << >>

-----------------------------------------------------------------------------
(* make_shared gives an object that nothing refers to. *)
Fresh(o) ==
    /\ o \notin Listed
    /\ \A a \in Name : named[a] # o
    /\ \A p \in Objective : o \notin members[p]

(* (minimize e), (maximize e), (maxsat), (minsat); also a define-objective  *)
(* whose closing parenthesis is missing: the objective is in the list when  *)
(* parseRpar throws, and the name is not registered.                        *)
AddSingleObjective(o) ==
    /\ Fresh(o)
    /\ objectives' = Append(objectives, o)
    /\ UNCHANGED <<named, members, frames, snapshots>>

(* (define-objective a (minimize e)): a name in use is given away. *)
DefineObjective(a, o) ==
    /\ Fresh(o)
    /\ objectives' = Append(objectives, o)
    /\ named' = [named EXCEPT ![a] = o]
    /\ UNCHANGED <<members, frames, snapshots>>

(* (lex-optimize (a ...)) and the other multi-objectives.  A name that is   *)
(* not defined contributes the null pointer.                                *)
AddMultiObjective(names, o) ==
    /\ Fresh(o)
    /\ objectives' = Append(objectives, o)
    /\ members' = [members EXCEPT ![o] = {named[a] : a \in names}]
    /\ UNCHANGED <<named, frames, snapshots>>

(* One iteration of pushScope. *)
PushLevel ==
    /\ Len(frames) < MaxDepth
    /\ frames' = Append(frames, Len(objectives))
    /\ snapshots' = Append(snapshots, named)
    /\ UNCHANGED <<objectives, named, members>>

(* Mutants: popToSize erases no name; it misses the first objective it cuts. *)
PopToSizeKeepsNames(n) ==
    IF n >= Len(objectives) THEN UNCHANGED <<objectives, named, members>>
    ELSE LET cut == {objectives[i] : i \in n + 1 .. Len(objectives)} IN
         /\ objectives' = [i \in 1 .. n |-> objectives[i]]
         /\ members' = [o \in Objective |-> IF o \in cut THEN {} ELSE members[o]]
         /\ UNCHANGED named

PopToSizeMissesOne(n) ==
    IF n >= Len(objectives) THEN UNCHANGED <<objectives, named, members>>
    ELSE LET cut == {objectives[i] : i \in n + 2 .. Len(objectives)} IN
         /\ objectives' = [i \in 1 .. n |-> objectives[i]]
         /\ named' = [a \in Name |-> IF named[a] \in cut THEN NULL ELSE named[a]]
         /\ members' = [o \in Objective |-> IF o \in cut THEN {} ELSE members[o]]

(* popToSize(n): it returns early when there is nothing to cut; else it     *)
(* erases every name of an objective it cuts.  An object dies with the last *)
(* reference to it; here an object that is cut has its members cleared.     *)
PopToSize(n) ==
    IF n >= Len(objectives) THEN UNCHANGED <<objectives, named, members>>
    ELSE LET cut == {objectives[i] : i \in n + 1 .. Len(objectives)} IN
         /\ objectives' = [i \in 1 .. n |-> objectives[i]]
         /\ named' = [a \in Name |-> IF named[a] \in cut THEN NULL ELSE named[a]]
         /\ members' = [o \in Objective |-> IF o \in cut THEN {} ELSE members[o]]

(* One iteration of popScope. *)
PopLevel ==
    /\ frames # << >>
    /\ PopToSize(frames[Len(frames)])
    /\ frames' = Outer(frames)
    /\ snapshots' = Outer(snapshots)

(* Parser::reset installs a new ObjectiveManager; reset-assertions leaves   *)
(* the objectives alone.                                                    *)
ResetAll ==
    /\ objectives' = << >>
    /\ named' = Unnamed
    /\ members' = NoMembers
    /\ frames' = << >>
    /\ snapshots' = << >>

Adding ==
    \E o \in Objective :
        AddSingleObjective(o) \/ \E names \in SUBSET Name : AddMultiObjective(names, o)

Next ==
    \/ Adding
    \/ \E a \in Name, o \in Objective : DefineObjective(a, o)
    \/ PushLevel \/ PopLevel \/ ResetAll

Spec == Init /\ [][Next]_objectiveVars

(* The sessions where no scope defines a name that an outer one defined. *)
ScopedNext ==
    \/ Adding
    \/ \E a \in Name, o \in Objective :
          /\ frames # << >> => snapshots[Len(snapshots)][a] = NULL
          /\ DefineObjective(a, o)
    \/ PushLevel \/ PopLevel \/ ResetAll

ScopedSpec == Init /\ [][ScopedNext]_objectiveVars
-----------------------------------------------------------------------------
(* Properties *)

(* No name and no multi-objective refers to an objective that a pop took    *)
(* out of the list, and a multi-objective comes after its members.          *)
NoDangling ==
    /\ \A a \in Name : named[a] \in Listed \cup {NULL}
    /\ \A i \in DOMAIN objectives :
          members[objectives[i]] \subseteq {objectives[j] : j \in 1 .. i - 1} \cup {NULL}

(* No objective is listed twice. *)
ListedOnce ==
    \A i, j \in DOMAIN objectives : objectives[i] = objectives[j] => i = j

(* The objectives that scope i, and the scopes inside it, added. *)
AddedSince(i) == {objectives[j] : j \in frames[i] + 1 .. Len(objectives)}

(* Each name denotes, in a scope, what it denoted when the scope was opened *)
(* or an objective of the scope: popToSize frees every name that was given  *)
(* away in the scope and gives none another meaning.                        *)
NamesOfScope ==
    \A i \in 1 .. Len(frames) : \A a \in Name :
        \/ named[a] = snapshots[i][a]
        \/ named[a] \in AddedSince(i)
        \/ named[a] = NULL

(* Whatever the session, a pop frees names and gives none another meaning,  *)
(* than the one it had at the push.                                         *)
PopNeverMisnames ==
    [][PopLevel => \A a \in Name :
          named'[a] \in {NULL, snapshots[Len(snapshots)][a]}]_objectiveVars

(* What a scope promises to give back, at present and for scope i. *)
Kept(n) == {objectives[j] : j \in 1 .. n}
Problem(n, naming) ==
    [objectives |-> [i \in 1 .. n |-> objectives[i]],
     named |-> naming,
     members |-> [o \in Objective |-> IF o \in Kept(n) THEN members[o] ELSE {}]]

(* The sizes recorded per scope implement a stack of snapshots of the list, *)
(* the names and the members.                                               *)
Store == INSTANCE ScopedStore WITH
    Empty <- [objectives |-> << >>, named |-> Unnamed, members |-> NoMembers],
    current <- [objectives |-> objectives, named |-> named, members |-> members],
    saved <- [i \in 1 .. Len(frames) |-> Problem(frames[i], snapshots[i])]

ImplementsStore == Store!Spec
=============================================================================
