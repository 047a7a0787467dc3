------------------------------- MODULE MCPasses -------------------------------
(***************************************************************************)
(* Passes in two kinds of sessions.  In the first a program creates, drops, *)
(* renames, defines and clears, and runs no pass.  In the others it has     *)
(* built a term, of truth values or of sums, and calls passes on it, with   *)
(* changes between the calls: a handler installed, a node created, dropped  *)
(* or renamed, the store cleared.                                           *)
(***************************************************************************)
EXTENDS PassAnswers

CONSTANTS
    MaxStored,              \* bound on the nodes of a session without passes
    MaxCalls, MaxChanges    \* bounds of a session with passes

VARIABLES plan, calls, changes

Shape(kind, name, arity) == [kind |-> kind, name |-> name, arity |-> arity]

A    == Shape("VAR", "a", 0)
B    == Shape("VAR", "b", 0)
Zero == Shape("CONST", "0", 0)
Not  == Shape("NOT", "not", 1)
And  == Shape("AND", "and", 2)
Plus == Shape("ADD", "+", 2)
Dec  == Shape("FUNC_DEC", "f", 0)
App  == Shape("FUNC_REC_APPLY", "f", 1)

MCStatics == <<Shape("TRUE", "true", 0), Shape("FALSE", "false", 0)>>
MCShapes == {A, B, Zero, Not, And, Plus, Dec, App}

(* Terms as the creations that build them, over true = 1 and false = 2; a    *)
(* node asked for again is the node that is there.                           *)
Builds ==
    { << <<A>>, <<Not, 3>>, <<Not, 4>>, <<And, 1, 5>> >>,
      << <<A>>, <<B>>, <<A>>, <<And, 4, 3>>, <<Not, 3>>, <<And, 6, 5>> >>,
      << <<B>>, <<Not, 1>>, <<And, 3, 4>>, <<And, 2, 1>>, <<Not, 6>>, <<And, 7, 3>> >>,
      << <<A>>, <<Zero>>, <<Plus, 4, 3>>, <<Plus, 3, 5>>, <<Plus, 6, 4>> >> }

(* What sessions without passes create: variables in terms, or functions. *)
StoreKinds == { {B, And}, {Dec, App, And} }

mcVars == <<vars, answerVars, plan, calls, changes>>

MCInit ==
    /\ Init /\ calls = 0 /\ changes = 0
    /\ expected = NoClaim /\ answer = NoClaim /\ stale = FALSE
    /\ plan \in { [store |-> kinds, build |-> << >>] : kinds \in StoreKinds }
                \cup { [store |-> {}, build |-> b] : b \in Builds }

(* The term of the session is built first, a node at a time. *)
Building == plan.build # << >>

Build ==
    /\ Building
    /\ Create(Head(plan.build)[1], Tail(Head(plan.build)))
    /\ plan' = [plan EXCEPT !.build = Tail(@)]
    /\ UNCHANGED <<passVars, answerVars, calls, changes>>

UseStoreOnly ==
    /\ plan.store # {}
    /\ (Use(plan.store) \/ Outdate(ChangeNode))
    /\ Cardinality(DOMAIN heap') <= MaxStored
    /\ \A i \in DOMAIN heap' \ DOMAIN heap :
          /\ heap'[i].kind = "AND" => StaticIds \cap Range(heap'[i].kids) = {}
          /\ heap'[i].kind = "FUNC_REC_APPLY" => heap[heap'[i].kids[1]].name = "f"
    /\ UNCHANGED <<plan, calls, changes>>

Changing ==
    /\ plan.store = {} /\ ~ Building /\ changes < MaxChanges
    /\ \/ /\ Use(IF 3 \in Range(nodes) THEN {} ELSE {A, B}) \/ Outdate(ChangeNode)
          /\ held' \subseteq held => held \ held' \subseteq {Max(held)}
       \/ \E rule \in {"default", "exchange"} : Outdate(Install(rule))
    /\ changes' = changes + 1
    /\ UNCHANGED <<plan, calls>>

Calling ==
    /\ plan.store = {} /\ ~ Building /\ calls < MaxCalls
    /\ Ask
    /\ job'.root = Max(held) \/ heap[job'.root].kind = "VAR"
    /\ calls' = calls + 1
    /\ UNCHANGED <<plan, changes>>

MCRunning == Answering /\ UNCHANGED <<plan, calls, changes>>

MCNext == Build \/ UseStoreOnly \/ Changing \/ Calling \/ MCRunning

MCSpec == MCInit /\ [][MCNext]_mcVars /\ WF_mcVars(MCRunning)
=============================================================================
