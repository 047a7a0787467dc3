------------------------------ MODULE MCBinders ------------------------------
(***************************************************************************)
(* Binders with two names and two sorts.  A session keeps to the scripts of *)
(* DisciplinedNext, or takes any step, with one sort and two binders open.  *)
(***************************************************************************)
EXTENDS Binders

VARIABLE disciplined  \* chosen once, at the start of the session

MCInit == Init /\ disciplined \in BOOLEAN

(* The bounds of a session that takes any step. *)
PlainSort == CHOOSE s \in Sort : TRUE
PlainSession ==
    /\ Len(open) <= 2 /\ letDepth <= 2 /\ Len(checkpoints) <= 2 /\ quantDepth <= 2
    /\ \A x \in Name : /\ quants[x] \in {Absent, QuantNode(x, PlainSort)}
                       /\ params[x] \in {Absent, ParamNode(x, PlainSort)}

MCNext ==
    /\ UNCHANGED disciplined
    /\ \/ disciplined /\ DisciplinedNext
       \/ ~disciplined /\ Next /\ PlainSession'

MCSpec == MCInit /\ [][MCNext]_<<binderVars, disciplined>>
-----------------------------------------------------------------------------
(* What holds in disciplined sessions only: see Binders for what each says  *)
(* of the code.                                                             *)

(* A name denotes the binding of the innermost open binder that binds it. *)
DisciplinedResolves == disciplined => ResolvesLexically

(* Between two terms nothing is bound, also after a let that failed. *)
DisciplinedBalanced == disciplined => Balanced
=============================================================================
