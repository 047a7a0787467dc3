---------------------------- MODULE MCObjectives ----------------------------
(***************************************************************************)
(* Objectives with three objects and two names, scopes two deep.  A session *)
(* gives no outer name away in a scope (ScopedNext), or takes any step.     *)
(***************************************************************************)
EXTENDS Objectives

VARIABLE disciplined  \* chosen once, at the start of the session

MCInit == Init /\ disciplined \in BOOLEAN

MCNext ==
    /\ UNCHANGED disciplined
    /\ \/ disciplined /\ ScopedNext
       \/ ~disciplined /\ Next

MCSpec == MCInit /\ [][MCNext]_<<objectiveVars, disciplined>>
-----------------------------------------------------------------------------
(* In disciplined sessions the recorded sizes implement a stack of          *)
(* snapshots of the problem (see Objectives); the other sessions are left   *)
(* out of the mapping.                                                      *)
DisciplinedStore == INSTANCE ScopedStore WITH
    Empty <- [objectives |-> << >>, named |-> Unnamed, members |-> NoMembers],
    current <- [objectives |-> IF disciplined THEN objectives ELSE << >>,
                named |-> IF disciplined THEN named ELSE Unnamed,
                members |-> IF disciplined THEN members ELSE NoMembers],
    saved <- [i \in 1 .. (IF disciplined THEN Len(frames) ELSE 0) |->
                Problem(frames[i], snapshots[i])]

DisciplinedImplementsStore == DisciplinedStore!Spec
=============================================================================
