--------------------------- MODULE MCAssertionNames ---------------------------
(***************************************************************************)
(* AssertionNames for TLC.  A session is disciplined (the steps of          *)
(* ScopedNext, scopes nest) or takes any step (scopes one deep).            *)
(***************************************************************************)
EXTENDS AssertionNames

VARIABLE disciplined  \* chosen once, at the start of the session

MCInit == Init /\ disciplined \in BOOLEAN

MCNext ==
    \/ disciplined /\ ScopedNext /\ UNCHANGED disciplined
    \/ ~disciplined /\ Next /\ Len(frames') <= 1 /\ UNCHANGED disciplined

MCSpec == MCInit /\ [][MCNext]_<<nameVars, disciplined>>
-----------------------------------------------------------------------------
(* What holds in disciplined sessions only: see AssertionNames for what each *)
(* says of the code.                                                        *)

(* Each open scope's records undo it to the state of its push, in which the *)
(* two maps are inverse.                                                    *)
DisciplinedScopesUndo == disciplined => ScopesUndo

(* The names and displaced bindings recorded per scope implement a stack of *)
(* snapshots of the two maps; the other sessions are left out of the mapping. *)
DisciplinedStore == INSTANCE ScopedStore WITH
    Empty <- Unnamed,
    current <- IF disciplined THEN Now ELSE Unnamed,
    saved <- IF disciplined THEN snapshots ELSE << >>

DisciplinedImplementsStore == DisciplinedStore!Spec
=============================================================================
