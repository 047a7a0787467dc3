----------------------------- MODULE ScopedStore -----------------------------
(***************************************************************************)
(* What a push/pop scope stack promises, independently of how it is kept:  *)
(* a store whose content may change at any time, and a stack of snapshots. *)
(* Push takes a snapshot; Pop puts the last one back, whatever happened in *)
(* between; Clear forgets everything.                                      *)
(*                                                                         *)
(* The parser does not keep snapshots: it keeps the sizes and the names a  *)
(* scope added (struct ScopeFrame) and undoes them.  AssertionStack,       *)
(* AssertionNames, ScopedSymbols, Objectives and Binders implement this module.     *)
(***************************************************************************)
EXTENDS Sequences, Naturals

CONSTANT Empty        \* the content of a fresh store

VARIABLES
    current,          \* the content seen by every operation
    saved             \* one snapshot per open scope, innermost last

storeVars == <<current, saved>>

Init == current = Empty /\ saved = << >>

(* Any operation that is not about scopes: it changes the content only. *)
Update == UNCHANGED saved

Push == /\ saved' = Append(saved, current)
        /\ UNCHANGED current

Pop == /\ saved # << >>
       /\ current' = saved[Len(saved)]
       /\ saved' = [i \in 1 .. Len(saved) - 1 |-> saved[i]]

(* Several scopes are left at once: the content is that of the outermost. *)
Unwind == \E n \in 1 .. Len(saved) :
            /\ current' = saved[n]
            /\ saved' = [i \in 1 .. n - 1 |-> saved[i]]

Clear == current' = Empty /\ saved' = << >>

Next == Update \/ Push \/ Pop \/ Unwind \/ Clear

Spec == Init /\ [][Next]_storeVars
=============================================================================
