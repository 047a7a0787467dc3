------------------------------ MODULE MCSession ------------------------------
(***************************************************************************)
(* Session with short texts.  A session is orderly: it logs everything or   *)
(* responses only from start to end, asserts by text, hands over nothing    *)
(* that throws after it took effect, and reads a loaded text to its end     *)
(* before it uses the buffer for something else; or it is free: it takes    *)
(* any step.                                                                *)
(***************************************************************************)
EXTENDS Session

CONSTANT Scripts      \* texts of orderly sessions

ASSUME ScriptsAssumption ==
    \A cmds \in Scripts : cmds \in Seq(Commands) /\ \A i \in DOMAIN cmds : ~Throws(cmds[i])

VARIABLE orderly      \* chosen once, at the start of the session

MCScripts ==
    { <<AssertCommand("false"), Plain("check-sat")>>,
      <<Push(2), AssertCommand("true"), Plain("check-sat")>>,
      <<AssertCommand("other"), Pop(2)>>,
      <<Plain("reset-assertions"), Plain("exit"), Push(1)>> }

(* The texts of free sessions: two of them throw. *)
MCTexts == { <<Plain("reset")>>, <<Command("assert-bad-keyword", "false", 0)>>, <<Plain("unknown")>> }

MCInit == Init /\ orderly \in BOOLEAN

Orderly ==
    \/ text = << >> /\ \E cmds \in Scripts \cup {<<Plain("unknown")>>} : ParseStr(cmds)
    \/ text = << >> /\ \E cmds \in Scripts : LoadStr(cmds)
    \/ text = << >> /\ ReadAside(<< >>)
    \/ Calls

(* The bounds stop the caller, never the reading of a text. *)
MCNext ==
    /\ UNCHANGED orderly
    /\ \/ Reading /\ (orderly \/ Within(ctx'))
       \/ orderly /\ Orderly /\ Within(ctx') /\ Len(script') <= MaxLog
       \/ ~orderly /\ Next /\ Within(ctx') /\ script' = << >>

MCSpec ==
    /\ MCInit /\ [][MCNext]_<<sessionVars, orderly>>
    /\ WF_<<sessionVars, orderly>>(Reading /\ UNCHANGED orderly)
-----------------------------------------------------------------------------
(* See Session for what each says of the code. *)

(* The full log of an orderly session replays to its assertions and scopes. *)
OrderlyLogReplays == (orderly /\ logging) => LogReplays

(* In an orderly session log numbers locate commands in the source. *)
OrderlyIndexLocates == orderly => IndexLocates

(* A consumer that calls nextCommand until CT_EOF gets there. *)
OrderlyTextConsumed == orderly => TextConsumed
=============================================================================
