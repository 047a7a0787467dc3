------------------------------- MODULE Session -------------------------------
(***************************************************************************)
(* The command loop and the incremental API of Parser                      *)
(* (src/frontend/base_parser.cpp).  Commands come from a text read at one  *)
(* go (parseStr), from a text read command by command (loadStr, then       *)
(* nextCommand) or from calls (push, pop, assert, ...).  All of them share *)
(* one buffer, one scope stack, one cached result and one command log.     *)
(*                                                                         *)
(* Of the context only assertions and the sizes recorded by push are kept: *)
(* AssertionStack, AssertionNames, ScopedSymbols and Objectives have the   *)
(* rest.                                                                   *)
(***************************************************************************)
EXTENDS Naturals, Sequences, SequencesExt

CONSTANTS
    Texts,            \* texts a caller may hand over: sequences of commands
    NULL,             \* the null pointer that vector::resize fills with
    MaxAsserts,       \* bound: assertions
    MaxDepth,         \* bound: open scopes
    MaxLog            \* bound: entries of the log

VARIABLES
    ctx,              \* assertions, recorded sizes, cached result; and whether an
                      \* assertion was taken out since the result was cached (history)
    text,             \* what is left to read from bufptr on, << >> when buffer is null
    source,           \* source_text_
    index,            \* next_command_index_
    script,           \* script_
    logging,          \* command_logging_
    since             \* entries of script_ when source_text_ was set (history)

sessionVars == <<ctx, text, source, index, script, logging, since>>

(* What checkSat tells apart in an assertion. *)
Term == {"true", "false", "other", "error"}

Command(op, t, n) == [op |-> op, term |-> t, n |-> n]
AssertCommand(t) == Command("assert", t, 0)
Push(n) == Command("push", NULL, n)
Pop(n) == Command("pop", NULL, n)
Plain(op) == Command(op, NULL, 0)

(* The ")" that is left when the command it closes was abandoned. *)
Close == Plain("close")

(* The commands whose execution differs in what is modelled here.  An assert *)
(* may have a keyword that is unknown, a command a name that is.             *)
Op == {"assert", "assert-bad-keyword", "push", "pop", "reset-assertions", "reset",
       "check-sat", "exit", "unknown", "close"}

Commands == [op : Op, term : Term \cup {NULL}, n : Nat]

ASSUME TextsAssumption == Texts \subseteq Seq(Commands)

Context == [assertions : Seq(Term \cup {NULL}), frames : Seq(Nat),
            result : {"unknown", "sat", "unsat", "error"}, removed : BOOLEAN]
Fresh == [assertions |-> << >>, frames |-> << >>, result |-> "unknown", removed |-> FALSE]

Within(c) == Len(c.assertions) <= MaxAsserts /\ Len(c.frames) <= MaxDepth

TypeOK ==
    /\ ctx \in Context
    /\ text \in Seq(Commands) /\ source \in Seq(Commands)
    /\ script \in Seq([command : Commands, index : Nat])
    /\ index \in Nat /\ since \in 0 .. Len(script)
    /\ logging \in BOOLEAN

Init ==
    /\ ctx = Fresh /\ text = << >> /\ source = << >> /\ index = 0
    /\ script = << >> /\ logging \in BOOLEAN /\ since = 0
-----------------------------------------------------------------------------
(* The effect of a command on the context. *)

Resize(s, n) == [i \in 1 .. n |-> IF i <= Len(s) THEN s[i] ELSE NULL]

Pushed(c, n) ==
    [c EXCEPT !.frames = @ \o [i \in 1 .. n |-> Len(c.assertions)]]

(* One iteration of popScope. *)
PoppedOne(c) ==
    [c EXCEPT !.assertions = Resize(@, Last(c.frames)), !.frames = Front(@), !.removed = TRUE]

(* popScope: all open levels when n is more than there are. *)
Popped(c, n) ==
    LET levels == IF n > Len(c.frames) THEN Len(c.frames) ELSE n
        after[k \in 0 .. levels] == IF k = 0 THEN c ELSE PoppedOne(after[k - 1])
    IN  after[levels]

Cleared(c) == [c EXCEPT !.assertions = << >>, !.removed = TRUE]

Asserted(c, t) == [c EXCEPT !.assertions = Append(@, t)]

(* Mutant: reset keeps the verdict. *)
ResetAllButVerdict(c) == [Fresh EXCEPT !.result = c.result]

(* reset, the command and the call, forgets the verdict with all the rest. *)
ResetAll(c) == Fresh

(* An assert followed by an unknown keyword appends before it throws. *)
Effect(c, cmd) ==
    CASE cmd.op \in {"assert", "assert-bad-keyword"} -> Asserted(c, cmd.term)
      [] cmd.op = "push" -> Pushed(c, cmd.n)
      [] cmd.op = "pop" -> Popped(c, cmd.n)
      [] cmd.op = "reset-assertions" -> Cleared(c)
      [] cmd.op = "reset" -> ResetAll(c)
      [] OTHER -> c

Effects(c, cmds) ==
    LET after[k \in 0 .. Len(cmds)] == IF k = 0 THEN c ELSE Effect(after[k - 1], cmds[k])
    IN  after[Len(cmds)]

(* check-sat as a text is only noted; it is one of the commands whose        *)
(* answer a consumer has to give, which are always logged.                   *)
IsResponse(cmd) == cmd.op = "check-sat"

Throws(cmd) == cmd.op \in {"assert-bad-keyword", "unknown", "close"}

(* Where bufptr stops when a command throws: before the rest of it.  An      *)
(* unknown command's first argument is a list, here a push.                  *)
Unread(cmd) == IF cmd.op = "unknown" THEN <<Push(1), Close>> ELSE <<Close>>

Entry(cmd, i) == [command |-> cmd, index |-> i]

(* Mutant: only a logged command is counted. *)
LoggedUncounted(cmd) ==
    IF logging \/ IsResponse(cmd)
    THEN script' = Append(script, Entry(cmd, index)) /\ index' = index + 1
    ELSE UNCHANGED <<script, index>>

(* The command just read is counted, and put in the log when it has to be. *)
Logged(cmd) ==
    /\ index' = index + 1
    /\ script' = IF logging \/ IsResponse(cmd) THEN Append(script, Entry(cmd, index)) ELSE script

(* A call is logged without a number. *)
LoggedCall(cmd) ==
    script' = IF logging THEN Append(script, Entry(cmd, 0)) ELSE script
-----------------------------------------------------------------------------
(* Texts *)

(* parseStr stops after the first command that throws or is an exit. *)
LastRun(cmds) ==
    LET stops == {i \in DOMAIN cmds : Throws(cmds[i]) \/ cmds[i].op = "exit"}
    IN  IF stops = {} THEN Len(cmds) ELSE CHOOSE i \in stops : \A j \in stops : i <= j

(* The commands that are read to their end: all that ran but one that threw. *)
Completed(cmds) ==
    LET last == LastRun(cmds)
    IN  SubSeq(cmds, 1, IF last > 0 /\ Throws(cmds[last]) THEN last - 1 ELSE last)

Entries(cmds) ==
    LET upTo[k \in 0 .. Len(cmds)] ==
          IF k = 0 THEN << >>
          ELSE IF logging \/ IsResponse(cmds[k]) THEN Append(upTo[k - 1], Entry(cmds[k], k - 1))
          ELSE upTo[k - 1]
    IN  upTo[Len(cmds)]

(* parseStr: whatever was in the buffer is gone afterwards. *)
ParseStr(cmds) ==
    /\ cmds # << >>
    /\ ctx' = Effects(ctx, SubSeq(cmds, 1, LastRun(cmds)))
    /\ text' = << >> /\ source' = cmds
    /\ index' = Len(Completed(cmds))
    /\ script' = script \o Entries(Completed(cmds))
    /\ since' = Len(script)
    /\ UNCHANGED logging

LoadStr(cmds) ==
    /\ cmds # << >>
    /\ text' = cmds /\ source' = cmds /\ index' = 0 /\ since' = Len(script)
    /\ UNCHANGED <<ctx, script, logging>>

(* Mutant: at an exit nextCommand returns before it has read its end. *)
NextCommandStaysAtExit ==
    /\ text # << >>
    /\ ~Throws(Head(text)) /\ Head(text).op # "exit"
    /\ ctx' = Effect(ctx, Head(text))
    /\ text' = Tail(text)
    /\ Logged(Head(text))
    /\ UNCHANGED <<source, logging, since>>

(* nextCommand on a command that can be read; exit is a command like others. *)
NextCommand ==
    /\ text # << >>
    /\ ~Throws(Head(text))
    /\ ctx' = Effect(ctx, Head(text))
    /\ text' = Tail(text)
    /\ Logged(Head(text))
    /\ UNCHANGED <<source, logging, since>>

(* nextCommand lets the exception through; bufptr stays where it was. *)
NextCommandThrows ==
    /\ text # << >>
    /\ Throws(Head(text))
    /\ ctx' = Effect(ctx, Head(text))
    /\ text' = Unread(Head(text)) \o Tail(text)
    /\ UNCHANGED <<source, index, script, logging, since>>

(* mkExpr, and declareVar with the text of a sort, put their own text into   *)
(* the buffer; an expression that throws stays there.                        *)
ReadAside(left) ==
    /\ text' = left
    /\ UNCHANGED <<ctx, source, index, script, logging, since>>

(* assert(string) goes through mkExpr; its text is gone when it succeeds. *)
AssertText(t) ==
    /\ ctx' = Asserted(ctx, t)
    /\ text' = << >>
    /\ UNCHANGED <<source, index, script, logging, since>>
-----------------------------------------------------------------------------
(* Calls *)

AssertNode(t) ==
    /\ ctx' = Asserted(ctx, t)
    /\ UNCHANGED <<text, source, index, script, logging, since>>

CallPush(n) ==
    /\ ctx' = Pushed(ctx, n)
    /\ LoggedCall(Push(n))
    /\ UNCHANGED <<text, source, index, logging, since>>

(* Mutant: the call refuses an underflow but logs it. *)
CallPopLogsRefused(n) ==
    /\ ctx' = IF n <= Len(ctx.frames) THEN Popped(ctx, n) ELSE ctx
    /\ LoggedCall(Pop(n))
    /\ UNCHANGED <<text, source, index, logging, since>>

(* The call, unlike the command, refuses to pop more levels than are open. *)
CallPop(n) ==
    /\ n <= Len(ctx.frames)
    /\ ctx' = Popped(ctx, n)
    /\ LoggedCall(Pop(n))
    /\ UNCHANGED <<text, source, index, logging, since>>

CallResetAssertions ==
    /\ ctx' = Cleared(ctx)
    /\ LoggedCall(Plain("reset-assertions"))
    /\ UNCHANGED <<text, source, index, logging, since>>

CallReset ==
    /\ ctx' = ResetAll(ctx)
    /\ LoggedCall(Plain("reset"))
    /\ UNCHANGED <<text, source, index, logging, since>>

SetCommandLogging(b) ==
    /\ logging' = b
    /\ UNCHANGED <<ctx, text, source, index, script, since>>

(* The first assertion that is not true decides. *)
Verdict(s) ==
    LET open == {i \in DOMAIN s : s[i] # "true"}
        first == CHOOSE i \in open : \A j \in open : i <= j
    IN  IF open = {} THEN "sat"
        ELSE CASE s[first] = "error" -> "error"
               [] s[first] = "false" -> "unsat"
               [] OTHER -> "unknown"

(* checkSat computes a verdict only while none is kept.  (A null pointer     *)
(* among the assertions, which a pop after a reset can leave, crashes it.)   *)
CheckSat ==
    /\ \A i \in DOMAIN ctx.assertions : ctx.assertions[i] # NULL
    /\ ctx' = IF ctx.result # "unknown" THEN ctx
              ELSE [ctx EXCEPT !.result = Verdict(ctx.assertions), !.removed = FALSE]
    /\ UNCHANGED <<text, source, index, script, logging, since>>
-----------------------------------------------------------------------------
Reading == NextCommand \/ NextCommandThrows

(* Calls that leave buffer and log faithful to what was given. *)
Calls ==
    \/ \E n \in 1 .. 2 : CallPush(n) \/ CallPop(n)
    \/ CallResetAssertions \/ CallReset \/ CheckSat

Next ==
    \/ \E cmds \in Texts : ParseStr(cmds) \/ LoadStr(cmds)
    \/ Reading
    \/ \E left \in {<< >>, <<Close>>} : ReadAside(left)
    \/ \E t \in Term : AssertNode(t) \/ AssertText(t)
    \/ Calls
    \/ \E b \in BOOLEAN : SetCommandLogging(b)

Spec == Init /\ [][Next]_sessionVars
-----------------------------------------------------------------------------
(* Properties *)

(* A kept verdict "unsat" or "error" still is the verdict of the present     *)
(* assertions, although checkSat does not look at them again, unless one     *)
(* was taken out since.  ("sat" has no such excuse: the next assertion makes *)
(* it stale.)                                                                *)
CachedRefutes ==
    (ctx.result \in {"unsat", "error"} /\ ~ctx.removed) => Verdict(ctx.assertions) = ctx.result

(* Replaying the log from a fresh parser gives the present assertions and    *)
(* scopes: calls and commands, clamped and refused pops, resets and errors   *)
(* are all in it in the order in which they took effect.                     *)
LogReplays ==
    LET replayed == Effects(Fresh, [i \in DOMAIN script |-> script[i].command])
    IN  replayed.assertions = ctx.assertions /\ replayed.frames = ctx.frames

(* The number of a log entry, if the present source was read by nextCommand  *)
(* or parseStr, is the position of its command in that source: numbers count *)
(* what was left out of the log as well.                                     *)
IndexLocates ==
    \A i \in since + 1 .. Len(script) :
        IsResponse(script[i].command) =>
            /\ script[i].index + 1 \in DOMAIN source
            /\ source[script[i].index + 1] = script[i].command

(* A text that is read command by command is read to its end. *)
TextConsumed == (text # << >>) ~> (text = << >>)
=============================================================================
