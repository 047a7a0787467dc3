--------------------------- MODULE MCScopedSymbols ---------------------------
(***************************************************************************)
(* ScopedSymbols with one symbol in both spellings and a second function so *)
(* that a recursive group has two members, and Dump with datatypes.  A       *)
(* session is                                                               *)
(*   disciplined: the steps of ScopedNext, scopes two deep;                 *)
(*   free: any step, one spelling, scopes one deep;                         *)
(*   dump: commands that mention one another, then a dump that is read back, *)
(*     dumped again and so on;                                              *)
(*   groups: the same for three datatypes in every graph of mentions, in    *)
(*     one command, or in one each;                                         *)
(*   failed: what is left when a declare-datatypes fails.                   *)
(***************************************************************************)
EXTENDS Dump

VARIABLE session  \* chosen at the start

disciplined == session = "disciplined"

Plain(n) == <<n, FALSE>>
x == Plain("x")
f == Plain("f")
g == Plain("g")
S == Plain("S")
D == Plain("D")
E == Plain("E")
F == Plain("F")
X == Plain("X")

MCVarName == {x, OtherSpelling(x)}
MCScriptFun == {f, OtherSpelling(f), g}
MCScriptSort == {S}
MCSortName == {S, D, E, F, X}
MCSort == {{}, {S}, {D}}

(* A datatype has one constructor, with one selector. *)
Datatype(d, params, uses) ==
    [name |-> d, params |-> params,
     constructors |-> <<[name |-> Plain("mk" \o d[1]), selectors |-> <<[name |-> Plain("of" \o d[1]), sort |-> uses]>>]>>]

MCFunName ==
    MCScriptFun \cup UNION { {Plain("mk" \o d[1]), Plain("of" \o d[1]), Plain("is-mk" \o d[1])} : d \in {D, E, F} }
-----------------------------------------------------------------------------
(* The bounds of sessions without a dump.  *)
FewNames ==
    /\ \A s \in VarName : vars[s] \in {Absent, {}}
    /\ \A s \in SortName : sorts[s] # "datatype"
    /\ Len(functionNames) <= 2 /\ Len(sortOrder) <= 2
    /\ Len(varOrder) + Len(functionNames) + Len(sortOrder) <= 3
    /\ \A i \in DOMAIN frames : Len(frames[i].funs) <= 2

(* The bounds of a session that takes any step.  Variables, functions and   *)
(* sorts share no table: a session declares one of the three kinds only.     *)
PlainNames ==
    /\ Len(frames) <= 1 /\ Len(varOrder) <= 1 /\ Len(sortOrder) <= 1
    /\ \A s \in VarName : s[2] => vars[s] = Absent /\ \A i \in DOMAIN frames : s \notin frames[i].vars
    /\ Cardinality({k \in 1 .. 3 : <<varOrder, functionNames, sortOrder>>[k] # << >>}) <= 1
    /\ \A n \in FunName : n[2] => n \notin ToSet(functionNames)

(* The commands of a dump session.  Every text it gives is right. *)
ScriptCommands ==
    {SortCommand(S)}
    \cup { VarCommand(x, sort) : sort \in Sort }
    \cup { FunCommand("dec", f, uses) : uses \in {{}, {S}, {D}} }
    \cup { FunCommand("def", f, uses) : uses \in {{x}, {g}, {Plain("mkD")}} }
    \cup { FunCommand("def", g, uses) : uses \in {{}, {f}} }
    \cup { FunCommand("rec", f, uses) : uses \in {{f}, {f, g}} }
    \cup { Command("group", <<f, g>>, <<{g}, {f, x}>>), Command("group", <<g, f>>, <<{}, {g, S}>>) }

DatatypeLists ==
    { <<Datatype(D, << >>, {})>>, <<Datatype(D, <<X>>, {X, D})>>, <<Datatype(E, << >>, {D})>>,
      <<Datatype(D, << >>, {E}), Datatype(E, << >>, {S, D})>>, <<Datatype(D, <<X>>, {X, E}), Datatype(E, << >>, {})>> }

(* Every graph of mentions, in one command, or in one command each. *)
GroupLists ==
    { <<Datatype(D, << >>, d), Datatype(E, << >>, e), Datatype(F, << >>, h)>> : d, e, h \in SUBSET {D, E, F} }
    \cup { <<Datatype(t, << >>, uses)>> : t \in {D, E, F}, uses \in SUBSET {D, E, F} }

(* The commands of a session are written in the names there are. *)
ASSUME CommandAssumption ==
    /\ ScriptCommands \subseteq CommandText /\ {f, g} \subseteq FunName
    /\ \A list \in DatatypeLists \cup GroupLists : list \in Seq(DatatypeText)

(* A dump session declares no name that an outer scope declares, or that is *)
(* still listed, and datatypes and groups outside of scopes only.           *)
Orderly(c) ==
    CASE c.cmd = "declare-sort" -> NotOuter("sorts", S)
      [] c.cmd = "declare-var" -> NotOuter("vars", x)
      [] OTHER -> /\ ToSet(c.names) \cap ToSet(functionNames) = {}
                  /\ c.cmd = "group" => frames = << >>

(* A function that is gone, or was only declared again, mentions nothing. *)
ForgetAbsent == mentions' = [n \in FunName |-> IF funs[n] # Absent /\ funs'[n] # Absent THEN mentions[n] ELSE {}]

Scripting ==
    \/ \E c \in ScriptCommands : Orderly(c) /\ Execute(c) /\ UNCHANGED <<script, dumped>>
    \/ \E list \in DatatypeLists :
          frames = << >> /\ Execute(DatatypesCommand(list)) /\ UNCHANGED <<script, dumped>>
    \/ \E n \in {f, g} :       \* a definition that fails
          /\ n \notin ToSet(functionNames)
          /\ \E kind \in {Absent, "dec"} : DefineFun(n, kind)
          /\ ForgetAbsent
          /\ UNCHANGED <<constructors, datatypeParams, script, dumped>>
    \/ Len(frames) < 1 /\ PushLevel /\ UNCHANGED dumpVars
    \/ PopLevel /\ ForgetAbsent /\ UNCHANGED <<constructors, datatypeParams, script, dumped>>

(* The bound of a dump session: how many names its tables list, members     *)
(* aside.                                                                   *)
ListedNames == Len(varOrder) + Len(sortOrder) + Len(SelectSeq(functionNames, LAMBDA n : n \in ScriptFun))

Grouping == \E list \in GroupLists : Execute(DatatypesCommand(list)) /\ UNCHANGED <<script, dumped>>

MCInit == Init /\ DumpInit /\ session \in {"disciplined", "free", "dump", "groups"}

MCNext ==
    \/ disciplined /\ ScopedNext /\ FewNames' /\ UNCHANGED <<dumpVars, session>>
    \/ session = "free" /\ Next /\ FewNames' /\ PlainNames' /\ UNCHANGED <<dumpVars, session>>
    \/ session = "dump" /\ dumped = << >> /\ Scripting /\ ListedNames' <= 4 /\ UNCHANGED session
    \/ session = "groups" /\ dumped = << >> /\ Grouping /\ UNCHANGED session
    \/ session \in {"dump", "groups"} /\ (TakeDump \/ ReadCommand) /\ UNCHANGED session
    \/ /\ session = "dump" /\ dumped = << >> /\ ListedNames <= 2      \* bound
       /\ \E list \in DatatypeLists :
             ~Accepts(DatatypesCommand(list)) /\ DeclareDatatypes(list) /\ UNCHANGED <<script, dumped>>
       /\ session' = "failed"
    \/ session = "failed" /\ (PopLevel \/ ResetAll) /\ UNCHANGED <<dumpVars, session>>

MCSpec == MCInit /\ [][MCNext]_<<allVars, session>>
-----------------------------------------------------------------------------
(* What holds in disciplined sessions only: see ScopedSymbols for what each *)
(* says of the code.                                                        *)

(* Variables and functions are never entered under both spellings. *)
DisciplinedOneSpelling == disciplined => OneSpelling

(* What a session of orderly commands dumps is read back to the end, and    *)
(* gives the same dump.                                                     *)
DisciplinedDumpReadsBack == session \in {"dump", "groups"} => ReadsBack

(* Taking out the names that a scope registered implements a stack of       *)
(* snapshots; the other sessions are left out of the mapping.               *)
DisciplinedStore == INSTANCE ScopedStore WITH
    Empty <- NoSymbols,
    current <- IF disciplined THEN Declared ELSE NoSymbols,
    saved <- IF disciplined THEN snapshots ELSE << >>

DisciplinedImplementsStore == DisciplinedStore!Spec
=============================================================================
