-------------------------------- MODULE Dump ---------------------------------
(***************************************************************************)
(* The declarations of ScopedSymbols with what they mention, datatypes     *)
(* (CommandDatatypes of Parser::parseCommand, defineDatatypeConstructors), *)
(* and dumpSMT2, which writes them down (src/frontend/base_parser.cpp).    *)
(* A dump is read back by a new parser, command by command.                *)
(*                                                                         *)
(* A sort is declared ("dec") or a datatype.  Of a variable's sort, a       *)
(* signature or a body only the names it mentions are kept; assertions are  *)
(* left out.  A datatype's text is [name, params, constructors], and a      *)
(* constructor [name, selectors].                                           *)
(***************************************************************************)
EXTENDS ScopedSymbols, FiniteSets

VARIABLES
    constructors,     \* dt_constructors of each datatype that was ever declared
    datatypeParams,   \* datatype_params_
    mentions,         \* what the signature and the body of each function mention
    script,           \* what is left of a dump being read back
    dumped            \* history: that dump, << >> if none is

dumpVars == <<constructors, datatypeParams, mentions, script, dumped>>
allVars == <<symbolVars, dumpVars>>

DumpInit ==
    /\ constructors = [s \in SortName |-> << >>]
    /\ datatypeParams = [s \in SortName |-> << >>]
    /\ mentions = [f \in FunName |-> {}]
    /\ script = << >> /\ dumped = << >>

(* What a text names must be there when it is read. *)
Known(names) ==
    \A n \in names : \/ n \in SortName /\ Found(sorts, n)
                     \/ n \in VarName /\ Found(vars, n)
                     \/ n \in FunName /\ Found(funs, n)
-----------------------------------------------------------------------------
(* Datatypes *)

Tester(constructor) == <<"is-" \o constructor.name[1], FALSE>>

SelectorNames(c) == [i \in DOMAIN c.selectors |-> c.selectors[i].name]
SelectorSorts(c) == UNION { sel.sort : sel \in ToSet(c.selectors) }

(* Constructor, selectors and tester, in the order they are declared. *)
Members(c) == <<c.name>> \o SelectorNames(c) \o <<Tester(c)>>
MembersOf(cs) == FlattenSeq([i \in DOMAIN cs |-> Members(cs[i])])
SortsIn(cs) == UNION { SelectorSorts(c) : c \in ToSet(cs) }

Constructor ==
    { c \in [name : FunName, selectors : Seq([name : FunName, sort : SUBSET SortName])] : Tester(c) \in FunName }
DatatypeText == [name : SortName, params : Seq(SortName), constructors : Seq(Constructor)]

(* The tables a declare-datatypes fills, until it fails. *)
Tables ==
    [sorts |-> sorts, order |-> sortOrder, scoped |-> {}, constructors |-> constructors, params |-> datatypeParams,
     funs |-> funs, names |-> functionNames, mentions |-> mentions, failed |-> FALSE]

WithSort(t, s, kind) ==
    [t EXCEPT !.order = OrderWith(@, t.sorts, s), !.sorts[s] = kind, !.scoped = @ \cup {s}]
WithSorts(t, ss, kind) ==
    LET upTo[k \in 0 .. Len(ss)] == IF k = 0 THEN t ELSE WithSort(upTo[k - 1], ss[k], kind) IN upTo[Len(ss)]

(* mkFuncDec throws when the name is found; no scope learns of a member. *)
WithMember(t, f, uses) ==
    IF t.failed \/ Found(t.funs, f) THEN [t EXCEPT !.failed = TRUE]
    ELSE [t EXCEPT !.funs[f] = "dec", !.names = Append(@, f), !.mentions[f] = uses]
WithMembers(t, fs, uses) ==
    LET upTo[k \in 0 .. Len(fs)] == IF k = 0 THEN t ELSE WithMember(upTo[k - 1], fs[k], uses) IN upTo[Len(fs)]

(* One datatype: its parameters are sorts while its constructors are read,  *)
(* and stay that when reading fails.                                        *)
WithDatatype(t, d) ==
    LET opened == WithSorts(IF d.params = << >> THEN t ELSE [t EXCEPT !.params[d.name] = d.params], d.params, "dec")
        made == WithMembers([opened EXCEPT !.constructors[d.name] = d.constructors],
                            MembersOf(d.constructors), {d.name} \cup SortsIn(d.constructors))
    IN  IF t.failed THEN t
        ELSE IF \E s \in SortsIn(d.constructors) : ~Found(opened.sorts, s) THEN [opened EXCEPT !.failed = TRUE]
        ELSE IF made.failed THEN made
        ELSE [made EXCEPT !.sorts = Without(@, ToSet(d.params))]

Names(list) == [i \in DOMAIN list |-> list[i].name]
WithDatatypes(list) ==
    LET upTo[k \in 0 .. Len(list)] ==
          IF k = 0 THEN WithSorts(Tables, Names(list), "datatype") ELSE WithDatatype(upTo[k - 1], list[k])
    IN  upTo[Len(list)]

(* (declare-datatypes ...), and (declare-datatype ...) with a list of one.  *)
DeclareDatatypes(list) ==
    LET t == WithDatatypes(list)
    IN  /\ Len(t.names) <= MaxFuns /\ Len(t.order) <= MaxSorts      \* bounds
        /\ sorts' = t.sorts /\ sortOrder' = t.order
        /\ funs' = t.funs /\ functionNames' = t.names /\ mentions' = t.mentions
        /\ constructors' = t.constructors /\ datatypeParams' = t.params
        /\ frames' = IF frames = << >> THEN frames ELSE [frames EXCEPT ![Len(frames)].sorts = @ \cup t.scoped]
        /\ UNCHANGED <<vars, varOrder, recGroup, snapshots>>

-----------------------------------------------------------------------------
(* Commands: what they name, what each name's text mentions, and the text   *)
(* of datatypes.                                                            *)
Command(cmd, names, uses) == [cmd |-> cmd, names |-> names, uses |-> uses, texts |-> << >>]
SortCommand(s) == Command("declare-sort", <<s>>, << >>)
VarCommand(s, sort) == Command("declare-var", <<s>>, <<sort>>)
FunCommand(kind, f, uses) == Command(kind, <<f>>, <<uses>>)
DatatypesCommand(list) == [Command("declare-datatypes", Names(list), << >>) EXCEPT !.texts = list]

Name == VarName \cup FunName \cup SortName
Right(c) ==
    /\ c.cmd = "declare-sort" => c.names[1] \in SortName
    /\ c.cmd = "declare-var" => c.names[1] \in VarName /\ c.uses[1] \in Sort
    /\ c.cmd \in FunKind \cup {"group"} =>
          c.names \in Seq(FunName) \ {<< >>} /\ c.uses \in [DOMAIN c.names -> SUBSET Name]
CommandText ==
    { c \in [cmd : {"declare-sort", "declare-datatypes", "declare-var", "group"} \cup FunKind, names : Seq(Name),
             uses : Seq(Sort \cup SUBSET Name), texts : Seq(DatatypeText)] : Right(c) }

DumpTypeOK ==
    /\ constructors \in [SortName -> Seq(Constructor)]
    /\ datatypeParams \in [SortName -> Seq(SortName)]
    /\ mentions \in [FunName -> SUBSET Name]
    /\ script \in Seq(CommandText) /\ dumped \in Seq(CommandText)

Used(c) == UNION ToSet(c.uses)
Recursive == {"rec", "group"}

(* What the parser asks of a command before it declares anything. *)
Accepts(c) ==
    CASE c.cmd = "declare-sort" -> TRUE
      [] c.cmd = "declare-datatypes" -> ~WithDatatypes(c.texts).failed
      [] c.cmd = "declare-var" -> Known(Used(c))
      [] OTHER -> /\ \A f \in ToSet(c.names) : ~Found(funs, f)
                  /\ Known(IF c.cmd \in Recursive THEN Used(c) \ ToSet(c.names) ELSE Used(c))

Mentioning(c) ==
    mentions' = [f \in FunName |-> IF \E i \in DOMAIN c.names : c.names[i] = f
                                   THEN c.uses[CHOOSE i \in DOMAIN c.names : c.names[i] = f] ELSE mentions[f]]

(* Commands that the parser accepts and reads to the end. *)
Execute(c) ==
    /\ Accepts(c)
    /\ \/ c.cmd = "declare-datatypes" /\ DeclareDatatypes(c.texts)
       \/ /\ \/ c.cmd = "declare-sort" /\ DeclareSort(c.names[1])
             \/ c.cmd = "declare-var" /\ DeclareVar(c.names[1], c.uses[1])
          /\ UNCHANGED <<mentions, constructors, datatypeParams>>
       \/ /\ \/ c.cmd = "dec" /\ DeclareFun(c.names[1])
             \/ c.cmd \in {"def", "rec"} /\ DefineFun(c.names[1], c.cmd)
             \/ c.cmd = "group" /\ DefineFunsRec(c.names, TRUE, Len(c.names))
          /\ Mentioning(c)
          /\ UNCHANGED <<constructors, datatypeParams>>
-----------------------------------------------------------------------------
(* The dump *)

(* Datatypes with constructors, as often as they are listed. *)
DatatypeOrder ==
    Listed(sortOrder, [s \in SortName |-> IF sorts[s] = "datatype" /\ constructors[s] # << >> THEN "datatype" ELSE Absent])
Datatypes == ToSet(DatatypeOrder)

(* What a selector mentions anywhere in its sort. *)
Dependencies == [s \in Datatypes |-> (SortsIn(constructors[s]) \cap Datatypes) \ {s}]

(* An unordered_set is walked in any order. *)
DependencyOrders ==
    { o \in [Datatypes -> UNION { SetToSeqs(Dependencies[s]) : s \in Datatypes }] :
        \A s \in Datatypes : o[s] \in SetToSeqs(Dependencies[s]) }

Lesser(a, b) == IF a < b THEN a ELSE b

(* What Tarjan's algorithm keeps.  A datatype not met has index 0.  calls   *)
(* are the calls of strongconnect that have not returned, the caller of each *)
(* before it, and seen says how many dependencies the loop of a call has     *)
(* looked at.                                                               *)
Walk == [index : [Datatypes -> Nat], low : [Datatypes -> Nat], seen : [Datatypes -> Nat], next : Nat,
         stack : Seq(Datatypes), calls : Seq(Datatypes), groups : Seq(SUBSET Datatypes)]
NothingMet == [index |-> [s \in Datatypes |-> 0], low |-> [s \in Datatypes |-> 0], seen |-> [s \in Datatypes |-> 0],
               next |-> 1, stack |-> << >>, calls |-> << >>, groups |-> << >>]

(* strongconnect(v) is called. *)
Entered(t, v) ==
    [t EXCEPT !.index[v] = t.next, !.low[v] = t.next, !.next = @ + 1,
              !.stack = Append(@, v), !.calls = Append(@, v)]

(* Mutant: v joins the group of a datatype whose group is written. *)
MetWritten(t, v, w) == [t EXCEPT !.low[v] = Lesser(@, t.index[w])]

(* v mentions w, which was met before. *)
Met(t, v, w) == IF w \in ToSet(t.stack) THEN [t EXCEPT !.low[v] = Lesser(@, t.index[w])] ELSE t

(* The loop of v looks at the next dependency. *)
LookedAt(t, v, w) ==
    LET u == [t EXCEPT !.seen[v] = @ + 1]
    IN  IF t.index[w] = 0 THEN Entered(u, w) ELSE Met(u, v, w)

(* The group of v ends the stack. *)
Left(t, v) ==
    LET first == CHOOSE i \in DOMAIN t.stack : t.stack[i] = v
    IN  [t EXCEPT !.stack = SubSeq(@, 1, first - 1),
                  !.groups = Append(@, ToSet(SubSeq(t.stack, first, Len(t.stack))))]

(* strongconnect(v) returns to its caller, if there is one; a group ends    *)
(* with the datatype that was met first.                                    *)
Returned(t, v) ==
    LET u == IF t.low[v] = t.index[v] THEN Left(t, v) ELSE t
        callers == Front(t.calls)
    IN  IF callers = << >> THEN [u EXCEPT !.calls = callers]
        ELSE [u EXCEPT !.calls = callers, !.low[Last(callers)] = Lesser(@, t.low[v])]

AllMet(t) == \A s \in Datatypes : t.index[s] # 0
FirstNotMet(t) ==
    DatatypeOrder[CHOOSE i \in DOMAIN DatatypeOrder :
        t.index[DatatypeOrder[i]] = 0 /\ \A j \in 1 .. (i - 1) : t.index[DatatypeOrder[j]] # 0]

(* One turn of a loop: the innermost call looks at a dependency or returns;  *)
(* when there is none, strongconnect is called for the next datatype.        *)
Turn(deps, t) ==
    IF t.calls = << >> THEN IF AllMet(t) THEN t ELSE Entered(t, FirstNotMet(t))
    ELSE LET v == Last(t.calls)
         IN  IF t.seen[v] < Len(deps[v]) THEN LookedAt(t, v, deps[v][t.seen[v] + 1]) ELSE Returned(t, v)

(* Every datatype is entered and left once, every mention looked at once. *)
TurnCount(deps) == Cardinality(UNION { {s} \X (0 .. Len(deps[s]) + 1) : s \in Datatypes })

Groups(deps) ==
    LET walk[n \in 0 .. TurnCount(deps)] == IF n = 0 THEN NothingMet ELSE Turn(deps, walk[n - 1])
    IN  walk[TurnCount(deps)].groups

(* The members of a group in the order of their declaration. *)
Sorted(group) ==
    LET upTo[k \in 0 .. Len(DatatypeOrder)] ==
          IF k = 0 THEN << >>
          ELSE IF DatatypeOrder[k] \in group \ ToSet(upTo[k - 1]) THEN Append(upTo[k - 1], DatatypeOrder[k])
          ELSE upTo[k - 1]
    IN  upTo[Len(DatatypeOrder)]

DatatypesOf(group) ==
    LET order == Sorted(group)
    IN  DatatypesCommand([i \in DOMAIN order |->
            [name |-> order[i], params |-> datatypeParams[order[i]], constructors |-> constructors[order[i]]]])

MemberNames == UNION { ToSet(MembersOf(constructors[s])) : s \in Datatypes }

(* Mutant: members of datatypes are declared as functions, too. *)
WrittenMembers(out, f) ==
    IF funs[f] = Absent \/ f \in UNION { ToSet(c.names) : c \in ToSet(out) } THEN out
    ELSE IF recGroup[f] # << >>
         THEN Append(out, Command("group", recGroup[f], [i \in DOMAIN recGroup[f] |-> mentions[recGroup[f][i]]]))
    ELSE Append(out, FunCommand(funs[f], f, mentions[f]))

(* Functions in the order of their listing: members of datatypes are        *)
(* declared with these, a group at the place of its first member.           *)
Written(out, f) ==
    IF funs[f] = Absent \/ f \in MemberNames \/ f \in UNION { ToSet(c.names) : c \in ToSet(out) } THEN out
    ELSE IF recGroup[f] # << >>
         THEN Append(out, Command("group", recGroup[f], [i \in DOMAIN recGroup[f] |-> mentions[recGroup[f][i]]]))
    ELSE Append(out, FunCommand(funs[f], f, mentions[f]))

SortCommands ==
    LET declared == Listed(sortOrder, [s \in SortName |-> IF sorts[s] = "dec" THEN "dec" ELSE Absent])
    IN  [i \in DOMAIN declared |-> SortCommand(declared[i])]

VarCommands == [i \in DOMAIN Variables |-> VarCommand(Variables[i], vars[Variables[i]])]

FunCommands ==
    LET upTo[k \in 0 .. Len(functionNames)] ==
          IF k = 0 THEN << >> ELSE Written(upTo[k - 1], functionNames[k])
    IN  upTo[Len(functionNames)]

DumpSMT2(deps) ==
    LET groups == Groups(deps)
    IN  SortCommands \o [i \in DOMAIN groups |-> DatatypesOf(groups[i])] \o VarCommands \o FunCommands

Dumps == { DumpSMT2(deps) : deps \in DependencyOrders }
-----------------------------------------------------------------------------
(* A new parser takes the dump, and reads it command by command. *)
TakeDump ==
    /\ script = << >>
    /\ \E d \in Dumps \ {<< >>} : script' = d /\ dumped' = d
    /\ NoTables /\ frames' = << >> /\ snapshots' = << >>
    /\ constructors' = [s \in SortName |-> << >>]
    /\ datatypeParams' = [s \in SortName |-> << >>]
    /\ mentions' = [f \in FunName |-> {}]

ReadCommand ==
    /\ script # << >>
    /\ Execute(Head(script))
    /\ script' = Tail(script)
    /\ UNCHANGED dumped

(* A name that was declared, popped and declared again is listed twice.     *)
WithoutRepeats(s) == FoldLeft(LAMBDA out, c : IF c \in ToSet(out) THEN out ELSE Append(out, c), << >>, s)
-----------------------------------------------------------------------------
(* "dumpSMT2() must emit a script this parser can read back, and reading it *)
(* back must produce the same script again" (test_dump_reparse.cpp:1).      *)
ReadsBack ==
    /\ GroupsWhole
    /\ script # << >> => Accepts(Head(script))
    /\ script = << >> /\ dumped # << >> => Dumps = {WithoutRepeats(dumped)}

(* A datatype that mentions another, directly or not. *)
Reaches(s, t) ==
    \A closed \in SUBSET Datatypes :
        s \in closed /\ (\A u \in closed : Dependencies[u] \subseteq closed) => t \in closed

(* Datatypes are in one command when each mentions the other, directly or   *)
(* not, and in no other case (test_datatype_groups.cpp:15); a command comes  *)
(* after those that declare what it mentions.                               *)
OneCommandPerGroup ==
    \A deps \in DependencyOrders :
        LET groups == Groups(deps)
        IN  /\ UNION ToSet(groups) = Datatypes
            /\ \A i, j \in DOMAIN groups : i # j => groups[i] \cap groups[j] = {}
            /\ \A i \in DOMAIN groups :
                  /\ groups[i] # {}
                  /\ \A s \in groups[i] :
                        /\ groups[i] = { t \in Datatypes : Reaches(s, t) /\ Reaches(t, s) }
                        /\ Dependencies[s] \subseteq UNION { groups[j] : j \in 1 .. i }
=============================================================================
