---------------------------- MODULE ScopedSymbols ----------------------------
(***************************************************************************)
(* The declarations of a script: the tables of SymbolManager               *)
(* (src/frontend/symbol_manager.cpp), the commands that fill them           *)
(* (Parser::parseCommand) and the part of popScope that takes out what a   *)
(* scope declared.                                                          *)
(*                                                                         *)
(* A name is <<symbol, quoted>>: foo and |foo| are two keys of the tables, *)
(* which findEitherSpelling makes one symbol.  A command that throws after *)
(* it changed a table is an outcome of that command.                        *)
(***************************************************************************)
EXTENDS Naturals, Integers, Sequences, SequencesExt

CONSTANTS
    VarName, FunName, SortName,   \* names, in either spelling
    ScriptFun, ScriptSort,        \* the names that Next declares, some of these
    Sort,                         \* what a variable stands for
    Absent,
    MaxDepth,                     \* bound: open scopes
    MaxVars, MaxFuns, MaxSorts    \* bounds: length of each list of names

FunKind == {"dec", "def", "rec"}
SortKind == {"dec", "datatype", "other"}

ASSUME AbsentAssumption == Absent \notin Sort /\ Absent \notin FunKind \cup SortKind
ASSUME ScriptAssumption == ScriptFun \subseteq FunName /\ ScriptSort \subseteq SortName
ASSUME NameAssumption ==
    \A s \in VarName \cup FunName \cup SortName : s = <<s[1], s[2]>> /\ s[2] \in BOOLEAN
ASSUME BoundAssumption == {MaxDepth, MaxVars, MaxFuns, MaxSorts} \subseteq Nat

VARIABLES
    vars,             \* var_names_
    varOrder,         \* var_order_
    funs,             \* fun_key_map_, by the kind of the function node
    functionNames,    \* function_names_
    recGroup,         \* rec_fun_group_of_: the members of a name's group, in order
    sorts,            \* sort_key_map_
    sortOrder,        \* sort_order_
    frames,           \* added_vars, added_funs, added_sorts of scope_stack_
    snapshots         \* history: the tables as they were at each open push

tables == <<vars, varOrder, funs, functionNames, recGroup, sorts, sortOrder>>
symbolVars == <<tables, frames, snapshots>>

VarTable == [VarName -> Sort \cup {Absent}]
FunTable == [FunName -> FunKind \cup {Absent}]
SortTable == [SortName -> SortKind \cup {Absent}]

Frame == [vars : SUBSET VarName, funs : Seq(FunName), sorts : SUBSET SortName]
Snapshot == [vars : VarTable, funs : FunTable, functions : Seq(FunName), sorts : SortTable]

TypeOK ==
    /\ vars \in VarTable
    /\ varOrder \in Seq(VarName)
    /\ funs \in FunTable
    /\ functionNames \in Seq(FunName)
    /\ recGroup \in [FunName -> Seq(FunName)]
    /\ sorts \in SortTable
    /\ sortOrder \in Seq(SortName)
    /\ frames \in Seq(Frame)
    /\ snapshots \in Seq(Snapshot)
    /\ Len(snapshots) = Len(frames)

OtherSpelling(s) == <<s[1], ~s[2]>>
Spellings(s) == {s, OtherSpelling(s)}

(* Mutant: the lookup tries the spelling given, and no other. *)
FoundAsSpelled(m, s) == m[s] # Absent

(* findEitherSpelling finds s in table m. *)
Found(m, s) == \E t \in Spellings(s) \cap DOMAIN m : m[t] # Absent

(* The order lists keep names whose entry is gone; readers skip them. *)
Listed(order, m) ==
    LET upTo[k \in 0 .. Len(order)] ==
          IF k = 0 THEN << >>
          ELSE IF m[order[k]] # Absent THEN Append(upTo[k - 1], order[k]) ELSE upTo[k - 1]
    IN  upTo[Len(order)]

(* getVariables, getFunctions (without its null entries). *)
Variables == Listed(varOrder, vars)
Functions == Listed(functionNames, funs)

(* What a scope promises to give back. *)
Declared == [vars |-> vars, funs |-> funs, functions |-> Functions, sorts |-> sorts]

NoSymbols ==
    [vars |-> [s \in VarName |-> Absent], funs |-> [s \in FunName |-> Absent],
     functions |-> << >>, sorts |-> [s \in SortName |-> Absent]]

(* The tables of a new SymbolManager. *)
NoTables ==
    /\ vars' = NoSymbols.vars /\ varOrder' = << >>
    /\ funs' = NoSymbols.funs /\ functionNames' = << >>
    /\ recGroup' = [s \in FunName |-> << >>]
    /\ sorts' = NoSymbols.sorts /\ sortOrder' = << >>

Init ==
    /\ vars = NoSymbols.vars /\ varOrder = << >>
    /\ funs = NoSymbols.funs /\ functionNames = << >>
    /\ recGroup = [s \in FunName |-> << >>]
    /\ sorts = NoSymbols.sorts /\ sortOrder = << >>
    /\ frames = << >> /\ snapshots = << >>

Top == frames[Len(frames)]
Outer(s) == [i \in 1 .. Len(s) - 1 |-> s[i]]

-----------------------------------------------------------------------------
(* Registration *)

(* registerVar, registerSort: first registration appends to the order. *)
OrderWith(order, m, s) == IF m[s] = Absent THEN Append(order, s) ELSE order

(* registerVarInScope, registerFunInScope, registerSortInScope. *)
VarInScope(s) ==
    frames' = IF frames = << >> THEN frames
              ELSE [frames EXCEPT ![Len(frames)].vars = @ \cup {s}]
FunInScope(f) ==
    /\ frames # << >> => Len(Top.funs) < MaxFuns      \* bound
    /\ frames' = IF frames = << >> THEN frames
                 ELSE [frames EXCEPT ![Len(frames)].funs = Append(@, f)]
SortInScope(s) ==
    frames' = IF frames = << >> THEN frames
              ELSE [frames EXCEPT ![Len(frames)].sorts = @ \cup {s}]

(* mkVar gives back the variable that either spelling names, whatever sort  *)
(* is asked for, and makes one when neither does.                           *)
MakeVar(s, sort) ==
    IF Found(vars, s) THEN UNCHANGED <<vars, varOrder>>
    ELSE /\ varOrder' = OrderWith(varOrder, vars, s)
         /\ vars' = [vars EXCEPT ![s] = sort]

-----------------------------------------------------------------------------
(* Variables *)

(* (declare-const s sort), (declare-fun s () sort): the name is registered  *)
(* in the innermost scope even when the variable existed.                   *)
DeclareVar(s, sort) ==
    /\ Len(varOrder) < MaxVars
    /\ MakeVar(s, sort)
    /\ VarInScope(s)
    /\ UNCHANGED <<funs, functionNames, recGroup, sorts, sortOrder, snapshots>>

(* Parser::mkVar, called by the program: no scope learns of it. *)
MkVar(s, sort) ==
    /\ Len(varOrder) < MaxVars
    /\ MakeVar(s, sort)
    /\ UNCHANGED <<funs, functionNames, recGroup, sorts, sortOrder, frames, snapshots>>

(* Parser::rename moves the entry and leaves the order as it was. *)
Rename(s, t) ==
    /\ vars[s] # Absent
    /\ vars' = [[vars EXCEPT ![s] = Absent] EXCEPT ![t] = vars[s]]
    /\ UNCHANGED <<varOrder, funs, functionNames, recGroup, sorts, sortOrder, frames, snapshots>>

-----------------------------------------------------------------------------
(* Functions *)

(* (declare-fun f (S ...) T); mkFuncDec throws when f is found. *)
DeclareFun(f) ==
    /\ Len(functionNames) < MaxFuns
    /\ ~Found(funs, f)
    /\ funs' = [funs EXCEPT ![f] = "dec"]
    /\ functionNames' = Append(functionNames, f)
    /\ FunInScope(f)
    /\ UNCHANGED <<vars, varOrder, recGroup, sorts, sortOrder, snapshots>>

(* (define-fun f ...), (define-const f ...), (define-fun-rec f ...) list the *)
(* name before they read the body.  kind is what the table holds in the end: *)
(* Absent when the text is wrong, "dec" when only the body of a recursive    *)
(* function is.  A name that is found is an error, or ignored.               *)
DefineFun(f, kind) ==
    /\ Len(functionNames) < MaxFuns
    /\ ~Found(funs, f)
    /\ funs' = [funs EXCEPT ![f] = kind]
    /\ functionNames' = Append(functionNames, f)
    /\ FunInScope(f)
    /\ UNCHANGED <<vars, varOrder, recGroup, sorts, sortOrder, snapshots>>

(* (define-funs-rec ...) lists the names fs, declares them together, then    *)
(* defines one after the other; it records the group at the end, and no      *)
(* scope learns of it.  An error leaves no declaration, or the first `done`  *)
(* functions defined and the others declared.                                *)
DefineFunsRec(fs, declared, done) ==
    /\ Len(functionNames) + Len(fs) <= MaxFuns
    /\ \A i \in DOMAIN fs : ~Found(funs, fs[i])
    /\ functionNames' = functionNames \o fs
    /\ funs' = [f \in FunName |->
                  CASE declared /\ f \in ToSet(SubSeq(fs, 1, done)) -> "rec"
                    [] declared /\ f \in ToSet(SubSeq(fs, done + 1, Len(fs))) -> "dec"
                    [] OTHER -> funs[f]]
    /\ recGroup' = IF declared /\ done = Len(fs)
                   THEN [f \in FunName |-> IF f \in ToSet(fs) THEN fs ELSE recGroup[f]]
                   ELSE recGroup
    /\ UNCHANGED <<vars, varOrder, sorts, sortOrder, frames, snapshots>>

(* removeFunctionName takes out the first listing of each name. *)
Unlisted(names, fs) ==
    LET rest[k \in 0 .. Len(fs)] == IF k = 0 THEN names ELSE RemoveFirst(rest[k - 1], fs[k])
    IN  rest[Len(fs)]

(* Parser::removeFuns of one name: found in either spelling, taken out under *)
(* the spelling given.                                                       *)
RemoveFun(f) ==
    /\ Found(funs, f)
    /\ funs' = [funs EXCEPT ![f] = Absent]
    /\ functionNames' = Unlisted(functionNames, <<f>>)
    /\ UNCHANGED <<vars, varOrder, recGroup, sorts, sortOrder, frames, snapshots>>

-----------------------------------------------------------------------------
(* Sorts *)

MakeSort(s, kind) ==
    /\ Len(sortOrder) < MaxSorts
    /\ sortOrder' = OrderWith(sortOrder, sorts, s)
    /\ sorts' = [sorts EXCEPT ![s] = kind]

(* (declare-sort s n): the last declaration of a spelling stands. *)
DeclareSort(s) ==
    /\ MakeSort(s, "dec")
    /\ SortInScope(s)
    /\ UNCHANGED <<vars, varOrder, funs, functionNames, recGroup, snapshots>>

(* (define-sort s ...): no scope learns of it. *)
DefineSort(s, kind) ==
    /\ MakeSort(s, kind)
    /\ UNCHANGED <<vars, varOrder, funs, functionNames, recGroup, frames, snapshots>>

-----------------------------------------------------------------------------
(* Scopes *)

PushLevel ==
    /\ Len(frames) < MaxDepth
    /\ frames' = Append(frames, [vars |-> {}, funs |-> << >>, sorts |-> {}])
    /\ snapshots' = Append(snapshots, Declared)
    /\ UNCHANGED tables

Without(m, S) == [s \in DOMAIN m |-> IF s \in S THEN Absent ELSE m[s]]

(* Mutants: popScope leaves the sorts; takes the functions out of the list  *)
(* only.                                                                    *)
PopLevelKeepsSorts ==
    /\ frames # << >>
    /\ vars' = Without(vars, Top.vars)
    /\ funs' = Without(funs, ToSet(Top.funs))
    /\ functionNames' = Unlisted(functionNames, Top.funs)
    /\ frames' = Outer(frames)
    /\ snapshots' = Outer(snapshots)
    /\ UNCHANGED <<varOrder, recGroup, sorts, sortOrder>>

PopLevelKeepsFuns ==
    /\ frames # << >>
    /\ vars' = Without(vars, Top.vars)
    /\ functionNames' = Unlisted(functionNames, Top.funs)
    /\ sorts' = Without(sorts, Top.sorts)
    /\ frames' = Outer(frames)
    /\ snapshots' = Outer(snapshots)
    /\ UNCHANGED <<varOrder, funs, recGroup, sortOrder>>

(* One iteration of popScope: removeVar, removeFun and removeSort of every   *)
(* name the scope registered.  The two declaration orders stay.              *)
PopLevel ==
    /\ frames # << >>
    /\ vars' = Without(vars, Top.vars)
    /\ funs' = Without(funs, ToSet(Top.funs))
    /\ functionNames' = Unlisted(functionNames, Top.funs)
    /\ sorts' = Without(sorts, Top.sorts)
    /\ frames' = Outer(frames)
    /\ snapshots' = Outer(snapshots)
    /\ UNCHANGED <<varOrder, recGroup, sortOrder>>

(* Parser::reset installs a new SymbolManager. *)
ResetAll ==
    /\ NoTables
    /\ frames' = << >>
    /\ snapshots' = << >>

(* Lists of one or two functions that a define-funs-rec may give. *)
FunLists == {<<f>> : f \in ScriptFun}
              \cup {fs \in ScriptFun \X ScriptFun : fs[2] \notin Spellings(fs[1])}

DeclaringFun ==
    \E f \in ScriptFun : DeclareFun(f) \/ \E kind \in FunKind \cup {Absent} : DefineFun(f, kind)

(* Declarations that no scope learns of. *)
Unscoped ==
    \/ \E s \in VarName, sort \in Sort : MkVar(s, sort)
    \/ \E fs \in FunLists, declared \in BOOLEAN : \E done \in 0 .. Len(fs) :
          DefineFunsRec(fs, declared, done)
    \/ \E s \in ScriptSort, kind \in SortKind : DefineSort(s, kind)

(* Calls of the program that edit what is declared. *)
Editing ==
    \/ \E s, t \in VarName : Rename(s, t)
    \/ \E f \in ScriptFun : RemoveFun(f)

Next ==
    \/ \E s \in VarName, sort \in Sort : DeclareVar(s, sort)
    \/ \E s \in ScriptSort : DeclareSort(s)
    \/ DeclaringFun \/ Unscoped \/ Editing
    \/ PushLevel \/ PopLevel \/ ResetAll

Spec == Init /\ [][Next]_symbolVars

(* The sessions that edit nothing and, in a scope, declare no name that was *)
(* in use when the scope was opened, nor what no scope learns of.           *)
NotOuter(table, s) == frames # << >> => snapshots[Len(snapshots)][table][s] = Absent

ScopedNext ==
    \/ \E s \in VarName, sort \in Sort : NotOuter("vars", s) /\ DeclareVar(s, sort)
    \/ \E s \in ScriptSort : NotOuter("sorts", s) /\ DeclareSort(s)
    \/ DeclaringFun
    \/ frames = << >> /\ Unscoped
    \/ PushLevel \/ PopLevel \/ ResetAll

ScopedSpec == Init /\ [][ScopedNext]_symbolVars
-----------------------------------------------------------------------------
(* Properties *)

(* "abc and |abc| are the same symbol" (symbol_manager.cpp:33): variables   *)
(* and functions are never entered under both spellings, so the one that a  *)
(* lookup tries first does not matter.  Sorts may be: declaring one looks   *)
(* for the exact spelling (line 182).                                       *)
OneSpelling ==
    /\ \A s \in VarName, t \in VarName :
          t = OtherSpelling(s) => (vars[s] = Absent \/ vars[t] = Absent)
    /\ \A f \in FunName, g \in FunName :
          g = OtherSpelling(f) => (funs[f] = Absent \/ funs[g] = Absent)

(* A dump omits no function and no sort: what is declared is in the order   *)
(* lists, whatever failed, was popped or was declared again before.         *)
DeclaredListed ==
    /\ \A f \in FunName : funs[f] # Absent => f \in ToSet(functionNames)
    /\ \A s \in SortName : sorts[s] # Absent => s \in ToSet(sortOrder)

(* A dump can print every group: no pop takes away a member and leaves the  *)
(* others (base_parser.cpp:4025 refuses such a dump).                       *)
GroupsWhole ==
    \A f \in FunName : funs[f] # Absent => \A g \in ToSet(recGroup[f]) : funs[g] # Absent

(* Taking out the names that a scope registered implements a stack of       *)
(* snapshots of the tables and of the list of functions.                    *)
Store == INSTANCE ScopedStore WITH
    Empty <- NoSymbols, current <- Declared, saved <- snapshots

ImplementsStore == Store!Spec
=============================================================================
