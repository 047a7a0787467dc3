------------------------------- MODULE Binders -------------------------------
(***************************************************************************)
(* What a name means inside a term: the tables of let-bound names,          *)
(* quantified variables and function parameters of SymbolManager            *)
(* (src/frontend/symbol_manager.cpp), and the parts of the parser that fill *)
(* them while a let, a quantifier, a case of a match or the definition of a *)
(* function is being read.                                                  *)
(*                                                                         *)
(* open is the parser's own stack: one frame per binder whose text has been *)
(* opened and not closed.  The terms between the binders are left out; they *)
(* may be read, and be wrong, wherever a term is expected.  An exception    *)
(* unwinds the whole stack, and the program goes on with the same parser.   *)
(***************************************************************************)
EXTENDS Naturals, Sequences, FiniteSetsExt

CONSTANTS
    Name,             \* symbols that binders bind, in one spelling
    Sort,
    Absent,           \* no entry in a table
    MaxOpen,          \* bound: open binders
    MaxDepth          \* bound: let scopes and nesting counts, leaked ones too

ASSUME BoundAssumption == MaxOpen \in Nat /\ MaxDepth \in Nat

VARIABLES
    lets,             \* let_key_map_
    letBackup,        \* let_scope_backup_
    checkpoints,      \* let_scope_checkpoints_
    letDepth,         \* let_nesting_depth
    letMode,          \* current_let_mode, which no constructor initialises
    quants,           \* quant_var_map_
    quantDepth,       \* quant_nesting_depth
    inQuant,          \* in_quantifier_scope
    params,           \* fun_var_map_
    open              \* binders being read, outermost first

letVars == <<lets, letBackup, checkpoints, letDepth, letMode>>
quantVars == <<quants, quantDepth, inQuant>>
binderVars == <<letVars, quantVars, params, open>>

(* Bound nodes.  Quantified variables, pattern variables and parameters are *)
(* interned by name and sort; what a let binds differs from let to let.     *)
QuantNode(x, s) == <<"quant", x, s>>
ParamNode(x, s) == <<"param", x, s>>
LetNode(i) == <<"let", i>>

BoundNode ==
    ({"quant", "param"} \X Name \X Sort) \cup ({"let"} \X (1 .. MaxOpen))

ASSUME AbsentAssumption == Absent \notin Name \cup BoundNode

Table == [Name -> BoundNode \cup {Absent}]
Nothing == [x \in Name |-> Absent]

LetMode == {"non", "start", "in"}

Frame ==
    [kind : {"let", "quant", "match", "fun"},
     phase : {"list", "value", "body"},   \* in the list of names, a let's value, the body
     binds : Table,                       \* the names bound so far
     pending : Name \cup {Absent},        \* let: the name whose value is read
     chained : BOOLEAN,                   \* let: the body of the let before it
     shadowed : Table,                    \* quantifier: what it has to put back
     saved : BOOLEAN]                     \* match: saved_in_quant

Opened(kind, chained) ==
    [kind |-> kind, phase |-> "list", binds |-> Nothing, pending |-> Absent,
     chained |-> chained, shadowed |-> Nothing, saved |-> FALSE]

TypeOK ==
    /\ lets \in Table /\ quants \in Table /\ params \in Table
    /\ letBackup \in Seq([name : Name, old : BoundNode \cup {Absent}])
    /\ checkpoints \in Seq(0 .. Len(letBackup))
    /\ letDepth \in Nat /\ quantDepth \in Nat
    /\ letMode \in LetMode /\ inQuant \in BOOLEAN
    /\ open \in Seq(Frame)

Init ==
    /\ lets = Nothing /\ letBackup = << >> /\ checkpoints = << >>
    /\ letDepth = 0 /\ letMode \in LetMode
    /\ quants = Nothing /\ quantDepth = 0 /\ inQuant = FALSE
    /\ params = Nothing
    /\ open = << >>

Top == open[Len(open)]
Outer(s) == [i \in 1 .. Len(s) - 1 |-> s[i]]
Reading(kind, phase) == open # << >> /\ Top.kind = kind /\ Top.phase = phase
NamesOf(f) == {x \in Name : f.binds[x] # Absent}

(* A term is expected, in which a binder may begin. *)
TermExpected == open # << >> => Top.phase \in {"value", "body"}

Enter(kind, chained) ==
    /\ Len(open) < MaxOpen
    /\ open' = Append(open, Opened(kind, chained))

Leave == open' = Outer(open)

(* The innermost binder binds x to node. *)
Binds(x, node) == open' = [open EXCEPT ![Len(open)].binds[x] = node]
ReadBody == open' = [open EXCEPT ![Len(open)].phase = "body"]

-----------------------------------------------------------------------------
(* let *)

(* parseExpr counts the lets that it meets; parseLet and parsePreservingLet *)
(* read a let that is the body of another one themselves (chained).         *)
OpenLet(chained) ==
    /\ TermExpected
    /\ chained => Reading("let", "body")
    /\ letDepth < MaxDepth /\ Len(checkpoints) < MaxDepth
    /\ checkpoints' = Append(checkpoints, Len(letBackup))
    /\ IF chained THEN UNCHANGED <<letDepth, letMode>>
       ELSE /\ letDepth' = letDepth + 1
            /\ letMode' = CASE letDepth = 0 -> "start"
                            [] letDepth # 0 /\ letMode = "start" -> "in"
                            [] OTHER -> letMode
    /\ Enter("let", chained)
    /\ UNCHANGED <<lets, letBackup, quantVars, params>>

(* A name that this let has not bound; for one it has, see FailLet. *)
LetName(x) ==
    /\ Reading("let", "list")
    /\ x \notin NamesOf(Top)
    /\ open' = [open EXCEPT ![Len(open)].phase = "value", ![Len(open)].pending = x]
    /\ UNCHANGED <<letVars, quantVars, params>>

(* registerLet, as soon as the value is read: the next value of the same    *)
(* let sees the name.                                                       *)
BindLet ==
    /\ Reading("let", "value")
    /\ LET x == Top.pending  node == LetNode(Len(open)) IN
       /\ lets' = [lets EXCEPT ![x] = node]
       /\ letBackup' = Append(letBackup, [name |-> x, old |-> lets[x]])
       /\ open' = [open EXCEPT ![Len(open)].phase = "list",
                               ![Len(open)].pending = Absent,
                               ![Len(open)].binds[x] = node]
    /\ UNCHANGED <<checkpoints, letDepth, letMode, quantVars, params>>

LetBody ==
    /\ Reading("let", "list") /\ NamesOf(Top) # {}
    /\ ReadBody
    /\ UNCHANGED <<letVars, quantVars, params>>

(* Mutant: the scope erases the names it bound and restores none. *)
LetsBeforeErased(c) ==
    [x \in Name |->
        IF \E i \in c + 1 .. Len(letBackup) : letBackup[i].name = x THEN Absent ELSE lets[x]]

(* popLetScope replays the backups from the last down to the checkpoint:    *)
(* the first one of a name after the checkpoint is written last and stays.  *)
LetsBefore(c) ==
    [x \in Name |->
        LET later == {i \in c + 1 .. Len(letBackup) : letBackup[i].name = x} IN
        IF later = {} THEN lets[x] ELSE letBackup[Min(later)].old]

(* The last n popLetScope calls in a row. *)
PopLetScopes(n) ==
    LET left == Len(checkpoints) - n  c == checkpoints[left + 1] IN
    /\ lets' = LetsBefore(c)
    /\ letBackup' = SubSeq(letBackup, 1, c)
    /\ checkpoints' = SubSeq(checkpoints, 1, left)

CloseLet ==
    /\ Reading("let", "body")
    /\ PopLetScopes(1)
    /\ IF Top.chained THEN UNCHANGED <<letDepth, letMode>>
       ELSE /\ letDepth' = letDepth - 1
            /\ letMode' = IF letDepth = 1 THEN "non" ELSE letMode
    /\ Leave
    /\ UNCHANGED <<quantVars, params>>

(* Mutant: the error exit pops the innermost scope only. *)
ChainLengthOne == 1

(* The lets on the state stack of the innermost call of parseLet. *)
ChainLength == Len(open) + 1 - Max({i \in DOMAIN open : ~open[i].chained})

(* The error exit of parseLet: a name bound twice, or a value that is an    *)
(* error node.  It pops the scopes of its own state stack, then throws.     *)
FailLet ==
    /\ \/ Reading("let", "list") /\ NamesOf(Top) # {}
       \/ Reading("let", "value")
    /\ PopLetScopes(ChainLength)
    /\ open' = << >>
    /\ UNCHANGED <<letDepth, letMode, quantVars, params>>

(* Any other error is thrown through every call in progress (a term or sort *)
(* that cannot be read, a parameter named twice): nothing is undone.        *)
Fail ==
    /\ open # << >>
    /\ open' = << >>
    /\ UNCHANGED <<letVars, quantVars, params>>

-----------------------------------------------------------------------------
(* Quantifiers *)

OpenQuant ==
    /\ TermExpected
    /\ quantDepth < MaxDepth
    /\ inQuant' = TRUE
    /\ quantDepth' = quantDepth + 1
    /\ Enter("quant", FALSE)
    /\ UNCHANGED <<letVars, quants, params>>

(* Mutant: the binding that a quantifier shadows is not kept. *)
BindQuantUnkept(x, s) ==
    /\ Reading("quant", "list")
    /\ quants' = [quants EXCEPT ![x] = QuantNode(x, s)]
    /\ Binds(x, QuantNode(x, s))
    /\ UNCHANGED <<letVars, quantDepth, inQuant, params>>

(* mkQuantVar reuses the binding in force when its sort is the same, which  *)
(* is then not shadowed.  Of the bindings shadowed under one name, the      *)
(* first is registered last when the scope is left.                         *)
BindQuant(x, s) ==
    /\ Reading("quant", "list")
    /\ quants' = [quants EXCEPT ![x] = QuantNode(x, s)]
    /\ open' = [open EXCEPT
                  ![Len(open)].binds[x] = QuantNode(x, s),
                  ![Len(open)].shadowed[x] =
                      IF @ = Absent /\ quants[x] # QuantNode(x, s) THEN quants[x] ELSE @]
    /\ UNCHANGED <<letVars, quantDepth, inQuant, params>>

QuantBody ==
    /\ Reading("quant", "list") /\ NamesOf(Top) # {}
    /\ ReadBody
    /\ UNCHANGED <<letVars, quantVars, params>>

(* Mutant: leaving any quantifier leaves the scope of quantifiers. *)
LeavesQuantifiersEarly == TRUE

(* The outermost quantifier is left. *)
LeavesQuantifiers == quantDepth = 1

CloseQuant ==
    /\ Reading("quant", "body")
    /\ quants' = [x \in Name |-> IF x \in NamesOf(Top) THEN Top.shadowed[x] ELSE quants[x]]
    /\ quantDepth' = quantDepth - 1
    /\ inQuant' = IF LeavesQuantifiers THEN FALSE ELSE inQuant
    /\ Leave
    /\ UNCHANGED <<letVars, params>>

-----------------------------------------------------------------------------
(* match: the cases follow each other, each a frame of its own; the term    *)
(* that is matched is read before.                                          *)

OpenCase ==
    /\ TermExpected
    /\ Enter("match", FALSE)
    /\ UNCHANGED <<letVars, quantVars, params>>

(* A variable of the pattern takes the place of any binding of its name. *)
BindPattern(x, s) ==
    /\ Reading("match", "list")
    /\ quants' = [quants EXCEPT ![x] = QuantNode(x, s)]
    /\ Binds(x, QuantNode(x, s))
    /\ UNCHANGED <<letVars, quantDepth, inQuant, params>>

(* The pattern may be a constructor without variables. *)
CaseBody ==
    /\ Reading("match", "list")
    /\ inQuant' = TRUE
    /\ open' = [open EXCEPT ![Len(open)].phase = "body", ![Len(open)].saved = inQuant]
    /\ UNCHANGED <<letVars, quants, quantDepth, params>>

CloseCase ==
    /\ Reading("match", "body")
    /\ inQuant' = Top.saved
    /\ quants' = [x \in Name |-> IF x \in NamesOf(Top) THEN Absent ELSE quants[x]]
    /\ Leave
    /\ UNCHANGED <<letVars, quantDepth, params>>

-----------------------------------------------------------------------------
(* define-fun and define-fun-rec; one body of a define-funs-rec. *)

OpenFun ==
    /\ open = << >>
    /\ Enter("fun", FALSE)
    /\ UNCHANGED <<letVars, quantVars, params>>

(* A parameter that is registered already is an error (Fail), except in a   *)
(* define-funs-rec, which registers without looking.                        *)
BindParam(x, s, group) ==
    /\ Reading("fun", "list")
    /\ group \/ params[x] = Absent
    /\ params' = [params EXCEPT ![x] = ParamNode(x, s)]
    /\ Binds(x, ParamNode(x, s))
    /\ UNCHANGED <<letVars, quantVars>>

FunBody ==
    /\ Reading("fun", "list")
    /\ ReadBody
    /\ UNCHANGED <<letVars, quantVars, params>>

CloseFun ==
    /\ Reading("fun", "body")
    /\ params' = [x \in Name |-> IF x \in NamesOf(Top) THEN Absent ELSE params[x]]
    /\ Leave
    /\ UNCHANGED <<letVars, quantVars>>

(* Parser::reset installs a new SymbolManager; the parser's own counters    *)
(* and modes stay as they are.                                              *)
Reset ==
    /\ open = << >>
    /\ lets' = Nothing /\ letBackup' = << >> /\ checkpoints' = << >>
    /\ quants' = Nothing /\ params' = Nothing
    /\ UNCHANGED <<letDepth, letMode, quantDepth, inQuant, open>>

Lets ==
    \/ \E chained \in BOOLEAN : OpenLet(chained)
    \/ \E x \in Name : LetName(x)
    \/ BindLet \/ LetBody \/ CloseLet

Bodies == QuantBody \/ CloseQuant \/ OpenCase \/ CaseBody \/ CloseCase
          \/ OpenFun \/ FunBody \/ CloseFun

(* The steps of a script without errors. *)
ReadingNext ==
    \/ Lets
    \/ OpenQuant \/ \E x \in Name, s \in Sort : BindQuant(x, s) \/ BindPattern(x, s)
    \/ Bodies
    \/ \E x \in Name, s \in Sort, group \in BOOLEAN : BindParam(x, s, group)
    \/ Reset

ReadingSpec == Init /\ [][ReadingNext]_binderVars

Next == ReadingNext \/ FailLet \/ Fail

Spec == Init /\ [][Next]_binderVars
-----------------------------------------------------------------------------
(* Lookup *)

(* resolveTerm, with the scope that parseConstFunc hands it.  Absent: no    *)
(* binder's table has the name, which denotes a global symbol.              *)
Resolve(x) ==
    CASE letMode # "non" /\ lets[x] # Absent -> lets[x]
      [] ~(letMode # "non" /\ lets[x] # Absent) /\ params[x] # Absent -> params[x]
      [] OTHER -> IF inQuant THEN quants[x] ELSE Absent

(* The innermost of the first n open binders that binds x. *)
BoundWithin(x, n) ==
    LET binders == {i \in 1 .. n : open[i].binds[x] # Absent} IN
    IF binders = {} THEN Absent ELSE open[Max(binders)].binds[x]

-----------------------------------------------------------------------------
(* The scripts for which one table per kind of binder is enough: only a let *)
(* binds a name that another kind of binder has bound outside it, a         *)
(* quantifier binds again only at another sort, a case of a match does not  *)
(* bind again nor hold a quantifier unless it is inside one, and only a let *)
(* that is no part of another term fails.                                   *)
Unbound(x) == lets[x] = Absent /\ params[x] = Absent /\ x \notin NamesOf(Top)

DisciplinedNext ==
    \/ Lets
    \/ FailLet /\ \A i \in 2 .. Len(open) : open[i].chained
    \/ OpenQuant /\ (quantDepth = 0 => \A i \in DOMAIN open : open[i].kind # "match")
    \/ \E x \in Name, s \in Sort :
          /\ open # << >> /\ Unbound(x)
          /\ \/ quants[x] # QuantNode(x, s) /\ BindQuant(x, s)
             \/ quants[x] = Absent /\ BindPattern(x, s)
             \/ BindParam(x, s, FALSE)
    \/ Bodies \/ Reset

-----------------------------------------------------------------------------
(* Properties *)

(* Wherever a term is expected, a name denotes the binding of the innermost *)
(* open binder that binds it.                                               *)
ResolvesLexically ==
    TermExpected => \A x \in Name : Resolve(x) = BoundWithin(x, Len(open))

(* "each pushLetScope() is undone ... including on the error exits"         *)
(* (test_let_scope_guard.cpp:22) and likewise for the other tables: between *)
(* two terms nothing is bound.                                              *)
Balanced ==
    open = << >> =>
        /\ lets = Nothing /\ letBackup = << >> /\ checkpoints = << >>
        /\ quants = Nothing /\ params = Nothing /\ quantDepth = 0 /\ ~inQuant

(* What is bound is looked up.  The mode that no constructor initialises     *)
(* cannot hide a let: whatever its first value and whatever failed, it says  *)
(* "in a let" while a let is open or its names are still in the table.  And  *)
(* while a quantifier is open its variables are looked up, whatever cases    *)
(* of a match and quantifiers were read in it and whatever failed before.    *)
BindersSeen ==
    /\ ((\E x \in Name : lets[x] # Absent) \/ (\E i \in DOMAIN open : open[i].kind = "let"))
            => letMode # "non"
    /\ (\E i \in DOMAIN open : open[i].kind = "quant") => inQuant /\ quantDepth > 0

(* "leaving its scope RESTORES them" (base_parser.cpp:2979): a quantifier   *)
(* that is closed leaves the bindings of those around it.                   *)
EnclosingQuants(x) ==
    LET outer == {i \in 1 .. Len(open) - 1 :
                    open[i].kind = "quant" /\ open[i].binds[x] # Absent} IN
    IF outer = {} THEN Absent ELSE open[Max(outer)].binds[x]

ShadowedRestored ==
    [][CloseQuant => \A x \in Name :
          EnclosingQuants(x) # Absent => quants'[x] = EnclosingQuants(x)]_binderVars

(* The backups and checkpoints of the lets implement a stack of snapshots   *)
(* of the table, in every session, with all that may fail.                  *)
Store == INSTANCE ScopedStore WITH
    Empty <- Nothing,
    current <- lets,
    saved <- [i \in 1 .. Len(checkpoints) |-> LetsBefore(checkpoints[i])]

ImplementsStore == Store!Spec
=============================================================================
