----------------------------- MODULE ExprParser ------------------------------
(***************************************************************************)
(* The reader of terms (src/frontend/expr_parser.cpp): mkExpr puts a text  *)
(* into the buffer, and parseExpr reads one term from it with a stack of   *)
(* frames.  A frame is one ExprFrame; the calls of parseExpr that some     *)
(* forms make from within a frame are frames above one in state "Nested".  *)
(* One step is one round of the loop of parseExpr.                         *)
(*                                                                         *)
(* let, quantifiers and match are read by functions of their own: Binders. *)
(* The sorts of operands, which the builders check, are left out.          *)
(***************************************************************************)
EXTENDS Integers, Sequences, SequencesExt, Lexer

CONSTANTS
    Texts,            \* the texts a caller may give
    Numbers, Names,   \* symbols that are numbers, that denote variables or constants
    UserFuns,         \* declared functions, with their numbers of parameters
    Constructors,     \* those that build, test or select from a datatype
    KeepAnnotations,  \* the option preserve_annotations
    MaxTexts          \* bound: texts read

VARIABLES
    text, cur,        \* buffer; bufptr, scan_mode and line_number
    stack,            \* st
    allow,            \* allow_placeholder_vars
    named,            \* the calls of nameAssertion
    outcome,          \* what mkExpr returned: status and node
    texts             \* texts begun so far

parserVars == <<text, cur, stack, allow, named, outcome, texts>>

Node(op, idx, on) == [op |-> op, idx |-> idx, on |-> on]
Leaf(s) == Node(s, << >>, << >>)
NoNode == Leaf(<<>>)

Frame(state, form, op) ==
    [state |-> state, form |-> form, op |-> op, args |-> << >>, params |-> << >>,
     notes |-> << >>, result |-> NoNode, saved |-> FALSE]
StartFrame == Frame("Start", "", << >>)
Finished(node) == [StartFrame EXCEPT !.state = "Finish", !.result = node]

Top == stack[Len(stack)]
OnTop(frame) == Append(Front(stack), frame)
Char == At(text, cur.pos)
-----------------------------------------------------------------------------
(* Operators *)

(* How many operands parseOper, or the builder it calls, asks for, by the    *)
(* spelling of the operator; four stands for four or more.                   *)
Counts == 0 .. 4
Taking(names, counts) == [o \in {<<s>> : s \in names} |-> counts]

CoreArity ==
    Taking({"and", "or", "xor"}, Counts)
 @@ Taking({"=>", "=", "==", "<->", "iff", "<=>", "distinct", "!=", "<>"}, 2 .. 4)
 @@ Taking({"not"}, {1}) @@ Taking({"ite"}, {3})

ArithmeticArity ==
    Taking({"+", "-", "*", "iand"}, 1 .. 4)
 @@ Taking({"pow", "**", "^", "div", "/", "%", "mod", "atan2", "arctan2"}, {2})
 @@ Taking({"log"}, {1, 2})
 @@ Taking({"pow2", "abs", "sqrt", "safesqrt", "safeSqrt", "ceil", "floor", "round", "exp",
            "ln", "loge", "lg", "log10", "lb", "log2", "sin", "cos", "tan", "cot", "sec", "csc",
            "asin", "arcsin", "acos", "arccos", "atan", "arctan", "acot", "arccot",
            "asec", "arcsec", "acsc", "arccsc", "sinh", "cosh", "tanh", "sech", "csch",
            "asinh", "arcsinh", "acosh", "arccosh", "atanh", "arctanh",
            "asech", "acsch", "arccsch", "acoth", "arccoth"}, {1})

IntegerArity ==
    Taking({"<=", "<", ">=", ">"}, 2 .. 4) @@ Taking({"gcd", "lcm"}, {2})
 @@ Taking({"to_real", "to_int", "is_int", "is_prime", "is_even", "is_odd", "factorial"}, {1})

BitVectorArity ==
    Taking({"bvand", "bvor", "bvxor", "bvnand", "bvnor", "bvxnor"}, Counts)
 @@ Taking({"bvadd", "bvsub", "bvmul", "concat"}, 1 .. 4)
 @@ Taking({"bvnot", "bvneg", "bv2nat", "bv2int", "ubv_to_int", "sbv_to_int"}, {1})
 @@ Taking({"bvcomp", "bvudiv", "bvurem", "bvsdiv", "bvsrem", "bvsmod", "bvshl", "bvlshr", "bvashr",
            "bvult", "bvule", "bvugt", "bvuge", "bvslt", "bvsle", "bvsgt", "bvsge"}, {2})

FloatArity ==
    Taking({"fp.add", "fp.sub", "fp.mul", "fp.div"}, {3}) @@ Taking({"fp.fma"}, {4})
 @@ Taking({"fp.sqrt", "fp.roundToIntegral"}, {1, 2}) @@ Taking({"fp.rem", "fp.min", "fp.max"}, {2})
 @@ Taking({"fp.le", "fp.leq", "fp.lt", "fp.ge", "fp.geq", "fp.gt", "fp.eq", "fp.=", "fp.=="}, 2 .. 4)
 @@ Taking({"fp.abs", "fp.neg", "fp.to_real", "fp.isNormal", "fp.isSubnormal", "fp.isZero",
            "fp.isInf", "fp.isInfinite", "fp.isNan", "fp.isNaN", "fp.isNeg", "fp.isNegative",
            "fp.isPos", "fp.isPositive"}, {1})

DataArity ==
    Taking({"select", "root-obj"}, {2}) @@ Taking({"store"}, {3})
 @@ Taking({"tuple"}, Counts) @@ Taking({"tuple.unit"}, {0}) @@ Taking({"tuple.project"}, {1})

StringArity ==
    Taking({"str.++", "re.++", "re.union", "re.inter"}, 1 .. 4)
 @@ Taking({"str.len", "str.to_lower", "str.to_upper", "str.rev", "str.is_digit", "str.from_int",
            "str.to_int", "str.to_re", "str.to.re", "str.to_code", "str.from_code",
            "re.*", "re.+", "re.?", "re.opt", "re.comp"}, {1})
 @@ Taking({"str.prefixof", "str.suffixof", "str.at", "str.split", "str.num_splits",
            "str.num_splits_re", "str.<", "str.<=", "str.>", "str.>=", "str.in_re", "str.in.re",
            "str.contains", "re.diff", "re.range", "re.^", "re.repeat"}, {2})
 @@ Taking({"str.substr", "str.indexof", "str.indexof_re", "str.update", "str.replace",
            "str.replace_all", "str.replace_re", "str.replace_re_all", "str.split_at",
            "str.split_rest", "str.split_at_re", "str.split_rest_re"}, {3})

(* Spellings that name an operator parseOper has no case for. *)
Unhandled == Taking({"coth", "bvumod", "fp.to_ieee_bv", "root-of-with-interval"}, {})

Arity ==
    CoreArity @@ ArithmeticArity @@ IntegerArity @@ BitVectorArity @@ FloatArity @@ DataArity
 @@ StringArity @@ Unhandled

(* Indices and operands, of those whose indices are counted. *)
IndexedArity ==
    Taking({"divisible", "is_divisible", "nat2bv"}, {<<1, 1>>} \cup Counts \X {2})
 @@ Taking({"int2bv", "repeat", "zero_extend", "sign_extend", "rotate_left", "rotate_right",
            "tuple.select"}, {<<1, 1>>})
 @@ Taking({"extract", "re.loop"}, {<<2, 1>>})
 @@ Taking({"tuple.update", "fp.to_ubv", "fp.toUbv", "fp.to_sbv", "fp.toSbv"}, {<<1, 2>>})
 @@ Taking({"to_fp"}, {<<2, 1>>, <<2, 2>>} \cup (Counts \ {2}) \X {3})
 @@ Taking({"to_fp_unsigned"}, {<<2, 2>>})

Operators == DOMAIN Arity \cup DOMAIN IndexedArity

(* Names of operators that a declaration may take: the extensions of the     *)
(* integers and reals, and "tuple".                                          *)
Shadowable ==
    (DOMAIN ArithmeticArity \ {<<s>> : s \in {"+", "-", "*", "div", "/", "%", "mod", "abs"}})
    \cup {<<s>> : s \in {"is_divisible", "is_prime", "is_even", "is_odd", "gcd", "lcm", "factorial",
                        "coth", "tuple"}}

Reserved(op) == op \in Operators \ Shadowable

Accepts(op, idx, on) ==
    IF op \in DOMAIN Arity THEN Len(on) \in Arity[op] ELSE <<Len(idx), Len(on)>> \in IndexedArity[op]

Result(ok, node) == [ok |-> ok, node |-> node]
Refused == Result(FALSE, NoNode)

(* The marker that replaces the index of ((_ update selector) t v). *)
IsUpdate(op) == op # << >> /\ Head(op) = "update:"

ApplyFun(f, on) ==
    IF Len(on) = UserFuns[f] THEN Result(TRUE, Node(<<"apply">> \o f, << >>, on)) ELSE Refused

(* Mutant: declared functions are looked up first, in indexed terms too. *)
ParseOperFunsFirst(op, idx, on, indexed) ==
    CASE op \in DOMAIN UserFuns /\ ~Reserved(op) -> ApplyFun(op, on)
      [] op \in Operators -> IF Accepts(op, idx, on) THEN Result(TRUE, Node(op, idx, on)) ELSE Refused
      [] OTHER -> Refused

(* parseOper: which of the functions and operators named op is applied. *)
ParseOper(op, idx, on, indexed) ==
    LET declared == op \in DOMAIN UserFuns
    IN  CASE ~declared /\ IsUpdate(op) /\ Len(on) = 2 -> Result(TRUE, Node(op, << >>, on))
          [] declared /\ op \in Constructors -> Result(TRUE, Node(<<"datatype">> \o op, << >>, on))
          [] ~indexed /\ declared /\ ~Reserved(op) -> ApplyFun(op, on)
          [] op \in Operators ->
               IF Accepts(op, idx, on) THEN Result(TRUE, Node(op, idx, on)) ELSE Refused
          [] declared -> ApplyFun(op, on)
          [] OTHER -> Refused

(* The first dispatch, for frequent operators, without a look at functions.  *)
FastPath ==
    {<<o>> : o \in {"=", "and", "=>", "or", "not", "ite", "distinct", "+", "-", "*", "<=", "<", ">=", ">",
                    "bvult", "bvugt", "bvule", "bvuge", "bvsgt", "bvsle", "bvslt", "bvsge"}}

BuildOper(op, on) ==
    IF op \in FastPath
    THEN IF Accepts(op, << >>, on) THEN Result(TRUE, Node(op, << >>, on)) ELSE Refused
    ELSE ParseOper(op, << >>, on, FALSE)

(* parseConstFunc; numbers come before names, names before placeholders. *)
ConstFunc(s) ==
    CASE s \in Numbers \cup Names -> Result(TRUE, Leaf(s))
      [] s \in DOMAIN UserFuns /\ UserFuns[s] = 0 ->
            Result(TRUE, Node((IF s \in Constructors THEN <<"datatype">> ELSE <<"apply">>) \o s, << >>, << >>))
      [] OTHER -> IF allow THEN Result(TRUE, Leaf(<<"?">> \o s)) ELSE Refused
-----------------------------------------------------------------------------
(* What a term begins with.  An opening is a frame and a cursor; Broken is a *)
(* text that makes parseExpr throw.                                          *)

To(frame, c) == [frame |-> frame, cur |-> c]
Broken == To(Frame("Broken", "", << >>), cur)

Sym(c) == Symbol(text, c)
Next1(c) == GetSymbol(text, c)
Opens(c) == At(text, c.pos) = "("
Closes(c) == At(text, c.pos) = ")"

(* parseRpar, then the opening. *)
ToClosed(frame, c) == IF Closes(c) THEN To(frame, Past(text, c)) ELSE Broken

Nested(form, c) == To(Frame("Nested", form, << >>), c)

(* (coeffs ...) begins: parseLpar and a tag that is not looked at. *)
Coeffs(c) == IF Opens(c) THEN Nested("coeffs", Next1(Past(text, c))) ELSE Broken

(* (as C S, up to the closing bracket; the sort S is one symbol here. *)
Ascribed(c) ==
    IF Sym(c) \in Constructors
    THEN ToClosed(Finished(Node(<<"as">> \o Sym(c), << >>, <<Leaf(Sym(Next1(c)))>>)), Next1(Next1(c)))
    ELSE Broken

(* ((head ...: an indexed operator, or a form whose outer bracket is left.   *)
(* "as" with a constructor and the two roots finish the frame all the same.  *)
OpenDouble(head, c1) ==
    CASE head = <<"_">> /\ Sym(c1) = <<"is">> ->
           ToClosed(Frame("Params", "", <<"is-">> \o Sym(Next1(c1))), Next1(Next1(c1)))
      [] head = <<"_">> /\ Sym(c1) = <<"update">> ->
           ToClosed(Frame("Params", "", <<"update:">> \o Sym(Next1(c1))), Next1(Next1(c1)))
      [] head = <<"_">> /\ Sym(c1) \notin {<<"is">>, <<"update">>} ->
           To(Frame("FuncArgs", "", Sym(c1)), Next1(c1))
      [] head = <<"as">> /\ Sym(c1) = <<"const">> ->
           ToClosed(Frame("Nested", "const", Sym(Next1(c1))), Next1(Next1(c1)))
      [] head = <<"as">> /\ Sym(c1) # <<"const">> -> Ascribed(c1)
      [] head = <<"root-obj">> -> Nested("root", c1)
      [] head = <<"root-of-with-interval">> -> Coeffs(c1)
      [] OTHER -> Broken

(* (_ second ... *)
OpenUnderscore(second, c1) ==
    CASE Head(second) = "bv" -> ToClosed(Finished(Leaf(second \o Sym(c1))), Next1(c1))
      [] second = <<"NaN">> ->
           ToClosed(Finished(Leaf(second \o Sym(c1) \o Sym(Next1(c1)))), Next1(Next1(c1)))
      [] second = <<"as-array">> -> ToClosed(Finished(Leaf(<<"?">> \o Sym(c1))), Next1(c1))
      [] second = <<"real_algebraic_number">> ->
           IF At(text, c1.pos) = "<" THEN Nested("angle", Past(text, c1)) ELSE Nested("algebraic", c1)
      [] second = <<"is">> -> ToClosed(Frame("Params", "", <<"is-">> \o Sym(c1)), Next1(c1))
      [] OTHER -> To(Frame("Params", "", second), c1)

OpenSingle(head, c1) ==
    CASE head = <<"as">> -> Ascribed(c1)
      [] head = <<"_">> -> OpenUnderscore(Sym(c1), Next1(c1))
      [] head = <<"fp">> -> Nested("fp", c1)
      [] head = <<"!">> -> Nested("!", c1)
      [] head = <<"root-of-with-interval">> -> Coeffs(c1)
      [] OTHER -> To(Frame("Params", "", head), c1)

(* The form whose first symbol is at c. *)
Opening(double, c) ==
    IF double THEN OpenDouble(Sym(c), Next1(c)) ELSE OpenSingle(Sym(c), Next1(c))
-----------------------------------------------------------------------------
(* Steps *)

Throw(mode) ==
    /\ stack' = << >> /\ outcome' = [status |-> "thrown", node |-> NoNode]
    /\ allow' = mode /\ UNCHANGED <<text, cur, named, texts>>

(* The frame on top is replaced and the cursor moved. *)
Move(frame, c, mode) ==
    /\ stack' = OnTop(frame) /\ cur' = c /\ allow' = mode
    /\ UNCHANGED <<text, named, outcome, texts>>

(* A subterm is to be read at c, for the frame on top. *)
Descend(frame, c, mode) ==
    /\ stack' = Append(OnTop(frame), StartFrame) /\ cur' = c /\ allow' = mode
    /\ UNCHANGED <<text, named, outcome, texts>>

(* Mutant: the mode of a polynomial is kept when it ends. *)
FinishKeepsMode(r, c, mode) ==
    IF r.ok THEN Move([Top EXCEPT !.state = "Finish", !.result = r.node], c, allow) ELSE Throw(allow)

Finish(r, c, mode) ==
    IF r.ok THEN Move([Top EXCEPT !.state = "Finish", !.result = r.node], c, mode) ELSE Throw(mode)

In(state) == stack # << >> /\ Top.state = state

Idle == stack = << >>

Init ==
    /\ text = << >> /\ cur = [pos |-> 1, mode |-> "common", line |-> 1]
    /\ stack = << >> /\ allow = FALSE /\ named = << >>
    /\ outcome = [status |-> "idle", node |-> NoNode] /\ texts = 0

MkExpr(t) ==
    /\ Idle /\ texts < MaxTexts
    /\ text' = t /\ cur' = ScanToNextSymbol(t, [pos |-> 1, mode |-> "common", line |-> 1])
    /\ stack' = <<StartFrame>> /\ named' = << >> /\ texts' = texts + 1
    /\ outcome' = [status |-> "reading", node |-> NoNode]
    /\ UNCHANGED allow

ReadSymbol ==
    /\ In("Start") /\ Char # "("
    /\ Finish(ConstFunc(Sym(cur)), Next1(cur), allow)

(* The forms that read a polynomial admit unknown symbols in it; they keep   *)
(* the old mode in a local variable.                                         *)
Polynomial == {"root", "algebraic", "angle"}

Open ==
    /\ In("Start") /\ Char = "("
    /\ \E c \in {Past(text, cur)} :
       \E o \in {Opening(Opens(c), IF Opens(c) THEN Past(text, c) ELSE c)} :
          IF o.frame.state = "Broken" THEN Throw(allow)
          ELSE Move([o.frame EXCEPT !.saved = allow], o.cur, allow \/ o.frame.form \in Polynomial)

(* The operators that do the same for their operands. *)
Admits(op) == op \in {<<"root-obj">>, <<"root-of-with-interval">>, <<"real_algebraic_number">>}

(* One visit of a frame that reads operands.  The mode is saved at each      *)
(* visit, so that the last one restores what an earlier one has set.         *)
ProcessParams ==
    /\ In("Params")
    /\ LET c == ScanToNextSymbol(text, cur)
           r == BuildOper(Top.op, Top.params)
       IN  IF Closes(c)
           THEN Finish(r, Past(text, c), IF r.ok THEN allow ELSE allow \/ Admits(Top.op))
           ELSE Descend(Top, c, allow \/ Admits(Top.op))

ProcessFuncArgs ==
    /\ In("FuncArgs")
    /\ LET c == ScanToNextSymbol(text, cur)
       IN  IF Closes(c) THEN Move([Top EXCEPT !.state = "FuncParams"], Past(text, c), allow)
           ELSE Descend(Top, c, allow)

ProcessFuncParams ==
    /\ In("FuncParams")
    /\ LET c == ScanToNextSymbol(text, cur)
       IN  IF Closes(c) THEN Finish(ParseOper(Top.op, Top.args, Top.params, TRUE), Past(text, c), allow)
           ELSE Descend(Top, c, allow)

(* A finished frame hands its node to the frame below. *)
Return ==
    /\ In("Finish")
    /\ IF Len(stack) = 1
       THEN /\ stack' = << >> /\ outcome' = [status |-> "read", node |-> Top.result]
       ELSE /\ stack' = IF stack[Len(stack) - 1].state = "FuncArgs"
                        THEN [Front(stack) EXCEPT ![Len(stack) - 1].args = Append(@, Top.result)]
                        ELSE [Front(stack) EXCEPT ![Len(stack) - 1].params = Append(@, Top.result)]
            /\ UNCHANGED outcome
    /\ UNCHANGED <<text, cur, allow, named, texts>>
-----------------------------------------------------------------------------
(* Forms that call parseExpr from within a frame. *)

Parts == Len(Top.params)
InForm(forms) == In("Nested") /\ Top.form \in forms

FinishClosed(node, c, mode) ==
    IF Closes(c) THEN Finish(Result(TRUE, node), Past(text, c), mode) ELSE Throw(mode)

(* An optional character between the parts of a root in angle brackets. *)
Optional(ch, c) ==
    LET d == ScanToNextSymbol(text, c)
    IN  IF At(text, d.pos) = ch THEN Past(text, d) ELSE d

(* ((as const S) v), (fp s e m), ((root-obj p i), (_ real_algebraic_number p l u) *)
Wanted == [const |-> 1, root |-> 1, fp |-> 3, algebraic |-> 3]

ReadPart ==
    /\ InForm(DOMAIN Wanted) /\ Parts < Wanted[Top.form]
    /\ Descend(Top, cur, allow)

BuildParts ==
    /\ InForm(DOMAIN Wanted) /\ Parts = Wanted[Top.form]
    /\ CASE Top.form = "root" ->
              IF Closes(Next1(cur)) /\ Sym(cur) \notin Numbers THEN Throw(Top.saved)
              ELSE IF Closes(Next1(cur))
              THEN Finish(Result(TRUE, Node(<<"root-obj">>, << >>, Append(Top.params, Leaf(Sym(cur))))),
                          Past(text, Next1(cur)), Top.saved)
              ELSE Throw(allow)
         [] Top.form = "algebraic" ->
              FinishClosed(Node(<<"real_algebraic_number">>, << >>, Top.params), cur, Top.saved)
         [] OTHER -> FinishClosed(Node(Top.op \o <<Top.form>>, << >>, Top.params), cur, allow)

(* <p, (l, u)>: every character but the parts is optional; the round bracket *)
(* is noted when it was there, for then it has to be closed.                 *)
ReadAngle ==
    /\ InForm({"angle"})
    /\ LET c == IF Parts = 0 THEN cur ELSE Optional(",", cur)
           d == IF Top.notes # << >> /\ Closes(cur) THEN Past(text, cur) ELSE cur
       IN  CASE Parts = 0 -> Descend(Top, cur, allow)
             [] Parts = 1 /\ Opens(c) -> Descend([Top EXCEPT !.notes = <<"(">>], Past(text, c), allow)
             [] Parts = 1 /\ ~Opens(c) -> Descend(Top, c, allow)
             [] Parts = 2 -> Descend(Top, IF Top.notes # << >> THEN c ELSE cur, allow)
             [] OTHER ->
                  IF Top.notes # << >> /\ ~Closes(cur) THEN Throw(allow)
                  ELSE FinishClosed(Node(<<"real_algebraic_number">>, << >>, Top.params),
                                    Optional(">", d), Top.saved)

(* (root-of-with-interval (coeffs c ...) l u): the coefficients, in the      *)
(* order of the text, then the bounds.                                       *)
ReadCoeffs ==
    /\ InForm({"coeffs"})
    /\ LET c == ScanToNextSymbol(text, cur)
       IN  IF Closes(c)
           THEN Move([Top EXCEPT !.form = "bounds", !.args = Top.params, !.params = << >>],
                     Past(text, c), allow)
           ELSE Descend(Top, c, allow)

ReadBounds ==
    /\ InForm({"bounds"})
    /\ IF Parts < 2 THEN Descend(Top, cur, allow)
       ELSE FinishClosed(Node(<<"root-of-with-interval">>, Top.args, Top.params), cur, allow)

(* (! t attribute ...) *)
AnnotatedTerm == InForm({"!"}) /\ Parts = 0 /\ Descend(Top, cur, allow)

Keywords == {":named", ":pattern", ":no-pattern", ":weight", ":qid", ":hint"}
HasValue(c) == At(text, c.pos) \notin Keywords \cup {")", "eof"}

(* A bracketed value that is not kept is passed over by counting brackets.   *)
AfterBrackets(c) ==
    LET level[q \in Nat] ==
          IF q < c.pos THEN 0
          ELSE level[q - 1] + (IF text[q] = "(" THEN 1 ELSE IF text[q] = ")" THEN -1 ELSE 0)
        ends == {q \in c.pos .. Len(text) : level[q] = 0}
        end == IF ends = {} THEN Len(text) ELSE CHOOSE q \in ends : \A r \in ends : q <= r
    IN  ScanToNextSymbol(text, [c EXCEPT !.pos = end + 1])

AfterValue(c) ==
    CASE Opens(c) -> AfterBrackets(c)
      [] ~Opens(c) /\ HasValue(c) -> ScanToNextSymbol(text, Next1(c))
      [] OTHER -> c

(* Mutant: a keyword is not passed over. *)
AfterKeywordStays(c) == c

AfterKeyword(c) == ScanToNextSymbol(text, [c EXCEPT !.pos = @ + 1])

Annotated == IF Top.notes = << >> THEN Top.params[1] ELSE Node(<<"!">>, << >>, <<Top.params[1]>> \o Top.notes)

(* One round of the loop over attributes. *)
Attribute ==
    /\ InForm({"!"}) /\ Parts = 1
    /\ LET c == ScanToNextSymbol(text, cur)
           keyword == At(text, c.pos)
           v == AfterKeyword(c)
           kept == KeepAnnotations /\ HasValue(v)
       IN  CASE keyword \in {")", "eof"} -> FinishClosed(Annotated, c, allow)
             [] keyword = ":named" /\ HasValue(v) ->
                  /\ named' = Append(named, [name |-> Sym(v), node |-> Top.params[1]])
                  /\ cur' = ScanToNextSymbol(text, Next1(v))
                  /\ UNCHANGED <<text, stack, allow, outcome, texts>>
             [] keyword = ":pattern" /\ kept /\ Opens(v) ->
                  Move([Top EXCEPT !.form = "pattern"], Past(text, v), allow)
             [] keyword \in {":weight", ":no-pattern"} /\ kept ->
                  Descend([Top EXCEPT !.form = keyword], v, allow)
             [] keyword = ":qid" /\ kept /\ ~Opens(v) ->
                  Move([Top EXCEPT !.notes = Append(@, Leaf(<<":qid">> \o Sym(v)))],
                       ScanToNextSymbol(text, Next1(v)), allow)
             [] keyword \notin Keywords -> Move(Top, ScanToNextSymbol(text, Next1(c)), allow)
             [] OTHER -> Move(Top, AfterValue(v), allow)

(* The note made of the terms read after the annotated one. *)
Noted(form) ==
    [Top EXCEPT !.form = "!", !.params = <<Head(@)>>,
                !.notes = Append(@, Node(<<form>>, << >>, Tail(Top.params)))]

ReadPattern ==
    /\ InForm({"pattern"})
    /\ LET c == ScanToNextSymbol(text, cur)
       IN  IF Closes(c) THEN Move(Noted(":pattern"), Past(text, c), allow) ELSE Descend(Top, c, allow)

NoteTerm ==
    /\ InForm({":weight", ":no-pattern"}) /\ Parts = 2
    /\ Move(Noted(Top.form), ScanToNextSymbol(text, cur), allow)
-----------------------------------------------------------------------------
Reading ==
    \/ ReadSymbol \/ Open \/ Return
    \/ ProcessParams \/ ProcessFuncArgs \/ ProcessFuncParams
    \/ ReadPart \/ BuildParts \/ ReadAngle \/ ReadCoeffs \/ ReadBounds
    \/ AnnotatedTerm \/ Attribute \/ ReadPattern \/ NoteTerm

Next == Reading \/ \E t \in Texts : MkExpr(t)

(* mkExpr returns only when its loop has ended. *)
Spec == Init /\ [][Next]_parserVars /\ WF_parserVars(Reading)
=============================================================================
