---------------------------- MODULE MCExprParser -----------------------------
(***************************************************************************)
(* ExprParser on the texts of a few hundred trees, each written in four    *)
(* layouts.  A tree says what its text means; a session reads any text and *)
(* then a short one, so that what the first leaves behind is seen.         *)
(***************************************************************************)
EXTENDS ExprParser

VARIABLES written, admitting      \* the tree and layout of text; whether a text that
                                  \* admits unknown symbols was begun before it

MCNumbers == {<<"7">>, <<"1.5E", "3">>}
Quoted == <<"|", "a", " ", "(", ";", "|">>
StringConst == <<Quote, "s", Quote, Quote, ")", Quote>>
MCNames == {<<"x">>, Quoted, StringConst}
MCUserFuns == [f \in {<<"f">>, <<"pow">>} |-> 1] @@ [f \in {<<"k">>, <<"nil">>} |-> 0]
           @@ [f \in {<<"cons">>} |-> 2] @@ [f \in {<<"is-", "cons">>} |-> 1]
MCConstructors == {<<"nil">>, <<"cons">>, <<"is-", "cons">>}
-----------------------------------------------------------------------------
(* Trees *)

Tree(form, op, idx, on) == [form |-> form, op |-> op, idx |-> idx, on |-> on]
S(s) == Tree("symbol", s, << >>, << >>)
X == S(<<"x">>)
U == S(<<"u">>)                         \* not declared

Apply(op, on) == Tree("apply", <<op>>, << >>, on)
Indexed(op, idx, on) == Tree("indexed", <<op>>, idx, on)
Form(form, op, on) == Tree(form, op, << >>, on)

Leaves == {X, U, S(Quoted), S(StringConst), S(<<"7">>), S(<<"k">>), S(<<"nil">>)}

(* Every form, over the trees that stand for its parts. *)
Over(a, b) ==
    { Apply("not", <<a>>), Apply("and", <<a, b>>), Apply("ite", <<a, b, a>>), Apply("select", <<a, b>>),
      Apply("<=", <<a>>), Apply("select", <<a>>), Apply("f", <<a>>), Apply("f", <<a, b>>),
      Apply("pow", <<a>>), Apply("cons", <<a, b>>), Apply("g", <<a>>),
      Indexed("extract", <<S(<<"7">>), S(<<"7">>)>>, <<a>>), Indexed("extract", <<S(<<"7">>)>>, <<a>>),
      Indexed("divisible", <<b>>, <<a>>), Indexed("pow", << >>, <<a, b>>), Indexed("f", <<b>>, <<a>>),
      Form("tester", <<"cons">>, <<a>>), Form("update", <<"hd">>, <<a, b>>),
      Form("flat", <<"divisible">>, <<a, b>>), Form("fp", << >>, <<a, b, a>>),
      Form("const", <<"Int">>, <<a>>), Form("algebraic", << >>, <<a, b, U>>),
      Form("angle", <<"(">>, <<a, U, b>>), Form("angle", << >>, <<a, U, b>>),
      Tree("coeffs", << >>, <<a, b>>, <<a, b>>), Tree("coeffs", << >>, << >>, <<a, b>>),
      Form("!", <<":named">>, <<a>>), Form("!", <<":pattern">>, <<a, b, a>>), Form("!", <<":weight">>, <<a, b>>),
      Form("!", <<":qid">>, <<a>>), Form("!", <<":hint">>, <<a, b>>) }

Atoms ==
    { Form("bv", <<"5">>, << >>), Form("NaN", << >>, << >>), Form("as-array", <<"k">>, << >>),
      Form("as", <<"nil">>, << >>), Form("as", <<"k">>, << >>) }

(* A number with an exponent takes in the blanks that follow, and what ends  *)
(* its line is not passed over: it is only safe as a last operand.           *)
Scientific == S(<<"1.5E", "3">>)

(* root-obj as an operator; its second operand is a number. *)
RootObj(a) == Apply("root-obj", <<a, S(<<"7">>)>>)

Trees ==
    Leaves \cup Atoms \cup Over(X, S(Quoted)) \cup Over(U, X)
    \cup UNION {Over(t, S(StringConst)) : t \in Over(X, U) \cup Atoms}
    \cup {Apply("and", <<RootObj(U), X>>), RootObj(X)}
    \cup {Scientific, Apply("not", <<Scientific>>), Apply("select", <<X, Scientific>>)}

RECURSIVE Subtrees(_)
Subtrees(t) == {t} \cup UNION {Subtrees(u) : u \in Range(t.on) \cup Range(t.idx)}

(* What a tree means: the node it stands for, where unknown symbols are      *)
(* admitted or are not.                                                      *)
RECURSIVE Meaning(_, _)
MeaningOf(t, mode, on, idx) ==
    LET declared == t.op \in DOMAIN MCUserFuns
        operator == t.op \in Operators
        node(op) == Result(TRUE, Node(op, idx, on))
    IN  CASE t.form = "symbol" ->
               CASE t.op \in MCNumbers \cup MCNames -> Result(TRUE, Leaf(t.op))
                 [] t.op = <<"nil">> -> Result(TRUE, Leaf(<<"datatype", "nil">>))
                 [] t.op = <<"k">> -> Result(TRUE, Leaf(<<"apply", "k">>))
                 [] OTHER -> Result(mode, Leaf(<<"?">> \o t.op))
          [] t.form = "apply" /\ t.op = <<"cons">> -> node(<<"datatype", "cons">>)
          [] t.form = "apply" /\ declared /\ t.op # <<"cons">> -> Result(Len(on) = MCUserFuns[t.op], Node(<<"apply">> \o t.op, << >>, on))
          [] t.form \in {"apply", "flat"} /\ ~declared -> Result(operator /\ Accepts(t.op, << >>, on), Node(t.op, << >>, on))
          [] t.form = "indexed" /\ operator -> Result(Accepts(t.op, idx, on), Node(t.op, idx, on))
          [] t.form = "indexed" /\ ~operator -> Result(declared /\ Len(on) = MCUserFuns[t.op], Node(<<"apply">> \o t.op, << >>, on))
          [] t.form = "tester" -> node(<<"datatype", "is-">> \o t.op)
          [] t.form = "update" -> node(<<"update:">> \o t.op)
          [] t.form = "fp" -> node(<<"fp">>)
          [] t.form = "const" -> node(t.op \o <<"const">>)
          [] t.form \in {"algebraic", "angle"} -> node(<<"real_algebraic_number">>)
          [] t.form = "coeffs" -> node(<<"root-of-with-interval">>)
          [] t.form = "bv" -> node(<<"bv">> \o t.op \o <<"7">>)
          [] t.form = "NaN" -> node(<<"NaN", "7", "7">>)
          [] t.form = "as-array" -> node(<<"?">> \o t.op)
          [] t.form = "as" -> Result(t.op = <<"nil">>, Node(<<"as">> \o t.op, << >>, <<Leaf(<<"L">>)>>))
          [] t.form = "!" /\ (~KeepAnnotations \/ t.op \in {<<":named">>, <<":hint">>}) -> Result(TRUE, on[1])
          [] t.form = "!" /\ KeepAnnotations /\ t.op = <<":qid">> -> Result(TRUE, Node(<<"!">>, << >>, <<on[1], Leaf(<<":qid", "q">>)>>))
          [] t.form = "!" /\ KeepAnnotations /\ t.op \in {<<":pattern">>, <<":weight">>} ->
               Result(TRUE, Node(<<"!">>, << >>, <<on[1], Node(t.op, << >>, Tail(on))>>))

(* The parts that are read: values of attributes that are not kept are not.  *)
PartsRead(t) ==
    IF t.form = "!" /\ (~KeepAnnotations \/ t.op \in {<<":named">>, <<":hint">>}) THEN <<t.on[1]>> ELSE t.on

Meaning(t, mode) ==
    LET inner == mode \/ t.form \in {"algebraic", "angle"} \/ t.op = <<"root-obj">>
        on == [i \in DOMAIN PartsRead(t) |-> Meaning(t.on[i], inner)]
        idx == [i \in DOMAIN t.idx |-> Meaning(t.idx[i], inner)]
    IN  IF \A r \in Range(on) \cup Range(idx) : r.ok
        THEN MeaningOf(t, mode, [i \in DOMAIN on |-> on[i].node], [i \in DOMAIN idx |-> idx[i].node])
        ELSE Refused

(* The names given in a tree, in the order of the text. *)
RECURSIVE NamesIn(_)
NamesIn(t) ==
    FlattenSeq([i \in DOMAIN t.idx |-> NamesIn(t.idx[i])])
    \o FlattenSeq([i \in DOMAIN PartsRead(t) |-> NamesIn(t.on[i])])
    \o IF t.form = "!" /\ t.op = <<":named">> THEN <<t.on[1]>> ELSE << >>
-----------------------------------------------------------------------------
(* Texts *)

In1(tokens) == <<<<"(">>>> \o tokens \o <<<<")">>>>

RECURSIVE Tokens(_)
All(s) == FlattenSeq([i \in DOMAIN s |-> Tokens(s[i])])
Tokens(t) ==
    CASE t.form = "symbol" -> <<t.op>>
      [] t.form = "apply" -> In1(<<t.op>> \o All(t.on))
      [] t.form = "flat" -> In1(<< <<"_">>, t.op >> \o All(t.on))
      [] t.form = "indexed" -> In1(In1(<< <<"_">>, t.op >> \o All(t.idx)) \o All(t.on))
      [] t.form = "tester" -> In1(In1(<< <<"_">>, <<"is">>, t.op >>) \o All(t.on))
      [] t.form = "update" -> In1(In1(<< <<"_">>, <<"update">>, t.op >>) \o All(t.on))
      [] t.form = "fp" -> In1(<< <<"fp">> >> \o All(t.on))
      [] t.form = "const" -> In1(In1(<< <<"as">>, <<"const">>, t.op >>) \o All(t.on))
      [] t.form = "algebraic" -> In1(<< <<"_">>, <<"real_algebraic_number">> >> \o All(t.on))
      [] t.form = "angle" ->
            In1(<< <<"_">>, <<"real_algebraic_number">>, <<"<">> >> \o Tokens(t.on[1])
                \o (IF t.op = << >> THEN Tokens(t.on[2]) \o Tokens(t.on[3])
                    ELSE <<<<",">>>> \o In1(Tokens(t.on[2]) \o <<<<",">>>> \o Tokens(t.on[3])))
                \o << <<">">> >>)
      [] t.form = "coeffs" ->
            In1(<< <<"root-of-with-interval">> >> \o In1(<< <<"coeffs">> >> \o All(t.idx)) \o All(t.on))
      [] t.form = "bv" -> In1(<< <<"_">>, <<"bv">> \o t.op, <<"7">> >>)
      [] t.form = "NaN" -> In1(<< <<"_">>, <<"NaN">>, <<"7">>, <<"7">> >>)
      [] t.form = "as-array" -> In1(<< <<"_">>, <<"as-array">>, t.op >>)
      [] t.form = "as" -> In1(<< <<"as">>, t.op, <<"L">> >>)
      [] t.form = "!" ->
            In1(<< <<"!">> >> \o Tokens(t.on[1]) \o << <<":hint">>, t.op >>
                \o CASE t.op = <<":pattern">> -> In1(All(Tail(t.on)))
                     [] t.op = <<":hint">> -> << <<"(">>, <<"x">>, <<")">> >>
                     [] t.op = <<":weight">> -> Tokens(t.on[2])
                     [] OTHER -> << <<"q">> >>)

IsWord(token) == token[1] \notin {"(", ")", "|", Quote}

(* Layout stands before each token; without any, a blank comes between a     *)
(* word and what is not a bracket.                                           *)
Separated(tokens, layout) ==
    [i \in DOMAIN tokens |->
        (CASE i > 1 /\ tokens[i - 1][1] = MantissaE -> << >>
           [] layout = << >> /\ i > 1 /\ IsWord(tokens[i - 1]) /\ tokens[i][1] \notin {"(", ")"} -> <<Blank>>
           [] OTHER -> layout)
        \o tokens[i]]

Write(t, layout) == FlattenSeq(Separated(Tokens(t), layout))

Layouts == { << >>, <<Blank>>, <<NewLine>>, <<Blank, ";", "(", Quote, ")", NewLine>> }

Written == {[tree |-> t, text |-> Write(t, l)] : t \in Trees, l \in Layouts}
Probes == {[tree |-> t, text |-> Write(t, << >>)] : t \in {U, Apply("not", <<X>>)}}
MCTexts == {w.text : w \in Written}

(* Trees whose reading may leave the mode on: one with root-obj as an        *)
(* operator, and one that fails within a polynomial.                         *)
LeavesModeOn(t) ==
    \E u \in Subtrees(t) :
        \/ u.op = <<"root-obj">>
        \/ u.form \in {"algebraic", "angle"} /\ ~Meaning(u, TRUE).ok

NoTree == [tree |-> X, text |-> << >>]
MCInit == Init /\ written = NoTree /\ admitting = FALSE

MCNext ==
    \/ Reading /\ UNCHANGED <<written, admitting>>
    \/ \E w \in IF texts = 0 THEN Written ELSE Probes :
          /\ MkExpr(w.text)
          /\ written' = w
          /\ admitting' = (admitting \/ LeavesModeOn(written.tree))

MCSpec == MCInit /\ [][MCNext]_<<parserVars, written, admitting>>
              /\ WF_<<parserVars, written, admitting>>(Reading /\ UNCHANGED <<written, admitting>>)
-----------------------------------------------------------------------------
(* The stack holds frames the code can make, and is empty between texts. *)
TypeOK ==
    /\ cur \in Cursor /\ allow \in BOOLEAN
    /\ outcome.status \in {"idle", "reading", "read", "thrown"}
    /\ outcome.status = "reading" <=> stack # << >>
    /\ \A i \in DOMAIN stack :
          stack[i].state \in {"Start", "Params", "FuncArgs", "FuncParams", "Nested"}
                             \cup (IF i = Len(stack) THEN {"Finish"} ELSE {})

(* A text is read as the tree it was written from, in any layout, to its     *)
(* last character, with all names given and all lines counted (but those in  *)
(* a bracketed value that is passed over); and what is no term is refused.   *)
ReadsWhatWasWritten ==
    LET meaning == Meaning(written.tree, admitting)
    IN  /\ outcome.status = "read" =>
             /\ meaning.ok /\ outcome.node = meaning.node
             /\ cur.pos = Len(text) + 1
             /\ [i \in DOMAIN named |-> named[i].node]
                  = [i \in DOMAIN NamesIn(written.tree) |-> Meaning(NamesIn(written.tree)[i], TRUE).node]
             /\ (\A u \in Subtrees(written.tree) : u.op # <<":hint">>) =>
                    cur.line = 1 + NewLines(text, 1, Len(text))
        /\ outcome.status = "thrown" => ~meaning.ok

(* After a text, read or refused, unknown symbols are admitted only if they  *)
(* were before, or the text is one of those known to leave the mode on.      *)
ModeRestored ==
    Idle => (allow => admitting \/ LeavesModeOn(written.tree))

(* skipToRpar passes over exactly the term that parseExpr would read. *)
SkipsAsItReads ==
    (In("Start") /\ Len(stack) = 1 /\ Char = "(") =>
        LET end == SkipToRpar(text, Past(text, cur)) IN end.pos = Len(text)

(* Every call of mkExpr returns or throws. *)
Terminates == (outcome.status = "reading") ~> (outcome.status # "reading")
=============================================================================
