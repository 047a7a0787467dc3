------------------------------ MODULE Evaluator ------------------------------
(***************************************************************************)
(* Parser::evaluate (src/frontend/eval_parser.cpp): a term under a model   *)
(* that may leave some of its variables out.                               *)
(*                                                                         *)
(* Eval gives what the recursive function gives: whether anything changed  *)
(* and the result.  The result ERROR stands for an exception, which ends   *)
(* the whole evaluation.  A model holds values of variables, and for array *)
(* variables the values of some indices and of the others.                 *)
(*                                                                         *)
(* A conversion of a bit-vector to a signed integer is evaluated as one    *)
(* with two operands, and the second, which it does not have, is read: no  *)
(* result is modelled for it.                                              *)
(***************************************************************************)
EXTENDS Builders

NULL == Term("NULL", <<>>, <<>>, <<>>)

Model(vars, arrays) == [vars |-> vars, arrays |-> arrays]
IsEmptyModel(m) == DOMAIN m.vars = {} /\ DOMAIN m.arrays = {}

Changed(t) == [changed |-> TRUE, result |-> t]
Same(t) == [changed |-> FALSE, result |-> t]

-----------------------------------------------------------------------------
(* What is made of the operands once they are evaluated; some has changed. *)

Constants(s) == SelectSeq(s, IsConst)
Others(s) == SelectSeq(s, LAMBDA t : ~IsConst(t))

(* mkOper pairwise, from the left. *)
FoldConstants(sort, k, s) == FoldLeft(LAMBDA acc, t : Made(MkOper(sort, k, <<acc, t>>)), Head(s), Tail(s))
OneOrOper(sort, k, s) == IF Len(s) = 1 THEN s[1] ELSE MkOper(sort, k, s)

FirstOnly == {"NOT", "NEG", "ABS", "CEIL", "FLOOR", "ROUND", "POW2", "TO_REAL", "TO_INT", "IS_INT", "IS_DIVISIBLE",
              "IS_PRIME", "IS_EVEN", "IS_ODD", "FACT", "BV_NOT", "BV_NEG", "BV_TO_NAT"} \cup Transcendental \cup OfText \cup OfInt
FirstTwo == {"IMPLIES", "MOD", "LE", "LT", "GE", "GT", "GCD", "LCM", "NAT_TO_BV", "BV_UREM", "BV_SREM", "BV_SMOD",
             "BV_SHL", "BV_LSHR", "BV_ASHR"} \cup BvOrders \cup Approximated \cup (StrPairs \ {"STR_CONCAT"})
Unhandled == {"BV_UMOD"}
Summed == {"IAND", "ADD", "MUL", "BV_AND", "BV_OR", "BV_XOR", "BV_NAND", "BV_NOR", "BV_XNOR", "BV_ADD", "BV_MUL", "MAX", "MIN"}
Subtracted == {"SUB", "DIV_REAL", "BV_SUB", "BV_UDIV", "BV_SDIV"}
Flip == [SUB |-> "ADD", DIV_REAL |-> "MUL", BV_SUB |-> "BV_ADD", BV_UDIV |-> "BV_MUL", BV_SDIV |-> "BV_MUL"]

(* The constants are combined and come last. *)
EvaluateSum(t, s) ==
    IF Constants(s) = <<>> THEN OneOrOper(t.s, t.k, s)
    ELSE OneOrOper(t.s, t.k, Append(Others(s), FoldConstants(t.s, t.k, Constants(s))))

(* Mutant: the constants are combined with the operation they are operands of. *)
EvaluateDifferenceUnflipped(t, s) ==
    LET rest == FoldConstants(t.s, t.k, Constants(s))
    IN  IF Constants(s) = <<>> THEN OneOrOper(t.s, t.k, s)
        ELSE OneOrOper(t.s, t.k, IF IsConst(s[1]) THEN <<rest>> \o Others(s) ELSE Append(Others(s), rest))

(* The constants are taken from the first operand together, or from a        *)
(* constant first operand one by one.                                         *)
EvaluateDifference(t, s) ==
    LET rest == FoldConstants(t.s, IF IsConst(s[1]) THEN t.k ELSE Flip[t.k], Constants(s))
    IN  IF Constants(s) = <<>> THEN OneOrOper(t.s, t.k, s)
        ELSE OneOrOper(t.s, t.k, IF IsConst(s[1]) THEN <<rest>> \o Others(s) ELSE Append(Others(s), rest))

(* Neighbouring constants are joined. *)
EvaluateConcat(t, s) ==
    LET Join(acc, u) == IF acc # <<>> /\ IsConst(Last(acc)) /\ IsConst(u)
                        THEN Append(Front(acc), FoldConstants(t.s, t.k, <<Last(acc), u>>)) ELSE Append(acc, u)
    IN  OneOrOper(t.s, t.k, FoldLeft(Join, <<>>, s))

EvaluateJunction(t, s) ==
    IF Others(s) = <<>> THEN MkBool(t.k = "AND")
    ELSE IF Len(Others(s)) = 1 THEN Others(s)[1] ELSE MkJunction(t.k, t.k = "AND", Others(s))

EvaluateXor(s) ==
    LET odd == Cardinality({i \in DOMAIN s : IsTrue(s[i])}) % 2 = 1
    IN  CASE Others(s) = <<>> -> MkBool(odd)
          [] Others(s) # <<>> /\ odd -> MkNot(Made(MkXor(Others(s))))
          [] OTHER -> MkXor(Others(s))

(* What comparing a constant with the first one tells; an integer and a real *)
(* of other sorts cannot be compared.                                         *)
Compare(c, d) ==
    CASE \/ BothInt(c, d) \/ (IsCReal(c) /\ IsCReal(d)) \/ (IsCBool(c) /\ IsCBool(d)) \/ BothBv(c, d) \/ BothStr(c, d) ->
            IF c.v = d.v THEN "equal" ELSE "differ"
      [] OTHER -> "incomparable"

EvaluateEq(s) ==
    LET constants == Constants(s)
        verdicts == [i \in DOMAIN constants |-> Compare(constants[1], constants[i])]
        decisive == SelectInSeq(verdicts, LAMBDA v : v # "equal")
    IN  CASE constants = <<>> -> MkEquality("EQ", s)
          [] constants # <<>> /\ decisive # 0 -> IF verdicts[decisive] = "differ" THEN MkBool(FALSE) ELSE ERROR
          [] constants # <<>> /\ decisive = 0 /\ Others(s) = <<>> -> MkBool(TRUE)
          [] OTHER -> MkEquality("EQ", Append(Others(s), constants[1]))

(* Constants are told apart as nodes; the order of those that are left is   *)
(* that of a hash table.                                                      *)
EvaluateDistinct(s) ==
    LET constants == Constants(s)
        others == Others(s)
        all == others \o constants
    IN  CASE \E i, j \in DOMAIN constants : i # j /\ constants[i] = constants[j] -> MkBool(FALSE)
          [] others = <<>> \/ Len(all) <= 1 -> MkBool(TRUE)
          [] Len(all) = 2 -> MkDistinctPair(all[1], all[2])
          [] OTHER -> MkEquality("DISTINCT", all)

EvaluateIte(s) == IF IsConst(s[1]) THEN (IF IsTrue(s[1]) THEN s[2] ELSE s[3]) ELSE MkIte(s)

(* A constant dividend that is not smaller than the divisors' product is     *)
(* given no result.                                                           *)
EvaluateDivInt(s) ==
    LET Product(c) == FoldLeft(LAMBDA acc, t : Made(MkMul(<<acc, t>>)), MkConstInt(1), c)
        constants == Constants(s)
    IN  CASE constants = <<>> -> MkDivInt(s)
          [] constants # <<>> /\ IsConst(s[1]) ->
                IF IntOf(Product(Tail(constants))) > IntOf(s[1]) THEN MkConstInt(0) ELSE NULL
          [] OTHER -> MkDivInt(Append(Others(s), Product(constants)))

(* The operands after the first are indices.                                  *)
EvaluateIndexed(t, x) ==
    CASE ~IsCBv(x) -> MkOper(t.s, t.k, <<x>> \o Tail(t.a))
      [] IsCBv(x) /\ t.k = "BV_EXTRACT" -> MkConstBv(BvExtract(x.v, IntOf(t.a[2]), IntOf(t.a[3])))
      [] IsCBv(x) /\ t.k = "BV_REPEAT" -> MkConstBv(BvRepeat(x.v, IntOf(t.a[2])))
      [] IsCBv(x) /\ t.k = "BV_ZERO_EXT" -> MkConstBv(BvZeroExtend(x.v, IntOf(t.a[2])))
      [] IsCBv(x) /\ t.k = "BV_SIGN_EXT" -> MkConstBv(BvSignExtend(x.v, IntOf(t.a[2])))
      [] IsCBv(x) /\ t.k \in {"BV_ROTATE_LEFT", "BV_ROTATE_RIGHT"} ->
            IF RotateThrows(x.v, IntOf(t.a[2])) THEN ERROR
            ELSE MkConstBv(IF t.k = "BV_ROTATE_LEFT" THEN BvRotateLeft(x.v, IntOf(t.a[2]))
                           ELSE BvRotateRight(x.v, IntOf(t.a[2])))

(* Mutant: only the indices the model names are read. *)
FromModelNamedOnly(t, m) ==
    IF t.k # "SELECT" \/ t.a[1].k # "VAR" \/ t.a[1].v[1] \notin DOMAIN m.arrays THEN t
    ELSE LET values == m.arrays[t.a[1].v[1]] IN  IF t.a[2] \in DOMAIN values.at THEN values.at[t.a[2]] ELSE t

(* What the model says of an array variable at an index, or the term itself. *)
FromModel(t, m) ==
    IF t.k # "SELECT" \/ t.a[1].k # "VAR" \/ t.a[1].v[1] \notin DOMAIN m.arrays THEN t
    ELSE LET values == m.arrays[t.a[1].v[1]]
         IN  IF t.a[2] \in DOMAIN values.at THEN values.at[t.a[2]] ELSE values.default

(* The operators that are evaluated by evaluateSimpleOp or one of their own.  *)
Evaluated(t, s, m) ==
    CASE t.k \in FirstOnly -> MkOper(t.s, t.k, <<s[1]>>)
      [] t.k \in FirstTwo -> MkOper(t.s, t.k, <<s[1], s[2]>>)
      [] t.k = "INT_TO_BV" -> MkOper(t.s, "BV_TO_INT", <<s[1]>>)
      [] t.k \in Summed -> EvaluateSum(t, s)
      [] t.k \in Subtracted -> EvaluateDifference(t, s)
      [] t.k \in {"BV_CONCAT", "STR_CONCAT"} -> EvaluateConcat(t, s)
      [] t.k \in StrTriples -> MkOper(t.s, t.k, s)
      [] t.k \in {"AND", "OR"} -> EvaluateJunction(t, s)
      [] t.k = "XOR" -> EvaluateXor(s)
      [] t.k = "EQ" -> EvaluateEq(s)
      [] t.k = "DISTINCT" -> EvaluateDistinct(s)
      [] t.k = "ITE" -> EvaluateIte(s)
      [] t.k = "DIV_INT" -> EvaluateDivInt(s)
      [] t.k \in BvIndexed \cup {"BV_EXTRACT"} -> EvaluateIndexed(t, s[1])
      [] t.k = "CONST_ARRAY" -> Term("CONST_ARRAY", t.s, <<>>, s)
      [] t.k = "STORE" -> MkOper(s[1].s, "STORE", s)
      [] t.k = "SELECT" -> FromModel(RewriteSelect(MkOper(IntS, "SELECT", s)), m)
-----------------------------------------------------------------------------
(* Operands that are evaluated, and those that count as a change.            *)
Operands(t) ==
    CASE t.k \in Unhandled -> {}
      [] t.k \in FirstOnly \cup BvIndexed \cup {"BV_EXTRACT", "INT_TO_BV"} -> {1}
      [] t.k \in FirstTwo -> {1, 2}
      [] OTHER -> DOMAIN t.a

(* A false operand of a conjunction, or a true one of a disjunction, is the *)
(* result; the operands after it are not evaluated.                          *)
Decisive(t, rs) ==
    IF t.k \notin {"AND", "OR"} THEN 0 ELSE SelectInSeq(rs, LAMBDA r : r.result = MkBool(t.k = "OR"))

(* An equality with a constant counts as changed. *)
Touched(t, rs) ==
    \/ \E i \in Operands(t) : rs[i].changed
    \/ t.k \in {"EQ", "DISTINCT"} /\ \E i \in DOMAIN rs : IsConst(rs[i].result)

(* What is known of a select in which nothing has changed. *)
Known(t, m) == FromModel(RewriteSelect(t), m)

Combine(t, rs, m) ==
    LET decisive == Decisive(t, rs)
        thrown == {i \in Operands(t) : rs[i].result = ERROR}
    IN  CASE \E i \in thrown : decisive = 0 \/ i < decisive -> Changed(ERROR)
          [] decisive # 0 /\ (\A i \in thrown : i > decisive) -> Changed(rs[decisive].result)
          [] decisive = 0 /\ thrown = {} /\ Touched(t, rs) -> Changed(Made(Evaluated(t, [i \in DOMAIN rs |-> rs[i].result], m)))
          [] OTHER -> IF t.k = "SELECT" THEN [changed |-> Known(t, m) # t, result |-> Known(t, m)] ELSE Same(t)

RECURSIVE Eval(_, _)
Eval(t, m) ==
    CASE IsEmptyModel(m) /\ t.k \notin {"EQ", "DISTINCT"} -> Same(t)
      [] ~IsEmptyModel(m) /\ t.k = "VAR" -> IF t.v[1] \in DOMAIN m.vars THEN Changed(m.vars[t.v[1]]) ELSE Same(t)
      [] t.k # "VAR" /\ t.a = <<>> -> Same(t)
      [] OTHER -> Only({Combine(t, rs, m) : rs \in {[i \in DOMAIN t.a |-> IF i \in Operands(t) THEN Eval(t.a[i], m)
                                                                           ELSE Same(t.a[i])]}})

(* An exception leaves the term as it was.                                    *)
Evaluate(t, m) == Only({IF r.result = ERROR THEN t ELSE r.result : r \in {Eval(t, m)}})
=============================================================================
