------------------------------ MODULE Builders ------------------------------
(***************************************************************************)
(* The operators that build terms (Parser::mkOper and the mk functions of  *)
(* src/frontend/op_parser.cpp) for integers, reals, bit-vectors, arrays    *)
(* and the connectives over them.  BoolTerms models the connectives alone, *)
(* as the conversions meet them; here terms have sorts, constants and      *)
(* operations that fold.  A term that is refused is ERROR.                 *)
(***************************************************************************)
EXTENDS Folding

CONSTANTS
    OrderKey(_),   \* DAGNode::orderKey, a hash of the printed term
    Theory         \* what the logic names: "Int", "Real", or "Neither" as ALL does

Numeric == {IntS, RealS, NumeralS}
IsIntParam(t) == t.s \in {IntS, NumeralS}
IsRealParam(t) == t.s \in {RealS, NumeralS}
IsBvParam(t) == t.s[1] = "BitVec"

(* The sort of operands that may mix integers and reals.                    *)
GetSort(s) == IF \E i \in DOMAIN s : s[i].s = RealS THEN RealS ELSE IntS
-----------------------------------------------------------------------------
(* Nodes *)

Commutative == {"ADD", "MUL", "AND", "IAND", "OR", "XOR", "BV_ADD", "BV_MUL", "BV_AND", "BV_OR", "BV_XOR", "EQ",
                "DISTINCT", "MAX", "MIN", "BV_NAND", "BV_NOR", "BV_XNOR", "BV_COMP"}

(* A stable sort by orderKey.                                                *)
SortParams(s) ==
    LET key == [i \in DOMAIN s |-> OrderKey(s[i])]
        rank == [i \in DOMAIN s |-> Cardinality({j \in DOMAIN s : key[j] < key[i] \/ (key[j] = key[i] /\ j <= i)})]
    IN  [n \in DOMAIN s |-> s[CHOOSE i \in DOMAIN s : rank[i] = n]]

MkInternalOper(sort, k, s) == Term(k, sort, <<>>, IF k \in Commutative THEN SortParams(s) ELSE s)

(* A call of mkOper: an operation that is still to be folded or made a node, *)
(* with the sort of that node.                                                *)
MkOper(sort, k, s) == Term(k, <<"mkOper", sort>>, <<>>, s)
IsCall(t) == t.s # <<>> /\ t.s[1] = "mkOper"
FoldedOr(folded, node) == IF folded # UNKNOWN THEN folded ELSE node
Made(t) == IF IsCall(t) THEN FoldedOr(Fold(t.k, t.a), MkInternalOper(t.s[2], t.k, t.a)) ELSE t
-----------------------------------------------------------------------------
(* Sums, products and divisions *)

(* Zeros are dropped from a sum; the sum of nothing needs a logic that says  *)
(* of what.                                                                   *)
MkAdd(s) ==
    LET others == SelectSeq(s, LAMBDA t : ~IsZero(t))
    IN  CASE Len(s) = 1 -> s[1]
          [] Len(s) # 1 /\ others = <<>> ->
                CASE Theory = "Real" -> MkConstReal(Num(0)) [] Theory = "Int" -> MkConstInt(0) [] OTHER -> ERROR
          [] Len(s) # 1 /\ Len(others) = 1 -> others[1]
          [] OTHER -> MkOper(GetSort(s), "ADD", others)

(* A zero annihilates a product, and ones are dropped from it.               *)
MkMul(s) ==
    LET others == SelectSeq(s, LAMBDA t : ~IsOne(t))
    IN  CASE Len(s) = 1 -> s[1]
          [] Len(s) # 1 /\ (\E i \in DOMAIN s : IsZero(s[i])) ->
                IF GetSort(s) = RealS THEN MkConstReal(Num(0)) ELSE MkConstInt(0)
          [] Len(s) # 1 /\ others = <<>> ->
                CASE Theory = "Int" -> MkConstInt(1) [] Theory = "Real" -> MkConstReal(Num(1)) [] OTHER -> ERROR
          [] Len(s) # 1 /\ Len(others) = 1 /\ ~(\E i \in DOMAIN s : IsZero(s[i])) -> others[1]
          [] OTHER -> MkOper(GetSort(s), "MUL", others)

MkSub(s) == IF Len(s) = 1 THEN MkOper(s[1].s, "NEG", s) ELSE MkOper(GetSort(s), "SUB", s)
MkIand(s) == IF Len(s) = 1 THEN s[1] ELSE MkOper(GetSort(s), "IAND", s)

MkDivInt(s) == MkOper(IntS, "DIV_INT", s)
MkDivReal(s) == MkOper(RealS, "DIV_REAL", s)
MkMod(s) == IF IsIntParam(s[1]) /\ IsIntParam(s[2]) THEN MkOper(IntS, "MOD", s) ELSE ERROR

(* The last operand is left out: the loop that collects them ends before it. *)
MkExtremum(k, s) == IF Len(s) = 1 THEN s[1] ELSE MkOper(GetSort(s), k, Front(s))
-----------------------------------------------------------------------------
(* One operand *)

OfInteger == {"TO_REAL", "IS_PRIME", "IS_EVEN", "IS_ODD", "FACT"}
OfReal == {"TO_INT", "IS_INT"}
OfBv == {"BV_NOT", "BV_NEG", "BV_TO_NAT", "BV_TO_INT"}
Unary == OfInteger \cup OfReal \cup OfBv \cup {"NEG", "ABS", "CEIL", "FLOOR", "ROUND", "POW2"} \cup Transcendental

UnarySort(k, p) ==
    CASE k \in {"NEG", "ABS", "CEIL", "POW2", "BV_NOT", "BV_NEG"} \cup Rootlike -> p.s
      [] k \in {"FLOOR", "ROUND", "TO_INT", "FACT", "BV_TO_NAT", "BV_TO_INT"} -> IntS
      [] k \in {"TO_REAL"} \cup (Transcendental \ Rootlike) -> RealS
      [] k \in {"IS_INT", "IS_PRIME", "IS_EVEN", "IS_ODD"} -> BoolS

MkUnary(k, p) ==
    IF \/ k \in {"ABS", "CEIL"} \cup Rootlike /\ p.s \notin Numeric
       \/ k \in OfInteger /\ ~IsIntParam(p)
       \/ k \in OfReal /\ ~IsRealParam(p)
       \/ k \in OfBv /\ ~IsBvParam(p)
    THEN ERROR
    ELSE MkOper(UnarySort(k, p), k, <<p>>)

(* A logarithm without a base is the natural one.                            *)
MkLog(s) ==
    CASE Len(s) = 1 -> MkUnary("LN", s[1])
      [] Len(s) = 2 /\ s[1].s # s[2].s /\ ~({s[1].s, s[2].s} \subseteq Numeric) -> ERROR
      [] OTHER -> MkOper(RealS, "LOG", s)
MkPow(s) == MkOper(s[1].s, "POW", s)
MkAtanTwo(s) == MkOper(RealS, "ATAN2", s)
-----------------------------------------------------------------------------
(* Connectives *)

(* The terms whose equalities and orders mkNot turns around.                 *)
ArithOps == {"ADD", "SUB", "MUL", "NEG", "DIV_INT", "DIV_REAL", "MOD", "ABS", "CEIL", "FLOOR", "ROUND", "TO_REAL",
             "TO_INT", "IAND", "POW2"} \cup Transcendental \cup Approximated
IsArithTerm(t) == t.k \in ArithOps \/ (t.k \in {"VAR", "CONST", "ITE", "MAX", "MIN"} /\ t.s \in Numeric)
Opposite == [LT |-> "GE", LE |-> "GT", GT |-> "LE", GE |-> "LT", EQ |-> "DISTINCT", DISTINCT |-> "EQ"]

(* The comparisons: a term and itself need no node.                          *)
MkOrder(k, l, r) ==
    IF l = r THEN MkBool(k \in {"LE", "GE", "BV_ULE", "BV_UGE", "BV_SLE", "BV_SGE"}) ELSE MkOper(BoolS, k, <<l, r>>)

(* Neither a unit nor a term that has come before.                           *)
MkJunction(k, unit, s) ==
    LET kept == {i \in DOMAIN s : s[i] # MkBool(unit) /\ \A j \in 1..(i - 1) : s[j] # s[i]}
        others == [n \in 1..Cardinality(kept) |-> s[CHOOSE i \in kept : Cardinality({j \in kept : j <= i}) = n]]
    IN  CASE Len(s) = 1 -> s[1]
          [] Len(s) # 1 /\ (\E i \in DOMAIN s : s[i] = MkBool(~unit)) -> MkBool(~unit)
          [] Len(s) # 1 /\ others = <<>> -> MkBool(unit)
          [] Len(others) = 1 /\ ~(\E i \in DOMAIN s : s[i] = MkBool(~unit)) -> others[1]
          [] OTHER -> MkOper(BoolS, k, others)

MkAnd(s) == MkJunction("AND", TRUE, s)
MkOr(s) == MkJunction("OR", FALSE, s)

MkImplies(s) ==
    LET premises == SelectSeq(Front(s), LAMBDA t : ~IsTrue(t))
    IN  CASE \E i \in DOMAIN premises : IsFalse(premises[i]) -> MkBool(TRUE)
          [] premises = <<>> -> Last(s)
          [] OTHER -> MkOper(BoolS, "IMPLIES", Append(premises, Last(s)))

MkXor(s) ==
    LET others == SelectSeq(s, LAMBDA t : ~IsFalse(t))
    IN  CASE others = <<>> -> MkBool(FALSE)
          [] Len(others) = 1 -> others[1]
          [] OTHER -> MkOper(BoolS, "XOR", others)

MkIte(s) == MkOper(s[2].s, "ITE", s)

(* Chains of comparisons are conjunctions of the neighbours'.                *)
MkOrders(k, s) ==
    IF Len(s) = 2 THEN MkOrder(k, s[1], s[2])
    ELSE MkAnd([i \in 1..(Len(s) - 1) |-> Made(MkOrder(k, s[i], s[i + 1]))])

RECURSIVE MkNot(_)
RECURSIVE MkEqPair(_, _)
RECURSIVE MkDistinctPair(_, _)

MkEqPair(l, r) ==
    CASE IsCBool(l) /\ IsCBool(r) -> MkBool(l = r)
      [] IsTrue(l) /\ ~IsCBool(r) -> r
      [] IsFalse(l) /\ ~IsCBool(r) -> MkNot(r)
      [] IsTrue(r) /\ ~IsCBool(l) -> l
      [] IsFalse(r) /\ ~IsCBool(l) -> MkNot(l)
      [] l.k = "NOT" /\ r.k = "NOT" -> MkEqPair(l.a[1], r.a[1])
      [] OTHER -> MkOper(BoolS, "EQ", <<l, r>>)

MkDistinctPair(l, r) ==
    CASE IsCBool(l) /\ IsCBool(r) -> MkBool(l # r)
      [] IsTrue(l) /\ ~IsCBool(r) -> MkNot(r)
      [] IsFalse(l) /\ ~IsCBool(r) -> r
      [] IsTrue(r) /\ ~IsCBool(l) -> MkNot(l)
      [] IsFalse(r) /\ ~IsCBool(l) -> l
      [] l.k = "NOT" /\ r.k = "NOT" -> MkDistinctPair(l.a[1], r.a[1])
      [] l.k = "NOT" /\ r.k # "NOT" /\ ~IsCBool(r) -> MkDistinctPair(l.a[1], r)
      [] r.k = "NOT" /\ l.k # "NOT" /\ ~IsCBool(l) -> MkDistinctPair(l, r.a[1])
      [] OTHER -> MkOper(BoolS, "DISTINCT", <<l, r>>)

MkEquality(k, s) ==
    LET others == SelectSeq(s, LAMBDA t : t # MkBool(k = "EQ"))
    IN  CASE Len(s) = 2 /\ k = "EQ" -> MkEqPair(s[1], s[2])
          [] Len(s) # 2 /\ others = <<>> -> MkBool(k = "EQ")
          [] Len(s) # 2 /\ Len(others) = 1 -> others[1]
          [] OTHER -> MkOper(BoolS, k, others)

(* An equality of three terms and more is negated into a distinction of them. *)
MkNot(t) ==
    CASE t.k = "NOT" -> t.a[1]
      [] IsCBool(t) -> MkBool(IsFalse(t))
      [] t.k \in {"LE", "LT", "GE", "GT"} -> MkOrder(Opposite[t.k], t.a[1], t.a[2])
      [] t.k \in {"EQ", "DISTINCT"} /\ IsArithTerm(t.a[1]) -> MkEquality(Opposite[t.k], t.a)
      [] OTHER -> MkOper(BoolS, "NOT", <<t>>)
-----------------------------------------------------------------------------
(* Bit-vectors and arrays *)

BvChains == {"BV_AND", "BV_OR", "BV_XOR", "BV_NAND", "BV_NOR", "BV_XNOR", "BV_ADD", "BV_SUB", "BV_MUL"}
BvIndexed == {"BV_REPEAT", "BV_ZERO_EXT", "BV_SIGN_EXT", "BV_ROTATE_LEFT", "BV_ROTATE_RIGHT"}

MkBvChain(k, s) ==
    CASE Len(s) = 1 -> s[1]
      [] \E i \in DOMAIN s : s[i].s # s[1].s -> ERROR
      [] OTHER -> MkOper(s[1].s, k, s)

MkBvPair(k, l, r) ==
    CASE l.s # r.s -> ERROR
      [] l.s = r.s /\ k = "BV_COMP" -> MkOper(BvS(1), k, <<l, r>>)
      [] OTHER -> MkOper(l.s, k, <<l, r>>)

MkBvOrder(k, l, r) == IF l.s # r.s THEN ERROR ELSE MkOrder(k, l, r)

MkBvConcat(s) ==
    IF Len(s) = 1 THEN s[1]
    ELSE MkOper(BvS(FoldLeft(LAMBDA width, t : width + Width(t), 0, s)), "BV_CONCAT", s)

MkBvExtract(s) == MkOper(BvS(IntOf(s[2]) - IntOf(s[3]) + 1), "BV_EXTRACT", s)

(* These are not folded when they are built.                                 *)
MkBvIndexed(k, l, r) ==
    LET width == CASE k = "BV_REPEAT" -> Width(l) * IntOf(r)
                   [] k \in {"BV_ZERO_EXT", "BV_SIGN_EXT"} -> Width(l) + IntOf(r)
                   [] OTHER -> Width(l)
    IN  MkOper(BvS(width), k, <<l, r>>)

MkConstArray(v) == Term("CONST_ARRAY", ArrayS, <<>>, <<v>>)
MkSelect(s) == RewriteSelect(MkOper(IntS, "SELECT", s))
MkStore(s) == MkOper(ArrayS, "STORE", s)
-----------------------------------------------------------------------------
(* Strings *)

StrParams ==
    [STR_LEN |-> <<"s">>, STR_TO_LOWER |-> <<"s">>, STR_TO_UPPER |-> <<"s">>, STR_REV |-> <<"s">>, STR_IS_DIGIT |-> <<"s">>,
     STR_TO_INT |-> <<"s">>, STR_TO_CODE |-> <<"s">>, STR_FROM_INT |-> <<"i">>, STR_FROM_CODE |-> <<"i">>,
     STR_PREFIXOF |-> <<"s", "s">>, STR_SUFFIXOF |-> <<"s", "s">>, STR_CONTAINS |-> <<"s", "s">>, STR_CHARAT |-> <<"s", "i">>,
     STR_SUBSTR |-> <<"s", "i", "i">>, STR_INDEXOF |-> <<"s", "s", "i">>, STR_UPDATE |-> <<"s", "i", "s">>,
     STR_REPLACE |-> <<"s", "s", "s">>, STR_REPLACE_ALL |-> <<"s", "s", "s">>]
StrResult(k) ==
    CASE k \in StrTests \cup {"STR_IS_DIGIT"} -> BoolS
      [] k \in {"STR_LEN", "STR_TO_INT", "STR_TO_CODE", "STR_INDEXOF"} -> IntS
      [] OTHER -> StrS
IsStrParam(t) == t.s = StrS

MkStr(k, s) ==
    IF \A i \in DOMAIN s : IF StrParams[k][i] = "s" THEN IsStrParam(s[i]) ELSE IsIntParam(s[i])
    THEN MkOper(StrResult(k), k, s) ELSE ERROR

MkStrOrder(k, l, r) ==
    CASE ~(IsStrParam(l) /\ IsStrParam(r)) -> ERROR
      [] l = r -> MkBool(k \in {"STR_LE", "STR_GE"})
      [] OTHER -> MkOper(BoolS, k, <<l, r>>)

MkStrConcat(s) ==
    CASE Len(s) = 1 -> s[1]
      [] \E i \in DOMAIN s : ~IsStrParam(s[i]) -> ERROR
      [] OTHER -> MkOper(StrS, "STR_CONCAT", s)
-----------------------------------------------------------------------------
(* The builder of each kind, on operands that are built.                     *)
Reduced(k, s) ==
    CASE k = "NOT" -> MkNot(s[1])
      [] k = "AND" -> MkAnd(s) [] k = "OR" -> MkOr(s) [] k = "IMPLIES" -> MkImplies(s) [] k = "XOR" -> MkXor(s)
      [] k = "ITE" -> MkIte(s)
      [] k = "DISTINCT" /\ Len(s) = 2 -> MkDistinctPair(s[1], s[2])
      [] k = "EQ" \/ (k = "DISTINCT" /\ Len(s) # 2) -> MkEquality(k, s)
      [] k \in {"LE", "LT", "GE", "GT"} -> MkOrders(k, s)
      [] k = "ADD" -> MkAdd(s) [] k = "MUL" -> MkMul(s) [] k = "SUB" -> MkSub(s) [] k = "IAND" -> MkIand(s)
      [] k = "DIV_INT" -> MkDivInt(s) [] k = "DIV_REAL" -> MkDivReal(s) [] k = "MOD" -> MkMod(s)
      [] k \in {"MAX", "MIN"} -> MkExtremum(k, s)
      [] k \in Unary -> MkUnary(k, s[1])
      [] k = "LOG" -> MkLog(s) [] k = "POW" -> MkPow(s) [] k = "ATAN2" -> MkAtanTwo(s)
      [] k = "IS_DIVISIBLE" -> MkOper(BoolS, k, s)
      [] k \in {"GCD", "LCM"} -> MkOper(IntS, k, s)
      [] k \in {"NAT_TO_BV", "INT_TO_BV"} -> MkOper(BvS(IntOf(s[2])), k, s)
      [] k \in BvChains -> MkBvChain(k, s)
      [] k = "BV_CONCAT" -> MkBvConcat(s)
      [] k \in BvOrders \ {"BV_COMP"} -> MkBvOrder(k, s[1], s[2])
      [] k = "BV_COMP" \/ k \in BvPairs \ (BvChains \cup {"BV_CONCAT"}) -> MkBvPair(k, s[1], s[2])
      [] k = "BV_EXTRACT" -> MkBvExtract(s)
      [] k \in BvIndexed -> MkBvIndexed(k, s[1], s[2])
      [] k = "STR_CONCAT" -> MkStrConcat(s)
      [] k \in StrOrders -> MkStrOrder(k, s[1], s[2])
      [] k \in DOMAIN StrParams -> MkStr(k, s)
      [] k = "CONST_ARRAY" -> MkConstArray(s[1])
      [] k = "SELECT" -> MkSelect(s) [] k = "STORE" -> MkStore(s)

(* A quotient of integers that folds is given the sort of an integer.        *)
AsInteger(t) == IF IsConst(t) THEN MkConst(IntS, t.v) ELSE t
Mk(k, s) == IF k = "DIV_INT" /\ Len(s) = 2 THEN AsInteger(Made(Reduced(k, s))) ELSE Made(Reduced(k, s))

(* The parser builds a term from the inside out; nothing is built of a term  *)
(* that is refused.                                                           *)
Only(S) == CHOOSE t \in S : TRUE

RECURSIVE Build(_)
Build(t) ==
    IF t.a = <<>> THEN t
    ELSE Only({IF ERROR \in ToSet(s) THEN ERROR ELSE Mk(t.k, s) : s \in {[i \in DOMAIN t.a |-> Build(t.a[i])]}})
=============================================================================
