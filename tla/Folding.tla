------------------------------- MODULE Folding -------------------------------
(***************************************************************************)
(* Parser::simp_oper (src/frontend/simp_parser.cpp): what an operation on  *)
(* constants folds to when the node for it is built.                       *)
(*                                                                         *)
(* A term is a record: its kind, its sort, what a constant or a variable   *)
(* carries, and its arguments.  Folding to UNKNOWN leaves the operation as *)
(* it is.  Approximation by floating point is off, as it is by default.    *)
(***************************************************************************)
EXTENDS BitVectors, Numbers, Strings

IntS == <<"Int">>
RealS == <<"Real">>
NumeralS == <<"IntOrReal">>
BoolS == <<"Bool">>
ArrayS == <<"Array">>
StrS == <<"String">>
BvS(width) == <<"BitVec", width>>

Term(k, s, v, a) == [k |-> k, s |-> s, v |-> v, a |-> a]
UNKNOWN == Term("UNKNOWN", <<>>, <<>>, <<>>)
ERROR == Term("ERROR", <<>>, <<>>, <<>>)
MkVar(s, name) == Term("VAR", s, <<name>>, <<>>)
MkConst(s, v) == Term("CONST", s, v, <<>>)
MkBool(b) == MkConst(BoolS, <<IF b THEN 1 ELSE 0>>)
MkConstBv(bits) == MkConst(BvS(Len(bits)), bits)

(* Constants with one value are one node: a fraction is in lowest terms. *)
MkNumber(s, x) == LET common == Magnitude(Gcd[x.n, x.d]) IN MkConst(s, <<x.n \div common, x.d \div common>>)
MkConstInt(i) == MkConst(NumeralS, <<i, 1>>)
MkConstReal(x) == MkNumber(RealS, x)

(* A string constant holds its value; its text is made for each operation.   *)
MkConstStr(s) == MkConst(StrS, Literal(s))
Text(t) == Quoted(Escape(t.v))

IsConst(t) == t.k = "CONST"
IsTrue(t) == t = MkBool(TRUE)
IsFalse(t) == t = MkBool(FALSE)
IsCBool(t) == IsConst(t) /\ t.s = BoolS
IsCInt(t) == IsConst(t) /\ t.s \in {IntS, NumeralS}
IsCReal(t) == IsConst(t) /\ t.s \in {RealS, NumeralS}
IsNumeral(t) == IsCInt(t) \/ IsCReal(t)
IsCBv(t) == IsConst(t) /\ t.s[1] = "BitVec"
IsCStr(t) == IsConst(t) /\ t.s = StrS
IsArray(t) == t.s = ArrayS
NumberOf(t) == Fraction(t.v[1], t.v[2])
IntOf(t) == t.v[1]
IsZero(t) == IsNumeral(t) /\ t.v[1] = 0
IsOne(t) == IsNumeral(t) /\ t.v = <<1, 1>>
Width(t) == t.s[2]
BothInt(l, r) == IsCInt(l) /\ IsCInt(r)
BothNumeral(l, r) == IsNumeral(l) /\ IsNumeral(r)
BothBv(l, r) == IsCBv(l) /\ IsCBv(r)
BothStr(l, r) == IsCStr(l) /\ IsCStr(r)
-----------------------------------------------------------------------------
(* One operand *)

(* What is only folded by approximation, and so stays as it is: functions of *)
(* one operand, and Approximated of two.                                      *)
Rootlike == {"SQRT", "SAFESQRT"}
Exponential == {"EXP", "LN", "LG", "LB"}
Circular == {"SIN", "COS", "SEC", "CSC", "TAN", "COT"}
InverseCircular == {"ASIN", "ACOS", "ASEC", "ACSC", "ATAN", "ACOT"}
Hyperbolic == {"SINH", "COSH", "TANH", "SECH", "CSCH", "COTH"}
InverseHyperbolic == {"ASINH", "ACOSH", "ATANH", "ASECH", "ACSCH", "ACOTH"}
Approximated == {"POW", "LOG", "ATAN2"}
Transcendental == Rootlike \cup Exponential \cup Circular \cup InverseCircular \cup Hyperbolic \cup InverseHyperbolic

SameKind(t, x) == IF IsCInt(t) THEN MkConstInt(x.n) ELSE MkConstReal(x)

(* mpfr_round: half-way numbers go away from zero. *)
RoundOf(x) == IF x.n < 0 THEN CeilOf(Minus(x, Fraction(1, 2))) ELSE FloorOf(Plus(x, Fraction(1, 2)))

(* Rounding a real to an integer leaves it a constant of sort Real. *)
FoldNumber(k, p) ==
    CASE k = "NEG" /\ IsNumeral(p) -> SameKind(p, Neg(NumberOf(p)))
      [] k = "ABS" /\ IsNumeral(p) -> IF p.v[1] < 0 THEN SameKind(p, AbsOf(NumberOf(p))) ELSE p
      [] k \in {"CEIL", "FLOOR", "ROUND", "TO_INT"} /\ IsCInt(p) -> p
      [] k = "CEIL" /\ IsCReal(p) /\ ~IsCInt(p) -> MkConstReal(CeilOf(NumberOf(p)))
      [] k \in {"FLOOR", "TO_INT"} /\ IsCReal(p) /\ ~IsCInt(p) -> MkConstReal(FloorOf(NumberOf(p)))
      [] k = "ROUND" /\ IsCReal(p) /\ ~IsCInt(p) -> MkConstReal(RoundOf(NumberOf(p)))
      [] OTHER -> UNKNOWN

(* A constant of sort Real is never an integer, whatever its value. *)
FoldInteger(k, p) ==
    CASE k = "TO_REAL" /\ IsCInt(p) -> MkConstReal(NumberOf(p))
      [] k = "TO_REAL" /\ IsCReal(p) /\ ~IsCInt(p) -> p
      [] k = "IS_INT" /\ IsNumeral(p) -> MkBool(IsCInt(p))
      [] k = "IS_PRIME" /\ IsCInt(p) -> MkBool(IsPrime(IntOf(p)))
      [] k = "IS_EVEN" /\ IsCInt(p) -> MkBool(IntOf(p) % 2 = 0)
      [] k = "IS_ODD" /\ IsCInt(p) -> MkBool(IntOf(p) % 2 # 0)
      [] k = "FACT" /\ IsCInt(p) -> IF IntOf(p) < 0 THEN ERROR ELSE MkConstInt(Factorial(IntOf(p)))
      [] k = "POW2" /\ IsCInt(p) -> MkConstInt(MathPow(2, IntOf(p)))
      [] OTHER -> UNKNOWN

FoldBv(k, p) ==
    CASE k = "BV_NOT" /\ IsCBv(p) -> MkConstBv(BvNot(p.v))
      [] k = "BV_NEG" /\ IsCBv(p) -> MkConstBv(BvNeg(p.v))
      [] k = "BV_TO_NAT" /\ IsCBv(p) -> MkConstInt(BvToNat(p.v))
      [] k = "BV_TO_INT" /\ IsCBv(p) -> MkConstInt(BvToInt(p.v))
      [] OTHER -> UNKNOWN

OfText == {"STR_LEN", "STR_TO_LOWER", "STR_TO_UPPER", "STR_REV", "STR_IS_DIGIT", "STR_TO_INT", "STR_TO_CODE"}
OfInt == {"STR_FROM_INT", "STR_FROM_CODE"}

(* Some work on the value, and some on the text.                              *)
FoldString(k, p) ==
    CASE ~IsCStr(p) /\ k \in OfText -> UNKNOWN
      [] k = "STR_LEN" /\ IsCStr(p) -> MkConstInt(Len(p.v))
      [] k = "STR_TO_LOWER" /\ IsCStr(p) -> MkConstStr(StrToLower(Text(p)))
      [] k = "STR_TO_UPPER" /\ IsCStr(p) -> MkConstStr(StrToUpper(Text(p)))
      [] k = "STR_REV" /\ IsCStr(p) -> MkConstStr(StrRev(p.v))
      [] k = "STR_IS_DIGIT" /\ IsCStr(p) -> MkBool(Len(p.v) = 1 /\ IsDigit(p.v[1]))
      [] k = "STR_TO_INT" /\ IsCStr(p) -> MkConstInt(IF IsNumber(p.v) THEN NumberIn(p.v) ELSE -1)
      [] k = "STR_TO_CODE" /\ IsCStr(p) -> MkConstInt(IF Len(p.v) = 1 THEN p.v[1] ELSE -1)
      [] k \in OfInt /\ ~IsCInt(p) -> UNKNOWN
      [] k = "STR_FROM_INT" /\ IsCInt(p) -> MkConstStr(Decimal(IntOf(p)))
      [] k = "STR_FROM_CODE" /\ IsCInt(p) -> IF IntOf(p) \in 0..255 THEN MkConstStr(<<IntOf(p)>>) ELSE ERROR

Chainable == {"EQ", "DISTINCT", "AND", "OR", "IMPLIES", "XOR", "ADD", "MUL", "IAND", "SUB", "BV_AND", "BV_OR",
              "BV_XOR", "BV_NAND", "BV_NOR", "BV_XNOR", "BV_ADD", "BV_SUB", "BV_MUL", "BV_CONCAT", "STR_CONCAT", "MAX", "MIN"}

FoldOne(k, p) ==
    CASE k = "NOT" -> IF IsCBool(p) THEN MkBool(IsFalse(p)) ELSE UNKNOWN
      [] k \in {"NEG", "ABS", "CEIL", "FLOOR", "ROUND", "TO_INT"} -> FoldNumber(k, p)
      [] k \in {"TO_REAL", "IS_INT", "IS_PRIME", "IS_EVEN", "IS_ODD", "FACT", "POW2"} -> FoldInteger(k, p)
      [] k \in {"BV_NOT", "BV_NEG", "BV_TO_NAT", "BV_TO_INT"} -> FoldBv(k, p)
      [] k \in OfText \cup OfInt -> FoldString(k, p)
      [] k \in Transcendental -> UNKNOWN
      [] k \in Chainable -> p
      [] OTHER -> UNKNOWN
-----------------------------------------------------------------------------
(* Arrays.  A write is a pair of an index and a value. *)

RECURSIVE CollectStoreChain(_)
CollectStoreChain(t) ==
    IF t.k # "STORE" THEN [base |-> t, updates |-> <<>>]
    ELSE LET rest == CollectStoreChain(t.a[1])
         IN  [base |-> rest.base, updates |-> Append(rest.updates, <<t.a[2], t.a[3]>>)]

(* The newest write of each index; over a constant array, those of its own *)
(* value are dropped.                                                       *)
CanonicalizeArray(t) ==
    LET chain == CollectStoreChain(t)
        writes == chain.updates
        newest == {i \in DOMAIN writes : \A j \in DOMAIN writes : j > i => writes[j][1] # writes[i][1]}
    IN  [base |-> chain.base,
         writes |-> {writes[i] : i \in {n \in newest : chain.base.k = "CONST_ARRAY" => writes[n][2] # chain.base.a[1]}}]

AreArraysEqual(l, r) == l = r \/ CanonicalizeArray(l) = CanonicalizeArray(r)

ArrayContainsVar(t) ==
    LET chain == CollectStoreChain(t)
    IN  \/ \E w \in ToSet(chain.updates) : w[1].k = "VAR" \/ w[2].k = "VAR"
        \/ IF chain.base.k = "CONST_ARRAY" THEN chain.base.a[1].k = "VAR" ELSE ~IsConst(chain.base)

(* The store at the top is read when its index is the very term that is read. *)
RewriteSelect(t) ==
    IF t.k = "SELECT" /\ t.a[1].k = "STORE" /\ t.a[1].a[2] = t.a[2] THEN t.a[1].a[3] ELSE t
-----------------------------------------------------------------------------
(* Two operands *)

FoldEq(l, r) ==
    CASE BothNumeral(l, r) \/ BothBv(l, r) \/ BothStr(l, r) -> MkBool(l.v = r.v)
      [] IsArray(l) /\ IsArray(r) ->
            IF AreArraysEqual(l, r) THEN MkBool(TRUE)
            ELSE IF ArrayContainsVar(l) \/ ArrayContainsVar(r) THEN UNKNOWN ELSE MkBool(FALSE)
      [] OTHER -> UNKNOWN

(* An integer and a real are left alone here, and so are arrays. *)
FoldDistinct(l, r) ==
    IF BothInt(l, r) \/ (IsCReal(l) /\ IsCReal(r)) \/ BothBv(l, r) \/ BothStr(l, r) THEN MkBool(l.v # r.v) ELSE UNKNOWN

FoldConnective(k, l, r) ==
    CASE k = "AND" /\ (IsFalse(l) \/ IsFalse(r)) -> MkBool(FALSE)
      [] k = "AND" /\ IsTrue(l) /\ IsTrue(r) -> MkBool(TRUE)
      [] k = "OR" /\ (IsTrue(l) \/ IsTrue(r)) -> MkBool(TRUE)
      [] k = "OR" /\ IsFalse(l) /\ IsFalse(r) -> MkBool(FALSE)
      [] k = "IMPLIES" /\ (IsFalse(l) \/ IsTrue(r)) -> MkBool(TRUE)
      [] k = "IMPLIES" /\ IsTrue(l) /\ IsFalse(r) -> MkBool(FALSE)
      [] k = "XOR" /\ IsCBool(l) /\ IsCBool(r) -> MkBool(l # r)
      [] OTHER -> UNKNOWN

MkNeg(p) == IF IsNumeral(p) THEN FoldNumber("NEG", p) ELSE Term("NEG", p.s, <<>>, <<p>>)

(* An operation on two integers is an integer, on a real and a number a real. *)
FoldSum(k, l, r) ==
    LET x == NumberOf(l)
        y == NumberOf(r)
        result == CASE k = "ADD" -> Plus(x, y) [] k = "SUB" -> Minus(x, y) [] k = "MUL" -> Times(x, y)
    IN  CASE BothInt(l, r) -> MkConstInt(result.n)
          [] BothNumeral(l, r) /\ ~BothInt(l, r) -> MkConstReal(result)
          [] k = "SUB" /\ ~BothNumeral(l, r) /\ IsZero(l) -> MkNeg(r)
          [] k = "SUB" /\ ~BothNumeral(l, r) /\ IsZero(r) -> l
          [] OTHER -> UNKNOWN

(* The divisions are Euclidean, and a division by zero is left as it is. *)
FoldDivision(k, l, r) ==
    CASE k = "DIV_INT" /\ BothInt(l, r) /\ ~IsZero(r) -> MkConstInt(EuclideanDiv(IntOf(l), IntOf(r)))
      [] k = "MOD" /\ BothInt(l, r) /\ ~IsZero(r) -> MkConstInt(EuclideanMod(IntOf(l), IntOf(r)))
      [] k = "DIV_REAL" /\ BothNumeral(l, r) /\ ~IsZero(r) -> MkConstReal(Over(NumberOf(l), NumberOf(r)))
      [] OTHER -> UNKNOWN

(* Only <= compares reals without floating point. *)
FoldOrder(k, l, r) ==
    CASE k = "LE" /\ BothNumeral(l, r) -> MkBool(Le(NumberOf(l), NumberOf(r)))
      [] k = "LT" /\ BothInt(l, r) -> MkBool(IntOf(l) < IntOf(r))
      [] k = "GE" /\ BothInt(l, r) -> MkBool(IntOf(l) >= IntOf(r))
      [] k = "GT" /\ BothInt(l, r) -> MkBool(IntOf(l) > IntOf(r))
      [] OTHER -> UNKNOWN

FoldDivisors(k, l, r) ==
    CASE ~BothInt(l, r) -> UNKNOWN
      [] BothInt(l, r) /\ k = "IS_DIVISIBLE" ->
            IF IsZero(r) THEN ERROR ELSE MkBool(Remainder(IntOf(l), IntOf(r)) = 0)
      [] BothInt(l, r) /\ k = "GCD" -> MkConstInt(Gcd[IntOf(l), IntOf(r)])
      [] BothInt(l, r) /\ k = "LCM" ->
            IF IsZero(l) /\ IsZero(r) THEN ERROR ELSE MkConstInt(Lcm(IntOf(l), IntOf(r)))
      [] BothInt(l, r) /\ k = "IAND" -> MkConstInt(IntAnd(IntOf(l), IntOf(r)))
      [] BothInt(l, r) /\ k = "NAT_TO_BV" -> MkConstBv(NatToBv(IntOf(l), IntOf(r)))
      [] BothInt(l, r) /\ k = "INT_TO_BV" -> MkConstBv(IntToBv(IntOf(l), IntOf(r)))

BvOperation(k, x, y) ==
    CASE k = "BV_AND" -> BvAnd(x, y) [] k = "BV_OR" -> BvOr(x, y) [] k = "BV_XOR" -> BvXor(x, y)
      [] k = "BV_NAND" -> BvNand(x, y) [] k = "BV_NOR" -> BvNor(x, y) [] k = "BV_XNOR" -> BvXnor(x, y)
      [] k = "BV_ADD" -> BvAdd(x, y) [] k = "BV_SUB" -> BvSub(x, y) [] k = "BV_MUL" -> BvMul(x, y)
      [] k = "BV_UDIV" -> BvUdiv(x, y) [] k = "BV_UREM" -> BvUrem(x, y) [] k = "BV_UMOD" -> BvUmod(x, y)
      [] k = "BV_SDIV" -> BvSdiv(x, y) [] k = "BV_SREM" -> BvSrem(x, y) [] k = "BV_SMOD" -> BvSmod(x, y)
      [] k = "BV_SHL" -> BvShl(x, y) [] k = "BV_LSHR" -> BvLshr(x, y) [] k = "BV_ASHR" -> BvAshr(x, y)
      [] k = "BV_CONCAT" -> BvConcat(x, y)

BvOrders == {"BV_ULT", "BV_ULE", "BV_UGT", "BV_UGE", "BV_SLT", "BV_SLE", "BV_SGT", "BV_SGE", "BV_COMP"}
BvPairs == {"BV_AND", "BV_OR", "BV_XOR", "BV_NAND", "BV_NOR", "BV_XNOR", "BV_ADD", "BV_SUB", "BV_MUL",
            "BV_UDIV", "BV_UREM", "BV_UMOD", "BV_SDIV", "BV_SREM", "BV_SMOD", "BV_SHL", "BV_LSHR", "BV_ASHR", "BV_CONCAT"}

(* isZero knows no bit-vectors, so the cases for a zero divisor or a zero    *)
(* shift of a term that is no constant never apply.                          *)
FoldBvPair(k, l, r) ==
    CASE ~BothBv(l, r) -> UNKNOWN
      [] BothBv(l, r) /\ k \in BvOrders -> MkBool(BvComp(l.v, r.v, k))
      [] BothBv(l, r) /\ k \in BvPairs -> MkConstBv(BvOperation(k, l.v, r.v))

StrOrders == {"STR_LT", "STR_LE", "STR_GT", "STR_GE"}
StrTests == {"STR_PREFIXOF", "STR_SUFFIXOF", "STR_CONTAINS"} \cup StrOrders
StrPairs == StrTests \cup {"STR_CONCAT", "STR_CHARAT"}

(* Strings are compared with the quotes around them.                          *)
TestStrings(k, x, y) ==
    CASE k = "STR_PREFIXOF" -> StrPrefixof(x, y)
      [] k = "STR_SUFFIXOF" -> StrSuffixof(x, y)
      [] k = "STR_CONTAINS" -> StrContains(x, y)
      [] k = "STR_LT" -> Less(x, y) [] k = "STR_LE" -> ~Less(y, x)
      [] k = "STR_GT" -> Less(y, x) [] k = "STR_GE" -> ~Less(x, y)

FoldStrPair(k, l, r) ==
    CASE k \in StrTests -> IF BothStr(l, r) THEN MkBool(TestStrings(k, Text(l), Text(r))) ELSE UNKNOWN
      [] k = "STR_CONCAT" -> IF BothStr(l, r) THEN MkConstStr(Front(Text(l)) \o Tail(Text(r))) ELSE UNKNOWN
      [] k = "STR_CHARAT" -> IF ~(IsCStr(l) /\ IsCInt(r)) THEN UNKNOWN
                             ELSE IF StrCharAtThrows(Text(l), IntOf(r)) THEN ERROR ELSE MkConstStr(StrCharAt(Text(l), IntOf(r)))

FoldExtremum(k, l, r) ==
    LET best == IF k = "MAX" THEN MaxOf(NumberOf(l), NumberOf(r)) ELSE MinOf(NumberOf(l), NumberOf(r))
    IN  CASE ~BothNumeral(l, r) -> UNKNOWN
          [] BothNumeral(l, r) /\ RealS \in {l.s, r.s} -> MkConstReal(best)
          [] OTHER -> MkConstInt(best.n)

FoldTwo(k, l, r) ==
    CASE k = "EQ" -> FoldEq(l, r)
      [] k = "DISTINCT" -> FoldDistinct(l, r)
      [] k \in {"AND", "OR", "IMPLIES", "XOR"} -> FoldConnective(k, l, r)
      [] k \in {"ADD", "SUB", "MUL"} -> FoldSum(k, l, r)
      [] k \in {"DIV_INT", "MOD", "DIV_REAL"} -> FoldDivision(k, l, r)
      [] k \in {"LE", "LT", "GE", "GT"} -> FoldOrder(k, l, r)
      [] k \in {"IS_DIVISIBLE", "GCD", "LCM", "IAND", "NAT_TO_BV", "INT_TO_BV"} -> FoldDivisors(k, l, r)
      [] k \in BvPairs \cup BvOrders -> FoldBvPair(k, l, r)
      [] k \in StrPairs -> FoldStrPair(k, l, r)
      [] k \in {"MAX", "MIN"} -> FoldExtremum(k, l, r)
      [] k \in Approximated -> UNKNOWN
      [] OTHER -> UNKNOWN
-----------------------------------------------------------------------------
(* Three operands and more *)

LeftAssociative == {"AND", "OR", "XOR", "ADD", "MUL", "IAND", "SUB", "BV_AND", "BV_OR", "BV_XOR", "BV_NAND", "BV_NOR",
                    "BV_XNOR", "BV_ADD", "BV_SUB", "BV_MUL", "BV_CONCAT", "STR_CONCAT", "MAX", "MIN"}

(* Arrays that are not provably equal are unequal here, whatever they hold. *)
FoldEqThree(l, m, r) ==
    CASE \/ \A t \in {l, m, r} : IsCInt(t)
         \/ \A t \in {l, m, r} : IsCReal(t) -> MkBool(l.v = m.v /\ m.v = r.v)
      [] \A t \in {l, m, r} : IsArray(t) -> MkBool(AreArraysEqual(l, m) /\ AreArraysEqual(m, r))
      [] OTHER -> IF IsTrue(FoldEq(l, m)) /\ IsTrue(FoldEq(m, r)) THEN MkBool(TRUE) ELSE UNKNOWN

FoldDistinctThree(l, m, r) ==
    LET pairs == {FoldDistinct(l, m), FoldDistinct(l, r), FoldDistinct(m, r)}
    IN  CASE pairs = {MkBool(TRUE)} -> MkBool(TRUE)
          [] pairs # {MkBool(TRUE)} /\ (\/ \A t \in {l, m, r} : IsCInt(t)
                                        \/ \A t \in {l, m, r} : IsCReal(t)) -> MkBool(FALSE)
          [] OTHER -> UNKNOWN

StrTriples == {"STR_SUBSTR", "STR_INDEXOF", "STR_UPDATE", "STR_REPLACE", "STR_REPLACE_ALL"}

FoldStrThree(k, l, m, r) ==
    CASE k = "STR_SUBSTR" /\ IsCStr(l) /\ BothInt(m, r) ->
            IF StrSubstrThrows(IntOf(m), IntOf(r)) THEN ERROR ELSE MkConstStr(StrSubstr(Text(l), IntOf(m), IntOf(r)))
      [] k = "STR_INDEXOF" /\ BothStr(l, m) /\ IsCInt(r) ->
            IF StrIndexofThrows(IntOf(r)) THEN ERROR ELSE MkConstInt(StrIndexof(Text(l), Text(m), IntOf(r)))
      [] k = "STR_UPDATE" /\ BothStr(l, r) /\ IsCInt(m) ->
            IF StrUpdateThrows(Text(l), IntOf(m), Text(r)) THEN ERROR ELSE MkConstStr(StrUpdate(Text(l), IntOf(m), Text(r)))
      [] k = "STR_REPLACE" /\ BothStr(l, m) /\ IsCStr(r) -> MkConstStr(StrReplace(Text(l), Text(m), Text(r)))
      [] k = "STR_REPLACE_ALL" /\ BothStr(l, m) /\ IsCStr(r) -> MkConstStr(StrReplaceAll(Text(l), Text(m), Text(r)))
      [] OTHER -> UNKNOWN

FoldThree(k, l, m, r) ==
    CASE k = "ITE" -> IF IsTrue(l) THEN m ELSE IF IsFalse(l) THEN r ELSE UNKNOWN
      [] k = "BV_EXTRACT" -> IF IsCBv(l) THEN MkConstBv(BvExtract(l.v, IntOf(m), IntOf(r))) ELSE UNKNOWN
      [] k = "EQ" -> FoldEqThree(l, m, r)
      [] k = "DISTINCT" -> FoldDistinctThree(l, m, r)
      [] k \in StrTriples -> FoldStrThree(k, l, m, r)

(* The constants of an equality are compared with the first of them. *)
FoldEqMany(s) ==
    LET constants == SelectInSeq(s, IsConst)
        results == {FoldEq(s[constants], s[i]) : i \in DOMAIN s \ {constants}}
    IN  CASE constants = 0 -> UNKNOWN
          [] constants # 0 /\ MkBool(FALSE) \in results -> MkBool(FALSE)
          [] constants # 0 /\ results = {MkBool(TRUE)} -> MkBool(TRUE)
          [] OTHER -> UNKNOWN

FoldDistinctMany(s) ==
    LET pairs == {FoldDistinct(s[p[1]], s[p[2]]) : p \in {q \in (DOMAIN s) \X (DOMAIN s) : q[1] < q[2]}}
    IN  CASE MkBool(FALSE) \in pairs -> MkBool(FALSE)
          [] pairs = {MkBool(TRUE)} -> MkBool(TRUE)
          [] OTHER -> UNKNOWN

FoldImpliesMany(s) ==
    CASE IsTrue(Last(s)) \/ \E t \in ToSet(Front(s)) : IsFalse(t) -> MkBool(TRUE)
      [] IsFalse(Last(s)) /\ \A t \in ToSet(Front(s)) : IsTrue(t) -> MkBool(FALSE)
      [] OTHER -> UNKNOWN

(* From the left; an implication of three is (=> (=> l m) r) here, and from  *)
(* four on the first pair without an answer ends the fold.                    *)
FoldLeftward(k, s) ==
    FoldLeft(LAMBDA before, t : IF before = UNKNOWN /\ Len(s) > 3 THEN UNKNOWN ELSE FoldTwo(k, before, t), Head(s), Tail(s))

FoldMany(k, s) ==
    CASE k = "EQ" -> FoldEqMany(s)
      [] k = "DISTINCT" -> FoldDistinctMany(s)
      [] k = "IMPLIES" -> FoldImpliesMany(s)

Fold(k, s) ==
    CASE Len(s) = 1 -> FoldOne(k, s[1])
      [] Len(s) = 3 /\ k \in {"ITE", "BV_EXTRACT", "EQ", "DISTINCT"} \cup StrTriples -> FoldThree(k, s[1], s[2], s[3])
      [] Len(s) > 3 /\ k \in {"EQ", "DISTINCT", "IMPLIES"} -> FoldMany(k, s)
      [] Len(s) = 2 \/ (Len(s) = 3 /\ k = "IMPLIES") \/ (Len(s) > 2 /\ k \in LeftAssociative) -> FoldLeftward(k, s)
      [] OTHER -> UNKNOWN
=============================================================================
