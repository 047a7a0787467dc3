----------------------------- MODULE TermMeaning -----------------------------
(***************************************************************************)
(* What terms mean in SMT-LIB, to compare what the builders, the folding   *)
(* and the evaluator make of them.  A value is a tuple that begins with    *)
(* what it is a value of.  A division by zero may have any result: the     *)
(* assignment chooses how "byZero" is answered.                            *)
(***************************************************************************)
EXTENDS Evaluator

Number(x) == LET c == Magnitude(Gcd[x.n, x.d]) IN <<"number", x.n \div c, x.d \div c>>
Truth(b) == <<"truth", b>>
Bits(bv) == <<"bits", bv>>

(* An array is its value almost everywhere and the other entries. *)
ArrayValue(default, entries) == <<"array", default, {p \in entries : p[2] # default}>>
At(array, i) == IF \E p \in array[3] : p[1] = i THEN (CHOOSE p \in array[3] : p[1] = i)[2] ELSE array[2]
With(array, i, v) == ArrayValue(array[2], {p \in array[3] : p[1] # i} \cup {<<i, v>>})

Rational(v) == Fraction(v[2], v[3])
Whole(v) == v[2]
Says(v) == v[2]
Ones(v) == BvToNat(v[2])
Signed(v) == BvToInt(v[2])
ValueBits(i, like) == Bits(IntToBv(i, Len(like[2])))

Neighbours(s, Related(_, _)) == \A i \in 1..(Len(s) - 1) : Related(s[i], s[i + 1])
Leftward(s, Step(_, _)) == FoldLeft(Step, Head(s), Tail(s))

(* Quotients are rounded so that the remainder is not negative. *)
IntQuotient(a, b, byZero) == IF b = 0 THEN byZero + a ELSE IF b > 0 THEN a \div b ELSE -(a \div (-b))
IntRest(a, b, byZero) == IF b = 0 THEN byZero - a ELSE a - b * IntQuotient(a, b, 0)

(* The nearest integer, and of two the one further from zero, as round has   *)
(* it in C: SMT-LIB knows no such function.                                  *)
Nearest(u) ==
    LET distance(i) == AbsOf(Minus(u, i))
        near == {i \in {FloorOf(u), CeilOf(u)} : Le(distance(i), Fraction(1, 2))}
    IN  CHOOSE i \in near : \A j \in near : Le(AbsOf(j), AbsOf(i))

NumberMeaning(k, s, byZero) ==
    CASE k = "NEG" \/ (k = "SUB" /\ Len(s) = 1) -> Number(Neg(Rational(s[1])))
      [] k = "ADD" -> Leftward(s, LAMBDA u, v : Number(Plus(Rational(u), Rational(v))))
      [] k = "SUB" /\ Len(s) > 1 -> Leftward(s, LAMBDA u, v : Number(Minus(Rational(u), Rational(v))))
      [] k = "MUL" -> Leftward(s, LAMBDA u, v : Number(Times(Rational(u), Rational(v))))
      [] k = "DIV_REAL" -> Leftward(s, LAMBDA u, v : IF Whole(v) = 0 THEN Number(Plus(Rational(u), Num(byZero)))
                                                      ELSE Number(Over(Rational(u), Rational(v))))
      [] k = "DIV_INT" -> Leftward(s, LAMBDA u, v : Number(Num(IntQuotient(Whole(u), Whole(v), byZero))))
      [] k = "MOD" -> Number(Num(IntRest(Whole(s[1]), Whole(s[2]), byZero)))
      [] k = "ABS" -> Number(AbsOf(Rational(s[1])))
      [] k = "CEIL" -> Number(CeilOf(Rational(s[1])))
      [] k \in {"FLOOR", "TO_INT"} -> Number(FloorOf(Rational(s[1])))
      [] k = "ROUND" -> Number(Nearest(Rational(s[1])))
      [] k = "TO_REAL" -> s[1]
      [] k = "POW2" -> Number(Num(2 ^ Whole(s[1])))
      [] k = "FACT" -> Number(Num(Factorial(Whole(s[1]))))
      [] k = "MAX" -> CHOOSE v \in ToSet(s) : \A u \in ToSet(s) : Le(Rational(u), Rational(v))
      [] k = "MIN" -> CHOOSE v \in ToSet(s) : \A u \in ToSet(s) : Le(Rational(v), Rational(u))
NumberKinds == {"NEG", "ADD", "SUB", "MUL", "DIV_REAL", "DIV_INT", "MOD", "ABS", "CEIL", "FLOOR", "TO_INT", "ROUND",
                "TO_REAL", "POW2", "FACT", "MAX", "MIN"}

TruthMeaning(k, s) ==
    CASE k = "NOT" -> ~Says(s[1])
      [] k = "AND" -> \A v \in ToSet(s) : Says(v)
      [] k = "OR" -> \E v \in ToSet(s) : Says(v)
      [] k = "XOR" -> Cardinality({i \in DOMAIN s : Says(s[i])}) % 2 = 1
      [] k = "IMPLIES" -> Says(Last(s)) \/ \E v \in ToSet(Front(s)) : ~Says(v)
      [] k = "EQ" -> \A v \in ToSet(s) : v = s[1]
      [] k = "DISTINCT" -> Cardinality(ToSet(s)) = Len(s)
      [] k = "LE" -> Neighbours(s, LAMBDA u, v : Le(Rational(u), Rational(v)))
      [] k = "LT" -> Neighbours(s, LAMBDA u, v : Lt(Rational(u), Rational(v)))
      [] k = "GE" -> Neighbours(s, LAMBDA u, v : Le(Rational(v), Rational(u)))
      [] k = "GT" -> Neighbours(s, LAMBDA u, v : Lt(Rational(v), Rational(u)))
      [] k = "IS_INT" -> s[1][3] = 1
      [] k = "IS_EVEN" -> Whole(s[1]) % 2 = 0
      [] k = "IS_ODD" -> Whole(s[1]) % 2 = 1
      [] k = "IS_PRIME" -> Whole(s[1]) > 1 /\ \A d \in 2..(Whole(s[1]) - 1) : Whole(s[1]) % d # 0
      [] k = "IS_DIVISIBLE" -> Whole(s[1]) % Whole(s[2]) = 0
      [] k = "BV_ULT" -> Ones(s[1]) < Ones(s[2])
      [] k = "BV_ULE" -> Ones(s[1]) <= Ones(s[2])
      [] k = "BV_UGT" -> Ones(s[1]) > Ones(s[2])
      [] k = "BV_UGE" -> Ones(s[1]) >= Ones(s[2])
      [] k = "BV_SLT" -> Signed(s[1]) < Signed(s[2])
      [] k = "BV_SLE" -> Signed(s[1]) <= Signed(s[2])
      [] k = "BV_SGT" -> Signed(s[1]) > Signed(s[2])
      [] k = "BV_SGE" -> Signed(s[1]) >= Signed(s[2])
TruthKinds == {"NOT", "AND", "OR", "XOR", "IMPLIES", "EQ", "DISTINCT", "LE", "LT", "GE", "GT", "IS_INT", "IS_EVEN", "IS_ODD",
               "IS_PRIME", "IS_DIVISIBLE"} \cup (BvOrders \ {"BV_COMP"})

(* Division of bit-vectors by zero: all ones, or the dividend for a rest.    *)
Udiv(u, v) == IF v = 0 THEN -1 ELSE u \div v
Urem(u, v) == IF v = 0 THEN u ELSE u % v
(* Signed division and rest, from those of the magnitudes.                   *)
Sdiv(u, v) == IF (u < 0) # (v < 0) THEN -Udiv(Magnitude(u), Magnitude(v)) ELSE Udiv(Magnitude(u), Magnitude(v))
Srem(u, v) == IF u < 0 THEN -Urem(-u, Magnitude(v)) ELSE Urem(u, Magnitude(v))
Smod(u, v) == IF v = 0 THEN u ELSE IF Srem(u, v) = 0 \/ (u < 0) = (v < 0) THEN Srem(u, v) ELSE Srem(u, v) + v

PairMeaning(k, u, v) ==
    CASE k = "BV_AND" -> Bits([i \in DOMAIN u[2] |-> u[2][i] * v[2][i]])
      [] k = "BV_OR" -> Bits([i \in DOMAIN u[2] |-> u[2][i] + v[2][i] - u[2][i] * v[2][i]])
      [] k = "BV_XOR" -> Bits([i \in DOMAIN u[2] |-> (u[2][i] + v[2][i]) % 2])
      [] k = "BV_XNOR" -> Bits([i \in DOMAIN u[2] |-> (1 + u[2][i] + v[2][i]) % 2])
      [] k = "BV_NAND" -> Bits([i \in DOMAIN u[2] |-> 1 - u[2][i] * v[2][i]])
      [] k = "BV_NOR" -> Bits([i \in DOMAIN u[2] |-> (1 - u[2][i]) * (1 - v[2][i])])
      [] k = "BV_ADD" -> ValueBits(Ones(u) + Ones(v), u)
      [] k = "BV_SUB" -> ValueBits(Ones(u) - Ones(v), u)
      [] k = "BV_MUL" -> ValueBits(Ones(u) * Ones(v), u)
      [] k = "BV_UDIV" -> ValueBits(Udiv(Ones(u), Ones(v)), u)
      [] k \in {"BV_UREM", "BV_UMOD"} -> ValueBits(Urem(Ones(u), Ones(v)), u)
      [] k = "BV_SDIV" -> ValueBits(Sdiv(Signed(u), Signed(v)), u)
      [] k = "BV_SREM" -> ValueBits(Srem(Signed(u), Signed(v)), u)
      [] k = "BV_SMOD" -> ValueBits(Smod(Signed(u), Signed(v)), u)
      [] k = "BV_SHL" -> ValueBits(Ones(u) * 2 ^ Ones(v), u)
      [] k = "BV_LSHR" -> ValueBits(Ones(u) \div 2 ^ Ones(v), u)
      [] k = "BV_ASHR" -> ValueBits(Signed(u) \div 2 ^ Ones(v), u)
      [] k = "BV_CONCAT" -> Bits(u[2] \o v[2])
      [] k = "BV_COMP" -> Bits(IF u = v THEN <<1>> ELSE <<0>>)

Rotated(bv, left) == [i \in DOMAIN bv |-> bv[((i - 1 + left) % Len(bv)) + 1]]

BitsMeaning(k, s) ==
    CASE k = "BV_NOT" -> ValueBits(-1 - Ones(s[1]), s[1])
      [] k = "BV_NEG" -> ValueBits(-Ones(s[1]), s[1])
      [] k = "BV_TO_NAT" -> Number(Num(Ones(s[1])))
      [] k = "BV_TO_INT" -> Number(Num(Signed(s[1])))
      [] k \in {"NAT_TO_BV", "INT_TO_BV"} -> Bits(IntToBv(Whole(s[1]), Whole(s[2])))
      [] k = "BV_EXTRACT" -> Bits(IntToBv(Ones(s[1]) \div 2 ^ Whole(s[3]), Whole(s[2]) - Whole(s[3]) + 1))
      [] k = "BV_REPEAT" -> Bits(FlattenSeq([i \in 1..Whole(s[2]) |-> s[1][2]]))
      [] k = "BV_ZERO_EXT" -> Bits(IntToBv(Ones(s[1]), Len(s[1][2]) + Whole(s[2])))
      [] k = "BV_SIGN_EXT" -> Bits(IntToBv(Signed(s[1]), Len(s[1][2]) + Whole(s[2])))
      [] k = "BV_ROTATE_LEFT" -> Bits(Rotated(s[1][2], Whole(s[2])))
      [] k = "BV_ROTATE_RIGHT" -> Bits(Rotated(s[1][2], Len(s[1][2]) - (Whole(s[2]) % Len(s[1][2]))))
      [] OTHER -> Leftward(s, LAMBDA u, v : PairMeaning(k, u, v))

(* Strings, as their theory defines them; str.update overwrites and never    *)
(* lengthens, and str.rev turns a string around.                              *)
StringValue(s) == <<"text", s>>
Slice(s, i, n) == IF i < 0 \/ n <= 0 THEN <<>> ELSE SubSeq(s, i + 1, IF i + n > Len(s) THEN Len(s) ELSE i + n)
FirstAt(s, t, from) ==
    LET places == {i \in from..(Len(s) - Len(t)) : SubSeq(s, i + 1, i + Len(t)) = t}
    IN  IF from < 0 \/ places = {} THEN -1 ELSE CHOOSE i \in places : \A j \in places : i <= j
RECURSIVE Replaced(_, _, _, _)
Replaced(s, t, u, all) ==
    LET i == FirstAt(s, t, 0)
        after == SubSeq(s, i + Len(t) + 1, Len(s))
    IN  IF i = -1 THEN s ELSE SubSeq(s, 1, i) \o u \o (IF all THEN Replaced(after, t, u, all) ELSE after)
Precedes(s, t) ==
    \/ s # t /\ IsPrefix(s, t)
    \/ \E i \in (DOMAIN s) \cap (DOMAIN t) : SubSeq(s, 1, i - 1) = SubSeq(t, 1, i - 1) /\ s[i] < t[i]
Cased(s, from, shift) == [i \in DOMAIN s |-> IF s[i] \in from THEN s[i] + shift ELSE s[i]]
Updated(s, at, t) == [i \in DOMAIN s |-> IF at \in 0..(Len(s) - 1) /\ i - at \in DOMAIN t THEN t[i - at] ELSE s[i]]

StringMeaning(k, s) ==
    CASE k = "STR_TO_LOWER" -> Cased(s[1][2], 65..90, 32)
      [] k = "STR_TO_UPPER" -> Cased(s[1][2], 97..122, -32)
      [] k = "STR_REV" -> Reverse(s[1][2])
      [] k = "STR_FROM_INT" -> IF Whole(s[1]) < 0 THEN <<>> ELSE Decimal(Whole(s[1]))
      [] k = "STR_FROM_CODE" -> IF Whole(s[1]) < 0 THEN <<>> ELSE <<Whole(s[1])>>
      [] k = "STR_CONCAT" -> FlattenSeq([i \in DOMAIN s |-> s[i][2]])
      [] k = "STR_CHARAT" -> Slice(s[1][2], Whole(s[2]), 1)
      [] k = "STR_SUBSTR" -> Slice(s[1][2], Whole(s[2]), Whole(s[3]))
      [] k = "STR_UPDATE" -> Updated(s[1][2], Whole(s[2]), s[3][2])
      [] k = "STR_REPLACE" -> Replaced(s[1][2], s[2][2], s[3][2], FALSE)
      [] k = "STR_REPLACE_ALL" -> IF s[2][2] = <<>> THEN s[1][2] ELSE Replaced(s[1][2], s[2][2], s[3][2], TRUE)

StringNumber(k, s) ==
    CASE k = "STR_LEN" -> Len(s[1][2])
      [] k = "STR_TO_INT" -> IF IsNumber(s[1][2]) THEN NumberIn(s[1][2]) ELSE -1
      [] k = "STR_TO_CODE" -> IF Len(s[1][2]) = 1 THEN s[1][2][1] ELSE -1
      [] k = "STR_INDEXOF" -> FirstAt(s[1][2], s[2][2], Whole(s[3]))

StringTruth(k, s) ==
    CASE k = "STR_IS_DIGIT" -> Len(s[1][2]) = 1 /\ IsDigit(s[1][2][1])
      [] k = "STR_PREFIXOF" -> IsPrefix(s[1][2], s[2][2])
      [] k = "STR_SUFFIXOF" -> IsSuffix(s[1][2], s[2][2])
      [] k = "STR_CONTAINS" -> FirstAt(s[1][2], s[2][2], 0) # -1
      [] k = "STR_LT" -> Precedes(s[1][2], s[2][2]) [] k = "STR_LE" -> ~Precedes(s[2][2], s[1][2])
      [] k = "STR_GT" -> Precedes(s[2][2], s[1][2]) [] k = "STR_GE" -> ~Precedes(s[1][2], s[2][2])

Meaning(k, s, byZero) ==
    CASE k \in NumberKinds -> NumberMeaning(k, s, byZero)
      [] k \in TruthKinds -> Truth(TruthMeaning(k, s))
      [] k \in Transcendental \cup Approximated -> <<"applied", IF k = "LOG" /\ Len(s) = 1 THEN "LN" ELSE k, s>>
      [] k = "ITE" -> IF Says(s[1]) THEN s[2] ELSE s[3]
      [] k \in StrTests \cup {"STR_IS_DIGIT"} -> Truth(StringTruth(k, s))
      [] k \in {"STR_LEN", "STR_TO_INT", "STR_TO_CODE", "STR_INDEXOF"} -> Number(Num(StringNumber(k, s)))
      [] k \in {"STR_CONCAT"} \cup DOMAIN StrParams -> StringValue(StringMeaning(k, s))
      [] k = "CONST_ARRAY" -> ArrayValue(s[1], {})
      [] k = "SELECT" -> At(s[1], s[2])
      [] k = "STORE" -> With(s[1], s[2], s[3])
      [] OTHER -> BitsMeaning(k, s)

ConstMeaning(t) ==
    CASE t.s \in Numeric -> <<"number", t.v[1], t.v[2]>>
      [] t.s = BoolS -> Truth(t.v[1] = 1)
      [] t.s = StrS -> StringValue(t.v)
      [] OTHER -> Bits(t.v)

(* The value of a term under an assignment of its variables.                  *)
RECURSIVE ValueOf(_, _)
ValueOf(t, e) ==
    CASE t.k = "VAR" -> e[t.v[1]]
      [] t.k = "CONST" -> ConstMeaning(t)
      [] OTHER -> Only({Meaning(t.k, s, e.byZero) : s \in {[i \in DOMAIN t.a |-> ValueOf(t.a[i], e)]}})
=============================================================================
