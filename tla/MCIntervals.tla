----------------------------- MODULE MCIntervals -----------------------------
(***************************************************************************)
(* Intervals with a few ends, numbers at the ends and between them, and    *)
(* what each operation is to give: the values of the true function, for    *)
(* the curves that stand for the ones MPFR evaluates.                      *)
(***************************************************************************)
EXTENDS Numbers, Sequences, SequencesExt, FiniteSets

I == INSTANCE IntervalFunctions

Between(ends) ==
    {A \in {I!Iv(lo, hi, lc, hc) : lo \in ends \ {PosInf}, hi \in ends \ {NegInf}, lc \in BOOLEAN, hc \in BOOLEAN} :
        /\ ~I!IsEmpty(A)
        /\ IsInfinity(A.lo) => ~A.lc
        /\ IsInfinity(A.hi) => ~A.hc}
Closed(A) == (A.lc \/ IsInfinity(A.lo)) /\ (A.hc \/ IsInfinity(A.hi))
Bounded(A) == ~IsInfinity(A.lo) /\ ~IsInfinity(A.hi)
Few == Between({NegInf, Num(-2), Num(0), Num(1), Num(3), PosInf})
Many == Between({NegInf, Num(-4), Num(-3), Num(-1), Num(0), Num(1), Num(3), Num(5), PosInf})
Sets == Between({NegInf, Num(-1), Num(0), Num(1), PosInf}) \cup {I!Empty}
Halves == Between({Fraction(k, 2) : k \in -3 .. 3})
Spans == {A \in Sets : Bounded(A)}
Points == {Fraction(k, 2) : k \in -9..11} \cup {Num(20), Num(-20)}
FewPoints == {Fraction(k, 2) : k \in -5..7} \cup {Num(20), Num(-20)}
SetPoints == {Fraction(k, 2) : k \in -3..3}
-----------------------------------------------------------------------------
(* Functions of two intervals *)

Pairwise == {"add", "sub", "mul", "divReal", "divInt", "mod", "log", "pow"}

(* The same with a number in place of the second interval. *)
Numberwise == {"shift", "addNumber", "scale", "divideNumber", "divIntNumber", "modNumber"}
SomeNumbers == {Num(-2), Num(0), Num(1), Num(3)}

OfPair(op, A, B, up) ==
    CASE op = "add" -> I!Add(A, B) [] op = "sub" -> I!Sub(A, B) [] op = "mul" -> I!Mul(A, B)
      [] op = "divReal" -> I!DivReal(A, B) [] op = "divInt" -> I!DivInt(A, B) [] op = "mod" -> I!Mod(A, B)
      [] op = "log" -> I!LogInterval(A, B, up)
      [] op = "pow" -> IF Bounded(B) THEN I!PowInterval(A, B, up) ELSE I!Thrown
      [] op = "shift" -> I!Shifted(A, B.lo) [] op = "addNumber" -> I!AddNumber(A, B.lo) [] op = "scale" -> I!Scale(A, B.lo)
      [] op = "divideNumber" -> I!DivideNumber(A, B.lo) [] op = "divIntNumber" -> I!DivIntNumber(A, B.lo)
      [] op = "modNumber" -> I!ModNumber(A, B.lo)

(* What an operation is to give: powers by definition. *)
TruePower(x, n) == IF n >= 0 THEN Power(x, n) ELSE Over(Num(1), Power(x, -n))

PairDefined(op, x, y) ==
    CASE op \in {"divReal", "divInt", "divideNumber", "divIntNumber"} -> y.n # 0
      [] op \in {"mod", "modNumber"} -> IsInteger(x) /\ IsInteger(y) /\ y.n > 0
      [] op = "log" -> x.n > 0 /\ y.n > 0 /\ ~Eq(y, Num(1))
      [] op = "pow" -> IsInteger(y) /\ Le(AbsOf(y), Num(3)) /\ (x.n # 0 \/ y.n > 0)
      [] OTHER -> TRUE
PairValue(op, x, y) ==
    CASE op \in {"add", "shift", "addNumber"} -> Plus(x, y) [] op = "sub" -> Minus(x, y)
      [] op \in {"mul", "scale"} -> Times(x, y) [] op \in {"divReal", "divideNumber"} -> Over(x, y)
      [] op \in {"divInt", "divIntNumber"} -> FloorOf(Over(x, y))
      [] op \in {"mod", "modNumber"} -> Num((x.n \div x.d) % (y.n \div y.d))
      [] op = "log" -> Over(I!LogCurve(x), I!LogCurve(y))
      [] op = "pow" -> TruePower(x, y.n \div y.d)

(* What is known to leave values out: products and quotients with open or     *)
(* infinite ends, the product of an interval around zero with its equal,      *)
(* which is squared, rests of negative numbers, and powers of one negative    *)
(* number, whose ends are not put in order.                                   *)
PairSound(op, A, B) ==
    /\ op \in {"mul", "divReal", "divInt", "mod", "log", "pow"} =>
          Closed(A) /\ Closed(B) /\ Bounded(A) /\ Bounded(B)
    /\ op \in {"modNumber", "divIntNumber"} => Closed(A)
    /\ op = "scale" /\ Eq(B.lo, Num(0)) => Closed(A) /\ Bounded(A)
    /\ op = "mul" => ~(A = B /\ I!CrossesZero(A))
    /\ op \in {"mod", "modNumber"} => Ge(A.lo, Num(0))
    /\ op = "pow" /\ I!IsPoint(A) /\ ~I!IsPoint(B) => Ge(A.lo, Num(0))

(* Ends that MPFR rounds to the nearest and nobody moves outwards after that *)
(* may leave out the values next to them: some operations are asked only     *)
(* about values some way from those at the ends.                             *)
Apart(x, y, distance) == Ge(AbsOf(Minus(x, y)), distance)
Ends(A) == {e \in {A.lo, A.hi} : ~IsInfinity(e)}

(* The quotient of two logarithms, and negative powers. *)
PairInner(op, A, B, x, y) ==
    op = "log" \/ (op = "pow" /\ Lt(B.lo, Num(0))) =>
        \A u \in Ends(A), v \in Ends(B) :
            PairDefined(op, u, v) => Apart(PairValue(op, x, y), PairValue(op, u, v), I!Grain)
-----------------------------------------------------------------------------
(* Functions of one interval *)

Onewise == {"negate", "abs", "ln", "log7/5", "log3/5", "exp", "sqrt", "sin", "cos", "sec", "csc", "atan", "acsc", "acoth",
              "asech", "acsch", "cosh", "sech", "csch", "square", "cube", "inverse", "inverseSquare", "lb", "lg", "safeSqrt",
              "asin", "acosh", "atanh", "sinh", "tanh", "asinh", "tan", "cot", "acos", "acot", "asec", "coth", "pow2"}

OfOne(op, A, up) ==
    CASE op = "negate" -> I!Negate(A) [] op = "abs" -> I!Abs(A)
      [] op = "ln" -> I!Ln(A, up)
      [] op = "log7/5" -> I!Log(A, Fraction(7, 5), up) [] op = "log3/5" -> I!Log(A, Fraction(3, 5), up)
      [] op = "exp" -> I!Exp(A, up) [] op = "sqrt" -> I!Sqrt(A, up)
      [] op = "sin" -> I!Sin(A, up) [] op = "cos" -> I!Cos(A, up) [] op = "sec" -> I!Sec(A, up) [] op = "csc" -> I!Csc(A, up)
      [] op = "atan" -> I!Atan(A, up) [] op = "acsc" -> I!Acsc(A, up)
      [] op = "acoth" -> I!Acoth(A, up) [] op = "asech" -> I!Asech(A, up) [] op = "acsch" -> I!Acsch(A, up)
      [] op = "cosh" -> I!Cosh(A, up) [] op = "sech" -> I!Sech(A, up) [] op = "csch" -> I!Csch(A, up)
      [] op = "square" -> I!PowNumber(A, 2, up) [] op = "cube" -> I!PowNumber(A, 3, up)
      [] op = "inverse" -> I!PowNumber(A, -1, up) [] op = "inverseSquare" -> I!PowNumber(A, -2, up)
      [] op = "lb" -> I!Lb(A, up) [] op = "lg" -> I!Lg(A, up) [] op = "safeSqrt" -> I!SafeSqrt(A, up)
      [] op = "asin" -> I!Asin(A, up) [] op = "acosh" -> I!Acosh(A, up) [] op = "atanh" -> I!Atanh(A, up)
      [] op = "sinh" -> I!Sinh(A, up) [] op = "tanh" -> I!Tanh(A, up) [] op = "asinh" -> I!Asinh(A, up)
      [] op = "tan" -> I!Tan(A, up) [] op = "cot" -> I!Cot(A, up) [] op = "acos" -> I!Acos(A, up)
      [] op = "acot" -> I!Acot(A, up) [] op = "asec" -> I!Asec(A, up) [] op = "coth" -> I!Coth(A, up)
      [] op = "pow2" -> I!Pow2(A)

OneDefined(op, x) ==
    CASE op \in {"ln", "lb", "lg", "log7/5", "log3/5"} -> x.n > 0
      [] op \in {"sqrt", "safeSqrt"} -> x.n >= 0
      [] op = "tan" -> ~Eq(I!Branch(x), Num(-2))
      [] op = "cot" -> ~Eq(I!Branch(x), Num(-2)) /\ I!Branch(x).n # 0
      [] op = "pow2" -> IsInteger(x)
      [] op = "sec" -> I!Wave(x, 2).n # 0
      [] op = "csc" -> I!Wave(x, 0).n # 0
      [] op \in {"acsc", "acoth", "asec"} -> Ge(AbsOf(x), I!Unit)
      [] op \in {"asech", "acsch", "csch", "coth", "inverse", "inverseSquare"} -> x.n # 0
      [] OTHER -> TRUE
OneValue(op, x) ==
    LET unit2 == Times(I!Unit, I!Unit)
    IN  CASE op = "negate" -> Neg(x) [] op = "abs" -> AbsOf(x)
          [] op \in {"ln", "lb", "lg"} -> I!LogCurve(x)
          [] op = "log7/5" -> Over(I!LogCurve(x), I!LogCurve(Fraction(7, 5)))
          [] op = "log3/5" -> Over(I!LogCurve(x), I!LogCurve(Fraction(3, 5)))
          [] op = "exp" -> I!ExpCurve(x) [] op \in {"sqrt", "safeSqrt"} -> I!SqrtCurve(x)
          [] op = "sin" -> I!Wave(x, 0) [] op = "cos" -> I!Wave(x, 2)
          [] op = "sec" -> Over(I!Unit, I!Wave(x, 2)) [] op = "csc" -> Over(I!Unit, I!Wave(x, 0))
          [] op \in {"asin", "acosh", "atanh", "sinh", "tanh", "asinh", "atan"} -> I!Rise(x)
          [] op = "tan" -> I!TanCurve(x) [] op = "cot" -> Over(I!Unit, I!TanCurve(x))
          [] op \in {"acos", "acot"} -> I!Fall(x) [] op = "asec" -> I!Fall(Over(unit2, x))
          [] op \in {"acsc", "acoth", "asech", "acsch"} -> I!Rise(Over(unit2, x))
          [] op = "cosh" -> I!CoshCurve(x) [] op = "sech" -> Over(unit2, I!CoshCurve(x))
          [] op \in {"csch", "coth"} -> Over(I!Unit, I!OddCurve(x)) [] op = "pow2" -> TruePower(Num(2), x.n \div x.d)
          [] op = "square" -> Power(x, 2) [] op = "cube" -> Power(x, 3)
          [] op = "inverse" -> TruePower(x, -1) [] op = "inverseSquare" -> TruePower(x, -2)

(* Values at an open end that are reached at the other end or inside are     *)
(* left out by some, and the root of what ends at zero is empty.             *)
OneSound(op, A) ==
    /\ op \in {"abs", "square", "sin", "cos", "sec", "csc"} => Closed(A)
    /\ op \in {"sqrt", "safeSqrt"} => Gt(A.hi, Num(0))
    /\ op \in {"tan", "cot"} /\ Bounded(A) => \A k \in -2 .. 1 : ~(Le(A.lo, Num(4 * k + 2)) /\ Ge(A.hi, Num(4 * k + 2)))

(* Some ends are what MPFR makes of the ends of the argument, others are     *)
(* divided or raised to a negative power after they were moved.              *)
Unmoved == {"acos", "acot", "asec", "coth"}
Divided == {"log7/5", "log3/5", "cot", "sec", "csc", "sech", "csch", "coth", "inverse", "inverseSquare"}
Inner(op, A, x) ==
    LET arg(y) == IF op = "asec" THEN Over(Times(I!Unit, I!Unit), y) ELSE y
    IN  /\ op \in Unmoved => Apart(arg(x), arg(A.lo), Num(1)) /\ Apart(arg(x), arg(A.hi), Num(1))
        /\ op \in Divided =>
              \A e \in Ends(A) : OneDefined(op, e) => Apart(OneValue(op, x), OneValue(op, e), I!Grain)
-----------------------------------------------------------------------------
(* Sets of intervals: what is asked of a result for each number.             *)

Relations == {"isSubsetOf", "isSubsetEqOf", "isSupersetOf", "isDisjointFrom", "isIntersectingWith", "intersection", "unionWith",
              "difference"}
HoldsOne(s, x) == \E i \in DOMAIN s : I!Holds(s[i], x)

OfSets(op, A, B) ==
    CASE op = "isSubsetOf" -> I!IsSubsetOf(A, B) [] op = "isSubsetEqOf" -> I!IsSubsetEqOf(A, B)
      [] op = "isSupersetOf" -> I!IsSupersetOf(A, B) [] op = "isDisjointFrom" -> I!IsDisjointFrom(A, B)
      [] op = "isIntersectingWith" -> I!IsIntersectingWith(A, B) [] op = "intersection" -> I!Intersection(A, B)
      [] op = "unionWith" -> I!UnionWith(A, B) [] op = "difference" -> I!Difference(A, B)

(* Empty operands are not provided for by some, and a difference of          *)
(* intervals one of which contains the other has the two cases exchanged.    *)
SetSound(op, A, B) ==
    /\ op \in {"isSupersetOf", "isDisjointFrom", "unionWith", "difference"} => ~I!IsEmpty(A) /\ ~I!IsEmpty(B)
    /\ op = "isSubsetEqOf" => ~I!IsEmpty(B)
    /\ op = "difference" => ~I!IsSubsetOf(A, B) /\ ~I!IsSupersetOf(A, B)

SetExact(op, A, B, result) ==
    CASE op \in {"isSubsetOf", "isSubsetEqOf"} -> result <=> \A x \in SetPoints : I!Holds(A, x) => I!Holds(B, x)
      [] op = "isSupersetOf" -> result <=> \A x \in SetPoints : I!Holds(B, x) => I!Holds(A, x)
      [] op = "isDisjointFrom" -> result <=> \A x \in SetPoints : ~(I!Holds(A, x) /\ I!Holds(B, x))
      [] op = "isIntersectingWith" -> result <=> \E x \in SetPoints : I!Holds(A, x) /\ I!Holds(B, x)
      [] op = "intersection" -> \A x \in SetPoints : I!Holds(result, x) <=> I!Holds(A, x) /\ I!Holds(B, x)
      [] op = "unionWith" ->
            IF I!IsThrown(result) THEN \A x \in SetPoints : ~(I!Holds(A, x) /\ I!Holds(B, x))
            ELSE \A x \in SetPoints : I!Holds(result, x) <=> I!Holds(A, x) \/ I!Holds(B, x)
      [] op = "difference" -> \A x \in SetPoints : HoldsOne(result, x) <=> I!Holds(A, x) /\ ~I!Holds(B, x)

(* The integers of an interval are listed, and counted when no end is an     *)
(* open end that is not an integer; an open integer end is listed as well.   *)
CountExact(A, listed, count) ==
    LET held == {k \in -5 .. 5 : I!Holds(A, Num(k))}
    IN  /\ held \subseteq listed
        /\ (A.lc \/ IsInteger(A.lo)) /\ (A.hc \/ IsInteger(A.hi)) => count = Cardinality(held)

(* Merged intervals hold what was given, and no two of them hold a number.   *)
MergedExact(s, result) ==
    \A x \in SetPoints : /\ HoldsOne(result, x) <=> HoldsOne(s, x)
                      /\ Cardinality({i \in DOMAIN result : I!Holds(result[i], x)}) <= 1
=============================================================================
