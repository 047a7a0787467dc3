-------------------------- MODULE IntervalFunctions --------------------------
(***************************************************************************)
(* The union of many intervals, the functions of Interval that evaluate    *)
(* their ends with MPFR (`up` says which neighbour MPFR returns), and      *)
(* powers.                                                                 *)
(***************************************************************************)
EXTENDS Intervals, Sequences, SequencesExt

(* compareIntervalByLower *)
LowerFirst(I, J) == Lt(I.lo, J.lo) \/ (Eq(I.lo, J.lo) /\ I.lc /\ ~J.lc)

(* Mutant: intervals are merged in the order given. *)
UnionMultiUnsorted(s) ==
    LET Merge(merged, I) ==
          IF IsDisjointFrom(Last(merged), I) THEN Append(merged, I)
          ELSE Append(Front(merged), Hull(Last(merged), I))
    IN  FoldLeft(Merge, <<Head(s)>>, Tail(s))

(* unionMulti: neighbours in the order of lower ends are merged. *)
UnionMulti(s) ==
    LET sorted == SortSeq(s, LowerFirst)
        Merge(merged, I) ==
          IF IsDisjointFrom(Last(merged), I) THEN Append(merged, I)
          ELSE Append(Front(merged), Hull(Last(merged), I))
    IN  IF s = << >> THEN << >> ELSE FoldLeft(Merge, <<Head(sorted)>>, Tail(sorted))
-----------------------------------------------------------------------------

Open(lo, hi) == Iv(lo, hi, FALSE, FALSE)
Below(x, up) == NextBelow(Rounded(x, up))
Above(x, up) == NextAbove(Rounded(x, up))

(* Quotients and negative powers crowd around zero, where the representable  *)
(* numbers do: here these are multiples of a small power of two.             *)
Grain == Fraction(1, 64)
Finely(x, up) == Times(Rounded(Over(x, Grain), up), Grain)

(* Division of reals: what MPFR returns is not moved outwards.  A bound that *)
(* is zero was moved there from within, and keeps its sign.                  *)
RealQuotient(x, y, fromBelow, up) ==
    IF y.n = 0 THEN Fraction(IF fromBelow THEN -x.n ELSE x.n, 0) ELSE Finely(Over(x, y), up)
DivReals(I, J, up) ==
    IF IsEmpty(I) \/ IsEmpty(J) \/ HoldsZero(J) \/ IsZeroPoint(I) THEN DivReal(I, J)
    ELSE Spanned([k \in 1 .. 4 |-> RealQuotient(Corner(I, J, k).x, Corner(I, J, k).y, k % 2 = 0, up)], I, J)

(* A curve that rises everywhere, and one that starts at 0 and is 0 at 1.    *)
Rise(x) == Plus(Times(x, Fraction(3, 2)), Fraction(1, 2))
LogCurve(x) == Times(Minus(x, One), Fraction(3, 2))
ExpCurve(x) ==
    CASE IsNegInf(x) -> Zero
      [] x.n >= 0 -> Plus(One, Times(x, Fraction(5, 4)))
      [] OTHER -> Over(One, Minus(One, x))
SqrtCurve(x) == Times(x, Fraction(3, 4))
-----------------------------------------------------------------------------
(* Logarithms, exponentials, roots *)

(* lb, ln, lg: defined for what is positive. *)
Logarithm(I, up) ==
    IF IsEmpty(I) \/ Le(I.hi, Zero) THEN Empty
    ELSE Open(IF Le(I.lo, Zero) THEN NegInf ELSE Below(LogCurve(I.lo), up), Above(LogCurve(I.hi), up))
Lb(I, up) == Logarithm(I, up)
Ln(I, up) == Logarithm(I, up)
Lg(I, up) == Logarithm(I, up)

(* log to a base: the bounds are widened before they are divided, not after. *)
Log(I, base, up) ==
    LET ln == Ln(I, up)
        lnBase == Finely(LogCurve(base), up)
        by(x) == Finely(Over(x, lnBase), up)
    IN  CASE IsEmpty(I) -> Empty
          [] ~IsEmpty(I) /\ (Le(base, Zero) \/ Eq(base, One)) -> Thrown
          [] OTHER -> IF IsEmpty(ln) THEN Empty
                      ELSE IF lnBase.n > 0 THEN Open(by(ln.lo), by(ln.hi)) ELSE Open(by(ln.hi), by(ln.lo))

LogInterval(I, J, up) ==
    CASE IsEmpty(I) \/ IsEmpty(J) -> Empty
      [] ~IsEmpty(I) /\ ~IsEmpty(J) /\ (Le(J.hi, Zero) \/ Holds(J, One)) -> Thrown
      [] OTHER -> IF Le(I.hi, Zero) THEN Empty ELSE DivReals(Ln(I, up), Ln(J, up), up)

Exp(I, up) ==
    IF IsEmpty(I) THEN Empty
    ELSE Open(IF IsNegInf(I.lo) THEN Zero ELSE Below(ExpCurve(I.lo), up),
              IF IsNegInf(I.hi) THEN Zero ELSE Above(ExpCurve(I.hi), up))

Root(I, up) ==
    IF IsEmpty(I) \/ Le(I.hi, Zero) THEN Empty
    ELSE Iv(IF Le(I.lo, Zero) THEN Zero ELSE Below(SqrtCurve(I.lo), up), Above(SqrtCurve(I.hi), up),
            Le(I.lo, Zero), FALSE)
Sqrt(I, up) == Root(I, up)
SafeSqrt(I, up) == Root(I, up)
-----------------------------------------------------------------------------
(* Periodic functions: waves of straight lines, with a period of 8 for 2 pi  *)
(* and the height Unit for 1.                                                *)

Period == Num(8)
Unit == Num(3)
Normal(x, period) == Minus(x, Times(FloorOf(Over(x, period)), period))

Wave(x, shift) ==
    LET t == Normal(Plus(x, Num(shift)), Period)
    IN  Times(Fraction(3, 2),
              IF Le(t, Num(2)) THEN t ELSE IF Le(t, Num(6)) THEN Minus(Num(4), t) ELSE Minus(t, Period))

(* The ends are moved into two periods, and the extremes looked for there.   *)
(* Reaching the top closes the lower end, and the bottom the upper one.      *)
Periodic(I, shift, up) ==
    LET low == Normal(I.lo, Period)
        high == IF Lt(Normal(I.hi, Period), low) THEN Plus(Normal(I.hi, Period), Period) ELSE Normal(I.hi, Period)
        atLow == Rounded(Wave(low, shift), up)
        atHigh == Rounded(Wave(high, shift), up)
        passes(x) == \E k \in {0, 8} : Le(low, Num(x + k)) /\ Ge(high, Num(x + k))
        top == passes(2 - shift)
        bottom == passes(6 - shift)
        min == IF bottom THEN Neg(Unit) ELSE MinOf(atLow, atHigh)
        max == IF top THEN Unit ELSE MaxOf(atLow, atHigh)
        lc == top \/ IF Lt(atLow, atHigh) THEN I.lc ELSE I.hc
        hc == bottom \/ IF Lt(atLow, atHigh) THEN I.hc ELSE I.lc
    IN  CASE IsEmpty(I) -> Empty
          [] ~IsEmpty(I) /\ (IsInfinity(I.lo) \/ IsInfinity(I.hi)) -> Iv(Neg(Unit), Unit, TRUE, TRUE)
          [] OTHER ->
               IF Ge(Minus(I.hi, I.lo), Period) THEN Iv(Neg(Unit), Unit, TRUE, TRUE)
               ELSE Iv(IF Gt(min, Neg(Unit)) THEN NextBelow(min) ELSE min,
                       IF Lt(max, Unit) THEN NextAbove(max) ELSE max,
                       lc /\ ~Gt(min, Neg(Unit)), hc /\ ~Lt(max, Unit))
Sin(I, up) == Periodic(I, 0, up)
Cos(I, up) == Periodic(I, 2, up)

(* One branch of the tangent, with poles at 2 + 4k. *)
Branch(x) == LET t == Normal(x, Num(4)) IN IF Ge(t, Num(2)) THEN Minus(t, Num(4)) ELSE t
TanCurve(x) == LET t == Branch(x) IN Over(Times(t, Num(3)), Minus(Num(2), AbsOf(t)))

(* Only a pole at the lower end is noticed. *)
Tan(I, up) ==
    LET low == Branch(I.lo)
        high == Branch(I.hi)
        atLow == Rounded(TanCurve(I.lo), up)
        atHigh == Rounded(TanCurve(I.hi), up)
    IN  CASE IsEmpty(I) -> Empty
          [] ~IsEmpty(I) /\ (IsInfinity(I.lo) \/ IsInfinity(I.hi)) -> Full
          [] OTHER ->
               IF \E pole \in {Num(-2), Num(2)} : Le(low, pole) /\ Ge(high, pole) THEN Full
               ELSE Open(NextBelow(MinOf(atLow, atHigh)), NextAbove(MaxOf(atLow, atHigh)))

(* 1 / J, unless J reaches zero. *)
Reciprocal(J, up) == IF IsEmpty(J) THEN Empty ELSE IF Holds(J, Zero) THEN Full ELSE DivReals(Point(Unit), J, up)
Cot(I, up) == Reciprocal(Tan(I, up), up)
Sec(I, up) == Reciprocal(Cos(I, up), up)
Csc(I, up) == Reciprocal(Sin(I, up), up)
-----------------------------------------------------------------------------
(* Functions with ends evaluated and moved outwards *)

Widened(I, up) == IF IsEmpty(I) THEN Empty ELSE Open(Below(Rise(I.lo), up), Above(Rise(I.hi), up))
Asin(I, up) ==
    IF ~IsEmpty(I) /\ (Lt(I.lo, Neg(Unit)) \/ Gt(I.hi, Unit)) THEN Thrown ELSE Widened(I, up)
Atan(I, up) == Widened(I, up)
Sinh(I, up) == Widened(I, up)
Tanh(I, up) == Widened(I, up)
Asinh(I, up) == Widened(I, up)
Acosh(I, up) == IF ~IsEmpty(I) /\ Lt(I.lo, Unit) THEN Thrown ELSE Widened(I, up)
Atanh(I, up) ==
    IF ~IsEmpty(I) /\ (Le(I.lo, Neg(Unit)) \/ Ge(I.hi, Unit)) THEN Thrown ELSE Widened(I, up)

(* and with ends that are not moved. *)
Fall(x) == Neg(Rise(x))
Acos(I, up) ==
    CASE IsEmpty(I) -> Empty
      [] ~IsEmpty(I) /\ (Lt(I.lo, Neg(Unit)) \/ Gt(I.hi, Unit)) -> Thrown
      [] OTHER -> Iv(Rounded(Fall(I.hi), up), Rounded(Fall(I.lo), up), I.hc, I.lc)
Acot(I, up) ==
    IF IsEmpty(I) THEN Empty ELSE Open(Rounded(Fall(I.hi), up), Rounded(Fall(I.lo), up))

(* Functions of 1 / x, where x is beyond the unit on one side, or on both;   *)
(* the ends of I are integers or fractions, whose quotients are exact.       *)
Within(I) == Gt(I.lo, Neg(Unit)) /\ Lt(I.hi, Unit)
Across(I) == Le(I.lo, Neg(Unit)) /\ Ge(I.hi, Unit)
Inverted(I) == DivReal(Point(Times(Unit, Unit)), I)
Asec(I, up) ==
    CASE IsEmpty(I) -> Empty
      [] ~IsEmpty(I) /\ Within(I) -> Thrown
      [] ~IsEmpty(I) /\ Across(I) -> Iv(Fall(Unit), Fall(Neg(Unit)), TRUE, TRUE)
      [] OTHER -> IF IsThrown(Inverted(I)) THEN Thrown ELSE Acos(Inverted(I), up)
Acsc(I, up) ==
    CASE IsEmpty(I) -> Empty
      [] ~IsEmpty(I) /\ Within(I) -> Thrown
      [] ~IsEmpty(I) /\ Across(I) -> Iv(Rise(Neg(Unit)), Rise(Unit), TRUE, TRUE)
      [] OTHER -> IF IsThrown(Inverted(I)) THEN Thrown ELSE Asin(Inverted(I), up)
Acoth(I, up) ==
    CASE IsEmpty(I) -> Empty
      [] ~IsEmpty(I) /\ Ge(I.lo, Neg(Unit)) /\ Le(I.hi, Unit) -> Thrown
      [] OTHER -> IF IsThrown(Inverted(I)) THEN Thrown ELSE Atanh(Inverted(I), up)
Asech(I, up) ==
    IF IsEmpty(I) THEN Empty
    ELSE IF Le(I.lo, Zero) \/ Gt(I.hi, Unit) THEN Thrown ELSE Acosh(Inverted(I), up)
Acsch(I, up) ==
    IF IsEmpty(I) THEN Empty ELSE IF CrossesZero(I) THEN Thrown ELSE Asinh(Inverted(I), up)

(* cosh, even and 1 at 0; the widened lower end stays at 1 at least. *)
CoshCurve(x) == Plus(Unit, Times(AbsOf(x), Fraction(3, 4)))
Cosh(I, up) ==
    LET near == IF Ge(I.lo, Zero) THEN I.lo ELSE I.hi
        far == IF Ge(I.lo, Zero) THEN I.hi ELSE I.lo
        low == Below(CoshCurve(near), up)
    IN  CASE IsEmpty(I) -> Empty
          [] ~IsEmpty(I) /\ Lt(I.lo, Zero) /\ Gt(I.hi, Zero) ->
               Iv(Unit, NextAbove(MaxOf(Rounded(CoshCurve(I.lo), up), Rounded(CoshCurve(I.hi), up))), TRUE, FALSE)
          [] OTHER -> Iv(MaxOf(low, Unit), Above(CoshCurve(far), up), Lt(low, Unit), FALSE)

Sech(I, up) ==
    LET J == DivReals(Point(Times(Unit, Unit)), Cosh(I, up), up)
    IN  IF IsEmpty(I) THEN Empty
        ELSE Iv(MaxOf(Zero, J.lo), MinOf(Unit, J.hi), FALSE, Ge(J.hi, Unit))

(* Zero is the pole of both. *)
OddCurve(x) == Times(x, Fraction(3, 2))
Csch(I, up) ==
    LET J == DivReals(Point(Unit), Open(Below(OddCurve(I.lo), up), Above(OddCurve(I.hi), up)), up)
    IN  CASE IsEmpty(I) -> Empty
          [] ~IsEmpty(I) /\ CrossesZero(I) -> Full
          [] OTHER -> Open(J.lo, J.hi)
Coth(I, up) ==
    CASE IsEmpty(I) -> Empty
      [] ~IsEmpty(I) /\ CrossesZero(I) -> Full
      [] OTHER -> Open(RealQuotient(Unit, Rounded(OddCurve(I.hi), up), I.hi.n < 0, up),
                       RealQuotient(Unit, Rounded(OddCurve(I.lo), up), I.lo.n < 0, up))
-----------------------------------------------------------------------------
(* Powers with integer exponents *)

(* Integers to a natural power are exact; MPFR evaluates the other powers,   *)
(* which are not moved outwards.                                             *)
PowerOf(x, n, up) ==
    IF n >= 0 THEN IF IsInteger(x) THEN Power(x, n) ELSE Finely(Power(x, n), up)
    ELSE Finely(Over(One, Power(x, -n)), up)

PowNumber(I, n, up) ==
    LET at(x) == PowerOf(x, n, up)
    IN  CASE IsEmpty(I) -> Empty
          [] ~IsEmpty(I) /\ n = 0 -> Point(One)
          [] ~IsEmpty(I) /\ n > 0 /\ (n % 2 = 1 \/ Ge(I.lo, Zero)) -> Iv(at(I.lo), at(I.hi), I.lc, I.hc)
          [] ~IsEmpty(I) /\ n > 0 /\ n % 2 = 0 /\ Lt(I.lo, Zero) ->
               IF Le(I.hi, Zero) THEN Iv(at(I.hi), at(I.lo), I.hc, I.lc)
               ELSE Iv(Zero, MaxOf(at(I.lo), at(I.hi)), TRUE, IF Gt(AbsOf(I.lo), AbsOf(I.hi)) THEN I.lc ELSE I.hc)
          [] OTHER ->
               IF CrossesZero(I) THEN Thrown
               ELSE IF n % 2 = 1 \/ Gt(I.lo, Zero) THEN Iv(at(I.hi), at(I.lo), I.hc, I.lc)
               ELSE Iv(at(I.lo), at(I.hi), I.lc, I.hc)

(* 2 to the power of an interval with integer ends: every result is          *)
(* representable.                                                            *)
Pow2(I) ==
    LET at(n) == IF n >= 0 THEN Power(Num(2), n) ELSE Over(One, Power(Num(2), -n))
    IN  IF IsEmpty(I) THEN Empty
        ELSE Iv(IF IsNegInf(I.lo) THEN Zero ELSE at(I.lo.n), IF IsPosInf(I.hi) THEN PosInf ELSE at(I.hi.n),
                I.lc /\ ~IsInfinity(I.lo), I.hc /\ ~IsInfinity(I.hi))

(* The exponent is an interval with finite integer ends. *)
PowInterval(I, E, up) ==
    CASE IsEmpty(I) \/ IsEmpty(E) -> Empty
      [] ~IsEmpty(I) /\ ~IsEmpty(E) /\ IsPoint(E) -> PowNumber(I, E.lo.n, up)
      [] ~IsEmpty(E) /\ ~IsPoint(E) /\ IsPoint(I) /\ I.lo \in {Zero, One} -> Point(I.lo)
      [] ~IsEmpty(E) /\ ~IsPoint(E) /\ IsPoint(I) /\ I.lo = Num(2) -> Pow2(E)
      [] ~IsEmpty(E) /\ ~IsPoint(E) /\ IsPoint(I) /\ I.lo \notin {Zero, One, Num(2)} ->
           LET low == PowerOf(I.lo, E.lo.n, up)
               high == PowerOf(I.lo, E.hi.n, up)
           IN  IF IsInteger(I.lo) THEN Iv(low, high, TRUE, TRUE) ELSE Open(Minus(low, Grain), Plus(high, Grain))
      [] OTHER ->
           IF Gt(I.lo, Zero)
           THEN Spanned([k \in 1 .. 4 |-> PowerOf(Corner(I, E, k).x, Corner(I, E, k).y.n, up)], I, E)
           ELSE Thrown
=============================================================================
