------------------------------ MODULE Intervals ------------------------------
(***************************************************************************)
(* Interval (src/ir/interval.cpp): two ends, each open or closed, and the  *)
(* operations of the evaluator on sets of values.  Every operation is a    *)
(* function of its arguments; what throws returns Thrown.                  *)
(*                                                                         *)
(* The functions that MPFR evaluates are stood for by one curve of each    *)
(* shape, which meets the same ends, poles and zeros: it is how an         *)
(* operation uses the values at the ends that is modelled.  atan2 is not.  *)
(***************************************************************************)
EXTENDS Numbers

Iv(lo, hi, lc, hc) == [lo |-> lo, hi |-> hi, lc |-> lc, hc |-> hc]
Point(x) == Iv(x, x, TRUE, TRUE)
Empty == Iv(Num(1), Num(-1), FALSE, FALSE)
Full == Iv(NegInf, PosInf, FALSE, FALSE)
Thrown == Iv(NaN, NaN, FALSE, FALSE)

Zero == Num(0)
One == Num(1)

IsThrown(I) == IsNaN(I.lo)
IsPoint(I) == Eq(I.lo, I.hi)
IsEmpty(I) == Gt(I.lo, I.hi) \/ (IsPoint(I) /\ ~(I.lc /\ I.hc))

Holds(I, x) ==
    /\ ~IsEmpty(I)
    /\ IF I.lc THEN Le(I.lo, x) ELSE Lt(I.lo, x)
    /\ IF I.hc THEN Le(x, I.hi) ELSE Lt(x, I.hi)
-----------------------------------------------------------------------------
(* Sets *)

IsSubsetOf(I, J) ==
    \/ IsEmpty(I)
    \/ /\ ~IsEmpty(J)
       /\ Gt(I.lo, J.lo) \/ (Eq(I.lo, J.lo) /\ (~I.lc \/ J.lc))
       /\ Lt(I.hi, J.hi) \/ (Eq(I.hi, J.hi) /\ (~I.hc \/ J.hc))

IsSubsetEqOf(I, J) ==
    \/ IsEmpty(I)
    \/ /\ Ge(I.lo, J.lo) /\ Le(I.hi, J.hi)
       /\ J.lc \/ Gt(I.lo, J.lo) \/ ~I.lc
       /\ J.hc \/ Lt(I.hi, J.hi) \/ ~I.hc

IsSupersetOf(I, J) ==
    /\ ~IsEmpty(I)
    /\ Lt(I.lo, J.lo) \/ (Eq(I.lo, J.lo) /\ (I.lc \/ ~J.lc))
    /\ Gt(I.hi, J.hi) \/ (Eq(I.hi, J.hi) /\ (I.hc \/ ~J.hc))

(* Operators < and > of intervals, on intervals that are not empty. *)
Before(I, J) == Lt(I.hi, J.lo) \/ (Eq(I.hi, J.lo) /\ (~I.hc \/ ~J.lc))

IsDisjointFrom(I, J) == ~IsEmpty(I) /\ ~IsEmpty(J) /\ (Before(I, J) \/ Before(J, I))

IsIntersectingWith(I, J) == ~IsEmpty(I) /\ ~IsEmpty(J) /\ ~IsDisjointFrom(I, J)

Intersection(I, J) ==
    IF IsEmpty(I) \/ IsEmpty(J) THEN Empty
    ELSE Iv(MaxOf(I.lo, J.lo), MinOf(I.hi, J.hi),
            IF Lt(I.lo, J.lo) THEN J.lc ELSE IF Gt(I.lo, J.lo) THEN I.lc ELSE I.lc /\ J.lc,
            IF Gt(I.hi, J.hi) THEN J.hc ELSE IF Lt(I.hi, J.hi) THEN I.hc ELSE I.hc /\ J.hc)

Hull(I, J) ==
    Iv(MinOf(I.lo, J.lo), MaxOf(I.hi, J.hi),
       IF Lt(I.lo, J.lo) THEN I.lc ELSE IF Lt(J.lo, I.lo) THEN J.lc ELSE I.lc \/ J.lc,
       IF Gt(I.hi, J.hi) THEN I.hc ELSE IF Gt(J.hi, I.hi) THEN J.hc ELSE I.hc \/ J.hc)

UnionWith(I, J) ==
    IF IsEmpty(I) \/ IsEmpty(J) THEN Empty
    ELSE IF IsDisjointFrom(I, J) THEN Thrown ELSE Hull(I, J)

(* difference, with both inclusion tests the way round they are in the code. *)
Difference(I, J) ==
    LET left == Iv(I.lo, J.lo, I.lc, ~J.lc)
        right == Iv(J.hi, I.hi, ~J.hc, I.hc)
        fromLeft == /\ Le(J.lo, I.lo)
                    /\ Lt(J.hi, I.hi) \/ (Eq(J.hi, I.hi) /\ ~J.hc /\ I.hc)
        fromRight == /\ Gt(J.lo, I.lo) \/ (Eq(J.lo, I.lo) /\ ~J.lc /\ I.lc)
                     /\ Gt(J.hi, I.hi) \/ (Eq(J.hi, I.hi) /\ (J.hc \/ ~I.hc))
    IN  CASE IsDisjointFrom(I, J) -> <<I>>
          [] ~IsDisjointFrom(I, J) /\ IsSupersetOf(I, J) -> << >>
          [] ~IsDisjointFrom(I, J) /\ ~IsSupersetOf(I, J) /\ IsSubsetOf(I, J) ->
                <<[left EXCEPT !.hc = ~J.lc], [right EXCEPT !.hc = ~J.lc]>>
          [] OTHER -> IF fromLeft THEN <<right>> ELSE IF fromRight THEN <<left>> ELSE << >>

(* The integers of a bounded interval that getIntegers lists: the ends count *)
(* whether they belong to it or not.                                         *)
Integers(I) == {k \in I.lo.n - 1 .. I.hi.n + 1 : Le(CeilOf(I.lo), Num(k)) /\ Le(Num(k), FloorOf(I.hi))}

IntCount(I) ==
    IF IsEmpty(I) THEN 0
    ELSE IF IsPoint(I) /\ IsInteger(I.lo) THEN 1
    ELSE FloorOf(I.hi).n - CeilOf(I.lo).n + 1 - (IF I.lc THEN 0 ELSE 1) - (IF I.hc THEN 0 ELSE 1)
-----------------------------------------------------------------------------
(* Arithmetic *)

Shifted(I, x) == IF IsEmpty(I) THEN Empty ELSE Iv(Plus(I.lo, x), Plus(I.hi, x), I.lc, I.hc)

(* negate, and the operators -, ~ and ! *)
Negate(I) == IF IsEmpty(I) THEN Empty ELSE Iv(Neg(I.hi), Neg(I.lo), I.hc, I.lc)

Abs(I) ==
    CASE IsEmpty(I) -> Empty
      [] ~IsEmpty(I) /\ Ge(I.lo, Zero) -> I
      [] ~IsEmpty(I) /\ Lt(I.lo, Zero) /\ Le(I.hi, Zero) -> Negate(I)
      [] OTHER -> LET far == MaxOf(AbsOf(I.lo), AbsOf(I.hi))
                  IN  Iv(Zero, far, TRUE, IF Eq(far, AbsOf(I.lo)) THEN I.lc ELSE I.hc)

AddNumber(I, x) == Iv(Plus(I.lo, x), Plus(I.hi, x), I.lc, I.hc)

Scale(I, x) ==
    CASE IsEmpty(I) -> Empty
      [] ~IsEmpty(I) /\ x.n > 0 -> Iv(Times(I.lo, x), Times(I.hi, x), I.lc, I.hc)
      [] ~IsEmpty(I) /\ x.n < 0 -> Iv(Times(I.hi, x), Times(I.lo, x), I.hc, I.lc)
      [] OTHER -> IF I.lc /\ I.hc THEN Point(Zero) ELSE Empty

DivideNumber(I, x) ==
    IF IsEmpty(I) THEN Empty ELSE IF x.n = 0 THEN Thrown
    ELSE IF x.n > 0 THEN Iv(Over(I.lo, x), Over(I.hi, x), I.lc, I.hc)
    ELSE Iv(Over(I.hi, x), Over(I.lo, x), I.hc, I.lc)

Add(I, J) ==
    IF IsEmpty(I) \/ IsEmpty(J) THEN Empty
    ELSE Iv(Plus(I.lo, J.lo), Plus(I.hi, J.hi), I.lc /\ J.lc, I.hc /\ J.hc)


Sub(I, J) ==
    IF IsEmpty(I) \/ IsEmpty(J) THEN Empty
    ELSE Iv(Minus(I.lo, J.hi), Minus(I.hi, J.lo), I.lc /\ J.hc, I.hc /\ J.lc)

(* The interval between the least and the greatest of four corners, in the   *)
(* order lower-lower, lower-upper, upper-lower, upper-upper.  An end is      *)
(* closed if the first corner that reaches it is.                            *)
Corner(I, J, k) ==
    [x |-> IF k <= 2 THEN I.lo ELSE I.hi, y |-> IF k % 2 = 1 THEN J.lo ELSE J.hi,
     closed |-> (IF k <= 2 THEN I.lc ELSE I.hc) /\ (IF k % 2 = 1 THEN J.lc ELSE J.hc)]

Spanned(values, I, J) ==
    LET low == MinOf(MinOf(MinOf(values[1], values[2]), values[3]), values[4])
        high == MaxOf(MaxOf(MaxOf(values[1], values[2]), values[3]), values[4])
        closedAt(end) ==
          LET hits == {k \in DOMAIN values : Eq(values[k], end)}
          IN  hits # {} /\ Corner(I, J, CHOOSE k \in hits : \A l \in hits : k <= l).closed
    IN  Iv(low, high, closedAt(low), closedAt(high))

IsZeroPoint(I) == Eq(I.lo, Zero) /\ Eq(I.hi, Zero) /\ I.lc /\ I.hc

(* Squaring is taken for what a product of equal intervals means. *)
Square(I) ==
    LET lo == AbsOf(I.lo)
        hi == AbsOf(I.hi)
        far == IF Gt(lo, hi) THEN lo ELSE hi
    IN  Iv(Zero, Times(far, far), TRUE, IF Gt(lo, hi) THEN I.lc ELSE I.hc)

SameInterval(I, J) == Eq(I.lo, J.lo) /\ Eq(I.hi, J.hi) /\ I.lc = J.lc /\ I.hc = J.hc
CrossesZero(I) == Le(I.lo, Zero) /\ Ge(I.hi, Zero)

Mul(I, J) ==
    CASE IsEmpty(I) \/ IsEmpty(J) -> Empty
      [] ~IsEmpty(I) /\ SameInterval(I, J) /\ CrossesZero(I) -> Square(I)
      [] OTHER -> Spanned([k \in 1 .. 4 |-> Times(Corner(I, J, k).x, Corner(I, J, k).y)], I, J)

(* The divisor holds zero, or has zero as an open end: then a corner throws. *)
HoldsZero(J) == (Lt(J.lo, Zero) /\ Gt(J.hi, Zero)) \/ (Eq(J.lo, Zero) /\ J.lc) \/ (Eq(J.hi, Zero) /\ J.hc)
CornerThrows(I, J) == \E k \in 1 .. 4 : DivThrows(Corner(I, J, k).x, Corner(I, J, k).y)

Quotients(I, J) == [k \in 1 .. 4 |-> Over(Corner(I, J, k).x, Corner(I, J, k).y)]

DivReal(I, J) ==
    CASE IsEmpty(I) \/ IsEmpty(J) -> Empty
      [] ~IsEmpty(I) /\ ~IsEmpty(J) /\ HoldsZero(J) -> Full
      [] ~IsEmpty(J) /\ ~HoldsZero(J) /\ IsZeroPoint(I) -> Point(Zero)
      [] OTHER -> IF CornerThrows(I, J) THEN Thrown ELSE Spanned(Quotients(I, J), I, J)

DivInt(I, J) ==
    CASE IsEmpty(I) \/ IsEmpty(J) -> Empty
      [] ~IsEmpty(I) /\ ~IsEmpty(J) /\ HoldsZero(J) -> Full
      [] ~IsEmpty(J) /\ ~HoldsZero(J) /\ IsZeroPoint(I) -> Point(Zero)
      [] OTHER -> IF CornerThrows(I, J) THEN Thrown
                  ELSE Spanned([k \in 1 .. 4 |-> FloorOf(Quotients(I, J)[k])], I, J)

DivIntNumber(I, x) ==
    LET J == DivideNumber(I, x) IN IF IsEmpty(I) \/ IsThrown(J) THEN J ELSE [J EXCEPT !.lo = FloorOf(@), !.hi = FloorOf(@)]

(* The remainder of a number that may be smaller than the modulus is bounded *)
(* by the number itself.                                                     *)
Remainders(I, modulus, open) ==
    LET top == Minus(modulus, One)
    IN  IF Gt(top, I.hi) THEN Iv(Zero, I.hi, TRUE, I.hc)
        ELSE Iv(Zero, top, TRUE, IF open /\ Lt(top, I.lo) THEN I.lc ELSE TRUE)

ModNumber(I, x) ==
    IF IsEmpty(I) THEN Empty ELSE IF Le(x, Zero) THEN Thrown ELSE Remainders(I, x, TRUE)

Mod(I, J) ==
    IF IsEmpty(I) \/ IsEmpty(J) THEN Empty
    ELSE IF HoldsZero(J) THEN Thrown ELSE Remainders(I, MaxOf(AbsOf(J.lo), AbsOf(J.hi)), FALSE)
=============================================================================
