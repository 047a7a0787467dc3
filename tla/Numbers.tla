------------------------------- MODULE Numbers -------------------------------
(***************************************************************************)
(* Number (src/ir/number.cpp): an integer, a fraction, or a real that only *)
(* stands for an infinity here.  Results of GMP are exact; what MPFR       *)
(* computes is one of the two representable numbers around the true value, *)
(* and the representable numbers are the integers.                         *)
(***************************************************************************)
EXTENDS Integers

(* The fraction n / d; d = 0 for an infinity, and n = 0 as well for NaN.     *)
Fraction(n, d) == [n |-> n, d |-> d]
Num(k) == Fraction(k, 1)
PosInf == Fraction(1, 0)
NegInf == Fraction(-1, 0)
NaN == Fraction(0, 0)

IsNaN(x) == x.d = 0 /\ x.n = 0
IsInfinity(x) == x.d = 0 /\ x.n # 0
IsPosInf(x) == x.d = 0 /\ x.n > 0
IsNegInf(x) == x.d = 0 /\ x.n < 0

(* Operators < and <= are false on NaN, and > and >= are their negations. *)
Lt(x, y) ==
    /\ ~IsNaN(x) /\ ~IsNaN(y)
    /\ IF x.d = 0 /\ y.d = 0 THEN x.n < 0 /\ y.n > 0 ELSE x.n * y.d < y.n * x.d
Eq(x, y) == ~IsNaN(x) /\ ~IsNaN(y) /\ ~Lt(x, y) /\ ~Lt(y, x)
Le(x, y) == Lt(x, y) \/ Eq(x, y)
Gt(x, y) == ~Le(x, y)
Ge(x, y) == ~Lt(x, y)

(* std::min and std::max, also of a list: the first of those that tie. *)
MinOf(x, y) == IF Lt(y, x) THEN y ELSE x
MaxOf(x, y) == IF Lt(x, y) THEN y ELSE x

Neg(x) == Fraction(-x.n, x.d)
AbsOf(x) == IF x.n < 0 THEN Neg(x) ELSE x

Plus(x, y) ==
    CASE x.d = 0 /\ y.d = 0 -> Fraction(IF (x.n > 0) = (y.n > 0) THEN x.n ELSE 0, 0)
      [] x.d = 0 /\ y.d # 0 -> x
      [] x.d # 0 /\ y.d = 0 -> y
      [] OTHER -> Fraction(x.n * y.d + y.n * x.d, x.d * y.d)
Minus(x, y) == Plus(x, Neg(y))
Times(x, y) == Fraction(x.n * y.n, x.d * y.d)

(* Dividing an integer or a fraction by zero throws. *)
DivThrows(x, y) == y.n = 0 /\ x.d # 0
Over(x, y) ==
    CASE y.n > 0 -> Times(x, Fraction(y.d, y.n))
      [] y.n < 0 -> Times(x, Fraction(-y.d, -y.n))
      [] OTHER -> Fraction(x.n, 0)

FloorOf(x) == IF x.d = 0 THEN x ELSE Num(x.n \div x.d)
CeilOf(x) == Neg(FloorOf(Neg(x)))
IsInteger(x) == x.d # 0 /\ x.n % x.d = 0

(* x to a power that is a natural number. *)
Power(x, n) == IF n = 0 THEN Num(1) ELSE Fraction(x.n ^ n, x.d ^ n)

NextBelow(x) == Minus(x, Num(1))
NextAbove(x) == Plus(x, Num(1))

(* What MPFR may return for the value x. *)
Rounded(x, up) == IF up THEN CeilOf(x) ELSE FloorOf(x)
=============================================================================
