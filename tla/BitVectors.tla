----------------------------- MODULE BitVectors -----------------------------
(***************************************************************************)
(* BitVectorUtils and MathUtils (src/core/util.cpp).  A bit-vector is the  *)
(* sequence of its bits, the most significant first.  The 64-bit and the   *)
(* GMP paths of the arithmetic compute the same bits.                      *)
(***************************************************************************)
EXTENDS Integers, Sequences, SequencesExt

Zeros(n) == [i \in 1..n |-> 0]
MkOnes(n) == [i \in 1..n |-> 1]
AllZero(bv) == \A i \in DOMAIN bv : bv[i] = 0

BvToNat(bv) == FoldLeft(LAMBDA value, bit : 2 * value + bit, 0, bv)
BvToInt(bv) == BvToNat(bv) - (IF bv[1] = 1 THEN 2 ^ Len(bv) ELSE 0)
IntToBv(i, n) == [k \in 1..n |-> (i \div 2 ^ (n - k)) % 2]

(* The low bits of the numeral, or the numeral with zeros in front; the minus *)
(* of a negative one lands among the bits and is kept here as the bit 2.      *)
NatToBv(i, n) ==
    LET size == CHOOSE s \in 1..32 : 2 ^ s > (IF i < 0 THEN -i ELSE i)
                                     /\ \A r \in 1..(s - 1) : 2 ^ r <= (IF i < 0 THEN -i ELSE i)
        numeral == (IF i < 0 THEN <<2>> ELSE <<>>) \o IntToBv(IF i < 0 THEN -i ELSE i, size)
    IN  IF Len(numeral) < n THEN Zeros(n - Len(numeral)) \o numeral
        ELSE SubSeq(numeral, Len(numeral) - n + 1, Len(numeral))
-----------------------------------------------------------------------------
(* Bitwise *)

BvNot(x) == [i \in DOMAIN x |-> 1 - x[i]]
BvAnd(x, y) == [i \in DOMAIN x |-> IF x[i] = 1 /\ y[i] = 1 THEN 1 ELSE 0]
BvOr(x, y) == [i \in DOMAIN x |-> IF x[i] = 1 \/ y[i] = 1 THEN 1 ELSE 0]
BvXor(x, y) == [i \in DOMAIN x |-> IF x[i] # y[i] THEN 1 ELSE 0]
BvNand(x, y) == [i \in DOMAIN x |-> IF x[i] = 1 /\ y[i] = 1 THEN 0 ELSE 1]
BvNor(x, y) == [i \in DOMAIN x |-> IF x[i] = 0 /\ y[i] = 0 THEN 1 ELSE 0]
BvXnor(x, y) == [i \in DOMAIN x |-> IF x[i] = y[i] THEN 1 ELSE 0]
-----------------------------------------------------------------------------
(* Arithmetic *)

(* Bits are flipped, and a carry runs from the low end to the first zero. *)
BvNeg(x) ==
    LET flipped == BvNot(x)
        zeros == {i \in DOMAIN x : flipped[i] = 0}
        stop == IF zeros = {} THEN 0 ELSE CHOOSE i \in zeros : \A j \in zeros : j <= i
    IN  [i \in DOMAIN x |-> IF i > stop THEN 0 ELSE IF i = stop THEN 1 ELSE flipped[i]]

Wider(x, y) == IF Len(x) < Len(y) THEN Len(y) ELSE Len(x)
BvAdd(x, y) == IntToBv(BvToNat(x) + BvToNat(y), Wider(x, y))
BvSub(x, y) == IntToBv(BvToNat(x) - BvToNat(y), Wider(x, y))
BvMul(x, y) == IntToBv(BvToNat(x) * BvToNat(y), Wider(x, y))
BvUdiv(x, y) == IF AllZero(y) THEN MkOnes(Len(x)) ELSE IntToBv(BvToNat(x) \div BvToNat(y), Len(x))
BvUrem(x, y) == IF AllZero(y) THEN x ELSE IntToBv(BvToNat(x) % BvToNat(y), Len(x))
BvUmod(x, y) == BvUrem(x, y)

Magnitude(a) == IF a < 0 THEN -a ELSE a
TruncDiv(a, b) ==
    LET quotient == Magnitude(a) \div Magnitude(b) IN IF (a < 0) # (b < 0) THEN -quotient ELSE quotient

(* A zero divisor is met only by callers that do not handle it themselves. *)
BvSdiv(x, y) ==
    LET a == BvToInt(x)
        b == BvToInt(y)
        n == Len(x)
    IN  CASE b = 0 -> IF n = 1 THEN <<1>> ELSE IntToBv(IF a < 0 THEN 1 ELSE a, n)
          [] b # 0 /\ a = -(2 ^ (n - 1)) /\ b = -1 -> IntToBv(a, n)
          [] OTHER -> IntToBv(TruncDiv(a, b), n)

(* Mutant: the remainder is that of C++, of the sign of the dividend. *)
BvSremFloored(x, y) ==
    LET a == BvToInt(x)
        b == BvToInt(y)
    IN  IF b = 0 THEN x ELSE IntToBv(a - (a \div Magnitude(b)) * Magnitude(b), Len(x))

BvSrem(x, y) ==
    LET a == BvToInt(x)
        b == BvToInt(y)
    IN  IF b = 0 THEN x ELSE IntToBv(a - TruncDiv(a, b) * b, Len(x))

(* The remainder m is taken of the dividend itself, not of its magnitude. *)
BvSmod(x, y) ==
    LET a == BvToInt(x)
        b == BvToInt(y)
        m == a % Magnitude(b)
        opposite == Magnitude(b) - m
    IN  CASE b = 0 -> x
          [] b # 0 /\ (m = 0 \/ (a > 0 /\ b > 0) \/ (a < 0 /\ b < 0)) -> IntToBv(m, Len(x))
          [] OTHER -> IntToBv(IF b < 0 THEN -opposite ELSE opposite, Len(x))
-----------------------------------------------------------------------------
(* Shifts and pieces *)

BvShl(x, y) ==
    LET by == BvToNat(y)
    IN  IF by >= Len(x) THEN Zeros(Len(x)) ELSE SubSeq(x, by + 1, Len(x)) \o Zeros(by)
BvLshr(x, y) ==
    LET by == BvToNat(y)
    IN  IF by >= Len(x) THEN Zeros(Len(x)) ELSE Zeros(by) \o SubSeq(x, 1, Len(x) - by)
BvAshr(x, y) ==
    LET by == BvToNat(y)
        signs == [i \in 1..(IF by >= Len(x) THEN Len(x) ELSE by) |-> x[1]]
    IN  IF by >= Len(x) THEN signs ELSE signs \o SubSeq(x, 1, Len(x) - by)

BvConcat(x, y) == x \o y
BvExtract(x, i, j) == SubSeq(x, Len(x) - i, Len(x) - j)
BvRepeat(x, n) == FlattenSeq([k \in 1..n |-> x])
BvZeroExtend(x, n) == Zeros(n) \o x
BvSignExtend(x, n) == [k \in 1..n |-> x[1]] \o x

(* The amount is not reduced by the width: one beyond it throws. *)
RotateThrows(x, n) == n > Len(x)
BvRotateLeft(x, n) == SubSeq(x, n + 1, Len(x)) \o SubSeq(x, 1, n)
BvRotateRight(x, n) == SubSeq(x, Len(x) - n + 1, Len(x)) \o SubSeq(x, 1, Len(x) - n)

(* Kinds it has no case for, bvcomp among them, compare as false. *)
BvComp(x, y, kind) ==
    CASE kind = "EQ" -> x = y
      [] kind = "DISTINCT" -> x # y
      [] kind = "BV_ULT" -> BvToNat(x) < BvToNat(y)
      [] kind = "BV_ULE" -> BvToNat(x) <= BvToNat(y)
      [] kind = "BV_UGT" -> BvToNat(x) > BvToNat(y)
      [] kind = "BV_UGE" -> BvToNat(x) >= BvToNat(y)
      [] kind = "BV_SLT" -> BvToInt(x) < BvToInt(y)
      [] kind = "BV_SLE" -> BvToInt(x) <= BvToInt(y)
      [] kind = "BV_SGT" -> BvToInt(x) > BvToInt(y)
      [] kind = "BV_SGE" -> BvToInt(x) >= BvToInt(y)
      [] OTHER -> FALSE
-----------------------------------------------------------------------------
(* Integers *)

(* The power of a base; an exponent below 1 other than 0 returns the base. *)
MathPow(base, exp) == IF exp < 0 THEN base ELSE base ^ exp

(* C++ remainders keep the sign of the dividend. *)
Remainder(a, b) == a - TruncDiv(a, b) * b
Gcd[a \in Int, b \in Int] == IF b = 0 THEN a ELSE Gcd[b, Remainder(a, b)]
Lcm(a, b) == TruncDiv(a * b, Gcd[a, b])

IsPrime(n) == n > 1 /\ \A d \in 2..(n - 1) : n % d # 0
Factorial(n) == FoldLeft(LAMBDA product, i : product * i, 1, [i \in 1..n |-> i])

EuclideanDiv(a, b) == IF b > 0 THEN a \div b ELSE -(a \div (-b))
EuclideanMod(a, b) == a % Magnitude(b)

(* Bitwise and of integers in two's complement. *)
IntAnd(a, b) == BvToInt(BvAnd(IntToBv(a, 8), IntToBv(b, 8)))
=============================================================================
