----------------------------- MODULE DataProofs -----------------------------
(***************************************************************************)
(* Facts about data that no state is needed for.                           *)
(*                                                                         *)
(* Loops of the code are recursive functions from the number of turns: that *)
(* they exist, and what they keep.                                         *)
(*                                                                         *)
(* Intervals (src/ir/interval.cpp), for all ends that are rational numbers  *)
(* or infinities, open or closed: the operations on sets are exact, and    *)
(* those of arithmetic hold every value that they stand for.               *)
(***************************************************************************)
EXTENDS Integers, FiniteSetTheorems, WellFoundedInduction, TLAPS

LOCAL INSTANCE Intervals

(* A nonempty set of naturals has a least element. *)
LEMMA LeastNat ==
    ASSUME NEW S \in SUBSET Nat, S # {}
    PROVE  \E i \in S : \A j \in S : i <= j
<1>1. \E i \in S : \A j \in S : ~ (<<j, i>> \in OpToRel(<, Nat))
  BY WFMin, NatLessThanWellFounded, Zenon
<1>2. PICK i \in S : \A j \in S : ~ (<<j, i>> \in OpToRel(<, Nat))
  BY <1>1
<1>3. \A j \in S : ~ (j < i)
  BY <1>2, Zenon DEF OpToRel
<1> QED BY <1>3

(* Induction over the turns of a loop. *)
LEMMA CountUp ==
    ASSUME NEW n \in Nat, NEW S, 0 \in S, \A k \in 1 .. n : k - 1 \in S => k \in S
    PROVE  \A k \in 0 .. n : k \in S
<1> DEFINE Bad == {k \in 0 .. n : k \notin S}
<1> SUFFICES ASSUME Bad # {} PROVE FALSE
  OBVIOUS
<1>1. Bad \in SUBSET Nat
  OBVIOUS
<1>2. PICK m \in Bad : \A j \in Bad : m <= j
  <2> HIDE DEF Bad
  <2> QED BY <1>1, LeastNat
<1>3. m \in 1 .. n
  BY <1>2
<1>4. m - 1 \in 0 .. n /\ ~ (m <= m - 1)
  BY <1>3
<1>5. m - 1 \in S
  BY <1>2, <1>4
<1> QED BY <1>2, <1>3, <1>5

(* Every value f takes on in n turns is one that S allows there. *)
Throughout(f, n, S) == \A k \in 0 .. n : f[k] \in S[k]

(* f is the loop of n turns that starts at base and goes from d to g[<<k, d>>] *)
(* in turn k.                                                                *)
Turns(f, n, base, g) == f[0] = base /\ \A k \in 1 .. n : f[k] = g[<<k, f[k - 1]>>]

(* Turn k leads from what S allows before it to what S allows after it. *)
Leads(g, n, S) == \A k \in 1 .. n : \A d \in S[k - 1] : g[<<k, d>>] \in S[k]

(* What holds before a loop and is kept by every turn holds throughout.       *)
LEMMA TurnsKeep ==
    ASSUME NEW n \in Nat, NEW S, NEW h, h[0] \in S[0],
           \A k \in 1 .. n : h[k - 1] \in S[k - 1] => h[k] \in S[k]
    PROVE  Throughout(h, n, S)
<1> DEFINE Good == {k \in 0 .. n : h[k] \in S[k]}
<1>1. 0 \in Good
  OBVIOUS
<1>2. \A k \in 1 .. n : k - 1 \in Good => k \in Good
  OBVIOUS
<1>3. \A k \in 0 .. n : k \in Good
  <2> HIDE DEF Good
  <2> QED BY <1>1, <1>2, CountUp
<1> QED BY <1>3 DEF Throughout

(* There is such a loop, and it stays within S. *)
LEMMA TurnsExist ==
    ASSUME NEW n \in Nat, NEW S, NEW base \in S[0], NEW g, Leads(g, n, S)
    PROVE  \E f : Turns(f, n, base, g) /\ Throughout(f, n, S)
<1> DEFINE P(f, m) == /\ f[0] = base /\ \A k \in 1 .. m : f[k] = g[<<k, f[k - 1]>>]
                      /\ \A k \in 0 .. m : f[k] \in S[k]
           Good == {m \in 0 .. n : \E f : P(f, m)}
<1>1. 0 \in Good
  <2> DEFINE f == [k \in 0 .. 0 |-> base]
  <2>1. f[0] = base /\ 1 .. 0 = {} /\ 0 .. 0 = {0}
    OBVIOUS
  <2> HIDE DEF f
  <2>2. P(f, 0)
    BY <2>1
  <2> HIDE DEF P
  <2> QED BY <2>2
<1>2. ASSUME NEW m \in 1 .. n, m - 1 \in Good PROVE m \in Good
  <2>1. PICK f : P(f, m - 1)
    BY <1>2
  <2> DEFINE h == [k \in 0 .. m |-> IF k = m THEN g[<<m, f[m - 1]>>] ELSE f[k]]
  <2>2. /\ \A k \in 0 .. m - 1 : h[k] = f[k] /\ k \in 0 .. m
        /\ h[m] = g[<<m, f[m - 1]>>]
        /\ 0 \in 0 .. m - 1 /\ m - 1 \in 0 .. m - 1
        /\ \A k \in 1 .. m : k - 1 \in 0 .. m - 1 /\ (k # m => k \in 1 .. m - 1)
        /\ \A k \in 0 .. m : k # m => k \in 0 .. m - 1
    OBVIOUS
  <2> HIDE DEF h
  <2>3. h[m] \in S[m]
    BY <2>1, <2>2 DEF Leads
  <2>4. ASSUME NEW k \in 1 .. m PROVE h[k] = g[<<k, h[k - 1]>>]
    <3>1. h[k - 1] = f[k - 1]
      BY <2>2
    <3>2. CASE k = m
      BY <3>1, <3>2, <2>2
    <3>3. CASE k # m
      <4>1. k \in 1 .. m - 1 /\ k \in 0 .. m - 1
        BY <3>3, <2>2
      <4> QED BY <4>1, <3>1, <2>1, <2>2
    <3> QED BY <3>2, <3>3
  <2>5. \A k \in 0 .. m : h[k] \in S[k]
    BY <2>1, <2>2, <2>3
  <2>6. h[0] = base
    BY <2>1, <2>2
  <2>7. P(h, m)
    BY <2>4, <2>5, <2>6
  <2> HIDE DEF P
  <2> QED BY <2>7
<1>3. n \in Good
  <2> HIDE DEF Good
  <2>1. n \in 0 .. n
    OBVIOUS
  <2> QED BY <2>1, <1>1, <1>2, CountUp
<1> QED BY <1>3 DEF Turns, Throughout
-----------------------------------------------------------------------------
(* Rounds that widen a set: f starts at X and g widens it once in every of n *)
(* rounds, among the members of U.                                          *)
Rounds(f, n, X, g, U) ==
    /\ f = [k \in 0 .. n |-> f[k]]
    /\ f[0] = X
    /\ \A k \in 1 .. n : f[k] = g[f[k - 1]]
    /\ \A k \in 0 .. n : f[k] \subseteq U

(* There are such rounds. *)
LEMMA RoundsExist ==
    ASSUME NEW n \in Nat, NEW U, NEW X \in SUBSET U, NEW g \in [SUBSET U -> SUBSET U]
    PROVE  \E f : Rounds(f, n, X, g, U)
<1> DEFINE S == [k \in 0 .. n |-> SUBSET U]
           go == [p \in (1 .. n) \X SUBSET U |-> g[p[2]]]
<1>1. \A k \in 0 .. n : S[k] = SUBSET U
  OBVIOUS
<1>2. 0 \in 0 .. n /\ \A k \in 1 .. n : k \in 0 .. n /\ k - 1 \in 0 .. n
  OBVIOUS
<1>3. \A k \in 1 .. n, Y \in SUBSET U : go[<<k, Y>>] = g[Y]
  OBVIOUS
<1>4. PICK f : Turns(f, n, X, go) /\ Throughout(f, n, S)
  <2> HIDE DEF S, go
  <2>1. X \in S[0]
    BY <1>1, <1>2
  <2>2. ASSUME NEW k \in 1 .. n, NEW Y \in S[k - 1] PROVE go[<<k, Y>>] \in S[k]
    <3>1. Y \in SUBSET U
      BY <1>1, <1>2
    <3>2. go[<<k, Y>>] = g[Y]
      BY <3>1, <1>3
    <3> QED BY <3>1, <3>2, <1>1, <1>2
  <2>3. Leads(go, n, S)
    BY <2>2 DEF Leads
  <2> QED BY <2>1, <2>3, TurnsExist
<1> DEFINE r == [k \in 0 .. n |-> f[k]]
<1>5. \A k \in 0 .. n : r[k] = f[k] /\ f[k] \in SUBSET U
  <2> HIDE DEF S
  <2> QED BY <1>1, <1>4 DEF Throughout
<1>6. r = [k \in 0 .. n |-> r[k]]
  OBVIOUS
<1>7. ASSUME NEW k \in 1 .. n PROVE r[k] = g[r[k - 1]]
  <2> HIDE DEF r, go, S
  <2>1. f[k] = go[<<k, f[k - 1]>>]
    BY <1>4 DEF Turns
  <2>2. k - 1 \in 0 .. n /\ f[k - 1] \in SUBSET U
    BY <1>2, <1>5
  <2>3. go[<<k, f[k - 1]>>] = g[f[k - 1]]
    BY <2>2, <1>3
  <2> QED BY <2>1, <2>2, <2>3, <1>2, <1>5
<1>8. r[0] = X
  <2> HIDE DEF r
  <2> QED BY <1>2, <1>4, <1>5 DEF Turns
<1> HIDE DEF r
<1>9. Rounds(r, n, X, g, U)
  BY <1>5, <1>6, <1>7, <1>8 DEF Rounds
<1> QED BY <1>9

(* A recursion that widens as g does, among the members of U, is such rounds. *)
LEMMA RoundsAre ==
    ASSUME NEW n \in Nat, NEW U, NEW X \in SUBSET U, NEW g \in [SUBSET U -> SUBSET U],
           NEW r, r = [k \in 0 .. n |-> r[k]], r[0] = X,
           \A k \in 1 .. n : r[k - 1] \in SUBSET U => r[k] = g[r[k - 1]]
    PROVE  Rounds(r, n, X, g, U)
<1> DEFINE Good == {k \in 0 .. n : r[k] \in SUBSET U}
<1>1. 0 \in Good
  OBVIOUS
<1>2. ASSUME NEW k \in 1 .. n, k - 1 \in Good PROVE k \in Good
  <2>1. k \in 0 .. n /\ r[k - 1] \in SUBSET U
    BY <1>2
  <2>2. r[k] = g[r[k - 1]] /\ g[r[k - 1]] \in SUBSET U
    BY <2>1
  <2> QED BY <2>1, <2>2
<1>3. \A k \in 0 .. n : k \in Good
  <2> HIDE DEF Good
  <2> QED BY <1>1, <1>2, CountUp
<1>4. \A k \in 1 .. n : k - 1 \in 0 .. n
  OBVIOUS
<1> QED BY <1>3, <1>4 DEF Rounds

(* Nothing is lost in a round. *)
Widens(g, U) == g \in [SUBSET U -> SUBSET U] /\ \A Y \in SUBSET U : Y \subseteq g[Y]

(* As many rounds as U has members are enough: another one adds nothing.     *)
LEMMA RoundsSettle ==
    ASSUME NEW U, IsFiniteSet(U), NEW X, NEW g, Widens(g, U),
           NEW f, Rounds(f, Cardinality(U), X, g, U)
    PROVE  g[f[Cardinality(U)]] = f[Cardinality(U)]
<1> DEFINE n == Cardinality(U)
<1>0. g \in [SUBSET U -> SUBSET U] /\ \A Y \in SUBSET U : Y \subseteq g[Y]
  BY DEF Widens
<1>1. n \in Nat
  BY FS_CardinalityType
<1> SUFFICES ASSUME g[f[n]] # f[n] PROVE FALSE
  OBVIOUS
<1>2. /\ \A k \in 1 .. n : f[k] = g[f[k - 1]]
      /\ \A k \in 0 .. n : f[k] \subseteq U
  BY DEF Rounds
<1> DEFINE Still == {k \in 0 .. n : g[f[k]] = f[k]}
           Grown == {k \in 0 .. n : k <= Cardinality(f[k])}
<1>3. Still = {}
  <2> SUFFICES ASSUME Still # {} PROVE FALSE
    OBVIOUS
  <2>1. PICK s \in 0 .. n : g[f[s]] = f[s]
    OBVIOUS
  <2> DEFINE Same == {k \in 0 .. n : k >= s => f[k] = f[s]}
  <2>2. 0 \in Same
    BY <1>1
  <2>3. ASSUME NEW k \in 1 .. n, k - 1 \in Same PROVE k \in Same
    <3>1. CASE k > s
      <4>1. f[k - 1] = f[s]
        BY <2>3, <3>1, <1>1
      <4>2. f[k] = f[s]
        BY <4>1, <1>2, <2>1
      <4> QED BY <4>2, <1>1
    <3>2. CASE k <= s
      BY <3>2, <1>1
    <3> QED BY <3>1, <3>2, <1>1
  <2>4. n \in Same
    <3> HIDE DEF Same, n, Still, Grown
    <3>1. n \in 0 .. n
      BY <1>1
    <3> QED BY <1>1, <2>2, <2>3, <3>1, CountUp
  <2>5. f[n] = f[s]
    BY <2>4, <1>1
  <2> QED BY <2>1, <2>5
<1>4. 0 \in Grown
  <2>1. 0 \in 0 .. n /\ f[0] \subseteq U
    BY <1>1, <1>2
  <2>2. Cardinality(f[0]) \in Nat
    BY <2>1, FS_Subset, FS_CardinalityType
  <2> QED BY <2>1, <2>2
<1>5. ASSUME NEW k \in 1 .. n, k - 1 \in Grown PROVE k \in Grown
  <2>1. k \in 0 .. n /\ k - 1 \in 0 .. n
    BY <1>1
  <2>2. f[k - 1] \subseteq U /\ f[k] \subseteq U /\ f[k] = g[f[k - 1]]
    BY <2>1, <1>2
  <2>3. f[k - 1] \subseteq f[k] /\ f[k] # f[k - 1]
    BY <2>1, <2>2, <1>0, <1>3
  <2>4. IsFiniteSet(f[k])
    BY <2>2, FS_Subset
  <2>5. Cardinality(f[k]) \in Nat /\ Cardinality(f[k - 1]) \in Nat
    BY <2>2, FS_Subset, FS_CardinalityType
  <2>6. /\ Cardinality(f[k - 1]) <= Cardinality(f[k])
        /\ Cardinality(f[k]) = Cardinality(f[k - 1]) => f[k] = f[k - 1]
    BY <2>3, <2>4, FS_Subset
  <2> QED BY <1>5, <2>1, <2>3, <2>5, <2>6
<1>6. n \in Grown
  <2> HIDE DEF Grown, Still, n
  <2>1. n \in 0 .. n
    BY <1>1
  <2> QED BY <1>1, <1>4, <1>5, <2>1, CountUp
<1>7. n \in 0 .. n /\ f[n] \subseteq U /\ n <= Cardinality(f[n])
  BY <1>1, <1>2, <1>6
<1>8. f[n] = U
  BY <1>7, FS_Subset, FS_CardinalityType
<1>9. g[U] \in SUBSET U /\ U \subseteq g[U]
  BY <1>0
<1> QED BY <1>8, <1>9

(* The rounds stay within whatever holds X and is kept by a round. *)
LEMMA RoundsWithin ==
    ASSUME NEW n \in Nat, NEW U, NEW X, NEW g, NEW f, Rounds(f, n, X, g, U), NEW C \in SUBSET U,
           X \subseteq C, \A Y \in SUBSET C : g[Y] \subseteq C
    PROVE  f[n] \subseteq C
<1> DEFINE Good == {k \in 0 .. n : f[k] \subseteq C}
<1>1. 0 \in Good
  BY DEF Rounds
<1>2. ASSUME NEW k \in 1 .. n, k - 1 \in Good PROVE k \in Good
  <2>1. f[k - 1] \in SUBSET C
    BY <1>2
  <2>2. f[k] = g[f[k - 1]]
    BY DEF Rounds
  <2> QED BY <2>1, <2>2
<1>3. n \in Good
  <2> HIDE DEF Good
  <2>1. n \in 0 .. n
    OBVIOUS
  <2> QED BY <1>1, <1>2, <2>1, CountUp
<1> QED BY <1>3

(* What a round never leaves out is there at the end. *)
LEMMA RoundsKeep ==
    ASSUME NEW n \in Nat, NEW U, NEW X, NEW g, NEW f, Rounds(f, n, X, g, U), NEW C,
           C \subseteq X, \A Y \in SUBSET U : C \subseteq Y => C \subseteq g[Y]
    PROVE  C \subseteq f[n]
<1> DEFINE Good == {k \in 0 .. n : C \subseteq f[k]}
<1>1. 0 \in Good
  BY DEF Rounds
<1>2. ASSUME NEW k \in 1 .. n, k - 1 \in Good PROVE k \in Good
  <2>1. C \subseteq f[k - 1] /\ f[k - 1] \in SUBSET U
    BY <1>2 DEF Rounds
  <2>2. f[k] = g[f[k - 1]]
    BY DEF Rounds
  <2> QED BY <2>1, <2>2
<1>3. n \in Good
  <2> HIDE DEF Good
  <2>1. n \in 0 .. n
    OBVIOUS
  <2> QED BY <1>1, <1>2, <2>1, CountUp
<1> QED BY <1>3
-----------------------------------------------------------------------------
(* Ends of intervals *)

(* Numbers, as fractions with a positive denominator. *)
Rational == [n : Int, d : Nat \ {0}]
(* Ends: numbers and infinities, whose numerator says the sign. *)
End == { x \in [n : Int, d : Nat] : x.d = 0 => x.n # 0 }
Lower == { x \in End : x.d = 0 => x.n < 0 }
Upper == { x \in End : x.d = 0 => x.n > 0 }

(* Multiplying by a positive number keeps order and equality. *)
LEMMA Scaled ==
    ASSUME NEW a \in Int, NEW b \in Int, NEW k \in Int, k > 0
    PROVE  (a < b <=> a * k < b * k) /\ (a = b <=> a * k = b * k)
  BY SMTT(20)

LEMMA Regrouped ==
    ASSUME NEW a \in Int, NEW b \in Int, NEW c \in Int
    PROVE  a * b \in Int /\ (a * b) * c = (a * c) * b /\ (a * b) * c = (c * b) * a
  BY SMTT(20)

(* The fractions a/b and c/d with positive denominators compared. *)
LessFraction(a, b, c, d) == a * d < c * b
SameFraction(a, b, c, d) == a * d = c * b

(* Fractions are compared transitively. *)
LEMMA LessChain ==
    ASSUME NEW a \in Int, NEW b \in Int, NEW c \in Int, NEW d \in Int, NEW e \in Int, NEW f \in Int,
           b > 0, d > 0, f > 0
    PROVE  /\ LessFraction(a, b, c, d) /\ LessFraction(c, d, e, f) => LessFraction(a, b, e, f)
           /\ SameFraction(a, b, c, d) /\ LessFraction(c, d, e, f) => LessFraction(a, b, e, f)
           /\ LessFraction(a, b, c, d) /\ SameFraction(c, d, e, f) => LessFraction(a, b, e, f)
<1>1. /\ (a * d) * f = (a * f) * d
      /\ (c * b) * f = (c * f) * b
      /\ (e * d) * b = (e * b) * d
  BY Regrouped
<1>2. /\ a * d \in Int /\ c * b \in Int /\ c * f \in Int /\ e * d \in Int /\ a * f \in Int /\ e * b \in Int
  BY Regrouped
<1>3. /\ a * d < c * b <=> (a * d) * f < (c * b) * f
      /\ a * d = c * b <=> (a * d) * f = (c * b) * f
      /\ c * f < e * d <=> (c * f) * b < (e * d) * b
      /\ c * f = e * d <=> (c * f) * b = (e * d) * b
      /\ a * f < e * b <=> (a * f) * d < (e * b) * d
  BY <1>2, Scaled
<1> DEFINE p == (a * f) * d  q == (c * f) * b  r == (e * b) * d
<1>4. p \in Int /\ q \in Int /\ r \in Int
  BY <1>2, Regrouped
<1>5. /\ LessFraction(a, b, c, d) <=> p < q
      /\ SameFraction(a, b, c, d) <=> p = q
      /\ LessFraction(c, d, e, f) <=> q < r
      /\ SameFraction(c, d, e, f) <=> q = r
      /\ LessFraction(a, b, e, f) <=> p < r
  BY <1>1, <1>3 DEF LessFraction, SameFraction
<1> HIDE DEF p, q, r
<1> QED BY <1>4, <1>5

LEMMA SameLess ==
    ASSUME NEW a \in Int, NEW b \in Int, NEW c \in Int, NEW d \in Int, NEW e \in Int, NEW f \in Int,
           b > 0, d > 0, f > 0, SameFraction(a, b, c, d), LessFraction(c, d, e, f)
    PROVE  LessFraction(a, b, e, f)
  BY LessChain

(* What an end is made of. *)
LEMMA EndType ==
    ASSUME NEW x \in End
    PROVE  /\ x.n \in Int /\ x.d \in Nat /\ ~IsNaN(x)
           /\ x \in Rational <=> x.d > 0
           /\ x.d = 0 => x.n # 0
  BY DEF End, Rational, IsNaN

(* How the code compares numbers and infinities. *)
LEMMA LtCases ==
    ASSUME NEW x \in End, NEW y \in End
    PROVE  /\ x.d > 0 /\ y.d > 0 => (Lt(x, y) <=> LessFraction(x.n, x.d, y.n, y.d))
           /\ x.d = 0 /\ y.d > 0 => (Lt(x, y) <=> x.n < 0)
           /\ x.d > 0 /\ y.d = 0 => (Lt(x, y) <=> y.n > 0)
           /\ x.d = 0 /\ y.d = 0 => (Lt(x, y) <=> x.n < 0 /\ y.n > 0)
<1>1. /\ x.n \in Int /\ x.d \in Nat /\ ~IsNaN(x) /\ (x.d = 0 => x.n # 0)
      /\ y.n \in Int /\ y.d \in Nat /\ ~IsNaN(y) /\ (y.d = 0 => y.n # 0)
  BY EndType
<1>2. CASE x.d > 0 /\ y.d > 0
  BY <1>1, <1>2 DEF Lt, LessFraction
<1>3. CASE x.d = 0 /\ y.d > 0
  <2>1. x.n * y.d < 0 * y.d <=> x.n < 0
    BY <1>1, <1>3, Scaled
  <2>2. 0 * y.d = 0 /\ y.n * 0 = 0
    BY <1>1
  <2> QED BY <2>1, <2>2, <1>1, <1>3 DEF Lt
<1>4. CASE x.d > 0 /\ y.d = 0
  <2>1. 0 * x.d < y.n * x.d <=> 0 < y.n
    BY <1>1, <1>4, Scaled
  <2>2. 0 * x.d = 0 /\ x.n * 0 = 0
    BY <1>1
  <2> QED BY <2>1, <2>2, <1>1, <1>4 DEF Lt
<1>5. CASE x.d = 0 /\ y.d = 0
  BY <1>1, <1>5 DEF Lt
<1> QED BY <1>1, <1>2, <1>3, <1>4, <1>5

(* The comparison of ends is a strict weak order. *)
LEMMA LtTransitive ==
    ASSUME NEW x \in End, NEW y \in End, NEW z \in End, Lt(x, y), Lt(y, z)
    PROVE  Lt(x, z)
<1>1. /\ x.n \in Int /\ x.d \in Nat /\ (x.d = 0 => x.n # 0)
      /\ y.n \in Int /\ y.d \in Nat /\ (y.d = 0 => y.n # 0)
      /\ z.n \in Int /\ z.d \in Nat /\ (z.d = 0 => z.n # 0)
  BY EndType
<1>2. CASE x.d > 0 /\ y.d > 0 /\ z.d > 0
  <2>1. LessFraction(x.n, x.d, y.n, y.d) /\ LessFraction(y.n, y.d, z.n, z.d)
    BY <1>2, LtCases
  <2>2. LessFraction(x.n, x.d, z.n, z.d)
    BY <2>1, <1>1, <1>2, LessChain
  <2> QED BY <2>2, <1>2, LtCases
<1>3. CASE ~(x.d > 0 /\ y.d > 0 /\ z.d > 0)
  BY <1>1, <1>3, LtCases
<1> QED BY <1>1, <1>2, <1>3

LEMMA LtIrreflexive ==
    ASSUME NEW x \in End
    PROVE  ~Lt(x, x)
<1>1. x.n \in Int /\ x.d \in Nat /\ (x.d = 0 => x.n # 0) /\ x.n * x.d \in Int
  BY EndType
<1> QED BY <1>1, LtCases DEF LessFraction

(* Ends that are neither less nor greater compare alike. *)
LEMMA EqCompares ==
    ASSUME NEW x \in End, NEW y \in End, NEW z \in End, Eq(x, y), Lt(y, z)
    PROVE  Lt(x, z)
<1>1. /\ x.n \in Int /\ x.d \in Nat /\ (x.d = 0 => x.n # 0)
      /\ y.n \in Int /\ y.d \in Nat /\ (y.d = 0 => y.n # 0)
      /\ z.n \in Int /\ z.d \in Nat /\ (z.d = 0 => z.n # 0)
  BY EndType
<1>2. ~Lt(x, y) /\ ~Lt(y, x)
  BY DEF Eq
<1>3. CASE x.d > 0 /\ y.d > 0
  <2>1. SameFraction(x.n, x.d, y.n, y.d)
    BY <1>1, <1>2, <1>3, LtCases, Regrouped DEF LessFraction, SameFraction
  <2>2. CASE z.d > 0
    <3>1. LessFraction(y.n, y.d, z.n, z.d)
      BY <2>2, <1>3, LtCases
    <3>2. LessFraction(x.n, x.d, z.n, z.d)
      BY <2>1, <2>2, <3>1, <1>1, <1>3, SameLess
    <3> QED BY <2>2, <3>2, <1>3, LtCases
  <2>3. CASE z.d = 0
    BY <2>3, <1>1, <1>3, LtCases
  <2> QED BY <2>2, <2>3, <1>1
<1>4. CASE ~(x.d > 0 /\ y.d > 0)
  <2>1. x.d = 0 /\ y.d = 0 /\ (x.n < 0 <=> y.n < 0)
    BY <1>1, <1>2, <1>4, LtCases
  <2> QED BY <2>1, <1>1, LtCases
<1> QED BY <1>3, <1>4

LEMMA EqComparesAfter ==
    ASSUME NEW x \in End, NEW y \in End, NEW z \in End, Eq(x, y), Lt(z, y)
    PROVE  Lt(z, x)
<1>1. /\ x.n \in Int /\ x.d \in Nat /\ (x.d = 0 => x.n # 0)
      /\ y.n \in Int /\ y.d \in Nat /\ (y.d = 0 => y.n # 0)
      /\ z.n \in Int /\ z.d \in Nat /\ (z.d = 0 => z.n # 0)
  BY EndType
<1>2. ~Lt(x, y) /\ ~Lt(y, x)
  BY DEF Eq
<1>3. CASE x.d > 0 /\ y.d > 0
  <2>1. SameFraction(x.n, x.d, y.n, y.d)
    BY <1>1, <1>2, <1>3, LtCases, Regrouped DEF LessFraction, SameFraction
  <2>2. SameFraction(y.n, y.d, x.n, x.d)
    BY <2>1 DEF SameFraction
  <2> QED BY <1>1, <2>2, <1>3, LtCases, LessChain
<1>4. CASE ~(x.d > 0 /\ y.d > 0)
  <2>1. x.d = 0 /\ y.d = 0 /\ (x.n < 0 <=> y.n < 0)
    BY <1>1, <1>2, <1>4, LtCases
  <2> QED BY <2>1, <1>1, LtCases
<1> QED BY <1>3, <1>4

HasBetween(x, y) == \E m \in Rational : Lt(x, m) /\ Lt(m, y)

(* The middle of two fractions. *)
LEMMA Middle ==
    ASSUME NEW a \in Int, NEW b \in Int, NEW c \in Int, NEW d \in Int, b > 0, d > 0, a * d < c * b
    PROVE  /\ a * (2 * (b * d)) < (a * d + c * b) * b
           /\ (a * d + c * b) * d < c * (2 * (b * d))
<1>1. /\ a * (2 * (b * d)) = (a * d) * b + (a * d) * b
      /\ (a * d + c * b) * b = (a * d) * b + (c * b) * b
      /\ (a * d + c * b) * d = (a * d) * d + (c * b) * d
      /\ c * (2 * (b * d)) = (c * b) * d + (c * b) * d
  BY SMTT(20)
<1>2. (a * d) * b < (c * b) * b /\ (a * d) * d < (c * b) * d
  BY Scaled, Regrouped
<1>3. (a * d) * b \in Int /\ (c * b) * b \in Int /\ (a * d) * d \in Int /\ (c * b) * d \in Int
  BY Regrouped
<1> QED BY <1>1, <1>2, <1>3

LEMMA Dense ==
    ASSUME NEW x \in End, NEW y \in End, Lt(x, y)
    PROVE  HasBetween(x, y)
<1>1. /\ x.n \in Int /\ x.d \in Nat /\ (x.d = 0 => x.n # 0)
      /\ y.n \in Int /\ y.d \in Nat /\ (y.d = 0 => y.n # 0)
  BY EndType
<1>2. CASE x.d > 0 /\ y.d > 0
  <2> DEFINE m == [n |-> x.n * y.d + y.n * x.d, d |-> 2 * (x.d * y.d)]
  <2>1. m \in Rational /\ m \in End
    BY <1>1, <1>2, SMTT(20) DEF Rational, End
  <2>2. m.n = x.n * y.d + y.n * x.d /\ m.d = 2 * (x.d * y.d) /\ m.d > 0
    BY <1>1, <1>2, SMTT(20)
  <2>3. x.n * y.d < y.n * x.d
    BY <1>2, LtCases DEF LessFraction
  <2>4. x.n * m.d < m.n * x.d /\ m.n * y.d < y.n * m.d
    BY <2>2, <2>3, <1>1, <1>2, Middle
  <2> HIDE DEF m
  <2>5. Lt(x, m) /\ Lt(m, y)
    BY <2>1, <2>2, <2>4, <1>2, LtCases DEF LessFraction
  <2> QED BY <2>1, <2>5 DEF HasBetween
<1>3. CASE x.d = 0 /\ y.d > 0
  <2> DEFINE m == [n |-> y.n - y.d, d |-> y.d]
  <2>1. m \in Rational /\ m \in End /\ m.d > 0 /\ m.d = y.d /\ m.n = y.n - y.d
    BY <1>1, <1>3 DEF Rational, End
  <2> HIDE DEF m
  <2>2. m.n < y.n /\ m.n \in Int
    BY <2>1, <1>1, <1>3
  <2>3. m.n * y.d < y.n * m.d
    BY <2>1, <2>2, <1>1, <1>3, Scaled
  <2>4. Lt(x, m) /\ Lt(m, y)
    BY <2>1, <2>3, <1>1, <1>3, LtCases DEF LessFraction
  <2> QED BY <2>1, <2>4 DEF HasBetween
<1>4. CASE x.d > 0 /\ y.d = 0
  <2> DEFINE m == [n |-> x.n + x.d, d |-> x.d]
  <2>1. m \in Rational /\ m \in End /\ m.d > 0 /\ m.d = x.d /\ m.n = x.n + x.d
    BY <1>1, <1>4 DEF Rational, End
  <2> HIDE DEF m
  <2>2. x.n < m.n /\ m.n \in Int
    BY <2>1, <1>1, <1>4
  <2>3. x.n * m.d < m.n * x.d
    BY <2>1, <2>2, <1>1, <1>4, Scaled
  <2>4. Lt(x, m) /\ Lt(m, y)
    BY <2>1, <2>3, <1>1, <1>4, LtCases DEF LessFraction
  <2> QED BY <2>1, <2>4 DEF HasBetween
<1>5. CASE x.d = 0 /\ y.d = 0
  <2> DEFINE m == [n |-> 0, d |-> 1]
  <2>1. m \in Rational /\ m \in End /\ m.d > 0
    BY DEF Rational, End
  <2> HIDE DEF m
  <2>4. Lt(x, m) /\ Lt(m, y)
    BY <2>1, <1>1, <1>5, LtCases DEF LessFraction
  <2> QED BY <2>1, <2>4 DEF HasBetween
<1> QED BY <1>1, <1>2, <1>3, <1>4, <1>5

-----------------------------------------------------------------------------
(* All comparisons by Lt, which is a strict weak order. *)
LEMMA ByLt ==
    ASSUME NEW x \in End, NEW y \in End
    PROVE  /\ Eq(x, y) <=> ~Lt(x, y) /\ ~Lt(y, x)
           /\ Le(x, y) <=> ~Lt(y, x)
           /\ Gt(x, y) <=> Lt(y, x)
           /\ Ge(x, y) <=> ~Lt(x, y)
<1>1. ~IsNaN(x) /\ ~IsNaN(y)
  BY EndType
<1>2. ~(Lt(x, y) /\ Lt(y, x))
  BY LtTransitive, LtIrreflexive
<1> QED BY <1>1, <1>2 DEF Eq, Le, Gt, Ge

LEMMA LtEither ==
    ASSUME NEW x \in End, NEW y \in End, NEW z \in End, Lt(x, z)
    PROVE  Lt(x, y) \/ Lt(y, z)
<1> SUFFICES ASSUME ~Lt(x, y), ~Lt(y, z) PROVE FALSE
  OBVIOUS
<1>1. CASE Lt(y, x)
  BY <1>1, LtTransitive
<1>2. CASE ~Lt(y, x)
  <2>1. Eq(y, x)
    BY <1>2, ByLt
  <2> QED BY <2>1, EqCompares
<1> QED BY <1>1, <1>2

LEMMA LtOneWay ==
    ASSUME NEW x \in End, NEW y \in End, Lt(x, y)
    PROVE  ~Lt(y, x)
  BY LtTransitive, LtIrreflexive

(* Intervals: only a number can be a closed end. *)
Interval ==
    { A \in [lo : Lower, hi : Upper, lc : BOOLEAN, hc : BOOLEAN] :
        (A.lc => A.lo \in Rational) /\ (A.hc => A.hi \in Rational) }

LEMMA IntervalType ==
    ASSUME NEW A \in Interval
    PROVE  /\ A.lo \in End /\ A.hi \in End /\ A.lc \in BOOLEAN /\ A.hc \in BOOLEAN
           /\ A.lc => A.lo \in Rational
           /\ A.hc => A.hi \in Rational
           /\ A = Iv(A.lo, A.hi, A.lc, A.hc)
  BY DEF Interval, Lower, Upper, Iv

LEMMA IntervalMade ==
    ASSUME NEW lo \in Lower, NEW hi \in Upper, NEW lc \in BOOLEAN, NEW hc \in BOOLEAN,
           lc => lo \in Rational, hc => hi \in Rational
    PROVE  /\ Iv(lo, hi, lc, hc) \in Interval
           /\ Iv(lo, hi, lc, hc).lo = lo /\ Iv(lo, hi, lc, hc).hi = hi
           /\ Iv(lo, hi, lc, hc).lc = lc /\ Iv(lo, hi, lc, hc).hc = hc
  BY DEF Interval, Iv

LEMMA RationalEnd == Rational \subseteq End /\ Rational \subseteq Lower /\ Rational \subseteq Upper
  BY DEF End, Lower, Upper, Rational

(* Emptiness and membership, by the strict comparison. *)
LEMMA EmptyByLt ==
    ASSUME NEW A \in Interval
    PROVE  IsEmpty(A) <=> ~Lt(A.lo, A.hi) /\ (Lt(A.hi, A.lo) \/ ~A.lc \/ ~A.hc)
  BY IntervalType, ByLt, LtOneWay DEF IsEmpty, IsPoint

LEMMA HoldsByLt ==
    ASSUME NEW A \in Interval, NEW x \in Rational
    PROVE  Holds(A, x) <=> /\ IF A.lc THEN ~Lt(x, A.lo) ELSE Lt(A.lo, x)
                           /\ IF A.hc THEN ~Lt(A.hi, x) ELSE Lt(x, A.hi)
<1>1. /\ x \in End /\ A.lo \in End /\ A.hi \in End /\ A.lc \in BOOLEAN /\ A.hc \in BOOLEAN
  BY IntervalType, RationalEnd
<1>2. Holds(A, x) <=> /\ ~IsEmpty(A)
                      /\ IF A.lc THEN ~Lt(x, A.lo) ELSE Lt(A.lo, x)
                      /\ IF A.hc THEN ~Lt(A.hi, x) ELSE Lt(x, A.hi)
  BY <1>1, ByLt DEF Holds
<1> QED BY <1>1, <1>2, EmptyByLt, LtEither, LtTransitive

(* There is a number before y, or after it, in an interval that begins before *)
(* y, or ends after it.                                                     *)
LEMMA NumberBefore ==
    ASSUME NEW A \in Interval, ~IsEmpty(A), NEW y \in End, Lt(A.lo, y)
    PROVE  \E x \in Rational : Holds(A, x) /\ Lt(x, y)
<1>1. /\ A.lo \in End /\ A.hi \in End /\ A.lc \in BOOLEAN /\ A.hc \in BOOLEAN
      /\ (A.lc => A.lo \in Rational) /\ (A.hc => A.hi \in Rational)
  BY IntervalType
<1>2. CASE A.lc
  <2>1. Holds(A, A.lo)
    BY <1>1, <1>2, EmptyByLt, HoldsByLt, LtIrreflexive, LtOneWay
  <2> QED BY <1>1, <1>2, <2>1
<1>3. CASE ~A.lc
  <2>1. Lt(A.lo, A.hi)
    BY <1>1, <1>3, EmptyByLt
  <2>2. CASE Lt(y, A.hi)
    <3>1. PICK x \in Rational : Lt(A.lo, x) /\ Lt(x, y)
      BY <1>1, Dense DEF HasBetween
    <3>2. Lt(x, A.hi) /\ ~Lt(A.hi, x)
      BY <3>1, <2>2, <1>1, RationalEnd, LtTransitive, LtOneWay
    <3>3. Holds(A, x)
      BY <3>1, <3>2, <1>1, <1>3, HoldsByLt
    <3> QED BY <3>1, <3>3
  <2>3. CASE ~Lt(y, A.hi)
    <3>1. PICK x \in Rational : Lt(A.lo, x) /\ Lt(x, A.hi)
      BY <2>1, <1>1, Dense DEF HasBetween
    <3>2. Holds(A, x)
      BY <3>1, <1>1, <1>3, HoldsByLt, RationalEnd, LtOneWay
    <3>3. Lt(x, y)
      BY <3>1, <2>3, <1>1, RationalEnd, LtEither
    <3> QED BY <3>2, <3>3
  <2> QED BY <2>2, <2>3
<1> QED BY <1>1, <1>2, <1>3

LEMMA NumberAfter ==
    ASSUME NEW A \in Interval, ~IsEmpty(A), NEW y \in End, Lt(y, A.hi)
    PROVE  \E x \in Rational : Holds(A, x) /\ Lt(y, x)
<1>1. /\ A.lo \in End /\ A.hi \in End /\ A.lc \in BOOLEAN /\ A.hc \in BOOLEAN
      /\ (A.lc => A.lo \in Rational) /\ (A.hc => A.hi \in Rational)
  BY IntervalType
<1>2. CASE A.hc
  <2>1. Holds(A, A.hi)
    BY <1>1, <1>2, EmptyByLt, HoldsByLt, LtIrreflexive, LtOneWay
  <2> QED BY <1>1, <1>2, <2>1
<1>3. CASE ~A.hc
  <2>1. Lt(A.lo, A.hi)
    BY <1>1, <1>3, EmptyByLt
  <2>2. CASE Lt(A.lo, y)
    <3>1. PICK x \in Rational : Lt(y, x) /\ Lt(x, A.hi)
      BY <1>1, Dense DEF HasBetween
    <3>2. Lt(A.lo, x) /\ ~Lt(x, A.lo)
      BY <3>1, <2>2, <1>1, RationalEnd, LtTransitive, LtOneWay
    <3>3. Holds(A, x)
      BY <3>1, <3>2, <1>1, <1>3, HoldsByLt
    <3> QED BY <3>1, <3>3
  <2>3. CASE ~Lt(A.lo, y)
    <3>1. PICK x \in Rational : Lt(A.lo, x) /\ Lt(x, A.hi)
      BY <2>1, <1>1, Dense DEF HasBetween
    <3>2. Holds(A, x)
      BY <3>1, <1>1, <1>3, HoldsByLt, RationalEnd, LtOneWay
    <3>3. Lt(y, x)
      BY <3>1, <2>3, <1>1, RationalEnd, LtEither
    <3> QED BY <3>2, <3>3
  <2> QED BY <2>2, <2>3
<1> QED BY <1>1, <1>2, <1>3

(* Only an empty interval holds no number, and a closed end is held. *)
LEMMA Inhabited ==
    ASSUME NEW A \in Interval
    PROVE  /\ IsEmpty(A) <=> \A x \in Rational : ~Holds(A, x)
           /\ ~IsEmpty(A) /\ A.lc => A.lo \in Rational /\ Holds(A, A.lo)
           /\ ~IsEmpty(A) /\ A.hc => A.hi \in Rational /\ Holds(A, A.hi)
<1>1. /\ A.lo \in End /\ A.hi \in End /\ A.lc \in BOOLEAN /\ A.hc \in BOOLEAN
      /\ (A.lc => A.lo \in Rational) /\ (A.hc => A.hi \in Rational)
  BY IntervalType
<1>2. ~IsEmpty(A) /\ A.lc => Holds(A, A.lo)
  BY <1>1, EmptyByLt, HoldsByLt, LtIrreflexive, LtOneWay
<1>3. ~IsEmpty(A) /\ A.hc => Holds(A, A.hi)
  BY <1>1, EmptyByLt, HoldsByLt, LtIrreflexive, LtOneWay
<1>4. ASSUME ~IsEmpty(A) PROVE \E x \in Rational : Holds(A, x)
  <2>1. CASE Lt(A.lo, A.hi)
    BY <2>1, <1>1, <1>4, NumberBefore
  <2>2. CASE ~Lt(A.lo, A.hi)
    BY <2>2, <1>1, <1>2, <1>4, EmptyByLt
  <2> QED BY <2>1, <2>2
<1> QED BY <1>1, <1>2, <1>3, <1>4 DEF Holds

-----------------------------------------------------------------------------
(* Sets *)

(* A begins no earlier, and ends no later, than B. *)
BeginsAfter(A, B) == Lt(B.lo, A.lo) \/ (~Lt(A.lo, B.lo) /\ (A.lc => B.lc))
EndsWithin(A, B) == Lt(A.hi, B.hi) \/ (~Lt(B.hi, A.hi) /\ (A.hc => B.hc))

LEMMA AfterExact ==
    ASSUME NEW A \in Interval, NEW B \in Interval, ~IsEmpty(A), ~BeginsAfter(A, B)
    PROVE  \E x \in Rational : Holds(A, x) /\ ~Holds(B, x)
<1>1. /\ A.lo \in End /\ A.lc \in BOOLEAN /\ (A.lc => A.lo \in Rational)
      /\ B.lo \in End /\ B.lc \in BOOLEAN
  BY IntervalType
<1>2. CASE Lt(A.lo, B.lo)
  <2>1. PICK x \in Rational : Holds(A, x) /\ Lt(x, B.lo)
    BY <1>1, <1>2, NumberBefore
  <2>2. ~Holds(B, x)
    BY <2>1, <1>1, HoldsByLt, RationalEnd, LtOneWay
  <2> QED BY <2>1, <2>2
<1>3. CASE ~Lt(A.lo, B.lo)
  <2>1. A.lc /\ ~B.lc /\ ~Lt(B.lo, A.lo)
    BY <1>1, <1>3 DEF BeginsAfter
  <2>2. Holds(A, A.lo) /\ ~Holds(B, A.lo)
    BY <2>1, <1>1, Inhabited, HoldsByLt
  <2> QED BY <2>1, <2>2, <1>1
<1> QED BY <1>2, <1>3

LEMMA WithinExact ==
    ASSUME NEW A \in Interval, NEW B \in Interval, ~IsEmpty(A), ~EndsWithin(A, B)
    PROVE  \E x \in Rational : Holds(A, x) /\ ~Holds(B, x)
<1>1. /\ A.hi \in End /\ A.hc \in BOOLEAN /\ (A.hc => A.hi \in Rational)
      /\ B.hi \in End /\ B.hc \in BOOLEAN
  BY IntervalType
<1>2. CASE Lt(B.hi, A.hi)
  <2>1. PICK x \in Rational : Holds(A, x) /\ Lt(B.hi, x)
    BY <1>1, <1>2, NumberAfter
  <2>2. ~Holds(B, x)
    BY <2>1, <1>1, HoldsByLt, RationalEnd, LtOneWay
  <2> QED BY <2>1, <2>2
<1>3. CASE ~Lt(B.hi, A.hi)
  <2>1. A.hc /\ ~B.hc /\ ~Lt(A.hi, B.hi)
    BY <1>1, <1>3 DEF EndsWithin
  <2>2. Holds(A, A.hi) /\ ~Holds(B, A.hi)
    BY <2>1, <1>1, Inhabited, HoldsByLt
  <2> QED BY <2>1, <2>2, <1>1
<1> QED BY <1>2, <1>3

(* Every number of A belongs to B. *)
AllHeldBy(A, B) == \A x \in Rational : Holds(A, x) => Holds(B, x)

(* Inclusion is decided at the ends. *)
LEMMA InclusionExact ==
    ASSUME NEW A \in Interval, NEW B \in Interval, ~IsEmpty(A)
    PROVE  AllHeldBy(A, B) <=> BeginsAfter(A, B) /\ EndsWithin(A, B)
<1>1. /\ A.lo \in End /\ A.lc \in BOOLEAN /\ A.hi \in End /\ A.hc \in BOOLEAN
      /\ B.lo \in End /\ B.lc \in BOOLEAN /\ B.hi \in End /\ B.hc \in BOOLEAN
  BY IntervalType
<1>2. ASSUME BeginsAfter(A, B), EndsWithin(A, B), NEW x \in Rational, Holds(A, x) PROVE Holds(B, x)
  <2>1. x \in End
    BY RationalEnd
  <2>2. IF A.lc THEN ~Lt(x, A.lo) ELSE Lt(A.lo, x)
    BY <1>2, HoldsByLt
  <2>3. IF A.hc THEN ~Lt(A.hi, x) ELSE Lt(x, A.hi)
    BY <1>2, HoldsByLt
  <2>4. IF B.lc THEN ~Lt(x, B.lo) ELSE Lt(B.lo, x)
    <3>1. CASE Lt(B.lo, A.lo)
      <4>1. Lt(B.lo, x)
        BY <3>1, <2>1, <2>2, <1>1, LtTransitive, LtEither
      <4> QED BY <4>1, <2>1, <1>1, LtOneWay
    <3>2. CASE ~Lt(B.lo, A.lo)
      <4>1. ~Lt(A.lo, B.lo) /\ (A.lc => B.lc)
        BY <3>2, <1>2 DEF BeginsAfter
      <4>2. (Lt(x, B.lo) => Lt(x, A.lo)) /\ (Lt(A.lo, x) => Lt(B.lo, x))
        BY <3>2, <4>1, <2>1, <1>1, LtEither
      <4> QED BY <4>1, <4>2, <2>1, <2>2, <1>1, LtOneWay
    <3> QED BY <3>1, <3>2
  <2>5. IF B.hc THEN ~Lt(B.hi, x) ELSE Lt(x, B.hi)
    <3>1. CASE Lt(A.hi, B.hi)
      <4>1. Lt(x, B.hi)
        BY <3>1, <2>1, <2>3, <1>1, LtTransitive, LtEither
      <4> QED BY <4>1, <2>1, <1>1, LtOneWay
    <3>2. CASE ~Lt(A.hi, B.hi)
      <4>1. ~Lt(B.hi, A.hi) /\ (A.hc => B.hc)
        BY <3>2, <1>2 DEF EndsWithin
      <4>2. (Lt(B.hi, x) => Lt(A.hi, x)) /\ (Lt(x, A.hi) => Lt(x, B.hi))
        BY <3>2, <4>1, <2>1, <1>1, LtEither
      <4> QED BY <4>1, <4>2, <2>1, <2>3, <1>1, LtOneWay
    <3> QED BY <3>1, <3>2
  <2> QED BY <2>4, <2>5, HoldsByLt
<1> QED BY <1>2, AfterExact, WithinExact DEF AllHeldBy

(* isSubsetOf (src/ir/interval.cpp:150) compares the ends of two intervals    *)
(* and whether they belong to them.  For all intervals, with rational or     *)
(* infinite ends, it answers whether every rational number of the first      *)
(* belongs to the second.                                                    *)
THEOREM SubsetExact ==
    ASSUME NEW A \in Interval, NEW B \in Interval
    PROVE  IsSubsetOf(A, B) <=> AllHeldBy(A, B)
<1>1. /\ A.lo \in End /\ A.lc \in BOOLEAN /\ A.hi \in End /\ A.hc \in BOOLEAN
      /\ B.lo \in End /\ B.lc \in BOOLEAN /\ B.hi \in End /\ B.hc \in BOOLEAN
  BY IntervalType
<1>2. CASE IsEmpty(A)
  BY <1>2, Inhabited DEF IsSubsetOf, AllHeldBy
<1>3. CASE ~IsEmpty(A) /\ IsEmpty(B)
  BY <1>3, Inhabited DEF IsSubsetOf, AllHeldBy
<1>4. CASE ~IsEmpty(A) /\ ~IsEmpty(B)
  <2>1. IsSubsetOf(A, B) <=> BeginsAfter(A, B) /\ EndsWithin(A, B)
    BY <1>1, <1>4, ByLt DEF IsSubsetOf, BeginsAfter, EndsWithin
  <2> QED BY <2>1, <1>4, InclusionExact
<1> QED BY <1>2, <1>3, <1>4

(* isSubsetEqOf (interval.cpp:240) asks the same by other tests, and is right *)
(* whenever the second interval is not empty.                                *)
THEOREM SubsetEqExact ==
    ASSUME NEW A \in Interval, NEW B \in Interval, ~IsEmpty(B)
    PROVE  IsSubsetEqOf(A, B) <=> AllHeldBy(A, B)
<1>1. /\ A.lo \in End /\ A.lc \in BOOLEAN /\ A.hi \in End /\ A.hc \in BOOLEAN
      /\ B.lo \in End /\ B.lc \in BOOLEAN /\ B.hi \in End /\ B.hc \in BOOLEAN
  BY IntervalType
<1>2. CASE IsEmpty(A)
  BY <1>2, Inhabited DEF IsSubsetEqOf, AllHeldBy
<1>3. CASE ~IsEmpty(A)
  <2>1. IsSubsetEqOf(A, B) <=> BeginsAfter(A, B) /\ EndsWithin(A, B)
    BY <1>1, <1>3, ByLt, LtOneWay DEF IsSubsetEqOf, BeginsAfter, EndsWithin
  <2> QED BY <2>1, <1>3, InclusionExact
<1> QED BY <1>2, <1>3

(* isSupersetOf (interval.cpp:165) is inclusion the other way round for all   *)
(* intervals that are not empty.                                             *)
THEOREM SupersetExact ==
    ASSUME NEW A \in Interval, NEW B \in Interval, ~IsEmpty(A), ~IsEmpty(B)
    PROVE  IsSupersetOf(A, B) <=> AllHeldBy(B, A)
<1>1. /\ A.lo \in End /\ A.lc \in BOOLEAN /\ A.hi \in End /\ A.hc \in BOOLEAN
      /\ B.lo \in End /\ B.lc \in BOOLEAN /\ B.hi \in End /\ B.hc \in BOOLEAN
  BY IntervalType
<1>2. IsSupersetOf(A, B) <=> BeginsAfter(B, A) /\ EndsWithin(B, A)
  BY <1>1, ByLt DEF IsSupersetOf, BeginsAfter, EndsWithin
<1> QED BY <1>2, InclusionExact

(* intersection (interval.cpp:202) of any two intervals is an interval, and   *)
(* what it holds are the numbers that both hold.                             *)
THEOREM IntersectionExact ==
    ASSUME NEW A \in Interval, NEW B \in Interval
    PROVE  /\ Intersection(A, B) \in Interval
           /\ \A x \in Rational : Holds(Intersection(A, B), x) <=> Holds(A, x) /\ Holds(B, x)
<1>1. /\ A.lo \in End /\ A.lc \in BOOLEAN /\ A.hi \in End /\ A.hc \in BOOLEAN
      /\ B.lo \in End /\ B.lc \in BOOLEAN /\ B.hi \in End /\ B.hc \in BOOLEAN
  BY IntervalType
<1>2. CASE IsEmpty(A) \/ IsEmpty(B)
  <2>1. Intersection(A, B) = Empty
    BY <1>2 DEF Intersection
  <2>2. Empty \in Interval /\ IsEmpty(Empty)
    <3>1. Empty \in Interval
      BY DEF Empty, Iv, Num, Fraction, Rational, Interval, Lower, Upper, End
    <3>2. IsEmpty(Empty)
      BY DEF Empty, IsEmpty, IsPoint, Iv, Num, Fraction, Gt, Le, Lt, Eq, IsNaN
    <3> QED BY <3>1, <3>2
  <2> QED BY <2>1, <2>2, <1>2, Inhabited
<1>3. CASE ~IsEmpty(A) /\ ~IsEmpty(B)
  <2> DEFINE lo == MaxOf(A.lo, B.lo)
             hi == MinOf(A.hi, B.hi)
             lc == IF Lt(A.lo, B.lo) THEN B.lc ELSE IF Gt(A.lo, B.lo) THEN A.lc ELSE A.lc /\ B.lc
             hc == IF Gt(A.hi, B.hi) THEN B.hc ELSE IF Lt(A.hi, B.hi) THEN A.hc ELSE A.hc /\ B.hc
             C == Iv(lo, hi, lc, hc)
  <2>1. Intersection(A, B) = C
    BY <1>3 DEF Intersection
  <2>2. /\ lo \in Lower /\ hi \in Upper /\ lc \in BOOLEAN /\ hc \in BOOLEAN
        /\ lc => lo \in Rational
        /\ hc => hi \in Rational
    BY <1>1, ByLt DEF MaxOf, MinOf, Interval
  <2>3. C \in Interval /\ C.lo = lo /\ C.hi = hi /\ C.lc = lc /\ C.hc = hc
    <3> HIDE DEF lo, hi, lc, hc
    <3> QED BY <2>2, IntervalMade
  <2>4. ASSUME NEW x \in Rational PROVE Holds(C, x) <=> Holds(A, x) /\ Holds(B, x)
    <3> DEFINE Above(E) == IF E.lc THEN ~Lt(x, E.lo) ELSE Lt(E.lo, x)
               Below(E) == IF E.hc THEN ~Lt(E.hi, x) ELSE Lt(x, E.hi)
    <3>0. x \in End
      BY RationalEnd
    <3>1. (IF lc THEN ~Lt(x, lo) ELSE Lt(lo, x)) <=> Above(A) /\ Above(B)
      BY <1>1, <3>0, ByLt, LtEither, LtTransitive, LtOneWay DEF MaxOf
    <3>2. (IF hc THEN ~Lt(hi, x) ELSE Lt(x, hi)) <=> Below(A) /\ Below(B)
      BY <1>1, <3>0, ByLt, LtEither, LtTransitive, LtOneWay DEF MinOf
    <3>3. Holds(C, x) <=> Above(C) /\ Below(C)
      <4> HIDE DEF C
      <4> QED BY <2>3, HoldsByLt
    <3>4. Above(C) <=> (IF lc THEN ~Lt(x, lo) ELSE Lt(lo, x))
      <4> HIDE DEF C, lc, lo
      <4> QED BY <2>3
    <3>5. Below(C) <=> (IF hc THEN ~Lt(hi, x) ELSE Lt(x, hi))
      <4> HIDE DEF C, hc, hi
      <4> QED BY <2>3
    <3>6. (Holds(A, x) <=> Above(A) /\ Below(A)) /\ (Holds(B, x) <=> Above(B) /\ Below(B))
      BY HoldsByLt
    <3> HIDE DEF Above, Below, C, lo, hi, lc, hc
    <3> QED BY <3>1, <3>2, <3>3, <3>4, <3>5, <3>6
  <2> QED BY <2>1, <2>3, <2>4
<1> QED BY <1>2, <1>3

(* Some number belongs to both. *)
Meet(A, B) == \E x \in Rational : Holds(A, x) /\ Holds(B, x)

(* isDisjointFrom and isIntersectingWith (interval.cpp:179, 194) say whether  *)
(* two intervals have a rational number in common.                           *)
THEOREM DisjointExact ==
    ASSUME NEW A \in Interval, NEW B \in Interval
    PROVE  /\ ~IsEmpty(A) /\ ~IsEmpty(B) => (IsDisjointFrom(A, B) <=> ~Meet(A, B))
           /\ IsIntersectingWith(A, B) <=> Meet(A, B)
<1>1. /\ A.lo \in End /\ A.lc \in BOOLEAN /\ A.hi \in End /\ A.hc \in BOOLEAN
      /\ B.lo \in End /\ B.lc \in BOOLEAN /\ B.hi \in End /\ B.hc \in BOOLEAN
  BY IntervalType
<1>2. CASE IsEmpty(A) \/ IsEmpty(B)
  BY <1>2, Inhabited DEF IsIntersectingWith, Meet
<1>3. CASE ~IsEmpty(A) /\ ~IsEmpty(B)
  <2>1. IsDisjointFrom(A, B) <=> IsEmpty(Intersection(A, B))
    <3> DEFINE lo == MaxOf(A.lo, B.lo)
               hi == MinOf(A.hi, B.hi)
               lc == IF Lt(A.lo, B.lo) THEN B.lc ELSE IF Gt(A.lo, B.lo) THEN A.lc ELSE A.lc /\ B.lc
               hc == IF Gt(A.hi, B.hi) THEN B.hc ELSE IF Lt(A.hi, B.hi) THEN A.hc ELSE A.hc /\ B.hc
               C == Iv(lo, hi, lc, hc)
    <3>1. Intersection(A, B) = C /\ C.lo = lo /\ C.hi = hi /\ C.lc = lc /\ C.hc = hc
      BY <1>3 DEF Intersection, Iv
    <3>2. C \in Interval
      BY <3>1, IntersectionExact
    <3>3. IsEmpty(C) <=> ~Lt(lo, hi) /\ (Lt(hi, lo) \/ ~lc \/ ~hc)
      <4> HIDE DEF C, lo, hi, lc, hc
      <4> QED BY <3>1, <3>2, EmptyByLt
    <3>4. /\ ~Lt(A.lo, A.hi) => ~Lt(A.hi, A.lo) /\ A.lc /\ A.hc
          /\ ~Lt(B.lo, B.hi) => ~Lt(B.hi, B.lo) /\ B.lc /\ B.hc
      BY <1>3, EmptyByLt
    <3>5. IsDisjointFrom(A, B) <=>
            \/ Lt(A.hi, B.lo) \/ (~Lt(B.lo, A.hi) /\ (~A.hc \/ ~B.lc))
            \/ Lt(B.hi, A.lo) \/ (~Lt(A.lo, B.hi) /\ (~B.hc \/ ~A.lc))
      BY <1>1, <1>3, ByLt DEF IsDisjointFrom, Before
    <3>6. ~Lt(lo, hi) /\ (Lt(hi, lo) \/ ~lc \/ ~hc) <=>
            \/ Lt(A.hi, B.lo) \/ (~Lt(B.lo, A.hi) /\ (~A.hc \/ ~B.lc))
            \/ Lt(B.hi, A.lo) \/ (~Lt(A.lo, B.hi) /\ (~B.hc \/ ~A.lc))
      BY <1>1, <3>4, ByLt, LtEither, LtTransitive, LtOneWay DEF MaxOf, MinOf
    <3> QED BY <3>1, <3>3, <3>5, <3>6
  <2> QED BY <2>1, <1>3, IntersectionExact, Inhabited DEF IsIntersectingWith, Meet
<1> QED BY <1>2, <1>3

(* unionWith (interval.cpp:217) throws exactly for intervals without a common *)
(* number, and else holds what either holds: nothing between them is added.  *)
THEOREM UnionExact ==
    ASSUME NEW A \in Interval, NEW B \in Interval, ~IsEmpty(A), ~IsEmpty(B)
    PROVE  /\ IsThrown(UnionWith(A, B)) <=> ~Meet(A, B)
           /\ Meet(A, B) => /\ UnionWith(A, B) \in Interval
                            /\ \A x \in Rational : Holds(UnionWith(A, B), x) <=> Holds(A, x) \/ Holds(B, x)
<1>1. /\ A.lo \in End /\ A.lc \in BOOLEAN /\ A.hi \in End /\ A.hc \in BOOLEAN
      /\ B.lo \in End /\ B.lc \in BOOLEAN /\ B.hi \in End /\ B.hc \in BOOLEAN
  BY IntervalType
<1>2. CASE ~Meet(A, B)
  <2>1. UnionWith(A, B) = Thrown
    BY <1>2, DisjointExact DEF UnionWith
  <2> QED BY <2>1, <1>2 DEF IsThrown, Thrown, Iv, NaN, Fraction, IsNaN
<1>3. CASE Meet(A, B)
  <2> DEFINE lo == MinOf(A.lo, B.lo)
             hi == MaxOf(A.hi, B.hi)
             lc == IF Lt(A.lo, B.lo) THEN A.lc ELSE IF Lt(B.lo, A.lo) THEN B.lc ELSE A.lc \/ B.lc
             hc == IF Gt(A.hi, B.hi) THEN A.hc ELSE IF Gt(B.hi, A.hi) THEN B.hc ELSE A.hc \/ B.hc
             C == Iv(lo, hi, lc, hc)
  <2>1. UnionWith(A, B) = C
    BY <1>3, DisjointExact DEF UnionWith, Hull
  <2>2. /\ lo \in Lower /\ hi \in Upper /\ lc \in BOOLEAN /\ hc \in BOOLEAN
        /\ lc => lo \in Rational
        /\ hc => hi \in Rational
    <3>1. /\ A.lo \in Lower /\ B.lo \in Lower
          /\ A.hi \in Upper /\ B.hi \in Upper
          /\ (A.lc => A.lo \in Rational) /\ (B.lc => B.lo \in Rational)
          /\ (A.hc => A.hi \in Rational) /\ (B.hc => B.hi \in Rational)
      BY DEF Interval
    <3>2. ~Lt(A.lo, B.lo) /\ ~Lt(B.lo, A.lo) /\ A.lo \in Rational => B.lo \in Rational
      BY <3>1, <1>1, EndType, LtCases DEF Lower
    <3>3. ~Lt(A.lo, B.lo) /\ ~Lt(B.lo, A.lo) /\ B.lo \in Rational => A.lo \in Rational
      BY <3>1, <1>1, EndType, LtCases DEF Lower
    <3>4. ~Lt(A.hi, B.hi) /\ ~Lt(B.hi, A.hi) /\ A.hi \in Rational => B.hi \in Rational
      BY <3>1, <1>1, EndType, LtCases DEF Upper
    <3>5. ~Lt(A.hi, B.hi) /\ ~Lt(B.hi, A.hi) /\ B.hi \in Rational => A.hi \in Rational
      BY <3>1, <1>1, EndType, LtCases DEF Upper
    <3> QED BY <1>1, <3>1, <3>2, <3>3, <3>4, <3>5, ByLt, LtOneWay DEF MaxOf, MinOf
  <2>3. C \in Interval /\ C.lo = lo /\ C.hi = hi /\ C.lc = lc /\ C.hc = hc
    <3> HIDE DEF lo, hi, lc, hc
    <3> QED BY <2>2, IntervalMade
  <2> DEFINE Above(E, x) == IF E.lc THEN ~Lt(x, E.lo) ELSE Lt(E.lo, x)
             Below(E, x) == IF E.hc THEN ~Lt(E.hi, x) ELSE Lt(x, E.hi)
  <2>4. PICK z \in Rational : Above(A, z) /\ Below(A, z) /\ Above(B, z) /\ Below(B, z)
    BY <1>3, HoldsByLt DEF Meet
  <2>5. ASSUME NEW x \in Rational PROVE Holds(C, x) <=> Holds(A, x) \/ Holds(B, x)
    <3>0. x \in End /\ z \in End
      BY RationalEnd
    <3>1. (IF lc THEN ~Lt(x, lo) ELSE Lt(lo, x)) <=> Above(A, x) \/ Above(B, x)
      BY <1>1, <3>0, ByLt, LtEither, LtTransitive, LtOneWay DEF MinOf
    <3>2. (IF hc THEN ~Lt(hi, x) ELSE Lt(x, hi)) <=> Below(A, x) \/ Below(B, x)
      BY <1>1, <3>0, ByLt, LtEither, LtTransitive, LtOneWay DEF MaxOf
    <3>3. Holds(C, x) <=> Above(C, x) /\ Below(C, x)
      <4> HIDE DEF C
      <4> QED BY <2>3, HoldsByLt
    <3>4. Above(C, x) <=> (IF lc THEN ~Lt(x, lo) ELSE Lt(lo, x))
      <4> HIDE DEF C, lc, lo
      <4> QED BY <2>3
    <3>5. Below(C, x) <=> (IF hc THEN ~Lt(hi, x) ELSE Lt(x, hi))
      <4> HIDE DEF C, hc, hi
      <4> QED BY <2>3
    <3>6. (Holds(A, x) <=> Above(A, x) /\ Below(A, x)) /\ (Holds(B, x) <=> Above(B, x) /\ Below(B, x))
      BY HoldsByLt
    <3>7. /\ Lt(x, z) => Below(A, x) /\ Below(B, x)
          /\ ~Lt(x, z) => Above(A, x) /\ Above(B, x)
      BY <2>4, <3>0, <1>1, LtEither, LtTransitive, LtOneWay
    <3> HIDE DEF Above, Below, C, lo, hi, lc, hc
    <3> QED BY <3>1, <3>2, <3>3, <3>4, <3>5, <3>6, <3>7
  <2>6. ~IsThrown(C)
    <3> HIDE DEF C
    <3> QED BY <2>3, IntervalType, EndType DEF IsThrown
  <2> QED BY <2>1, <2>3, <2>5, <2>6, <1>3
<1> QED BY <1>2, <1>3

(* x belongs to one of a list of intervals. *)
HeldByOne(s, x) == \E i \in DOMAIN s : Holds(s[i], x)

(* difference (interval.cpp:269) holds the numbers of the first interval that *)
(* the second does not, for intervals of which neither includes the other:   *)
(* the cases of inclusion are tested the wrong way round in the code.        *)
THEOREM DifferenceExact ==
    ASSUME NEW A \in Interval, NEW B \in Interval, ~IsEmpty(A), ~IsEmpty(B), ~AllHeldBy(A, B), ~AllHeldBy(B, A)
    PROVE  \A x \in Rational : HeldByOne(Difference(A, B), x) <=> Holds(A, x) /\ ~Holds(B, x)
<1>1. /\ A.lo \in End /\ A.lc \in BOOLEAN /\ A.hi \in End /\ A.hc \in BOOLEAN
      /\ B.lo \in End /\ B.lc \in BOOLEAN /\ B.hi \in End /\ B.hc \in BOOLEAN
  BY IntervalType
<1>2. ~IsSupersetOf(A, B) /\ ~IsSubsetOf(A, B)
  BY SubsetExact, SupersetExact
<1>3. CASE IsDisjointFrom(A, B)
  <2>1. Difference(A, B) = <<A>>
    BY <1>3 DEF Difference
  <2>2. \A x \in Rational : ~(Holds(A, x) /\ Holds(B, x))
    BY <1>3, DisjointExact DEF Meet
  <2> QED BY <2>1, <2>2 DEF HeldByOne
<1>4. CASE ~IsDisjointFrom(A, B)
  <2> DEFINE left == Iv(A.lo, B.lo, A.lc, ~B.lc)
             right == Iv(B.hi, A.hi, ~B.hc, A.hc)
             fromLeft == /\ Le(B.lo, A.lo)
                         /\ Lt(B.hi, A.hi) \/ (Eq(B.hi, A.hi) /\ ~B.hc /\ A.hc)
             fromRight == /\ Gt(B.lo, A.lo) \/ (Eq(B.lo, A.lo) /\ ~B.lc /\ A.lc)
                          /\ Gt(B.hi, A.hi) \/ (Eq(B.hi, A.hi) /\ (B.hc \/ ~A.hc))
  <2>1. Difference(A, B) = IF fromLeft THEN <<right>> ELSE IF fromRight THEN <<left>> ELSE << >>
    BY <1>2, <1>4 DEF Difference
  <2>2. /\ ~(BeginsAfter(A, B) /\ EndsWithin(A, B)) /\ ~(BeginsAfter(B, A) /\ EndsWithin(B, A))
    BY InclusionExact
  <2> DEFINE Above(E, x) == IF E.lc THEN ~Lt(x, E.lo) ELSE Lt(E.lo, x)
             Below(E, x) == IF E.hc THEN ~Lt(E.hi, x) ELSE Lt(x, E.hi)
  <2>3. PICK z \in Rational : Above(A, z) /\ Below(A, z) /\ Above(B, z) /\ Below(B, z)
    BY <1>4, DisjointExact, HoldsByLt DEF Meet
  <2>0. /\ BeginsAfter(A, B) \/ BeginsAfter(B, A)
        /\ EndsWithin(A, B) \/ EndsWithin(B, A)
    BY <1>1 DEF BeginsAfter, EndsWithin
  <2>a. \A x \in Rational : /\ Holds(A, x) <=> Above(A, x) /\ Below(A, x)
                            /\ Holds(B, x) <=> Above(B, x) /\ Below(B, x)
    BY HoldsByLt
  <2>b. fromLeft <=> ~Lt(A.lo, B.lo) /\ ~EndsWithin(A, B)
    BY <1>1, ByLt, LtOneWay DEF EndsWithin
  <2>c. fromRight <=> ~BeginsAfter(A, B) /\ EndsWithin(A, B)
    BY <1>1, ByLt, LtOneWay DEF BeginsAfter, EndsWithin
  <2>4. CASE fromLeft
    <3>1. EndsWithin(B, A) /\ ~BeginsAfter(B, A) /\ BeginsAfter(A, B)
      BY <2>0, <2>2, <2>4, <2>b
    <3>2. B.hi \in Rational
      <4>1. /\ B.hi \in Upper /\ (A.hc => A.hi \in Rational)
        BY DEF Interval
      <4>2. Lt(B.hi, A.hi) \/ (~Lt(A.hi, B.hi) /\ A.hc)
        BY <2>4, <1>1, ByLt
      <4> QED BY <4>1, <4>2, <1>1, EndType, LtCases DEF Upper
    <3>3. right \in Interval /\ right.lo = B.hi /\ right.hi = A.hi /\ right.lc = ~B.hc /\ right.hc = A.hc
      BY <3>2, <1>1, RationalEnd DEF Interval, Iv
    <3>4. ASSUME NEW x \in Rational PROVE Holds(right, x) <=> Holds(A, x) /\ ~Holds(B, x)
      <4>0. x \in End /\ z \in End
        BY RationalEnd
      <4>1. Holds(right, x) <=> ~Below(B, x) /\ Below(A, x)
        <5> HIDE DEF right
        <5> QED BY <3>3, <1>1, HoldsByLt
      <4>2. Above(A, x) => Above(B, x)
        BY <3>1, <1>1, <4>0, LtEither, LtTransitive, LtOneWay DEF BeginsAfter
      <4>3. ~Below(B, x) => Above(A, x)
        BY <2>3, <1>1, <4>0, LtEither, LtTransitive, LtOneWay
      <4> HIDE DEF Above, Below, right
      <4> QED BY <2>a, <4>1, <4>2, <4>3
    <3> HIDE DEF right, fromLeft
    <3>5. Difference(A, B) = <<right>>
      BY <2>1, <2>4
    <3> QED BY <3>4, <3>5 DEF HeldByOne
  <2>5. CASE ~fromLeft
    <3>1. ~BeginsAfter(A, B) /\ EndsWithin(A, B) /\ BeginsAfter(B, A) /\ ~EndsWithin(B, A)
      BY <2>0, <2>2, <2>5, <2>b DEF BeginsAfter
    <3>2. B.lo \in Rational
      <4>1. /\ B.lo \in Lower /\ (A.lc => A.lo \in Rational)
        BY DEF Interval
      <4>2. Lt(A.lo, B.lo) \/ (~Lt(B.lo, A.lo) /\ A.lc)
        BY <3>1, <1>1 DEF BeginsAfter
      <4> QED BY <4>1, <4>2, <1>1, EndType, LtCases DEF Lower
    <3>3. left \in Interval /\ left.lo = A.lo /\ left.hi = B.lo /\ left.lc = A.lc /\ left.hc = ~B.lc
      BY <3>2, <1>1, RationalEnd DEF Interval, Iv
    <3>4. ASSUME NEW x \in Rational PROVE Holds(left, x) <=> Holds(A, x) /\ ~Holds(B, x)
      <4>0. x \in End /\ z \in End
        BY RationalEnd
      <4>1. Holds(left, x) <=> ~Above(B, x) /\ Above(A, x)
        <5> HIDE DEF left
        <5> QED BY <3>3, <1>1, HoldsByLt
      <4>2. Below(A, x) => Below(B, x)
        BY <3>1, <1>1, <4>0, LtEither, LtTransitive, LtOneWay DEF EndsWithin
      <4>3. ~Above(B, x) => Below(A, x)
        BY <2>3, <1>1, <4>0, LtEither, LtTransitive, LtOneWay
      <4> HIDE DEF Above, Below, left
      <4> QED BY <2>a, <4>1, <4>2, <4>3
    <3> HIDE DEF left, right, fromLeft, fromRight
    <3>5. Difference(A, B) = <<left>>
      BY <2>1, <2>5, <2>c, <3>1
    <3> QED BY <3>4, <3>5 DEF HeldByOne
  <2> QED BY <2>4, <2>5
<1> QED BY <1>3, <1>4

-----------------------------------------------------------------------------
(* Arithmetic *)

(* Sums with one number compare as the others do. *)
LEMMA PlusLess ==
    ASSUME NEW x \in Rational, NEW y \in Rational, NEW u \in Rational
    PROVE  /\ Plus(x, u) \in Rational
           /\ Plus(x, u) = Plus(u, x)
           /\ Lt(Plus(x, u), Plus(y, u)) <=> Lt(x, y)
<1>1. /\ x.n \in Int /\ x.d \in Nat /\ x.d > 0 /\ x \in End
      /\ y.n \in Int /\ y.d \in Nat /\ y.d > 0 /\ y \in End
      /\ u.n \in Int /\ u.d \in Nat /\ u.d > 0 /\ u \in End
  BY RationalEnd, EndType
<1>2. \A p, q \in Rational : p.d # 0 /\ q.d # 0
  BY DEF Rational
<1>3. /\ Plus(x, u) = Fraction(x.n * u.d + u.n * x.d, x.d * u.d)
      /\ Plus(u, x) = Fraction(u.n * x.d + x.n * u.d, u.d * x.d)
      /\ Plus(y, u) = Fraction(y.n * u.d + u.n * y.d, y.d * u.d)
  BY <1>2 DEF Plus
<1>4. /\ x.d * u.d \in Nat \ {0} /\ y.d * u.d \in Nat \ {0} /\ u.d * u.d \in Nat \ {0}
      /\ x.n * u.d + u.n * x.d \in Int /\ y.n * u.d + u.n * y.d \in Int
      /\ x.d * u.d = u.d * x.d
  BY <1>1, SMTT(20)
<1>5. /\ Plus(x, u) \in Rational /\ Plus(y, u) \in Rational
  BY <1>3, <1>4 DEF Rational, Fraction
<1>6. Plus(x, u) = Plus(u, x)
  BY <1>1, <1>3, <1>4
<1>7. Lt(Plus(x, u), Plus(y, u)) <=> (x.n * u.d + u.n * x.d) * (y.d * u.d) < (y.n * u.d + u.n * y.d) * (x.d * u.d)
  BY <1>3, <1>5, RationalEnd, EndType, LtCases DEF LessFraction, Fraction
<1>8. (x.n * u.d + u.n * x.d) * (y.d * u.d) < (y.n * u.d + u.n * y.d) * (x.d * u.d) <=> x.n * y.d < y.n * x.d
  <2> DEFINE a == x.n  b == x.d  c == y.n  d == y.d  e == u.n  f == u.d
             k == f * f
             common == (e * f) * (b * d)
  <2>1. a \in Int /\ b \in Int /\ c \in Int /\ d \in Int /\ e \in Int /\ f \in Int /\ k \in Int /\ k > 0
    BY <1>1, <1>4
  <2> HIDE DEF a, b, c, d, e, f
  <2>2. common \in Int /\ a * d \in Int /\ c * b \in Int /\ (a * d) * k \in Int /\ (c * b) * k \in Int
    BY <2>1
  <2>3. /\ (a * f + e * b) * (d * f) = (a * d) * k + common
        /\ (c * f + e * d) * (b * f) = (c * b) * k + common
    BY <2>1, SMTT(20)
  <2> HIDE DEF k, common
  <2>4. (a * d) * k < (c * b) * k <=> a * d < c * b
    BY <2>1, <2>2, Scaled
  <2>5. (a * f + e * b) * (d * f) < (c * f + e * d) * (b * f) <=> a * d < c * b
    BY <2>2, <2>3, <2>4
  <2> QED BY <2>5 DEF a, b, c, d, e, f
<1>9. Lt(x, y) <=> x.n * y.d < y.n * x.d
  BY <1>1, LtCases DEF LessFraction
<1> QED BY <1>5, <1>6, <1>7, <1>8, <1>9

(* Sums of lower ends are lower ends, below the sums of numbers above them;   *)
(* the same for upper ends.                                                 *)
LEMMA LowerSum ==
    ASSUME NEW x \in Lower, NEW y \in Lower, NEW u \in Rational, NEW v \in Rational
    PROVE  /\ Plus(x, y) \in Lower
           /\ x \in Rational /\ y \in Rational => Plus(x, y) \in Rational
           /\ ~Lt(u, x) /\ ~Lt(v, y) => ~Lt(Plus(u, v), Plus(x, y))
           /\ ~Lt(u, x) /\ ~Lt(v, y) /\ (Lt(x, u) \/ Lt(y, v)) => Lt(Plus(x, y), Plus(u, v))
<1>1. /\ x.n \in Int /\ x.d \in Nat /\ (x.d = 0 => x.n < 0) /\ x \in End /\ (x \in Rational <=> x.d > 0)
      /\ y.n \in Int /\ y.d \in Nat /\ (y.d = 0 => y.n < 0) /\ y \in End /\ (y \in Rational <=> y.d > 0)
      /\ u \in End /\ v \in End
  BY RationalEnd, EndType DEF Lower
<1>2. Plus(u, v) \in Rational /\ Plus(u, v) \in End
  BY PlusLess, RationalEnd
<1>3. CASE x.d > 0 /\ y.d > 0
  <2>1. /\ Plus(x, y) \in Rational /\ Plus(u, y) \in Rational /\ Plus(x, y) \in Lower
        /\ Lt(Plus(x, y), Plus(u, y)) <=> Lt(x, u)
        /\ Lt(Plus(u, y), Plus(x, y)) <=> Lt(u, x)
    BY <1>1, <1>3, PlusLess, RationalEnd
  <2>2. /\ Plus(u, y) = Plus(y, u) /\ Plus(u, v) = Plus(v, u)
        /\ Lt(Plus(y, u), Plus(v, u)) <=> Lt(y, v)
        /\ Lt(Plus(v, u), Plus(y, u)) <=> Lt(v, y)
    BY <1>1, <1>3, PlusLess
  <2>3. /\ Lt(Plus(u, y), Plus(u, v)) <=> Lt(y, v)
        /\ Lt(Plus(u, v), Plus(u, y)) <=> Lt(v, y)
    BY <2>2
  <2> QED BY <2>1, <2>3, <1>2, RationalEnd, LtEither, LtOneWay, LtTransitive
<1>4. CASE ~(x.d > 0 /\ y.d > 0)
  <2>1. Plus(x, y) \in Lower /\ Plus(x, y) \in End /\ Plus(x, y).d = 0 /\ Plus(x, y).n < 0
    <3>1. CASE x.d = 0 /\ y.d = 0
      BY <3>1, <1>1 DEF Plus, Fraction, Lower, End
    <3>2. CASE x.d = 0 /\ y.d > 0
      BY <3>2, <1>1 DEF Plus, Lower
    <3>3. CASE x.d > 0 /\ y.d = 0
      BY <3>3, <1>1 DEF Plus, Lower
    <3> QED BY <3>1, <3>2, <3>3, <1>1, <1>4
  <2>2. Lt(Plus(x, y), Plus(u, v))
    BY <2>1, <1>2, EndType, LtCases
  <2> QED BY <2>1, <2>2, <1>1, <1>2, <1>4, LtOneWay
<1> QED BY <1>1, <1>3, <1>4

LEMMA UpperSum ==
    ASSUME NEW x \in Upper, NEW y \in Upper, NEW u \in Rational, NEW v \in Rational
    PROVE  /\ Plus(x, y) \in Upper
           /\ x \in Rational /\ y \in Rational => Plus(x, y) \in Rational
           /\ ~Lt(x, u) /\ ~Lt(y, v) => ~Lt(Plus(x, y), Plus(u, v))
           /\ ~Lt(x, u) /\ ~Lt(y, v) /\ (Lt(u, x) \/ Lt(v, y)) => Lt(Plus(u, v), Plus(x, y))
<1>1. /\ x.n \in Int /\ x.d \in Nat /\ (x.d = 0 => x.n > 0) /\ x \in End /\ (x \in Rational <=> x.d > 0)
      /\ y.n \in Int /\ y.d \in Nat /\ (y.d = 0 => y.n > 0) /\ y \in End /\ (y \in Rational <=> y.d > 0)
      /\ u \in End /\ v \in End
  BY RationalEnd, EndType DEF Upper
<1>2. Plus(u, v) \in Rational /\ Plus(u, v) \in End
  BY PlusLess, RationalEnd
<1>3. CASE x.d > 0 /\ y.d > 0
  <2>1. /\ Plus(x, y) \in Rational /\ Plus(u, y) \in Rational /\ Plus(x, y) \in Upper
        /\ Lt(Plus(x, y), Plus(u, y)) <=> Lt(x, u)
        /\ Lt(Plus(u, y), Plus(x, y)) <=> Lt(u, x)
    BY <1>1, <1>3, PlusLess, RationalEnd
  <2>2. /\ Plus(u, y) = Plus(y, u) /\ Plus(u, v) = Plus(v, u)
        /\ Lt(Plus(y, u), Plus(v, u)) <=> Lt(y, v)
        /\ Lt(Plus(v, u), Plus(y, u)) <=> Lt(v, y)
    BY <1>1, <1>3, PlusLess
  <2>3. /\ Lt(Plus(u, y), Plus(u, v)) <=> Lt(y, v)
        /\ Lt(Plus(u, v), Plus(u, y)) <=> Lt(v, y)
    BY <2>2
  <2> QED BY <2>1, <2>3, <1>2, RationalEnd, LtEither, LtOneWay, LtTransitive
<1>4. CASE ~(x.d > 0 /\ y.d > 0)
  <2>1. Plus(x, y) \in Upper /\ Plus(x, y) \in End /\ Plus(x, y).d = 0 /\ Plus(x, y).n > 0
    <3>1. CASE x.d = 0 /\ y.d = 0
      BY <3>1, <1>1 DEF Plus, Fraction, Upper, End
    <3>2. CASE x.d = 0 /\ y.d > 0
      BY <3>2, <1>1 DEF Plus, Upper
    <3>3. CASE x.d > 0 /\ y.d = 0
      BY <3>3, <1>1 DEF Plus, Upper
    <3> QED BY <3>1, <3>2, <3>3, <1>1, <1>4
  <2>2. Lt(Plus(u, v), Plus(x, y))
    BY <2>1, <1>2, EndType, LtCases
  <2> QED BY <2>1, <2>2, <1>1, <1>2, <1>4, LtOneWay
<1> QED BY <1>1, <1>3, <1>4

(* The constant for the empty interval is one. *)
LEMMA EmptyIsEmpty == Empty \in Interval /\ IsEmpty(Empty)
<1>1. Empty \in Interval
  BY DEF Empty, Iv, Num, Fraction, Interval, Lower, Upper, End, Rational
<1>2. IsEmpty(Empty)
  BY DEF Empty, IsEmpty, IsPoint, Iv, Num, Fraction, Gt, Le, Lt, Eq, IsNaN
<1> QED BY <1>1, <1>2

(* operator+ (interval.cpp:1440): the sum of two intervals holds the sums of  *)
(* their numbers.                                                            *)
THEOREM AddEncloses ==
    ASSUME NEW A \in Interval, NEW B \in Interval
    PROVE  /\ Add(A, B) \in Interval
           /\ \A u, v \in Rational : Holds(A, u) /\ Holds(B, v) => Holds(Add(A, B), Plus(u, v))
<1>1. CASE IsEmpty(A) \/ IsEmpty(B)
  BY <1>1, EmptyIsEmpty, Inhabited DEF Add
<1>2. CASE ~IsEmpty(A) /\ ~IsEmpty(B)
  <2>1. /\ A.lo \in Lower /\ A.lc \in BOOLEAN /\ A.hi \in Upper /\ A.hc \in BOOLEAN
        /\ B.lo \in Lower /\ B.lc \in BOOLEAN /\ B.hi \in Upper /\ B.hc \in BOOLEAN
        /\ (A.lc => A.lo \in Rational) /\ (A.hc => A.hi \in Rational)
        /\ (B.lc => B.lo \in Rational) /\ (B.hc => B.hi \in Rational)
    BY DEF Interval
  <2> DEFINE lo == Plus(A.lo, B.lo)
             hi == Plus(A.hi, B.hi)
             lc == A.lc /\ B.lc
             hc == A.hc /\ B.hc
             C == Iv(lo, hi, lc, hc)
  <2>2. Add(A, B) = C
    BY <1>2 DEF Add
  <2>3. /\ lo \in Lower /\ hi \in Upper /\ lc \in BOOLEAN /\ hc \in BOOLEAN
        /\ (lc => lo \in Rational) /\ (hc => hi \in Rational)
    <3>1. [n |-> 0, d |-> 1] \in Rational
      BY DEF Rational
    <3> QED BY <2>1, <3>1, LowerSum, UpperSum
  <2>4. C \in Interval /\ C.lo = lo /\ C.hi = hi /\ C.lc = lc /\ C.hc = hc
    <3> HIDE DEF lo, hi, lc, hc
    <3> QED BY <2>3, IntervalMade
  <2>5. ASSUME NEW u \in Rational, NEW v \in Rational, Holds(A, u), Holds(B, v) PROVE Holds(C, Plus(u, v))
    <3> DEFINE w == Plus(u, v)
    <3>1. w \in Rational /\ w \in End /\ u \in End /\ v \in End
      BY PlusLess, RationalEnd
    <3>2. /\ IF A.lc THEN ~Lt(u, A.lo) ELSE Lt(A.lo, u)
          /\ IF A.hc THEN ~Lt(A.hi, u) ELSE Lt(u, A.hi)
          /\ IF B.lc THEN ~Lt(v, B.lo) ELSE Lt(B.lo, v)
          /\ IF B.hc THEN ~Lt(B.hi, v) ELSE Lt(v, B.hi)
      BY <2>5, HoldsByLt
    <3>3. IF lc THEN ~Lt(w, lo) ELSE Lt(lo, w)
      BY <2>1, <3>1, <3>2, LowerSum, LtOneWay, IntervalType
    <3>4. IF hc THEN ~Lt(hi, w) ELSE Lt(w, hi)
      BY <2>1, <3>1, <3>2, UpperSum, LtOneWay, IntervalType
    <3> HIDE DEF C, lo, hi, lc, hc, w
    <3>5. Holds(C, w)
      BY <2>4, <3>1, <3>3, <3>4, HoldsByLt
    <3> QED BY <3>5 DEF w
  <2> HIDE DEF C
  <2> QED BY <2>2, <2>4, <2>5
<1> QED BY <1>1, <1>2

(* An interval whose ends move as the number does holds it as before. *)
LEMMA MovedHolds ==
    ASSUME NEW A \in Interval, NEW u \in Rational, NEW w \in Rational, NEW lo \in Lower, NEW hi \in Upper,
           A.lc => lo \in Rational, A.hc => hi \in Rational,
           Lt(w, lo) <=> Lt(u, A.lo), Lt(lo, w) <=> Lt(A.lo, u),
           Lt(w, hi) <=> Lt(u, A.hi), Lt(hi, w) <=> Lt(A.hi, u)
    PROVE  /\ Iv(lo, hi, A.lc, A.hc) \in Interval
           /\ Holds(Iv(lo, hi, A.lc, A.hc), w) <=> Holds(A, u)
<1> DEFINE C == Iv(lo, hi, A.lc, A.hc)
<1>1. C \in Interval /\ C.lo = lo /\ C.hi = hi /\ C.lc = A.lc /\ C.hc = A.hc
  BY IntervalType, IntervalMade
<1> HIDE DEF C
<1>2. Holds(C, w) <=> Holds(A, u)
  BY <1>1, HoldsByLt
<1> QED BY <1>1, <1>2 DEF C

(* The same for ends and a number that change their order. *)
LEMMA TurnedHolds ==
    ASSUME NEW A \in Interval, NEW u \in Rational, NEW w \in Rational, NEW lo \in Lower, NEW hi \in Upper,
           A.hc => lo \in Rational, A.lc => hi \in Rational,
           Lt(w, lo) <=> Lt(A.hi, u), Lt(lo, w) <=> Lt(u, A.hi),
           Lt(w, hi) <=> Lt(A.lo, u), Lt(hi, w) <=> Lt(u, A.lo)
    PROVE  /\ Iv(lo, hi, A.hc, A.lc) \in Interval
           /\ Holds(Iv(lo, hi, A.hc, A.lc), w) <=> Holds(A, u)
<1> DEFINE C == Iv(lo, hi, A.hc, A.lc)
<1>1. C \in Interval /\ C.lo = lo /\ C.hi = hi /\ C.lc = A.hc /\ C.hc = A.lc
  BY IntervalType, IntervalMade
<1> HIDE DEF C
<1>2. Holds(C, w) <=> Holds(A, u)
  BY <1>1, HoldsByLt
<1> QED BY <1>1, <1>2 DEF C

(* What the fields of an interval are. *)
LEMMA EndsOf ==
    ASSUME NEW A \in Interval
    PROVE  /\ A.lo \in Lower /\ A.hi \in Upper /\ A.lo \in End /\ A.hi \in End
           /\ A.lc \in BOOLEAN /\ A.hc \in BOOLEAN
           /\ A.lc => A.lo \in Rational
           /\ A.hc => A.hi \in Rational
  BY DEF Interval, Lower, Upper

(* Negation exchanges lower and upper ends and turns their order. *)
LEMMA NegTurns ==
    ASSUME NEW x \in End
    PROVE  /\ Neg(x) \in End /\ Neg(x).n = -x.n /\ Neg(x).d = x.d
           /\ x \in Rational => Neg(x) \in Rational
           /\ x \in Lower => Neg(x) \in Upper
           /\ x \in Upper => Neg(x) \in Lower
           /\ Neg(Neg(x)) = x
<1>1. x.n \in Int /\ x.d \in Nat /\ (x.d = 0 => x.n # 0) /\ x = [n |-> x.n, d |-> x.d]
  BY DEF End
<1>2. Neg(x) = [n |-> -x.n, d |-> x.d]
  BY DEF Neg, Fraction
<1>3. Neg(x) \in End /\ Neg(x).n = -x.n /\ Neg(x).d = x.d /\ Neg(Neg(x)) = x
  BY <1>1, <1>2 DEF End, Neg, Fraction
<1>4. x \in Rational => Neg(x) \in Rational
  BY <1>1, <1>2 DEF Rational
<1> QED BY <1>1, <1>3, <1>4 DEF Lower, Upper

LEMMA NegLess ==
    ASSUME NEW x \in End, NEW y \in End
    PROVE  Lt(Neg(x), Neg(y)) <=> Lt(y, x)
<1>1. /\ x.n \in Int /\ x.d \in Nat /\ (x.d = 0 => x.n # 0)
      /\ y.n \in Int /\ y.d \in Nat /\ (y.d = 0 => y.n # 0)
  BY EndType
<1>2. /\ Neg(x) \in End /\ Neg(x).n = -x.n /\ Neg(x).d = x.d
      /\ Neg(y) \in End /\ Neg(y).n = -y.n /\ Neg(y).d = y.d
  BY NegTurns
<1>3. CASE x.d > 0 /\ y.d > 0
  <2>1. (-x.n) * y.d = -(x.n * y.d) /\ (-y.n) * x.d = -(y.n * x.d) /\ x.n * y.d \in Int /\ y.n * x.d \in Int
    BY <1>1
  <2>2. Lt(Neg(x), Neg(y)) <=> LessFraction(-x.n, x.d, -y.n, y.d)
    BY <1>2, <1>3, LtCases
  <2>3. Lt(y, x) <=> LessFraction(y.n, y.d, x.n, x.d)
    BY <1>3, LtCases
  <2>4. LessFraction(-x.n, x.d, -y.n, y.d) <=> -(x.n * y.d) < -(y.n * x.d)
    BY <2>1 DEF LessFraction
  <2>5. -(x.n * y.d) < -(y.n * x.d) <=> y.n * x.d < x.n * y.d
    <3> DEFINE a == x.n * y.d  b == y.n * x.d
    <3>1. a \in Int /\ b \in Int
      BY <2>1
    <3> HIDE DEF a, b
    <3>2. -a < -b <=> b < a
      BY <3>1
    <3> QED BY <3>2 DEF a, b
  <2> QED BY <2>2, <2>3, <2>4, <2>5 DEF LessFraction
<1>4. CASE ~(x.d > 0 /\ y.d > 0)
  BY <1>1, <1>2, <1>4, LtCases
<1> QED BY <1>3, <1>4

(* negate (interval.cpp:411): the negated interval holds the negated numbers  *)
(* and no others.                                                            *)
THEOREM NegateExact ==
    ASSUME NEW A \in Interval
    PROVE  /\ Negate(A) \in Interval
           /\ \A u \in Rational : Neg(u) \in Rational /\ (Holds(Negate(A), Neg(u)) <=> Holds(A, u))
<1>1. CASE IsEmpty(A)
  <2>1. Negate(A) = Empty
    BY <1>1 DEF Negate
  <2> QED BY <2>1, <1>1, EmptyIsEmpty, Inhabited, NegTurns, RationalEnd
<1>2. CASE ~IsEmpty(A)
  <2> DEFINE C == Iv(Neg(A.hi), Neg(A.lo), A.hc, A.lc)
  <2>1. Negate(A) = C
    BY <1>2 DEF Negate
  <2>2. ASSUME NEW u \in Rational
        PROVE  C \in Interval /\ Neg(u) \in Rational /\ (Holds(C, Neg(u)) <=> Holds(A, u))
    <3>1. u \in End /\ Neg(u) \in Rational
      BY RationalEnd, NegTurns
    <3>2. /\ Neg(A.hi) \in Lower /\ Neg(A.lo) \in Upper
          /\ A.hc => Neg(A.hi) \in Rational
          /\ A.lc => Neg(A.lo) \in Rational
      BY EndsOf, NegTurns
    <3>3. /\ Lt(Neg(u), Neg(A.hi)) <=> Lt(A.hi, u)
          /\ Lt(Neg(A.hi), Neg(u)) <=> Lt(u, A.hi)
          /\ Lt(Neg(u), Neg(A.lo)) <=> Lt(A.lo, u)
          /\ Lt(Neg(A.lo), Neg(u)) <=> Lt(u, A.lo)
      BY <3>1, EndsOf, NegLess
    <3> QED BY <3>1, <3>2, <3>3, TurnedHolds
  <2>3. [n |-> 0, d |-> 1] \in Rational
    BY DEF Rational
  <2> HIDE DEF C
  <2> QED BY <2>1, <2>2, <2>3
<1> QED BY <1>1, <1>2

(* operator- (interval.cpp:1447): the difference of two intervals holds the   *)
(* differences of their numbers.                                             *)
THEOREM SubEncloses ==
    ASSUME NEW A \in Interval, NEW B \in Interval
    PROVE  /\ Sub(A, B) \in Interval
           /\ \A u, v \in Rational : Holds(A, u) /\ Holds(B, v) => Holds(Sub(A, B), Minus(u, v))
<1>1. CASE IsEmpty(A) \/ IsEmpty(B)
  BY <1>1, EmptyIsEmpty, Inhabited DEF Sub
<1>2. CASE ~IsEmpty(A) /\ ~IsEmpty(B)
  <2>1. Negate(B) \in Interval /\ \A v \in Rational : Neg(v) \in Rational /\ (Holds(Negate(B), Neg(v)) <=> Holds(B, v))
    BY NegateExact
  <2>2. ~IsEmpty(Negate(B))
    <3>1. PICK v \in Rational : Holds(B, v)
      BY <1>2, Inhabited
    <3> QED BY <3>1, <2>1, Inhabited
  <2>3. Sub(A, B) = Add(A, Negate(B))
    BY <1>2, <2>2 DEF Sub, Add, Negate, Minus, Iv
  <2>4. \A u, v \in Rational : Minus(u, v) = Plus(u, Neg(v))
    BY DEF Minus
  <2> QED BY <2>1, <2>3, <2>4, AddEncloses
<1> QED BY <1>1, <1>2

(* Moving an end by a number keeps its kind and its order. *)
LEMMA PlusMoves ==
    ASSUME NEW x \in End, NEW k \in Rational
    PROVE  /\ Plus(x, k) \in End
           /\ x \in Rational => Plus(x, k) \in Rational
           /\ x \in Lower => Plus(x, k) \in Lower
           /\ x \in Upper => Plus(x, k) \in Upper
           /\ x.d = 0 => Plus(x, k) = x
<1>1. x.n \in Int /\ x.d \in Nat /\ (x \in Rational <=> x.d > 0) /\ k.d > 0 /\ k.d \in Nat /\ k \in End
  BY EndType, RationalEnd
<1>2. CASE x.d > 0
  BY <1>1, <1>2, PlusLess, RationalEnd
<1>3. CASE x.d = 0
  <2>1. Plus(x, k) = x
    BY <1>1, <1>3 DEF Plus
  <2> QED BY <2>1, <1>1, <1>3
<1> QED BY <1>1, <1>2, <1>3

(* Moving keeps the order of an end and a number. *)
LEMMA PlusKeepsOrder ==
    ASSUME NEW x \in End, NEW u \in Rational, NEW k \in Rational
    PROVE  /\ Lt(Plus(x, k), Plus(u, k)) <=> Lt(x, u)
           /\ Lt(Plus(u, k), Plus(x, k)) <=> Lt(u, x)
<1>1. x.n \in Int /\ x.d \in Nat /\ (x \in Rational <=> x.d > 0) /\ u.d > 0 /\ u \in End
  BY EndType, RationalEnd
<1>2. CASE x.d > 0
  BY <1>1, <1>2, PlusLess
<1>3. CASE x.d = 0
  <2>1. Plus(x, k) = x /\ Plus(u, k) \in Rational
    BY <1>3, <1>1, PlusMoves
  <2>2. Plus(u, k) \in End /\ Plus(u, k).d > 0
    BY <2>1, RationalEnd, EndType
  <2> QED BY <2>1, <2>2, <1>1, <1>3, LtCases
<1> QED BY <1>1, <1>2, <1>3

(* operator+ with a number (interval.cpp:1399), and the shifting operators ++ *)
(* and --: the moved interval holds the moved numbers and no others.         *)
THEOREM AddNumberExact ==
    ASSUME NEW A \in Interval, NEW k \in Rational
    PROVE  /\ AddNumber(A, k) \in Interval
           /\ \A u \in Rational : Plus(u, k) \in Rational /\ (Holds(AddNumber(A, k), Plus(u, k)) <=> Holds(A, u))
           /\ ~IsEmpty(A) => Shifted(A, k) = AddNumber(A, k)
<1> DEFINE C == Iv(Plus(A.lo, k), Plus(A.hi, k), A.lc, A.hc)
<1>1. AddNumber(A, k) = C /\ (~IsEmpty(A) => Shifted(A, k) = C)
  BY DEF AddNumber, Shifted
<1>2. ASSUME NEW u \in Rational
      PROVE  C \in Interval /\ Plus(u, k) \in Rational /\ (Holds(C, Plus(u, k)) <=> Holds(A, u))
  <2>1. u \in End /\ Plus(u, k) \in Rational
    BY RationalEnd, PlusLess
  <2>2. /\ Plus(A.lo, k) \in Lower /\ Plus(A.hi, k) \in Upper
        /\ A.lc => Plus(A.lo, k) \in Rational
        /\ A.hc => Plus(A.hi, k) \in Rational
    BY EndsOf, PlusMoves
  <2>3. /\ Lt(Plus(u, k), Plus(A.lo, k)) <=> Lt(u, A.lo)
        /\ Lt(Plus(A.lo, k), Plus(u, k)) <=> Lt(A.lo, u)
        /\ Lt(Plus(u, k), Plus(A.hi, k)) <=> Lt(u, A.hi)
        /\ Lt(Plus(A.hi, k), Plus(u, k)) <=> Lt(A.hi, u)
    BY EndsOf, PlusKeepsOrder
  <2> QED BY <2>1, <2>2, <2>3, MovedHolds
<1>3. [n |-> 0, d |-> 1] \in Rational
  BY DEF Rational
<1> HIDE DEF C
<1> QED BY <1>1, <1>2, <1>3

(* Multiplying by a positive number keeps the kind of an end. *)
LEMMA TimesType ==
    ASSUME NEW x \in End, NEW k \in Rational, k.n > 0
    PROVE  /\ Times(x, k) \in End
           /\ x \in Rational => Times(x, k) \in Rational
           /\ x \in Lower => Times(x, k) \in Lower
           /\ x \in Upper => Times(x, k) \in Upper
           /\ x.d = 0 => Times(x, k).d = 0 /\ (Times(x, k).n < 0 <=> x.n < 0) /\ (Times(x, k).n > 0 <=> x.n > 0)
           /\ x.d > 0 => Times(x, k).d > 0
<1>1. /\ x.n \in Int /\ x.d \in Nat /\ (x \in Rational <=> x.d > 0) /\ (x.d = 0 => x.n # 0)
      /\ k.d > 0 /\ k.d \in Nat /\ k.n \in Int
  BY EndType, RationalEnd
<1>2. Times(x, k) = [n |-> x.n * k.n, d |-> x.d * k.d]
  BY DEF Times, Fraction
<1>3. /\ x.n * k.n \in Int
      /\ x.n < 0 <=> x.n * k.n < 0
      /\ x.n > 0 <=> x.n * k.n > 0
  <2>1. 0 * k.n = 0 /\ x.n * k.n \in Int
    BY <1>1
  <2>2. (x.n < 0 <=> x.n * k.n < 0 * k.n) /\ (0 < x.n <=> 0 * k.n < x.n * k.n)
    BY <1>1, Scaled
  <2> QED BY <2>1, <2>2, <1>1
<1>4. CASE x.d > 0
  <2>1. x.d * k.d \in Nat /\ x.d * k.d > 0
    BY <1>1, <1>4, SMTT(20)
  <2>2. Times(x, k) \in Rational
    BY <2>1, <1>2, <1>3 DEF Rational
  <2> QED BY <2>2, <1>1, <1>4, RationalEnd, EndType
<1>5. CASE x.d = 0
  <2>1. x.d * k.d = 0
    BY <1>1, <1>5
  <2>2. Times(x, k) \in End
    BY <2>1, <1>2, <1>3, <1>1, <1>5 DEF End
  <2> QED BY <2>1, <2>2, <1>1, <1>2, <1>3, <1>5 DEF Lower, Upper
<1> QED BY <1>1, <1>4, <1>5

(* Multiplying by a positive number keeps the order of ends. *)
LEMMA TimesKeepsOrder ==
    ASSUME NEW x \in End, NEW y \in End, NEW k \in Rational, k.n > 0
    PROVE  Lt(Times(x, k), Times(y, k)) <=> Lt(x, y)
<1>1. /\ x.n \in Int /\ x.d \in Nat /\ (x.d = 0 => x.n # 0)
      /\ y.n \in Int /\ y.d \in Nat /\ (y.d = 0 => y.n # 0)
      /\ k.n \in Int /\ k.d \in Nat /\ k.d > 0
  BY EndType, RationalEnd
<1>2. Times(x, k) \in End /\ Times(y, k) \in End
  BY TimesType
<1>3. CASE x.d > 0 /\ y.d > 0
  <2> DEFINE a == x.n  b == x.d  c == y.n  d == y.d  e == k.n  f == k.d
  <2>1. a \in Int /\ b \in Int /\ c \in Int /\ d \in Int /\ e \in Int /\ f \in Int /\ e > 0 /\ f > 0
    BY <1>1
  <2>2. Lt(Times(x, k), Times(y, k)) <=> (a * e) * (d * f) < (c * e) * (b * f)
    BY <1>2, <1>3, LtCases, TimesType DEF LessFraction, Times, Fraction
  <2>3. Lt(x, y) <=> a * d < c * b
    BY <1>3, LtCases DEF LessFraction
  <2> HIDE DEF a, b, c, d, e, f
  <2> DEFINE m == e * f
  <2>4. (a * e) * (d * f) = (a * d) * m /\ (c * e) * (b * f) = (c * b) * m
    BY <2>1, SMTT(20)
  <2>5. m \in Int /\ m > 0 /\ a * d \in Int /\ c * b \in Int
    BY <2>1, SMTT(20)
  <2> HIDE DEF m
  <2>6. (a * d) * m < (c * b) * m <=> a * d < c * b
    BY <2>5, Scaled
  <2> QED BY <2>2, <2>3, <2>4, <2>6
<1>4. CASE ~(x.d > 0 /\ y.d > 0)
  <2>1. /\ x.d = 0 => Times(x, k).d = 0 /\ (Times(x, k).n < 0 <=> x.n < 0) /\ (Times(x, k).n > 0 <=> x.n > 0)
        /\ y.d = 0 => Times(y, k).d = 0 /\ (Times(y, k).n < 0 <=> y.n < 0) /\ (Times(y, k).n > 0 <=> y.n > 0)
        /\ x.d > 0 => Times(x, k).d > 0
        /\ y.d > 0 => Times(y, k).d > 0
    BY TimesType
  <2> QED BY <2>1, <1>1, <1>2, <1>4, LtCases
<1> QED BY <1>3, <1>4

(* Multiplying by a negative number is multiplying what is negated. *)
LEMMA TimesNegated ==
    ASSUME NEW x \in End, NEW k \in Rational
    PROVE  Times(x, k) = Times(Neg(x), Neg(k))
<1>1. x.n \in Int /\ k.n \in Int
  BY EndType, RationalEnd
<1>2. Neg(x).n = -x.n /\ Neg(x).d = x.d /\ Neg(k).n = -k.n /\ Neg(k).d = k.d
  BY NegTurns, RationalEnd
<1>3. x.n * k.n = (-x.n) * (-k.n)
  BY <1>1
<1> QED BY <1>2, <1>3 DEF Times, Fraction

(* Multiplying by a negative number turns it. *)
LEMMA TimesTurns ==
    ASSUME NEW x \in End, NEW y \in End, NEW k \in Rational, k.n < 0
    PROVE  /\ Times(x, k) \in End
           /\ x \in Rational => Times(x, k) \in Rational
           /\ x \in Lower => Times(x, k) \in Upper
           /\ x \in Upper => Times(x, k) \in Lower
           /\ Lt(Times(x, k), Times(y, k)) <=> Lt(y, x)
<1> DEFINE m == Neg(k)  p == Neg(x)  q == Neg(y)
<1>1. /\ p \in End /\ (x \in Rational => p \in Rational) /\ (x \in Lower => p \in Upper) /\ (x \in Upper => p \in Lower)
      /\ q \in End
      /\ m \in Rational
      /\ Lt(p, q) <=> Lt(y, x)
  BY NegTurns, NegLess, RationalEnd
<1>2. m.n > 0
  <2>1. m.n = -k.n /\ k.n \in Int
    BY NegTurns, RationalEnd, EndType
  <2> QED BY <2>1
<1>3. Times(x, k) = Times(p, m) /\ Times(y, k) = Times(q, m)
  BY TimesNegated
<1> HIDE DEF m, p, q
<1> QED BY <1>1, <1>2, <1>3, TimesType, TimesKeepsOrder

(* operator* with a number (interval.cpp:1407): the scaled interval holds the *)
(* scaled numbers and no others; zero times an interval holds zero where both *)
(* ends belong to the interval.                                              *)
THEOREM ScaleExact ==
    ASSUME NEW A \in Interval, NEW k \in Rational
    PROVE  /\ Scale(A, k) \in Interval
           /\ \A u \in Rational : Times(u, k) \in Rational
           /\ k.n # 0 => \A u \in Rational : Holds(Scale(A, k), Times(u, k)) <=> Holds(A, u)
           /\ k.n = 0 /\ A.lc /\ A.hc => \A u \in Rational : Holds(A, u) => Holds(Scale(A, k), Times(u, k))
<1> DEFINE up == Iv(Times(A.lo, k), Times(A.hi, k), A.lc, A.hc)
           down == Iv(Times(A.hi, k), Times(A.lo, k), A.hc, A.lc)
<1>0. /\ [n |-> 0, d |-> 1] \in Rational
      /\ k.n \in Int
  BY DEF Rational
<1>1. CASE IsEmpty(A)
  <2>1. Scale(A, k) = Empty
    BY <1>1 DEF Scale
  <2>2. \A u \in Rational : Times(u, k) \in Rational
    BY SMTT(20) DEF Rational, Times, Fraction
  <2> QED BY <2>1, <2>2, <1>1, EmptyIsEmpty, Inhabited
<1>2. CASE ~IsEmpty(A) /\ k.n > 0
  <2>1. Scale(A, k) = up
    BY <1>0, <1>2 DEF Scale
  <2>2. ASSUME NEW u \in Rational
        PROVE  up \in Interval /\ Times(u, k) \in Rational /\ (Holds(up, Times(u, k)) <=> Holds(A, u))
    <3>1. u \in End /\ Times(u, k) \in Rational
      BY <1>2, RationalEnd, TimesType
    <3>2. /\ Times(A.lo, k) \in Lower /\ Times(A.hi, k) \in Upper
          /\ A.lc => Times(A.lo, k) \in Rational
          /\ A.hc => Times(A.hi, k) \in Rational
      BY <1>2, EndsOf, TimesType
    <3>3. /\ Lt(Times(u, k), Times(A.lo, k)) <=> Lt(u, A.lo)
          /\ Lt(Times(A.lo, k), Times(u, k)) <=> Lt(A.lo, u)
          /\ Lt(Times(u, k), Times(A.hi, k)) <=> Lt(u, A.hi)
          /\ Lt(Times(A.hi, k), Times(u, k)) <=> Lt(A.hi, u)
      BY <1>2, <3>1, EndsOf, TimesKeepsOrder
    <3> QED BY <3>1, <3>2, <3>3, MovedHolds
  <2> HIDE DEF up
  <2> QED BY <2>1, <2>2, <1>0, <1>2
<1>3. CASE ~IsEmpty(A) /\ k.n < 0
  <2>1. Scale(A, k) = down
    BY <1>0, <1>3 DEF Scale
  <2>2. ASSUME NEW u \in Rational
        PROVE  down \in Interval /\ Times(u, k) \in Rational /\ (Holds(down, Times(u, k)) <=> Holds(A, u))
    <3>1. u \in End /\ Times(u, k) \in Rational
      BY <1>3, RationalEnd, TimesTurns
    <3>2. /\ Times(A.hi, k) \in Lower /\ Times(A.lo, k) \in Upper
          /\ A.hc => Times(A.hi, k) \in Rational
          /\ A.lc => Times(A.lo, k) \in Rational
      BY <1>3, EndsOf, TimesTurns
    <3>3. /\ Lt(Times(u, k), Times(A.hi, k)) <=> Lt(A.hi, u)
          /\ Lt(Times(A.hi, k), Times(u, k)) <=> Lt(u, A.hi)
          /\ Lt(Times(u, k), Times(A.lo, k)) <=> Lt(A.lo, u)
          /\ Lt(Times(A.lo, k), Times(u, k)) <=> Lt(u, A.lo)
      BY <1>3, <3>1, EndsOf, TimesTurns
    <3> QED BY <3>1, <3>2, <3>3, TurnedHolds
  <2> HIDE DEF down
  <2> QED BY <2>1, <2>2, <1>0, <1>3
<1>4. CASE ~IsEmpty(A) /\ k.n = 0
  <2>1. Scale(A, k) = IF A.lc /\ A.hc THEN Point(Zero) ELSE Empty
    BY <1>0, <1>4 DEF Scale
  <2>2. Zero \in Rational
    BY DEF Zero, Num, Fraction, Rational
  <2>3. Point(Zero) \in Interval
    BY <2>2, IntervalMade, RationalEnd DEF Point
  <2>4. ASSUME NEW u \in Rational
        PROVE  Times(u, k) \in Rational /\ Holds(Point(Zero), Times(u, k))
    <3>1. /\ u.n \in Int /\ u.d \in Nat /\ u.d > 0 /\ k.d \in Nat /\ k.d > 0
      BY RationalEnd, EndType
    <3>2. u.n * k.n = 0 /\ u.d * k.d \in Nat /\ u.d * k.d > 0
      BY <1>4, <3>1, SMTT(20)
    <3>3. Times(u, k) = [n |-> 0, d |-> u.d * k.d]
      BY <3>2 DEF Times, Fraction
    <3>4. Times(u, k) \in Rational
      BY <3>2, <3>3 DEF Rational
    <3>5. ~Lt(Times(u, k), Zero) /\ ~Lt(Zero, Times(u, k))
      BY <3>2, <3>3 DEF Lt, Zero, Num, Fraction
    <3>6. Point(Zero).lo = Zero /\ Point(Zero).hi = Zero /\ Point(Zero).lc /\ Point(Zero).hc
      BY DEF Point, Iv
    <3> QED BY <3>4, <3>5, <3>6, <2>3, HoldsByLt
  <2> QED BY <2>1, <2>3, <2>4, <1>4, EmptyIsEmpty
<1> QED BY <1>0, <1>1, <1>2, <1>3, <1>4

(* operator/ with a number (interval.cpp:1426) throws for zero only, and else *)
(* the divided interval holds the divided numbers and no others.             *)
THEOREM DivideNumberExact ==
    ASSUME NEW A \in Interval, NEW k \in Rational
    PROVE  /\ ~IsEmpty(A) => (IsThrown(DivideNumber(A, k)) <=> k.n = 0)
           /\ k.n # 0 => /\ DivideNumber(A, k) \in Interval
                         /\ \A u \in Rational : /\ Over(u, k) \in Rational
                                                /\ Holds(DivideNumber(A, k), Over(u, k)) <=> Holds(A, u)
<1>1. k.n \in Int /\ k.d \in Nat /\ k.d > 0
  BY RationalEnd, EndType
<1> DEFINE m == IF k.n > 0 THEN Fraction(k.d, k.n) ELSE Fraction(-k.d, -k.n)
<1>2. ASSUME k.n # 0
      PROVE  m \in Rational /\ m.n # 0 /\ (m.n > 0 <=> k.n > 0) /\ (m.n < 0 <=> k.n < 0) /\ m.n \in Int
  BY <1>1, <1>2 DEF Rational, Fraction
<1>3. ASSUME k.n # 0 PROVE \A x : Over(x, k) = Times(x, m)
  <2>1. CASE k.n > 0
    BY <2>1, <1>1 DEF Over
  <2>2. CASE k.n < 0
    BY <2>2, <1>1 DEF Over
  <2> QED BY <2>1, <2>2, <1>1, <1>3
<1> HIDE DEF m
<1>4. ASSUME k.n # 0 PROVE DivideNumber(A, k) = Scale(A, m)
  <2>1. CASE IsEmpty(A)
    BY <2>1 DEF DivideNumber, Scale
  <2>2. CASE ~IsEmpty(A) /\ k.n > 0
    BY <2>2, <1>1, <1>2, <1>3 DEF DivideNumber, Scale
  <2>3. CASE ~IsEmpty(A) /\ k.n < 0
    BY <2>3, <1>1, <1>2, <1>3 DEF DivideNumber, Scale
  <2> QED BY <2>1, <2>2, <2>3, <1>1, <1>4
<1>5. \A C \in Interval : ~IsThrown(C)
  BY IntervalType, EndType DEF IsThrown
<1>6. ~IsEmpty(A) /\ k.n = 0 => IsThrown(DivideNumber(A, k))
  BY DEF DivideNumber, IsThrown, Thrown, Iv, NaN, IsNaN, Fraction
<1>7. ASSUME k.n # 0, NEW u \in Rational
      PROVE  Over(u, k) \in Rational /\ (Holds(DivideNumber(A, k), Over(u, k)) <=> Holds(A, u))
  BY <1>2, <1>3, <1>4, <1>7, ScaleExact
<1>8. ASSUME k.n # 0 PROVE DivideNumber(A, k) \in Interval
  BY <1>2, <1>4, <1>8, ScaleExact
<1> QED BY <1>5, <1>6, <1>7, <1>8

(* Numbers and ends below zero are those with a negative numerator. *)
LEMMA ZeroLess ==
    ASSUME NEW x \in End
    PROVE  /\ Zero \in Rational /\ Zero \in End
           /\ Lt(x, Zero) <=> x.n < 0
           /\ Lt(Zero, x) <=> x.n > 0
<1>1. x.n \in Int /\ x.d \in Nat /\ (x.d = 0 => x.n # 0)
  BY EndType
<1>2. Zero \in Rational /\ Zero.n = 0 /\ Zero.d = 1
  BY DEF Zero, Num, Fraction, Rational
<1>3. Zero \in End
  BY <1>2, RationalEnd
<1>4. x.n * 1 = x.n /\ 0 * x.d = 0
  BY <1>1
<1>5. CASE x.d > 0
  BY <1>1, <1>2, <1>3, <1>4, <1>5, LtCases DEF LessFraction
<1>6. CASE x.d = 0
  BY <1>1, <1>2, <1>3, <1>6, LtCases
<1> QED BY <1>1, <1>2, <1>3, <1>5, <1>6

(* Absolute values are not negative. *)
LEMMA AbsType ==
    ASSUME NEW x \in End
    PROVE  /\ AbsOf(x) \in End /\ AbsOf(x) \in Upper
           /\ x \in Rational => AbsOf(x) \in Rational
           /\ AbsOf(x) = IF Lt(x, Zero) THEN Neg(x) ELSE x
           /\ ~Lt(AbsOf(x), Zero)
<1>1. /\ x.n \in Int /\ x.d \in Nat /\ (x.d = 0 => x.n # 0)
      /\ Neg(x) \in End /\ Neg(x).n = -x.n /\ (x \in Rational => Neg(x) \in Rational)
  BY EndType, NegTurns
<1>2. AbsOf(x) = IF Lt(x, Zero) THEN Neg(x) ELSE x
  BY ZeroLess DEF AbsOf
<1>3. AbsOf(x) \in End /\ (x \in Rational => AbsOf(x) \in Rational) /\ AbsOf(x).n >= 0
  BY <1>1 DEF AbsOf
<1>4. ~Lt(AbsOf(x), Zero)
  BY <1>3, ZeroLess, EndType
<1>5. AbsOf(x) \in Upper
  BY <1>3, EndType DEF Upper
<1> QED BY <1>2, <1>3, <1>4, <1>5

(* abs (interval.cpp:417): the interval holds the absolute values, whichever  *)
(* end is farther from zero; for ends equally far from zero it is the lower  *)
(* one that decides whether their distance belongs to it.                    *)
THEOREM AbsEncloses ==
    ASSUME NEW A \in Interval
    PROVE  /\ Abs(A) \in Interval
           /\ ~(Eq(AbsOf(A.lo), AbsOf(A.hi)) /\ ~A.lc /\ A.hc) =>
                 \A u \in Rational : Holds(A, u) => Holds(Abs(A), AbsOf(u))
<1>1. /\ A.lo \in Lower /\ A.hi \in Upper /\ A.lo \in End /\ A.hi \in End
      /\ A.lc \in BOOLEAN /\ A.hc \in BOOLEAN
      /\ (A.lc => A.lo \in Rational) /\ (A.hc => A.hi \in Rational)
  BY EndsOf
<1>2. /\ Zero \in Rational /\ Zero \in End
      /\ Ge(A.lo, Zero) <=> ~Lt(A.lo, Zero)
      /\ Le(A.hi, Zero) <=> ~Lt(Zero, A.hi)
  BY <1>1, ZeroLess, ByLt
<1>3. CASE IsEmpty(A)
  <2>1. Abs(A) = Empty
    BY <1>3 DEF Abs
  <2> QED BY <2>1, <1>3, EmptyIsEmpty, Inhabited
<1>4. CASE ~IsEmpty(A) /\ ~Lt(A.lo, Zero)
  <2>1. Abs(A) = A
    BY <1>2, <1>4 DEF Abs
  <2>2. ASSUME NEW u \in Rational, Holds(A, u) PROVE AbsOf(u) = u
    <3>1. ~Lt(u, A.lo) /\ u \in End
      BY <2>2, <1>1, HoldsByLt, RationalEnd, LtOneWay
    <3>2. ~Lt(u, Zero)
      BY <3>1, <1>1, <1>2, <1>4, LtEither
    <3> QED BY <3>1, <3>2, AbsType
  <2> QED BY <2>1, <2>2
<1>5. CASE ~IsEmpty(A) /\ Lt(A.lo, Zero) /\ ~Lt(Zero, A.hi)
  <2>1. Abs(A) = Negate(A)
    BY <1>2, <1>5 DEF Abs
  <2>2. ASSUME NEW u \in Rational, Holds(A, u) PROVE AbsOf(u) = Neg(u)
    <3>1. ~Lt(A.hi, u) /\ u \in End
      BY <2>2, <1>1, HoldsByLt, RationalEnd, LtOneWay
    <3>2. ~Lt(Zero, u)
      BY <3>1, <1>1, <1>2, <1>5, LtEither
    <3>3. u.n \in Int /\ ~(u.n > 0) /\ u.d \in Nat /\ u = [n |-> u.n, d |-> u.d]
      BY <3>1, <3>2, ZeroLess, EndType DEF Rational
    <3>4. CASE u.n < 0
      BY <3>4 DEF AbsOf
    <3>5. CASE u.n = 0
      BY <3>3, <3>5 DEF AbsOf, Neg, Fraction
    <3> QED BY <3>3, <3>4, <3>5
  <2>3. \A u \in Rational : Holds(A, u) => Holds(Negate(A), Neg(u))
    BY NegateExact
  <2> QED BY <2>1, <2>2, <2>3, NegateExact
<1>6. CASE ~IsEmpty(A) /\ Lt(A.lo, Zero) /\ Lt(Zero, A.hi)
  <2> DEFINE p == AbsOf(A.lo)  q == AbsOf(A.hi)
             far == MaxOf(p, q)
             fc == IF Eq(far, p) THEN A.lc ELSE A.hc
             C == Iv(Zero, far, TRUE, fc)
  <2>1. Abs(A) = C
    BY <1>2, <1>6 DEF Abs
  <2>2. /\ p \in End /\ p \in Upper /\ (A.lc => p \in Rational) /\ p = Neg(A.lo)
        /\ q \in End /\ q \in Upper /\ (A.hc => q \in Rational) /\ q = A.hi
    BY <1>1, <1>2, <1>6, AbsType, LtOneWay
  <2> HIDE DEF p, q
  <2>3. /\ far = IF Lt(p, q) THEN q ELSE p
        /\ Eq(far, p) <=> ~Lt(p, q)
    BY <2>2, ByLt, LtIrreflexive DEF MaxOf
  <2>4. far \in Upper /\ far \in End /\ fc \in BOOLEAN /\ (fc => far \in Rational)
    BY <2>2, <2>3, <1>1
  <2>5. C \in Interval /\ C.lo = Zero /\ C.hi = far /\ C.lc = TRUE /\ C.hc = fc
    <3> HIDE DEF far, fc
    <3> QED BY <2>4, <1>2, RationalEnd DEF Interval, Iv
  <2>6. ASSUME NEW u \in Rational, Holds(A, u), ~(Eq(p, q) /\ ~A.lc /\ A.hc)
        PROVE  Holds(C, AbsOf(u))
    <3>1. /\ u \in End /\ AbsOf(u) \in Rational /\ AbsOf(u) \in End /\ ~Lt(AbsOf(u), Zero)
          /\ AbsOf(u) = IF Lt(u, Zero) THEN Neg(u) ELSE u
          /\ Neg(u) \in End
      BY RationalEnd, AbsType, NegTurns
    <3>2. /\ IF A.lc THEN ~Lt(u, A.lo) ELSE Lt(A.lo, u)
          /\ IF A.hc THEN ~Lt(A.hi, u) ELSE Lt(u, A.hi)
      BY <2>6, HoldsByLt
    <3>3. CASE Lt(u, Zero)
      <4>1. IF A.lc THEN ~Lt(p, AbsOf(u)) ELSE Lt(AbsOf(u), p)
        BY <3>1, <3>2, <3>3, <2>2, <1>1, NegLess
      <4>2. CASE Lt(p, q)
        <5>1. Lt(AbsOf(u), q)
          BY <4>1, <4>2, <3>1, <2>2, <1>1, LtTransitive, LtEither
        <5>2. IF fc THEN ~Lt(far, AbsOf(u)) ELSE Lt(AbsOf(u), far)
          BY <5>1, <4>2, <2>3, <2>2, <3>1, LtOneWay
        <5> HIDE DEF C, far, fc
        <5> QED BY <5>2, <3>1, <2>5, HoldsByLt
      <4>3. CASE ~Lt(p, q)
        <5>1. IF fc THEN ~Lt(far, AbsOf(u)) ELSE Lt(AbsOf(u), far)
          BY <4>1, <4>3, <2>3
        <5> HIDE DEF C, far, fc
        <5> QED BY <5>1, <3>1, <2>5, HoldsByLt
      <4> QED BY <4>2, <4>3
    <3>4. CASE ~Lt(u, Zero)
      <4>1. IF A.hc THEN ~Lt(q, AbsOf(u)) ELSE Lt(AbsOf(u), q)
        BY <3>1, <3>2, <3>4, <2>2
      <4>2. IF fc THEN ~Lt(far, AbsOf(u)) ELSE Lt(AbsOf(u), far)
        <5>1. CASE Lt(p, q)
          BY <4>1, <5>1, <2>3
        <5>2. CASE Lt(q, p)
          <6>1. Lt(AbsOf(u), p)
            BY <4>1, <5>2, <3>1, <2>2, <1>1, LtTransitive, LtEither
          <6> QED BY <6>1, <5>2, <2>3, <2>2, <3>1, LtOneWay
        <5>3. CASE ~Lt(p, q) /\ ~Lt(q, p)
          <6>1. Eq(p, q)
            BY <5>3, <2>2, ByLt
          <6>2. far = p /\ fc = A.lc /\ (A.hc => A.lc)
            BY <6>1, <5>3, <2>3, <2>6, <1>1
          <6>3. CASE A.hc
            <7>1. ~Lt(p, AbsOf(u))
              BY <4>1, <6>3, <5>3, <3>1, <2>2, LtEither
            <7> QED BY <7>1, <6>2, <6>3
          <6>4. CASE ~A.hc
            <7>1. Lt(AbsOf(u), p)
              BY <4>1, <6>4, <5>3, <3>1, <2>2, LtEither
            <7> QED BY <7>1, <6>2, <3>1, <2>2, LtOneWay, <1>1
          <6> QED BY <6>3, <6>4
        <5> QED BY <5>1, <5>2, <5>3
      <4> HIDE DEF C, far, fc
      <4> QED BY <4>2, <3>1, <2>5, HoldsByLt
    <3> QED BY <3>3, <3>4
  <2> HIDE DEF C
  <2> QED BY <2>1, <2>5, <2>6 DEF p, q
<1> QED BY <1>3, <1>4, <1>5, <1>6

-----------------------------------------------------------------------------
(* Products and quotients *)

(* Products of numbers. *)
LEMMA TimesRational ==
    ASSUME NEW x \in Rational, NEW k \in Rational
    PROVE  /\ Times(x, k) \in Rational
           /\ Times(x, k) = Times(k, x)
           /\ k.n = 0 => Times(x, k).n = 0
<1>1. /\ x.n \in Int /\ x.d \in Nat /\ x.d > 0
      /\ k.n \in Int /\ k.d \in Nat /\ k.d > 0
  BY RationalEnd, EndType
<1>2. x.n * k.n \in Int /\ x.n * k.n = k.n * x.n /\ (k.n = 0 => x.n * k.n = 0)
  BY <1>1
<1>3. x.d * k.d \in Nat /\ x.d * k.d > 0 /\ x.d * k.d = k.d * x.d
  BY <1>1, SMTT(20)
<1>4. Times(x, k) = [n |-> x.n * k.n, d |-> x.d * k.d] /\ Times(k, x) = [n |-> k.n * x.n, d |-> k.d * x.d]
  BY DEF Times, Fraction
<1> QED BY <1>2, <1>3, <1>4 DEF Rational

(* w is neither below nor above both of c and e. *)
Surrounds(c, e, w) == (~Lt(w, c) \/ ~Lt(w, e)) /\ (~Lt(c, w) \/ ~Lt(e, w))

(* A product is between the products of numbers around one factor. *)
LEMMA SideSpans ==
    ASSUME NEW u \in Rational, NEW x \in Rational, NEW y \in Rational, NEW v \in Rational, Surrounds(x, y, u)
    PROVE  Surrounds(Times(x, v), Times(y, v), Times(u, v))
<1>1. u \in End /\ x \in End /\ y \in End /\ v.n \in Int
  BY RationalEnd, EndType
<1>2. CASE v.n > 0
  BY <1>1, <1>2, TimesKeepsOrder DEF Surrounds
<1>3. CASE v.n < 0
  BY <1>1, <1>3, TimesTurns DEF Surrounds
<1>4. CASE v.n = 0
  <2>1. /\ Times(u, v) \in End /\ Times(u, v).n = 0
        /\ Times(x, v) \in End /\ Times(x, v).n = 0
        /\ Times(y, v) \in End /\ Times(y, v).n = 0
    BY <1>4, TimesRational, RationalEnd
  <2>2. \A p, q \in End : p.n = 0 /\ q.n = 0 => ~Lt(p, q)
    <3> SUFFICES ASSUME NEW p \in End, NEW q \in End, p.n = 0, q.n = 0 PROVE ~Lt(p, q)
      OBVIOUS
    <3>1. p.d \in Nat /\ q.d \in Nat /\ p.d # 0 /\ q.d # 0 /\ 0 * q.d = 0 /\ 0 * p.d = 0
      BY EndType
    <3> QED BY <3>1 DEF Lt
  <2> QED BY <2>1, <2>2 DEF Surrounds
<1> QED BY <1>1, <1>2, <1>3, <1>4

LEMMA BoxSpans ==
    ASSUME NEW u \in Rational, NEW x \in Rational, NEW y \in Rational, Surrounds(x, y, u),
           NEW v \in Rational, NEW s \in Rational, NEW t \in Rational, Surrounds(s, t, v)
    PROVE  /\ ~Lt(Times(u, v), Times(x, s)) \/ ~Lt(Times(u, v), Times(x, t))
              \/ ~Lt(Times(u, v), Times(y, s)) \/ ~Lt(Times(u, v), Times(y, t))
           /\ ~Lt(Times(x, s), Times(u, v)) \/ ~Lt(Times(x, t), Times(u, v))
              \/ ~Lt(Times(y, s), Times(u, v)) \/ ~Lt(Times(y, t), Times(u, v))
<1> DEFINE w == Times(u, v)  p == Times(x, v)  q == Times(y, v)
           a == Times(x, s)  b == Times(x, t)  c == Times(y, s)  e == Times(y, t)
<1>1. w \in End /\ p \in End /\ q \in End /\ a \in End /\ b \in End /\ c \in End /\ e \in End
  BY TimesRational, RationalEnd
<1>2. Surrounds(p, q, w)
  BY SideSpans
<1>3. Surrounds(a, b, p)
  <2>1. Surrounds(Times(s, x), Times(t, x), Times(v, x))
    BY SideSpans
  <2>2. Times(s, x) = a /\ Times(t, x) = b /\ Times(v, x) = p
    BY TimesRational
  <2> HIDE DEF a, b, p
  <2> QED BY <2>1, <2>2
<1>4. Surrounds(c, e, q)
  <2>1. Surrounds(Times(s, y), Times(t, y), Times(v, y))
    BY SideSpans
  <2>2. Times(s, y) = c /\ Times(t, y) = e /\ Times(v, y) = q
    BY TimesRational
  <2> HIDE DEF c, e, q
  <2> QED BY <2>1, <2>2
<1>5. \A m, n, o \in End : ~Lt(m, n) /\ ~Lt(n, o) => ~Lt(m, o)
  BY LtEither
<1> HIDE DEF w, p, q, a, b, c, e
<1>6. ~Lt(w, a) \/ ~Lt(w, b) \/ ~Lt(w, c) \/ ~Lt(w, e)
  BY <1>1, <1>2, <1>3, <1>4, <1>5 DEF Surrounds
<1>7. ~Lt(a, w) \/ ~Lt(b, w) \/ ~Lt(c, w) \/ ~Lt(e, w)
  BY <1>1, <1>2, <1>3, <1>4, <1>5 DEF Surrounds
<1> QED BY <1>6, <1>7 DEF w, a, b, c, e

(* std::min and std::max of numbers. *)
LEMMA MinLeast ==
    ASSUME NEW x \in Rational, NEW y \in Rational
    PROVE  /\ MinOf(x, y) \in Rational
           /\ MinOf(x, y) = x \/ MinOf(x, y) = y
           /\ ~Lt(x, MinOf(x, y)) /\ ~Lt(y, MinOf(x, y))
  BY RationalEnd, LtIrreflexive, LtOneWay DEF MinOf

LEMMA MaxGreatest ==
    ASSUME NEW x \in Rational, NEW y \in Rational
    PROVE  /\ MaxOf(x, y) \in Rational
           /\ MaxOf(x, y) = x \/ MaxOf(x, y) = y
           /\ ~Lt(MaxOf(x, y), x) /\ ~Lt(MaxOf(x, y), y)
  BY RationalEnd, LtIrreflexive, LtOneWay DEF MaxOf

(* std::min and std::max of four numbers. *)
LEMMA LeastOfFour ==
    ASSUME NEW a \in Rational, NEW b \in Rational, NEW c \in Rational, NEW e \in Rational
    PROVE  /\ MinOf(MinOf(MinOf(a, b), c), e) \in {a, b, c, e}
           /\ \A x \in {a, b, c, e} : ~Lt(x, MinOf(MinOf(MinOf(a, b), c), e))
<1> DEFINE m == MinOf(a, b)  n == MinOf(m, c)  o == MinOf(n, e)
<1>1. m \in Rational /\ (m = a \/ m = b) /\ ~Lt(a, m) /\ ~Lt(b, m)
  BY MinLeast
<1> HIDE DEF m
<1>2. n \in Rational /\ (n = m \/ n = c) /\ ~Lt(m, n) /\ ~Lt(c, n)
  BY <1>1, MinLeast
<1> HIDE DEF n
<1>3. o \in Rational /\ (o = n \/ o = e) /\ ~Lt(n, o) /\ ~Lt(e, o)
  BY <1>2, MinLeast
<1> HIDE DEF o
<1>4. ~Lt(m, o) /\ ~Lt(c, o)
  BY <1>1, <1>2, <1>3, LtEither, RationalEnd
<1>5. ~Lt(a, o) /\ ~Lt(b, o)
  BY <1>1, <1>3, <1>4, LtEither, RationalEnd
<1> QED BY <1>1, <1>2, <1>3, <1>4, <1>5 DEF m, n, o

LEMMA GreatestOfFour ==
    ASSUME NEW a \in Rational, NEW b \in Rational, NEW c \in Rational, NEW e \in Rational
    PROVE  /\ MaxOf(MaxOf(MaxOf(a, b), c), e) \in {a, b, c, e}
           /\ \A x \in {a, b, c, e} : ~Lt(MaxOf(MaxOf(MaxOf(a, b), c), e), x)
<1> DEFINE m == MaxOf(a, b)  n == MaxOf(m, c)  o == MaxOf(n, e)
<1>1. m \in Rational /\ (m = a \/ m = b) /\ ~Lt(m, a) /\ ~Lt(m, b)
  BY MaxGreatest
<1> HIDE DEF m
<1>2. n \in Rational /\ (n = m \/ n = c) /\ ~Lt(n, m) /\ ~Lt(n, c)
  BY <1>1, MaxGreatest
<1> HIDE DEF n
<1>3. o \in Rational /\ (o = n \/ o = e) /\ ~Lt(o, n) /\ ~Lt(o, e)
  BY <1>2, MaxGreatest
<1> HIDE DEF o
<1>4. ~Lt(o, m) /\ ~Lt(o, c)
  BY <1>1, <1>2, <1>3, LtEither, RationalEnd
<1>5. ~Lt(o, a) /\ ~Lt(o, b)
  BY <1>1, <1>3, <1>4, LtEither, RationalEnd
<1> QED BY <1>1, <1>2, <1>3, <1>4, <1>5 DEF m, n, o

(* Both ends are numbers that belong to the interval. *)
BothClosed(A) == A.lc /\ A.hc

(* The interval spanned by four numbers holds what is between two of them.    *)
LEMMA SpannedHolds ==
    ASSUME NEW A \in Interval, NEW B \in Interval, BothClosed(A), BothClosed(B),
           NEW f, \A k \in 1 .. 4 : f[k] \in Rational,
           DOMAIN f = 1 .. 4
    PROVE  /\ Spanned(f, A, B) \in Interval
           /\ \A w \in Rational : (\E k \in 1 .. 4 : ~Lt(w, f[k])) /\ (\E k \in 1 .. 4 : ~Lt(f[k], w))
                                   => Holds(Spanned(f, A, B), w)
<1> DEFINE low == MinOf(MinOf(MinOf(f[1], f[2]), f[3]), f[4])
           high == MaxOf(MaxOf(MaxOf(f[1], f[2]), f[3]), f[4])
           hits(end) == {k \in DOMAIN f : Eq(f[k], end)}
           closedAt(end) == hits(end) # {} /\ Corner(A, B, CHOOSE k \in hits(end) : \A l \in hits(end) : k <= l).closed
           C == Iv(low, high, closedAt(low), closedAt(high))
<1>1. f[1] \in Rational /\ f[2] \in Rational /\ f[3] \in Rational /\ f[4] \in Rational
  OBVIOUS
<1>2. /\ low \in {f[1], f[2], f[3], f[4]} /\ low \in Rational
      /\ \A k \in 1 .. 4 : ~Lt(f[k], low)
  BY <1>1, LeastOfFour
<1>3. /\ high \in {f[1], f[2], f[3], f[4]} /\ high \in Rational
      /\ \A k \in 1 .. 4 : ~Lt(high, f[k])
  BY <1>1, GreatestOfFour
<1>4. \A k : Corner(A, B, k).closed
  BY DEF Corner, BothClosed
<1>5. Spanned(f, A, B) = C
  BY DEF Spanned
<1> HIDE DEF low, high
<1>6. closedAt(low) /\ closedAt(high)
  <2>1. \A k \in 1 .. 4 : Eq(f[k], f[k])
    BY RationalEnd, ByLt, LtIrreflexive
  <2>2. (\E k \in 1 .. 4 : low = f[k]) /\ (\E k \in 1 .. 4 : high = f[k])
    BY <1>2, <1>3
  <2>3. hits(low) # {} /\ hits(high) # {}
    BY <2>1, <2>2
  <2> QED BY <2>3, <1>4
<1>7. closedAt(low) \in BOOLEAN /\ closedAt(high) \in BOOLEAN
  BY <1>4 DEF Corner, BothClosed
<1> HIDE DEF closedAt
<1>8. C \in Interval /\ C.lo = low /\ C.hi = high /\ C.lc /\ C.hc
  BY <1>2, <1>3, <1>6, <1>7, RationalEnd DEF Interval, Iv
<1>9. ASSUME NEW w \in Rational, NEW k \in 1 .. 4, ~Lt(w, f[k]), NEW l \in 1 .. 4, ~Lt(f[l], w) PROVE Holds(C, w)
  <2>1. ~Lt(w, low)
    BY <1>2, <1>9, LtEither, RationalEnd
  <2>2. ~Lt(high, w)
    BY <1>3, <1>9, LtEither, RationalEnd
  <2> HIDE DEF C
  <2> QED BY <2>1, <2>2, <1>8, HoldsByLt
<1> HIDE DEF C
<1> QED BY <1>5, <1>8, <1>9

(* The four products or quotients that an operation looks at. *)
LEMMA Corners ==
    ASSUME NEW A, NEW B
    PROVE  /\ Corner(A, B, 1).x = A.lo /\ Corner(A, B, 1).y = B.lo
           /\ Corner(A, B, 2).x = A.lo /\ Corner(A, B, 2).y = B.hi
           /\ Corner(A, B, 3).x = A.hi /\ Corner(A, B, 3).y = B.lo
           /\ Corner(A, B, 4).x = A.hi /\ Corner(A, B, 4).y = B.hi
  BY DEF Corner

(* A closed interval holds the numbers around which its ends are. *)
LEMMA WholeEnds ==
    ASSUME NEW A \in Interval, BothClosed(A)
    PROVE  /\ A.lo \in Rational /\ A.hi \in Rational
           /\ \A u \in Rational : Holds(A, u) <=> ~Lt(u, A.lo) /\ ~Lt(A.hi, u)
           /\ \A u \in Rational : Holds(A, u) => Surrounds(A.lo, A.hi, u)
  BY IntervalType, HoldsByLt DEF BothClosed, Surrounds

(* operator* (interval.cpp:1454): the least and the greatest of the four      *)
(* products of the ends enclose every product of numbers of two closed       *)
(* intervals, save for the product of an interval around zero with its equal, *)
(* which the code takes for a square.                                        *)
THEOREM MulEncloses ==
    ASSUME NEW A \in Interval, NEW B \in Interval, BothClosed(A), BothClosed(B), ~(SameInterval(A, B) /\ CrossesZero(A))
    PROVE  /\ Mul(A, B) \in Interval
           /\ \A u, v \in Rational : Holds(A, u) /\ Holds(B, v) => Holds(Mul(A, B), Times(u, v))
<1>1. CASE IsEmpty(A) \/ IsEmpty(B)
  <2>1. Mul(A, B) = Empty
    BY <1>1 DEF Mul
  <2> QED BY <2>1, <1>1, EmptyIsEmpty, Inhabited
<1>2. CASE ~(IsEmpty(A) \/ IsEmpty(B))
  <2> DEFINE f == [k \in 1 .. 4 |-> Times(Corner(A, B, k).x, Corner(A, B, k).y)]
  <2>1. Mul(A, B) = Spanned(f, A, B)
    BY <1>2 DEF Mul
  <2>2. /\ A.lo \in Rational /\ A.hi \in Rational /\ B.lo \in Rational /\ B.hi \in Rational
        /\ \A u \in Rational : Holds(A, u) => Surrounds(A.lo, A.hi, u)
        /\ \A u \in Rational : Holds(B, u) => Surrounds(B.lo, B.hi, u)
    BY WholeEnds
  <2>3. /\ f[1] = Times(A.lo, B.lo) /\ f[2] = Times(A.lo, B.hi)
        /\ f[3] = Times(A.hi, B.lo) /\ f[4] = Times(A.hi, B.hi)
        /\ DOMAIN f = 1 .. 4
    BY Corners
  <2> HIDE DEF f
  <2>4. \A k \in 1 .. 4 : f[k] \in Rational
    <3>1. f[1] \in Rational /\ f[2] \in Rational /\ f[3] \in Rational /\ f[4] \in Rational
      BY <2>2, <2>3, TimesRational
    <3> QED BY <3>1
  <2>5. ASSUME NEW u \in Rational, NEW v \in Rational, Holds(A, u), Holds(B, v)
        PROVE  Times(u, v) \in Rational /\ Holds(Spanned(f, A, B), Times(u, v))
    <3> DEFINE w == Times(u, v)
    <3>1. /\ ~Lt(w, f[1]) \/ ~Lt(w, f[2]) \/ ~Lt(w, f[3]) \/ ~Lt(w, f[4])
          /\ ~Lt(f[1], w) \/ ~Lt(f[2], w) \/ ~Lt(f[3], w) \/ ~Lt(f[4], w)
      BY <2>2, <2>3, <2>5, BoxSpans
    <3>2. w \in Rational
      BY TimesRational
    <3> HIDE DEF w
    <3>3. (\E k \in 1 .. 4 : ~Lt(w, f[k])) /\ (\E k \in 1 .. 4 : ~Lt(f[k], w))
      BY <3>1
    <3>4. Holds(Spanned(f, A, B), w)
      BY <2>3, <2>4, <3>2, <3>3, SpannedHolds
    <3> QED BY <3>2, <3>4 DEF w
  <2>6. Spanned(f, A, B) \in Interval
    BY <2>3, <2>4, SpannedHolds
  <2> QED BY <2>1, <2>5, <2>6
<1> QED BY <1>1, <1>2

(* The inverse of a number that is not zero. *)
Inv(v) == IF v.n > 0 THEN Fraction(v.d, v.n) ELSE Fraction(-v.d, -v.n)

LEMMA OverByInv ==
    ASSUME NEW v \in Rational, v.n # 0
    PROVE  /\ Inv(v) \in Rational
           /\ \A u \in Rational : Over(u, v) = Times(u, Inv(v)) /\ Over(u, v) \in Rational
<1>1. v.n \in Int /\ v.d \in Nat /\ v.d > 0
  BY RationalEnd, EndType
<1>2. CASE v.n > 0
  <2>1. Inv(v) = Fraction(v.d, v.n) /\ \A u : Over(u, v) = Times(u, Inv(v))
    BY <1>1, <1>2 DEF Inv, Over
  <2>2. Inv(v) \in Rational
    BY <2>1, <1>1, <1>2 DEF Fraction, Rational
  <2> QED BY <2>1, <2>2, TimesRational
<1>3. CASE v.n < 0
  <2>1. Inv(v) = Fraction(-v.d, -v.n) /\ \A u : Over(u, v) = Times(u, Inv(v))
    BY <1>1, <1>3 DEF Inv, Over
  <2>2. Inv(v) \in Rational
    BY <2>1, <1>1, <1>3 DEF Fraction, Rational
  <2> QED BY <2>1, <2>2, TimesRational
<1> QED BY <1>1, <1>2, <1>3

(* Inverting turns the order of numbers on one side of zero. *)
LEMMA InvTurns ==
    ASSUME NEW x \in Rational, NEW y \in Rational, (x.n > 0 /\ y.n > 0) \/ (x.n < 0 /\ y.n < 0)
    PROVE  Lt(Inv(x), Inv(y)) <=> Lt(y, x)
<1>1. /\ x.n \in Int /\ x.d \in Nat /\ x.d > 0 /\ x \in End
      /\ y.n \in Int /\ y.d \in Nat /\ y.d > 0 /\ y \in End
  BY RationalEnd, EndType
<1>2. Inv(x) \in End /\ Inv(y) \in End
  BY <1>1, OverByInv, RationalEnd
<1>3. Lt(y, x) <=> y.n * x.d < x.n * y.d
  BY <1>1, LtCases DEF LessFraction
<1>4. /\ x.d * y.n = y.n * x.d /\ y.d * x.n = x.n * y.d
      /\ (-x.d) * (-y.n) = y.n * x.d /\ (-y.d) * (-x.n) = x.n * y.d
  BY <1>1, SMTT(20)
<1>5. CASE x.n > 0 /\ y.n > 0
  <2>1. /\ Inv(x).n = x.d /\ Inv(x).d = x.n
        /\ Inv(y).n = y.d /\ Inv(y).d = y.n
    BY <1>5 DEF Inv, Fraction
  <2>2. Lt(Inv(x), Inv(y)) <=> x.d * y.n < y.d * x.n
    BY <2>1, <1>1, <1>2, <1>5, LtCases DEF LessFraction
  <2> QED BY <2>2, <1>3, <1>4
<1>6. CASE x.n < 0 /\ y.n < 0
  <2>1. /\ Inv(x).n = -x.d /\ Inv(x).d = -x.n
        /\ Inv(y).n = -y.d /\ Inv(y).d = -y.n
    BY <1>1, <1>6 DEF Inv, Fraction
  <2>2. Lt(Inv(x), Inv(y)) <=> (-x.d) * (-y.n) < (-y.d) * (-x.n)
    <3>1. Inv(x).d > 0 /\ Inv(y).d > 0
      BY <2>1, <1>1, <1>6
    <3>2. Lt(Inv(x), Inv(y)) <=> LessFraction(Inv(x).n, Inv(x).d, Inv(y).n, Inv(y).d)
      BY <3>1, <1>2, LtCases
    <3> QED BY <3>2, <2>1 DEF LessFraction
  <2> QED BY <2>2, <1>3, <1>4
<1> QED BY <1>5, <1>6

(* A divisor that does not hold zero is on one side of it, so its inverses    *)
(* are between those of its ends.                                           *)
LEMMA InvSpans ==
    ASSUME NEW B \in Interval, BothClosed(B), ~HoldsZero(B), NEW v \in Rational, Holds(B, v)
    PROVE  /\ B.lo \in Rational /\ B.lo.n # 0 /\ B.hi \in Rational /\ B.hi.n # 0 /\ v.n # 0
           /\ Inv(B.lo) \in Rational /\ Inv(B.hi) \in Rational /\ Inv(v) \in Rational
           /\ Surrounds(Inv(B.lo), Inv(B.hi), Inv(v))
<1>1. /\ B.lo \in Rational /\ B.hi \in Rational /\ B.lo \in End /\ B.hi \in End /\ v \in End
      /\ ~Lt(v, B.lo) /\ ~Lt(B.hi, v)
  BY WholeEnds, RationalEnd
<1>2. B.lo.n \in Int /\ B.hi.n \in Int /\ v.n \in Int
  BY <1>1, EndType
<1>3. B.lo.n # 0 /\ B.hi.n # 0 /\ ~(B.lo.n < 0 /\ B.hi.n > 0)
  BY <1>1, <1>2, ZeroLess, ByLt DEF HoldsZero, BothClosed
<1>4. (B.lo.n > 0 => v.n > 0) /\ (B.hi.n < 0 => v.n < 0)
  <2>1. Zero \in End
    BY <1>1, ZeroLess
  <2>2. ASSUME B.lo.n > 0 PROVE v.n > 0
    <3>1. Lt(Zero, v)
      BY <2>1, <2>2, <1>1, ZeroLess, LtEither
    <3> QED BY <3>1, <1>1, ZeroLess
  <2>3. ASSUME B.hi.n < 0 PROVE v.n < 0
    <3>1. Lt(v, Zero)
      BY <2>1, <2>3, <1>1, ZeroLess, LtEither
    <3> QED BY <3>1, <1>1, ZeroLess
  <2> QED BY <2>2, <2>3
<1>5. \/ B.lo.n > 0 /\ v.n > 0
      \/ B.lo.n < 0 /\ B.hi.n < 0 /\ v.n < 0
  BY <1>2, <1>3, <1>4
<1>6. B.lo.n > 0 => B.hi.n > 0
  <2>1. Zero \in End
    BY <1>1, ZeroLess
  <2>2. ASSUME B.lo.n > 0 PROVE B.hi.n > 0
    <3>1. Lt(Zero, B.lo) /\ Lt(Zero, v)
      BY <2>2, <1>1, <1>2, <1>5, ZeroLess
    <3>2. Lt(Zero, B.hi)
      BY <3>1, <2>1, <1>1, LtEither
    <3> QED BY <3>2, <1>1, ZeroLess
  <2> QED BY <2>2
<1>7. /\ v.n # 0
      /\ Inv(B.lo) \in Rational /\ Inv(B.hi) \in Rational /\ Inv(v) \in Rational
  BY <1>1, <1>2, <1>3, <1>5, OverByInv
<1>8. ~Lt(Inv(v), Inv(B.hi)) /\ ~Lt(Inv(B.lo), Inv(v))
  BY <1>1, <1>5, <1>6, InvTurns
<1> QED BY <1>1, <1>3, <1>7, <1>8 DEF Surrounds

(* The constant for the interval of all numbers. *)
LEMMA FullHoldsAll ==
    /\ Full \in Interval
    /\ \A w \in Rational : Holds(Full, w)
<1>1. NegInf \in Lower /\ PosInf \in Upper
  BY DEF NegInf, PosInf, Fraction, Lower, Upper, End
<1>2. Full \in Interval /\ Full.lo = NegInf /\ Full.hi = PosInf /\ Full.lc = FALSE /\ Full.hc = FALSE
  BY <1>1 DEF Full, Interval, Iv
<1>3. \A w \in Rational : Lt(NegInf, w) /\ Lt(w, PosInf)
  <2> SUFFICES ASSUME NEW w \in Rational PROVE Lt(NegInf, w) /\ Lt(w, PosInf)
    OBVIOUS
  <2>1. w \in End /\ w.d > 0
    BY RationalEnd, EndType
  <2>2. /\ NegInf \in End /\ NegInf.d = 0 /\ NegInf.n < 0
        /\ PosInf \in End /\ PosInf.d = 0 /\ PosInf.n > 0
    BY DEF NegInf, PosInf, Fraction, End
  <2> QED BY <2>1, <2>2, LtCases
<1> QED BY <1>2, <1>3, HoldsByLt

(* The floor of a number is the greatest integer that is not above it, so     *)
(* taking floors keeps the order.                                           *)
LEMMA FloorKeepsOrder ==
    ASSUME NEW x \in Rational, NEW y \in Rational
    PROVE  /\ FloorOf(x) \in Rational
           /\ ~Lt(x, y) => ~Lt(FloorOf(x), FloorOf(y))
<1> DEFINE a == x.n  b == x.d  c == y.n  e == y.d
<1>1. /\ a \in Int /\ b \in Nat /\ b > 0 /\ x \in End
      /\ c \in Int /\ e \in Nat /\ e > 0 /\ y \in End
  BY RationalEnd, EndType
<1> DEFINE p == a \div b  q == c \div e
<1>2. FloorOf(x) = [n |-> p, d |-> 1] /\ FloorOf(y) = [n |-> q, d |-> 1]
  BY <1>1 DEF FloorOf, Num, Fraction
<1>3. Lt(x, y) <=> a * e < c * b
  BY <1>1, LtCases DEF LessFraction
<1> HIDE DEF a, b, c, e
<1>4. /\ p \in Int /\ p * b <= a /\ a < (p + 1) * b
      /\ q \in Int /\ q * e <= c /\ c < (q + 1) * e
  BY <1>1, SMTT(20)
<1> HIDE DEF p, q
<1>5. FloorOf(x) \in Rational /\ FloorOf(y) \in Rational
  BY <1>2, <1>4 DEF Rational
<1>6. Lt(FloorOf(x), FloorOf(y)) <=> p < q
  <2>1. Lt(FloorOf(x), FloorOf(y)) <=> p * 1 < q * 1
    BY <1>2, <1>5, RationalEnd, LtCases DEF LessFraction
  <2> QED BY <2>1, <1>4
<1>7. ASSUME p < q PROVE a * e < c * b
  <2>1. p + 1 <= q
    BY <1>4, <1>7
  <2>2. a * e < ((p + 1) * b) * e
    BY <1>1, <1>4, Scaled
  <2>3. (p + 1) * (b * e) <= q * (b * e)
    <3>1. b * e \in Int /\ b * e > 0
      BY <1>1, SMTT(20)
    <3>2. CASE p + 1 = q
      <4>1. q * (b * e) \in Int
        BY <3>1, <1>4
      <4> QED BY <4>1, <3>2
    <3>3. CASE p + 1 < q
      BY <3>1, <3>3, <1>4, Scaled
    <3> QED BY <2>1, <3>2, <3>3, <1>4
  <2>4. (q * e) * b <= c * b
    <3>1. CASE q * e = c
      BY <3>1, <1>1
    <3>2. CASE q * e < c
      BY <3>2, <1>1, <1>4, Scaled
    <3> QED BY <3>1, <3>2, <1>1, <1>4
  <2>5. ((p + 1) * b) * e = (p + 1) * (b * e) /\ (q * e) * b = q * (b * e)
    BY <1>1, <1>4, SMTT(20)
  <2>6. a * e \in Int /\ c * b \in Int /\ (p + 1) * (b * e) \in Int /\ q * (b * e) \in Int
    BY <1>1, <1>4
  <2> QED BY <2>2, <2>3, <2>4, <2>5, <2>6
<1> QED BY <1>3, <1>5, <1>6, <1>7

(* What is asked of a quotient: the exact one, or its floor. *)
LEMMA QuotientsSpan ==
    ASSUME NEW A \in Interval, NEW B \in Interval, BothClosed(A), BothClosed(B), ~HoldsZero(B), ~IsEmpty(A), ~IsEmpty(B)
    PROVE  LET f == Quotients(A, B) IN
           /\ DOMAIN f = 1 .. 4 /\ \A k \in 1 .. 4 : f[k] \in Rational
           /\ ~CornerThrows(A, B)
           /\ \A u, v \in Rational : Holds(A, u) /\ Holds(B, v) =>
                 /\ v.n # 0 /\ Over(u, v) \in Rational
                 /\ \E k \in 1 .. 4 : ~Lt(Over(u, v), f[k])
                 /\ \E k \in 1 .. 4 : ~Lt(f[k], Over(u, v))
<1> DEFINE f == Quotients(A, B)
<1>1. /\ A.lo \in Rational /\ A.hi \in Rational
      /\ \A u \in Rational : Holds(A, u) => Surrounds(A.lo, A.hi, u)
  BY WholeEnds
<1>2. /\ B.lo \in Rational /\ B.lo.n # 0 /\ B.hi \in Rational /\ B.hi.n # 0
      /\ Inv(B.lo) \in Rational /\ Inv(B.hi) \in Rational
  <2>1. \E v \in Rational : Holds(B, v)
    BY Inhabited
  <2> QED BY <2>1, InvSpans
<1>3. /\ f[1] = Over(A.lo, B.lo) /\ f[2] = Over(A.lo, B.hi)
      /\ f[3] = Over(A.hi, B.lo) /\ f[4] = Over(A.hi, B.hi)
      /\ DOMAIN f = 1 .. 4
  BY Corners DEF Quotients
<1> HIDE DEF f
<1>4. /\ f[1] = Times(A.lo, Inv(B.lo)) /\ f[2] = Times(A.lo, Inv(B.hi))
      /\ f[3] = Times(A.hi, Inv(B.lo)) /\ f[4] = Times(A.hi, Inv(B.hi))
  BY <1>1, <1>2, <1>3, OverByInv
<1>5. \A k \in 1 .. 4 : f[k] \in Rational
  <2>1. f[1] \in Rational /\ f[2] \in Rational /\ f[3] \in Rational /\ f[4] \in Rational
    BY <1>1, <1>2, <1>4, TimesRational
  <2> QED BY <2>1
<1>6. ~CornerThrows(A, B)
  BY <1>2 DEF CornerThrows, DivThrows, Corner
<1>7. ASSUME NEW u \in Rational, NEW v \in Rational, Holds(A, u), Holds(B, v)
      PROVE  /\ v.n # 0 /\ Over(u, v) \in Rational
             /\ \E k \in 1 .. 4 : ~Lt(Over(u, v), f[k])
             /\ \E k \in 1 .. 4 : ~Lt(f[k], Over(u, v))
  <2>1. v.n # 0 /\ Inv(v) \in Rational /\ Surrounds(Inv(B.lo), Inv(B.hi), Inv(v))
    BY <1>7, InvSpans
  <2>2. Over(u, v) = Times(u, Inv(v)) /\ Over(u, v) \in Rational
    BY <2>1, OverByInv
  <2> DEFINE w == Times(u, Inv(v))
  <2>3. /\ ~Lt(w, f[1]) \/ ~Lt(w, f[2]) \/ ~Lt(w, f[3]) \/ ~Lt(w, f[4])
        /\ ~Lt(f[1], w) \/ ~Lt(f[2], w) \/ ~Lt(f[3], w) \/ ~Lt(f[4], w)
    BY <1>1, <1>2, <1>4, <1>7, <2>1, BoxSpans
  <2> HIDE DEF w
  <2>4. (\E k \in 1 .. 4 : ~Lt(w, f[k])) /\ (\E k \in 1 .. 4 : ~Lt(f[k], w))
    BY <2>3
  <2> QED BY <2>1, <2>2, <2>4 DEF w
<1> QED BY <1>3, <1>5, <1>6, <1>7 DEF f

(* The interval of zero alone. *)
LEMMA ZeroPoint ==
    /\ Point(Zero) \in Interval
    /\ \A A \in Interval : IsZeroPoint(A) => ~IsEmpty(A)
<1>1. Zero \in Rational /\ Zero \in End
  BY DEF Zero, Num, Fraction, Rational, End
<1>2. Point(Zero) \in Interval
  BY <1>1, IntervalMade, RationalEnd DEF Point
<1>3. ASSUME NEW A \in Interval, IsZeroPoint(A) PROVE ~IsEmpty(A)
  <2>1. A.lo \in End /\ A.hi \in End
    BY EndsOf
  <2>2. A.lc /\ A.hc /\ ~Lt(A.hi, Zero) /\ ~Lt(Zero, A.lo)
    BY <1>1, <1>3, <2>1, ByLt DEF IsZeroPoint
  <2>3. ~Lt(A.hi, A.lo)
    BY <1>1, <2>1, <2>2, LtEither
  <2> QED BY <2>2, <2>3, EmptyByLt
<1> QED BY <1>2, <1>3

(* Dividing zero gives zero, and so does its floor. *)
LEMMA ZeroOver ==
    ASSUME NEW A \in Interval, IsZeroPoint(A), NEW u \in Rational, Holds(A, u), NEW v \in Rational, v.n # 0
    PROVE  /\ Point(Zero) \in Interval
           /\ Holds(Point(Zero), Over(u, v)) /\ Holds(Point(Zero), FloorOf(Over(u, v)))
<1>1. Zero \in Rational /\ Zero \in End /\ A.lo \in End /\ A.hi \in End /\ u \in End /\ u.n \in Int /\ v.n \in Int
  BY EndsOf, ZeroLess, RationalEnd, EndType
<1>2. A.lc /\ A.hc /\ ~Lt(A.lo, Zero) /\ ~Lt(Zero, A.hi)
  BY <1>1, ByLt DEF IsZeroPoint
<1>3. ~Lt(u, Zero) /\ ~Lt(Zero, u)
  BY <1>1, <1>2, HoldsByLt, LtEither
<1>4. u.n = 0
  BY <1>1, <1>3, ZeroLess
<1>5. Over(u, v) \in Rational /\ Over(u, v).n = 0
  BY <1>4, OverByInv, TimesRational
<1>6. FloorOf(Over(u, v)) \in Rational /\ FloorOf(Over(u, v)).n = 0
  <2>1. Over(u, v).d \in Nat /\ Over(u, v).d > 0
    BY <1>5, RationalEnd, EndType
  <2>2. 0 \div Over(u, v).d = 0
    BY <2>1, SMTT(20)
  <2> QED BY <1>5, <2>1, <2>2 DEF FloorOf, Num, Fraction, Rational
<1>7. Point(Zero) \in Interval
  BY <1>1, IntervalMade, RationalEnd DEF Point
<1>8. Point(Zero).lo = Zero /\ Point(Zero).hi = Zero /\ Point(Zero).lc /\ Point(Zero).hc
  BY DEF Point, Iv
<1>9. \A w \in Rational : w.n = 0 => Holds(Point(Zero), w)
  BY <1>7, <1>8, HoldsByLt, ZeroLess, RationalEnd
<1> QED BY <1>5, <1>6, <1>7, <1>9

(* divReal (interval.cpp:1584): the four quotients of the ends enclose every  *)
(* quotient of numbers of two closed intervals, whatever side of zero the    *)
(* divisor is on; a divisor that holds zero gives all numbers.               *)
THEOREM DivRealEncloses ==
    ASSUME NEW A \in Interval, NEW B \in Interval, BothClosed(A), BothClosed(B)
    PROVE  /\ DivReal(A, B) \in Interval
           /\ \A u, v \in Rational : Holds(A, u) /\ Holds(B, v) /\ v.n # 0 => Holds(DivReal(A, B), Over(u, v))
<1>1. CASE IsEmpty(A) \/ IsEmpty(B)
  <2>1. DivReal(A, B) = Empty
    BY <1>1, ZeroPoint DEF DivReal
  <2> QED BY <2>1, <1>1, EmptyIsEmpty, Inhabited
<1>2. CASE ~IsEmpty(A) /\ ~IsEmpty(B) /\ HoldsZero(B)
  <2>1. DivReal(A, B) = Full
    BY <1>2 DEF DivReal
  <2> QED BY <2>1, FullHoldsAll, OverByInv
<1>3. CASE ~IsEmpty(A) /\ ~IsEmpty(B) /\ ~HoldsZero(B) /\ IsZeroPoint(A)
  <2>1. DivReal(A, B) = Point(Zero)
    BY <1>3 DEF DivReal
  <2>2. Point(Zero) \in Interval
    BY ZeroPoint
  <2> QED BY <2>1, <2>2, <1>3, ZeroOver
<1>4. CASE ~IsEmpty(A) /\ ~IsEmpty(B) /\ ~HoldsZero(B) /\ ~IsZeroPoint(A)
  <2> DEFINE f == Quotients(A, B)
  <2>1. /\ DOMAIN f = 1 .. 4 /\ (\A k \in 1 .. 4 : f[k] \in Rational)
        /\ ~CornerThrows(A, B)
        /\ \A u, v \in Rational : Holds(A, u) /\ Holds(B, v) =>
              /\ v.n # 0 /\ Over(u, v) \in Rational
              /\ \E k \in 1 .. 4 : ~Lt(Over(u, v), f[k])
              /\ \E k \in 1 .. 4 : ~Lt(f[k], Over(u, v))
    BY <1>4, QuotientsSpan
  <2>2. DivReal(A, B) = Spanned(f, A, B)
    BY <2>1, <1>4 DEF DivReal
  <2> HIDE DEF f
  <2> QED BY <2>1, <2>2, SpannedHolds
<1> QED BY <1>1, <1>2, <1>3, <1>4

(* divInt (interval.cpp:1654): the floors of the four quotients enclose the   *)
(* floors of all quotients.                                                  *)
THEOREM DivIntEncloses ==
    ASSUME NEW A \in Interval, NEW B \in Interval, BothClosed(A), BothClosed(B)
    PROVE  /\ DivInt(A, B) \in Interval
           /\ \A u, v \in Rational : Holds(A, u) /\ Holds(B, v) /\ v.n # 0 => Holds(DivInt(A, B), FloorOf(Over(u, v)))
<1>1. CASE IsEmpty(A) \/ IsEmpty(B)
  <2>1. DivInt(A, B) = Empty
    BY <1>1, ZeroPoint DEF DivInt
  <2> QED BY <2>1, <1>1, EmptyIsEmpty, Inhabited
<1>2. CASE ~IsEmpty(A) /\ ~IsEmpty(B) /\ HoldsZero(B)
  <2>1. DivInt(A, B) = Full
    BY <1>2 DEF DivInt
  <2> QED BY <2>1, FullHoldsAll, OverByInv, FloorKeepsOrder
<1>3. CASE ~IsEmpty(A) /\ ~IsEmpty(B) /\ ~HoldsZero(B) /\ IsZeroPoint(A)
  <2>1. DivInt(A, B) = Point(Zero)
    BY <1>3 DEF DivInt
  <2>2. Point(Zero) \in Interval
    BY ZeroPoint
  <2> QED BY <2>1, <2>2, <1>3, ZeroOver
<1>4. CASE ~IsEmpty(A) /\ ~IsEmpty(B) /\ ~HoldsZero(B) /\ ~IsZeroPoint(A)
  <2> DEFINE f == Quotients(A, B)
             g == [k \in 1 .. 4 |-> FloorOf(Quotients(A, B)[k])]
  <2>1. /\ DOMAIN f = 1 .. 4 /\ (\A k \in 1 .. 4 : f[k] \in Rational)
        /\ ~CornerThrows(A, B)
        /\ \A u, v \in Rational : Holds(A, u) /\ Holds(B, v) =>
              /\ v.n # 0 /\ Over(u, v) \in Rational
              /\ \E k \in 1 .. 4 : ~Lt(Over(u, v), f[k])
              /\ \E k \in 1 .. 4 : ~Lt(f[k], Over(u, v))
    BY <1>4, QuotientsSpan
  <2>2. DivInt(A, B) = Spanned(g, A, B)
    BY <2>1, <1>4 DEF DivInt
  <2>3. DOMAIN g = 1 .. 4 /\ \A k \in 1 .. 4 : g[k] = FloorOf(f[k])
    OBVIOUS
  <2> HIDE DEF f, g
  <2>4. \A k \in 1 .. 4 : g[k] \in Rational
    BY <2>1, <2>3, FloorKeepsOrder
  <2>5. ASSUME NEW u \in Rational, NEW v \in Rational, Holds(A, u), Holds(B, v)
        PROVE  Holds(Spanned(g, A, B), FloorOf(Over(u, v)))
    <3> DEFINE w == Over(u, v)  o == FloorOf(w)
    <3>1. w \in Rational /\ (\E k \in 1 .. 4 : ~Lt(w, f[k])) /\ (\E k \in 1 .. 4 : ~Lt(f[k], w))
      BY <2>1, <2>5
    <3> HIDE DEF w
    <3>2. o \in Rational /\ (\E k \in 1 .. 4 : ~Lt(o, g[k])) /\ (\E k \in 1 .. 4 : ~Lt(g[k], o))
      BY <3>1, <2>1, <2>3, FloorKeepsOrder
    <3> HIDE DEF o
    <3>3. Holds(Spanned(g, A, B), o)
      BY <3>2, <2>3, <2>4, SpannedHolds
    <3> QED BY <3>3 DEF o, w
  <2> QED BY <2>2, <2>3, <2>4, <2>5, SpannedHolds
<1> QED BY <1>1, <1>2, <1>3, <1>4
=============================================================================
