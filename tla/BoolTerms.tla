------------------------------ MODULE BoolTerms ------------------------------
(***************************************************************************)
(* Boolean terms and the operators that build them (Parser::mkNot, mkAnd,   *)
(* ..., src/frontend/op_parser.cpp, with the Boolean cases of simp_oper,    *)
(* simp_parser.cpp).  Terms are hash-consed, so a term is its structure: two *)
(* nodes are the same exactly when they are equal here.                     *)
(*                                                                         *)
(* Leaves are the constants, variables, temporaries, and the atoms of the   *)
(* theories: applications of predicates, and comparisons, each of which has *)
(* an opposite ((< a b) and (>= a b)) that mkNot turns it into.  A let that  *)
(* is kept as a node is left out: the conversions reject it.                *)
(***************************************************************************)
EXTENDS Integers, FiniteSets, SequencesExt

CONSTANT OrderKey(_)   \* DAGNode::orderKey, a hash of the printed term

Node(op, args) == [op |-> op, id |-> 0, args |-> args]
Leaf(op, id) == [op |-> op, id |-> id, args |-> << >>]

True == Leaf("true", 0)
False == Leaf("false", 0)
Unknown == Leaf("unknown", 0)   \* what simp_oper returns when it has no answer
Truth(b) == IF b THEN True ELSE False

Comparison(id) == Leaf("comparison", id)
Opposite(t) == [t EXCEPT !.op = IF @ = "comparison" THEN "opposite" ELSE "comparison"]

Constants == {True, False}
IsConst(t) == t \in Constants
IsVBool(t) == t.op \in {"var", "temp"}
IsNot(t) == t.op = "not"
IsLiteral(t) == IsConst(t) \/ IsVBool(t) \/ (IsNot(t) /\ IsVBool(t.args[1]))
IsComparison(t) == t.op \in {"comparison", "opposite"}
IsAtom(t) == t.op = "predicate" \/ IsComparison(t)
-----------------------------------------------------------------------------
(* What a term says: the leaves in "holds" are true.                        *)

RECURSIVE Value(_, _)
Value(t, holds) ==
    LET v(i) == Value(t.args[i], holds)
        last == Len(t.args)
    IN  CASE t.op = "true"     -> TRUE
          [] t.op = "false"    -> FALSE
          [] t.op = "opposite" -> Opposite(t) \notin holds
          [] t.op = "not"      -> ~v(1)
          [] t.op = "and"      -> \A i \in 1 .. last : v(i)
          [] t.op = "or"       -> \E i \in 1 .. last : v(i)
          [] t.op = "=>"       -> (\A i \in 1 .. last - 1 : v(i)) => v(last)
          [] t.op = "xor"      -> FoldLeft(LAMBDA p, i : p # v(i), FALSE, [i \in 1 .. last |-> i])
          [] t.op = "ite"      -> IF v(1) THEN v(2) ELSE v(3)
          [] t.op = "="        -> \A i \in 2 .. last : v(i) = v(1)
          [] t.op = "distinct" -> \A i, j \in 1 .. last : i # j => v(i) # v(j)
          [] OTHER             -> t \in holds
-----------------------------------------------------------------------------
(* mkOper: simplify, or make a node whose operands are in canonical order.  *)

(* The results of Op on the elements of a sequence.                         *)
Each(Op(_), s) == FoldLeft(LAMBDA done, t : Append(done, Op(t)), << >>, s)

Commutative == {"and", "or", "xor", "=", "distinct"}

(* A stable sort by OrderKey.                                               *)
SortedBy(keys, s) ==
    LET Before(i, j) == keys[i] < keys[j] \/ (keys[i] = keys[j] /\ i < j)
        Rank(i) == 1 + Cardinality({j \in DOMAIN s : Before(j, i)})
    IN  [k \in DOMAIN s |-> s[CHOOSE i \in DOMAIN s : Rank(i) = k]]

SortParams(s) == SortedBy(Each(OrderKey, s), s)

(* The Boolean cases of simp_oper with two operands.                        *)
SimpBinary(op, l, r) ==
    CASE op = "and" /\ False \in {l, r}                    -> False
      [] op = "and" /\ {l, r} = {True}                     -> True
      [] op = "or" /\ True \in {l, r}                      -> True
      [] op = "or" /\ {l, r} = {False}                     -> False
      [] op = "=>" /\ (l = False \/ r = True)              -> True
      [] op = "=>" /\ l = True /\ r = False                -> False
      [] op = "xor" /\ {l, r} \subseteq Constants          -> Truth(l # r)
      [] OTHER                                             -> Unknown

(* More operands are folded from the left; from four on the fold stops at   *)
(* the first pair without an answer, and an implication is looked at whole. *)
Simp(op, s) ==
    CASE op = "ite" -> CASE s[1] = True -> s[2] [] s[1] = False -> s[3] [] OTHER -> Unknown
      [] op = "not" -> Unknown   \* mkNot has dealt with the constants
      [] op \in {"=", "distinct"} -> Unknown   \* answers constants of other sorts only
      [] op = "=>" /\ Len(s) > 3 ->
            CASE False \in ToSet(Front(s)) \/ Last(s) = True -> True
              [] ToSet(Front(s)) = {True} /\ Last(s) = False -> False
              [] OTHER -> Unknown
      [] OTHER -> FoldLeft(LAMBDA acc, t : IF acc = Unknown /\ Len(s) > 3 THEN Unknown
                                           ELSE SimpBinary(op, acc, t), Head(s), Tail(s))

SimplifiedOr(simp, node) == IF simp # Unknown THEN simp ELSE node

MkOper(op, s) ==
    SimplifiedOr(Simp(op, s), Node(op, IF op \in Commutative THEN SortParams(s) ELSE s))
-----------------------------------------------------------------------------
(* The builders.                                                            *)

(* Negating a comparison gives the opposite one (negateComp).               *)
MkNot(t) ==
    CASE IsNot(t)        -> t.args[1]
      [] IsConst(t)      -> Truth(t = False)
      [] IsComparison(t) -> Opposite(t)
      [] OTHER           -> MkOper("not", <<t>>)

(* Mutant: the operands with the same key as another are dropped too. *)
DeduplicatedByKey(s) ==
    FoldLeft(LAMBDA seen, t : IF \E i \in DOMAIN seen : OrderKey(seen[i]) = OrderKey(t)
                              THEN seen ELSE Append(seen, t), << >>, s)

(* The first occurrence of each operand.                                    *)
Deduplicated(s) ==
    FoldLeft(LAMBDA seen, t : IF Contains(seen, t) THEN seen ELSE Append(seen, t), << >>, s)

MkOf(op, unit, params) ==
    CASE params = << >>   -> unit
      [] Len(params) = 1  -> params[1]
      [] OTHER            -> MkOper(op, params)

(* mkAnd and mkOr are the same but for the constants.                       *)
MkJunction(op, unit, zero, s) ==
    CASE Len(s) = 1          -> s[1]
      [] zero \in ToSet(s) /\ Len(s) # 1 -> zero
      [] OTHER -> MkOf(op, unit, Deduplicated(SelectSeq(s, LAMBDA t : t # unit)))

MkAnd(s) == MkJunction("and", True, False, s)
MkOr(s) == MkJunction("or", False, True, s)

MkImplies(s) ==
    LET premises == SelectSeq(Front(s), LAMBDA t : t # True)
    IN  CASE False \in ToSet(premises) -> True
          [] premises = << >>          -> Last(s)
          [] OTHER                     -> MkOper("=>", Append(premises, Last(s)))

MkXor(s) ==
    IF Len(s) = 1 THEN s[1] ELSE MkOf("xor", False, SelectSeq(s, LAMBDA t : t # False))

MkIte(c, t, e) == MkOper("ite", <<c, t, e>>)

(* mkEq drops the operand true; with two operands it first looks for        *)
(* constants and negations.                                                 *)
MkEqPair(l, r) ==
    CASE l = True            -> r
      [] r = True            -> l
      [] l = False           -> MkNot(r)
      [] r = False           -> MkNot(l)
      [] IsNot(l) /\ IsNot(r) -> MkOper("=", <<l.args[1], r.args[1]>>)
      [] OTHER               -> MkOper("=", <<l, r>>)

MkEq(s) ==
    IF Len(s) = 2 THEN MkEqPair(s[1], s[2])
    ELSE MkOf("=", True, SelectSeq(s, LAMBDA t : t # True))

(* mkDistinct of a vector drops the operand false.                          *)
MkDistinct(s) == MkOf("distinct", False, SelectSeq(s, LAMBDA t : t # False))

(* The parser builds a term from the inside out.                            *)
RECURSIVE Build(_)
Build(t) ==
    LET s == Each(Build, t.args)
    IN  CASE t.op = "not"      -> MkNot(s[1])
          [] t.op = "and"      -> MkAnd(s)
          [] t.op = "or"       -> MkOr(s)
          [] t.op = "=>"       -> MkImplies(s)
          [] t.op = "xor"      -> MkXor(s)
          [] t.op = "ite"      -> MkIte(s[1], s[2], s[3])
          [] t.op = "="        -> MkEq(s)
          [] t.op = "distinct" -> MkDistinct(s)
          [] OTHER             -> t
=============================================================================
