----------------------------- MODULE NormalForms -----------------------------
(***************************************************************************)
(* Negation and disjunctive normal form and the splitting of chains        *)
(* (toNNF, toDNF, binarizeOp, src/frontend/conv_parser.cpp).                *)
(*                                                                         *)
(* A recursion over a term carries what the code hands down by reference:   *)
(* the memo "visited" and the flag is_changed.  The memo of                 *)
(* applyDNFDistributiveLawRec, which only saves work, is left out.          *)
(***************************************************************************)
EXTENDS BoolTerms, TLC

NoMap == [t \in {} |-> t]

(* The results r of the operands, as a loop over them collects them.        *)
Collected(visited, changed) == [terms |-> << >>, visited |-> visited, changed |-> changed]
Collect(acc, r) ==
    [terms |-> Append(acc.terms, r.term), visited |-> r.visited,
     changed |-> acc.changed \/ r.changed]

Return(t, new, memo, changed) ==
    [term |-> new, visited |-> (t :> new) @@ memo, changed |-> changed]

(* A node of the same kind over the new operands, if any of them is new.    *)
Remade(t, all) ==
    Return(t, IF all.changed THEN MkOper(t.op, all.terms) ELSE t, all.visited, all.changed)
-----------------------------------------------------------------------------
(* toNNF.  Negations are pushed through not, and, or, => and ite; below xor, *)
(* = and distinct nothing changes.                                          *)

Dual(op, isNot) == IF isNot THEN (IF op = "and" THEN "or" ELSE "and") ELSE op

RECURSIVE Nnf(_, _)
Nnf(t, isNot) ==
    LET n(i, neg) == Nnf(t.args[i], neg)
        children == Each(LAMBDA c : Nnf(c, isNot), t.args)
    IN  CASE t.op = "not" -> n(1, ~isNot)
          [] t.op \in {"and", "or"} ->
                IF Dual(t.op, isNot) = "and" THEN MkAnd(children) ELSE MkOr(children)
          [] t.op = "=>"  -> IF isNot THEN MkAnd(<<n(1, FALSE), n(2, TRUE)>>)
                             ELSE MkOr(<<n(1, TRUE), n(2, FALSE)>>)
          [] t.op = "ite" -> MkOr(<<MkAnd(<<n(1, FALSE), n(2, isNot)>>),
                                    MkAnd(<<n(1, TRUE), n(3, isNot)>>)>>)
          [] OTHER        -> IF isNot THEN MkNot(t) ELSE t

(* toNNF(expr) answers from nnf_map, or converts and remembers.             *)
NnfOf(t, nnfs) == IF t \in DOMAIN nnfs THEN nnfs[t] ELSE Nnf(t, FALSE)

NnfMapAfter(t, nnfs) == (t :> NnfOf(t, nnfs)) @@ nnfs
-----------------------------------------------------------------------------
(* toDNF, first part: toDNFEliminateAll removes =>, ite, xor, = and         *)
(* distinct.  A step takes and returns the memo and the flag.               *)

Exclusive(a, b) == MkOr(<<MkAnd(<<a, MkNot(b)>>), MkAnd(<<MkNot(a), b>>)>>)
Same(a, b) == MkOr(<<MkAnd(<<a, b>>), MkAnd(<<MkNot(a), MkNot(b)>>)>>)

EliminateXor(s) == FoldLeft(Exclusive, Head(s), Tail(s))
EliminateEq(s) ==
    IF Len(s) = 2 THEN Same(s[1], s[2])
    ELSE MkAnd([i \in 1 .. Len(s) - 1 |-> Same(s[i], s[i + 1])])
EliminateDistinct(s) == IF Len(s) > 2 THEN False ELSE Exclusive(s[1], s[2])

Eliminated(op, s) ==
    CASE op = "=>"       -> MkOr(<<MkNot(s[1]), s[2]>>)
      [] op = "ite"      -> MkAnd(<<MkOr(<<MkNot(s[1]), s[2]>>), MkOr(<<s[1], s[3]>>)>>)
      [] op = "xor"      -> EliminateXor(s)
      [] op = "="        -> EliminateEq(s)
      [] op = "distinct" -> EliminateDistinct(s)

(* An and, or, = and distinct converts each operand with a flag of its own  *)
(* and joins it; a =>, ite and xor hands its own flag down.                 *)
EliminatedOver(t, all) ==
    CASE t.op = "not" -> Return(t, MkNot(all.terms[1]), all.visited, all.changed)
      [] t.op \in {"and", "or"} ->
            Return(t, CASE ~all.changed -> t
                        [] all.changed /\ t.op = "and" -> MkAnd(all.terms)
                        [] all.changed /\ t.op = "or"  -> MkOr(all.terms),
                   all.visited, all.changed)
      [] OTHER        -> Return(t, Eliminated(t.op, all.terms), all.visited, TRUE)

RECURSIVE Eliminate(_, _, _)
Eliminate(t, visited, changed) ==
    LET SharesFlag == t.op \in {"=>", "ite", "xor"}
        Operands == IF t.op = "=>" THEN SubSeq(t.args, 1, 2) ELSE t.args
        Child(acc, c) ==
            Collect(acc, Eliminate(c, acc.visited, IF SharesFlag THEN acc.changed ELSE FALSE))
    IN  CASE IsLiteral(t) \/ IsAtom(t) -> [term |-> t, visited |-> visited, changed |-> changed]
          [] ~IsLiteral(t) /\ t \in DOMAIN visited ->
                [term |-> visited[t], visited |-> visited, changed |-> changed]
          [] OTHER -> EliminatedOver(t, FoldLeft(Child, Collected(visited, changed), Operands))

(* Rounds with one memo until a round changes nothing.                      *)
RECURSIVE Rounds(_)
Rounds(r) == IF r.changed THEN Rounds(Eliminate(r.term, r.visited, FALSE)) ELSE r.term

EliminateAll(t, visited) == Rounds(Eliminate(t, visited, FALSE))
-----------------------------------------------------------------------------
(* toDNF, second part: the distributive law, and the final flattening.      *)

(* The operands of a node of kind op, the node itself if it has another.    *)
Parts(op, t) == IF t.op = op THEN t.args ELSE <<t>>
Splice(op, s) == FlattenSeq(Each(LAMBDA t : Parts(op, t), s))

(* Mutant: only the first disjunct on the right is distributed over. *)
ProductWithFirst(l, r) ==
    MkOr(Each(LAMBDA a : MkAnd(Parts("and", a) \o Parts("and", Head(r.args))), l.args))

(* (a \/ b) /\ (c \/ d) -> (a /\ c) \/ (a /\ d) \/ (b /\ c) \/ (b /\ d)      *)
Product(l, r) ==
    MkOr(FlattenSeq(Each(LAMBDA a :
            Each(LAMBDA b : MkAnd(Parts("and", a) \o Parts("and", b)), r.args), l.args)))

OrOfAnds(product, others) ==
    IF others = << >> THEN product
    ELSE MkOr(Each(LAMBDA a : MkAnd(Parts("and", a) \o others), product.args))

AndOfOrs(ors, others) ==
    IF ors = << >> THEN MkAnd(others)
    ELSE OrOfAnds(FoldLeft(Product, Head(ors), Tail(ors)), others)

DistributeOver(op, s) ==
    IF op = "or" THEN MkOr(Splice("or", s))
    ELSE AndOfOrs(SelectSeq(s, LAMBDA c : c.op = "or"), SelectSeq(s, LAMBDA c : c.op # "or"))

RECURSIVE Distribute(_)
Distribute(t) ==
    IF t.op \in {"and", "or"} THEN DistributeOver(t.op, Each(Distribute, t.args)) ELSE t

OneOrMore(op, s) ==
    CASE Len(s) = 1               -> s[1]
      [] op = "or" /\ Len(s) # 1  -> MkOr(s)
      [] op = "and" /\ Len(s) # 1 -> MkAnd(s)

RECURSIVE FlattenDnf(_)
FlattenDnf(t) ==
    IF t.op \in {"and", "or"}
    THEN OneOrMore(t.op, Deduplicated(Each(FlattenDnf, Splice(t.op, t.args)))) ELSE t

(* applyDNFDistributiveLaw knows no other connective ("unsupported node     *)
(* type in DNF conversion").                                                *)
RECURSIVE Distributable(_)
Distributable(t) ==
    CASE t.op \in {"and", "or"} -> \A i \in DOMAIN t.args : Distributable(t.args[i])
      [] OTHER -> t.op \notin {"=>", "ite", "xor", "=", "distinct"}
-----------------------------------------------------------------------------
(* binarizeOp: a chain of equalities becomes the conjunction of its links,  *)
(* a distinct that of its pairs.  What is below them is left as it is.      *)

Links(s) == [i \in 1 .. Len(s) - 1 |-> MkEq(<<s[i], s[i + 1]>>)]

Pairs(s) == FlattenSeq([i \in 1 .. Len(s) - 1 |->
               [j \in 1 .. Len(s) - i |-> MkDistinct(<<s[i], s[i + j]>>)]])

RECURSIVE Binarize(_, _)
Binarize(t, visited) ==
    IF t \in DOMAIN visited
    THEN [term |-> visited[t], visited |-> visited, changed |-> FALSE]
    ELSE CASE t.op \in {"=", "distinct"} /\ Len(t.args) < 3 -> Return(t, t, visited, FALSE)
           [] t.op = "=" /\ Len(t.args) > 2        -> Return(t, MkAnd(Links(t.args)), visited, TRUE)
           [] t.op = "distinct" /\ Len(t.args) > 2 -> Return(t, MkAnd(Pairs(t.args)), visited, TRUE)
           [] OTHER -> Remade(t, FoldLeft(LAMBDA acc, c : Collect(acc, Binarize(c, acc.visited)),
                                          Collected(visited, FALSE), t.args))
=============================================================================
