---------------------------- MODULE MCConversions ----------------------------
(***************************************************************************)
(* Conversions of terms over two variables, a predicate and a comparison.   *)
(***************************************************************************)
EXTENDS Conversions

x == Leaf("var", 1)
y == Leaf("var", 2)
p == Leaf("predicate", 1)
c == Comparison(1)
MCSymbols == {x, y, p, c}

(* A hash with collisions: x and c, and an and and an or of the same terms. *)
OpKey(op) ==
    CASE op \in {"var", "comparison"} -> 5 [] op = "predicate" -> 2 [] op = "opposite" -> 9
      [] op = "not" -> 7 [] op \in {"and", "or"} -> 3 [] OTHER -> 4
RECURSIVE MCOrderKey(_)
MCOrderKey(t) ==
    FoldLeft(LAMBDA k, a : (3 * k + MCOrderKey(a)) % 13, OpKey(t.op) + (t.id % 4), t.args)

Not(t) == Node("not", <<t>>)

(* One connective over leaves and constants.                                *)
Operands == MCSymbols \cup Constants
BinaryOps == {"and", "or", "=>", "xor", "=", "distinct"}
Flat ==
    {Node(op, <<a, b>>) : op \in BinaryOps, a \in Operands, b \in Operands}
    \cup {Node(op, <<a, b, d>>) : op \in {"and", "or", "xor", "ite"},
                                  a \in {x, p, True}, b \in {c, y, False}, d \in {x, c, True}}
    \cup {Node(op, <<a, b, d>>) : op \in {"=", "distinct"}, a \in {x, p}, b \in {c}, d \in {Not(x), y}}

(* Two connectives.                                                         *)
Inner == {Node(op, s) : op \in BinaryOps, s \in {<<x, p>>, <<c, y>>, <<Not(c), x>>}}
Nested ==
    {Node(op, <<a, b>>) : op \in BinaryOps, a \in Inner, b \in {x, Not(p), c}}
    \cup {Node(op, <<y, Not(a)>>) : op \in BinaryOps, a \in Inner}
    \cup {Node(op, <<a, b>>) : op \in {"and", "or", "=>"}, a \in Inner,
              b \in {Node("or", <<x, y>>), Node("xor", <<p, Not(y)>>)}}
    \cup {Node("ite", <<a, x, Not(c)>>) : a \in Inner}

(* toTseitinCNF does not define an implication below xor, = and distinct.   *)
Unlike(op, t) == op \in {"xor", "=", "distinct"} => t.op # "=>"
Alone ==
    {<<t>> : t \in Flat}
    \cup {<<t>> : t \in {n \in Nested : \A i \in DOMAIN n.args :
            /\ Unlike(n.op, n.args[i])
            /\ n.args[i].op = "not" => Unlike(n.op, n.args[i].args[1])}}
    \cup {<<Not(a)>> : a \in Inner}

(* Two terms with a term, an atom or its opposite in common.                 *)
Shared == {Node("xor", <<c, x>>), Node("or", <<Not(c), y>>), Node("=", <<c, p>>), Not(p)}
Together ==
    {<<a, Node("or", <<a, b>>)>> : a \in {Node("or", <<c, x>>), Node("and", <<c, y>>)},
                                   b \in {c, Not(x)}}
    \cup {<<a, b>> : a \in Shared, b \in Shared \cup {c}}

(* (xor (=> x y) y), for the run that shows a disagreement.                  *)
ImplicationBelowXor == {<<Node("xor", <<Node("=>", <<x, y>>), y>>)>>}

MCSessions == Alone \cup Together
-----------------------------------------------------------------------------
(* What holds of terms without implications only: an implication that gets  *)
(* a literal of its own is not defined by its clauses.                      *)
RECURSIVE HasImplication(_)
HasImplication(t) == t.op = "=>" \/ \E i \in DOMAIN t.args : HasImplication(t.args[i])

TseitinDefinesOthers ==
    (\A i \in DOMAIN last.terms : ~HasImplication(last.terms[i])) => TseitinDefines
=============================================================================
