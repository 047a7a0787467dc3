------------------------------- MODULE MCValues -------------------------------
(***************************************************************************)
(* One call of the library: a term is built as the parser builds it, what  *)
(* was built is evaluated under a model, or an operation is applied to     *)
(* intervals.  The properties compare what the call returns with what the  *)
(* terms mean and with the numbers the intervals hold.                     *)
(***************************************************************************)
EXTENDS TermMeaning, MCIntervals

CONSTANT Subjects   \* what the calls are about: names of sets of terms, kinds of operations

VARIABLE call

-----------------------------------------------------------------------------
(* Written terms: the sorts of applications are found when they are built.  *)
App(k, s) == Term(k, <<"?">>, <<>>, s)
x == MkVar(IntS, "x")
y == MkVar(IntS, "y")
r == MkVar(RealS, "r")
p == MkVar(BoolS, "p")
a == MkVar(BvS(2), "a")
b == MkVar(BvS(2), "b")
m == MkVar(ArrayS, "m")
txt == MkVar(StrS, "txt")
Lit(i) == MkConstInt(i)
Half(i) == MkConstReal(Fraction(i, 2))
Bv(i) == MkConstBv(IntToBv(i, 2))
Str(s) == MkConst(StrS, s)

Domain == ("x" :> {Number(Num(i)) : i \in {-2, 0, 1, 3}}) @@ ("y" :> {Number(Num(i)) : i \in {-1, 1, 2}})
          @@ ("r" :> {Number(Fraction(i, 2)) : i \in {-3, 0, 4}}) @@ ("p" :> {Truth(TRUE), Truth(FALSE)})
          @@ ("a" :> {Bits(IntToBv(i, 2)) : i \in 0..3}) @@ ("b" :> {Bits(IntToBv(i, 2)) : i \in {0, 1, 3}})
          @@ ("m" :> {ArrayValue(Number(Num(d)), {<<Number(Num(1)), Number(Num(0))>>}) : d \in {0, 1}})
          @@ ("txt" :> {StringValue(s) : s \in {<<>>, <<97>>, <<98, 97>>}}) @@ ("byZero" :> {0, 1})

(* Terms of one operator. *)
Flat(kinds, lists) == {App(k, s) : k \in kinds, s \in lists}
Pairs(S, T) == {<<u, v>> : u \in S, v \in T}
Triples(S, T, U) == {<<u, v, w>> : u \in S, v \in T, w \in U}

IntLeaves == {x, y, Lit(-2), Lit(0), Lit(1), Lit(3)}
RealLeaves == {r, Lit(2), Half(0), Half(-3), Half(4)}
BvLeaves == {a, b, Bv(0), Bv(1), Bv(2), Bv(3)}
Orders == {"LE", "LT", "GE", "GT"}
IntPairs == Orders \cup {"ADD", "SUB", "MUL", "DIV_INT", "MOD", "EQ", "DISTINCT"}
RealPairs == Orders \cup {"ADD", "SUB", "MUL", "DIV_REAL", "EQ", "DISTINCT"}
BvPairKinds == (BvPairs \cup BvOrders \cup {"EQ", "DISTINCT"}) \ {"BV_COMP"}

Ints ==
    Flat(IntPairs, Pairs(IntLeaves, IntLeaves))
    \cup Flat({"ADD", "SUB", "MUL", "DIV_INT", "LE", "LT", "EQ", "DISTINCT"},
              Triples({x, Lit(0), Lit(3)}, {x, y, Lit(-2), Lit(1)}, {x, Lit(0), Lit(2)}))
    \cup Flat({"ADD", "SUB", "MUL", "EQ", "DISTINCT"}, {<<u, v, w, Lit(2)>> : u \in {x, Lit(2)}, v \in {Lit(2), y}, w \in {x, Lit(3)}})
    \cup Flat({"NEG", "ABS", "TO_REAL", "IS_EVEN", "IS_ODD", "IS_PRIME"}, {<<u>> : u \in IntLeaves})
    \cup Flat({"POW2", "FACT"}, {<<Lit(i)>> : i \in 0..4})

Reals ==
    Flat(RealPairs, Pairs(RealLeaves, RealLeaves))
    \cup Flat({"ADD", "SUB", "MUL", "DIV_REAL", "LE", "EQ"}, Triples({r, Half(1), Lit(2)}, {r, Lit(2)}, {Half(3), Lit(1)}))
    \cup Flat({"NEG", "ABS", "CEIL", "FLOOR", "ROUND", "TO_INT"}, {<<u>> : u \in RealLeaves})
    \cup Flat(Transcendental \cup {"LOG"}, {<<App("ADD", <<r, Half(1)>>)>>, <<App("ADD", <<Half(1), Lit(1)>>)>>})
    \cup Flat(Approximated, Pairs({r, Half(1)}, {App("MUL", <<Half(1), Lit(2)>>), r}))

Vectors ==
    Flat(BvPairKinds, Pairs(BvLeaves, BvLeaves))
    \cup Flat({"BV_AND", "BV_OR", "BV_XOR", "BV_ADD", "BV_SUB", "BV_MUL", "BV_CONCAT", "BV_XNOR"}, Triples({a, Bv(1)}, {b, Bv(3)}, {a, Bv(2)}))
    \cup Flat({"BV_NOT", "BV_NEG", "BV_TO_NAT"}, {<<u>> : u \in BvLeaves})
    \cup Flat({"BV_TO_INT"}, {<<Bv(i)>> : i \in 0..3}) \cup Flat({"INT_TO_BV"}, {<<Lit(i), Lit(2)>> : i \in -3..4})
    \cup Flat({"BV_EXTRACT"}, Triples({a, Bv(2)}, {Lit(1)}, {Lit(0), Lit(1)}))
    \cup Flat(BvIndexed, Pairs({a, Bv(1), Bv(2)}, {Lit(1), Lit(2)}))

(* Terms of two operators and more. *)
IntInner == Flat({"ADD", "SUB", "MUL", "DIV_INT", "MOD"}, {<<x, Lit(2)>>, <<Lit(3), y>>, <<x, Lit(0)>>})
Tests == Flat({"LE", "GT", "EQ", "DISTINCT"}, {<<x, Lit(1)>>, <<Lit(1), y>>, <<x, x>>}) \cup {p, MkBool(TRUE), MkBool(FALSE)}
Chains == {App("STORE", <<u, Lit(1), v>>) : u \in {m, App("CONST_ARRAY", <<Lit(0)>>)}, v \in {Lit(0), x}}
Deeper ==
    Flat({"ADD", "SUB", "DIV_INT", "LE", "EQ"}, Pairs(IntInner, {x, Lit(2)}) \cup Pairs({Lit(1), y}, IntInner))
    \cup Flat({"AND", "OR", "XOR", "IMPLIES", "EQ", "DISTINCT"}, Pairs(Tests, Tests))
    \cup Flat({"AND", "OR", "XOR"}, Triples({p, App("LE", <<x, Lit(1)>>)}, Tests, {p, App("NOT", <<p>>), MkBool(TRUE)}))
    \cup Flat({"NOT"}, {<<t>> : t \in Tests})
    \cup Flat({"ITE"}, Triples(Tests, {x, Lit(1)}, {y, Lit(3)}))
    \cup Flat({"SELECT"}, Pairs(Chains \cup {m} \cup {App("STORE", <<u, y, Lit(3)>>) : u \in Chains}, {Lit(1), x, y}))
    \cup Flat({"NAT_TO_BV"}, {<<App("BV_TO_NAT", <<u>>), Lit(2)>> : u \in BvLeaves})
    \cup Flat({"BV_ADD", "BV_UREM", "BV_CONCAT"}, Pairs({App("BV_SUB", <<a, Bv(1)>>), App("BV_SREM", <<Bv(3), b>>)}, BvLeaves))

(* Two writes to one array, in either order. *)
Writes == {App("STORE", <<App("STORE", <<m, i, u>>), j, v>>) : i, j \in {x, y}, u, v \in {Lit(0), Lit(3)}}
Arrays == Flat({"EQ"}, Pairs(Writes, Writes))

(* Letters in both cases, digits, a blank, a quote and a backslash.          *)
Plain == {Str(<<>>), Str(<<97>>), Str(<<97, 98>>), Str(<<98, 97, 97>>)}
Special == {Str(<<66, 99>>), Str(<<55>>), Str(<<48, 55>>), Str(<<97, 32>>), Str(<<34>>), Str(<<97, 34>>), Str(<<92>>), Str(<<34, 97, 34>>)}
Texts == Plain \cup Special \cup {txt}
Indices == {Lit(-2), Lit(0), Lit(1), Lit(3), x}
Literals ==
    Flat(OfText, {<<u>> : u \in Texts}) \cup Flat(OfInt, {<<u>> : u \in {Lit(-2), Lit(0), Lit(65), Lit(107), x}})
    \cup Flat({"STR_PREFIXOF", "STR_SUFFIXOF", "STR_CONTAINS", "STR_CONCAT", "EQ", "DISTINCT"} \cup StrOrders, Pairs(Texts, Texts))
    \cup Flat({"STR_CONCAT", "EQ", "DISTINCT"}, Triples({txt, Str(<<97>>)}, Plain, {txt, Str(<<>>), Str(<<34>>)}))
    \cup Flat({"STR_CHARAT"}, Pairs(Texts, Indices)) \cup Flat({"STR_SUBSTR"}, Triples(Texts, Indices, {Lit(-2), Lit(1), Lit(3)}))
    \cup Flat({"STR_INDEXOF"}, Triples(Texts, Plain, Indices)) \cup Flat({"STR_UPDATE"}, Triples(Texts, Indices, Plain))
    \cup Flat({"STR_REPLACE", "STR_REPLACE_ALL"}, Triples(Texts, Plain \cup {Str(<<92>>)}, {txt, Str(<<97, 97>>), Str(<<>>)}))
    \cup Flat({"STR_LEN", "STR_TO_INT", "STR_TO_CODE"},
              {<<App(k, <<txt, u>>)>> : k \in {"STR_CONCAT"}, u \in Plain} \cup {<<App("STR_FROM_INT", <<u>>)>> : u \in {x, Lit(3)}})

Written == [ints |-> Ints, reals |-> Reals, vectors |-> Vectors, deeper |-> Deeper, arrays |-> Arrays, strings |-> Literals]
-----------------------------------------------------------------------------
(* Assignments and models. *)

RECURSIVE Names(_)
Names(t) ==
    (IF t.k = "VAR" THEN {t.v[1]} ELSE IF t.k \in {"DIV_REAL", "DIV_INT", "MOD"} THEN {"byZero"} ELSE {})
    \cup UNION {Names(t.a[i]) : i \in DOMAIN t.a}

Variables(t) == Names(t) \ {"byZero"}

Assignments(names) ==
    FoldSet(LAMBDA name, es : {(name :> v) @@ e : v \in Domain[name], e \in es}, {<<>>}, names \cup {"byZero"})
Completions(names, e) == {f \in Assignments(names) : \A name \in DOMAIN e : f[name] = e[name]}

(* A model gives constants; a value of an array is given index by index.     *)
ConstantOf(v, name) ==
    CASE v[1] = "number" -> IF name = "r" THEN MkConstReal(Rational(v)) ELSE MkConstInt(Whole(v))
      [] v[1] = "truth" -> MkBool(Says(v))
      [] v[1] = "bits" -> MkConstBv(v[2])
      [] v[1] = "text" -> Str(v[2])
ArrayOf(v) == [at |-> [i \in {ConstantOf(q[1], "") : q \in v[3]} |-> ConstantOf(At(v, <<"number", i.v[1], i.v[2]>>), "")],
               default |-> ConstantOf(v[2], "")]
ModelOf(e) == Model([name \in DOMAIN e \ {"m"} |-> ConstantOf(e[name], name)], [name \in DOMAIN e \cap {"m"} |-> ArrayOf(e[name])])

Partial(names) == UNION {FoldSet(LAMBDA name, es : {(name :> v) @@ e : v \in Domain[name], e \in es}, {<<>>}, some) :
                            some \in SUBSET (names \ {"byZero"})}
-----------------------------------------------------------------------------
(* A hash that tells few terms apart. *)
RECURSIVE MCOrderKey(_)
MCOrderKey(t) ==
    FoldLeft(LAMBDA key, u : (3 * key + MCOrderKey(u)) % 7,
             CASE t.k = "VAR" -> 5 [] t.k = "CONST" -> IF t.v = <<>> THEN 1 ELSE (t.v[1] + 2) % 7 [] OTHER -> Len(t.a), t.a)

About(subject) == [what |-> "idle", about |-> subject]
Init == call \in {About(subject) : subject \in Subjects}

BuildTerm ==
    /\ call.what = "idle" /\ call.about \in DOMAIN Written
    /\ \E t \in Written[call.about] : call' = [what |-> "build", of |-> t, result |-> Build(t)]

EvaluateTerm ==
    /\ call.what = "build" /\ call.result # ERROR
    /\ \E e \in Partial(Names(call.result)) :
          call' = [what |-> "evaluate", of |-> call.result, given |-> e, result |-> Evaluate(call.result, ModelOf(e))]

(* The rest is exact. *)
Roundings(op) == IF op \in {"log", "pow"} THEN BOOLEAN ELSE {TRUE}
CallPair ==
    /\ call = About("pairs")
    /\ \E op \in Pairwise, A, B \in Few : \E up \in Roundings(op) :
          call' = [what |-> "pair", op |-> op, of |-> <<A, B>>, result |-> OfPair(op, A, B, up)]
CallNumber ==
    /\ call = About("pairs")
    /\ \E op \in Numberwise, A \in Many, n \in SomeNumbers :
          call' = [what |-> "pair", op |-> op, of |-> <<A, I!Point(n)>>, result |-> OfPair(op, A, I!Point(n), TRUE)]
CallOne ==
    /\ call = About("ones")
    /\ \E op \in Onewise, A \in Many, up \in BOOLEAN :
          call' = [what |-> "one", op |-> op, of |-> A, result |-> OfOne(op, A, up)]
CallSets ==
    /\ call = About("sets")
    /\ \E op \in Relations, A, B \in Sets :
          call' = [what |-> "sets", op |-> op, of |-> <<A, B>>, result |-> OfSets(op, A, B)]
CallMerge ==
    /\ call = About("merges")
    /\ \E A, B, C \in Spans : call' = [what |-> "merge", of |-> <<A, B, C>>, result |-> I!UnionMulti(<<A, B, C>>)]
CallCount ==
    /\ call = About("sets")
    /\ \E A \in Halves : call' = [what |-> "count", of |-> A, listed |-> I!Integers(A), result |-> I!IntCount(A)]

Next == BuildTerm \/ EvaluateTerm \/ CallPair \/ CallNumber \/ CallOne \/ CallSets \/ CallMerge \/ CallCount

Spec == Init /\ [][Next]_call
-----------------------------------------------------------------------------
(* Two arrays with the same writes, of which two at different terms, that    *)
(* write different values, come in another order.                            *)
Newest(t, w) ==
    LET writes == CollectStoreChain(t).updates
    IN  {n \in DOMAIN writes : writes[n] = w /\ \A k \in DOMAIN writes : k > n => writes[k][1] # w[1]}
WrittenInOtherOrder(left, right) ==
    \E v, w \in ToSet(CollectStoreChain(left).updates) :
        /\ v[1] # w[1] /\ v[2] # w[2] /\ ~(IsConst(v[1]) /\ IsConst(w[1]))
        /\ \E i \in Newest(left, v), j \in Newest(left, w) : i < j
        /\ \E i \in Newest(right, v), j \in Newest(right, w) : i > j

(* What is known not to be folded to its value: two signed operations, the   *)
(* operations on texts that are written with escapes, orders of strings with *)
(* a character before the quote, the numeral of a negative number, the       *)
(* reverse of a value that begins and ends with a quote, equal writes to two  *)
(* arrays in different orders.                                                *)
OnText == {"STR_TO_UPPER", "STR_PREFIXOF", "STR_SUFFIXOF", "STR_CONTAINS", "STR_CHARAT"} \cup StrTriples
Misfolds(t) ==
    \/ t.k \in {"BV_SDIV", "BV_SMOD"}
    \/ t.k \in OnText /\ \E i \in DOMAIN t.a : IsCStr(t.a[i]) /\ Escape(t.a[i].v) # t.a[i].v
    \/ t.k \in StrOrders /\ \E i \in DOMAIN t.a : IsCStr(t.a[i]) /\ \E c \in ToSet(t.a[i].v) : c < QUOTE
    \/ t.k = "STR_FROM_INT" /\ (IsCInt(t.a[1]) => IntOf(t.a[1]) < 0)
    \/ t.k = "STR_REV" /\ IsCStr(t.a[1]) /\ Clean(t.a[1].v) # t.a[1].v
    \/ t.k = "EQ" /\ Len(t.a) = 2 /\ WrittenInOtherOrder(t.a[1], t.a[2])

(* A term that is built has the value of what was written, whatever the      *)
(* variables are.                                                            *)
BuildKeepsValue ==
    call.what = "build" /\ call.result # ERROR /\ ~Misfolds(call.of) =>
        \A e \in Assignments(Names(call.of)) : ValueOf(call.result, e) = ValueOf(call.of, e)

(* What is known not to be evaluated to its value: a quotient of integers    *)
(* whose dividend is given, a quotient by several divisors, a distinction of *)
(* a real and a numeral, an entry of a given array at an index that is not,  *)
(* and what is known not to be folded to it.                                  *)
Mixed(s) == GetSort(s) = RealS /\ \E i \in DOMAIN s : s[i].s = NumeralS
RECURSIVE Misread(_, _)
Misread(t, given) ==
    \/ t.k = "DIV_INT" /\ Variables(t.a[1]) \subseteq given
    \/ t.k \in {"DIV_INT", "DIV_REAL"} /\ Len(t.a) > 2
    \/ t.k = "DISTINCT" /\ Mixed(t.a)
    \/ t.k = "SELECT" /\ "m" \in given /\ ~(Variables(t.a[2]) \subseteq given)
    \/ Misfolds(t)
    \/ \E i \in DOMAIN t.a : Misread(t.a[i], given)

(* What is known not to be evaluated to the end: a strict order of reals, an *)
(* equality of a real and a numeral, a division, a function that has no      *)
(* exact value, an unsigned rest named bvumod, an entry of an array that was *)
(* written to, an equality of arrays, a position that may be outside of a     *)
(* string.                                                                    *)
RECURSIVE LeftOpen(_)
LeftOpen(t) ==
    \/ t.k \in {"LT", "GT", "GE"} /\ GetSort(t.a) = RealS
    \/ t.k = "EQ" /\ (Mixed(t.a) \/ IsArray(t.a[1]))
    \/ t.k \in {"DIV_REAL", "DIV_INT", "MOD", "BV_UMOD"} \cup Transcendental \cup Approximated
    \/ t.k = "SELECT" /\ t.a[1].k # "VAR"
    \/ t.k \in {"STR_CHARAT", "STR_SUBSTR", "STR_INDEXOF", "STR_UPDATE", "STR_FROM_CODE"}
    \/ \E i \in DOMAIN t.a : LeftOpen(t.a[i])

(* What a term is evaluated to has its value wherever the variables are as   *)
(* the model says.                                                           *)
EvaluateKeepsValue ==
    call.what = "evaluate" /\ ~Misread(call.of, DOMAIN call.given) =>
        \A e \in Completions(Names(call.of), call.given) : ValueOf(call.result, e) = ValueOf(call.of, e)

(* A model of all variables leaves a constant.                               *)
EvaluateComplete ==
    call.what = "evaluate" /\ Variables(call.of) = DOMAIN call.given /\ DOMAIN call.given # {} /\ ~LeftOpen(call.of) => IsConst(call.result)


(* The operations on sets are exact.                                         *)
IntervalSetsExact ==
    /\ call.what = "sets" /\ SetSound(call.op, call.of[1], call.of[2]) =>
          SetExact(call.op, call.of[1], call.of[2], call.result)
    /\ call.what = "merge" => MergedExact(call.of, call.result)
    /\ call.what = "count" => CountExact(call.of, call.listed, call.result)
=============================================================================
