----------------------------- MODULE ClausalForm -----------------------------
(***************************************************************************)
(* Conjunctive normal form (toCNF, assertTopCNF, toTseitinCNF,              *)
(* replaceAtoms, src/frontend/conv_parser.cpp): the atoms of the theories   *)
(* are abstracted to temporaries and nested connectives get temporaries     *)
(* that clauses define.                                                     *)
(*                                                                         *)
(* The operators take and return a record st of what the code reaches by    *)
(* reference: nnf_map, cnf_map, cnf_atom_map and cnf_bool_var_map of the    *)
(* parser (nnf, map, atomOf, varOf), the counter of temporaries, the memo of *)
(* one conversion and its clauses.                                          *)
(***************************************************************************)
EXTENDS NormalForms

Temp(id) == Leaf("temp", id)

(* The maps that outlive a call, before the first one.                      *)
NoMaps == [nnf |-> NoMap, map |-> NoMap, atomOf |-> NoMap, varOf |-> NoMap, temps |-> 0]

(* Mutant: cnf_map is not cleared with the maps of the atoms. *)
RebuiltButMap(maps) == [NoMaps EXCEPT !.nnf = maps.nnf, !.map = maps.map, !.temps = maps.temps]

(* toCNF of the assertions rebuilds the maps but nnf.                       *)
Rebuilt(maps) == [NoMaps EXCEPT !.nnf = maps.nnf, !.temps = maps.temps]

(* The memo and the clauses belong to one conversion.                       *)
Begin(maps) == [visited |-> NoMap, clauses |-> << >>] @@ maps
End(st) == [f \in DOMAIN NoMaps |-> st[f]]

ToNnf(st, t) == [term |-> NnfOf(t, st.nnf), st |-> [st EXCEPT !.nnf = NnfMapAfter(t, st.nnf)]]

Tick(st) == [st EXCEPT !.temps = @ + 1]
New(st) == Temp(st.temps)   \* mkTempVar, which counts before it names
Emit(st, clauses) == [st EXCEPT !.clauses = @ \o Each(MkOr, clauses)]
Memo(st, t, lit) == [st EXCEPT !.visited = (t :> lit) @@ @]

(* An atom and its negation are mapped to v and v2 and back.                *)
Explained(st, atom, negated, v, v2) ==
    LET lits == (atom :> v) @@ (negated :> v2)
    IN  [st EXCEPT !.map = lits @@ @, !.varOf = lits @@ @,
                   !.atomOf = (v :> atom) @@ (v2 :> negated) @@ @]

(* Mutant: the negated atom gets the temporary of the atom. *)
AbstractUnsigned(st, atom) ==
    Explained(Tick(st), atom, MkNot(atom), New(Tick(st)), New(Tick(st)))

(* A new temporary for an atom, and its negation for the negated atom.      *)
Abstract(st, atom) ==
    Explained(Tick(st), atom, MkNot(atom), New(Tick(st)), MkNot(New(Tick(st))))
-----------------------------------------------------------------------------
(* toTseitinCNF.  With the literals of the operands at hand, a connective   *)
(* gets a temporary c and the clauses that define it.                       *)

DefinesExclusive(c, a, b) ==
    << <<MkNot(c), MkNot(a), MkNot(b)>>, <<MkNot(c), a, b>>,
       <<c, MkNot(a), b>>, <<c, a, MkNot(b)>> >>

DefinesSame(c, a, b) ==
    << <<MkNot(c), a, MkNot(b)>>, <<MkNot(c), MkNot(a), b>>,
       <<c, a, b>>, <<c, MkNot(a), MkNot(b)>> >>

DefinesAnd(c, s) ==
    Append(Each(LAMBDA a : <<MkNot(c), a>>, s), Append(Each(MkNot, s), c))

(* Mutant: the clause that makes c false is missing. *)
DefinesOrOneWay(c, s) == Each(LAMBDA a : <<MkNot(a), c>>, s)

DefinesOr(c, s) ==
    Append(Each(LAMBDA a : <<MkNot(a), c>>, s), Append(s, MkNot(c)))

DefinesImplies(c, s) ==
    << <<MkNot(c)>> \o Each(MkNot, Front(s)) \o <<Last(s)>>, Append(Each(MkNot, s), c) >>

(* Mutant: the branches of the last two clauses are swapped. *)
DefinesIteSwapped(c, s) ==
    << <<MkNot(c), MkNot(s[1]), s[2]>>, <<MkNot(c), s[1], s[3]>>,
       <<c, MkNot(s[1]), MkNot(s[3])>>, <<c, s[1], MkNot(s[2])>> >>

DefinesIte(c, s) ==
    << <<MkNot(c), MkNot(s[1]), s[2]>>, <<MkNot(c), s[1], s[3]>>,
       <<c, MkNot(s[1]), MkNot(s[2])>>, <<c, s[1], MkNot(s[3])>> >>

Defined(st, clauses) == [lit |-> New(st), st |-> Emit(st, clauses)]

(* A pair by pair definition: toTseitinXor (distinct too) or toTseitinEq.   *)
Link(st0, op, a, b) ==
    LET st == Tick(st0)
        c == New(st)
    IN  Defined(st, IF op = "=" THEN DefinesSame(c, a, b) ELSE DefinesExclusive(c, a, b))

ChainXor(st, s) ==
    FoldLeft(LAMBDA r, a : Link(r.st, "xor", r.lit, a),
             [lit |-> Head(s), st |-> st], Tail(s))

(* The literals of some terms, one after the other.                         *)
Nothing(st) == [lits |-> << >>, st |-> st]
Gather(acc, r) == [lits |-> Append(acc.lits, r.lit), st |-> r.st]

(* Each later operand against the first, then their conjunction.  The code  *)
(* links each operand as it converts it, which numbers the temporaries in   *)
(* another order.                                                           *)
All(r) ==
    IF Len(r.lits) = 1 THEN [lit |-> r.lits[1], st |-> r.st]
    ELSE Defined(Tick(r.st), DefinesAnd(New(Tick(r.st)), r.lits))

ChainEq(st, s) ==
    All(FoldLeft(LAMBDA r, a : Gather(r, Link(r.st, "=", s[1], a)), Nothing(st), Tail(s)))

GateClauses(op, c, s) ==
    CASE op = "not"      -> << <<MkNot(c), MkNot(s[1])>>, <<s[1], c>> >>
      [] op = "and"      -> DefinesAnd(c, s)
      [] op = "or"       -> DefinesOr(c, s)
      [] op = "=>"       -> DefinesImplies(c, s)
      [] op = "ite"      -> DefinesIte(c, s)

Define(st, op, s) ==
    CASE op = "xor"      -> ChainXor(st, s)
      [] op = "="        -> ChainEq(st, s)
      [] op = "distinct" -> Link(st, "distinct", s[1], s[2])
      [] OTHER           -> Defined(Tick(st), GateClauses(op, New(Tick(st)), s))

RECURSIVE Tseitin(_, _)
Literals(st0, s) ==
    FoldLeft(LAMBDA acc, c : Gather(acc, Tseitin(acc.st, c)), Nothing(st0), s)

Remembered(t, r) == [lit |-> r.lit, st |-> Memo(r.st, t, r.lit)]
DefineOver(op, below) == Define(below.st, op, below.lits)

Tseitin(st, t) ==
    CASE IsAtom(t) -> IF t \in DOMAIN st.map THEN [lit |-> st.map[t], st |-> st]
                      ELSE [lit |-> New(Tick(st)), st |-> Abstract(st, t)]
      [] IsLiteral(t) -> [lit |-> t, st |-> st]
      [] OTHER ->
         CASE t \in DOMAIN st.visited -> [lit |-> st.visited[t], st |-> st]
           [] t \notin DOMAIN st.visited ->
              IF t.op = "distinct" /\ Len(t.args) > 2 THEN [lit |-> False, st |-> st]
              ELSE Remembered(t, DefineOver(t.op, Literals(st, t.args)))
-----------------------------------------------------------------------------
(* assertTopCNF: a formula that is asserted needs no literal of its own.    *)

(* The clauses that make a connective over the literals s true.             *)
TopClauses(op, s) ==
    CASE op = "not"      -> << <<MkNot(s[1])>> >>
      [] op = "or"       -> <<s>>
      [] op = "=>"       -> <<Append(Each(MkNot, Front(s)), Last(s))>>
      [] op = "="        -> FlattenSeq(Each(LAMBDA a : << <<MkNot(s[1]), a>>,
                                                         <<s[1], MkNot(a)>> >>, Tail(s)))
      [] op = "distinct" -> << s, Each(MkNot, s) >>

(* The operands of a xor but the last are folded to a literal first.        *)
AssertXor(folded, a) ==
    Emit(folded.st, << <<folded.lit, a>>, <<MkNot(folded.lit), MkNot(a)>> >>)

AssertOver(op, below) ==
    IF op = "xor" THEN AssertXor(ChainXor(below.st, Front(below.lits)), Last(below.lits))
    ELSE Emit(below.st, TopClauses(op, below.lits))

AssertLiteral(r) == Emit(r.st, << <<r.lit>> >>)

RECURSIVE AssertTop(_, _)
AssertTop(st, t) ==
    CASE t = True        -> st
      [] t.op = "and"    -> FoldLeft(AssertTop, st, t.args)
      [] \/ t # True /\ IsLiteral(t)
         \/ t.op \in {"predicate", "comparison", "opposite", "ite"}
         \/ t.op = "distinct" /\ Len(t.args) > 2 -> AssertLiteral(Tseitin(st, t))
      [] OTHER           -> AssertOver(t.op, Literals(st, t.args))
-----------------------------------------------------------------------------
(* collectAtoms and replaceAtoms.                                           *)

RECURSIVE AtomsOf(_)
AtomsOf(t) == IF IsAtom(t) THEN {t} ELSE UNION {AtomsOf(t.args[i]) : i \in DOMAIN t.args}

(* A node whose operands come back unchanged stays itself, and an operand   *)
(* that was replaced before comes back without the flag.                    *)
RECURSIVE Replace(_, _, _)
Replace(t, atomMap, visited) ==
    CASE t \in DOMAIN visited -> [term |-> visited[t], visited |-> visited, changed |-> FALSE]
      [] t \notin DOMAIN visited /\ t \in DOMAIN atomMap ->
            Return(t, atomMap[t], visited, TRUE)
      [] OTHER -> Remade(t, FoldLeft(LAMBDA acc, c : Collect(acc, Replace(c, atomMap, acc.visited)),
                                     Collected(visited, FALSE), t.args))

ReplaceAtoms(t, atomMap) == Replace(t, atomMap, NoMap).term

(* The atoms among ts, in the order in which the hash set gives them, are   *)
(* abstracted one after the other; only then are they replaced.             *)
AbstractAtoms(st, order, ts) ==
    LET found == SelectSeq(order, LAMBDA a : \E t \in ToSet(ts) : a \in AtomsOf(t))
    IN  FoldLeft(Abstract, st, found)

Abstracted(st, ts) ==
    LET atoms == UNION {AtomsOf(t) : t \in ToSet(ts)}
    IN  Each(LAMBDA t : ReplaceAtoms(t, [a \in atoms |-> st.map[a]]), ts)
-----------------------------------------------------------------------------
(* isCNF, on one formula and on a sequence.                                 *)

IsClause(t) ==
    IsLiteral(t) \/ (t.op = "or" /\ \A i \in DOMAIN t.args : IsLiteral(t.args[i]))
AllClauses(s) == \A i \in DOMAIN s : IsClause(s[i])
IsCNF(t) == IF t.op = "and" THEN AllClauses(t.args) ELSE IsClause(t)

(* eliminateTopRedandancy: nested conjunctions are taken apart and nested   *)
(* disjunctions merged, through a stack that turns the operands around,     *)
(* until nothing changes.                                                   *)
RECURSIVE Unstacked(_, _)
Unstacked(op, t) ==
    IF t.op # op THEN <<t>>
    ELSE FlattenSeq(Reverse([i \in DOMAIN t.args |-> Unstacked(op, t.args[i])]))

HasNested(op, t) == \E i \in DOMAIN t.args : t.op = op /\ t.args[i].op = op

MergeOrs(s) ==
    FoldLeft(LAMBDA acc, t :
                LET changed == acc.changed \/ HasNested("or", t)
                IN  [changed |-> changed,
                     terms |-> Append(acc.terms, IF changed /\ t.op = "or"
                                                 THEN MkOr(Unstacked("or", t)) ELSE t)],
             [changed |-> FALSE, terms |-> << >>], s)

RECURSIVE TopNormal(_)
TopNormal(s) ==
    LET conjuncts == FlattenSeq(Each(LAMBDA t : Unstacked("and", t), s))
        merged == MergeOrs(conjuncts)
    IN  IF merged.changed \/ \E t \in ToSet(s) : t.op = "and"
        THEN TopNormal(merged.terms) ELSE s
-----------------------------------------------------------------------------
(* toCNF.                                                                   *)

Kept(t, r) == [term |-> r.term, st |-> [r.st EXCEPT !.map = (t :> r.term) @@ @]]
AllOf(asserted) == [term |-> MkAnd(asserted.clauses), st |-> asserted]

(* Once the atoms of ts are abstracted in st.                               *)
Conjunction(st, ts) == [term |-> MkAnd(Abstracted(st, ts)), st |-> st]

Clausal(n, whole) ==
    Kept(n, IF IsCNF(n) THEN whole ELSE AllOf(AssertTop(whole.st, whole.term)))
CnfOfNnf(order, n) ==
    Clausal(n.term, Conjunction(AbstractAtoms(Begin(n.st), order, <<n.term>>), <<n.term>>))

(* toCNF of one formula, which only toCNF of the assertions calls.          *)
CnfOfOne(maps, order, t) ==
    IF t \in DOMAIN maps.map THEN [term |-> maps.map[t], st |-> maps]
    ELSE CnfOfNnf(order, ToNnf(maps, t))

CnfOfWhole(order, normal, whole) ==
    Kept(whole.term, IF AllClauses(normal) THEN whole
                     ELSE CnfOfOne(End(whole.st), order, whole.term))
CnfOfNormal(st, order, normal) ==
    CnfOfWhole(order, normal, Conjunction(AbstractAtoms(Begin(st), order, normal), normal))
CnfOfNnfs(order, nnfs) == CnfOfNormal(nnfs.st, order, TopNormal(nnfs.terms))

(* The maps are rebuilt, the assertions normalised, their atoms abstracted  *)
(* and replaced, and the conjunction of the rest is converted, unless it    *)
(* was in CNF before the atoms were replaced.                               *)
Cnf(maps, order, ts) ==
    LET Normalised(acc, t) ==
            [terms |-> Append(acc.terms, NnfOf(t, acc.st.nnf)), st |-> ToNnf(acc.st, t).st]
    IN  CnfOfNnfs(order, FoldLeft(Normalised, [terms |-> << >>, st |-> Rebuilt(maps)], ts))
=============================================================================
