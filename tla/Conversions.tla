----------------------------- MODULE Conversions -----------------------------
(***************************************************************************)
(* A client builds terms and converts them (Parser::toNNF, toDNF, toCNF,    *)
(* toTseitinCNF, binarizeOp), one call after the other, while the maps of   *)
(* the parser keep what earlier calls found.                                *)
(***************************************************************************)
EXTENDS ClausalForm

CONSTANTS
    Symbols,     \* the leaves of the client's terms; of a comparison, one side
    Sessions,    \* the sequences of syntax trees a client may write
    MaxCalls     \* bound: conversions in a session, per term of the session

ASSUME MaxCallsAssumption == MaxCalls \in Nat

VARIABLES
    written,     \* the syntax trees of the session
    formulas,    \* the terms the parser built from them
    maps,        \* the maps of the parser and the counter of temporaries
    calls,       \* number of conversions so far
    last         \* history: the last conversion, its terms and its result

vars == <<written, formulas, maps, calls, last>>

Call(kind, s, term, clauses) ==
    /\ calls < MaxCalls * Len(written)
    /\ calls' = calls + 1
    /\ last' = [kind |-> kind, terms |-> s, term |-> term, clauses |-> clauses]
    /\ UNCHANGED <<written, formulas>>

Init ==
    /\ written \in Sessions
    /\ formulas = Each(Build, written)
    /\ maps = NoMaps
    /\ calls = 0
    /\ last = [kind |-> "none", terms |-> << >>, term |-> Unknown, clauses |-> << >>]

(* toNNF; of several terms, it converts their conjunction.                  *)
ToNNF(s) ==
    /\ Call("NNF", s, NnfOf(MkAnd(s), maps.nnf), << >>)
    /\ maps' = ToNnf(maps, MkAnd(s)).st

(* toDNF; it throws where a connective is left that it cannot distribute.   *)
Dnf(n) == IF Distributable(n) THEN FlattenDnf(Distribute(n)) ELSE Unknown

ToDNF(s) ==
    \E n \in {ToNnf(maps, EliminateAll(MkAnd(s), NoMap))} :
        Call("DNF", s, Dnf(n.term), << >>) /\ maps' = n.st

(* The atoms, some of which the normal form negates, come out of a hash set *)
(* in any order.                                                            *)
AtomOrders(s) ==
    LET atoms == UNION {AtomsOf(s[i]) : i \in DOMAIN s}
    IN  SetToSeqs(atoms \cup {Opposite(a) : a \in {b \in atoms : IsComparison(b)}})

ToCNF(s) ==
    \E order \in AtomOrders(s) : \E r \in {Cnf(maps, order, s)} :
        Call("CNF", s, r.term, << >>) /\ maps' = End(r.st)

(* toTseitinCNF leaves the clauses to the client and returns a literal.     *)
ToTseitinCNF(s) ==
    /\ Len(s) = 1
    /\ \E r \in {Tseitin(Begin(maps), s[1])} :
          Call("Tseitin", s, r.lit, r.st.clauses) /\ maps' = End(r.st)

BinarizeOp(s) ==
    Call("binarize", s, Binarize(MkAnd(s), NoMap).term, << >>) /\ UNCHANGED maps

Inputs == {<<f>> : f \in ToSet(formulas)} \cup {formulas}

Next ==
    \E s \in Inputs : ToNNF(s) \/ ToDNF(s) \/ ToCNF(s) \/ ToTseitinCNF(s) \/ BinarizeOp(s)

Spec == Init /\ [][Next]_vars
-----------------------------------------------------------------------------
(* Models.                                                                  *)

Models == SUBSET Symbols

Says(s, model) == \A i \in DOMAIN s : Value(s[i], model)

(* A temporary that abstracts an atom has its value; the others are free.   *)
RECURSIVE TempsOf(_)
TempsOf(t) ==
    IF t.op = "temp" THEN {t} ELSE UNION {TempsOf(t.args[i]) : i \in DOMAIN t.args}

Bound(model) ==
    {v \in DOMAIN maps.atomOf : v.op = "temp" /\ Value(maps.atomOf[v], model)}
Free(s) == UNION {TempsOf(s[i]) : i \in DOMAIN s} \ DOMAIN maps.atomOf

Extensions(model, s) == {model \cup Bound(model) \cup free : free \in SUBSET Free(s)}

Satisfiable(t, model) == \E m \in Extensions(model, <<t>>) : Value(t, m)
-----------------------------------------------------------------------------
(* Properties *)

(* What the parser builds says what the client wrote, whatever the builders *)
(* simplified and however they ordered the operands.                        *)
BuildKeepsMeaning ==
    calls = 0 =>
        \A i \in DOMAIN written, model \in Models :
            Value(formulas[i], model) = Value(written[i], model)

(* toNNF leaves a negation only before what it leaves alone, toDNF makes a   *)
(* disjunction of conjunctions of literals and atoms, and binarizeOp leaves  *)
(* no chain of three operands.                                               *)
RECURSIVE IsNNF(_)
IsNNF(t) ==
    CASE t.op \in {"and", "or"} -> \A i \in DOMAIN t.args : IsNNF(t.args[i])
      [] t.op = "not"           -> t.args[1].op \notin {"not", "and", "or", "=>", "ite"}
      [] OTHER                  -> t.op \notin {"=>", "ite"}

IsSimple(t) == IsLiteral(t) \/ IsAtom(t) \/ (IsNot(t) /\ IsAtom(t.args[1]))
IsTerm(t) == \A i \in DOMAIN Parts("and", t) : IsSimple(Parts("and", t)[i])
IsDNF(t) == \A i \in DOMAIN Parts("or", t) : IsTerm(Parts("or", t)[i])

RECURSIVE HasChain(_)
HasChain(t) ==
    \/ t.op \in {"=", "distinct"} /\ Len(t.args) > 2
    \/ t.op \notin {"=", "distinct"} /\ \E i \in DOMAIN t.args : HasChain(t.args[i])

(* Each of the three reaches its form and keeps the models.                 *)
NormalFormsKeepMeaning ==
    last.kind \in {"NNF", "DNF", "binarize"} =>
        /\ CASE last.kind = "NNF" -> IsNNF(last.term)
             [] last.kind = "DNF" -> IsDNF(last.term)
             [] last.kind = "binarize" -> ~HasChain(last.term)
        /\ \A model \in Models : Value(last.term, model) = Says(last.terms, model)

(* toCNF returns clauses over Boolean literals that, with the temporaries   *)
(* of the atoms bound to their atoms, have the models of the assertions and *)
(* no others.                                                               *)
CNFKeepsModels ==
    last.kind = "CNF" =>
        /\ IsCNF(last.term)
        /\ \A model \in Models : Satisfiable(last.term, model) = Says(last.terms, model)

(* The clauses of toTseitinCNF leave every model of the symbols open and    *)
(* force the literal to be the value of the formula.                        *)
TseitinDefines ==
    last.kind = "Tseitin" =>
        \A model \in Models :
            LET satisfying == {m \in Extensions(model, Append(last.clauses, last.term)) :
                                  Says(last.clauses, m)}
            IN  /\ satisfying # {}
                /\ \A m \in satisfying : Value(last.term, m) = Says(last.terms, model)

(* Whichever of two opposite comparisons came last, an atom is explained by *)
(* its literal and its negation by the negated literal.                     *)
AbstractionInverse ==
    /\ \A a \in DOMAIN maps.varOf : maps.atomOf[maps.varOf[a]] = a
    /\ \A v \in DOMAIN maps.atomOf : maps.atomOf[MkNot(v)] = MkNot(maps.atomOf[v])

(* What the maps keep for a later call is as good as a conversion of now.   *)
KeptFormsHold ==
    \A model \in Models :
        /\ \A t \in DOMAIN maps.nnf :
              \A m \in Extensions(model, <<t>>) : Value(maps.nnf[t], m) = Value(t, m)
        /\ \A t \in DOMAIN maps.map :
              Free(<<t>>) = {} => LET m == model \cup Bound(model)
                                  IN  Satisfiable(maps.map[t], model) = Value(t, m)
=============================================================================
