----------------------------- MODULE PassAnswers -----------------------------
(***************************************************************************)
(* What the passes answer: rewriting and visiting as recursions on terms,   *)
(* and a program that notes, when it calls a pass, what the call is to      *)
(* answer, and what it did answer when it ends.                             *)
(***************************************************************************)
EXTENDS Passes

CONSTANT NoClaim    \* the answer of a call nothing is said about

VARIABLES
    expected,   \* history: what the call is to answer, as a term or terms
    answer,     \* what the last call answered
    stale       \* history: the memo was filled under other rules or names

answerVars == <<expected, answer, stale>>
-----------------------------------------------------------------------------
RECURSIVE Term(_, _)
Term(h, i) ==
    [kind |-> h[i].kind, name |-> h[i].name, kids |-> [k \in DOMAIN h[i].kids |-> Term(h, h[i].kids[k])]]

Constant(kind, name) == [kind |-> kind, name |-> name, kids |-> << >>]

TermRule(t) ==
    LET kid(k) == t.kids[k]
        is(k, kind) == kid(k).kind = kind
        zero(k) == kid(k).kind = "CONST" /\ kid(k).name = "0"
    IN  CASE "exchange" \in rules /\ t.kind = "VAR" -> [t EXCEPT !.name = Exchanged(t.name)]
          [] "default" \notin rules -> t
          [] t.kind = "NOT" /\ is(1, "NOT")   -> kid(1).kids[1]
          [] t.kind = "NOT" /\ is(1, "TRUE")  -> Constant("FALSE", "false")
          [] t.kind = "NOT" /\ is(1, "FALSE") -> Constant("TRUE", "true")
          [] t.kind = "AND" /\ (is(1, "FALSE") \/ is(2, "FALSE")) -> Constant("FALSE", "false")
          [] t.kind = "AND" /\ is(1, "TRUE") -> kid(2)
          [] t.kind = "AND" /\ (is(2, "TRUE") \/ kid(1) = kid(2)) -> kid(1)
          [] t.kind = "ADD" /\ zero(1) -> kid(2)
          [] t.kind = "ADD" /\ zero(2) -> kid(1)
          [] OTHER -> t

RECURSIVE Rewritten(_)
Rewritten(t) == TermRule([t EXCEPT !.kids = [k \in DOMAIN t.kids |-> Rewritten(t.kids[k])]])

RECURSIVE Settled(_, _)
Settled(t, rounds) ==
    LET next == Rewritten(t) IN IF rounds = 1 \/ next = t THEN next ELSE Settled(next, rounds - 1)

RECURSIVE Preorder(_)
Preorder(t) == <<t>> \o FlattenSeq([k \in DOMAIN t.kids |-> Preorder(t.kids[k])])

RECURSIVE FirstTimes(_, _)
FirstTimes(ts, seen) ==
    IF ts = << >> THEN << >>
    ELSE IF Head(ts) \in seen THEN FirstTimes(Tail(ts), seen)
    ELSE <<Head(ts)>> \o FirstTimes(Tail(ts), seen \cup {Head(ts)})
-----------------------------------------------------------------------------
TermsOf(is) == [p \in DOMAIN is |-> Term(heap, is[p])]

(* Two nodes with the same term: after a rename, or an old one beside one   *)
(* created after a clear.  Rules that compare nodes tell them apart.        *)
Split(is) ==
    \E i, j \in Reach(heap, is) : i # j /\ Term(heap, i) = Term(heap, j)

Claim(claim) == expected' = claim /\ answer' = NoClaim

AskRewriteOnce(i) ==
    /\ RewriteOnce(i)
    /\ Claim(IF stale \/ Split({i}) THEN NoClaim ELSE <<"term", Rewritten(Term(heap, i))>>)
    /\ UNCHANGED stale

AskRewrite(i) ==
    /\ Rewrite(i)
    /\ Claim(IF Split({i}) THEN NoClaim ELSE <<"term", Settled(Term(heap, i), MaxRounds)>>)
    /\ stale' = FALSE

AskWalk(i) ==
    /\ Walk(i)
    /\ Claim(IF Reach(heap, {i} \cup Range(visited)) \cap touched # {} THEN NoClaim
             ELSE <<"terms", FirstTimes(TermsOf(visited) \o Preorder(Term(heap, i)), {})>>)
    /\ UNCHANGED stale

Ask == \E i \in held : AskRewriteOnce(i) \/ AskRewrite(i) \/ AskWalk(i)

Answering ==
    /\ Running
    /\ answer' = IF job'.op # "idle" THEN answer
                 ELSE IF job.op = "walk" THEN <<"terms", TermsOf(visited)>>
                 ELSE <<"term", Term(heap, Result)>>
    /\ UNCHANGED <<expected, stale>>

Use(shapes) == UseStore(shapes) /\ UNCHANGED answerVars

(* What changes the answers of the memo. *)
Outdate(action) == action /\ stale' = (stale \/ memo # << >>) /\ UNCHANGED <<expected, answer>>
-----------------------------------------------------------------------------
(* Every call ends, with the answer the recursion gives. *)
CallsAnswer ==
    /\ (job # Idle) ~> (job = Idle)
    /\ [](job = Idle /\ expected # NoClaim => answer = expected)
=============================================================================
