-------------------------------- MODULE Passes --------------------------------
(***************************************************************************)
(* The passes over the nodes of a NodeManager: Rewriter with its memo       *)
(* (src/src/passes/rewriter.cpp) and NodeVisitor with its set of visited    *)
(* nodes (visitor.cpp), one step per turn of their loops.  A call runs to   *)
(* its end before the program does anything else.                           *)
(***************************************************************************)
EXTENDS NodeStore

CONSTANTS
    MaxRounds   \* max_rounds of rewrite

ASSUME PassesAssumption == MaxRounds \in Nat \ {0}

VARIABLES
    rules,      \* handlers installed: the default ones, one of the program's own
    memo,       \* memo_ of the rewriter
    visited,    \* visited_ of the visitor, in the order of the visits
    job         \* the call under way

passVars == <<rules, memo, visited, job>>

Idle == [op |-> "idle", root |-> 0, round |-> 0, stack |-> << >>]
Frame(i) == [node |-> i, processed |-> FALSE]
Call(op, i, round) == [op |-> op, root |-> i, round |-> round, stack |-> <<Frame(i)>>]

(* References of the rewriter, the visitor and the call. *)
CacheRefs(m, v) == DOMAIN m \cup Range(m) \cup Range(v)
JobRefs(j) == ({j.root} \ {0}) \cup { f.node : f \in Range(j.stack) }
PassRefs == CacheRefs(memo, visited) \cup JobRefs(job)
-----------------------------------------------------------------------------
(* The memo, keyed by equivalence. *)
Keys(h, m, i) == { k \in DOMAIN m : NodeEqual(h, k, i) }
Known(h, m, i) == Keys(h, m, i) # {}
MemoAt(h, m, i) == m[CHOOSE k \in Keys(h, m, i) : TRUE]
Memoised(m, i, j) == [k \in DOMAIN m \cup {i} |-> IF k = i THEN j ELSE m[k]]

Store(h, vector, i) == [heap |-> h, nodes |-> vector, node |-> i]

(* A node whose children were all rewritten to themselves stays. *)
RebuildLike(h, vector, i, kids) ==
    IF kids = h[i].kids THEN Store(h, vector, i)
    ELSE CreateNode(h, vector, h[i].kind, h[i].name, kids)

True == 1
False == 2
IsZero(node) == node.kind = "CONST" /\ node.name = "0"

RuleNot(h, a) ==
    CASE h[a].kind = "NOT" /\ h[a].kids # << >> -> h[a].kids[1]
      [] a = True          -> False
      [] a = False         -> True
      [] OTHER             -> 0

RuleAnd(l, r) ==
    CASE False \in {l, r} -> False
      [] l = True         -> r
      [] r = True         -> l
      [] l = r            -> l
      [] OTHER            -> 0

RuleAdd(h, l, r) ==
    CASE IsZero(h[l]) -> r
      [] IsZero(h[r]) -> l
      [] OTHER        -> 0

(* The node a default handler puts in the place of i; 0 keeps it. *)
Replacement(h, i) ==
    LET kids == h[i].kids
    IN  CASE h[i].kind = "NOT" /\ kids # << >>    -> RuleNot(h, kids[1])
          [] h[i].kind = "AND" /\ Len(kids) = 2   -> RuleAnd(kids[1], kids[2])
          [] h[i].kind = "ADD" /\ Len(kids) = 2   -> RuleAdd(h, kids[1], kids[2])
          [] OTHER                                -> 0

(* The handler of the program: it exchanges two variables. *)
Exchanged(name) == CASE name = "a" -> "b" [] name = "b" -> "a" [] OTHER -> name

Dispatch(s) ==
    LET h == s.heap  i == s.node  j == Replacement(h, i)
    IN  CASE "exchange" \in rules /\ h[i].kind = "VAR" ->
                 CreateNode(h, s.nodes, "VAR", Exchanged(h[i].name), << >>)
          [] "default" \in rules /\ j # 0 -> Store(h, s.nodes, j)
          [] OTHER -> s
-----------------------------------------------------------------------------
(* A pass over a node that reaches itself does not end: rewriteOnce pushes  *)
(* it again until it is in the memo.                                        *)
Acyclic(i) == \A j \in Reach(heap, {i}) : j \notin Reach(heap, Range(heap[j].kids))

(* The memo was emptied: nodes that only it referred to go. *)
Collecting(others) ==
    /\ heap' = Collected(heap, nodes, held \cup others)
    /\ touched' = touched \cap DOMAIN heap'

Begin(op, i) ==
    /\ job = Idle /\ i \in held /\ Acyclic(i)
    /\ job' = Call(op, i, 1)
    /\ UNCHANGED <<nodes, held, rules, visited>>

(* rewriteOnce keeps the memo of the passes before. *)
RewriteOnce(i) == Begin("once", i) /\ UNCHANGED <<heap, touched, memo>>

(* Mutant: rewrite keeps the memo of earlier calls. *)
RewriteWithMemo(i) == Begin("rewrite", i) /\ UNCHANGED <<heap, touched, memo>>

Rewrite(i) ==
    /\ Begin("rewrite", i)
    /\ memo' = << >>
    /\ Collecting(Range(visited))

(* walk visits what this visitor has not visited in an earlier walk. *)
Walk(i) == Begin("walk", i) /\ UNCHANGED <<heap, touched, memo>>
-----------------------------------------------------------------------------
Top == Last(job.stack)

(* Children go on the stack from the last to the first, without the skipped. *)
PushAll(stack, is, skipped) ==
    LET pushed[n \in 0..Len(is)] ==
            IF n = 0 THEN stack
            ELSE LET before == pushed[n - 1]
                     i == is[Len(is) - n + 1]
                 IN  IF i \in skipped THEN before ELSE Append(before, Frame(i))
    IN  pushed[Len(is)]

Rewriting == job.op \in {"once", "rewrite"} /\ job.stack # << >>

Pop ==
    /\ Rewriting /\ Known(heap, memo, Top.node)
    /\ job' = [job EXCEPT !.stack = Front(@)]
    /\ UNCHANGED <<storeVars, memo>>

(* Children that are in the memo already are not pushed. *)
Descend ==
    /\ Rewriting /\ ~ Known(heap, memo, Top.node) /\ ~ Top.processed
    /\ LET kids  == heap[Top.node].kids
           known == { i \in Range(kids) : Known(heap, memo, i) }
       IN  job' = [job EXCEPT !.stack =
                       PushAll(Append(Front(@), [Top EXCEPT !.processed = TRUE]), kids, known)]
    /\ UNCHANGED <<storeVars, memo>>

Rebuild ==
    /\ Rewriting /\ ~ Known(heap, memo, Top.node) /\ Top.processed
    /\ LET i    == Top.node
           kids == [k \in DOMAIN heap[i].kids |-> MemoAt(heap, memo, heap[i].kids[k])]
           new  == Dispatch(RebuildLike(heap, nodes, i, kids))
       IN  /\ heap' = new.heap
           /\ nodes' = new.nodes
           /\ memo' = Memoised(memo, i, new.node)
           /\ job' = [job EXCEPT !.stack = Front(@)]
    /\ UNCHANGED <<held, touched>>

(* The end of a pass: the program gets the node, or the next pass begins. *)
Result == MemoAt(heap, memo, job.root)
LastRound == job.op = "once" \/ Result = job.root \/ job.round = MaxRounds

EndPass ==
    /\ job.op \in {"once", "rewrite"} /\ job.stack = << >>
    /\ IF LastRound
       THEN /\ job' = Idle
            /\ held' = held \cup {Result}
            /\ UNCHANGED <<heap, nodes, memo, touched>>
       ELSE /\ job' = Call(job.op, Result, job.round + 1)
            /\ memo' = << >>
            /\ Collecting(Range(visited) \cup {Result})
            /\ UNCHANGED <<nodes, held>>
    /\ UNCHANGED <<rules, visited>>

PassStep == (Pop \/ Descend \/ Rebuild) /\ UNCHANGED <<rules, visited>>

Visit ==
    /\ job.op = "walk" /\ job.stack # << >>
    /\ LET i    == Top.node
           done == \E j \in Range(visited) : NodeEqual(heap, i, j)
       IN  /\ visited' = IF done THEN visited ELSE Append(visited, i)
           /\ job' = [job EXCEPT !.stack = IF done THEN Front(@) ELSE PushAll(Front(@), heap[i].kids, {})]
    /\ UNCHANGED <<storeVars, rules, memo>>

EndWalk ==
    /\ job.op = "walk" /\ job.stack = << >>
    /\ job' = Idle
    /\ UNCHANGED <<storeVars, rules, memo, visited>>

Running == PassStep \/ EndPass \/ Visit \/ EndWalk
-----------------------------------------------------------------------------
(* Between calls: rules are installed, the store is used. *)
Install(rule) ==
    /\ job = Idle /\ rule \notin rules
    /\ rules' = rules \cup {rule}
    /\ UNCHANGED <<storeVars, memo, visited, job>>

CreateOne(shapes) == \E s \in shapes : \E kids \in [1..s.arity -> held] : Create(s, kids)
DropOne   == \E i \in held \ StaticIds : Drop(i, PassRefs)
RenameOne == \E i \in held, name \in {"a", "b"} : heap[i].name # name /\ Rename(i, name)
DefineOne == \E i, body \in held : UpdateFuncDef(i, body, PassRefs)

UseStore(shapes) == job = Idle /\ (CreateOne(shapes) \/ DropOne \/ Clear(PassRefs)) /\ UNCHANGED passVars
ChangeNode       == job = Idle /\ (RenameOne \/ DefineOne) /\ UNCHANGED passVars

CallPass ==
    \/ \E i \in held : RewriteOnce(i)
    \/ \E i \in held : Rewrite(i)
    \/ \E i \in held : Walk(i)

Init ==
    /\ StoreInit
    /\ rules = {} /\ memo = << >> /\ visited = << >>
    /\ job = Idle

Next == UseStore(Shapes) \/ ChangeNode \/ CallPass \/ Running \/ (\E rule \in {"default", "exchange"} : Install(rule))
vars == <<storeVars, passVars>>
Spec == Init /\ [][Next]_vars /\ WF_vars(Running)
-----------------------------------------------------------------------------
(* Clearing the manager takes the nodes that no program, memo, visitor or   *)
(* call reaches, and no others.                                             *)
ClearTakesTheRest ==
    /\ []HoldersSeeWhole(PassRefs)
    /\ [][FirstClear => NothingElseLeft(PassRefs)]_storeVars
=============================================================================
