------------------------------ MODULE NodeStore ------------------------------
(***************************************************************************)
(* NodeManager: the nodes of terms, interned (src/src/ir/dag.cpp).          *)
(*                                                                          *)
(* Nodes are shared pointers.  A node keeps the hash it was interned under  *)
(* for as long as it is interned, while rename and updateFuncDef change its *)
(* name, its kind and its children in place; it is destroyed when the last  *)
(* reference to it goes.  References come from the vector and the buckets   *)
(* of the manager, from the children of other nodes, and from outside:      *)
(* programs, tables, caches.  Sorts are left out (a name determines one),   *)
(* and addresses are numbers, used again once they are free.                *)
(***************************************************************************)
EXTENDS Integers, FiniteSets, FiniteSetsExt, SequencesExt

CONSTANTS
    Colliding,  \* names that have one hash
    Statics,    \* the constants every manager interns first
    Shapes,     \* what a program creates: [kind, name, arity]
    MaxBuilt    \* bound on the nodes that exist when a program creates one

ASSUME StaticsAssumption ==
    /\ Statics \in Seq(Range(Statics)) /\ Len(Statics) >= 2
    /\ \A i, j \in DOMAIN Statics :
          i # j => Statics[i].kind # Statics[j].kind \/ Statics[i].name # Statics[j].name
    /\ \A s \in Range(Statics) : s.arity = 0 /\ s.kind \notin {"VAR", "FUNC_DEC"}

(* No node is created with the looks of a cleared one: errors have a name.  *)
ASSUME StoreAssumption ==
    /\ \A s \in Shapes : s.arity \in 0..3
    /\ \A s \in Shapes \cup Range(Statics) : s.kind = "ERROR" => s.name # ""
    /\ MaxBuilt \in Nat

VARIABLES
    heap,       \* address -> node
    nodes,      \* the manager's vector; the bucket of a node is its hash
    held,       \* nodes a program has a reference to
    touched     \* history: nodes renamed or defined in place

storeVars == <<heap, nodes, held, touched>>

StaticIds == DOMAIN Statics

NameHash(name) == IF name \in Colliding THEN "collision" ELSE name

(* The hashes of the children are those of their time of creation. *)
Node(h, kind, name, kids) ==
    [kind |-> kind, name |-> name, kids |-> kids,
     hash |-> [kind |-> kind, name |-> NameHash(name),
               kids |-> [k \in DOMAIN kids |-> h[kids[k]].hash]]]

(* DAGNode::clear. *)
Blank(node) == [kind |-> "ERROR", name |-> "", kids |-> << >>, hash |-> node.hash]
IsBlank(node) == node.kind = "ERROR" /\ node.name = ""
-----------------------------------------------------------------------------
(* The nodes below some nodes, and those themselves. *)
Kids(h, i) == IF i \in DOMAIN h THEN Range(h[i].kids) ELSE {}

Reach(h, is) ==
    LET reached[n \in 0..Cardinality(DOMAIN h)] ==
            IF n = 0 THEN is ELSE UNION { {i} \cup Kids(h, i) : i \in reached[n - 1] }
    IN  reached[Cardinality(DOMAIN h)]

(* Equivalence looks at names and children, and at the hashes of children   *)
(* only when both nodes were created with some.                             *)
Alike(m, n) ==
    /\ m.kind = n.kind
    /\ m.name = n.name
    /\ Len(m.kids) = Len(n.kids)
    /\ m.hash.kids = n.hash.kids \/ << >> \in {m.hash.kids, n.hash.kids}

(* The pairs of nodes that are compared when i and j are: the call for a pair *)
(* compares their children, and a pair met before is not compared again.    *)
KidPairs(h, p) ==
    IF p[1] # p[2] /\ Alike(h[p[1]], h[p[2]])
    THEN { <<h[p[1]].kids[k], h[p[2]].kids[k]>> : k \in DOMAIN h[p[1]].kids }
    ELSE {}

Compared(h, i, j) ==
    LET depth == Cardinality(Reach(h, {i})) * Cardinality(Reach(h, {j}))
        met[n \in 0..depth] ==
            IF n = 0 THEN {<<i, j>>} ELSE UNION { {p} \cup KidPairs(h, p) : p \in met[n - 1] }
    IN  met[depth]

Same(h, i, j) ==
    \/ i = j
    \/ /\ Alike(h[i], h[j])
       /\ \A p \in Compared(h, i, j) : p[1] = p[2] \/ Alike(h[p[1]], h[p[2]])

IsEquivalentTo(h, node, i) ==
    /\ Alike(node, h[i])
    /\ \A k \in DOMAIN node.kids : Same(h, node.kids[k], h[i].kids[k])

(* NodeHash and NodeEqual, by which caches and visitors find their nodes. *)
NodeEqual(h, i, j) == h[i].hash = h[j].hash /\ Same(h, i, j)
-----------------------------------------------------------------------------
FreeAddress(h) == CHOOSE i \in 1..Cardinality(DOMAIN h) + 1 : i \notin DOMAIN h

(* Mutant: of the nodes under a hash only the last one is looked at. *)
FoundLast(h, vector, node) ==
    { p \in DOMAIN vector : /\ h[vector[p]].hash = node.hash /\ IsEquivalentTo(h, node, vector[p])
                            /\ \A q \in p + 1 .. Len(vector) : h[vector[q]].hash # node.hash }

(* The heap, the vector and the node after a node was asked for. *)
Found(h, vector, node) ==
    { p \in DOMAIN vector : h[vector[p]].hash = node.hash /\ IsEquivalentTo(h, node, vector[p]) }

Intern(h, vector, node) ==
    IF Found(h, vector, node) # {}
    THEN [heap |-> h, nodes |-> vector, node |-> vector[Min(Found(h, vector, node))]]
    ELSE LET new == FreeAddress(h)
         IN  [heap  |-> [i \in DOMAIN h \cup {new} |-> IF i = new THEN node ELSE h[i]],
              nodes |-> Append(vector, new),
              node  |-> new]

CreateNode(h, vector, kind, name, kids) ==
    CHOOSE made \in { Intern(h, vector, node) : node \in {Node(h, kind, name, kids)} } : TRUE

(* Which children of which nodes are the node i, child by child. *)
Links(h, parents, i) ==
    { l \in parents \X (1..3) : l[2] \in DOMAIN h[l[1]].kids /\ h[l[1]].kids[l[2]] = i }

(* The nodes of a set that a root, the store or another of them refers to.   *)
Referenced(h, is, roots) == is \cap (roots \cup StaticIds \cup UNION { Kids(h, i) : i \in is })

(* What is left when every node without a reference is destroyed: those that *)
(* were held by destroyed nodes only go next.                               *)
Collect(h, roots) ==
    LET left[n \in 0..Cardinality(DOMAIN h)] ==
            IF n = 0 THEN DOMAIN h ELSE UNION { Referenced(h, is, roots) : is \in {left[n - 1]} }
    IN  [i \in left[Cardinality(DOMAIN h)] |-> h[i]]

Collected(h, vector, outside) ==
    CHOOSE left \in { Collect(g, roots) : g \in {h}, roots \in {Range(vector) \cup outside} } : TRUE
-----------------------------------------------------------------------------
(* Operations; others are the references of caches and of calls under way. *)
StoreInit ==
    /\ heap = [i \in StaticIds |-> Node(<< >>, Statics[i].kind, Statics[i].name, << >>)]
    /\ nodes = [i \in StaticIds |-> i]
    /\ held = StaticIds
    /\ touched = {}

Create(shape, kids) ==
    /\ Cardinality(DOMAIN heap) < MaxBuilt
    /\ \E made \in {CreateNode(heap, nodes, shape.kind, shape.name, kids)} :
           /\ heap' = made.heap
           /\ nodes' = made.nodes
           /\ held' = held \cup {made.node}
           /\ touched' = touched \cap DOMAIN heap

Drop(i, others) ==
    /\ held' = held \ {i}
    /\ heap' = Collected(heap, nodes, held' \cup others)
    /\ touched' = touched \cap DOMAIN heap'
    /\ UNCHANGED nodes

(* Parser::rename of a variable. *)
Rename(i, name) ==
    /\ heap[i].kind = "VAR"
    /\ heap' = [heap EXCEPT ![i].name = name]
    /\ touched' = touched \cup {i}
    /\ UNCHANGED <<nodes, held>>

(* A definition of a declared function changes its node; others hold the    *)
(* former children no longer.                                               *)
UpdateFuncDef(i, body, others) ==
    /\ heap[i].kind = "FUNC_DEC"
    /\ heap' = Collected([heap EXCEPT ![i].kind = "FUNC_REC", ![i].kids = <<body>>],
                         nodes, held \cup others)
    /\ touched' = (touched \cup {i}) \cap DOMAIN heap'
    /\ UNCHANGED <<nodes, held>>

(* clear keeps what is referenced from outside, with all below it: nodes    *)
(* with more references than the manager can account for.  The first        *)
(* entries of the vector count as static, also after the vector was         *)
(* emptied, when they are not.                                              *)
Managed == { nodes[p] : p \in Len(Statics) + 1 .. Len(nodes) }

(* Mutant: a parent counts once, however many of its children the node is. *)
ParentsOnce(i) == 2 + Cardinality({ p \in Managed : i \in Range(heap[p].kids) })

InternalRefs(i) == 2 + Cardinality(Links(heap, Managed, i))

UseCount(i, outside) ==
    2 + Cardinality(Links(heap, DOMAIN heap, i)) + (IF i \in outside THEN 1 ELSE 0)

Kept(outside) == Reach(heap, { i \in Managed : UseCount(i, outside) > InternalRefs(i) })

Clear(others) ==
    LET outside == held \cup others
        cleared == Managed \ Kept(outside)
    IN  /\ heap' = Collected([i \in DOMAIN heap |-> IF i \in cleared THEN Blank(heap[i]) ELSE heap[i]],
                             << >>, outside)
        /\ nodes' = << >>
        /\ touched' = touched \cap DOMAIN heap'
        /\ UNCHANGED held
-----------------------------------------------------------------------------
(* clear takes apart exactly what nobody outside reaches: nothing a program *)
(* or a cache can still reach is cleared or destroyed, and a manager that   *)
(* is cleared for the first time leaves nothing behind, not even            *)
(* definitions that contain themselves.                                     *)
HoldersSeeWhole(others) ==
    \A i \in Reach(heap, held \cup others) : i \in DOMAIN heap /\ ~ IsBlank(heap[i])

FirstClear == nodes' = << >> /\ StaticIds \subseteq Range(nodes)

NothingElseLeft(others) == DOMAIN heap' = StaticIds \cup Reach(heap, held \cup others)

(* Structurally equal nodes are one node, of those the manager has and      *)
(* nobody changed in place.                                                 *)
InternedOnce ==
    \A p, q \in DOMAIN nodes :
        (p < q /\ Same(heap, nodes[p], nodes[q]))
            => Reach(heap, {nodes[p], nodes[q]}) \cap touched # {}
=============================================================================
