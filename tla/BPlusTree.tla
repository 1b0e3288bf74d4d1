----------------------------- MODULE BPlusTree -----------------------------
(***************************************************************************)
(* The B+ tree under the counting collections (BPlusTreeDirectory.ts and   *)
(* BTreeOperations.ts): a set of numbers that can be counted from a number *)
(* on without reading all of it.  Every operation is one transaction; one  *)
(* that throws is rolled back.                                             *)
(*                                                                         *)
(* A leaf holds its sorted values as a set.  An inner node holds for every *)
(* child the least and greatest value and the number of values under it.   *)
(* Node numbers come from a counter in the code; here a new node takes the *)
(* least free number, and a root that was replaced by its only child,      *)
(* which the code leaves in the store without reading it again, is         *)
(* forgotten.                                                              *)
(***************************************************************************)
EXTENDS Naturals, Sequences, FiniteSets, FiniteSetsExt, SequencesExt

CONSTANTS Keys, maxBranch

ASSUME BranchAssumption == Keys \subseteq Nat \ {0} /\ maxBranch \in Nat /\ maxBranch >= 4

VARIABLES
    tree,     \* the nodes of one collection and its head
    content   \* history: the values added and not removed

treeVars == <<tree, content>>

minChildren == maxBranch \div 2
maxChildren == maxBranch - 1

Leaf(parent, values) == [parent |-> parent, values |-> values, children |-> <<>>]
Inner(parent, children) == [parent |-> parent, values |-> {}, children |-> children]
IsLeaf(n) == n.children = <<>>
Size(n) == Cardinality(n.values) + Len(n.children)

Empty == [root |-> 0, node |-> <<>>, thrown |-> FALSE]
writeNode(T, id, n) ==
    [T EXCEPT !.node = [x \in DOMAIN @ \cup {id} |-> IF x = id THEN n ELSE @[x]]]
clearNode(T, id) == [T EXCEPT !.node = Restrict(@, DOMAIN @ \ {id})]
allocateNodeId(T) == Min((1..Cardinality(DOMAIN T.node) + 1) \ DOMAIN T.node)

Total(counts) == MapThenSumSet(LAMBDA i : counts[i], DOMAIN counts)

\* What a parent keeps of a child.
Entry(id, n) ==
    IF IsLeaf(n)
    THEN [id |-> id, min |-> Min(n.values), max |-> Max(n.values), count |-> Cardinality(n.values)]
    ELSE [id |-> id, min |-> Head(n.children).min, max |-> Last(n.children).max,
          count |-> Total([i \in DOMAIN n.children |-> n.children[i].count])]

IndexOf(T, id) ==
    CHOOSE i \in DOMAIN T.node[T.node[id].parent].children :
        T.node[T.node[id].parent].children[i].id = id

\* A walk up or down a tree is at most this long: no more levels than nodes.
Levels(T) == Cardinality(DOMAIN T.node)

\* Node p is told the numbers of a child, and has its own to tell its parent.
Tell(s) ==
    LET n == s.tree.node[s.p]
        m == [n EXCEPT !.children = [i \in DOMAIN @ |-> IF @[i].id = s.e.id THEN s.e ELSE @[i]]]
    IN  IF s.p = 0 THEN s
        ELSE IF \A i \in DOMAIN n.children : n.children[i].id # s.e.id
        THEN [s EXCEPT !.tree.thrown = TRUE, !.p = 0]
        ELSE [tree |-> writeNode(s.tree, s.p, m), p |-> n.parent, e |-> Entry(s.p, m)]

\* The child's numbers change, and with them those of all ancestors.
updateParents(T, p, e) ==
    LET told[i \in 0..Levels(T)] ==
            IF i = 0 THEN [tree |-> T, p |-> p, e |-> e] ELSE Tell(told[i - 1])
    IN  told[Levels(T)].tree

\* Mutant of Rewrite: only the parent learns of it.
Rewrite_ParentOnly(T, id, n) ==
    LET U == writeNode(T, id, n)
        e == Entry(id, n)
    IN  IF n.parent = 0 THEN U
        ELSE writeNode(U, n.parent, [U.node[n.parent] EXCEPT !.children =
                 [i \in DOMAIN @ |-> IF @[i].id = id THEN e ELSE @[i]]])

\* A node gets other values or children, and its ancestors learn of it.
Rewrite(T, id, n) ==
    LET U == writeNode(T, id, n)
    IN  IF n.parent = 0 THEN U ELSE updateParents(U, n.parent, Entry(id, n))

addValuesToLeaf(T, id, values) ==
    Rewrite(T, id, [T.node[id] EXCEPT !.values = @ \cup values])
removeValuesFromLeaf(T, id, values) ==
    Rewrite(T, id, [T.node[id] EXCEPT !.values = @ \ values])
moveValue(T, from, to, key) ==
    addValuesToLeaf(removeValuesFromLeaf(T, from, {key}), to, {key})

childrenAdd(children, added) ==
    SetToSortSeq(ToSet(children) \cup added, LAMBDA a, b : a.min < b.min)

moveNode(T, id, to) ==
    LET from == T.node[id].parent
        U == Rewrite(writeNode(T, id, [T.node[id] EXCEPT !.parent = to]), from,
                     [T.node[from] EXCEPT !.children = RemoveAt(@, IndexOf(T, id))])
    IN  Rewrite(U, to, [U.node[to] EXCEPT !.children = childrenAdd(@, {Entry(id, U.node[id])})])

\* The children are not told of their new parent.
addChildren(T, id, children) ==
    Rewrite(T, id, [T.node[id] EXCEPT !.children = childrenAdd(@, ToSet(children))])

\* Mutant of deleteNode: the root is updated like any other ancestor.
deleteNode_RootToo(T, id) ==
    LET p == T.node[id].parent
        parent == [T.node[p] EXCEPT !.children = RemoveAt(@, IndexOf(T, id))]
    IN  IF p = 0 THEN [clearNode(T, id) EXCEPT !.root = 0]
        ELSE updateParents(writeNode(clearNode(T, id), p, parent), p, [Entry(p, parent) EXCEPT !.id = id])

\* The numbers of the grandparent are looked for under the deleted child: above
\* the second level this throws.
deleteNode(T, id) ==
    LET p == T.node[id].parent
        parent == [T.node[p] EXCEPT !.children = RemoveAt(@, IndexOf(T, id))]
        U == writeNode(clearNode(T, id), p, parent)
    IN  IF p = 0 THEN [clearNode(T, id) EXCEPT !.root = 0]
        ELSE IF parent.parent = 0 THEN U
        ELSE updateParents(U, p, [Entry(p, parent) EXCEPT !.id = id])

\* The lower half stays, the upper half moves to a new node.
splitNode(T, id) ==
    LET n == T.node[id]
        p == IF n.parent = 0 THEN allocateNodeId(T) ELSE n.parent
        new == allocateNodeId(writeNode(T, p, n))
        mid == Size(n) \div 2
        cut == IF IsLeaf(n) THEN 0 ELSE mid
        low == {v \in n.values : Cardinality({w \in n.values : w < v}) < mid}
        left == [n EXCEPT !.parent = p, !.values = low, !.children = SubSeq(@, 1, cut)]
        right == [n EXCEPT !.parent = p, !.values = @ \ low, !.children = SubSeq(@, cut + 1, Len(@))]
        moved == {c.id : c \in ToSet(right.children)}
        both == <<Entry(id, left), Entry(new, right)>>
        U == [writeNode(writeNode(T, id, left), new, right) EXCEPT !.node =
                 [c \in DOMAIN @ |-> IF c \in moved THEN [@[c] EXCEPT !.parent = new] ELSE @[c]]]
    IN  IF n.parent = 0
        THEN [writeNode(U, p, Inner(0, both)) EXCEPT !.root = p]
        ELSE writeNode(U, p, [U.node[p] EXCEPT !.children =
                 SubSeq(@, 1, IndexOf(T, id) - 1) \o both \o SubSeq(@, IndexOf(T, id) + 1, Len(@))])

----------------------------------------------------------------------------
(* Searching and counting *)

\* The child to go on with: the last one that does not begin after the key.
ChildFor(children, key) ==
    IF key < children[2].min THEN children[1].id
    ELSE children[Max({i \in 2..Len(children) : children[i].min <= key})].id

treeSearch(T, key) ==
    LET Down(id) == IF IsLeaf(T.node[id]) THEN id ELSE ChildFor(T.node[id].children, key)
        at[i \in 0..Levels(T)] == IF i = 0 THEN T.root ELSE Down(at[i - 1])
    IN  at[Levels(T)]

countNode(T, root, from, to) ==
    LET under[id \in DOMAIN T.node] ==
            LET n == T.node[id]
                Under(c) == IF from <= c.min /\ c.max <= to THEN c.count
                            ELSE IF from > c.max \/ c.min > to THEN 0
                            ELSE under[c.id]
            IN  IF IsLeaf(n) THEN Cardinality({v \in n.values : from <= v /\ v <= to})
                ELSE Total([i \in DOMAIN n.children |-> Under(n.children[i])])
    IN  under[root]
countRange(T, from, to) == IF T.root = 0 THEN 0 ELSE countNode(T, T.root, from, to)

\* The neighbour on the same level, if need be under another parent.
findNodeSiblingLeft(T, node) ==
    LET left[id \in DOMAIN T.node] ==
            LET p == T.node[id].parent
            IN  IF p = 0 THEN 0
                ELSE IF IndexOf(T, id) > 1 THEN T.node[p].children[IndexOf(T, id) - 1].id
                ELSE IF left[p] = 0 THEN 0 ELSE Last(T.node[left[p]].children).id
    IN  left[node]

findNodeSiblingRight(T, node) ==
    LET right[id \in DOMAIN T.node] ==
            LET p == T.node[id].parent
            IN  IF p = 0 THEN 0
                ELSE IF IndexOf(T, id) < Len(T.node[p].children)
                THEN T.node[p].children[IndexOf(T, id) + 1].id
                ELSE IF right[p] = 0 THEN 0 ELSE Head(T.node[right[p]].children).id
    IN  right[node]

----------------------------------------------------------------------------
(* Rebalancing *)

\* A node with too many values or children is split, and its parent looked at next.
Split(s) ==
    LET U == splitNode(s.tree, s.id)
    IN  IF Size(s.tree.node[s.id]) <= maxChildren THEN s
        ELSE [tree |-> U, id |-> U.node[s.id].parent]

splitIfNeeded(T, id) ==
    LET split[i \in 0..Levels(T)] ==
            IF i = 0 THEN [tree |-> T, id |-> id] ELSE Split(split[i - 1])
    IN  split[Levels(T)].tree

CanLend(T, id) == id # 0 /\ Size(T.node[id]) - 1 >= minChildren

\* A node that lacks a value or child takes one from a neighbour, or else is
\* merged into one and its parent looked at next; a root with one child gives
\* way to it.
Merge(s) ==
    LET T == s.tree
        id == s.id
        n == T.node[id]
        l == findNodeSiblingLeft(T, id)
        r == findNodeSiblingRight(T, id)
        Take(from, key, child) ==
            IF IsLeaf(n) THEN moveValue(T, from, id, key) ELSE moveNode(T, child, id)
        D == deleteNode(T, id)
        Merged(to) ==
            IF to = 0 THEN D
            ELSE IF IsLeaf(n) THEN addValuesToLeaf(D, to, n.values)
            ELSE addChildren(D, to, n.children)
        child == Head(n.children).id
        Done(U) == [tree |-> U, id |-> 0]
    IN  IF id = 0 THEN s
        ELSE IF n.parent # 0 /\ Size(n) < minChildren
        THEN IF CanLend(T, l) THEN Done(Take(l, Max(T.node[l].values), Last(T.node[l].children).id))
             ELSE IF CanLend(T, r) THEN Done(Take(r, Min(T.node[r].values), Head(T.node[r].children).id))
             ELSE IF D.thrown THEN Done(D)
             ELSE IF ~IsLeaf(n) /\ l = 0 THEN Done(Merged(r))
             ELSE [tree |-> Merged(IF l # 0 THEN l ELSE r), id |-> n.parent]
        ELSE IF n.parent = 0 /\ Len(n.children) = 1
        THEN Done([writeNode(clearNode(T, id), child, [T.node[child] EXCEPT !.parent = 0])
                       EXCEPT !.root = child])
        ELSE Done(T)

mergeIfNeeded(T, id) ==
    LET merge[i \in 0..Levels(T)] ==
            IF i = 0 THEN [tree |-> T, id |-> id] ELSE Merge(merge[i - 1])
    IN  merge[Levels(T)].tree

----------------------------------------------------------------------------
(* The directory *)

Added(T, key) ==
    LET id == treeSearch(T, key)
    IN  IF T.root = 0
        THEN LET new == allocateNodeId(T) IN [writeNode(T, new, Leaf(0, {key})) EXCEPT !.root = new]
        ELSE IF key \in T.node[id].values THEN T
        ELSE splitIfNeeded(addValuesToLeaf(T, id, {key}), id)

Removed(T, key) ==
    LET id == treeSearch(T, key)
    IN  IF T.root = 0 \/ key \notin T.node[id].values THEN T
        ELSE IF id = T.root /\ T.node[id].values = {key} THEN deleteNode(T, id)
        ELSE mergeIfNeeded(removeValuesFromLeaf(T, id, {key}), id)

TreeInit == tree = Empty /\ content = {}

\* A transaction that throws leaves everything as it was.
Commit(T, values) ==
    IF T.thrown THEN UNCHANGED treeVars ELSE tree' = T /\ content' = values

add(key) == Commit(Added(tree, key), content \cup {key})
remove(key) == Commit(Removed(tree, key), content \ {key})

TreeNext == \E key \in Keys : add(key) \/ remove(key)
TreeSpec == TreeInit /\ [][TreeNext]_treeVars

----------------------------------------------------------------------------
(* Properties *)

\* Whatever was added and removed, and however the nodes were split and merged,
\* every range counts what it contains.
CountsAreTrue ==
    \A from \in Keys : \A to \in Keys :
        countRange(tree, from, to) = Cardinality({v \in content : from <= v /\ v <= to})

\* No addition throws, and a removal only where a leaf below an inner node other
\* than the root would have to be merged: there deleteNode looks for a child it
\* has just removed.
Merges(id) ==
    LET T == tree
    IN  /\ Size(T.node[id]) = minChildren
        /\ ~CanLend(T, findNodeSiblingLeft(T, id)) /\ ~CanLend(T, findNodeSiblingRight(T, id))
        /\ T.node[T.node[id].parent].parent # 0
OnlyDeepMergesThrow ==
    /\ \A key \in Keys : ~Added(tree, key).thrown
    /\ \A key \in content : Removed(tree, key).thrown => Merges(treeSearch(tree, key))
=============================================================================
