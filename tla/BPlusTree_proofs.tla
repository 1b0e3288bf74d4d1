--------------------------- MODULE BPlusTree_proofs ---------------------------
(*****************************************************************************)
(* BPlusTree keeps its counts, for any branching factor from 4 on and any    *)
(* keys.                                                                     *)
(*                                                                           *)
(* A removal takes a value from a leaf, which then borrows one from a        *)
(* neighbour or is merged into it; a root left with one child gives way to   *)
(* that child.  Under an inner node other than the root deleteNode throws    *)
(* instead, and the transaction is rolled back: no removal that succeeds     *)
(* merges anything above the leaves.                                         *)
(*                                                                           *)
(* The inductive invariant TreeInv: the collection is empty, or there are B  *)
(* and H with Built, Told and AllSized, and under the root is content.       *)
(*****************************************************************************)
EXTENDS BPlusTree_lemmas

-------------------------------------------------------------------------------
(* The neighbours of a node on its level.                                    *)

\* The position of a node under its parent is found, and is the only one.
LEMMA IndexIs ==
  ASSUME NEW T, NEW B, NEW H, Built(T, B, H), NEW d \in Nodes(T), d # T.root,
         NEW p, p = Parent(T, d), NEW k, k = IndexOf(T, d)
  PROVE  /\ k \in DOMAIN Children(T, p) /\ ChildId(T, p, k) = d
         /\ k \in 1..Len(Children(T, p)) /\ k \in Nat
         /\ \A i \in DOMAIN Children(T, p) : ChildId(T, p, i) = d => i = k
<1>1. p \in Nodes(T) /\ \E i \in DOMAIN Children(T, p) : ChildId(T, p, i) = d
  BY ParentParts
<1>2. k = CHOOSE i \in DOMAIN Children(T, p) : ChildId(T, p, i) = d
  BY DEF IndexOf, Children, ChildId, Parent
<1>3. k \in DOMAIN Children(T, p) /\ ChildId(T, p, k) = d
  BY <1>1, <1>2
<1>4. DOMAIN Children(T, p) = 1..Len(Children(T, p)) /\ Len(Children(T, p)) \in Nat
  BY <1>1, NodeParts
<1>5. \A i \in DOMAIN Children(T, p) : ChildId(T, p, i) = d => i = k
  BY <1>1, <1>3, ChildrenApart
<1> QED BY <1>3, <1>4, <1>5

\* The neighbour, given the parent's: at the left hand for side 1.
OnLeft(T, d, a) ==
  LET p == Parent(T, d)
  IN  IF p = 0 THEN 0
      ELSE IF IndexOf(T, d) > 1 THEN T.node[p].children[IndexOf(T, d) - 1].id
      ELSE IF a = 0 THEN 0 ELSE Last(T.node[a].children).id
OnRight(T, d, a) ==
  LET p == Parent(T, d)
  IN  IF p = 0 THEN 0
      ELSE IF IndexOf(T, d) < Len(T.node[p].children)
      THEN T.node[p].children[IndexOf(T, d) + 1].id
      ELSE IF a = 0 THEN 0 ELSE Head(T.node[a].children).id
Beside(side, T, d, a) == IF side = 1 THEN OnLeft(T, d, a) ELSE OnRight(T, d, a)
Sides(f, side, T) == f = [d \in DOMAIN T.node |-> Beside(side, T, d, f[Parent(T, d)])]

\* The search for the neighbours has a result.
LEMMA SidesExist ==
  ASSUME NEW T, NEW B, NEW H, Built(T, B, H), NEW side
  PROVE  \E f : Sides(f, side, T)
<1> DEFINE h == H[T.root]
           E(f, d) == Beside(side, T, d, f[Parent(T, d)])
           From(f, k) == \A d \in Nodes(T) : h <= H[d] + k => f[d] = E(f, d)
           S == {k \in Nat : ~(\E f : From(f, k))}
<1>1. h \in Nat /\ \A d \in Nodes(T) : H[d] \in Nat /\ H[d] <= h
  BY NodeParts, RootParts
<1>2. \A d \in Nodes(T) : d # T.root => Parent(T, d) \in Nodes(T) /\ H[Parent(T, d)] = H[d] + 1
  BY ParentParts
<1>3. Parent(T, T.root) = 0
  BY RootParts
<1>4. \A d \in Nodes(T) : H[d] = h => d = T.root
  BY OneRoot
<1>5. \A f : E(f, T.root) = 0
  BY <1>3 DEF Beside, OnLeft, OnRight
<1> HIDE DEF E, h
<1>6. S = {}
  <2>1. SUFFICES ASSUME S # {} PROVE FALSE
    OBVIOUS
  <2>2. PICK k \in S : \A j \in S : k <= j
    <3>1. S \in SUBSET Nat
      OBVIOUS
    <3> HIDE DEF S
    <3> QED BY <2>1, <3>1, Lowest
  <2>3. CASE k = 0
    <3> DEFINE f == [d \in Nodes(T) |-> 0]
    <3>1. ASSUME NEW d \in Nodes(T), h <= H[d] + 0 PROVE f[d] = E(f, d)
      <4>1. d = T.root
        BY <1>1, <1>4, <3>1
      <4> HIDE DEF f
      <4>2. E(f, d) = 0
        BY <1>5, <4>1
      <4> QED BY <4>2 DEF f
    <3>2. From(f, 0)
      BY <3>1
    <3> HIDE DEF f
    <3> QED BY <2>2, <2>3, <3>2
  <2>4. CASE k # 0
    <3>1. k \in Nat /\ k - 1 \in Nat /\ ~(k <= k - 1)
      BY <2>2, <2>4
    <3>2. PICK f : From(f, k - 1)
      BY <2>2, <3>1
    <3> DEFINE g == [d \in Nodes(T) |-> IF h <= H[d] + (k - 1) THEN f[d] ELSE E(f, d)]
    <3>3. ASSUME NEW d \in Nodes(T), h <= H[d] + k PROVE E(g, d) = E(f, d)
      <4>1. CASE d = T.root
        <5>1. \A e : E(e, d) = 0
          BY <1>5, <4>1
        <5> HIDE DEF g
        <5> QED BY <5>1
      <4>2. CASE d # T.root
        <5>1. Parent(T, d) \in Nodes(T) /\ h <= H[Parent(T, d)] + (k - 1)
          BY <1>1, <1>2, <3>1, <3>3, <4>2
        <5>2. g[Parent(T, d)] = f[Parent(T, d)]
          BY <5>1
        <5> HIDE DEF g
        <5> QED BY <5>2 DEF E
      <4> QED BY <4>1, <4>2
    <3>4. ASSUME NEW d \in Nodes(T), h <= H[d] + k PROVE g[d] = E(f, d)
      <4>1. h <= H[d] + (k - 1) => f[d] = E(f, d)
        BY <3>2
      <4> QED BY <4>1
    <3> HIDE DEF g
    <3>5. From(g, k)
      BY <3>3, <3>4
    <3> QED BY <2>2, <3>1, <3>5
  <2> QED BY <2>3, <2>4
<1>7. PICK f : From(f, h)
  BY <1>1, <1>6
<1>8. \A d \in Nodes(T) : f[d] = E(f, d)
  BY <1>1, <1>7
<1> DEFINE g == [d \in Nodes(T) |-> f[d]]
<1>9. ASSUME NEW d \in Nodes(T) PROVE g[d] = E(g, d)
  <2>1. CASE d = T.root
    <3>1. \A e : E(e, d) = 0
      BY <1>5, <2>1
    <3>2. g[d] = 0
      BY <1>8, <3>1
    <3> HIDE DEF g
    <3> QED BY <3>1, <3>2
  <2>2. CASE d # T.root
    <3>1. g[Parent(T, d)] = f[Parent(T, d)] /\ g[d] = f[d]
      BY <1>2, <2>2
    <3> HIDE DEF g
    <3>2. E(g, d) = E(f, d)
      BY <3>1 DEF E
    <3> QED BY <1>8, <3>1, <3>2
  <2> QED BY <2>1, <2>2
<1>10. \A d \in Nodes(T) : g[d] = E(g, d)
  BY <1>9
<1>11. g = [d \in Nodes(T) |-> g[d]]
  OBVIOUS
<1> HIDE DEF g
<1>12. g = [d \in Nodes(T) |-> E(g, d)]
  <2> DEFINE e == [d \in Nodes(T) |-> E(g, d)]
  <2>1. [d \in Nodes(T) |-> g[d]] = e
    BY <1>10
  <2> QED BY <1>11, <2>1
<1>13. Sides(g, side, T)
  BY <1>12 DEF Sides, E, Nodes
<1> QED BY <1>13

\* The tree's other nodes do not come between those of x and y.
Adjacent(T, B, x, y) ==
  /\ \A a \in B[x], b \in B[y] : a < b
  /\ \A v \in B[T.root] : v \notin B[x] /\ v \notin B[y] =>
        \A a \in B[x], b \in B[y] : ~(a < v /\ v < b)

NextTo(T, B, H, side, d, a) ==
  a = 0 \/ /\ a \in Nodes(T) /\ H[a] = H[d]
           /\ IF side = 1 THEN Adjacent(T, B, a, d) ELSE Adjacent(T, B, d, a)

\* Two neighbouring children of one node are adjacent.
LEMMA SiblingsAdjacent ==
  ASSUME NEW T, NEW B, NEW H, Built(T, B, H), NEW p \in Nodes(T),
         NEW i \in DOMAIN Children(T, p), i + 1 \in DOMAIN Children(T, p),
         NEW x, x = ChildId(T, p, i), NEW y, y = ChildId(T, p, i + 1)
  PROVE  Adjacent(T, B, x, y) /\ x \in Nodes(T) /\ y \in Nodes(T) /\ H[x] = H[y]
         /\ H[x] + 1 = H[p] /\ x # y
<1> DEFINE c(j) == ChildId(T, p, j)
           K == DOMAIN Children(T, p)
<1>1. K = 1..Len(Children(T, p)) /\ Len(Children(T, p)) \in Nat /\ H[p] \in Nat /\ H[p] # 0
  <2>1. K = 1..Len(Children(T, p)) /\ Len(Children(T, p)) \in Nat /\ H[p] \in Nat
    BY NodeParts
  <2>2. H[p] = 0 => Children(T, p) = <<>>
    BY LeafParts
  <2> QED BY <2>1, <2>2
<1>2. i \in Nat /\ i + 1 \in K /\ i < i + 1 /\ i \in K
  BY <1>1
<1>3. \A j \in K : /\ c(j) \in Nodes(T) /\ H[c(j)] + 1 = H[p] /\ H[c(j)] \in Nat
                   /\ B[c(j)] \subseteq B[p]
  BY ChildParts
<1>4. \A j, k \in K : j < k => \A a \in B[c(j)], b \in B[c(k)] : a < b
  BY ChildrenApart
<1>5. \A v : v \in B[p] <=> \E j \in K : v \in B[c(j)]
  BY <1>1, InnerUnion
<1> HIDE DEF c, K
<1>6. x = c(i) /\ y = c(i + 1)
  BY DEF c
<1>7. x \in Nodes(T) /\ y \in Nodes(T) /\ H[x] = H[y] /\ H[x] + 1 = H[p]
  BY <1>1, <1>2, <1>3, <1>6
<1>8. \A a \in B[x], b \in B[y] : a < b
  BY <1>2, <1>4, <1>6
<1>9. /\ B[x] \in SUBSET Nat /\ B[x] # {} /\ B[y] \in SUBSET Nat /\ B[T.root] \in SUBSET Nat
  BY <1>7, NodeParts, RootParts
<1>10. x # y
  BY <1>8, <1>9
<1>11. ASSUME NEW v \in B[T.root], v \notin B[x], v \notin B[y],
              NEW a \in B[x], NEW b \in B[y], a < v, v < b
       PROVE  FALSE
  <2>1. v \in Nat /\ a \in Nat /\ b \in Nat /\ a \in B[p] /\ b \in B[p]
    BY <1>2, <1>3, <1>6, <1>9
  <2>2. CASE v \in B[p]
    <3>1. PICK j \in K : v \in B[c(j)]
      BY <1>5, <2>2
    <3>2. j \in Nat /\ (j < i \/ i + 1 < j)
      <4>1. j # i /\ j # i + 1
        BY <1>6, <1>11, <3>1
      <4> QED BY <1>1, <1>2, <4>1 DEF K
    <3>3. v < a \/ b < v
      BY <1>2, <1>4, <1>6, <3>1, <3>2
    <3> QED BY <1>11, <2>1, <3>3
  <2>3. CASE v \notin B[p]
    <3>1. v < a <=> v < b
      BY <2>1, <2>3, Convex
    <3> QED BY <1>11, <2>1, <3>1
  <2> QED BY <2>2, <2>3
<1> QED BY <1>7, <1>8, <1>10, <1>11 DEF Adjacent

\* From the parent's neighbour to the node's.
LEMMA SidesStep ==
  ASSUME NEW T, NEW B, NEW H, Built(T, B, H), NEW side \in {1, 2}, NEW d \in Nodes(T), d # T.root,
         NEW p, p = Parent(T, d), NEW a, NextTo(T, B, H, side, p, a),
         NEW k, k = IndexOf(T, d), NEW x, x = Beside(side, T, d, a)
  PROVE  /\ NextTo(T, B, H, side, d, x) /\ x # d
         /\ side = 1 /\ k > 1 => x = ChildId(T, p, k - 1) /\ x # 0
         /\ side = 2 /\ k < Len(Children(T, p)) => x = ChildId(T, p, k + 1) /\ x # 0
         /\ side = 1 /\ k = 1 /\ a = 0 => x = 0
         /\ side = 2 /\ k = Len(Children(T, p)) /\ a = 0 => x = 0
<1> DEFINE m == Len(Children(T, p))
<1>1. /\ p \in Nodes(T) /\ p # 0 /\ H[p] = H[d] + 1 /\ H[d] \in Nat /\ B[d] \subseteq B[p]
      /\ d # 0
  BY ParentParts, NodeParts
<1>2. m \in Nat /\ DOMAIN Children(T, p) = 1..m /\ T.node[p].children = Children(T, p)
  BY <1>1, NodeParts DEF Children
<1>3. /\ k \in 1..m /\ k \in Nat /\ ChildId(T, p, k) = d /\ k \in DOMAIN Children(T, p)
  BY <1>1, IndexIs
<1>4. \A i : T.node[p].children[i].id = ChildId(T, p, i)
  BY DEF ChildId
<1>5. side = 1 => x = IF k > 1 THEN ChildId(T, p, k - 1)
                      ELSE IF a = 0 THEN 0 ELSE Last(T.node[a].children).id
  BY <1>1, <1>4 DEF Beside, OnLeft, OnRight
<1>6. side = 2 => x = IF k < m THEN ChildId(T, p, k + 1)
                      ELSE IF a = 0 THEN 0 ELSE Head(T.node[a].children).id
  BY <1>1, <1>2, <1>4 DEF Beside, OnLeft, OnRight
<1> HIDE DEF m
<1>7. CASE side = 1 /\ k > 1
  <2>1. PICK j : j = k - 1
    OBVIOUS
  <2>2. j \in DOMAIN Children(T, p) /\ j + 1 \in DOMAIN Children(T, p) /\ j + 1 = k
    BY <1>2, <1>3, <1>7, <2>1
  <2>3. x = ChildId(T, p, j) /\ d = ChildId(T, p, j + 1)
    BY <1>3, <1>5, <1>7, <2>1, <2>2
  <2>4. Adjacent(T, B, x, d) /\ x \in Nodes(T) /\ H[x] = H[d] /\ x # d
    BY <1>1, <2>2, <2>3, SiblingsAdjacent
  <2>5. x # 0
    BY <2>4, NodeParts
  <2> QED BY <1>5, <1>7, <2>4, <2>5 DEF NextTo
<1>8. CASE side = 2 /\ k < m
  <2>1. PICK j : j = k + 1
    OBVIOUS
  <2>2. j \in DOMAIN Children(T, p) /\ k + 1 \in DOMAIN Children(T, p)
    BY <1>2, <1>3, <1>8, <2>1
  <2>3. x = ChildId(T, p, k + 1) /\ d = ChildId(T, p, k)
    BY <1>3, <1>6, <1>8, <2>1, <2>2
  <2>4. Adjacent(T, B, d, x) /\ x \in Nodes(T) /\ H[x] = H[d] /\ x # d
    BY <1>1, <1>3, <2>2, <2>3, SiblingsAdjacent
  <2>5. x # 0
    BY <2>4, NodeParts
  <2> QED BY <1>6, <1>8, <2>4, <2>5 DEF NextTo, m
<1>9. CASE ~(side = 1 /\ k > 1) /\ ~(side = 2 /\ k < m)
  <2>1. (side = 1 /\ k = 1) \/ (side = 2 /\ k = m)
    BY <1>2, <1>3, <1>9
  <2>2. CASE a = 0
    <3>1. x = 0
      BY <1>5, <1>6, <1>9, <2>1, <2>2
    <3> QED BY <1>1, <1>9, <2>1, <2>2, <3>1 DEF NextTo, m
  <2>3. CASE a # 0
    <3> DEFINE n == Len(Children(T, a))
               e == IF side = 1 THEN n ELSE 1
    <3>1. a \in Nodes(T) /\ H[a] = H[p]
          /\ IF side = 1 THEN Adjacent(T, B, a, p) ELSE Adjacent(T, B, p, a)
      BY <2>3 DEF NextTo
    <3>2. n \in Nat /\ n >= 1 /\ DOMAIN Children(T, a) = 1..n /\ T.node[a].children = Children(T, a)
          /\ H[a] # 0 /\ Children(T, a) \in Seq(Child)
      BY <1>1, <3>1, NodeParts, LeafParts DEF Children
    <3>3. Last(Children(T, a)) = Children(T, a)[n] /\ Head(Children(T, a)) = Children(T, a)[1]
      BY <3>2 DEF Last
    <3>4. x = ChildId(T, a, e) /\ e \in 1..n
      <4>1. side = 1 => x = Children(T, a)[n].id
        BY <1>5, <1>9, <2>3, <3>2, <3>3
      <4>2. side = 2 => x = Children(T, a)[1].id
        BY <1>6, <1>9, <2>3, <3>2, <3>3
      <4> QED BY <3>2, <4>1, <4>2 DEF ChildId, Children
    <3> HIDE DEF n, e
    <3>5. /\ x \in Nodes(T) /\ H[x] + 1 = H[a] /\ H[x] \in Nat /\ B[x] \subseteq B[a]
          /\ Parent(T, x) = a
      BY <3>1, <3>2, <3>4, ChildParts
    <3>6. H[x] = H[d]
      BY <1>1, <3>1, <3>5
    <3>7. /\ B[a] \in SUBSET Nat /\ B[p] \in SUBSET Nat /\ B[T.root] \in SUBSET Nat
      BY <1>1, <3>1, NodeParts, RootParts
    <3>8. side = 1 => Adjacent(T, B, x, d)
      <4> SUFFICES ASSUME side = 1 PROVE Adjacent(T, B, x, d)
        OBVIOUS
      <4>1. /\ \A u \in B[a], w \in B[p] : u < w
            /\ \A v \in B[T.root] : v \notin B[a] /\ v \notin B[p] =>
                 \A u \in B[a], w \in B[p] : ~(u < v /\ v < w)
        BY <3>1 DEF Adjacent
      <4>2. \A u \in B[x], w \in B[d] : u < w
        BY <1>1, <3>5, <4>1
      <4>3. ASSUME NEW v \in B[T.root], v \notin B[x], v \notin B[d],
                   NEW u \in B[x], NEW w \in B[d], u < v, v < w
            PROVE  FALSE
        <5>1. v \in Nat /\ u \in Nat /\ w \in Nat /\ u \in B[a] /\ w \in B[p]
          BY <1>1, <3>5, <3>7
        <5>2. v \in B[a] \/ v \in B[p]
          BY <4>1, <4>3, <5>1
        <5>3. CASE v \in B[a]
          <6>1. PICK i \in 1..n : v \in B[ChildId(T, a, i)]
            BY <3>1, <3>2, <5>3, InnerUnion
          <6>2. i # n /\ n \in 1..n /\ x = ChildId(T, a, n)
            BY <3>2, <3>4, <4>3, <6>1 DEF e
          <6>3. i < n
            BY <3>2, <6>1, <6>2
          <6>4. v < u
            BY <3>1, <3>2, <6>1, <6>2, <6>3, ChildrenApart
          <6> QED BY <4>3, <5>1, <6>4
        <5>4. CASE v \in B[p]
          <6>1. PICK i \in 1..m : v \in B[ChildId(T, p, i)]
            BY <1>1, <1>2, <5>4, InnerUnion
          <6>2. i # k /\ k = 1 /\ k < i
            BY <1>2, <1>3, <2>1, <4>3, <6>1
          <6>3. w < v
            BY <1>1, <1>2, <1>3, <6>1, <6>2, ChildrenApart
          <6> QED BY <4>3, <5>1, <6>3
        <5> QED BY <5>2, <5>3, <5>4
      <4> QED BY <4>2, <4>3 DEF Adjacent
    <3>9. side = 2 => Adjacent(T, B, d, x)
      <4> SUFFICES ASSUME side = 2 PROVE Adjacent(T, B, d, x)
        OBVIOUS
      <4>1. /\ \A u \in B[p], w \in B[a] : u < w
            /\ \A v \in B[T.root] : v \notin B[p] /\ v \notin B[a] =>
                 \A u \in B[p], w \in B[a] : ~(u < v /\ v < w)
        BY <3>1 DEF Adjacent
      <4>2. \A u \in B[d], w \in B[x] : u < w
        BY <1>1, <3>5, <4>1
      <4>3. ASSUME NEW v \in B[T.root], v \notin B[x], v \notin B[d],
                   NEW u \in B[d], NEW w \in B[x], u < v, v < w
            PROVE  FALSE
        <5>1. v \in Nat /\ u \in Nat /\ w \in Nat /\ u \in B[p] /\ w \in B[a]
          BY <1>1, <3>5, <3>7
        <5>2. v \in B[a] \/ v \in B[p]
          BY <4>1, <4>3, <5>1
        <5>3. CASE v \in B[a]
          <6>1. PICK i \in 1..n : v \in B[ChildId(T, a, i)]
            BY <3>1, <3>2, <5>3, InnerUnion
          <6>2. i # 1 /\ 1 \in 1..n /\ x = ChildId(T, a, 1)
            BY <3>2, <3>4, <4>3, <6>1 DEF e
          <6>3. 1 < i
            BY <3>2, <6>1, <6>2
          <6>4. w < v
            BY <3>1, <3>2, <6>1, <6>2, <6>3, ChildrenApart
          <6> QED BY <4>3, <5>1, <6>4
        <5>4. CASE v \in B[p]
          <6>1. PICK i \in 1..m : v \in B[ChildId(T, p, i)]
            BY <1>1, <1>2, <5>4, InnerUnion
          <6>2. i # k /\ k = m /\ i < k
            BY <1>2, <1>3, <2>1, <4>3, <6>1
          <6>3. v < u
            BY <1>1, <1>2, <1>3, <6>1, <6>2, ChildrenApart
          <6> QED BY <4>3, <5>1, <6>3
        <5> QED BY <5>2, <5>3, <5>4
      <4> QED BY <4>2, <4>3 DEF Adjacent
    <3>10. x # d
      <4>1. PICK w \in B[d] : TRUE
        BY NodeParts
      <4>2. w \in Nat
        BY NodeParts
      <4>3. ~(w < w)
        BY <4>2
      <4> QED BY <3>8, <3>9, <4>1, <4>3 DEF Adjacent
    <3> QED BY <1>9, <2>1, <2>3, <3>5, <3>6, <3>8, <3>9, <3>10 DEF NextTo, m
  <2> QED BY <2>2, <2>3
<1> QED BY <1>7, <1>8, <1>9 DEF m

\* The neighbour that is found is the next node of the level.
LEMMA SidesAre ==
  ASSUME NEW T, NEW B, NEW H, Built(T, B, H), NEW side \in {1, 2}, NEW f, Sides(f, side, T)
  PROVE  f[T.root] = 0 /\ \A d \in Nodes(T) : NextTo(T, B, H, side, d, f[d])
<1>1. \A d \in Nodes(T) : f[d] = Beside(side, T, d, f[Parent(T, d)])
  BY DEF Sides, Nodes
<1>2. f[T.root] = 0
  BY <1>1, RootParts DEF Beside, OnLeft, OnRight
<1> DEFINE S == {d \in Nodes(T) : ~NextTo(T, B, H, side, d, f[d])}
<1>3. S = {}
  <2>1. SUFFICES ASSUME S # {} PROVE FALSE
    OBVIOUS
  <2>2. PICK d \in S : \A e \in S : H[e] <= H[d]
    <3> HIDE DEF S
    <3>1. S \in SUBSET Nodes(T)
      BY DEF S
    <3> QED BY <2>1, <3>1, HighestNode
  <2>3. d # T.root /\ d \in Nodes(T)
    BY <1>2, <2>2 DEF NextTo
  <2> DEFINE p == Parent(T, d)
  <2>4. p \in Nodes(T) /\ H[p] = H[d] + 1 /\ H[d] \in Nat
    BY <2>3, ParentParts, NodeParts
  <2>5. ~(H[p] <= H[d])
    BY <2>4
  <2>6. NextTo(T, B, H, side, p, f[p])
    BY <2>2, <2>4, <2>5
  <2>7. NextTo(T, B, H, side, d, f[d])
    BY <1>1, <2>3, <2>6, SidesStep
  <2> QED BY <2>2, <2>7
<1> QED BY <1>2, <1>3

\* The search for the neighbours has one result.
LEMMA SidesUnique ==
  ASSUME NEW T, NEW B, NEW H, Built(T, B, H), NEW side,
         NEW f, Sides(f, side, T), NEW g, Sides(g, side, T)
  PROVE  f = g
<1>1. \A d \in Nodes(T) : /\ f[d] = Beside(side, T, d, f[Parent(T, d)])
                          /\ g[d] = Beside(side, T, d, g[Parent(T, d)])
  BY DEF Sides, Nodes
<1> DEFINE S == {d \in Nodes(T) : f[d] # g[d]}
<1>2. S = {}
  <2>1. SUFFICES ASSUME S # {} PROVE FALSE
    OBVIOUS
  <2>2. PICK d \in S : \A e \in S : H[e] <= H[d]
    <3> HIDE DEF S
    <3>1. S \in SUBSET Nodes(T)
      BY DEF S
    <3> QED BY <2>1, <3>1, HighestNode
  <2>3. d # T.root /\ d \in Nodes(T)
    <3>1. f[T.root] = 0 /\ g[T.root] = 0
      BY <1>1, RootParts DEF Beside, OnLeft, OnRight
    <3> QED BY <2>2, <3>1
  <2>4. Parent(T, d) \in Nodes(T) /\ H[Parent(T, d)] = H[d] + 1 /\ H[d] \in Nat
    BY <2>3, ParentParts, NodeParts
  <2>5. ~(H[Parent(T, d)] <= H[d])
    BY <2>4
  <2>6. f[Parent(T, d)] = g[Parent(T, d)]
    BY <2>2, <2>4, <2>5
  <2> QED BY <1>1, <2>2, <2>6
<1>3. \A d \in Nodes(T) : f[d] = g[d]
  BY <1>2
<1>4. f = [d \in Nodes(T) |-> f[d]] /\ g = [d \in Nodes(T) |-> g[d]]
  BY DEF Sides, Nodes
<1> QED BY <1>3, <1>4

\* The search to the left is that search.
LEMMA LeftIs ==
  ASSUME NEW T, NEW x, NEW f, Sides(f, 1, T), \A g : Sides(g, 1, T) => g = f
  PROVE  findNodeSiblingLeft(T, x) = f[x]
<1> DEFINE g == CHOOSE l : l = [d \in DOMAIN T.node |-> OnLeft(T, d, l[Parent(T, d)])]
<1>1. findNodeSiblingLeft(T, x) = g[x]
  BY DEF findNodeSiblingLeft, OnLeft, Parent
<1>2. \A d, a : Beside(1, T, d, a) = OnLeft(T, d, a)
  BY DEF Beside
<1>3. \A l : Sides(l, 1, T) => l = [d \in DOMAIN T.node |-> OnLeft(T, d, l[Parent(T, d)])]
  BY <1>2 DEF Sides
<1>4. \A l : l = [d \in DOMAIN T.node |-> OnLeft(T, d, l[Parent(T, d)])] => Sides(l, 1, T)
  BY <1>2 DEF Sides
<1>5. g = [d \in DOMAIN T.node |-> OnLeft(T, d, g[Parent(T, d)])]
  BY <1>3
<1> HIDE DEF g
<1> QED BY <1>1, <1>4, <1>5

\* The search to the right is that search.
LEMMA RightIs ==
  ASSUME NEW T, NEW x, NEW f, Sides(f, 2, T), \A g : Sides(g, 2, T) => g = f
  PROVE  findNodeSiblingRight(T, x) = f[x]
<1> DEFINE g == CHOOSE l : l = [d \in DOMAIN T.node |-> OnRight(T, d, l[Parent(T, d)])]
<1>1. findNodeSiblingRight(T, x) = g[x]
  BY DEF findNodeSiblingRight, OnRight, Parent
<1>2. \A d, a : Beside(2, T, d, a) = OnRight(T, d, a)
  BY DEF Beside
<1>3. \A l : Sides(l, 2, T) => l = [d \in DOMAIN T.node |-> OnRight(T, d, l[Parent(T, d)])]
  BY <1>2 DEF Sides
<1>4. \A l : l = [d \in DOMAIN T.node |-> OnRight(T, d, l[Parent(T, d)])] => Sides(l, 2, T)
  BY <1>2 DEF Sides
<1>5. g = [d \in DOMAIN T.node |-> OnRight(T, d, g[Parent(T, d)])]
  BY <1>3
<1> HIDE DEF g
<1> QED BY <1>1, <1>4, <1>5

Neighbours(T, B, H, x, l, r) ==
  LET p == Parent(T, x)
      k == IndexOf(T, x)
      m == Len(Children(T, p))
  IN  /\ l # 0 => l \in Nodes(T) /\ H[l] = H[x] /\ l # x /\ Adjacent(T, B, l, x)
      /\ r # 0 => r \in Nodes(T) /\ H[r] = H[x] /\ r # x /\ Adjacent(T, B, x, r)
      /\ x # T.root =>
           /\ k > 1 => l = ChildId(T, p, k - 1) /\ l # 0
           /\ k < m => r = ChildId(T, p, k + 1) /\ r # 0
           /\ p = T.root /\ k = 1 => l = 0
           /\ p = T.root /\ k = m => r = 0

\* What the two searches find are the neighbours, and a node with a sibling has one.
LEMMA NeighboursAre ==
  ASSUME NEW T, NEW B, NEW H, Built(T, B, H), NEW x \in Nodes(T),
         NEW l, l = findNodeSiblingLeft(T, x), NEW r, r = findNodeSiblingRight(T, x)
  PROVE  Neighbours(T, B, H, x, l, r)
<1>1. PICK f : Sides(f, 1, T)
  BY SidesExist
<1>2. PICK g : Sides(g, 2, T)
  BY SidesExist
<1>3. l = f[x]
  <2>1. \A h : Sides(h, 1, T) => h = f
    BY <1>1, SidesUnique
  <2> QED BY <1>1, <2>1, LeftIs
<1>4. r = g[x]
  <2>1. \A h : Sides(h, 2, T) => h = g
    BY <1>2, SidesUnique
  <2> QED BY <1>2, <2>1, RightIs
<1>5. f[T.root] = 0 /\ \A d \in Nodes(T) : NextTo(T, B, H, 1, d, f[d])
  BY <1>1, SidesAre
<1>6. g[T.root] = 0 /\ \A d \in Nodes(T) : NextTo(T, B, H, 2, d, g[d])
  BY <1>2, SidesAre
<1>7. CASE x = T.root
  BY <1>3, <1>4, <1>5, <1>6, <1>7 DEF Neighbours
<1>8. CASE x # T.root
  <2> DEFINE p == Parent(T, x)
             k == IndexOf(T, x)
             m == Len(Children(T, p))
  <2>1. p \in Nodes(T)
    BY <1>8, ParentParts
  <2>2. l = Beside(1, T, x, f[p]) /\ r = Beside(2, T, x, g[p])
    BY <1>1, <1>2, <1>3, <1>4 DEF Sides, Nodes
  <2>3. NextTo(T, B, H, 1, p, f[p]) /\ NextTo(T, B, H, 2, p, g[p])
    BY <1>5, <1>6, <2>1
  <2> DEFINE a == f[p]
             b == g[p]
  <2>4. p = Parent(T, x) /\ k = IndexOf(T, x) /\ NextTo(T, B, H, 1, p, a) /\ NextTo(T, B, H, 2, p, b)
        /\ l = Beside(1, T, x, a) /\ r = Beside(2, T, x, b) /\ 1 \in {1, 2} /\ 2 \in {1, 2}
    BY <2>2, <2>3
  <2>5. Built(T, B, H) /\ x \in Nodes(T) /\ x # T.root
    BY <1>8
  <2> HIDE DEF p, k, a, b
  <2>6. /\ NextTo(T, B, H, 1, x, l) /\ l # x
        /\ 1 = 1 /\ k > 1 => l = ChildId(T, p, k - 1) /\ l # 0
        /\ 1 = 1 /\ k = 1 /\ a = 0 => l = 0
    BY ONLY <2>4, <2>5, SidesStep
  <2>7. /\ NextTo(T, B, H, 2, x, r) /\ r # x
        /\ 2 = 2 /\ k < Len(Children(T, p)) => r = ChildId(T, p, k + 1) /\ r # 0
        /\ 2 = 2 /\ k = Len(Children(T, p)) /\ b = 0 => r = 0
    BY ONLY <2>4, <2>5, SidesStep
  <2>8. p = T.root => a = 0 /\ b = 0
    BY <1>5, <1>6 DEF a, b
  <2>9. /\ l # 0 => l \in Nodes(T) /\ H[l] = H[x] /\ l # x /\ Adjacent(T, B, l, x)
        /\ r # 0 => r \in Nodes(T) /\ H[r] = H[x] /\ r # x /\ Adjacent(T, B, x, r)
    BY <2>6, <2>7 DEF NextTo
  <2>10. /\ k > 1 => l = ChildId(T, p, k - 1) /\ l # 0
         /\ k < m => r = ChildId(T, p, k + 1) /\ r # 0
         /\ p = T.root /\ k = 1 => l = 0
         /\ p = T.root /\ k = m => r = 0
    BY <2>6, <2>7, <2>8
  <2> QED BY <2>9, <2>10 DEF Neighbours, p, k
<1> QED BY <1>7, <1>8

\* Positions do not depend on the values.
LEMMA SameIndex ==
  ASSUME NEW T, NEW B, NEW H, Built(T, B, H), NEW U, NEW C, Built(U, C, H),
         NEW y, NEW N, Refilled(T, U, y, N), NEW d \in Nodes(T), d # T.root
  PROVE  IndexOf(U, d) = IndexOf(T, d)
<1> DEFINE p == Parent(T, d)
           k == IndexOf(T, d)
           j == IndexOf(U, d)
<1>1. p \in Nodes(T) /\ Parent(U, d) = p /\ d \in Nodes(U) /\ d # U.root
  BY ParentParts DEF Refilled
<1>2. /\ DOMAIN Children(U, p) = DOMAIN Children(T, p)
      /\ \A i \in DOMAIN Children(T, p) : ChildId(U, p, i) = ChildId(T, p, i)
  BY <1>1 DEF Refilled
<1>3. \A i \in DOMAIN Children(T, p) : ChildId(T, p, i) = d => i = k
  BY IndexIs
<1>4. j \in DOMAIN Children(U, p) /\ ChildId(U, p, j) = d
  <2> HIDE DEF p
  <2>1. p = Parent(U, d) /\ j = IndexOf(U, d)
    BY <1>1
  <2> HIDE DEF j
  <2> QED BY ONLY <1>1, <2>1, Built(U, C, H), IndexIs
<1> QED BY <1>2, <1>3, <1>4

\* One step of the search does not depend on the values.
LEMMA SameBeside ==
  ASSUME NEW T, NEW B, NEW H, Built(T, B, H), NEW U, NEW C, Built(U, C, H),
         NEW y, NEW N, Refilled(T, U, y, N), NEW side \in {1, 2}, NEW d \in Nodes(T),
         NEW a, d # T.root => a = 0 \/ (a \in Nodes(T) /\ H[a] = H[Parent(T, d)])
  PROVE  Beside(side, U, d, a) = Beside(side, T, d, a)
<1>1. CASE d = T.root
  <2>1. Parent(T, d) = 0 /\ Parent(U, d) = 0
    BY <1>1, RootParts DEF Refilled
  <2> QED BY <2>1 DEF Beside, OnLeft, OnRight
<1>2. CASE d # T.root
  <2> DEFINE p == Parent(T, d)
             k == IndexOf(T, d)
             m == Len(Children(T, p))
             c(i) == ChildId(T, p, i)
  <2>1. p \in Nodes(T) /\ p # 0 /\ H[p] = H[d] + 1 /\ H[d] \in Nat
    BY <1>2, ParentParts, NodeParts
  <2>2. IndexOf(U, d) = k /\ Parent(U, d) = p /\ k \in 1..m /\ m \in Nat /\ k \in Nat
    BY <1>2, <2>1, SameIndex, IndexIs, NodeParts DEF Refilled
  <2>3. \A x \in Nodes(T) : /\ Len(Children(U, x)) = Len(Children(T, x))
                            /\ \A i \in 1..Len(Children(T, x)) : ChildId(U, x, i) = ChildId(T, x, i)
    BY NodeParts DEF Refilled
  <2>4. \A x \in Nodes(T) :
          /\ U.node[x].children = Children(U, x) /\ T.node[x].children = Children(T, x)
          /\ Children(U, x) \in Seq(Child) /\ Children(T, x) \in Seq(Child)
          /\ Len(Children(T, x)) \in Nat /\ Len(Children(U, x)) \in Nat
    BY NodeParts DEF Children, Refilled
  <2>5. \A x, i : /\ U.node[x].children[i].id = ChildId(U, x, i)
                  /\ T.node[x].children[i].id = ChildId(T, x, i)
    BY DEF ChildId
  <2>6. a # 0 => /\ Last(U.node[a].children).id = Last(T.node[a].children).id
                 /\ Head(U.node[a].children).id = Head(T.node[a].children).id
    <3> SUFFICES ASSUME a # 0
                 PROVE  /\ Last(U.node[a].children).id = Last(T.node[a].children).id
                        /\ Head(U.node[a].children).id = Head(T.node[a].children).id
      OBVIOUS
    <3> DEFINE n == Len(Children(T, a))
    <3>1. a \in Nodes(T) /\ H[a] # 0
      BY <1>2, <2>1
    <3>2. n \in Nat /\ n >= 1 /\ Len(Children(U, a)) = n
      BY <2>3, <2>4, <3>1, LeafParts
    <3>3. 1 \in 1..n /\ n \in 1..n
      BY <3>2
    <3>4. /\ Last(Children(U, a)) = Children(U, a)[n] /\ Last(Children(T, a)) = Children(T, a)[n]
          /\ Head(Children(U, a)) = Children(U, a)[1] /\ Head(Children(T, a)) = Children(T, a)[1]
      BY <2>4, <3>1, <3>2 DEF Last
    <3>5. ChildId(U, a, n) = ChildId(T, a, n) /\ ChildId(U, a, 1) = ChildId(T, a, 1)
      BY <2>3, <3>1, <3>3
    <3> QED BY <2>4, <3>1, <3>4, <3>5 DEF ChildId, Children
  <2>7. k > 1 => ChildId(U, p, k - 1) = ChildId(T, p, k - 1)
    <3>1. k > 1 => k - 1 \in 1..m
      BY <2>2
    <3> QED BY <2>1, <2>3, <3>1
  <2>8. k < m => ChildId(U, p, k + 1) = ChildId(T, p, k + 1)
    <3>1. k < m => k + 1 \in 1..m
      BY <2>2
    <3> QED BY <2>1, <2>3, <3>1
  <2>9. Len(U.node[p].children) = m /\ Len(T.node[p].children) = m
    BY <2>1, <2>3, <2>4
  <2> HIDE DEF p, k, m
  <2>10. OnLeft(U, d, a) = OnLeft(T, d, a)
    <3>1. OnLeft(U, d, a) = IF p = 0 THEN 0 ELSE IF k > 1 THEN ChildId(U, p, k - 1)
                            ELSE IF a = 0 THEN 0 ELSE Last(U.node[a].children).id
      BY <2>2, <2>5 DEF OnLeft
    <3>2. OnLeft(T, d, a) = IF p = 0 THEN 0 ELSE IF k > 1 THEN ChildId(T, p, k - 1)
                            ELSE IF a = 0 THEN 0 ELSE Last(T.node[a].children).id
      BY <2>5 DEF OnLeft, p, k
    <3> QED BY <2>6, <2>7, <3>1, <3>2
  <2>11. OnRight(U, d, a) = OnRight(T, d, a)
    <3>1. OnRight(U, d, a) = IF p = 0 THEN 0 ELSE IF k < m THEN ChildId(U, p, k + 1)
                             ELSE IF a = 0 THEN 0 ELSE Head(U.node[a].children).id
      BY <2>2, <2>5, <2>9 DEF OnRight
    <3>2. OnRight(T, d, a) = IF p = 0 THEN 0 ELSE IF k < m THEN ChildId(T, p, k + 1)
                             ELSE IF a = 0 THEN 0 ELSE Head(T.node[a].children).id
      <4>1. OnRight(T, d, a) = IF p = 0 THEN 0 ELSE IF k < Len(T.node[p].children)
                               THEN T.node[p].children[k + 1].id
                               ELSE IF a = 0 THEN 0 ELSE Head(T.node[a].children).id
        BY DEF OnRight, p, k
      <4> QED BY <2>5, <2>9, <4>1
    <3> QED BY <2>6, <2>8, <3>1, <3>2
  <2> QED BY <2>10, <2>11 DEF Beside
<1> QED BY <1>1, <1>2

\* The search for the neighbours does not depend on the values.
LEMMA SameSides ==
  ASSUME NEW T, NEW B, NEW H, Built(T, B, H), NEW U, NEW C, Built(U, C, H),
         NEW y, NEW N, Refilled(T, U, y, N), NEW side \in {1, 2}, NEW f, Sides(f, side, T)
  PROVE  Sides(f, side, U)
<1>1. \A d \in Nodes(T) : NextTo(T, B, H, side, d, f[d])
  BY SidesAre
<1>2. f = [d \in Nodes(T) |-> Beside(side, T, d, f[Parent(T, d)])]
  BY DEF Sides, Nodes
<1>3. ASSUME NEW d \in Nodes(T)
      PROVE  Beside(side, U, d, f[Parent(U, d)]) = Beside(side, T, d, f[Parent(T, d)])
  <2> DEFINE a == f[Parent(T, d)]
  <2>1. Parent(U, d) = Parent(T, d)
    BY DEF Refilled
  <2>2. d # T.root => a = 0 \/ (a \in Nodes(T) /\ H[a] = H[Parent(T, d)])
    BY <1>1, ParentParts DEF NextTo
  <2> HIDE DEF a
  <2>3. Beside(side, U, d, a) = Beside(side, T, d, a)
    BY <2>2, SameBeside
  <2> QED BY <2>1, <2>3 DEF a
<1>4. Nodes(U) = Nodes(T)
  BY DEF Refilled
<1>5. f = [d \in Nodes(U) |-> Beside(side, U, d, f[Parent(U, d)])]
  <2> DEFINE e == [d \in Nodes(U) |-> Beside(side, U, d, f[Parent(U, d)])]
             g == [d \in Nodes(T) |-> Beside(side, T, d, f[Parent(T, d)])]
  <2>1. e = g
    BY <1>3, <1>4
  <2> QED BY <1>2, <2>1
<1> QED BY <1>5 DEF Sides, Nodes

\* The neighbours do not depend on the values.
LEMMA SameNeighbours ==
  ASSUME NEW T, NEW B, NEW H, Built(T, B, H), NEW U, NEW C, Built(U, C, H),
         NEW y, NEW N, Refilled(T, U, y, N), NEW x
  PROVE  /\ findNodeSiblingLeft(U, x) = findNodeSiblingLeft(T, x)
         /\ findNodeSiblingRight(U, x) = findNodeSiblingRight(T, x)
<1>1. PICK f : Sides(f, 1, T)
  BY SidesExist
<1>2. PICK g : Sides(g, 2, T)
  BY SidesExist
<1>3. Sides(f, 1, U) /\ Sides(g, 2, U)
  BY <1>1, <1>2, SameSides
<1>4. /\ \A h : Sides(h, 1, T) => h = f
      /\ \A h : Sides(h, 1, U) => h = f
      /\ \A h : Sides(h, 2, T) => h = g
      /\ \A h : Sides(h, 2, U) => h = g
  BY <1>1, <1>2, <1>3, SidesUnique
<1>5. findNodeSiblingLeft(U, x) = f[x] /\ findNodeSiblingLeft(T, x) = f[x]
  BY <1>1, <1>3, <1>4, LeftIs
<1>6. findNodeSiblingRight(U, x) = g[x] /\ findNodeSiblingRight(T, x) = g[x]
  BY <1>2, <1>3, <1>4, RightIs
<1> QED BY <1>5, <1>6

-------------------------------------------------------------------------------
(* A leaf that lacks a value gets one from a neighbour.                      *)

\* U is T with the values N in leaf x, and C the values under its nodes.
RefilledTo(T, B, H, U, C, x, N) ==
  /\ Built(U, C, H) /\ Told(U, C) /\ Refilled(T, U, x, N)
  /\ C[x] = N /\ C[T.root] = (B[T.root] \ B[x]) \cup N
  /\ \A d \in Nodes(T) : H[d] = 0 /\ d # x => C[d] = B[d]
  /\ U.root = T.root /\ Nodes(U) = Nodes(T)
  /\ Size(U.node[x]) = Cardinality(N)
  /\ \A d \in Nodes(T) : d # x => Size(U.node[d]) = Size(T.node[d])
  /\ \A d \in Nodes(T) : d # x /\ Sized(T, d) => Sized(U, d)

\* A leaf is written with other values that fit its place.
LEMMA Refilling ==
  ASSUME NEW T, NEW B, NEW H, Built(T, B, H), Told(T, B), NEW x \in Nodes(T), H[x] = 0,
         NEW N \in SUBSET Keys, N # {}, IsFiniteSet(N), Fit(T, B, x, N),
         NEW U, U = Rewrite(T, x, [T.node[x] EXCEPT !.values = N])
  PROVE  \E C : RefilledTo(T, B, H, U, C, x, N)
<1> DEFINE C == Refill(T, B, x, N)
<1>1. C = Refill(T, B, x, N)
  OBVIOUS
<1>2. B[x] \subseteq B[T.root] /\ B[x] # {} /\ T.root \in Nodes(T)
  BY RootAll, NodeParts, RootParts
<1>3. C[T.root] = (B[T.root] \ B[x]) \cup N
  BY <1>2 DEF Refill
<1>4. \A d \in Nodes(T) : H[d] = 0 /\ d # x => C[d] = B[d]
  <2> SUFFICES ASSUME NEW d \in Nodes(T), H[d] = 0, d # x PROVE C[d] = B[d]
    OBVIOUS
  <2>1. B[x] \cap B[d] = {}
    BY LevelApart
  <2> QED BY <1>2, <2>1 DEF Refill
<1> HIDE DEF C
<1>5. Built(U, C, H) /\ Told(U, C) /\ C[x] = N /\ Refilled(T, U, x, N)
  BY <1>1, RefillTold
<1>6. /\ \A d \in Nodes(T) : d # x => Size(U.node[d]) = Size(T.node[d])
      /\ Size(U.node[x]) = Cardinality(N)
      /\ \A d \in Nodes(T) : d # x /\ Sized(T, d) => Sized(U, d)
  BY <1>5, RefillSizes
<1>7. U.root = T.root /\ Nodes(U) = Nodes(T)
  BY <1>5 DEF Refilled
<1> QED BY <1>3, <1>4, <1>5, <1>6, <1>7 DEF RefilledTo

\* Without one of its values a leaf still fits.
LEMMA FewerFit ==
  ASSUME NEW T, NEW B, NEW H, Built(T, B, H), NEW x \in Nodes(T), NEW N \in SUBSET B[x]
  PROVE  Fit(T, B, x, N)
<1> SUFFICES ASSUME NEW v \in B[T.root] \ B[x], NEW w \in B[x], NEW k \in N
             PROVE  (v < w => v < k) /\ (w < v => k < v)
  BY DEF Fit
<1>1. v \in Nat /\ w \in Nat /\ k \in Nat /\ k # v /\ k \in B[x]
  BY NodeParts, RootParts
<1>2. v < w <=> v < k
  BY <1>1, Convex
<1> QED BY <1>1, <1>2

\* A value that may go from elsewhere to x.
Lendable(T, B, x, m) ==
  \A v \in B[T.root] \ B[x], w \in B[x] : v # m => (v < w => v < m) /\ (w < v => m < v)

\* A value that may go from y to x goes there, and the tree stays as it should be.
LEMMA Lend ==
  ASSUME NEW T, NEW B, NEW H, Built(T, B, H), Told(T, B), NEW x \in Nodes(T), NEW y \in Nodes(T),
         H[x] = 0, H[y] = 0, x # y, NEW m \in B[y], Cardinality(B[y]) >= 2,
         Lendable(T, B, x, m), NEW U, U = moveValue(T, y, x, m)
  PROVE  \E C :
           /\ Built(U, C, H) /\ Told(U, C) /\ C[U.root] = B[T.root]
           /\ U.root = T.root /\ Nodes(U) = Nodes(T)
           /\ Size(U.node[x]) = Size(T.node[x]) + 1 /\ Size(U.node[y]) = Size(T.node[y]) - 1
           /\ \A d \in Nodes(T) : d # x /\ d # y /\ Sized(T, d) => Sized(U, d)
<1> DEFINE N == B[y] \ {m}
           X == Rewrite(T, y, [T.node[y] EXCEPT !.values = N])
           M == B[x] \cup {m}
<1>1. /\ T.node[y].values = B[y] /\ T.node[x].values = B[x]
      /\ B[y] \in SUBSET Keys /\ IsFiniteSet(B[y]) /\ B[y] \in SUBSET Nat
      /\ B[x] \in SUBSET Keys /\ IsFiniteSet(B[x]) /\ B[x] \in SUBSET Nat /\ B[x] # {}
      /\ B[x] \cap B[y] = {} /\ B[y] \subseteq B[T.root] /\ B[x] \subseteq B[T.root]
      /\ Size(T.node[x]) = Cardinality(B[x]) /\ Size(T.node[y]) = Cardinality(B[y])
  <2>1. T.node[y].values = B[y] /\ T.node[x].values = B[x]
    BY LeafParts
  <2>2. B[x] \cap B[y] = {} /\ B[y] \subseteq B[T.root] /\ B[x] \subseteq B[T.root]
    BY LevelApart, RootAll
  <2>3. Size(T.node[x]) = Cardinality(B[x]) /\ Size(T.node[y]) = Cardinality(B[y])
    BY SizeIs
  <2>4. B[y] \in SUBSET Keys /\ B[x] \in SUBSET Keys
    BY DEF Built
  <2> QED BY <2>1, <2>2, <2>3, <2>4, NodeParts
<1>2. /\ N \in SUBSET Keys /\ N \in SUBSET B[y] /\ IsFiniteSet(N)
      /\ Cardinality(N) = Cardinality(B[y]) - 1 /\ N # {}
  <2>1. IsFiniteSet(N) /\ Cardinality(N) = Cardinality(B[y]) - 1
    BY <1>1, FS_RemoveElement
  <2>2. Cardinality(B[y]) \in Nat
    BY <1>1, FS_CardinalityType
  <2>3. Cardinality(N) # 0
    BY <2>1, <2>2
  <2> HIDE DEF N
  <2>4. N # {}
    BY <2>3, FS_EmptySet
  <2> QED BY <1>1, <2>1, <2>4 DEF N
<1>3. X = Rewrite(T, y, [T.node[y] EXCEPT !.values = N]) /\ Fit(T, B, y, N)
  BY <1>2, FewerFit
<1>4. X = removeValuesFromLeaf(T, y, {m})
  BY <1>1 DEF removeValuesFromLeaf
<1> HIDE DEF N, X
<1>5. PICK C : RefilledTo(T, B, H, X, C, y, N)
  BY <1>2, <1>3, Refilling
<1>13. /\ Built(X, C, H) /\ Told(X, C) /\ X.root = T.root /\ Nodes(X) = Nodes(T)
       /\ x \in Nodes(X)
  BY <1>5 DEF RefilledTo
<1>6. C[x] = B[x] /\ x \in Nodes(X) /\ C[X.root] = B[T.root] \ {m} /\ X.node[x].values = B[x]
  <2>1. C[x] = B[x] /\ x \in Nodes(X)
    BY <1>5 DEF RefilledTo
  <2>2. X.node[x].values = C[x]
    BY <1>13, <2>1, LeafParts
  <2>3. C[X.root] = B[T.root] \ {m}
    <3>1. C[X.root] = (B[T.root] \ B[y]) \cup N
      BY <1>5 DEF RefilledTo
    <3> QED BY <1>1, <3>1 DEF N
  <2> QED BY <2>1, <2>2, <2>3
<1>7. /\ M \in SUBSET Keys /\ M # {} /\ IsFiniteSet(M) /\ Cardinality(M) = Cardinality(B[x]) + 1
  <2>1. m \notin B[x] /\ m \in Keys
    BY <1>1
  <2> QED BY <1>1, <2>1, FS_AddElement
<1>8. Fit(X, C, x, M)
  <2> SUFFICES ASSUME NEW v \in C[X.root] \ C[x], NEW w \in C[x], NEW k \in M
               PROVE  (v < w => v < k) /\ (w < v => k < v)
    BY DEF Fit
  <2>1. v \in B[T.root] \ B[x] /\ w \in B[x] /\ v # m
    BY <1>6
  <2>2. CASE k = m
    BY <2>1, <2>2 DEF Lendable
  <2>3. CASE k \in B[x]
    <3>1. v < w <=> v < k
      BY <2>1, <2>3, Convex
    <3>2. v \in Nat /\ w \in Nat /\ k \in Nat /\ k # v
      BY <1>1, <2>1, <2>3, RootParts, NodeParts
    <3> QED BY <3>1, <3>2
  <2> QED BY <2>2, <2>3
<1>9. U = Rewrite(X, x, [X.node[x] EXCEPT !.values = M])
  BY <1>4, <1>6 DEF moveValue, addValuesToLeaf
<1> HIDE DEF M
<1>10. PICK D : RefilledTo(X, C, H, U, D, x, M)
  BY <1>7, <1>8, <1>9, <1>13, Refilling
<1>11. D[U.root] = B[T.root]
  <2>1. D[U.root] = (C[X.root] \ C[x]) \cup M
    BY <1>10 DEF RefilledTo
  <2> QED BY <1>1, <1>6, <2>1 DEF M
<1>12. Size(U.node[x]) = Size(T.node[x]) + 1 /\ Size(U.node[y]) = Size(T.node[y]) - 1
  <2>1. Size(U.node[x]) = Cardinality(M) /\ Size(U.node[y]) = Size(X.node[y])
    BY <1>10, <1>13 DEF RefilledTo
  <2>2. Size(X.node[y]) = Cardinality(N)
    BY <1>5 DEF RefilledTo
  <2> QED BY <1>1, <1>2, <1>7, <2>1, <2>2
<1>14. \A d \in Nodes(T) : d # x /\ d # y /\ Sized(T, d) => Sized(U, d)
  BY <1>5, <1>10, <1>13 DEF RefilledTo
<1>15. Built(U, D, H) /\ Told(U, D) /\ U.root = T.root /\ Nodes(U) = Nodes(T)
  BY <1>10, <1>13 DEF RefilledTo
<1> QED BY <1>11, <1>12, <1>14, <1>15

\* The greatest value of the left neighbour may go to x.
LEMMA LeftLends ==
  ASSUME NEW T, NEW B, NEW H, Built(T, B, H), NEW x \in Nodes(T), NEW y \in Nodes(T),
         Adjacent(T, B, y, x), NEW m, m = Max(B[y])
  PROVE  m \in B[y] /\ Lendable(T, B, x, m)
<1>1. /\ B[y] \in SUBSET Nat /\ IsFiniteSet(B[y]) /\ B[y] # {} /\ B[x] \in SUBSET Nat
      /\ B[T.root] \in SUBSET Nat
  BY NodeParts, RootParts
<1>2. m \in B[y] /\ \A k \in B[y] : k <= m
  BY <1>1, MaxIs
<1>3. ASSUME NEW v \in B[T.root] \ B[x], NEW w \in B[x], v # m
      PROVE  (v < w => v < m) /\ (w < v => m < v)
  <2>1. v \in Nat /\ w \in Nat /\ m \in Nat /\ m < w
    BY <1>1, <1>2 DEF Adjacent
  <2>2. CASE v \in B[y]
    <3>1. v <= m
      BY <1>2, <2>2
    <3> QED BY <1>3, <2>1, <3>1
  <2>3. CASE v \notin B[y]
    <3>1. ~(m < v /\ v < w)
      BY <1>2, <1>3, <2>3 DEF Adjacent
    <3> QED BY <1>3, <2>1, <3>1
  <2> QED BY <2>2, <2>3
<1> QED BY <1>2, <1>3 DEF Lendable

\* The least value of the right neighbour may go to x.
LEMMA RightLends ==
  ASSUME NEW T, NEW B, NEW H, Built(T, B, H), NEW x \in Nodes(T), NEW y \in Nodes(T),
         Adjacent(T, B, x, y), NEW m, m = Min(B[y])
  PROVE  m \in B[y] /\ Lendable(T, B, x, m)
<1>1. /\ B[y] \in SUBSET Nat /\ IsFiniteSet(B[y]) /\ B[y] # {} /\ B[x] \in SUBSET Nat
      /\ B[T.root] \in SUBSET Nat
  BY NodeParts, RootParts
<1>2. m \in B[y] /\ \A k \in B[y] : m <= k
  BY <1>1, MinIs
<1>3. ASSUME NEW v \in B[T.root] \ B[x], NEW w \in B[x], v # m
      PROVE  (v < w => v < m) /\ (w < v => m < v)
  <2>1. v \in Nat /\ w \in Nat /\ m \in Nat /\ w < m
    BY <1>1, <1>2 DEF Adjacent
  <2>2. CASE v \in B[y]
    <3>1. m <= v
      BY <1>2, <2>2
    <3> QED BY <1>3, <2>1, <3>1
  <2>3. CASE v \notin B[y]
    <3>1. ~(w < v /\ v < m)
      BY <1>2, <1>3, <2>3 DEF Adjacent
    <3> QED BY <1>3, <2>1, <3>1
  <2> QED BY <2>2, <2>3
<1> QED BY <1>2, <1>3 DEF Lendable

-------------------------------------------------------------------------------
(* A leaf under the root is merged into a neighbour; the root may collapse.  *)

\* A sequence without one of its entries.
LEMMA Removal ==
  ASSUME NEW s \in Seq(Child), NEW k \in DOMAIN s, NEW t, t = RemoveAt(s, k)
  PROVE  /\ t \in Seq(Child) /\ Len(t) = Len(s) - 1 /\ DOMAIN t = 1..Len(s) - 1
         /\ \A i \in 1..Len(s) - 1 : t[i] = IF i < k THEN s[i] ELSE s[i + 1]
<1> DEFINE n == Len(s)
           a == SubSeq(s, 1, k - 1)
           b == SubSeq(s, k + 1, n)
<1>1. n \in Nat /\ DOMAIN s = 1..n /\ k \in Nat /\ 1 <= k /\ k <= n /\ \A i \in 1..n : s[i] \in Child
  OBVIOUS
<1>2. a \in Seq(Child) /\ Len(a) = k - 1 /\ \A i \in 1..k - 1 : a[i] = s[i]
  <2>1. 1 \in Int /\ k - 1 \in Int /\ \A i \in 1..k - 1 : s[i] \in Child
    BY <1>1
  <2>2. /\ a \in Seq(Child) /\ Len(a) = IF 1 <= k - 1 THEN k - 1 - 1 + 1 ELSE 0
        /\ \A i \in 1..k - 1 - 1 + 1 : a[i] = s[1 + i - 1]
    BY <2>1, SubSeqProperties
  <2> HIDE DEF a
  <2>3. k - 1 - 1 + 1 = k - 1 /\ \A i \in 1..k - 1 : 1 + i - 1 = i
    BY <1>1
  <2> QED BY <1>1, <2>2, <2>3
<1>3. b \in Seq(Child) /\ Len(b) = n - k /\ \A i \in 1..n - k : b[i] = s[k + i]
  <2>1. k + 1 \in Int /\ n \in Int /\ \A i \in k + 1..n : s[i] \in Child
    BY <1>1
  <2> HIDE DEF n
  <2>2. /\ b \in Seq(Child) /\ Len(b) = IF k + 1 <= n THEN n - (k + 1) + 1 ELSE 0
        /\ \A i \in 1..n - (k + 1) + 1 : b[i] = s[k + 1 + i - 1]
    BY <2>1, SubSeqProperties
  <2> HIDE DEF b
  <2>3. n - (k + 1) + 1 = n - k /\ \A i \in 1..n - k : k + 1 + i - 1 = k + i
    BY <1>1
  <2>4. Len(b) = n - k
    BY <1>1, <2>2, <2>3
  <2>5. \A i \in 1..n - k : b[i] = s[k + i]
    BY <2>2, <2>3
  <2> QED BY <2>2, <2>4, <2>5
<1>4. t = a \o b
  BY DEF RemoveAt
<1> HIDE DEF a, b, n
<1>5. t \in Seq(Child) /\ Len(t) = n - 1
  <2>1. a \o b \in Seq(Child) /\ Len(a \o b) = Len(a) + Len(b)
    BY <1>2, <1>3, ConcatProperties
  <2> QED BY <1>1, <1>2, <1>3, <1>4, <2>1
<1>6. \A i \in 1..n - 1 : t[i] = IF i <= k - 1 THEN a[i] ELSE b[i - (k - 1)]
  <2>1. \A i \in 1..Len(a) + Len(b) : (a \o b)[i] = IF i <= Len(a) THEN a[i] ELSE b[i - Len(a)]
    BY <1>2, <1>3, ConcatProperties
  <2>2. Len(a) + Len(b) = n - 1
    BY <1>1, <1>2, <1>3
  <2> QED BY <1>2, <1>4, <2>1, <2>2
<1>7. ASSUME NEW i \in 1..n - 1, i < k PROVE t[i] = s[i]
  <2>1. i <= k - 1 /\ i \in 1..k - 1
    BY <1>1, <1>7
  <2> QED BY <1>2, <1>6, <2>1
<1>8. ASSUME NEW i \in 1..n - 1, ~(i < k) PROVE t[i] = s[i + 1]
  <2>1. ~(i <= k - 1) /\ i - (k - 1) \in 1..n - k /\ k + (i - (k - 1)) = i + 1
    BY <1>1, <1>8
  <2>2. t[i] = b[i - (k - 1)]
    BY <1>6, <2>1
  <2> QED BY <1>3, <2>1, <2>2
<1>9. DOMAIN t = 1..n - 1
  BY <1>5
<1> QED BY <1>5, <1>7, <1>8, <1>9 DEF n

\* Clearing a node other than the root.
LEMMA ClearNode ==
  ASSUME NEW T, WellTyped(T), NEW x, x # T.root, NEW U, U = clearNode(T, x)
  PROVE  /\ WellTyped(U) /\ U.root = T.root /\ Nodes(U) = Nodes(T) \ {x}
         /\ \A d \in Nodes(U) : U.node[d] = T.node[d]
<1> DEFINE f == [d \in DOMAIN T.node \ {x} |-> T.node[d]]
<1>1. U = [root |-> T.root, node |-> f, thrown |-> FALSE]
  <2>1. T = [root |-> T.root, node |-> T.node, thrown |-> FALSE]
    BY DEF WellTyped
  <2>2. U = [T EXCEPT !.node = f]
    BY DEF clearNode, Restrict
  <2> HIDE DEF f
  <2>3. [[root |-> T.root, node |-> T.node, thrown |-> FALSE] EXCEPT !.node = f]
          = [root |-> T.root, node |-> f, thrown |-> FALSE]
    BY NodeExcept
  <2> QED BY <2>1, <2>2, <2>3
<1>2. f = [d \in Nodes(T) \ {x} |-> T.node[d]]
  BY DEF Nodes
<1> HIDE DEF f
<1>3. /\ U.root = T.root /\ U.node = f
      /\ U = [root |-> U.root, node |-> U.node, thrown |-> FALSE]
  BY <1>1
<1>4. /\ Nodes(U) = Nodes(T) \ {x} /\ \A d \in Nodes(U) : U.node[d] = T.node[d]
  BY <1>2, <1>3 DEF Nodes
<1>5. U.node = [d \in Nodes(U) |-> U.node[d]]
  BY <1>2, <1>3, <1>4
<1>6. /\ IsFiniteSet(Nodes(T)) /\ Nodes(T) \subseteq Nat \ {0} /\ T.root \in Nodes(T)
      /\ \A d \in Nodes(T) : T.node[d] \in Node
  BY DEF WellTyped
<1>7. IsFiniteSet(Nodes(U))
  <2>1. Nodes(U) \subseteq Nodes(T)
    BY <1>4
  <2> QED BY <1>6, <2>1, FS_Subset
<1> QED BY <1>3, <1>4, <1>5, <1>6, <1>7 DEF WellTyped

\* U is T without the leaf x, a child of the root.
Without(T, U, x) ==
  LET k == IndexOf(T, x)
      n == Len(Children(T, T.root))
  IN  /\ WellTyped(U) /\ U.root = T.root /\ Nodes(U) = Nodes(T) \ {x}
      /\ U.node[T.root].values = T.node[T.root].values
      /\ \A d \in Nodes(T) \ {x} : Parent(U, d) = Parent(T, d)
      /\ Len(Children(U, T.root)) = n - 1 /\ DOMAIN Children(U, T.root) = 1..n - 1
      /\ \A i \in 1..n - 1 : Children(U, T.root)[i] =
                               IF i < k THEN Children(T, T.root)[i] ELSE Children(T, T.root)[i + 1]
      /\ \A d \in Nodes(T) \ {x, T.root} :
           U.node[d].values = T.node[d].values /\ Children(U, d) = Children(T, d)

\* deleteNode on a leaf of the root.
LEMMA DeletedIs ==
  ASSUME NEW T, NEW B, NEW H, Built(T, B, H), NEW x \in Nodes(T), x # T.root,
         Parent(T, x) = T.root, NEW U, U = deleteNode(T, x)
  PROVE  Without(T, U, x)
<1> DEFINE p == T.root
           k == IndexOf(T, x)
           s == Children(T, p)
           t == RemoveAt(s, k)
           q == [T.node[p] EXCEPT !.children = t]
           W == clearNode(T, x)
<1>1. /\ p \in Nodes(T) /\ p # 0 /\ Parent(T, p) = 0 /\ WellTyped(T) /\ T.node[p] \in Node
      /\ s \in Seq(Child) /\ p \in Nat \ {0} /\ T.node[p].children = s /\ T.node[p].parent = 0
      /\ T.node[x].parent = p
  <2>1. p \in Nodes(T) /\ Parent(T, p) = 0 /\ WellTyped(T)
    BY RootParts DEF Built
  <2> QED BY <2>1, NodeParts DEF Parent, Children
<1>2. k \in DOMAIN s
  BY IndexIs
<1>3. U = writeNode(W, p, q)
  <2>1. q = [T.node[p] EXCEPT !.children = RemoveAt(@, k)]
    BY <1>1
  <2>2. q.parent = 0
    BY <1>1 DEF Node
  <2> HIDE DEF q, k, s, t, W
  <2> QED BY <1>1, <2>1, <2>2 DEF deleteNode, k, W
<1>4. /\ t \in Seq(Child) /\ Len(t) = Len(s) - 1 /\ DOMAIN t = 1..Len(s) - 1
      /\ \A i \in 1..Len(s) - 1 : t[i] = IF i < k THEN s[i] ELSE s[i + 1]
  <2>1. t = RemoveAt(s, k)
    OBVIOUS
  <2> HIDE DEF t, s, k
  <2> QED BY <1>1, <1>2, <2>1, Removal
<1> HIDE DEF t
<1>5. q \in Node /\ q.children = t /\ q.values = T.node[p].values /\ q.parent = 0
  BY <1>1, <1>4 DEF Node
<1> HIDE DEF q
<1>6. /\ WellTyped(W) /\ W.root = T.root /\ Nodes(W) = Nodes(T) \ {x}
      /\ \A d \in Nodes(W) : W.node[d] = T.node[d]
  <2>1. W = clearNode(T, x)
    OBVIOUS
  <2> HIDE DEF W
  <2> QED BY <1>1, <2>1, ClearNode
<1> HIDE DEF W
<1>7. /\ WellTyped(U) /\ U.root = W.root /\ Nodes(U) = Nodes(W) \cup {p}
      /\ \A d \in Nodes(U) : U.node[d] = IF d = p THEN q ELSE W.node[d]
  <2>1. p \in Nat \ {0}
    BY <1>1
  <2> HIDE DEF p
  <2> QED BY ONLY <1>3, <1>5, <1>6, <2>1, WriteNode
<1>8. Nodes(U) = Nodes(T) \ {x} /\ U.node[p] = q
      /\ \A d \in Nodes(T) \ {x, p} : U.node[d] = T.node[d]
  BY <1>1, <1>6, <1>7
<1>9. Children(U, p) = t /\ Parent(U, p) = 0 /\ U.node[p].values = T.node[p].values
  BY <1>5, <1>8 DEF Children, Parent
<1>10. \A d \in Nodes(T) \ {x} : Parent(U, d) = Parent(T, d)
  BY <1>1, <1>8, <1>9 DEF Parent
<1>11. \A d \in Nodes(T) \ {x, p} :
         U.node[d].values = T.node[d].values /\ Children(U, d) = Children(T, d)
  BY <1>8 DEF Children
<1> QED BY <1>4, <1>6, <1>7, <1>8, <1>9, <1>10, <1>11 DEF Without

\* A tree without one of the root's leaves.
LEMMA WithoutBuilt ==
  ASSUME NEW T, NEW B, NEW H, Built(T, B, H), Told(T, B), NEW x \in Nodes(T), x # T.root,
         Parent(T, x) = T.root, H[x] = 0, Len(Children(T, T.root)) >= 2,
         NEW U, Without(T, U, x),
         NEW C, C = [d \in Nodes(U) |-> IF d = T.root THEN B[d] \ B[x] ELSE B[d]],
         NEW G, G = [d \in Nodes(U) |-> H[d]]
  PROVE  Built(U, C, G) /\ Told(U, C)
<1> DEFINE p == T.root
           k == IndexOf(T, x)
           n == Len(Children(T, p))
           c(i) == ChildId(T, p, i)
           e(i) == ChildId(U, p, i)
           at(i) == IF i < k THEN i ELSE i + 1
<1>1. /\ WellTyped(U) /\ U.root = p /\ Nodes(U) = Nodes(T) \ {x}
      /\ U.node[p].values = T.node[p].values
      /\ \A d \in Nodes(T) \ {x} : Parent(U, d) = Parent(T, d)
      /\ Len(Children(U, p)) = n - 1 /\ DOMAIN Children(U, p) = 1..n - 1
      /\ \A i \in 1..n - 1 : Children(U, p)[i] = Children(T, p)[at(i)]
      /\ \A d \in Nodes(T) \ {x, p} :
           U.node[d].values = T.node[d].values /\ Children(U, d) = Children(T, d)
  BY DEF Without
<1>2. /\ p \in Nodes(T) /\ Parent(T, p) = 0 /\ n \in Nat /\ DOMAIN Children(T, p) = 1..n
      /\ k \in 1..n /\ k \in Nat /\ c(k) = x /\ H[p] \in Nat /\ H[p] = H[x] + 1
      /\ \A i \in 1..n : c(i) = x => i = k
  <2>1. p \in Nodes(T) /\ Parent(T, p) = 0
    BY RootParts
  <2>2. n \in Nat /\ DOMAIN Children(T, p) = 1..n /\ H[p] \in Nat
    BY <2>1, NodeParts
  <2>3. H[p] = H[x] + 1
    BY ParentParts
  <2> QED BY <2>1, <2>2, <2>3, IndexIs
<1>3. \A i \in 1..n : /\ c(i) \in Nodes(T) /\ Parent(T, c(i)) = p /\ H[c(i)] + 1 = H[p]
                      /\ B[c(i)] \subseteq B[p] /\ c(i) # p
  BY <1>2, ChildParts
<1>4. \A i, j \in 1..n : /\ i < j => \A a \in B[c(i)], b \in B[c(j)] : a < b
                         /\ i # j => B[c(i)] \cap B[c(j)] = {}
  BY <1>2, ChildrenApart
<1>5. \A v : v \in B[p] <=> \E i \in 1..n : v \in B[c(i)]
  BY <1>2, InnerUnion
<1>6. \A i \in 1..n - 1 : at(i) \in 1..n /\ at(i) # k
  BY <1>2
<1>7. \A i, j \in 1..n - 1 : i < j => at(i) < at(j)
  BY <1>2
<1>8. \A j \in 1..n : j # k => \E i \in 1..n - 1 : at(i) = j
  <2> SUFFICES ASSUME NEW j \in 1..n, j # k PROVE \E i \in 1..n - 1 : at(i) = j
    OBVIOUS
  <2>1. CASE j < k
    BY <1>2, <2>1
  <2>2. CASE ~(j < k)
    <3>1. j - 1 \in 1..n - 1 /\ at(j - 1) = j
      BY <1>2, <2>2
    <3> QED BY <3>1
  <2> QED BY <2>1, <2>2
<1>9. \A i \in 1..n - 1 : e(i) = c(at(i)) /\ c(at(i)) # x
  BY <1>1, <1>2, <1>6 DEF ChildId, Children
<1> HIDE DEF at, c, e
<1>10. \A d \in Nodes(T) \ {x, p} : C[d] = B[d]
  BY <1>1
<1>11. C[p] = B[p] \ B[x] /\ \A d \in Nodes(U) : G[d] = H[d]
  BY <1>1, <1>2
<1>12. \A d \in Nodes(T) : /\ B[d] \in SUBSET Keys /\ B[d] # {} /\ IsFiniteSet(B[d])
                           /\ H[d] \in Nat /\ H[d] <= H[p]
  BY DEF Built
<1>13. \A i \in 1..n - 1 : C[e(i)] = B[c(at(i))] /\ e(i) \in Nodes(U) /\ G[e(i)] = H[c(at(i))]
  BY <1>1, <1>3, <1>6, <1>9, <1>10, <1>11
<1>14. \A v : v \in C[p] <=> \E i \in 1..n - 1 : v \in C[e(i)]
  <2>1. ASSUME NEW v \in C[p] PROVE \E i \in 1..n - 1 : v \in C[e(i)]
    <3>1. PICK j \in 1..n : v \in B[c(j)]
      BY <1>5, <1>11
    <3>2. j # k
      BY <1>2, <1>11, <3>1
    <3>3. PICK i \in 1..n - 1 : at(i) = j
      BY <1>8, <3>2
    <3> QED BY <1>13, <3>1, <3>3
  <2>2. ASSUME NEW v, NEW i \in 1..n - 1, v \in C[e(i)] PROVE v \in C[p]
    <3>1. v \in B[c(at(i))]
      BY <1>13, <2>2
    <3>2. v \in B[p] /\ v \notin B[x]
      BY <1>2, <1>3, <1>4, <1>6, <3>1
    <3> QED BY <1>11, <3>2
  <2> QED BY <2>1, <2>2
<1>15. C[p] # {} /\ C[p] \in SUBSET Keys /\ IsFiniteSet(C[p])
  <2>1. 1 \in 1..n - 1
    BY <1>2
  <2>2. C[e(1)] # {}
    <3>1. C[e(1)] = B[c(at(1))] /\ c(at(1)) \in Nodes(T)
      BY <1>3, <1>6, <1>13, <2>1
    <3> QED BY <1>12, <3>1
  <2>3. C[p] # {}
    BY <1>14, <2>1, <2>2
  <2>4. IsFiniteSet(B[p] \ B[x])
    BY <1>2, <1>12, FS_Difference
  <2> QED BY <1>2, <1>11, <1>12, <2>3, <2>4
<1>16. C \in [Nodes(U) -> SUBSET Keys] /\ G \in [Nodes(U) -> Nat]
  <2>1. \A d \in Nodes(U) : C[d] \in SUBSET Keys /\ G[d] \in Nat
    BY <1>1, <1>10, <1>11, <1>12, <1>15
  <2> QED BY <2>1
<1>17. \A d \in Nodes(U) : C[d] # {} /\ IsFiniteSet(C[d]) /\ G[d] <= G[U.root]
  <2>1. p \in Nodes(U)
    BY <1>1, <1>2
  <2> QED BY <1>1, <1>10, <1>11, <1>12, <1>15, <2>1
<1>18. IsInnerOf(U, C, G, p)
  <2>a. n >= 2
    OBVIOUS
  <2>b. /\ \A i \in 1..n - 1 : at(i) \in 1..n /\ e(i) = c(at(i))
        /\ DOMAIN Children(U, p) = 1..n - 1 /\ Len(Children(U, p)) = n - 1
        /\ U.node[p].values = T.node[p].values /\ n \in Nat
    BY <1>1, <1>2, <1>6, <1>9
  <2>1. U.node[p].values = {}
    <3>1. T.node[p].values = {}
      BY <1>2, LeafParts
    <3> QED BY <2>b, <3>1
  <2> HIDE DEF n, k
  <2>2. Children(U, p) # <<>>
    <3>1. Len(Children(U, p)) # 0
      BY <2>a, <2>b
    <3>2. Len(<<>>) = 0
      OBVIOUS
    <3> QED BY <3>1, <3>2
  <2>3. \A i \in 1..n - 1 :
          e(i) \in Nodes(U) /\ Parent(U, e(i)) = p /\ G[e(i)] + 1 = G[p]
    <3> SUFFICES ASSUME NEW i \in 1..n - 1
                 PROVE  e(i) \in Nodes(U) /\ Parent(U, e(i)) = p /\ G[e(i)] + 1 = G[p]
      OBVIOUS
    <3>1. e(i) \in Nodes(U) /\ G[e(i)] = H[c(at(i))] /\ at(i) \in 1..n /\ e(i) = c(at(i))
      BY <1>13, <2>b
    <3>2. Parent(T, c(at(i))) = p /\ H[c(at(i))] + 1 = H[p]
      BY <1>3, <3>1
    <3>3. G[p] = H[p] /\ Parent(U, e(i)) = Parent(T, e(i))
      BY <1>1, <1>2, <1>11, <3>1
    <3> QED BY <3>1, <3>2, <3>3
  <2>4. \A i, j \in 1..n - 1 : i < j => \A a \in C[e(i)], b \in C[e(j)] : a < b
    <3> SUFFICES ASSUME NEW i \in 1..n - 1, NEW j \in 1..n - 1, i < j
                 PROVE  \A a \in C[e(i)], b \in C[e(j)] : a < b
      OBVIOUS
    <3>1. at(i) \in 1..n /\ at(j) \in 1..n /\ at(i) < at(j)
      BY <1>7, <2>b
    <3>2. C[e(i)] = B[c(at(i))] /\ C[e(j)] = B[c(at(j))]
      BY <1>13
    <3> QED BY <1>4, <3>1, <3>2
  <2>5. C[p] = UNION {C[e(i)] : i \in 1..n - 1}
    <3> DEFINE D == 1..n - 1
    <3>1. \A v : v \in C[p] <=> \E i \in D : v \in C[e(i)]
      BY <1>14
    <3> HIDE DEF D
    <3>2. C[p] = UNION {C[e(i)] : i \in D}
      BY <3>1
    <3> QED BY <3>2 DEF D
  <2> QED BY <2>b, <2>1, <2>2, <2>3, <2>4, <2>5 DEF IsInnerOf, e
<1>19. \A d \in Nodes(T) \ {x, p} : \A i \in DOMAIN Children(T, d) :
         /\ ChildId(U, d, i) = ChildId(T, d, i)
         /\ ChildId(T, d, i) \in Nodes(T) \ {x, p}
  <2> SUFFICES ASSUME NEW d \in Nodes(T) \ {x, p}, NEW i \in DOMAIN Children(T, d)
               PROVE  /\ ChildId(U, d, i) = ChildId(T, d, i)
                      /\ ChildId(T, d, i) \in Nodes(T) \ {x, p}
    OBVIOUS
  <2>1. /\ ChildId(T, d, i) \in Nodes(T) /\ ChildId(T, d, i) # p
        /\ Parent(T, ChildId(T, d, i)) = d
    BY ChildParts
  <2>2. ChildId(T, d, i) # x
    BY <2>1
  <2> QED BY <1>1, <2>1, <2>2 DEF ChildId, Children
<1>20. ASSUME NEW d \in Nodes(T) \ {x, p}
       PROVE  IF G[d] = 0 THEN IsLeafOf(U, C, d) ELSE IsInnerOf(U, C, G, d)
  <2>1. IF H[d] = 0 THEN IsLeafOf(T, B, d) ELSE IsInnerOf(T, B, H, d)
    BY DEF Built
  <2>2. G[d] = H[d] /\ C[d] = B[d] /\ Children(U, d) = Children(T, d)
        /\ U.node[d].values = T.node[d].values
    BY <1>1, <1>10, <1>11
  <2>3. CASE H[d] = 0
    BY <2>1, <2>2, <2>3 DEF IsLeafOf
  <2>4. CASE H[d] # 0
    <3>1. IsInnerOf(T, B, H, d)
      BY <2>1, <2>4
    <3>2. \A i \in DOMAIN Children(U, d) :
            /\ ChildId(U, d, i) = ChildId(T, d, i) /\ ChildId(T, d, i) \in Nodes(T) \ {x, p}
            /\ i \in DOMAIN Children(T, d)
            /\ C[ChildId(U, d, i)] = B[ChildId(T, d, i)] /\ G[ChildId(U, d, i)] = H[ChildId(T, d, i)]
            /\ ChildId(U, d, i) \in Nodes(U)
      BY <1>1, <1>10, <1>11, <1>19, <2>2
    <3>3. U.node[d].values = {} /\ Children(U, d) # <<>>
      BY <2>2, <3>1 DEF IsInnerOf
    <3>4. \A i \in DOMAIN Children(T, d) :
             /\ Parent(T, ChildId(T, d, i)) = d /\ H[ChildId(T, d, i)] + 1 = H[d]
      BY <3>1 DEF IsInnerOf
    <3>5. \A i \in DOMAIN Children(U, d) :
             /\ ChildId(U, d, i) \in Nodes(U) /\ Parent(U, ChildId(U, d, i)) = d
             /\ G[ChildId(U, d, i)] + 1 = G[d]
      BY <1>1, <2>2, <3>2, <3>4
    <3>6. \A i, j \in DOMAIN Children(T, d) : i < j =>
             \A a \in B[ChildId(T, d, i)], b \in B[ChildId(T, d, j)] : a < b
      BY <3>1 DEF IsInnerOf
    <3>7. \A i, j \in DOMAIN Children(U, d) : i < j =>
             \A a \in C[ChildId(U, d, i)], b \in C[ChildId(U, d, j)] : a < b
      BY <3>2, <3>6
    <3>8. C[d] = UNION {C[ChildId(U, d, i)] : i \in DOMAIN Children(U, d)}
      <4>1. \A v : v \in B[d] <=> \E i \in DOMAIN Children(T, d) : v \in B[ChildId(T, d, i)]
        BY <2>4, InnerUnion
      <4>2. \A v : v \in C[d] <=> \E i \in DOMAIN Children(U, d) : v \in C[ChildId(U, d, i)]
        BY <2>2, <3>2, <4>1
      <4> QED BY <4>2
    <3>9. IsInnerOf(U, C, G, d)
      BY <3>3, <3>5, <3>7, <3>8 DEF IsInnerOf
    <3> QED BY <2>2, <2>4, <3>9
  <2> QED BY <2>3, <2>4
<1>21. ASSUME NEW d \in Nodes(U) \ {p}
       PROVE  /\ Parent(U, d) \in Nodes(U)
              /\ \E i \in DOMAIN Children(U, Parent(U, d)) : ChildId(U, Parent(U, d), i) = d
  <2> DEFINE q == Parent(T, d)
  <2>1. /\ d \in Nodes(T) /\ d # x /\ d # p /\ q \in Nodes(T) /\ Parent(U, d) = q
        /\ H[q] = H[d] + 1 /\ H[d] \in Nat
    BY <1>1, ParentParts, NodeParts
  <2>2. PICK j \in DOMAIN Children(T, q) : ChildId(T, q, j) = d
    BY <2>1, ParentParts
  <2>3. q # x
    BY <2>1
  <2>4. CASE q = p
    <3>1. j # k /\ j \in 1..n /\ c(j) = d
      BY <1>2, <2>1, <2>2, <2>4 DEF c
    <3>2. PICK i \in 1..n - 1 : at(i) = j
      BY <1>8, <3>1
    <3>3. e(i) = d /\ i \in DOMAIN Children(U, p)
      BY <1>1, <1>9, <3>1, <3>2
    <3> QED BY <1>1, <1>2, <2>1, <2>4, <3>3 DEF e
  <2>5. CASE q # p
    <3>1. q \in Nodes(T) \ {x, p} /\ q \in Nodes(U)
      BY <1>1, <2>1, <2>3, <2>5
    <3>2. j \in DOMAIN Children(U, q) /\ ChildId(U, q, j) = d
      BY <1>1, <1>19, <2>2, <3>1
    <3> QED BY <2>1, <3>1, <3>2
  <2> QED BY <2>4, <2>5
<1>22. Built(U, C, G)
  <2>1. \A d \in Nodes(U) : IF G[d] = 0 THEN IsLeafOf(U, C, d) ELSE IsInnerOf(U, C, G, d)
    <3>1. G[p] # 0
      BY <1>1, <1>2, <1>11
    <3> QED BY <1>1, <1>18, <1>20, <3>1
  <2>2. Parent(U, U.root) = 0
    BY <1>1, <1>2
  <2> QED BY <1>1, <1>16, <1>17, <1>21, <2>1, <2>2 DEF Built
<1>23. Told(U, C)
  <2> SUFFICES ASSUME NEW d \in Nodes(U), NEW i \in DOMAIN Children(U, d)
               PROVE  Children(U, d)[i] = TrueEntry(C, ChildId(U, d, i))
    BY DEF Told
  <2>1. CASE d = p
    <3>1. Children(U, p)[i] = Children(T, p)[at(i)] /\ at(i) \in 1..n
      BY <1>1, <1>6, <2>1
    <3>2. Children(T, p)[at(i)] = TrueEntry(B, c(at(i)))
      BY <1>2, <3>1 DEF Told, c
    <3>3. e(i) = c(at(i)) /\ C[e(i)] = B[c(at(i))]
      BY <1>1, <1>9, <1>13, <2>1
    <3> QED BY <2>1, <3>1, <3>2, <3>3 DEF TrueEntry, e
  <2>2. CASE d # p
    <3>1. d \in Nodes(T) \ {x, p} /\ Children(U, d) = Children(T, d)
      BY <1>1, <2>2
    <3>2. Children(T, d)[i] = TrueEntry(B, ChildId(T, d, i))
      BY <3>1 DEF Told
    <3>3. ChildId(U, d, i) = ChildId(T, d, i) /\ C[ChildId(T, d, i)] = B[ChildId(T, d, i)]
      BY <1>10, <1>19, <3>1
    <3> QED BY <3>1, <3>2, <3>3 DEF TrueEntry
  <2> QED BY <2>1, <2>2
<1> QED BY <1>22, <1>23

\* The values of a leaf fit where its neighbour is.
LEMMA MergeFit ==
  ASSUME NEW T, NEW B, NEW H, Built(T, B, H), NEW x \in Nodes(T), NEW y \in Nodes(T),
         Adjacent(T, B, y, x) \/ Adjacent(T, B, x, y),
         NEW v \in B[T.root], v \notin B[x], v \notin B[y], NEW w \in B[y],
         NEW k \in B[x] \cup B[y]
  PROVE  (v < w => v < k) /\ (w < v => k < v)
<1>1. v \in Nat /\ w \in Nat /\ k \in Nat /\ v # w /\ v # k
  BY RootParts, NodeParts
<1>2. CASE k \in B[y]
  <2>1. v < w <=> v < k
    BY <1>2, Convex
  <2> QED BY <1>1, <2>1
<1>3. CASE k \in B[x] /\ Adjacent(T, B, y, x)
  <2>1. w < k /\ ~(w < v /\ v < k)
    BY <1>3 DEF Adjacent
  <2> QED BY <1>1, <2>1
<1>4. CASE k \in B[x] /\ Adjacent(T, B, x, y)
  <2>1. k < w /\ ~(k < v /\ v < w)
    BY <1>4 DEF Adjacent
  <2> QED BY <1>1, <2>1
<1> QED BY <1>2, <1>3, <1>4

\* The leaf x of the root is taken out of T and its values put into its neighbour y.
JoinedTo(T, B, U, C, G) ==
  /\ Built(U, C, G) /\ Told(U, C) /\ C[U.root] = B[T.root] /\ U.root = T.root
  /\ Len(Children(U, U.root)) = Len(Children(T, T.root)) - 1
  /\ \A d \in Nodes(U) : d # U.root => Sized(U, d)
  /\ U.node[U.root].values = {}

\* A leaf of the root goes, and its values go to the neighbour.
LEMMA Join ==
  ASSUME NEW T, NEW B, NEW H, Built(T, B, H), Told(T, B), NEW x \in Nodes(T), x # T.root,
         Parent(T, x) = T.root, H[x] = 0, Len(Children(T, T.root)) >= 2,
         NEW y \in Nodes(T), H[y] = 0, y # x, Adjacent(T, B, y, x) \/ Adjacent(T, B, x, y),
         SizedBut(T, x), Size(T.node[y]) + Size(T.node[x]) <= maxChildren,
         NEW D, D = deleteNode(T, x), NEW U, U = addValuesToLeaf(D, y, T.node[x].values)
  PROVE  \E C, G : JoinedTo(T, B, U, C, G)
<1> DEFINE p == T.root
           N == B[y] \cup B[x]
           C == [d \in Nodes(D) |-> IF d = p THEN B[d] \ B[x] ELSE B[d]]
           G == [d \in Nodes(D) |-> H[d]]
<1>1. Without(T, D, x)
  BY DeletedIs
<1>2. Built(D, C, G) /\ Told(D, C)
  BY <1>1, WithoutBuilt
<1>3. /\ D.root = p /\ Nodes(D) = Nodes(T) \ {x} /\ p \in Nodes(T)
      /\ Len(Children(D, p)) = Len(Children(T, p)) - 1
      /\ D.node[p].values = T.node[p].values
      /\ \A d \in Nodes(T) \ {x, p} :
           D.node[d].values = T.node[d].values /\ Children(D, d) = Children(T, d)
  BY <1>1, RootParts DEF Without
<1>4. H[p] = 1 /\ y # p /\ y \in Nodes(D) /\ G[y] = 0
  <2>1. H[p] = H[x] + 1
    BY ParentParts
  <2> QED BY <1>3, <2>1
<1>5. /\ T.node[y].values = B[y] /\ T.node[x].values = B[x] /\ T.node[p].values = {}
      /\ Size(T.node[y]) = Cardinality(B[y]) /\ Size(T.node[x]) = Cardinality(B[x])
  <2>1. T.node[y].values = B[y] /\ Size(T.node[y]) = Cardinality(B[y])
    BY LeafParts, SizeIs
  <2>2. T.node[x].values = B[x] /\ Size(T.node[x]) = Cardinality(B[x])
    BY LeafParts, SizeIs
  <2>3. T.node[p].values = {}
    BY <1>3, <1>4, LeafParts
  <2> QED BY <2>1, <2>2, <2>3
<1>6. C[y] = B[y] /\ C[p] = B[p] \ B[x]
  BY <1>3, <1>4
<1>7. N \in SUBSET Keys /\ N # {} /\ IsFiniteSet(N) /\ Cardinality(N) \in Nat
      /\ Cardinality(B[y]) <= Cardinality(N)
      /\ Cardinality(N) <= Cardinality(B[y]) + Cardinality(B[x])
  <2>1. /\ B[y] \in SUBSET Keys /\ B[y] # {} /\ IsFiniteSet(B[y])
        /\ B[x] \in SUBSET Keys /\ IsFiniteSet(B[x])
    BY DEF Built
  <2>2. /\ IsFiniteSet(N)
        /\ Cardinality(N) = Cardinality(B[y]) + Cardinality(B[x]) - Cardinality(B[y] \cap B[x])
    BY <2>1, FS_Union
  <2>3. IsFiniteSet(B[y] \cap B[x])
    BY <2>1, FS_Subset
  <2>4. Cardinality(B[y] \cap B[x]) \in Nat
    BY <2>3, FS_CardinalityType
  <2>5. Cardinality(B[y]) <= Cardinality(N)
    BY <2>2, FS_Subset
  <2>6. Cardinality(N) \in Nat /\ Cardinality(B[y]) \in Nat /\ Cardinality(B[x]) \in Nat
    BY <2>1, <2>2, FS_CardinalityType
  <2> QED BY <2>1, <2>2, <2>4, <2>5, <2>6
<1>8. Fit(D, C, y, N)
  <2> SUFFICES ASSUME NEW v \in C[p] \ C[y], NEW w \in C[y], NEW k \in N
               PROVE  (v < w => v < k) /\ (w < v => k < v)
    BY <1>3 DEF Fit
  <2>1. v \in B[p] /\ v \notin B[x] /\ v \notin B[y] /\ w \in B[y] /\ k \in B[x] \cup B[y]
    BY <1>6
  <2> QED BY <2>1, MergeFit
<1>9. U = Rewrite(D, y, [D.node[y] EXCEPT !.values = N])
  <2>1. D.node[y].values = B[y]
    BY <1>3, <1>4, <1>5
  <2> QED BY <1>5, <2>1 DEF addValuesToLeaf
<1> HIDE DEF C, G
<1>10. PICK E : RefilledTo(D, C, G, U, E, y, N)
  <2> HIDE DEF N
  <2> QED BY ONLY <1>2, <1>4, <1>7, <1>8, <1>9, Refilling
<1>11. /\ Built(U, E, G) /\ Told(U, E) /\ Refilled(D, U, y, N) /\ E[y] = N
       /\ E[D.root] = (C[D.root] \ C[y]) \cup N /\ U.root = D.root /\ Nodes(U) = Nodes(D)
       /\ Size(U.node[y]) = Cardinality(N)
       /\ \A d \in Nodes(D) : d # y /\ Sized(D, d) => Sized(U, d)
  BY <1>10 DEF RefilledTo
<1>12. E[U.root] = B[p]
  <2>1. B[x] \subseteq B[p] /\ B[y] \subseteq B[p]
    BY RootAll
  <2> QED BY <1>3, <1>6, <1>11, <2>1
<1>13. Len(Children(U, p)) = Len(Children(T, p)) - 1 /\ U.node[p].values = {}
  <2>1. p \in Nodes(D) /\ p # y
    BY <1>3, <1>4
  <2>2. Len(Children(U, p)) = Len(Children(D, p)) /\ U.node[p].values = D.node[p].values
    BY <1>11, <2>1 DEF Refilled
  <2> QED BY <1>3, <1>5, <2>2
<1>14. ASSUME NEW d \in Nodes(U), d # p PROVE Sized(U, d)
  <2>1. d \in Nodes(T) \ {x, p} /\ Sized(T, d)
    BY <1>3, <1>11, <1>14 DEF SizedBut
  <2>2. CASE d = y
    <3>1. Children(U, y) = <<>>
      BY <1>4, <1>11, LeafParts
    <3>2. minChildren <= Cardinality(B[y])
      BY <1>4, <1>5, <2>1, <2>2 DEF Sized
    <3>3. minChildren <= Cardinality(N) /\ Cardinality(N) <= maxChildren
      <4> HIDE DEF N
      <4>1. minChildren \in Nat /\ maxChildren \in Nat
        BY HalfIs
      <4>2. Cardinality(B[y]) \in Nat /\ Cardinality(B[x]) \in Nat
        BY <1>5, SizeIs
      <4> QED BY <1>5, <1>7, <3>2, <4>1, <4>2
    <3> QED BY <1>11, <2>2, <3>1, <3>3 DEF Sized
  <2>3. CASE d # y
    <3>1. D.node[d].values = T.node[d].values /\ Children(D, d) = Children(T, d)
      BY <1>3, <2>1
    <3>2. Sized(D, d)
      BY <1>3, <2>1, <3>1 DEF Sized, Size, Children
    <3> QED BY <1>3, <1>11, <2>1, <2>3, <3>2
  <2> QED BY <2>2, <2>3
<1>15. JoinedTo(T, B, U, E, G)
  BY <1>3, <1>11, <1>12, <1>13, <1>14 DEF JoinedTo
<1> QED BY <1>15

Collapsed(T, p, c) ==
  [writeNode(clearNode(T, p), c, [T.node[c] EXCEPT !.parent = 0]) EXCEPT !.root = c]

\* The old root is cleared and its child made the root.
LEMMA CollapsedIs ==
  ASSUME NEW T, WellTyped(T), NEW p, NEW c \in Nodes(T), c # p, NEW U, U = Collapsed(T, p, c)
  PROVE  /\ WellTyped(U) /\ U.root = c /\ Nodes(U) = Nodes(T) \ {p}
         /\ \A d \in Nodes(U) : /\ U.node[d].values = T.node[d].values
                                /\ Children(U, d) = Children(T, d)
                                /\ Parent(U, d) = IF d = c THEN 0 ELSE Parent(T, d)
<1> DEFINE n == [T.node[c] EXCEPT !.parent = 0]
           f == [d \in DOMAIN T.node \ {p} |-> T.node[d]]
           g == [d \in DOMAIN f \cup {c} |-> IF d = c THEN n ELSE f[d]]
           V == clearNode(T, p)
           W == writeNode(V, c, n)
<1>1. /\ IsFiniteSet(Nodes(T)) /\ Nodes(T) \subseteq Nat \ {0}
      /\ \A d \in Nodes(T) : T.node[d] \in Node
  BY DEF WellTyped
<1>2. T.node[c] \in Node /\ n \in Node /\ n.parent = 0 /\ n.values = T.node[c].values
      /\ n.children = T.node[c].children
  <2>1. T.node[c] \in Node
    BY <1>1
  <2> QED BY <2>1 DEF Node
<1> HIDE DEF n
<1>3. V = [root |-> T.root, node |-> f, thrown |-> FALSE]
  <2>1. T = [root |-> T.root, node |-> T.node, thrown |-> FALSE]
    BY DEF WellTyped
  <2>2. V = [T EXCEPT !.node = f]
    BY DEF clearNode, Restrict
  <2> HIDE DEF f, V
  <2>3. [[root |-> T.root, node |-> T.node, thrown |-> FALSE] EXCEPT !.node = f]
          = [root |-> T.root, node |-> f, thrown |-> FALSE]
    BY NodeExcept
  <2> QED BY <2>1, <2>2, <2>3
<1>4. DOMAIN f = Nodes(T) \ {p} /\ \A d \in DOMAIN f : f[d] = T.node[d]
  BY DEF Nodes
<1> HIDE DEF V, f
<1>5. W = [root |-> T.root, node |-> g, thrown |-> FALSE]
  <2>1. W = [V EXCEPT !.node = g]
    <3>1. V.node = f
      BY <1>3
    <3> QED BY <3>1 DEF writeNode
  <2> HIDE DEF g, W
  <2>2. [[root |-> T.root, node |-> f, thrown |-> FALSE] EXCEPT !.node = g]
          = [root |-> T.root, node |-> g, thrown |-> FALSE]
    BY NodeExcept
  <2> QED BY <1>3, <2>1, <2>2
<1>6. /\ DOMAIN g = Nodes(T) \ {p} /\ g = [d \in DOMAIN g |-> g[d]]
      /\ \A d \in DOMAIN g : g[d] = IF d = c THEN n ELSE T.node[d]
  BY <1>4
<1>7. U = [W EXCEPT !.root = c]
  BY DEF Collapsed, n, W, V
<1> HIDE DEF g, W
<1>8. U = [root |-> c, node |-> g, thrown |-> FALSE]
  <2> DEFINE a == T.root
  <2>1. PICK t : t = FALSE
    OBVIOUS
  <2> HIDE DEF a
  <2>2. [[root |-> a, node |-> g, thrown |-> t] EXCEPT !.root = c]
          = [root |-> c, node |-> g, thrown |-> t]
    BY RootExcept
  <2> QED BY <1>5, <1>7, <2>1, <2>2 DEF a
<1>9. U.root = c /\ U.node = g /\ U = [root |-> U.root, node |-> U.node, thrown |-> FALSE]
  BY <1>8
<1>10. Nodes(U) = Nodes(T) \ {p}
  BY <1>6, <1>9 DEF Nodes
<1>11. U.node = [d \in Nodes(U) |-> U.node[d]]
  BY <1>6, <1>9 DEF Nodes
<1>12. \A d \in Nodes(U) : U.node[d] = IF d = c THEN n ELSE T.node[d]
  BY <1>6, <1>9, <1>10
<1>13. IsFiniteSet(Nodes(U))
  <2>1. Nodes(U) \subseteq Nodes(T)
    BY <1>10
  <2> QED BY <1>1, <2>1, FS_Subset
<1>14. /\ U.root \in Nodes(U) /\ Nodes(U) \subseteq Nat \ {0}
       /\ \A d \in Nodes(U) : U.node[d] \in Node
  BY <1>1, <1>2, <1>9, <1>10, <1>12
<1>15. WellTyped(U)
  BY <1>9, <1>11, <1>13, <1>14 DEF WellTyped
<1>16. \A d \in Nodes(U) : /\ U.node[d].values = T.node[d].values
                           /\ Children(U, d) = Children(T, d)
                           /\ Parent(U, d) = IF d = c THEN 0 ELSE Parent(T, d)
  BY <1>2, <1>12 DEF Children, Parent
<1> QED BY <1>9, <1>10, <1>15, <1>16

\* A root with one child gives way to it, and the tree is as it should be.
LEMMA Collapse ==
  ASSUME NEW T, NEW B, NEW H, Built(T, B, H), Told(T, B), NEW p, p = T.root,
         Len(Children(T, p)) = 1, \A d \in Nodes(T) : d # p => Sized(T, d),
         NEW c, c = ChildId(T, p, 1), NEW U, U = Collapsed(T, p, c)
  PROVE  \E C, G : Built(U, C, G) /\ Told(U, C) /\ C[U.root] = B[T.root] /\ AllSized(U)
<1> DEFINE C == [d \in Nodes(U) |-> B[d]]
           G == [d \in Nodes(U) |-> H[d]]
<1>1. /\ p \in Nodes(T) /\ DOMAIN Children(T, p) = {1} /\ H[p] \in Nat /\ WellTyped(T)
  <2>1. p \in Nodes(T) /\ WellTyped(T)
    BY RootParts DEF Built
  <2>2. DOMAIN Children(T, p) = 1..Len(Children(T, p)) /\ H[p] \in Nat
    BY <2>1, NodeParts
  <2>3. 1..1 = {1}
    OBVIOUS
  <2> QED BY <2>1, <2>2, <2>3
<1>2. /\ c \in Nodes(T) /\ Parent(T, c) = p /\ H[c] + 1 = H[p] /\ H[c] \in Nat /\ c # p
  <2>1. 1 \in DOMAIN Children(T, p)
    BY <1>1
  <2> QED BY <1>1, <2>1, ChildParts
<1>3. B[p] = B[c]
  <2>1. H[p] # 0
    BY <1>1, <1>2
  <2>2. \A v : v \in B[p] <=> \E i \in DOMAIN Children(T, p) : v \in B[ChildId(T, p, i)]
    BY <1>1, <2>1, InnerUnion
  <2>3. \A v : v \in B[p] <=> v \in B[c]
    BY <1>1, <2>2
  <2>4. B[p] \in SUBSET Nat /\ B[c] \in SUBSET Nat
    BY <1>1, <1>2, NodeParts
  <2> QED BY <2>3, <2>4
<1>4. /\ WellTyped(U) /\ U.root = c /\ Nodes(U) = Nodes(T) \ {p}
      /\ \A d \in Nodes(U) : /\ U.node[d].values = T.node[d].values
                             /\ Children(U, d) = Children(T, d)
                             /\ Parent(U, d) = IF d = c THEN 0 ELSE Parent(T, d)
  BY <1>1, <1>2, CollapsedIs
<1>5. \A d \in Nodes(U) : C[d] = B[d] /\ G[d] = H[d]
  OBVIOUS
<1>6. C \in [Nodes(U) -> SUBSET Keys] /\ G \in [Nodes(U) -> Nat]
  BY <1>4 DEF Built
<1> HIDE DEF C, G
<1>7. ASSUME NEW d \in Nodes(U) PROVE B[d] # {} /\ IsFiniteSet(B[d]) /\ H[d] <= H[c] /\ H[d] \in Nat
  <2>1. d \in Nodes(T) /\ d # p
    BY <1>4
  <2>2. H[d] # H[p]
    BY <2>1, OneRoot
  <2>3. H[d] \in Nat /\ H[d] <= H[p] /\ B[d] # {} /\ IsFiniteSet(B[d])
    BY <2>1, NodeParts
  <2> QED BY <1>1, <1>2, <2>2, <2>3
<1>8. \A d \in Nodes(U) : \A i \in DOMAIN Children(T, d) :
         ChildId(T, d, i) \in Nodes(U) /\ ChildId(T, d, i) # c
           /\ ChildId(U, d, i) = ChildId(T, d, i) /\ d \in Nodes(T)
  <2> SUFFICES ASSUME NEW d \in Nodes(U), NEW i \in DOMAIN Children(T, d)
               PROVE  ChildId(T, d, i) \in Nodes(U) /\ ChildId(T, d, i) # c
                        /\ ChildId(U, d, i) = ChildId(T, d, i) /\ d \in Nodes(T)
    OBVIOUS
  <2>1. d \in Nodes(T) /\ d # p
    BY <1>4
  <2>2. /\ ChildId(T, d, i) \in Nodes(T) /\ ChildId(T, d, i) # T.root
        /\ Parent(T, ChildId(T, d, i)) = d
    BY <2>1, ChildParts
  <2>3. ChildId(T, d, i) # c
    BY <1>2, <2>1, <2>2
  <2>4. ChildId(U, d, i) = ChildId(T, d, i)
    BY <1>4 DEF ChildId, Children
  <2> QED BY <1>4, <2>1, <2>2, <2>3, <2>4
<1>9. ASSUME NEW d \in Nodes(U)
      PROVE  IF G[d] = 0 THEN IsLeafOf(U, C, d) ELSE IsInnerOf(U, C, G, d)
  <2>1. IF H[d] = 0 THEN IsLeafOf(T, B, d) ELSE IsInnerOf(T, B, H, d)
    BY <1>4 DEF Built
  <2>2. G[d] = H[d] /\ C[d] = B[d] /\ Children(U, d) = Children(T, d)
        /\ U.node[d].values = T.node[d].values
    BY <1>4, <1>5
  <2>3. CASE H[d] = 0
    BY <2>1, <2>2, <2>3 DEF IsLeafOf
  <2>4. CASE H[d] # 0
    <3>1. IsInnerOf(T, B, H, d)
      BY <2>1, <2>4
    <3>2. \A i \in DOMAIN Children(U, d) :
            /\ ChildId(U, d, i) = ChildId(T, d, i) /\ ChildId(T, d, i) # c
            /\ i \in DOMAIN Children(T, d)
            /\ C[ChildId(U, d, i)] = B[ChildId(T, d, i)] /\ G[ChildId(U, d, i)] = H[ChildId(T, d, i)]
            /\ ChildId(U, d, i) \in Nodes(U)
      BY <1>5, <1>8, <2>2
    <3>3. U.node[d].values = {} /\ Children(U, d) # <<>>
      BY <2>2, <3>1 DEF IsInnerOf
    <3>4. \A i \in DOMAIN Children(T, d) :
             /\ Parent(T, ChildId(T, d, i)) = d /\ H[ChildId(T, d, i)] + 1 = H[d]
      BY <3>1 DEF IsInnerOf
    <3>5. \A i \in DOMAIN Children(U, d) :
             /\ ChildId(U, d, i) \in Nodes(U) /\ Parent(U, ChildId(U, d, i)) = d
             /\ G[ChildId(U, d, i)] + 1 = G[d]
      BY <1>4, <2>2, <3>2, <3>4
    <3>6. \A i, j \in DOMAIN Children(T, d) : i < j =>
             \A a \in B[ChildId(T, d, i)], b \in B[ChildId(T, d, j)] : a < b
      BY <3>1 DEF IsInnerOf
    <3>7. \A i, j \in DOMAIN Children(U, d) : i < j =>
             \A a \in C[ChildId(U, d, i)], b \in C[ChildId(U, d, j)] : a < b
      BY <3>2, <3>6
    <3>8. C[d] = UNION {C[ChildId(U, d, i)] : i \in DOMAIN Children(U, d)}
      <4>1. \A v : v \in B[d] <=> \E i \in DOMAIN Children(T, d) : v \in B[ChildId(T, d, i)]
        BY <1>4, <2>4, InnerUnion
      <4>2. \A v : v \in C[d] <=> \E i \in DOMAIN Children(U, d) : v \in C[ChildId(U, d, i)]
        BY <2>2, <3>2, <4>1
      <4> QED BY <4>2
    <3>9. IsInnerOf(U, C, G, d)
      BY <3>3, <3>5, <3>7, <3>8 DEF IsInnerOf
    <3> QED BY <2>2, <2>4, <3>9
  <2> QED BY <2>3, <2>4
<1>10. ASSUME NEW d \in Nodes(U) \ {c}
       PROVE  /\ Parent(U, d) \in Nodes(U)
              /\ \E i \in DOMAIN Children(U, Parent(U, d)) : ChildId(U, Parent(U, d), i) = d
  <2> DEFINE q == Parent(T, d)
  <2>1. d \in Nodes(T) /\ d # p /\ d # c /\ Parent(U, d) = q
    BY <1>4
  <2>2. q \in Nodes(T) /\ \E i \in DOMAIN Children(T, q) : ChildId(T, q, i) = d
    BY <2>1, ParentParts
  <2>3. PICK j \in DOMAIN Children(T, q) : ChildId(T, q, j) = d
    BY <2>2
  <2>4. q # p
    BY <1>1, <2>1, <2>3
  <2>5. q \in Nodes(U)
    BY <1>4, <2>2, <2>4
  <2> HIDE DEF q
  <2> QED BY <1>4, <1>8, <2>1, <2>3, <2>5
<1>11. Built(U, C, G)
  <2>1. U.root = c /\ c \in Nodes(U) /\ Parent(U, c) = 0
    BY <1>2, <1>4
  <2>2. \A d \in Nodes(U) : C[d] # {} /\ IsFiniteSet(C[d]) /\ G[d] <= G[U.root]
    BY <1>5, <1>7, <2>1
  <2> QED BY <1>4, <1>6, <1>9, <1>10, <2>1, <2>2 DEF Built
<1>12. Told(U, C)
  <2> SUFFICES ASSUME NEW d \in Nodes(U), NEW i \in DOMAIN Children(U, d)
               PROVE  Children(U, d)[i] = TrueEntry(C, ChildId(U, d, i))
    BY DEF Told
  <2>1. Children(U, d) = Children(T, d) /\ d \in Nodes(T)
    BY <1>4
  <2>2. Children(T, d)[i] = TrueEntry(B, ChildId(T, d, i))
    BY <2>1 DEF Told
  <2>3. ChildId(U, d, i) = ChildId(T, d, i) /\ C[ChildId(T, d, i)] = B[ChildId(T, d, i)]
    BY <1>5, <1>8, <2>1
  <2> QED BY <2>1, <2>2, <2>3 DEF TrueEntry
<1>13. C[U.root] = B[T.root]
  BY <1>2, <1>3, <1>4, <1>5
<1>14. AllSized(U)
  <2> SUFFICES ASSUME NEW d \in Nodes(U) PROVE Sized(U, d)
    BY DEF AllSized
  <2>1. Sized(T, d) /\ d # p
    BY <1>4
  <2> QED BY <1>4, <2>1 DEF Sized, Size, Children
<1> QED BY <1>11, <1>12, <1>13, <1>14

-------------------------------------------------------------------------------
(* The loop of mergeIfNeeded.                                                *)

\* A loop that changes nothing any more has its result.
LEMMA RoundsStop ==
  ASSUME NEW loop, NEW T, NEW key, NEW a, NEW n \in Nat, NEW f, Runs(f, loop, T, key, a, n),
         NEW k \in 0..n, Round(loop, T, key, f[k]) = f[k]
  PROVE  f[n] = f[k]
<1> DEFINE S == {i \in 0..n : k <= i /\ f[i] # f[k]}
<1>0. \A i \in 0..n : i # 0 => f[i] = Round(loop, T, key, f[i - 1])
  BY DEF Runs
<1>1. S # {} => FALSE
  <2>1. SUFFICES ASSUME S # {} PROVE FALSE
    OBVIOUS
  <2>2. PICK i \in S : \A j \in S : i <= j
    <3>1. S \in SUBSET Nat
      OBVIOUS
    <3> HIDE DEF S
    <3> QED BY <2>1, <3>1, Lowest
  <2>3. i \in 0..n /\ k <= i /\ f[i] # f[k] /\ i \in Nat /\ k \in Nat
    BY <2>2
  <2>4. i # k /\ i - 1 \in 0..n /\ k <= i - 1 /\ i # 0 /\ ~(i <= i - 1)
    BY <2>3
  <2>5. i - 1 \notin S
    BY <2>2, <2>4
  <2>6. f[i - 1] = f[k]
    BY <2>4, <2>5
  <2>7. f[i] = Round(loop, T, key, f[i - 1])
    BY <1>0, <2>3, <2>4
  <2> QED BY <2>3, <2>6, <2>7
<1>2. n \in 0..n /\ k <= n
  OBVIOUS
<1> QED BY <1>1, <1>2

\* mergeIfNeeded is the last of its rounds.
LEMMA MergeRounds ==
  ASSUME NEW T, NEW x, NEW n \in Nat, n = Levels(T), NEW a, a = [tree |-> T, id |-> x],
         NEW U, U = mergeIfNeeded(T, x)
  PROVE  \E f : Runs(f, 3, T, 0, a, n) /\ U = f[n].tree
<1> DEFINE f == CHOOSE g : g = [i \in 0..n |-> IF i = 0 THEN a ELSE Merge(g[i - 1])]
<1>1. \A s : Round(3, T, 0, s) = Merge(s)
  BY DEF Round
<1>2. U = f[n].tree
  BY DEF mergeIfNeeded
<1>3. f = [i \in 0..n |-> IF i = 0 THEN a ELSE Merge(f[i - 1])]
  <2> HIDE DEF f
  <2>1. \E g : g = [i \in 0..n |-> IF i = 0 THEN a ELSE Merge(g[i - 1])]
    <3>1. PICK g : Runs(g, 3, T, 0, a, n)
      BY RoundsExist
    <3>2. g = [i \in 0..n |-> IF i = 0 THEN a ELSE Merge(g[i - 1])]
      BY <1>1, <3>1 DEF Runs
    <3> QED BY <3>2
  <2> QED BY <2>1 DEF f
<1> HIDE DEF f
<1>4. Runs(f, 3, T, 0, a, n)
  BY <1>1, <1>3 DEF Runs
<1> QED BY <1>2, <1>4

\* Once there is nothing to merge nothing changes.
LEMMA MergeIdle == ASSUME NEW s, s.id = 0 PROVE Merge(s) = s
BY DEF Merge

\* A merging that ends after one round.
LEMMA OneRound ==
  ASSUME NEW T, NEW x, Levels(T) \in Nat, Levels(T) >= 1, NEW V,
         Merge([tree |-> T, id |-> x]) = [tree |-> V, id |-> 0]
  PROVE  mergeIfNeeded(T, x) = V
<1> DEFINE n == Levels(T)
           a == [tree |-> T, id |-> x]
           U == mergeIfNeeded(T, x)
<1>1. n \in Nat /\ n = Levels(T) /\ a = [tree |-> T, id |-> x] /\ U = mergeIfNeeded(T, x) /\ n >= 1
      /\ Merge(a) = [tree |-> V, id |-> 0]
  OBVIOUS
<1> HIDE DEF n, a, U
<1>2. PICK f : Runs(f, 3, T, 0, a, n) /\ U = f[n].tree
  BY ONLY <1>1, MergeRounds
<1>3. 0 \in 0..n /\ 1 \in 0..n
  BY <1>1
<1>4. f[0] = a
  BY <1>2, <1>3 DEF Runs
<1>5. f[1] = [tree |-> V, id |-> 0]
  BY <1>1, <1>2, <1>3, <1>4 DEF Round, Runs
<1>6. Round(3, T, 0, f[1]) = f[1]
  BY <1>5, MergeIdle DEF Round
<1>7. f[n] = f[1]
  BY ONLY <1>1, <1>2, <1>3, <1>6, RoundsStop
<1> QED BY <1>2, <1>5, <1>7 DEF U

\* A merging that ends after two rounds.
LEMMA TwoRounds ==
  ASSUME NEW T, NEW x, Levels(T) \in Nat, Levels(T) >= 2, NEW V, NEW p, NEW W,
         Merge([tree |-> T, id |-> x]) = [tree |-> V, id |-> p],
         Merge([tree |-> V, id |-> p]) = [tree |-> W, id |-> 0]
  PROVE  mergeIfNeeded(T, x) = W
<1> DEFINE n == Levels(T)
           a == [tree |-> T, id |-> x]
           U == mergeIfNeeded(T, x)
<1>1. n \in Nat /\ n = Levels(T) /\ a = [tree |-> T, id |-> x] /\ U = mergeIfNeeded(T, x) /\ n >= 2
      /\ Merge(a) = [tree |-> V, id |-> p]
  OBVIOUS
<1> HIDE DEF n, a, U
<1>2. PICK f : Runs(f, 3, T, 0, a, n) /\ U = f[n].tree
  BY ONLY <1>1, MergeRounds
<1>3. 0 \in 0..n /\ 1 \in 0..n /\ 2 \in 0..n
  BY <1>1
<1>4. f[0] = a
  BY <1>2, <1>3 DEF Runs
<1>5. f[1] = [tree |-> V, id |-> p]
  BY <1>1, <1>2, <1>3, <1>4 DEF Round, Runs
<1>6. f[2] = [tree |-> W, id |-> 0]
  BY <1>2, <1>3, <1>5 DEF Round, Runs
<1>7. Round(3, T, 0, f[2]) = f[2]
  BY <1>6, MergeIdle DEF Round
<1>8. f[n] = f[2]
  BY ONLY <1>1, <1>2, <1>3, <1>7, RoundsStop
<1> QED BY <1>2, <1>6, <1>8 DEF U

-------------------------------------------------------------------------------
(* Taking out a leaf below the second level throws.                          *)

\* An entry under another name.
LEMMA Renamed ==
  ASSUME NEW p, NEW n, NEW x
  PROVE  [Entry(p, n) EXCEPT !.id = x].id = x
BY DEF Entry

\* Once all are told nothing changes.
LEMMA TellIdle == ASSUME NEW s, s.p = 0 PROVE Tell(s) = s
BY DEF Tell

\* Below the second level deleteNode throws.
LEMMA DeepThrow ==
  ASSUME NEW T, NEW B, NEW H, Built(T, B, H), NEW x \in Nodes(T), x # T.root,
         Parent(T, x) # T.root, NEW D, D = deleteNode(T, x)
  PROVE  D.thrown = TRUE
<1> DEFINE p == Parent(T, x)
           k == IndexOf(T, x)
           s == Children(T, p)
           t == RemoveAt(s, k)
           q == [T.node[p] EXCEPT !.children = t]
           W == clearNode(T, x)
           U == writeNode(W, p, q)
           e == [Entry(p, q) EXCEPT !.id = x]
           a == [tree |-> U, p |-> p, e |-> e]
           n == Levels(U)
           f == CHOOSE g : g = [i \in 0..n |-> IF i = 0 THEN a ELSE Tell(g[i - 1])]
<1>1. /\ p \in Nodes(T) /\ p # 0 /\ Parent(T, p) # 0 /\ WellTyped(T) /\ T.node[p] \in Node
      /\ s \in Seq(Child) /\ p \in Nat \ {0} /\ T.node[p].children = s /\ T.node[p].parent # 0
      /\ T.node[x].parent = p
  <2>1. p \in Nodes(T) /\ Parent(T, p) # 0 /\ WellTyped(T)
    BY RootParts, ParentParts DEF Built
  <2> QED BY <2>1, NodeParts DEF Parent, Children
<1>2. k \in DOMAIN s /\ \A i \in DOMAIN s : s[i].id = x => i = k
  <2>1. /\ k \in DOMAIN s /\ \A i \in DOMAIN s : ChildId(T, p, i) = x => i = k
    BY IndexIs
  <2> QED BY <2>1 DEF ChildId, Children
<1>3. D = f[n].tree
  <2>1. q = [T.node[p] EXCEPT !.children = RemoveAt(@, k)]
    BY <1>1
  <2>2. q.parent # 0
    BY <1>1 DEF Node
  <2>3. D = updateParents(U, p, e)
    <3> HIDE DEF q, k, s, t, f
    <3> QED BY <1>1, <2>1, <2>2 DEF deleteNode, k
  <2> HIDE DEF U, e, p
  <2> QED BY <2>3 DEF updateParents
<1>4. /\ t \in Seq(Child) /\ DOMAIN t = 1..Len(s) - 1
      /\ \A i \in 1..Len(s) - 1 : t[i] = IF i < k THEN s[i] ELSE s[i + 1]
  <2>1. t = RemoveAt(s, k)
    OBVIOUS
  <2> HIDE DEF t, s, k
  <2> QED BY <1>1, <1>2, <2>1, Removal
<1>5. \A i \in DOMAIN t : t[i].id # x
  <2> SUFFICES ASSUME NEW i \in DOMAIN t, t[i].id = x PROVE FALSE
    OBVIOUS
  <2>1. i \in 1..Len(s) - 1 /\ DOMAIN s = 1..Len(s) /\ Len(s) \in Nat /\ k \in Nat
    BY <1>1, <1>2, <1>4
  <2> HIDE DEF t, s, k
  <2>2. CASE i < k
    <3>1. i \in DOMAIN s /\ s[i].id = x
      BY <1>4, <2>1, <2>2
    <3> QED BY <1>2, <2>1, <2>2, <3>1
  <2>3. CASE ~(i < k)
    <3>1. i + 1 \in DOMAIN s /\ s[i + 1].id = x
      BY <1>4, <2>1, <2>3
    <3>2. i + 1 # k
      BY <1>2, <2>1, <2>3
    <3> QED BY <1>2, <3>1, <3>2
  <2> QED BY <2>2, <2>3
<1> HIDE DEF t
<1>6. q \in Node /\ q.children = t
  BY <1>1, <1>4 DEF Node
<1> HIDE DEF q
<1>7. WellTyped(W)
  <2>1. W = clearNode(T, x)
    OBVIOUS
  <2> HIDE DEF W
  <2> QED BY <1>1, <2>1, ClearNode
<1> HIDE DEF W
<1>8. WellTyped(U) /\ U.node[p] = q
  <2>1. p \in Nat \ {0} /\ U = writeNode(W, p, q)
    BY <1>1
  <2> HIDE DEF p, U
  <2>2. /\ WellTyped(U) /\ Nodes(U) = Nodes(W) \cup {p}
        /\ \A d \in Nodes(U) : U.node[d] = IF d = p THEN q ELSE W.node[d]
    BY ONLY <1>6, <1>7, <2>1, WriteNode
  <2> QED BY <2>2
<1>9. n \in Nat /\ 1 <= n
  <2>1. IsFiniteSet(Nodes(U)) /\ Nodes(U) # {}
    BY <1>8 DEF WellTyped
  <2>2. Cardinality(Nodes(U)) \in Nat /\ Cardinality(Nodes(U)) # 0
    BY <2>1, FS_CardinalityType, FS_EmptySet
  <2> QED BY <2>2 DEF Levels, Nodes
<1>10. e.id = x
  BY Renamed
<1> HIDE DEF U, e, n
<1>11. f = [i \in 0..n |-> IF i = 0 THEN a ELSE Tell(f[i - 1])]
  <2> HIDE DEF f, a
  <2>1. \E g : g = [i \in 0..n |-> IF i = 0 THEN a ELSE Tell(g[i - 1])]
    <3>1. PICK g : Runs(g, 1, T, 0, a, n)
      BY <1>9, RoundsExist
    <3>2. \A z : Round(1, T, 0, z) = Tell(z)
      BY DEF Round
    <3>3. g = [i \in 0..n |-> IF i = 0 THEN a ELSE Tell(g[i - 1])]
      BY <3>1, <3>2 DEF Runs
    <3> QED BY <3>3
  <2> QED BY <2>1 DEF f
<1> HIDE DEF f
<1>12. a.tree = U /\ a.p = p /\ a.e = e
  OBVIOUS
<1>13. Tell(a) = [a EXCEPT !.tree.thrown = TRUE, !.p = 0]
  <2>1. \A i \in DOMAIN U.node[p].children : U.node[p].children[i].id # x
    BY <1>5, <1>6, <1>8
  <2> HIDE DEF a, p
  <2> QED BY <1>1, <1>10, <1>12, <2>1 DEF Tell
<1>14. f[1] = Tell(a) /\ 1 \in 0..n
  BY <1>9, <1>11
<1>15. f[1].p = 0 /\ f[1].tree.thrown = TRUE
  <2>1. "thrown" \in DOMAIN U
    <3>1. U = [root |-> U.root, node |-> U.node, thrown |-> FALSE]
      BY <1>8 DEF WellTyped
    <3> QED BY <3>1
  <2>2. a = [tree |-> U, p |-> p, e |-> e]
    OBVIOUS
  <2>3. f[1] = [a EXCEPT !.tree.thrown = TRUE, !.p = 0]
    BY <1>13, <1>14
  <2> HIDE DEF a, p
  <2> QED BY ONLY <2>1, <2>2, <2>3
<1>16. f[n] = f[1]
  <2>1. Round(1, T, 0, f[1]) = f[1]
    BY <1>15, TellIdle DEF Round
  <2>2. Runs(f, 1, T, 0, a, n)
    <3>1. \A z : Round(1, T, 0, z) = Tell(z)
      BY DEF Round
    <3> HIDE DEF a
    <3> QED BY <1>11, <3>1 DEF Runs
  <2> HIDE DEF a
  <2> QED BY ONLY <1>9, <1>14, <2>1, <2>2, RoundsStop
<1> QED BY <1>3, <1>15, <1>16

-------------------------------------------------------------------------------
(* Merging.                                                                  *)

\* A round of merging at a leaf below the root: what it does in each case.
LEMMA MergeLeaf ==
  ASSUME NEW T, NEW x, x # 0, IsLeaf(T.node[x]), T.node[x].parent # 0,
         NEW l, l = findNodeSiblingLeft(T, x), NEW r, r = findNodeSiblingRight(T, x),
         NEW D, D = deleteNode(T, x), NEW s, s = [tree |-> T, id |-> x],
         NEW short, short = (Size(T.node[x]) < minChildren)
  PROVE  /\ ~short => Merge(s) = [tree |-> T, id |-> 0]
         /\ short /\ CanLend(T, l) =>
              Merge(s) = [tree |-> moveValue(T, l, x, Max(T.node[l].values)), id |-> 0]
         /\ short /\ ~CanLend(T, l) /\ CanLend(T, r) =>
              Merge(s) = [tree |-> moveValue(T, r, x, Min(T.node[r].values)), id |-> 0]
         /\ short /\ ~CanLend(T, l) /\ ~CanLend(T, r) /\ D.thrown =>
              Merge(s) = [tree |-> D, id |-> 0]
         /\ short /\ ~CanLend(T, l) /\ ~CanLend(T, r) /\ ~D.thrown /\ (l # 0 \/ r # 0) =>
              Merge(s) = [tree |-> addValuesToLeaf(D, IF l # 0 THEN l ELSE r, T.node[x].values),
                          id |-> T.node[x].parent]
<1>1. s.tree = T /\ s.id = x
  OBVIOUS
<1>2. ~short => Merge(s) = [tree |-> T, id |-> 0]
  BY <1>1 DEF Merge
<1>3. short /\ CanLend(T, l) =>
        Merge(s) = [tree |-> moveValue(T, l, x, Max(T.node[l].values)), id |-> 0]
  BY <1>1 DEF Merge
<1>4. short /\ ~CanLend(T, l) /\ CanLend(T, r) =>
        Merge(s) = [tree |-> moveValue(T, r, x, Min(T.node[r].values)), id |-> 0]
  BY <1>1 DEF Merge
<1>5. short /\ ~CanLend(T, l) /\ ~CanLend(T, r) /\ D.thrown =>
        Merge(s) = [tree |-> D, id |-> 0]
  BY <1>1 DEF Merge
<1>6. short /\ ~CanLend(T, l) /\ ~CanLend(T, r) /\ ~D.thrown /\ (l # 0 \/ r # 0) =>
        Merge(s) = [tree |-> addValuesToLeaf(D, IF l # 0 THEN l ELSE r, T.node[x].values),
                    id |-> T.node[x].parent]
  BY <1>1 DEF Merge
<1> QED BY <1>2, <1>3, <1>4, <1>5, <1>6

\* A round of merging at the root.
LEMMA MergeRoot ==
  ASSUME NEW T, NEW p, p # 0, T.node[p].parent = 0, NEW s, s = [tree |-> T, id |-> p]
  PROVE  /\ Len(T.node[p].children) # 1 => Merge(s) = [tree |-> T, id |-> 0]
         /\ Len(T.node[p].children) = 1 =>
              Merge(s) = [tree |-> Collapsed(T, p, Head(T.node[p].children).id), id |-> 0]
<1>1. s.tree = T /\ s.id = p
  OBVIOUS
<1>2. Len(T.node[p].children) # 1 => Merge(s) = [tree |-> T, id |-> 0]
  BY <1>1 DEF Merge
<1>3. Len(T.node[p].children) = 1 =>
        Merge(s) = [tree |-> Collapsed(T, p, Head(T.node[p].children).id), id |-> 0]
  BY <1>1 DEF Merge, Collapsed
<1> QED BY <1>2, <1>3

\* The tree U has the values W and is as it should be.
GoodTree(U, W) ==
  \E C, G : Built(U, C, G) /\ Told(U, C) /\ C[U.root] = W /\ AllSized(U)

\* With one value lent to x the tree is as it should be.
LEMMA LendGood ==
  ASSUME NEW T, NEW B, NEW H, Built(T, B, H), Told(T, B), NEW x \in Nodes(T), H[x] = 0,
         SizedBut(T, x), Size(T.node[x]) + 1 = minChildren,
         NEW y \in Nodes(T), H[y] = 0, y # x, CanLend(T, y),
         NEW m \in B[y], Lendable(T, B, x, m), NEW U, U = moveValue(T, y, x, m)
  PROVE  GoodTree(U, B[T.root])
<1>1. /\ minChildren \in Nat /\ minChildren >= 2 /\ maxChildren \in Nat /\ minChildren <= maxChildren
  BY HalfIs
<1>2. /\ Size(T.node[y]) = Cardinality(B[y]) /\ Size(T.node[y]) \in Nat
      /\ Size(T.node[x]) \in Nat
  BY SizeIs
<1>3. Size(T.node[y]) - 1 >= minChildren /\ Size(T.node[y]) <= maxChildren
  BY DEF CanLend, SizedBut, Sized
<1>4. Cardinality(B[y]) >= 2
  BY <1>1, <1>2, <1>3
<1>5. PICK C :
        /\ Built(U, C, H) /\ Told(U, C) /\ C[U.root] = B[T.root]
        /\ U.root = T.root /\ Nodes(U) = Nodes(T)
        /\ Size(U.node[x]) = Size(T.node[x]) + 1 /\ Size(U.node[y]) = Size(T.node[y]) - 1
        /\ \A d \in Nodes(T) : d # x /\ d # y /\ Sized(T, d) => Sized(U, d)
  BY <1>4, Lend
<1>6. Children(U, x) = <<>> /\ Children(U, y) = <<>>
  BY <1>5, LeafParts
<1>7. Sized(U, x)
  BY <1>1, <1>5, <1>6 DEF Sized
<1>8. Sized(U, y)
  BY <1>1, <1>2, <1>3, <1>5, <1>6 DEF Sized
<1>9. AllSized(U)
  BY <1>5, <1>7, <1>8 DEF AllSized, SizedBut
<1> QED BY <1>5, <1>9 DEF GoodTree

\* The root has lost a leaf: if one child is left that becomes the root.
LEMMA RootRound ==
  ASSUME NEW T, NEW B, NEW V, NEW C, NEW G, JoinedTo(T, B, V, C, G), NEW p, p = V.root,
         Len(Children(V, p)) >= 1, Len(Children(V, p)) <= maxChildren,
         NEW s, s = [tree |-> V, id |-> p]
  PROVE  \E W : Merge(s) = [tree |-> W, id |-> 0] /\ GoodTree(W, B[T.root])
<1>1. /\ Built(V, C, G) /\ Told(V, C) /\ C[p] = B[T.root] /\ V.node[p].values = {}
      /\ \A d \in Nodes(V) : d # p => Sized(V, d)
  BY DEF JoinedTo
<1>2. /\ p \in Nodes(V) /\ p # 0 /\ V.node[p].parent = 0 /\ Len(V.node[p].children) \in Nat
      /\ Children(V, p) = V.node[p].children /\ Children(V, p) \in Seq(Child)
  BY <1>1, RootParts, NodeParts DEF Parent, Children
<1>3. CASE Len(Children(V, p)) = 1
  <2> DEFINE c == ChildId(V, p, 1)
             W == Collapsed(V, p, c)
  <2>1. Head(V.node[p].children).id = c
    BY <1>2, <1>3 DEF ChildId
  <2>2. Merge(s) = [tree |-> W, id |-> 0]
    BY <1>2, <1>3, <2>1, MergeRoot
  <2>3. p = V.root /\ c = ChildId(V, p, 1) /\ W = Collapsed(V, p, c)
    OBVIOUS
  <2> HIDE DEF c, W
  <2>4. \E E, F : Built(W, E, F) /\ Told(W, E) /\ E[W.root] = C[V.root] /\ AllSized(W)
    BY ONLY <1>1, <1>3, <2>3, Collapse
  <2>5. GoodTree(W, B[T.root])
    BY <1>1, <2>4 DEF GoodTree
  <2> QED BY <2>2, <2>5
<1>4. CASE Len(Children(V, p)) # 1
  <2>1. Merge(s) = [tree |-> V, id |-> 0]
    BY <1>2, <1>4, MergeRoot
  <2>2. Size(V.node[p]) = Len(Children(V, p))
    <3>1. Cardinality(V.node[p].values) = 0
      BY <1>1, FS_EmptySet
    <3> QED BY <1>2, <3>1 DEF Size
  <2>3. Sized(V, p)
    <3>1. Len(Children(V, p)) \in Nat /\ Len(Children(V, p)) >= 2
      <4>1. Len(Children(V, p)) \in Nat /\ Len(Children(V, p)) >= 1
        BY <1>2
      <4> DEFINE m == Len(Children(V, p))
      <4>2. m \in Nat /\ m >= 1 /\ m # 1
        BY <1>4, <4>1
      <4> HIDE DEF m
      <4>3. m >= 2
        BY ONLY <4>2
      <4> QED BY <4>2, <4>3 DEF m
    <3>2. Size(V.node[p]) <= maxChildren
      BY <2>2
    <3> QED BY <3>1, <3>2 DEF Sized
  <2>4. AllSized(V)
    BY <1>1, <2>3 DEF AllSized
  <2> QED BY <1>1, <2>1, <2>4 DEF GoodTree
<1> QED BY <1>3, <1>4

\* The merging of a leaf under the root.
LEMMA JoinGood ==
  ASSUME NEW T, NEW B, NEW H, Built(T, B, H), Told(T, B), NEW x \in Nodes(T), H[x] = 0,
         x # T.root, Parent(T, x) = T.root, SizedBut(T, x), Size(T.node[x]) + 1 = minChildren,
         NEW l, l = findNodeSiblingLeft(T, x), NEW r, r = findNodeSiblingRight(T, x),
         ~CanLend(T, l), ~CanLend(T, r), NEW U, U = mergeIfNeeded(T, x)
  PROVE  GoodTree(U, B[T.root])
<1> DEFINE p == T.root
           n == Len(Children(T, p))
           k == IndexOf(T, x)
           y == IF l # 0 THEN l ELSE r
           D == deleteNode(T, x)
           V == addValuesToLeaf(D, y, T.node[x].values)
           s == [tree |-> T, id |-> x]
<1>1. /\ p \in Nodes(T) /\ p # 0 /\ H[p] = 1 /\ n \in Nat /\ n >= 2 /\ n <= maxChildren
      /\ x # 0 /\ T.node[x].parent = p /\ IsLeaf(T.node[x]) /\ k \in 1..n
  <2>1. p \in Nodes(T) /\ H[p] = H[x] + 1
    BY RootParts, ParentParts
  <2>2. Sized(T, p) /\ Children(T, p) # <<>> /\ Size(T.node[p]) = n
    BY <2>1, LeafParts, SizeIs DEF SizedBut
  <2>3. n >= 2 /\ n <= maxChildren
    BY <2>2 DEF Sized
  <2> QED BY <2>1, <2>3, NodeParts, LeafParts, IndexIs DEF Parent
<1>2. Neighbours(T, B, H, x, l, r)
  BY NeighboursAre
<1>3. y # 0 /\ (l # 0 \/ r # 0)
  <2>1. (k > 1 => l # 0) /\ (k < n => r # 0)
    BY <1>2 DEF Neighbours
  <2>2. k > 1 \/ k < n
    BY <1>1
  <2> QED BY <2>1, <2>2
<1>4. /\ y \in Nodes(T) /\ H[y] = 0 /\ y # x
      /\ Adjacent(T, B, y, x) \/ Adjacent(T, B, x, y)
  BY <1>2, <1>3 DEF Neighbours
<1>5. ~CanLend(T, y)
  OBVIOUS
<1>6. Size(T.node[y]) + Size(T.node[x]) <= maxChildren
  <2>1. Size(T.node[y]) \in Nat /\ Size(T.node[x]) \in Nat
    BY <1>4, SizeIs
  <2>2. ~(Size(T.node[y]) - 1 >= minChildren)
    BY <1>3, <1>5 DEF CanLend
  <2> QED BY <2>1, <2>2, HalfIs
<1>7. Without(T, D, x)
  BY DeletedIs
<1>8. ~D.thrown
  <2>1. D = [root |-> D.root, node |-> D.node, thrown |-> FALSE]
    BY <1>7 DEF Without, WellTyped
  <2> HIDE DEF D
  <2> QED BY <2>1
<1>9. Merge(s) = [tree |-> V, id |-> p]
  <2> DEFINE short == Size(T.node[x]) < minChildren
  <2>1. short
    BY SizeIs, HalfIs
  <2>2. D = deleteNode(T, x) /\ s = [tree |-> T, id |-> x] /\ short = (Size(T.node[x]) < minChildren)
    OBVIOUS
  <2> HIDE DEF D, s, short, p
  <2> QED BY <1>1, <1>3, <1>8, <2>1, <2>2, MergeLeaf
<1>10. PICK C, G : JoinedTo(T, B, V, C, G)
  <2>1. D = deleteNode(T, x) /\ V = addValuesToLeaf(D, y, T.node[x].values) /\ n >= 2
    BY <1>1
  <2> HIDE DEF D, V, y
  <2> QED BY <1>4, <1>6, <2>1, Join
<1> HIDE DEF V, s, D, y
<1>11. V.root = p /\ Len(Children(V, p)) = n - 1
  BY <1>10 DEF JoinedTo
<1>12. PICK W : /\ Merge([tree |-> V, id |-> p]) = [tree |-> W, id |-> 0]
                /\ GoodTree(W, B[p])
  <2> DEFINE t == [tree |-> V, id |-> p]
  <2>1. p = V.root /\ t = [tree |-> V, id |-> p] /\ Len(Children(V, p)) >= 1
        /\ Len(Children(V, p)) <= maxChildren
    BY <1>1, <1>11, HalfIs
  <2> HIDE DEF t
  <2>2. \E W : Merge(t) = [tree |-> W, id |-> 0] /\ GoodTree(W, B[T.root])
    BY ONLY <1>10, <2>1, RootRound
  <2> QED BY <2>2 DEF t
<1>13. Levels(T) \in Nat /\ Levels(T) >= 2
  BY <1>1, FewLevels
<1>14. U = W
  <2>1. Merge([tree |-> T, id |-> x]) = [tree |-> V, id |-> p]
    BY <1>9 DEF s
  <2> QED BY <1>12, <1>13, <2>1, TwoRounds
<1> QED BY <1>12, <1>14

\* A leaf that lacks one value: it gets one, is merged, or the removal throws.
LEMMA Merging ==
  ASSUME NEW T, NEW B, NEW H, Built(T, B, H), Told(T, B), NEW x \in Nodes(T), H[x] = 0,
         SizedBut(T, x), Size(T.node[x]) <= maxChildren,
         x # T.root => minChildren <= Size(T.node[x]) + 1,
         NEW l, l = findNodeSiblingLeft(T, x), NEW r, r = findNodeSiblingRight(T, x),
         NEW U, U = mergeIfNeeded(T, x)
  PROVE  \/ GoodTree(U, B[T.root])
         \/ /\ U.thrown /\ x # T.root /\ Size(T.node[x]) + 1 = minChildren
            /\ ~CanLend(T, l) /\ ~CanLend(T, r) /\ Parent(T, x) # T.root
<1> DEFINE s == [tree |-> T, id |-> x]
<1>1. /\ x # 0 /\ IsLeaf(T.node[x]) /\ Children(T, x) = <<>> /\ Size(T.node[x]) \in Nat
      /\ minChildren \in Nat /\ maxChildren \in Nat /\ T.node[x].children = <<>>
  BY NodeParts, LeafParts, SizeIs, HalfIs DEF Children
<1>2. Levels(T) \in Nat /\ Levels(T) >= 1
  BY FewLevels, RootParts, NodeParts
<1>3. CASE x = T.root
  <2>1. T.node[x].parent = 0
    BY <1>3, RootParts DEF Parent
  <2>2. Len(T.node[x].children) # 1
    <3>1. Len(<<>>) = 0
      OBVIOUS
    <3> QED BY <1>1, <3>1
  <2>3. Merge(s) = [tree |-> T, id |-> 0]
    BY <1>1, <2>1, <2>2, MergeRoot
  <2>4. U = T
    BY <1>2, <2>3, OneRound
  <2>5. AllSized(T)
    BY <1>1, <1>3 DEF AllSized, SizedBut, Sized
  <2> QED BY <2>4, <2>5 DEF GoodTree
<1>4. CASE x # T.root
  <2> DEFINE D == deleteNode(T, x)
             short == Size(T.node[x]) < minChildren
             a == moveValue(T, l, x, Max(T.node[l].values))
             b == moveValue(T, r, x, Min(T.node[r].values))
  <2>1. T.node[x].parent # 0
    BY <1>4, RootParts DEF Parent
  <2>2. D = deleteNode(T, x) /\ s = [tree |-> T, id |-> x] /\ short = (Size(T.node[x]) < minChildren)
    OBVIOUS
  <2>11. /\ short => Size(T.node[x]) < minChildren
         /\ ~short => minChildren <= Size(T.node[x])
    <3>1. ~(Size(T.node[x]) < minChildren) => minChildren <= Size(T.node[x])
      BY <1>1
    <3> QED BY <3>1
  <2> HIDE DEF D, s, short
  <2>3. /\ ~short => Merge(s) = [tree |-> T, id |-> 0]
        /\ short /\ CanLend(T, l) => Merge(s) = [tree |-> a, id |-> 0]
        /\ short /\ ~CanLend(T, l) /\ CanLend(T, r) => Merge(s) = [tree |-> b, id |-> 0]
        /\ short /\ ~CanLend(T, l) /\ ~CanLend(T, r) /\ D.thrown =>
              Merge(s) = [tree |-> D, id |-> 0]
    BY <1>1, <2>1, <2>2, MergeLeaf
  <2>4. Neighbours(T, B, H, x, l, r)
    BY NeighboursAre
  <2>5. CASE ~short
    <3>1. U = T
      BY <1>2, <2>2, <2>3, <2>5, OneRound
    <3>2. Sized(T, x)
      BY <1>1, <2>5, <2>11 DEF Sized
    <3>3. AllSized(T)
      BY <3>2 DEF AllSized, SizedBut
    <3> QED BY <3>1, <3>3 DEF GoodTree
  <2>6. short => Size(T.node[x]) + 1 = minChildren
    <3> SUFFICES ASSUME short PROVE Size(T.node[x]) + 1 = minChildren
      OBVIOUS
    <3>1. Size(T.node[x]) < minChildren /\ minChildren <= Size(T.node[x]) + 1
      BY <1>4, <2>11
    <3> QED BY <1>1, <3>1
  <2>7. CASE short /\ CanLend(T, l)
    <3>1. U = a
      BY <1>2, <2>2, <2>3, <2>7, OneRound
    <3>2. l # 0
      BY <2>7 DEF CanLend
    <3>3. l \in Nodes(T) /\ H[l] = 0 /\ l # x /\ Adjacent(T, B, l, x)
      BY <2>4, <3>2 DEF Neighbours
    <3>4. T.node[l].values = B[l]
      BY <3>3, LeafParts
    <3> DEFINE m == Max(B[l])
    <3>5. m = Max(B[l])
      OBVIOUS
    <3> HIDE DEF m
    <3>6. m \in B[l] /\ Lendable(T, B, x, m)
      BY <3>3, <3>5, LeftLends
    <3>7. U = moveValue(T, l, x, m)
      BY <3>1, <3>4, <3>5
    <3> QED BY <2>6, <2>7, <3>3, <3>6, <3>7, LendGood
  <2>8. CASE short /\ ~CanLend(T, l) /\ CanLend(T, r)
    <3>1. U = b
      BY <1>2, <2>2, <2>3, <2>8, OneRound
    <3>2. r # 0
      BY <2>8 DEF CanLend
    <3>3. r \in Nodes(T) /\ H[r] = 0 /\ r # x /\ Adjacent(T, B, x, r)
      BY <2>4, <3>2 DEF Neighbours
    <3>4. T.node[r].values = B[r]
      BY <3>3, LeafParts
    <3> DEFINE m == Min(B[r])
    <3>5. m = Min(B[r])
      OBVIOUS
    <3> HIDE DEF m
    <3>6. m \in B[r] /\ Lendable(T, B, x, m)
      BY <3>3, <3>5, RightLends
    <3>7. U = moveValue(T, r, x, m)
      BY <3>1, <3>4, <3>5
    <3> QED BY <2>6, <2>8, <3>3, <3>6, <3>7, LendGood
  <2>9. CASE short /\ ~CanLend(T, l) /\ ~CanLend(T, r) /\ Parent(T, x) = T.root
    BY <1>4, <2>6, <2>9, JoinGood
  <2>10. CASE short /\ ~CanLend(T, l) /\ ~CanLend(T, r) /\ Parent(T, x) # T.root
    <3>1. D.thrown = TRUE
      BY <1>4, <2>2, <2>10, DeepThrow
    <3>2. Merge(s) = [tree |-> D, id |-> 0]
      BY <2>3, <2>10, <3>1
    <3>3. U = D
      BY <1>2, <2>2, <3>2, OneRound
    <3> QED BY <1>4, <2>6, <2>10, <3>1, <3>3
  <2> QED BY <2>5, <2>7, <2>8, <2>9, <2>10
<1> QED BY <1>3, <1>4

-------------------------------------------------------------------------------
(* Removing.                                                                 *)

\* The last leaf goes with its last value.
LEMMA RemovedLast ==
  ASSUME NEW T, NEW B, NEW H, Built(T, B, H), NEW x, x = T.root, H[x] = 0,
         NEW U, U = deleteNode(T, x)
  PROVE  U = Empty
<1> DEFINE W == clearNode(T, x)
           f == [d \in DOMAIN T.node \ {x} |-> T.node[d]]
<1>1. /\ x \in Nodes(T) /\ T.node[x].parent = 0 /\ H[x] \in Nat
      /\ T = [root |-> T.root, node |-> T.node, thrown |-> FALSE]
  BY RootParts, NodeParts DEF Parent, Built, WellTyped
<1>2. \A d \in Nodes(T) : d = x
  <2> SUFFICES ASSUME NEW d \in Nodes(T) PROVE d = x
    OBVIOUS
  <2>1. H[d] \in Nat /\ H[d] <= H[x]
    BY NodeParts
  <2> QED BY <2>1, OneRoot
<1>3. DOMAIN T.node \ {x} = {}
  BY <1>1, <1>2 DEF Nodes
<1>4. f = <<>>
  <2> DEFINE S == DOMAIN T.node \ {x}
             g == T.node
  <2>1. S = {} /\ f = [d \in S |-> g[d]]
    BY <1>3
  <2> HIDE DEF S, g, f
  <2> QED BY <2>1
<1>5. U = [W EXCEPT !.root = 0]
  BY <1>1 DEF deleteNode
<1>6. W = [T EXCEPT !.node = f]
  BY DEF clearNode, Restrict
<1>7. PICK t : t = FALSE
  OBVIOUS
<1> DEFINE a == T.root
           g == T.node
<1>8. T = [root |-> a, node |-> g, thrown |-> t]
  BY <1>1, <1>7
<1> HIDE DEF f, W, a, g
<1>9. [[root |-> a, node |-> g, thrown |-> t] EXCEPT !.node = f]
        = [root |-> a, node |-> f, thrown |-> t]
  BY NodeExcept
<1>10. W = [root |-> a, node |-> f, thrown |-> t]
  BY <1>6, <1>8, <1>9
<1>11. [[root |-> a, node |-> f, thrown |-> t] EXCEPT !.root = 0]
         = [root |-> 0, node |-> f, thrown |-> t]
  BY RootExcept
<1>12. U = [root |-> 0, node |-> f, thrown |-> t]
  BY <1>5, <1>10, <1>11
<1> QED BY <1>4, <1>7, <1>12 DEF Empty

\* Where a removal throws: leaf x would have to be merged, and not under the root.
Stuck(T, x) ==
  /\ x \in Nodes(T) /\ x # T.root /\ Parent(T, x) # T.root
  /\ Size(T.node[x]) = minChildren
  /\ ~CanLend(T, findNodeSiblingLeft(T, x)) /\ ~CanLend(T, findNodeSiblingRight(T, x))

\* Removing a key removes it and leaves the tree as it should be, or throws where a leaf is stuck.
LEMMA RemovedFrom ==
  ASSUME NEW T, NEW B, NEW H, Built(T, B, H), Told(T, B), AllSized(T), NEW key \in Keys,
         NEW x, x = treeSearch(T, key), NEW U, U = Removed(T, key)
  PROVE  \/ U = Empty /\ B[T.root] \ {key} = {}
         \/ GoodTree(U, B[T.root] \ {key})
         \/ U.thrown /\ Stuck(T, x)
<1> DEFINE N == B[x] \ {key}
           V == removeValuesFromLeaf(T, x, {key})
           l == findNodeSiblingLeft(T, x)
           r == findNodeSiblingRight(T, x)
<1>0. Built(T, B, H) /\ Told(T, B)
  OBVIOUS
<1>1. key \in Nat
  BY BranchAssumption
<1>2. x \in Nodes(T) /\ H[x] = 0 /\ Place(T, B, x, key)
  <2>1. \A d \in Nodes(T) : H[d] # 0 => Len(Children(T, d)) >= 2
    BY TwoChildren
  <2> QED BY <1>1, <2>1, SearchFinds
<1>3. /\ T.node[x].values = B[x] /\ B[x] \subseteq B[T.root] /\ T.root \in Nodes(T) /\ T.root # 0
      /\ B[x] \in SUBSET Keys /\ B[x] # {} /\ IsFiniteSet(B[x])
  <2>1. T.node[x].values = B[x] /\ B[x] \subseteq B[T.root]
    BY <1>2, LeafParts, RootAll
  <2>2. T.root \in Nodes(T) /\ T.root # 0
    BY RootParts, NodeParts
  <2> QED BY <1>2, <2>1, <2>2 DEF Built
<1>4. \A v \in B[T.root] \ B[x] : v # key
  BY <1>2, <1>3 DEF Place
<1>5. CASE key \notin B[x]
  <2>1. U = T
    BY <1>3, <1>5 DEF Removed
  <2>2. B[T.root] \ {key} = B[T.root]
    BY <1>4, <1>5
  <2> QED BY <2>1, <2>2 DEF GoodTree
<1>6. CASE x = T.root /\ B[x] = {key}
  <2>1. U = deleteNode(T, x)
    BY <1>3, <1>6 DEF Removed
  <2>2. U = Empty
    BY <1>2, <1>6, <2>1, RemovedLast
  <2> QED BY <1>6, <2>2
<1>7. CASE key \in B[x] /\ ~(x = T.root /\ B[x] = {key})
  <2>1. U = mergeIfNeeded(V, x)
    BY <1>3, <1>7 DEF Removed
  <2>2. V = Rewrite(T, x, [T.node[x] EXCEPT !.values = N])
    BY <1>3 DEF removeValuesFromLeaf
  <2>3. N \in SUBSET Keys /\ N \in SUBSET B[x] /\ IsFiniteSet(N)
        /\ Cardinality(N) = Cardinality(B[x]) - 1
    BY <1>3, <1>7, FS_RemoveElement
  <2>4. /\ Size(T.node[x]) = Cardinality(B[x]) /\ Size(T.node[x]) \in Nat /\ Sized(T, x)
        /\ minChildren \in Nat /\ maxChildren \in Nat /\ minChildren >= 2
    BY <1>2, SizeIs, HalfIs DEF AllSized
  <2>5. N # {}
    <3>1. CASE x = T.root
      BY <1>7, <3>1
    <3>2. CASE x # T.root
      <4>1. minChildren <= Size(T.node[x])
        BY <2>4, <3>2 DEF Sized
      <4> HIDE DEF N
      <4>2. Cardinality(N) >= 1
        BY <2>3, <2>4, <4>1
      <4> QED BY <4>2, FS_EmptySet
    <3> QED BY <3>1, <3>2
  <2>6. Fit(T, B, x, N)
    BY <1>2, <2>3, FewerFit
  <2> HIDE DEF V, N
  <2>7. PICK C : RefilledTo(T, B, H, V, C, x, N)
    BY ONLY <1>0, <1>2, <2>2, <2>3, <2>5, <2>6, Refilling
  <2>8. /\ Built(V, C, H) /\ Told(V, C) /\ Refilled(T, V, x, N)
        /\ C[T.root] = (B[T.root] \ B[x]) \cup N
        /\ V.root = T.root /\ Nodes(V) = Nodes(T)
        /\ Size(V.node[x]) = Cardinality(N)
        /\ \A d \in Nodes(T) : d # x => Size(V.node[d]) = Size(T.node[d])
        /\ \A d \in Nodes(T) : d # x /\ Sized(T, d) => Sized(V, d)
    BY <2>7 DEF RefilledTo
  <2>9. C[V.root] = B[T.root] \ {key}
    BY <1>3, <1>4, <1>7, <2>8 DEF N
  <2>10. SizedBut(V, x)
    BY <2>8 DEF SizedBut, AllSized
  <2>11. /\ Size(V.node[x]) + 1 = Size(T.node[x]) /\ Size(V.node[x]) <= maxChildren
         /\ x # V.root => minChildren <= Size(V.node[x]) + 1
    <3>1. /\ Size(T.node[x]) <= maxChildren
          /\ x # T.root => minChildren <= Size(T.node[x])
      BY <2>4 DEF Sized
    <3>2. Size(V.node[x]) = Size(T.node[x]) - 1
      BY <2>3, <2>4, <2>8
    <3> QED BY <2>4, <2>8, <3>1, <3>2
  <2>12. l = findNodeSiblingLeft(V, x) /\ r = findNodeSiblingRight(V, x)
    BY <2>8, SameNeighbours
  <2>13. Neighbours(T, B, H, x, l, r)
    BY <1>2, NeighboursAre
  <2>14. x \in Nodes(V) /\ H[x] = 0
    BY <1>2, <2>8
  <2> HIDE DEF l, r
  <2>15. \/ GoodTree(U, C[V.root])
         \/ /\ U.thrown /\ x # V.root /\ Size(V.node[x]) + 1 = minChildren
            /\ ~CanLend(V, l) /\ ~CanLend(V, r) /\ Parent(V, x) # V.root
    BY ONLY <2>1, <2>8, <2>10, <2>11, <2>12, <2>14, Merging
  <2>16. CASE GoodTree(U, C[V.root])
    BY <2>9, <2>16
  <2>17. CASE /\ U.thrown /\ x # V.root /\ Size(V.node[x]) + 1 = minChildren
              /\ ~CanLend(V, l) /\ ~CanLend(V, r) /\ Parent(V, x) # V.root
    <3>1. x # T.root /\ Size(T.node[x]) = minChildren
      BY <2>8, <2>11, <2>17
    <3>2. Parent(T, x) # T.root
      BY <1>2, <2>8, <2>17 DEF Refilled
    <3>3. /\ l # 0 => Size(V.node[l]) = Size(T.node[l])
          /\ r # 0 => Size(V.node[r]) = Size(T.node[r])
      BY <2>8, <2>13 DEF Neighbours
    <3>4. ~CanLend(T, l) /\ ~CanLend(T, r)
      BY <2>17, <3>3 DEF CanLend
    <3> QED BY <1>2, <2>17, <3>1, <3>2, <3>4 DEF Stuck, l, r
  <2> QED BY <2>15, <2>16, <2>17
<1> QED BY <1>5, <1>6, <1>7

-------------------------------------------------------------------------------
(* The theorems.                                                             *)

\* The inductive invariant: the collection is empty, or its tree is as it should be.
TreeIs(T, W) == (T = Empty /\ W = {}) \/ GoodTree(T, W)
TreeInv == TreeIs(tree, content)

\* A tree that is as it should be has not thrown.
LEMMA NoThrow ==
  ASSUME NEW T, NEW W, TreeIs(T, W)
  PROVE  ~T.thrown
<1>1. CASE T = Empty
  BY <1>1 DEF Empty
<1>2. CASE GoodTree(T, W)
  <2>1. T = [root |-> T.root, node |-> T.node, thrown |-> FALSE]
    BY <1>2 DEF GoodTree, Built, WellTyped
  <2> QED BY <2>1
<1> QED BY <1>1, <1>2 DEF TreeIs

\* An addition keeps the inductive invariant.
LEMMA TreeAdd ==
  ASSUME NEW T, NEW W, TreeIs(T, W), NEW key \in Keys, NEW U, U = Added(T, key)
  PROVE  TreeIs(U, W \cup {key})
<1>1. CASE T = Empty /\ W = {}
  <2>1. GoodTree(U, {key})
    BY <1>1, AddedFirst DEF GoodTree
  <2>2. W \cup {key} = {key}
    BY <1>1
  <2> QED BY <2>1, <2>2 DEF TreeIs
<1>2. CASE GoodTree(T, W)
  <2>1. PICK B, H : Built(T, B, H) /\ Told(T, B) /\ B[T.root] = W /\ AllSized(T)
    BY <1>2 DEF GoodTree
  <2>2. \E C, G :
          Built(U, C, G) /\ Told(U, C) /\ C[U.root] = B[T.root] \cup {key} /\ AllSized(U)
    BY <2>1, AddedInto
  <2> QED BY <2>1, <2>2 DEF TreeIs, GoodTree
<1> QED BY <1>1, <1>2 DEF TreeIs

\* A removal keeps the inductive invariant or throws.
LEMMA TreeRemove ==
  ASSUME NEW T, NEW W, TreeIs(T, W), NEW key \in Keys, NEW U, U = Removed(T, key)
  PROVE  TreeIs(U, W \ {key}) \/ (U.thrown /\ Stuck(T, treeSearch(T, key)))
<1>1. CASE T = Empty /\ W = {}
  <2>1. U = T
    BY <1>1 DEF Removed, Empty
  <2> QED BY <1>1, <2>1 DEF TreeIs
<1>2. CASE GoodTree(T, W)
  <2>1. PICK B, H : Built(T, B, H) /\ Told(T, B) /\ B[T.root] = W /\ AllSized(T)
    BY <1>2 DEF GoodTree
  <2> DEFINE x == treeSearch(T, key)
  <2>2. x = treeSearch(T, key)
    OBVIOUS
  <2> HIDE DEF x
  <2>3. \/ U = Empty /\ B[T.root] \ {key} = {}
        \/ GoodTree(U, B[T.root] \ {key})
        \/ U.thrown /\ Stuck(T, x)
    BY <2>1, <2>2, RemovedFrom
  <2> QED BY <2>1, <2>2, <2>3 DEF TreeIs
<1> QED BY <1>1, <1>2 DEF TreeIs

\* Whatever was added and removed: the collection is empty, or its nodes form a
\* tree over its values, with true counts and bounds and the sizes of a B+ tree.
THEOREM TreeAlwaysBuilt == TreeSpec => []TreeInv
<1>1. TreeInit => TreeInv
  BY DEF TreeInit, TreeInv, TreeIs
<1>2. TreeInv /\ [TreeNext]_treeVars => TreeInv'
  <2> SUFFICES ASSUME TreeInv, [TreeNext]_treeVars PROVE TreeInv'
    OBVIOUS
  <2>1. ASSUME NEW key \in Keys, add(key) PROVE TreeInv'
    <3> DEFINE U == Added(tree, key)
    <3>1. TreeIs(U, content \cup {key})
      BY TreeAdd DEF TreeInv
    <3>2. ~U.thrown
      BY <3>1, NoThrow
    <3>3. tree' = U /\ content' = content \cup {key}
      BY <2>1, <3>2 DEF add, Commit
    <3> QED BY <3>1, <3>3 DEF TreeInv
  <2>2. ASSUME NEW key \in Keys, remove(key) PROVE TreeInv'
    <3> DEFINE U == Removed(tree, key)
    <3>1. CASE U.thrown
      BY <2>2, <3>1 DEF remove, Commit, treeVars, TreeInv
    <3>2. CASE ~U.thrown
      <4>1. TreeIs(U, content \ {key})
        BY <3>2, TreeRemove DEF TreeInv
      <4>2. tree' = U /\ content' = content \ {key}
        BY <2>2, <3>2 DEF remove, Commit
      <4> QED BY <4>1, <4>2 DEF TreeInv
    <3> QED BY <3>1, <3>2
  <2>3. CASE UNCHANGED treeVars
    BY <2>3 DEF treeVars, TreeInv
  <2> QED BY <2>1, <2>2, <2>3 DEF TreeNext
<1> QED BY <1>1, <1>2, PTL DEF TreeSpec

\* Every range counts what was added and not removed, for any branching factor
\* from 4 on and any numbers: splitting, lending and merging lose no count.
THEOREM CountsAlwaysTrue == TreeSpec => []CountsAreTrue
<1>1. TreeInv => CountsAreTrue
  <2> SUFFICES ASSUME TreeInv, NEW from \in Keys, NEW to \in Keys
               PROVE  countRange(tree, from, to) = Cardinality({v \in content : from <= v /\ v <= to})
    BY DEF CountsAreTrue
  <2>1. CASE tree = Empty /\ content = {}
    <3>1. countRange(tree, from, to) = 0
      BY <2>1 DEF countRange, Empty
    <3>2. {v \in content : from <= v /\ v <= to} = {}
      BY <2>1
    <3> QED BY <3>1, <3>2, FS_EmptySet
  <2>2. CASE GoodTree(tree, content)
    <3>1. PICK B, H : Built(tree, B, H) /\ Told(tree, B) /\ B[tree.root] = content
      BY <2>2 DEF GoodTree
    <3>2. tree.root \in Nodes(tree) /\ tree.root # 0
      BY <3>1, RootParts, NodeParts
    <3>3. from \in Nat /\ to \in Nat
      BY BranchAssumption
    <3>4. countNode(tree, tree.root, from, to) = Cardinality(InRange(B[tree.root], from, to))
      BY <3>1, <3>2, <3>3, CountIs
    <3> QED BY <3>1, <3>2, <3>4 DEF countRange, InRange
  <2> QED BY <2>1, <2>2 DEF TreeInv, TreeIs
<1> QED BY <1>1, TreeAlwaysBuilt, PTL

\* No addition throws, and a removal only where a leaf below the second level
\* would have to be merged into a neighbour.
THEOREM OnlyDeepMergesEverThrow == TreeSpec => []OnlyDeepMergesThrow
<1>1. TreeInv => OnlyDeepMergesThrow
  <2> SUFFICES ASSUME TreeInv PROVE OnlyDeepMergesThrow
    OBVIOUS
  <2>1. ASSUME NEW key \in Keys PROVE ~Added(tree, key).thrown
    BY TreeAdd, NoThrow DEF TreeInv
  <2>2. content \subseteq Keys
    <3>1. CASE content = {}
      BY <3>1
    <3>2. CASE GoodTree(tree, content)
      <4>1. PICK B, H : Built(tree, B, H) /\ B[tree.root] = content
        BY <3>2 DEF GoodTree
      <4> QED BY <4>1, RootParts DEF Built
    <3> QED BY <3>1, <3>2 DEF TreeInv, TreeIs
  <2>3. ASSUME NEW key \in content, Removed(tree, key).thrown PROVE Merges(treeSearch(tree, key))
    <3> DEFINE x == treeSearch(tree, key)
    <3>1. Stuck(tree, x)
      BY <2>2, <2>3, TreeRemove, NoThrow DEF TreeInv
    <3> HIDE DEF x
    <3>2. tree # Empty
      BY <3>1 DEF Stuck, Empty, Nodes
    <3>3. PICK B, H : Built(tree, B, H)
      BY <3>2 DEF TreeInv, TreeIs, GoodTree
    <3>4. Parent(tree, x) \in Nodes(tree) /\ Parent(tree, x) # tree.root
      BY <3>1, <3>3, ParentParts DEF Stuck
    <3>5. Parent(tree, Parent(tree, x)) # 0
      BY <3>3, <3>4, RootParts
    <3> QED BY <3>1, <3>5 DEF Merges, Stuck, Parent, x
  <2> QED BY <2>1, <2>2, <2>3 DEF OnlyDeepMergesThrow
<1> QED BY <1>1, TreeAlwaysBuilt, PTL
===============================================================================
