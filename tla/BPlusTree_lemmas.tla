--------------------------- MODULE BPlusTree_lemmas ---------------------------
(*****************************************************************************)
(* What it is for the counting collection of BPlusTree to be a B+ tree, and  *)
(* what searching, counting, splitting and adding do to one, for any         *)
(* branching factor from 4 on.                                               *)
(*                                                                           *)
(* B gives the values under each node and H the height of each node over the *)
(* leaves.  Built(T, B, H) says that the nodes of T form one tree over its   *)
(* values, Told(T, B) that what every inner node keeps of its children (size *)
(* and bounds) is true, and AllSized(T) that each node but the root has at   *)
(* least minChildren and at most maxChildren.  The conditions are about a    *)
(* tree as a value and not about the variable, for the operations go through *)
(* trees that no step ends in.                                               *)
(*                                                                           *)
(* The loops of the code run over the levels and are functions in the model. *)
(* What they do is shown as it would be by induction on the level: a level   *)
(* where it fails would have a lowest one.                                   *)
(*****************************************************************************)
EXTENDS BPlusTree, FiniteSetTheorems, SequenceTheorems, WellFoundedInduction,
        TLAPS

-------------------------------------------------------------------------------
(* Sums over a finite set.  FiniteSetsExt sums by recursion on the set; a    *)
(* set of counterexamples to these facts would have a smallest member.       *)

SumOf(f, U) == MapThenSumSet(LAMBDA x : f[x], U)

Pick(s) == CHOOSE x \in s : TRUE

\* g solves the recursion for the sums of f over the subsets of U.
Solves(g, f, U) ==
  g = [s \in SUBSET U |-> IF s = {} THEN 0 ELSE f[Pick(s)] + g[s \ {Pick(s)}]]

\* The sum is the value of the function the recursion chooses.
LEMMA SumChosen == ASSUME NEW f, NEW U PROVE SumOf(f, U) = (CHOOSE g : Solves(g, f, U))[U]
BY DEF SumOf, MapThenSumSet, MapThenFoldSet, Solves, Pick

\* What is picked is a member.
LEMMA PickIn == ASSUME NEW s, s # {} PROVE Pick(s) \in s
BY DEF Pick

\* A set of subsets of a finite set has a smallest member.
LEMMA Smallest ==
  ASSUME NEW U, IsFiniteSet(U), NEW T \in SUBSET SUBSET U, T # {}
  PROVE  \E s \in T : \A r \in SUBSET s : r # s => r \notin T
<1>1. IsWellFoundedOn(StrictSubsetOrdering(U), SUBSET U)
  BY FS_StrictSubsetOrderingWellFounded, FS_FiniteSubsetsOfFinite
<1>2. PICK s \in T : \A r \in T : <<r, s>> \notin StrictSubsetOrdering(U)
  BY <1>1, WFMin
<1> QED BY <1>2 DEF StrictSubsetOrdering

\* Solutions agree where both are defined.
LEMMA SolutionsAgree ==
  ASSUME NEW U, IsFiniteSet(U), NEW f, NEW V \in SUBSET U, NEW W \in SUBSET U,
         NEW g, Solves(g, f, V), NEW h, Solves(h, f, W)
  PROVE  \A s \in SUBSET (V \cap W) : g[s] = h[s]
<1> DEFINE T == {s \in SUBSET (V \cap W) : g[s] # h[s]}
<1>1. SUFFICES ASSUME T # {} PROVE FALSE
  OBVIOUS
<1>2. PICK s \in T : \A r \in SUBSET s : r # s => r \notin T
  <2>1. T \in SUBSET SUBSET U
    OBVIOUS
  <2> HIDE DEF T
  <2> QED BY <1>1, <2>1, Smallest
<1>3. /\ g[s] = IF s = {} THEN 0 ELSE f[Pick(s)] + g[s \ {Pick(s)}]
      /\ h[s] = IF s = {} THEN 0 ELSE f[Pick(s)] + h[s \ {Pick(s)}]
  BY DEF Solves
<1>4. s # {}
  BY <1>3
<1>5. g[s \ {Pick(s)}] = h[s \ {Pick(s)}]
  BY <1>2, <1>4, PickIn
<1> QED BY <1>3, <1>4, <1>5

\* The recursion has a solution.
LEMMA SolutionExists ==
  ASSUME NEW U, IsFiniteSet(U), NEW f
  PROVE  \A V \in SUBSET U : \E g : Solves(g, f, V)
<1> DEFINE T == {V \in SUBSET U : ~ \E g : Solves(g, f, V)}
<1>1. SUFFICES ASSUME T # {} PROVE FALSE
  OBVIOUS
<1>2. PICK V \in T : \A r \in SUBSET V : r # V => r \notin T
  <2>1. T \in SUBSET SUBSET U
    OBVIOUS
  <2> HIDE DEF T
  <2> QED BY <1>1, <2>1, Smallest
<1> DEFINE of(r) == CHOOSE g : Solves(g, f, r)
           G == [s \in SUBSET V |->
                   IF s = {} THEN 0 ELSE f[Pick(s)] + of(s \ {Pick(s)})[s \ {Pick(s)}]]
<1>3. \A r \in SUBSET V : r # V => Solves(of(r), f, r)
  BY <1>2
<1> HIDE DEF of
<1>4. \A r \in SUBSET V : r # V => G[r] = of(r)[r]
  <2> SUFFICES ASSUME NEW r \in SUBSET V, r # V PROVE G[r] = of(r)[r]
    OBVIOUS
  <2> DEFINE q == r \ {Pick(r)}
  <2>1. of(r)[r] = IF r = {} THEN 0 ELSE f[Pick(r)] + of(r)[q]
    BY <1>3 DEF Solves
  <2>2. Solves(of(r), f, r) /\ Solves(of(q), f, q)
    BY <1>3
  <2>3. of(r)[q] = of(q)[q]
    BY <2>2, SolutionsAgree
  <2> QED BY <2>1, <2>3
<1>5. \A s \in SUBSET V : s # {} => G[s \ {Pick(s)}] = of(s \ {Pick(s)})[s \ {Pick(s)}]
  BY <1>4, PickIn
<1>6. Solves(G, f, V)
  <2> DEFINE H == [s \in SUBSET V |-> IF s = {} THEN 0 ELSE f[Pick(s)] + G[s \ {Pick(s)}]]
  <2>1. \A s \in SUBSET V : G[s] = H[s]
    BY <1>5
  <2>2. G = H
    BY <2>1
  <2> QED BY <2>2 DEF Solves
<1> QED BY <1>6

\* The sum, one summand at a time: first the one the recursion picks.
LEMMA SumPicks ==
  ASSUME NEW U, IsFiniteSet(U), NEW f
  PROVE  SumOf(f, U) = IF U = {} THEN 0 ELSE f[Pick(U)] + SumOf(f, U \ {Pick(U)})
<1> DEFINE g == CHOOSE h : Solves(h, f, U)
           r == U \ {Pick(U)}
           k == CHOOSE h : Solves(h, f, r)
<1>1. Solves(g, f, U) /\ Solves(k, f, r)
  BY SolutionExists
<1>2. SumOf(f, U) = g[U] /\ SumOf(f, r) = k[r]
  BY SumChosen
<1> HIDE DEF g, k
<1>3. g[r] = k[r]
  BY <1>1, SolutionsAgree
<1>4. g[U] = IF U = {} THEN 0 ELSE f[Pick(U)] + g[r]
  BY <1>1 DEF Solves
<1> QED BY <1>2, <1>3, <1>4

\* A sum of integers is an integer.
LEMMA SumInt ==
  ASSUME NEW U, IsFiniteSet(U), NEW f, \A x \in U : f[x] \in Int
  PROVE  SumOf(f, U) \in Int
<1> DEFINE T == {s \in SUBSET U : SumOf(f, s) \notin Int}
<1>1. SUFFICES ASSUME T # {} PROVE FALSE
  OBVIOUS
<1>2. PICK s \in T : \A r \in SUBSET s : r # s => r \notin T
  <2>1. T \in SUBSET SUBSET U
    OBVIOUS
  <2> HIDE DEF T
  <2> QED BY <1>1, <2>1, Smallest
<1>3. SumOf(f, s) = IF s = {} THEN 0 ELSE f[Pick(s)] + SumOf(f, s \ {Pick(s)})
  BY FS_Subset, SumPicks
<1>4. s # {}
  BY <1>3
<1>5. SumOf(f, s \ {Pick(s)}) \in Int /\ Pick(s) \in U
  BY <1>2, <1>4, PickIn
<1> QED BY <1>3, <1>4, <1>5

-------------------------------------------------------------------------------
(* Least and greatest numbers, the sizes of disjoint sets, and the loops of  *)
(* the model.                                                                *)

\* A set of numbers has a least one.
LEMMA Lowest ==
  ASSUME NEW T \in SUBSET Nat, T # {}
  PROVE  \E x \in T : \A y \in T : x <= y
<1> DEFINE R == {ss \in Nat \X Nat : ss[1] < ss[2]}
<1>1. IsWellFoundedOn(R, Nat)
  BY NatLessThanWellFounded, Zenon DEF OpToRel
<1>2. \A x, y \in Nat : x < y => <<x, y>> \in R
  OBVIOUS
<1> HIDE DEF R
<1>3. PICK x \in T : \A y \in T : <<y, x>> \notin R
  BY <1>1, WFMin
<1>4. \A y \in T : x \in Nat /\ y \in Nat /\ ~(y < x)
  BY <1>2, <1>3
<1> QED BY <1>4

\* A bounded set of numbers has a greatest one.
LEMMA Highest ==
  ASSUME NEW n \in Nat, NEW T \in SUBSET (0..n), T # {}
  PROVE  \E x \in T : \A y \in T : y <= x
<1> DEFINE R == {k \in Nat : n - k \in T}
<1>1. \A x \in T : n - x \in R
  OBVIOUS
<1>2. PICK k \in R : \A m \in R : k <= m
  BY <1>1, Lowest
<1> QED BY <1>1, <1>2

\* Min finds the least number of a set.
LEMMA MinIs ==
  ASSUME NEW S \in SUBSET Nat, S # {}
  PROVE  Min(S) \in S /\ \A y \in S : Min(S) <= y
BY Lowest DEF Min

\* Max finds the greatest number of a finite set.
LEMMA MaxIs ==
  ASSUME NEW S \in SUBSET Nat, IsFiniteSet(S), S # {}
  PROVE  Max(S) \in S /\ \A y \in S : y <= Max(S)
<1> DEFINE Bounded(r) == \E x \in r : \A y \in r : y <= x
           T == {r \in SUBSET S : r # {} /\ ~Bounded(r)}
<1>1. SUFFICES ASSUME T # {} PROVE FALSE
  <2>1. S \notin T
    BY <1>1
  <2>2. PICK x \in S : \A y \in S : y <= x
    BY <2>1
  <2>3. \A y \in S : x >= y
    BY <2>2
  <2> QED BY <2>3 DEF Max
<1>2. PICK r \in T : \A q \in SUBSET r : q # r => q \notin T
  <2>1. T \in SUBSET SUBSET S
    OBVIOUS
  <2> HIDE DEF T
  <2> QED BY <1>1, <2>1, Smallest
<1>3. PICK x \in r : TRUE
  OBVIOUS
<1>4. r \ {x} = {} \/ Bounded(r \ {x})
  BY <1>2, <1>3
<1>5. CASE r \ {x} = {}
  BY <1>3, <1>5
<1>6. CASE Bounded(r \ {x})
  <2>1. PICK m \in r \ {x} : \A y \in r \ {x} : y <= m
    BY <1>6
  <2>2. m \in Nat /\ x \in Nat
    BY <1>3
  <2>3. CASE m <= x
    BY <1>3, <2>1, <2>2, <2>3
  <2>4. CASE x <= m
    BY <1>3, <2>1, <2>2, <2>4
  <2> QED BY <2>2, <2>3, <2>4
<1> QED BY <1>4, <1>5, <1>6

\* The sizes of disjoint sets add up to the size of their union.
LEMMA UnionCount ==
  ASSUME NEW U, IsFiniteSet(U), NEW S, NEW f,
         \A i \in U : IsFiniteSet(S[i]) /\ f[i] = Cardinality(S[i]),
         \A i, j \in U : i # j => S[i] \cap S[j] = {},
         NEW W, \A v : v \in W <=> \E i \in U : v \in S[i]
  PROVE  IsFiniteSet(W) /\ SumOf(f, U) = Cardinality(W)
<1> DEFINE All(s) == UNION {S[i] : i \in s}
           Right(s) == IsFiniteSet(All(s)) /\ SumOf(f, s) = Cardinality(All(s))
           T == {s \in SUBSET U : ~Right(s)}
<1>1. SUFFICES ASSUME T # {} PROVE FALSE
  <2>1. W = All(U)
    OBVIOUS
  <2>2. U \notin T
    BY <1>1
  <2> QED BY <2>1, <2>2
<1>2. PICK s \in T : \A r \in SUBSET s : r # s => r \notin T
  <2>1. T \in SUBSET SUBSET U
    OBVIOUS
  <2> HIDE DEF T
  <2> QED BY <1>1, <2>1, Smallest
<1> DEFINE p == Pick(s)
           r == s \ {p}
<1>3. s \in SUBSET U /\ IsFiniteSet(s)
  BY FS_Subset
<1>4. SumOf(f, s) = IF s = {} THEN 0 ELSE f[p] + SumOf(f, r)
  BY <1>3, SumPicks
<1>5. s # {}
  <2>1. All({}) = {}
    OBVIOUS
  <2> QED BY <1>2, <1>4, <2>1, FS_EmptySet
<1>6. p \in s /\ Right(r)
  BY <1>2, <1>5, PickIn
<1>7. All(s) = All(r) \cup S[p] /\ All(r) \cap S[p] = {}
  BY <1>3, <1>6
<1>8. IsFiniteSet(S[p]) /\ f[p] = Cardinality(S[p])
  BY <1>3, <1>6
<1> HIDE DEF p, r, All
<1>9. /\ IsFiniteSet(All(s))
      /\ Cardinality(All(s)) = Cardinality(All(r)) + Cardinality(S[p]) - Cardinality({})
  <2> DEFINE a == All(r)
             b == S[p]
  <2>1. IsFiniteSet(a) /\ IsFiniteSet(b) /\ All(s) = a \cup b /\ a \cap b = {}
    BY <1>6, <1>7, <1>8
  <2> HIDE DEF a, b
  <2>2. /\ IsFiniteSet(a \cup b)
        /\ Cardinality(a \cup b) = Cardinality(a) + Cardinality(b) - Cardinality(a \cap b)
    BY ONLY <2>1, FS_Union
  <2>3. /\ IsFiniteSet(All(s))
        /\ Cardinality(All(s)) = Cardinality(a) + Cardinality(b) - Cardinality({})
    BY <2>1, <2>2
  <2> QED BY <2>3 DEF a, b
<1>10. Cardinality(All(r)) \in Nat /\ Cardinality(S[p]) \in Nat /\ Cardinality({}) = 0
  BY <1>6, <1>8, FS_CardinalityType, FS_EmptySet
<1>11. Right(s)
  BY <1>4, <1>5, <1>6, <1>8, <1>9, <1>10
<1> QED BY <1>2, <1>11

\* The total of an inner node is a sum.
LEMMA TotalIs == ASSUME NEW f PROVE Total(f) = SumOf(f, DOMAIN f)
BY DEF Total, SumOf

Down(T, key, id) == IF IsLeaf(T.node[id]) THEN id ELSE ChildFor(T.node[id].children, key)

\* The rounds of the four loops: telling, splitting, merging and going down.
Round(loop, T, key, s) ==
  IF loop = 1 THEN Tell(s) ELSE IF loop = 2 THEN Split(s) ELSE IF loop = 3 THEN Merge(s)
  ELSE Down(T, key, s)

Runs(f, loop, T, key, a, n) ==
  f = [i \in 0..n |-> IF i = 0 THEN a ELSE Round(loop, T, key, f[i - 1])]

\* Every loop has its sequence of rounds.
LEMMA RoundsExist ==
  ASSUME NEW loop, NEW T, NEW key, NEW a, NEW n \in Nat
  PROVE  \E f : Runs(f, loop, T, key, a, n)
<1> DEFINE Some(m) == \E f : Runs(f, loop, T, key, a, m)
           S == {m \in Nat : ~Some(m)}
<1>1. SUFFICES ASSUME S # {} PROVE FALSE
  OBVIOUS
<1>2. PICK m \in S : \A k \in S : m <= k
  BY <1>1, Lowest
<1>3. m # 0
  <2> DEFINE f == [i \in 0..0 |-> a]
  <2>1. f = [i \in 0..0 |-> IF i = 0 THEN a ELSE Round(loop, T, key, f[i - 1])]
    OBVIOUS
  <2> HIDE DEF f
  <2> QED BY <1>2, <2>1 DEF Runs
<1>4. m \in Nat /\ m - 1 \in Nat /\ Some(m - 1)
  <2>1. m \in Nat /\ m - 1 \in Nat /\ ~(m <= m - 1)
    BY <1>2, <1>3
  <2> QED BY <1>2, <2>1
<1>5. PICK g : g = [i \in 0..m - 1 |-> IF i = 0 THEN a ELSE Round(loop, T, key, g[i - 1])]
  BY <1>4 DEF Runs
<1> DEFINE f == [i \in 0..m |-> IF i = 0 THEN a ELSE Round(loop, T, key, g[i - 1])]
           h == [i \in 0..m |-> IF i = 0 THEN a ELSE Round(loop, T, key, f[i - 1])]
<1>6. \A i \in 0..m : i # 0 => f[i - 1] = g[i - 1]
  <2> SUFFICES ASSUME NEW i \in 0..m, i # 0 PROVE f[i - 1] = g[i - 1]
    OBVIOUS
  <2>1. i - 1 \in 0..m - 1 /\ i - 1 \in 0..m
    BY <1>4
  <2>2. g[i - 1] = IF i - 1 = 0 THEN a ELSE Round(loop, T, key, g[i - 1 - 1])
    BY <1>5, <2>1
  <2> QED BY <2>1, <2>2
<1>7. \A i \in 0..m : f[i] = h[i]
  BY <1>6
<1>8. f = h
  BY <1>7
<1>9. Some(m)
  <2>1. f = [i \in 0..m |-> IF i = 0 THEN a ELSE Round(loop, T, key, f[i - 1])]
    BY <1>8
  <2> HIDE DEF f, h
  <2> QED BY <2>1 DEF Runs
<1> QED BY <1>2, <1>9

\* Telling the ancestors has its sequence of rounds.
LEMMA ToldExists ==
  ASSUME NEW a, NEW n \in Nat
  PROVE  \E f : f = [i \in 0..n |-> IF i = 0 THEN a ELSE Tell(f[i - 1])]
<1>1. PICK f : Runs(f, 1, 0, 0, a, n)
  BY RoundsExist
<1>2. \A s : Round(1, 0, 0, s) = Tell(s)
  BY DEF Round
<1>3. f = [i \in 0..n |-> IF i = 0 THEN a ELSE Tell(f[i - 1])]
  BY <1>1, <1>2 DEF Runs
<1> QED BY <1>3

-------------------------------------------------------------------------------
(* A tree as it should be.  B gives the values under each node and H its     *)
(* height over the leaves (Built); what is kept of children is true (Told).  *)

Child == [id : Nat, min : Nat, max : Nat, count : Int]
Node == [parent : Nat, values : SUBSET Keys, children : Seq(Child)]

Nodes(T) == DOMAIN T.node
Children(T, d) == T.node[d].children
ChildId(T, d, i) == T.node[d].children[i].id
Parent(T, d) == T.node[d].parent

\* The nodes of a tree are nodes, and nothing was thrown.
WellTyped(T) ==
  /\ T = [root |-> T.root, node |-> T.node, thrown |-> FALSE]
  /\ T.node = [d \in Nodes(T) |-> T.node[d]]
  /\ IsFiniteSet(Nodes(T)) /\ Nodes(T) \subseteq Nat \ {0} /\ T.root \in Nodes(T)
  /\ \A d \in Nodes(T) : T.node[d] \in Node

IsLeafOf(T, B, d) == T.node[d].values = B[d] /\ Children(T, d) = <<>>

IsInnerOf(T, B, H, d) ==
  /\ T.node[d].values = {} /\ Children(T, d) # <<>>
  /\ \A i \in DOMAIN Children(T, d) :
        LET c == ChildId(T, d, i)
        IN  c \in Nodes(T) /\ Parent(T, c) = d /\ H[c] + 1 = H[d]
  /\ \A i, j \in DOMAIN Children(T, d) : i < j =>
        \A a \in B[ChildId(T, d, i)], b \in B[ChildId(T, d, j)] : a < b
  /\ B[d] = UNION {B[ChildId(T, d, i)] : i \in DOMAIN Children(T, d)}

Built(T, B, H) ==
  /\ WellTyped(T)
  /\ B \in [Nodes(T) -> SUBSET Keys] /\ H \in [Nodes(T) -> Nat]
  /\ \A d \in Nodes(T) : B[d] # {} /\ IsFiniteSet(B[d]) /\ H[d] <= H[T.root]
  /\ \A d \in Nodes(T) : IF H[d] = 0 THEN IsLeafOf(T, B, d) ELSE IsInnerOf(T, B, H, d)
  /\ Parent(T, T.root) = 0
  /\ \A d \in Nodes(T) \ {T.root} :
        Parent(T, d) \in Nodes(T)
          /\ \E i \in DOMAIN Children(T, Parent(T, d)) : ChildId(T, Parent(T, d), i) = d

\* What a parent should keep of a child, and does, but for x and what is above it.
TrueEntry(B, d) ==
  [id |-> d, min |-> Min(B[d]), max |-> Max(B[d]), count |-> Cardinality(B[d])]
Above(B, H, x, d) == H[x] <= H[d] /\ B[x] \subseteq B[d]
Told(T, B) ==
  \A d \in Nodes(T) : \A i \in DOMAIN Children(T, d) :
    Children(T, d)[i] = TrueEntry(B, ChildId(T, d, i))
ToldBut(T, B, H, x) ==
  \A d \in Nodes(T) : \A i \in DOMAIN Children(T, d) :
    ~Above(B, H, x, ChildId(T, d, i)) => Children(T, d)[i] = TrueEntry(B, ChildId(T, d, i))

\* What is known of each node of a built tree.
LEMMA NodeParts ==
  ASSUME NEW T, NEW B, NEW H, Built(T, B, H), NEW d \in Nodes(T)
  PROVE  /\ d \in Nat /\ d # 0 /\ T.node[d] \in Node
         /\ Children(T, d) \in Seq(Child) /\ DOMAIN Children(T, d) = 1..Len(Children(T, d))
         /\ Len(Children(T, d)) \in Nat /\ Parent(T, d) \in Nat
         /\ B[d] \in SUBSET Nat /\ B[d] # {} /\ IsFiniteSet(B[d])
         /\ H[d] \in Nat /\ H[d] <= H[T.root]
         /\ \A i \in DOMAIN Children(T, d) : Children(T, d)[i] \in Child
<1>1. /\ d \in Nat /\ d # 0 /\ T.node[d] \in Node
      /\ B[d] \in SUBSET Keys /\ B[d] # {} /\ IsFiniteSet(B[d])
      /\ H[d] \in Nat /\ H[d] <= H[T.root]
  BY DEF Built, WellTyped
<1>2. Children(T, d) \in Seq(Child) /\ Parent(T, d) \in Nat
  BY <1>1 DEF Node, Children, Parent
<1>3. B[d] \in SUBSET Nat
  BY <1>1, BranchAssumption
<1> QED BY <1>1, <1>2, <1>3

\* The root, and only the root, has no parent.
LEMMA RootParts ==
  ASSUME NEW T, NEW B, NEW H, Built(T, B, H)
  PROVE  /\ T.root \in Nodes(T) /\ Parent(T, T.root) = 0
         /\ \A d \in Nodes(T) : (Parent(T, d) = 0) <=> (d = T.root)
<1>1. T.root \in Nodes(T) /\ Parent(T, T.root) = 0 /\ 0 \notin Nodes(T)
  BY DEF Built, WellTyped
<1>2. \A d \in Nodes(T) \ {T.root} : Parent(T, d) \in Nodes(T)
  BY DEF Built
<1> QED BY <1>1, <1>2

\* The leaves are the nodes of height 0.
LEMMA LeafParts ==
  ASSUME NEW T, NEW B, NEW H, Built(T, B, H), NEW d \in Nodes(T)
  PROVE  /\ IsLeaf(T.node[d]) <=> H[d] = 0
         /\ H[d] = 0 => T.node[d].values = B[d] /\ Children(T, d) = <<>>
         /\ H[d] # 0 => T.node[d].values = {} /\ Children(T, d) # <<>>
                          /\ Len(Children(T, d)) >= 1
<1>1. IF H[d] = 0 THEN IsLeafOf(T, B, d) ELSE IsInnerOf(T, B, H, d)
  BY DEF Built
<1>2. H[d] = 0 => T.node[d].values = B[d] /\ Children(T, d) = <<>>
  BY <1>1 DEF IsLeafOf
<1>3. H[d] # 0 => T.node[d].values = {} /\ Children(T, d) # <<>>
  BY <1>1 DEF IsInnerOf
<1>4. Children(T, d) # <<>> => Len(Children(T, d)) >= 1
  BY NodeParts
<1> QED BY <1>2, <1>3, <1>4 DEF IsLeaf, Children

\* A child is one level below its parent and names it.
LEMMA ChildParts ==
  ASSUME NEW T, NEW B, NEW H, Built(T, B, H), NEW d \in Nodes(T),
         NEW i \in DOMAIN Children(T, d)
  PROVE  LET c == ChildId(T, d, i)
         IN  /\ c \in Nodes(T) /\ Parent(T, c) = d /\ H[c] + 1 = H[d] /\ H[c] \in Nat
             /\ c # T.root /\ c # d /\ B[c] \subseteq B[d]
<1>1. H[d] # 0
  <2>1. H[d] = 0 => Children(T, d) = <<>>
    BY LeafParts
  <2> QED BY <2>1
<1>2. IsInnerOf(T, B, H, d)
  BY <1>1 DEF Built
<1> DEFINE c == ChildId(T, d, i)
<1>3. c \in Nodes(T) /\ Parent(T, c) = d /\ H[c] + 1 = H[d] /\ B[c] \subseteq B[d]
  BY <1>2 DEF IsInnerOf
<1>4. c # T.root /\ H[c] \in Nat
  BY <1>3, RootParts, NodeParts
<1> HIDE DEF c
<1>5. c # d
  BY <1>3, <1>4
<1> QED BY <1>3, <1>4, <1>5 DEF c

\* The values under two children of a node are apart, in the order of the children.
LEMMA ChildrenApart ==
  ASSUME NEW T, NEW B, NEW H, Built(T, B, H), NEW d \in Nodes(T),
         NEW i \in DOMAIN Children(T, d), NEW j \in DOMAIN Children(T, d)
  PROVE  LET x == ChildId(T, d, i)
             y == ChildId(T, d, j)
         IN  /\ i < j => \A a \in B[x], b \in B[y] : a < b
             /\ i # j => B[x] \cap B[y] = {} /\ x # y
<1>1. H[d] # 0
  <2>1. H[d] = 0 => Children(T, d) = <<>>
    BY LeafParts
  <2> QED BY <2>1
<1> DEFINE x == ChildId(T, d, i)
           y == ChildId(T, d, j)
<1>2. i < j => \A a \in B[x], b \in B[y] : a < b
  BY <1>1 DEF Built, IsInnerOf
<1>3. j < i => \A a \in B[y], b \in B[x] : a < b
  BY <1>1 DEF Built, IsInnerOf
<1>4. /\ B[x] \in SUBSET Nat /\ B[x] # {}
      /\ B[y] \in SUBSET Nat /\ B[y] # {}
      /\ i \in Nat /\ j \in Nat
  BY ChildParts, NodeParts
<1> HIDE DEF x, y
<1>5. i # j => B[x] \cap B[y] = {}
  <2>1. SUFFICES ASSUME i # j, NEW v \in B[x] \cap B[y] PROVE FALSE
    OBVIOUS
  <2>2. v \in Nat /\ (i < j \/ j < i)
    BY <1>4, <2>1
  <2>3. v < v
    BY <1>2, <1>3, <2>2
  <2> QED BY <2>2, <2>3
<1>6. i # j => x # y
  BY <1>4, <1>5
<1> QED BY <1>2, <1>5, <1>6 DEF x, y

\* Under an inner node are the values under its children.
LEMMA InnerUnion ==
  ASSUME NEW T, NEW B, NEW H, Built(T, B, H), NEW d \in Nodes(T), H[d] # 0, NEW v
  PROVE  v \in B[d] <=> \E i \in DOMAIN Children(T, d) : v \in B[ChildId(T, d, i)]
BY DEF Built, IsInnerOf

\* The parent is one level above and lists the node.
LEMMA ParentParts ==
  ASSUME NEW T, NEW B, NEW H, Built(T, B, H), NEW d \in Nodes(T), d # T.root
  PROVE  LET p == Parent(T, d)
         IN  /\ p \in Nodes(T) /\ p # 0 /\ H[p] = H[d] + 1 /\ B[d] \subseteq B[p]
             /\ \E i \in DOMAIN Children(T, p) : ChildId(T, p, i) = d
<1> DEFINE p == Parent(T, d)
<1>1. p \in Nodes(T) /\ \E i \in DOMAIN Children(T, p) : ChildId(T, p, i) = d
  BY DEF Built
<1>2. PICK i \in DOMAIN Children(T, p) : ChildId(T, p, i) = d
  BY <1>1
<1>3. H[d] + 1 = H[p] /\ B[d] \subseteq B[p] /\ p # 0
  BY <1>1, <1>2, ChildParts, NodeParts
<1> QED BY <1>1, <1>3

\* The heights from some node on: the highest node with a property.
LEMMA HighestNode ==
  ASSUME NEW T, NEW B, NEW H, Built(T, B, H), NEW S \in SUBSET Nodes(T), S # {}
  PROVE  \E x \in S : \A y \in S : H[y] <= H[x]
<1> DEFINE heights == {H[y] : y \in S}
<1>1. \A y \in S : H[y] \in 0..H[T.root] /\ H[T.root] \in Nat
  BY NodeParts, RootParts
<1>2. H[T.root] \in Nat /\ heights \in SUBSET (0..H[T.root]) /\ heights # {}
  BY <1>1
<1>3. PICK h \in heights : \A k \in heights : k <= h
  BY <1>2, Highest
<1>4. PICK x \in S : h = H[x]
  OBVIOUS
<1> QED BY <1>3, <1>4

\* The lowest node with a property.
LEMMA LowestNode ==
  ASSUME NEW T, NEW B, NEW H, Built(T, B, H), NEW S \in SUBSET Nodes(T), S # {}
  PROVE  \E x \in S : \A y \in S : H[x] <= H[y]
<1> DEFINE heights == {H[y] : y \in S}
<1>1. \A y \in S : H[y] \in Nat
  BY NodeParts
<1>2. heights \in SUBSET Nat /\ heights # {}
  BY <1>1
<1>3. PICK h \in heights : \A k \in heights : h <= k
  BY <1>2, Lowest
<1>4. PICK x \in S : h = H[x]
  OBVIOUS
<1> QED BY <1>3, <1>4

\* There is one node on the highest level.
LEMMA OneRoot ==
  ASSUME NEW T, NEW B, NEW H, Built(T, B, H), NEW d \in Nodes(T), H[d] = H[T.root]
  PROVE  d = T.root
<1>1. SUFFICES ASSUME d # T.root PROVE FALSE
  OBVIOUS
<1>2. Parent(T, d) \in Nodes(T) /\ H[Parent(T, d)] = H[d] + 1
  BY <1>1, ParentParts
<1> QED BY <1>2, NodeParts

\* Nodes of one level have no values in common.
LEMMA LevelApart ==
  ASSUME NEW T, NEW B, NEW H, Built(T, B, H), NEW x \in Nodes(T), NEW y \in Nodes(T),
         H[x] = H[y], x # y
  PROVE  B[x] \cap B[y] = {}
<1> DEFINE Clash(d) == \E e \in Nodes(T) : H[d] = H[e] /\ d # e /\ B[d] \cap B[e] # {}
           S == {d \in Nodes(T) : Clash(d)}
<1>1. SUFFICES ASSUME S # {} PROVE FALSE
  OBVIOUS
<1>2. PICK d \in S : \A e \in S : H[e] <= H[d]
  <2> HIDE DEF S
  <2>1. S \in SUBSET Nodes(T)
    BY DEF S
  <2> QED BY <1>1, <2>1, HighestNode
<1>3. PICK e \in Nodes(T) : H[d] = H[e] /\ d # e /\ B[d] \cap B[e] # {}
  OBVIOUS
<1>4. d # T.root /\ e # T.root
  BY <1>3, OneRoot
<1> DEFINE p == Parent(T, d)
           q == Parent(T, e)
<1>5. /\ p \in Nodes(T) /\ H[p] = H[d] + 1 /\ B[d] \subseteq B[p]
      /\ q \in Nodes(T) /\ H[q] = H[e] + 1 /\ B[e] \subseteq B[q]
      /\ H[d] \in Nat
  <2>1. p \in Nodes(T) /\ H[p] = H[d] + 1 /\ B[d] \subseteq B[p]
    BY <1>4, ParentParts
  <2>2. q \in Nodes(T) /\ H[q] = H[e] + 1 /\ B[e] \subseteq B[q]
    BY <1>3, <1>4, ParentParts
  <2> QED BY <2>1, <2>2, NodeParts
<1>6. CASE p = q
  <2>1. /\ \E i \in DOMAIN Children(T, p) : ChildId(T, p, i) = d
        /\ \E j \in DOMAIN Children(T, p) : ChildId(T, p, j) = e
    BY <1>3, <1>4, <1>6, ParentParts
  <2>2. PICK i \in DOMAIN Children(T, p), j \in DOMAIN Children(T, p) :
           ChildId(T, p, i) = d /\ ChildId(T, p, j) = e
    BY <2>1
  <2>3. i # j
    BY <1>3, <2>2
  <2> QED BY <1>3, <1>5, <2>2, <2>3, ChildrenApart
<1>7. CASE p # q
  <2>1. B[p] \cap B[q] # {} /\ H[p] = H[q]
    BY <1>3, <1>5
  <2>2. p \in S
    BY <1>5, <1>7, <2>1
  <2>3. H[p] <= H[d]
    BY <1>2, <2>2
  <2> QED BY <1>5, <2>3
<1> QED BY <1>6, <1>7

\* What meets a higher node lies under it.
LEMMA Nested ==
  ASSUME NEW T, NEW B, NEW H, Built(T, B, H), NEW x \in Nodes(T), NEW y \in Nodes(T),
         H[x] <= H[y], B[x] \cap B[y] # {}
  PROVE  B[x] \subseteq B[y]
<1> DEFINE S == {d \in Nodes(T) : H[d] <= H[y] /\ B[d] \cap B[y] # {} /\ ~(B[d] \subseteq B[y])}
<1>1. SUFFICES ASSUME S # {} PROVE FALSE
  OBVIOUS
<1>2. PICK d \in S : \A e \in S : H[e] <= H[d]
  <2> HIDE DEF S
  <2>1. S \in SUBSET Nodes(T)
    BY DEF S
  <2> QED BY <1>1, <2>1, HighestNode
<1>3. H[d] # H[y]
  BY LevelApart
<1>4. H[d] \in Nat /\ H[y] \in Nat /\ H[y] <= H[T.root] /\ H[T.root] \in Nat
  BY NodeParts, RootParts
<1>5. d # T.root
  BY <1>3, <1>4
<1> DEFINE p == Parent(T, d)
<1>6. p \in Nodes(T) /\ H[p] = H[d] + 1 /\ B[d] \subseteq B[p]
  BY <1>5, ParentParts
<1>7. H[p] <= H[y] /\ ~(H[p] <= H[d])
  BY <1>3, <1>4, <1>6
<1>8. p \notin S
  BY <1>2, <1>7
<1> QED BY <1>6, <1>7, <1>8

\* Under the root are the values under every node.
LEMMA RootAll ==
  ASSUME NEW T, NEW B, NEW H, Built(T, B, H), NEW x \in Nodes(T)
  PROVE  B[x] \subseteq B[T.root]
<1> DEFINE S == {d \in Nodes(T) : ~(B[d] \subseteq B[T.root])}
<1>1. SUFFICES ASSUME S # {} PROVE FALSE
  OBVIOUS
<1>2. PICK d \in S : \A e \in S : H[e] <= H[d]
  <2> HIDE DEF S
  <2>1. S \in SUBSET Nodes(T)
    BY DEF S
  <2> QED BY <1>1, <2>1, HighestNode
<1>3. d # T.root /\ H[d] \in Nat
  BY NodeParts
<1>4. Parent(T, d) \in Nodes(T) /\ H[Parent(T, d)] = H[d] + 1 /\ B[d] \subseteq B[Parent(T, d)]
  BY <1>3, ParentParts
<1> QED BY <1>2, <1>3, <1>4

\* The values under a node are all on one side of any other value.
LEMMA Convex ==
  ASSUME NEW T, NEW B, NEW H, Built(T, B, H), NEW x \in Nodes(T),
         NEW v \in B[T.root] \ B[x], NEW a \in B[x], NEW b \in B[x]
  PROVE  v < a <=> v < b
<1> DEFINE S == {d \in Nodes(T) : v \notin B[d] /\ \E e, f \in B[d] : v < e /\ ~(v < f)}
<1>1. SUFFICES ASSUME S # {} PROVE FALSE
  OBVIOUS
<1>2. PICK d \in S : \A e \in S : H[e] <= H[d]
  <2> HIDE DEF S
  <2>1. S \in SUBSET Nodes(T)
    BY DEF S
  <2> QED BY <1>1, <2>1, HighestNode
<1>3. PICK e \in B[d], f \in B[d] : v < e /\ ~(v < f)
  OBVIOUS
<1>4. d # T.root /\ H[d] \in Nat
  BY NodeParts
<1> DEFINE p == Parent(T, d)
<1>5. p \in Nodes(T) /\ H[p] = H[d] + 1 /\ B[d] \subseteq B[p]
  BY <1>4, ParentParts
<1>6. v \in B[p]
  BY <1>2, <1>3, <1>4, <1>5
<1>7. PICK i \in DOMAIN Children(T, p) : ChildId(T, p, i) = d
  BY <1>4, ParentParts
<1>8. PICK j \in DOMAIN Children(T, p) : v \in B[ChildId(T, p, j)]
  BY <1>4, <1>5, <1>6, InnerUnion
<1>9. i # j /\ i \in Nat /\ j \in Nat
  <2>1. DOMAIN Children(T, p) = 1..Len(Children(T, p)) /\ Len(Children(T, p)) \in Nat
    BY <1>5, NodeParts
  <2> QED BY <1>7, <1>8, <2>1
<1>10. v \in Nat /\ e \in Nat /\ f \in Nat
  BY <1>3, <1>5, <1>6, NodeParts
<1>11. (i < j => e < v) /\ (j < i => v < f)
  BY <1>3, <1>5, <1>7, <1>8, ChildrenApart
<1> QED BY <1>3, <1>9, <1>10, <1>11

-------------------------------------------------------------------------------
(* Writing nodes and telling their ancestors.                                *)

\* A tree with other nodes.
LEMMA NodeExcept ==
  ASSUME NEW r, NEW g, NEW t, NEW f
  PROVE  [[root |-> r, node |-> g, thrown |-> t] EXCEPT !.node = f]
           = [root |-> r, node |-> f, thrown |-> t]
OBVIOUS

\* Writing a node changes that node only.
LEMMA WriteNode ==
  ASSUME NEW T, WellTyped(T), NEW id, id \in Nat \ {0}, NEW n, n \in Node,
         NEW U, U = writeNode(T, id, n)
  PROVE  /\ WellTyped(U) /\ U.root = T.root
         /\ Nodes(U) = Nodes(T) \cup {id}
         /\ \A d \in Nodes(U) : U.node[d] = IF d = id THEN n ELSE T.node[d]
<1> DEFINE f == [x \in DOMAIN T.node \cup {id} |-> IF x = id THEN n ELSE T.node[x]]
<1>1. U = [root |-> T.root, node |-> f, thrown |-> FALSE]
  <2>1. T = [root |-> T.root, node |-> T.node, thrown |-> FALSE]
    BY DEF WellTyped
  <2> HIDE DEF f
  <2>2. U = [T EXCEPT !.node = f]
    BY DEF writeNode, f
  <2>3. [[root |-> T.root, node |-> T.node, thrown |-> FALSE] EXCEPT !.node = f]
          = [root |-> T.root, node |-> f, thrown |-> FALSE]
    BY NodeExcept
  <2> QED BY <2>1, <2>2, <2>3
<1>2. f = [d \in Nodes(T) \cup {id} |-> IF d = id THEN n ELSE T.node[d]]
  BY DEF Nodes
<1> HIDE DEF f
<1>3. /\ U.root = T.root /\ U.node = f
      /\ U = [root |-> U.root, node |-> U.node, thrown |-> FALSE]
  BY <1>1
<1>4. /\ Nodes(U) = Nodes(T) \cup {id}
      /\ \A d \in Nodes(U) : U.node[d] = IF d = id THEN n ELSE T.node[d]
  BY <1>2, <1>3 DEF Nodes
<1>5. U.node = [d \in Nodes(U) |-> U.node[d]]
  BY <1>2, <1>3, <1>4
<1>6. /\ IsFiniteSet(Nodes(T)) /\ Nodes(T) \subseteq Nat \ {0} /\ T.root \in Nodes(T)
      /\ \A d \in Nodes(T) : T.node[d] \in Node
  BY DEF WellTyped
<1>7. IsFiniteSet(Nodes(U))
  BY <1>4, <1>6, FS_AddElement
<1>8. WellTyped(U)
  BY <1>3, <1>4, <1>5, <1>6, <1>7 DEF WellTyped
<1> QED BY <1>3, <1>4, <1>8

\* What should be kept of a child is an entry of it.
LEMMA TrueEntryType ==
  ASSUME NEW T, NEW B, NEW H, Built(T, B, H), NEW d \in Nodes(T)
  PROVE  TrueEntry(B, d) \in Child /\ TrueEntry(B, d).id = d
<1>1. d \in Nat /\ B[d] \in SUBSET Nat /\ B[d] # {} /\ IsFiniteSet(B[d])
  BY NodeParts
<1>2. Min(B[d]) \in Nat /\ Max(B[d]) \in Nat /\ Cardinality(B[d]) \in Nat
  BY <1>1, MinIs, MaxIs, FS_CardinalityType
<1> QED BY <1>1, <1>2 DEF TrueEntry, Child

\* A member that no other is below is the least.
LEMMA MinUnique ==
  ASSUME NEW S \in SUBSET Nat, NEW x \in S, \A y \in S : x <= y
  PROVE  Min(S) = x
<1>1. Min(S) \in S /\ \A y \in S : Min(S) <= y
  BY MinIs
<1>2. Min(S) \in Nat /\ x \in Nat /\ Min(S) <= x /\ x <= Min(S)
  BY <1>1
<1> QED BY <1>2

\* A member that no other is above is the greatest.
LEMMA MaxUnique ==
  ASSUME NEW S \in SUBSET Nat, IsFiniteSet(S), NEW x \in S, \A y \in S : y <= x
  PROVE  Max(S) = x
<1>1. Max(S) \in S /\ \A y \in S : y <= Max(S)
  BY MaxIs
<1>2. Max(S) \in Nat /\ x \in Nat /\ Max(S) <= x /\ x <= Max(S)
  BY <1>1
<1> QED BY <1>2

\* A node all of whose children are told of tells the truth.
LEMMA EntryTrue ==
  ASSUME NEW T, NEW B, NEW H, Built(T, B, H), NEW d \in Nodes(T), H[d] # 0,
         NEW m, m.children \in Seq(Child), Len(m.children) = Len(Children(T, d)),
         \A i \in 1..Len(Children(T, d)) : m.children[i] = TrueEntry(B, ChildId(T, d, i))
  PROVE  Entry(d, m) = TrueEntry(B, d)
<1> DEFINE n == Len(Children(T, d))
           c(i) == ChildId(T, d, i)
           f == [i \in DOMAIN m.children |-> m.children[i].count]
           S == [i \in 1..n |-> B[c(i)]]
<1>1. n \in Nat /\ n >= 1 /\ DOMAIN m.children = 1..n /\ DOMAIN Children(T, d) = 1..n
  BY NodeParts, LeafParts
<1>2. ~IsLeaf(m)
  BY <1>1 DEF IsLeaf
<1>3. Head(m.children) = m.children[1] /\ Last(m.children) = m.children[n]
  BY <1>1 DEF Last
<1>4. \A i \in 1..n : /\ c(i) \in Nodes(T) /\ B[c(i)] \in SUBSET Nat /\ B[c(i)] # {}
                      /\ IsFiniteSet(B[c(i)]) /\ B[c(i)] \subseteq B[d]
  BY <1>1, ChildParts, NodeParts
<1>5. \A i, j \in 1..n : /\ i < j => \A a \in B[c(i)], b \in B[c(j)] : a < b
                         /\ i # j => B[c(i)] \cap B[c(j)] = {}
  BY <1>1, ChildrenApart
<1>6. \A v : v \in B[d] <=> \E i \in 1..n : v \in B[c(i)]
  BY <1>1, InnerUnion
<1>7. B[d] \in SUBSET Nat /\ IsFiniteSet(B[d])
  BY NodeParts
<1> HIDE DEF c, n
<1>8. Min(B[d]) = Min(B[c(1)])
  <2>1. 1 \in 1..n /\ Min(B[c(1)]) \in B[c(1)] /\ \A y \in B[c(1)] : Min(B[c(1)]) <= y
    BY <1>1, <1>4, MinIs
  <2>2. \A y \in B[d] : Min(B[c(1)]) <= y
    <3> SUFFICES ASSUME NEW y \in B[d] PROVE Min(B[c(1)]) <= y
      OBVIOUS
    <3>1. PICK i \in 1..n : y \in B[c(i)]
      BY <1>6
    <3>2. CASE i = 1
      BY <2>1, <3>1, <3>2
    <3>3. CASE i # 1
      <4>1. Min(B[c(1)]) < y
        BY <1>5, <2>1, <3>1, <3>3
      <4>2. Min(B[c(1)]) \in Nat /\ y \in Nat
        BY <1>4, <1>7, <2>1
      <4> QED BY <4>1, <4>2
    <3> QED BY <3>2, <3>3
  <2>3. Min(B[c(1)]) \in B[d]
    BY <1>4, <2>1
  <2> QED BY <1>7, <2>2, <2>3, MinUnique
<1>9. Max(B[d]) = Max(B[c(n)])
  <2>1. n \in 1..n /\ Max(B[c(n)]) \in B[c(n)] /\ \A y \in B[c(n)] : y <= Max(B[c(n)])
    BY <1>1, <1>4, MaxIs
  <2>2. \A y \in B[d] : y <= Max(B[c(n)])
    <3> SUFFICES ASSUME NEW y \in B[d] PROVE y <= Max(B[c(n)])
      OBVIOUS
    <3>1. PICK i \in 1..n : y \in B[c(i)]
      BY <1>6
    <3>2. CASE i = n
      BY <2>1, <3>1, <3>2
    <3>3. CASE i # n
      <4>1. y < Max(B[c(n)])
        BY <1>1, <1>5, <2>1, <3>1, <3>3
      <4>2. Max(B[c(n)]) \in Nat /\ y \in Nat
        BY <1>4, <1>7, <2>1
      <4> QED BY <4>1, <4>2
    <3> QED BY <3>2, <3>3
  <2>3. Max(B[c(n)]) \in B[d]
    BY <1>4, <2>1
  <2> QED BY <1>7, <2>2, <2>3, MaxUnique
<1>10. \A i \in 1..n : m.children[i] = TrueEntry(B, c(i))
  BY DEF c, n
<1>11. \A i \in 1..n : /\ m.children[i].min = Min(B[c(i)]) /\ m.children[i].max = Max(B[c(i)])
                       /\ m.children[i].count = Cardinality(B[c(i)])
  <2> SUFFICES ASSUME NEW i \in 1..n
               PROVE  /\ m.children[i].min = Min(B[c(i)]) /\ m.children[i].max = Max(B[c(i)])
                      /\ m.children[i].count = Cardinality(B[c(i)])
    OBVIOUS
  <2>1. m.children[i] = TrueEntry(B, c(i))
    BY <1>10
  <2> QED BY <2>1 DEF TrueEntry
<1>12. Total(f) = Cardinality(B[d])
  <2>1. DOMAIN f = 1..n /\ IsFiniteSet(1..n)
    BY <1>1, FS_Interval
  <2>2. \A i \in 1..n : S[i] = B[c(i)] /\ f[i] = Cardinality(B[c(i)])
    BY <1>1, <1>11
  <2> HIDE DEF f, S
  <2>3. SumOf(f, 1..n) = Cardinality(B[d])
    <3>1. \A i \in 1..n : IsFiniteSet(S[i]) /\ f[i] = Cardinality(S[i])
      BY <1>4, <2>2
    <3>2. \A i, j \in 1..n : i # j => S[i] \cap S[j] = {}
      BY <1>5, <2>2
    <3>3. \A v : v \in B[d] <=> \E i \in 1..n : v \in S[i]
      BY <1>6, <2>2
    <3> DEFINE U == 1..n
               W == B[d]
    <3>4. IsFiniteSet(U) /\ \A v : v \in W <=> \E i \in U : v \in S[i]
      BY <2>1, <3>3
    <3>5. /\ \A i \in U : IsFiniteSet(S[i]) /\ f[i] = Cardinality(S[i])
          /\ \A i, j \in U : i # j => S[i] \cap S[j] = {}
      BY <3>1, <3>2
    <3> HIDE DEF U, W
    <3>6. SumOf(f, U) = Cardinality(W)
      BY ONLY <3>4, <3>5, UnionCount
    <3> QED BY <3>6 DEF U, W
  <2> QED BY <2>1, <2>3, TotalIs
<1>13. m.children[1].min = Min(B[c(1)]) /\ m.children[n].max = Max(B[c(n)])
  BY <1>1, <1>11
<1>14. Entry(d, m) = [id |-> d, min |-> Min(B[d]), max |-> Max(B[d]), count |-> Total(f)]
  BY <1>2, <1>3, <1>8, <1>9, <1>13 DEF Entry
<1> HIDE DEF f
<1> QED BY <1>12, <1>14 DEF TrueEntry

\* A leaf tells the truth.
LEMMA LeafEntryTrue ==
  ASSUME NEW B, NEW d, NEW n, IsLeaf(n), n.values = B[d]
  PROVE  Entry(d, n) = TrueEntry(B, d)
BY DEF Entry, TrueEntry

\* There are more nodes than levels.
LEMMA FewLevels ==
  ASSUME NEW T, NEW B, NEW H, Built(T, B, H)
  PROVE  Levels(T) \in Nat /\ H[T.root] < Levels(T)
<1> DEFINE h == H[T.root]
           S == {k \in 0..h : \A d \in Nodes(T) : H[d] # k}
<1>1. h \in Nat /\ T.root \in Nodes(T)
  BY RootParts, NodeParts
<1>2. S = {}
  <2>1. SUFFICES ASSUME S # {} PROVE FALSE
    OBVIOUS
  <2>2. PICK k \in S : \A j \in S : j <= k
    <3>1. S \in SUBSET (0..h)
      OBVIOUS
    <3> HIDE DEF S, h
    <3> QED BY <1>1, <2>1, <3>1, Highest
  <2>3. k \in 0..h /\ k # h
    BY <1>1
  <2>4. k + 1 \in 0..h /\ ~(k + 1 <= k)
    BY <1>1, <2>3
  <2>5. k + 1 \notin S
    BY <2>2, <2>4
  <2>6. PICK d \in Nodes(T) : H[d] = k + 1
    BY <2>4, <2>5
  <2>7. H[d] # 0
    BY <2>3, <2>6
  <2>8. 1 \in DOMAIN Children(T, d)
    BY <2>7, LeafParts, NodeParts
  <2>9. ChildId(T, d, 1) \in Nodes(T) /\ H[ChildId(T, d, 1)] + 1 = H[d]
           /\ H[ChildId(T, d, 1)] \in Nat
    BY <2>8, ChildParts
  <2>10. H[ChildId(T, d, 1)] = k
    BY <2>3, <2>6, <2>9
  <2> QED BY <2>9, <2>10
<1> DEFINE f == [d \in Nodes(T) |-> H[d]]
<1>3. f \in Surjection(Nodes(T), 0..h)
  <2>1. \A d \in Nodes(T) : H[d] \in 0..h
    BY NodeParts, <1>1
  <2>2. \A k \in 0..h : \E d \in Nodes(T) : H[d] = k
    BY <1>2
  <2> QED BY <2>1, <2>2 DEF Surjection
<1>4. IsFiniteSet(Nodes(T))
  BY DEF Built, WellTyped
<1> HIDE DEF f, h
<1>5. Cardinality(0..h) <= Cardinality(Nodes(T)) /\ Cardinality(Nodes(T)) \in Nat
  BY <1>3, <1>4, FS_Surjection, FS_CardinalityType
<1>6. Cardinality(0..h) = h + 1
  BY <1>1, FS_Interval
<1> QED BY <1>1, <1>5, <1>6 DEF Levels, Nodes, h

\* The trees have the same nodes with the same values and the same links.
SameLinks(T, U) ==
  /\ WellTyped(U) /\ U.root = T.root /\ Nodes(U) = Nodes(T)
  /\ \A d \in Nodes(T) :
        /\ U.node[d].values = T.node[d].values /\ Parent(U, d) = Parent(T, d)
        /\ DOMAIN Children(U, d) = DOMAIN Children(T, d)
        /\ Len(Children(U, d)) = Len(Children(T, d))
        /\ \A i \in DOMAIN Children(T, d) : ChildId(U, d, i) = ChildId(T, d, i)

\* Links that stay the same twice stay the same.
LEMMA SameTwice ==
  ASSUME NEW T, NEW U, NEW V, SameLinks(T, U), SameLinks(U, V)
  PROVE  SameLinks(T, V)
BY DEF SameLinks

\* A tree has its own links.
LEMMA SameSelf == ASSUME NEW T, WellTyped(T) PROVE SameLinks(T, T)
BY DEF SameLinks

\* With the same links and values a tree is built the same.
LEMMA SameBuilt ==
  ASSUME NEW T, NEW B, NEW H, Built(T, B, H), NEW U, SameLinks(T, U)
  PROVE  Built(U, B, H)
<1>1. /\ WellTyped(U) /\ U.root = T.root /\ Nodes(U) = Nodes(T)
      /\ T.root \in Nodes(T)
  BY RootParts DEF SameLinks
<1>2. \A d \in Nodes(T) :
        /\ U.node[d].values = T.node[d].values /\ Parent(U, d) = Parent(T, d)
        /\ DOMAIN Children(U, d) = DOMAIN Children(T, d)
        /\ Len(Children(U, d)) = Len(Children(T, d))
        /\ \A i \in DOMAIN Children(T, d) : ChildId(U, d, i) = ChildId(T, d, i)
  BY DEF SameLinks
<1>3. \A d \in Nodes(T) : Children(U, d) \in Seq(Child) /\ Children(T, d) \in Seq(Child)
  BY <1>1 DEF WellTyped, Node, Children, Built
<1>4. \A d \in Nodes(T) : IF H[d] = 0 THEN IsLeafOf(U, B, d) ELSE IsInnerOf(U, B, H, d)
  <2> SUFFICES ASSUME NEW d \in Nodes(T)
               PROVE  IF H[d] = 0 THEN IsLeafOf(U, B, d) ELSE IsInnerOf(U, B, H, d)
    OBVIOUS
  <2>1. IF H[d] = 0 THEN IsLeafOf(T, B, d) ELSE IsInnerOf(T, B, H, d)
    BY DEF Built
  <2>2. Children(U, d) = <<>> <=> Children(T, d) = <<>>
    BY <1>2, <1>3
  <2>3. CASE H[d] = 0
    BY <1>2, <2>1, <2>2, <2>3 DEF IsLeafOf
  <2>4. CASE H[d] # 0
    <3>1. IsInnerOf(T, B, H, d)
      BY <2>1, <2>4
    <3>2. \A i \in DOMAIN Children(U, d) :
            /\ ChildId(U, d, i) \in Nodes(U) /\ Parent(U, ChildId(U, d, i)) = d
            /\ H[ChildId(U, d, i)] + 1 = H[d]
      BY <1>1, <1>2, <3>1 DEF IsInnerOf
    <3>3. \A i, j \in DOMAIN Children(U, d) : i < j =>
            \A a \in B[ChildId(U, d, i)], b \in B[ChildId(U, d, j)] : a < b
      BY <1>2, <3>1 DEF IsInnerOf
    <3>4. B[d] = UNION {B[ChildId(U, d, i)] : i \in DOMAIN Children(U, d)}
      <4>1. B[d] = UNION {B[ChildId(T, d, i)] : i \in DOMAIN Children(T, d)}
        BY <3>1 DEF IsInnerOf
      <4>2. \A v : v \in B[d] <=> \E i \in DOMAIN Children(U, d) : v \in B[ChildId(U, d, i)]
        BY <1>2, <4>1
      <4> QED BY <4>2
    <3>5. U.node[d].values = {} /\ Children(U, d) # <<>>
      BY <1>2, <2>2, <3>1 DEF IsInnerOf
    <3>6. IsInnerOf(U, B, H, d)
      BY <3>2, <3>3, <3>4, <3>5 DEF IsInnerOf
    <3> QED BY <2>4, <3>6
  <2> QED BY <2>3, <2>4
<1>5. /\ Parent(U, U.root) = 0
      /\ \A d \in Nodes(U) \ {U.root} :
            Parent(U, d) \in Nodes(U)
              /\ \E i \in DOMAIN Children(U, Parent(U, d)) : ChildId(U, Parent(U, d), i) = d
  BY <1>1, <1>2 DEF Built
<1>6. /\ B \in [Nodes(U) -> SUBSET Keys] /\ H \in [Nodes(U) -> Nat]
      /\ \A d \in Nodes(U) : B[d] # {} /\ IsFiniteSet(B[d]) /\ H[d] <= H[U.root]
  BY <1>1 DEF Built
<1> QED BY <1>1, <1>4, <1>5, <1>6 DEF Built

\* One round of telling: the parent of x learns of it.
LEMMA TellStep ==
  ASSUME NEW T, NEW B, NEW H, Built(T, B, H), NEW x \in Nodes(T), x # T.root,
         ToldBut(T, B, H, x)
  PROVE  LET p == Parent(T, x)
             t == Tell([tree |-> T, p |-> p, e |-> TrueEntry(B, x)])
         IN  /\ SameLinks(T, t.tree) /\ ToldBut(t.tree, B, H, p)
             /\ t = [tree |-> t.tree, p |-> Parent(T, p), e |-> TrueEntry(B, p)]
<1> DEFINE p == Parent(T, x)
           e == TrueEntry(B, x)
           s == [tree |-> T, p |-> p, e |-> e]
           n == T.node[p]
           cs == [i \in DOMAIN n.children |-> IF n.children[i].id = e.id THEN e ELSE n.children[i]]
           m == [n EXCEPT !.children = cs]
           U == writeNode(T, p, m)
<1>1. /\ p \in Nodes(T) /\ p # 0 /\ p \in Nat /\ H[p] = H[x] + 1 /\ B[x] \subseteq B[p]
      /\ \E i \in DOMAIN Children(T, p) : ChildId(T, p, i) = x
      /\ H[x] \in Nat
  BY ParentParts, NodeParts
<1>2. e \in Child /\ e.id = x
  BY TrueEntryType
<1>3. /\ n \in Node /\ n.children \in Seq(Child) /\ n.children = Children(T, p)
      /\ DOMAIN n.children = 1..Len(n.children) /\ Len(n.children) \in Nat
      /\ \A i \in DOMAIN n.children : n.children[i] \in Child
  BY <1>1, NodeParts DEF Children
<1> HIDE DEF e, n, p
<1>4. cs \in Seq(Child) /\ Len(cs) = Len(n.children) /\ DOMAIN cs = DOMAIN n.children
  BY <1>2, <1>3
<1>5. m \in Node /\ m.children = cs /\ m.values = n.values /\ m.parent = n.parent
  <2> HIDE DEF cs
  <2> QED BY <1>3, <1>4 DEF Node
<1>6. \A i \in DOMAIN n.children : cs[i].id = n.children[i].id
  BY <1>2
<1>7. \A i \in DOMAIN n.children : cs[i] = TrueEntry(B, n.children[i].id)
  <2> SUFFICES ASSUME NEW i \in DOMAIN n.children
               PROVE  cs[i] = TrueEntry(B, n.children[i].id)
    OBVIOUS
  <2>1. CASE n.children[i].id = x
    BY <1>2, <2>1 DEF e
  <2>2. CASE n.children[i].id # x
    <3> DEFINE y == ChildId(T, p, i)
    <3>1. y = n.children[i].id /\ i \in DOMAIN Children(T, p)
      BY <1>3 DEF ChildId, Children
    <3>2. PICK j \in DOMAIN Children(T, p) : ChildId(T, p, j) = x
      BY <1>1
    <3>3. i # j
      BY <2>2, <3>1, <3>2
    <3>4. B[y] \cap B[x] = {} /\ B[x] # {}
      <4>1. B[x] # {}
        BY NodeParts
      <4>2. B[ChildId(T, p, i)] \cap B[ChildId(T, p, j)] = {}
        BY <1>1, <3>1, <3>3, ChildrenApart
      <4> QED BY <3>2, <4>1, <4>2
    <3>5. ~Above(B, H, x, y)
      BY <3>4 DEF Above
    <3>6. Children(T, p)[i] = TrueEntry(B, y)
      BY <1>1, <3>1, <3>5 DEF ToldBut
    <3> QED BY <1>2, <1>3, <2>2, <3>1, <3>6
  <2> QED BY <2>1, <2>2
<1> HIDE DEF cs, m
<1>8. WellTyped(T)
  BY DEF Built
<1>9. /\ WellTyped(U) /\ U.root = T.root /\ Nodes(U) = Nodes(T)
      /\ \A d \in Nodes(T) : U.node[d] = IF d = p THEN m ELSE T.node[d]
  <2>1. p \in Nat \ {0} /\ m \in Node /\ Nodes(T) \cup {p} = Nodes(T)
    BY <1>1, <1>5
  <2>2. /\ WellTyped(U) /\ U.root = T.root /\ Nodes(U) = Nodes(T) \cup {p}
        /\ \A d \in Nodes(U) : U.node[d] = IF d = p THEN m ELSE T.node[d]
    <3>1. U = writeNode(T, p, m)
      OBVIOUS
    <3> HIDE DEF U
    <3> QED BY <1>8, <2>1, <3>1, WriteNode
  <2> QED BY <2>1, <2>2
<1> HIDE DEF U
<1>10. SameLinks(T, U)
  BY <1>1, <1>3, <1>4, <1>5, <1>6, <1>9 DEF SameLinks, Children, ChildId, Parent, n
<1>11. ToldBut(U, B, H, p)
  <2> SUFFICES ASSUME NEW d \in Nodes(T), NEW i \in DOMAIN Children(U, d),
                      ~Above(B, H, p, ChildId(U, d, i))
               PROVE  Children(U, d)[i] = TrueEntry(B, ChildId(U, d, i))
    BY <1>9 DEF ToldBut
  <2>1. CASE d = p
    <3>1. Children(U, d) = cs /\ ChildId(U, d, i) = cs[i].id
      BY <1>5, <1>9, <2>1 DEF Children, ChildId
    <3> QED BY <1>4, <1>6, <1>7, <3>1
  <2>2. CASE d # p
    <3> DEFINE y == ChildId(T, d, i)
    <3>1. Children(U, d) = Children(T, d) /\ ChildId(U, d, i) = y
      BY <1>9, <2>2 DEF Children, ChildId
    <3>2. y \in Nodes(T) /\ Parent(T, y) = d /\ H[y] \in Nat
      BY <3>1, ChildParts
    <3> HIDE DEF y
    <3>3. ~Above(B, H, x, y)
      <4>1. SUFFICES ASSUME H[x] <= H[y], B[x] \subseteq B[y] PROVE FALSE
        BY DEF Above
      <4>2. x # y
        BY <2>2, <3>2 DEF p
      <4>3. B[x] # {}
        BY NodeParts
      <4>4. H[x] # H[y]
        BY <3>2, <4>1, <4>2, <4>3, LevelApart
      <4>5. H[p] <= H[y]
        BY <1>1, <3>2, <4>1, <4>4
      <4>6. B[p] \subseteq B[y]
        BY <1>1, <3>2, <4>1, <4>3, <4>5, Nested
      <4> QED BY <3>1, <4>5, <4>6 DEF Above
    <3>4. Children(T, d)[i] = TrueEntry(B, y)
      BY <3>1, <3>3 DEF ToldBut, y
    <3> QED BY <3>1, <3>4
  <2> QED BY <2>1, <2>2
<1>12. Entry(p, m) = TrueEntry(B, p)
  <2>1. H[p] # 0
    BY <1>1
  <2>2. /\ m.children \in Seq(Child) /\ Len(m.children) = Len(Children(T, p))
        /\ \A i \in 1..Len(Children(T, p)) : m.children[i] = TrueEntry(B, ChildId(T, p, i))
    BY <1>3, <1>4, <1>5, <1>7 DEF ChildId, Children
  <2> QED BY <1>1, <2>1, <2>2, EntryTrue
<1>13. ~(\A i \in DOMAIN n.children : n.children[i].id # e.id)
  BY <1>1, <1>2, <1>3 DEF ChildId, Children
<1>14. Tell(s) = [tree |-> U, p |-> Parent(T, p), e |-> TrueEntry(B, p)]
  <2>1. /\ s.tree = T /\ s.p = p /\ s.e = e
    OBVIOUS
  <2> HIDE DEF s
  <2>2. Tell(s) = [tree |-> writeNode(T, p, m), p |-> n.parent, e |-> Entry(p, m)]
    BY <1>1, <1>13, <2>1 DEF Tell, m, cs, n
  <2> QED BY <1>12, <2>2 DEF U, Parent, n
<1> DEFINE t == Tell(s)
<1>15. t.tree = U
  BY <1>14
<1> HIDE DEF t, s
<1>16. /\ SameLinks(T, t.tree) /\ ToldBut(t.tree, B, H, p)
       /\ t = [tree |-> t.tree, p |-> Parent(T, p), e |-> TrueEntry(B, p)]
  BY <1>10, <1>11, <1>14, <1>15 DEF t
<1> QED BY <1>16 DEF t, s, p, e

\* Above the root there is nothing to tell.
LEMMA ToldAtRoot ==
  ASSUME NEW T, NEW B, NEW H, Built(T, B, H), ToldBut(T, B, H, T.root)
  PROVE  Told(T, B)
<1> SUFFICES ASSUME NEW d \in Nodes(T), NEW i \in DOMAIN Children(T, d)
             PROVE  Children(T, d)[i] = TrueEntry(B, ChildId(T, d, i))
  BY DEF Told
<1> DEFINE c == ChildId(T, d, i)
<1>1. c \in Nodes(T) /\ H[c] + 1 = H[d] /\ H[c] \in Nat
  BY ChildParts
<1>2. H[d] \in Nat /\ H[d] <= H[T.root] /\ H[T.root] \in Nat
  BY NodeParts, RootParts
<1>3. ~(H[T.root] <= H[c])
  BY <1>1, <1>2
<1>4. ~Above(B, H, T.root, c)
  BY <1>3 DEF Above
<1> QED BY <1>4 DEF ToldBut

\* Telling the ancestors of x makes the whole tree tell the truth.
LEMMA Climbs ==
  ASSUME NEW T, NEW B, NEW H, Built(T, B, H), NEW x \in Nodes(T), x # T.root,
         ToldBut(T, B, H, x),
         NEW U, U = updateParents(T, Parent(T, x), TrueEntry(B, x))
  PROVE  SameLinks(T, U) /\ Told(U, B)
<1> DEFINE n == Levels(T)
           a == [tree |-> T, p |-> Parent(T, x), e |-> TrueEntry(B, x)]
           f == CHOOSE g : g = [i \in 0..n |-> IF i = 0 THEN a ELSE Tell(g[i - 1])]
           Telling(s, y) ==
             /\ s = [tree |-> s.tree, p |-> Parent(T, y), e |-> TrueEntry(B, y)]
             /\ ToldBut(s.tree, B, H, y)
           Good(i) ==
             /\ SameLinks(T, f[i].tree)
             /\ \/ f[i].p = 0 /\ Told(f[i].tree, B)
                \/ \E y \in Nodes(T) \ {T.root} : Telling(f[i], y) /\ i <= H[y]
<1>1. n \in Nat /\ H[T.root] < n
  BY FewLevels
<1>2. U = f[n].tree
  BY DEF updateParents
<1> HIDE DEF n, a
<1>3. f = [i \in 0..n |-> IF i = 0 THEN a ELSE Tell(f[i - 1])]
  <2> HIDE DEF f, Good, Telling
  <2>1. \E g : g = [i \in 0..n |-> IF i = 0 THEN a ELSE Tell(g[i - 1])]
    BY ONLY <1>1, ToldExists, ZenonT(30)
  <2> QED BY <2>1 DEF f
<1> HIDE DEF f
<1>4. Good(0)
  <2>1. f[0] = a /\ f[0].tree = T
    BY <1>1, <1>3 DEF a
  <2>2. SameLinks(T, T)
    BY SameSelf DEF Built
  <2>3. 0 <= H[x]
    BY NodeParts
  <2>4. Telling(f[0], x)
    <3>1. Telling(a, x)
      BY DEF a
    <3> QED BY <2>1, <3>1
  <2> QED BY <2>1, <2>2, <2>3, <2>4
<1>5. ASSUME NEW i \in 0..n, i # 0, Good(i - 1) PROVE Good(i)
  <2> DEFINE s == f[i - 1]
             S == s.tree
  <2>0. i \in Nat /\ i - 1 \in Nat /\ i - 1 \in 0..n
    BY <1>1, <1>5
  <2>1. f[i] = Tell(s)
    BY <1>3, <1>5
  <2>2. SameLinks(T, S)
    BY <1>5
  <2>3. CASE s.p = 0 /\ Told(S, B)
    <3>1. Tell(s) = s
      BY <2>3 DEF Tell
    <3> QED BY <2>1, <2>2, <2>3, <3>1
  <2>4. CASE \E y \in Nodes(T) \ {T.root} : Telling(s, y) /\ i - 1 <= H[y]
    <3>1. PICK y \in Nodes(T) \ {T.root} : Telling(s, y) /\ i - 1 <= H[y]
      BY <2>4
    <3>2. /\ Built(S, B, H) /\ S.root = T.root /\ Nodes(S) = Nodes(T)
          /\ \A d \in Nodes(T) : Parent(S, d) = Parent(T, d)
      <4>1. Built(S, B, H)
        BY <2>2, SameBuilt
      <4> QED BY <2>2, <4>1 DEF SameLinks
    <3> DEFINE p == Parent(T, y)
               t == Tell(s)
    <3>3. s = [tree |-> S, p |-> p, e |-> TrueEntry(B, y)] /\ ToldBut(S, B, H, y)
      BY <3>1
    <3> HIDE DEF s, S
    <3>4. /\ SameLinks(S, t.tree) /\ ToldBut(t.tree, B, H, p)
          /\ t = [tree |-> t.tree, p |-> Parent(T, p), e |-> TrueEntry(B, p)]
      <4>1. y \in Nodes(S) /\ y # S.root /\ Parent(S, y) = p
        BY <3>1, <3>2
      <4>2. p \in Nodes(T)
        BY <3>1, ParentParts
      <4>3. LET q == Parent(S, y)
                u == Tell([tree |-> S, p |-> q, e |-> TrueEntry(B, y)])
            IN  /\ SameLinks(S, u.tree) /\ ToldBut(u.tree, B, H, q)
                /\ u = [tree |-> u.tree, p |-> Parent(S, q), e |-> TrueEntry(B, q)]
        BY <3>2, <3>3, <4>1, TellStep
      <4> QED BY <3>2, <3>3, <4>1, <4>2, <4>3
    <3>5. p \in Nodes(T) /\ H[p] = H[y] + 1 /\ H[y] \in Nat
      <4>1. y \in Nodes(T) /\ y # T.root
        BY <3>1
      <4> QED BY <4>1, ParentParts, NodeParts
    <3>6. SameLinks(T, t.tree)
      BY <2>2, <3>4, SameTwice DEF S
    <3>7. i <= H[p]
      BY <2>0, <3>1, <3>5
    <3>8. f[i] = t
      BY <2>1
    <3> HIDE DEF t, p
    <3>9. CASE p = T.root
      <4>1. t.p = 0
        BY <3>4, <3>9, RootParts
      <4>2. Built(t.tree, B, H) /\ t.tree.root = T.root
        BY <3>6, SameBuilt DEF SameLinks
      <4>3. Told(t.tree, B)
        BY <3>4, <3>9, <4>2, ToldAtRoot
      <4> QED BY <3>6, <3>8, <4>1, <4>3
    <3>10. CASE p # T.root
      <4>1. Telling(t, p) /\ p \in Nodes(T) \ {T.root}
        BY <3>4, <3>5, <3>10
      <4> HIDE DEF Telling
      <4> QED BY <3>6, <3>7, <3>8, <4>1
    <3> QED BY <3>9, <3>10
  <2> QED BY <1>5, <2>3, <2>4
<1> DEFINE Bad == {i \in 0..n : ~Good(i)}
<1>6. Bad = {}
  <2> HIDE DEF Good
  <2>1. SUFFICES ASSUME Bad # {} PROVE FALSE
    OBVIOUS
  <2>2. PICK i \in Bad : \A k \in Bad : i <= k
    <3>1. Bad \in SUBSET Nat
      BY <1>1
    <3> HIDE DEF Bad
    <3> QED BY <2>1, <3>1, Lowest
  <2>3. i # 0 /\ i \in 0..n
    BY <1>4, <2>2
  <2>4. i - 1 \in 0..n /\ ~(i <= i - 1)
    BY <1>1, <2>3
  <2>5. Good(i - 1)
    BY <2>2, <2>4
  <2> QED BY <1>5, <2>2, <2>3, <2>5
<1>7. Good(n)
  BY <1>1, <1>6
<1>8. ~(\E y \in Nodes(T) \ {T.root} : n <= H[y])
  <2> SUFFICES ASSUME NEW y \in Nodes(T), n <= H[y] PROVE FALSE
    OBVIOUS
  <2>1. H[y] <= H[T.root] /\ H[y] \in Nat /\ H[T.root] \in Nat
    BY NodeParts, RootParts
  <2> QED BY <1>1, <2>1
<1> HIDE DEF Telling
<1> QED BY <1>2, <1>7, <1>8

-------------------------------------------------------------------------------
(* Other values in a leaf.                                                   *)

\* The trees differ in the values of leaf x, which are N now, and in what is told of them.
Refilled(T, U, x, N) ==
  /\ U.root = T.root /\ Nodes(U) = Nodes(T)
  /\ \A d \in Nodes(T) :
        /\ U.node[d].values = IF d = x THEN N ELSE T.node[d].values
        /\ Parent(U, d) = Parent(T, d)
        /\ DOMAIN Children(U, d) = DOMAIN Children(T, d)
        /\ Len(Children(U, d)) = Len(Children(T, d))
        /\ \A i \in DOMAIN Children(T, d) : ChildId(U, d, i) = ChildId(T, d, i)

\* New values for a leaf keep the order of the tree.
Fit(T, B, x, N) ==
  \A v \in B[T.root] \ B[x], w \in B[x], k \in N : (v < w => v < k) /\ (w < v => k < v)

Refill(T, B, x, N) ==
  [d \in Nodes(T) |-> IF B[x] \subseteq B[d] THEN (B[d] \ B[x]) \cup N ELSE B[d]]

\* A leaf with other values in it.
LEMMA RefillBuilt ==
  ASSUME NEW T, NEW B, NEW H, Built(T, B, H), NEW x \in Nodes(T), H[x] = 0,
         NEW N \in SUBSET Keys, N # {}, IsFiniteSet(N), Fit(T, B, x, N),
         NEW U, WellTyped(U), Nodes(U) = Nodes(T), U.root = T.root,
         U.node[x] = [T.node[x] EXCEPT !.values = N],
         \A d \in Nodes(T) : d # x => U.node[d] = T.node[d],
         NEW C, C = Refill(T, B, x, N)
  PROVE  Built(U, C, H) /\ C[x] = N /\ Refilled(T, U, x, N)
<1>1. \A d \in Nodes(T) : C[d] = IF B[x] \subseteq B[d] THEN (B[d] \ B[x]) \cup N ELSE B[d]
  BY DEF Refill
<1>2. C[x] = N
  BY <1>1
<1>3. /\ T.node[x] \in Node /\ B[x] # {} /\ x \in Nodes(T)
      /\ T.node[x].values = B[x] /\ Children(T, x) = <<>>
  BY NodeParts, LeafParts
<1>4. /\ U.node[x].values = N /\ U.node[x].parent = T.node[x].parent
      /\ U.node[x].children = T.node[x].children
  BY <1>3 DEF Node
<1>5. \A d \in Nodes(T) : /\ Parent(U, d) = Parent(T, d) /\ Children(U, d) = Children(T, d)
                          /\ U.node[d].values = IF d = x THEN N ELSE T.node[d].values
  BY <1>4 DEF Parent, Children
<1>6. \A i : \A d \in Nodes(T) : ChildId(U, d, i) = ChildId(T, d, i)
  BY <1>5 DEF ChildId, Children
<1>7. Refilled(T, U, x, N)
  BY <1>5, <1>6 DEF Refilled
<1>8. \A d \in Nodes(T) : /\ B[d] \in SUBSET Keys /\ B[d] # {} /\ IsFiniteSet(B[d])
                          /\ H[d] \in Nat /\ H[d] <= H[T.root]
                          /\ B[d] \subseteq B[T.root]
  BY RootAll DEF Built
<1>9. \A d \in Nodes(T) : B[x] \subseteq B[d] \/ B[x] \cap B[d] = {}
  <2> SUFFICES ASSUME NEW d \in Nodes(T), B[x] \cap B[d] # {} PROVE B[x] \subseteq B[d]
    OBVIOUS
  <2>1. H[x] <= H[d]
    BY <1>8
  <2> QED BY <2>1, Nested
<1>10. \A d \in Nodes(T) : C[d] \in SUBSET Keys /\ C[d] # {} /\ IsFiniteSet(C[d])
  <2> SUFFICES ASSUME NEW d \in Nodes(T)
               PROVE  C[d] \in SUBSET Keys /\ C[d] # {} /\ IsFiniteSet(C[d])
    OBVIOUS
  <2>1. IsFiniteSet(B[d] \ B[x]) /\ IsFiniteSet((B[d] \ B[x]) \cup N)
    BY <1>8, FS_Difference, FS_Union
  <2>2. C[d] = B[d] \/ C[d] = (B[d] \ B[x]) \cup N
    BY <1>1
  <2> QED BY <1>8, <2>1, <2>2
<1>11. \A d \in Nodes(T) : IF H[d] = 0 THEN IsLeafOf(U, C, d) ELSE IsInnerOf(U, C, H, d)
  <2> SUFFICES ASSUME NEW d \in Nodes(T)
               PROVE  IF H[d] = 0 THEN IsLeafOf(U, C, d) ELSE IsInnerOf(U, C, H, d)
    OBVIOUS
  <2>1. CASE d = x
    BY <1>2, <1>3, <1>5, <2>1 DEF IsLeafOf
  <2>2. CASE d # x /\ H[d] = 0
    <3>1. B[x] \cap B[d] = {}
      BY <2>2, LevelApart
    <3>2. C[d] = B[d]
      BY <1>1, <1>3, <3>1
    <3>3. T.node[d].values = B[d] /\ Children(T, d) = <<>>
      BY <2>2, LeafParts
    <3> QED BY <1>5, <2>2, <3>2, <3>3 DEF IsLeafOf
  <2>3. CASE d # x /\ H[d] # 0
    <3> DEFINE c(i) == ChildId(T, d, i)
               K == DOMAIN Children(T, d)
    <3>1. \A i \in K : /\ c(i) \in Nodes(T) /\ Parent(T, c(i)) = d /\ H[c(i)] + 1 = H[d]
                       /\ B[c(i)] \subseteq B[d]
      BY ChildParts
    <3>2. \A i, j \in K : /\ i < j => \A a \in B[c(i)], b \in B[c(j)] : a < b
                          /\ i # j => B[c(i)] \cap B[c(j)] = {}
      BY ChildrenApart
    <3>3. \A v : v \in B[d] <=> \E i \in K : v \in B[c(i)]
      BY <2>3, InnerUnion
    <3>4. T.node[d].values = {} /\ Children(T, d) # <<>> /\ K \subseteq Nat
      BY <2>3, LeafParts, NodeParts
    <3> HIDE DEF c, K
    <3>5. ASSUME NEW i \in K, NEW j \in K, i < j, NEW a \in C[c(i)], NEW b \in C[c(j)]
          PROVE  a < b
      <4>1. PICK w \in B[x] : TRUE
        BY <1>3
      <4>2. i # j /\ i \in Nat /\ j \in Nat
        BY <3>4, <3>5
      <4>3. B[c(i)] \cap B[c(j)] = {} /\ \A e \in B[c(i)], g \in B[c(j)] : e < g
        BY <3>2, <3>5, <4>2
      <4>4. c(i) \in Nodes(T) /\ c(j) \in Nodes(T)
        BY <3>1
      <4>5. CASE B[x] \subseteq B[c(i)]
        <5>1. ~(B[x] \subseteq B[c(j)]) /\ B[x] \cap B[c(j)] = {}
          BY <1>3, <4>3, <4>5
        <5>2. b \in B[c(j)] /\ b \in B[T.root] \ B[x]
          BY <1>1, <1>8, <4>4, <5>1
        <5>3. w < b
          BY <4>3, <4>5, <5>2
        <5>4. a \in B[c(i)] \/ a \in N
          BY <1>1, <4>4
        <5> QED BY <4>3, <5>2, <5>3, <5>4 DEF Fit
      <4>6. CASE B[x] \subseteq B[c(j)]
        <5>1. ~(B[x] \subseteq B[c(i)]) /\ B[x] \cap B[c(i)] = {}
          BY <1>3, <4>3, <4>6
        <5>2. a \in B[c(i)] /\ a \in B[T.root] \ B[x]
          BY <1>1, <1>8, <4>4, <5>1
        <5>3. a < w
          BY <4>3, <4>6, <5>2
        <5>4. b \in B[c(j)] \/ b \in N
          BY <1>1, <4>4
        <5> QED BY <4>3, <5>2, <5>3, <5>4 DEF Fit
      <4>7. CASE ~(B[x] \subseteq B[c(i)]) /\ ~(B[x] \subseteq B[c(j)])
        BY <1>1, <4>3, <4>4, <4>7
      <4> QED BY <4>5, <4>6, <4>7
    <3>6. \A v : v \in C[d] <=> \E i \in K : v \in C[c(i)]
      <4>1. ASSUME B[x] \subseteq B[d], NEW v
            PROVE  v \in C[d] <=> \E i \in K : v \in C[c(i)]
        <5>1. PICK w \in B[x] : TRUE
          BY <1>3
        <5>2. PICK j \in K : w \in B[c(j)]
          BY <3>3, <4>1
        <5>3. B[x] \subseteq B[c(j)]
          BY <1>9, <3>1, <5>2
        <5>4. C[d] = (B[d] \ B[x]) \cup N
          BY <1>1, <4>1
        <5>5. \A i \in K : C[c(i)] \subseteq C[d]
          <6> SUFFICES ASSUME NEW i \in K PROVE C[c(i)] \subseteq C[d]
            OBVIOUS
          <6>1. c(i) \in Nodes(T) /\ B[c(i)] \subseteq B[d]
            BY <3>1
          <6>2. CASE B[x] \subseteq B[c(i)]
            BY <1>1, <5>4, <6>1, <6>2
          <6>3. CASE B[x] \cap B[c(i)] = {}
            BY <1>1, <1>3, <5>4, <6>1, <6>3
          <6> QED BY <1>9, <6>1, <6>2, <6>3
        <5>6. v \in N => v \in C[c(j)]
          BY <1>1, <3>1, <5>3
        <5>7. v \in B[d] \ B[x] => \E i \in K : v \in C[c(i)]
          <6> SUFFICES ASSUME v \in B[d] \ B[x] PROVE \E i \in K : v \in C[c(i)]
            OBVIOUS
          <6>1. PICK i \in K : v \in B[c(i)]
            BY <3>3
          <6>2. v \in C[c(i)]
            BY <1>1, <3>1, <6>1
          <6> QED BY <6>2
        <5> QED BY <5>4, <5>5, <5>6, <5>7
      <4>2. ASSUME ~(B[x] \subseteq B[d]), NEW v
            PROVE  v \in C[d] <=> \E i \in K : v \in C[c(i)]
        <5>1. \A i \in K : C[c(i)] = B[c(i)]
          BY <1>1, <3>1, <4>2
        <5>2. C[d] = B[d]
          BY <1>1, <4>2
        <5> QED BY <3>3, <5>1, <5>2
      <4> QED BY <4>1, <4>2
    <3>7. DOMAIN Children(U, d) = K /\ \A i : ChildId(U, d, i) = c(i)
      BY <1>5, <1>6 DEF K, c
    <3>8. C[d] = UNION {C[ChildId(U, d, i)] : i \in DOMAIN Children(U, d)}
      <4>1. \A v : v \in C[d] <=> \E i \in DOMAIN Children(U, d) : v \in C[ChildId(U, d, i)]
        BY <3>6, <3>7
      <4> QED BY <4>1
    <3>9. \A i \in K : c(i) \in Nodes(U) /\ Parent(U, c(i)) = d /\ H[c(i)] + 1 = H[d]
      BY <1>5, <3>1
    <3>10. U.node[d].values = {} /\ Children(U, d) # <<>>
      BY <1>5, <2>3, <3>4
    <3>11. \A i, j \in DOMAIN Children(U, d) : i < j =>
             \A a \in C[ChildId(U, d, i)], b \in C[ChildId(U, d, j)] : a < b
      BY <3>5, <3>7
    <3>12. IsInnerOf(U, C, H, d)
      BY <3>7, <3>8, <3>9, <3>10, <3>11 DEF IsInnerOf
    <3> QED BY <2>3, <3>12
  <2> QED BY <2>1, <2>2, <2>3
<1>12. /\ Parent(U, U.root) = 0
       /\ \A d \in Nodes(U) \ {U.root} :
            Parent(U, d) \in Nodes(U)
              /\ \E i \in DOMAIN Children(U, Parent(U, d)) : ChildId(U, Parent(U, d), i) = d
  BY <1>5, <1>6 DEF Built, WellTyped
<1>13. /\ C \in [Nodes(U) -> SUBSET Keys] /\ H \in [Nodes(U) -> Nat]
       /\ \A d \in Nodes(U) : C[d] # {} /\ IsFiniteSet(C[d]) /\ H[d] <= H[U.root]
  <2>1. C \in [Nodes(T) -> SUBSET Keys]
    BY <1>10 DEF Refill
  <2>2. H \in [Nodes(T) -> Nat]
    BY DEF Built
  <2> QED BY <1>8, <1>10, <2>1, <2>2
<1>14. Built(U, C, H)
  BY <1>11, <1>12, <1>13 DEF Built
<1> QED BY <1>2, <1>7, <1>14

\* Telling the ancestors afterwards changes no values.
LEMMA RefilledLater ==
  ASSUME NEW T, NEW x, NEW N, NEW U, NEW V, Refilled(T, U, x, N), SameLinks(U, V)
  PROVE  Refilled(T, V, x, N)
BY DEF Refilled, SameLinks

\* A leaf gets other values and the tree tells the truth of them.
LEMMA RefillTold ==
  ASSUME NEW T, NEW B, NEW H, Built(T, B, H), Told(T, B), NEW x \in Nodes(T), H[x] = 0,
         NEW N \in SUBSET Keys, N # {}, IsFiniteSet(N), Fit(T, B, x, N),
         NEW U, U = Rewrite(T, x, [T.node[x] EXCEPT !.values = N]),
         NEW C, C = Refill(T, B, x, N)
  PROVE  Built(U, C, H) /\ Told(U, C) /\ C[x] = N /\ Refilled(T, U, x, N)
<1> DEFINE n == [T.node[x] EXCEPT !.values = N]
           W == writeNode(T, x, n)
<1>1. /\ T.node[x] \in Node /\ x \in Nat /\ x # 0 /\ WellTyped(T)
      /\ Children(T, x) = <<>>
  <2>1. T.node[x] \in Node /\ x \in Nat /\ x # 0
    BY NodeParts
  <2>2. Children(T, x) = <<>>
    BY LeafParts
  <2>3. WellTyped(T)
    BY DEF Built
  <2> QED BY <2>1, <2>2, <2>3
<1>2. /\ n \in Node /\ n.values = N /\ n.parent = Parent(T, x) /\ n.children = <<>>
  BY <1>1 DEF Node, Parent, Children
<1>3. U = IF n.parent = 0 THEN W ELSE updateParents(W, n.parent, Entry(x, n))
  BY DEF Rewrite
<1>4. /\ WellTyped(W) /\ W.root = T.root /\ Nodes(W) = Nodes(T)
      /\ \A d \in Nodes(T) : W.node[d] = IF d = x THEN n ELSE T.node[d]
  <2>1. W = writeNode(T, x, n) /\ Nodes(T) \cup {x} = Nodes(T) /\ x \in Nat \ {0}
    BY <1>1
  <2> HIDE DEF W, n
  <2>2. /\ WellTyped(W) /\ W.root = T.root /\ Nodes(W) = Nodes(T) \cup {x}
        /\ \A d \in Nodes(W) : W.node[d] = IF d = x THEN n ELSE T.node[d]
    BY <1>1, <1>2, <2>1, WriteNode
  <2> QED BY <2>1, <2>2
<1>5. Built(W, C, H) /\ C[x] = N /\ Refilled(T, W, x, N)
  <2>1. W.node[x] = [T.node[x] EXCEPT !.values = N]
    BY <1>4
  <2>2. \A d \in Nodes(T) : d # x => W.node[d] = T.node[d]
    BY <1>4
  <2> HIDE DEF W, n
  <2> QED BY <1>4, <2>1, <2>2, RefillBuilt
<1> HIDE DEF W, n
<1>6. ToldBut(W, C, H, x)
  <2> SUFFICES ASSUME NEW d \in Nodes(T), NEW i \in DOMAIN Children(W, d),
                      ~Above(C, H, x, ChildId(W, d, i))
               PROVE  Children(W, d)[i] = TrueEntry(C, ChildId(W, d, i))
    BY <1>4 DEF ToldBut
  <2>1. d # x
    <3>1. Children(W, x) = <<>>
      BY <1>2, <1>4 DEF Children
    <3> QED BY <3>1
  <2> DEFINE y == ChildId(T, d, i)
  <2>2. Children(W, d) = Children(T, d) /\ ChildId(W, d, i) = y
    BY <1>4, <2>1 DEF Children, ChildId
  <2>3. y \in Nodes(T) /\ H[y] \in Nat
    BY <2>2, ChildParts
  <2>4. Children(T, d)[i] = TrueEntry(B, y)
    BY <2>2 DEF Told
  <2> HIDE DEF y
  <2>5. ~(N \subseteq C[y])
    BY <1>5, <2>2, <2>3 DEF Above
  <2>6. C[y] = B[y]
    BY <2>3, <2>5 DEF Refill
  <2> QED BY <2>2, <2>4, <2>6 DEF TrueEntry
<1>7. CASE x = T.root
  <2>1. n.parent = 0
    BY <1>2, <1>7, RootParts
  <2>2. U = W
    BY <1>3, <2>1
  <2>3. Told(W, C)
    BY <1>4, <1>5, <1>6, <1>7, ToldAtRoot
  <2> QED BY <1>5, <2>2, <2>3
<1>8. CASE x # T.root
  <2>1. n.parent # 0 /\ n.parent = Parent(W, x)
    BY <1>2, <1>4, <1>8, RootParts DEF Parent
  <2>2. Entry(x, n) = TrueEntry(C, x)
    BY <1>2, <1>5, LeafEntryTrue DEF IsLeaf
  <2>3. U = updateParents(W, Parent(W, x), TrueEntry(C, x))
    BY <1>3, <2>1, <2>2
  <2>4. x \in Nodes(W) /\ x # W.root
    BY <1>4, <1>8
  <2>5. SameLinks(W, U) /\ Told(U, C)
    BY <1>5, <1>6, <2>3, <2>4, Climbs
  <2>6. Built(U, C, H)
    BY <1>5, <2>5, SameBuilt
  <2>7. Refilled(T, U, x, N)
    BY <1>5, <2>5, RefilledLater
  <2> QED BY <1>5, <2>5, <2>6, <2>7
<1> QED BY <1>7, <1>8

-------------------------------------------------------------------------------
(* Searching and counting.                                                   *)

IsWay(f, T, key, a, n) == f = [i \in 0..n |-> IF i = 0 THEN a ELSE Down(T, key, f[i - 1])]

\* The way down from the root exists.
LEMMA WayExists ==
  ASSUME NEW T, NEW key, NEW a, NEW n \in Nat
  PROVE  \E f : IsWay(f, T, key, a, n)
<1>1. PICK f : Runs(f, 4, T, key, a, n)
  BY RoundsExist
<1>2. \A s : Round(4, T, key, s) = Down(T, key, s)
  BY DEF Round
<1>3. f = [i \in 0..n |-> IF i = 0 THEN a ELSE Down(T, key, f[i - 1])]
  BY <1>1, <1>2 DEF Runs
<1> QED BY <1>3 DEF IsWay

\* Where a value has its place: on the same side of all other values as the node's own.
Place(T, B, d, key) ==
  \A v \in B[T.root] \ B[d], w \in B[d] : v # key /\ (v < w <=> v < key)

\* One step down leads to the child where the key has its place.
LEMMA DownStep ==
  ASSUME NEW T, NEW B, NEW H, Built(T, B, H), Told(T, B), NEW d \in Nodes(T),
         H[d] # 0, Len(Children(T, d)) >= 2, NEW key \in Nat, Place(T, B, d, key),
         NEW x, x = ChildFor(T.node[d].children, key)
  PROVE  /\ x \in Nodes(T) /\ H[x] + 1 = H[d] /\ H[x] \in Nat /\ Place(T, B, x, key)
         /\ \E j \in DOMAIN Children(T, d) : x = ChildId(T, d, j)
<1> DEFINE n == Len(Children(T, d))
           c(i) == ChildId(T, d, i)
           low(i) == Min(B[c(i)])
           I == {i \in 2..n : low(i) <= key}
<1>1. n \in Nat /\ n >= 2 /\ DOMAIN Children(T, d) = 1..n
  BY NodeParts
<1>2. \A i \in 1..n : Children(T, d)[i].min = low(i) /\ Children(T, d)[i].id = c(i)
  BY <1>1 DEF Told, TrueEntry, ChildId
<1>3. \A i \in 1..n : /\ c(i) \in Nodes(T) /\ H[c(i)] + 1 = H[d] /\ H[c(i)] \in Nat
                      /\ B[c(i)] \subseteq B[d]
  BY <1>1, ChildParts
<1>4. \A i \in 1..n : B[c(i)] \in SUBSET Nat /\ B[c(i)] # {}
  BY <1>3, NodeParts
<1>5. \A i \in 1..n : low(i) \in B[c(i)] /\ \A v \in B[c(i)] : low(i) <= v
  BY <1>4, MinIs
<1>6. \A i, j \in 1..n : i < j => \A a \in B[c(i)], b \in B[c(j)] : a < b
  BY <1>1, ChildrenApart
<1>7. \A v : v \in B[d] <=> \E i \in 1..n : v \in B[c(i)]
  BY <1>1, InnerUnion
<1>8. x = IF key < low(2) THEN c(1) ELSE c(Max(I))
  <2>1. T.node[d].children = Children(T, d)
    BY DEF Children
  <2>2. I = {i \in 2..Len(Children(T, d)) : Children(T, d)[i].min <= key}
    BY <1>2
  <2>3. 1 \in 1..n /\ 2 \in 1..n
    BY <1>1
  <2>4. Max(I) \in 1..n \/ key < low(2)
    <3> SUFFICES ASSUME ~(key < low(2)) PROVE Max(I) \in 1..n
      OBVIOUS
    <3>1. low(2) \in Nat
      BY <1>4, <1>5, <2>3
    <3>2. 2 \in I
      BY <1>1, <3>1
    <3>3. I \in SUBSET Nat /\ IsFiniteSet(I) /\ I # {} /\ I \subseteq 1..n
      <4>1. IsFiniteSet(2..n) /\ I \subseteq 2..n
        <5>1. n \in Int
          BY <1>1
        <5>2. IsFiniteSet(2..n)
          <6> HIDE DEF n, I, low, c
          <6> QED BY ONLY <5>1, FS_Interval
        <5> QED BY <5>2
      <4>2. IsFiniteSet(I)
        BY <4>1, FS_Subset
      <4> QED BY <1>1, <3>2, <4>1, <4>2
    <3> HIDE DEF I
    <3> QED BY <3>3, MaxIs
  <2> HIDE DEF I, low, c
  <2>5. x = IF key < Children(T, d)[2].min THEN Children(T, d)[1].id
            ELSE Children(T, d)[Max(I)].id
    BY <2>1, <2>2 DEF ChildFor
  <2>6. key < low(2) => x = c(1)
    BY <1>2, <2>3, <2>5
  <2>7. ~(key < low(2)) => x = c(Max(I))
    BY <1>2, <2>3, <2>4, <2>5
  <2> QED BY <2>6, <2>7
<1>9. \E j \in 1..n : /\ x = c(j)
                      /\ \A i \in 1..n : (i < j => low(j) <= key) /\ (j < i => key < low(i))
  <2>1. 1 \in 1..n /\ 2 \in 1..n /\ low(2) \in Nat
    BY <1>1, <1>4, <1>5
  <2>2. CASE key < low(2)
    <3>1. \A i \in 1..n : 1 < i => key < low(i)
      <4> SUFFICES ASSUME NEW i \in 1..n, 1 < i PROVE key < low(i)
        OBVIOUS
      <4>1. low(i) \in Nat /\ low(i) \in B[c(i)] /\ low(2) \in B[c(2)]
        BY <1>4, <1>5, <2>1
      <4>2. i = 2 \/ 2 < i
        BY <1>1
      <4>3. i = 2 \/ low(2) < low(i)
        BY <1>6, <2>1, <4>1, <4>2
      <4> HIDE DEF low
      <4> QED BY <2>1, <2>2, <4>1, <4>3
    <3>2. \A i \in 1..n : ~(i < 1)
      BY <1>1
    <3> QED BY <1>8, <2>1, <2>2, <3>1, <3>2
  <2>3. CASE ~(key < low(2))
    <3>1. 2 \in I
      BY <1>1, <2>1, <2>3
    <3>2. I \in SUBSET Nat /\ IsFiniteSet(I) /\ I # {}
      <4>1. IsFiniteSet(2..n) /\ I \subseteq 2..n
        <5>1. n \in Int
          BY <1>1
        <5>2. IsFiniteSet(2..n)
          <6> HIDE DEF n, I, low, c
          <6> QED BY ONLY <5>1, FS_Interval
        <5> QED BY <5>2
      <4>2. IsFiniteSet(I)
        BY <4>1, FS_Subset
      <4> QED BY <1>1, <3>1, <4>1, <4>2
    <3>3. Max(I) \in I /\ \A i \in I : i <= Max(I)
      <4> HIDE DEF I
      <4> QED BY <3>2, MaxIs
    <3> DEFINE j == Max(I)
    <3> HIDE DEF j
    <3>4. j \in 2..n /\ low(j) <= key /\ j \in 1..n
      BY <1>1, <3>3 DEF j
    <3>5. \A i \in 1..n : j < i => key < low(i)
      <4> SUFFICES ASSUME NEW i \in 1..n, j < i PROVE key < low(i)
        OBVIOUS
      <4>1. ~(i <= j) /\ i \in 2..n
        BY <1>1, <3>4
      <4>2. i \notin I
        BY <3>3, <4>1 DEF j
      <4>3. ~(low(i) <= key) /\ low(i) \in Nat
        BY <1>4, <1>5, <4>1, <4>2
      <4> QED BY <4>3
    <3> QED BY <1>8, <2>3, <3>4, <3>5 DEF j
  <2> QED BY <2>2, <2>3
<1>10. PICK j \in 1..n :
         /\ x = c(j)
         /\ \A i \in 1..n : (i < j => low(j) <= key) /\ (j < i => key < low(i))
  BY <1>9
<1>11. ASSUME NEW v \in B[T.root] \ B[x], NEW w \in B[x]
       PROVE  v # key /\ (v < w <=> v < key)
  <2>1. w \in B[d]
    BY <1>3, <1>10
  <2>2. CASE v \notin B[d]
    BY <2>1, <2>2 DEF Place
  <2>3. CASE v \in B[d]
    <3>1. PICK i \in 1..n : v \in B[c(i)]
      BY <1>7, <2>3
    <3>2. v \in Nat /\ w \in Nat /\ low(i) \in Nat /\ low(j) \in Nat
      BY <1>4, <1>5, <1>10, <3>1
    <3>3. low(i) <= v /\ low(j) <= w /\ low(j) \in B[c(j)]
      BY <1>5, <1>10, <3>1
    <3>4. i < j \/ j < i
      BY <1>10, <3>1
    <3>5. CASE i < j
      <4>1. v < w /\ v < low(j) /\ low(j) <= key
        BY <1>6, <1>10, <3>1, <3>3, <3>5
      <4> HIDE DEF low
      <4> QED BY <3>2, <4>1
    <3>6. CASE j < i
      <4>1. w < v /\ key < low(i) /\ low(i) <= v
        BY <1>6, <1>10, <3>1, <3>3, <3>6
      <4> HIDE DEF low
      <4> QED BY <3>2, <4>1
    <3> QED BY <3>4, <3>5, <3>6
  <2> QED BY <2>2, <2>3
<1>12. Place(T, B, x, key)
  BY <1>11 DEF Place
<1> QED BY <1>1, <1>3, <1>10, <1>12

\* The search ends at the leaf where the key has its place.
LEMMA SearchFinds ==
  ASSUME NEW T, NEW B, NEW H, Built(T, B, H), Told(T, B), NEW key \in Nat,
         \A d \in Nodes(T) : H[d] # 0 => Len(Children(T, d)) >= 2,
         NEW x, x = treeSearch(T, key)
  PROVE  x \in Nodes(T) /\ H[x] = 0 /\ Place(T, B, x, key)
<1> DEFINE n == Levels(T)
           f == CHOOSE g : g = [i \in 0..n |-> IF i = 0 THEN T.root ELSE Down(T, key, g[i - 1])]
           Good(i) == /\ f[i] \in Nodes(T) /\ Place(T, B, f[i], key)
                      /\ H[f[i]] + i <= H[T.root] \/ H[f[i]] = 0
<1>1. n \in Nat /\ H[T.root] < n /\ H[T.root] \in Nat
  BY FewLevels, RootParts, NodeParts
<1>2. x = f[n]
  BY DEF treeSearch, Down
<1> HIDE DEF n
<1>3. f = [i \in 0..n |-> IF i = 0 THEN T.root ELSE Down(T, key, f[i - 1])]
  <2> HIDE DEF f, Good
  <2> DEFINE a == T.root
  <2> HIDE DEF a
  <2>1. \E g : g = [i \in 0..n |-> IF i = 0 THEN a ELSE Down(T, key, g[i - 1])]
    <3>1. \E g : IsWay(g, T, key, a, n)
      BY <1>1, WayExists
    <3> QED BY <3>1 DEF IsWay
  <2> QED BY <2>1 DEF f, a
<1> HIDE DEF f
<1>4. Good(0)
  <2>1. f[0] = T.root
    BY <1>1, <1>3
  <2> QED BY <1>1, <2>1, RootParts DEF Place
<1>5. ASSUME NEW i \in 0..n, i # 0, Good(i - 1) PROVE Good(i)
  <2> DEFINE d == f[i - 1]
  <2>1. i \in Nat /\ i - 1 \in Nat /\ f[i] = Down(T, key, d)
    BY <1>1, <1>3, <1>5
  <2>2. /\ d \in Nodes(T) /\ Place(T, B, d, key)
        /\ H[d] + (i - 1) <= H[T.root] \/ H[d] = 0
    BY <1>5
  <2> HIDE DEF d
  <2>3. CASE H[d] = 0
    <3>1. f[i] = d
      BY <2>1, <2>2, <2>3, LeafParts DEF Down
    <3> QED BY <2>2, <2>3, <3>1
  <2>4. CASE H[d] # 0
    <3>1. f[i] = ChildFor(T.node[d].children, key)
      BY <2>1, <2>2, <2>4, LeafParts DEF Down
    <3> DEFINE y == f[i]
    <3>2. y = ChildFor(T.node[d].children, key)
      BY <3>1
    <3> HIDE DEF y
    <3>3. y \in Nodes(T) /\ H[y] + 1 = H[d] /\ H[y] \in Nat /\ Place(T, B, y, key)
      BY <2>2, <2>4, <3>2, DownStep
    <3>4. H[y] + i <= H[T.root]
      BY <1>1, <2>1, <2>2, <2>4, <3>3
    <3> QED BY <3>3, <3>4 DEF y
  <2> QED BY <2>3, <2>4
<1> DEFINE Bad == {i \in 0..n : ~Good(i)}
<1>6. Bad = {}
  <2> HIDE DEF Good
  <2>1. SUFFICES ASSUME Bad # {} PROVE FALSE
    OBVIOUS
  <2>2. PICK i \in Bad : \A k \in Bad : i <= k
    <3>1. Bad \in SUBSET Nat
      BY <1>1
    <3> HIDE DEF Bad
    <3> QED BY <2>1, <3>1, Lowest
  <2>3. i # 0 /\ i \in 0..n
    BY <1>4, <2>2
  <2>4. i - 1 \in 0..n /\ ~(i <= i - 1)
    BY <1>1, <2>3
  <2>5. Good(i - 1)
    BY <2>2, <2>4
  <2> QED BY <1>5, <2>2, <2>3, <2>5
<1>7. Good(n)
  BY <1>1, <1>6
<1>8. H[f[n]] = 0
  <2>1. H[f[n]] \in Nat
    BY <1>7, NodeParts
  <2> QED BY <1>1, <1>7, <2>1
<1> QED BY <1>2, <1>7, <1>8

\* The indices of a sequence are finitely many.
LEMMA UpToFinite == ASSUME NEW n \in Nat PROVE IsFiniteSet(1..n)
<1>1. 1 \in Int /\ n \in Int
  OBVIOUS
<1> QED BY <1>1, FS_Interval

InRange(S, from, to) == {v \in S : from <= v /\ v <= to}

UnderOf(u, c, from, to) ==
  IF from <= c.min /\ c.max <= to THEN c.count
  ELSE IF from > c.max \/ c.min > to THEN 0 ELSE u[c.id]

CountOf(T, u, d, from, to) ==
  IF IsLeaf(T.node[d]) THEN Cardinality({v \in T.node[d].values : from <= v /\ v <= to})
  ELSE Total([i \in DOMAIN T.node[d].children |-> UnderOf(u, T.node[d].children[i], from, to)])

\* What is told of a child, or counted under it, is what it has in the range.
LEMMA UnderTrue ==
  ASSUME NEW T, NEW B, NEW H, Built(T, B, H), NEW c \in Nodes(T),
         NEW from \in Nat, NEW to \in Nat, NEW e, e = TrueEntry(B, c),
         NEW u, u[c] = Cardinality(InRange(B[c], from, to))
  PROVE  UnderOf(u, e, from, to) = Cardinality(InRange(B[c], from, to))
<1>1. B[c] \in SUBSET Nat /\ B[c] # {} /\ IsFiniteSet(B[c])
  BY NodeParts
<1>2. /\ e.id = c /\ e.min = Min(B[c]) /\ e.max = Max(B[c]) /\ e.count = Cardinality(B[c])
  BY DEF TrueEntry
<1> DEFINE a == Min(B[c])
           b == Max(B[c])
<1>3. a \in Nat /\ b \in Nat /\ \A v \in B[c] : a <= v /\ v <= b
  <2>1. a \in B[c] /\ \A v \in B[c] : a <= v
    BY <1>1, MinIs
  <2>2. b \in B[c] /\ \A v \in B[c] : v <= b
    BY <1>1, MaxIs
  <2> QED BY <1>1, <2>1, <2>2
<1>4. UnderOf(u, e, from, to) =
        IF from <= a /\ b <= to THEN Cardinality(B[c])
        ELSE IF from > b \/ a > to THEN 0 ELSE u[c]
  BY <1>2 DEF UnderOf
<1> HIDE DEF a, b
<1>5. CASE from <= a /\ b <= to
  <2>1. \A v \in B[c] : from <= v /\ v <= to
    BY <1>1, <1>3, <1>5
  <2>2. InRange(B[c], from, to) = B[c]
    BY <2>1 DEF InRange
  <2> QED BY <1>4, <1>5, <2>2
<1>6. CASE ~(from <= a /\ b <= to) /\ (from > b \/ a > to)
  <2>1. \A v \in B[c] : ~(from <= v /\ v <= to)
    BY <1>1, <1>3, <1>6
  <2>2. InRange(B[c], from, to) = {}
    BY <2>1 DEF InRange
  <2>3. UnderOf(u, e, from, to) = 0
    BY <1>4, <1>6
  <2> QED BY <2>2, <2>3, FS_EmptySet
<1>7. CASE ~(from <= a /\ b <= to) /\ ~(from > b \/ a > to)
  <2>1. UnderOf(u, e, from, to) = u[c]
    BY <1>4, <1>7
  <2> QED BY <2>1
<1> QED BY <1>5, <1>6, <1>7

\* Counting under the children counts under the node.
LEMMA CountStep ==
  ASSUME NEW T, NEW B, NEW H, Built(T, B, H), Told(T, B), NEW d \in Nodes(T),
         NEW from \in Nat, NEW to \in Nat, NEW u,
         \A i \in DOMAIN Children(T, d) :
            u[ChildId(T, d, i)] = Cardinality(InRange(B[ChildId(T, d, i)], from, to))
  PROVE  CountOf(T, u, d, from, to) = Cardinality(InRange(B[d], from, to))
<1>1. CASE H[d] = 0
  <2>1. IsLeaf(T.node[d]) /\ T.node[d].values = B[d]
    BY <1>1, LeafParts
  <2> QED BY <2>1 DEF CountOf, InRange
<1>2. CASE H[d] # 0
  <2> DEFINE n == Len(Children(T, d))
             c(i) == ChildId(T, d, i)
             U == 1..n
             S == [i \in U |-> InRange(B[c(i)], from, to)]
             W == InRange(B[d], from, to)
             f == [i \in DOMAIN T.node[d].children |->
                      UnderOf(u, T.node[d].children[i], from, to)]
  <2>1. n \in Nat /\ DOMAIN Children(T, d) = U /\ ~IsLeaf(T.node[d])
    BY <1>2, NodeParts, LeafParts
  <2>2. IsFiniteSet(U)
    <3> HIDE DEF n
    <3> QED BY <2>1, UpToFinite
  <2>3. DOMAIN f = U
    BY <2>1 DEF Children
  <2>4. CountOf(T, u, d, from, to) = SumOf(f, U)
    <3>1. CountOf(T, u, d, from, to) = Total(f)
      BY <2>1 DEF CountOf
    <3> HIDE DEF f
    <3> QED BY <2>3, <3>1, TotalIs
  <2>5. \A i \in U : IsFiniteSet(S[i]) /\ f[i] = Cardinality(S[i])
    <3> SUFFICES ASSUME NEW i \in U PROVE IsFiniteSet(S[i]) /\ f[i] = Cardinality(S[i])
      OBVIOUS
    <3> DEFINE x == c(i)
               e == T.node[d].children[i]
    <3>1. x \in Nodes(T) /\ e = TrueEntry(B, x)
      BY <2>1, ChildParts DEF Told, Children
    <3>2. u[x] = Cardinality(InRange(B[x], from, to))
      BY <2>1
    <3>3. f[i] = UnderOf(u, e, from, to) /\ S[i] = InRange(B[x], from, to)
      BY <2>1 DEF Children
    <3> HIDE DEF x, e, f, S, c, U
    <3>4. f[i] = Cardinality(S[i])
      BY <3>1, <3>2, <3>3, UnderTrue
    <3>5. IsFiniteSet(B[x])
      BY <3>1, NodeParts
    <3>6. InRange(B[x], from, to) \subseteq B[x]
      BY DEF InRange
    <3>7. IsFiniteSet(S[i])
      BY <3>3, <3>5, <3>6, FS_Subset
    <3> QED BY <3>4, <3>7
  <2>6. \A i, j \in U : i # j => S[i] \cap S[j] = {}
    <3> SUFFICES ASSUME NEW i \in U, NEW j \in U, i # j PROVE S[i] \cap S[j] = {}
      OBVIOUS
    <3>1. B[c(i)] \cap B[c(j)] = {}
      BY <2>1, ChildrenApart
    <3> QED BY <3>1 DEF InRange
  <2>7. \A v : v \in W <=> \E i \in U : v \in S[i]
    <3>1. \A v : v \in B[d] <=> \E i \in U : v \in B[c(i)]
      BY <1>2, <2>1, InnerUnion
    <3> QED BY <3>1 DEF InRange
  <2> HIDE DEF U, S, W, f
  <2>8. SumOf(f, U) = Cardinality(W)
    BY ONLY <2>2, <2>5, <2>6, <2>7, UnionCount
  <2> QED BY <2>4, <2>8 DEF W
<1> QED BY <1>1, <1>2

\* Counting gives what the tree has in the range.
LEMMA CountIs ==
  ASSUME NEW T, NEW B, NEW H, Built(T, B, H), Told(T, B), NEW r \in Nodes(T),
         NEW from \in Nat, NEW to \in Nat
  PROVE  countNode(T, r, from, to) = Cardinality(InRange(B[r], from, to))
<1> DEFINE IsUnder(u) == u = [d \in Nodes(T) |-> CountOf(T, u, d, from, to)]
           u == CHOOSE g : IsUnder(g)
<1>1. countNode(T, r, from, to) = u[r]
  BY DEF countNode, CountOf, UnderOf, Nodes
<1>2. \E g : IsUnder(g)
  <2> DEFINE g == [d \in Nodes(T) |-> Cardinality(InRange(B[d], from, to))]
             h == [d \in Nodes(T) |-> CountOf(T, g, d, from, to)]
  <2>1. \A d \in Nodes(T) : g[d] = h[d]
    <3> SUFFICES ASSUME NEW d \in Nodes(T)
                 PROVE  CountOf(T, g, d, from, to) = Cardinality(InRange(B[d], from, to))
      OBVIOUS
    <3>1. \A i \in DOMAIN Children(T, d) :
             g[ChildId(T, d, i)] = Cardinality(InRange(B[ChildId(T, d, i)], from, to))
      BY ChildParts
    <3> HIDE DEF g
    <3> QED BY <3>1, CountStep
  <2>2. g = h
    BY <2>1
  <2> QED BY <2>2
<1>3. IsUnder(u)
  BY <1>2
<1> HIDE DEF u
<1>4. \A d \in Nodes(T) : u[d] = CountOf(T, u, d, from, to)
  BY <1>3
<1> DEFINE Bad == {d \in Nodes(T) : u[d] # Cardinality(InRange(B[d], from, to))}
<1>5. Bad = {}
  <2>1. SUFFICES ASSUME Bad # {} PROVE FALSE
    OBVIOUS
  <2>2. PICK d \in Bad : \A e \in Bad : H[d] <= H[e]
    <3>1. Bad \in SUBSET Nodes(T)
      OBVIOUS
    <3> HIDE DEF Bad
    <3> QED BY <2>1, <3>1, LowestNode
  <2>3. ASSUME NEW i \in DOMAIN Children(T, d)
        PROVE  u[ChildId(T, d, i)] = Cardinality(InRange(B[ChildId(T, d, i)], from, to))
    <3> DEFINE c == ChildId(T, d, i)
    <3>1. c \in Nodes(T) /\ H[c] + 1 = H[d] /\ H[c] \in Nat
      BY <2>2, ChildParts
    <3>2. ~(H[d] <= H[c])
      BY <3>1
    <3>3. c \notin Bad
      BY <2>2, <3>2
    <3> QED BY <3>1, <3>3
  <2>4. u[d] = Cardinality(InRange(B[d], from, to))
    BY <1>4, <2>2, <2>3, CountStep
  <2> QED BY <2>2, <2>4
<1> QED BY <1>1, <1>5

-------------------------------------------------------------------------------
(* Splitting: a node is halved, or a new root is put over the old one.       *)

\* A free node number.
LEMMA FreshId ==
  ASSUME NEW T, IsFiniteSet(DOMAIN T.node), NEW y, y = allocateNodeId(T)
  PROVE  y \in Nat \ {0} /\ y \notin DOMAIN T.node
<1> DEFINE m == Cardinality(DOMAIN T.node)
           S == (1..m + 1) \ DOMAIN T.node
<1>1. m \in Nat
  BY FS_CardinalityType
<1>2. S # {}
  <2>1. SUFFICES ASSUME 1..m + 1 \subseteq DOMAIN T.node PROVE FALSE
    OBVIOUS
  <2>2. Cardinality(1..m + 1) <= m
    BY <2>1, FS_Subset
  <2>3. Cardinality(1..m + 1) = m + 1
    <3> HIDE DEF m
    <3>1. 1 \in Int /\ m + 1 \in Int /\ ~(1 > m + 1) /\ m + 1 - 1 + 1 = m + 1
      BY <1>1
    <3> QED BY <3>1, FS_Interval
  <2> QED BY <1>1, <2>2, <2>3
<1>3. S \in SUBSET Nat
  BY <1>1
<1>4. y = Min(S)
  BY DEF allocateNodeId
<1> HIDE DEF m
<1>5. y \in S
  <2> HIDE DEF S
  <2> QED BY <1>2, <1>3, <1>4, MinIs
<1>6. y \in 1..m + 1
  BY <1>5
<1> QED BY <1>1, <1>5, <1>6

\* The m least members of a finite set of numbers.
Least(S, m) == {v \in S : Cardinality({w \in S : w < v}) < m}

\* As many least members as were asked for, all below the others.
LEMMA LeastCount ==
  ASSUME NEW S \in SUBSET Nat, IsFiniteSet(S), NEW m \in Nat, m <= Cardinality(S)
  PROVE  /\ Cardinality(Least(S, m)) = m
         /\ \A a \in Least(S, m), b \in S \ Least(S, m) : a < b
<1> DEFINE n == Cardinality(S)
           Below(v) == {w \in S : w < v}
           f == [v \in S |-> Cardinality(Below(v))]
<1>1. n \in Nat
  BY FS_CardinalityType
<1>2. ASSUME NEW v \in S
      PROVE  IsFiniteSet(Below(v)) /\ Cardinality(Below(v)) \in 0..n - 1
  <2>1. Below(v) \subseteq S \ {v} /\ Below(v) \subseteq S
    OBVIOUS
  <2>2. IsFiniteSet(S \ {v}) /\ Cardinality(S \ {v}) = n - 1
    BY FS_RemoveElement
  <2> HIDE DEF Below, n
  <2>3. IsFiniteSet(Below(v)) /\ Cardinality(Below(v)) <= n - 1
    BY <2>1, <2>2, FS_Subset
  <2>4. Cardinality(Below(v)) \in Nat
    BY <2>3, FS_CardinalityType
  <2> QED BY <1>1, <2>3, <2>4
<1>3. ASSUME NEW v \in S, NEW w \in S, v < w
      PROVE  Cardinality(Below(v)) < Cardinality(Below(w))
  <2>1. Below(v) \subseteq Below(w) /\ v \in Below(w) /\ v \notin Below(v)
    <3>1. v \in Nat /\ w \in Nat /\ S \subseteq Nat
      OBVIOUS
    <3>2. \A u \in S : u < v => u < w
      BY <1>3, <3>1
    <3>3. ~(v < v)
      BY <3>1
    <3> QED BY <1>3, <3>2, <3>3
  <2>2. IsFiniteSet(Below(w)) /\ IsFiniteSet(Below(v))
    BY <1>2
  <2> HIDE DEF Below
  <2>3. Cardinality(Below(v)) <= Cardinality(Below(w))
    BY <2>1, <2>2, FS_Subset
  <2>4. Cardinality(Below(v)) # Cardinality(Below(w))
    BY <2>1, <2>2, FS_Subset
  <2>5. Cardinality(Below(v)) \in Nat /\ Cardinality(Below(w)) \in Nat
    BY <2>2, FS_CardinalityType
  <2> QED BY <2>3, <2>4, <2>5
<1> HIDE DEF n, Below
<1>4. f \in Injection(S, 0..n - 1)
  <2>1. \A v, w \in S : v # w => f[v] # f[w]
    <3> SUFFICES ASSUME NEW v \in S, NEW w \in S, v # w PROVE f[v] # f[w]
      OBVIOUS
    <3>1. v < w \/ w < v
      OBVIOUS
    <3>2. f[v] < f[w] \/ f[w] < f[v]
      BY <1>3, <3>1
    <3>3. f[v] \in Nat /\ f[w] \in Nat
      BY <1>1, <1>2
    <3> QED BY <3>2, <3>3
  <2>2. f \in [S -> 0..n - 1]
    BY <1>2
  <2> HIDE DEF f
  <2>3. \A v, w \in S : f[v] = f[w] => v = w
    BY <2>1
  <2> QED BY <2>2, <2>3 DEF Injection, IsInjective
<1>5. f \in Surjection(S, 0..n - 1)
  <2>1. 0 \in Int /\ n - 1 \in Int /\ (0 > n - 1 => n = 0) /\ n - 1 - 0 + 1 = n
    BY <1>1
  <2>2. IsFiniteSet(0..n - 1) /\ Cardinality(0..n - 1) = n
    BY <2>1, FS_Interval
  <2> HIDE DEF f
  <2> QED BY <1>4, <2>2, FS_Injection DEF n
<1> DEFINE L == Least(S, m)
           g == [v \in L |-> f[v]]
<1>6. \A v \in S : v \in L <=> f[v] < m
  BY DEF Least, Below
<1>7. L \subseteq S /\ IsFiniteSet(L)
  <2>1. L \subseteq S
    BY DEF Least
  <2> HIDE DEF L
  <2> QED BY <2>1, FS_Subset
<1>8. \A v \in S : f[v] \in 0..n - 1
  BY <1>2
<1>9. \A v, w \in S : f[v] = f[w] => v = w
  <2> HIDE DEF f
  <2> QED BY <1>4 DEF Injection, IsInjective
<1>10. \A k \in 0..n - 1 : \E v \in S : f[v] = k
  <2> HIDE DEF f
  <2> QED BY <1>5 DEF Surjection
<1> HIDE DEF f, L
<1>11. g \in Surjection(L, 0..m - 1)
  <2>1. g \in [L -> 0..m - 1]
    <3> SUFFICES ASSUME NEW v \in L PROVE f[v] \in 0..m - 1
      OBVIOUS
    <3>1. f[v] \in 0..n - 1 /\ f[v] < m
      BY <1>6, <1>7, <1>8
    <3> QED BY <1>1, <3>1
  <2>2. \A k \in 0..m - 1 : \E v \in L : g[v] = k
    <3> SUFFICES ASSUME NEW k \in 0..m - 1 PROVE \E v \in L : f[v] = k
      OBVIOUS
    <3>1. k \in 0..n - 1 /\ k < m
      BY <1>1 DEF n
    <3>2. PICK v \in S : f[v] = k
      BY <1>10, <3>1
    <3> QED BY <1>6, <3>1, <3>2
  <2> HIDE DEF g
  <2> QED BY <2>1, <2>2 DEF Surjection
<1>12. g \in Injection(L, 0..m - 1)
  <2>1. g \in [L -> 0..m - 1]
    BY <1>11 DEF Surjection
  <2>2. \A v, w \in L : g[v] = g[w] => v = w
    BY <1>7, <1>9
  <2> HIDE DEF g
  <2> QED BY <2>1, <2>2 DEF Injection, IsInjective
<1> HIDE DEF g
<1>13. Cardinality(L) = m
  <2>1. 0 \in Int /\ m - 1 \in Int /\ (0 > m - 1 => m = 0) /\ m - 1 - 0 + 1 = m
    OBVIOUS
  <2>2. Cardinality(0..m - 1) = m
    BY <2>1, FS_Interval
  <2>3. Cardinality(0..m - 1) = Cardinality(L)
    BY <1>7, <1>11, <1>12, FS_Surjection
  <2> QED BY <2>2, <2>3
<1>14. ASSUME NEW a \in L, NEW b \in S \ L PROVE a < b
  <2>1. a \in S /\ a # b /\ f[a] < m /\ ~(f[b] < m)
    BY <1>6, <1>7
  <2>2. f[a] \in Nat /\ f[b] \in Nat
    BY <1>1, <1>8, <2>1
  <2>3. b < a => f[b] < f[a]
    BY <1>3, <2>1 DEF f
  <2>4. ~(b < a)
    BY <2>1, <2>2, <2>3
  <2> QED BY <2>1, <2>4
<1> QED BY <1>13, <1>14 DEF L

\* An entry names its child.
LEMMA EntryId == ASSUME NEW d, NEW n PROVE Entry(d, n).id = d
BY DEF Entry

\* U is T with node x halved: its first children, as many as cut, stay, the
\* others go to the new node y, which is x's right neighbour.
Halved(T, U, x, y, k, cut) ==
  LET p == Parent(T, x)
      m == Len(Children(T, x))
      n == Len(Children(T, p))
  IN  /\ WellTyped(U) /\ U.root = T.root /\ Nodes(U) = Nodes(T) \cup {y}
      /\ Parent(U, x) = p /\ Parent(U, y) = p /\ Parent(U, p) = Parent(T, p)
      /\ U.node[p].values = T.node[p].values
      /\ Len(Children(U, x)) = cut /\ Len(Children(U, y)) = m - cut
      /\ \A i \in 1..cut : Children(U, x)[i] = Children(T, x)[i]
      /\ \A i \in 1..m - cut : Children(U, y)[i] = Children(T, x)[cut + i]
      /\ Len(Children(U, p)) = n + 1
      /\ Children(U, p)[k] = Entry(x, U.node[x]) /\ Children(U, p)[k + 1] = Entry(y, U.node[y])
      /\ \A i \in 1..n : /\ i < k => Children(U, p)[i] = Children(T, p)[i]
                         /\ k < i => Children(U, p)[i + 1] = Children(T, p)[i]
      /\ \A d \in Nodes(T) \ {x, p} :
            /\ U.node[d].values = T.node[d].values /\ Children(U, d) = Children(T, d)
            /\ Parent(U, d) = IF \E i \in cut + 1..m : ChildId(T, x, i) = d
                              THEN y ELSE Parent(T, d)

\* The values are halved with it.
Shares(T, B, H, U, x, y, cut, L, R) ==
  /\ L # {} /\ R # {} /\ L \cup R = B[x] /\ \A a \in L, b \in R : a < b
  /\ IF H[x] = 0 THEN U.node[x].values = L /\ U.node[y].values = R
     ELSE /\ U.node[x].values = {} /\ U.node[y].values = {}
          /\ 1 <= cut /\ cut < Len(Children(T, x))
          /\ \A v : v \in L <=> \E i \in 1..cut : v \in B[ChildId(T, x, i)]
          /\ \A v : v \in R <=> \E i \in cut + 1..Len(Children(T, x)) : v \in B[ChildId(T, x, i)]

\* A tree with a halved node is built.
LEMMA SplitBuilt ==
  ASSUME NEW T, NEW B, NEW H, Built(T, B, H), NEW x \in Nodes(T), x # T.root,
         NEW y, y \in Nat \ {0}, y \notin Nodes(T),
         NEW k \in DOMAIN Children(T, Parent(T, x)), ChildId(T, Parent(T, x), k) = x,
         NEW cut \in 0..Len(Children(T, x)), NEW U, Halved(T, U, x, y, k, cut),
         NEW L, NEW R, Shares(T, B, H, U, x, y, cut, L, R),
         NEW C, C = [d \in Nodes(U) |-> IF d = x THEN L ELSE IF d = y THEN R ELSE B[d]],
         NEW G, G = [d \in Nodes(U) |-> IF d = y THEN H[x] ELSE H[d]]
  PROVE  Built(U, C, G)
<1> DEFINE p == Parent(T, x)
           m == Len(Children(T, x))
           n == Len(Children(T, p))
           c(i) == ChildId(T, x, i)
           b(i) == ChildId(T, p, i)
           q(i) == ChildId(U, p, i)
           moved == {d \in Nodes(T) : \E i \in cut + 1..m : c(i) = d}
<1>1. /\ WellTyped(U) /\ U.root = T.root /\ Nodes(U) = Nodes(T) \cup {y}
      /\ Parent(U, x) = p /\ Parent(U, y) = p /\ Parent(U, p) = Parent(T, p)
      /\ U.node[p].values = T.node[p].values
  BY DEF Halved
<1>2. /\ p \in Nodes(T) /\ p # 0 /\ H[p] = H[x] + 1 /\ B[x] \subseteq B[p] /\ H[x] \in Nat
      /\ p # x /\ p # y
  <2>1. p \in Nodes(T) /\ p # 0 /\ H[p] = H[x] + 1 /\ B[x] \subseteq B[p] /\ H[x] \in Nat
    BY ParentParts, NodeParts
  <2> HIDE DEF p
  <2> QED BY <2>1
<1>3. /\ m \in Nat /\ DOMAIN Children(T, x) = 1..m /\ cut \in Nat /\ cut <= m
      /\ n \in Nat /\ DOMAIN Children(T, p) = 1..n /\ k \in 1..n /\ k \in Nat
  <2>1. m \in Nat /\ DOMAIN Children(T, x) = 1..m
    BY NodeParts
  <2>2. n \in Nat /\ DOMAIN Children(T, p) = 1..n
    BY <1>2, NodeParts
  <2> QED BY <2>1, <2>2
<1>4. \A d \in Nodes(U) : /\ Children(U, d) \in Seq(Child)
                          /\ DOMAIN Children(U, d) = 1..Len(Children(U, d))
                          /\ Len(Children(U, d)) \in Nat
  <2>1. \A d \in Nodes(U) : Children(U, d) \in Seq(Child)
    BY <1>1 DEF WellTyped, Node, Children
  <2> QED BY <2>1
<1>5. /\ Len(Children(U, x)) = cut /\ Len(Children(U, y)) = m - cut
      /\ Len(Children(U, p)) = n + 1
      /\ DOMAIN Children(U, x) = 1..cut /\ DOMAIN Children(U, y) = 1..m - cut
      /\ DOMAIN Children(U, p) = 1..n + 1
  BY <1>1, <1>2, <1>4 DEF Halved
<1>6. /\ \A i \in 1..cut : ChildId(U, x, i) = c(i)
      /\ \A i \in 1..m - cut : ChildId(U, y, i) = c(cut + i)
  <2>1. /\ \A i \in 1..cut : Children(U, x)[i] = Children(T, x)[i]
        /\ \A i \in 1..m - cut : Children(U, y)[i] = Children(T, x)[cut + i]
    BY DEF Halved
  <2> HIDE DEF m
  <2> QED BY <2>1 DEF ChildId, Children
<1>7. /\ q(k) = x /\ q(k + 1) = y
      /\ \A i \in 1..n : /\ i < k => q(i) = b(i)
                         /\ k < i => q(i + 1) = b(i)
  <2>1. /\ Children(U, p)[k] = Entry(x, U.node[x])
        /\ Children(U, p)[k + 1] = Entry(y, U.node[y])
    BY DEF Halved
  <2>2. \A i \in 1..n : /\ i < k => Children(U, p)[i] = Children(T, p)[i]
                        /\ k < i => Children(U, p)[i + 1] = Children(T, p)[i]
    BY DEF Halved
  <2>3. Entry(x, U.node[x]).id = x /\ Entry(y, U.node[y]).id = y
    BY EntryId
  <2>4. q(k) = x /\ q(k + 1) = y
    BY <2>1, <2>3 DEF ChildId, Children
  <2>5. \A i \in 1..n : /\ i < k => q(i) = b(i)
                        /\ k < i => q(i + 1) = b(i)
    <3> SUFFICES ASSUME NEW i \in 1..n
                 PROVE  (i < k => q(i) = b(i)) /\ (k < i => q(i + 1) = b(i))
      OBVIOUS
    <3>1. i < k => q(i) = b(i)
      BY <2>2 DEF ChildId, Children
    <3>2. k < i => q(i + 1) = b(i)
      BY <2>2 DEF ChildId, Children
    <3> QED BY <3>1, <3>2
  <2> QED BY <2>4, <2>5
<1>8. \A d \in Nodes(T) \ {x, p} :
         /\ U.node[d].values = T.node[d].values /\ Children(U, d) = Children(T, d)
         /\ Parent(U, d) = IF d \in moved THEN y ELSE Parent(T, d)
  BY DEF Halved
<1>9. \A d \in Nodes(U) : /\ C[d] = IF d = x THEN L ELSE IF d = y THEN R ELSE B[d]
                          /\ G[d] = IF d = y THEN H[x] ELSE H[d]
  OBVIOUS
<1>10. /\ L # {} /\ R # {} /\ L \cup R = B[x] /\ \A a \in L, e \in R : a < e
       /\ H[x] = 0 => U.node[x].values = L /\ U.node[y].values = R
       /\ H[x] # 0 => /\ U.node[x].values = {} /\ U.node[y].values = {}
                      /\ 1 <= cut /\ cut < m
                      /\ \A v : v \in L <=> \E i \in 1..cut : v \in B[c(i)]
                      /\ \A v : v \in R <=> \E i \in cut + 1..m : v \in B[c(i)]
  BY DEF Shares
<1>11. \A i \in 1..m : /\ c(i) \in Nodes(T) /\ Parent(T, c(i)) = x /\ H[c(i)] + 1 = H[x]
                       /\ H[c(i)] \in Nat /\ c(i) # x /\ c(i) # y /\ c(i) # p
  <2> SUFFICES ASSUME NEW i \in 1..m
               PROVE  /\ c(i) \in Nodes(T) /\ Parent(T, c(i)) = x /\ H[c(i)] + 1 = H[x]
                      /\ H[c(i)] \in Nat /\ c(i) # x /\ c(i) # y /\ c(i) # p
    OBVIOUS
  <2>1. /\ c(i) \in Nodes(T) /\ Parent(T, c(i)) = x /\ H[c(i)] + 1 = H[x]
        /\ H[c(i)] \in Nat /\ c(i) # x
    BY <1>3, ChildParts
  <2> HIDE DEF c, p, m
  <2>2. c(i) # p
    BY <1>2, <2>1
  <2> QED BY <2>1, <2>2
<1>12. \A i, j \in 1..m : /\ i < j => \A a \in B[c(i)], e \in B[c(j)] : a < e
                          /\ i # j => c(i) # c(j)
  BY <1>3, ChildrenApart
<1>13. \A i \in 1..n : /\ b(i) \in Nodes(T) /\ Parent(T, b(i)) = p /\ H[b(i)] + 1 = H[p]
                       /\ b(i) # p /\ b(i) # y /\ b(i) \notin moved
                       /\ i # k => b(i) # x
  <2> SUFFICES ASSUME NEW i \in 1..n
               PROVE  /\ b(i) \in Nodes(T) /\ Parent(T, b(i)) = p /\ H[b(i)] + 1 = H[p]
                      /\ b(i) # p /\ b(i) # y /\ b(i) \notin moved
                      /\ i # k => b(i) # x
    OBVIOUS
  <2>1. /\ b(i) \in Nodes(T) /\ Parent(T, b(i)) = p /\ H[b(i)] + 1 = H[p] /\ b(i) # p
    BY <1>2, <1>3, ChildParts
  <2>2. i # k => b(i) # b(k)
    BY <1>2, <1>3, ChildrenApart
  <2>3. b(k) = x
    OBVIOUS
  <2> HIDE DEF b, p, c, m, n
  <2>4. b(i) \notin moved
    BY <1>2, <1>3, <1>11, <2>1
  <2> QED BY <2>1, <2>2, <2>3, <2>4
<1>14. \A i, j \in 1..n : i < j => \A a \in B[b(i)], e \in B[b(j)] : a < e
  BY <1>2, <1>3, ChildrenApart
<1>15. \A v : v \in B[p] <=> \E i \in 1..n : v \in B[b(i)]
  <2>1. H[p] # 0
    BY <1>2
  <2> QED BY <1>2, <1>3, <2>1, InnerUnion
<1>16. b(k) = x
  OBVIOUS
<1> HIDE DEF p, m, n, c, b, q, moved
<1>17. \A d \in Nodes(T) : /\ B[d] \in SUBSET Keys /\ B[d] # {} /\ IsFiniteSet(B[d])
                           /\ H[d] \in Nat /\ H[d] <= H[T.root]
  BY DEF Built
<1>18. /\ C \in [Nodes(U) -> SUBSET Keys] /\ G \in [Nodes(U) -> Nat]
       /\ \A d \in Nodes(U) : C[d] # {} /\ IsFiniteSet(C[d]) /\ G[d] <= G[U.root]
  <2>1. L \subseteq B[x] /\ R \subseteq B[x] /\ IsFiniteSet(B[x])
    BY <1>10, <1>17
  <2>2. IsFiniteSet(L) /\ IsFiniteSet(R)
    BY <2>1, FS_Subset
  <2>3. L \in SUBSET Keys /\ R \in SUBSET Keys
    BY <1>17, <2>1
  <2>4. G[U.root] = H[T.root]
    BY <1>1, <1>9, RootParts
  <2>5. C \in [Nodes(U) -> SUBSET Keys]
    BY <1>1, <1>17, <2>3
  <2>6. G \in [Nodes(U) -> Nat]
    BY <1>1, <1>2, <1>17
  <2>7. \A d \in Nodes(U) : C[d] # {} /\ IsFiniteSet(C[d]) /\ G[d] <= G[U.root]
    BY <1>1, <1>9, <1>10, <1>17, <2>2, <2>4
  <2> QED BY <2>5, <2>6, <2>7
<1>19. ASSUME NEW d \in {x, y}
       PROVE  IF G[d] = 0 THEN IsLeafOf(U, C, d) ELSE IsInnerOf(U, C, G, d)
  <2>1. d \in Nodes(U) /\ G[d] = H[x] /\ y # x
    BY <1>1, <1>9
  <2>2. CASE H[x] = 0
    <3>1. Children(T, x) = <<>>
      BY <2>2, LeafParts
    <3>2. m = 0
      BY <3>1 DEF m
    <3>3. Len(Children(U, d)) = 0
      BY <1>3, <1>5, <3>2
    <3>4. Children(U, d) = <<>>
      BY <1>4, <2>1, <3>3
    <3>5. U.node[d].values = C[d]
      BY <1>9, <1>10, <2>1, <2>2
    <3> QED BY <2>1, <2>2, <3>4, <3>5 DEF IsLeafOf
  <2>3. CASE H[x] # 0
    <3> DEFINE o == IF d = x THEN 0 ELSE cut
               w == IF d = x THEN cut ELSE m - cut
    <3>1. /\ o \in Nat /\ w \in Nat /\ w >= 1 /\ o + w <= m
          /\ o + 1..o + w = IF d = x THEN 1..cut ELSE cut + 1..m
      BY <1>3, <1>10, <2>3
    <3>2. /\ DOMAIN Children(U, d) = 1..w /\ Len(Children(U, d)) = w
          /\ \A i \in 1..w : ChildId(U, d, i) = c(o + i) /\ o + i \in 1..m
      <4>1. CASE d = x
        <5>1. o = 0 /\ w = cut
          BY <4>1
        <5> QED BY <1>3, <1>5, <1>6, <4>1, <5>1
      <4>2. CASE d # x
        <5>1. o = cut /\ w = m - cut /\ d = y
          BY <4>2
        <5> QED BY <1>3, <1>5, <1>6, <5>1
      <4> QED BY <4>1, <4>2
    <3>3. U.node[d].values = {} /\ Children(U, d) # <<>>
      <4>1. Children(U, d) # <<>>
        BY <3>1, <3>2
      <4> QED BY <1>10, <2>3, <4>1
    <3>4. ASSUME NEW i \in 1..w
          PROVE  /\ ChildId(U, d, i) \in Nodes(U) /\ Parent(U, ChildId(U, d, i)) = d
                 /\ G[ChildId(U, d, i)] + 1 = G[d]
                 /\ C[ChildId(U, d, i)] = B[c(o + i)]
      <4> DEFINE z == ChildId(U, d, i)
                 j == o + i
      <4>1. z = c(j) /\ j \in 1..m
        BY <3>2
      <4>2. z \in Nodes(T) \ {x, p} /\ z # y /\ Parent(T, z) = x /\ H[z] + 1 = H[x]
        BY <1>11, <4>1
      <4>3. j \in cut + 1..m <=> d = y
        BY <1>3, <2>1, <3>1, <3>2, <4>1
      <4> HIDE DEF z, j, o, w
      <4>4. z \in moved <=> d = y
        <5>1. d = y => z \in moved
          BY <4>1, <4>2, <4>3 DEF moved
        <5>2. z \in moved => d = y
          <6>1. SUFFICES ASSUME z \in moved PROVE d = y
            OBVIOUS
          <6>2. PICK e \in cut + 1..m : c(e) = z
            BY <6>1 DEF moved
          <6>3. e \in 1..m
            BY <1>3
          <6>4. e = j
            BY <1>12, <4>1, <6>2, <6>3
          <6> QED BY <4>3, <6>2, <6>4
        <5> QED BY <5>1, <5>2
      <4>5. Parent(U, z) = d
        BY <1>8, <2>1, <4>2, <4>4
      <4>6. z \in Nodes(U) /\ G[z] + 1 = G[d] /\ C[z] = B[z]
        BY <1>1, <1>9, <2>1, <4>2
      <4> QED BY <4>1, <4>5, <4>6 DEF z, j
    <3> HIDE DEF o, w
    <3>5. ASSUME NEW i \in 1..w, NEW j \in 1..w, i < j
          PROVE  \A a \in C[ChildId(U, d, i)], e \in C[ChildId(U, d, j)] : a < e
      <4>1. o + i \in 1..m /\ o + j \in 1..m
        BY <3>2
      <4>2. o + i < o + j
        BY <3>1, <3>5
      <4> QED BY <1>12, <3>4, <4>1, <4>2
    <3>6. \A v : v \in C[d] <=> \E i \in 1..w : v \in C[ChildId(U, d, i)]
      <4> SUFFICES ASSUME NEW v
                   PROVE  v \in C[d] <=> \E i \in 1..w : v \in C[ChildId(U, d, i)]
        OBVIOUS
      <4>1. v \in C[d] <=> \E i \in o + 1..o + w : v \in B[c(i)]
        BY <1>9, <1>10, <2>1, <2>3, <3>1
      <4>2. \A i \in 1..w : o + i \in o + 1..o + w
        BY <3>1
      <4>3. \A j \in o + 1..o + w : j - o \in 1..w /\ o + (j - o) = j
        BY <3>1
      <4>4. ASSUME NEW j \in o + 1..o + w, v \in B[c(j)]
            PROVE  \E i \in 1..w : v \in C[ChildId(U, d, i)]
        <5>1. j - o \in 1..w /\ o + (j - o) = j
          BY <4>3
        <5>2. C[ChildId(U, d, j - o)] = B[c(j)]
          BY <3>4, <5>1
        <5> QED BY <4>4, <5>1, <5>2
      <4>5. ASSUME NEW i \in 1..w, v \in C[ChildId(U, d, i)]
            PROVE  \E j \in o + 1..o + w : v \in B[c(j)]
        <5>1. C[ChildId(U, d, i)] = B[c(o + i)]
          BY <3>4
        <5> QED BY <4>2, <4>5, <5>1
      <4> QED BY <4>1, <4>4, <4>5
    <3>7. C[d] = UNION {C[ChildId(U, d, i)] : i \in DOMAIN Children(U, d)}
      <4>1. \A v : v \in C[d] <=> \E i \in DOMAIN Children(U, d) : v \in C[ChildId(U, d, i)]
        BY <3>2, <3>6
      <4> QED BY <4>1
    <3>8. \A i \in DOMAIN Children(U, d) :
             /\ ChildId(U, d, i) \in Nodes(U) /\ Parent(U, ChildId(U, d, i)) = d
             /\ G[ChildId(U, d, i)] + 1 = G[d]
      BY <3>2, <3>4
    <3>9. \A i, j \in DOMAIN Children(U, d) : i < j =>
             \A a \in C[ChildId(U, d, i)], e \in C[ChildId(U, d, j)] : a < e
      BY <3>2, <3>5
    <3>10. IsInnerOf(U, C, G, d)
      BY <3>3, <3>7, <3>8, <3>9 DEF IsInnerOf
    <3> QED BY <2>1, <2>3, <3>10
  <2> QED BY <2>2, <2>3
<1>20. G[p] # 0 /\ IsInnerOf(U, C, G, p)
  <2>1. p \in Nodes(U) /\ G[p] = H[p] /\ C[p] = B[p] /\ G[p] # 0
    BY <1>1, <1>2, <1>9
  <2> DEFINE s(i) == IF i <= k THEN i ELSE i - 1
  <2>2. ASSUME NEW i \in 1..n + 1
        PROVE  /\ s(i) \in 1..n
               /\ q(i) \in Nodes(U) /\ Parent(U, q(i)) = p /\ G[q(i)] + 1 = G[p]
               /\ C[q(i)] \subseteq B[b(s(i))]
               /\ i = k => q(i) = x
               /\ i = k + 1 => q(i) = y
               /\ i # k /\ i # k + 1 => C[q(i)] = B[b(s(i))]
    <3>1. CASE i = k
      <4>1. q(i) = x /\ s(i) = k /\ i # k + 1
        BY <1>3, <1>7, <3>1
      <4> QED BY <1>1, <1>2, <1>3, <1>9, <1>10, <1>16, <2>1, <3>1, <4>1
    <3>2. CASE i = k + 1
      <4>1. q(i) = y /\ s(i) = k /\ i # k
        BY <1>3, <1>7, <3>2
      <4> QED BY <1>1, <1>2, <1>3, <1>9, <1>10, <1>16, <2>1, <3>2, <4>1
    <3>3. CASE i # k /\ i # k + 1
      <4>1. s(i) \in 1..n /\ s(i) # k
        BY <1>3, <3>3
      <4>2. q(i) = b(s(i))
        <5>1. i < k => s(i) = i /\ s(i) < k
          BY <1>3
        <5>2. ~(i < k) => s(i) = i - 1 /\ k < s(i) /\ s(i) + 1 = i
          BY <1>3, <3>3
        <5> HIDE DEF s
        <5> QED BY <1>7, <4>1, <5>1, <5>2
      <4> DEFINE z == q(i)
      <4> HIDE DEF s
      <4>3. /\ z \in Nodes(T) /\ Parent(T, z) = p /\ H[z] + 1 = H[p]
            /\ z # p /\ z # y /\ z \notin moved /\ z # x
        BY <1>13, <4>1, <4>2
      <4>4. Parent(U, z) = p
        BY <1>8, <4>3
      <4>5. z \in Nodes(U) /\ G[z] + 1 = G[p] /\ C[z] = B[z]
        BY <1>1, <1>9, <2>1, <4>3
      <4> QED BY <3>3, <4>1, <4>2, <4>4, <4>5
    <3> QED BY <3>1, <3>2, <3>3
  <2>3. ASSUME NEW i \in 1..n + 1, NEW j \in 1..n + 1, i < j,
               NEW a \in C[q(i)], NEW e \in C[q(j)]
        PROVE  a < e
    <3>1. CASE i = k /\ j = k + 1
      <4>1. C[q(i)] = L /\ C[q(j)] = R
        BY <1>1, <1>9, <2>2, <3>1
      <4> QED BY <1>10, <4>1
    <3>2. CASE ~(i = k /\ j = k + 1)
      <4>1. s(i) < s(j)
        BY <1>3, <2>3, <3>2
      <4>2. s(i) \in 1..n /\ s(j) \in 1..n /\ a \in B[b(s(i))] /\ e \in B[b(s(j))]
        BY <2>2
      <4> HIDE DEF s
      <4> QED BY <1>14, <4>1, <4>2
    <3> QED BY <3>1, <3>2
  <2>4. \A v : v \in C[p] <=> \E i \in 1..n + 1 : v \in C[q(i)]
    <3> SUFFICES ASSUME NEW v PROVE v \in C[p] <=> \E i \in 1..n + 1 : v \in C[q(i)]
      OBVIOUS
    <3>1. ASSUME NEW i \in 1..n + 1, v \in C[q(i)] PROVE v \in C[p]
      <4>1. s(i) \in 1..n /\ v \in B[b(s(i))]
        BY <2>2, <3>1
      <4> HIDE DEF s
      <4> QED BY <1>15, <2>1, <4>1
    <3>2. ASSUME v \in C[p] PROVE \E i \in 1..n + 1 : v \in C[q(i)]
      <4>1. PICK j \in 1..n : v \in B[b(j)]
        BY <1>15, <2>1, <3>2
      <4>2. j \in 1..n + 1 /\ j + 1 \in 1..n + 1 /\ (j < k \/ j = k \/ k < j)
        BY <1>3
      <4>3. CASE j < k
        <5>1. j # k /\ j # k + 1 /\ s(j) = j
          BY <1>3, <4>3
        <5>2. C[q(j)] = B[b(j)]
          BY <2>2, <4>2, <5>1
        <5> QED BY <4>1, <4>2, <5>2
      <4>4. CASE j = k
        <5>1. C[q(k)] = L /\ C[q(k + 1)] = R
          BY <1>1, <1>9, <2>2, <4>2, <4>4
        <5>2. v \in L \/ v \in R
          BY <1>10, <1>16, <4>1, <4>4
        <5> QED BY <4>2, <4>4, <5>1, <5>2
      <4>5. CASE k < j
        <5>1. j + 1 # k /\ j + 1 # k + 1 /\ s(j + 1) = j
          BY <1>3, <4>5
        <5>2. C[q(j + 1)] = B[b(j)]
          BY <2>2, <4>2, <5>1
        <5> QED BY <4>1, <4>2, <5>2
      <4> QED BY <4>2, <4>3, <4>4, <4>5
    <3> QED BY <3>1, <3>2
  <2> HIDE DEF s
  <2>5. C[p] = UNION {C[q(i)] : i \in 1..n + 1}
    BY <2>4
  <2>6. U.node[p].values = {} /\ Children(U, p) # <<>>
    <3>1. T.node[p].values = {}
      BY <1>2, <2>1, LeafParts
    <3>2. Children(U, p) # <<>>
      BY <1>3, <1>5
    <3> QED BY <1>1, <3>1, <3>2
  <2>7. \A i \in 1..n + 1 : q(i) \in Nodes(U) /\ Parent(U, q(i)) = p /\ G[q(i)] + 1 = G[p]
    BY <2>2
  <2>8. \A i, j \in 1..n + 1 : i < j => \A a \in C[q(i)], e \in C[q(j)] : a < e
    BY <2>3
  <2>9. IsInnerOf(U, C, G, p)
    BY <1>5, <2>5, <2>6, <2>7, <2>8 DEF IsInnerOf, q
  <2> QED BY <2>1, <2>9
<1>21. ASSUME NEW d \in Nodes(T) \ {x, p}
       PROVE  IF G[d] = 0 THEN IsLeafOf(U, C, d) ELSE IsInnerOf(U, C, G, d)
  <2>1. d \in Nodes(U) /\ G[d] = H[d] /\ C[d] = B[d]
    BY <1>1, <1>9
  <2>2. Children(U, d) = Children(T, d) /\ U.node[d].values = T.node[d].values
    BY <1>8
  <2>3. \A i : ChildId(U, d, i) = ChildId(T, d, i)
    BY <2>2 DEF ChildId, Children
  <2>4. IF H[d] = 0 THEN IsLeafOf(T, B, d) ELSE IsInnerOf(T, B, H, d)
    BY DEF Built
  <2>5. CASE H[d] = 0
    BY <2>1, <2>2, <2>4, <2>5 DEF IsLeafOf
  <2>6. CASE H[d] # 0
    <3> DEFINE K == DOMAIN Children(T, d)
    <3>1. IsInnerOf(T, B, H, d)
      BY <2>4, <2>6
    <3>2. ASSUME NEW i \in K
          PROVE  LET z == ChildId(T, d, i)
                 IN  /\ z \in Nodes(U) /\ Parent(U, z) = d /\ G[z] + 1 = G[d] /\ C[z] = B[z]
      <4> DEFINE z == ChildId(T, d, i)
      <4>1. z \in Nodes(T) /\ Parent(T, z) = d /\ H[z] + 1 = H[d]
        BY <3>1 DEF IsInnerOf
      <4>2. z # x /\ z # y
        BY <4>1 DEF p
      <4>3. z \notin moved
        BY <1>3, <1>11, <4>1 DEF moved
      <4>4. Parent(U, z) = d
        <5>1. CASE z = p
          BY <1>1, <4>1, <5>1
        <5>2. CASE z # p
          BY <1>8, <4>1, <4>2, <4>3, <5>2
        <5> QED BY <5>1, <5>2
      <4> QED BY <1>1, <1>9, <2>1, <4>1, <4>2, <4>4
    <3>3. C[d] = UNION {C[ChildId(U, d, i)] : i \in DOMAIN Children(U, d)}
      <4>1. B[d] = UNION {B[ChildId(T, d, i)] : i \in K}
        BY <3>1 DEF IsInnerOf
      <4>2. \A i \in K : C[ChildId(U, d, i)] = B[ChildId(T, d, i)]
        BY <2>3, <3>2
      <4>3. \A v : v \in C[d] <=> \E i \in K : v \in C[ChildId(U, d, i)]
        <5>1. \A v : v \in B[d] <=> \E i \in K : v \in B[ChildId(T, d, i)]
          BY <4>1
        <5> HIDE DEF K
        <5> QED BY <2>1, <4>2, <5>1
      <4>4. \A v : v \in C[d] <=> \E i \in DOMAIN Children(U, d) : v \in C[ChildId(U, d, i)]
        BY <2>2, <4>3
      <4> QED BY <4>4
    <3>4. \A i, j \in K : i < j =>
             \A a \in B[ChildId(T, d, i)], e \in B[ChildId(T, d, j)] : a < e
      BY <3>1 DEF IsInnerOf
    <3>5. \A i, j \in DOMAIN Children(U, d) : i < j =>
             \A a \in C[ChildId(U, d, i)], e \in C[ChildId(U, d, j)] : a < e
      BY <2>2, <2>3, <3>2, <3>4
    <3>6. U.node[d].values = {} /\ Children(U, d) # <<>>
      BY <2>2, <3>1 DEF IsInnerOf
    <3>7. \A i \in DOMAIN Children(U, d) :
             /\ ChildId(U, d, i) \in Nodes(U) /\ Parent(U, ChildId(U, d, i)) = d
             /\ G[ChildId(U, d, i)] + 1 = G[d]
      BY <2>2, <2>3, <3>2
    <3>8. IsInnerOf(U, C, G, d)
      BY <3>3, <3>5, <3>6, <3>7 DEF IsInnerOf
    <3> QED BY <2>1, <2>6, <3>8
  <2> QED BY <2>5, <2>6
<1>22. Parent(U, U.root) = 0
  <2>1. T.root \in Nodes(T) /\ Parent(T, T.root) = 0 /\ T.root # x
    BY RootParts
  <2>2. T.root \notin moved
    <3>1. SUFFICES ASSUME NEW i \in 1..m, c(i) = T.root PROVE FALSE
      BY <1>3 DEF moved
    <3>2. Parent(T, T.root) = x /\ x # 0
      BY <1>11, <3>1, NodeParts
    <3> QED BY <2>1, <3>2
  <2> QED BY <1>1, <1>8, <2>1, <2>2
<1>23. ASSUME NEW d \in Nodes(U) \ {U.root}
       PROVE  /\ Parent(U, d) \in Nodes(U)
              /\ \E i \in DOMAIN Children(U, Parent(U, d)) : ChildId(U, Parent(U, d), i) = d
  <2>1. CASE d = x
    <3>1. k \in 1..n + 1 /\ q(k) = d
      BY <1>3, <1>7, <2>1
    <3> QED BY <1>1, <1>2, <1>5, <2>1, <3>1 DEF q
  <2>2. CASE d = y
    <3>1. k + 1 \in 1..n + 1 /\ q(k + 1) = d
      BY <1>3, <1>7, <2>2
    <3> QED BY <1>1, <1>2, <1>5, <2>2, <3>1 DEF q
  <2>3. CASE d \in moved
    <3>1. PICK i \in cut + 1..m : c(i) = d
      BY <2>3 DEF moved
    <3>2. i \in 1..m /\ i - cut \in 1..m - cut /\ cut + (i - cut) = i
      BY <1>3
    <3>3. d \in Nodes(T) \ {x, p}
      BY <1>11, <3>1, <3>2
    <3>4. Parent(U, d) = y
      BY <1>8, <2>3, <3>3
    <3>5. ChildId(U, y, i - cut) = d
      BY <1>6, <3>1, <3>2
    <3> QED BY <1>1, <1>5, <3>2, <3>4, <3>5
  <2>4. CASE d # x /\ d # y /\ d \notin moved
    <3> DEFINE r == Parent(T, d)
    <3>1. d \in Nodes(T) /\ d # T.root
      BY <1>1, <2>4
    <3>2. r \in Nodes(T) /\ \E i \in DOMAIN Children(T, r) : ChildId(T, r, i) = d
      BY <3>1, ParentParts
    <3>3. Parent(U, d) = r
      BY <1>1, <1>8, <2>4, <3>1
    <3> HIDE DEF r
    <3>4. PICK i \in DOMAIN Children(T, r) : ChildId(T, r, i) = d
      BY <3>2
    <3>5. CASE r = x
      <4>1. i \in 1..m /\ c(i) = d
        BY <1>3, <3>4, <3>5 DEF c
      <4>2. i \in 1..cut
        BY <1>3, <2>4, <3>1, <4>1 DEF moved
      <4>3. ChildId(U, x, i) = d
        BY <1>6, <4>1, <4>2
      <4> QED BY <1>1, <1>5, <3>3, <3>5, <4>2, <4>3
    <3>6. CASE r = p
      <4>1. i \in 1..n /\ b(i) = d
        BY <1>3, <3>4, <3>6 DEF b
      <4>2. i # k
        BY <1>16, <2>4, <4>1
      <4>3. i \in 1..n + 1 /\ i + 1 \in 1..n + 1 /\ (i < k \/ k < i)
        BY <1>3, <4>1, <4>2
      <4>4. q(i) = d \/ q(i + 1) = d
        BY <1>7, <4>1, <4>3
      <4> QED BY <1>1, <1>2, <1>5, <3>3, <3>6, <4>3, <4>4 DEF q
    <3>7. CASE r # x /\ r # p
      <4>1. Children(U, r) = Children(T, r)
        BY <1>8, <3>2, <3>7
      <4>2. ChildId(U, r, i) = d
        BY <3>4, <4>1 DEF ChildId, Children
      <4> QED BY <1>1, <3>2, <3>3, <3>4, <4>1, <4>2
    <3> QED BY <3>5, <3>6, <3>7
  <2> QED BY <2>1, <2>2, <2>3, <2>4
<1>24. \A d \in Nodes(U) : IF G[d] = 0 THEN IsLeafOf(U, C, d) ELSE IsInnerOf(U, C, G, d)
  <2> SUFFICES ASSUME NEW d \in Nodes(U)
               PROVE  IF G[d] = 0 THEN IsLeafOf(U, C, d) ELSE IsInnerOf(U, C, G, d)
    OBVIOUS
  <2>1. d \in {x, y} \/ d = p \/ d \in Nodes(T) \ {x, p}
    BY <1>1
  <2> QED BY <1>19, <1>20, <1>21, <2>1
<1> QED BY <1>1, <1>18, <1>22, <1>23, <1>24 DEF Built

\* Half a node is at least two, and two halves make one that is too large.
LEMMA HalfIs ==
  /\ minChildren \in Nat /\ minChildren >= 2
  /\ 2 * minChildren <= maxBranch /\ maxBranch <= 2 * minChildren + 1
  /\ maxChildren \in Nat /\ maxChildren + 1 = maxBranch /\ minChildren <= maxChildren
BY BranchAssumption DEF minChildren, maxChildren

Reparented(T, M, y) ==
  [T EXCEPT !.node = [c \in DOMAIN @ |-> IF c \in M THEN [@[c] EXCEPT !.parent = y] ELSE @[c]]]
Rooted(T, r) == [T EXCEPT !.root = r]

\* A tree with another root.
LEMMA RootExcept ==
  ASSUME NEW r, NEW g, NEW t, NEW q
  PROVE  [[root |-> r, node |-> g, thrown |-> t] EXCEPT !.root = q]
           = [root |-> q, node |-> g, thrown |-> t]
OBVIOUS

\* Some nodes get another parent.
LEMMA Reparent ==
  ASSUME NEW T, WellTyped(T), NEW M, NEW y \in Nat, NEW U, U = Reparented(T, M, y)
  PROVE  /\ WellTyped(U) /\ U.root = T.root /\ Nodes(U) = Nodes(T)
         /\ \A d \in Nodes(T) : /\ U.node[d].values = T.node[d].values
                                /\ Children(U, d) = Children(T, d)
                                /\ Parent(U, d) = IF d \in M THEN y ELSE Parent(T, d)
<1> DEFINE n(d) == [T.node[d] EXCEPT !.parent = y]
           f == [c \in DOMAIN T.node |-> IF c \in M THEN n(c) ELSE T.node[c]]
<1>1. U = [root |-> T.root, node |-> f, thrown |-> FALSE]
  <2>1. T = [root |-> T.root, node |-> T.node, thrown |-> FALSE]
    BY DEF WellTyped
  <2>2. U = [T EXCEPT !.node = f]
    BY DEF Reparented
  <2> HIDE DEF f
  <2>3. [[root |-> T.root, node |-> T.node, thrown |-> FALSE] EXCEPT !.node = f]
          = [root |-> T.root, node |-> f, thrown |-> FALSE]
    BY NodeExcept
  <2> QED BY <2>1, <2>2, <2>3
<1>2. \A d \in Nodes(T) : T.node[d] \in Node
  BY DEF WellTyped
<1>3. \A d \in Nodes(T) : /\ n(d) \in Node /\ n(d).values = T.node[d].values
                          /\ n(d).children = T.node[d].children /\ n(d).parent = y
  BY <1>2 DEF Node
<1> HIDE DEF n
<1>4. f = [d \in Nodes(T) |-> IF d \in M THEN n(d) ELSE T.node[d]]
  BY DEF Nodes
<1> HIDE DEF f
<1>5. /\ U.root = T.root /\ U.node = f
      /\ U = [root |-> U.root, node |-> U.node, thrown |-> FALSE]
  BY <1>1
<1>6. /\ Nodes(U) = Nodes(T)
      /\ \A d \in Nodes(U) : U.node[d] = IF d \in M THEN n(d) ELSE T.node[d]
  BY <1>4, <1>5 DEF Nodes
<1>7. U.node = [d \in Nodes(U) |-> U.node[d]]
  BY <1>4, <1>5, <1>6
<1>8. /\ IsFiniteSet(Nodes(T)) /\ Nodes(T) \subseteq Nat \ {0} /\ T.root \in Nodes(T)
  BY DEF WellTyped
<1>9. WellTyped(U)
  BY <1>2, <1>3, <1>5, <1>6, <1>7, <1>8 DEF WellTyped
<1> QED BY <1>3, <1>5, <1>6, <1>9 DEF Children, Parent

\* Another node is made the root.
LEMMA SetRoot ==
  ASSUME NEW T, WellTyped(T), NEW r \in Nodes(T), NEW U, U = Rooted(T, r)
  PROVE  WellTyped(U) /\ U.root = r /\ U.node = T.node
<1>1. U = [root |-> r, node |-> T.node, thrown |-> FALSE]
  <2>1. T = [root |-> T.root, node |-> T.node, thrown |-> FALSE]
    BY DEF WellTyped
  <2> DEFINE a == T.root
             g == T.node
  <2>3. PICK t : t = FALSE
    OBVIOUS
  <2>4. U = [T EXCEPT !.root = r]
    BY DEF Rooted
  <2> HIDE DEF a, g
  <2>5. [[root |-> a, node |-> g, thrown |-> t] EXCEPT !.root = r]
          = [root |-> r, node |-> g, thrown |-> t]
    BY RootExcept
  <2>6. T = [root |-> a, node |-> g, thrown |-> t]
    BY <2>1, <2>3 DEF a, g
  <2>7. U = [root |-> r, node |-> g, thrown |-> t]
    BY <2>4, <2>5, <2>6
  <2> QED BY <2>3, <2>7 DEF g
<1>2. /\ U.root = r /\ U.node = T.node
      /\ U = [root |-> U.root, node |-> U.node, thrown |-> FALSE]
  BY <1>1
<1> QED BY <1>2 DEF WellTyped, Nodes

\* A node whose children are told of tells the truth.
LEMMA NodeEntryTrue ==
  ASSUME NEW T, NEW B, NEW H, Built(T, B, H), NEW d \in Nodes(T),
         \A i \in DOMAIN Children(T, d) : Children(T, d)[i] = TrueEntry(B, ChildId(T, d, i))
  PROVE  Entry(d, T.node[d]) = TrueEntry(B, d)
<1>1. CASE H[d] = 0
  <2>1. IsLeaf(T.node[d]) /\ T.node[d].values = B[d]
    BY <1>1, LeafParts
  <2> QED BY <2>1, LeafEntryTrue
<1>2. CASE H[d] # 0
  <2> DEFINE m == T.node[d]
  <2>1. m.children = Children(T, d)
    BY DEF Children
  <2>2. /\ m.children \in Seq(Child) /\ Len(m.children) = Len(Children(T, d))
        /\ \A i \in 1..Len(Children(T, d)) : m.children[i] = TrueEntry(B, ChildId(T, d, i))
    BY <2>1, NodeParts
  <2> HIDE DEF m
  <2>3. Entry(d, m) = TrueEntry(B, d)
    BY <1>2, <2>2, EntryTrue
  <2> QED BY <2>3 DEF m
<1> QED BY <1>1, <1>2

\* The parent of a halved node keeps the truth of both halves.
LEMMA SplitTold ==
  ASSUME NEW T, NEW B, NEW H, Built(T, B, H), Told(T, B), NEW x \in Nodes(T), x # T.root,
         NEW y, y \in Nat \ {0}, y \notin Nodes(T),
         NEW k \in DOMAIN Children(T, Parent(T, x)), ChildId(T, Parent(T, x), k) = x,
         NEW cut \in 0..Len(Children(T, x)), NEW U, Halved(T, U, x, y, k, cut),
         NEW L, NEW R, Shares(T, B, H, U, x, y, cut, L, R),
         NEW C, C = [d \in Nodes(U) |-> IF d = x THEN L ELSE IF d = y THEN R ELSE B[d]],
         NEW G, G = [d \in Nodes(U) |-> IF d = y THEN H[x] ELSE H[d]]
  PROVE  Told(U, C)
<1> DEFINE p == Parent(T, x)
           m == Len(Children(T, x))
           n == Len(Children(T, p))
           OfChild(d) == \A i \in DOMAIN Children(U, d) :
                            Children(U, d)[i] = TrueEntry(C, ChildId(U, d, i))
<1>1. Built(U, C, G)
  BY SplitBuilt
<1>2. /\ Nodes(U) = Nodes(T) \cup {y}
      /\ Len(Children(U, x)) = cut /\ Len(Children(U, y)) = m - cut
      /\ Len(Children(U, p)) = n + 1
  BY DEF Halved
<1>3. /\ p \in Nodes(T) /\ p # x /\ p # y
  <2>1. p \in Nodes(T) /\ H[p] = H[x] + 1 /\ H[x] \in Nat
    BY ParentParts, NodeParts
  <2> HIDE DEF p
  <2> QED BY <2>1
<1>4. /\ m \in Nat /\ DOMAIN Children(T, x) = 1..m /\ cut \in Nat /\ cut <= m
      /\ n \in Nat /\ DOMAIN Children(T, p) = 1..n /\ k \in 1..n /\ k \in Nat
  <2>1. m \in Nat /\ DOMAIN Children(T, x) = 1..m
    BY NodeParts
  <2>2. n \in Nat /\ DOMAIN Children(T, p) = 1..n
    BY <1>3, NodeParts
  <2> QED BY <2>1, <2>2
<1>5. \A d \in Nodes(U) : DOMAIN Children(U, d) = 1..Len(Children(U, d))
  BY <1>1, NodeParts
<1>6. \A d \in Nodes(T) : \A i \in DOMAIN Children(T, d) :
         /\ Children(T, d)[i] = TrueEntry(B, Children(T, d)[i].id)
         /\ Children(T, d)[i].id = ChildId(T, d, i)
  BY DEF Told, Children, ChildId
<1>7. \A d, i : ChildId(U, d, i) = Children(U, d)[i].id
  BY DEF ChildId, Children
<1>8. \A d \in Nodes(T) \ {x, y} : TrueEntry(C, d) = TrueEntry(B, d)
  BY <1>2 DEF TrueEntry
<1>9. \A d \in Nodes(T) : \A i \in DOMAIN Children(T, d) :
         Children(T, d)[i].id # x => Children(T, d)[i] = TrueEntry(C, Children(T, d)[i].id)
  <2> SUFFICES ASSUME NEW d \in Nodes(T), NEW i \in DOMAIN Children(T, d),
                      Children(T, d)[i].id # x
               PROVE  Children(T, d)[i] = TrueEntry(C, Children(T, d)[i].id)
    OBVIOUS
  <2>1. ChildId(T, d, i) \in Nodes(T)
    BY ChildParts
  <2>2. Children(T, d)[i].id \in Nodes(T) \ {x, y}
    BY <1>6, <2>1
  <2> QED BY <1>6, <1>8, <2>2
<1> HIDE DEF p
<1>10. \A d \in Nodes(T) \ {p} : \A i \in DOMAIN Children(T, d) : Children(T, d)[i].id # x
  <2> SUFFICES ASSUME NEW d \in Nodes(T), NEW i \in DOMAIN Children(T, d), ChildId(T, d, i) = x
               PROVE  d = p
    BY <1>6
  <2>1. Parent(T, ChildId(T, d, i)) = d
    BY ChildParts
  <2> QED BY <2>1 DEF p
<1>11. OfChild(x)
  <2>1. \A i \in 1..cut : Children(U, x)[i] = Children(T, x)[i]
    BY DEF Halved
  <2>2. \A i \in 1..cut : i \in 1..m
    BY <1>4
  <2>3. \A i \in 1..cut : Children(T, x)[i] = TrueEntry(C, Children(T, x)[i].id)
    BY <1>3, <1>4, <1>9, <1>10, <2>2
  <2> HIDE DEF m, n
  <2> QED BY <1>2, <1>5, <1>7, <2>1, <2>3
<1>12. OfChild(y)
  <2>1. \A i \in 1..m - cut : Children(U, y)[i] = Children(T, x)[cut + i]
    BY DEF Halved
  <2> HIDE DEF m, n
  <2>2. \A i \in 1..m - cut : cut + i \in 1..m
    BY <1>4
  <2>3. \A i \in 1..m - cut : Children(T, x)[cut + i] = TrueEntry(C, Children(T, x)[cut + i].id)
    BY <1>3, <1>4, <1>9, <1>10, <2>2
  <2>4. DOMAIN Children(U, y) = 1..m - cut
    BY <1>2, <1>5
  <2> SUFFICES ASSUME NEW i \in 1..m - cut
               PROVE  Children(U, y)[i] = TrueEntry(C, Children(U, y)[i].id)
    BY <1>7, <2>4
  <2> QED BY <2>1, <2>3
<1>13. OfChild(p)
  <2>1. \A i \in 1..n : /\ i < k => Children(U, p)[i] = Children(T, p)[i]
                        /\ k < i => Children(U, p)[i + 1] = Children(T, p)[i]
    BY DEF Halved, p
  <2>2. /\ Children(U, p)[k] = Entry(x, U.node[x])
        /\ Children(U, p)[k + 1] = Entry(y, U.node[y])
    BY DEF Halved, p
  <2>3. Entry(x, U.node[x]) = TrueEntry(C, x) /\ Entry(y, U.node[y]) = TrueEntry(C, y)
    <3>1. x \in Nodes(U) /\ y \in Nodes(U)
      BY <1>2
    <3>2. Entry(x, U.node[x]) = TrueEntry(C, x)
      BY <1>1, <1>11, <3>1, NodeEntryTrue
    <3>3. Entry(y, U.node[y]) = TrueEntry(C, y)
      BY <1>1, <1>12, <3>1, NodeEntryTrue
    <3> QED BY <3>2, <3>3
  <2>4. TrueEntry(C, x).id = x /\ TrueEntry(C, y).id = y
    BY DEF TrueEntry
  <2>5. \A i \in 1..n : i # k => Children(T, p)[i].id # x
    <3> SUFFICES ASSUME NEW i \in 1..n, i # k PROVE ChildId(T, p, i) # x
      BY <1>3, <1>4, <1>6
    <3>1. ChildId(T, p, i) # ChildId(T, p, k)
      BY <1>3, <1>4, ChildrenApart
    <3> QED BY <3>1 DEF p
  <2>6. \A i \in 1..n : i # k => Children(T, p)[i] = TrueEntry(C, Children(T, p)[i].id)
    BY <1>3, <1>4, <1>9, <2>5
  <2> HIDE DEF n
  <2>7. ASSUME NEW i \in 1..n + 1 PROVE Children(U, p)[i] = TrueEntry(C, Children(U, p)[i].id)
    <3>1. i = k \/ i = k + 1 \/ (i \in 1..n /\ i < k) \/ (i - 1 \in 1..n /\ k < i - 1 /\ i - 1 + 1 = i)
      BY <1>4
    <3>2. CASE i = k \/ i = k + 1
      BY <2>2, <2>3, <2>4, <3>2
    <3>3. CASE i \in 1..n /\ i < k
      BY <1>4, <2>1, <2>6, <3>3
    <3>4. CASE i - 1 \in 1..n /\ k < i - 1 /\ i - 1 + 1 = i
      <4>1. Children(U, p)[i] = Children(T, p)[i - 1] /\ i - 1 # k
        BY <1>4, <2>1, <3>4
      <4> QED BY <2>6, <3>4, <4>1
    <3> QED BY <3>1, <3>2, <3>3, <3>4
  <2> QED BY <1>2, <1>3, <1>5, <1>7, <2>7
<1>14. \A d \in Nodes(T) \ {x, p} : OfChild(d)
  <2> SUFFICES ASSUME NEW d \in Nodes(T) \ {x, p} PROVE OfChild(d)
    OBVIOUS
  <2>1. Children(U, d) = Children(T, d)
    BY DEF Halved, p
  <2> QED BY <1>7, <1>9, <1>10, <2>1
<1>15. \A d \in Nodes(U) : OfChild(d)
  BY <1>2, <1>11, <1>12, <1>13, <1>14
<1> QED BY <1>15 DEF Told

Mid(T, x) == Size(T.node[x]) \div 2
CutOf(T, x) == IF IsLeaf(T.node[x]) THEN 0 ELSE Mid(T, x)
LeftOf(T, x, p) ==
  [T.node[x] EXCEPT !.parent = p, !.values = Least(T.node[x].values, Mid(T, x)),
                    !.children = SubSeq(@, 1, CutOf(T, x))]
RightOf(T, x, p) ==
  [T.node[x] EXCEPT !.parent = p, !.values = @ \ Least(T.node[x].values, Mid(T, x)),
                    !.children = SubSeq(@, CutOf(T, x) + 1, Len(@))]
MovedOf(T, x, p) == {c.id : c \in ToSet(RightOf(T, x, p).children)}
Parted(T, x, p, y) ==
  Reparented(writeNode(writeNode(T, x, LeftOf(T, x, p)), y, RightOf(T, x, p)), MovedOf(T, x, p), y)

Fields(n, p, V, s) == [n EXCEPT !.parent = p, !.values = V, !.children = s]

\* A node with other fields.
LEMMA FieldsAre ==
  ASSUME NEW n \in Node, NEW p \in Nat, NEW V \in SUBSET Keys, NEW s \in Seq(Child),
         NEW r, r = Fields(n, p, V, s)
  PROVE  r \in Node /\ r.parent = p /\ r.values = V /\ r.children = s
BY DEF Node, Fields

\* The halves of a node that is one too large.
LEMMA HalvesAre ==
  ASSUME NEW T, NEW B, NEW H, Built(T, B, H), NEW x \in Nodes(T),
         Size(T.node[x]) = maxBranch, NEW p \in Nat,
         NEW a, a = LeftOf(T, x, p), NEW b, b = RightOf(T, x, p),
         NEW m, m = Len(Children(T, x)), NEW cut, cut = CutOf(T, x)
  PROVE  /\ m \in Nat /\ cut \in 0..m /\ cut \in Nat
         /\ a \in Node /\ b \in Node /\ a.parent = p /\ b.parent = p
         /\ Len(a.children) = cut /\ Len(b.children) = m - cut
         /\ \A i \in 1..cut : a.children[i] = Children(T, x)[i]
         /\ \A i \in 1..m - cut : b.children[i] = Children(T, x)[cut + i]
         /\ a.values \cup b.values = T.node[x].values
         /\ a.values = Least(T.node[x].values, minChildren)
         /\ b.values = T.node[x].values \ Least(T.node[x].values, minChildren)
         /\ H[x] # 0 => m = maxBranch /\ cut = minChildren
         /\ H[x] = 0 => m = 0 /\ cut = 0 /\ Cardinality(B[x]) = maxBranch
<1> DEFINE n == T.node[x]
           s == Children(T, x)
           V == Least(n.values, minChildren)
<1>1. n \in Node /\ s \in Seq(Child) /\ m \in Nat /\ s = n.children /\ n.values \in SUBSET Keys
  <2>1. n \in Node /\ s \in Seq(Child) /\ m \in Nat
    BY NodeParts
  <2> QED BY <2>1 DEF Node, Children
<1>2. Mid(T, x) = minChildren
  BY DEF Mid, minChildren
<1>3. H[x] = 0 => m = 0 /\ cut = 0 /\ Cardinality(B[x]) = maxBranch
  <2> SUFFICES ASSUME H[x] = 0 PROVE m = 0 /\ cut = 0 /\ Cardinality(B[x]) = maxBranch
    OBVIOUS
  <2>1. IsLeaf(n) /\ n.values = B[x] /\ s = <<>>
    BY LeafParts
  <2>2. Cardinality(B[x]) \in Nat
    BY NodeParts, FS_CardinalityType
  <2>3. m = 0 /\ Len(n.children) = 0
    BY <1>1, <2>1
  <2> QED BY <2>1, <2>2, <2>3 DEF Size, CutOf
<1>4. H[x] # 0 => m = maxBranch /\ cut = minChildren
  <2> SUFFICES ASSUME H[x] # 0 PROVE m = maxBranch /\ cut = minChildren
    OBVIOUS
  <2>1. ~IsLeaf(n) /\ n.values = {}
    BY LeafParts
  <2>2. m = maxBranch
    BY <1>1, <2>1, FS_EmptySet DEF Size
  <2> QED BY <1>2, <2>1, <2>2 DEF CutOf
<1>5. cut \in 0..m /\ cut \in Nat
  BY <1>1, <1>3, <1>4, HalfIs
<1> DEFINE l == SubSeq(s, 1, cut)
           r == SubSeq(s, cut + 1, m)
<1>6. l \in Seq(Child) /\ Len(l) = cut /\ \A i \in 1..cut : l[i] = s[i]
  <2>1. 1 \in Int /\ cut \in Int /\ \A i \in 1..cut : s[i] \in Child
    BY <1>1, <1>5
  <2> HIDE DEF s
  <2>2. /\ SubSeq(s, 1, cut) \in Seq(Child)
        /\ Len(SubSeq(s, 1, cut)) = IF 1 <= cut THEN cut - 1 + 1 ELSE 0
        /\ \A i \in 1..cut - 1 + 1 : SubSeq(s, 1, cut)[i] = s[1 + i - 1]
    BY <2>1, SubSeqProperties
  <2>3. cut - 1 + 1 = cut /\ \A i \in 1..cut : 1 + i - 1 = i
    BY <1>5
  <2> QED BY <1>5, <2>2, <2>3
<1>7. r \in Seq(Child) /\ Len(r) = m - cut /\ \A i \in 1..m - cut : r[i] = s[cut + i]
  <2>1. cut + 1 \in Int /\ m \in Int /\ \A i \in cut + 1..m : s[i] \in Child
    BY <1>1, <1>5
  <2> HIDE DEF s
  <2>2. /\ SubSeq(s, cut + 1, m) \in Seq(Child)
        /\ Len(SubSeq(s, cut + 1, m)) = IF cut + 1 <= m THEN m - (cut + 1) + 1 ELSE 0
        /\ \A i \in 1..m - (cut + 1) + 1 : SubSeq(s, cut + 1, m)[i] = s[cut + 1 + i - 1]
    BY <2>1, SubSeqProperties
  <2>3. m - (cut + 1) + 1 = m - cut /\ \A i \in 1..m - cut : cut + 1 + i - 1 = cut + i
    BY <1>1, <1>5
  <2>4. Len(r) = m - cut
    BY <1>1, <1>5, <2>2, <2>3
  <2>5. \A i \in 1..m - cut : r[i] = s[cut + i]
    BY <2>2, <2>3
  <2> QED BY <2>2, <2>4, <2>5
<1>8. V \subseteq n.values
  BY DEF Least
<1>9. a = Fields(n, p, V, l)
  BY <1>1, <1>2 DEF LeftOf, Fields
<1>10. b = Fields(n, p, n.values \ V, r)
  BY <1>1, <1>2 DEF RightOf, Fields
<1> DEFINE W == n.values \ V
<1> HIDE DEF n, l, r, V
<1>11. V \in SUBSET Keys /\ W \in SUBSET Keys
  BY <1>1, <1>8
<1>12. a \in Node /\ a.parent = p /\ a.values = V /\ a.children = l
  BY <1>1, <1>6, <1>9, <1>11, FieldsAre
<1>13. b \in Node /\ b.parent = p /\ b.values = W /\ b.children = r
  <2>1. b = Fields(n, p, W, r)
    BY <1>10
  <2> HIDE DEF W
  <2> QED BY <1>1, <1>7, <1>11, <2>1, FieldsAre
<1>14. a.values \cup b.values = T.node[x].values
  BY <1>8, <1>12, <1>13 DEF n
<1>15. a.values = Least(T.node[x].values, minChildren)
       /\ b.values = T.node[x].values \ Least(T.node[x].values, minChildren)
  BY <1>12, <1>13 DEF n, V
<1>16. /\ Len(a.children) = cut /\ Len(b.children) = m - cut
       /\ \A i \in 1..cut : a.children[i] = Children(T, x)[i]
       /\ \A i \in 1..m - cut : b.children[i] = Children(T, x)[cut + i]
  BY <1>6, <1>7, <1>12, <1>13
<1> QED BY <1>1, <1>3, <1>4, <1>5, <1>12, <1>13, <1>14, <1>15, <1>16

\* The node, its new neighbour and the children that moved to it.
LEMMA PartedIs ==
  ASSUME NEW T, NEW B, NEW H, Built(T, B, H), NEW x \in Nodes(T),
         Size(T.node[x]) = maxBranch, NEW p \in Nat,
         NEW y, y \in Nat \ {0}, y \notin Nodes(T), NEW U, U = Parted(T, x, p, y)
  PROVE  LET m == Len(Children(T, x))
             cut == CutOf(T, x)
         IN  /\ WellTyped(U) /\ U.root = T.root /\ Nodes(U) = Nodes(T) \cup {y}
             /\ U.node[x] = LeftOf(T, x, p) /\ U.node[y] = RightOf(T, x, p)
             /\ \A d \in Nodes(T) \ {x} :
                  /\ U.node[d].values = T.node[d].values /\ Children(U, d) = Children(T, d)
                  /\ Parent(U, d) = IF \E i \in cut + 1..m : ChildId(T, x, i) = d
                                    THEN y ELSE Parent(T, d)
<1> DEFINE m == Len(Children(T, x))
           cut == CutOf(T, x)
           a == LeftOf(T, x, p)
           b == RightOf(T, x, p)
           M == MovedOf(T, x, p)
           V == writeNode(T, x, a)
           W == writeNode(V, y, b)
<1>1. /\ x \in Nat \ {0} /\ WellTyped(T) /\ x # y
  <2>1. WellTyped(T)
    BY DEF Built
  <2> QED BY <2>1, NodeParts
<1>2. /\ m \in Nat /\ cut \in 0..m /\ cut \in Nat
      /\ a \in Node /\ b \in Node /\ a.parent = p /\ b.parent = p
      /\ Len(b.children) = m - cut
      /\ \A i \in 1..m - cut : b.children[i] = Children(T, x)[cut + i]
  <2>0. /\ Built(T, B, H) /\ x \in Nodes(T) /\ Size(T.node[x]) = maxBranch /\ p \in Nat
    OBVIOUS
  <2> HIDE DEF a, b, m, cut
  <2>1. a = LeftOf(T, x, p) /\ b = RightOf(T, x, p) /\ m = Len(Children(T, x)) /\ cut = CutOf(T, x)
    BY DEF a, b, m, cut
  <2>2. /\ m \in Nat /\ cut \in 0..m /\ cut \in Nat
        /\ a \in Node /\ b \in Node /\ a.parent = p /\ b.parent = p
        /\ Len(a.children) = cut /\ Len(b.children) = m - cut
        /\ \A i \in 1..cut : a.children[i] = Children(T, x)[i]
        /\ \A i \in 1..m - cut : b.children[i] = Children(T, x)[cut + i]
    BY ONLY <2>0, <2>1, HalvesAre
  <2> QED BY <2>2
<1> HIDE DEF a, b, m, cut
<1>3. /\ WellTyped(V) /\ V.root = T.root /\ Nodes(V) = Nodes(T)
      /\ \A d \in Nodes(T) : V.node[d] = IF d = x THEN a ELSE T.node[d]
  <2>1. V = writeNode(T, x, a) /\ Nodes(T) \cup {x} = Nodes(T)
    OBVIOUS
  <2> HIDE DEF V
  <2>2. /\ WellTyped(V) /\ V.root = T.root /\ Nodes(V) = Nodes(T) \cup {x}
        /\ \A d \in Nodes(V) : V.node[d] = IF d = x THEN a ELSE T.node[d]
    BY ONLY <1>1, <1>2, <2>1, WriteNode
  <2> QED BY <2>1, <2>2
<1> HIDE DEF V
<1>4. /\ WellTyped(W) /\ W.root = T.root /\ Nodes(W) = Nodes(T) \cup {y}
      /\ \A d \in Nodes(W) : W.node[d] = IF d = y THEN b ELSE V.node[d]
  <2>1. W = writeNode(V, y, b)
    OBVIOUS
  <2> HIDE DEF W
  <2>2. WellTyped(V) /\ y \in Nat \ {0} /\ b \in Node
    BY <1>2, <1>3
  <2>3. /\ WellTyped(W) /\ W.root = V.root
        /\ Nodes(W) = Nodes(V) \cup {y}
        /\ \A d \in Nodes(W) : W.node[d] = IF d = y THEN b ELSE V.node[d]
    BY ONLY <2>1, <2>2, WriteNode
  <2> QED BY <1>3, <2>3
<1> HIDE DEF W
<1>5. U = Reparented(W, M, y) /\ y \in Nat
  BY DEF Parted, W, V, a, b
<1> HIDE DEF M
<1>6. /\ WellTyped(U) /\ U.root = W.root /\ Nodes(U) = Nodes(W)
      /\ \A d \in Nodes(W) : /\ U.node[d].values = W.node[d].values
                             /\ Children(U, d) = Children(W, d)
                             /\ Parent(U, d) = IF d \in M THEN y ELSE Parent(W, d)
  BY <1>4, <1>5, Reparent
<1>7. \A d : d \in M <=> \E i \in cut + 1..m : ChildId(T, x, i) = d
  <2>1. b.children \in Seq(Child)
    BY <1>2 DEF Node
  <2>2. M = {b.children[i].id : i \in 1..m - cut}
    <3>1. ToSet(b.children) = {b.children[i] : i \in DOMAIN b.children}
      BY DEF ToSet
    <3>2. DOMAIN b.children = 1..m - cut
      BY <1>2, <2>1
    <3> QED BY <3>1, <3>2 DEF M, MovedOf, b
  <2>3. \A i \in 1..m - cut : b.children[i].id = ChildId(T, x, cut + i)
    BY <1>2 DEF ChildId, Children
  <2>4. \A i \in 1..m - cut : cut + i \in cut + 1..m
    BY <1>2
  <2>5. \A j \in cut + 1..m : j - cut \in 1..m - cut /\ cut + (j - cut) = j
    BY <1>2
  <2>6. ASSUME NEW d, NEW j \in cut + 1..m, ChildId(T, x, j) = d PROVE d \in M
    <3>1. b.children[j - cut].id = d /\ j - cut \in 1..m - cut
      BY <2>3, <2>5, <2>6
    <3> QED BY <2>2, <3>1
  <2>7. ASSUME NEW d, d \in M PROVE \E j \in cut + 1..m : ChildId(T, x, j) = d
    BY <2>2, <2>3, <2>4, <2>7
  <2> QED BY <2>6, <2>7
<1>8. x \notin M /\ y \notin M
  <2>1. SUFFICES ASSUME NEW i \in cut + 1..m PROVE ChildId(T, x, i) # x /\ ChildId(T, x, i) # y
    BY <1>7
  <2>2. i \in DOMAIN Children(T, x)
    <3>1. DOMAIN Children(T, x) = 1..m
      BY NodeParts DEF m
    <3> QED BY <1>2, <3>1
  <2> QED BY <2>2, ChildParts
<1>9. U.node[x] = a /\ U.node[y] = b
  <2>1. U.node = [d \in Nodes(W) |-> IF d \in M THEN [W.node[d] EXCEPT !.parent = y] ELSE W.node[d]]
    <3> DEFINE f == [d \in Nodes(W) |-> IF d \in M THEN [W.node[d] EXCEPT !.parent = y] ELSE W.node[d]]
    <3>1. U = [W EXCEPT !.node = f]
      BY <1>5 DEF Reparented, Nodes
    <3>2. W = [root |-> W.root, node |-> W.node, thrown |-> FALSE]
      BY <1>4 DEF WellTyped
    <3> HIDE DEF f
    <3>3. [[root |-> W.root, node |-> W.node, thrown |-> FALSE] EXCEPT !.node = f]
            = [root |-> W.root, node |-> f, thrown |-> FALSE]
      BY NodeExcept
    <3>4. U = [root |-> W.root, node |-> f, thrown |-> FALSE]
      BY <3>1, <3>2, <3>3
    <3> QED BY <3>4 DEF f
  <2>2. W.node[x] = a /\ W.node[y] = b /\ x \in Nodes(W) /\ y \in Nodes(W)
    BY <1>1, <1>3, <1>4
  <2> QED BY <1>8, <2>1, <2>2
<1>10. ASSUME NEW d \in Nodes(T) \ {x}
       PROVE  /\ U.node[d].values = T.node[d].values /\ Children(U, d) = Children(T, d)
              /\ Parent(U, d) = IF d \in M THEN y ELSE Parent(T, d)
  <2>1. d \in Nodes(W) /\ d # y /\ W.node[d] = T.node[d]
    BY <1>3, <1>4
  <2> QED BY <1>6, <2>1 DEF Children, Parent
<1>11. /\ WellTyped(U) /\ U.root = T.root /\ Nodes(U) = Nodes(T) \cup {y}
       /\ U.node[x] = LeftOf(T, x, p) /\ U.node[y] = RightOf(T, x, p)
  BY <1>4, <1>6, <1>9 DEF a, b
<1>12. \A d \in Nodes(T) \ {x} :
          /\ U.node[d].values = T.node[d].values /\ Children(U, d) = Children(T, d)
          /\ Parent(U, d) = IF \E i \in cut + 1..m : ChildId(T, x, i) = d THEN y ELSE Parent(T, d)
  BY <1>7, <1>10
<1> QED BY <1>11, <1>12 DEF m, cut

HalfSize(n) ==
  /\ minChildren <= Size(n) /\ Size(n) <= maxChildren
  /\ n.children # <<>> => 2 <= Len(n.children)

\* Both halves have a size a node may have, and share the values in order.
LEMMA HalvesGood ==
  ASSUME NEW T, NEW B, NEW H, Built(T, B, H), NEW x \in Nodes(T),
         Size(T.node[x]) = maxBranch, NEW p \in Nat,
         NEW a, a = LeftOf(T, x, p), NEW b, b = RightOf(T, x, p),
         NEW y, NEW U, U.node[x] = a, U.node[y] = b
  PROVE  /\ HalfSize(a) /\ HalfSize(b)
         /\ \E L, R : Shares(T, B, H, U, x, y, CutOf(T, x), L, R)
<1> DEFINE m == Len(Children(T, x))
           cut == CutOf(T, x)
           c(i) == ChildId(T, x, i)
           S == T.node[x].values
<1>1. /\ m \in Nat /\ cut \in 0..m /\ cut \in Nat
      /\ a \in Node /\ b \in Node /\ a.parent = p /\ b.parent = p
      /\ Len(a.children) = cut /\ Len(b.children) = m - cut
      /\ \A i \in 1..cut : a.children[i] = Children(T, x)[i]
      /\ \A i \in 1..m - cut : b.children[i] = Children(T, x)[cut + i]
      /\ a.values \cup b.values = S
      /\ a.values = Least(S, minChildren)
      /\ b.values = S \ Least(S, minChildren)
      /\ H[x] # 0 => m = maxBranch /\ cut = minChildren
      /\ H[x] = 0 => m = 0 /\ cut = 0 /\ Cardinality(B[x]) = maxBranch
  <2>0. /\ Built(T, B, H) /\ x \in Nodes(T) /\ Size(T.node[x]) = maxBranch /\ p \in Nat
        /\ a = LeftOf(T, x, p) /\ b = RightOf(T, x, p)
    OBVIOUS
  <2>1. m = Len(Children(T, x)) /\ cut = CutOf(T, x)
    OBVIOUS
  <2> HIDE DEF m, cut
  <2>2. S = T.node[x].values
    OBVIOUS
  <2> HIDE DEF S
  <2> QED BY ONLY <2>0, <2>1, <2>2, HalvesAre
<1>2. /\ minChildren \in Nat /\ minChildren >= 2
      /\ 2 * minChildren <= maxBranch /\ maxBranch <= 2 * minChildren + 1
      /\ maxChildren \in Nat /\ maxChildren + 1 = maxBranch /\ minChildren <= maxChildren
      /\ maxBranch \in Nat
  BY HalfIs, BranchAssumption
<1>3. /\ H[x] = 0 => S = B[x]
      /\ H[x] # 0 => S = {}
      /\ B[x] \in SUBSET Nat /\ IsFiniteSet(B[x])
  BY LeafParts, NodeParts
<1> HIDE DEF S, m, cut
<1>4. CASE H[x] = 0
  <2>1. /\ S = B[x] /\ Cardinality(S) = maxBranch /\ S \in SUBSET Nat /\ IsFiniteSet(S)
        /\ minChildren <= Cardinality(S)
    BY <1>1, <1>2, <1>3, <1>4
  <2> DEFINE L == Least(S, minChildren)
             R == S \ L
  <2>2. Cardinality(L) = minChildren /\ \A v \in L, w \in S \ L : v < w
    BY <1>2, <2>1, LeastCount
  <2>3. L \subseteq S /\ L \cup R = S /\ L \cap S = L
    BY DEF Least
  <2>4. IsFiniteSet(L) /\ IsFiniteSet(R) /\ Cardinality(R) = maxBranch - minChildren
    <3>1. IsFiniteSet(S \ L) /\ Cardinality(S \ L) = Cardinality(S) - Cardinality(S \cap L)
      BY <2>1, FS_Difference
    <3>2. S \cap L = L
      BY <2>3
    <3>3. IsFiniteSet(L)
      BY <2>1, <2>3, FS_Subset
    <3> QED BY <2>1, <2>2, <3>1, <3>2, <3>3
  <2>5. a.values = L /\ b.values = R
    BY <1>1
  <2> HIDE DEF L
  <2>6. L # {} /\ R # {}
    <3>1. Cardinality(L) # 0 /\ Cardinality(R) # 0
      BY <1>2, <2>2, <2>4
    <3> QED BY <3>1, FS_EmptySet
  <2>7. Size(a) = minChildren /\ Size(b) = maxBranch - minChildren
    <3>1. Len(a.children) = 0 /\ Len(b.children) = 0
      BY <1>1, <1>4
    <3> QED BY <1>2, <2>2, <2>4, <2>5, <3>1 DEF Size
  <2>8. a.children = <<>> /\ b.children = <<>>
    <3>1. a.children \in Seq(Child) /\ b.children \in Seq(Child)
      BY <1>1 DEF Node
    <3>2. Len(a.children) = 0 /\ Len(b.children) = 0
      BY <1>1, <1>4
    <3> QED BY <3>1, <3>2
  <2>9. HalfSize(a) /\ HalfSize(b)
    BY <1>2, <2>7, <2>8 DEF HalfSize
  <2>10. Shares(T, B, H, U, x, y, CutOf(T, x), L, R)
    BY <1>4, <2>1, <2>2, <2>3, <2>5, <2>6 DEF Shares
  <2> QED BY <2>9, <2>10
<1>5. CASE H[x] # 0
  <2>1. S = {} /\ m = maxBranch /\ cut = minChildren
    BY <1>1, <1>3, <1>5
  <2>2. a.values = {} /\ b.values = {}
    BY <1>1, <2>1
  <2>3. Size(a) = minChildren /\ Size(b) = maxBranch - minChildren
    <3>1. Len(a.children) = minChildren /\ Len(b.children) = maxBranch - minChildren
      BY <1>1, <2>1
    <3>2. Cardinality(a.values) = 0 /\ Cardinality(b.values) = 0
      BY <2>2, FS_EmptySet
    <3> QED BY <1>2, <3>1, <3>2 DEF Size
  <2>4. HalfSize(a) /\ HalfSize(b)
    BY <1>1, <1>2, <2>1, <2>3 DEF HalfSize
  <2>5. DOMAIN Children(T, x) = 1..m
    BY NodeParts DEF m
  <2>6. \A i \in 1..m : c(i) \in Nodes(T) /\ B[c(i)] # {} /\ B[c(i)] \subseteq B[x]
    <3>1. \A i \in 1..m : c(i) \in Nodes(T) /\ B[c(i)] \subseteq B[x]
      BY <2>5, ChildParts
    <3> HIDE DEF c
    <3> QED BY <3>1, NodeParts
  <2>7. \A i, j \in 1..m : i < j => \A v \in B[c(i)], w \in B[c(j)] : v < w
    BY <2>5, ChildrenApart
  <2>8. \A v : v \in B[x] <=> \E i \in 1..m : v \in B[c(i)]
    BY <1>5, <2>5, InnerUnion
  <2> HIDE DEF c
  <2> DEFINE L == UNION {B[c(i)] : i \in 1..cut}
             R == UNION {B[c(i)] : i \in cut + 1..m}
  <2>9. \A v : /\ v \in L <=> \E i \in 1..cut : v \in B[c(i)]
               /\ v \in R <=> \E i \in cut + 1..m : v \in B[c(i)]
    OBVIOUS
  <2> HIDE DEF L, R
  <2>10. 1 \in 1..cut /\ m \in cut + 1..m /\ 1 \in 1..m /\ m \in 1..m
    BY <1>1, <1>2, <2>1
  <2>11. L # {} /\ R # {}
    BY <2>6, <2>9, <2>10
  <2>12. L \cup R = B[x]
    <3>1. \A i \in 1..m : i \in 1..cut \/ i \in cut + 1..m
      BY <1>1
    <3>2. (1..cut) \subseteq 1..m /\ (cut + 1..m) \subseteq 1..m
      BY <1>1
    <3>3. \A v : v \in L \cup R <=> v \in B[x]
      BY <2>8, <2>9, <3>1, <3>2
    <3> QED BY <3>3
  <2>13. ASSUME NEW v \in L, NEW w \in R PROVE v < w
    <3>1. PICK i \in 1..cut : v \in B[c(i)]
      BY <2>9
    <3>2. PICK j \in cut + 1..m : w \in B[c(j)]
      BY <2>9
    <3>3. i \in 1..m /\ j \in 1..m /\ i < j
      BY <1>1
    <3> QED BY <2>7, <3>1, <3>2, <3>3
  <2>14. 1 <= cut /\ cut < m
    BY <1>2, <2>1
  <2>15. Shares(T, B, H, U, x, y, CutOf(T, x), L, R)
    BY <1>5, <2>2, <2>9, <2>11, <2>12, <2>13, <2>14 DEF Shares, c, m, cut
  <2> QED BY <2>4, <2>15
<1> QED BY <1>4, <1>5

Sized(T, d) ==
  /\ Size(T.node[d]) <= maxChildren
  /\ d # T.root => minChildren <= Size(T.node[d])
  /\ Children(T, d) # <<>> => 2 <= Len(Children(T, d))

\* The size of a node.
LEMMA SizeIs ==
  ASSUME NEW T, NEW B, NEW H, Built(T, B, H), NEW d \in Nodes(T)
  PROVE  /\ H[d] = 0 => Size(T.node[d]) = Cardinality(B[d])
         /\ H[d] # 0 => Size(T.node[d]) = Len(Children(T, d))
         /\ Size(T.node[d]) \in Nat
<1>1. /\ Len(Children(T, d)) \in Nat /\ T.node[d].children = Children(T, d)
      /\ IsFiniteSet(B[d])
  BY NodeParts DEF Children
<1>2. Cardinality(B[d]) \in Nat
  BY <1>1, FS_CardinalityType
<1>3. CASE H[d] = 0
  <2>1. T.node[d].values = B[d] /\ Children(T, d) = <<>>
    BY <1>3, LeafParts
  <2>2. Len(T.node[d].children) = 0
    BY <1>1, <2>1
  <2> QED BY <1>2, <1>3, <2>1, <2>2 DEF Size
<1>4. CASE H[d] # 0
  <2>1. T.node[d].values = {}
    BY <1>4, LeafParts
  <2> QED BY <1>1, <1>4, <2>1, FS_EmptySet DEF Size
<1> QED BY <1>3, <1>4

\* The tree with one node halved.
LEMMA HalvedGood ==
  ASSUME NEW T, NEW B, NEW H, Built(T, B, H), Told(T, B), NEW x \in Nodes(T), x # T.root,
         \A d \in Nodes(T) : d # x /\ d # Parent(T, x) => Sized(T, d),
         NEW y, y \in Nat \ {0}, y \notin Nodes(T),
         NEW k \in DOMAIN Children(T, Parent(T, x)), ChildId(T, Parent(T, x), k) = x,
         NEW cut \in 0..Len(Children(T, x)), NEW U, Halved(T, U, x, y, k, cut),
         NEW L, NEW R, Shares(T, B, H, U, x, y, cut, L, R),
         HalfSize(U.node[x]), HalfSize(U.node[y])
  PROVE  \E C, G :
           /\ Built(U, C, G) /\ Told(U, C) /\ C[U.root] = B[T.root] /\ G[U.root] = H[T.root]
           /\ U.root = T.root /\ Parent(U, x) = Parent(T, x) /\ Parent(U, x) \in Nodes(U)
           /\ G[Parent(U, x)] = H[x] + 1
           /\ \A d \in Nodes(U) : d # Parent(U, x) => Sized(U, d)
           /\ Size(U.node[Parent(U, x)]) = Len(Children(T, Parent(T, x))) + 1
           /\ Len(Children(U, Parent(U, x))) = Len(Children(T, Parent(T, x))) + 1
<1> DEFINE C == [d \in Nodes(U) |-> IF d = x THEN L ELSE IF d = y THEN R ELSE B[d]]
           G == [d \in Nodes(U) |-> IF d = y THEN H[x] ELSE H[d]]
           p == Parent(T, x)
<1>1. Built(U, C, G) /\ Told(U, C)
  <2> DEFINE CC == C
             GG == G
  <2>1. CC = [d \in Nodes(U) |-> IF d = x THEN L ELSE IF d = y THEN R ELSE B[d]]
        /\ GG = [d \in Nodes(U) |-> IF d = y THEN H[x] ELSE H[d]]
    OBVIOUS
  <2> HIDE DEF CC, GG
  <2>2. Built(U, CC, GG)
    BY <2>1, SplitBuilt
  <2>3. Told(U, CC)
    BY <2>1, SplitTold
  <2> QED BY <2>2, <2>3 DEF CC, GG
<1>2. /\ U.root = T.root /\ Nodes(U) = Nodes(T) \cup {y}
      /\ Parent(U, x) = p /\ Len(Children(U, p)) = Len(Children(T, p)) + 1
      /\ \A d \in Nodes(T) \ {x, p} :
            U.node[d].values = T.node[d].values /\ Children(U, d) = Children(T, d)
  BY DEF Halved
<1>3. p \in Nodes(T) /\ H[p] = H[x] + 1 /\ H[x] \in Nat /\ T.root \in Nodes(T)
  BY ParentParts, NodeParts, RootParts
<1> HIDE DEF p
<1>4. p \in Nodes(U) /\ G[p] = H[x] + 1 /\ G[p] # 0 /\ p # y
  BY <1>2, <1>3
<1>5. C[U.root] = B[T.root] /\ G[U.root] = H[T.root]
  BY <1>2, <1>3
<1> HIDE DEF C, G
<1>6. Size(U.node[p]) = Len(Children(U, p))
  BY <1>1, <1>4, SizeIs
<1>7. ASSUME NEW d \in Nodes(U), d # p PROVE Sized(U, d)
  <2>1. CASE d = x \/ d = y
    BY <2>1 DEF HalfSize, Sized, Children
  <2>2. CASE d # x /\ d # y
    <3>1. d \in Nodes(T) \ {x, p} /\ Sized(T, d)
      BY <1>2, <1>7, <2>2 DEF p
    <3>2. U.node[d].values = T.node[d].values /\ Children(U, d) = Children(T, d)
      BY <1>2, <3>1
    <3>3. Size(U.node[d]) = Size(T.node[d])
      BY <3>2 DEF Size, Children
    <3> QED BY <1>2, <3>1, <3>2, <3>3 DEF Sized
  <2> QED BY <2>1, <2>2
<1> QED BY <1>1, <1>2, <1>4, <1>5, <1>6, <1>7 DEF p

\* What is kept of a node is an entry.
LEMMA EntryType ==
  ASSUME NEW id \in Nat, NEW n \in Node,
         n.children = <<>> => n.values # {} /\ IsFiniteSet(n.values)
  PROVE  Entry(id, n) \in Child
<1>1. n.values \in SUBSET Nat /\ n.children \in Seq(Child)
  BY BranchAssumption DEF Node
<1>2. CASE n.children = <<>>
  <2>1. /\ Min(n.values) \in Nat /\ Max(n.values) \in Nat
        /\ Cardinality(n.values) \in Int
    BY <1>1, <1>2, MinIs, MaxIs, FS_CardinalityType
  <2>2. Entry(id, n) = [id |-> id, min |-> Min(n.values), max |-> Max(n.values),
                        count |-> Cardinality(n.values)]
    BY <1>2 DEF Entry, IsLeaf
  <2> QED BY <2>1, <2>2 DEF Child
<1>3. CASE n.children # <<>>
  <2> DEFINE s == n.children
             m == Len(s)
             f == [i \in DOMAIN s |-> s[i].count]
  <2>1. m \in Nat /\ m >= 1 /\ DOMAIN s = 1..m /\ \A i \in 1..m : s[i] \in Child
    BY <1>1, <1>3
  <2>2. Head(s) = s[1] /\ Last(s) = s[m]
    BY <1>1, <2>1 DEF Last
  <2> HIDE DEF m, s
  <2>3. Head(s).min \in Nat /\ Last(s).max \in Nat /\ \A i \in 1..m : s[i].count \in Int
    BY <2>1, <2>2 DEF Child
  <2>4. IsFiniteSet(1..m) /\ DOMAIN f = 1..m /\ \A i \in 1..m : f[i] \in Int
    BY <2>1, <2>3, UpToFinite
  <2> HIDE DEF f
  <2>5. SumOf(f, 1..m) \in Int
    BY <2>4, SumInt
  <2>6. Total(f) \in Int
    BY <2>4, <2>5, TotalIs
  <2>7. Entry(id, n) = [id |-> id, min |-> Head(s).min, max |-> Last(s).max, count |-> Total(f)]
    BY <1>3 DEF Entry, IsLeaf, s, f
  <2> QED BY <2>3, <2>6, <2>7 DEF Child
<1> QED BY <1>2, <1>3

Spliced(s, k, both) == SubSeq(s, 1, k - 1) \o both \o SubSeq(s, k + 1, Len(s))

\* One entry of a sequence replaced by two.
LEMMA Splice ==
  ASSUME NEW s \in Seq(Child), NEW k \in DOMAIN s, NEW e \in Child, NEW f \in Child,
         NEW both, both = <<e, f>>, NEW t, t = Spliced(s, k, both)
  PROVE  /\ t \in Seq(Child) /\ Len(t) = Len(s) + 1 /\ t[k] = e /\ t[k + 1] = f
         /\ \A i \in 1..Len(s) : /\ i < k => t[i] = s[i]
                                 /\ k < i => t[i + 1] = s[i]
<1> DEFINE n == Len(s)
           a == SubSeq(s, 1, k - 1)
           b == SubSeq(s, k + 1, n)
           m == both
<1>1. n \in Nat /\ DOMAIN s = 1..n /\ k \in Nat /\ 1 <= k /\ k <= n /\ \A i \in 1..n : s[i] \in Child
  OBVIOUS
<1>2. a \in Seq(Child) /\ Len(a) = k - 1 /\ \A i \in 1..k - 1 : a[i] = s[i]
  <2>1. 1 \in Int /\ k - 1 \in Int /\ \A i \in 1..k - 1 : s[i] \in Child
    BY <1>1
  <2>2. /\ a \in Seq(Child) /\ Len(a) = IF 1 <= k - 1 THEN k - 1 - 1 + 1 ELSE 0
        /\ \A i \in 1..k - 1 - 1 + 1 : a[i] = s[1 + i - 1]
    BY <2>1, SubSeqProperties
  <2> HIDE DEF a
  <2>3. k - 1 - 1 + 1 = k - 1 /\ \A i \in 1..k - 1 : 1 + i - 1 = i
    BY <1>1
  <2> QED BY <1>1, <2>2, <2>3
<1>3. b \in Seq(Child) /\ Len(b) = n - k /\ \A i \in 1..n - k : b[i] = s[k + i]
  <2>1. k + 1 \in Int /\ n \in Int /\ \A i \in k + 1..n : s[i] \in Child
    BY <1>1
  <2> HIDE DEF n
  <2>2. /\ b \in Seq(Child) /\ Len(b) = IF k + 1 <= n THEN n - (k + 1) + 1 ELSE 0
        /\ \A i \in 1..n - (k + 1) + 1 : b[i] = s[k + 1 + i - 1]
    BY <2>1, SubSeqProperties
  <2> HIDE DEF b
  <2>3. n - (k + 1) + 1 = n - k /\ \A i \in 1..n - k : k + 1 + i - 1 = k + i
    BY <1>1
  <2>4. Len(b) = n - k
    BY <1>1, <2>2, <2>3
  <2>5. \A i \in 1..n - k : b[i] = s[k + i]
    BY <2>2, <2>3
  <2> QED BY <2>2, <2>4, <2>5
<1>4. m \in Seq(Child) /\ Len(m) = 2 /\ m[1] = e /\ m[2] = f
  OBVIOUS
<1>5. t = (a \o m) \o b
  BY DEF Spliced
<1> HIDE DEF a, b, m, n
<1> DEFINE u == a \o m
<1>6. /\ u \in Seq(Child) /\ Len(u) = k + 1 /\ u[k] = e /\ u[k + 1] = f
      /\ \A i \in 1..k - 1 : u[i] = s[i]
  <2>1. u \in Seq(Child) /\ Len(u) = Len(a) + Len(m)
    BY <1>2, <1>4, ConcatProperties
  <2>2. \A i \in 1..Len(a) + Len(m) : u[i] = IF i <= Len(a) THEN a[i] ELSE m[i - Len(a)]
    BY <1>2, <1>4, ConcatProperties
  <2> HIDE DEF u
  <2>3. Len(a) + Len(m) = k + 1
    BY <1>1, <1>2, <1>4
  <2>4. \A i \in 1..k + 1 : u[i] = IF i <= k - 1 THEN a[i] ELSE m[i - (k - 1)]
    BY <1>2, <2>2, <2>3
  <2>5. k \in 1..k + 1 /\ k + 1 \in 1..k + 1 /\ k - (k - 1) = 1 /\ k + 1 - (k - 1) = 2
        /\ ~(k <= k - 1) /\ ~(k + 1 <= k - 1)
    BY <1>1
  <2>6. u[k] = e /\ u[k + 1] = f
    <3>1. u[k] = m[k - (k - 1)] /\ u[k + 1] = m[k + 1 - (k - 1)]
      <4>1. ASSUME NEW i \in 1..k + 1, ~(i <= k - 1) PROVE u[i] = m[i - (k - 1)]
        BY <2>4, <4>1
      <4> QED BY <1>1, <2>5, <4>1
    <3> QED BY <1>4, <2>5, <3>1
  <2>7. \A i \in 1..k - 1 : i \in 1..k + 1 /\ i <= k - 1
    BY <1>1
  <2> QED BY <1>2, <2>1, <2>3, <2>4, <2>6, <2>7
<1>7. t = u \o b
  BY <1>5
<1> HIDE DEF u
<1>8. t \in Seq(Child) /\ Len(t) = k + 1 + (n - k)
  <2>1. u \o b \in Seq(Child) /\ Len(u \o b) = Len(u) + Len(b)
    BY <1>3, <1>6, ConcatProperties
  <2> QED BY <1>3, <1>6, <1>7, <2>1
<1>9. \A i \in 1..k + 1 + (n - k) : t[i] = IF i <= k + 1 THEN u[i] ELSE b[i - (k + 1)]
  <2>1. \A i \in 1..Len(u) + Len(b) : (u \o b)[i] = IF i <= Len(u) THEN u[i] ELSE b[i - Len(u)]
    BY <1>3, <1>6, ConcatProperties
  <2> QED BY <1>3, <1>6, <1>7, <2>1
<1>10. k + 1 + (n - k) = n + 1
  BY <1>1
<1>11. t[k] = e /\ t[k + 1] = f
  <2>1. k \in 1..n + 1 /\ k + 1 \in 1..n + 1 /\ k <= k + 1 /\ k + 1 <= k + 1
    BY <1>1
  <2> QED BY <1>6, <1>9, <1>10, <2>1
<1>12. ASSUME NEW i \in 1..n, i < k PROVE t[i] = s[i]
  <2>1. i \in 1..n + 1 /\ i <= k + 1 /\ i \in 1..k - 1
    BY <1>1, <1>12
  <2> QED BY <1>6, <1>9, <1>10, <2>1
<1>13. ASSUME NEW i \in 1..n, k < i PROVE t[i + 1] = s[i]
  <2>1. i + 1 \in 1..n + 1 /\ ~(i + 1 <= k + 1) /\ i + 1 - (k + 1) \in 1..n - k
        /\ k + (i + 1 - (k + 1)) = i
    BY <1>1, <1>13
  <2>2. t[i + 1] = b[i + 1 - (k + 1)]
    <3>1. i + 1 \in 1..k + 1 + (n - k)
      BY <1>10, <2>1
    <3>2. ASSUME NEW j \in 1..k + 1 + (n - k), ~(j <= k + 1) PROVE t[j] = b[j - (k + 1)]
      BY <1>9, <3>2
    <3>3. PICK j : j = i + 1
      OBVIOUS
    <3>4. j \in 1..k + 1 + (n - k) /\ ~(j <= k + 1)
      BY <2>1, <3>1, <3>3
    <3>5. t[j] = b[j - (k + 1)]
      BY <3>2, <3>4
    <3> QED BY <3>3, <3>5
  <2> QED BY <1>3, <2>1, <2>2
<1> QED BY <1>8, <1>10, <1>11, <1>12, <1>13 DEF n

AllSized(T) == \A d \in Nodes(T) : Sized(T, d)
SizedBut(T, x) == \A d \in Nodes(T) : d # x => Sized(T, d)

\* What a parent would keep of the halves.
LEMMA HalvesTyped ==
  ASSUME NEW T, NEW B, NEW H, Built(T, B, H), NEW x \in Nodes(T),
         Size(T.node[x]) = maxBranch, NEW p \in Nat, NEW y \in Nat,
         NEW a, a = LeftOf(T, x, p), NEW b, b = RightOf(T, x, p)
  PROVE  a \in Node /\ b \in Node /\ Entry(x, a) \in Child /\ Entry(y, b) \in Child
<1> DEFINE m == Len(Children(T, x))
           cut == CutOf(T, x)
           S == T.node[x].values
<1>1. /\ m \in Nat /\ a \in Node /\ b \in Node
      /\ Len(a.children) = cut /\ Len(b.children) = m - cut
      /\ a.values = Least(S, minChildren)
      /\ b.values = S \ Least(S, minChildren)
      /\ H[x] # 0 => m = maxBranch /\ cut = minChildren
      /\ H[x] = 0 => Cardinality(B[x]) = maxBranch
  <2>0. /\ Built(T, B, H) /\ x \in Nodes(T) /\ Size(T.node[x]) = maxBranch /\ p \in Nat
        /\ a = LeftOf(T, x, p) /\ b = RightOf(T, x, p)
    OBVIOUS
  <2>1. m = Len(Children(T, x)) /\ cut = CutOf(T, x)
    OBVIOUS
  <2> HIDE DEF m, cut
  <2>2. S = T.node[x].values
    OBVIOUS
  <2> HIDE DEF S
  <2> QED BY ONLY <2>0, <2>1, <2>2, HalvesAre
<1> HIDE DEF m, cut, S
<1>2. /\ minChildren \in Nat /\ minChildren >= 2
      /\ 2 * minChildren <= maxBranch /\ maxBranch \in Nat
  BY HalfIs, BranchAssumption
<1>3. x \in Nat
  BY NodeParts
<1>4. CASE H[x] = 0
  <2>1. S = B[x] /\ S \in SUBSET Nat /\ IsFiniteSet(S) /\ Cardinality(S) = maxBranch
    BY <1>1, <1>4, LeafParts, NodeParts DEF S
  <2> DEFINE L == Least(S, minChildren)
  <2>2. Cardinality(L) = minChildren
    BY <1>2, <2>1, LeastCount
  <2>3. L \subseteq S
    BY DEF Least
  <2> HIDE DEF L
  <2>4. IsFiniteSet(L) /\ IsFiniteSet(S \ L)
    BY <2>1, <2>3, FS_Subset
  <2>5. L # {} /\ S \ L # {}
    <3>1. L # {}
      BY <1>2, <2>2, FS_EmptySet
    <3>2. L # S
      BY <1>2, <2>1, <2>2
    <3> QED BY <2>3, <3>1, <3>2
  <2>6. a.values = L /\ b.values = S \ L
    BY <1>1 DEF L
  <2>7. Entry(x, a) \in Child
    BY <1>1, <1>3, <2>4, <2>5, <2>6, EntryType
  <2>8. Entry(y, b) \in Child
    BY <1>1, <2>4, <2>5, <2>6, EntryType
  <2> QED BY <1>1, <2>7, <2>8
<1>5. CASE H[x] # 0
  <2>1. Len(a.children) # 0 /\ Len(b.children) # 0
    BY <1>1, <1>2, <1>5
  <2>2. a.children # <<>> /\ b.children # <<>>
    BY <2>1
  <2>3. Entry(x, a) \in Child
    BY <1>1, <1>3, <2>2, EntryType
  <2>4. Entry(y, b) \in Child
    BY <1>1, <2>2, EntryType
  <2> QED BY <1>1, <2>3, <2>4
<1> QED BY <1>4, <1>5

\* Splitting a node below the root leaves at most its parent too large.
LEMMA SplitInside ==
  ASSUME NEW T, NEW B, NEW H, Built(T, B, H), Told(T, B), NEW x \in Nodes(T), x # T.root,
         Size(T.node[x]) = maxBranch, SizedBut(T, x), NEW U, U = splitNode(T, x)
  PROVE  \E C, G :
           /\ Built(U, C, G) /\ Told(U, C) /\ C[U.root] = B[T.root] /\ G[U.root] = H[T.root]
           /\ Parent(U, x) \in Nodes(U) /\ G[Parent(U, x)] = H[x] + 1
           /\ \/ AllSized(U)
              \/ SizedBut(U, Parent(U, x)) /\ Size(U.node[Parent(U, x)]) = maxBranch
<1> DEFINE p == Parent(T, x)
           n == T.node[x]
           y == allocateNodeId(writeNode(T, p, n))
           k == IndexOf(T, x)
           a == LeftOf(T, x, p)
           b == RightOf(T, x, p)
           P == Parted(T, x, p, y)
           s == Children(T, p)
           both == <<Entry(x, a), Entry(y, b)>>
           q == [P.node[p] EXCEPT !.children = Spliced(@, k, both)]
           m == Len(Children(T, x))
           cut == CutOf(T, x)
<1>1. /\ p \in Nodes(T) /\ p # 0 /\ p \in Nat /\ p # x /\ H[p] = H[x] + 1 /\ H[x] \in Nat
      /\ n \in Node /\ WellTyped(T) /\ Parent(T, p) \in Nat
      /\ s \in Seq(Child) /\ DOMAIN s = 1..Len(s) /\ Len(s) \in Nat
  <2>1. p \in Nodes(T) /\ p # 0 /\ H[p] = H[x] + 1 /\ H[x] \in Nat /\ n \in Node
    BY ParentParts, NodeParts
  <2>2. WellTyped(T)
    BY DEF Built
  <2> HIDE DEF p
  <2>3. p \in Nat /\ p # x /\ Parent(T, p) \in Nat
    BY <2>1, NodeParts
  <2>4. s \in Seq(Child) /\ DOMAIN s = 1..Len(s) /\ Len(s) \in Nat
    BY <2>1, NodeParts
  <2> QED BY <2>1, <2>2, <2>3, <2>4
<1>0. /\ Built(T, B, H) /\ x \in Nodes(T) /\ Size(T.node[x]) = maxBranch /\ p \in Nat
  BY <1>1
<1>2. U = writeNode(P, p, q)
  <2>1. n.parent # 0 /\ n.parent = p
    BY <1>1 DEF Parent
  <2>2. U = splitNode(T, x)
    OBVIOUS
  <2> QED BY ONLY <2>1, <2>2 DEF splitNode, Parted, LeftOf, RightOf, MovedOf, Mid, CutOf, Reparented, Spliced, Least
<1>3. k \in DOMAIN s /\ ChildId(T, p, k) = x
  <2>1. \E i \in DOMAIN s : ChildId(T, p, i) = x
    BY ParentParts
  <2> QED BY <2>1 DEF IndexOf, ChildId, Children, Parent
<1>4. y \in Nat \ {0} /\ y \notin Nodes(T)
  <2> DEFINE W == writeNode(T, p, n)
  <2>1. W = writeNode(T, p, n) /\ y = allocateNodeId(W)
    OBVIOUS
  <2> HIDE DEF W, y, p, n
  <2>2. WellTyped(W) /\ Nodes(W) = Nodes(T) \cup {p}
    <3>1. p \in Nat \ {0}
      BY <1>1
    <3> QED BY <1>1, <2>1, <3>1, WriteNode
  <2>3. IsFiniteSet(DOMAIN W.node)
    BY <2>2 DEF WellTyped, Nodes
  <2>4. y \in Nat \ {0} /\ y \notin DOMAIN W.node
    BY <2>1, <2>3, FreshId
  <2> QED BY <2>2, <2>4 DEF Nodes
<1> HIDE DEF p, n, y, k, s
<1>5. /\ WellTyped(P) /\ P.root = T.root /\ Nodes(P) = Nodes(T) \cup {y}
      /\ P.node[x] = a /\ P.node[y] = b
      /\ \A d \in Nodes(T) \ {x} :
           /\ P.node[d].values = T.node[d].values /\ Children(P, d) = Children(T, d)
           /\ Parent(P, d) = IF \E i \in cut + 1..m : ChildId(T, x, i) = d THEN y ELSE Parent(T, d)
  <2>1. P = Parted(T, x, p, y)
    OBVIOUS
  <2> HIDE DEF P
  <2>2. y \in Nat \ {0} /\ y \notin Nodes(T)
    BY <1>4
  <2>3. /\ WellTyped(P) /\ P.root = T.root /\ Nodes(P) = Nodes(T) \cup {y}
        /\ P.node[x] = LeftOf(T, x, p) /\ P.node[y] = RightOf(T, x, p)
        /\ \A d \in Nodes(T) \ {x} :
             /\ P.node[d].values = T.node[d].values /\ Children(P, d) = Children(T, d)
             /\ Parent(P, d) = IF \E i \in CutOf(T, x) + 1..Len(Children(T, x)) : ChildId(T, x, i) = d
                               THEN y ELSE Parent(T, d)
    BY ONLY <1>0, <2>1, <2>2, PartedIs
  <2> QED BY <2>3
<1> HIDE DEF P
<1>6. a = LeftOf(T, x, p) /\ b = RightOf(T, x, p) /\ m = Len(Children(T, x)) /\ cut = CutOf(T, x)
  OBVIOUS
<1> HIDE DEF a, b, m, cut
<1>7. /\ m \in Nat /\ cut \in 0..m /\ cut \in Nat
      /\ a.parent = p /\ b.parent = p
      /\ Len(a.children) = cut /\ Len(b.children) = m - cut
      /\ \A i \in 1..cut : a.children[i] = Children(T, x)[i]
      /\ \A i \in 1..m - cut : b.children[i] = Children(T, x)[cut + i]
  BY ONLY <1>0, <1>6, HalvesAre
<1>8. Entry(x, a) \in Child /\ Entry(y, b) \in Child
  BY <1>1, <1>4, <1>6, HalvesTyped
<1>9. Parent(P, p) = Parent(T, p)
  <2>1. ~(\E i \in cut + 1..m : ChildId(T, x, i) = p)
    <3> SUFFICES ASSUME NEW i \in cut + 1..m, ChildId(T, x, i) = p PROVE FALSE
      OBVIOUS
    <3>1. i \in DOMAIN Children(T, x)
      <4>1. DOMAIN Children(T, x) = 1..m
        BY <1>6, NodeParts
      <4> QED BY <1>7, <4>1
    <3>2. H[p] + 1 = H[x]
      BY <3>1, ChildParts
    <3> QED BY <1>1, <3>2
  <2> QED BY <1>1, <1>5, <2>1
<1>10. /\ q \in Node /\ q.values = T.node[p].values /\ q.parent = Parent(T, p)
       /\ q.children = Spliced(s, k, both) /\ Spliced(s, k, both) \in Seq(Child)
       /\ Len(q.children) = Len(s) + 1
       /\ q.children[k] = Entry(x, a) /\ q.children[k + 1] = Entry(y, b)
       /\ \A i \in 1..Len(s) : /\ i < k => q.children[i] = s[i]
                               /\ k < i => q.children[i + 1] = s[i]
  <2> DEFINE t == Spliced(s, k, both)
  <2>1. P.node[p] \in Node /\ P.node[p].children = s
        /\ P.node[p].values = T.node[p].values /\ P.node[p].parent = Parent(T, p)
    <3>1. p \in Nodes(P) /\ p \in Nodes(T) \ {x}
      BY <1>1, <1>5
    <3>2. P.node[p] \in Node
      BY <1>5, <3>1 DEF WellTyped
    <3> QED BY <1>5, <1>9, <3>1, <3>2 DEF s, Children, Parent
  <2>2. /\ t \in Seq(Child) /\ Len(t) = Len(s) + 1 /\ t[k] = Entry(x, a) /\ t[k + 1] = Entry(y, b)
        /\ \A i \in 1..Len(s) : /\ i < k => t[i] = s[i]
                                /\ k < i => t[i + 1] = s[i]
    <3> DEFINE e == Entry(x, a)
               f == Entry(y, b)
    <3>1. e \in Child /\ f \in Child
      BY <1>8
    <3>3. both = <<e, f>>
      OBVIOUS
    <3> HIDE DEF t, e, f, both
    <3>4. t = Spliced(s, k, both)
      BY DEF t
    <3>0. s \in Seq(Child) /\ k \in DOMAIN s
      BY <1>1, <1>3
    <3>2. /\ t \in Seq(Child) /\ Len(t) = Len(s) + 1 /\ t[k] = e /\ t[k + 1] = f
          /\ \A i \in 1..Len(s) : /\ i < k => t[i] = s[i]
                                  /\ k < i => t[i + 1] = s[i]
      BY ONLY <3>0, <3>1, <3>3, <3>4, Splice
    <3> QED BY <3>2 DEF e, f
  <2>3. q = [P.node[p] EXCEPT !.children = t]
    BY <2>1
  <2> HIDE DEF t, q
  <2>4. q \in Node /\ q.values = T.node[p].values /\ q.parent = Parent(T, p) /\ q.children = t
    BY <2>1, <2>2, <2>3 DEF Node
  <2> QED BY <2>2, <2>4 DEF t
<1> HIDE DEF q, both
<1>11. /\ WellTyped(U) /\ U.root = T.root /\ Nodes(U) = Nodes(T) \cup {y}
       /\ \A d \in Nodes(U) : U.node[d] = IF d = p THEN q ELSE P.node[d]
  <2>1. p \in Nat \ {0} /\ Nodes(P) \cup {p} = Nodes(T) \cup {y}
    BY <1>1, <1>5
  <2>2. /\ WellTyped(U) /\ U.root = P.root /\ Nodes(U) = Nodes(P) \cup {p}
        /\ \A d \in Nodes(U) : U.node[d] = IF d = p THEN q ELSE P.node[d]
    <3>1. WellTyped(P) /\ U = writeNode(P, p, q) /\ q \in Node
      BY <1>2, <1>5, <1>10
    <3> QED BY ONLY <2>1, <3>1, WriteNode
  <2> QED BY <1>5, <2>1, <2>2
<1>12. U.node[x] = a /\ U.node[y] = b /\ U.node[p] = q /\ y # p
  BY <1>1, <1>4, <1>5, <1>11
<1>13. Halved(T, U, x, y, k, cut)
  <2>1. /\ Parent(U, x) = p /\ Parent(U, y) = p /\ Parent(U, p) = Parent(T, p)
        /\ U.node[p].values = T.node[p].values
        /\ Len(Children(U, x)) = cut /\ Len(Children(U, y)) = m - cut
        /\ \A i \in 1..cut : Children(U, x)[i] = Children(T, x)[i]
        /\ \A i \in 1..m - cut : Children(U, y)[i] = Children(T, x)[cut + i]
    BY <1>7, <1>10, <1>12 DEF Parent, Children
  <2>2. /\ Len(Children(U, p)) = Len(s) + 1
        /\ Children(U, p)[k] = Entry(x, U.node[x]) /\ Children(U, p)[k + 1] = Entry(y, U.node[y])
        /\ \A i \in 1..Len(s) : /\ i < k => Children(U, p)[i] = s[i]
                                /\ k < i => Children(U, p)[i + 1] = s[i]
    BY <1>10, <1>12 DEF Children
  <2>3. \A d \in Nodes(T) \ {x, p} :
            /\ U.node[d].values = T.node[d].values /\ Children(U, d) = Children(T, d)
            /\ Parent(U, d) = IF \E i \in cut + 1..m : ChildId(T, x, i) = d
                              THEN y ELSE Parent(T, d)
    <3> SUFFICES ASSUME NEW d \in Nodes(T) \ {x, p}
                 PROVE  /\ U.node[d].values = T.node[d].values /\ Children(U, d) = Children(T, d)
                        /\ Parent(U, d) = IF \E i \in cut + 1..m : ChildId(T, x, i) = d
                                          THEN y ELSE Parent(T, d)
      OBVIOUS
    <3>1. U.node[d] = P.node[d]
      BY <1>11
    <3>2. Children(U, d) = Children(P, d) /\ Parent(U, d) = Parent(P, d)
      BY <3>1 DEF Children, Parent
    <3> QED BY <1>5, <3>1, <3>2
  <2> QED BY <1>11, <2>1, <2>2, <2>3 DEF Halved, p, m, s
<1>14. /\ HalfSize(a) /\ HalfSize(b)
       /\ \E L, R : Shares(T, B, H, U, x, y, cut, L, R)
  BY ONLY <1>0, <1>6, <1>12, HalvesGood
<1>15. PICK L, R : Shares(T, B, H, U, x, y, cut, L, R)
  BY <1>14
<1>16. PICK C, G :
         /\ Built(U, C, G) /\ Told(U, C) /\ C[U.root] = B[T.root] /\ G[U.root] = H[T.root]
         /\ U.root = T.root /\ Parent(U, x) = p /\ Parent(U, x) \in Nodes(U)
         /\ G[Parent(U, x)] = H[x] + 1
         /\ \A d \in Nodes(U) : d # Parent(U, x) => Sized(U, d)
         /\ Size(U.node[Parent(U, x)]) = Len(s) + 1
         /\ Len(Children(U, Parent(U, x))) = Len(s) + 1
  <2>1. \A d \in Nodes(T) : d # x /\ d # Parent(T, x) => Sized(T, d)
    BY DEF SizedBut
  <2>2. k \in DOMAIN Children(T, Parent(T, x)) /\ ChildId(T, Parent(T, x), k) = x
    BY <1>3 DEF s, p
  <2>3. cut \in 0..Len(Children(T, x))
    BY <1>6, <1>7
  <2>4. HalfSize(U.node[x]) /\ HalfSize(U.node[y])
    BY <1>12, <1>14
  <2>5. \E C, G :
           /\ Built(U, C, G) /\ Told(U, C) /\ C[U.root] = B[T.root] /\ G[U.root] = H[T.root]
           /\ U.root = T.root /\ Parent(U, x) = Parent(T, x) /\ Parent(U, x) \in Nodes(U)
           /\ G[Parent(U, x)] = H[x] + 1
           /\ \A d \in Nodes(U) : d # Parent(U, x) => Sized(U, d)
           /\ Size(U.node[Parent(U, x)]) = Len(Children(T, Parent(T, x))) + 1
           /\ Len(Children(U, Parent(U, x))) = Len(Children(T, Parent(T, x))) + 1
    BY <1>4, <1>13, <1>15, <2>1, <2>2, <2>3, <2>4, HalvedGood
  <2> QED BY <2>5 DEF s, p
<1>17. Len(s) <= maxChildren /\ 2 <= Len(s) /\ (p # T.root => minChildren <= Len(s))
  <2>1. Sized(T, p)
    BY <1>1 DEF SizedBut
  <2>2. H[p] # 0
    BY <1>1
  <2>3. Size(T.node[p]) = Len(s)
    BY <1>1, <2>2, SizeIs DEF s
  <2>4. Children(T, p) # <<>>
    BY <1>1, <2>2, LeafParts
  <2> QED BY <2>1, <2>3, <2>4 DEF Sized, s
<1>18. \/ AllSized(U)
       \/ SizedBut(U, Parent(U, x)) /\ Size(U.node[Parent(U, x)]) = maxBranch
  <2>1. minChildren \in Nat /\ maxChildren \in Nat /\ maxChildren + 1 = maxBranch
    BY HalfIs
  <2>2. CASE Len(s) = maxChildren
    BY <1>16, <2>1, <2>2 DEF SizedBut
  <2>3. CASE Len(s) # maxChildren
    <3>1. /\ Len(s) + 1 <= maxChildren /\ 2 <= Len(s) + 1
          /\ p # T.root => minChildren <= Len(s) + 1
      BY <1>1, <1>17, <2>1, <2>3
    <3>2. Sized(U, Parent(U, x))
      BY <1>16, <3>1 DEF Sized
    <3> QED BY <1>16, <3>2 DEF AllSized
  <2> QED BY <2>2, <2>3
<1> QED BY <1>16, <1>18

\* A new root r over the old one.
Raised(T, r) ==
  Rooted(writeNode(Reparented(T, {T.root}, r), r, Inner(0, <<Entry(T.root, T.node[T.root])>>)), r)

\* A new inner node.
LEMMA InnerIs ==
  ASSUME NEW p \in Nat, NEW s \in Seq(Child), NEW n, n = Inner(p, s)
  PROVE  n \in Node /\ n.parent = p /\ n.values = {} /\ n.children = s
BY DEF Inner, Node

\* A sequence of one entry.
LEMMA OneEntry ==
  ASSUME NEW e \in Child, NEW s, s = <<e>>
  PROVE  s \in Seq(Child) /\ Len(s) = 1 /\ DOMAIN s = {1} /\ s[1] = e /\ s # <<>>
OBVIOUS

\* A root over the root is a tree one level higher.
LEMMA Raise ==
  ASSUME NEW T, NEW B, NEW H, Built(T, B, H), Told(T, B),
         NEW r, r \in Nat \ {0}, r \notin Nodes(T), NEW V, V = Raised(T, r),
         NEW C, C = [d \in Nodes(V) |-> IF d = r THEN B[T.root] ELSE B[d]],
         NEW G, G = [d \in Nodes(V) |-> IF d = r THEN H[T.root] + 1 ELSE H[d]]
  PROVE  /\ Built(V, C, G) /\ Told(V, C) /\ V.root = r /\ Nodes(V) = Nodes(T) \cup {r}
         /\ Len(Children(V, r)) = 1 /\ ChildId(V, r, 1) = T.root
         /\ V.node[r].values = {}
         /\ \A d \in Nodes(T) : /\ V.node[d].values = T.node[d].values
                                /\ Children(V, d) = Children(T, d)
                                /\ Parent(V, d) = IF d = T.root THEN r ELSE Parent(T, d)
<1> DEFINE x == T.root
           n == T.node[x]
           e == Entry(x, n)
           s == <<e>>
           q == Inner(0, s)
           W == Reparented(T, {x}, r)
           X == writeNode(W, r, q)
<1>1. /\ WellTyped(T) /\ x \in Nodes(T) /\ r \in Nat /\ x # r /\ Parent(T, x) = 0 /\ r # 0
      /\ B[x] \in SUBSET Nat /\ B[x] # {} /\ IsFiniteSet(B[x])
      /\ B[x] \in SUBSET Keys /\ H[x] \in Nat
  <2>1. WellTyped(T) /\ x \in Nodes(T) /\ Parent(T, x) = 0
    BY RootParts DEF Built
  <2>2. B[x] \in SUBSET Nat /\ B[x] # {} /\ IsFiniteSet(B[x]) /\ H[x] \in Nat
    BY <2>1, NodeParts
  <2>3. B[x] \in SUBSET Keys
    BY <2>1 DEF Built
  <2> QED BY <2>1, <2>2, <2>3
<1>2. e = TrueEntry(B, x) /\ e \in Child /\ e.id = x
  <2>1. \A i \in DOMAIN Children(T, x) : Children(T, x)[i] = TrueEntry(B, ChildId(T, x, i))
    BY <1>1 DEF Told
  <2> HIDE DEF x
  <2>2. Entry(x, T.node[x]) = TrueEntry(B, x)
    BY <1>1, <2>1, NodeEntryTrue
  <2>3. x \in Nat
    BY <1>1, NodeParts
  <2>4. TrueEntry(B, x) \in Child
    BY <1>1, <2>3, TrueEntryType
  <2> QED BY <2>2, <2>4, EntryId DEF n
<1> HIDE DEF e, n
<1>3. s \in Seq(Child) /\ Len(s) = 1 /\ DOMAIN s = {1} /\ s[1] = e /\ s # <<>>
  <2>1. s = <<e>>
    OBVIOUS
  <2> HIDE DEF s
  <2> QED BY <1>2, <2>1, OneEntry
<1>4. q \in Node /\ q.parent = 0 /\ q.values = {} /\ q.children = s
  <2>1. q = Inner(0, s)
    OBVIOUS
  <2> HIDE DEF q, s
  <2> QED BY <1>3, <2>1, InnerIs
<1>5. V = Rooted(X, r)
  BY DEF Raised, e, n
<1> HIDE DEF s, q
<1>6. /\ WellTyped(W) /\ W.root = T.root /\ Nodes(W) = Nodes(T)
      /\ \A d \in Nodes(T) : /\ W.node[d].values = T.node[d].values
                             /\ Children(W, d) = Children(T, d)
                             /\ Parent(W, d) = IF d \in {x} THEN r ELSE Parent(T, d)
  <2>1. W = Reparented(T, {x}, r)
    OBVIOUS
  <2> HIDE DEF W
  <2> QED BY ONLY <1>1, <2>1, Reparent
<1> HIDE DEF W
<1>7. /\ WellTyped(X) /\ Nodes(X) = Nodes(T) \cup {r}
      /\ \A d \in Nodes(X) : X.node[d] = IF d = r THEN q ELSE W.node[d]
  <2>1. X = writeNode(W, r, q)
    OBVIOUS
  <2> HIDE DEF X
  <2>2. r \in Nat \ {0}
    OBVIOUS
  <2>3. /\ WellTyped(X) /\ Nodes(X) = Nodes(W) \cup {r}
        /\ \A d \in Nodes(X) : X.node[d] = IF d = r THEN q ELSE W.node[d]
    BY ONLY <1>4, <1>6, <2>1, <2>2, WriteNode
  <2> QED BY <1>6, <2>3
<1> HIDE DEF X
<1>8. WellTyped(V) /\ V.root = r /\ V.node = X.node
  <2>1. r \in Nodes(X)
    BY <1>7
  <2> QED BY ONLY <1>5, <1>7, <2>1, SetRoot
<1>9. Nodes(V) = Nodes(T) \cup {r} /\ V.node[r] = q
  BY <1>7, <1>8 DEF Nodes
<1>10. \A d \in Nodes(T) : /\ V.node[d].values = T.node[d].values
                           /\ Children(V, d) = Children(T, d)
                           /\ Parent(V, d) = IF d = x THEN r ELSE Parent(T, d)
  <2> SUFFICES ASSUME NEW d \in Nodes(T)
               PROVE  /\ V.node[d].values = T.node[d].values
                      /\ Children(V, d) = Children(T, d)
                      /\ Parent(V, d) = IF d = x THEN r ELSE Parent(T, d)
    OBVIOUS
  <2>1. V.node[d] = W.node[d]
    BY <1>7, <1>8
  <2> QED BY <1>6, <2>1 DEF Children, Parent
<1>11. /\ Children(V, r) = s /\ Len(Children(V, r)) = 1 /\ DOMAIN Children(V, r) = {1}
       /\ Children(V, r) # <<>> /\ ChildId(V, r, 1) = x /\ Parent(V, r) = 0
       /\ V.node[r].values = {}
  BY <1>2, <1>3, <1>4, <1>9 DEF Children, ChildId, Parent
<1>12. /\ \A d \in Nodes(T) : C[d] = B[d] /\ G[d] = H[d]
       /\ C[r] = B[x] /\ G[r] = H[x] + 1
  BY <1>9
<1>13. C \in [Nodes(V) -> SUBSET Keys] /\ G \in [Nodes(V) -> Nat]
  <2>1. \A d \in Nodes(T) : B[d] \in SUBSET Keys /\ H[d] \in Nat
    BY DEF Built
  <2>2. \A d \in Nodes(V) : C[d] \in SUBSET Keys /\ G[d] \in Nat
    BY <1>1, <1>9, <1>12, <2>1
  <2> QED BY <2>2
<1>14. \A d \in Nodes(V) : C[d] # {} /\ IsFiniteSet(C[d]) /\ G[d] <= G[V.root]
  <2>1. \A d \in Nodes(T) : B[d] # {} /\ IsFiniteSet(B[d]) /\ H[d] <= H[x] /\ H[d] \in Nat
    BY NodeParts
  <2> QED BY <1>1, <1>8, <1>9, <1>12, <2>1
<1>15. \A d \in Nodes(T) : \A i \in DOMAIN Children(T, d) :
          /\ ChildId(V, d, i) = ChildId(T, d, i)
          /\ ChildId(T, d, i) \in Nodes(T) \ {x}
  <2>1. \A d \in Nodes(T) : \A i \in DOMAIN Children(T, d) : ChildId(T, d, i) \in Nodes(T) \ {x}
    BY ChildParts
  <2> QED BY <1>10, <2>1 DEF ChildId, Children
<1>16. ASSUME NEW d \in Nodes(V)
       PROVE  IF G[d] = 0 THEN IsLeafOf(V, C, d) ELSE IsInnerOf(V, C, G, d)
  <2>1. CASE d = r
    <3>1. G[r] # 0
      BY <1>1, <1>12
    <3>2. C[r] = UNION {C[ChildId(V, r, i)] : i \in DOMAIN Children(V, r)}
      <4>1. C[ChildId(V, r, 1)] = B[x]
        BY <1>1, <1>11, <1>12
      <4> QED BY <1>11, <1>12, <4>1
    <3>3. \A i \in DOMAIN Children(V, r) :
             /\ ChildId(V, r, i) \in Nodes(V) /\ Parent(V, ChildId(V, r, i)) = r
             /\ G[ChildId(V, r, i)] + 1 = G[r]
      BY <1>1, <1>9, <1>10, <1>11, <1>12
    <3>4. \A i, j \in DOMAIN Children(V, r) : ~(i < j)
      BY <1>11
    <3>5. IsInnerOf(V, C, G, r)
      BY <1>11, <3>2, <3>3, <3>4 DEF IsInnerOf
    <3> QED BY <2>1, <3>1, <3>5
  <2>2. CASE d \in Nodes(T)
    <3>1. IF H[d] = 0 THEN IsLeafOf(T, B, d) ELSE IsInnerOf(T, B, H, d)
      BY <2>2 DEF Built
    <3>2. CASE H[d] = 0
      BY <1>10, <1>12, <2>2, <3>1, <3>2 DEF IsLeafOf
    <3>3. CASE H[d] # 0
      <4>1. IsInnerOf(T, B, H, d)
        BY <3>1, <3>3
      <4>2. \A i \in DOMAIN Children(V, d) :
              /\ ChildId(V, d, i) = ChildId(T, d, i) /\ ChildId(T, d, i) \in Nodes(T) \ {x}
              /\ i \in DOMAIN Children(T, d)
              /\ C[ChildId(V, d, i)] = B[ChildId(T, d, i)] /\ G[ChildId(V, d, i)] = H[ChildId(T, d, i)]
        BY <1>10, <1>12, <1>15, <2>2
      <4>3. V.node[d].values = {} /\ Children(V, d) # <<>>
        BY <1>10, <2>2, <4>1 DEF IsInnerOf
      <4>4. \A i \in DOMAIN Children(V, d) :
               /\ ChildId(V, d, i) \in Nodes(V) /\ Parent(V, ChildId(V, d, i)) = d
               /\ G[ChildId(V, d, i)] + 1 = G[d]
        <5>1. \A i \in DOMAIN Children(T, d) :
                 /\ Parent(T, ChildId(T, d, i)) = d /\ H[ChildId(T, d, i)] + 1 = H[d]
          BY <4>1 DEF IsInnerOf
        <5> SUFFICES ASSUME NEW i \in DOMAIN Children(V, d)
                     PROVE  /\ ChildId(V, d, i) \in Nodes(V) /\ Parent(V, ChildId(V, d, i)) = d
                            /\ G[ChildId(V, d, i)] + 1 = G[d]
          OBVIOUS
        <5>2. PICK c : c = ChildId(T, d, i)
          OBVIOUS
        <5>3. c \in Nodes(T) /\ c # x /\ Parent(T, c) = d /\ H[c] + 1 = H[d] /\ ChildId(V, d, i) = c
          BY <4>2, <5>1, <5>2
        <5>4. Parent(V, c) = Parent(T, c) /\ G[c] = H[c] /\ G[d] = H[d] /\ c \in Nodes(V)
          BY <1>9, <1>10, <1>12, <2>2, <5>3
        <5> QED BY <5>3, <5>4
      <4>5. \A i, j \in DOMAIN Children(V, d) : i < j =>
               \A a \in C[ChildId(V, d, i)], b \in C[ChildId(V, d, j)] : a < b
        <5>1. \A i, j \in DOMAIN Children(T, d) : i < j =>
                 \A a \in B[ChildId(T, d, i)], b \in B[ChildId(T, d, j)] : a < b
          BY <4>1 DEF IsInnerOf
        <5> QED BY <4>2, <5>1
      <4>6. C[d] = UNION {C[ChildId(V, d, i)] : i \in DOMAIN Children(V, d)}
        <5>1. \A v : v \in B[d] <=> \E i \in DOMAIN Children(T, d) : v \in B[ChildId(T, d, i)]
          BY <2>2, <3>3, InnerUnion
        <5>2. DOMAIN Children(V, d) = DOMAIN Children(T, d)
          BY <1>10, <2>2
        <5>3. \A v : v \in C[d] <=> \E i \in DOMAIN Children(V, d) : v \in C[ChildId(V, d, i)]
          BY <1>12, <2>2, <4>2, <5>1, <5>2
        <5> QED BY <5>3
      <4>7. IsInnerOf(V, C, G, d)
        BY <4>3, <4>4, <4>5, <4>6 DEF IsInnerOf
      <4> QED BY <1>12, <2>2, <3>3, <4>7
    <3> QED BY <3>2, <3>3
  <2> QED BY <1>9, <2>1, <2>2
<1>17. ASSUME NEW d \in Nodes(V) \ {V.root}
       PROVE  /\ Parent(V, d) \in Nodes(V)
              /\ \E i \in DOMAIN Children(V, Parent(V, d)) : ChildId(V, Parent(V, d), i) = d
  <2>1. CASE d = x
    BY <1>1, <1>9, <1>10, <1>11, <2>1
  <2>2. CASE d # x
    <3>1. d \in Nodes(T) /\ Parent(V, d) = Parent(T, d)
      BY <1>8, <1>9, <1>10, <2>2
    <3>2. /\ Parent(T, d) \in Nodes(T)
          /\ \E i \in DOMAIN Children(T, Parent(T, d)) : ChildId(T, Parent(T, d), i) = d
      BY <2>2, <3>1, ParentParts
    <3> QED BY <1>9, <1>10, <1>15, <3>1, <3>2
  <2> QED BY <2>1, <2>2
<1>18. Built(V, C, G)
  BY <1>8, <1>11, <1>13, <1>14, <1>16, <1>17 DEF Built
<1>19. Told(V, C)
  <2>1. ASSUME NEW d \in Nodes(T), NEW i \in DOMAIN Children(T, d)
        PROVE  Children(V, d)[i] = TrueEntry(C, ChildId(V, d, i))
    <3>1. Children(T, d)[i] = TrueEntry(B, ChildId(T, d, i))
      BY DEF Told
    <3>2. C[ChildId(T, d, i)] = B[ChildId(T, d, i)]
      BY <1>12, <1>15
    <3> QED BY <1>10, <1>15, <3>1, <3>2 DEF TrueEntry
  <2>2. Children(V, r)[1] = TrueEntry(C, x)
    BY <1>1, <1>2, <1>3, <1>11, <1>12 DEF TrueEntry
  <2> SUFFICES ASSUME NEW d \in Nodes(V), NEW i \in DOMAIN Children(V, d)
               PROVE  Children(V, d)[i] = TrueEntry(C, ChildId(V, d, i))
    BY DEF Told
  <2>3. CASE d = r
    BY <1>11, <2>2, <2>3
  <2>4. CASE d # r
    BY <1>9, <1>10, <2>1, <2>4
  <2> QED BY <2>3, <2>4
<1> QED BY <1>8, <1>9, <1>10, <1>11, <1>18, <1>19 DEF x

\* Splitting the root gives a tree one level higher, with all sizes right.
LEMMA SplitRoot ==
  ASSUME NEW T, NEW B, NEW H, Built(T, B, H), Told(T, B), NEW x, x = T.root,
         Size(T.node[x]) = maxBranch, SizedBut(T, x), NEW U, U = splitNode(T, x)
  PROVE  \E C, G :
           /\ Built(U, C, G) /\ Told(U, C) /\ C[U.root] = B[T.root]
           /\ Parent(U, x) \in Nodes(U) /\ AllSized(U)
<1> DEFINE n == T.node[x]
           r == allocateNodeId(T)
           y == allocateNodeId(writeNode(T, r, n))
           a == LeftOf(T, x, r)
           b == RightOf(T, x, r)
           P == Parted(T, x, r, y)
           s == <<Entry(x, a), Entry(y, b)>>
           q == Inner(0, s)
           Q == writeNode(P, r, q)
           m == Len(Children(T, x))
           cut == CutOf(T, x)
           V == Raised(T, r)
           C == [d \in Nodes(V) |-> IF d = r THEN B[T.root] ELSE B[d]]
           G == [d \in Nodes(V) |-> IF d = r THEN H[T.root] + 1 ELSE H[d]]
<1>1. /\ x \in Nodes(T) /\ x \in Nat /\ WellTyped(T) /\ n \in Node /\ Parent(T, x) = 0
      /\ IsFiniteSet(DOMAIN T.node) /\ n.parent = 0 /\ H[x] \in Nat
  <2>1. x \in Nodes(T) /\ Parent(T, x) = 0 /\ WellTyped(T)
    BY RootParts DEF Built
  <2>2. IsFiniteSet(DOMAIN T.node)
    BY <2>1 DEF WellTyped, Nodes
  <2> QED BY <2>1, <2>2, NodeParts DEF Parent
<1>2. U = Rooted(Q, r)
  <2> DEFINE o == IF n.parent = 0 THEN allocateNodeId(T) ELSE n.parent
             z == allocateNodeId(writeNode(T, o, n))
  <2>1. n.parent = 0 =>
          U = Rooted(writeNode(Parted(T, x, o, z), o,
                               Inner(0, <<Entry(x, LeftOf(T, x, o)), Entry(z, RightOf(T, x, o))>>)), o)
    BY DEF splitNode, Parted, LeftOf, RightOf, MovedOf, Mid, CutOf, Reparented, Rooted, Least
  <2>2. o = r
    BY <1>1
  <2> HIDE DEF o
  <2> QED BY <1>1, <2>1, <2>2
<1>3. r \in Nat \ {0} /\ r \notin Nodes(T)
  <2>1. r = allocateNodeId(T)
    OBVIOUS
  <2> HIDE DEF r
  <2> QED BY <1>1, <2>1, FreshId DEF Nodes
<1>4. y \in Nat \ {0} /\ y \notin Nodes(T) /\ y # r
  <2> DEFINE W == writeNode(T, r, n)
  <2>1. W = writeNode(T, r, n) /\ y = allocateNodeId(W)
    OBVIOUS
  <2> HIDE DEF W, y, r, n
  <2>2. WellTyped(W) /\ Nodes(W) = Nodes(T) \cup {r}
    BY <1>1, <1>3, <2>1, WriteNode
  <2>3. IsFiniteSet(DOMAIN W.node)
    BY <2>2 DEF WellTyped, Nodes
  <2>4. y \in Nat \ {0} /\ y \notin DOMAIN W.node
    BY <2>1, <2>3, FreshId
  <2> QED BY <2>2, <2>4 DEF Nodes
<1> HIDE DEF r, n, y
<1>5. Built(T, B, H) /\ x \in Nodes(T) /\ Size(T.node[x]) = maxBranch /\ r \in Nat
  BY <1>1, <1>3
<1>6. /\ WellTyped(P) /\ Nodes(P) = Nodes(T) \cup {y} /\ P.node[x] = a /\ P.node[y] = b
      /\ \A d \in Nodes(T) \ {x} :
           /\ P.node[d].values = T.node[d].values /\ Children(P, d) = Children(T, d)
           /\ Parent(P, d) = IF \E i \in cut + 1..m : ChildId(T, x, i) = d THEN y ELSE Parent(T, d)
  <2>1. P = Parted(T, x, r, y) /\ y \in Nat \ {0} /\ y \notin Nodes(T)
    BY <1>4
  <2> HIDE DEF P
  <2>2. /\ WellTyped(P) /\ Nodes(P) = Nodes(T) \cup {y}
        /\ P.node[x] = LeftOf(T, x, r) /\ P.node[y] = RightOf(T, x, r)
        /\ \A d \in Nodes(T) \ {x} :
             /\ P.node[d].values = T.node[d].values /\ Children(P, d) = Children(T, d)
             /\ Parent(P, d) = IF \E i \in CutOf(T, x) + 1..Len(Children(T, x)) : ChildId(T, x, i) = d
                               THEN y ELSE Parent(T, d)
    BY ONLY <1>5, <2>1, PartedIs
  <2> QED BY <2>2
<1> HIDE DEF P
<1>7. a = LeftOf(T, x, r) /\ b = RightOf(T, x, r) /\ m = Len(Children(T, x)) /\ cut = CutOf(T, x)
  OBVIOUS
<1> HIDE DEF a, b, m, cut
<1>8. /\ m \in Nat /\ cut \in 0..m /\ cut \in Nat
      /\ a.parent = r /\ b.parent = r
      /\ Len(a.children) = cut /\ Len(b.children) = m - cut
      /\ \A i \in 1..cut : a.children[i] = Children(T, x)[i]
      /\ \A i \in 1..m - cut : b.children[i] = Children(T, x)[cut + i]
  BY ONLY <1>5, <1>7, HalvesAre
<1>9. Entry(x, a) \in Child /\ Entry(y, b) \in Child
  <2>1. y \in Nat
    BY <1>4
  <2> QED BY ONLY <1>5, <1>7, <2>1, HalvesTyped
<1>10. s \in Seq(Child) /\ Len(s) = 2 /\ s[1] = Entry(x, a) /\ s[2] = Entry(y, b)
  <2> DEFINE e == Entry(x, a)
             f == Entry(y, b)
  <2>1. s = <<e, f>> /\ e \in Child /\ f \in Child
    BY <1>9
  <2> HIDE DEF s, e, f
  <2>2. s \in Seq(Child) /\ Len(s) = 2 /\ s[1] = e /\ s[2] = f
    BY <2>1
  <2> QED BY <2>2 DEF e, f
<1> HIDE DEF s
<1>11. q \in Node /\ q.parent = 0 /\ q.values = {} /\ q.children = s
  <2>1. q = Inner(0, s) /\ 0 \in Nat
    OBVIOUS
  <2> HIDE DEF q
  <2> QED BY <1>10, <2>1, InnerIs
<1> HIDE DEF q
<1>12. /\ WellTyped(Q) /\ Nodes(Q) = Nodes(P) \cup {r}
       /\ \A d \in Nodes(Q) : Q.node[d] = IF d = r THEN q ELSE P.node[d]
  <2>1. Q = writeNode(P, r, q)
    OBVIOUS
  <2> HIDE DEF Q
  <2> QED BY ONLY <1>3, <1>6, <1>11, <2>1, WriteNode
<1> HIDE DEF Q
<1>13. WellTyped(U) /\ U.root = r /\ U.node = Q.node
  <2>1. r \in Nodes(Q)
    BY <1>12
  <2> QED BY ONLY <1>2, <1>12, <2>1, SetRoot
<1>14. /\ Nodes(U) = Nodes(T) \cup {r, y}
       /\ U.node[x] = a /\ U.node[y] = b /\ U.node[r] = q
       /\ \A d \in Nodes(T) : U.node[d] = P.node[d]
  <2>1. Nodes(U) = Nodes(Q)
    BY <1>13 DEF Nodes
  <2>2. x # r /\ y # r /\ \A d \in Nodes(T) : d # r
    BY <1>1, <1>3, <1>4
  <2> QED BY <1>1, <1>4, <1>6, <1>12, <1>13, <2>1, <2>2
<1>15. /\ Built(V, C, G) /\ Told(V, C) /\ V.root = r /\ Nodes(V) = Nodes(T) \cup {r}
       /\ Len(Children(V, r)) = 1 /\ ChildId(V, r, 1) = x
       /\ V.node[r].values = {}
       /\ \A d \in Nodes(T) : /\ V.node[d].values = T.node[d].values
                              /\ Children(V, d) = Children(T, d)
                              /\ Parent(V, d) = IF d = x THEN r ELSE Parent(T, d)
  <2>1. /\ V = Raised(T, r)
        /\ C = [d \in Nodes(V) |-> IF d = r THEN B[T.root] ELSE B[d]]
        /\ G = [d \in Nodes(V) |-> IF d = r THEN H[T.root] + 1 ELSE H[d]]
    OBVIOUS
  <2> HIDE DEF V, C, G
  <2>2. Built(T, B, H) /\ Told(T, B) /\ x = T.root
    OBVIOUS
  <2> QED BY ONLY <1>3, <2>1, <2>2, Raise
<1>16. /\ C[r] = B[x] /\ C[x] = B[x] /\ G[x] = H[x]
       /\ \A d \in Nodes(T) : C[d] = B[d]
  BY <1>1, <1>3, <1>15
<1> HIDE DEF V, C, G
<1>17. Parent(V, x) = r /\ x \in Nodes(V) /\ x # V.root /\ Children(V, x) = Children(T, x)
  BY <1>1, <1>3, <1>15
<1>18. y \notin Nodes(V) /\ 1 \in DOMAIN Children(V, r) /\ cut \in 0..Len(Children(V, x))
  <2>1. y \notin Nodes(V)
    BY <1>4, <1>15
  <2>2. r \in Nodes(V)
    BY <1>15
  <2>3. DOMAIN Children(V, r) = 1..1
    BY <1>15, <2>2, NodeParts
  <2> QED BY <1>7, <1>8, <1>17, <2>1, <2>3
<1>19. Halved(V, U, x, y, 1, cut)
  <2>1. /\ Parent(U, x) = r /\ Parent(U, y) = r /\ Parent(U, r) = 0 /\ Parent(V, r) = 0
        /\ U.node[r].values = V.node[r].values
        /\ Len(Children(U, x)) = cut /\ Len(Children(U, y)) = m - cut
        /\ \A i \in 1..cut : Children(U, x)[i] = Children(V, x)[i]
        /\ \A i \in 1..m - cut : Children(U, y)[i] = Children(V, x)[cut + i]
    <3>1. Parent(V, r) = 0
      BY <1>15, RootParts
    <3> QED BY <1>8, <1>11, <1>14, <1>15, <1>17, <3>1 DEF Parent, Children
  <2>2. /\ Len(Children(U, r)) = 2
        /\ Children(U, r)[1] = Entry(x, U.node[x]) /\ Children(U, r)[2] = Entry(y, U.node[y])
    BY <1>10, <1>11, <1>14 DEF Children
  <2>3. \A d \in Nodes(V) \ {x, r} :
            /\ U.node[d].values = V.node[d].values /\ Children(U, d) = Children(V, d)
            /\ Parent(U, d) = IF \E i \in cut + 1..m : ChildId(V, x, i) = d
                              THEN y ELSE Parent(V, d)
    <3> SUFFICES ASSUME NEW d \in Nodes(V) \ {x, r}
                 PROVE  /\ U.node[d].values = V.node[d].values /\ Children(U, d) = Children(V, d)
                        /\ Parent(U, d) = IF \E i \in cut + 1..m : ChildId(V, x, i) = d
                                          THEN y ELSE Parent(V, d)
      OBVIOUS
    <3>1. d \in Nodes(T) \ {x} /\ U.node[d] = P.node[d]
      BY <1>14, <1>15
    <3>2. Children(U, d) = Children(P, d) /\ Parent(U, d) = Parent(P, d)
      BY <3>1 DEF Children, Parent
    <3>3. \A i : ChildId(V, x, i) = ChildId(T, x, i)
      BY <1>17 DEF ChildId, Children
    <3> QED BY <1>6, <1>15, <3>1, <3>2, <3>3
  <2>4. Nodes(U) = Nodes(V) \cup {y} /\ U.root = V.root /\ m = Len(Children(V, x))
        /\ Len(Children(V, r)) = 1 /\ 1 + 1 = 2
    BY <1>7, <1>13, <1>14, <1>15, <1>17
  <2>5. \A i \in 1..1 : ~(i < 1) /\ ~(1 < i)
    OBVIOUS
  <2>6. /\ WellTyped(U) /\ U.root = V.root /\ Nodes(U) = Nodes(V) \cup {y}
        /\ Parent(U, x) = r /\ Parent(U, y) = r /\ Parent(U, r) = Parent(V, r)
        /\ U.node[r].values = V.node[r].values
        /\ Len(Children(U, r)) = Len(Children(V, r)) + 1
        /\ \A i \in 1..Len(Children(V, r)) :
             /\ i < 1 => Children(U, r)[i] = Children(V, r)[i]
             /\ 1 < i => Children(U, r)[i + 1] = Children(V, r)[i]
    BY <1>13, <2>1, <2>2, <2>4, <2>5
  <2>7. Children(U, r)[1 + 1] = Entry(y, U.node[y])
    BY <2>2
  <2> HIDE DEF r
  <2> QED BY ONLY <1>17, <2>1, <2>2, <2>3, <2>4, <2>6, <2>7 DEF Halved
<1>20. /\ HalfSize(a) /\ HalfSize(b)
       /\ \E L, R : Shares(T, B, H, U, x, y, cut, L, R)
  BY ONLY <1>5, <1>7, <1>14, HalvesGood
<1>21. PICK L, R : Shares(T, B, H, U, x, y, cut, L, R)
  BY <1>20
<1>22. Shares(V, C, G, U, x, y, cut, L, R)
  <2>1. \A i : ChildId(V, x, i) = ChildId(T, x, i)
    BY <1>17 DEF ChildId, Children
  <2>2. \A i \in 1..m : C[ChildId(V, x, i)] = B[ChildId(T, x, i)]
    <3>1. DOMAIN Children(T, x) = 1..m
      BY <1>5, <1>7, NodeParts
    <3>2. \A i \in 1..m : ChildId(T, x, i) \in Nodes(T)
      BY <1>5, <3>1, ChildParts
    <3> QED BY <1>16, <2>1, <3>2
  <2>3. CASE H[x] = 0
    BY <1>16, <1>21, <2>3 DEF Shares
  <2>4. CASE H[x] # 0
    <3>1. /\ L # {} /\ R # {} /\ L \cup R = B[x] /\ \A v \in L, w \in R : v < w
          /\ U.node[x].values = {} /\ U.node[y].values = {}
          /\ 1 <= cut /\ cut < m
          /\ \A v : v \in L <=> \E i \in 1..cut : v \in B[ChildId(T, x, i)]
          /\ \A v : v \in R <=> \E i \in cut + 1..m : v \in B[ChildId(T, x, i)]
      BY <1>7, <1>21, <2>4 DEF Shares
    <3>2. (1..cut) \subseteq 1..m /\ (cut + 1..m) \subseteq 1..m
      BY <1>8
    <3>3. /\ \A v : v \in L <=> \E i \in 1..cut : v \in C[ChildId(V, x, i)]
          /\ \A v : v \in R <=> \E i \in cut + 1..m : v \in C[ChildId(V, x, i)]
      BY <2>2, <3>1, <3>2
    <3>4. m = Len(Children(V, x))
      BY <1>7, <1>17
    <3> QED BY <1>16, <2>4, <3>1, <3>3, <3>4 DEF Shares
  <2> QED BY <2>3, <2>4
<1>23. \A d \in Nodes(V) : d # x /\ d # Parent(V, x) => Sized(V, d)
  <2> SUFFICES ASSUME NEW d \in Nodes(V), d # x, d # r PROVE Sized(V, d)
    BY <1>17
  <2>1. d \in Nodes(T) /\ Sized(T, d)
    BY <1>15 DEF SizedBut
  <2>2. V.node[d].values = T.node[d].values /\ Children(V, d) = Children(T, d)
    BY <1>15, <2>1
  <2>3. Size(V.node[d]) = Size(T.node[d])
    BY <2>2 DEF Size, Children
  <2> QED BY <2>1, <2>2, <2>3 DEF Sized
<1>24. HalfSize(U.node[x]) /\ HalfSize(U.node[y])
  BY <1>14, <1>20
<1>25. PICK D, E :
         /\ Built(U, D, E) /\ Told(U, D) /\ D[U.root] = C[V.root]
         /\ Parent(U, x) = r /\ Parent(U, x) \in Nodes(U)
         /\ \A d \in Nodes(U) : d # Parent(U, x) => Sized(U, d)
         /\ Size(U.node[Parent(U, x)]) = Len(Children(V, r)) + 1
         /\ Len(Children(U, Parent(U, x))) = Len(Children(V, r)) + 1
  <2>1. 1 \in DOMAIN Children(V, Parent(V, x)) /\ ChildId(V, Parent(V, x), 1) = x
    BY <1>15, <1>17, <1>18
  <2>2. Built(V, C, G) /\ Told(V, C) /\ y \in Nat \ {0}
    BY <1>4, <1>15
  <2>3. \E D, E :
           /\ Built(U, D, E) /\ Told(U, D) /\ D[U.root] = C[V.root]
           /\ Parent(U, x) = Parent(V, x) /\ Parent(U, x) \in Nodes(U)
           /\ \A d \in Nodes(U) : d # Parent(U, x) => Sized(U, d)
           /\ Size(U.node[Parent(U, x)]) = Len(Children(V, Parent(V, x))) + 1
           /\ Len(Children(U, Parent(U, x))) = Len(Children(V, Parent(V, x))) + 1
    BY ONLY <1>17, <1>18, <1>19, <1>22, <1>23, <1>24, <2>1, <2>2, HalvedGood
  <2> QED BY <1>17, <2>3
<1>26. Sized(U, r)
  <2>1. Size(U.node[r]) = 2 /\ Len(Children(U, r)) = 2
    BY <1>15, <1>25
  <2>2. 2 <= maxChildren
    BY HalfIs
  <2> QED BY <1>13, <2>1, <2>2 DEF Sized
<1>27. AllSized(U)
  BY <1>25, <1>26 DEF AllSized
<1> QED BY <1>15, <1>16, <1>25, <1>27

-------------------------------------------------------------------------------
(* Adding: a leaf gets the key and nodes are split until none is too large.  *)

\* A tree with the values W, of height h, in which only x may be too large, and
\* then lies at least on level i.
Splitting(T, C, G, W, h, x, i) ==
  /\ Built(T, C, G) /\ Told(T, C) /\ C[T.root] = W /\ x \in Nodes(T)
  /\ \/ AllSized(T)
     \/ /\ G[T.root] = h /\ SizedBut(T, x) /\ Size(T.node[x]) = maxBranch
        /\ i <= G[x]

\* A round of splitting ends it or goes on one level higher.
LEMMA SplitStep ==
  ASSUME NEW T, NEW B, NEW H, NEW W, NEW h, NEW x, NEW i \in Nat, Splitting(T, B, H, W, h, x, i),
         NEW s, s = [tree |-> T, id |-> x], NEW r, r = Split(s)
  PROVE  \E U, C, G, y :
            r = [tree |-> U, id |-> y] /\ Splitting(U, C, G, W, h, y, i + 1)
<1>1. s.tree = T /\ s.id = x
  OBVIOUS
<1>2. /\ Built(T, B, H) /\ Told(T, B) /\ B[T.root] = W /\ x \in Nodes(T)
      /\ maxChildren \in Nat /\ maxChildren + 1 = maxBranch
  BY HalfIs DEF Splitting
<1>3. CASE AllSized(T)
  <2>1. Size(T.node[x]) <= maxChildren
    BY <1>2, <1>3 DEF AllSized, Sized
  <2>2. r = [tree |-> T, id |-> x]
    BY <1>1, <2>1 DEF Split
  <2>3. Splitting(T, B, H, W, h, x, i + 1)
    BY <1>2, <1>3 DEF Splitting
  <2> QED BY <2>2, <2>3
<1>4. CASE ~AllSized(T)
  <2> DEFINE U == splitNode(T, x)
             y == Parent(U, x)
  <2>1. H[T.root] = h /\ SizedBut(T, x) /\ Size(T.node[x]) = maxBranch /\ i <= H[x]
    BY <1>4 DEF Splitting
  <2>2. r = [tree |-> U, id |-> y]
    <3>1. ~(Size(T.node[x]) <= maxChildren)
      BY <1>2, <2>1
    <3> QED BY <1>1, <3>1 DEF Split, Parent
  <2>3. U = splitNode(T, x)
    OBVIOUS
  <2> HIDE DEF U
  <2>4. CASE x = T.root
    <3>1. \E C, G :
            /\ Built(U, C, G) /\ Told(U, C) /\ C[U.root] = B[T.root]
            /\ y \in Nodes(U) /\ AllSized(U)
      BY <1>2, <2>1, <2>3, <2>4, SplitRoot
    <3>2. PICK C, G : Splitting(U, C, G, W, h, y, i + 1)
      BY <1>2, <3>1 DEF Splitting
    <3> QED BY <2>2, <3>2
  <2>5. CASE x # T.root
    <3>1. \E C, G :
            /\ Built(U, C, G) /\ Told(U, C) /\ C[U.root] = B[T.root] /\ G[U.root] = H[T.root]
            /\ y \in Nodes(U) /\ G[y] = H[x] + 1
            /\ \/ AllSized(U)
               \/ SizedBut(U, y) /\ Size(U.node[y]) = maxBranch
      BY <1>2, <2>1, <2>3, <2>5, SplitInside
    <3>2. i + 1 <= H[x] + 1
      BY <1>2, <2>1, NodeParts
    <3>3. PICK C, G : Splitting(U, C, G, W, h, y, i + 1)
      BY <1>2, <2>1, <3>1, <3>2 DEF Splitting
    <3> QED BY <2>2, <3>3
  <2> QED BY <2>4, <2>5
<1> QED BY <1>3, <1>4

\* Splitting ends with all sizes right and the values unchanged.
LEMMA SplitAll ==
  ASSUME NEW T, NEW B, NEW H, Built(T, B, H), Told(T, B), NEW x \in Nodes(T),
         AllSized(T) \/ (SizedBut(T, x) /\ Size(T.node[x]) = maxBranch),
         NEW U, U = splitIfNeeded(T, x)
  PROVE  \E C, G : Built(U, C, G) /\ Told(U, C) /\ C[U.root] = B[T.root] /\ AllSized(U)
<1> DEFINE n == Levels(T)
           a == [tree |-> T, id |-> x]
           f == CHOOSE g : g = [i \in 0..n |-> IF i = 0 THEN a ELSE Split(g[i - 1])]
           Good(i) == \E V, C, G, y : /\ f[i] = [tree |-> V, id |-> y]
                                      /\ Splitting(V, C, G, B[T.root], H[T.root], y, i)
<1>1. n \in Nat /\ H[T.root] < n /\ H[T.root] \in Nat
  BY FewLevels, RootParts, NodeParts
<1>2. U = f[n].tree
  BY DEF splitIfNeeded
<1> HIDE DEF n
<1>3. f = [i \in 0..n |-> IF i = 0 THEN a ELSE Split(f[i - 1])]
  <2> HIDE DEF f, Good, a
  <2>1. \E g : g = [i \in 0..n |-> IF i = 0 THEN a ELSE Split(g[i - 1])]
    <3>1. PICK g : Runs(g, 2, T, x, a, n)
      BY <1>1, RoundsExist
    <3>2. \A s : Round(2, T, x, s) = Split(s)
      BY DEF Round
    <3>3. g = [i \in 0..n |-> IF i = 0 THEN a ELSE Split(g[i - 1])]
      BY <3>1, <3>2 DEF Runs
    <3> QED BY <3>3
  <2> QED BY <2>1 DEF f
<1> HIDE DEF f
<1>4. Good(0)
  <2>1. f[0] = a
    BY <1>1, <1>3
  <2>2. 0 <= H[x]
    BY NodeParts
  <2>3. Splitting(T, B, H, B[T.root], H[T.root], x, 0)
    BY <2>2 DEF Splitting
  <2> QED BY <2>1, <2>3
<1>5. ASSUME NEW i \in 0..n, i # 0, Good(i - 1) PROVE Good(i)
  <2>1. i \in Nat /\ i - 1 \in Nat /\ f[i] = Split(f[i - 1]) /\ i - 1 + 1 = i
    BY <1>1, <1>3, <1>5
  <2>2. PICK V, C, G, y : /\ f[i - 1] = [tree |-> V, id |-> y]
                          /\ Splitting(V, C, G, B[T.root], H[T.root], y, i - 1)
    BY <1>5
  <2> DEFINE s == f[i - 1]
             r == f[i]
             j == i - 1
             W == B[T.root]
             h == H[T.root]
  <2>3. s = [tree |-> V, id |-> y] /\ r = Split(s) /\ j \in Nat /\ Splitting(V, C, G, W, h, y, j)
    BY <2>1, <2>2
  <2> HIDE DEF s, r, j, W, h
  <2>4. \E X, D, E, z : r = [tree |-> X, id |-> z] /\ Splitting(X, D, E, W, h, z, j + 1)
    BY ONLY <2>3, SplitStep
  <2> QED BY <2>1, <2>4 DEF r, j, W, h
<1> DEFINE Bad == {i \in 0..n : ~Good(i)}
<1>6. Bad = {}
  <2> HIDE DEF Good
  <2>1. SUFFICES ASSUME Bad # {} PROVE FALSE
    OBVIOUS
  <2>2. PICK i \in Bad : \A k \in Bad : i <= k
    <3>1. Bad \in SUBSET Nat
      BY <1>1
    <3> HIDE DEF Bad
    <3> QED BY <2>1, <3>1, Lowest
  <2>3. i # 0 /\ i \in 0..n
    BY <1>4, <2>2
  <2>4. i - 1 \in 0..n /\ ~(i <= i - 1)
    BY <1>1, <2>3
  <2>5. Good(i - 1)
    BY <2>2, <2>4
  <2> QED BY <1>5, <2>2, <2>3, <2>5
<1>7. PICK V, C, G, y : /\ f[n] = [tree |-> V, id |-> y]
                        /\ Splitting(V, C, G, B[T.root], H[T.root], y, n)
  <2>1. Good(n)
    BY <1>1, <1>6
  <2> QED BY <2>1
<1>8. U = V /\ Built(V, C, G) /\ Told(V, C) /\ C[V.root] = B[T.root] /\ y \in Nodes(V)
  BY <1>2, <1>7 DEF Splitting
<1>9. AllSized(V)
  <2>1. G[y] \in Nat /\ G[y] <= G[V.root]
    BY <1>8, NodeParts
  <2>2. ~(G[V.root] = H[T.root] /\ n <= G[y])
    BY <1>1, <2>1
  <2> QED BY <1>7, <2>2 DEF Splitting
<1> QED BY <1>8, <1>9

\* Other values in a leaf change no other node's size.
LEMMA RefillSizes ==
  ASSUME NEW T, NEW B, NEW H, Built(T, B, H), NEW x \in Nodes(T), H[x] = 0,
         NEW N, IsFiniteSet(N), NEW U, NEW C, Built(U, C, H), Refilled(T, U, x, N)
  PROVE  /\ \A d \in Nodes(T) : d # x => Size(U.node[d]) = Size(T.node[d])
         /\ Size(U.node[x]) = Cardinality(N) /\ Children(U, x) = <<>>
         /\ \A d \in Nodes(T) : d # x /\ Sized(T, d) => Sized(U, d)
<1>1. /\ U.root = T.root /\ Nodes(U) = Nodes(T)
      /\ \A d \in Nodes(T) : /\ U.node[d].values = IF d = x THEN N ELSE T.node[d].values
                             /\ Len(Children(U, d)) = Len(Children(T, d))
  BY DEF Refilled
<1>2. \A d \in Nodes(T) : /\ U.node[d].children = Children(U, d)
                          /\ T.node[d].children = Children(T, d)
                          /\ Children(U, d) \in Seq(Child) /\ Children(T, d) \in Seq(Child)
  BY <1>1, NodeParts DEF Children
<1>3. \A d \in Nodes(T) : d # x => Size(U.node[d]) = Size(T.node[d])
  BY <1>1, <1>2 DEF Size
<1>4. Size(U.node[x]) = Cardinality(N) /\ Children(U, x) = <<>>
  <2>1. Children(T, x) = <<>>
    BY LeafParts
  <2>2. Len(Children(U, x)) = 0
    BY <1>1, <2>1
  <2>3. Cardinality(N) \in Nat
    BY FS_CardinalityType
  <2> QED BY <1>1, <1>2, <2>2, <2>3 DEF Size
<1>5. ASSUME NEW d \in Nodes(T), d # x, Sized(T, d) PROVE Sized(U, d)
  <2>1. Children(U, d) # <<>> => Children(T, d) # <<>>
    BY <1>1, <1>2
  <2> QED BY <1>1, <1>3, <1>5, <2>1 DEF Sized
<1> QED BY <1>3, <1>4, <1>5

\* Every inner node has two children.
LEMMA TwoChildren ==
  ASSUME NEW T, NEW B, NEW H, Built(T, B, H), AllSized(T)
  PROVE  \A d \in Nodes(T) : H[d] # 0 => Len(Children(T, d)) >= 2
BY LeafParts DEF AllSized, Sized

\* A key goes to the leaf where it has its place.
LEMMA PlaceFit ==
  ASSUME NEW T, NEW B, NEW H, Built(T, B, H), NEW x \in Nodes(T), NEW key \in Nat,
         Place(T, B, x, key)
  PROVE  Fit(T, B, x, B[x] \cup {key})
<1> SUFFICES ASSUME NEW v \in B[T.root] \ B[x], NEW w \in B[x], NEW k \in B[x] \cup {key}
             PROVE  (v < w => v < k) /\ (w < v => k < v)
  BY DEF Fit
<1>1. v \in Nat /\ w \in Nat /\ k \in Nat
  BY NodeParts, RootParts
<1>2. CASE k = key
  BY <1>1, <1>2 DEF Place
<1>3. CASE k \in B[x]
  <2>1. v < w <=> v < k
    BY <1>3, Convex
  <2> QED BY <1>1, <1>3, <2>1
<1> QED BY <1>2, <1>3

\* Adding a key to a tree that is as it should be adds that key and leaves the tree so.
LEMMA AddedInto ==
  ASSUME NEW T, NEW B, NEW H, Built(T, B, H), Told(T, B), AllSized(T), NEW key \in Keys,
         NEW U, U = Added(T, key)
  PROVE  \E C, G :
           Built(U, C, G) /\ Told(U, C) /\ C[U.root] = B[T.root] \cup {key} /\ AllSized(U)
<1> DEFINE x == treeSearch(T, key)
           N == B[x] \cup {key}
           V == Rewrite(T, x, [T.node[x] EXCEPT !.values = N])
           C == Refill(T, B, x, N)
<1>1. key \in Nat
  BY BranchAssumption
<1>2. /\ x \in Nodes(T) /\ H[x] = 0 /\ Place(T, B, x, key)
      /\ T.node[x].values = B[x] /\ T.root \in Nodes(T) /\ T.root # 0
      /\ B[x] \in SUBSET Keys /\ IsFiniteSet(B[x]) /\ B[x] \subseteq B[T.root]
  <2>1. \A d \in Nodes(T) : H[d] # 0 => Len(Children(T, d)) >= 2
    BY TwoChildren
  <2>2. x = treeSearch(T, key)
    OBVIOUS
  <2> HIDE DEF x
  <2>3. x \in Nodes(T) /\ H[x] = 0 /\ Place(T, B, x, key)
    BY <1>1, <2>1, <2>2, SearchFinds
  <2>4. T.node[x].values = B[x] /\ B[x] \subseteq B[T.root]
    BY <2>3, LeafParts, RootAll
  <2>5. T.root \in Nodes(T) /\ T.root # 0
    BY RootParts, NodeParts
  <2> QED BY <2>3, <2>4, <2>5 DEF Built
<1>3. CASE key \in T.node[x].values
  <2>1. U = T
    BY <1>2, <1>3 DEF Added
  <2>2. B[T.root] \cup {key} = B[T.root]
    BY <1>2, <1>3
  <2> QED BY <2>1, <2>2
<1>4. CASE key \notin T.node[x].values
  <2>1. U = splitIfNeeded(V, x)
    BY <1>2, <1>4 DEF Added, addValuesToLeaf
  <2>2. V = Rewrite(T, x, [T.node[x] EXCEPT !.values = N]) /\ C = Refill(T, B, x, N)
    OBVIOUS
  <2>3. Fit(T, B, x, N)
    BY <1>1, <1>2, PlaceFit
  <2>4. /\ N \in SUBSET Keys /\ N # {} /\ IsFiniteSet(N) /\ key \notin B[x]
        /\ Cardinality(N) = Cardinality(B[x]) + 1
    BY <1>2, <1>4, FS_AddElement
  <2>5. C[T.root] = B[T.root] \cup {key}
    <3>1. C[T.root] = (B[T.root] \ B[x]) \cup N
      BY <1>2 DEF Refill
    <3> QED BY <1>2, <3>1
  <2> HIDE DEF V, C, N, x
  <2>6. Built(V, C, H) /\ Told(V, C) /\ C[x] = N /\ Refilled(T, V, x, N)
    BY <1>2, <2>2, <2>3, <2>4, RefillTold
  <2>7. /\ Size(V.node[x]) = Cardinality(N) /\ Children(V, x) = <<>>
        /\ \A d \in Nodes(T) : d # x /\ Sized(T, d) => Sized(V, d)
    BY <1>2, <2>4, <2>6, RefillSizes
  <2>8. V.root = T.root /\ Nodes(V) = Nodes(T)
    BY <2>6 DEF Refilled
  <2>9. SizedBut(V, x)
    BY <2>7, <2>8 DEF SizedBut, AllSized
  <2>10. /\ Cardinality(B[x]) \in Nat /\ Cardinality(B[x]) <= maxChildren
         /\ x # T.root => minChildren <= Cardinality(B[x])
         /\ minChildren \in Nat /\ maxChildren \in Nat /\ maxChildren + 1 = maxBranch
    <3>1. Sized(T, x) /\ Size(T.node[x]) = Cardinality(B[x]) /\ Cardinality(B[x]) \in Nat
      BY <1>2, SizeIs, FS_CardinalityType DEF AllSized
    <3> QED BY <3>1, HalfIs DEF Sized
  <2>11. AllSized(V) \/ (SizedBut(V, x) /\ Size(V.node[x]) = maxBranch)
    <3>1. CASE Cardinality(N) <= maxChildren
      <4>1. x # T.root => minChildren <= Cardinality(N)
        BY <2>4, <2>10
      <4>2. Sized(V, x)
        BY <2>7, <2>8, <3>1, <4>1 DEF Sized
      <4> QED BY <2>9, <4>2 DEF SizedBut, AllSized
    <3>2. CASE ~(Cardinality(N) <= maxChildren)
      <4>1. Cardinality(N) = maxBranch
        BY <2>4, <2>10, <3>2
      <4> QED BY <2>7, <2>9, <4>1
    <3> QED BY <3>1, <3>2
  <2>12. x \in Nodes(V)
    BY <1>2, <2>8
  <2>13. PICK D, G : Built(U, D, G) /\ Told(U, D) /\ D[U.root] = C[V.root] /\ AllSized(U)
    BY ONLY <2>1, <2>6, <2>11, <2>12, SplitAll
  <2> QED BY <2>5, <2>8, <2>13
<1> QED BY <1>3, <1>4

\* The first value makes the tree a leaf.
LEMMA AddedFirst ==
  ASSUME NEW T, NEW key \in Keys, T = Empty, NEW U, U = Added(T, key)
  PROVE  \E C, G :
           Built(U, C, G) /\ Told(U, C) /\ C[U.root] = {key} /\ AllSized(U)
<1> DEFINE n == Leaf(0, {key})
<1>1. T.root = 0 /\ T.node = <<>> /\ DOMAIN T.node = {}
  BY DEF Empty
<1>2. key \in Nat
  BY BranchAssumption
<1>3. n \in Node /\ n.parent = 0 /\ n.values = {key} /\ n.children = <<>>
  BY DEF Leaf, Node
<1> DEFINE y == allocateNodeId(T)
<1>4. U = [writeNode(T, y, n) EXCEPT !.root = y]
  BY <1>1 DEF Added
<1>5. y \in Nat \ {0}
  <2>1. IsFiniteSet(DOMAIN T.node) /\ y = allocateNodeId(T)
    BY <1>1, FS_EmptySet
  <2> HIDE DEF y
  <2> QED BY <2>1, FreshId
<1> HIDE DEF y, n
<1> DEFINE f == [d \in {y} |-> n]
<1>6. U.root = y /\ U.node = f /\ U = [root |-> U.root, node |-> U.node, thrown |-> FALSE]
  <2> DEFINE g == [d \in DOMAIN T.node \cup {y} |-> IF d = y THEN n ELSE T.node[d]]
             W == writeNode(T, y, n)
  <2>1. g = f
    BY <1>1
  <2>2. W = [T EXCEPT !.node = g]
    BY DEF writeNode
  <2>3. PICK t : t = FALSE
    OBVIOUS
  <2>4. PICK e : e = <<>>
    OBVIOUS
  <2>5. T = [root |-> 0, node |-> e, thrown |-> FALSE]
    BY <2>4 DEF Empty
  <2> HIDE DEF g, f
  <2>6. [[root |-> 0, node |-> e, thrown |-> FALSE] EXCEPT !.node = g]
          = [root |-> 0, node |-> g, thrown |-> FALSE]
    BY NodeExcept
  <2>7. W = [root |-> 0, node |-> f, thrown |-> t]
    BY <2>1, <2>2, <2>3, <2>5, <2>6
  <2>8. [[root |-> 0, node |-> f, thrown |-> t] EXCEPT !.root = y]
          = [root |-> y, node |-> f, thrown |-> t]
    BY RootExcept
  <2>9. U = [root |-> y, node |-> f, thrown |-> t]
    BY <1>4, <2>7, <2>8
  <2>10. U.root = y /\ U.node = f
    BY <2>9
  <2>11. U = [root |-> U.root, node |-> U.node, thrown |-> t]
    BY <2>9, <2>10
  <2> QED BY <2>3, <2>10, <2>11
<1>7. Nodes(U) = {y} /\ U.node[y] = n /\ DOMAIN f = {y}
  BY <1>6 DEF Nodes
<1>8. WellTyped(U)
  <2>1. IsFiniteSet({y})
    BY FS_Singleton
  <2>2. U.node = [d \in Nodes(U) |-> U.node[d]]
    BY <1>6, <1>7
  <2> QED BY <1>3, <1>5, <1>6, <1>7, <2>1, <2>2 DEF WellTyped
<1> DEFINE C == [d \in {y} |-> {key}]
           G == [d \in {y} |-> 0]
<1>9. /\ Children(U, y) = <<>> /\ Parent(U, y) = 0 /\ U.node[y].values = {key}
      /\ DOMAIN Children(U, y) = {}
  BY <1>3, <1>7 DEF Children, Parent
<1>10. Built(U, C, G)
  <2>1. C \in [Nodes(U) -> SUBSET Keys] /\ G \in [Nodes(U) -> Nat] /\ C[y] = {key} /\ G[y] = 0
    BY <1>7
  <2>5. IsFiniteSet({key}) /\ U.root = y
    BY <1>6, FS_Singleton
  <2> HIDE DEF C, G
  <2>2. C[y] # {} /\ IsFiniteSet(C[y]) /\ G[y] <= G[U.root]
    BY <2>1, <2>5
  <2>3. IsLeafOf(U, C, y)
    BY <1>9, <2>1 DEF IsLeafOf
  <2>4. Nodes(U) \ {U.root} = {}
    BY <1>6, <1>7
  <2> QED BY <1>6, <1>7, <1>8, <1>9, <2>1, <2>2, <2>3, <2>4 DEF Built
<1>11. Told(U, C)
  BY <1>7, <1>9 DEF Told
<1>12. C[U.root] = {key}
  BY <1>6
<1>13. AllSized(U)
  <2>1. Size(U.node[y]) = 1
    <3>1. Cardinality({key}) = 1
      BY FS_Singleton
    <3>2. Len(n.children) = 0
      BY <1>3
    <3>3. Cardinality(n.values) = 1
      BY <1>3, <3>1, Zenon
    <3>4. Size(n) = 1
      BY <3>2, <3>3 DEF Size
    <3> QED BY <1>7, <3>4
  <2>2. 1 <= maxChildren
    BY HalfIs
  <2> QED BY <1>6, <1>7, <1>9, <2>1, <2>2 DEF AllSized, Sized
<1> QED BY <1>10, <1>11, <1>12, <1>13
===============================================================================
