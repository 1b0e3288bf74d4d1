---------------------------- MODULE Cluster_proofs ----------------------------
(*****************************************************************************)
(* Proofs about ShardRegion and RemoteTransport: how the processes of the    *)
(* server share the shards of a region, and how they stream results to each  *)
(* other.                                                                    *)
(*****************************************************************************)
EXTENDS ShardRegion, RemoteTransport, FiniteSetTheorems, SequenceTheorems,
        WellFoundedInduction, TLAPS

-------------------------------------------------------------------------------
(* ShardRegion, for any number of nodes, shards and processes and any        *)
(* timeouts.  What every transaction relies on (Ready) and what              *)
(* scheduleShards makes of it (Directory) are stated without a cardinality:  *)
(* at most one of something is "any two of them are equal".                  *)

AtMostOne(S) == \A x, y \in S : x = y

Serving(N, A, s) == {n \in Allocable(N) : A[s][n] \in {"active", "allocating"}}

Typed(N, A) ==
    /\ N \in [Nodes -> NodeStates]
    /\ A \in [Shards -> [Nodes -> ShardStates]]

\* Before scheduleShards, whatever the transaction did first.
Ready(N, A) ==
    /\ Typed(N, A)
    /\ \A s \in Shards :
          /\ AtMostOne(Serving(N, A, s))
          /\ AtMostOne({n \in Active(A, s) : N[n] = "leaving"})
          /\ \A n \in Nodes : A[s][n] = "removing" => N[n] # "joined"

\* And after it.
Directory(N, A) ==
    /\ Typed(N, A)
    /\ \A s \in Shards :
          /\ AtMostOne(Active(A, s))
          /\ AtMostOne(Serving(N, A, s))
          /\ Allocable(N) # {} => Serving(N, A, s) # {}
          /\ \A n \in Nodes :
                /\ N[n] \in {"none", "left"} => A[s][n] = "none"
                /\ A[s][n] = "allocating" => N[n] = "joined"
                /\ A[s][n] = "removing" => N[n] = "leaving"

----------------------------------------------------------------------------
(* Cardinalities *)

LEMMA FiniteNodes ==
    ASSUME NEW S \in SUBSET Nodes
    PROVE  IsFiniteSet(S) /\ Cardinality(S) \in Nat
  BY RegionAssumption, FS_Subset, FS_CardinalityType

LEMMA OneAtMost ==
    ASSUME NEW S \in SUBSET Nodes
    PROVE  Cardinality(S) <= 1 <=> AtMostOne(S)
  <1>0. IsFiniteSet(S) /\ Cardinality(S) \in Nat
    BY FiniteNodes
  <1>1. ASSUME Cardinality(S) <= 1 PROVE AtMostOne(S)
    <2>1. CASE Cardinality(S) = 0
      BY <1>0, <2>1, FS_EmptySet DEF AtMostOne
    <2>2. CASE Cardinality(S) = 1
      <3>1. PICK x : S = {x}
        BY <1>0, <2>2, FS_Singleton
      <3>. QED
        BY <3>1 DEF AtMostOne
    <2>. QED
      BY <1>0, <1>1, <2>1, <2>2
  <1>2. ASSUME AtMostOne(S) PROVE Cardinality(S) <= 1
    <2>1. CASE S = {}
      BY <2>1, FS_EmptySet
    <2>2. CASE S # {}
      <3>1. PICK x \in S : TRUE
        BY <2>2
      <3>2. S = {x}
        BY <1>2, <3>1 DEF AtMostOne
      <3>3. Cardinality(S) = 1
        BY <3>2, FS_Singleton
      <3>. QED
        BY <3>3
    <2>. QED
      BY <2>1, <2>2
  <1>. QED
    BY <1>1, <1>2

LEMMA ExactlyOne ==
    ASSUME NEW S \in SUBSET Nodes
    PROVE  Cardinality(S) = 1 <=> AtMostOne(S) /\ S # {}
  <1>0. IsFiniteSet(S) /\ Cardinality(S) \in Nat
    BY FiniteNodes
  <1>1. Cardinality(S) = 0 <=> S = {}
    BY <1>0, FS_EmptySet
  <1>2. Cardinality(S) <= 1 <=> AtMostOne(S)
    BY OneAtMost
  <1>. QED
    BY <1>0, <1>1, <1>2

----------------------------------------------------------------------------
(* scheduleShards, one phase after the other *)

\* The allocations after "Clean removed shards".
LEMMA AfterCleaning ==
    ASSUME NEW N, NEW A, Ready(N, A), NEW s \in Shards
    PROVE  LET C == Cleaned(N, A)
           IN  /\ C \in [Shards -> [Nodes -> ShardStates]]
               /\ \A n \in Nodes :
                     /\ C[s][n] \in {"none", A[s][n]}
                     /\ N[n] \in {"none", "left"} => C[s][n] = "none"
                     /\ C[s][n] = "allocating" => N[n] = "joined"
                     /\ N[n] = "joined" => C[s][n] = A[s][n]
                     /\ N[n] = "leaving" /\ A[s][n] = "active" => C[s][n] = "active"
  BY DEF Ready, Typed, Cleaned, NodeStates, ShardStates

\* At most one joined and one leaving node serve the shard, and then the
\* leaving one is to stop: the branch that removes all of them is not reached.
LEMMA Duplicates ==
    ASSUME NEW N, NEW A, Ready(N, A), NEW s \in Shards
    PROVE  LET C == Cleaned(N, A)
               W == Withdrawn(N, C, s)
           IN  /\ W \subseteq Active(C, s) \ Allocable(N)
               /\ AtMostOne(Active(C, s) \ W)
               /\ Active(C, s) # {} => Active(C, s) \ W # {}
  <1>. DEFINE C == Cleaned(N, A)
              J == Active(C, s) \cap Allocable(N)
              L == Active(C, s) \ Allocable(N)
  <1>1. Active(C, s) \in SUBSET Nodes /\ J \in SUBSET Nodes /\ L \in SUBSET Nodes
    BY DEF Active
  <1>2. AtMostOne(J)
    <2>1. J \subseteq Serving(N, A, s)
      BY AfterCleaning DEF Active, Allocable, Serving
    <2>. QED
      BY <2>1 DEF Ready, AtMostOne
  <1>3. AtMostOne(L)
    <2>1. L \subseteq {n \in Active(A, s) : N[n] = "leaving"}
      <3>1. ASSUME NEW n \in L PROVE n \in Nodes /\ C[s][n] = "active" /\ N[n] # "joined"
        BY <3>1 DEF Active, Allocable
      <3>2. ASSUME NEW n \in L PROVE A[s][n] = "active" /\ N[n] = "leaving"
        <4>1. n \in Nodes /\ C[s][n] = "active" /\ N[n] # "joined"
          BY <3>1
        <4>2. N[n] \in NodeStates
          BY <4>1 DEF Ready, Typed
        <4>. QED
          BY <4>1, <4>2, AfterCleaning DEF NodeStates
      <3>. QED
        BY <3>1, <3>2 DEF Active
    <2>. QED
      BY <2>1 DEF Ready, AtMostOne
  <1>4. Active(C, s) = J \cup L
    OBVIOUS
  <1>. HIDE DEF C
  <1>5. CASE Cardinality(Active(C, s)) <= 1
    <2>1. Withdrawn(N, C, s) = {}
      <3>1. Cardinality(Active(C, s)) \in Nat
        BY <1>1, FiniteNodes
      <3>. QED
        BY <1>5, <3>1 DEF Withdrawn
    <2>2. AtMostOne(Active(C, s))
      BY <1>1, <1>5, OneAtMost
    <2>. QED
      BY <2>1, <2>2 DEF C
  <1>6. CASE ~(Cardinality(Active(C, s)) <= 1)
    <2>1. Cardinality(Active(C, s)) > 1
      <3>1. Cardinality(Active(C, s)) \in Nat
        BY <1>1, FiniteNodes
      <3>. QED
        BY <1>6, <3>1
    <2>2. ~AtMostOne(J \cup L)
      BY <1>1, <1>4, <1>6, OneAtMost
    <2>3. J # {}
      BY <1>3, <2>2 DEF AtMostOne
    <2>4. Cardinality(J) = 1
      BY <1>1, <1>2, <2>3, ExactlyOne
    <2>5. Withdrawn(N, C, s) = L
      BY <1>6, <2>1, <2>4 DEF Withdrawn
    <2>6. Active(C, s) \ L = J
      OBVIOUS
    <2>. QED
      BY <1>2, <2>3, <2>5, <2>6 DEF C
  <1>. QED
    BY <1>5, <1>6

\* The allocations after "Remove multiple active shards".
LEMMA AfterDeduplication ==
    ASSUME NEW N, NEW A, Ready(N, A), NEW s \in Shards
    PROVE  LET B == Deduplicated(N, Cleaned(N, A))
           IN  /\ B \in [Shards -> [Nodes -> ShardStates]]
               /\ AtMostOne(Active(B, s))
               /\ AtMostOne(Serving(N, B, s))
               /\ \A n \in Nodes :
                     /\ N[n] \in {"none", "left"} => B[s][n] = "none"
                     /\ B[s][n] = "allocating" => N[n] = "joined"
                     /\ B[s][n] = "removing" => N[n] = "leaving"
               /\ \A n \in Nodes :
                     A[s][n] = "active" /\ N[n] \in {"joined", "leaving"} => Active(B, s) # {}
  <1>. DEFINE C == Cleaned(N, A)
              B == Deduplicated(N, C)
              W == Withdrawn(N, C, s)
  <1>1. W \subseteq Active(C, s) \ Allocable(N) /\ AtMostOne(Active(C, s) \ W)
        /\ (Active(C, s) # {} => Active(C, s) \ W # {})
    BY Duplicates
  <1>2. C \in [Shards -> [Nodes -> ShardStates]]
    BY AfterCleaning
  <1>3. B \in [Shards -> [Nodes -> ShardStates]]
    BY <1>2 DEF Deduplicated, ShardStates
  <1>4. \A n \in Nodes : B[s][n] = IF n \in W THEN "removing" ELSE C[s][n]
    BY DEF Deduplicated
  <1>5. \A n \in Nodes : /\ C[s][n] \in {"none", A[s][n]}
                         /\ N[n] \in {"none", "left"} => C[s][n] = "none"
                         /\ C[s][n] = "allocating" => N[n] = "joined"
                         /\ N[n] = "joined" => C[s][n] = A[s][n]
                         /\ N[n] = "leaving" /\ A[s][n] = "active" => C[s][n] = "active"
    BY AfterCleaning
  <1>. HIDE DEF C, B, W
  <1>6. Active(B, s) = Active(C, s) \ W
    BY <1>4 DEF Active
  <1>7. \A n \in W : n \in Nodes /\ C[s][n] = "active" /\ N[n] # "joined"
    BY <1>1 DEF Active, Allocable
  <1>8. AtMostOne(Serving(N, B, s))
    <2>1. Serving(N, B, s) \subseteq Serving(N, A, s)
      BY <1>4, <1>5 DEF Serving, Allocable
    <2>. QED
      BY <2>1 DEF Ready, AtMostOne
  <1>9. ASSUME NEW n \in Nodes
        PROVE  /\ N[n] \in {"none", "left"} => B[s][n] = "none"
               /\ B[s][n] = "allocating" => N[n] = "joined"
               /\ B[s][n] = "removing" => N[n] = "leaving"
    <2>1. N[n] \in NodeStates
      BY DEF Ready, Typed
    <2>2. A[s][n] = "removing" => N[n] # "joined"
      BY DEF Ready
    <2>. QED
      BY <1>4, <1>5, <1>7, <2>1, <2>2 DEF NodeStates
  <1>10. ASSUME NEW n \in Nodes, A[s][n] = "active", N[n] \in {"joined", "leaving"}
         PROVE  Active(B, s) # {}
    <2>1. C[s][n] = "active"
      BY <1>5, <1>10
    <2>2. n \in Active(C, s)
      BY <2>1 DEF Active
    <2>. QED
      BY <1>1, <1>6, <2>2
  <1>11. AtMostOne(Active(B, s))
    BY <1>1, <1>6
  <1>. QED
    BY <1>3, <1>8, <1>9, <1>10, <1>11 DEF B, C

\* "Allocate nodes" gives every missing shard one joined node, and nothing else
\* changes.
LEMMA AfterPlacement ==
    ASSUME NEW N, NEW A, Ready(N, A),
           NEW B, B = Deduplicated(N, Cleaned(N, A)),
           NEW f \in Placements(N, B), NEW s \in Shards
    PROVE  LET P == Placed(B, f)
           IN  /\ P \in [Shards -> [Nodes -> ShardStates]]
               /\ Active(P, s) = Active(B, s)
               /\ AtMostOne(Serving(N, P, s))
               /\ Allocable(N) # {} => Serving(N, P, s) # {}
               /\ \A n \in Nodes :
                     /\ N[n] # "joined" => P[s][n] = B[s][n]
                     /\ P[s][n] \in {"allocating", B[s][n]}
                     /\ P[s][n] = "removing" => B[s][n] = "removing"
  <1>. DEFINE P == Placed(B, f)
  <1>1. f \in [Missing(N, B) -> Allocable(N)]
    BY DEF Placements
  <1>2. B \in [Shards -> [Nodes -> ShardStates]] /\ AtMostOne(Serving(N, B, s))
    BY AfterDeduplication
  <1>3. \A n \in Nodes : P[s][n] = IF s \in DOMAIN f /\ f[s] = n THEN "allocating" ELSE B[s][n]
    BY DEF Placed
  <1>4. P \in [Shards -> [Nodes -> ShardStates]]
    BY <1>2 DEF Placed, ShardStates
  <1>. HIDE DEF P
  <1>5. CASE s \in Missing(N, B)
    <2>1. f[s] \in Nodes /\ N[f[s]] = "joined" /\ s \in DOMAIN f
      BY <1>1, <1>5 DEF Allocable
    <2>2. \A n \in Nodes : N[n] = "joined" => B[s][n] \notin {"active", "allocating"}
      BY <1>5 DEF Missing, Allocable
    <2>3. Active(P, s) = Active(B, s)
      BY <1>3, <2>1, <2>2 DEF Active
    <2>4. Serving(N, P, s) = {f[s]}
      BY <1>3, <2>1, <2>2 DEF Serving, Allocable
    <2>5. AtMostOne(Serving(N, P, s)) /\ Serving(N, P, s) # {}
      BY <2>4 DEF AtMostOne
    <2>. QED
      BY <1>3, <1>4, <2>1, <2>3, <2>5 DEF P
  <1>6. CASE s \notin Missing(N, B)
    <2>1. s \notin DOMAIN f
      BY <1>1, <1>6
    <2>2. \A n \in Nodes : P[s][n] = B[s][n]
      BY <1>3, <2>1
    <2>3. Active(P, s) = Active(B, s) /\ Serving(N, P, s) = Serving(N, B, s)
      BY <2>2 DEF Active, Serving, Allocable
    <2>4. Allocable(N) # {} => Serving(N, B, s) # {}
      BY <1>6 DEF Missing, Serving
    <2>. QED
      BY <1>2, <1>4, <2>2, <2>3, <2>4 DEF P
  <1>. QED
    BY <1>5, <1>6

\* scheduleShards makes a directory of what the transactions hand it, and takes
\* no shard from where it runs without a replacement.
LEMMA Scheduled ==
    ASSUME NEW N, NEW A, Ready(N, A),
           NEW f \in Placements(N, Deduplicated(N, Cleaned(N, A)))
    PROVE  LET P == Placed(Deduplicated(N, Cleaned(N, A)), f)
           IN  /\ Directory(N, P)
               /\ \A s \in Shards, n \in Nodes :
                     A[s][n] = "active" /\ N[n] \in {"joined", "leaving"} => Active(P, s) # {}
  <1>. DEFINE B == Deduplicated(N, Cleaned(N, A))
              P == Placed(B, f)
  <1>0. f \in Placements(N, B)
    OBVIOUS
  <1>1. P \in [Shards -> [Nodes -> ShardStates]]
    <2>1. CASE Shards = {}
      BY <2>1 DEF Placed
    <2>2. CASE Shards # {}
      BY <2>2, AfterPlacement
    <2>. QED
      BY <2>1, <2>2
  <1>2. ASSUME NEW s \in Shards
        PROVE  /\ AtMostOne(Active(P, s))
               /\ AtMostOne(Serving(N, P, s))
               /\ Allocable(N) # {} => Serving(N, P, s) # {}
               /\ \A n \in Nodes :
                     /\ N[n] \in {"none", "left"} => P[s][n] = "none"
                     /\ P[s][n] = "allocating" => N[n] = "joined"
                     /\ P[s][n] = "removing" => N[n] = "leaving"
                     /\ A[s][n] = "active" /\ N[n] \in {"joined", "leaving"} => Active(P, s) # {}
    <2>1. /\ AtMostOne(Active(B, s))
          /\ \A n \in Nodes :
                /\ N[n] \in {"none", "left"} => B[s][n] = "none"
                /\ B[s][n] = "allocating" => N[n] = "joined"
                /\ B[s][n] = "removing" => N[n] = "leaving"
          /\ \A n \in Nodes :
                A[s][n] = "active" /\ N[n] \in {"joined", "leaving"} => Active(B, s) # {}
      BY AfterDeduplication
    <2>2. /\ Active(P, s) = Active(B, s)
          /\ AtMostOne(Serving(N, P, s))
          /\ Allocable(N) # {} => Serving(N, P, s) # {}
          /\ \A n \in Nodes :
                /\ N[n] # "joined" => P[s][n] = B[s][n]
                /\ P[s][n] \in {"allocating", B[s][n]}
                /\ P[s][n] = "removing" => B[s][n] = "removing"
      BY AfterPlacement
    <2>. HIDE DEF P, B
    <2>. QED
      BY <2>1, <2>2
  <1>. QED
    BY <1>1, <1>2 DEF Directory, Ready, Typed

----------------------------------------------------------------------------
(* The directory is an invariant *)

RegionInv == RegionTypeOK /\ Directory(node, alloc)

LEMMA DirectoryMeans ==
    ASSUME RegionInv
    PROVE  OneServingNode /\ AllocationsFollowNodes
  <1>1. ASSUME NEW s \in Shards
        PROVE  /\ Cardinality(Active(alloc, s)) <= 1
               /\ Allocable(node) # {} => Cardinality(Serving(node, alloc, s)) = 1
    <2>1. Active(alloc, s) \in SUBSET Nodes /\ Serving(node, alloc, s) \in SUBSET Nodes
      BY DEF Active, Serving, Allocable
    <2>2. /\ AtMostOne(Active(alloc, s)) /\ AtMostOne(Serving(node, alloc, s))
          /\ Allocable(node) # {} => Serving(node, alloc, s) # {}
      BY DEF RegionInv, Directory
    <2>. QED
      BY <2>1, <2>2, OneAtMost, ExactlyOne
  <1>2. OneServingNode
    BY <1>1 DEF OneServingNode, Serving
  <1>3. AllocationsFollowNodes
    BY DEF RegionInv, Directory, AllocationsFollowNodes
  <1>. QED
    BY <1>2, <1>3

\* A transaction that changes node states and then reschedules: nodes join from
\* nowhere, where they have no allocations, and otherwise only go.
LEMMA NodesChange ==
    ASSUME RegionInv,
           NEW N \in [Nodes -> NodeStates],
           \A n \in Nodes : /\ N[n] = "joined" => node[n] \in {"joined", "none"}
                            /\ N[n] = "leaving" => node[n] \in {"joined", "leaving"}
    PROVE  Ready(N, alloc)
  <1>1. ASSUME NEW s \in Shards
        PROVE  /\ AtMostOne(Serving(N, alloc, s))
               /\ AtMostOne({n \in Active(alloc, s) : N[n] = "leaving"})
               /\ \A n \in Nodes : alloc[s][n] = "removing" => N[n] # "joined"
    <2>1. /\ AtMostOne(Active(alloc, s))
          /\ AtMostOne(Serving(node, alloc, s))
          /\ \A n \in Nodes : /\ node[n] = "none" => alloc[s][n] = "none"
                              /\ alloc[s][n] = "removing" => node[n] = "leaving"
      BY DEF RegionInv, Directory
    <2>2. Serving(N, alloc, s) \subseteq Serving(node, alloc, s)
      BY <2>1 DEF Serving, Allocable
    <2>. QED
      BY <2>1, <2>2 DEF AtMostOne
  <1>. QED
    BY <1>1 DEF Ready, Typed, RegionInv, Directory

\* The report that a shard is ready makes its node the second active one at most.
LEMMA ReadyChange ==
    ASSUME RegionInv, NEW m \in Nodes, NEW r \in Shards, alloc[r][m] = "allocating"
    PROVE  Ready(node, [alloc EXCEPT ![r][m] = "active"])
  <1>. DEFINE A == [alloc EXCEPT ![r][m] = "active"]
  <1>1. node \in [Nodes -> NodeStates] /\ alloc \in [Shards -> [Nodes -> ShardStates]]
    BY DEF RegionInv, RegionTypeOK
  <1>2. A \in [Shards -> [Nodes -> ShardStates]]
    BY <1>1 DEF ShardStates
  <1>3. \A s \in Shards, n \in Nodes : A[s][n] = IF s = r /\ n = m THEN "active" ELSE alloc[s][n]
    BY <1>1
  <1>. HIDE DEF A
  <1>4. node[m] = "joined"
    BY DEF RegionInv, Directory
  <1>5. ASSUME NEW s \in Shards
        PROVE  /\ AtMostOne(Serving(node, A, s))
               /\ AtMostOne({n \in Active(A, s) : node[n] = "leaving"})
               /\ \A n \in Nodes : A[s][n] = "removing" => node[n] # "joined"
    <2>1. /\ AtMostOne(Active(alloc, s))
          /\ AtMostOne(Serving(node, alloc, s))
          /\ \A n \in Nodes : alloc[s][n] = "removing" => node[n] = "leaving"
      BY DEF RegionInv, Directory
    <2>2. Serving(node, A, s) = Serving(node, alloc, s)
      BY <1>3 DEF Serving, Allocable
    <2>3. {n \in Active(A, s) : node[n] = "leaving"} \subseteq Active(alloc, s)
      BY <1>3, <1>4 DEF Active
    <2>4. \A n \in Nodes : A[s][n] = "removing" => node[n] # "joined"
      BY <1>3, <2>1
    <2>. QED
      BY <2>1, <2>2, <2>3, <2>4 DEF AtMostOne
  <1>6. Ready(node, A)
    BY <1>1, <1>2, <1>5 DEF Ready, Typed
  <1>. QED
    BY <1>6 DEF A

LEMMA RemovedChange ==
    ASSUME RegionInv, NEW m \in Nodes, NEW r \in Shards
    PROVE  Ready(node, [alloc EXCEPT ![r][m] = "none"])
  <1>. DEFINE A == [alloc EXCEPT ![r][m] = "none"]
  <1>1. node \in [Nodes -> NodeStates] /\ alloc \in [Shards -> [Nodes -> ShardStates]]
    BY DEF RegionInv, RegionTypeOK
  <1>2. A \in [Shards -> [Nodes -> ShardStates]]
    BY <1>1 DEF ShardStates
  <1>3. \A s \in Shards, n \in Nodes : A[s][n] = IF s = r /\ n = m THEN "none" ELSE alloc[s][n]
    BY <1>1
  <1>. HIDE DEF A
  <1>4. ASSUME NEW s \in Shards
        PROVE  /\ AtMostOne(Serving(node, A, s))
               /\ AtMostOne({n \in Active(A, s) : node[n] = "leaving"})
               /\ \A n \in Nodes : A[s][n] = "removing" => node[n] # "joined"
    <2>1. /\ AtMostOne(Active(alloc, s))
          /\ AtMostOne(Serving(node, alloc, s))
          /\ \A n \in Nodes : alloc[s][n] = "removing" => node[n] = "leaving"
      BY DEF RegionInv, Directory
    <2>2. Serving(node, A, s) \subseteq Serving(node, alloc, s) /\ Active(A, s) \subseteq Active(alloc, s)
      BY <1>3 DEF Serving, Allocable, Active
    <2>3. \A n \in Nodes : A[s][n] = "removing" => node[n] # "joined"
      BY <1>3, <2>1
    <2>. QED
      BY <2>1, <2>2, <2>3 DEF AtMostOne
  <1>5. Ready(node, A)
    BY <1>1, <1>2, <1>4 DEF Ready, Typed
  <1>. QED
    BY <1>5 DEF A

\* The states of an allocation that serves or is about to.
Served == {"allocating", "active"}

\* What one call of scheduleShards does to a single allocation: it activates none,
\* starts some on joined nodes and takes none from them.
LEMMA ScheduledMoves ==
    ASSUME NEW N, NEW A, Ready(N, A),
           NEW f \in Placements(N, Deduplicated(N, Cleaned(N, A))),
           NEW s \in Shards, NEW n \in Nodes
    PROVE  LET P == Placed(Deduplicated(N, Cleaned(N, A)), f)
           IN  /\ P[s][n] = "active" => A[s][n] = "active"
               /\ P[s][n] = "allocating" => N[n] = "joined" /\ A[s][n] # "active"
               /\ N[n] = "joined" /\ A[s][n] \in Served => P[s][n] = A[s][n]
  <1>. DEFINE C == Cleaned(N, A)
              B == Deduplicated(N, C)
              P == Placed(B, f)
              W == Withdrawn(N, C, s)
  <1>1. /\ C[s][n] \in {"none", A[s][n]}
        /\ C[s][n] = "allocating" => N[n] = "joined"
        /\ N[n] = "joined" => C[s][n] = A[s][n]
    BY AfterCleaning
  <1>0. W \subseteq Active(C, s) \ Allocable(N)
    BY Duplicates
  <1>2. n \in W => C[s][n] = "active" /\ N[n] # "joined"
    BY <1>0 DEF Active, Allocable
  <1>3. B[s][n] = IF n \in W THEN "removing" ELSE C[s][n]
    BY DEF Deduplicated
  <1>4. P[s][n] = IF s \in DOMAIN f /\ f[s] = n THEN "allocating" ELSE B[s][n]
    BY DEF Placed
  <1>5. s \in DOMAIN f /\ f[s] = n => N[n] = "joined" /\ B[s][n] \notin Served
    BY DEF Placements, Missing, Allocable, Served
  <1>. HIDE DEF C, B, P, W
  <1>6. /\ P[s][n] = "active" => A[s][n] = "active"
        /\ P[s][n] = "allocating" => N[n] = "joined" /\ A[s][n] # "active"
        /\ N[n] = "joined" /\ A[s][n] \in Served => P[s][n] = A[s][n]
    BY <1>1, <1>2, <1>3, <1>4, <1>5 DEF Served
  <1>. QED
    BY <1>6 DEF P, B, C

\* A step of the directory that reports no shard ready, seen by one allocation.
Moves(n, s) ==
    /\ alloc'[s][n] = "active" => alloc[s][n] = "active"
    /\ alloc'[s][n] = "allocating" => node'[n] = "joined" /\ alloc[s][n] # "active"
    /\ node'[n] = "joined" /\ alloc[s][n] \in Served => alloc'[s][n] = alloc[s][n]

AllMove ==
    /\ \A n \in Nodes : node'[n] = "joined" => node[n] \in {"joined", "none"}
    /\ \A n \in Nodes, s \in Shards : Moves(n, s)

LEMMA ScheduleMoves ==
    ASSUME NEW A, Ready(node', A), ScheduleShards(node', A), NEW n \in Nodes, NEW s \in Shards,
           A[s][n] = alloc[s][n] \/ (alloc[s][n] = "removing" /\ A[s][n] = "none")
    PROVE  Moves(n, s)
  <1>. DEFINE B == Deduplicated(node', Cleaned(node', A))
  <1>1. PICK f \in Placements(node', B) : alloc' = Placed(B, f)
    BY DEF ScheduleShards
  <1>2. /\ alloc'[s][n] = "active" => A[s][n] = "active"
        /\ alloc'[s][n] = "allocating" => node'[n] = "joined" /\ A[s][n] # "active"
        /\ node'[n] = "joined" /\ A[s][n] \in Served => alloc'[s][n] = A[s][n]
    BY <1>1, ScheduledMoves
  <1>. QED
    BY <1>2 DEF Moves, Served

\* Every transaction ends in scheduleShards of some allocations A that keep what
\* is active.
LEMMA ScheduleStep ==
    ASSUME RegionInv, node' \in [Nodes -> NodeStates], timeout' \in [Nodes -> Nat],
           NEW A, Ready(node', A),
           \A s \in Shards, n \in Nodes : alloc[s][n] = "active" => A[s][n] = "active",
           ScheduleShards(node', A)
    PROVE  RegionInv' /\ Handover
  <1>. DEFINE B == Deduplicated(node', Cleaned(node', A))
  <1>1. PICK f \in Placements(node', B) : alloc' = Placed(B, f)
    BY DEF ScheduleShards
  <1>2. /\ Directory(node', alloc')
        /\ \A s \in Shards, n \in Nodes :
              A[s][n] = "active" /\ node'[n] \in {"joined", "leaving"} => Active(alloc', s) # {}
    BY <1>1, Scheduled
  <1>3. RegionTypeOK'
    BY <1>2 DEF Directory, Typed, RegionTypeOK
  <1>4. Handover
    BY <1>2 DEF Handover
  <1>. QED
    BY <1>2, <1>3, <1>4 DEF RegionInv

LEMMA NodesStep ==
    ASSUME RegionInv, node' \in [Nodes -> NodeStates], timeout' \in [Nodes -> Nat],
           \A n \in Nodes : /\ node'[n] = "joined" => node[n] \in {"joined", "none"}
                            /\ node'[n] = "leaving" => node[n] \in {"joined", "leaving"},
           ScheduleShards(node', alloc)
    PROVE  RegionInv' /\ Handover /\ AllMove
  <1>1. Ready(node', alloc)
    BY NodesChange
  <1>2. \A n \in Nodes, s \in Shards : Moves(n, s)
    BY <1>1, ScheduleMoves
  <1>. QED
    BY <1>1, <1>2, ScheduleStep DEF AllMove

\* Nothing of the directory changes.
LEMMA QuietStep ==
    ASSUME RegionInv, UNCHANGED regionVars
    PROVE  RegionInv' /\ Handover /\ AllMove
  <1>1. RegionInv'
    BY DEF RegionInv, RegionTypeOK, Directory, Typed, AtMostOne, Active, Serving, Allocable, regionVars
  <1>2. Handover
    BY DEF Handover, Active, regionVars
  <1>3. AllMove
    BY DEF AllMove, Moves, RegionInv, Directory, regionVars
  <1>. QED
    BY <1>1, <1>2, <1>3

LEMMA RegisterNodeStep ==
    ASSUME RegionInv, NEW n \in Nodes, NEW until \in Nat,
           RegisterNode(n, until) \/ RegisterNodeLeaving(n, until) \/ RegisterNodeLeft(n, until)
    PROVE  RegionInv' /\ Handover /\ AllMove
  <1>1. node \in [Nodes -> NodeStates] /\ timeout \in [Nodes -> Nat]
    BY DEF RegionInv, RegionTypeOK
  <1>2. CASE RegisterNode(n, until)
    <2>1. node' = [node EXCEPT ![n] = IF @ = "none" THEN "joined" ELSE @]
      BY <1>2 DEF RegisterNode
    <2>2. node' \in [Nodes -> NodeStates] /\ timeout' \in [Nodes -> Nat]
      BY <1>1, <1>2, <2>1 DEF RegisterNode, NodeStates
    <2>3. \A m \in Nodes : /\ node'[m] = "joined" => node[m] \in {"joined", "none"}
                           /\ node'[m] = "leaving" => node[m] \in {"joined", "leaving"}
      BY <1>1, <2>1
    <2>4. ScheduleShards(node', alloc)
      BY <1>2 DEF RegisterNode
    <2>. QED
      BY <2>2, <2>3, <2>4, NodesStep
  <1>3. CASE RegisterNodeLeaving(n, until)
    <2>1. node' = [node EXCEPT ![n] = IF @ = "joined" THEN "leaving" ELSE @]
      BY <1>3 DEF RegisterNodeLeaving
    <2>2. node' \in [Nodes -> NodeStates] /\ timeout' \in [Nodes -> Nat]
      BY <1>1, <1>3, <2>1 DEF RegisterNodeLeaving, NodeStates
    <2>3. \A m \in Nodes : /\ node'[m] = "joined" => node[m] \in {"joined", "none"}
                           /\ node'[m] = "leaving" => node[m] \in {"joined", "leaving"}
      BY <1>1, <2>1
    <2>4. ScheduleShards(node', alloc)
      BY <1>3 DEF RegisterNodeLeaving
    <2>. QED
      BY <2>2, <2>3, <2>4, NodesStep
  <1>4. CASE RegisterNodeLeft(n, until)
    <2>1. node' = [node EXCEPT ![n] = IF @ = "none" THEN "none" ELSE "left"]
      BY <1>4 DEF RegisterNodeLeft
    <2>2. node' \in [Nodes -> NodeStates] /\ timeout' \in [Nodes -> Nat]
      BY <1>1, <1>4, <2>1 DEF RegisterNodeLeft, NodeStates
    <2>3. \A m \in Nodes : /\ node'[m] = "joined" => node[m] \in {"joined", "none"}
                           /\ node'[m] = "leaving" => node[m] \in {"joined", "leaving"}
      BY <1>1, <2>1
    <2>4. ScheduleShards(node', alloc)
      BY <1>4 DEF RegisterNodeLeft
    <2>. QED
      BY <2>2, <2>3, <2>4, NodesStep
  <1>. QED
    BY <1>2, <1>3, <1>4

LEMMA HandleSchedulingStep ==
    ASSUME RegionInv, NEW t \in Nat, HandleScheduling(t)
    PROVE  RegionInv' /\ Handover /\ AllMove
  <1>1. node \in [Nodes -> NodeStates] /\ timeout \in [Nodes -> Nat]
    BY DEF RegionInv, RegionTypeOK
  <1>2. node' = [n \in Nodes |-> IF n \in Expired(t) THEN "none" ELSE node[n]]
    BY DEF HandleScheduling
  <1>3. node' \in [Nodes -> NodeStates] /\ timeout' \in [Nodes -> Nat]
    BY <1>1, <1>2 DEF HandleScheduling, NodeStates
  <1>4. \A m \in Nodes : /\ node'[m] = "joined" => node[m] \in {"joined", "none"}
                         /\ node'[m] = "leaving" => node[m] \in {"joined", "leaving"}
    BY <1>2
  <1>5. ScheduleShards(node', alloc)
    BY DEF HandleScheduling
  <1>. QED
    BY <1>3, <1>4, <1>5, NodesStep

LEMMA ReportStep ==
    ASSUME RegionInv, NEW n \in Nodes, NEW s \in Shards,
           OnAllocationReady(n, s) \/ OnAllocationRemoved(n, s)
    PROVE  RegionInv' /\ Handover
  <1>1. node \in [Nodes -> NodeStates] /\ timeout \in [Nodes -> Nat]
        /\ alloc \in [Shards -> [Nodes -> ShardStates]]
    BY DEF RegionInv, RegionTypeOK
  <1>2. CASE UNCHANGED regionVars
    BY <1>2, QuietStep
  <1>3. CASE /\ alloc[s][n] = "allocating" /\ UNCHANGED <<node, timeout>>
             /\ ScheduleShards(node, [alloc EXCEPT ![s][n] = "active"])
    <2>. DEFINE A == [alloc EXCEPT ![s][n] = "active"]
    <2>1. Ready(node, A)
      BY <1>3, ReadyChange
    <2>2. \A r \in Shards, m \in Nodes : alloc[r][m] = "active" => A[r][m] = "active"
      BY <1>1
    <2>3. ScheduleShards(node, A)
      BY <1>3
    <2>. HIDE DEF A
    <2>4. node' = node /\ timeout' = timeout
      BY <1>3
    <2>5. Ready(node', A) /\ ScheduleShards(node', A)
      BY <2>1, <2>3, <2>4
    <2>6. node' \in [Nodes -> NodeStates] /\ timeout' \in [Nodes -> Nat]
      BY <1>1, <2>4
    <2>. QED
      BY <2>2, <2>5, <2>6, ScheduleStep
  <1>4. CASE /\ alloc[s][n] = "removing" /\ UNCHANGED <<node, timeout>>
             /\ ScheduleShards(node, [alloc EXCEPT ![s][n] = "none"])
    <2>. DEFINE A == [alloc EXCEPT ![s][n] = "none"]
    <2>1. Ready(node, A)
      BY RemovedChange
    <2>2. \A r \in Shards, m \in Nodes : alloc[r][m] = "active" => A[r][m] = "active"
      BY <1>1, <1>4
    <2>3. ScheduleShards(node, A)
      BY <1>4
    <2>. HIDE DEF A
    <2>4. node' = node /\ timeout' = timeout
      BY <1>4
    <2>5. Ready(node', A) /\ ScheduleShards(node', A)
      BY <2>1, <2>3, <2>4
    <2>6. node' \in [Nodes -> NodeStates] /\ timeout' \in [Nodes -> Nat]
      BY <1>1, <2>4
    <2>. QED
      BY <2>2, <2>5, <2>6, ScheduleStep
  <1>. QED
    BY <1>2, <1>3, <1>4 DEF OnAllocationReady, OnAllocationRemoved

----------------------------------------------------------------------------
(* Type correctness of the processes *)

LEMMA InitTyped == Init => TypeOK
  BY NoneAssumption DEF Init, TypeOK, RegionInit, RegionTypeOK, NodeStates, ShardStates, NoAllocations,
     NothingAllocated, NoManager, Steps

LEMMA InitDirectory ==
    ASSUME Init
    PROVE  RegionInv
  <1>1. RegionTypeOK
    BY InitTyped DEF TypeOK
  <1>2. \A n \in Nodes : node[n] = "none"
    BY DEF Init, RegionInit
  <1>3. \A s \in Shards, n \in Nodes : alloc[s][n] = "none"
    BY DEF Init, RegionInit, NoAllocations
  <1>4. Allocable(node) = {} /\ \A s \in Shards : Active(alloc, s) = {} /\ Serving(node, alloc, s) = {}
    BY <1>2, <1>3 DEF Allocable, Active, Serving
  <1>. QED
    BY <1>1, <1>2, <1>3, <1>4 DEF RegionInv, Directory, Typed, RegionTypeOK, AtMostOne

\* The part of TypeOK about the processes; the directory's part is in RegionInv.
ProcTypeOK ==
    /\ now \in Nat
    /\ pc \in [Servers -> {"starting", "joined", "leaving", "left"}]
    /\ current \in [Servers -> Nodes \cup {NoNode}]
    /\ \A p \in Servers : (current[p] = NoNode) = (pc[p] = "starting")
    /\ view \in [Servers -> [Shards -> ShardStates]]
    /\ refreshing \in [Servers -> BOOLEAN]
    /\ closing \in [Servers -> BOOLEAN]
    /\ manager \in [Nodes -> [owner : Servers \cup {"none"}, stopped : BOOLEAN,
                              shards : SUBSET Shards, step : Steps,
                              shard : Shards \cup {NoShard}]]
    /\ \A n \in Nodes : manager[n].step # "idle" => manager[n].shard \in Shards
    /\ expired \subseteq Nodes

LEMMA TypeParts == TypeOK <=> RegionTypeOK /\ ProcTypeOK
  BY DEF TypeOK, ProcTypeOK

\* What a manager does, apart from its report to the directory.
LEMMA ManagerTyped ==
    ASSUME ProcTypeOK, NEW n \in Nodes,
           NEW step \in Steps, NEW shards \in SUBSET Shards, NEW shard \in Shards \cup {NoShard},
           step # "idle" => shard \in Shards,
           SetManager(n, [manager[n] EXCEPT !.step = step, !.shard = shard, !.shards = shards]),
           UNCHANGED <<now, procVars, expired>>
    PROVE  ProcTypeOK'
  <1>. DEFINE M == [owner : Servers \cup {"none"}, stopped : BOOLEAN, shards : SUBSET Shards,
                    step : Steps, shard : Shards \cup {NoShard}]
              m == [manager[n] EXCEPT !.step = step, !.shard = shard, !.shards = shards]
  <1>1. manager \in [Nodes -> M]
    BY DEF ProcTypeOK
  <1>2. m \in M /\ m.step = step /\ m.shard = shard
    BY <1>1
  <1>3. manager' = [manager EXCEPT ![n] = m]
    BY DEF SetManager
  <1>. HIDE DEF M, m
  <1>4. /\ manager' \in [Nodes -> M]
        /\ \A k \in Nodes : manager'[k].step # "idle" => manager'[k].shard \in Shards
    BY <1>1, <1>2, <1>3 DEF ProcTypeOK
  <1>. QED
    BY <1>4 DEF ProcTypeOK, procVars, M

LEMMA ManageStep ==
    ASSUME ProcTypeOK, RegionInv, NEW n \in Nodes, Manage(n)
    PROVE  ProcTypeOK' /\ RegionInv' /\ Handover
  <1>. DEFINE m == manager[n]
  <1>0. /\ m \in [owner : Servers \cup {"none"}, stopped : BOOLEAN, shards : SUBSET Shards,
                  step : Steps, shard : Shards \cup {NoShard}]
        /\ m.step # "idle" => m.shard \in Shards
    BY DEF ProcTypeOK
  <1>1. CASE Decide(n)
    <2>1. PICK s \in ToChange(n) :
             SetManager(n, [m EXCEPT !.step = IF s \in m.shards THEN "destroying" ELSE "creating",
                                     !.shard = s])
      BY <1>1 DEF Decide
    <2>2. s \in Shards
      BY <1>0, <2>1 DEF ToChange, Wanted
    <2>3. PICK step \in Steps : step = IF s \in m.shards THEN "destroying" ELSE "creating"
      BY DEF Steps
    <2>4. SetManager(n, [m EXCEPT !.step = step, !.shard = s, !.shards = m.shards])
      BY <1>0, <2>1, <2>3
    <2>5. ProcTypeOK'
      BY <1>0, <1>1, <2>2, <2>4, ManagerTyped DEF Decide
    <2>6. UNCHANGED regionVars
      BY <1>1 DEF Decide
    <2>. QED
      BY <2>5, <2>6, QuietStep
  <1>2. CASE CreateShard(n)
    <2>1. SetManager(n, [m EXCEPT !.step = "registering", !.shards = @ \cup {m.shard}])
          /\ m.shard \in Shards
      BY <1>0, <1>2 DEF CreateShard
    <2>2. PICK shards \in SUBSET Shards : shards = m.shards \cup {m.shard}
      BY <1>0, <2>1
    <2>3. SetManager(n, [m EXCEPT !.step = "registering", !.shard = m.shard, !.shards = shards])
      BY <1>0, <2>1, <2>2
    <2>4. ProcTypeOK'
      BY <1>0, <1>2, <2>1, <2>3, ManagerTyped DEF CreateShard, Steps
    <2>5. UNCHANGED regionVars
      BY <1>2 DEF CreateShard
    <2>. QED
      BY <2>4, <2>5, QuietStep
  <1>3. CASE RegisterShard(n)
    <2>1. m.shard \in Shards /\ OnAllocationReady(n, m.shard)
      BY <1>0, <1>3 DEF RegisterShard
    <2>2. SetManager(n, [m EXCEPT !.step = "idle", !.shard = NoShard, !.shards = m.shards])
      BY <1>0, <1>3 DEF RegisterShard
    <2>3. ProcTypeOK'
      BY <1>0, <1>3, <2>2, ManagerTyped DEF RegisterShard, Steps
    <2>. QED
      BY <2>1, <2>3, ReportStep
  <1>4. CASE DestroyShard(n)
    <2>1. SetManager(n, [m EXCEPT !.step = "unregistering", !.shards = @ \ {m.shard}])
          /\ m.shard \in Shards
      BY <1>0, <1>4 DEF DestroyShard
    <2>2. PICK shards \in SUBSET Shards : shards = m.shards \ {m.shard}
      BY <1>0
    <2>3. SetManager(n, [m EXCEPT !.step = "unregistering", !.shard = m.shard, !.shards = shards])
      BY <1>0, <2>1, <2>2
    <2>4. ProcTypeOK'
      BY <1>0, <1>4, <2>1, <2>3, ManagerTyped DEF DestroyShard, Steps
    <2>5. UNCHANGED regionVars
      BY <1>4 DEF DestroyShard
    <2>. QED
      BY <2>4, <2>5, QuietStep
  <1>5. CASE UnregisterShard(n)
    <2>1. m.shard \in Shards /\ OnAllocationRemoved(n, m.shard)
      BY <1>0, <1>5 DEF UnregisterShard
    <2>2. SetManager(n, [m EXCEPT !.step = "idle", !.shard = NoShard, !.shards = m.shards])
      BY <1>0, <1>5 DEF UnregisterShard
    <2>3. ProcTypeOK'
      BY <1>0, <1>5, <2>2, ManagerTyped DEF UnregisterShard, Steps
    <2>. QED
      BY <2>1, <2>3, ReportStep
  <1>. QED
    BY <1>1, <1>2, <1>3, <1>4, <1>5 DEF Manage

LEMMA AllocatorStep ==
    ASSUME ProcTypeOK, RegionInv, NEW p \in Servers, Allocator(p)
    PROVE  ProcTypeOK' /\ RegionInv' /\ Handover
  <1>0. now + NodeTimeout \in Nat /\ now + LeftTimeout \in Nat
    BY RegionTimesAssumption DEF ProcTypeOK
  <1>1. CASE Join(p)
    <2>1. PICK n \in Nodes : /\ RegisterNode(n, now + NodeTimeout)
                             /\ SetManager(n, [NoManager EXCEPT !.owner = p, !.stopped = FALSE])
                             /\ current' = [current EXCEPT ![p] = n]
      BY <1>1 DEF Join
    <2>2. ProcTypeOK'
      BY <1>1, <2>1, NoneAssumption
         DEF ProcTypeOK, Join, SetManager, NoManager, Steps, NothingAllocated, ShardStates
    <2>. QED
      BY <1>0, <2>1, <2>2, RegisterNodeStep
  <1>2. CASE Heartbeat(p)
    <2>1. current[p] \in Nodes /\ RegisterNode(current[p], now + NodeTimeout)
      BY <1>2 DEF ProcTypeOK, Heartbeat
    <2>2. ProcTypeOK'
      BY <1>2 DEF ProcTypeOK, Heartbeat
    <2>. QED
      BY <1>0, <2>1, <2>2, RegisterNodeStep
  <1>3. CASE Leave(p)
    <2>1. current[p] \in Nodes /\ RegisterNodeLeaving(current[p], now + NodeTimeout)
      BY <1>3 DEF ProcTypeOK, Leave
    <2>. DEFINE n == current[p]
                m == [manager[n] EXCEPT !.stopped = TRUE]
    <2>2. PICK state \in {"left", "leaving"} : pc' = [pc EXCEPT ![p] = state]
      BY <1>3 DEF Leave
    <2>3. manager' = manager \/ manager' = [manager EXCEPT ![n] = m]
      BY <1>3 DEF Leave, SetManager
    <2>4. /\ m \in [owner : Servers \cup {"none"}, stopped : BOOLEAN, shards : SUBSET Shards,
                     step : Steps, shard : Shards \cup {NoShard}]
          /\ m.step = manager[n].step /\ m.shard = manager[n].shard
      BY <2>1 DEF ProcTypeOK
    <2>. HIDE DEF m
    <2>5. /\ manager' \in [Nodes -> [owner : Servers \cup {"none"}, stopped : BOOLEAN,
                                     shards : SUBSET Shards, step : Steps,
                                     shard : Shards \cup {NoShard}]]
          /\ \A k \in Nodes : manager'[k].step # "idle" => manager'[k].shard \in Shards
      BY <2>1, <2>3, <2>4 DEF ProcTypeOK
    <2>6. pc[p] \in {"joined", "leaving"} /\ UNCHANGED <<now, current, view, refreshing, closing, expired>>
      BY <1>3 DEF Leave
    <2>7. ProcTypeOK'
      BY <2>2, <2>5, <2>6 DEF ProcTypeOK
    <2>. QED
      BY <1>0, <2>1, <2>7, RegisterNodeStep
  <1>4. CASE Left(p)
    <2>1. current[p] \in Nodes /\ RegisterNodeLeft(current[p], now + LeftTimeout)
      BY <1>4 DEF ProcTypeOK, Left
    <2>2. ProcTypeOK'
      BY <1>4 DEF ProcTypeOK, Left
    <2>. QED
      BY <1>0, <2>1, <2>2, RegisterNodeStep
  <1>. QED
    BY <1>1, <1>2, <1>3, <1>4 DEF Allocator

\* Steps of a process that do not reach the directory.
LEMMA LocalStep ==
    ASSUME ProcTypeOK, RegionInv, NEW p \in Servers,
           Refresh(p) \/ StopRefreshing(p) \/ Close(p) \/ Crash(p)
    PROVE  ProcTypeOK' /\ RegionInv' /\ Handover
  <1>0. UNCHANGED regionVars
    BY DEF Refresh, StopRefreshing, Close, Crash
  <1>1. CASE Refresh(p)
    <2>1. current[p] \in Nodes
      BY <1>1 DEF Refresh, ProcTypeOK
    <2>2. [s \in Shards |-> alloc[s][current[p]]] \in [Shards -> ShardStates]
      BY <2>1 DEF RegionInv, RegionTypeOK
    <2>. QED
      BY <1>0, <1>1, <2>2, QuietStep DEF Refresh, ProcTypeOK
  <1>2. CASE StopRefreshing(p)
    BY <1>0, <1>2, QuietStep DEF StopRefreshing, ProcTypeOK
  <1>3. CASE Close(p)
    BY <1>0, <1>3, QuietStep DEF Close, ProcTypeOK
  <1>4. CASE Crash(p)
    <2>1. \A n \in Nodes : manager'[n] = IF manager[n].owner = p
                                         THEN [NoManager EXCEPT !.owner = p] ELSE manager[n]
      BY <1>4 DEF Crash
    <2>2. [NoManager EXCEPT !.owner = p] \in
             [owner : Servers \cup {"none"}, stopped : BOOLEAN, shards : SUBSET Shards,
              step : Steps, shard : Shards \cup {NoShard}]
      BY DEF NoManager, Steps
    <2>3. [NoManager EXCEPT !.owner = p].step = "idle"
      BY DEF NoManager
    <2>4. /\ manager' \in [Nodes -> [owner : Servers \cup {"none"}, stopped : BOOLEAN,
                                     shards : SUBSET Shards, step : Steps,
                                     shard : Shards \cup {NoShard}]]
          /\ \A n \in Nodes : manager'[n].step # "idle" => manager'[n].shard \in Shards
      BY <1>4, <2>1, <2>2, <2>3 DEF Crash, ProcTypeOK
    <2>5. ProcTypeOK'
      BY <1>4, <2>4 DEF Crash, ProcTypeOK, NothingAllocated, ShardStates
    <2>. QED
      BY <1>0, <2>5, QuietStep
  <1>. QED
    BY <1>1, <1>2, <1>3, <1>4

LEMMA Step ==
    ASSUME ProcTypeOK, RegionInv, [Next]_vars
    PROVE  ProcTypeOK' /\ RegionInv' /\ Handover
  <1>1. CASE Tick
    BY <1>1, QuietStep DEF Tick, ProcTypeOK, procVars
  <1>2. CASE Schedule
    <2>1. ProcTypeOK'
      BY <1>2 DEF Schedule, ProcTypeOK, procVars, Expired
    <2>2. now \in Nat /\ HandleScheduling(now)
      BY <1>2 DEF Schedule, ProcTypeOK
    <2>. QED
      BY <2>1, <2>2, HandleSchedulingStep
  <1>3. ASSUME NEW n \in Nodes, Manage(n) PROVE ProcTypeOK' /\ RegionInv' /\ Handover
    BY <1>3, ManageStep
  <1>4. ASSUME NEW p \in Servers, Allocator(p) PROVE ProcTypeOK' /\ RegionInv' /\ Handover
    BY <1>4, AllocatorStep
  <1>5. ASSUME NEW p \in Servers, Refresh(p) \/ StopRefreshing(p) \/ Close(p) \/ Crash(p)
        PROVE  ProcTypeOK' /\ RegionInv' /\ Handover
    BY <1>5, LocalStep
  <1>6. CASE UNCHANGED vars
    BY <1>6, QuietStep DEF vars, procVars, ProcTypeOK
  <1>. QED
    BY <1>1, <1>2, <1>3, <1>4, <1>5, <1>6 DEF Next

----------------------------------------------------------------------------
(* What the directory calls active is running                              *)

\* The manager m runs shard s or is at work on it.
Touches(m, s) == s \in m.shards \/ (m.step # "idle" /\ m.shard = s)

\* How the allocation a of shard s to a node in state N, the state v its process
\* last read and its manager m go together.  The state read may be old, but a
\* live node gets a shard once: it goes from allocating over active to removing
\* and never back, so an old state that says less than the directory does can
\* make the manager late and not wrong.
Fits(N, a, v, m, s) ==
    /\ a = "active" => s \in m.shards /\ v # "removing"
    /\ a = "allocating" => v \in {"none", "allocating"}
    /\ Touches(m, s) /\ a \in Served => v # "none"
    /\ N = "joined" /\ (Touches(m, s) \/ v # "none") => a \in Served
    /\ m.step \in {"destroying", "unregistering"} /\ m.shard = s => a \notin Served
    /\ m.step = "registering" => m.shard \in m.shards

Live(n) == ~manager[n].stopped /\ n \notin expired

\* A manager that was not stopped is that of the node its process is on, which
\* the directory knows until it expires.
OwnersInv ==
    \A n \in Nodes : ~manager[n].stopped =>
        /\ manager[n].owner \in Servers
        /\ current[manager[n].owner] = n
        /\ pc[manager[n].owner] \in {"joined", "leaving"}
        /\ n \in expired \/ node[n] # "none"

RunningInv ==
    \A n \in Nodes, s \in Shards :
        Live(n) => Fits(node[n], alloc[s][n], view[manager[n].owner][s], manager[n], s)

\* A step of the directory keeps a manager that does nothing in it fitting.
LEMMA FitsMoves ==
    ASSUME NEW n \in Nodes, NEW s \in Shards, NEW v, NEW m,
           Fits(node[n], alloc[s][n], v, m, s), Moves(n, s),
           node'[n] = "joined" => node[n] = "joined"
    PROVE  Fits(node'[n], alloc'[s][n], v, m, s)
  BY DEF Fits, Touches, Moves, Served

\* A manager may drop what it is at once that is done.
LEMMA IdleFits ==
    ASSUME NEW N, NEW a, NEW v, NEW s \in Shards,
           NEW m \in [owner : Servers \cup {"none"}, stopped : BOOLEAN, shards : SUBSET Shards,
                      step : Steps, shard : Shards \cup {NoShard}],
           Fits(N, a, v, m, s)
    PROVE  Fits(N, a, v, [m EXCEPT !.step = "idle", !.shard = NoShard], s)
  <1>1. /\ [m EXCEPT !.step = "idle", !.shard = NoShard].step = "idle"
        /\ [m EXCEPT !.step = "idle", !.shard = NoShard].shards = m.shards
    OBVIOUS
  <1>. QED
    BY <1>1 DEF Fits, Touches

\* The report of a shard that is ready makes it active; for every other
\* allocation it is a step like any other.
LEMMA ReadyMoves ==
    ASSUME RegionInv, NEW n \in Nodes, NEW s \in Shards, OnAllocationReady(n, s)
    PROVE  /\ node' = node
           /\ \A k \in Nodes, r \in Shards : k # n \/ r # s => Moves(k, r)
           /\ \/ Moves(n, s)
              \/ /\ alloc[s][n] = "allocating" /\ alloc'[s][n] # "allocating"
                 /\ node[n] = "joined" => alloc'[s][n] = "active"
  <1>1. CASE UNCHANGED regionVars
    BY <1>1, QuietStep DEF AllMove, regionVars
  <1>2. CASE /\ alloc[s][n] = "allocating" /\ node' = node
             /\ ScheduleShards(node, [alloc EXCEPT ![s][n] = "active"])
    <2>. DEFINE A == [alloc EXCEPT ![s][n] = "active"]
    <2>1. alloc \in [Shards -> [Nodes -> ShardStates]]
      BY DEF RegionInv, RegionTypeOK
    <2>2. Ready(node, A)
      BY <1>2, ReadyChange
    <2>3. ScheduleShards(node, A)
      BY <1>2
    <2>4. /\ \A k \in Nodes, r \in Shards : k # n \/ r # s => A[r][k] = alloc[r][k]
          /\ A[s][n] = "active"
      BY <2>1
    <2>. HIDE DEF A
    <2>5. \A k \in Nodes, r \in Shards : k # n \/ r # s => Moves(k, r)
      BY <1>2, <2>2, <2>3, <2>4, ScheduleMoves
    <2>6. PICK f \in Placements(node, Deduplicated(node, Cleaned(node, A))) :
             alloc' = Placed(Deduplicated(node, Cleaned(node, A)), f)
      BY <2>3 DEF ScheduleShards
    <2>7. alloc'[s][n] # "allocating" /\ (node[n] = "joined" => alloc'[s][n] = "active")
      BY <2>2, <2>4, <2>6, ScheduledMoves DEF Served
    <2>. QED
      BY <1>2, <2>5, <2>7
  <1>. QED
    BY <1>1, <1>2 DEF OnAllocationReady

LEMMA RemovedMoves ==
    ASSUME RegionInv, NEW n \in Nodes, NEW s \in Shards, OnAllocationRemoved(n, s)
    PROVE  node' = node /\ AllMove
  <1>1. CASE UNCHANGED regionVars
    BY <1>1, QuietStep DEF regionVars
  <1>2. CASE /\ alloc[s][n] = "removing" /\ node' = node
             /\ ScheduleShards(node, [alloc EXCEPT ![s][n] = "none"])
    <2>. DEFINE A == [alloc EXCEPT ![s][n] = "none"]
    <2>1. alloc \in [Shards -> [Nodes -> ShardStates]]
      BY DEF RegionInv, RegionTypeOK
    <2>2. Ready(node, A)
      BY <1>2, RemovedChange
    <2>3. ScheduleShards(node, A)
      BY <1>2
    <2>4. \A k \in Nodes, r \in Shards :
             A[r][k] = alloc[r][k] \/ (alloc[r][k] = "removing" /\ A[r][k] = "none")
      BY <1>2, <2>1
    <2>. HIDE DEF A
    <2>5. \A k \in Nodes, r \in Shards : Moves(k, r)
      BY <1>2, <2>2, <2>3, <2>4, ScheduleMoves
    <2>. QED
      BY <1>2, <2>5 DEF AllMove
  <1>. QED
    BY <1>1, <1>2 DEF OnAllocationRemoved

\* A step that leaves the manager of n and the state its process last read alone.
LEMMA RunningKept ==
    ASSUME OwnersInv, RunningInv, AllMove, NEW n \in Nodes, NEW s \in Shards, Live(n),
           manager'[n] = manager[n],
           view'[manager[n].owner][s] = view[manager[n].owner][s]
    PROVE  Fits(node'[n], alloc'[s][n], view'[manager'[n].owner][s], manager'[n], s)
  <1>1. Fits(node[n], alloc[s][n], view[manager[n].owner][s], manager[n], s)
    BY DEF RunningInv
  <1>2. node'[n] = "joined" => node[n] = "joined"
    BY DEF AllMove, OwnersInv, Live
  <1>3. Moves(n, s)
    BY DEF AllMove
  <1>. QED
    BY <1>1, <1>2, <1>3, FitsMoves

\* A manager at work on n alone: what its next state must satisfy.
LEMMA ManagerKept ==
    ASSUME ProcTypeOK, RegionInv, OwnersInv, RunningInv, NEW n \in Nodes, NEW m,
           SetManager(n, m), m.owner = manager[n].owner, m.stopped = manager[n].stopped,
           UNCHANGED <<procVars, expired>>,
           \A k \in Nodes : node'[k] = "joined" => node[k] \in {"joined", "none"},
           \A k \in Nodes : node[k] # "none" => node'[k] # "none",
           \A k \in Nodes, r \in Shards : k # n => Moves(k, r),
           Live(n) => \A r \in Shards :
              Fits(node'[n], alloc'[r][n], view[manager[n].owner][r], m, r)
    PROVE  OwnersInv' /\ RunningInv'
  <1>1. manager'[n] = m /\ \A k \in Nodes : k # n => manager'[k] = manager[k]
    BY DEF SetManager, ProcTypeOK
  <1>2. OwnersInv'
    BY <1>1 DEF OwnersInv, procVars
  <1>3. ASSUME NEW k \in Nodes, NEW r \in Shards, Live(k)'
        PROVE  Fits(node'[k], alloc'[r][k], view'[manager'[k].owner][r], manager'[k], r)
    <2>1. Live(k)
      BY <1>1, <1>3 DEF Live
    <2>2. CASE k = n
      BY <1>1, <2>1, <2>2 DEF procVars
    <2>3. CASE k # n
      <3>1. Fits(node[k], alloc[r][k], view[manager[k].owner][r], manager[k], r)
        BY <2>1 DEF RunningInv
      <3>2. node'[k] = "joined" => node[k] = "joined"
        BY <2>1 DEF OwnersInv, Live
      <3>3. Fits(node'[k], alloc'[r][k], view[manager[k].owner][r], manager[k], r)
        BY <2>3, <3>1, <3>2, FitsMoves
      <3>. QED
        BY <1>1, <2>3, <3>3 DEF procVars
    <2>. QED
      BY <2>2, <2>3
  <1>. QED
    BY <1>2, <1>3 DEF RunningInv

LEMMA ManageRuns ==
    ASSUME ProcTypeOK, RegionInv, OwnersInv, RunningInv, NEW n \in Nodes, Manage(n)
    PROVE  OwnersInv' /\ RunningInv'
  <1>. DEFINE m == manager[n]
              v == view[m.owner]
  <1>1. /\ m \in [owner : Servers \cup {"none"}, stopped : BOOLEAN, shards : SUBSET Shards,
                  step : Steps, shard : Shards \cup {NoShard}]
        /\ m.step # "idle" => m.shard \in Shards
    BY DEF ProcTypeOK
  <1>2. Live(n) => \A r \in Shards : Fits(node[n], alloc[r][n], v[r], m, r) /\ v[r] \in ShardStates
    BY DEF RunningInv, OwnersInv, Live, ProcTypeOK
  <1>3. ASSUME UNCHANGED regionVars
        PROVE  /\ \A k \in Nodes : node'[k] = "joined" => node[k] \in {"joined", "none"}
               /\ \A k \in Nodes : node[k] # "none" => node'[k] # "none"
               /\ \A k \in Nodes, r \in Shards : Moves(k, r)
               /\ node' = node /\ alloc' = alloc
    BY <1>3, QuietStep DEF AllMove, regionVars
  <1>. HIDE DEF m, v
  <1>4. CASE Decide(n)
    <2>1. PICK s \in ToChange(n) :
             SetManager(n, [m EXCEPT !.step = IF s \in m.shards THEN "destroying" ELSE "creating",
                                     !.shard = s])
      BY <1>4 DEF Decide, m
    <2>. DEFINE M == [m EXCEPT !.step = IF s \in m.shards THEN "destroying" ELSE "creating",
                               !.shard = s]
    <2>2. /\ M.owner = m.owner /\ M.stopped = m.stopped /\ M.shards = m.shards /\ M.shard = s
          /\ M.step = IF s \in m.shards THEN "destroying" ELSE "creating"
          /\ m.step = "idle"
      BY <1>1, <1>4 DEF Decide, m
    <2>3. UNCHANGED <<regionVars, procVars, expired>> /\ SetManager(n, M)
      BY <1>4, <2>1 DEF Decide
    <2>. HIDE DEF M
    <2>4. ASSUME Live(n), NEW r \in Shards
          PROVE  Fits(node[n], alloc[r][n], v[r], M, r)
      <3>1. s \in m.shards <=> v[s] \notin {"allocating", "active"}
        BY <1>1, <2>1, <2>4 DEF ToChange, Wanted, Live, m, v
      <3>2. Fits(node[n], alloc[r][n], v[r], m, r) /\ v[r] \in ShardStates
        BY <1>2, <2>4
      <3>3. Touches(m, r) <=> r \in m.shards
        BY <2>2 DEF Touches
      <3>4. Touches(M, r) <=> r \in m.shards \/ r = s
        BY <2>2 DEF Touches
      <3>5. CASE r = s
        BY <2>2, <3>1, <3>2, <3>3, <3>4, <3>5 DEF Fits, Served, ShardStates
      <3>6. CASE r # s
        BY <2>2, <3>2, <3>3, <3>4, <3>6 DEF Fits
      <3>. QED
        BY <3>5, <3>6
    <2>. QED
      BY <1>3, <2>2, <2>3, <2>4, ManagerKept DEF m, v
  <1>5. CASE CreateShard(n)
    <2>. DEFINE M == [m EXCEPT !.step = "registering", !.shards = @ \cup {m.shard}]
    <2>1. /\ M.owner = m.owner /\ M.stopped = m.stopped /\ M.shards = m.shards \cup {m.shard}
          /\ M.shard = m.shard /\ M.step = "registering" /\ m.step = "creating"
      BY <1>1, <1>5 DEF CreateShard, m
    <2>2. UNCHANGED <<regionVars, procVars, expired>> /\ SetManager(n, M)
      BY <1>5 DEF CreateShard, m
    <2>. HIDE DEF M
    <2>3. ASSUME Live(n), NEW r \in Shards
          PROVE  Fits(node[n], alloc[r][n], v[r], M, r)
      <3>1. Fits(node[n], alloc[r][n], v[r], m, r)
        BY <1>2, <2>3
      <3>. QED
        BY <2>1, <3>1 DEF Fits, Touches
    <2>. QED
      BY <1>3, <2>1, <2>2, <2>3, ManagerKept DEF m, v
  <1>6. CASE DestroyShard(n)
    <2>. DEFINE M == [m EXCEPT !.step = "unregistering", !.shards = @ \ {m.shard}]
    <2>1. /\ M.owner = m.owner /\ M.stopped = m.stopped /\ M.shards = m.shards \ {m.shard}
          /\ M.shard = m.shard /\ M.step = "unregistering" /\ m.step = "destroying"
      BY <1>1, <1>6 DEF DestroyShard, m
    <2>2. UNCHANGED <<regionVars, procVars, expired>> /\ SetManager(n, M)
      BY <1>6 DEF DestroyShard, m
    <2>. HIDE DEF M
    <2>3. ASSUME Live(n), NEW r \in Shards
          PROVE  Fits(node[n], alloc[r][n], v[r], M, r)
      <3>1. Fits(node[n], alloc[r][n], v[r], m, r)
        BY <1>2, <2>3
      <3>. QED
        BY <2>1, <3>1 DEF Fits, Touches, Served
    <2>. QED
      BY <1>3, <2>1, <2>2, <2>3, ManagerKept DEF m, v
  <1>. DEFINE I == [m EXCEPT !.step = "idle", !.shard = NoShard]
  <1>7. CASE RegisterShard(n)
    <2>1. m.shard \in Shards /\ m.step = "registering" /\ OnAllocationReady(n, m.shard)
      BY <1>1, <1>7 DEF RegisterShard, m
    <2>2. /\ I.owner = m.owner /\ I.stopped = m.stopped /\ I.shards = m.shards /\ I.step = "idle"
          /\ SetManager(n, I) /\ UNCHANGED <<procVars, expired>>
      BY <1>1, <1>7 DEF RegisterShard, m
    <2>3. /\ node' = node
          /\ \A k \in Nodes, r \in Shards : k # n \/ r # m.shard => Moves(k, r)
          /\ \/ Moves(n, m.shard)
             \/ /\ alloc[m.shard][n] = "allocating" /\ alloc'[m.shard][n] # "allocating"
                /\ node[n] = "joined" => alloc'[m.shard][n] = "active"
      BY <2>1, ReadyMoves
    <2>4. ASSUME Live(n), NEW r \in Shards
          PROVE  Fits(node'[n], alloc'[r][n], v[r], I, r)
      <3>1. Fits(node[n], alloc[r][n], v[r], m, r) /\ Fits(node[n], alloc[r][n], v[r], I, r)
        BY <1>1, <1>2, <2>4, IdleFits
      <3>2. CASE Moves(n, r)
        BY <2>3, <3>1, <3>2, FitsMoves
      <3>3. CASE /\ r = m.shard
                 /\ alloc[r][n] = "allocating" /\ alloc'[r][n] # "allocating"
                 /\ node[n] = "joined" => alloc'[r][n] = "active"
        <4>1. r \in m.shards
          BY <2>1, <3>1, <3>3 DEF Fits
        <4>. QED
          BY <2>2, <2>3, <3>1, <3>3, <4>1 DEF Fits, Touches, Served
      <3>. QED
        BY <2>3, <3>2, <3>3
    <2>. QED
      BY <2>2, <2>3, <2>4, ManagerKept DEF m, v
  <1>8. CASE UnregisterShard(n)
    <2>1. m.shard \in Shards /\ OnAllocationRemoved(n, m.shard)
      BY <1>1, <1>8 DEF UnregisterShard, m
    <2>2. /\ I.owner = m.owner /\ I.stopped = m.stopped
          /\ SetManager(n, I) /\ UNCHANGED <<procVars, expired>>
      BY <1>1, <1>8 DEF UnregisterShard, m
    <2>3. node' = node /\ \A k \in Nodes, r \in Shards : Moves(k, r)
      BY <2>1, RemovedMoves DEF AllMove
    <2>4. ASSUME Live(n), NEW r \in Shards
          PROVE  Fits(node'[n], alloc'[r][n], v[r], I, r)
      <3>1. Fits(node[n], alloc[r][n], v[r], I, r)
        BY <1>1, <1>2, <2>4, IdleFits
      <3>. QED
        BY <2>3, <3>1, FitsMoves
    <2>. QED
      BY <2>2, <2>3, <2>4, ManagerKept DEF m, v
  <1>. QED
    BY <1>4, <1>5, <1>6, <1>7, <1>8 DEF Manage

LEMMA AllocatorRuns ==
    ASSUME ProcTypeOK, RegionInv, OwnersInv, RunningInv, NEW p \in Servers, Allocator(p)
    PROVE  OwnersInv' /\ RunningInv'
  <1>0. now + NodeTimeout \in Nat /\ now + LeftTimeout \in Nat
    BY RegionTimesAssumption DEF ProcTypeOK
  <1>1. CASE Join(p)
    <2>1. PICK n \in Nodes : /\ node[n] = "none"
                             /\ RegisterNode(n, now + NodeTimeout)
                             /\ SetManager(n, [NoManager EXCEPT !.owner = p, !.stopped = FALSE])
                             /\ current' = [current EXCEPT ![p] = n]
      BY <1>1 DEF Join
    <2>2. AllMove
      BY <1>0, <2>1, RegisterNodeStep
    <2>3. /\ manager'[n] = [NoManager EXCEPT !.owner = p, !.stopped = FALSE]
          /\ \A k \in Nodes : k # n => manager'[k] = manager[k]
          /\ current' = [current EXCEPT ![p] = n]
          /\ pc[p] = "starting" /\ pc' = [pc EXCEPT ![p] = "joined"]
          /\ view' = [view EXCEPT ![p] = NothingAllocated] /\ expired' = expired
      BY <1>1, <2>1 DEF Join, SetManager, ProcTypeOK
    <2>4. \A k \in Nodes : node'[k] = IF k = n THEN "joined" ELSE node[k]
      BY <2>1 DEF RegisterNode, RegionInv, RegionTypeOK
    <2>5. /\ manager'[n].owner = p /\ manager'[n].shards = {} /\ manager'[n].step = "idle"
      BY <2>3 DEF NoManager
    <2>6. \A k \in Nodes : k # n /\ ~manager[k].stopped => manager[k].owner \in Servers \ {p}
      BY <2>3 DEF OwnersInv
    <2>7. pc'[p] = "joined" /\ current'[p] = n
      BY <2>1, <2>3 DEF ProcTypeOK
    <2>8. \A q \in Servers : q # p => pc'[q] = pc[q] /\ current'[q] = current[q]
      BY <2>3 DEF ProcTypeOK
    <2>9. ASSUME NEW k \in Nodes, ~manager'[k].stopped
          PROVE  /\ manager'[k].owner \in Servers
                 /\ current'[manager'[k].owner] = k
                 /\ pc'[manager'[k].owner] \in {"joined", "leaving"}
                 /\ k \in expired' \/ node'[k] # "none"
      <3>1. CASE k = n
        BY <2>4, <2>5, <2>7, <3>1
      <3>2. CASE k # n
        <4>1. /\ manager'[k] = manager[k] /\ manager[k].owner \in Servers \ {p}
              /\ node'[k] = node[k]
          BY <2>3, <2>4, <2>6, <2>9, <3>2
        <4>. QED
          BY <2>3, <2>8, <2>9, <4>1 DEF OwnersInv
      <3>. QED
        BY <3>1, <3>2
    <2>10. OwnersInv'
      BY <2>9 DEF OwnersInv
    <2>11. ASSUME NEW k \in Nodes, NEW s \in Shards, Live(k)'
          PROVE  Fits(node'[k], alloc'[s][k], view'[manager'[k].owner][s], manager'[k], s)
      <3>1. CASE k = n
        <4>1. alloc[s][n] = "none"
          BY <2>1 DEF RegionInv, Directory
        <4>2. alloc'[s][n] # "active"
          BY <2>2, <4>1 DEF AllMove, Moves
        <4>3. view'[p][s] = "none"
          BY <2>3 DEF ProcTypeOK, NothingAllocated
        <4>. QED
          BY <2>5, <3>1, <4>2, <4>3 DEF Fits, Touches
      <3>2. CASE k # n
        <4>1. Live(k) /\ manager'[k] = manager[k]
          BY <2>3, <2>11, <3>2 DEF Live
        <4>2. view'[manager[k].owner][s] = view[manager[k].owner][s]
          BY <2>3, <2>6, <3>2, <4>1 DEF Live, ProcTypeOK
        <4>. QED
          BY <2>2, <4>1, <4>2, RunningKept
      <3>. QED
        BY <3>1, <3>2
    <2>. QED
      BY <2>10, <2>11 DEF RunningInv
  <1>2. CASE Heartbeat(p)
    <2>1. /\ current[p] \in Nodes /\ RegisterNode(current[p], now + NodeTimeout)
          /\ pc[p] = "joined" /\ pc' \in {[pc EXCEPT ![p] = "joined"], [pc EXCEPT ![p] = "leaving"]}
          /\ UNCHANGED <<current, view, manager, expired>>
      BY <1>2 DEF ProcTypeOK, Heartbeat
    <2>2. AllMove
      BY <1>0, <2>1, RegisterNodeStep
    <2>3. \A k \in Nodes : node[k] # "none" => node'[k] # "none"
      BY <2>1 DEF RegisterNode, RegionInv, RegionTypeOK
    <2>4. OwnersInv'
      BY <2>1, <2>3 DEF OwnersInv, ProcTypeOK
    <2>5. ASSUME NEW k \in Nodes, NEW s \in Shards, Live(k)'
          PROVE  Fits(node'[k], alloc'[s][k], view'[manager'[k].owner][s], manager'[k], s)
      BY <2>1, <2>2, <2>5, RunningKept DEF Live
    <2>. QED
      BY <2>4, <2>5 DEF RunningInv
  <1>3. CASE Leave(p)
    <2>. DEFINE n == current[p]
    <2>1. /\ n \in Nodes /\ RegisterNodeLeaving(n, now + NodeTimeout)
          /\ UNCHANGED <<current, view, expired>>
      BY <1>3 DEF ProcTypeOK, Leave
    <2>2. AllMove
      BY <1>0, <2>1, RegisterNodeStep
    <2>3. \A k \in Nodes : node[k] # "none" => node'[k] # "none"
      BY <2>1 DEF RegisterNodeLeaving, RegionInv, RegionTypeOK
    <2>4. \/ pc' = [pc EXCEPT ![p] = "leaving"] /\ manager' = manager
          \/ pc' = [pc EXCEPT ![p] = "left"] /\ SetManager(n, [manager[n] EXCEPT !.stopped = TRUE])
      BY <1>3 DEF Leave
    <2>5. \A k \in Nodes : ~manager'[k].stopped =>
             /\ manager'[k] = manager[k]
             /\ k = n => pc' = [pc EXCEPT ![p] = "leaving"]
      BY <2>1, <2>4 DEF SetManager, ProcTypeOK
    <2>6. \A q \in Servers : q # p => pc'[q] = pc[q]
      BY <2>4 DEF ProcTypeOK
    <2>7. OwnersInv'
      BY <2>1, <2>3, <2>5, <2>6 DEF OwnersInv, ProcTypeOK
    <2>8. ASSUME NEW k \in Nodes, NEW s \in Shards, Live(k)'
          PROVE  Fits(node'[k], alloc'[s][k], view'[manager'[k].owner][s], manager'[k], s)
      BY <2>1, <2>2, <2>5, <2>8, RunningKept DEF Live
    <2>. QED
      BY <2>7, <2>8 DEF RunningInv
  <1>4. CASE Left(p)
    <2>1. /\ current[p] \in Nodes /\ RegisterNodeLeft(current[p], now + LeftTimeout)
          /\ pc[p] = "left" /\ pc' = [pc EXCEPT ![p] = "starting"]
          /\ current' = [current EXCEPT ![p] = NoNode]
          /\ UNCHANGED <<view, manager, expired>>
      BY <1>4 DEF ProcTypeOK, Left
    <2>2. AllMove
      BY <1>0, <2>1, RegisterNodeStep
    <2>3. \A k \in Nodes : node[k] # "none" => node'[k] # "none"
      BY <2>1 DEF RegisterNodeLeft, RegionInv, RegionTypeOK
    <2>4. OwnersInv'
      BY <2>1, <2>3 DEF OwnersInv, ProcTypeOK
    <2>5. ASSUME NEW k \in Nodes, NEW s \in Shards, Live(k)'
          PROVE  Fits(node'[k], alloc'[s][k], view'[manager'[k].owner][s], manager'[k], s)
      BY <2>1, <2>2, <2>5, RunningKept DEF Live
    <2>. QED
      BY <2>4, <2>5 DEF RunningInv
  <1>. QED
    BY <1>1, <1>2, <1>3, <1>4 DEF Allocator

LEMMA LocalRuns ==
    ASSUME ProcTypeOK, RegionInv, OwnersInv, RunningInv, NEW p \in Servers,
           Refresh(p) \/ StopRefreshing(p) \/ Close(p) \/ Crash(p)
    PROVE  OwnersInv' /\ RunningInv'
  <1>0. UNCHANGED regionVars /\ AllMove
    BY QuietStep DEF Refresh, StopRefreshing, Close, Crash
  <1>1. CASE Refresh(p)
    <2>1. /\ current[p] \in Nodes
          /\ view' = [view EXCEPT ![p] = [s \in Shards |-> alloc[s][current[p]]]]
          /\ UNCHANGED <<pc, current, manager, expired, node, alloc>>
      BY <1>1 DEF Refresh, ProcTypeOK, regionVars
    <2>2. OwnersInv'
      BY <2>1 DEF OwnersInv
    <2>3. ASSUME NEW k \in Nodes, NEW s \in Shards, Live(k)'
          PROVE  Fits(node'[k], alloc'[s][k], view'[manager'[k].owner][s], manager'[k], s)
      <3>1. Live(k) /\ Fits(node[k], alloc[s][k], view[manager[k].owner][s], manager[k], s)
        BY <2>1, <2>3 DEF Live, RunningInv
      <3>2. manager[k].owner \in Servers /\ current[manager[k].owner] = k
        BY <3>1 DEF Live, OwnersInv
      <3>3. CASE manager[k].owner # p
        BY <2>1, <3>1, <3>2, <3>3 DEF ProcTypeOK
      <3>4. CASE manager[k].owner = p
        <4>1. view'[p][s] = alloc[s][k]
          BY <2>1, <3>2, <3>4 DEF ProcTypeOK
        <4>2. alloc[s][k] \in ShardStates /\ (alloc[s][k] = "removing" => node[k] # "joined")
          BY DEF RegionInv, RegionTypeOK, Directory
        <4>3. Fits(node[k], alloc[s][k], alloc[s][k], manager[k], s)
          BY <3>1, <4>2 DEF Fits, Served, ShardStates
        <4>. QED
          BY <2>1, <3>4, <4>1, <4>3
      <3>. QED
        BY <3>3, <3>4
    <2>. QED
      BY <2>2, <2>3 DEF RunningInv
  <1>2. CASE StopRefreshing(p) \/ Close(p)
    <2>1. UNCHANGED <<pc, current, view, manager, expired, node>>
      BY <1>0, <1>2 DEF StopRefreshing, Close, regionVars
    <2>2. OwnersInv'
      BY <2>1 DEF OwnersInv
    <2>3. ASSUME NEW k \in Nodes, NEW s \in Shards, Live(k)'
          PROVE  Fits(node'[k], alloc'[s][k], view'[manager'[k].owner][s], manager'[k], s)
      BY <1>0, <2>1, <2>3, RunningKept DEF Live
    <2>. QED
      BY <2>2, <2>3 DEF RunningInv
  <1>3. CASE Crash(p)
    <2>1. /\ \A k \in Nodes : manager'[k] = IF manager[k].owner = p
                                            THEN [NoManager EXCEPT !.owner = p] ELSE manager[k]
          /\ \A q \in Servers : q # p => /\ pc'[q] = pc[q] /\ current'[q] = current[q]
                                         /\ view'[q] = view[q]
          /\ UNCHANGED <<expired, node>>
      BY <1>0, <1>3 DEF Crash, regionVars, ProcTypeOK
    <2>2. [NoManager EXCEPT !.owner = p].stopped
      BY DEF NoManager
    <2>3. \A k \in Nodes : ~manager'[k].stopped =>
             manager'[k] = manager[k] /\ manager[k].owner \in Servers \ {p}
      BY <2>1, <2>2 DEF OwnersInv
    <2>4. OwnersInv'
      BY <2>1, <2>3 DEF OwnersInv
    <2>5. ASSUME NEW k \in Nodes, NEW s \in Shards, Live(k)'
          PROVE  Fits(node'[k], alloc'[s][k], view'[manager'[k].owner][s], manager'[k], s)
      BY <1>0, <2>1, <2>3, <2>5, RunningKept DEF Live
    <2>. QED
      BY <2>4, <2>5 DEF RunningInv
  <1>. QED
    BY <1>1, <1>2, <1>3

LEMMA RunsStep ==
    ASSUME ProcTypeOK, RegionInv, OwnersInv, RunningInv, [Next]_vars
    PROVE  OwnersInv' /\ RunningInv'
  <1>1. CASE Tick \/ UNCHANGED vars
    <2>1. UNCHANGED <<regionVars, pc, current, view, manager, expired>>
      BY <1>1 DEF Tick, vars, procVars
    <2>2. OwnersInv'
      BY <2>1 DEF OwnersInv, regionVars
    <2>3. AllMove
      BY <2>1, QuietStep
    <2>4. ASSUME NEW k \in Nodes, NEW s \in Shards, Live(k)'
          PROVE  Fits(node'[k], alloc'[s][k], view'[manager'[k].owner][s], manager'[k], s)
      BY <2>1, <2>3, <2>4, RunningKept DEF Live
    <2>. QED
      BY <2>2, <2>4 DEF RunningInv
  <1>2. CASE Schedule
    <2>1. /\ HandleScheduling(now) /\ now \in Nat
          /\ expired' = expired \cup Expired(now) /\ UNCHANGED <<procVars, manager>>
      BY <1>2 DEF Schedule, ProcTypeOK
    <2>2. AllMove
      BY <2>1, HandleSchedulingStep
    <2>3. \A k \in Nodes : node'[k] = IF k \in Expired(now) THEN "none" ELSE node[k]
      BY <2>1 DEF HandleScheduling
    <2>4. OwnersInv'
      BY <2>1, <2>3 DEF OwnersInv, procVars
    <2>5. ASSUME NEW k \in Nodes, NEW s \in Shards, Live(k)'
          PROVE  Fits(node'[k], alloc'[s][k], view'[manager'[k].owner][s], manager'[k], s)
      BY <2>1, <2>2, <2>5, RunningKept DEF Live, procVars
    <2>. QED
      BY <2>4, <2>5 DEF RunningInv
  <1>3. ASSUME NEW n \in Nodes, Manage(n) PROVE OwnersInv' /\ RunningInv'
    BY <1>3, ManageRuns
  <1>4. ASSUME NEW p \in Servers, Allocator(p) PROVE OwnersInv' /\ RunningInv'
    BY <1>4, AllocatorRuns
  <1>5. ASSUME NEW p \in Servers, Refresh(p) \/ StopRefreshing(p) \/ Close(p) \/ Crash(p)
        PROVE  OwnersInv' /\ RunningInv'
    BY <1>5, LocalRuns
  <1>. QED
    BY <1>1, <1>2, <1>3, <1>4, <1>5 DEF Next

----------------------------------------------------------------------------
(* The theorems *)

LEMMA Invariant == Spec => [](ProcTypeOK /\ RegionInv)
  <1>1. Init => ProcTypeOK /\ RegionInv
    BY InitTyped, InitDirectory, TypeParts
  <1>2. ProcTypeOK /\ RegionInv /\ [Next]_vars => (ProcTypeOK /\ RegionInv)'
    BY Step
  <1>. QED
    BY <1>1, <1>2, PTL DEF Spec

\* TypeOK: the directory and the processes stay within their types.
THEOREM TypeCorrect == Spec => []TypeOK
  <1>1. ProcTypeOK /\ RegionInv => TypeOK
    BY TypeParts DEF RegionInv
  <1>. QED
    BY <1>1, Invariant, PTL

\* OneServingNode: however many nodes heartbeat, leave, expire and report in
\* whatever order, the directory never has two active nodes for a shard, and
\* exactly one joined node that serves it or is about to (scheduleShards).
THEOREM AlwaysOneServingNode == Spec => []OneServingNode
  <1>1. ProcTypeOK /\ RegionInv => OneServingNode
    BY DirectoryMeans
  <1>. QED
    BY <1>1, Invariant, PTL

\* AllocationsFollowNodes: nodes that left or expired have no allocations, only
\* joined ones start a shard and only leaving ones are asked to give one up.
THEOREM AllocationsAlwaysFollow == Spec => []AllocationsFollowNodes
  <1>1. ProcTypeOK /\ RegionInv => AllocationsFollowNodes
    BY DirectoryMeans
  <1>. QED
    BY <1>1, Invariant, PTL

\* NoServiceGap: no step takes a shard from a live node that serves it unless
\* another node serves it then (the removal of duplicates in scheduleShards).
THEOREM NeverAServiceGap == Spec => NoServiceGap
  <1>1. ProcTypeOK /\ RegionInv /\ [Next]_vars => [Handover]_vars
    BY Step
  <1>. QED
    BY <1>1, Invariant, PTL DEF Spec, NoServiceGap

\* ActiveIsRunning: a manager works from an old copy of the allocations, awaits
\* the shard's factory and reports late; still no shard the directory calls active
\* on a node is missing there, unless the process was killed or stopped the
\* manager, or the node expired.
THEOREM ActiveAlwaysRunning == Spec => []ActiveIsRunning
  <1>1. Init => OwnersInv /\ RunningInv
    <2>1. ASSUME Init PROVE \A n \in Nodes : manager[n].stopped
      BY <2>1 DEF Init, NoManager
    <2>. QED
      BY <2>1 DEF OwnersInv, RunningInv, Live
  <1>2. ProcTypeOK /\ RegionInv /\ OwnersInv /\ RunningInv /\ [Next]_vars
           => (OwnersInv /\ RunningInv)'
    BY RunsStep
  <1>3. RunningInv => ActiveIsRunning
    BY DEF RunningInv, ActiveIsRunning, Live, Fits
  <1>. QED
    BY <1>1, <1>2, <1>3, Invariant, PTL DEF Spec

-------------------------------------------------------------------------------
(* RemoteTransport, for any number of messages and losses and a bus that     *)
(* keeps the order or not: it implements MessageStream, and                  *)
(* KeptUntilDelivered holds.  The receiver's half is functions on its        *)
(* record, so each of these has a lemma first.                               *)

ClientType == [status : {"started", "connected", "stopped"},
               received : SUBSET Seqs, processed : Seqs \cup {-1},
               receivedSeq : Seqs \cup {-1}, armed : BOOLEAN,
               retryTimer : [seq : Asked, running : BOOLEAN] \cup {NoTimer}]

\* The first k messages.
Numbers(k) == [i \in 1..k |-> i - 1]

----------------------------------------------------------------------------
(* The greatest of some numbers *)

\* A set of natural numbers has a least one.
LEMMA Least ==
  ASSUME NEW T \in SUBSET Nat, T # {}
  PROVE  \E x \in T : \A y \in T : x <= y
<1> DEFINE R == {ss \in Nat \X Nat : ss[1] < ss[2]}
<1>1. IsWellFoundedOn(R, Nat)
  BY NatLessThanWellFounded, Zenon DEF OpToRel
<1>2. \A x, y \in Nat : x < y => <<x, y>> \in R
  OBVIOUS
<1> HIDE DEF R
<1>3. PICK x \in T : \A y \in T : ~(<<y, x>> \in R)
  BY <1>1, WFMin
<1>4. x \in Nat /\ \A y \in T : y \in Nat /\ ~(y < x)
  BY <1>2, <1>3
<1>5. \A y \in T : x <= y
  BY <1>4
<1> QED BY <1>3, <1>5

\* Hence a set of integers with an upper bound has a greatest one.
LEMMA GreatestIs ==
  ASSUME NEW b \in Int, NEW S \in SUBSET Int, S # {}, \A x \in S : x <= b
  PROVE  Greatest(S) \in S /\ \A y \in S : y <= Greatest(S)
<1> DEFINE T == {n \in Nat : b - n \in S}
<1>1. PICK x \in S : TRUE
  OBVIOUS
<1>2. b - x \in Nat /\ b - (b - x) = x
  BY <1>1
<1>3. T \in SUBSET Nat /\ T # {}
  BY <1>1, <1>2
<1>4. PICK n \in T : \A m \in T : n <= m
  BY <1>3, Least
<1>5. b - n \in S
  BY <1>4
<1>6. \A y \in S : b - y \in T
  OBVIOUS
<1>7. \A y \in S : b - n >= y
  BY <1>4, <1>6
<1>8. \E z \in S : \A y \in S : z >= y
  BY <1>5, <1>7
<1>9. Greatest(S) \in S /\ \A y \in S : Greatest(S) >= y
  BY <1>8 DEF Greatest
<1> QED BY <1>9

----------------------------------------------------------------------------
(* The receiver's half *)

LEMMA SeqsType == ConstantsAssumption =>
  /\ Seqs \subseteq Int /\ Seqs \cup {-1} \subseteq Int
  /\ \A x \in Seqs \cup {-1} : x <= MaxSent /\ x >= -1 /\ x + 1 \in Asked
  /\ MaxSent \in Int
BY DEF ConstantsAssumption, Seqs, Asked

\* Setting a retry timer leaves what was received as it is.
LEMMA StartRetryTimerKeeps ==
  ASSUME ConstantsAssumption, NEW c \in ClientType
  PROVE  LET d == StartRetryTimerIfNeeded(c)
         IN  /\ d \in ClientType
             /\ d.status = c.status /\ d.received = c.received
             /\ d.processed = c.processed /\ d.receivedSeq = c.receivedSeq
BY SeqsType DEF StartRetryTimerIfNeeded, ClientType

LEMMA OnAllPendingProcessedKeeps ==
  ASSUME ConstantsAssumption, NEW c \in ClientType
  PROVE  LET d == OnAllPendingProcessed(c)
         IN  /\ d \in ClientType
             /\ d.status = c.status /\ d.received = c.received
             /\ d.processed = c.processed /\ d.receivedSeq = c.receivedSeq
<1> DEFINE e == [c EXCEPT !.retryTimer = NoTimer]
<1>1. /\ e \in ClientType
      /\ e.status = c.status /\ e.received = c.received
      /\ e.processed = c.processed /\ e.receivedSeq = c.receivedSeq
  BY DEF ClientType, NoTimer
<1> HIDE DEF e
<1>2. OnAllPendingProcessed(c) = StartRetryTimerIfNeeded(e)
  BY DEF OnAllPendingProcessed, e
<1> QED BY <1>1, <1>2, StartRetryTimerKeeps

LEMMA OnReceivedSeqKeeps ==
  ASSUME ConstantsAssumption, NEW c \in ClientType, NEW seq \in Seqs
  PROVE  LET d == OnReceivedSeq(c, seq)
         IN  /\ d \in ClientType
             /\ d.status = c.status /\ d.received = c.received
             /\ d.processed = c.processed
<1> DEFINE g == Greatest({c.receivedSeq, seq})
           e == [c EXCEPT !.receivedSeq = g]
<1>1. c.receivedSeq \in Seqs \cup {-1}
  BY DEF ClientType
<1>2. g \in {c.receivedSeq, seq}
  BY <1>1, SeqsType, GreatestIs, {c.receivedSeq, seq} # {}
<1> HIDE DEF g
<1>3. /\ e \in ClientType
      /\ e.status = c.status /\ e.received = c.received /\ e.processed = c.processed
  BY <1>1, <1>2 DEF ClientType
<1>4. OnReceivedSeq(c, seq) = StartRetryTimerIfNeeded(e)
  BY DEF OnReceivedSeq, g
<1> HIDE DEF e
<1> QED BY <1>3, <1>4, StartRetryTimerKeeps

\* Flushing goes on to the first number that is missing, and not past it.
LEMMA FlushAdvances ==
  ASSUME ConstantsAssumption, NEW c \in ClientType
  PROVE  LET d == FlushIfNeeded(c)
         IN  /\ d \in ClientType
             /\ d.status = c.status /\ d.received = c.received
             /\ d.receivedSeq = c.receivedSeq
             /\ d.processed >= c.processed
             /\ c.processed + 1..d.processed \subseteq c.received
             /\ \A n \in c.received : (c.processed + 1..n \subseteq c.received) => n <= d.processed
<1> DEFINE p == c.processed
           F == {n \in c.received : p + 1..n \subseteq c.received}
           g == Greatest({p} \cup F)
<1>1. p \in Seqs \cup {-1} /\ c.received \subseteq Seqs
  BY DEF ClientType
<1>2. /\ {p} \cup F \in SUBSET Int /\ {p} \cup F # {}
      /\ \A x \in {p} \cup F : x <= MaxSent
  BY <1>1, SeqsType
<1>3. g \in {p} \cup F /\ \A y \in {p} \cup F : y <= g
  BY <1>2, SeqsType, GreatestIs
<1>4. g \in Seqs \cup {-1} /\ g >= p /\ \A n \in F : n <= g
  BY <1>1, <1>3
<1>5. p + 1..g \subseteq c.received
  BY <1>1, <1>3, SeqsType
<1>6. FlushIfNeeded(c) = [c EXCEPT !.processed = g]
  BY DEF FlushIfNeeded
<1> HIDE DEF g
<1>7. /\ [c EXCEPT !.processed = g] \in ClientType
      /\ [c EXCEPT !.processed = g].processed = g
      /\ [c EXCEPT !.processed = g].status = c.status
      /\ [c EXCEPT !.processed = g].received = c.received
      /\ [c EXCEPT !.processed = g].receivedSeq = c.receivedSeq
  BY <1>4 DEF ClientType
<1> QED BY <1>4, <1>5, <1>6, <1>7

\* A message is processed together with those that waited for it, or it waits.
LEMMA HandleAdvances ==
  ASSUME ConstantsAssumption, NEW c \in ClientType, NEW seq \in Seqs
  PROVE  LET d == HandleMessage(c, seq)
         IN  /\ d \in ClientType /\ d.status = c.status
             /\ d.processed >= c.processed
             /\ c.processed + 1..d.processed \subseteq c.received \cup {seq}
             /\ d.received \subseteq c.received \cup {seq}
             /\ seq = c.processed + 1 => seq <= d.processed
<1>1. c.processed \in Int /\ seq \in Int
  BY SeqsType DEF ClientType
<1>2. CASE seq = c.processed + 1
  <2> DEFINE e == [c EXCEPT !.processed = seq]
             f == FlushIfNeeded(e)
             d == OnAllPendingProcessed(f)
  <2>1. /\ e \in ClientType /\ e.status = c.status /\ e.received = c.received
        /\ e.processed = seq
    BY DEF ClientType
  <2> HIDE DEF e
  <2>2. /\ f \in ClientType /\ f.status = c.status /\ f.received = c.received
        /\ f.processed >= seq /\ seq + 1..f.processed \subseteq c.received
    BY <2>1, FlushAdvances
  <2> HIDE DEF f
  <2>3. /\ d \in ClientType /\ d.status = c.status /\ d.received = c.received
        /\ d.processed = f.processed
    BY <2>2, OnAllPendingProcessedKeeps
  <2>4. HandleMessage(c, seq) = d
    BY <1>2 DEF HandleMessage, e, f
  <2> HIDE DEF d
  <2>5. f.processed \in Int
    BY <2>2, SeqsType DEF ClientType
  <2>6. c.processed + 1..f.processed \subseteq c.received \cup {seq}
    BY <1>1, <1>2, <2>2, <2>5
  <2> QED BY <1>1, <1>2, <2>2, <2>3, <2>4, <2>5, <2>6
<1>3. CASE seq > c.processed + 1
  <2> DEFINE d == [c EXCEPT !.received = @ \cup {seq}]
  <2>1. HandleMessage(c, seq) = d
    BY <1>1, <1>3 DEF HandleMessage
  <2>2. /\ d \in ClientType /\ d.status = c.status /\ d.processed = c.processed
        /\ d.received = c.received \cup {seq}
    BY DEF ClientType
  <2> QED BY <1>1, <1>3, <2>1, <2>2
<1>4. CASE seq < c.processed + 1
  <2>1. HandleMessage(c, seq) = c
    BY <1>1, <1>4 DEF HandleMessage
  <2> QED BY <1>1, <1>4, <2>1
<1> QED BY <1>1, <1>2, <1>3, <1>4

\* What a step gives to the reader: the numbers processed, in their order.
LEMMA EmittedIs ==
  ASSUME NEW c, NEW d, NEW a \in Int, NEW b \in Int, a <= b,
         c.processed = a, d.processed = b,
         NEW buffer, a + 1..b \subseteq buffer
  PROVE  Emitted(c, d, buffer) = [i \in 1..(b - a) |-> a + i]
<1> DEFINE new == buffer \cap (a + 1..b)
<1>1. new = a + 1..b
  OBVIOUS
<1> HIDE DEF new
<1>2. Cardinality(new) = b - a
  <2>1. a + 1 \in Int
    OBVIOUS
  <2>2. Cardinality(a + 1..b) = IF a + 1 > b THEN 0 ELSE b - (a + 1) + 1
    BY ONLY <2>1, b \in Int, FS_Interval
  <2> QED BY <1>1, <2>2
<1>3. ASSUME NEW n \in a + 1..b
      PROVE  Cardinality({m \in new : m < n}) = n - (a + 1)
  <2> DEFINE less == {m \in new : m < n}
  <2>1. less = a + 1..n - 1
    BY <1>1
  <2> HIDE DEF less
  <2>2. a + 1 \in Int /\ n - 1 \in Int
    OBVIOUS
  <2>3. Cardinality(a + 1..n - 1) = IF a + 1 > n - 1 THEN 0 ELSE n - 1 - (a + 1) + 1
    BY ONLY <2>2, FS_Interval
  <2>4. Cardinality(less) = n - (a + 1)
    BY <2>1, <2>3
  <2> QED BY <2>4 DEF less
<1>4. ASSUME NEW i \in 1..(b - a)
      PROVE  (CHOOSE n \in new : Cardinality({m \in new : m < n}) = i - 1) = a + i
  <2> DEFINE P(n) == Cardinality({m \in new : m < n}) = i - 1
  <2>1. \A n \in new : P(n) <=> n = a + i
    BY <1>1, <1>3
  <2>2. a + i \in new
    BY <1>1
  <2> HIDE DEF new, P
  <2>3. (CHOOSE n \in new : P(n)) = a + i
    BY <2>1, <2>2
  <2> QED BY <2>3 DEF P
<1> HIDE DEF new
<1>5. Emitted(c, d, buffer) =
        [i \in 1..Cardinality(new) |->
           CHOOSE n \in new : Cardinality({m \in new : m < n}) = i - 1]
  BY DEF Emitted, new
<1> QED BY <1>2, <1>4, <1>5

\* The first numbers, and the next ones.
LEMMA NumbersGrow ==
  ASSUME NEW a \in Int, NEW b \in Int, -1 <= a, a <= b
  PROVE  LET e == [i \in 1..(b - a) |-> a + i]
         IN  Numbers(a + 1) \o e = Numbers(b + 1) /\ ToSet(e) \subseteq 0..b
<1> DEFINE d == Numbers(a + 1)
           e == [i \in 1..(b - a) |-> a + i]
           f == d \o e
<1>1. a + 1 \in Nat /\ b + 1 \in Nat /\ b - a \in Nat /\ (a + 1) + (b - a) = b + 1
  OBVIOUS
<1>2. d \in Seq(Int) /\ Len(d) = a + 1 /\ \A i \in 1..a + 1 : d[i] = i - 1
  BY <1>1 DEF Numbers
<1>3. e \in Seq(Int) /\ Len(e) = b - a /\ DOMAIN e = 1..b - a /\ \A i \in 1..b - a : e[i] = a + i
  BY <1>1
<1> HIDE DEF d, e
<1>4. /\ f \in Seq(Int) /\ Len(f) = Len(d) + Len(e)
      /\ \A i \in 1..Len(d) + Len(e) : f[i] = IF i <= Len(d) THEN d[i] ELSE e[i - Len(d)]
  BY <1>2, <1>3, ConcatProperties
<1> HIDE DEF f
<1>5. Len(f) = b + 1
  BY <1>1, <1>2, <1>3, <1>4
<1>6. ASSUME NEW i \in 1..b + 1 PROVE f[i] = i - 1
  <2>1. f[i] = IF i <= a + 1 THEN d[i] ELSE e[i - (a + 1)]
    BY <1>1, <1>2, <1>3, <1>4
  <2>2. CASE i <= a + 1
    BY <1>2, <2>1, <2>2
  <2>3. CASE ~(i <= a + 1)
    <3>1. i - (a + 1) \in 1..b - a /\ a + (i - (a + 1)) = i - 1
      BY <2>3
    <3> QED BY <1>3, <2>1, <2>3, <3>1
  <2> QED BY <2>2, <2>3
<1>7. f = [i \in 1..b + 1 |-> i - 1]
  BY <1>4, <1>5, <1>6
<1>8. ToSet(e) \subseteq 0..b
  <2>1. ASSUME NEW x \in ToSet(e) PROVE x \in 0..b
    <3>1. PICK i \in 1..b - a : x = e[i]
      BY <1>3 DEF ToSet
    <3>2. x = a + i
      BY <1>3, <3>1
    <3>3. 0 <= x /\ x <= b /\ x \in Int
      BY <1>1, <3>2
    <3> QED BY <3>3
  <2> QED BY <2>1
<1> QED BY <1>7, <1>8 DEF Numbers, d, e, f

\* A reader that has been given the first numbers is given the next ones, and no
\* more than these are acknowledged.
LEMMA Delivers ==
  ASSUME NEW c, NEW d, NEW a \in Int, NEW b \in Int, -1 <= a, a <= b,
         c.processed = a, d.processed = b,
         NEW buffer, a + 1..b \subseteq buffer,
         delivered = Numbers(a + 1), acks \subseteq 0..a, Receive(c, d, buffer)
  PROVE  delivered' = Numbers(b + 1) /\ acks' \subseteq 0..b /\ client' = d
<1> DEFINE e == [i \in 1..(b - a) |-> a + i]
<1>1. Emitted(c, d, buffer) = e
  BY EmittedIs
<1>2. Numbers(a + 1) \o e = Numbers(b + 1) /\ ToSet(e) \subseteq 0..b
  BY NumbersGrow
<1> HIDE DEF e
<1>3. client' = d /\ delivered' = delivered \o e /\ acks' = acks \cup ToSet(e)
  BY <1>1 DEF Receive
<1>4. 0..a \subseteq 0..b
  OBVIOUS
<1>5. acks' \subseteq 0..b
  BY <1>2, <1>3, <1>4, Zenon
<1>6. delivered' = Numbers(b + 1)
  BY <1>2, <1>3, Zenon
<1> QED BY <1>3, <1>5, <1>6

\* The numbers as a set.
LEMMA NumbersSet ==
  ASSUME NEW k \in Nat
  PROVE  /\ ToSet(Numbers(k)) = 0..k - 1
         /\ Len(Numbers(k)) = k /\ Numbers(k) \in Seq(Nat)
<1>1. DOMAIN Numbers(k) = 1..k /\ \A i \in 1..k : Numbers(k)[i] = i - 1
  BY DEF Numbers
<1>2. \A n \in 0..k - 1 : n + 1 \in 1..k /\ Numbers(k)[n + 1] = n
  BY <1>1
<1> QED BY <1>1, <1>2 DEF Numbers, ToSet

----------------------------------------------------------------------------
(* The inductive invariant *)

\* What is on the way, buffered or processed was sent.
Sent ==
    /\ client.processed <= server.sentSeq
    /\ client.received \subseteq 0..server.sentSeq
    /\ replies \subseteq 0..server.sentSeq /\ server.sent \subseteq 0..server.sentSeq
    /\ \A i \in DOMAIN toClient : toClient[i] \in 0..server.sentSeq \cup {Stop}
    /\ loop = "executing" => server.sentSeq < MaxSent

\* The reader was given what was processed; the rest is kept for it.
Given ==
    /\ delivered = Numbers(client.processed + 1)
    /\ acks \subseteq 0..client.processed
    /\ \A n \in 0..server.sentSeq : n \in server.sent \/ n <= client.processed

\* When a transport, a call and a stream end.
Ends ==
    /\ client.status # "connected" =>
         asks = {} /\ replies = {} /\ ~client.retryTimer.running
    /\ client.status = "connected" => call = "answered"
    /\ client.status = "started" => call # "answered" /\ client.processed = -1
    /\ completed # "no" => client.status = "stopped"
    /\ completed = "signal" => server.status = "stopped"
    /\ \A i \in DOMAIN toClient : toClient[i] = Stop => server.status = "stopped"

\* The messages up to b have arrived; the rest is on the way, perhaps with the
\* stop signal behind it.
Arrived(b) ==
    /\ b \in -1..server.sentSeq
    /\ Len(toClient) \in {server.sentSeq - b, server.sentSeq - b + 1}
    /\ \A i \in 1..server.sentSeq - b : toClient[i] = b + i
    /\ Len(toClient) = server.sentSeq - b + 1 => toClient[Len(toClient)] = Stop
    /\ client.status = "connected" => b <= client.processed
    /\ client.status = "started" => 0..b \subseteq client.received

InOrder ==
    ordered /\ lost = 0 =>
        /\ client.status # "stopped" => \E b \in Int : Arrived(b)
        /\ call = "answered" /\ completed = "signal" => client.processed = server.sentSeq

Inv == TransportTypeOK /\ Sent /\ Given /\ Ends /\ InOrder

----------------------------------------------------------------------------
(* The steps that give the reader nothing *)

LEMMA BrokerFailsStep ==
  ASSUME ConstantsAssumption, Inv, BrokerFails PROVE Inv'
<1> USE DEF Inv, BrokerFails, netVars, clientVars, serverVars
<1>1. TransportTypeOK'
  BY DEF TransportTypeOK, Seqs, Asked, NoTimer
<1>2. Sent'
  BY DEF TransportTypeOK, Sent
<1>3. Given'
  BY DEF TransportTypeOK, Given
<1>4. Ends'
  BY DEF TransportTypeOK, Ends, NoTimer
<1>5. InOrder'
  BY DEF TransportTypeOK, Ends, InOrder, Arrived
<1> QED BY <1>1, <1>2, <1>3, <1>4, <1>5

LEMMA ExitStep ==
  ASSUME ConstantsAssumption, Inv, Exit PROVE Inv'
<1> USE DEF Inv, Exit, StopClient, netVars, clientVars, serverVars
<1>1. TransportTypeOK'
  BY DEF TransportTypeOK, Seqs, Asked, NoTimer
<1>2. Sent'
  BY DEF TransportTypeOK, Sent
<1>3. Given'
  BY DEF TransportTypeOK, Given
<1>4. Ends'
  BY DEF TransportTypeOK, Ends, NoTimer
<1>5. InOrder'
  BY DEF TransportTypeOK, Ends, InOrder, Arrived
<1> QED BY <1>1, <1>2, <1>3, <1>4, <1>5

LEMMA KeepAliveArrivesStep ==
  ASSUME ConstantsAssumption, Inv, KeepAliveArrives PROVE Inv'
<1> USE DEF Inv, KeepAliveArrives, Subscribed, netVars, clientVars, serverVars
<1>1. TransportTypeOK'
  BY DEF TransportTypeOK, Seqs, Asked, NoTimer
<1>2. Sent'
  BY DEF TransportTypeOK, Sent
<1>3. Given'
  BY DEF TransportTypeOK, Given
<1>4. Ends'
  BY DEF TransportTypeOK, Ends, NoTimer
<1>5. InOrder'
  BY DEF TransportTypeOK, Ends, InOrder, Arrived
<1> QED BY <1>1, <1>2, <1>3, <1>4, <1>5

LEMMA ClientDiesStep ==
  ASSUME ConstantsAssumption, Inv, ClientDies PROVE Inv'
<1> USE DEF Inv, ClientDies, StopClient, netVars, clientVars, serverVars
<1>1. TransportTypeOK'
  BY DEF TransportTypeOK, Seqs, Asked, NoTimer
<1>2. Sent'
  BY DEF TransportTypeOK, Sent
<1>3. Given'
  BY DEF TransportTypeOK, Given
<1>4. Ends'
  BY DEF TransportTypeOK, Ends, NoTimer
<1>5. InOrder'
  BY DEF TransportTypeOK, Ends, InOrder, Arrived
<1> QED BY <1>1, <1>2, <1>3, <1>4, <1>5

LEMMA RetryTimerFiresStep ==
  ASSUME ConstantsAssumption, Inv, RetryTimerFires PROVE Inv'
<1> USE DEF Inv, RetryTimerFires, netVars, clientVars, serverVars
<1>1. TransportTypeOK'
  <2>1. client.retryTimer \in [seq : Asked, running : BOOLEAN]
    BY DEF TransportTypeOK, NoTimer
  <2>2. /\ client.retryTimer.seq \in Asked
        /\ [client.retryTimer EXCEPT !.running = FALSE] \in [seq : Asked, running : BOOLEAN]
    BY <2>1
  <2> QED BY <2>2 DEF TransportTypeOK
<1>2. Sent'
  BY DEF TransportTypeOK, Sent
<1>3. Given'
  BY DEF TransportTypeOK, Given
<1>4. Ends'
  BY DEF TransportTypeOK, Ends, NoTimer
<1>5. InOrder'
  BY DEF TransportTypeOK, Ends, InOrder, Arrived
<1> QED BY <1>1, <1>2, <1>3, <1>4, <1>5

LEMMA ServeSubscribeStep ==
  ASSUME ConstantsAssumption, Inv, ServeSubscribe PROVE Inv'
<1> USE DEF Inv, ServeSubscribe, netVars, clientVars, serverVars
<1>1. TransportTypeOK'
  <2>1. server' \in [status : {"init", "connected", "stopped"},
                    sentSeq : Seqs \cup {-1}, sent : SUBSET Seqs]
    BY DEF TransportTypeOK
  <2> QED BY <2>1 DEF TransportTypeOK
<1>2. Sent'
  BY DEF TransportTypeOK, Sent
<1>3. Given'
  BY DEF TransportTypeOK, Given
<1>4. Ends'
  BY DEF TransportTypeOK, Ends, NoTimer
<1>5. InOrder'
  BY DEF TransportTypeOK, Ends, InOrder, Arrived
<1> QED BY <1>1, <1>2, <1>3, <1>4, <1>5

LEMMA TakeEventStep ==
  ASSUME ConstantsAssumption, Inv, TakeEvent PROVE Inv'
<1> USE DEF Inv, TakeEvent, netVars, clientVars, serverVars
<1>1. TransportTypeOK'
  BY DEF TransportTypeOK, Seqs, Asked, NoTimer
<1>2. Sent'
  BY DEF TransportTypeOK, Sent
<1>3. Given'
  BY DEF TransportTypeOK, Given
<1>4. Ends'
  BY DEF TransportTypeOK, Ends, NoTimer
<1>5. InOrder'
  BY DEF TransportTypeOK, Ends, InOrder, Arrived
<1> QED BY <1>1, <1>2, <1>3, <1>4, <1>5

LEMMA AnswerNackStep ==
  ASSUME ConstantsAssumption, Inv, NEW seq \in Asked, AnswerNack(seq) PROVE Inv'
<1> USE DEF Inv, AnswerNack, netVars, clientVars, serverVars
<1>1. TransportTypeOK'
  BY DEF TransportTypeOK, Seqs, Asked, NoTimer
<1>2. Sent'
  BY DEF TransportTypeOK, Sent
<1>3. Given'
  BY DEF TransportTypeOK, Given
<1>4. Ends'
  BY DEF TransportTypeOK, Ends, NoTimer
<1>5. InOrder'
  BY DEF TransportTypeOK, Ends, InOrder, Arrived
<1> QED BY <1>1, <1>2, <1>3, <1>4, <1>5

LEMMA NackFailsStep ==
  ASSUME ConstantsAssumption, Inv, NEW seq \in Asked, NackFails(seq) PROVE Inv'
<1> USE DEF Inv, netVars, clientVars, serverVars
<1>1. CASE StopClient("error")
  <2>1. TransportTypeOK'
    BY <1>1 DEF NackFails, StopClient, TransportTypeOK, NoTimer
  <2>2. Sent' /\ Given'
    BY <1>1 DEF NackFails, StopClient, TransportTypeOK, Sent, Given
  <2>3. Ends'
    BY <1>1 DEF NackFails, StopClient, TransportTypeOK, Ends, NoTimer
  <2>4. InOrder'
    BY <1>1 DEF NackFails, StopClient, TransportTypeOK, Ends, InOrder, Arrived
  <2> QED BY <2>1, <2>2, <2>3, <2>4
<1>2. CASE asks' = asks \ {seq} /\ replies' = replies \ {seq} /\ UNCHANGED <<client, completed, stopping>>
  <2>1. /\ asks' \subseteq asks /\ replies' \subseteq replies
        /\ UNCHANGED <<ordered, call, client, delivered, completed, serverVars, netVars>>
    BY <1>2 DEF NackFails
  <2>2. TransportTypeOK'
    BY <2>1 DEF TransportTypeOK
  <2>3. Sent' /\ Given'
    BY <2>1 DEF TransportTypeOK, Sent, Given
  <2>4. Ends'
    BY <2>1 DEF TransportTypeOK, Ends
  <2>5. InOrder'
    BY <2>1 DEF TransportTypeOK, Ends, InOrder, Arrived
  <2> QED BY <2>2, <2>3, <2>4, <2>5
<1> QED BY <1>1, <1>2 DEF NackFails

LEMMA AckArrivesStep ==
  ASSUME ConstantsAssumption, Inv, NEW seq \in Seqs, AckArrives(seq) PROVE Inv'
<1> USE DEF Inv, AckArrives, netVars, clientVars, serverVars
<1>1. TransportTypeOK'
  <2>1. server' \in [status : {"init", "connected", "stopped"},
                    sentSeq : Seqs \cup {-1}, sent : SUBSET Seqs]
    BY DEF TransportTypeOK
  <2>2. acks' \subseteq Seqs
    BY DEF TransportTypeOK
  <2> QED BY <2>1, <2>2 DEF TransportTypeOK
<1>2. Sent'
  BY DEF TransportTypeOK, Sent
<1>3. Given'
  BY DEF TransportTypeOK, Given
<1>4. Ends'
  BY DEF TransportTypeOK, Ends, NoTimer
<1>5. InOrder'
  BY DEF TransportTypeOK, Ends, InOrder, Arrived
<1> QED BY <1>1, <1>2, <1>3, <1>4, <1>5

----------------------------------------------------------------------------
(* The steps that give the reader messages *)

\* The receiver's record was moved on to d, by what was in the buffer.
LEMMA ReceiveKeeps ==
  ASSUME ConstantsAssumption, Inv, NEW d \in ClientType, NEW buffer,
         buffer \subseteq 0..server.sentSeq, d.processed >= client.processed,
         client.processed + 1..d.processed \subseteq buffer,
         Receive(client, d, buffer), server' = server
  PROVE  /\ client' = d /\ d.processed <= server.sentSeq
         /\ acks' \subseteq Seqs /\ delivered' \in Seq(Seqs)
         /\ Given'
<1> DEFINE a == client.processed
           b == d.processed
<1>1. /\ a \in Int /\ b \in Int /\ -1 <= a /\ a <= b /\ b \in Seqs \cup {-1}
      /\ server.sentSeq \in Int /\ a <= server.sentSeq
  BY SeqsType DEF Inv, Sent, TransportTypeOK, ClientType
<1>2. delivered = Numbers(a + 1) /\ acks \subseteq 0..a
  BY DEF Inv, Given
<1>3. client' = d /\ delivered' = Numbers(b + 1) /\ acks' \subseteq 0..b
  BY <1>1, <1>2, Delivers
<1>4. b <= server.sentSeq
  <2>1. CASE b = a
    BY <1>1, <2>1
  <2>2. CASE b > a
    <3>1. b \in a + 1..b
      BY <1>1, <2>2
    <3>2. b \in 0..server.sentSeq
      BY <3>1
    <3> QED BY <3>2
  <2> QED BY <1>1, <2>1, <2>2
<1>5. 0..b \subseteq Seqs
  BY <1>1, SeqsType DEF Seqs, ConstantsAssumption
<1>6. delivered' \in Seq(Seqs)
  <2>1. b + 1 \in Nat /\ \A i \in 1..b + 1 : i - 1 \in 0..b
    BY <1>1
  <2>2. \A i \in 1..b + 1 : i - 1 \in Seqs
    BY <1>5, <2>1
  <2> QED BY <1>3, <2>1, <2>2 DEF Numbers
<1>7. \A n \in 0..server.sentSeq : n \in server.sent \/ n <= b
  BY <1>1 DEF Inv, Given
<1> QED BY <1>3, <1>4, <1>5, <1>6, <1>7 DEF Given

LEMMA ClientTypeOK == ASSUME TransportTypeOK PROVE client \in ClientType
BY DEF TransportTypeOK, ClientType

\* A message that comes to the connected transport as c, in time or asked for.
LEMMA HandleKeeps ==
  ASSUME ConstantsAssumption, Inv, NEW c \in ClientType, NEW seq \in 0..server.sentSeq,
         c.processed = client.processed, c.received = client.received,
         c.status = client.status, client.status = "connected",
         NEW d \in ClientType, d.processed = HandleMessage(c, seq).processed,
         d.received = HandleMessage(c, seq).received, d.status = HandleMessage(c, seq).status,
         Receive(client, d, client.received \cup {seq}), server' = server
  PROVE  /\ client' = d /\ d.status = "connected" /\ d.processed <= server.sentSeq
         /\ d.processed >= client.processed
         /\ seq = client.processed + 1 => seq <= d.processed
         /\ d.received \subseteq 0..server.sentSeq
         /\ acks' \subseteq Seqs /\ delivered' \in Seq(Seqs) /\ Given'
<1>1. seq \in Seqs
  <2>1. server.sentSeq \in Seqs \cup {-1}
    BY DEF Inv, TransportTypeOK
  <2> QED BY <2>1, SeqsType DEF Seqs, ConstantsAssumption
<1>2. /\ d.status = c.status /\ d.processed >= c.processed
      /\ c.processed + 1..d.processed \subseteq c.received \cup {seq}
      /\ d.received \subseteq c.received \cup {seq}
      /\ seq = c.processed + 1 => seq <= d.processed
  BY <1>1, HandleAdvances
<1>3. client.received \cup {seq} \subseteq 0..server.sentSeq
  BY DEF Inv, Sent
<1> DEFINE buffer == client.received \cup {seq}
<1> HIDE DEF buffer
<1>4. /\ client' = d /\ d.processed <= server.sentSeq
      /\ acks' \subseteq Seqs /\ delivered' \in Seq(Seqs) /\ Given'
  <2>1. /\ buffer \subseteq 0..server.sentSeq /\ d.processed >= client.processed
        /\ client.processed + 1..d.processed \subseteq buffer
        /\ Receive(client, d, buffer)
    BY <1>2, <1>3 DEF buffer
  <2> QED BY <2>1, ReceiveKeeps
<1> QED BY <1>2, <1>3, <1>4

LEMMA NackAnsweredStep ==
  ASSUME ConstantsAssumption, Inv, NEW seq \in Asked, NackAnswered(seq) PROVE Inv'
<1> DEFINE d == HandleMessage(client, seq)
<1>1. /\ seq \in replies /\ replies' = replies \ {seq}
      /\ Receive(client, d, client.received \cup {seq})
      /\ UNCHANGED <<ordered, call, asks, completed, server, loop, toClient, stopping, lost>>
  BY DEF NackAnswered, serverVars
<1>2. client.status = "connected" /\ seq \in Seqs /\ seq \in 0..server.sentSeq
  BY <1>1 DEF Inv, Ends, Sent, TransportTypeOK
<1>3. client \in ClientType /\ d \in ClientType
  BY <1>2, ClientTypeOK, HandleAdvances DEF Inv
<1>4. /\ client' = d /\ d.status = "connected" /\ d.processed <= server.sentSeq
      /\ d.processed >= client.processed /\ d.received \subseteq 0..server.sentSeq
      /\ acks' \subseteq Seqs /\ delivered' \in Seq(Seqs) /\ Given'
  BY <1>1, <1>2, <1>3, HandleKeeps
<1> HIDE DEF d
<1>5. TransportTypeOK'
  BY <1>1, <1>3, <1>4 DEF Inv, TransportTypeOK, ClientType
<1>6. Sent'
  BY <1>1, <1>4 DEF Inv, Sent
<1>7. Ends'
  BY <1>1, <1>2, <1>4 DEF Inv, Ends
<1>8. InOrder'
  <2>1. client.processed \in Int /\ d.processed \in Int
    BY <1>3, SeqsType DEF ClientType
  <2>2. ASSUME NEW b \in Int, Arrived(b) PROVE Arrived(b)'
    BY <1>1, <1>2, <1>4, <2>1, <2>2 DEF Arrived
  <2>3. completed' # "signal"
    BY <1>1, <1>2 DEF Inv, Ends
  <2> QED BY <1>1, <1>2, <2>2, <2>3 DEF Inv, InOrder
<1> QED BY <1>4, <1>5, <1>6, <1>7, <1>8 DEF Inv

----------------------------------------------------------------------------
(* The messages on their way *)

LEMMA RemoveAtKeeps ==
  ASSUME NEW S, NEW s \in Seq(S), NEW i \in 1..Len(s)
  PROVE  LET r == RemoveAt(s, i)
         IN  /\ r \in Seq(S) /\ Len(r) = Len(s) - 1
             /\ \A j \in 1..Len(s) - 1 : r[j] = IF j < i THEN s[j] ELSE s[j + 1]
             /\ \A j \in DOMAIN r : \E k \in DOMAIN s : r[j] = s[k]
<1> DEFINE f == SubSeq(s, 1, i - 1)
           g == SubSeq(s, i + 1, Len(s))
           r == f \o g
<1>1. Len(s) \in Nat
  OBVIOUS
<1>2. f \in Seq(S) /\ Len(f) = i - 1 /\ \A j \in 1..i - 1 : f[j] = s[j]
  BY <1>1
<1>3. g \in Seq(S) /\ Len(g) = Len(s) - i /\ \A j \in 1..Len(s) - i : g[j] = s[j + i]
  BY <1>1
<1> HIDE DEF f, g
<1>4. /\ r \in Seq(S) /\ Len(r) = Len(f) + Len(g)
      /\ \A j \in 1..Len(f) + Len(g) : r[j] = IF j <= Len(f) THEN f[j] ELSE g[j - Len(f)]
  BY <1>2, <1>3, ConcatProperties
<1>5. RemoveAt(s, i) = r
  BY DEF RemoveAt, f, g
<1> HIDE DEF r
<1>6. Len(r) = Len(s) - 1 /\ Len(f) + Len(g) = Len(s) - 1
  BY <1>1, <1>2, <1>3, <1>4
<1>7. ASSUME NEW j \in 1..Len(s) - 1 PROVE r[j] = IF j < i THEN s[j] ELSE s[j + 1]
  <2>1. r[j] = IF j <= i - 1 THEN f[j] ELSE g[j - (i - 1)]
    BY <1>2, <1>4, <1>6
  <2>2. CASE j < i
    BY <1>2, <2>1, <2>2
  <2>3. CASE ~(j < i)
    <3>1. j - (i - 1) \in 1..Len(s) - i /\ j - (i - 1) + i = j + 1
      BY <1>1, <2>3
    <3>2. g[j - (i - 1)] = s[j + 1]
      BY <1>3, <3>1
    <3> QED BY <2>1, <2>3, <3>2
  <2> QED BY <2>2, <2>3
<1>8. ASSUME NEW j \in DOMAIN r PROVE \E k \in DOMAIN s : r[j] = s[k]
  <2>1. j \in 1..Len(s) - 1
    BY <1>4, <1>6
  <2>2. j \in DOMAIN s /\ j + 1 \in DOMAIN s
    BY <1>1, <2>1
  <2> QED BY <1>7, <2>1, <2>2
<1> QED BY <1>4, <1>5, <1>6, <1>7, <1>8

\* What is left on the way when one message is gone.
LEMMA ChannelKeeps ==
  ASSUME Inv, NEW i \in DOMAIN toClient, toClient' = RemoveAt(toClient, i)
  PROVE  /\ toClient' \in Seq(Seqs \cup {Stop}) /\ Len(toClient') = Len(toClient) - 1
         /\ \A j \in DOMAIN toClient' : \E k \in DOMAIN toClient : toClient'[j] = toClient[k]
         /\ i = 1 => \A j \in 1..Len(toClient) - 1 : toClient'[j] = toClient[j + 1]
<1>1. toClient \in Seq(Seqs \cup {Stop}) /\ i \in 1..Len(toClient)
  BY DEF Inv, TransportTypeOK
<1> QED BY <1>1, RemoveAtKeeps

LEMMA LoseStep ==
  ASSUME ConstantsAssumption, Inv, NEW i \in DOMAIN toClient, Lose(i) PROVE Inv'
<1>1. /\ lost < MaxLost /\ lost' = lost + 1 /\ toClient' = RemoveAt(toClient, i)
      /\ UNCHANGED <<ordered, clientVars, serverVars, acks, stopping>>
  BY DEF Lose
<1>2. /\ toClient' \in Seq(Seqs \cup {Stop})
      /\ \A j \in DOMAIN toClient' : \E k \in DOMAIN toClient : toClient'[j] = toClient[k]
  BY <1>1, ChannelKeeps
<1>3. TransportTypeOK'
  BY <1>1, <1>2 DEF Inv, TransportTypeOK, clientVars, serverVars, ConstantsAssumption
<1>4. Sent' /\ Given'
  BY <1>1, <1>2 DEF Inv, Sent, Given, clientVars, serverVars
<1>5. Ends'
  BY <1>1, <1>2 DEF Inv, Ends, clientVars, serverVars
<1>6. InOrder'
  BY <1>1 DEF Inv, TransportTypeOK, InOrder
<1> QED BY <1>3, <1>4, <1>5, <1>6 DEF Inv

\* The first message on the way is the next one; the rest stays on the way.
LEMMA ArrivedNext ==
  ASSUME ConstantsAssumption, Inv, NEW b \in Int, Arrived(b), 1 \in DOMAIN toClient,
         toClient[1] \in Seqs, toClient' = RemoveAt(toClient, 1), server' = server
  PROVE  /\ toClient[1] = b + 1 /\ b + 1 \in 0..server.sentSeq
         /\ /\ client'.status = "connected" => b + 1 <= client'.processed
            /\ client'.status = "started" => 0..b + 1 \subseteq client'.received
            => Arrived(b + 1)'
<1> DEFINE N == server.sentSeq
           k == N - b
<1>1. N \in Int /\ b <= N /\ -1 <= b /\ toClient[1] # Stop
  BY SeqsType DEF Inv, TransportTypeOK, Arrived, Stop, Seqs, ConstantsAssumption
<1>2. Len(toClient) \in Nat /\ Len(toClient) >= 1
  BY DEF Inv, TransportTypeOK
<1>3. /\ Len(toClient) \in {k, k + 1} /\ \A i \in 1..k : toClient[i] = b + i
      /\ Len(toClient) = k + 1 => toClient[Len(toClient)] = Stop
  BY DEF Arrived
<1>4. k >= 1 /\ k \in Int
  BY <1>1, <1>2, <1>3
<1>5. toClient[1] = b + 1
  BY <1>3, <1>4
<1>6. /\ Len(toClient') = Len(toClient) - 1
      /\ \A j \in 1..Len(toClient) - 1 : toClient'[j] = toClient[j + 1]
  BY ChannelKeeps
<1>7. b + 1 \in -1..N /\ N - (b + 1) = k - 1
  BY <1>1, <1>4
<1>8. Len(toClient') \in {N - (b + 1), N - (b + 1) + 1}
  BY <1>2, <1>3, <1>4, <1>6, <1>7
<1>9. ASSUME NEW j \in 1..N - (b + 1) PROVE toClient'[j] = b + 1 + j
  <2>1. j + 1 \in 1..k /\ j \in 1..Len(toClient) - 1 /\ b + (j + 1) = b + 1 + j
    BY <1>2, <1>3, <1>4, <1>7
  <2> QED BY <1>3, <1>6, <2>1
<1>10. ASSUME Len(toClient') = N - (b + 1) + 1 PROVE toClient'[Len(toClient')] = Stop
  <2>1. Len(toClient) = k + 1 /\ Len(toClient') \in 1..Len(toClient) - 1
    BY <1>2, <1>4, <1>6, <1>7, <1>10
  <2> QED BY <1>2, <1>3, <1>6, <2>1
<1>11. b + 1 \in 0..N
  BY <1>1, <1>4
<1>12. ASSUME client'.status = "connected" => b + 1 <= client'.processed,
              client'.status = "started" => 0..b + 1 \subseteq client'.received
       PROVE  Arrived(b + 1)'
  <2>1. N' = N
    OBVIOUS
  <2> HIDE DEF N
  <2>2. server.sentSeq = N /\ server'.sentSeq = N
    BY <2>1 DEF N
  <2> QED BY <1>7, <1>8, <1>9, <1>10, <1>12, <2>2 DEF Arrived
<1> QED BY <1>5, <1>11, <1>12

LEMMA ReceiveMessageStep ==
  ASSUME ConstantsAssumption, Inv, NEW i \in DOMAIN toClient, Arrives(i),
         toClient[i] \in Seqs, ReceiveMessage(toClient[i])
  PROVE  Inv'
<1> DEFINE seq == toClient[i]
           c == [client EXCEPT !.armed = TRUE]
           h == HandleMessage(c, seq)
           d == OnReceivedSeq(h, seq)
<1>1. /\ toClient' = RemoveAt(toClient, i) /\ i \in Arriving
      /\ UNCHANGED <<ordered, call, server, loop, lost>>
      /\ UNCHANGED <<asks, replies, completed, stopping>>
  BY DEF Arrives, ReceiveMessage, serverVars
<1>2. /\ toClient' \in Seq(Seqs \cup {Stop})
      /\ \A j \in DOMAIN toClient' : \E k \in DOMAIN toClient : toClient'[j] = toClient[k]
  BY <1>1, ChannelKeeps
<1>3. seq \in Seqs /\ seq \in 0..server.sentSeq
  BY DEF Inv, Sent, Stop, Seqs
<1> HIDE DEF seq
<1>4. client \in ClientType
  BY ClientTypeOK DEF Inv
<1>5. ASSUME /\ client'.status = client.status /\ Subscribed /\ client' \in ClientType
             /\ client.status = "started" =>
                  client'.processed = -1 /\ client'.received = client.received \cup {seq}
             /\ client.status = "connected" =>
                  /\ client'.processed >= client.processed
                  /\ seq = client.processed + 1 => seq <= client'.processed
             /\ client'.processed <= server.sentSeq
             /\ client'.received \subseteq 0..server.sentSeq
             /\ acks' \subseteq Seqs /\ delivered' \in Seq(Seqs) /\ Given'
      PROVE  Inv'
  <2>1. TransportTypeOK'
    BY <1>1, <1>2, <1>5 DEF Inv, TransportTypeOK, ClientType
  <2>2. Sent'
    BY <1>1, <1>2, <1>5 DEF Inv, Sent
  <2>3. completed = "no" /\ completed' = "no"
    BY <1>1, <1>5 DEF Inv, Ends, TransportTypeOK, Subscribed
  <2>4. Ends'
    <3>1. client'.status = "connected" => call' = "answered"
      BY <1>1, <1>5 DEF Inv, Ends
    <3>2. client'.status = "started" => call' # "answered" /\ client'.processed = -1
      BY <1>1, <1>5 DEF Inv, Ends
    <3>3. \A j \in DOMAIN toClient' : toClient'[j] = Stop => server'.status = "stopped"
      BY <1>1, <1>2 DEF Inv, Ends
    <3>4. client'.status # "connected" =>
            asks' = {} /\ replies' = {} /\ ~client'.retryTimer.running
      <4>1. CASE client.status = "connected"
        BY <1>5, <4>1
      <4>2. CASE client.status = "started"
        <5>1. client' = [client EXCEPT !.received = @ \cup {seq}, !.armed = TRUE]
          BY <4>2 DEF ReceiveMessage, seq
        <5>2. client'.retryTimer = client.retryTimer
          BY <1>4, <5>1 DEF ClientType
        <5> QED BY <1>1, <4>2, <5>2 DEF Inv, Ends
      <4> QED BY <1>5, <4>1, <4>2 DEF Subscribed
    <3> QED BY <2>3, <3>1, <3>2, <3>3, <3>4 DEF Ends
  <2>5. ASSUME ordered', lost' = 0 PROVE \E b \in Int : Arrived(b)'
    <3>1. i = 1 /\ seq = toClient[1]
      BY <1>1, <2>5 DEF Arriving, seq
    <3>2. PICK b \in Int : Arrived(b)
      BY <1>1, <1>5, <2>5 DEF Inv, InOrder, Subscribed
    <3>3. seq = b + 1 /\ b + 1 \in 0..server.sentSeq
      BY <1>1, <1>3, <3>1, <3>2, ArrivedNext
    <3>4. client'.status = "connected" => b + 1 <= client'.processed
      <4>1. client.processed \in Int /\ client'.processed \in Int
        BY <1>4, <1>5, SeqsType DEF ClientType
      <4>2. client.status = "connected" => b <= client.processed
        BY <3>2 DEF Arrived
      <4> QED BY <1>5, <3>3, <4>1, <4>2
    <3>5. client'.status = "started" => 0..b + 1 \subseteq client'.received
      <4>1. 0..b + 1 \subseteq (0..b) \cup {b + 1}
        OBVIOUS
      <4>2. client.status = "started" => 0..b \subseteq client.received
        BY <3>2 DEF Arrived
      <4> QED BY <1>5, <3>3, <4>1, <4>2
    <3>6. Arrived(b + 1)'
      BY <1>1, <1>3, <3>1, <3>2, <3>4, <3>5, ArrivedNext
    <3> QED BY <3>6
  <2>6. InOrder'
    BY <2>3, <2>5 DEF InOrder
  <2> QED BY <1>5, <2>1, <2>2, <2>4, <2>6 DEF Inv
<1>6. CASE client.status = "connected"
  <2>1. Receive(client, d, client.received \cup {seq})
    BY <1>6 DEF ReceiveMessage, seq
  <2>2. /\ c \in ClientType /\ c.processed = client.processed
        /\ c.received = client.received /\ c.status = client.status
    BY <1>4 DEF ClientType
  <2> HIDE DEF c
  <2>3. h \in ClientType
    BY <1>3, <2>2, HandleAdvances
  <2> HIDE DEF h
  <2>4. /\ d \in ClientType /\ d.status = h.status
        /\ d.received = h.received /\ d.processed = h.processed
    BY <1>3, <2>3, OnReceivedSeqKeeps
  <2> HIDE DEF d
  <2>5. /\ client' = d /\ d.status = "connected" /\ d.processed <= server.sentSeq
        /\ d.processed >= client.processed
        /\ seq = client.processed + 1 => seq <= d.processed
        /\ d.received \subseteq 0..server.sentSeq
        /\ acks' \subseteq Seqs /\ delivered' \in Seq(Seqs) /\ Given'
    BY <1>1, <1>3, <1>6, <2>1, <2>2, <2>4, HandleKeeps DEF h
  <2> QED BY <1>5, <1>6, <2>4, <2>5 DEF Subscribed
<1>7. CASE client.status = "started"
  <2>1. /\ client' = [client EXCEPT !.received = @ \cup {seq}, !.armed = TRUE]
        /\ UNCHANGED <<delivered, acks>>
    BY <1>7 DEF ReceiveMessage, seq
  <2>2. /\ client' \in ClientType /\ client'.status = "started"
        /\ client'.processed = client.processed
        /\ client'.received = client.received \cup {seq}
    BY <1>3, <1>4, <1>7, <2>1 DEF ClientType
  <2>3. client.processed = -1 /\ client.processed <= server.sentSeq
    BY <1>7 DEF Inv, Ends, Sent
  <2>4. Given'
    BY <1>1, <2>1, <2>2 DEF Inv, Given
  <2>5. acks' \subseteq Seqs /\ delivered' \in Seq(Seqs)
    BY <2>1 DEF Inv, TransportTypeOK
  <2>6. client'.received \subseteq 0..server.sentSeq
    BY <1>3, <2>2 DEF Inv, Sent
  <2> QED BY <1>5, <1>7, <2>2, <2>3, <2>4, <2>5, <2>6 DEF Subscribed
<1> QED BY <1>6, <1>7 DEF ReceiveMessage, Subscribed

LEMMA ReceiveStopStep ==
  ASSUME ConstantsAssumption, Inv, NEW i \in DOMAIN toClient, Arrives(i),
         toClient[i] = Stop, ReceiveStop
  PROVE  Inv'
<1>1. /\ toClient' = RemoveAt(toClient, i) /\ i \in Arriving
      /\ UNCHANGED <<ordered, call, server, loop, lost, delivered, acks>>
      /\ Subscribed
      /\ client' = [client EXCEPT !.status = "stopped", !.retryTimer = NoTimer]
      /\ completed' = "signal" /\ asks' = {} /\ replies' = {} /\ stopping' \in BOOLEAN
  BY DEF Arrives, ReceiveStop, StopClient, serverVars, Inv, TransportTypeOK
<1>2. /\ toClient' \in Seq(Seqs \cup {Stop})
      /\ \A j \in DOMAIN toClient' : \E k \in DOMAIN toClient : toClient'[j] = toClient[k]
  BY <1>1, ChannelKeeps
<1>3. client \in ClientType
  BY ClientTypeOK DEF Inv
<1>4. /\ client' \in ClientType /\ client'.status = "stopped"
      /\ client'.processed = client.processed /\ client'.received = client.received
      /\ client'.retryTimer = NoTimer
  BY <1>1, <1>3 DEF ClientType
<1>5. TransportTypeOK'
  BY <1>1, <1>2, <1>4 DEF Inv, TransportTypeOK, ClientType
<1>6. Sent' /\ Given'
  BY <1>1, <1>2, <1>4 DEF Inv, Sent, Given
<1>7. Ends'
  <2>1. server.status = "stopped"
    BY DEF Inv, Ends
  <2> QED BY <1>1, <1>2, <1>4, <2>1 DEF Ends, NoTimer
<1>8. ASSUME ordered', lost' = 0, call' = "answered"
      PROVE  client'.processed = server'.sentSeq
  <2>1. i = 1 /\ toClient[1] = Stop /\ client.status = "connected"
    BY <1>1, <1>8 DEF Arriving, Subscribed, Inv, Ends
  <2>2. PICK b \in Int : Arrived(b)
    BY <1>1, <1>8, <2>1 DEF Inv, InOrder
  <2>3. server.sentSeq \in Int /\ -1 <= b /\ b <= server.sentSeq
    BY <2>2, SeqsType DEF Inv, TransportTypeOK, Arrived
  <2>4. ~(server.sentSeq - b >= 1)
    <3>1. server.sentSeq - b >= 1 => toClient[1] = b + 1
      BY <2>2, <2>3 DEF Arrived
    <3> QED BY <2>1, <2>3, <3>1 DEF Stop
  <2>5. b <= client.processed /\ client.processed <= server.sentSeq /\ client.processed \in Int
    BY <1>3, <2>1, <2>2, SeqsType DEF Arrived, Inv, Sent, ClientType
  <2>6. client.processed = server.sentSeq
    BY <2>3, <2>4, <2>5
  <2> QED BY <1>1, <1>4, <2>6
<1>9. InOrder'
  BY <1>4, <1>8 DEF InOrder
<1> QED BY <1>5, <1>6, <1>7, <1>9 DEF Inv

\* The answer of the broker: what was buffered before is flushed.
LEMMA BrokerAnswersStep ==
  ASSUME ConstantsAssumption, Inv, BrokerAnswers PROVE Inv'
<1>1. CASE client.status = "started" /\ call' = "answered" /\ Connect
  <2> DEFINE g == Greatest({client.receivedSeq} \cup client.received)
             c == [client EXCEPT !.status = "connected", !.armed = TRUE, !.receivedSeq = g]
             f == FlushIfNeeded(c)
             d == OnAllPendingProcessed(f)
  <2>1. client \in ClientType
    BY ClientTypeOK DEF Inv
  <2>2. g \in Seqs \cup {-1}
    <3>1. /\ {client.receivedSeq} \cup client.received \in SUBSET (Seqs \cup {-1})
          /\ {client.receivedSeq} \cup client.received # {}
      BY <2>1 DEF ClientType
    <3>2. /\ {client.receivedSeq} \cup client.received \in SUBSET Int
          /\ \A x \in {client.receivedSeq} \cup client.received : x <= MaxSent
      BY <3>1, SeqsType
    <3>3. g \in {client.receivedSeq} \cup client.received
      BY <3>1, <3>2, SeqsType, GreatestIs
    <3> QED BY <3>1, <3>3
  <2>3. Receive(client, d, client.received)
    BY <1>1 DEF Connect
  <2> HIDE DEF g
  <2>4. /\ c \in ClientType /\ c.status = "connected" /\ c.received = client.received
        /\ c.processed = client.processed
    BY <2>1, <2>2 DEF ClientType
  <2> HIDE DEF c
  <2>5. /\ f \in ClientType /\ f.status = "connected" /\ f.received = client.received
        /\ f.processed >= client.processed
        /\ client.processed + 1..f.processed \subseteq client.received
        /\ \A n \in client.received :
             client.processed + 1..n \subseteq client.received => n <= f.processed
    BY <2>4, FlushAdvances
  <2> HIDE DEF f
  <2>6. /\ d \in ClientType /\ d.status = "connected" /\ d.received = client.received
        /\ d.processed = f.processed
    BY <2>5, OnAllPendingProcessedKeeps
  <2> HIDE DEF d
  <2>7. UNCHANGED <<ordered, asks, replies, completed, server, loop, toClient, stopping, lost>>
    BY DEF BrokerAnswers, serverVars
  <2>8. client.received \subseteq 0..server.sentSeq
    BY DEF Inv, Sent
  <2>9. /\ client' = d /\ d.processed <= server.sentSeq
        /\ acks' \subseteq Seqs /\ delivered' \in Seq(Seqs) /\ Given'
    BY <2>3, <2>5, <2>6, <2>7, <2>8, ReceiveKeeps
  <2>10. TransportTypeOK'
    BY <1>1, <2>6, <2>7, <2>9 DEF Inv, TransportTypeOK, ClientType
  <2>11. Sent'
    BY <2>6, <2>7, <2>8, <2>9 DEF Inv, Sent
  <2>12. Ends'
    BY <1>1, <2>6, <2>7, <2>9 DEF Inv, Ends
  <2>13. InOrder'
    <3>1. completed' # "signal"
      BY <1>1, <2>7 DEF Inv, Ends
    <3>2. ASSUME NEW b \in Int, Arrived(b) PROVE Arrived(b)'
      <4>1. b <= d.processed
        <5>1. 0..b \subseteq client.received /\ client.processed = -1 /\ -1 <= b
          BY <1>1, <3>2, SeqsType DEF Arrived, Inv, Ends, TransportTypeOK
        <5>2. CASE b = -1
          BY <2>5, <2>6, <5>1, <5>2, SeqsType DEF ClientType
        <5>3. CASE b >= 0
          <6>1. b \in client.received /\ client.processed + 1..b \subseteq client.received
            BY <5>1, <5>3
          <6> QED BY <2>5, <2>6, <6>1
        <5> QED BY <5>1, <5>2, <5>3
      <4> QED BY <2>6, <2>7, <2>9, <3>2, <4>1 DEF Arrived
    <3> QED BY <1>1, <2>7, <3>1, <3>2 DEF Inv, InOrder
  <2> QED BY <2>9, <2>10, <2>11, <2>12, <2>13 DEF Inv
<1>2. CASE client.status = "stopped" /\ call' = "failed" /\ UNCHANGED <<client, delivered, acks>>
  <2>1. UNCHANGED <<ordered, asks, replies, completed, server, loop, toClient, stopping, lost>>
    BY DEF BrokerAnswers, serverVars
  <2>2. TransportTypeOK'
    BY <1>2, <2>1 DEF Inv, TransportTypeOK
  <2>3. Sent' /\ Given' /\ Ends'
    BY <1>2, <2>1 DEF Inv, Sent, Given, Ends
  <2>4. InOrder'
    BY <1>2, <2>1 DEF Inv, InOrder
  <2> QED BY <2>2, <2>3, <2>4 DEF Inv
<1> QED BY <1>1, <1>2 DEF BrokerAnswers

----------------------------------------------------------------------------
(* The executor *)

ServerType == [status : {"init", "connected", "stopped"},
               sentSeq : Seqs \cup {-1}, sent : SUBSET Seqs]

\* Nothing is behind the messages of a transport that has not stopped.
LEMMA NoStopYet ==
  ASSUME ConstantsAssumption, Inv, NEW b \in Int, Arrived(b), server.status # "stopped"
  PROVE  Len(toClient) = server.sentSeq - b
<1>1. CASE Len(toClient) = server.sentSeq - b + 1
  <2>1. toClient[Len(toClient)] = Stop /\ Len(toClient) \in DOMAIN toClient
    <3>1. /\ Len(toClient) \in Nat /\ DOMAIN toClient = 1..Len(toClient)
          /\ server.sentSeq - b \in Int /\ server.sentSeq - b >= 0
      BY SeqsType DEF Inv, TransportTypeOK, Arrived
    <3> QED BY <1>1, <3>1 DEF Arrived
  <2> QED BY <2>1 DEF Inv, Ends
<1> QED BY <1>1 DEF Arrived

\* The executor's transport and its loop go on to s and l; the messages x are sent.
LEMMA PublishKeeps ==
  ASSUME ConstantsAssumption, Inv, server.status = "connected",
         UNCHANGED <<ordered, clientVars, acks, lost>>, stopping' \in BOOLEAN,
         server' \in ServerType, server'.sentSeq \in {server.sentSeq, server.sentSeq + 1},
         server.sent \subseteq server'.sent, server'.sent \subseteq 0..server'.sentSeq,
         server'.sentSeq \in server.sent' \/ server'.sentSeq = server.sentSeq,
         loop' \in {"waiting", "executing", "ended"},
         loop' = "executing" => server'.sentSeq < MaxSent,
         toClient' \in Seq(Seqs \cup {Stop}),
         \A i \in DOMAIN toClient' :
           \/ \E j \in DOMAIN toClient : toClient'[i] = toClient[j]
           \/ toClient'[i] = server'.sentSeq /\ server'.sentSeq = server.sentSeq + 1
           \/ toClient'[i] = Stop /\ server'.status = "stopped",
         \A b \in Int : Arrived(b) => Arrived(b)'
  PROVE  Inv'
<1>1. server.sentSeq \in Int /\ server.sentSeq >= -1 /\ server'.sentSeq \in Int
  BY SeqsType DEF Inv, TransportTypeOK
<1>2. 0..server.sentSeq \subseteq 0..server'.sentSeq
  BY <1>1
<1>3. TransportTypeOK'
  BY DEF Inv, TransportTypeOK, ServerType, clientVars
<1>4. Sent'
  <2>1. client.processed \in Int
    BY SeqsType DEF Inv, TransportTypeOK
  <2>2. client'.processed <= server'.sentSeq
    BY <1>1, <2>1 DEF Inv, Sent, clientVars
  <2>3. client'.received \subseteq 0..server'.sentSeq /\ replies' \subseteq 0..server'.sentSeq
    BY <1>2 DEF Inv, Sent, clientVars
  <2>4. \A i \in DOMAIN toClient : toClient[i] \in 0..server'.sentSeq \cup {Stop}
    BY <1>2 DEF Inv, Sent
  <2>5. server'.sentSeq = server.sentSeq + 1 => server'.sentSeq \in 0..server'.sentSeq
    BY <1>1
  <2>6. \A i \in DOMAIN toClient' : toClient'[i] \in 0..server'.sentSeq \cup {Stop}
    BY <2>4, <2>5
  <2> QED BY <2>2, <2>3, <2>6 DEF Sent
<1>5. Given'
  <2>1. \A n \in 0..server'.sentSeq : n \in 0..server.sentSeq \/ n = server'.sentSeq
    BY <1>1
  <2>2. \A n \in 0..server'.sentSeq : n \in server'.sent \/ n <= client.processed
    BY <1>1, <2>1 DEF Inv, Given
  <2> QED BY <2>2 DEF Inv, Given, clientVars
<1>6. Ends'
  <2>1. completed' # "signal"
    BY DEF Inv, Ends, clientVars
  <2>2. \A i \in DOMAIN toClient' : toClient'[i] = Stop => server'.status = "stopped"
    <3>1. \A i \in DOMAIN toClient : toClient[i] # Stop
      BY DEF Inv, Ends
    <3>2. server'.sentSeq = server.sentSeq + 1 => server'.sentSeq # Stop
      BY <1>1 DEF Stop
    <3> QED BY <3>1, <3>2
  <2> QED BY <2>1, <2>2 DEF Inv, Ends, clientVars
<1>7. InOrder'
  <2>1. completed' # "signal"
    BY DEF Inv, Ends, clientVars
  <2>2. ASSUME ordered', lost' = 0, client'.status # "stopped"
        PROVE  \E b \in Int : Arrived(b)'
    BY <2>2 DEF Inv, InOrder, clientVars
  <2> QED BY <2>1, <2>2 DEF InOrder
<1> QED BY <1>3, <1>4, <1>5, <1>6, <1>7 DEF Inv

LEMMA SendEventStep ==
  ASSUME ConstantsAssumption, Inv, SendEvent PROVE Inv'
<1> DEFINE m == server.sentSeq + 1
<1>1. /\ server.sentSeq \in Int /\ server.sentSeq >= -1 /\ server.sentSeq < MaxSent
      /\ m \in Seqs /\ m \in 0..m /\ 0..server.sentSeq \subseteq 0..m
      /\ loop = "executing"
  BY SeqsType DEF Inv, TransportTypeOK, Sent, SendEvent, ConstantsAssumption, Seqs
<1>2. /\ toClient \in Seq(Seqs \cup {Stop}) /\ Len(toClient) \in Nat
      /\ DOMAIN toClient = 1..Len(toClient)
      /\ server \in ServerType /\ stopping \in BOOLEAN
  BY DEF Inv, TransportTypeOK, ServerType
<1>3. UNCHANGED <<ordered, clientVars, acks, stopping, lost>>
  BY DEF SendEvent
<1> DEFINE x == Append(toClient, m)
<1>4. /\ x \in Seq(Seqs \cup {Stop}) /\ Len(x) = Len(toClient) + 1
      /\ DOMAIN x = 1..Len(toClient) + 1 /\ x[Len(x)] = m
      /\ \A i \in 1..Len(toClient) : x[i] = toClient[i]
  BY <1>1, <1>2
<1>5. /\ m \in server.sent \cup {m} /\ server.sent \subseteq server.sent \cup {m}
      /\ server.sent \cup {m} \subseteq 0..m
  BY <1>1 DEF Inv, Sent
<1>6. CASE /\ server.status = "connected" /\ Send /\ loop' = "waiting"
  <2>1. /\ server' = [server EXCEPT !.sentSeq = m, !.sent = server.sent \cup {m}]
        /\ toClient' = x
    BY <1>6 DEF Send
  <2> HIDE DEF x, m
  <2>2. /\ server' \in ServerType /\ server'.status = "connected"
        /\ server'.sentSeq = m /\ server'.sent = server.sent \cup {m}
    BY <1>1, <1>2, <1>5, <1>6, <2>1 DEF ServerType
  <2>3. \A i \in DOMAIN toClient' :
          (\E j \in DOMAIN toClient : toClient'[i] = toClient[j]) \/ toClient'[i] = m
    BY <1>2, <1>4, <2>1
  <2>4. ASSUME NEW b \in Int, Arrived(b) PROVE Arrived(b)'
    <3>1. Len(toClient) = server.sentSeq - b
      BY <1>6, <2>4, NoStopYet
    <3>2. b \in -1..m /\ m - b = Len(toClient) + 1
      BY <1>1, <2>4, <3>1 DEF Arrived, m
    <3>3. \A i \in 1..m - b : toClient'[i] = b + i
      <4>1. \A i \in 1..Len(toClient) : toClient'[i] = b + i
        BY <1>4, <2>1, <2>4, <3>1 DEF Arrived
      <4>2. toClient'[Len(toClient) + 1] = m /\ m = b + (Len(toClient) + 1)
        BY <1>1, <1>2, <1>4, <2>1, <3>2
      <4> QED BY <1>2, <3>2, <4>1, <4>2
    <3>4. Len(toClient') = m - b
      BY <1>4, <2>1, <3>2
    <3>5. Len(toClient') # m - b + 1
      BY <1>1, <3>4
    <3>6. UNCHANGED client
      BY <1>3 DEF clientVars
    <3> QED BY <2>2, <2>4, <3>2, <3>3, <3>4, <3>5, <3>6 DEF Arrived
  <2>5. m = server.sentSeq + 1
    BY DEF m
  <2> HIDE DEF x
  <2> QED BY <1>1, <1>3, <1>2, <1>4, <1>5, <1>6, <2>1, <2>2, <2>3, <2>4, <2>5, PublishKeeps
<1>7. CASE /\ server.status = "connected"
           /\ server' = [server EXCEPT !.status = "stopped", !.sentSeq = @ + 1,
                                       !.sent = @ \cup {server.sentSeq + 1}]
           /\ toClient' = Append(Append(toClient, server.sentSeq + 1), Stop)
           /\ loop' = "ended"
  <2>1. toClient' = Append(x, Stop)
    BY <1>7
  <2>2. server' = [server EXCEPT !.status = "stopped", !.sentSeq = m,
                                 !.sent = server.sent \cup {m}]
    BY <1>7
  <2> HIDE DEF x, m
  <2>3. /\ server' \in ServerType /\ server'.status = "stopped"
        /\ server'.sentSeq = m /\ server'.sent = server.sent \cup {m}
    BY <1>1, <1>2, <1>5, <2>2 DEF ServerType
  <2>4. /\ toClient' \in Seq(Seqs \cup {Stop}) /\ Len(toClient') = Len(toClient) + 2
        /\ DOMAIN toClient' = 1..Len(toClient) + 2
        /\ \A i \in 1..Len(toClient) : toClient'[i] = toClient[i]
        /\ toClient'[Len(toClient) + 1] = m /\ toClient'[Len(toClient) + 2] = Stop
    BY <1>2, <1>4, <2>1
  <2>5. \A i \in DOMAIN toClient' :
          \/ \E j \in DOMAIN toClient : toClient'[i] = toClient[j]
          \/ toClient'[i] = m \/ toClient'[i] = Stop
    <3>1. \A i \in DOMAIN toClient' :
            i \in DOMAIN toClient \/ i = Len(toClient) + 1 \/ i = Len(toClient) + 2
      BY <1>2, <2>4
    <3> QED BY <1>2, <2>4, <3>1
  <2>6. ASSUME NEW b \in Int, Arrived(b) PROVE Arrived(b)'
    <3>1. Len(toClient) = server.sentSeq - b
      BY <1>7, <2>6, NoStopYet
    <3>2. b \in -1..m /\ m - b = Len(toClient) + 1
      BY <1>1, <2>6, <3>1 DEF Arrived, m
    <3>3. \A i \in 1..m - b : toClient'[i] = b + i
      <4>1. \A i \in 1..Len(toClient) : toClient'[i] = b + i
        BY <2>4, <2>6, <3>1 DEF Arrived
      <4>2. toClient'[Len(toClient) + 1] = m /\ m = b + (Len(toClient) + 1)
        BY <1>1, <1>2, <2>4, <3>2
      <4> QED BY <1>2, <3>2, <4>1, <4>2
    <3>4. Len(toClient') = m - b + 1 /\ toClient'[Len(toClient')] = Stop
      BY <1>1, <1>2, <2>4, <3>2
    <3>5. UNCHANGED client
      BY <1>3 DEF clientVars
    <3> QED BY <2>3, <2>6, <3>2, <3>3, <3>4, <3>5 DEF Arrived
  <2>7. m = server.sentSeq + 1
    BY DEF m
  <2> QED BY <1>1, <1>2, <1>3, <1>5, <1>7, <2>3, <2>4, <2>5, <2>6, <2>7, PublishKeeps
<1>8. CASE /\ server.status = "stopped" /\ loop' = "ended"
           /\ UNCHANGED <<server, toClient>>
  <2> USE <1>3, <1>8 DEF clientVars
  <2>1. TransportTypeOK'
    BY DEF Inv, TransportTypeOK
  <2>2. Sent' /\ Given' /\ Ends'
    BY DEF Inv, Sent, Given, Ends
  <2>3. InOrder'
    BY DEF Inv, InOrder, Arrived
  <2> QED BY <2>1, <2>2, <2>3 DEF Inv
<1> QED BY <1>6, <1>7, <1>8 DEF SendEvent

\* A stop signal behind everything that was sent.
LEMMA StopSent ==
  ASSUME ConstantsAssumption, Inv, server.status = "connected", StopServer,
         UNCHANGED <<ordered, clientVars, acks, lost>>, stopping' \in BOOLEAN,
         loop' = loop \/ loop' = "ended"
  PROVE  Inv'
<1>1. server.sentSeq \in Int /\ server.sentSeq >= -1
  BY SeqsType DEF Inv, TransportTypeOK
<1>2. /\ toClient \in Seq(Seqs \cup {Stop}) /\ Len(toClient) \in Nat
      /\ DOMAIN toClient = 1..Len(toClient) /\ server \in ServerType
      /\ loop' \in {"waiting", "executing", "ended"}
      /\ loop' = "executing" => server.sentSeq < MaxSent
      /\ server.sent \subseteq 0..server.sentSeq
  BY DEF Inv, TransportTypeOK, Sent, ServerType
<1>3. /\ server' \in ServerType /\ server'.status = "stopped"
      /\ server'.sentSeq = server.sentSeq /\ server'.sent = server.sent
  BY <1>2 DEF ServerType, StopServer
<1>4. /\ toClient' \in Seq(Seqs \cup {Stop}) /\ Len(toClient') = Len(toClient) + 1
      /\ DOMAIN toClient' = 1..Len(toClient) + 1
      /\ \A i \in 1..Len(toClient) : toClient'[i] = toClient[i]
      /\ toClient'[Len(toClient) + 1] = Stop
  BY <1>2 DEF StopServer
<1>5. \A i \in DOMAIN toClient' :
        (\E j \in DOMAIN toClient : toClient'[i] = toClient[j]) \/ toClient'[i] = Stop
  BY <1>2, <1>4
<1>6. ASSUME NEW b \in Int, Arrived(b) PROVE Arrived(b)'
  <2>1. Len(toClient) = server.sentSeq - b
    BY <1>6, NoStopYet
  <2>2. UNCHANGED client
    BY DEF clientVars
  <2>3. \A i \in 1..server.sentSeq - b : toClient'[i] = b + i
    BY <1>4, <1>6, <2>1 DEF Arrived
  <2>4. Len(toClient') = server.sentSeq - b + 1 /\ toClient'[Len(toClient')] = Stop
    BY <1>4, <2>1
  <2> QED BY <1>3, <1>6, <2>2, <2>3, <2>4 DEF Arrived
<1> QED BY <1>2, <1>3, <1>4, <1>5, <1>6, PublishKeeps

LEMMA StreamEndsStep ==
  ASSUME ConstantsAssumption, Inv, StreamEnds PROVE Inv'
BY StopSent DEF StreamEnds, Inv, TransportTypeOK

LEMMA ServerClosesStep ==
  ASSUME ConstantsAssumption, Inv, ServerCloses PROVE Inv'
<1>1. CASE StopServer
  BY <1>1, StopSent DEF ServerCloses
<1>2. CASE server' = [server EXCEPT !.status = "stopped"] /\ UNCHANGED toClient
  <2>1. UNCHANGED <<ordered, call, client, asks, replies, delivered, completed,
                    loop, toClient, acks, lost>> /\ stopping' \in BOOLEAN
    BY <1>2 DEF ServerCloses, clientVars
  <2>2. /\ server' \in ServerType /\ server'.status = "stopped"
        /\ server'.sentSeq = server.sentSeq /\ server'.sent = server.sent
    BY <1>2 DEF Inv, TransportTypeOK, ServerType
  <2>3. TransportTypeOK'
    <3>1. server' \in [status : {"init", "connected", "stopped"},
                       sentSeq : Seqs \cup {-1}, sent : SUBSET Seqs]
      BY <2>2 DEF ServerType
    <3> QED BY <2>1, <3>1 DEF Inv, TransportTypeOK
  <2>4. Sent' /\ Given' /\ Ends'
    BY <1>2, <2>1, <2>2 DEF Inv, Sent, Given, Ends
  <2>5. InOrder'
    BY <1>2, <2>1, <2>2 DEF Inv, InOrder, Arrived
  <2> QED BY <2>3, <2>4, <2>5 DEF Inv
<1> QED BY <1>1, <1>2 DEF ServerCloses

----------------------------------------------------------------------------
(* The theorems *)

LEMMA InvInit == ConstantsAssumption /\ TransportInit => Inv
<1> SUFFICES ASSUME ConstantsAssumption, TransportInit PROVE Inv
  OBVIOUS
<1> USE DEF TransportInit
<1>1. TransportTypeOK
  <2>1. client \in ClientType
    BY DEF ClientType
  <2>2. /\ server \in [status : {"init", "connected", "stopped"},
                       sentSeq : Seqs \cup {-1}, sent : SUBSET Seqs]
        /\ toClient \in Seq(Seqs \cup {Stop}) /\ delivered \in Seq(Seqs)
        /\ lost \in 0..MaxLost
    BY DEF ConstantsAssumption
  <2> QED BY <2>1, <2>2 DEF TransportTypeOK, ClientType
<1>2. Sent
  BY DEF Sent
<1>3. Given
  <2>1. Numbers(0) = <<>>
    BY DEF Numbers
  <2> QED BY <2>1 DEF Given
<1>4. Ends
  BY DEF Ends, NoTimer
<1>5. InOrder
  <2>1. Arrived(-1)
    BY DEF Arrived
  <2> QED BY <2>1 DEF InOrder
<1> QED BY <1>1, <1>2, <1>3, <1>4, <1>5 DEF Inv

LEMMA InvNext == ConstantsAssumption /\ Inv /\ [TransportNext]_transportVars => Inv'
<1> SUFFICES ASSUME ConstantsAssumption, Inv, [TransportNext]_transportVars PROVE Inv'
  OBVIOUS
<1>1. CASE BrokerAnswers
  BY <1>1, BrokerAnswersStep
<1>2. CASE BrokerFails
  BY <1>2, BrokerFailsStep
<1>3. CASE Exit
  BY <1>3, ExitStep
<1>4. ASSUME NEW i \in DOMAIN toClient, Arrives(i) PROVE Inv'
  <2>1. CASE toClient[i] \in Seqs /\ ReceiveMessage(toClient[i])
    BY <1>4, <2>1, ReceiveMessageStep
  <2>2. CASE toClient[i] = Stop /\ ReceiveStop
    BY <1>4, <2>2, ReceiveStopStep
  <2> QED BY <1>4, <2>1, <2>2 DEF Arrives
<1>5. ASSUME NEW i \in DOMAIN toClient, Lose(i) PROVE Inv'
  BY <1>5, LoseStep
<1>6. CASE KeepAliveArrives
  BY <1>6, KeepAliveArrivesStep
<1>7. CASE ClientDies
  BY <1>7, ClientDiesStep
<1>8. CASE RetryTimerFires
  BY <1>8, RetryTimerFiresStep
<1>9. ASSUME NEW seq \in Asked, AnswerNack(seq) \/ NackAnswered(seq) \/ NackFails(seq)
      PROVE  Inv'
  BY <1>9, AnswerNackStep, NackAnsweredStep, NackFailsStep
<1>10. ASSUME NEW seq \in Seqs, AckArrives(seq) PROVE Inv'
  BY <1>10, AckArrivesStep
<1>11. CASE ServeSubscribe
  BY <1>11, ServeSubscribeStep
<1>12. CASE TakeEvent
  BY <1>12, TakeEventStep
<1>13. CASE SendEvent
  BY <1>13, SendEventStep
<1>14. CASE StreamEnds
  BY <1>14, StreamEndsStep
<1>15. CASE ServerCloses
  BY <1>15, ServerClosesStep
<1>16. CASE UNCHANGED transportVars
  <2> USE <1>16 DEF transportVars, clientVars, serverVars, netVars
  <2>1. TransportTypeOK'
    BY DEF Inv, TransportTypeOK
  <2>2. Sent' /\ Given' /\ Ends'
    BY DEF Inv, Sent, Given, Ends
  <2>3. InOrder'
    BY DEF Inv, InOrder, Arrived
  <2> QED BY <2>1, <2>2, <2>3 DEF Inv
<1> QED BY <1>1, <1>2, <1>3, <1>4, <1>5, <1>6, <1>7, <1>8, <1>9, <1>10, <1>11,
           <1>12, <1>13, <1>14, <1>15, <1>16 DEF TransportNext

LEMMA TransportInvariant == ASSUME ConstantsAssumption PROVE TransportSpec => []Inv
<1>1. TransportInit => Inv
  BY InvInit
<1>2. Inv /\ [TransportNext]_transportVars => Inv'
  BY InvNext
<1> QED BY <1>1, <1>2, PTL DEF TransportSpec

\* The executor keeps what it sent until the reader has been given it; an
\* acknowledgement never runs ahead of the reader; and on a bus that loses and
\* reorders nothing, the signal ends a stream of which nothing is missing.
THEOREM KeptUntilDeliveredHolds ==
  ASSUME ConstantsAssumption PROVE TransportSpec => []KeptUntilDelivered
<1>1. ASSUME Inv PROVE KeptUntilDelivered
  <2> DEFINE k == client.processed + 1
  <2>1. client.processed \in Seqs \cup {-1}
    BY <1>1 DEF Inv, TransportTypeOK
  <2>2. k \in Nat /\ 0..k - 1 = 0..client.processed
    BY <2>1 DEF Seqs
  <2>3. ToSet(delivered) = 0..client.processed /\ Len(delivered) = client.processed + 1
    <3>1. delivered = Numbers(k)
      BY <1>1 DEF Inv, Given
    <3> HIDE DEF k
    <3>2. ToSet(delivered) = 0..k - 1 /\ Len(delivered) = k
      BY <2>2, <3>1, NumbersSet
    <3> QED BY <2>2, <3>2 DEF k
  <2>4. acks \subseteq ToSet(delivered)
    BY <1>1, <2>3 DEF Inv, Given
  <2>5. \A n \in 0..server.sentSeq : n \in server.sent \/ n \in ToSet(delivered)
    BY <1>1, <2>1, <2>3, SeqsType DEF Inv, Given
  <2>6. (ordered /\ lost = 0 /\ call = "answered" /\ completed = "signal")
           => Len(delivered) = server.sentSeq + 1
    BY <1>1, <2>3 DEF Inv, InOrder
  <2> QED BY <1>1, <2>3, <2>4, <2>5, <2>6 DEF Inv, KeptUntilDelivered
<1>2. Inv => KeptUntilDelivered
  BY <1>1
<1> QED BY <1>2, TransportInvariant, PTL

----------------------------------------------------------------------------
(* The refinement *)

streamVars == <<server.sentSeq + 1, delivered, client.status = "stopped">>

\* A step of the receiver that goes on with the stream delivers or stutters.
LEMMA DeliverRefines ==
  ASSUME ConstantsAssumption, Inv, Inv', UNCHANGED server,
         client.status # "stopped", client'.status # "stopped",
         client.processed <= client'.processed
  PROVE  [Stream!Next]_streamVars
<1>1. /\ client.processed \in Int /\ client'.processed \in Int
      /\ client.processed >= -1 /\ server.sentSeq \in Int
      /\ client'.processed <= server.sentSeq
  BY SeqsType DEF Inv, TransportTypeOK, Sent
<1>2. /\ delivered = Numbers(client.processed + 1)
      /\ delivered' = Numbers(client'.processed + 1)
  BY DEF Inv, Given
<1>3. CASE client'.processed = client.processed
  BY <1>2, <1>3 DEF streamVars
<1>4. CASE client'.processed > client.processed
  <2> DEFINE n == client'.processed + 1
  <2>1. Len(delivered) = client.processed + 1
    BY <1>1, <1>2, NumbersSet
  <2>2. n \in Len(delivered) + 1..server.sentSeq + 1
    BY <1>1, <1>4, <2>1
  <2>3. delivered' = [i \in 1..n |-> i - 1]
    BY <1>2 DEF Numbers
  <2> HIDE DEF n
  <2>4. Stream!Deliver
    BY <2>2, <2>3 DEF Stream!Deliver
  <2> QED BY <2>4 DEF Stream!Next
<1> QED BY <1>1, <1>3, <1>4

\* The other steps.
LEMMA StutterRefines ==
  ASSUME server'.sentSeq = server.sentSeq, UNCHANGED delivered,
         client'.status = client.status
  PROVE  [Stream!Next]_streamVars
BY DEF streamVars

LEMMA CloseRefines ==
  ASSUME UNCHANGED <<server, delivered>>, client'.status = "stopped"
  PROVE  [Stream!Next]_streamVars
BY DEF Stream!Next, Stream!Close, streamVars

LEMMA SendRefines ==
  ASSUME server'.sentSeq = server.sentSeq + 1, UNCHANGED <<client, delivered>>
  PROVE  [Stream!Next]_streamVars
BY DEF Stream!Next, Stream!Send, streamVars

LEMMA ReceiveMessageRefines ==
  ASSUME ConstantsAssumption, Inv, Inv', NEW seq \in Seqs, ReceiveMessage(seq),
         UNCHANGED server
  PROVE  [Stream!Next]_streamVars
<1> DEFINE c == [client EXCEPT !.armed = TRUE]
           h == HandleMessage(c, seq)
           d == OnReceivedSeq(h, seq)
<1>1. client \in ClientType
  BY ClientTypeOK DEF Inv
<1>2. CASE client.status = "connected"
  <2>1. client' = d
    BY <1>2 DEF ReceiveMessage, Receive
  <2>2. c \in ClientType /\ c.processed = client.processed /\ c.status = "connected"
    BY <1>1, <1>2 DEF ClientType
  <2> HIDE DEF c
  <2>3. h \in ClientType /\ h.status = "connected" /\ h.processed >= client.processed
    BY <2>2, HandleAdvances
  <2> HIDE DEF h
  <2>4. d.status = "connected" /\ d.processed = h.processed
    BY <2>3, OnReceivedSeqKeeps
  <2> HIDE DEF d
  <2>5. client.processed \in Int /\ h.processed \in Int
    BY <1>1, <2>3, SeqsType DEF ClientType
  <2> QED BY <1>2, <2>1, <2>3, <2>4, <2>5, DeliverRefines
<1>3. CASE client.status = "started"
  <2>1. client' = [client EXCEPT !.received = @ \cup {seq}, !.armed = TRUE]
        /\ UNCHANGED delivered
    BY <1>3 DEF ReceiveMessage
  <2>2. client'.status = client.status
    BY <1>1, <2>1 DEF ClientType
  <2> QED BY <2>1, <2>2, StutterRefines
<1> QED BY <1>2, <1>3 DEF ReceiveMessage, Subscribed

LEMMA NackAnsweredRefines ==
  ASSUME ConstantsAssumption, Inv, Inv', NEW seq \in Asked, NackAnswered(seq)
  PROVE  [Stream!Next]_streamVars
<1>1. /\ client \in ClientType /\ seq \in Seqs
      /\ client.status = "connected"
  BY ClientTypeOK DEF NackAnswered, Inv, TransportTypeOK, Ends
<1>2. client' = HandleMessage(client, seq) /\ UNCHANGED server
  BY DEF NackAnswered, Receive, serverVars
<1>3. client'.status = "connected" /\ client'.processed >= client.processed
      /\ client' \in ClientType
  BY <1>1, <1>2, HandleAdvances
<1>4. client.processed \in Int /\ client'.processed \in Int
  BY <1>1, <1>3, SeqsType DEF ClientType
<1> QED BY <1>1, <1>2, <1>3, <1>4, DeliverRefines

LEMMA BrokerAnswersRefines ==
  ASSUME ConstantsAssumption, Inv, Inv', BrokerAnswers
  PROVE  [Stream!Next]_streamVars
<1>1. UNCHANGED server
  BY DEF BrokerAnswers, serverVars
<1>2. CASE client.status = "started" /\ call' = "answered" /\ Connect
  <2>1. client.processed = -1 /\ client'.status # "started"
    BY <1>2 DEF Inv, Ends
  <2>2. client'.status # "stopped"
    <3> DEFINE g == Greatest({client.receivedSeq} \cup client.received)
               c == [client EXCEPT !.status = "connected", !.armed = TRUE, !.receivedSeq = g]
               f == FlushIfNeeded(c)
               d == OnAllPendingProcessed(f)
    <3>1. client' = d
      BY <1>2 DEF Connect, Receive
    <3>2. c.status = "connected"
      BY ClientTypeOK DEF Inv, ClientType
    <3>3. f.status = c.status
      BY ClientTypeOK DEF Inv, ClientType, FlushIfNeeded
    <3>4. d.status = f.status
      BY ClientTypeOK DEF Inv, ClientType, OnAllPendingProcessed, StartRetryTimerIfNeeded,
                          FlushIfNeeded
    <3> QED BY <3>1, <3>2, <3>3, <3>4
  <2>3. client'.processed >= -1 /\ client'.processed \in Int
    BY SeqsType DEF Inv, TransportTypeOK
  <2> QED BY <1>1, <1>2, <2>1, <2>2, <2>3, DeliverRefines
<1>3. CASE UNCHANGED <<client, delivered, acks>>
  BY <1>1, <1>3, StutterRefines
<1> QED BY <1>2, <1>3 DEF BrokerAnswers

LEMMA NextRefines ==
  ASSUME ConstantsAssumption, Inv, Inv', [TransportNext]_transportVars
  PROVE  [Stream!Next]_streamVars
<1> USE DEF clientVars, serverVars, netVars
<1>1. CASE BrokerAnswers
  BY <1>1, BrokerAnswersRefines
<1>2. CASE BrokerFails
  BY <1>2, StutterRefines DEF BrokerFails
<1>3. client' = [client EXCEPT !.status = "stopped", !.retryTimer = NoTimer]
        => client'.status = "stopped"
  BY ClientTypeOK DEF Inv, ClientType
<1>4. CASE Exit
  BY <1>3, <1>4, CloseRefines DEF Exit, StopClient
<1>5. ASSUME NEW i \in DOMAIN toClient, Arrives(i) PROVE [Stream!Next]_streamVars
  <2>1. UNCHANGED server
    BY <1>5 DEF Arrives
  <2>2. CASE toClient[i] \in Seqs /\ ReceiveMessage(toClient[i])
    BY <2>1, <2>2, ReceiveMessageRefines
  <2>3. CASE ReceiveStop
    BY <1>3, <2>1, <2>3, CloseRefines DEF ReceiveStop, StopClient
  <2> QED BY <1>5, <2>2, <2>3 DEF Arrives
<1>6. ASSUME NEW i \in DOMAIN toClient, Lose(i) PROVE [Stream!Next]_streamVars
  BY <1>6, StutterRefines DEF Lose
<1>7. CASE KeepAliveArrives
  <2>1. client' = [client EXCEPT !.armed = TRUE] /\ UNCHANGED <<server, delivered>>
    BY <1>7 DEF KeepAliveArrives
  <2>2. client'.status = client.status
    BY <2>1, ClientTypeOK DEF Inv, ClientType
  <2> QED BY <2>1, <2>2, StutterRefines
<1>8. CASE ClientDies
  BY <1>3, <1>8, CloseRefines DEF ClientDies, StopClient
<1>9. CASE RetryTimerFires
  <2>1. client' = [client EXCEPT !.retryTimer.running = FALSE] /\ UNCHANGED <<server, delivered>>
    BY <1>9 DEF RetryTimerFires
  <2>2. client'.status = client.status
    BY <2>1, ClientTypeOK DEF Inv, ClientType
  <2> QED BY <2>1, <2>2, StutterRefines
<1>10. ASSUME NEW seq \in Asked, AnswerNack(seq) PROVE [Stream!Next]_streamVars
  BY <1>10, StutterRefines DEF AnswerNack
<1>11. ASSUME NEW seq \in Asked, NackAnswered(seq) PROVE [Stream!Next]_streamVars
  BY <1>11, NackAnsweredRefines
<1>12. ASSUME NEW seq \in Asked, NackFails(seq) PROVE [Stream!Next]_streamVars
  <2>1. UNCHANGED <<server, delivered>>
    BY <1>12 DEF NackFails
  <2>2. CASE StopClient("error")
    BY <1>3, <2>1, <2>2, CloseRefines DEF StopClient
  <2>3. CASE UNCHANGED client
    BY <2>1, <2>3, StutterRefines
  <2> QED BY <1>12, <2>2, <2>3 DEF NackFails
<1>13. server \in ServerType
  BY DEF Inv, TransportTypeOK, ServerType
<1>14. ASSUME NEW seq \in Seqs, AckArrives(seq) PROVE [Stream!Next]_streamVars
  <2>1. server'.sentSeq = server.sentSeq /\ UNCHANGED <<client, delivered>>
    BY <1>13, <1>14 DEF AckArrives, ServerType
  <2> QED BY <2>1, StutterRefines
<1>15. CASE ServeSubscribe
  <2>1. server'.sentSeq = server.sentSeq /\ UNCHANGED <<client, delivered>>
    BY <1>13, <1>15 DEF ServeSubscribe, ServerType
  <2> QED BY <2>1, StutterRefines
<1>16. CASE TakeEvent
  BY <1>16, StutterRefines DEF TakeEvent
<1>17. CASE SendEvent
  <2>1. UNCHANGED <<client, delivered>>
    BY <1>17 DEF SendEvent
  <2>2. \/ server'.sentSeq = server.sentSeq + 1 \/ UNCHANGED server
    BY <1>13, <1>17 DEF SendEvent, Send, ServerType
  <2> QED BY <2>1, <2>2, SendRefines, StutterRefines
<1>18. CASE StreamEnds
  <2>1. server'.sentSeq = server.sentSeq /\ UNCHANGED <<client, delivered>>
    BY <1>13, <1>18 DEF StreamEnds, StopServer, ServerType
  <2> QED BY <2>1, StutterRefines
<1>19. CASE ServerCloses
  <2>1. server'.sentSeq = server.sentSeq /\ UNCHANGED <<client, delivered>>
    BY <1>13, <1>19 DEF ServerCloses, StopServer, ServerType
  <2> QED BY <2>1, StutterRefines
<1>20. CASE UNCHANGED transportVars
  BY <1>20, StutterRefines DEF transportVars
<1> QED BY <1>1, <1>2, <1>4, <1>5, <1>6, <1>7, <1>8, <1>9, <1>10, <1>11, <1>12,
           <1>14, <1>15, <1>16, <1>17, <1>18, <1>19, <1>20 DEF TransportNext

\* The two transports and the bus between them implement the stream: whatever is
\* lost, reordered or asked for again, the reader gets what was sent, in order,
\* each once and none skipped, and nothing after the end.
THEOREM ImplementsStream ==
  ASSUME ConstantsAssumption PROVE TransportSpec => StreamSpec
<1>1. TransportInit => Stream!Init
  BY DEF TransportInit, Stream!Init
<1>2. Inv /\ Inv' /\ [TransportNext]_transportVars => [Stream!Next]_streamVars
  BY NextRefines
<1>3. TransportSpec => []Inv
  BY TransportInvariant
<1> QED BY <1>1, <1>2, <1>3, PTL DEF TransportSpec, StreamSpec, Stream!Spec, streamVars
===============================================================================
