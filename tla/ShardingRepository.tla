-------------------------- MODULE ShardingRepository --------------------------
(***************************************************************************)
(* The directory of one shard region: its nodes (repo/NodeRepository.ts)   *)
(* and the allocations of its shards to them (repo/ShardingRepository.ts). *)
(*                                                                         *)
(* Every method is one FoundationDB transaction that reads without         *)
(* snapshots and ends with scheduleShards, so every operator here is one   *)
(* step and includes it.                                                   *)
(***************************************************************************)
EXTENDS Integers, FiniteSets

CONSTANTS
    Nodes,    \* identifiers drawn by randomKey()
    Shards    \* 0..ringSize-1

ASSUME RegionAssumption ==
    IsFiniteSet(Nodes) /\ Shards \subseteq Nat /\ IsFiniteSet(Shards)

VARIABLES
    node,     \* SUBSPACE_STATE of every node, "none" without a key
    timeout,  \* SUBSPACE_TIMEOUT, 0 without a key
    alloc     \* the state of every shard on every node, "none" without a key

regionVars == <<node, timeout, alloc>>

NodeStates == {"none", "joined", "leaving", "left"}
ShardStates == {"none", "allocating", "active", "removing"}

RegionTypeOK ==
    /\ node \in [Nodes -> NodeStates]
    /\ timeout \in [Nodes -> Nat]
    /\ alloc \in [Shards -> [Nodes -> ShardStates]]

NoAllocations == [s \in Shards |-> [n \in Nodes |-> "none"]]

RegionInit ==
    /\ node = [n \in Nodes |-> "none"]
    /\ timeout = [n \in Nodes |-> 0]
    /\ alloc = NoAllocations

----------------------------------------------------------------------------
(* scheduleShards, for node states N and allocations A *)

Allocable(N) == {n \in Nodes : N[n] = "joined"}

\* Mutant of Cleaned: only what left nodes had goes; a leaving node keeps what
\* it has not started.
Cleaned_KeepsStarting(N, A) ==
    [s \in Shards |-> [n \in Nodes |-> IF N[n] \in {"none", "left"} THEN "none" ELSE A[s][n]]]

\* Allocations of nodes that left go, and those a leaving node has not started.
Cleaned(N, A) ==
    [s \in Shards |-> [n \in Nodes |->
        IF N[n] \in {"none", "left"} \/ (N[n] = "leaving" /\ A[s][n] = "allocating")
        THEN "none" ELSE A[s][n]]]

Active(A, s) == {n \in Nodes : A[s][n] = "active"}

\* Mutant of Withdrawn: the leaving node is never told to give the shard up.
Withdrawn_None(N, A, s) == {}

\* Mutant of Withdrawn: a leaving node is told at once.
Withdrawn_AtOnce(N, A, s) == Active(A, s) \ Allocable(N)

\* "Remove multiple active shards": of several active allocations the ones on
\* leaving nodes, if one remains then, and all of them otherwise.
Withdrawn(N, A, s) ==
    CASE Cardinality(Active(A, s)) <= 1 -> {}
      [] Cardinality(Active(A, s)) > 1
            /\ Cardinality(Active(A, s) \cap Allocable(N)) = 1 -> Active(A, s) \ Allocable(N)
      [] OTHER -> Active(A, s)

Deduplicated(N, A) ==
    [s \in Shards |-> [n \in Nodes |->
        IF n \in Withdrawn(N, A, s) THEN "removing" ELSE A[s][n]]]

\* Shards to place: none on a joined node, and some node to place it on.
Missing(N, A) ==
    {s \in Shards : /\ Allocable(N) # {}
                    /\ \A n \in Allocable(N) : A[s][n] \notin {"active", "allocating"}}

\* Load of n when the missing shards below s have been placed by f.
Load(A, f, s, n) ==
    Cardinality({r \in Shards : A[r][n] # "none"})
        + Cardinality({r \in DOMAIN f : r < s /\ f[r] = n})

\* Each missing shard in turn goes to a node with the least load; node keys are
\* random, so any of the least loaded may come first.
Placements(N, A) ==
    {f \in [Missing(N, A) -> Allocable(N)] :
        \A s \in Missing(N, A), n \in Allocable(N) : Load(A, f, s, f[s]) <= Load(A, f, s, n)}

Placed(A, f) ==
    [s \in Shards |-> [n \in Nodes |->
        IF s \in DOMAIN f /\ f[s] = n THEN "allocating" ELSE A[s][n]]]

ScheduleShards(N, A) ==
    LET B == Deduplicated(N, Cleaned(N, A))
    IN  \E f \in Placements(N, B) : alloc' = Placed(B, f)

----------------------------------------------------------------------------
(* The methods *)

\* Returns the new state of n: an expired node, whose keys are gone, joins anew.
RegisterNode(n, until) ==
    /\ node' = [node EXCEPT ![n] = IF @ = "none" THEN "joined" ELSE @]
    /\ timeout' = [timeout EXCEPT ![n] =
                      IF node[n] = "none" \/ (node[n] = "joined" /\ until >= @)
                      THEN until ELSE @]
    /\ ScheduleShards(node', alloc)

RegisterNodeLeaving(n, until) ==
    /\ node' = [node EXCEPT ![n] = IF @ = "joined" THEN "leaving" ELSE @]
    /\ timeout' = [timeout EXCEPT ![n] =
                      IF node[n] = "joined" \/ (node[n] = "leaving" /\ until > @)
                      THEN until ELSE @]
    /\ ScheduleShards(node', alloc)

RegisterNodeLeft(n, until) ==
    /\ node' = [node EXCEPT ![n] = IF @ = "none" THEN "none" ELSE "left"]
    /\ timeout' = [timeout EXCEPT ![n] = IF node[n] \in {"none", "left"} THEN @ ELSE until]
    /\ ScheduleShards(node', alloc)

Expired(now) == {n \in Nodes : node[n] # "none" /\ timeout[n] < now}

HandleScheduling(now) ==
    /\ node' = [n \in Nodes |-> IF n \in Expired(now) THEN "none" ELSE node[n]]
    /\ timeout' = [n \in Nodes |-> IF n \in Expired(now) THEN 0 ELSE timeout[n]]
    /\ ScheduleShards(node', alloc)

OnAllocationReady(n, s) ==
    IF alloc[s][n] = "allocating"
    THEN /\ ScheduleShards(node, [alloc EXCEPT ![s][n] = "active"])
         /\ UNCHANGED <<node, timeout>>
    ELSE UNCHANGED regionVars

OnAllocationRemoved(n, s) ==
    IF alloc[s][n] = "removing"
    THEN /\ ScheduleShards(node, [alloc EXCEPT ![s][n] = "none"])
         /\ UNCHANGED <<node, timeout>>
    ELSE UNCHANGED regionVars
=============================================================================
