----------------------------- MODULE ShardRegion -----------------------------
(***************************************************************************)
(* The processes that run the shards of one region: the allocator loop and *)
(* the refresh loop of ShardRegion.ts and one ShardRegionManager per node  *)
(* identifier the process drew, over the directory of ShardingRepository   *)
(* and the scheduler of the admin servers.                                 *)
(*                                                                         *)
(* A process knows the allocations only as its refresh loop last read      *)
(* them.  A manager works on one shard at a time and awaits the shard's    *)
(* factory or its stop function between a decision and its report.         *)
(***************************************************************************)
EXTENDS ShardingRepository

CONSTANTS
    Servers,      \* processes with startShard on the region
    RegionFirst,  \* those that called start() before startShard(): its loop stops first
    NodeTimeout,  \* a registration is good for 15 s
    LeftTimeout,  \* and the mark of a node that left for an hour
    MaxTime,      \* bound on the clock
    LastFailure,  \* no process is killed or told to stop after this time
    NoNode, NoShard

ASSUME RegionTimesAssumption ==
    NodeTimeout \in Nat /\ LeftTimeout \in Nat /\ MaxTime \in Nat /\ LastFailure \in Nat
ASSUME NoneAssumption == NoNode \notin Nodes /\ NoShard \notin Shards
ASSUME RegionFirstAssumption == RegionFirst \subseteq Servers

VARIABLES
    now,         \* Date.now()
    pc,          \* where the allocator loop of each process is
    current,     \* nodeId of the loop
    view,        \* this.allocations as last read: the current node's column of it
    refreshing,  \* the refresh loop has not been stopped
    closing,     \* completed of the allocator loop
    manager,     \* the manager of each node identifier
    expired      \* history: nodes that handleTimeouts ever cleared

procVars == <<pc, current, view, refreshing, closing>>
vars == <<regionVars, now, procVars, manager, expired>>

NothingAllocated == [s \in Shards |-> "none"]
Steps == {"idle", "creating", "registering", "destroying", "unregistering"}
NoManager == [owner |-> "none", stopped |-> TRUE, shards |-> {}, step |-> "idle", shard |-> NoShard]

Init ==
    /\ RegionInit
    /\ now = 0
    /\ pc = [p \in Servers |-> "starting"]
    /\ current = [p \in Servers |-> NoNode]
    /\ view = [p \in Servers |-> NothingAllocated]
    /\ refreshing = [p \in Servers |-> TRUE]
    /\ closing = [p \in Servers |-> FALSE]
    /\ manager = [n \in Nodes |-> NoManager]
    /\ expired = {}

TypeOK ==
    /\ RegionTypeOK
    /\ now \in Nat
    /\ pc \in [Servers -> {"starting", "joined", "leaving", "left"}]
    /\ current \in [Servers -> Nodes \cup {NoNode}]
    /\ \A p \in Servers : (current[p] = NoNode) = (pc[p] = "starting")
    /\ view \in [Servers -> [Shards -> ShardStates]]
    /\ refreshing \in [Servers -> BOOLEAN]
    /\ closing \in [Servers -> BOOLEAN]
    /\ manager \in [Nodes -> [owner : Servers \cup {"none"}, stopped : BOOLEAN,
                              shards : SUBSET Shards, step : Steps,
                              shard : Shards \cup {NoShard}]]
    /\ \A n \in Nodes : manager[n].step # "idle" => manager[n].shard \in Shards
    /\ expired \subseteq Nodes

Tick ==
    /\ now < MaxTime
    /\ now' = now + 1
    /\ UNCHANGED <<regionVars, procVars, manager, expired>>

\* startShardingScheduler
Schedule ==
    /\ Expired(now) # {}
    /\ HandleScheduling(now)
    /\ expired' = expired \cup Expired(now)
    /\ UNCHANGED <<now, procVars, manager>>

----------------------------------------------------------------------------
(* The manager of a node *)

\* Mutant of Wanted: an active shard counts no more.
Wanted_AllocatingOnly(n) ==
    IF manager[n].stopped THEN {}
    ELSE {s \in Shards : view[manager[n].owner][s] = "allocating"}

\* Mutant of Wanted: a shard is kept while the directory knows it.
Wanted_UntilGone(n) ==
    IF manager[n].stopped THEN {}
    ELSE {s \in Shards : view[manager[n].owner][s] # "none"}

\* Shards the manager should run, as far as its process knows.
Wanted(n) ==
    IF manager[n].stopped THEN {}
    ELSE {s \in Shards : view[manager[n].owner][s] \in {"allocating", "active"}}

ToChange(n) ==
    (manager[n].shards \ Wanted(n)) \cup (Wanted(n) \ manager[n].shards)

\* activeShardsCount: lowered after the report of a removal.
ActiveShards(n) ==
    Cardinality(manager[n].shards) + (IF manager[n].step = "unregistering" THEN 1 ELSE 0)

SetManager(n, m) == manager' = [manager EXCEPT ![n] = m]

\* The sync loop comes to the first shard that is to be created or destroyed.
Decide(n) ==
    /\ manager[n].owner # "none"
    /\ manager[n].step = "idle"
    /\ \E s \in ToChange(n) :
          /\ \A r \in ToChange(n) : s <= r
          /\ SetManager(n, [manager[n] EXCEPT
                 !.step = IF s \in manager[n].shards THEN "destroying" ELSE "creating",
                 !.shard = s])
    /\ UNCHANGED <<regionVars, now, procVars, expired>>

CreateShard(n) ==
    /\ manager[n].step = "creating"
    /\ SetManager(n, [manager[n] EXCEPT !.step = "registering", !.shards = @ \cup {manager[n].shard}])
    /\ UNCHANGED <<regionVars, now, procVars, expired>>

RegisterShard(n) ==
    /\ manager[n].step = "registering"
    /\ OnAllocationReady(n, manager[n].shard)
    /\ SetManager(n, [manager[n] EXCEPT !.step = "idle", !.shard = NoShard])
    /\ UNCHANGED <<now, procVars, expired>>

DestroyShard(n) ==
    /\ manager[n].step = "destroying"
    /\ SetManager(n, [manager[n] EXCEPT !.step = "unregistering", !.shards = @ \ {manager[n].shard}])
    /\ UNCHANGED <<regionVars, now, procVars, expired>>

UnregisterShard(n) ==
    /\ manager[n].step = "unregistering"
    /\ OnAllocationRemoved(n, manager[n].shard)
    /\ SetManager(n, [manager[n] EXCEPT !.step = "idle", !.shard = NoShard])
    /\ UNCHANGED <<now, procVars, expired>>

Manage(n) ==
    Decide(n) \/ CreateShard(n) \/ RegisterShard(n) \/ DestroyShard(n) \/ UnregisterShard(n)

----------------------------------------------------------------------------
(* The loops of a process *)

\* The watch fires and the loop reads the allocations again.
Refresh(p) ==
    /\ refreshing[p]
    /\ current[p] # NoNode
    /\ view' = [view EXCEPT ![p] = [s \in Shards |-> alloc[s][current[p]]]]
    /\ view' # view
    /\ UNCHANGED <<regionVars, now, pc, current, refreshing, closing, manager, expired>>

\* A fresh identifier: no process has drawn it and no read of the allocations
\* names it.
Join(p) ==
    /\ pc[p] = "starting"
    /\ \E n \in Nodes :
         /\ manager[n].owner = "none" /\ n \notin expired /\ node[n] = "none"
         /\ RegisterNode(n, now + NodeTimeout)
         /\ SetManager(n, [NoManager EXCEPT !.owner = p, !.stopped = FALSE])
         /\ current' = [current EXCEPT ![p] = n]
    /\ pc' = [pc EXCEPT ![p] = "joined"]
    /\ view' = [view EXCEPT ![p] = NothingAllocated]
    /\ UNCHANGED <<now, refreshing, closing, expired>>

Heartbeat(p) ==
    /\ pc[p] = "joined" /\ ~closing[p]
    /\ RegisterNode(current[p], now + NodeTimeout)
    /\ pc' = [pc EXCEPT ![p] = IF node'[current[p]] = "joined" THEN "joined" ELSE "leaving"]
    /\ UNCHANGED <<now, current, view, refreshing, closing, manager, expired>>

\* One turn of the leaving loop; it ends when the node expired or its manager
\* counts no shards, and then the manager is stopped.
Leave(p) ==
    LET n == current[p]
    IN  /\ pc[p] = "leaving" \/ (pc[p] = "joined" /\ closing[p])
        /\ RegisterNodeLeaving(n, now + NodeTimeout)
        /\ IF node'[n] # "leaving" \/ ActiveShards(n) = 0
           THEN /\ pc' = [pc EXCEPT ![p] = "left"]
                /\ SetManager(n, [manager[n] EXCEPT !.stopped = TRUE])
           ELSE /\ pc' = [pc EXCEPT ![p] = "leaving"]
                /\ UNCHANGED manager
        /\ UNCHANGED <<now, current, view, refreshing, closing, expired>>

\* The loop then draws a new identifier and starts over, closing or not.
Left(p) ==
    /\ pc[p] = "left"
    /\ RegisterNodeLeft(current[p], now + LeftTimeout)
    /\ pc' = [pc EXCEPT ![p] = "starting"]
    /\ current' = [current EXCEPT ![p] = NoNode]
    /\ UNCHANGED <<now, view, refreshing, closing, manager, expired>>

\* Shutdown.shutdown stops the registered works one after the other.
StopRefreshing(p) ==
    /\ now <= LastFailure
    /\ p \in RegionFirst /\ refreshing[p]
    /\ refreshing' = [refreshing EXCEPT ![p] = FALSE]
    /\ UNCHANGED <<regionVars, now, pc, current, view, closing, manager, expired>>

Close(p) ==
    /\ now <= LastFailure
    /\ ~closing[p] /\ (p \in RegionFirst => ~refreshing[p])
    /\ closing' = [closing EXCEPT ![p] = TRUE]
    /\ UNCHANGED <<regionVars, now, pc, current, view, refreshing, manager, expired>>

\* The process is killed and started again.
Crash(p) ==
    /\ now <= LastFailure
    /\ pc[p] # "starting"
    /\ pc' = [pc EXCEPT ![p] = "starting"]
    /\ current' = [current EXCEPT ![p] = NoNode]
    /\ view' = [view EXCEPT ![p] = NothingAllocated]
    /\ refreshing' = [refreshing EXCEPT ![p] = TRUE]
    /\ closing' = [closing EXCEPT ![p] = FALSE]
    /\ manager' = [n \in Nodes |-> IF manager[n].owner = p
                                   THEN [NoManager EXCEPT !.owner = p] ELSE manager[n]]
    /\ UNCHANGED <<regionVars, now, expired>>

Allocator(p) == Join(p) \/ Heartbeat(p) \/ Leave(p) \/ Left(p)

Next ==
    \/ Tick
    \/ Schedule
    \/ \E n \in Nodes : Manage(n)
    \/ \E p \in Servers :
          Refresh(p) \/ Allocator(p) \/ StopRefreshing(p) \/ Close(p) \/ Crash(p)

Spec == Init /\ [][Next]_vars

\* Time passes, the scheduler of some admin server and the loops of a running
\* process go on, and a shard's factory and stop function return.
Fairness ==
    /\ WF_vars(Tick) /\ WF_vars(Schedule)
    /\ \A n \in Nodes : WF_vars(Manage(n))
    /\ \A p \in Servers : WF_vars(Refresh(p)) /\ WF_vars(Allocator(p))

FairSpec == Spec /\ Fairness
----------------------------------------------------------------------------
(* Properties *)

\* The directory names one node to serve a shard: never two active ones, and
\* while some node is joined exactly one that is active or about to be.
OneServingNode ==
    \A s \in Shards :
        /\ Cardinality(Active(alloc, s)) <= 1
        /\ Allocable(node) # {} =>
              Cardinality({n \in Allocable(node) : alloc[s][n] \in {"active", "allocating"}}) = 1

\* Allocations follow the nodes: a node that left or expired has none, a leaving
\* one starts none, and only a leaving one is asked to give a shard up.
AllocationsFollowNodes ==
    \A s \in Shards, n \in Nodes :
        /\ node[n] \in {"none", "left"} => alloc[s][n] = "none"
        /\ alloc[s][n] = "allocating" => node[n] = "joined"
        /\ alloc[s][n] = "removing" => node[n] = "leaving"

\* A shard is not taken from the node that serves it before another one serves
\* it, unless that node left or expired.
Handover ==
    \A s \in Shards, n \in Nodes :
        (alloc[s][n] = "active" /\ node'[n] \in {"joined", "leaving"})
            => Active(alloc', s) # {}
NoServiceGap == [][Handover]_vars

\* What the directory calls active is running, unless its process was killed or
\* stopped, or the node had expired.
ActiveIsRunning ==
    \A s \in Shards, n \in Nodes :
        (alloc[s][n] = "active" /\ ~manager[n].stopped /\ n \notin expired)
            => s \in manager[n].shards

\* Where shard s runs.
Running(s) == {n \in Nodes : s \in manager[n].shards}

\* Once processes and clocks are quiet every shard runs on the node it is
\* allocated to and nowhere else, whatever crashed, left or expired before.  But
\* no node may have joined again after it expired: the heartbeat loop means to
\* end then ("If node is expired", ShardRegion.ts:268) and does not, because
\* registerNode joins a node the directory has forgotten.  And whoever stopped its
\* refresh loop must have been killed: it never learns what to give up.
Settled ==
    \A s \in Shards : \E n \in Nodes :
        node[n] = "joined" /\ alloc[s][n] = "active" /\ Running(s) = {n}
EventuallySettled ==
    (/\ <>[](\E p \in Servers : pc[p] = "joined" /\ ~closing[p])
     /\ <>[](\A p \in Servers : refreshing[p])
     /\ [](\A n \in expired : node[n] = "none"))
        => <>[]Settled
=============================================================================
