------------------------ MODULE WorkQueueRepository ------------------------
(***************************************************************************)
(* The durable task queue of openland-module-workers: the key space of one *)
(* queue (repo/WorkQueueRepository.ts) and the transactions that touch it. *)
(* An operator here is the write set of one repository method; a process   *)
(* that calls it inside a FoundationDB transaction is in BetterWorkerQueue.*)
(*                                                                         *)
(* A transaction is one step.  FoundationDB aborts a transaction when a    *)
(* key it read changed before it commits, so a step sees the values it     *)
(* commits against.  A snapshot read adds no such conflict: rescheduleTasks*)
(* adds it by hand for the expired timeouts and not for the delayed tasks, *)
(* so its read and its commit are two steps (Reschedule).                  *)
(***************************************************************************)
EXTENDS Integers, FiniteSets

CONSTANTS
    Tasks,            \* identifiers drawn by uuid(), one per pushWork
    Servers,          \* processes that run workers of the queue
    MaxAttempts,      \* settings.maxAttempts: 1..50 or Infinite
    RescheduleLimit,  \* `limit: 100` of the two scans of rescheduleTasks
    NoLease           \* the active key of a task is absent

\* The value 'infinite' of maxAttempts; a number above every legal one, so
\* that an attempts field is one set of integers.
Infinite == 51
AttemptsLeft == 1..50 \cup {Infinite}

\* A lock is the seed of one #addWorkers call.  A process that restarts draws
\* a new seed: its n-th life is numbered.
Seeds == Servers \X Nat
Leases == [lock : Seeds, timeout : Nat]

ASSUME AttemptsAssumption == MaxAttempts \in AttemptsLeft
ASSUME LimitAssumption == RescheduleLimit \in Nat \ {0}
ASSUME NoLeaseAssumption == NoLease \notin Leases

\* A key of pendingSubspace: the versionstamp of the commit that wrote it and
\* the index of the work item inside that transaction.
Entries == [version : Nat, ex : Nat, id : Tasks]
\* A key of timeoutSubspace or of pendingDelayedSubspace: <time, id>.
TimeKeys == [at : Nat, id : Tasks]
\* A timeout key read by rescheduleTasks with the attempts left of its task.
ExpiredKeys == [at : Nat, id : Tasks, left : Nat]

StatNames == {"total", "active", "failures", "completed", "scheduled"}

VARIABLES
    version,    \* commits that wrote a versionstamped pending key
    pending,    \* PREFIX_PENDING
    delayed,    \* PREFIX_PENDING_DELAYED
    active,     \* PREFIX_ACTIVE
    timeouts,   \* PREFIX_TIMEOUTS
    args,       \* PREFIX_ARGUMENTS: tasks whose arguments are stored
    failures,   \* PREFIX_FAILURES: attempts left, 0 when the key is absent
    stats       \* PREFIX_STATS

repoVars == <<version, pending, delayed, active, timeouts, args, failures, stats>>

RepoTypeOK ==
    /\ version \in Nat
    /\ pending \in SUBSET Entries /\ IsFiniteSet(pending)
    /\ delayed \in SUBSET TimeKeys /\ IsFiniteSet(delayed)
    /\ active \in [Tasks -> Leases \cup {NoLease}]
    /\ timeouts \in SUBSET TimeKeys /\ IsFiniteSet(timeouts)
    /\ args \in SUBSET Tasks
    /\ failures \in [Tasks -> AttemptsLeft \cup {0}]
    /\ stats \in [StatNames -> Int]

RepoInit ==
    /\ version = 0
    /\ pending = {}
    /\ delayed = {}
    /\ active = [id \in Tasks |-> NoLease]
    /\ timeouts = {}
    /\ args = {}
    /\ failures = [id \in Tasks |-> 0]
    /\ stats = [s \in StatNames |-> 0]

Least(m, n) == IF m < n THEN m ELSE n

----------------------------------------------------------------------------
(* pushWork *)

PushWork(id, startAt) ==
    /\ IF startAt = 0
       THEN /\ version' = version + 1
            /\ pending' = pending \cup {[version |-> version', ex |-> 1, id |-> id]}
            /\ UNCHANGED delayed
       ELSE /\ delayed' = delayed \cup {[at |-> startAt, id |-> id]}
            /\ UNCHANGED <<version, pending>>
    /\ args' = args \cup {id}
    /\ failures' = [failures EXCEPT ![id] = MaxAttempts]
    /\ stats' = [stats EXCEPT !["total"] = @ + 1,
                              !["scheduled"] = IF startAt = 0 THEN @ ELSE @ + 1]
    /\ UNCHANGED <<active, timeouts>>

----------------------------------------------------------------------------
(* acquireWork: the oldest `limit` pending keys, each marked as a read     *)
(* conflict, move to the active set of `lock`.                             *)

Before(p, q) ==
    p.version < q.version \/ (p.version = q.version /\ p.ex < q.ex)

OldestPending(limit) ==
    {P \in SUBSET pending :
        /\ Cardinality(P) = Least(limit, Cardinality(pending))
        /\ \A p \in P, q \in pending \ P : ~Before(q, p)}

Ids(K) == {k.id : k \in K}

\* Mutant: no timeout key for an acquired task.
AcquireWork_Unindexed(P, lock, timeout) ==
    /\ pending' = pending \ P
    /\ active' = [id \in Tasks |-> IF id \in Ids(P)
                                   THEN [lock |-> lock, timeout |-> timeout]
                                   ELSE active[id]]
    /\ stats' = [stats EXCEPT !["active"] = @ + Cardinality(P)]
    /\ UNCHANGED <<version, delayed, timeouts, args, failures>>

AcquireWork(P, lock, timeout) ==
    /\ pending' = pending \ P
    /\ active' = [id \in Tasks |-> IF id \in Ids(P)
                                   THEN [lock |-> lock, timeout |-> timeout]
                                   ELSE active[id]]
    /\ timeouts' = timeouts \cup {[at |-> timeout, id |-> id] : id \in Ids(P)}
    /\ stats' = [stats EXCEPT !["active"] = @ + Cardinality(P)]
    /\ UNCHANGED <<version, delayed, args, failures>>

----------------------------------------------------------------------------
(* resolveTask, refreshLock, completeWork; the ids of a batch are handled  *)
(* in one transaction, and a batch may name a task twice.                  *)

Holds(id, lock) == active[id] # NoLease /\ active[id].lock = lock

\* resolveTask returns arguments, not null.
Resolves(id, lock) == Holds(id, lock) /\ id \in args

\* Mutant of RefreshLock: the old timeout key stays.
RefreshLock_KeepsOldKey(batch, lock, newTimeout) ==
    LET moved == {id \in Ids(batch) : Holds(id, lock) /\ newTimeout >= active[id].timeout}
    IN  /\ active' = [id \in Tasks |-> IF id \in moved
                                       THEN [lock |-> lock, timeout |-> newTimeout]
                                       ELSE active[id]]
        /\ timeouts' = timeouts \cup {[at |-> newTimeout, id |-> id] : id \in moved}
        /\ UNCHANGED <<version, pending, delayed, args, failures, stats>>

RefreshLock(batch, lock, newTimeout) ==
    LET moved == {id \in Ids(batch) : Holds(id, lock) /\ newTimeout >= active[id].timeout}
    IN  /\ active' = [id \in Tasks |-> IF id \in moved
                                       THEN [lock |-> lock, timeout |-> newTimeout]
                                       ELSE active[id]]
        /\ timeouts' = (timeouts \ {[at |-> active[id].timeout, id |-> id] : id \in moved})
                           \cup {[at |-> newTimeout, id |-> id] : id \in moved}
        /\ UNCHANGED <<version, pending, delayed, args, failures, stats>>

\* The calls of a batch read the active keys before any of them is cleared.
CompleteWork(batch) ==
    LET found == {e \in batch : active[e.id] # NoLease}
    IN  /\ active' = [id \in Tasks |-> IF id \in Ids(found) THEN NoLease ELSE active[id]]
        /\ args' = args \ Ids(found)
        /\ failures' = [id \in Tasks |-> IF id \in Ids(found) THEN 0 ELSE failures[id]]
        /\ timeouts' = timeouts \ {[at |-> active[id].timeout, id |-> id] : id \in Ids(found)}
        /\ stats' = [stats EXCEPT !["active"] = @ - Cardinality(found),
                                  !["completed"] = @ + Cardinality(found)]
        /\ UNCHANGED <<version, pending, delayed>>

----------------------------------------------------------------------------
(* rescheduleTasks *)

\* Mutant: the scan starts at the keys that are about to run out.
LatestBefore_TooSoon(K, now) ==
    LET due == {k \in K : k.at < now + 2}
    IN  {P \in SUBSET due :
            /\ Cardinality(P) = Least(RescheduleLimit, Cardinality(due))
            /\ \A p \in P, q \in due \ P : q.at <= p.at}

\* `range(after: now, reverse, limit)`: the latest `RescheduleLimit` keys
\* below `now`.
LatestBefore(K, now) ==
    LET due == {k \in K : k.at < now}
    IN  {P \in SUBSET due :
            /\ Cardinality(P) = Least(RescheduleLimit, Cardinality(due))
            /\ \A p \in P, q \in due \ P : q.at <= p.at}

\* The timeout keys of the scan, each with the attempts read for its task.
WithAttempts(K) == {[at |-> k.at, id |-> k.id, left |-> failures[k.id]] : k \in K}

\* Mutant: the last attempt is not given.
Remaining_OneLess(left, n) ==
    IF left = Infinite THEN Infinite ELSE IF left > n + 1 THEN left - n ELSE 0

\* Attempts left after n expirations; 0 cancels the task.
Remaining(left, n) ==
    IF left = Infinite THEN Infinite ELSE IF left > n THEN left - n ELSE 0

\* The loop goes from the latest key down: the expirations of k's task up to k.
Expirations(E, k) == {j \in E : j.id = k.id /\ j.at >= k.at}
TaskExpirations(E, id) == {j \in E : j.id = id}

\* `ex` of the pending key written for k.
Position(K, k) == Cardinality({j \in K : j.at >= k.at})

\* A key this transaction read (and marked) changed since.
Conflicts(E) ==
    \E k \in E : [at |-> k.at, id |-> k.id] \notin timeouts \/ failures[k.id] # k.left

\* Mutant: the last attempt is neither given nor counted as spent.
Retried_NotLast(E) ==
    {k \in E : Remaining(failures[k.id], Cardinality(Expirations(E, k))) > 1}

Retried(E) == {k \in E : Remaining(failures[k.id], Cardinality(Expirations(E, k))) > 0}

Cancelled(E) ==
    {id \in Ids(E) : Remaining(failures[id], Cardinality(TaskExpirations(E, id))) = 0}

\* The pending keys of the expired and of the due tasks; the index goes on
\* from the first loop to the second.
RetryEntries(E) ==
    {[version |-> version + 1, ex |-> Position(E, k), id |-> k.id] : k \in Retried(E)}
DueEntries(E, D) ==
    {[version |-> version + 1, ex |-> Cardinality(E) + Position(D, k), id |-> k.id] : k \in D}

Reschedule(E, D) ==
    /\ version' = version + 1
    /\ active' = [id \in Tasks |-> IF id \in Ids(E) THEN NoLease ELSE active[id]]
    /\ timeouts' = timeouts \ {[at |-> k.at, id |-> k.id] : k \in E}
    /\ failures' = [id \in Tasks |->
                        IF id \in Ids(E)
                        THEN Remaining(failures[id], Cardinality(TaskExpirations(E, id)))
                        ELSE failures[id]]
    /\ args' = args \ Cancelled(E)
    /\ pending' = pending \cup RetryEntries(E) \cup DueEntries(E, D)
    /\ delayed' = delayed \ D
    /\ stats' = [stats EXCEPT !["failures"] = @ + Cardinality(E),
                              !["active"] = @ - Cardinality(E),
                              !["scheduled"] = @ - Cardinality(D)]
=============================================================================
