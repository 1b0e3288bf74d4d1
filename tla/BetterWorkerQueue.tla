-------------------------- MODULE BetterWorkerQueue --------------------------
(***************************************************************************)
(* The worker processes of one queue (BetterWorkerQueue.ts through         *)
(* QueueStorage.ts) and the scheduler loops of the admin servers           *)
(* (scheduling/startScheduler.ts), over the key space of                   *)
(* WorkQueueRepository.                                                    *)
(*                                                                         *)
(* Each of the `Parallel` concurrent runs of doWork a process allows is a  *)
(* slot; activeTasks is the number of slots that are not free.  A slot     *)
(* keeps the batch it acquired.  Every delay between two awaits of doWork, *)
(* a paused process and a lease that runs out under a working handler are  *)
(* the interleavings of these actions with Tick.                           *)
(***************************************************************************)
EXTENDS WorkQueueRepository

CONSTANTS
    Schedulers,   \* admin servers: each runs its own startScheduler loop
    Parallel,     \* runs of doWork per process
    BatchSize,    \* tasks per run (addWorkers: 1)
    FirstLease,   \* timeout given to acquireWork
    Lease,        \* timeout given to refreshLock
    StartTimes,   \* startAt values of the pushes
    MaxTime,      \* bound on the clock
    LastFailure   \* no process fails after this time (bound on failures)

ASSUME SizesAssumption == Parallel \in Nat \ {0} /\ BatchSize \in Nat \ {0}
ASSUME TimesAssumption ==
    /\ FirstLease \in Nat /\ Lease \in Nat
    /\ MaxTime \in Nat /\ LastFailure \in Nat /\ StartTimes \subseteq Nat

VARIABLES
    type,       \* settings.type: the queue is built with one and keeps it
    now,        \* Date.now(), the same on every server
    life,       \* restarts of each process: its seed is <<process, life>>
    job,        \* the doWork runs of each process
    scan,       \* what the transaction of each scheduler has read
    pushed,     \* history: tasks pushed so far
    effects,    \* history: handler runs of each task that took effect
    expired,    \* history: leases of each task that were rescheduled
    dropped,    \* history: tasks rescheduleTasks cancelled
    doubled     \* history: a delayed task was moved to pending a second time

procVars == <<type, now, life, job, scan>>
histVars == <<pushed, effects, expired, dropped, doubled>>
vars == <<repoVars, procVars, histVars>>

Slots == 1..Parallel
Phases == {"free", "acquired", "running", "handled"}
FreeSlot == [phase |-> "free", batch |-> {}]
NoScan == [phase |-> "idle", expired |-> {}, due |-> {}]
NoHist == UNCHANGED histVars

TypeOK ==
    /\ RepoTypeOK
    /\ type \in {"transactional", "external"}
    /\ now \in Nat
    /\ life \in [Servers -> Nat]
    /\ job \in [Servers -> [Slots -> [phase : Phases, batch : SUBSET Entries]]]
    /\ \A s \in Servers, k \in Slots : IsFiniteSet(job[s][k].batch)
    /\ scan \in [Schedulers -> [phase : {"idle", "read"},
                                expired : SUBSET ExpiredKeys, due : SUBSET TimeKeys]]
    /\ \A c \in Schedulers : IsFiniteSet(scan[c].expired) /\ IsFiniteSet(scan[c].due)
    /\ pushed \in SUBSET Tasks
    /\ effects \in [Tasks -> Nat]
    /\ expired \in [Tasks -> Nat]
    /\ dropped \in SUBSET Tasks
    /\ doubled \in BOOLEAN

Init ==
    /\ RepoInit
    /\ type \in {"transactional", "external"}
    /\ now = 0
    /\ life = [s \in Servers |-> 0]
    /\ job = [s \in Servers |-> [k \in Slots |-> FreeSlot]]
    /\ scan = [c \in Schedulers |-> NoScan]
    /\ pushed = {}
    /\ effects = [id \in Tasks |-> 0]
    /\ expired = [id \in Tasks |-> 0]
    /\ dropped = {}
    /\ doubled = FALSE

Seed(s) == <<s, life[s]>>

Tick ==
    /\ now < MaxTime
    /\ now' = now + 1
    /\ UNCHANGED <<repoVars, type, life, job, scan, histVars>>

\* pushWork of some request; uuid() never returns an id twice.
Push(id, startAt) ==
    /\ id \notin pushed
    /\ PushWork(id, startAt)
    /\ pushed' = pushed \cup {id}
    /\ UNCHANGED <<procVars, effects, expired, dropped, doubled>>

----------------------------------------------------------------------------
(* The working loop *)

FreeSlots(s) == {k \in Slots : job[s][k].phase = "free"}

\* batch(tasks, batchSize): as few batches as hold them all, one slot each.
Batches(s, P) ==
    {f \in [P -> FreeSlots(s)] :
        /\ \A k \in FreeSlots(s) : Cardinality({p \in P : f[p] = k}) <= BatchSize
        /\ \A j, k \in FreeSlots(s) :
               j < k /\ (\E p \in P : f[p] = k)
                   => Cardinality({p \in P : f[p] = j}) = BatchSize}

\* The runs of the process after one was started for each batch.
Started(s, P, f) ==
    [k \in Slots |->
        IF \E p \in P : f[p] = k
        THEN [phase |-> "acquired", batch |-> {p \in P : f[p] = k}]
        ELSE job[s][k]]

Acquire(s) ==
    /\ FreeSlots(s) # {}
    /\ \E P \in OldestPending(Least(Cardinality(FreeSlots(s)) * BatchSize, 20)) :
         /\ P # {}
         /\ AcquireWork(P, Seed(s), now + FirstLease)
         /\ \E f \in Batches(s, P) : job' = [job EXCEPT ![s] = Started(s, P, f)]
    /\ UNCHANGED <<type, now, life, scan>> /\ NoHist

SetSlot(s, k, slot) == job' = [job EXCEPT ![s][k] = slot]

\* Mutant: the run does not resolve its tasks.
Live_Unresolved(s, k) == job[s][k].batch

Live(s, k) == {p \in job[s][k].batch : Resolves(p.id, Seed(s))}

\* The handler of a batch took effect: once for each item.
CountEffects(batch) ==
    effects' = [id \in Tasks |-> effects[id] + Cardinality({p \in batch : p.id = id})]

\* doWorkTransactional: resolve, complete and handle in one transaction.
DoWorkTransactional(s, k) ==
    /\ type = "transactional"
    /\ job[s][k].phase = "acquired"
    /\ CompleteWork(Live(s, k))
    /\ CountEffects(Live(s, k))
    /\ SetSlot(s, k, FreeSlot)
    /\ UNCHANGED <<type, now, life, scan, pushed, expired, dropped, doubled>>

\* Mutant: the tasks are completed before the handler runs.
StartExternal_CompletesFirst(s, k) ==
    /\ type = "external"
    /\ job[s][k].phase = "acquired"
    /\ CompleteWork(Live(s, k))
    /\ SetSlot(s, k, IF Live(s, k) = {} THEN FreeSlot
                     ELSE [phase |-> "running", batch |-> Live(s, k)])
    /\ UNCHANGED <<type, now, life, scan>> /\ NoHist

\* doWorkExternal: the first transaction.
StartExternal(s, k) ==
    /\ type = "external"
    /\ job[s][k].phase = "acquired"
    /\ SetSlot(s, k, IF Live(s, k) = {} THEN FreeSlot
                     ELSE [phase |-> "running", batch |-> Live(s, k)])
    /\ UNCHANGED <<repoVars, type, now, life, scan>> /\ NoHist

\* lockLoop, which runs until the finally block of doWorkExternal.
Refresh(s, k) ==
    /\ job[s][k].phase \in {"running", "handled"}
    /\ RefreshLock(job[s][k].batch, Seed(s), now + Lease)
    /\ UNCHANGED procVars /\ NoHist

\* The handler resolves.
Handle(s, k) ==
    /\ type = "external"
    /\ job[s][k].phase = "running"
    /\ CountEffects(job[s][k].batch)
    /\ SetSlot(s, k, [job[s][k] EXCEPT !.phase = "handled"])
    /\ UNCHANGED <<repoVars, type, now, life, scan, pushed, expired, dropped, doubled>>

\* "Commit work": completeWork does not look at the lock.
CommitExternal(s, k) ==
    /\ job[s][k].phase = "handled"
    /\ CompleteWork(job[s][k].batch)
    /\ SetSlot(s, k, FreeSlot)
    /\ UNCHANGED <<type, now, life, scan>> /\ NoHist

\* A transaction or the handler throws: the run ends, the lease stays.
DoWorkThrows(s, k) ==
    /\ now <= LastFailure
    /\ job[s][k].phase # "free"
    /\ SetSlot(s, k, FreeSlot)
    /\ UNCHANGED <<repoVars, type, now, life, scan>> /\ NoHist

\* The process dies and starts again; addWorkers draws a new seed.
Restart(s) ==
    /\ now <= LastFailure
    /\ \E k \in Slots : job[s][k].phase # "free"
    /\ life' = [life EXCEPT ![s] = @ + 1]
    /\ job' = [job EXCEPT ![s] = [k \in Slots |-> FreeSlot]]
    /\ UNCHANGED <<repoVars, type, now, scan>> /\ NoHist

----------------------------------------------------------------------------
(* startScheduler *)

RescheduleRead(c) ==
    /\ scan[c].phase = "idle"
    /\ \E E \in LatestBefore(timeouts, now), D \in LatestBefore(delayed, now) :
         /\ E # {} \/ D # {}
         /\ scan' = [scan EXCEPT ![c] =
                       [phase |-> "read", expired |-> WithAttempts(E), due |-> D]]
    /\ UNCHANGED <<repoVars, type, now, life, job>> /\ NoHist

RescheduleCommit(c) ==
    LET E == scan[c].expired
        D == scan[c].due
    IN  /\ scan[c].phase = "read"
        /\ ~Conflicts(E)
        /\ Reschedule(E, D)
        /\ scan' = [scan EXCEPT ![c] = NoScan]
        /\ expired' = [id \in Tasks |->
                          expired[id] + Cardinality(TaskExpirations(E, id))]
        /\ dropped' = dropped \cup (Cancelled(E) \cap args)
        /\ doubled' = (doubled \/ ~(D \subseteq delayed))
        /\ UNCHANGED <<type, now, life, job, pushed, effects>>

\* The transaction conflicts and inTx starts it again.
RescheduleRetry(c) ==
    /\ scan[c].phase = "read"
    /\ Conflicts(scan[c].expired)
    /\ scan' = [scan EXCEPT ![c] = NoScan]
    /\ UNCHANGED <<repoVars, type, now, life, job>> /\ NoHist

DoWork(s, k) ==
    \/ DoWorkTransactional(s, k)
    \/ StartExternal(s, k)
    \/ Handle(s, k)
    \/ CommitExternal(s, k)

Scheduler(c) == RescheduleRead(c) \/ RescheduleCommit(c) \/ RescheduleRetry(c)

Next ==
    \/ Tick
    \/ \E id \in Tasks, startAt \in StartTimes : Push(id, startAt)
    \/ \E s \in Servers : Acquire(s) \/ Restart(s)
    \/ \E s \in Servers, k \in Slots :
          DoWork(s, k) \/ Refresh(s, k) \/ DoWorkThrows(s, k)
    \/ \E c \in Schedulers : Scheduler(c)

Spec == Init /\ [][Next]_vars

\* Time passes; the loops of a running process and of a scheduler go on, and
\* a handler and every transaction end.
Fairness ==
    /\ WF_vars(Tick)
    /\ \A s \in Servers : WF_vars(Acquire(s))
    /\ \A s \in Servers, k \in Slots : WF_vars(DoWork(s, k))
    /\ \A c \in Schedulers : WF_vars(Scheduler(c))

FairSpec == Spec /\ Fairness
----------------------------------------------------------------------------
(* Properties *)

InPending(id) == \E p \in pending : p.id = id
InDelayed(id) == \E d \in delayed : d.id = id

\* No task is lost: as long as its arguments are stored, some loop will come
\* to it, whatever processes died, threw or lost their lease on the way.
NothingLost ==
    \A id \in args : InPending(id) \/ InDelayed(id) \/ active[id] # NoLease

\* A task leaves the queue only because its handler took effect or because it
\* ran out of attempts: the lock that completeWork does not check cannot make
\* it forget a task nobody handled.
GoneIsHandledOrDropped ==
    \A id \in pushed \ args : effects[id] > 0 \/ id \in dropped

\* The effect of a transactional handler is applied at most once, although
\* leases expire under running handlers and tasks are acquired again.  With
\* one task per run this is so even after a delayed task was moved twice; a
\* batch could then name the same task twice.
EffectAtMostOnce ==
    type = "transactional" /\ (BatchSize = 1 \/ ~doubled)
        => \A id \in Tasks : effects[id] <= 1

\* A task is cancelled only after its last attempt's lease has run out, and
\* one with infinite attempts never.
DroppedAfterAllAttempts ==
    \A id \in dropped : MaxAttempts # Infinite /\ expired[id] >= MaxAttempts

\* A task leaves the queue only because it was handled, or because as many leases
\* of it ran out as it had attempts.
GoneIsHandledOrSpent == GoneIsHandledOrDropped /\ DroppedAfterAllAttempts

\* An active task has its timeout key, so that rescheduleTasks finds it.
ActiveHasTimeout ==
    \A id \in Tasks :
        active[id] # NoLease => [at |-> active[id].timeout, id |-> id] \in timeouts

\* No lease is out of the timeouts index; and unless a delayed task was moved
\* twice, the index holds nothing else, a task is in one place only, and the
\* counters that the dashboards and ScheduledQueue read are exact.
IndexesAgree ==
    /\ ActiveHasTimeout
    /\ \/ doubled
       \/ /\ timeouts = {[at |-> active[id].timeout, id |-> id] :
                             id \in {i \in Tasks : active[i] # NoLease}}
          /\ \A id \in Tasks : Cardinality({p \in pending : p.id = id})
                 + (IF InDelayed(id) THEN 1 ELSE 0)
                 + (IF active[id] # NoLease THEN 1 ELSE 0)
                     = (IF id \in args THEN 1 ELSE 0)
          /\ stats["active"] = Cardinality({id \in Tasks : active[id] # NoLease})
          /\ stats["scheduled"] = Cardinality(delayed)
          /\ stats["total"] = Cardinality(args) + Cardinality(dropped) + stats["completed"]

\* A lease that has not run out ends only by the completion of its task: no
\* scheduler and no other process takes it, unless a delayed task was moved
\* twice.
LeaseKept ==
    \A id \in Tasks :
        (active[id] # NoLease /\ active[id].timeout >= now /\ id \in args')
            => active'[id] # NoLease /\ active'[id].lock = active[id].lock
LeaseRespected == [][LeaseKept \/ doubled']_vars

\* Every task is settled in the end: handled, or cancelled.
EventuallySettled == \A id \in Tasks : id \in args ~> id \notin args

\* The queue implements the abstract one.
Stage(id) ==
    IF id \notin pushed THEN "new" ELSE
    IF id \in args THEN "open" ELSE
    IF id \in dropped THEN "dropped" ELSE "done"

Queue == INSTANCE TaskQueue WITH
    Retries <- (IF MaxAttempts = Infinite THEN "infinite" ELSE "limited"),
    stage <- [id \in Tasks |-> Stage(id)],
    runs <- effects

QueueSpec == Queue!Spec
=============================================================================
