--------------------------- MODULE SyncWorkerQueue ---------------------------
(***************************************************************************)
(* The keyed queue of openland-module-workers (SyncWorkerQueue.ts): tasks  *)
(* are appended to a store per key (writePendingTask, readPendingTasks and *)
(* commitTasks of WorkQueueRepository.ts), and a job of an external        *)
(* BetterWorkerQueue with unlimited attempts works the key until its store *)
(* is empty, so that one worker at a time handles the tasks of a key in    *)
(* their order.                                                            *)
(*                                                                         *)
(* Of the job queue this module assumes what TaskQueue promises for an     *)
(* external queue: an open job is started again until a start that ended   *)
(* is confirmed.  It is started while another worker is at it only when    *)
(* that worker's lease ran out.                                            *)
(*                                                                         *)
(* The subspace of the store has no queue in its keys (WorkQueueRepository *)
(* .ts:379), so all the queues of the server share it.  A task is named by *)
(* its versionstamp: the n-th push commits task n.                         *)
(***************************************************************************)
EXTENDS Integers, FiniteSets

CONSTANTS
    Queues,    \* the SyncWorkerQueues of the server
    Keys,      \* conference ids, peer ids, shard keys
    Parallel,  \* workers of each queue, over all processes
    MaxTasks,  \* bound on the pushes
    MaxLost,   \* bound on the leases that run out under a working worker
    MaxDeaths  \* bound on the workers that throw or die

ASSUME SyncAssumption ==
    /\ IsFiniteSet(Queues) /\ Parallel \in Nat \ {0}
    /\ MaxTasks \in Nat /\ MaxLost \in Nat /\ MaxDeaths \in Nat

Tasks == 1..MaxTasks
Workers == Queues \X (1..Parallel)
QueueOf(w) == w[1]

VARIABLES
    type,       \* settings.type of each queue
    counter,    \* STORE_COUNTER of each key, 0 without a key
    enqueued,   \* STORE_ENQUEUED
    store,      \* STORE_TASKS: the tasks stored for each key
    jobs,       \* open jobs of the job queues; a job is named by the push that made it
    worker,     \* what each worker is doing
    last,       \* versionstamp of the last push
    lost,       \* leases lost so far
    deaths,     \* workers dead so far
    pushed,     \* history: queue and key of every push
    handled,    \* history: times each task was handled, by which queue's handler
    shared      \* history: keys that two workers were at, at the same time

storeVars == <<counter, enqueued, store>>
histVars == <<pushed, handled, shared>>
vars == <<type, storeVars, jobs, worker, last, lost, deaths, histVars>>

Jobs == [id : Tasks, queue : Queues, key : Keys]
NoPush == [queue |-> "none", key |-> "none"]
Idle == [phase |-> "idle", job |-> NoPush, counter |-> 0, tasks |-> {}]

TypeOK ==
    /\ type \in [Queues -> {"transactional", "external"}]
    /\ counter \in [Keys -> Nat]
    /\ enqueued \in [Keys -> BOOLEAN]
    /\ store \in [Keys -> SUBSET Tasks]
    /\ jobs \subseteq Jobs
    /\ worker \in [Workers -> [phase : {"idle", "looping", "read", "handled", "done"},
                               job : Jobs \cup {NoPush}, counter : Nat, tasks : SUBSET Tasks]]
    /\ \A w \in Workers : worker[w].phase # "idle" =>
          worker[w].job \in Jobs /\ worker[w].job.queue = QueueOf(w)
    /\ last \in 0..MaxTasks /\ lost \in 0..MaxLost /\ deaths \in 0..MaxDeaths
    /\ pushed \in [Tasks -> [queue : Queues, key : Keys] \cup {NoPush}]
    /\ handled \in [Tasks -> [Queues -> Nat]]
    /\ shared \subseteq Keys

Init ==
    /\ type \in [Queues -> {"transactional", "external"}]
    /\ counter = [k \in Keys |-> 0]
    /\ enqueued = [k \in Keys |-> FALSE]
    /\ store = [k \in Keys |-> {}]
    /\ jobs = {}
    /\ worker = [w \in Workers |-> Idle]
    /\ last = 0 /\ lost = 0 /\ deaths = 0
    /\ pushed = [t \in Tasks |-> NoPush]
    /\ handled = [t \in Tasks |-> [q \in Queues |-> 0]]
    /\ shared = {}

----------------------------------------------------------------------------
(* pushWork: writePendingTask and, for a key that is not enqueued, a job *)

\* Mutant of PushWork: makes a job only for a key that is enqueued already.
PushWork_Inverted(q, k) ==
    /\ last < MaxTasks
    /\ last' = last + 1
    /\ counter' = [counter EXCEPT ![k] = @ + 1]
    /\ store' = [store EXCEPT ![k] = @ \cup {last'}]
    /\ enqueued' = [enqueued EXCEPT ![k] = TRUE]
    /\ jobs' = IF enqueued[k] THEN jobs \cup {[id |-> last', queue |-> q, key |-> k]} ELSE jobs
    /\ pushed' = [pushed EXCEPT ![last'] = [queue |-> q, key |-> k]]
    /\ UNCHANGED <<type, worker, lost, deaths, handled, shared>>

PushWork(q, k) ==
    /\ last < MaxTasks
    /\ last' = last + 1
    /\ counter' = [counter EXCEPT ![k] = @ + 1]
    /\ store' = [store EXCEPT ![k] = @ \cup {last'}]
    /\ enqueued' = [enqueued EXCEPT ![k] = TRUE]
    /\ jobs' = IF enqueued[k] THEN jobs
               ELSE jobs \cup {[id |-> last', queue |-> q, key |-> k]}
    /\ pushed' = [pushed EXCEPT ![last'] = [queue |-> q, key |-> k]]
    /\ UNCHANGED <<type, worker, lost, deaths, handled, shared>>

----------------------------------------------------------------------------
(* addWorker *)

KeyOf(w) == worker[w].job.key
At(k) == {w \in Workers : worker[w].phase # "idle" /\ KeyOf(w) = k}
SetWorker(w, state) == worker' = [worker EXCEPT ![w] = state]
MoveTo(w, phase) == SetWorker(w, [worker[w] EXCEPT !.phase = phase])

\* The job queue starts a job; a second time when the lease was lost.
Start(w) ==
    /\ worker[w].phase = "idle"
    /\ \E j \in jobs :
         /\ j.queue = QueueOf(w)
         /\ IF \E v \in Workers : worker[v].job = j
            THEN lost < MaxLost /\ lost' = lost + 1
            ELSE UNCHANGED lost
         /\ SetWorker(w, [Idle EXCEPT !.phase = "looping", !.job = j])
         /\ shared' = IF At(j.key) # {} THEN shared \cup {j.key} ELSE shared
    /\ UNCHANGED <<type, storeVars, jobs, last, deaths, pushed, handled>>

\* readPendingTasks, in a transaction of its own.
Read(w) ==
    LET k == KeyOf(w)
    IN  /\ worker[w].phase = "looping"
        /\ IF counter[k] = 0 \/ store[k] = {}
           THEN MoveTo(w, "done")
           ELSE SetWorker(w, [worker[w] EXCEPT !.phase = "read",
                                               !.counter = counter[k], !.tasks = store[k]])
        /\ UNCHANGED <<type, storeVars, jobs, last, lost, deaths, histVars>>

\* What commitTasks leaves of a store when more was pushed since the read.
Unprocessed(tasks, read) == {t \in tasks : \A r \in read : t > r}
Drop(k, tasks) == store' = [store EXCEPT ![k] = tasks]
Release(k) ==
    /\ counter' = [counter EXCEPT ![k] = 0]
    /\ store' = [store EXCEPT ![k] = {}]
    /\ enqueued' = [enqueued EXCEPT ![k] = FALSE]

\* Mutant of CommitTasks: ends the loop although tasks were pushed meanwhile.
CommitTasks_AlwaysDone(w) ==
    LET k == KeyOf(w)
    IN  CASE counter[k] = 0 -> MoveTo(w, "done") /\ UNCHANGED storeVars
          [] counter[k] # 0 /\ counter[k] # worker[w].counter ->
               /\ Drop(k, Unprocessed(store[k], worker[w].tasks))
               /\ UNCHANGED <<counter, enqueued>>
               /\ MoveTo(w, "done")
          [] OTHER -> Release(k) /\ MoveTo(w, "done")

\* Mutant of CommitTasks: does not look at the counter.
CommitTasks_Unconditional(w) ==
    IF counter[KeyOf(w)] = 0 THEN MoveTo(w, "done") /\ UNCHANGED storeVars
    ELSE Release(KeyOf(w)) /\ MoveTo(w, "done")

\* commitTasks for the tasks up to the last one read; the loop goes on when
\* the counter has changed.
CommitTasks(w) ==
    LET k == KeyOf(w)
    IN  CASE counter[k] = 0 -> MoveTo(w, "done") /\ UNCHANGED storeVars
          [] counter[k] # 0 /\ counter[k] # worker[w].counter ->
               /\ Drop(k, Unprocessed(store[k], worker[w].tasks))
               /\ UNCHANGED <<counter, enqueued>>
               /\ MoveTo(w, "looping")
          [] OTHER -> Release(k) /\ MoveTo(w, "done")

\* The handler took effect on the tasks read, in their order.
CountHandled(w) ==
    handled' = [t \in Tasks |-> IF t \in worker[w].tasks
                                THEN [handled[t] EXCEPT ![QueueOf(w)] = @ + 1]
                                ELSE handled[t]]

HandleTransactional(w) ==
    /\ type[QueueOf(w)] = "transactional"
    /\ worker[w].phase = "read"
    /\ CountHandled(w)
    /\ CommitTasks(w)
    /\ UNCHANGED <<type, jobs, last, lost, deaths, pushed, shared>>

HandleExternal(w) ==
    /\ type[QueueOf(w)] = "external"
    /\ worker[w].phase = "read"
    /\ CountHandled(w)
    /\ MoveTo(w, "handled")
    /\ UNCHANGED <<type, storeVars, jobs, last, lost, deaths, pushed, shared>>

CommitExternal(w) ==
    /\ worker[w].phase = "handled"
    /\ CommitTasks(w)
    /\ UNCHANGED <<type, jobs, last, lost, deaths, histVars>>

\* The job's handler returned: the job queue completes the job.
Complete(w) ==
    /\ worker[w].phase = "done"
    /\ jobs' = jobs \ {worker[w].job}
    /\ SetWorker(w, Idle)
    /\ UNCHANGED <<type, storeVars, last, lost, deaths, histVars>>

\* A handler or a transaction throws, or the process dies.
Die(w) ==
    /\ deaths < MaxDeaths
    /\ worker[w].phase # "idle"
    /\ deaths' = deaths + 1
    /\ SetWorker(w, Idle)
    /\ UNCHANGED <<type, storeVars, jobs, last, lost, histVars>>

Work(w) ==
    Start(w) \/ Read(w) \/ HandleTransactional(w) \/ HandleExternal(w)
        \/ CommitExternal(w) \/ Complete(w)

Next ==
    \/ \E q \in Queues, k \in Keys : PushWork(q, k)
    \/ \E w \in Workers : Work(w) \/ Die(w)

Spec == Init /\ [][Next]_vars

\* The job queue goes on starting open jobs, and handlers end.
FairSpec == Spec /\ \A w \in Workers : WF_vars(Work(w))
----------------------------------------------------------------------------
(* Properties *)

\* The three records of a key agree: a key without tasks is not enqueued, or no
\* later push would ever start a job for it; and one with tasks has an open job
\* that nobody is about to complete.
NothingStranded ==
    /\ TypeOK
    /\ \A k \in Keys :
         /\ enqueued[k] <=> counter[k] > 0
         /\ enqueued[k] <=> store[k] # {}
         /\ enqueued[k] => \E j \in jobs :
              j.key = k /\ ~\E w \in Workers : worker[w].job = j /\ worker[w].phase = "done"

TimesHandled(t) == handled[t][pushed[t].queue]
StoredFor(t) == t \in store[pushed[t].key]
\* Only one queue uses the key of task t.
OwnKey(t) == \A u \in 1..last : pushed[u].key = pushed[t].key => pushed[u].queue = pushed[t].queue

\* As long as no two workers were at a key at once, its tasks are handled in
\* their order, none is skipped, and by a transactional handler each exactly once.
HandledInOrder ==
    \A t \in 1..last : OwnKey(t) /\ pushed[t].key \notin shared =>
        /\ ~StoredFor(t) => TimesHandled(t) > 0
        /\ TimesHandled(t) > 0 => \A u \in 1..t :
              pushed[u].key = pushed[t].key => TimesHandled(u) > 0
        /\ type[pushed[t].queue] = "transactional" => TimesHandled(t) <= 1

\* `handler: (ctx: Context, item: T[])' (SyncWorkerQueue.ts:24): a handler gets
\* tasks of its own queue.
HandlerGetsItsOwn ==
    \A t \in 1..last, q \in Queues : handled[t][q] > 0 => pushed[t].queue = q

\* Every task leaves the store, and its key is free again.
EventuallyWorked == \A k \in Keys : enqueued[k] ~> ~enqueued[k]
=============================================================================
