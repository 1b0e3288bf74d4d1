----------------------------- MODULE Calls_proofs -----------------------------
(*****************************************************************************)
(* Proofs about SyncWorkerQueue and VoiceChats: the queues that calls are    *)
(* worked on, and the voice chats.                                           *)
(*****************************************************************************)
EXTENDS SyncWorkerQueue, VoiceChats, FiniteSetTheorems, TLAPS

-------------------------------------------------------------------------------
(* SyncWorkerQueue, for any number of queues, keys, workers, pushes, lost    *)
(* leases and deaths.                                                        *)

WorkerType == [phase : {"idle", "looping", "read", "handled", "done"},
               job : Jobs \cup {NoPush}, counter : Nat, tasks : SUBSET Tasks]

----------------------------------------------------------------------------
(* The inductive invariant *)

\* A job, and what is stored for a key, was pushed.
Made(j) == j.id \in 1..last /\ pushed[j.id] = [queue |-> j.queue, key |-> j.key]
PushedTo(k) == {t \in 1..last : pushed[t].key = k}

Known ==
    /\ \A t \in 1..last : pushed[t] \in [queue : Queues, key : Keys]
    /\ \A t \in Tasks : t > last => \A q \in Queues : handled[t][q] = 0
    /\ \A k \in Keys : store[k] \subseteq PushedTo(k)
    /\ \A j \in jobs : Made(j)
    /\ \A w \in Workers : worker[w].phase # "idle" =>
         Made(worker[w].job) /\ worker[w].tasks \subseteq PushedTo(KeyOf(w))

\* A worker that has read tasks.
HasRead(w) == worker[w].phase \in {"read", "handled"}

\* A counter that changed since a worker read it means that there is a later task.
Agree ==
    /\ \A k \in Keys :
         /\ enqueued[k] <=> counter[k] > 0
         /\ enqueued[k] <=> store[k] # {}
         /\ enqueued[k] => \E j \in jobs :
              j.key = k /\ ~\E w \in Workers : worker[w].job = j /\ worker[w].phase = "done"
    /\ \A w \in Workers : HasRead(w) /\ counter[KeyOf(w)] \notin {0, worker[w].counter} =>
         \E t \in store[KeyOf(w)] : \A r \in worker[w].tasks : t > r

\* Where no two workers were at a key at once, what the one there has read is the
\* first part of the store, and all of it while the counter stays.
SoleAt(k) ==
    /\ \A v, w \in At(k) : v = w
    /\ \A w \in At(k) : HasRead(w) =>
         /\ counter[k] # 0
         /\ worker[w].tasks \subseteq store[k]
         /\ \A t \in store[k] \ worker[w].tasks : \A r \in worker[w].tasks : t > r
         /\ counter[k] >= worker[w].counter
         /\ counter[k] = worker[w].counter => store[k] = worker[w].tasks

Sole == \A k \in Keys \ shared : SoleAt(k)

\* Only queue q uses key k.
Own(k, q) == \A u \in PushedTo(k) : pushed[u].queue = q

Ordered(k, q) ==
    /\ \A t \in PushedTo(k) :
         /\ t \notin store[k] => handled[t][q] > 0
         /\ handled[t][q] > 0 => \A u \in PushedTo(k) : u <= t => handled[u][q] > 0
         /\ type[q] = "transactional" => handled[t][q] <= 1 /\ (t \in store[k] => handled[t][q] = 0)
    /\ \A w \in At(k) : worker[w].phase = "handled" => \A t \in worker[w].tasks : handled[t][q] > 0

InOrder == \A k \in Keys \ shared, q \in Queues : Own(k, q) => Ordered(k, q)

Inv == TypeOK /\ Known /\ Agree /\ Sole /\ InOrder

----------------------------------------------------------------------------
(* Types *)

LEMMA TasksAre == SyncAssumption => Tasks \subseteq Nat /\ Tasks \subseteq Int
BY DEF SyncAssumption, Tasks

LEMMA WorkerTypeIs ==
  ASSUME TypeOK
  PROVE  /\ worker \in [Workers -> WorkerType]
         /\ \A w \in Workers : worker[w].phase # "idle" =>
              KeyOf(w) \in Keys /\ worker[w].job \in Jobs /\ worker[w].job.queue = QueueOf(w)
BY DEF TypeOK, WorkerType, KeyOf, Jobs

\* A worker goes on to another state.
LEMMA SetWorkerIs ==
  ASSUME TypeOK, NEW w \in Workers, NEW state \in WorkerType, SetWorker(w, state),
         state.phase # "idle" => state.job \in Jobs /\ state.job.queue = QueueOf(w)
  PROVE  /\ worker'[w] = state /\ \A v \in Workers : v # w => worker'[v] = worker[v]
         /\ worker' \in [Workers -> WorkerType]
         /\ \A v \in Workers : worker'[v].phase # "idle" =>
              worker'[v].job \in Jobs /\ worker'[v].job.queue = QueueOf(v)
<1>1. worker \in [Workers -> WorkerType]
  BY WorkerTypeIs
<1>2. /\ worker'[w] = state /\ \A v \in Workers : v # w => worker'[v] = worker[v]
      /\ worker' \in [Workers -> WorkerType]
  BY <1>1 DEF SetWorker
<1> QED BY <1>2, WorkerTypeIs

\* The states a worker moves to.
LEMMA MoveToIs ==
  ASSUME TypeOK, NEW w \in Workers, worker[w].phase # "idle",
         NEW p \in {"looping", "read", "handled", "done"}, MoveTo(w, p)
  PROVE  /\ worker'[w].phase = p /\ worker'[w].job = worker[w].job
         /\ worker'[w].counter = worker[w].counter /\ worker'[w].tasks = worker[w].tasks
         /\ \A v \in Workers : v # w => worker'[v] = worker[v]
         /\ worker' \in [Workers -> WorkerType]
         /\ \A v \in Workers : worker'[v].phase # "idle" =>
              worker'[v].job \in Jobs /\ worker'[v].job.queue = QueueOf(v)
<1> DEFINE s == [worker[w] EXCEPT !.phase = p]
<1>1. worker[w] \in WorkerType
  BY WorkerTypeIs
<1>2. /\ s \in WorkerType /\ s.phase = p /\ s.job = worker[w].job
      /\ s.counter = worker[w].counter /\ s.tasks = worker[w].tasks
  BY <1>1 DEF WorkerType
<1>3. SetWorker(w, s)
  BY DEF MoveTo
<1> HIDE DEF s
<1>4. s.phase # "idle" => s.job \in Jobs /\ s.job.queue = QueueOf(w)
  BY <1>2, WorkerTypeIs
<1> QED BY <1>2, <1>3, <1>4, SetWorkerIs

LEMMA IdleIs == Idle \in WorkerType /\ Idle.phase = "idle"
BY DEF Idle, WorkerType

----------------------------------------------------------------------------
(* Pushing *)

LEMMA PushWorkStep ==
  ASSUME SyncAssumption, Inv, NEW q \in Queues, NEW k \in Keys, PushWork(q, k)
  PROVE  Inv'
<1>0. PICK n \in Int : n = last + 1
  BY DEF Inv, TypeOK
<1> DEFINE job == [id |-> n, queue |-> q, key |-> k]
<1>1. /\ last \in Nat /\ last < MaxTasks /\ MaxTasks \in Nat /\ n \in Tasks
      /\ last' = n /\ n = last + 1
      /\ 1..n = 1..last \cup {n} /\ n \notin 1..last
  BY <1>0 DEF Inv, TypeOK, SyncAssumption, PushWork, Tasks
<1>2. /\ counter' = [counter EXCEPT ![k] = @ + 1]
      /\ store' = [store EXCEPT ![k] = @ \cup {n}]
      /\ enqueued' = [enqueued EXCEPT ![k] = TRUE]
      /\ jobs' = IF enqueued[k] THEN jobs ELSE jobs \cup {job}
      /\ pushed' = [pushed EXCEPT ![n] = [queue |-> q, key |-> k]]
      /\ UNCHANGED <<type, worker, lost, deaths, handled, shared>>
  BY <1>1 DEF PushWork
<1>3. job \in Jobs
  BY <1>1 DEF Jobs
<1>4. TypeOK'
  BY <1>1, <1>2, <1>3 DEF Inv, TypeOK
<1>5. /\ pushed'[n] = [queue |-> q, key |-> k]
      /\ \A t \in 1..last : pushed'[t] = pushed[t]
      /\ PushedTo(k)' = PushedTo(k) \cup {n}
      /\ \A l \in Keys : l # k => PushedTo(l)' = PushedTo(l)
  <2>1. pushed \in [Tasks -> [queue : Queues, key : Keys] \cup {NoPush}]
    BY DEF Inv, TypeOK
  <2>2. /\ pushed'[n] = [queue |-> q, key |-> k]
        /\ \A t \in 1..last : pushed'[t] = pushed[t]
    BY <1>1, <1>2, <2>1 DEF Tasks
  <2>3. \A l : PushedTo(l)' = {t \in 1..last \cup {n} : pushed'[t].key = l}
    BY <1>1 DEF PushedTo
  <2> QED BY <1>1, <2>2, <2>3 DEF PushedTo
<1>6. \A j : Made(j) => Made(j)'
  BY <1>1, <1>5 DEF Made
<1>7. /\ store'[k] = store[k] \cup {n} /\ \A l \in Keys : l # k => store'[l] = store[l]
      /\ counter'[k] = counter[k] + 1 /\ \A l \in Keys : l # k => counter'[l] = counter[l]
      /\ enqueued'[k] = TRUE /\ \A l \in Keys : l # k => enqueued'[l] = enqueued[l]
  BY <1>2 DEF Inv, TypeOK
<1>8. Known'
  <2>1. Made(job)'
    BY <1>1, <1>5 DEF Made
  <2>2. \A j \in jobs' : Made(j)'
    BY <1>2, <1>6, <2>1 DEF Inv, Known
  <2>3. \A t \in 1..last' : pushed'[t] \in [queue : Queues, key : Keys]
    BY <1>1, <1>5 DEF Inv, Known
  <2>4. \A t \in Tasks : t > last' => \A p \in Queues : handled'[t][p] = 0
    BY <1>1, <1>2, TasksAre DEF Inv, Known
  <2>5. \A l \in Keys : store'[l] \subseteq PushedTo(l)'
    BY <1>5, <1>7 DEF Inv, Known
  <2>6. \A l : PushedTo(l) \subseteq PushedTo(l)'
    BY <1>1, <1>5 DEF PushedTo
  <2>7. \A w \in Workers : worker'[w].phase # "idle" =>
          Made(worker[w].job)' /\ worker'[w].tasks \subseteq PushedTo(KeyOf(w))'
    BY <1>2, <1>6, <2>6 DEF Inv, Known, KeyOf
  <2> QED BY <2>2, <2>3, <2>4, <2>5, <2>7 DEF Known, KeyOf
<1>9. Agree'
  <2>1. ASSUME NEW l \in Keys
        PROVE  /\ enqueued'[l] <=> counter'[l] > 0
               /\ enqueued'[l] <=> store'[l] # {}
    <3>1. counter[k] \in Nat
      BY DEF Inv, TypeOK
    <3> QED BY <1>7, <3>1 DEF Inv, Agree
  <2>2. ASSUME NEW l \in Keys, enqueued'[l]
        PROVE  \E j \in jobs' :
                 j.key = l /\ ~\E w \in Workers : worker'[w].job = j /\ worker'[w].phase = "done"
    <3>1. CASE enqueued[l]
      BY <1>2, <3>1 DEF Inv, Agree
    <3>2. CASE ~enqueued[l]
      <4>1. l = k /\ job \in jobs'
        BY <1>2, <1>7, <2>2, <3>2
      <4>2. ASSUME NEW w \in Workers, worker[w].job = job, worker[w].phase = "done"
            PROVE  FALSE
        <5>1. Made(worker[w].job)
          BY <4>2 DEF Inv, Known
        <5> QED BY <1>1, <4>2, <5>1 DEF Made
      <4> QED BY <1>2, <4>1, <4>2
    <3> QED BY <3>1, <3>2
  <2>3. ASSUME NEW w \in Workers, HasRead(w)', counter'[KeyOf(w)] \notin {0, worker[w].counter}
        PROVE  \E t \in store'[KeyOf(w)] : \A r \in worker[w].tasks : t > r
    <3>1. HasRead(w) /\ KeyOf(w) \in Keys /\ worker[w].tasks \subseteq 1..last
      BY <1>2, <2>3, WorkerTypeIs DEF Inv, Known, HasRead, PushedTo
    <3>2. CASE KeyOf(w) = k
      <4>1. n \in store'[KeyOf(w)] /\ \A r \in worker[w].tasks : n > r
        BY <1>1, <1>7, <3>1, <3>2
      <4> QED BY <4>1
    <3>3. CASE KeyOf(w) # k
      BY <1>7, <2>3, <3>1, <3>3 DEF Inv, Agree
    <3> QED BY <3>2, <3>3
  <2> QED BY <1>2, <2>1, <2>2, <2>3 DEF Agree, KeyOf
<1>10. Sole'
  <2>0. (\A l : At(l)' = At(l)) /\ (\A w : HasRead(w)' <=> HasRead(w))
    BY <1>2 DEF At, KeyOf, HasRead
  <2> SUFFICES ASSUME NEW l \in Keys \ shared PROVE SoleAt(l)'
    BY <1>2 DEF Sole
  <2>1. \A v, w \in At(l) : v = w
    BY DEF Inv, Sole, SoleAt
  <2>2. ASSUME NEW w \in At(l), HasRead(w), l = k
        PROVE  /\ counter'[l] # 0
               /\ worker[w].tasks \subseteq store'[l]
               /\ \A t \in store'[l] \ worker[w].tasks : \A r \in worker[w].tasks : t > r
               /\ counter'[l] >= worker[w].counter
               /\ counter'[l] # worker[w].counter
    <3>1. /\ worker[w].counter \in Nat /\ counter[l] \in Nat /\ worker[w].tasks \subseteq 1..last
      BY WorkerTypeIs DEF At, Inv, TypeOK, WorkerType, Known, PushedTo
    <3>2. /\ worker[w].tasks \subseteq store[l] /\ counter[l] >= worker[w].counter
          /\ \A t \in store[l] \ worker[w].tasks : \A r \in worker[w].tasks : t > r
      BY <2>2 DEF Inv, Sole, SoleAt
    <3>3. \A r \in worker[w].tasks : n > r
      BY <1>1, <3>1
    <3> QED BY <1>7, <2>2, <3>1, <3>2, <3>3
  <2>3. ASSUME NEW w \in At(l), HasRead(w), l # k
        PROVE  /\ counter'[l] # 0
               /\ worker[w].tasks \subseteq store'[l]
               /\ \A t \in store'[l] \ worker[w].tasks : \A r \in worker[w].tasks : t > r
               /\ counter'[l] >= worker[w].counter
               /\ counter'[l] = worker[w].counter => store'[l] = worker[w].tasks
    BY <1>7, <2>3 DEF Inv, Sole, SoleAt
  <2> QED BY <1>2, <2>0, <2>1, <2>2, <2>3 DEF SoleAt
<1>11. InOrder'
  <2> SUFFICES ASSUME NEW l \in Keys \ shared, NEW p \in Queues, Own(l, p)'
               PROVE  Ordered(l, p)'
    BY <1>2 DEF InOrder
  <2>1. Own(l, p)
    <3>1. \A u \in PushedTo(l) : u \in PushedTo(l)' /\ pushed'[u] = pushed[u]
      BY <1>5 DEF PushedTo
    <3> QED BY <3>1 DEF Own
  <2>2. Ordered(l, p)
    BY <2>1 DEF Inv, InOrder
  <2>3. \A w \in At(l) : worker[w].phase = "handled" => \A t \in worker[w].tasks : handled[t][p] > 0
    BY <2>2 DEF Ordered
  <2>4. \A t \in PushedTo(l) :
          /\ t \notin store'[l] => handled[t][p] > 0
          /\ handled[t][p] > 0 => \A u \in PushedTo(l)' : u <= t => handled[u][p] > 0
          /\ type[p] = "transactional" =>
               handled[t][p] <= 1 /\ (t \in store'[l] => handled[t][p] = 0)
    <3>1. \A t \in PushedTo(l) : t # n /\ t \in 1..last /\ ~(n <= t)
      BY <1>1 DEF PushedTo
    <3>2. \A t \in PushedTo(l) : t \in store'[l] <=> t \in store[l]
      BY <1>7, <3>1
    <3>3. \A u \in PushedTo(l)' : u \in PushedTo(l) \/ u = n
      BY <1>5
    <3> QED BY <2>2, <3>1, <3>2, <3>3 DEF Ordered
  <2>5. n \in PushedTo(l)' => n \in store'[l] /\ handled[n][p] = 0
    <3>1. handled[n][p] = 0
      BY <1>1 DEF Inv, Known
    <3>2. n \in PushedTo(l)' => l = k
      BY <1>5 DEF PushedTo
    <3> QED BY <1>7, <3>1, <3>2
  <2>6. \A t \in PushedTo(l)' : t \in PushedTo(l) \/ t = n
    BY <1>5
  <2>7. At(l)' = At(l)
    BY <1>2 DEF At, KeyOf
  <2> QED BY <1>2, <2>3, <2>4, <2>5, <2>6, <2>7 DEF Ordered
<1> QED BY <1>4, <1>8, <1>9, <1>10, <1>11 DEF Inv

----------------------------------------------------------------------------
(* Starting, completing, dying *)

LEMMA StartStep ==
  ASSUME SyncAssumption, Inv, NEW w \in Workers, Start(w)
  PROVE  Inv'
<1>1. PICK j \in jobs :
        /\ j.queue = QueueOf(w)
        /\ IF \E v \in Workers : worker[v].job = j
           THEN lost < MaxLost /\ lost' = lost + 1
           ELSE UNCHANGED lost
        /\ SetWorker(w, [Idle EXCEPT !.phase = "looping", !.job = j])
        /\ shared' = IF At(j.key) # {} THEN shared \cup {j.key} ELSE shared
  BY DEF Start
<1>2. /\ worker[w].phase = "idle"
      /\ UNCHANGED <<type, counter, enqueued, store, jobs, last, deaths, pushed, handled>>
  BY DEF Start, storeVars
<1>3. j \in Jobs /\ j.key \in Keys /\ Made(j)
  BY DEF Inv, TypeOK, Known, Jobs
<1> DEFINE s == [Idle EXCEPT !.phase = "looping", !.job = j]
<1>4. s \in WorkerType /\ s.phase = "looping" /\ s.job = j /\ s.tasks = {}
  BY <1>3 DEF Idle, WorkerType
<1>5. SetWorker(w, s)
  BY <1>1
<1> HIDE DEF s
<1>6. /\ worker'[w] = s /\ \A v \in Workers : v # w => worker'[v] = worker[v]
      /\ worker' \in [Workers -> WorkerType]
      /\ \A v \in Workers : worker'[v].phase # "idle" =>
           worker'[v].job \in Jobs /\ worker'[v].job.queue = QueueOf(v)
  BY <1>1, <1>3, <1>4, <1>5, SetWorkerIs DEF Inv
<1>7. TypeOK'
  <2>1. lost' \in 0..MaxLost
    BY <1>1, SyncAssumption DEF Inv, TypeOK, SyncAssumption
  <2>2. shared' \subseteq Keys
    BY <1>1, <1>3 DEF Inv, TypeOK
  <2> QED BY <1>2, <1>6, <2>1, <2>2 DEF Inv, TypeOK, WorkerType
<1>8. \A l : At(l)' = IF l = j.key THEN At(l) \cup {w} ELSE At(l)
  BY <1>2, <1>4, <1>6 DEF At, KeyOf
<1>9. Known'
  <2>1. \A i : Made(i)' <=> Made(i)
    BY <1>2 DEF Made
  <2>2. \A l : PushedTo(l)' = PushedTo(l)
    BY <1>2 DEF PushedTo
  <2>3. ASSUME NEW v \in Workers, worker'[v].phase # "idle"
        PROVE  Made(worker[v].job)' /\ worker'[v].tasks \subseteq PushedTo(KeyOf(v))'
    <3>1. CASE v = w
      BY <1>2, <1>3, <1>4, <1>6, <3>1 DEF Made
    <3>2. CASE v # w
      BY <1>2, <1>6, <2>2, <2>3, <3>2 DEF Inv, Known, Made, KeyOf
    <3> QED BY <3>1, <3>2
  <2> QED BY <1>2, <2>1, <2>2, <2>3 DEF Inv, Known
<1>10. Agree'
  <2>1. ASSUME NEW l \in Keys, enqueued[l]
        PROVE  \E i \in jobs :
                 i.key = l /\ ~\E v \in Workers : worker'[v].job = i /\ worker'[v].phase = "done"
    BY <1>4, <1>6, <2>1 DEF Inv, Agree
  <2>2. ASSUME NEW v \in Workers, HasRead(v)', counter[worker'[v].job.key] \notin {0, worker'[v].counter}
        PROVE  \E t \in store[worker'[v].job.key] : \A r \in worker'[v].tasks : t > r
    BY <1>4, <1>6, <2>2 DEF Inv, Agree, HasRead, KeyOf
  <2> QED BY <1>2, <2>1, <2>2 DEF Inv, Agree, KeyOf
<1>11. Sole'
  <2> SUFFICES ASSUME NEW l \in Keys \ shared' PROVE SoleAt(l)'
    BY DEF Sole
  <2>1. l \in Keys \ shared
    BY <1>1
  <2>2. CASE l = j.key
    <3>1. At(l)' = {w}
      BY <1>1, <1>8, <2>2
    <3>2. ~HasRead(w)'
      BY <1>4, <1>6 DEF HasRead
    <3> QED BY <3>1, <3>2 DEF SoleAt
  <2>3. CASE l # j.key
    <3>1. At(l)' = At(l) /\ w \notin At(l) /\ SoleAt(l)
      BY <1>2, <1>8, <2>1, <2>3 DEF At, Inv, Sole
    <3>2. \A v \in At(l) : worker'[v] = worker[v]
      BY <1>6, <3>1 DEF At
    <3> QED BY <1>2, <3>1, <3>2 DEF SoleAt, HasRead
  <2> QED BY <2>2, <2>3
<1>12. InOrder'
  <2> SUFFICES ASSUME NEW l \in Keys \ shared', NEW p \in Queues, Own(l, p)'
               PROVE  Ordered(l, p)'
    BY DEF InOrder
  <2>1. PushedTo(l)' = PushedTo(l)
    BY <1>2 DEF PushedTo
  <2>2. Ordered(l, p)
    BY <1>1, <1>2, <2>1 DEF Inv, InOrder, Own
  <2>3. ASSUME NEW v \in At(l)', worker'[v].phase = "handled"
        PROVE  \A t \in worker'[v].tasks : handled[t][p] > 0
    <3>1. v \in Workers /\ v # w
      BY <1>4, <1>6, <2>3 DEF At
    <3>2. v \in At(l) /\ worker'[v] = worker[v]
      BY <1>6, <1>8, <2>3, <3>1
    <3> QED BY <2>2, <2>3, <3>2 DEF Ordered
  <2> QED BY <1>2, <2>1, <2>2, <2>3 DEF Ordered
<1> QED BY <1>7, <1>9, <1>10, <1>11, <1>12 DEF Inv

\* A worker that becomes idle; its job is completed only when it is done.
LEMMA IdleStep ==
  ASSUME SyncAssumption, Inv, NEW w \in Workers, worker[w].phase # "idle",
         SetWorker(w, Idle), UNCHANGED <<type, storeVars, last, lost, histVars>>,
         deaths' \in 0..MaxDeaths,
         \/ UNCHANGED jobs
         \/ worker[w].phase = "done" /\ jobs' = jobs \ {worker[w].job}
  PROVE  Inv'
<1>1. UNCHANGED <<type, counter, enqueued, store, last, lost, pushed, handled, shared>>
  BY DEF storeVars, histVars
<1>2. /\ worker'[w].phase = "idle" /\ \A v \in Workers : v # w => worker'[v] = worker[v]
      /\ worker' \in [Workers -> WorkerType]
      /\ \A v \in Workers : worker'[v].phase # "idle" =>
           worker'[v].job \in Jobs /\ worker'[v].job.queue = QueueOf(v)
  BY IdleIs, SetWorkerIs DEF Inv
<1>3. jobs' \subseteq jobs
  OBVIOUS
<1>4. TypeOK'
  BY <1>1, <1>2, <1>3 DEF Inv, TypeOK, WorkerType
<1>5. \A l : At(l)' = At(l) \ {w}
  BY <1>2 DEF At, KeyOf
<1>6. Known'
  <2>1. \A i : Made(i)' <=> Made(i)
    BY <1>1 DEF Made
  <2>2. \A l : PushedTo(l)' = PushedTo(l)
    BY <1>1 DEF PushedTo
  <2>3. ASSUME NEW v \in Workers, worker'[v].phase # "idle"
        PROVE  Made(worker[v].job)' /\ worker'[v].tasks \subseteq PushedTo(KeyOf(v))'
    BY <1>1, <1>2, <2>2, <2>3 DEF Inv, Known, Made, KeyOf
  <2> QED BY <1>1, <1>3, <2>1, <2>2, <2>3 DEF Inv, Known
<1>7. Agree'
  <2>1. ASSUME NEW l \in Keys, enqueued[l]
        PROVE  \E i \in jobs' :
                 i.key = l /\ ~\E v \in Workers : worker'[v].job = i /\ worker'[v].phase = "done"
    <3>1. PICK i \in jobs : i.key = l /\ ~\E v \in Workers : worker[v].job = i /\ worker[v].phase = "done"
      BY <2>1 DEF Inv, Agree
    <3>2. i \in jobs'
      BY <3>1
    <3> QED BY <1>2, <3>1, <3>2
  <2>2. ASSUME NEW v \in Workers, HasRead(v)', counter[worker'[v].job.key] \notin {0, worker'[v].counter}
        PROVE  \E t \in store[worker'[v].job.key] : \A r \in worker'[v].tasks : t > r
    BY <1>2, <2>2 DEF Inv, Agree, HasRead, KeyOf
  <2> QED BY <1>1, <2>1, <2>2 DEF Inv, Agree, KeyOf
<1>8. Sole'
  <2> SUFFICES ASSUME NEW l \in Keys \ shared' PROVE SoleAt(l)'
    BY DEF Sole
  <2>1. At(l)' \subseteq At(l) /\ SoleAt(l)
    BY <1>1, <1>5 DEF Inv, Sole
  <2>2. \A v \in At(l)' : worker'[v] = worker[v]
    BY <1>2, <1>5 DEF At
  <2> QED BY <1>1, <2>1, <2>2 DEF SoleAt, HasRead
<1>9. InOrder'
  <2> SUFFICES ASSUME NEW l \in Keys \ shared', NEW p \in Queues, Own(l, p)'
               PROVE  Ordered(l, p)'
    BY DEF InOrder
  <2>1. PushedTo(l)' = PushedTo(l)
    BY <1>1 DEF PushedTo
  <2>2. Ordered(l, p)
    BY <1>1, <2>1 DEF Inv, InOrder, Own
  <2>3. \A v \in At(l)' : v \in At(l) /\ worker'[v] = worker[v]
    BY <1>2, <1>5 DEF At
  <2> QED BY <1>1, <2>1, <2>2, <2>3 DEF Ordered
<1> QED BY <1>4, <1>6, <1>7, <1>8, <1>9 DEF Inv

LEMMA CompleteStep ==
  ASSUME SyncAssumption, Inv, NEW w \in Workers, Complete(w)
  PROVE  Inv'
BY IdleStep DEF Complete, Inv, TypeOK

LEMMA DieStep ==
  ASSUME SyncAssumption, Inv, NEW w \in Workers, Die(w)
  PROVE  Inv'
<1>1. deaths' \in 0..MaxDeaths
  BY DEF Die, Inv, TypeOK, SyncAssumption
<1> QED BY <1>1, IdleStep DEF Die

----------------------------------------------------------------------------
(* Reading *)

LEMMA ReadStep ==
  ASSUME SyncAssumption, Inv, NEW w \in Workers, Read(w)
  PROVE  Inv'
<1> DEFINE k == KeyOf(w)
<1>1. /\ worker[w].phase = "looping" /\ k \in Keys /\ w \in At(k)
      /\ worker[w].job \in Jobs /\ worker[w].job.queue = QueueOf(w) /\ worker[w].job.key = k
  BY WorkerTypeIs DEF Read, Inv, At, KeyOf
<1>2. /\ UNCHANGED <<type, counter, enqueued, store, jobs, last, lost, deaths, pushed, handled, shared>>
      /\ (\A l : PushedTo(l)' = PushedTo(l)) /\ (\A i : Made(i)' <=> Made(i))
  BY DEF Read, storeVars, histVars, PushedTo, Made
<1>3. \/ (counter[k] = 0 \/ store[k] = {}) /\ MoveTo(w, "done")
      \/ /\ counter[k] # 0
         /\ SetWorker(w, [worker[w] EXCEPT !.phase = "read",
                                           !.counter = counter[k], !.tasks = store[k]])
  BY DEF Read
<1> HIDE DEF k
<1>4. /\ worker'[w].job = worker[w].job /\ \A v \in Workers : v # w => worker'[v] = worker[v]
      /\ worker' \in [Workers -> WorkerType]
      /\ \A v \in Workers : worker'[v].phase # "idle" =>
           worker'[v].job \in Jobs /\ worker'[v].job.queue = QueueOf(v)
      /\ \/ /\ counter[k] = 0 \/ store[k] = {}
            /\ worker'[w].phase = "done" /\ worker'[w].tasks = worker[w].tasks
         \/ /\ counter[k] # 0 /\ worker'[w].phase = "read"
            /\ worker'[w].counter = counter[k] /\ worker'[w].tasks = store[k]
  <2>1. CASE (counter[k] = 0 \/ store[k] = {}) /\ MoveTo(w, "done")
    BY <1>1, <2>1, MoveToIs DEF Inv
  <2>2. CASE /\ counter[k] # 0
             /\ SetWorker(w, [worker[w] EXCEPT !.phase = "read",
                                               !.counter = counter[k], !.tasks = store[k]])
    <3> DEFINE s == [worker[w] EXCEPT !.phase = "read", !.counter = counter[k], !.tasks = store[k]]
    <3>1. /\ s \in WorkerType /\ s.phase = "read" /\ s.counter = counter[k]
          /\ s.tasks = store[k] /\ s.job = worker[w].job
      BY <1>1, WorkerTypeIs DEF Inv, TypeOK, WorkerType
    <3>2. SetWorker(w, s)
      BY <2>2
    <3> HIDE DEF s
    <3> QED BY <1>1, <2>2, <3>1, <3>2, SetWorkerIs DEF Inv
  <2> QED BY <1>3, <2>1, <2>2
<1>5. TypeOK'
  BY <1>2, <1>4 DEF Inv, TypeOK, WorkerType
<1>6. (\A l : At(l)' = At(l)) /\ worker'[w].job.key = k
  BY <1>1, <1>4 DEF At, KeyOf
<1>7. Known'
  <2>1. ASSUME NEW v \in Workers, worker'[v].phase # "idle"
        PROVE  Made(worker[v].job)' /\ worker'[v].tasks \subseteq PushedTo(KeyOf(v))'
    <3>1. CASE v = w
      BY <1>1, <1>2, <1>4, <1>6, <3>1 DEF Inv, Known, Made, KeyOf
    <3>2. CASE v # w
      BY <1>2, <1>4, <2>1, <3>2 DEF Inv, Known, Made, KeyOf
    <3> QED BY <3>1, <3>2
  <2> QED BY <1>2, <2>1 DEF Inv, Known
<1>8. Agree'
  <2>1. ASSUME NEW l \in Keys, enqueued[l]
        PROVE  \E i \in jobs :
                 i.key = l /\ ~\E v \in Workers : worker'[v].job = i /\ worker'[v].phase = "done"
    <3>1. PICK i \in jobs : i.key = l /\ ~\E v \in Workers : worker[v].job = i /\ worker[v].phase = "done"
      BY <2>1 DEF Inv, Agree
    <3>2. ASSUME worker'[w].job = i PROVE worker'[w].phase # "done"
      <4>1. l = k
        BY <1>6, <3>1, <3>2
      <4>2. counter[k] # 0 /\ store[k] # {}
        BY <2>1, <4>1 DEF Inv, Agree, TypeOK
      <4> QED BY <1>4, <4>2
    <3> QED BY <1>4, <3>1, <3>2
  <2>2. ASSUME NEW v \in Workers, HasRead(v)', counter[worker'[v].job.key] \notin {0, worker'[v].counter}
        PROVE  \E t \in store[worker'[v].job.key] : \A r \in worker'[v].tasks : t > r
    <3>1. v # w
      BY <1>4, <1>6, <2>2 DEF HasRead
    <3> QED BY <1>4, <2>2, <3>1 DEF Inv, Agree, HasRead, KeyOf
  <2> QED BY <1>2, <2>1, <2>2 DEF Inv, Agree, KeyOf
<1>9. Sole'
  <2> SUFFICES ASSUME NEW l \in Keys \ shared PROVE SoleAt(l)'
    BY <1>2 DEF Sole
  <2>1. SoleAt(l)
    BY DEF Inv, Sole
  <2>2. ASSUME NEW v \in At(l), HasRead(v)'
        PROVE  /\ counter[l] # 0
               /\ worker'[v].tasks \subseteq store[l]
               /\ \A t \in store[l] \ worker'[v].tasks : \A r \in worker'[v].tasks : t > r
               /\ counter[l] >= worker'[v].counter
               /\ counter[l] = worker'[v].counter => store[l] = worker'[v].tasks
    <3>1. CASE v = w
      <4>1. l = k /\ counter[l] \in Nat
        BY <3>1 DEF At, k, Inv, TypeOK
      <4> QED BY <1>4, <2>2, <3>1, <4>1 DEF HasRead
    <3>2. CASE v # w
      BY <1>4, <2>1, <2>2, <3>2 DEF SoleAt, HasRead, At
    <3> QED BY <3>1, <3>2
  <2> QED BY <1>2, <1>6, <2>1, <2>2 DEF SoleAt
<1>10. InOrder'
  <2> SUFFICES ASSUME NEW l \in Keys \ shared, NEW p \in Queues, Own(l, p)'
               PROVE  Ordered(l, p)'
    BY <1>2 DEF InOrder
  <2>1. Ordered(l, p)
    BY <1>2 DEF Inv, InOrder, Own
  <2>2. ASSUME NEW v \in At(l), worker'[v].phase = "handled"
        PROVE  \A t \in worker'[v].tasks : handled[t][p] > 0
    <3>1. v \in Workers /\ v # w
      BY <1>4, <2>2 DEF At
    <3> QED BY <1>4, <2>1, <2>2, <3>1 DEF Ordered
  <2> QED BY <1>2, <1>6, <2>1, <2>2 DEF Ordered
<1> QED BY <1>5, <1>7, <1>8, <1>9, <1>10 DEF Inv

----------------------------------------------------------------------------
(* Committing *)

\* What commitTasks does to the store of the worker's key.
LEMMA CommitTasksIs ==
  ASSUME SyncAssumption, Inv, NEW w \in Workers, HasRead(w), CommitTasks(w)
  PROVE  LET k == KeyOf(w)
             rest == Unprocessed(store[k], worker[w].tasks)
         IN  /\ worker'[w].job = worker[w].job /\ worker'[w].tasks = worker[w].tasks
             /\ \A v \in Workers : v # w => worker'[v] = worker[v]
             /\ worker' \in [Workers -> WorkerType]
             /\ \A v \in Workers : worker'[v].phase # "idle" =>
                  worker'[v].job \in Jobs /\ worker'[v].job.queue = QueueOf(v)
             /\ counter' \in [Keys -> Nat] /\ enqueued' \in [Keys -> BOOLEAN]
             /\ store' \in [Keys -> SUBSET Tasks]
             /\ \A l \in Keys : l # k =>
                  counter'[l] = counter[l] /\ store'[l] = store[l] /\ (enqueued'[l] <=> enqueued[l])
             /\ \/ /\ counter[k] = 0 /\ worker'[w].phase = "done"
                   /\ counter'[k] = 0 /\ store'[k] = store[k] /\ (enqueued'[k] <=> enqueued[k])
                \/ /\ counter[k] # 0 /\ counter[k] # worker[w].counter /\ worker'[w].phase = "looping"
                   /\ counter'[k] = counter[k] /\ (enqueued'[k] <=> enqueued[k]) /\ store'[k] = rest
                \/ /\ counter[k] # 0 /\ counter[k] = worker[w].counter /\ worker'[w].phase = "done"
                   /\ counter'[k] = 0 /\ ~enqueued'[k] /\ store'[k] = {}
<1> DEFINE k == KeyOf(w)
           rest == Unprocessed(store[k], worker[w].tasks)
<1>1. worker[w].phase # "idle" /\ k \in Keys
  BY WorkerTypeIs DEF HasRead, Inv
<1>2. /\ counter \in [Keys -> Nat] /\ enqueued \in [Keys -> BOOLEAN]
      /\ store \in [Keys -> SUBSET Tasks] /\ rest \subseteq Tasks
  BY <1>1 DEF Inv, TypeOK, Unprocessed
<1>3. \/ counter[k] = 0 /\ MoveTo(w, "done") /\ UNCHANGED <<counter, enqueued, store>>
      \/ /\ counter[k] # 0 /\ counter[k] # worker[w].counter
         /\ store' = [store EXCEPT ![k] = rest]
         /\ UNCHANGED <<counter, enqueued>> /\ MoveTo(w, "looping")
      \/ /\ counter[k] # 0 /\ counter[k] = worker[w].counter
         /\ counter' = [counter EXCEPT ![k] = 0] /\ store' = [store EXCEPT ![k] = {}]
         /\ enqueued' = [enqueued EXCEPT ![k] = FALSE] /\ MoveTo(w, "done")
  BY DEF CommitTasks, Drop, Release, storeVars
<1> HIDE DEF k, rest
<1>4. CASE counter[k] = 0 /\ MoveTo(w, "done") /\ UNCHANGED <<counter, enqueued, store>>
  BY <1>1, <1>2, <1>4, MoveToIs DEF Inv, k, rest
<1>5. CASE /\ counter[k] # 0 /\ counter[k] # worker[w].counter
           /\ store' = [store EXCEPT ![k] = rest]
           /\ UNCHANGED <<counter, enqueued>> /\ MoveTo(w, "looping")
  BY <1>1, <1>2, <1>5, MoveToIs DEF Inv, k, rest
<1>6. CASE /\ counter[k] # 0 /\ counter[k] = worker[w].counter
           /\ counter' = [counter EXCEPT ![k] = 0] /\ store' = [store EXCEPT ![k] = {}]
           /\ enqueued' = [enqueued EXCEPT ![k] = FALSE] /\ MoveTo(w, "done")
  BY <1>1, <1>2, <1>6, MoveToIs DEF Inv, k, rest
<1> QED BY <1>3, <1>4, <1>5, <1>6 DEF k, rest

LEMMA CommitKeeps ==
  ASSUME SyncAssumption, Inv, NEW w \in Workers, HasRead(w), CommitTasks(w),
         UNCHANGED <<jobs, last, pushed, shared>>
  PROVE  /\ Agree' /\ Sole' /\ \A l : At(l)' = At(l)
         /\ KeyOf(w) \notin shared =>
              worker[w].tasks \subseteq store[KeyOf(w)]
                /\ store'[KeyOf(w)] = store[KeyOf(w)] \ worker[w].tasks
<1> DEFINE k == KeyOf(w)
           rest == Unprocessed(store[k], worker[w].tasks)
<1>1. /\ worker'[w].job = worker[w].job
      /\ \A v \in Workers : v # w => worker'[v] = worker[v]
      /\ \A l \in Keys : l # k =>
           counter'[l] = counter[l] /\ store'[l] = store[l] /\ (enqueued'[l] <=> enqueued[l])
      /\ \/ /\ counter[k] = 0 /\ worker'[w].phase = "done"
            /\ counter'[k] = 0 /\ store'[k] = store[k] /\ (enqueued'[k] <=> enqueued[k])
         \/ /\ counter[k] # 0 /\ counter[k] # worker[w].counter /\ worker'[w].phase = "looping"
            /\ counter'[k] = counter[k] /\ (enqueued'[k] <=> enqueued[k]) /\ store'[k] = rest
         \/ /\ counter[k] # 0 /\ counter[k] = worker[w].counter /\ worker'[w].phase = "done"
            /\ counter'[k] = 0 /\ ~enqueued'[k] /\ store'[k] = {}
  BY CommitTasksIs
<1>2. /\ worker[w].phase # "idle" /\ k \in Keys /\ w \in At(k) /\ worker[w].job.key = k
      /\ worker'[w].phase \in {"looping", "done"} /\ worker'[w].phase # "idle"
      /\ ~HasRead(w)'
  BY <1>1, WorkerTypeIs DEF HasRead, Inv, At, KeyOf
<1> HIDE DEF k
<1>3. \A l : At(l)' = At(l)
  BY <1>1, <1>2 DEF At, KeyOf
<1>4. counter[k] \in Nat
  BY <1>2 DEF Inv, TypeOK
<1>5. Agree'
  <2>1. ASSUME NEW l \in Keys
        PROVE  /\ enqueued'[l] <=> counter'[l] > 0
               /\ enqueued'[l] <=> store'[l] # {}
    <3>1. CASE l # k
      BY <1>1, <3>1 DEF Inv, Agree
    <3>2. CASE l = k
      <4>1. (counter[k] # 0 /\ counter[k] # worker[w].counter) => rest # {}
        <5>1. SUFFICES ASSUME counter[k] # 0, counter[k] # worker[w].counter PROVE rest # {}
          OBVIOUS
        <5>2. PICK t \in store[k] : \A r \in worker[w].tasks : t > r
          BY <1>4, <5>1 DEF Inv, Agree, k
        <5> QED BY <5>2 DEF Unprocessed
      <4>2. (enqueued[k] <=> counter[k] > 0) /\ (enqueued[k] <=> store[k] # {})
        BY <1>2 DEF Inv, Agree
      <4> HIDE DEF rest
      <4> QED BY <1>1, <1>4, <3>2, <4>1, <4>2
    <3> QED BY <3>1, <3>2
  <2>2. ASSUME NEW l \in Keys, enqueued'[l]
        PROVE  \E i \in jobs :
                 i.key = l /\ ~\E v \in Workers : worker'[v].job = i /\ worker'[v].phase = "done"
    <3>1. enqueued[l] /\ (l = k => worker'[w].phase = "looping")
      BY <1>1, <1>2, <1>4, <2>2 DEF Inv, Agree
    <3>2. PICK i \in jobs : i.key = l /\ ~\E v \in Workers : worker[v].job = i /\ worker[v].phase = "done"
      BY <3>1 DEF Inv, Agree
    <3>3. worker'[w].job = i => worker'[w].phase # "done"
      BY <1>1, <1>2, <3>1, <3>2
    <3> QED BY <1>1, <3>2, <3>3
  <2>3. ASSUME NEW v \in Workers, HasRead(v)', counter'[worker[v].job.key] \notin {0, worker[v].counter}
        PROVE  \E t \in store'[worker[v].job.key] : \A r \in worker[v].tasks : t > r
    <3> DEFINE l == worker[v].job.key
    <3>1. v # w /\ worker'[v] = worker[v] /\ HasRead(v) /\ l \in Keys
      BY <1>1, <1>2, <2>3, WorkerTypeIs DEF HasRead, Inv, KeyOf
    <3>2. worker[v].tasks \subseteq Int /\ worker[w].tasks \subseteq Int /\ store[k] \subseteq Int
      BY <1>2, WorkerTypeIs, TasksAre DEF Inv, TypeOK, WorkerType
    <3>3. CASE l # k
      BY <1>1, <2>3, <3>1, <3>3 DEF Inv, Agree, KeyOf
    <3>4. CASE l = k
      <4>1. /\ counter[k] \notin {0, worker[v].counter} /\ counter[k] # worker[w].counter
            /\ store'[k] = rest
        BY <1>1, <2>3, <3>4
      <4>2. PICK t \in store[k] : \A r \in worker[v].tasks : t > r
        BY <3>1, <3>4, <4>1 DEF Inv, Agree, KeyOf
      <4>3. PICK u \in store[k] : \A r \in worker[w].tasks : u > r
        BY <1>2, <4>1 DEF Inv, Agree, KeyOf
      <4>4. CASE t >= u
        <5>1. t \in rest
          BY <3>2, <4>2, <4>3, <4>4 DEF Unprocessed
        <5> QED BY <3>4, <4>1, <4>2, <5>1
      <4>5. CASE u >= t
        <5>1. u \in rest
          BY <4>3 DEF Unprocessed
        <5>2. \A r \in worker[v].tasks : u > r
          BY <3>2, <4>2, <4>3, <4>5
        <5> QED BY <3>4, <4>1, <5>1, <5>2
      <4> QED BY <3>2, <4>2, <4>3, <4>4, <4>5
    <3> QED BY <3>3, <3>4
  <2>4. ASSUME NEW v \in Workers, HasRead(v)', counter'[worker'[v].job.key] \notin {0, worker'[v].counter}
        PROVE  \E t \in store'[worker'[v].job.key] : \A r \in worker'[v].tasks : t > r
    <3>1. worker'[v] = worker[v]
      BY <1>1, <1>2, <2>4
    <3> QED BY <2>3, <2>4, <3>1
  <2> QED BY <2>1, <2>2, <2>4 DEF Agree, KeyOf
<1>6. Sole'
  <2> SUFFICES ASSUME NEW l \in Keys \ shared PROVE SoleAt(l)'
    BY DEF Sole
  <2>1. SoleAt(l)
    BY DEF Inv, Sole
  <2>2. ASSUME NEW v \in At(l), HasRead(v)' PROVE l # k /\ worker'[v] = worker[v] /\ HasRead(v)
    <3>1. v # w /\ v \in Workers
      BY <1>2, <2>2 DEF At
    <3>2. l # k
      BY <1>2, <2>1, <3>1 DEF SoleAt
    <3> QED BY <1>1, <2>2, <3>1, <3>2 DEF HasRead
  <2> QED BY <1>1, <1>3, <2>1, <2>2 DEF SoleAt
<1>7. ASSUME k \notin shared
      PROVE  worker[w].tasks \subseteq store[k] /\ store'[k] = store[k] \ worker[w].tasks
  <2>1. /\ counter[k] # 0 /\ worker[w].tasks \subseteq store[k]
        /\ \A t \in store[k] \ worker[w].tasks : \A r \in worker[w].tasks : t > r
        /\ counter[k] = worker[w].counter => store[k] = worker[w].tasks
    BY <1>2, <1>7 DEF Inv, Sole, SoleAt
  <2>2. worker[w].tasks \subseteq Int
    BY WorkerTypeIs, TasksAre DEF Inv, WorkerType
  <2>3. rest = store[k] \ worker[w].tasks
    BY <2>1, <2>2 DEF Unprocessed
  <2> HIDE DEF rest
  <2> QED BY <1>1, <2>1, <2>3
<1> QED BY <1>3, <1>5, <1>6, <1>7 DEF k

\* The rest of the invariant when nothing else but the handled counts has changed.
LEMMA CommitTypeKnown ==
  ASSUME SyncAssumption, Inv, NEW w \in Workers, HasRead(w), CommitTasks(w),
         UNCHANGED <<type, jobs, last, lost, deaths, pushed, shared>>,
         handled' \in [Tasks -> [Queues -> Nat]],
         \A t \in Tasks : t > last => \A q \in Queues : handled'[t][q] = 0
  PROVE  TypeOK' /\ Known'
<1>1. /\ worker'[w].job = worker[w].job /\ worker'[w].tasks = worker[w].tasks
      /\ \A v \in Workers : v # w => worker'[v] = worker[v]
      /\ worker' \in [Workers -> WorkerType]
      /\ \A v \in Workers : worker'[v].phase # "idle" =>
           worker'[v].job \in Jobs /\ worker'[v].job.queue = QueueOf(v)
      /\ counter' \in [Keys -> Nat] /\ enqueued' \in [Keys -> BOOLEAN]
      /\ store' \in [Keys -> SUBSET Tasks]
  BY CommitTasksIs
<1>2. \A l \in Keys : store'[l] \subseteq store[l]
  BY CommitTasksIs DEF Unprocessed
<1>3. TypeOK'
  BY <1>1 DEF Inv, TypeOK, WorkerType
<1>4. Known'
  <2>1. (\A l : PushedTo(l)' = PushedTo(l)) /\ (\A i : Made(i)' <=> Made(i))
    BY DEF PushedTo, Made
  <2>2. ASSUME NEW v \in Workers
        PROVE  Made(worker[v].job)' <=> Made(worker[v].job)
    BY <1>1 DEF Made
  <2>3. ASSUME NEW v \in Workers
        PROVE  KeyOf(v)' = KeyOf(v) /\ worker'[v].tasks = worker[v].tasks
    BY <1>1 DEF KeyOf
  <2>4. ASSUME NEW v \in Workers, worker'[v].phase # "idle" PROVE worker[v].phase # "idle"
    BY <1>1, <2>4 DEF HasRead
  <2>5. ASSUME NEW v \in Workers, worker'[v].phase # "idle"
        PROVE  Made(worker[v].job)' /\ worker'[v].tasks \subseteq PushedTo(KeyOf(v))'
    <3>1. Made(worker[v].job) /\ worker[v].tasks \subseteq PushedTo(KeyOf(v))
      BY <2>4, <2>5 DEF Inv, Known
    <3> QED BY <2>2, <2>3, <3>1 DEF PushedTo
  <2>6. \A l \in Keys : store'[l] \subseteq PushedTo(l)'
    BY <1>2, <2>1 DEF Inv, Known
  <2> QED BY <2>1, <2>5, <2>6 DEF Inv, Known
<1> QED BY <1>3, <1>4

\* A worker and the key it is at.
LEMMA WorkerAt ==
  ASSUME SyncAssumption, Inv, NEW w \in Workers, HasRead(w)
  PROVE  /\ QueueOf(w) \in Queues /\ KeyOf(w) \in Keys /\ w \in At(KeyOf(w))
         /\ worker[w].tasks \subseteq PushedTo(KeyOf(w))
         /\ \A l : PushedTo(l) \subseteq Tasks /\ PushedTo(l) \subseteq 1..last
         /\ \A p \in Queues : Own(KeyOf(w), p) => p = QueueOf(w)
<1>1. /\ worker[w].phase # "idle" /\ KeyOf(w) \in Keys /\ w \in At(KeyOf(w))
      /\ worker[w].job.queue = QueueOf(w) /\ Made(worker[w].job)
      /\ worker[w].tasks \subseteq PushedTo(KeyOf(w))
  BY WorkerTypeIs DEF HasRead, Inv, At, Known
<1>2. worker[w].job.id \in PushedTo(KeyOf(w)) /\ pushed[worker[w].job.id].queue = QueueOf(w)
  BY <1>1 DEF Made, PushedTo, KeyOf
<1>3. QueueOf(w) \in Queues
  BY DEF Workers, QueueOf
<1>4. \A l : PushedTo(l) \subseteq 1..last
  BY DEF PushedTo
<1>5. 1..last \subseteq Tasks
  BY DEF Inv, TypeOK, Tasks, SyncAssumption
<1> QED BY <1>1, <1>2, <1>3, <1>4, <1>5 DEF Own

LEMMA CountHandledIs ==
  ASSUME SyncAssumption, Inv, NEW w \in Workers, HasRead(w), CountHandled(w)
  PROVE  /\ handled' \in [Tasks -> [Queues -> Nat]]
         /\ \A t \in Tasks : \A q \in Queues :
              handled'[t][q] = IF t \in worker[w].tasks /\ q = QueueOf(w)
                               THEN handled[t][q] + 1 ELSE handled[t][q]
         /\ \A t \in Tasks : t > last => \A q \in Queues : handled'[t][q] = 0
<1> DEFINE q == QueueOf(w)
<1>1. /\ handled \in [Tasks -> [Queues -> Nat]] /\ q \in Queues
      /\ worker[w].tasks \subseteq 1..last
  BY WorkerAt DEF Inv, TypeOK
<1>2. handled' = [t \in Tasks |-> IF t \in worker[w].tasks
                                  THEN [handled[t] EXCEPT ![q] = @ + 1] ELSE handled[t]]
  BY DEF CountHandled
<1> HIDE DEF q
<1>3. ASSUME NEW t \in Tasks
      PROVE  /\ handled'[t] \in [Queues -> Nat]
             /\ \A p \in Queues : handled'[t][p] =
                  IF t \in worker[w].tasks /\ p = q THEN handled[t][p] + 1 ELSE handled[t][p]
  BY <1>1, <1>2
<1>4. handled' \in [Tasks -> [Queues -> Nat]]
  BY <1>2, <1>3
<1>5. \A t \in Tasks : t > last => t \notin worker[w].tasks
  BY <1>1, TasksAre DEF Inv, TypeOK
<1>6. \A t \in Tasks : t > last => \A p \in Queues : handled'[t][p] = 0
  BY <1>3, <1>5 DEF Inv, Known
<1> QED BY <1>3, <1>4, <1>6 DEF q

LEMMA CommitExternalStep ==
  ASSUME SyncAssumption, Inv, NEW w \in Workers, CommitExternal(w)
  PROVE  Inv'
<1> DEFINE k == KeyOf(w)
<1>1. /\ HasRead(w) /\ worker[w].phase = "handled" /\ CommitTasks(w)
      /\ UNCHANGED <<type, jobs, last, lost, deaths, pushed, handled, shared>>
  BY DEF CommitExternal, HasRead, histVars
<1>2. /\ Agree' /\ Sole' /\ \A l : At(l)' = At(l)
      /\ k \notin shared =>
           worker[w].tasks \subseteq store[k] /\ store'[k] = store[k] \ worker[w].tasks
  BY <1>1, CommitKeeps
<1>3. TypeOK' /\ Known'
  BY <1>1, CommitTypeKnown DEF Inv, TypeOK, Known
<1>4. /\ worker'[w].phase # "handled" /\ \A v \in Workers : v # w => worker'[v] = worker[v]
      /\ \A l \in Keys : l # k => store'[l] = store[l]
  BY <1>1, CommitTasksIs
<1>5. InOrder'
  <2> SUFFICES ASSUME NEW l \in Keys \ shared, NEW p \in Queues, Own(l, p)'
               PROVE  Ordered(l, p)'
    BY <1>1 DEF InOrder
  <2>1. PushedTo(l)' = PushedTo(l)
    BY <1>1 DEF PushedTo
  <2>2. Ordered(l, p) /\ At(l)' = At(l)
    BY <1>1, <1>2, <2>1 DEF Inv, InOrder, Own
  <2>3. ASSUME NEW v \in At(l), worker'[v].phase = "handled"
        PROVE  \A t \in worker'[v].tasks : handled[t][p] > 0
    <3>1. v \in Workers /\ v # w
      BY <1>4, <2>3 DEF At
    <3> QED BY <1>4, <2>2, <2>3, <3>1 DEF Ordered
  <2>4. ASSUME NEW t \in PushedTo(l)
        PROVE  /\ t \notin store'[l] => handled[t][p] > 0
               /\ t \in store'[l] => t \in store[l]
    <3>1. CASE l = k
      <4>1. t \in worker[w].tasks => handled[t][p] > 0
        BY <1>1, <2>2, <3>1, WorkerAt DEF Ordered
      <4> QED BY <1>2, <2>2, <3>1, <4>1 DEF Ordered
    <3>2. CASE l # k
      BY <1>4, <2>2, <3>2 DEF Ordered
    <3> QED BY <3>1, <3>2
  <2> QED BY <1>1, <2>1, <2>2, <2>3, <2>4 DEF Ordered
<1> QED BY <1>2, <1>3, <1>5 DEF Inv

LEMMA HandleTransactionalStep ==
  ASSUME SyncAssumption, Inv, NEW w \in Workers, HandleTransactional(w)
  PROVE  Inv'
<1> DEFINE k == KeyOf(w)
           q == QueueOf(w)
<1>1. /\ HasRead(w) /\ CommitTasks(w) /\ CountHandled(w)
      /\ UNCHANGED <<type, jobs, last, lost, deaths, pushed, shared>>
  BY DEF HandleTransactional, HasRead
<1>2. /\ Agree' /\ Sole' /\ \A l : At(l)' = At(l)
      /\ k \notin shared =>
           worker[w].tasks \subseteq store[k] /\ store'[k] = store[k] \ worker[w].tasks
  BY <1>1, CommitKeeps
<1>3. /\ handled' \in [Tasks -> [Queues -> Nat]] /\ handled \in [Tasks -> [Queues -> Nat]]
      /\ \A t \in Tasks : \A p \in Queues :
              handled'[t][p] = IF t \in worker[w].tasks /\ p = q
                               THEN handled[t][p] + 1 ELSE handled[t][p]
      /\ \A t \in Tasks : t > last => \A p \in Queues : handled'[t][p] = 0
  BY <1>1, CountHandledIs DEF Inv, TypeOK
<1>4. TypeOK' /\ Known'
  BY <1>1, <1>3, CommitTypeKnown
<1>5. /\ worker'[w].phase # "handled" /\ \A v \in Workers : v # w => worker'[v] = worker[v]
      /\ \A l \in Keys : l # k => store'[l] = store[l]
  BY <1>1, CommitTasksIs
<1>6. /\ q \in Queues /\ k \in Keys /\ w \in At(k) /\ worker[w].tasks \subseteq PushedTo(k)
      /\ \A l : PushedTo(l) \subseteq Tasks /\ PushedTo(l) \subseteq 1..last
      /\ \A p \in Queues : Own(k, p) => p = q
  BY <1>1, WorkerAt
<1> HIDE DEF k, q
<1>7. InOrder'
  <2> SUFFICES ASSUME NEW l \in Keys \ shared, NEW p \in Queues, Own(l, p)'
               PROVE  Ordered(l, p)'
    BY <1>1 DEF InOrder
  <2>1. PushedTo(l)' = PushedTo(l)
    BY <1>1 DEF PushedTo
  <2>2. Ordered(l, p) /\ Own(l, p) /\ At(l)' = At(l)
    BY <1>1, <1>2, <2>1 DEF Inv, InOrder, Own
  <2>3. \A t \in PushedTo(l) : handled'[t][p] \in Nat /\ handled[t][p] \in Nat
                                 /\ handled'[t][p] >= handled[t][p]
    BY <1>3, <1>6
  <2>4. ASSUME NEW v \in At(l), worker'[v].phase = "handled"
        PROVE  \A t \in worker'[v].tasks : handled'[t][p] > 0
    <3>1. v \in Workers /\ v # w /\ worker'[v] = worker[v]
      BY <1>5, <2>4 DEF At
    <3>2. HasRead(v) /\ KeyOf(v) = l
      BY <2>4, <3>1 DEF HasRead, At
    <3>3. worker[v].tasks \subseteq PushedTo(l)
      BY <3>1, <3>2, WorkerAt
    <3>4. \A t \in worker[v].tasks : handled[t][p] > 0
      BY <2>2, <2>4, <3>1 DEF Ordered
    <3> QED BY <2>3, <3>1, <3>3, <3>4
  <2>5. CASE l # k
    <3>1. \A t \in PushedTo(l) : t \notin worker[w].tasks
      BY <1>6, <2>5 DEF PushedTo
    <3>2. \A t \in PushedTo(l) : handled'[t][p] = handled[t][p]
      BY <1>3, <1>6, <3>1
    <3> QED BY <1>1, <1>5, <2>1, <2>2, <2>4, <2>5, <3>2 DEF Ordered
  <2>6. CASE l = k
    <3>1. p = q
      BY <1>6, <2>2, <2>6
    <3>2. /\ worker[w].tasks \subseteq store[k] /\ store'[k] = store[k] \ worker[w].tasks
          /\ \A t \in store[k] \ worker[w].tasks : \A r \in worker[w].tasks : t > r
      BY <1>1, <1>2, <1>6, <2>6 DEF Inv, Sole, SoleAt
    <3>3. ASSUME NEW t \in PushedTo(k)
          PROVE  /\ t \notin store'[k] => handled'[t][p] > 0
                 /\ handled'[t][p] > 0 => \A u \in PushedTo(k) : u <= t => handled'[u][p] > 0
                 /\ type[p] = "transactional" =>
                      handled'[t][p] <= 1 /\ (t \in store'[k] => handled'[t][p] = 0)
      <4>1. /\ t \in Int
            /\ t \in worker[w].tasks => handled'[t][p] = handled[t][p] + 1
            /\ t \notin worker[w].tasks => handled'[t][p] = handled[t][p]
        BY <1>3, <1>6, <3>1
      <4>2. /\ t \notin store[k] => handled[t][p] > 0
            /\ handled[t][p] > 0 => \A u \in PushedTo(k) : u <= t => handled[u][p] > 0
            /\ type[p] = "transactional" =>
                 handled[t][p] <= 1 /\ (t \in store[k] => handled[t][p] = 0)
        BY <2>2, <2>6 DEF Ordered
      <4>3. t \notin store'[k] => handled'[t][p] > 0
        BY <2>3, <2>6, <3>2, <4>1, <4>2
      <4>4. ASSUME handled'[t][p] > 0, NEW u \in PushedTo(k), u <= t PROVE handled'[u][p] > 0
        <5>1. u \in Int /\ handled[u][p] \in Nat /\ handled'[u][p] >= handled[u][p]
          BY <1>6, <2>3, <2>6
        <5>2. CASE u \in worker[w].tasks
          BY <1>3, <1>6, <2>3, <2>6, <3>1, <5>2
        <5>3. CASE u \notin store[k]
          BY <2>2, <2>3, <2>6, <5>1, <5>3 DEF Ordered
        <5>4. CASE u \in store[k] \ worker[w].tasks
          <6>1. t \notin worker[w].tasks
            BY <3>2, <4>1, <4>4, <5>1, <5>4
          <6> QED BY <2>3, <2>6, <4>1, <4>2, <4>4, <5>1, <6>1
        <5> QED BY <5>2, <5>3, <5>4
      <4>5. type[p] = "transactional" =>
              handled'[t][p] <= 1 /\ (t \in store'[k] => handled'[t][p] = 0)
        BY <3>2, <4>1, <4>2
      <4> QED BY <4>3, <4>4, <4>5
    <3> QED BY <1>1, <2>1, <2>2, <2>4, <2>6, <3>3 DEF Ordered
  <2> QED BY <2>5, <2>6
<1> QED BY <1>2, <1>4, <1>7 DEF Inv

LEMMA HandleExternalStep ==
  ASSUME SyncAssumption, Inv, NEW w \in Workers, HandleExternal(w)
  PROVE  Inv'
<1> DEFINE k == KeyOf(w)
           q == QueueOf(w)
<1>1. /\ HasRead(w) /\ worker[w].phase = "read" /\ CountHandled(w) /\ type[q] = "external"
      /\ MoveTo(w, "handled")
      /\ UNCHANGED <<type, counter, enqueued, store, jobs, last, lost, deaths, pushed, shared>>
  BY DEF HandleExternal, HasRead, storeVars
<1>2. /\ worker'[w].phase = "handled" /\ worker'[w].job = worker[w].job
      /\ worker'[w].counter = worker[w].counter /\ worker'[w].tasks = worker[w].tasks
      /\ \A v \in Workers : v # w => worker'[v] = worker[v]
      /\ worker' \in [Workers -> WorkerType]
      /\ \A v \in Workers : worker'[v].phase # "idle" =>
           worker'[v].job \in Jobs /\ worker'[v].job.queue = QueueOf(v)
  BY <1>1, MoveToIs DEF Inv
<1>3. /\ handled' \in [Tasks -> [Queues -> Nat]] /\ handled \in [Tasks -> [Queues -> Nat]]
      /\ \A t \in Tasks : \A p \in Queues :
              handled'[t][p] = IF t \in worker[w].tasks /\ p = q
                               THEN handled[t][p] + 1 ELSE handled[t][p]
      /\ \A t \in Tasks : t > last => \A p \in Queues : handled'[t][p] = 0
  BY <1>1, CountHandledIs DEF Inv, TypeOK
<1>4. /\ q \in Queues /\ k \in Keys /\ w \in At(k) /\ worker[w].tasks \subseteq PushedTo(k)
      /\ \A l : PushedTo(l) \subseteq Tasks /\ PushedTo(l) \subseteq 1..last
      /\ \A p \in Queues : Own(k, p) => p = q
  BY <1>1, WorkerAt
<1> HIDE DEF k, q
<1>5. \A v \in Workers :
        /\ worker'[v].job = worker[v].job /\ worker'[v].tasks = worker[v].tasks
        /\ worker'[v].counter = worker[v].counter
        /\ HasRead(v)' <=> HasRead(v)
        /\ worker'[v].phase = "idle" <=> worker[v].phase = "idle"
        /\ worker'[v].phase = "done" => worker[v].phase = "done"
  BY <1>1, <1>2 DEF HasRead
<1>6. (\A l : At(l)' = At(l)) /\ (\A l : PushedTo(l)' = PushedTo(l))
  BY <1>1, <1>5 DEF At, KeyOf, PushedTo
<1>7. TypeOK'
  BY <1>1, <1>2, <1>3 DEF Inv, TypeOK, WorkerType
<1>8. Known'
  <2>1. \A i : Made(i)' <=> Made(i)
    BY <1>1 DEF Made
  <2>2. ASSUME NEW v \in Workers, worker'[v].phase # "idle"
        PROVE  Made(worker[v].job)' /\ worker'[v].tasks \subseteq PushedTo(KeyOf(v))'
    BY <1>1, <1>5, <1>6, <2>2 DEF Inv, Known, Made, KeyOf, PushedTo
  <2> QED BY <1>1, <1>3, <1>6, <2>1, <2>2 DEF Inv, Known
<1>9. Agree'
  BY <1>1, <1>5 DEF Inv, Agree, KeyOf
<1>10. Sole'
  <2> SUFFICES ASSUME NEW l \in Keys \ shared PROVE SoleAt(l)'
    BY <1>1 DEF Sole
  <2>1. SoleAt(l) /\ At(l) \subseteq Workers
    BY DEF Inv, Sole, At
  <2> QED BY <1>1, <1>5, <1>6, <2>1 DEF SoleAt
<1>11. InOrder'
  <2> SUFFICES ASSUME NEW l \in Keys \ shared, NEW p \in Queues, Own(l, p)'
               PROVE  Ordered(l, p)'
    BY <1>1 DEF InOrder
  <2>1. Ordered(l, p) /\ Own(l, p)
    BY <1>1, <1>6 DEF Inv, InOrder, Own
  <2>2. \A t \in PushedTo(l) : handled'[t][p] \in Nat /\ handled[t][p] \in Nat
                                 /\ handled'[t][p] >= handled[t][p]
    BY <1>3, <1>4
  <2>3. ASSUME NEW v \in At(l), worker'[v].phase = "handled"
        PROVE  \A t \in worker'[v].tasks : handled'[t][p] > 0
    <3>1. v \in Workers /\ HasRead(v) /\ KeyOf(v) = l
      BY <1>5, <2>3 DEF HasRead, At
    <3>2. worker'[v].tasks = worker[v].tasks /\ worker[v].tasks \subseteq PushedTo(l)
      BY <1>5, <3>1, WorkerAt
    <3>3. CASE v = w
      <4>1. l = k /\ p = q
        BY <1>4, <2>1, <3>1, <3>3 DEF k
      <4>2. \A t \in worker[w].tasks : t \in Tasks /\ handled[t][p] \in Nat
        BY <1>4, <2>2, <4>1
      <4> QED BY <1>3, <3>2, <3>3, <4>1, <4>2
    <3>4. CASE v # w
      <4>1. \A t \in worker[v].tasks : handled[t][p] > 0
        BY <1>2, <2>1, <2>3, <3>1, <3>4 DEF Ordered
      <4> QED BY <2>2, <3>2, <4>1
    <3> QED BY <3>3, <3>4
  <2>4. CASE l # k
    <3>1. \A t \in PushedTo(l) : t \notin worker[w].tasks
      BY <1>4, <2>4 DEF PushedTo
    <3>2. \A t \in PushedTo(l) : handled'[t][p] = handled[t][p]
      BY <1>3, <1>4, <3>1
    <3> QED BY <1>1, <1>6, <2>1, <2>3, <3>2 DEF Ordered
  <2>5. CASE l = k
    <3>1. p = q /\ type[p] # "transactional"
      BY <1>1, <1>4, <2>1, <2>5
    <3>2. /\ worker[w].tasks \subseteq store[k]
          /\ \A t \in store[k] \ worker[w].tasks : \A r \in worker[w].tasks : t > r
      BY <1>1, <1>4, <2>5 DEF Inv, Sole, SoleAt
    <3>3. ASSUME NEW t \in PushedTo(k), handled'[t][p] > 0, NEW u \in PushedTo(k), u <= t
          PROVE  handled'[u][p] > 0
      <4>1. u \in Int /\ t \in Int /\ handled[u][p] \in Nat /\ handled'[u][p] >= handled[u][p]
        BY <1>4, <2>2, <2>5
      <4>2. CASE u \in worker[w].tasks
        BY <1>3, <1>4, <3>1, <4>1, <4>2
      <4>3. CASE u \notin store[k]
        BY <2>1, <2>2, <2>5, <4>1, <4>3 DEF Ordered
      <4>4. CASE u \in store[k] \ worker[w].tasks
        <5>1. t \notin worker[w].tasks
          BY <3>2, <3>3, <4>1, <4>4
        <5>2. handled[t][p] > 0
          BY <1>3, <1>4, <3>3, <5>1
        <5>3. handled[u][p] > 0
          BY <2>1, <2>5, <3>3, <5>2 DEF Ordered
        <5> QED BY <2>2, <2>5, <4>1, <5>3
      <4> QED BY <4>2, <4>3, <4>4
    <3>4. \A t \in PushedTo(k) : t \notin store[k] => handled'[t][p] > 0
      BY <2>1, <2>2, <2>5 DEF Ordered
    <3> QED BY <1>1, <1>6, <2>3, <2>5, <3>1, <3>3, <3>4 DEF Ordered
  <2> QED BY <2>4, <2>5
<1> QED BY <1>7, <1>8, <1>9, <1>10, <1>11 DEF Inv

----------------------------------------------------------------------------
(* The theorems *)

LEMMA InvInit == SyncAssumption /\ Init => Inv
<1> SUFFICES ASSUME SyncAssumption, Init PROVE Inv
  OBVIOUS
<1>1. worker = [w \in Workers |-> Idle] /\ Idle \in WorkerType /\ Idle.phase = "idle"
  BY IdleIs DEF Init
<1>2. TypeOK
  <2>1. worker \in [Workers -> WorkerType] /\ \A w \in Workers : worker[w].phase = "idle"
    BY <1>1
  <2> QED BY <2>1 DEF Init, TypeOK, WorkerType, SyncAssumption
<1>3. \A w \in Workers : worker[w].phase = "idle" /\ ~HasRead(w)
  BY <1>1 DEF HasRead
<1>4. last = 0 /\ 1..last = {} /\ (\A l : PushedTo(l) = {}) /\ (\A l : At(l) = {})
  BY <1>3 DEF Init, PushedTo, At
<1>5. Known
  BY <1>3, <1>4 DEF Init, Known
<1>6. Agree
  BY <1>3 DEF Init, Agree
<1>7. Sole
  BY <1>4 DEF Sole, SoleAt
<1>8. InOrder
  BY <1>4 DEF InOrder, Ordered
<1> QED BY <1>2, <1>5, <1>6, <1>7, <1>8 DEF Inv

LEMMA InvNext == SyncAssumption /\ Inv /\ [Next]_vars => Inv'
<1> SUFFICES ASSUME SyncAssumption, Inv, [Next]_vars PROVE Inv'
  OBVIOUS
<1>1. ASSUME NEW q \in Queues, NEW k \in Keys, PushWork(q, k) PROVE Inv'
  BY <1>1, PushWorkStep
<1>2. ASSUME NEW w \in Workers, Work(w) PROVE Inv'
  BY <1>2, StartStep, ReadStep, HandleTransactionalStep, HandleExternalStep,
     CommitExternalStep, CompleteStep DEF Work
<1>3. ASSUME NEW w \in Workers, Die(w) PROVE Inv'
  BY <1>3, DieStep
<1>4. CASE UNCHANGED vars
  <2>1. UNCHANGED <<type, counter, enqueued, store, jobs, worker, last, lost, deaths,
                    pushed, handled, shared>>
    BY <1>4 DEF vars, storeVars, histVars
  <2> USE <2>1
  <2>2. TypeOK'
    BY DEF Inv, TypeOK
  <2>3. Known'
    BY DEF Inv, Known, Made, PushedTo, KeyOf
  <2>4. Agree'
    BY DEF Inv, Agree, HasRead, KeyOf
  <2>5. Sole' /\ InOrder'
    BY DEF Inv, Sole, SoleAt, InOrder, Own, Ordered, HasRead, KeyOf, At, PushedTo
  <2> QED BY <2>2, <2>3, <2>4, <2>5 DEF Inv
<1> QED BY <1>1, <1>2, <1>3, <1>4 DEF Next

LEMMA Invariant == ASSUME SyncAssumption PROVE Spec => []Inv
<1>1. Init => Inv
  BY InvInit
<1>2. Inv /\ [Next]_vars => Inv'
  BY InvNext
<1> QED BY <1>1, <1>2, PTL DEF Spec

\* A key is enqueued exactly while tasks are stored for it, and then a job is open
\* that nobody is about to complete: no task waits for a job that never comes.
THEOREM NothingEverStranded ==
  ASSUME SyncAssumption PROVE Spec => []NothingStranded
<1>1. Inv => NothingStranded
  BY DEF Inv, Agree, NothingStranded
<1> QED BY <1>1, Invariant, PTL

\* The tasks of a key that one queue uses, and one worker at a time, are handled
\* in the order of their pushes, none skipped, and once if transactional.
THEOREM AlwaysHandledInOrder ==
  ASSUME SyncAssumption PROVE Spec => []HandledInOrder
<1>1. ASSUME Inv PROVE HandledInOrder
  <2> SUFFICES ASSUME NEW t \in 1..last, OwnKey(t), pushed[t].key \notin shared
               PROVE  /\ ~StoredFor(t) => TimesHandled(t) > 0
                      /\ TimesHandled(t) > 0 => \A u \in 1..t :
                            pushed[u].key = pushed[t].key => TimesHandled(u) > 0
                      /\ type[pushed[t].queue] = "transactional" => TimesHandled(t) <= 1
    BY DEF HandledInOrder
  <2> DEFINE k == pushed[t].key
             q == pushed[t].queue
  <2>1. k \in Keys \ shared /\ q \in Queues /\ t \in PushedTo(k)
    BY <1>1 DEF Inv, Known, PushedTo
  <2>2. Own(k, q)
    BY DEF Own, OwnKey, PushedTo
  <2>3. Ordered(k, q)
    BY <1>1, <2>1, <2>2 DEF Inv, InOrder
  <2>4. \A u \in 1..t : u \in 1..last /\ u <= t
    BY <1>1 DEF Inv, TypeOK
  <2>5. \A u \in 1..t : pushed[u].key = k => u \in PushedTo(k) /\ pushed[u].queue = q
    BY <2>2, <2>4 DEF PushedTo, Own
  <2> QED BY <2>1, <2>3, <2>4, <2>5 DEF Ordered, StoredFor, TimesHandled
<1>2. Inv => HandledInOrder
  BY <1>1
<1> QED BY <1>2, Invariant, PTL

-------------------------------------------------------------------------------
(* VoiceChats, for any number of users and chats.  Operations call each      *)
(* other on states no step ends in, so the invariant is split into facts     *)
(* about a state S of the database, and each operation has a lemma that      *)
(* says what it keeps of them and what it changes.                           *)

DbType == [chat : [Chats -> {"none", "active", "ended"}],
           part : [Chats -> [Users -> Participants]],
           counter : [Chats -> [Lists -> Int]],
           activeIn : [Users -> Chats \cup {NoChat}],
           voiceChat : InRoom \cup {NoChat}]

\* Whom a counter counts: the counter of hands goes by the hand alone.
Tallied(l, p) == IF l = "handRaised" THEN p.handRaised ELSE On(l, p)

\* The counters of a state, typed.
Sound(S) ==
    /\ S \in DbType
    /\ \A c \in Chats, l \in Lists :
         S.counter[c][l] = Cardinality({u \in Users : Tallied(l, S.part[c][u])})

\* The two halves of PointersAgree of a state, st being the stale users.
Named(S) == \A c \in InRoom : S.voiceChat = c <=> S.chat[c] = "active"
Placed(S, st) ==
    \A u \in Users, c \in Chats :
        /\ S.activeIn[u] = c => IsJoined(S.part[c][u])
        /\ IsJoined(S.part[c][u]) => S.activeIn[u] = c \/ u \in st

\* The two halves of LedWhileActive, of one chat of a state.
Peopled(S, c) == S.chat[c] = "active" <=> \E u \in Users : IsJoined(S.part[c][u])
Led(S, c) == \E u \in Users : IsAdmin(S.part[c][u])

-----------------------------------------------------------------------------
(* The counters.                                                           *)

\* A set that changes only inside us grows by what us gains and loses.
LEMMA Recount ==
  ASSUME IsFiniteSet(Users), NEW us \in SUBSET Users,
         NEW X \in SUBSET Users, NEW Y \in SUBSET Users, X \ us = Y \ us
  PROVE  /\ Cardinality(Y) = Cardinality(X) + Cardinality(Y \cap us) - Cardinality(X \cap us)
         /\ Cardinality(Y) \in Int
<1>1. IsFiniteSet(X) /\ IsFiniteSet(Y)
  BY FS_Subset
<1>2. /\ Cardinality(X \ us) = Cardinality(X) - Cardinality(X \cap us)
      /\ Cardinality(Y \ us) = Cardinality(Y) - Cardinality(Y \cap us)
  BY <1>1, FS_Difference
<1>3. IsFiniteSet(X \cap us) /\ IsFiniteSet(Y \cap us)
  BY <1>1, FS_Subset
<1>4. /\ Cardinality(X) \in Nat /\ Cardinality(Y) \in Nat
      /\ Cardinality(X \cap us) \in Nat /\ Cardinality(Y \cap us) \in Nat
  BY <1>1, <1>3, FS_CardinalityType
<1>5. Cardinality(X \ us) = Cardinality(Y \ us)
  OBVIOUS
<1> QED BY <1>2, <1>4, <1>5

\* A test for the last admin finds whether there is one.
LEMMA NoAdmin ==
  ASSUME UsersAssumption, NEW S, Sound(S), NEW c \in Chats
  PROVE  S.counter[c]["admin"] = 0 <=> ~Led(S, c)
<1> DEFINE A == {u \in Users : Tallied("admin", S.part[c][u])}
<1>1. S.counter[c]["admin"] = Cardinality(A)
  BY DEF Sound, Lists
<1>2. IsFiniteSet(A)
  BY FS_Subset DEF UsersAssumption
<1>3. Cardinality(A) = 0 <=> A = {}
  BY <1>2, FS_EmptySet
<1>4. A = {u \in Users : IsAdmin(S.part[c][u])}
  BY DEF Tallied, On
<1> QED BY <1>1, <1>3, <1>4 DEF Led

\* Rewriting the participants of one chat, and what else it leaves alone.
LEMMA RewriteSound ==
  ASSUME UsersAssumption, NEW S, Sound(S), NEW c \in Chats, NEW us \in SUBSET Users,
         NEW q \in [Users -> Participants],
         \A u \in us : q[u].handRaised = S.part[c][u].handRaised
  PROVE  LET T == Rewrite(S, c, us, q)
         IN  /\ Sound(T)
             /\ T.chat = S.chat /\ T.activeIn = S.activeIn /\ T.voiceChat = S.voiceChat
             /\ \A d \in Chats \ {c} : T.part[d] = S.part[d]
             /\ \A u \in us : T.part[c][u] = q[u]
             /\ \A u \in Users \ us : T.part[c][u] = S.part[c][u]
<1> SUFFICES ASSUME NEW T, T = Rewrite(S, c, us, q)
             PROVE  /\ Sound(T)
                    /\ T.chat = S.chat /\ T.activeIn = S.activeIn /\ T.voiceChat = S.voiceChat
                    /\ \A d \in Chats \ {c} : T.part[d] = S.part[d]
                    /\ \A u \in us : T.part[c][u] = q[u]
                    /\ \A u \in Users \ us : T.part[c][u] = S.part[c][u]
  OBVIOUS
<1> DEFINE r == [u \in Users |-> IF u \in us THEN q[u] ELSE S.part[c][u]]
           X(l) == {u \in Users : Tallied(l, S.part[c][u])}
           Y(l) == {u \in Users : Tallied(l, r[u])}
<1>0. S \in DbType /\ S.part[c] \in [Users -> Participants] /\ S.counter[c] \in [Lists -> Int]
  BY DEF Sound, DbType
<1>1. r \in [Users -> Participants]
  BY <1>0
<1>2. /\ T.chat = S.chat /\ T.activeIn = S.activeIn /\ T.voiceChat = S.voiceChat
      /\ T.part = [S.part EXCEPT ![c] = r]
      /\ T.counter = [S.counter EXCEPT ![c] = Counted(S, c, us, q)]
  BY <1>0 DEF Rewrite, DbType
<1>3. ASSUME NEW l \in Lists
      PROVE  /\ Cardinality(Y(l)) = Cardinality(X(l)) + Cardinality(Y(l) \cap us)
                                      - Cardinality(X(l) \cap us)
             /\ Cardinality(Y(l)) \in Int
  <2>1. X(l) \ us = Y(l) \ us
    OBVIOUS
  <2>2. X(l) \in SUBSET Users /\ Y(l) \in SUBSET Users
    OBVIOUS
  <2> HIDE DEF X, Y
  <2> QED BY <2>1, <2>2, Recount DEF UsersAssumption
<1>4. /\ Y("listener") \cap us = {u \in us : IsListener(q[u])}
      /\ X("listener") \cap us = {u \in us : IsListener(S.part[c][u])}
      /\ Y("speaker") \cap us = {u \in us : IsSpeaker(q[u])}
      /\ X("speaker") \cap us = {u \in us : IsSpeaker(S.part[c][u])}
      /\ Y("admin") \cap us = {u \in us : IsAdmin(q[u])}
      /\ X("admin") \cap us = {u \in us : IsAdmin(S.part[c][u])}
      /\ Y("handRaised") = X("handRaised")
  BY DEF Tallied, On
<1>5. \A l \in Lists : S.counter[c][l] = Cardinality(X(l))
  BY DEF Sound
<1>6. ASSUME NEW l \in Lists PROVE Counted(S, c, us, q)[l] = Cardinality(Y(l))
  <2> HIDE DEF X, Y
  <2> QED BY <1>0, <1>3, <1>4, <1>5 DEF Counted, Lists
<1>7. Counted(S, c, us, q) \in [Lists -> Int]
  <2>1. DOMAIN Counted(S, c, us, q) = Lists
    BY <1>0 DEF Counted
  <2>2. \A l \in Lists : Counted(S, c, us, q)[l] \in Int
    <3> HIDE DEF Y
    <3> QED BY <1>3, <1>6
  <2>3. Counted(S, c, us, q) = [l \in Lists |-> Counted(S, c, us, q)[l]]
    BY <1>0, <2>1 DEF Counted
  <2> QED BY <2>2, <2>3
<1>8. T \in DbType
  <2>1. /\ T.chat \in [Chats -> {"none", "active", "ended"}]
        /\ T.activeIn \in [Users -> Chats \cup {NoChat}] /\ T.voiceChat \in InRoom \cup {NoChat}
    BY <1>0, <1>2 DEF DbType
  <2>2. T.part \in [Chats -> [Users -> Participants]] /\ T.counter \in [Chats -> [Lists -> Int]]
    BY <1>0, <1>1, <1>2, <1>7 DEF DbType
  <2>3. T = [chat |-> T.chat, part |-> T.part, counter |-> T.counter,
             activeIn |-> T.activeIn, voiceChat |-> T.voiceChat]
    <3>1. S = [chat |-> S.chat, part |-> S.part, counter |-> S.counter,
               activeIn |-> S.activeIn, voiceChat |-> S.voiceChat]
      BY <1>0 DEF DbType
    <3>2. T = [S EXCEPT !.part = [S.part EXCEPT ![c] = r],
                        !.counter = [S.counter EXCEPT ![c] = Counted(S, c, us, q)]]
      BY <1>0 DEF Rewrite, DbType
    <3> HIDE DEF r
    <3> QED BY <3>1, <3>2
  <2> QED BY <2>1, <2>2, <2>3 DEF DbType
<1>9. ASSUME NEW d \in Chats, NEW l \in Lists
      PROVE  T.counter[d][l] = Cardinality({u \in Users : Tallied(l, T.part[d][u])})
  <2>1. CASE d = c
    <3>1. T.part[c] = r /\ T.counter[c] = Counted(S, c, us, q)
      BY <1>0, <1>2 DEF DbType
    <3>2. {u \in Users : Tallied(l, T.part[c][u])} = Y(l)
      BY <3>1
    <3> HIDE DEF Y
    <3> QED BY <1>6, <2>1, <3>1, <3>2
  <2>2. CASE d # c
    <3>1. T.part[d] = S.part[d] /\ T.counter[d] = S.counter[d]
      BY <1>0, <1>2, <2>2 DEF DbType
    <3> QED BY <3>1 DEF Sound
  <2> QED BY <2>1, <2>2
<1>10. /\ \A d \in Chats \ {c} : T.part[d] = S.part[d]
       /\ \A u \in us : T.part[c][u] = q[u]
       /\ \A u \in Users \ us : T.part[c][u] = S.part[c][u]
  <2>1. T.part[c] = r /\ \A d \in Chats \ {c} : T.part[d] = S.part[d]
    <3> HIDE DEF r
    <3> QED BY <1>0, <1>2 DEF DbType
  <2> QED BY <2>1
<1>11. Sound(T)
  <2> QED BY <1>8, <1>9 DEF Sound
<1> QED BY <1>2, <1>10, <1>11

\* A hand that goes up or down, and its counter.
Hand(S, c, u, raised, n) ==
    [S EXCEPT !.part[c][u].handRaised = raised, !.counter[c]["handRaised"] = @ + n]

LEMMA HandSound ==
  ASSUME UsersAssumption, NEW S, Sound(S), NEW c \in Chats, NEW u \in Users,
         NEW raised \in BOOLEAN, NEW n \in Int,
         n = (IF raised THEN 1 ELSE 0) - (IF S.part[c][u].handRaised THEN 1 ELSE 0)
  PROVE  LET T == Hand(S, c, u, raised, n)
         IN  /\ Sound(T)
             /\ T.chat = S.chat /\ T.activeIn = S.activeIn /\ T.voiceChat = S.voiceChat
             /\ \A d \in Chats, v \in Users : /\ T.part[d][v].status = S.part[d][v].status
                                              /\ T.part[d][v].role = S.part[d][v].role
<1> DEFINE p == [S.part[c] EXCEPT ![u] = [S.part[c][u] EXCEPT !.handRaised = raised]]
           k == [S.counter[c] EXCEPT !["handRaised"] = S.counter[c]["handRaised"] + n]
           T == Hand(S, c, u, raised, n)
           X(l) == {v \in Users : Tallied(l, S.part[c][v])}
           Y(l) == {v \in Users : Tallied(l, p[v])}
<1>0. S \in DbType /\ S.part[c] \in [Users -> Participants] /\ S.counter[c] \in [Lists -> Int]
  BY DEF Sound, DbType
<1>1. /\ T = [S EXCEPT !.part = [S.part EXCEPT ![c] = p], !.counter = [S.counter EXCEPT ![c] = k]]
      /\ S = [chat |-> S.chat, part |-> S.part, counter |-> S.counter,
              activeIn |-> S.activeIn, voiceChat |-> S.voiceChat]
  BY <1>0 DEF DbType, Hand
<1>2. p \in [Users -> Participants] /\ k \in [Lists -> Int]
  BY <1>0 DEF Participants, Lists
<1>3. /\ T.chat = S.chat /\ T.activeIn = S.activeIn /\ T.voiceChat = S.voiceChat
      /\ T.part = [S.part EXCEPT ![c] = p] /\ T.counter = [S.counter EXCEPT ![c] = k]
      /\ T = [chat |-> S.chat, part |-> T.part, counter |-> T.counter,
              activeIn |-> S.activeIn, voiceChat |-> S.voiceChat]
  <2> HIDE DEF T, p, k
  <2> QED BY <1>1
<1>4. \A v \in Users : /\ p[v].status = S.part[c][v].status /\ p[v].role = S.part[c][v].role
                       /\ p[v].handRaised = IF v = u THEN raised ELSE S.part[c][v].handRaised
  BY <1>0 DEF Participants
<1>5. \A l \in Lists \ {"handRaised"} : Y(l) = X(l)
  <2> HIDE DEF p
  <2> QED BY <1>4 DEF Lists, Tallied, On, IsListener, IsSpeaker, IsAdmin, IsJoined
<1>6. /\ Y("handRaised") \cap {u} = IF raised THEN {u} ELSE {}
      /\ X("handRaised") \cap {u} = IF S.part[c][u].handRaised THEN {u} ELSE {}
      /\ X("handRaised") \ {u} = Y("handRaised") \ {u}
  <2> HIDE DEF p
  <2> QED BY <1>4 DEF Tallied, On
<1>7. Cardinality({u}) = 1 /\ Cardinality({}) = 0
  BY FS_Singleton, FS_EmptySet
<1>8. Cardinality(Y("handRaised")) = Cardinality(X("handRaised")) + n
  <2>1. X("handRaised") \in SUBSET Users /\ Y("handRaised") \in SUBSET Users /\ {u} \in SUBSET Users
    OBVIOUS
  <2>2. /\ Cardinality(Y("handRaised")) = Cardinality(X("handRaised"))
             + Cardinality(Y("handRaised") \cap {u}) - Cardinality(X("handRaised") \cap {u})
        /\ Cardinality(X("handRaised")) \in Int
    <3> HIDE DEF X, Y
    <3> QED BY <1>6, <2>1, Recount DEF UsersAssumption
  <2> HIDE DEF X, Y
  <2> QED BY <1>6, <1>7, <2>2
<1>9. ASSUME NEW d \in Chats, NEW l \in Lists
      PROVE  T.counter[d][l] = Cardinality({v \in Users : Tallied(l, T.part[d][v])})
  <2>1. CASE d # c
    <3>1. T.part[d] = S.part[d] /\ T.counter[d] = S.counter[d]
      <4> HIDE DEF T, p, k
      <4> QED BY <1>0, <1>3, <2>1 DEF DbType
    <3> HIDE DEF T
    <3> QED BY <3>1 DEF Sound
  <2>2. CASE d = c
    <3>1. T.part[c] = p /\ T.counter[c] = k
      <4> HIDE DEF T, p, k
      <4> QED BY <1>0, <1>3 DEF DbType
    <3>2. {v \in Users : Tallied(l, T.part[d][v])} = Y(l)
      BY <2>2, <3>1
    <3>3. S.counter[c][l] = Cardinality(X(l))
      BY DEF Sound
    <3>4. k[l] = Cardinality(Y(l))
      <4> HIDE DEF X, Y
      <4> QED BY <1>0, <1>5, <1>8, <3>3
    <3> HIDE DEF T, Y, k
    <3> QED BY <2>2, <3>1, <3>2, <3>4
  <2> QED BY <2>1, <2>2
<1>10. T \in DbType
  <2> HIDE DEF T, p, k
  <2>1. T.part \in [Chats -> [Users -> Participants]] /\ T.counter \in [Chats -> [Lists -> Int]]
    BY <1>0, <1>2, <1>3 DEF DbType
  <2>2. /\ S.chat \in [Chats -> {"none", "active", "ended"}]
        /\ S.activeIn \in [Users -> Chats \cup {NoChat}] /\ S.voiceChat \in InRoom \cup {NoChat}
    BY <1>0 DEF DbType
  <2> QED BY <1>3, <2>1, <2>2 DEF DbType
<1>11. \A d \in Chats, v \in Users : /\ T.part[d][v].status = S.part[d][v].status
                                     /\ T.part[d][v].role = S.part[d][v].role
  <2> HIDE DEF T, p, k
  <2> QED BY <1>0, <1>3, <1>4 DEF DbType
<1>12. Sound(T)
  <2> HIDE DEF T
  <2> QED BY <1>9, <1>10 DEF Sound
<1> QED BY <1>3, <1>11, <1>12

-----------------------------------------------------------------------------
(* Leaving.                                                                *)

\* Those of us whose status is another one leave c; nobody else is concerned.
LEMMA GoneSound ==
  ASSUME UsersAssumption, NEW S, Sound(S), NEW c \in Chats, NEW us \in SUBSET Users,
         NEW status \in {"left", "kicked"}
  PROVE  LET T == Gone(S, c, us, status)
         IN  /\ Sound(T)
             /\ T.chat = S.chat /\ T.voiceChat = S.voiceChat
             /\ \A d \in Chats \ {c} : T.part[d] = S.part[d]
             /\ \A u \in Users \ us : T.part[c][u] = S.part[c][u]
             /\ \A u \in us : ~IsJoined(T.part[c][u])
             /\ \A u \in us : S.part[c][u].status # status => T.activeIn[u] = NoChat
             /\ \A u \in us : S.part[c][u].status = status => T.activeIn[u] = S.activeIn[u]
             /\ \A u \in Users \ us : T.activeIn[u] = S.activeIn[u]
<1> DEFINE gone == {u \in us : S.part[c][u].status # status}
           q == [u \in Users |->
                  [S.part[c][u] EXCEPT !.status = status,
                                       !.role = IF status = "kicked" THEN NoRole ELSE @]]
           R == Rewrite(S, c, gone, q)
           a == [u \in Users |-> IF u \in gone THEN NoChat ELSE R.activeIn[u]]
           T == [R EXCEPT !.activeIn = a]
<1>0. S \in DbType /\ S.part[c] \in [Users -> Participants]
  BY DEF Sound, DbType
<1>1. /\ q \in [Users -> Participants]
      /\ \A u \in Users : q[u].status = status /\ q[u].handRaised = S.part[c][u].handRaised
  BY <1>0 DEF Participants
<1>2. /\ Sound(R)
      /\ R.chat = S.chat /\ R.activeIn = S.activeIn /\ R.voiceChat = S.voiceChat
      /\ \A d \in Chats \ {c} : R.part[d] = S.part[d]
      /\ \A u \in gone : R.part[c][u] = q[u]
      /\ \A u \in Users \ gone : R.part[c][u] = S.part[c][u]
  <2>1. gone \in SUBSET Users
    OBVIOUS
  <2>2. \A u \in gone : q[u].handRaised = S.part[c][u].handRaised
    <3> HIDE DEF q
    <3> QED BY <1>1
  <2> HIDE DEF q, gone
  <2> QED BY <1>1, <2>1, <2>2, RewriteSound
<1>3. T = Gone(S, c, us, status)
  BY DEF Gone
<1>4. R \in DbType /\ a \in [Users -> Chats \cup {NoChat}]
  <2> HIDE DEF R
  <2> QED BY <1>2 DEF Sound, DbType
<1>5. /\ T.chat = R.chat /\ T.voiceChat = R.voiceChat /\ T.part = R.part /\ T.counter = R.counter
      /\ T.activeIn = a /\ T \in DbType
  <2> HIDE DEF R, a
  <2> QED BY <1>4 DEF DbType
<1>6. Sound(T)
  <2> HIDE DEF T, R
  <2>1. ASSUME NEW d \in Chats, NEW l \in Lists
        PROVE  T.counter[d][l] = Cardinality({u \in Users : Tallied(l, T.part[d][u])})
    <3>1. R.counter[d][l] = Cardinality({u \in Users : Tallied(l, R.part[d][u])})
      BY <1>2 DEF Sound
    <3> HIDE DEF a
    <3> QED BY <1>5, <3>1
  <2> QED BY <1>5, <2>1 DEF Sound
<1>7. /\ \A d \in Chats \ {c} : T.part[d] = S.part[d]
      /\ \A u \in gone : T.part[c][u] = q[u]
      /\ \A u \in Users \ gone : T.part[c][u] = S.part[c][u]
  <2> HIDE DEF T, R, q, gone
  <2> QED BY <1>2, <1>5
<1>8. \A u \in us : ~IsJoined(T.part[c][u])
  <2> HIDE DEF T, q
  <2> QED BY <1>1, <1>7 DEF IsJoined
<1>9. /\ \A u \in gone : T.activeIn[u] = NoChat
      /\ \A u \in Users \ gone : T.activeIn[u] = S.activeIn[u]
  <2>1. T.activeIn = a /\ R.activeIn = S.activeIn
    BY <1>2, <1>5
  <2>2. gone \subseteq Users
    OBVIOUS
  <2> HIDE DEF T, R, gone
  <2> QED BY <2>1, <2>2
<1>10. \A u \in Users \ us : T.part[c][u] = S.part[c][u]
  <2> HIDE DEF T, q
  <2> QED BY <1>7
<1> HIDE DEF T, R
<1> QED BY <1>2, <1>3, <1>5, <1>6, <1>7, <1>8, <1>9, <1>10

\* What leaving c, and whatever it entails, changes at most.
Leaves(S, T, c) ==
    /\ \A d \in Chats \ {c} : T.part[d] = S.part[d] /\ T.chat[d] = S.chat[d]
    /\ \A u \in Users : IsJoined(T.part[c][u]) => T.part[c][u] = S.part[c][u]
    /\ \A u \in Users : T.activeIn[u] \in {S.activeIn[u], NoChat}

\* Who leaves without being in the chat has no active chat, or is stale.
LEMMA GonePlaced ==
  ASSUME UsersAssumption, NoChatAssumption, NEW S, Sound(S), NEW c \in Chats,
         NEW us \in SUBSET Users, NEW status \in {"left", "kicked"}, NEW st, Placed(S, st),
         \A u \in us : S.part[c][u].status # status =>
           IsJoined(S.part[c][u]) \/ S.activeIn[u] = NoChat \/ u \in st
  PROVE  Placed(Gone(S, c, us, status), st) /\ Leaves(S, Gone(S, c, us, status), c)
<1> DEFINE T == Gone(S, c, us, status)
<1>1. /\ T.chat = S.chat
      /\ \A d \in Chats \ {c} : T.part[d] = S.part[d]
      /\ \A u \in Users \ us : T.part[c][u] = S.part[c][u]
      /\ \A u \in us : ~IsJoined(T.part[c][u])
      /\ \A u \in us : S.part[c][u].status # status => T.activeIn[u] = NoChat
      /\ \A u \in us : S.part[c][u].status = status => T.activeIn[u] = S.activeIn[u]
      /\ \A u \in Users \ us : T.activeIn[u] = S.activeIn[u]
  BY GoneSound
<1> HIDE DEF T
<1>2. Leaves(S, T, c)
  BY <1>1 DEF Leaves
<1>3. ASSUME NEW u \in Users, NEW d \in Chats
      PROVE  /\ T.activeIn[u] = d => IsJoined(T.part[d][u])
             /\ IsJoined(T.part[d][u]) => T.activeIn[u] = d \/ u \in st
  <2>1. /\ S.activeIn[u] = d => IsJoined(S.part[d][u])
        /\ IsJoined(S.part[d][u]) => S.activeIn[u] = d \/ u \in st
        /\ S.activeIn[u] = c => IsJoined(S.part[c][u])
        /\ IsJoined(S.part[c][u]) => S.activeIn[u] = c \/ u \in st
    BY DEF Placed
  <2>2. d # NoChat
    BY DEF NoChatAssumption
  <2>3. CASE u \notin us
    BY <1>1, <2>1, <2>3
  <2>4. CASE u \in us /\ S.part[c][u].status # status
    BY <1>1, <2>1, <2>2, <2>4
  <2>5. CASE u \in us /\ S.part[c][u].status = status
    BY <1>1, <2>1, <2>5 DEF IsJoined
  <2> QED BY <2>3, <2>4, <2>5
<1> QED BY <1>2, <1>3 DEF Placed, T

\* Ending a chat that is active.
LEMMA SetInactiveKeeps ==
  ASSUME UsersAssumption, NoChatAssumption, NEW S, Sound(S), NEW c \in Chats,
         NEW st, Placed(S, st), Named(S)
  PROVE  LET T == SetInactive(S, c)
         IN  /\ Sound(T) /\ Placed(T, st) /\ Named(T) /\ Leaves(S, T, c)
             /\ T.chat[c] # "active"
             /\ S.chat[c] # "active" => T = S
             /\ S.chat[c] = "active" => \A u \in Users : ~IsJoined(T.part[c][u])
<1> DEFINE T == SetInactive(S, c)
           G == Gone(S, c, Members(S, c), "left")
           name == IF c \in InRoom THEN NoChat ELSE G.voiceChat
<1>1. CASE S.chat[c] # "active"
  <2>1. T = S
    BY <1>1 DEF SetInactive
  <2>2. Leaves(S, S, c)
    BY DEF Leaves
  <2> HIDE DEF T
  <2> QED BY <1>1, <2>1, <2>2 DEF T
<1>2. CASE S.chat[c] = "active"
  <2>1. Members(S, c) \in SUBSET Users /\ \A u \in Members(S, c) : IsJoined(S.part[c][u])
    BY DEF Members
  <2>2. /\ Sound(G) /\ G.chat = S.chat /\ G.voiceChat = S.voiceChat
        /\ \A u \in Users \ Members(S, c) : G.part[c][u] = S.part[c][u]
        /\ \A u \in Members(S, c) : ~IsJoined(G.part[c][u])
    BY <2>1, GoneSound
  <2>3. Placed(G, st) /\ Leaves(S, G, c)
    BY <2>1, GonePlaced
  <2>4. \A u \in Users : ~IsJoined(G.part[c][u])
    <3> HIDE DEF G
    <3> QED BY <2>2 DEF Members
  <2>5. T = [G EXCEPT !.chat = [G.chat EXCEPT ![c] = "ended"], !.voiceChat = name]
    BY <1>2, <2>2 DEF SetInactive, Sound, DbType
  <2> HIDE DEF G
  <2>6. G \in DbType
    BY <2>2 DEF Sound
  <2>7. name \in InRoom \cup {NoChat}
    BY <2>6 DEF DbType
  <2>8. /\ T.chat = [S.chat EXCEPT ![c] = "ended"] /\ T.voiceChat = name
        /\ T.part = G.part /\ T.counter = G.counter /\ T.activeIn = G.activeIn
        /\ T \in DbType
    <3> HIDE DEF T, name
    <3> QED BY <2>2, <2>5, <2>6, <2>7 DEF DbType
  <2>9. Sound(T)
    <3> HIDE DEF T
    <3>1. ASSUME NEW d \in Chats, NEW l \in Lists
          PROVE  T.counter[d][l] = Cardinality({u \in Users : Tallied(l, T.part[d][u])})
      <4>1. G.counter[d][l] = Cardinality({u \in Users : Tallied(l, G.part[d][u])})
        BY <2>2 DEF Sound
      <4> HIDE DEF name
      <4> QED BY <2>8, <4>1
    <3> QED BY <2>8, <3>1 DEF Sound
  <2>10. \A d \in Chats : T.chat[d] = IF d = c THEN "ended" ELSE S.chat[d]
    <3> HIDE DEF T, name
    <3>1. S.chat \in [Chats -> {"none", "active", "ended"}]
      BY DEF Sound, DbType
    <3> QED BY <2>8, <3>1
  <2>11. Named(T)
    <3> HIDE DEF T
    <3>1. \A d \in InRoom : d \in Chats /\ d # NoChat
      BY ChatsAssumption, NoChatAssumption DEF ChatsAssumption, NoChatAssumption
    <3>2. T.voiceChat = IF c \in InRoom THEN NoChat ELSE S.voiceChat
      BY <2>2, <2>8
    <3> HIDE DEF name
    <3> QED BY <1>2, <2>10, <3>1, <3>2 DEF Named
  <2>12. Placed(T, st) /\ Leaves(S, T, c)
    <3> HIDE DEF T, name
    <3> QED BY <2>3, <2>8, <2>10 DEF Placed, Leaves
  <2>13. T.chat[c] # "active" /\ \A u \in Users : ~IsJoined(T.part[c][u])
    <3> HIDE DEF T, name
    <3> QED BY <2>4, <2>8, <2>10
  <2> HIDE DEF T
  <2> QED BY <1>2, <2>9, <2>11, <2>12, <2>13 DEF T
<1> HIDE DEF T
<1> QED BY <1>1, <1>2 DEF T

\* Leaving a chat: it ends with its last admin, and not before.
LEMMA LeaveChatKeeps ==
  ASSUME UsersAssumption, NoChatAssumption, NEW S, Sound(S), NEW c \in Chats, NEW u \in Users,
         NEW st, Placed(S, st), Named(S), Peopled(S, c),
         S.part[c][u].status # "left" =>
           IsJoined(S.part[c][u]) \/ S.activeIn[u] = NoChat \/ u \in st
  PROVE  LET T == LeaveChat(S, c, u)
         IN  /\ Sound(T) /\ Placed(T, st) /\ Named(T) /\ Leaves(S, T, c) /\ Peopled(T, c)
             /\ ~IsJoined(T.part[c][u])
             /\ T.chat[c] = "active" => Led(T, c) /\ S.chat[c] = "active"
<1> DEFINE G == Gone(S, c, {u}, "left")
           T == LeaveChat(S, c, u)
<1>0. {u} \in SUBSET Users
  OBVIOUS
<1>1. /\ Sound(G) /\ G.chat = S.chat /\ G.voiceChat = S.voiceChat
      /\ ~IsJoined(G.part[c][u])
  BY <1>0, GoneSound
<1>2. Placed(G, st) /\ Leaves(S, G, c)
  BY <1>0, GonePlaced
<1>3. T = IF G.counter[c]["admin"] = 0 THEN SetInactive(G, c) ELSE G
  BY DEF LeaveChat
<1> HIDE DEF G, T
<1>4. Named(G)
  BY <1>1 DEF Named
<1>5. \A v \in Users : IsJoined(G.part[c][v]) => S.chat[c] = "active"
  BY <1>2 DEF Leaves, Peopled
<1>6. G.counter[c]["admin"] = 0 <=> ~Led(G, c)
  BY <1>1, NoAdmin
<1>7. CASE Led(G, c)
  <2>1. T = G
    BY <1>3, <1>6, <1>7
  <2>2. PICK v \in Users : IsJoined(G.part[c][v])
    BY <1>7 DEF Led, IsAdmin
  <2>3. Peopled(G, c) /\ S.chat[c] = "active"
    BY <1>1, <1>5, <2>2 DEF Peopled
  <2> QED BY <1>1, <1>2, <1>4, <1>7, <2>1, <2>3 DEF T
<1>8. CASE ~Led(G, c)
  <2>1. T = SetInactive(G, c)
    BY <1>3, <1>6, <1>8
  <2>2. /\ Sound(T) /\ Placed(T, st) /\ Named(T) /\ Leaves(G, T, c)
        /\ T.chat[c] # "active"
        /\ G.chat[c] # "active" => T = G
        /\ G.chat[c] = "active" => \A v \in Users : ~IsJoined(T.part[c][v])
    BY <1>1, <1>2, <1>4, <2>1, SetInactiveKeeps
  <2>3. \A v \in Users : ~IsJoined(T.part[c][v])
    BY <1>1, <1>5, <2>2
  <2>4. Leaves(S, T, c)
    BY <1>2, <2>2 DEF Leaves
  <2> QED BY <2>2, <2>3, <2>4 DEF Peopled, T
<1> QED BY <1>7, <1>8 DEF T

-----------------------------------------------------------------------------
(* Joining.                                                                *)

\* One user is given another status in c, which becomes his active chat.
Enter(S, c, u, q) == [Rewrite(S, c, {u}, q) EXCEPT !.activeIn[u] = c]

LEMMA EnterSound ==
  ASSUME UsersAssumption, NEW S, Sound(S), NEW c \in Chats, NEW u \in Users,
         NEW q \in [Users -> Participants], q[u].handRaised = S.part[c][u].handRaised
  PROVE  LET T == Enter(S, c, u, q)
         IN  /\ Sound(T) /\ T.chat = S.chat /\ T.voiceChat = S.voiceChat
             /\ \A d \in Chats \ {c} : T.part[d] = S.part[d]
             /\ T.part[c][u] = q[u] /\ \A v \in Users \ {u} : T.part[c][v] = S.part[c][v]
             /\ T.activeIn[u] = c /\ \A v \in Users \ {u} : T.activeIn[v] = S.activeIn[v]
<1> DEFINE us == {u}
           T == Enter(S, c, u, q)
           R == Rewrite(S, c, us, q)
<1>1. us \in SUBSET Users /\ \A v \in us : q[v].handRaised = S.part[c][v].handRaised
  OBVIOUS
<1>2. \A v \in Users : v \in us <=> v = u
  OBVIOUS
<1>0. T = [R EXCEPT !.activeIn[u] = c]
  BY DEF Enter
<1> HIDE DEF us, T
<1>3. /\ Sound(R) /\ R.chat = S.chat /\ R.activeIn = S.activeIn /\ R.voiceChat = S.voiceChat
      /\ \A d \in Chats \ {c} : R.part[d] = S.part[d]
      /\ \A v \in us : R.part[c][v] = q[v]
      /\ \A v \in Users \ us : R.part[c][v] = S.part[c][v]
  BY <1>1, RewriteSound
<1> HIDE DEF R
<1>4. R \in DbType
  BY <1>3 DEF Sound
<1>5. /\ T.chat = R.chat /\ T.voiceChat = R.voiceChat
      /\ T.part = R.part /\ T.counter = R.counter
      /\ T.activeIn = [R.activeIn EXCEPT ![u] = c] /\ T \in DbType
  BY <1>0, <1>4 DEF DbType
<1>6. R.activeIn \in [Users -> Chats \cup {NoChat}]
  BY <1>4 DEF DbType
<1>7. ASSUME NEW d \in Chats, NEW l \in Lists
      PROVE  T.counter[d][l] = Cardinality({v \in Users : Tallied(l, T.part[d][v])})
  <2>1. R.counter[d][l] = Cardinality({v \in Users : Tallied(l, R.part[d][v])})
    BY <1>3 DEF Sound
  <2> QED BY <1>5, <2>1
<1>8. Sound(T)
  BY <1>5, <1>7 DEF Sound
<1>9. /\ \A d \in Chats \ {c} : T.part[d] = S.part[d]
      /\ T.part[c][u] = q[u] /\ \A v \in Users \ {u} : T.part[c][v] = S.part[c][v]
  BY <1>2, <1>3, <1>5
<1>10. T.activeIn[u] = c /\ \A v \in Users \ {u} : T.activeIn[v] = S.activeIn[v]
  BY <1>3, <1>5, <1>6
<1> QED BY <1>3, <1>5, <1>8, <1>9, <1>10 DEF T

\* A role in an active chat: the user is in it, and has left the other one.
LEMMA ChangeRoleKeeps ==
  ASSUME UsersAssumption, NoChatAssumption, NEW S, Sound(S), NEW c \in Chats, NEW u \in Users,
         NEW role \in Roles, NEW st, Placed(S, st), Named(S), S.chat[c] = "active",
         \A d \in Chats \ {c} : Peopled(S, d)
  PROVE  LET T == ChangeRole(S, c, u, role)
         IN  /\ Sound(T) /\ Placed(T, st) /\ Named(T) /\ T.chat[c] = "active"
             /\ IsJoined(T.part[c][u]) /\ T.part[c][u].role = role
             /\ \A v \in Users \ {u} : T.part[c][v] = S.part[c][v]
             /\ \A d \in Chats \ {c} : Peopled(T, d)
             /\ \A d \in Chats \ {c} :
                  T.chat[d] = "active" => S.chat[d] = "active" /\ (Led(S, d) => Led(T, d))
<1> DEFINE b == S.activeIn[u]
           L == IF b \in Chats \ {c} THEN LeaveChat(S, b, u) ELSE S
           q == [v \in Users |-> [S.part[c][v] EXCEPT !.status = "joined", !.role = role]]
           T == ChangeRole(S, c, u, role)
<1>0. S \in DbType /\ S.part[c] \in [Users -> Participants]
  BY DEF Sound, DbType
<1>1. CASE IsJoined(S.part[c][u]) /\ S.part[c][u].role = role
  <2>1. T = S
    BY <1>1 DEF ChangeRole
  <2> HIDE DEF T
  <2> QED BY <1>1, <2>1 DEF T
<1>2. CASE ~(IsJoined(S.part[c][u]) /\ S.part[c][u].role = role)
  <2>1. /\ Sound(L) /\ Placed(L, st) /\ Named(L) /\ L.chat[c] = "active" /\ L.part[c] = S.part[c]
        /\ \A d \in Chats \ {c} : Peopled(L, d)
        /\ \A d \in Chats \ {c} :
             L.chat[d] = "active" => S.chat[d] = "active" /\ (Led(S, d) => Led(L, d))
        /\ L.activeIn[u] \in {b, NoChat}
        /\ b \in Chats \ {c} => ~IsJoined(L.part[b][u])
    <3>1. CASE b \in Chats \ {c}
      <4>1. IsJoined(S.part[b][u])
        BY <3>1 DEF Placed
      <4>2. L = LeaveChat(S, b, u) /\ b \in Chats /\ Peopled(S, b)
        BY <3>1
      <4> HIDE DEF L, b
      <4>3. /\ Sound(L) /\ Placed(L, st) /\ Named(L) /\ Leaves(S, L, b) /\ Peopled(L, b)
            /\ ~IsJoined(L.part[b][u])
            /\ L.chat[b] = "active" => Led(L, b) /\ S.chat[b] = "active"
        BY <4>1, <4>2, LeaveChatKeeps
      <4>4. ASSUME NEW d \in Chats \ {b} PROVE L.part[d] = S.part[d] /\ L.chat[d] = S.chat[d]
        BY <4>3 DEF Leaves
      <4>5. ASSUME NEW d \in Chats \ {c}
            PROVE  /\ Peopled(L, d)
                   /\ L.chat[d] = "active" => S.chat[d] = "active" /\ (Led(S, d) => Led(L, d))
        <5>1. CASE d = b
          BY <4>3, <5>1
        <5>2. CASE d # b
          BY <4>4, <5>2 DEF Peopled, Led
        <5> QED BY <5>1, <5>2
      <4>6. L.activeIn[u] \in {b, NoChat}
        BY <4>3 DEF Leaves, b
      <4> QED BY <3>1, <4>3, <4>4, <4>5, <4>6
    <3>2. CASE b \notin Chats \ {c}
      <4>1. L = S
        BY <3>2
      <4> HIDE DEF L
      <4> QED BY <3>2, <4>1
    <3> QED BY <3>1, <3>2
  <2>2. /\ q \in [Users -> Participants]
        /\ \A v \in Users : /\ q[v].status = "joined" /\ q[v].role = role
                            /\ q[v].handRaised = S.part[c][v].handRaised
    BY <1>0 DEF Participants
  <2>3. T = Enter(L, c, u, q)
    BY <1>2 DEF ChangeRole, Enter
  <2>4. q[u].handRaised = L.part[c][u].handRaised
    BY <2>1, <2>2
  <2> HIDE DEF L, q, T
  <2>6. /\ Sound(T) /\ T.chat = L.chat /\ T.voiceChat = L.voiceChat
        /\ \A d \in Chats \ {c} : T.part[d] = L.part[d]
        /\ T.part[c][u] = q[u] /\ \A v \in Users \ {u} : T.part[c][v] = L.part[c][v]
        /\ T.activeIn[u] = c /\ \A v \in Users \ {u} : T.activeIn[v] = L.activeIn[v]
    <3>1. Sound(L) /\ q \in [Users -> Participants]
      BY <2>1, <2>2
    <3> QED BY <2>3, <2>4, <3>1, EnterSound
  <2> HIDE DEF b
  <2>8. /\ IsJoined(T.part[c][u]) /\ T.part[c][u].role = role
        /\ \A v \in Users \ {u} : T.part[c][v] = S.part[c][v]
        /\ \A d \in Chats \ {c} : T.part[d] = L.part[d]
    BY <2>1, <2>2, <2>6 DEF IsJoined
  <2>9. ASSUME NEW v \in Users, NEW d \in Chats
        PROVE  /\ T.activeIn[v] = d => IsJoined(T.part[d][v])
               /\ IsJoined(T.part[d][v]) => T.activeIn[v] = d \/ v \in st
    <3>1. /\ L.activeIn[v] = d => IsJoined(L.part[d][v])
          /\ IsJoined(L.part[d][v]) => L.activeIn[v] = d \/ v \in st
      BY <2>1 DEF Placed
    <3>2. d # NoChat
      BY DEF NoChatAssumption
    <3> QED BY <2>1, <2>6, <2>8, <3>1, <3>2
  <2>10. Named(T)
    BY <2>1, <2>6 DEF Named
  <2>11. ASSUME NEW d \in Chats \ {c}
         PROVE  /\ Peopled(T, d)
                /\ T.chat[d] = "active" => S.chat[d] = "active" /\ (Led(S, d) => Led(T, d))
    BY <2>1, <2>6, <2>8 DEF Peopled, Led
  <2> QED BY <2>1, <2>6, <2>8, <2>9, <2>10, <2>11 DEF Placed, T
<1> QED BY <1>1, <1>2

\* Joining a chat that is not there any more changes nothing, joining another
\* puts the user in it, and gives it an admin if it has none.
LEMMA JoinChatKeeps ==
  ASSUME UsersAssumption, NoChatAssumption, NEW S, Sound(S), NEW c \in Chats, NEW u \in Users,
         NEW role \in Roles \cup {NoRole}, NEW st, Placed(S, st), Named(S),
         S.chat[c] \in {"active", "ended"}, \A d \in Chats \ {c} : Peopled(S, d)
  PROVE  LET T == JoinChat(S, c, u, role)
         IN  /\ Sound(T) /\ Placed(T, st) /\ Named(T)
             /\ \A d \in Chats \ {c} : Peopled(T, d)
             /\ \A d \in Chats \ {c} :
                  T.chat[d] = "active" => S.chat[d] = "active" /\ (Led(S, d) => Led(T, d))
             /\ T = S \/ (T.chat[c] = "active" /\ IsJoined(T.part[c][u]) /\ Led(T, c))
             /\ T = S => S.chat[c] = "ended" \/ IsJoined(S.part[c][u])
<1> DEFINE r == JoinRole(S, c, u, role)
           T == JoinChat(S, c, u, role)
<1>1. CASE S.chat[c] = "ended" \/ IsJoined(S.part[c][u])
  <2>1. T = S
    BY <1>1 DEF JoinChat
  <2> HIDE DEF T
  <2> QED BY <1>1, <2>1 DEF T
<1>2. CASE S.chat[c] = "active" /\ ~IsJoined(S.part[c][u])
  <2>1. T = ChangeRole(S, c, u, r)
    BY <1>2 DEF JoinChat
  <2>2. r \in Roles
    <3>1. S.part[c][u].role \in Roles \cup {NoRole}
      BY DEF Sound, DbType, Participants
    <3> QED BY <3>1 DEF JoinRole, Roles
  <2>3. S.counter[c]["admin"] = 0 => r = "admin"
    BY DEF JoinRole
  <2>4. S.counter[c]["admin"] = 0 <=> ~Led(S, c)
    BY NoAdmin
  <2> HIDE DEF r, T
  <2>5. /\ Sound(T) /\ Placed(T, st) /\ Named(T) /\ T.chat[c] = "active"
        /\ IsJoined(T.part[c][u]) /\ T.part[c][u].role = r
        /\ \A v \in Users \ {u} : T.part[c][v] = S.part[c][v]
        /\ \A d \in Chats \ {c} : Peopled(T, d)
        /\ \A d \in Chats \ {c} :
             T.chat[d] = "active" => S.chat[d] = "active" /\ (Led(S, d) => Led(T, d))
    BY <1>2, <2>1, <2>2, ChangeRoleKeeps
  <2>6. Led(T, c)
    BY <1>2, <2>3, <2>4, <2>5 DEF Led, IsAdmin
  <2>7. T # S
    BY <1>2, <2>5
  <2> QED BY <2>5, <2>6, <2>7 DEF T
<1> QED BY <1>1, <1>2

-----------------------------------------------------------------------------
(* The invariant and the steps.                                            *)

VoiceInv ==
    /\ Sound(Db) /\ Named(Db) /\ Placed(Db, stale)
    /\ \A c \in Chats : Peopled(Db, c)
    /\ \A c \in Chats \ demoted : chat[c] = "active" => Led(Db, c)
    /\ stale \subseteq Users /\ demoted \subseteq Chats

LEMMA InitInv == ASSUME UsersAssumption, NoChatAssumption, VoiceInit PROVE VoiceInv
<1>1. Db \in DbType
  BY DEF VoiceInit, Db, DbType, Participants, Lists
<1>2. \A c \in Chats, u \in Users : Db.part[c][u] = [status |-> "none", role |-> NoRole, handRaised |-> FALSE]
  BY DEF VoiceInit, Db
<1>3. \A c \in Chats, l \in Lists : {u \in Users : Tallied(l, Db.part[c][u])} = {}
  <2> DEFINE p == [status |-> "none", role |-> NoRole, handRaised |-> FALSE]
  <2>1. \A l \in Lists : ~Tallied(l, p)
    BY DEF Tallied, On, IsListener, IsSpeaker, IsAdmin, IsJoined, Lists
  <2> HIDE DEF p
  <2> QED BY <1>2, <2>1 DEF p
<1>4. \A c \in Chats, l \in Lists : Db.counter[c][l] = 0
  BY DEF VoiceInit, Db
<1>5. Sound(Db)
  BY <1>1, <1>3, <1>4, FS_EmptySet DEF Sound
<1>6. /\ \A c \in Chats : Db.chat[c] = "none" /\ chat[c] = "none" /\ c # NoChat
      /\ \A u \in Users : Db.activeIn[u] = NoChat
      /\ Db.voiceChat = NoChat /\ stale = {} /\ demoted = {}
  BY DEF VoiceInit, Db, NoChatAssumption
<1> HIDE DEF Db
<1>7. \A c \in Chats, u \in Users : ~IsJoined(Db.part[c][u])
  BY <1>2 DEF IsJoined
<1>8. InRoom \subseteq Chats
  BY ChatsAssumption DEF ChatsAssumption
<1> QED BY <1>5, <1>6, <1>7, <1>8 DEF VoiceInv, Named, Placed, Peopled

\* What a transaction must leave behind.
LEMMA Committed ==
  ASSUME VoiceInv, NEW S, NEW us \in SUBSET Users, NEW cs \in SUBSET Chats, CommitMarking(S, us, cs),
         Sound(S), Named(S), Placed(S, stale \cup {u \in us : activeIn[u] # NoChat}),
         \A c \in Chats : Peopled(S, c),
         \A c \in Chats : c \notin demoted \cup cs /\ S.chat[c] = "active" => Led(S, c)
  PROVE  VoiceInv'
<1>1. Db' = S
  BY DEF Sound, DbType, CommitMarking, Db
<1>2. /\ stale' = stale \cup {u \in us : activeIn[u] # NoChat}
      /\ demoted' = {c \in demoted \cup cs : S.chat[c] = "active"} /\ chat' = S.chat
  BY DEF CommitMarking
<1>3. stale' \subseteq Users /\ demoted' \subseteq Chats
  BY <1>2 DEF VoiceInv
<1>4. Sound(Db)' /\ Named(Db)' /\ Placed(Db, stale)'
  BY <1>1, <1>2 DEF Sound, Named, Placed
<1>5. (\A c \in Chats : Peopled(Db, c))'
  BY <1>1 DEF Peopled
<1>6. (\A c \in Chats \ demoted : chat[c] = "active" => Led(Db, c))'
  BY <1>1, <1>2 DEF Led
<1> QED BY <1>3, <1>4, <1>5, <1>6 DEF VoiceInv

\* The operations that make somebody join a chat, which may be a new one.
LEMMA JoinStep ==
  ASSUME UsersAssumption, NoChatAssumption, VoiceInv, NEW S, Sound(S), Named(S), Placed(S, stale),
         NEW c \in Chats, NEW u \in Users, NEW role \in Roles \cup {NoRole},
         S.part = part, \A d \in Chats \ {c} : S.chat[d] = chat[d],
         \/ chat[c] # "none" /\ S.chat[c] = chat[c]
         \/ chat[c] = "none" /\ S.chat[c] = "active",
         Commit(JoinChat(S, c, u, role))
  PROVE  VoiceInv'
<1> DEFINE T == JoinChat(S, c, u, role)
<1>1. S.chat[c] \in {"active", "ended"}
  BY DEF Sound, DbType
<1>2. /\ Db.part = part /\ Db.chat = chat
      /\ \A d \in Chats : Peopled(Db, d)
      /\ \A d \in Chats \ demoted : chat[d] = "active" => Led(Db, d)
  BY DEF VoiceInv, Db
<1>3. \A d \in Chats : Led(S, d) <=> Led(Db, d)
  BY <1>2 DEF Led
<1>4. \A d \in Chats \ {c} : Peopled(S, d)
  BY <1>2 DEF Peopled
<1>5. /\ Sound(T) /\ Placed(T, stale) /\ Named(T)
      /\ \A d \in Chats \ {c} : Peopled(T, d)
      /\ \A d \in Chats \ {c} :
           T.chat[d] = "active" => S.chat[d] = "active" /\ (Led(S, d) => Led(T, d))
      /\ T = S \/ (T.chat[c] = "active" /\ IsJoined(T.part[c][u]) /\ Led(T, c))
      /\ T = S => S.chat[c] = "ended" \/ IsJoined(S.part[c][u])
  BY <1>1, <1>4, JoinChatKeeps
<1> HIDE DEF T
<1>6. T = S => S.chat[c] = chat[c]
  BY <1>2, <1>5 DEF Peopled
<1>7. Peopled(T, c) /\ (c \notin demoted /\ T.chat[c] = "active" => Led(T, c))
  <2>1. CASE T = S
    BY <1>2, <1>3, <1>6, <2>1 DEF Peopled
  <2>2. CASE T # S
    BY <1>5, <2>2 DEF Peopled
  <2> QED BY <2>1, <2>2
<1>8. \A d \in Chats : Peopled(T, d) /\ (d \notin demoted /\ T.chat[d] = "active" => Led(T, d))
  BY <1>2, <1>3, <1>5, <1>7
<1>9. Placed(T, stale \cup {v \in {} : activeIn[v] # NoChat})
  BY <1>5 DEF Placed
<1>10. CommitMarking(T, {}, {})
  BY DEF Commit, T
<1>11. {} \in SUBSET Users /\ {} \in SUBSET Chats
  OBVIOUS
<1> QED BY <1>5, <1>8, <1>9, <1>10, <1>11, Committed

\* The operations that give a user of a chat another role.  It keeps an admin if
\* another user is one.
LEMMA RoleStep ==
  ASSUME UsersAssumption, NoChatAssumption, VoiceInv, NEW c \in Chats, NEW u \in Users,
         NEW role \in Roles, chat[c] = "active", NEW cs \in SUBSET Chats,
         NEW W, Sound(W),
         W.chat = ChangeRole(Db, c, u, role).chat,
         W.activeIn = ChangeRole(Db, c, u, role).activeIn,
         W.voiceChat = ChangeRole(Db, c, u, role).voiceChat,
         \A d \in Chats, v \in Users :
           /\ W.part[d][v].status = ChangeRole(Db, c, u, role).part[d][v].status
           /\ W.part[d][v].role = ChangeRole(Db, c, u, role).part[d][v].role,
         \/ c \in demoted \cup cs
         \/ \E v \in Users \ {u} : IsAdmin(part[c][v]),
         CommitMarking(W, {}, cs)
  PROVE  VoiceInv'
<1> DEFINE T == ChangeRole(Db, c, u, role)
<1>1. /\ Db.part = part /\ Db.chat = chat
      /\ Sound(Db) /\ Named(Db) /\ Placed(Db, stale)
      /\ \A d \in Chats : Peopled(Db, d)
      /\ \A d \in Chats \ demoted : chat[d] = "active" => Led(Db, d)
  BY DEF VoiceInv, Db
<1>2. /\ Placed(T, stale) /\ Named(T) /\ T.chat[c] = "active"
      /\ IsJoined(T.part[c][u]) /\ T.part[c][u].role = role
      /\ \A v \in Users \ {u} : T.part[c][v] = Db.part[c][v]
      /\ \A d \in Chats \ {c} : Peopled(T, d)
      /\ \A d \in Chats \ {c} :
           T.chat[d] = "active" => Db.chat[d] = "active" /\ (Led(Db, d) => Led(T, d))
  BY <1>1, ChangeRoleKeeps
<1>3. /\ W.chat = T.chat /\ W.activeIn = T.activeIn /\ W.voiceChat = T.voiceChat
      /\ \A d \in Chats, v \in Users : /\ IsJoined(W.part[d][v]) <=> IsJoined(T.part[d][v])
                                       /\ IsAdmin(W.part[d][v]) <=> IsAdmin(T.part[d][v])
  BY DEF IsAdmin, IsJoined
<1> HIDE DEF T
<1>4. Placed(W, stale) /\ Named(W)
  BY <1>2, <1>3 DEF Placed, Named
<1>5. \A d \in Chats : Led(W, d) <=> Led(T, d)
  BY <1>3 DEF Led
<1>6. \A d \in Chats : Peopled(W, d)
  BY <1>2, <1>3 DEF Peopled
<1>7. c \notin demoted \cup cs => Led(T, c)
  BY <1>1, <1>2 DEF Led
<1>8. \A d \in Chats : d \notin demoted \cup cs /\ W.chat[d] = "active" => Led(W, d)
  BY <1>1, <1>2, <1>3, <1>5, <1>7
<1>9. Placed(W, stale \cup {v \in {} : activeIn[v] # NoChat})
  BY <1>4 DEF Placed
<1>10. {} \in SUBSET Users
  OBVIOUS
<1> QED BY <1>4, <1>6, <1>8, <1>9, <1>10, Committed

\* Putting the hand of u down.
LEMMA HandDownSound ==
  ASSUME UsersAssumption, NEW S, Sound(S), NEW c \in Chats, NEW u \in Users
  PROVE  LET T == HandDown(S, c, u)
         IN  /\ Sound(T)
             /\ T.chat = S.chat /\ T.activeIn = S.activeIn /\ T.voiceChat = S.voiceChat
             /\ \A d \in Chats, v \in Users : /\ T.part[d][v].status = S.part[d][v].status
                                              /\ T.part[d][v].role = S.part[d][v].role
<1> DEFINE down == FALSE
           n == (IF down THEN 1 ELSE 0) - (IF S.part[c][u].handRaised THEN 1 ELSE 0)
           T == Hand(S, c, u, down, n)
<1>1. n \in Int /\ down \in BOOLEAN
  OBVIOUS
<1>2. S.counter[c]["handRaised"] \in Int
  BY DEF Sound, DbType, Lists
<1>3. S.counter[c]["handRaised"] - (IF S.part[c][u].handRaised THEN 1 ELSE 0)
        = S.counter[c]["handRaised"] + n
  BY <1>2
<1>4. HandDown(S, c, u) = T
  <2> HIDE DEF n
  <2> QED BY <1>3 DEF HandDown, Hand
<1> HIDE DEF down
<1>5. /\ Sound(T)
      /\ T.chat = S.chat /\ T.activeIn = S.activeIn /\ T.voiceChat = S.voiceChat
      /\ \A d \in Chats, v \in Users : /\ T.part[d][v].status = S.part[d][v].status
                                       /\ T.part[d][v].role = S.part[d][v].role
  BY <1>1, HandSound
<1> HIDE DEF T
<1> QED BY <1>4, <1>5

LEMMA NextInv ==
  ASSUME UsersAssumption, NoChatAssumption, ChatsAssumption, VoiceInv, [VoiceNext]_voiceVars
  PROVE  VoiceInv'
<1>0. /\ Db.part = part /\ Db.chat = chat /\ Db.counter = counters /\ Db.activeIn = activeIn
      /\ Sound(Db) /\ Named(Db) /\ Placed(Db, stale) /\ Db \in DbType
      /\ \A d \in Chats : Peopled(Db, d)
      /\ \A d \in Chats \ demoted : chat[d] = "active" => Led(Db, d)
  BY DEF VoiceInv, Db, Sound
<1>a. \A c \in Chats, u \in Users : IsJoined(part[c][u]) => chat[c] = "active"
  BY <1>0 DEF Peopled
<1>b. {} \in SUBSET Users /\ {} \in SUBSET Chats
  OBVIOUS
<1>1. ASSUME NEW c \in Chats, NEW u \in Users, CreateChat(c, u) \/ CreateInChat(c, u) PROVE VoiceInv'
  <2> DEFINE name == IF c \in InRoom THEN c ELSE voiceChat
             S == [chat |-> [chat EXCEPT ![c] = "active"], part |-> part,
                   counter |-> counters, activeIn |-> activeIn, voiceChat |-> name]
  <2>1. /\ Commit(JoinChat(S, c, u, NoRole)) /\ chat[c] = "none"
        /\ c \in InRoom => voiceChat = NoChat
    <3>1. CASE CreateChat(c, u)
      <4>1. c \notin InRoom /\ name = voiceChat
        BY <3>1 DEF CreateChat
      <4> HIDE DEF name
      <4>2. S = [Db EXCEPT !.chat[c] = "active"]
        <5>1. [Db EXCEPT !.chat[c] = "active"] =
                [chat |-> [chat EXCEPT ![c] = "active"], part |-> part,
                 counter |-> counters, activeIn |-> activeIn, voiceChat |-> voiceChat]
          BY DEF Db
        <5> QED BY <4>1, <5>1
      <4> HIDE DEF S
      <4> QED BY <3>1, <4>1, <4>2 DEF CreateChat
    <3>2. CASE CreateInChat(c, u)
      <4>1. c \in InRoom /\ name = c
        BY <3>2 DEF CreateInChat
      <4> HIDE DEF name
      <4>2. S = [Db EXCEPT !.chat[c] = "active", !.voiceChat = c]
        <5>1. [Db EXCEPT !.chat[c] = "active", !.voiceChat = c] =
                [chat |-> [chat EXCEPT ![c] = "active"], part |-> part,
                 counter |-> counters, activeIn |-> activeIn, voiceChat |-> c]
          <6> DEFINE D == [chat |-> [chat EXCEPT ![c] = "active"], part |-> part,
                           counter |-> counters, activeIn |-> activeIn, voiceChat |-> voiceChat]
          <6>1. [Db EXCEPT !.chat[c] = "active"] = D
            BY DEF Db
          <6>2. [Db EXCEPT !.chat[c] = "active", !.voiceChat = c]
                  = [[Db EXCEPT !.chat[c] = "active"] EXCEPT !.voiceChat = c]
            OBVIOUS
          <6>3. [D EXCEPT !.voiceChat = c] =
                  [chat |-> [chat EXCEPT ![c] = "active"], part |-> part,
                   counter |-> counters, activeIn |-> activeIn, voiceChat |-> c]
            OBVIOUS
          <6> HIDE DEF D
          <6> QED BY <6>1, <6>2, <6>3
        <5> QED BY <4>1, <5>1
      <4> HIDE DEF S
      <4> QED BY <3>2, <4>1, <4>2 DEF CreateInChat
    <3> QED BY <1>1, <3>1, <3>2
  <2>2. /\ S.part = part /\ S.counter = Db.counter /\ S.activeIn = activeIn
        /\ S.chat = [chat EXCEPT ![c] = "active"]
        /\ S.voiceChat = IF c \in InRoom THEN c ELSE Db.voiceChat
        /\ S \in DbType
    <3>1. /\ chat \in [Chats -> {"none", "active", "ended"}] /\ Db.voiceChat = voiceChat
          /\ part \in [Chats -> [Users -> Participants]] /\ counters \in [Chats -> [Lists -> Int]]
          /\ activeIn \in [Users -> Chats \cup {NoChat}] /\ voiceChat \in InRoom \cup {NoChat}
      BY <1>0 DEF DbType, Db
    <3> QED BY <1>0, <3>1 DEF DbType
  <2> HIDE DEF S
  <2>3. chat \in [Chats -> {"none", "active", "ended"}]
    BY <1>0 DEF DbType
  <2>4. \A d \in Chats : S.chat[d] = IF d = c THEN "active" ELSE chat[d]
    BY <2>2, <2>3
  <2>5. Sound(S)
    <3>1. ASSUME NEW d \in Chats, NEW l \in Lists
          PROVE  S.counter[d][l] = Cardinality({v \in Users : Tallied(l, S.part[d][v])})
      <4>1. Db.counter[d][l] = Cardinality({v \in Users : Tallied(l, Db.part[d][v])})
        BY <1>0 DEF Sound
      <4> QED BY <1>0, <2>2, <4>1
    <3> QED BY <2>2, <3>1 DEF Sound
  <2>6. Placed(S, stale)
    BY <1>0, <2>2 DEF Placed
  <2>7. Named(S)
    <3>1. \A d \in InRoom : d \in Chats /\ d # NoChat
      BY DEF ChatsAssumption, NoChatAssumption
    <3>2. \A d \in InRoom : Db.voiceChat = d <=> chat[d] = "active"
      BY <1>0 DEF Named
    <3>3. Db.voiceChat = voiceChat
      BY DEF Db
    <3>4. CASE c \in InRoom
      BY <2>1, <2>2, <2>4, <3>1, <3>2, <3>3, <3>4 DEF Named
    <3>5. CASE c \notin InRoom
      BY <2>2, <2>4, <3>1, <3>2, <3>5 DEF Named
    <3> QED BY <3>4, <3>5
  <2> QED BY <2>1, <2>2, <2>4, <2>5, <2>6, <2>7, JoinStep
<1>2. ASSUME NEW c \in Chats, NEW u \in Users, Join(c, u) PROVE VoiceInv'
  <2>1. PICK role \in Roles \cup {NoRole} : Commit(JoinChat(Db, c, u, role))
    BY <1>2 DEF Join, Roles
  <2>2. chat[c] # "none"
    BY <1>2 DEF Join
  <2> QED BY <1>0, <2>1, <2>2, JoinStep
<1>3. ASSUME NEW c \in Chats, NEW u \in Users, Leave(c, u) PROVE VoiceInv'
  <2> DEFINE us == IF part[c][u].status = "kicked" THEN {u} ELSE {}
             st == stale \cup {v \in us : activeIn[v] # NoChat}
             T == LeaveChat(Db, c, u)
  <2>1. CommitMarking(T, us, {}) /\ part[c][u].status # "none" /\ us \in SUBSET Users
    BY <1>3 DEF Leave
  <2>2. Placed(Db, st)
    <3> HIDE DEF us
    <3> QED BY <1>0 DEF Placed
  <2>3. part[c][u].status \in {"none", "joined", "left", "kicked"}
    BY <1>0 DEF DbType, Participants
  <2>4. part[c][u].status # "left" =>
          IsJoined(Db.part[c][u]) \/ Db.activeIn[u] = NoChat \/ u \in st
    BY <1>0, <2>1, <2>3 DEF IsJoined
  <2> HIDE DEF us, st
  <2>5. /\ Sound(T) /\ Placed(T, st) /\ Named(T) /\ Leaves(Db, T, c) /\ Peopled(T, c)
        /\ T.chat[c] = "active" => Led(T, c) /\ Db.chat[c] = "active"
    BY <1>0, <2>2, <2>4, LeaveChatKeeps
  <2> HIDE DEF T
  <2>6. ASSUME NEW d \in Chats \ {c}
        PROVE  Peopled(T, d) /\ (d \notin demoted /\ T.chat[d] = "active" => Led(T, d))
    BY <1>0, <2>5 DEF Leaves, Peopled, Led
  <2>7. \A d \in Chats : Peopled(T, d) /\ (d \notin demoted \cup {} /\ T.chat[d] = "active" => Led(T, d))
    BY <2>5, <2>6
  <2> QED BY <1>b, <2>1, <2>5, <2>7, Committed DEF st
<1>4. ASSUME NEW c \in Chats, NEW u \in Users, NEW raised \in BOOLEAN, UpdateHandRaised(c, u, raised)
      PROVE  VoiceInv'
  <2> DEFINE n == (IF raised THEN 1 ELSE 0) - (IF Db.part[c][u].handRaised THEN 1 ELSE 0)
             T == Hand(Db, c, u, raised, n)
  <2>1. Db.part[c][u].handRaised \in BOOLEAN /\ Db.part[c][u].handRaised # raised
    BY <1>0, <1>4 DEF UpdateHandRaised, DbType, Participants
  <2>2. n = (IF raised THEN 1 ELSE -1) /\ n \in Int
    BY <2>1
  <2>3. Commit(T)
    <3> HIDE DEF n
    <3> QED BY <1>4, <2>2 DEF UpdateHandRaised, Hand
  <2>4. /\ Sound(T)
        /\ T.chat = Db.chat /\ T.activeIn = Db.activeIn /\ T.voiceChat = Db.voiceChat
        /\ \A d \in Chats, v \in Users : /\ T.part[d][v].status = Db.part[d][v].status
                                         /\ T.part[d][v].role = Db.part[d][v].role
    BY <1>0, <2>2, HandSound
  <2> HIDE DEF T
  <2>5. \A d \in Chats, v \in Users : /\ IsJoined(T.part[d][v]) <=> IsJoined(Db.part[d][v])
                                      /\ IsAdmin(T.part[d][v]) <=> IsAdmin(Db.part[d][v])
    BY <2>4 DEF IsAdmin, IsJoined
  <2>6. Named(T) /\ Placed(T, stale \cup {v \in {} : activeIn[v] # NoChat})
    BY <1>0, <2>4, <2>5 DEF Named, Placed
  <2>7. \A d \in Chats : Peopled(T, d) /\ (d \notin demoted \cup {} /\ T.chat[d] = "active" => Led(T, d))
    BY <1>0, <2>4, <2>5 DEF Peopled, Led
  <2>8. CommitMarking(T, {}, {})
    BY <2>3 DEF Commit
  <2> QED BY <1>b, <2>4, <2>6, <2>7, <2>8, Committed
<1>5. ASSUME NEW c \in Chats, NEW u \in Users, NEW by \in Users, NEW role \in Roles,
             IsJoined(part[c][by]) \/ IsJoined(part[c][u]), NEW cs \in SUBSET Chats,
             CommitMarking(HandDown(ChangeRole(Db, c, u, role), c, u), {}, cs),
             c \in demoted \cup cs \/ \E v \in Users \ {u} : IsAdmin(part[c][v])
      PROVE  VoiceInv'
  <2> DEFINE T == ChangeRole(Db, c, u, role)
             W == HandDown(T, c, u)
  <2>1. chat[c] = "active"
    BY <1>5, <1>a
  <2>2. Sound(T)
    BY <1>0, <2>1, ChangeRoleKeeps
  <2>3. /\ Sound(W)
        /\ W.chat = T.chat /\ W.activeIn = T.activeIn /\ W.voiceChat = T.voiceChat
        /\ \A d \in Chats, v \in Users : /\ W.part[d][v].status = T.part[d][v].status
                                         /\ W.part[d][v].role = T.part[d][v].role
    <3> HIDE DEF T
    <3> QED BY <2>2, HandDownSound
  <2> HIDE DEF W
  <2> QED BY <1>5, <2>1, <2>3, RoleStep DEF W
<1>6. ASSUME NEW c \in Chats, NEW u \in Users, NEW by \in Users,
             PromoteParticipant(c, by, u) \/ DemoteParticipant(c, by, u)
      PROVE  VoiceInv'
  <2> DEFINE cs == IF IsAdmin(part[c][u]) THEN {c} ELSE {}
  <2>1. cs \in SUBSET Chats /\ {"speaker", "listener"} \subseteq Roles
    BY DEF Roles
  <2>2. \E role \in Roles : CommitMarking(HandDown(ChangeRole(Db, c, u, role), c, u), {}, cs)
    BY <1>6, <2>1 DEF PromoteParticipant, DemoteParticipant
  <2>3. IsJoined(part[c][by]) \/ IsJoined(part[c][u])
    BY <1>6 DEF PromoteParticipant, DemoteParticipant, IsAdmin, IsSpeaker
  <2>4. c \in demoted \cup cs \/ \E v \in Users \ {u} : IsAdmin(part[c][v])
    BY <1>0, <1>a, <2>3 DEF Led
  <2> HIDE DEF cs
  <2> QED BY <1>5, <2>1, <2>2, <2>3, <2>4
<1>7. ASSUME NEW c \in Chats, NEW u \in Users, NEW by \in Users, NEW isAdmin \in BOOLEAN,
             UpdateAdminRights(c, by, u, isAdmin)
      PROVE  VoiceInv'
  <2> DEFINE role == IF isAdmin THEN "admin" ELSE "speaker"
             W == ChangeRole(Db, c, u, role)
  <2>1. role \in Roles /\ by \in Users \ {u} /\ IsAdmin(part[c][by]) /\ CommitMarking(W, {}, {})
    BY <1>7 DEF UpdateAdminRights, Commit, Roles
  <2>2. chat[c] = "active"
    BY <1>a, <2>1 DEF IsAdmin
  <2> HIDE DEF role
  <2>3. Sound(W)
    BY <1>0, <2>1, <2>2, ChangeRoleKeeps
  <2> QED BY <1>b, <2>1, <2>2, <2>3, RoleStep
<1>8. ASSUME NEW c \in Chats, NEW u \in Users, NEW by \in Users, Kick(c, by, u) PROVE VoiceInv'
  <2> DEFINE us == IF part[c][u].status = "left" THEN {u} ELSE {}
             st == stale \cup {v \in us : activeIn[v] # NoChat}
             one == {u}
             T == Gone(Db, c, one, "kicked")
  <2>1. /\ CommitMarking(T, us, {}) /\ part[c][u].status # "none" /\ us \in SUBSET Users
        /\ by # u /\ IsAdmin(part[c][by]) /\ chat[c] = "active"
    BY <1>8, <1>a DEF Kick, IsAdmin
  <2>2. Placed(Db, st)
    <3> HIDE DEF us
    <3> QED BY <1>0 DEF Placed
  <2>3. part[c][u].status \in {"none", "joined", "left", "kicked"}
    BY <1>0 DEF DbType, Participants
  <2>4. /\ \A v \in one : Db.part[c][v].status # "kicked" =>
             IsJoined(Db.part[c][v]) \/ Db.activeIn[v] = NoChat \/ v \in st
        /\ one \in SUBSET Users /\ by \in Users \ one
    BY <1>0, <2>1, <2>3 DEF IsJoined
  <2> HIDE DEF us, st, one
  <2>5. /\ Sound(T) /\ T.chat = Db.chat /\ T.voiceChat = Db.voiceChat
        /\ \A d \in Chats \ {c} : T.part[d] = Db.part[d]
        /\ \A v \in Users \ one : T.part[c][v] = Db.part[c][v]
    BY <1>0, <2>4, GoneSound
  <2>6. Placed(T, st)
    BY <1>0, <2>2, <2>4, GonePlaced
  <2> HIDE DEF T
  <2>7. Named(T)
    BY <1>0, <2>5 DEF Named
  <2>8. IsAdmin(T.part[c][by]) /\ IsJoined(T.part[c][by]) /\ T.chat[c] = "active"
    BY <1>0, <2>1, <2>4, <2>5 DEF IsAdmin
  <2>9. ASSUME NEW d \in Chats
        PROVE  Peopled(T, d) /\ (d \notin demoted \cup {} /\ T.chat[d] = "active" => Led(T, d))
    <3>1. CASE d = c
      BY <2>8, <3>1 DEF Peopled, Led
    <3>2. CASE d # c
      BY <1>0, <2>5, <3>2 DEF Peopled, Led
    <3> QED BY <3>1, <3>2
  <2> QED BY <1>b, <2>1, <2>5, <2>6, <2>7, <2>9, Committed DEF st
<1>9. ASSUME NEW c \in Chats, NEW u \in Users, EndChat(c, u) PROVE VoiceInv'
  <2> DEFINE T == SetInactive(Db, c)
  <2>1. CommitMarking(T, {}, {}) /\ chat[c] = "active"
    BY <1>9, <1>a DEF EndChat, Commit, IsAdmin
  <2>2. /\ Sound(T) /\ Placed(T, stale) /\ Named(T) /\ Leaves(Db, T, c)
        /\ T.chat[c] # "active"
        /\ Db.chat[c] = "active" => \A v \in Users : ~IsJoined(T.part[c][v])
    BY <1>0, SetInactiveKeeps
  <2> HIDE DEF T
  <2>3. ASSUME NEW d \in Chats
        PROVE  Peopled(T, d) /\ (d \notin demoted \cup {} /\ T.chat[d] = "active" => Led(T, d))
    <3>1. CASE d = c
      BY <1>0, <2>1, <2>2, <3>1 DEF Peopled
    <3>2. CASE d # c
      BY <1>0, <2>2, <3>2 DEF Leaves, Peopled, Led
    <3> QED BY <3>1, <3>2
  <2>4. Placed(T, stale \cup {v \in {} : activeIn[v] # NoChat})
    BY <2>2 DEF Placed
  <2> QED BY <1>b, <2>1, <2>2, <2>3, <2>4, Committed
<1>10. CASE UNCHANGED voiceVars
  <2>1. Db' = Db /\ stale' = stale /\ demoted' = demoted /\ chat' = chat
    BY <1>10 DEF voiceVars, dbVars, Db
  <2> QED BY <2>1 DEF VoiceInv, Sound, Named, Placed, Peopled, Led
<1> QED BY <1>1, <1>2, <1>3, <1>4, <1>6, <1>7, <1>8, <1>9, <1>10 DEF VoiceNext

LEMMA Invariance == ASSUME UsersAssumption, NoChatAssumption, ChatsAssumption PROVE VoiceSpec => []VoiceInv
<1>1. VoiceInit => VoiceInv
  BY InitInv
<1>2. VoiceInv /\ [VoiceNext]_voiceVars => VoiceInv'
  BY NextInv
<1> QED BY <1>1, <1>2, PTL DEF VoiceSpec

-----------------------------------------------------------------------------
(* The theorems.                                                           *)

\* Of the tallied the ones are listed, the others gone with a hand up.
LEMMA TalliedAre ==
  ASSUME UsersAssumption, NEW c \in Chats, NEW l \in Lists
  PROVE  Cardinality({u \in Users : Tallied(l, part[c][u])})
           = Cardinality({u \in Users : On(l, part[c][u])})
             + IF l = "handRaised" THEN Cardinality(HandsLeftUp(c)) ELSE 0
<1> DEFINE X == {u \in Users : Tallied(l, part[c][u])}
           Y == {u \in Users : On(l, part[c][u])}
           Z == HandsLeftUp(c)
<1>1. IsFiniteSet(Y) /\ IsFiniteSet(Z) /\ Cardinality(Y) \in Nat
  BY FS_Subset, FS_CardinalityType DEF UsersAssumption, HandsLeftUp
<1>2. CASE l = "handRaised"
  <2>1. X = Y \cup Z /\ Y \cap Z = {}
    BY <1>2 DEF Tallied, On, IsHandRaised, HandsLeftUp
  <2> HIDE DEF X, Y, Z
  <2>2. Cardinality(Y \cup Z) = Cardinality(Y) + Cardinality(Z)
    <3>1. Cardinality(Y \cup Z) = Cardinality(Y) + Cardinality(Z) - Cardinality(Y \cap Z)
      BY <1>1, FS_Union
    <3>2. Cardinality(Y \cap Z) = 0
      BY <2>1, FS_EmptySet
    <3>3. Cardinality(Y) \in Nat /\ Cardinality(Z) \in Nat
      BY <1>1, FS_CardinalityType
    <3> QED BY <3>1, <3>2, <3>3
  <2> QED BY <1>2, <2>1, <2>2 DEF X, Y, Z
<1>3. CASE l # "handRaised"
  <2>1. X = Y
    BY <1>3 DEF Tallied
  <2> HIDE DEF X, Y
  <2> QED BY <1>1, <1>3, <2>1 DEF X, Y
<1> QED BY <1>2, <1>3

\* The counters of a chat are the sizes of its lists after any sequence of
\* operations, the ones an operation calls on other chats included, but for the
\* hands of those who have gone, which stay counted.
THEOREM CountersAlwaysAgree ==
  ASSUME UsersAssumption, NoChatAssumption, ChatsAssumption PROVE VoiceSpec => []CountersAgree
<1>1. VoiceInv => CountersAgree
  <2>1. VoiceInv => VoiceTypeOK
    BY DEF VoiceInv, Sound, DbType, Db, VoiceTypeOK
  <2>2. VoiceInv => \A c \in Chats, l \in Lists :
                      counters[c][l] = Cardinality({u \in Users : Tallied(l, part[c][u])})
    BY DEF VoiceInv, Sound, Db
  <2> QED BY <2>1, <2>2, TalliedAre DEF CountersAgree
<1> QED BY <1>1, Invariance, PTL

\* The room names the one active chat it has, and the active chat of a user is
\* one the user is in.
THEOREM PointersAlwaysAgree ==
  ASSUME UsersAssumption, NoChatAssumption, ChatsAssumption PROVE VoiceSpec => []PointersAgree
<1>1. VoiceInv => PointersAgree
  BY DEF VoiceInv, Named, Placed, Db, PointersAgree
<1> QED BY <1>1, Invariance, PTL

\* Nobody is left in a chat that has ended, a chat ends with its last member, and
\* it has an admin until one of its admins is made a speaker or a listener.
THEOREM AlwaysLedWhileActive ==
  ASSUME UsersAssumption, NoChatAssumption, ChatsAssumption PROVE VoiceSpec => []LedWhileActive
<1>1. VoiceInv => LedWhileActive
  BY DEF VoiceInv, Peopled, Led, Db, LedWhileActive
<1> QED BY <1>1, Invariance, PTL
===============================================================================
