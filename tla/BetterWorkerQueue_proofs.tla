----------------------- MODULE BetterWorkerQueue_proofs -----------------------
(***************************************************************************)
(* Proofs about BetterWorkerQueue for every number of tasks, servers,      *)
(* schedulers and attempts.                                                *)
(***************************************************************************)
EXTENDS BetterWorkerQueue, FiniteSetTheorems, TLAPS

----------------------------------------------------------------------------
(* Finite sets.  The library's theorem on images takes an operator; here   *)
(* the image is given by a function.                                       *)

LEMMA FiniteImage ==
    ASSUME NEW S, NEW T, IsFiniteSet(S), NEW f \in [S -> T],
           \A t \in T : \E s \in S : f[s] = t
    PROVE  IsFiniteSet(T)
  <1>1. f \in Surjection(S, T)
    BY DEF Surjection
  <1>. QED
    BY <1>1, FS_Surjection

LEMMA FiniteIds ==
    ASSUME NEW K, IsFiniteSet(K)
    PROVE  IsFiniteSet(Ids(K))
  <1>. DEFINE f == [k \in K |-> k.id]
  <1>1. f \in [K -> Ids(K)]
    BY DEF Ids
  <1>2. \A t \in Ids(K) : \E k \in K : f[k] = t
    BY DEF Ids
  <1>. QED
    BY <1>1, <1>2, FiniteImage

LEMMA FiniteRange ==
    ASSUME NEW S, IsFiniteSet(S), NEW f
    PROVE  IsFiniteSet({f[s] : s \in S})
  <1>. DEFINE g == [s \in S |-> f[s]]
              T == {f[s] : s \in S}
  <1>1. g \in [S -> T] /\ \A t \in T : \E s \in S : g[s] = t
    OBVIOUS
  <1>. HIDE DEF g, T
  <1>2. IsFiniteSet(T)
    BY <1>1, FiniteImage
  <1>. QED
    BY <1>2 DEF T

\* Every set of keys that a step writes is the image of a finite set.
LEMMA FiniteTimeKeys ==
    ASSUME NEW S, IsFiniteSet(S), NEW t
    PROVE  IsFiniteSet({[at |-> t, id |-> s] : s \in S})
  <1>. DEFINE f == [s \in S |-> [at |-> t, id |-> s]]
  <1>1. {[at |-> t, id |-> s] : s \in S} = {f[s] : s \in S}
    OBVIOUS
  <1>. HIDE DEF f
  <1>. QED
    BY <1>1, FiniteRange

LEMMA FiniteScan ==
    ASSUME NEW S, IsFiniteSet(S)
    PROVE  IsFiniteSet(WithAttempts(S))
  <1>. DEFINE f == [k \in S |-> [at |-> k.at, id |-> k.id, left |-> failures[k.id]]]
  <1>1. WithAttempts(S) = {f[k] : k \in S}
    BY DEF WithAttempts
  <1>. HIDE DEF f
  <1>. QED
    BY <1>1, FiniteRange

LEMMA FiniteEntries ==
    ASSUME NEW E, IsFiniteSet(E), NEW D, IsFiniteSet(D)
    PROVE  IsFiniteSet(RetryEntries(E) \cup DueEntries(E, D))
  <1>1. IsFiniteSet(Retried(E))
    BY FS_Subset DEF Retried
  <1>2. IsFiniteSet(RetryEntries(E))
    <2>. DEFINE f == [k \in Retried(E) |->
                        [version |-> version + 1, ex |-> Position(E, k), id |-> k.id]]
    <2>1. RetryEntries(E) = {f[k] : k \in Retried(E)}
      BY DEF RetryEntries
    <2>. HIDE DEF f
    <2>. QED
      BY <1>1, <2>1, FiniteRange
  <1>3. IsFiniteSet(DueEntries(E, D))
    <2>. DEFINE f == [k \in D |-> [version |-> version + 1,
                                   ex |-> Cardinality(E) + Position(D, k), id |-> k.id]]
    <2>1. DueEntries(E, D) = {f[k] : k \in D}
      BY DEF DueEntries
    <2>. HIDE DEF f
    <2>. QED
      BY <2>1, FiniteRange
  <1>. QED
    BY <1>2, <1>3, FS_Union

----------------------------------------------------------------------------
(* Attempts and counting *)

LEMMA RemainingType ==
    ASSUME NEW left \in AttemptsLeft \cup {0}, NEW n \in Nat
    PROVE  Remaining(left, n) \in AttemptsLeft \cup {0}
  BY DEF Remaining, AttemptsLeft, Infinite

\* An expiration leaves no more attempts than an earlier one of the same scan.
LEMMA RemainingAntitone ==
    ASSUME NEW left \in AttemptsLeft \cup {0}, NEW m \in Nat, NEW n \in Nat, m <= n,
           Remaining(left, n) > 0
    PROVE  Remaining(left, m) > 0
  BY DEF Remaining, AttemptsLeft, Infinite

\* A task of the scan that is not cancelled gets a pending key.
LEMMA RetriedOrCancelled ==
    ASSUME NEW E, IsFiniteSet(E), failures \in [Tasks -> AttemptsLeft \cup {0}],
           NEW id \in Ids(E), id \in Tasks, id \notin Cancelled(E)
    PROVE  \E p \in RetryEntries(E) : p.id = id
  <1>1. PICK k \in E : k.id = id
    BY DEF Ids
  <1>2. /\ IsFiniteSet(TaskExpirations(E, id))
        /\ Expirations(E, k) \in SUBSET TaskExpirations(E, id)
    BY <1>1, FS_Subset DEF TaskExpirations, Expirations
  <1>3. /\ Cardinality(TaskExpirations(E, id)) \in Nat
        /\ Cardinality(Expirations(E, k)) \in Nat
        /\ Cardinality(Expirations(E, k)) <= Cardinality(TaskExpirations(E, id))
    BY <1>2, FS_Subset, FS_CardinalityType
  <1>4. Remaining(failures[id], Cardinality(TaskExpirations(E, id))) > 0
    <2>1. failures[id] \in AttemptsLeft \cup {0}
      OBVIOUS
    <2>2. Remaining(failures[id], Cardinality(TaskExpirations(E, id))) \in AttemptsLeft \cup {0}
      BY <1>3, <2>1, RemainingType
    <2>3. Remaining(failures[id], Cardinality(TaskExpirations(E, id))) # 0
      BY DEF Cancelled
    <2>. QED
      BY <2>2, <2>3 DEF AttemptsLeft, Infinite
  <1>5. Remaining(failures[id], Cardinality(Expirations(E, k))) > 0
    BY <1>3, <1>4, RemainingAntitone
  <1>6. k \in Retried(E)
    BY <1>1, <1>5 DEF Retried
  <1>7. [version |-> version + 1, ex |-> Position(E, k), id |-> k.id] \in RetryEntries(E)
    BY <1>6 DEF RetryEntries
  <1>. QED
    BY <1>1, <1>7

----------------------------------------------------------------------------
(* The write set of each repository method keeps the key space well formed *)

LEMMA PushWorkType ==
    ASSUME RepoTypeOK, NEW id \in Tasks, NEW startAt \in Nat, PushWork(id, startAt)
    PROVE  RepoTypeOK'
  <1>. USE DEF RepoTypeOK
  <1>. DEFINE entry == [version |-> version', ex |-> 1, id |-> id]
              key == [at |-> startAt, id |-> id]
  <1>1. version' \in Nat /\ pending' \in SUBSET Entries /\ IsFiniteSet(pending')
    <2>1. version' \in Nat
      BY DEF PushWork
    <2>2. pending' \in {pending, pending \cup {entry}}
      BY DEF PushWork
    <2>3. entry \in Entries
      BY <2>1 DEF Entries
    <2>. HIDE DEF entry
    <2>4. IsFiniteSet(pending \cup {entry})
      BY FS_AddElement
    <2>. QED
      BY <2>1, <2>2, <2>3, <2>4
  <1>2. delayed' \in SUBSET TimeKeys /\ IsFiniteSet(delayed')
    <2>1. delayed' \in {delayed, delayed \cup {key}}
      BY DEF PushWork
    <2>2. key \in TimeKeys
      BY DEF TimeKeys
    <2>. HIDE DEF key
    <2>3. IsFiniteSet(delayed \cup {key})
      BY FS_AddElement
    <2>. QED
      BY <2>1, <2>2, <2>3
  <1>3. failures' \in [Tasks -> AttemptsLeft \cup {0}]
    BY AttemptsAssumption DEF PushWork
  <1>4. stats' \in [StatNames -> Int]
    BY DEF PushWork, StatNames
  <1>. QED
    BY <1>1, <1>2, <1>3, <1>4 DEF PushWork

LEMMA AcquireWorkType ==
    ASSUME RepoTypeOK, NEW P \in SUBSET pending, NEW lock \in Seeds, NEW timeout \in Nat,
           AcquireWork(P, lock, timeout)
    PROVE  RepoTypeOK'
  <1>. USE DEF RepoTypeOK
  <1>1. IsFiniteSet(P) /\ IsFiniteSet(Ids(P)) /\ Ids(P) \subseteq Tasks
    <2>1. IsFiniteSet(P)
      BY FS_Subset
    <2>2. IsFiniteSet(Ids(P))
      BY <2>1, FiniteIds
    <2>3. Ids(P) \subseteq Tasks
      BY DEF Ids, Entries
    <2>. QED
      BY <2>1, <2>2, <2>3
  <1>2. pending' \in SUBSET Entries /\ IsFiniteSet(pending')
    BY FS_Subset DEF AcquireWork
  <1>3. active' \in [Tasks -> Leases \cup {NoLease}]
    BY DEF AcquireWork, Leases
  <1>4. timeouts' \in SUBSET TimeKeys /\ IsFiniteSet(timeouts')
    <2>1. IsFiniteSet({[at |-> timeout, id |-> id] : id \in Ids(P)})
      BY <1>1, FiniteTimeKeys
    <2>2. IsFiniteSet(timeouts')
      BY <2>1, FS_Union DEF AcquireWork
    <2>. QED
      BY <1>1, <2>2 DEF AcquireWork, TimeKeys
  <1>5. stats' \in [StatNames -> Int]
    BY <1>1, FS_CardinalityType DEF AcquireWork, StatNames
  <1>. QED
    BY <1>2, <1>3, <1>4, <1>5 DEF AcquireWork

LEMMA RefreshLockType ==
    ASSUME RepoTypeOK, NEW batch \in SUBSET Entries, IsFiniteSet(batch),
           NEW lock \in Seeds, NEW newTimeout \in Nat, RefreshLock(batch, lock, newTimeout)
    PROVE  RepoTypeOK'
  <1>. DEFINE moved == {id \in Ids(batch) : Holds(id, lock) /\ newTimeout >= active[id].timeout}
  <1>. USE DEF RepoTypeOK
  <1>1. IsFiniteSet(moved) /\ moved \subseteq Tasks
    BY FS_Subset, FiniteIds DEF Ids, Entries
  <1>2. active' = [id \in Tasks |-> IF id \in moved
                                    THEN [lock |-> lock, timeout |-> newTimeout]
                                    ELSE active[id]]
    BY DEF RefreshLock
  <1>3. timeouts' = (timeouts \ {[at |-> active[id].timeout, id |-> id] : id \in moved})
                        \cup {[at |-> newTimeout, id |-> id] : id \in moved}
    BY DEF RefreshLock
  <1>. HIDE DEF moved
  <1>4. active' \in [Tasks -> Leases \cup {NoLease}]
    BY <1>2 DEF Leases
  <1>5. IsFiniteSet({[at |-> newTimeout, id |-> id] : id \in moved})
    BY <1>1, FiniteTimeKeys
  <1>6. IsFiniteSet(timeouts \ {[at |-> active[id].timeout, id |-> id] : id \in moved})
    BY FS_Subset
  <1>7. IsFiniteSet(timeouts')
    BY <1>3, <1>5, <1>6, FS_Union
  <1>8. timeouts' \in SUBSET TimeKeys
    BY <1>1, <1>3 DEF TimeKeys
  <1>. QED
    BY <1>4, <1>7, <1>8 DEF RefreshLock

LEMMA CompleteWorkType ==
    ASSUME RepoTypeOK, NEW batch \in SUBSET Entries, IsFiniteSet(batch), CompleteWork(batch)
    PROVE  RepoTypeOK'
  <1>. DEFINE found == {e \in batch : active[e.id] # NoLease}
  <1>. USE DEF RepoTypeOK
  <1>1. IsFiniteSet(found) /\ Cardinality(found) \in Nat
    BY FS_Subset, FS_CardinalityType
  <1>2. active' \in [Tasks -> Leases \cup {NoLease}]
    BY DEF CompleteWork
  <1>3. timeouts' \in SUBSET TimeKeys /\ IsFiniteSet(timeouts')
    BY FS_Subset DEF CompleteWork
  <1>4. failures' \in [Tasks -> AttemptsLeft \cup {0}]
    BY DEF CompleteWork
  <1>5. stats' = [stats EXCEPT !["active"] = @ - Cardinality(found),
                              !["completed"] = @ + Cardinality(found)]
    BY DEF CompleteWork
  <1>6. stats' \in [StatNames -> Int]
    <2>. HIDE DEF found
    <2>. QED
      BY <1>1, <1>5 DEF StatNames
  <1>. QED
    BY <1>2, <1>3, <1>4, <1>6 DEF CompleteWork

LEMMA RescheduleType ==
    ASSUME RepoTypeOK, NEW E \in SUBSET ExpiredKeys, IsFiniteSet(E),
           NEW D \in SUBSET TimeKeys, IsFiniteSet(D), Reschedule(E, D)
    PROVE  RepoTypeOK'
  <1>. USE DEF RepoTypeOK
  <1>1. /\ Cardinality(E) \in Nat
        /\ Cardinality(D) \in Nat
        /\ \A id : IsFiniteSet(TaskExpirations(E, id)) /\ Cardinality(TaskExpirations(E, id)) \in Nat
        /\ \A k : Cardinality({j \in E : j.at >= k.at}) \in Nat
        /\ \A k : Cardinality({j \in D : j.at >= k.at}) \in Nat
    BY FS_Subset, FS_CardinalityType DEF TaskExpirations
  <1>2. version' \in Nat
    BY DEF Reschedule
  <1>3. pending' \in SUBSET Entries
    <2>1. \A k : Position(E, k) \in Nat /\ Cardinality(E) + Position(D, k) \in Nat
      BY <1>1 DEF Position
    <2>2. RetryEntries(E) \subseteq Entries
      BY <2>1 DEF RetryEntries, Retried, Entries, ExpiredKeys
    <2>3. DueEntries(E, D) \subseteq Entries
      BY <2>1 DEF DueEntries, Entries, TimeKeys
    <2>. QED
      BY <2>2, <2>3 DEF Reschedule
  <1>4. IsFiniteSet(pending')
    <2>1. pending' = pending \cup (RetryEntries(E) \cup DueEntries(E, D))
      BY DEF Reschedule
    <2>2. IsFiniteSet(RetryEntries(E) \cup DueEntries(E, D))
      BY FiniteEntries
    <2>. QED
      BY <2>1, <2>2, FS_Union
  <1>5. delayed' \in SUBSET TimeKeys /\ IsFiniteSet(delayed')
    BY FS_Subset DEF Reschedule
  <1>6. active' \in [Tasks -> Leases \cup {NoLease}]
    BY DEF Reschedule
  <1>7. timeouts' \in SUBSET TimeKeys /\ IsFiniteSet(timeouts')
    BY FS_Subset DEF Reschedule
  <1>8. failures' \in [Tasks -> AttemptsLeft \cup {0}]
    BY <1>1, RemainingType DEF Reschedule
  <1>9. args' \in SUBSET Tasks
    BY DEF Reschedule
  <1>10. stats' \in [StatNames -> Int]
    BY <1>1 DEF Reschedule, StatNames
  <1>. QED
    BY <1>2, <1>3, <1>4, <1>5, <1>6, <1>7, <1>8, <1>9, <1>10

----------------------------------------------------------------------------
(* Type correctness *)

\* The part of TypeOK that is not about the key space, piece by piece.
JobOK ==
    /\ job \in [Servers -> [Slots -> [phase : Phases, batch : SUBSET Entries]]]
    /\ \A s \in Servers, k \in Slots : IsFiniteSet(job[s][k].batch)
ScanOK ==
    /\ scan \in [Schedulers -> [phase : {"idle", "read"},
                                expired : SUBSET ExpiredKeys, due : SUBSET TimeKeys]]
    /\ \A c \in Schedulers : IsFiniteSet(scan[c].expired) /\ IsFiniteSet(scan[c].due)
ClockOK ==
    /\ type \in {"transactional", "external"}
    /\ now \in Nat
    /\ life \in [Servers -> Nat]
HistoryOK ==
    /\ pushed \in SUBSET Tasks
    /\ effects \in [Tasks -> Nat]
    /\ expired \in [Tasks -> Nat]
    /\ dropped \in SUBSET Tasks
    /\ doubled \in BOOLEAN

LEMMA TypeParts == TypeOK <=> RepoTypeOK /\ ClockOK /\ JobOK /\ ScanOK /\ HistoryOK
  BY DEF TypeOK, ClockOK, JobOK, ScanOK, HistoryOK

LEMMA SetSlotType ==
    ASSUME JobOK, NEW s \in Servers, NEW k \in Slots, NEW ph \in Phases,
           NEW B \in SUBSET Entries, IsFiniteSet(B),
           SetSlot(s, k, [phase |-> ph, batch |-> B])
    PROVE  JobOK'
  BY DEF JobOK, SetSlot

LEMMA FreeSlotType ==
    ASSUME JobOK, NEW s \in Servers, NEW k \in Slots, SetSlot(s, k, FreeSlot)
    PROVE  JobOK'
  BY FS_EmptySet, SetSlotType DEF FreeSlot, Phases

LEMMA LiveType ==
    ASSUME JobOK, NEW s \in Servers, NEW k \in Slots
    PROVE  /\ job[s][k].batch \in SUBSET Entries /\ IsFiniteSet(job[s][k].batch)
           /\ Live(s, k) \in SUBSET job[s][k].batch
           /\ Live(s, k) \in SUBSET Entries /\ IsFiniteSet(Live(s, k))
  <1>1. job[s][k].batch \in SUBSET Entries /\ IsFiniteSet(job[s][k].batch)
    BY DEF JobOK
  <1>2. Live(s, k) \in SUBSET job[s][k].batch
    BY DEF Live
  <1>. QED
    BY <1>1, <1>2, FS_Subset

LEMMA CountType ==
    ASSUME HistoryOK, NEW B, IsFiniteSet(B), CountEffects(B)
    PROVE  effects' \in [Tasks -> Nat]
  <1>. DEFINE n(id) == Cardinality({p \in B : p.id = id})
  <1>1. \A id : n(id) \in Nat
    BY FS_Subset, FS_CardinalityType
  <1>2. effects' = [id \in Tasks |-> effects[id] + n(id)]
    BY DEF CountEffects
  <1>. HIDE DEF n
  <1>. QED
    BY <1>1, <1>2 DEF HistoryOK

LEMMA TypeStep == TypeOK /\ [Next]_vars => TypeOK'
  <1>. SUFFICES ASSUME RepoTypeOK, ClockOK, JobOK, ScanOK, HistoryOK, [Next]_vars
                PROVE  RepoTypeOK' /\ ClockOK' /\ JobOK' /\ ScanOK' /\ HistoryOK'
    BY TypeParts DEF TypeOK, ClockOK, JobOK, ScanOK, HistoryOK
  <1>0. \A s \in Servers : Seed(s) \in Seeds
    BY DEF Seed, Seeds, ClockOK
  <1>1. CASE Tick
    BY <1>1 DEF Tick, repoVars, histVars, RepoTypeOK, ClockOK, JobOK, ScanOK, HistoryOK
  <1>2. ASSUME NEW id \in Tasks, NEW startAt \in StartTimes, Push(id, startAt)
        PROVE  RepoTypeOK' /\ ClockOK' /\ JobOK' /\ ScanOK' /\ HistoryOK'
    <2>1. RepoTypeOK'
      BY <1>2, PushWorkType, TimesAssumption DEF Push
    <2>. QED
      BY <1>2, <2>1 DEF Push, procVars, ClockOK, JobOK, ScanOK, HistoryOK
  <1>3. ASSUME NEW s \in Servers, Acquire(s)
        PROVE  RepoTypeOK' /\ ClockOK' /\ JobOK' /\ ScanOK' /\ HistoryOK'
    <2>1. PICK P \in OldestPending(Least(Cardinality(FreeSlots(s)) * BatchSize, 20)) :
            /\ AcquireWork(P, Seed(s), now + FirstLease)
            /\ \E f \in Batches(s, P) : job' = [job EXCEPT ![s] = Started(s, P, f)]
      BY <1>3 DEF Acquire
    <2>2. P \in SUBSET pending /\ P \in SUBSET Entries /\ IsFiniteSet(P)
      BY FS_Subset DEF OldestPending, RepoTypeOK
    <2>3. RepoTypeOK'
      BY <1>0, <2>1, <2>2, AcquireWorkType, TimesAssumption DEF ClockOK
    <2>4. PICK f \in Batches(s, P) : job' = [job EXCEPT ![s] = Started(s, P, f)]
      BY <2>1
    <2>5. JobOK'
      <3>1. \A k : {p \in P : f[p] = k} \in SUBSET Entries /\ IsFiniteSet({p \in P : f[p] = k})
        BY <2>2, FS_Subset
      <3>2. /\ Started(s, P, f) \in [Slots -> [phase : Phases, batch : SUBSET Entries]]
            /\ \A k \in Slots : IsFiniteSet(Started(s, P, f)[k].batch)
        <4>1. ASSUME NEW k \in Slots
              PROVE  /\ Started(s, P, f)[k] \in [phase : Phases, batch : SUBSET Entries]
                     /\ IsFiniteSet(Started(s, P, f)[k].batch)
          <5>1. job[s][k] \in [phase : Phases, batch : SUBSET Entries] /\ IsFiniteSet(job[s][k].batch)
            BY DEF JobOK
          <5> DEFINE new == [phase |-> "acquired", batch |-> {p \in P : f[p] = k}]
          <5>2. new \in [phase : Phases, batch : SUBSET Entries] /\ IsFiniteSet(new.batch)
            BY <3>1 DEF Phases
          <5>3. Started(s, P, f)[k] \in {job[s][k], new}
            BY DEF Started
          <5> HIDE DEF new
          <5>. QED
            BY <5>1, <5>2, <5>3
        <4>2. Started(s, P, f) = [k \in Slots |-> Started(s, P, f)[k]]
          BY DEF Started
        <4>. QED
          BY <4>1, <4>2
      <3>3. job' \in [Servers -> [Slots -> [phase : Phases, batch : SUBSET Entries]]]
        BY <2>4, <3>2 DEF JobOK
      <3>4. ASSUME NEW r \in Servers, NEW k \in Slots PROVE IsFiniteSet(job'[r][k].batch)
        <4>1. job'[r][k] \in {job[r][k], Started(s, P, f)[k]}
          BY <2>4 DEF JobOK
        <4>. QED
          BY <3>2, <4>1 DEF JobOK
      <3>. QED
        BY <3>3, <3>4 DEF JobOK
    <2>. QED
      BY <1>3, <2>3, <2>5 DEF Acquire, NoHist, histVars, ClockOK, ScanOK, HistoryOK
  <1>4. ASSUME NEW s \in Servers, Restart(s)
        PROVE  RepoTypeOK' /\ ClockOK' /\ JobOK' /\ ScanOK' /\ HistoryOK'
    <2>1. job' = [job EXCEPT ![s] = [k \in Slots |-> FreeSlot]]
      BY <1>4 DEF Restart
    <2>2. FreeSlot \in [phase : Phases, batch : SUBSET Entries] /\ IsFiniteSet(FreeSlot.batch)
      BY FS_EmptySet DEF FreeSlot, Phases
    <2>3. JobOK'
      <3>1. [k \in Slots |-> FreeSlot] \in [Slots -> [phase : Phases, batch : SUBSET Entries]]
        BY <2>2
      <3>2. job' \in [Servers -> [Slots -> [phase : Phases, batch : SUBSET Entries]]]
        BY <2>1, <3>1 DEF JobOK
      <3>3. ASSUME NEW r \in Servers, NEW k \in Slots PROVE IsFiniteSet(job'[r][k].batch)
        <4>1. job'[r][k] \in {job[r][k], FreeSlot}
          BY <2>1 DEF JobOK
        <4>. QED
          BY <2>2, <4>1 DEF JobOK
      <3>. QED
        BY <3>2, <3>3 DEF JobOK
    <2>. QED
      BY <1>4, <2>3
      DEF Restart, NoHist, histVars, repoVars, RepoTypeOK, ClockOK, ScanOK, HistoryOK
  <1>5. ASSUME NEW s \in Servers, NEW k \in Slots,
               DoWork(s, k) \/ Refresh(s, k) \/ DoWorkThrows(s, k)
        PROVE  RepoTypeOK' /\ ClockOK' /\ JobOK' /\ ScanOK' /\ HistoryOK'
    <2>1. CASE DoWorkTransactional(s, k)
      <3>1. RepoTypeOK'
        BY <2>1, LiveType, CompleteWorkType DEF DoWorkTransactional
      <3>2. JobOK'
        BY <2>1, FreeSlotType DEF DoWorkTransactional
      <3>3. effects' \in [Tasks -> Nat]
        BY <2>1, LiveType, CountType DEF DoWorkTransactional
      <3>. QED
        BY <2>1, <3>1, <3>2, <3>3 DEF DoWorkTransactional, ClockOK, ScanOK, HistoryOK
    <2>2. CASE StartExternal(s, k)
      <3>1. JobOK'
        <4>1. CASE Live(s, k) = {}
          BY <2>2, <4>1, FreeSlotType DEF StartExternal
        <4>2. CASE Live(s, k) # {}
          BY <2>2, <4>2, LiveType, SetSlotType DEF StartExternal, Phases
        <4>. QED
          BY <4>1, <4>2
      <3>. QED
        BY <2>2, <3>1
        DEF StartExternal, NoHist, histVars, repoVars, RepoTypeOK, ClockOK, ScanOK, HistoryOK
    <2>3. CASE Refresh(s, k)
      <3>1. RepoTypeOK'
        BY <1>0, <2>3, LiveType, RefreshLockType, TimesAssumption DEF Refresh, ClockOK
      <3>. QED
        BY <2>3, <3>1 DEF Refresh, NoHist, histVars, procVars, ClockOK, JobOK, ScanOK, HistoryOK
    <2>4. CASE Handle(s, k)
      <3>1. JobOK'
        <4>1. SetSlot(s, k, [phase |-> "handled", batch |-> job[s][k].batch])
          <5>1. job[s][k] \in [phase : Phases, batch : SUBSET Entries]
            BY DEF JobOK
          <5>2. [job[s][k] EXCEPT !.phase = "handled"]
                   = [phase |-> "handled", batch |-> job[s][k].batch]
            BY <5>1
          <5>. QED
            BY <2>4, <5>2 DEF Handle
        <4>. QED
          BY <4>1, LiveType, SetSlotType DEF Phases
      <3>2. effects' \in [Tasks -> Nat]
        BY <2>4, LiveType, CountType DEF Handle
      <3>. QED
        BY <2>4, <3>1, <3>2 DEF Handle, repoVars, RepoTypeOK, ClockOK, ScanOK, HistoryOK
    <2>5. CASE CommitExternal(s, k)
      <3>1. RepoTypeOK'
        BY <2>5, LiveType, CompleteWorkType DEF CommitExternal
      <3>2. JobOK'
        BY <2>5, FreeSlotType DEF CommitExternal
      <3>. QED
        BY <2>5, <3>1, <3>2 DEF CommitExternal, NoHist, histVars, ClockOK, ScanOK, HistoryOK
    <2>6. CASE DoWorkThrows(s, k)
      <3>1. JobOK'
        BY <2>6, FreeSlotType DEF DoWorkThrows
      <3>. QED
        BY <2>6, <3>1
        DEF DoWorkThrows, NoHist, histVars, repoVars, RepoTypeOK, ClockOK, ScanOK, HistoryOK
    <2>. QED
      BY <1>5, <2>1, <2>2, <2>3, <2>4, <2>5, <2>6 DEF DoWork
  <1>6. ASSUME NEW c \in Schedulers, Scheduler(c)
        PROVE  RepoTypeOK' /\ ClockOK' /\ JobOK' /\ ScanOK' /\ HistoryOK'
    <2>1. CASE RescheduleRead(c)
      <3>1. PICK E \in LatestBefore(timeouts, now), D \in LatestBefore(delayed, now) :
              scan' = [scan EXCEPT ![c] =
                         [phase |-> "read", expired |-> WithAttempts(E), due |-> D]]
        BY <2>1 DEF RescheduleRead
      <3>2. /\ E \in SUBSET TimeKeys /\ IsFiniteSet(E)
            /\ D \in SUBSET TimeKeys /\ IsFiniteSet(D)
        BY FS_Subset DEF LatestBefore, RepoTypeOK
      <3>3. WithAttempts(E) \in SUBSET ExpiredKeys
        BY <3>2 DEF WithAttempts, ExpiredKeys, TimeKeys, RepoTypeOK, AttemptsLeft, Infinite
      <3>4. IsFiniteSet(WithAttempts(E))
        BY <3>2, FiniteScan
      <3>5. ScanOK'
        BY <3>1, <3>2, <3>3, <3>4 DEF ScanOK
      <3>. QED
        BY <2>1, <3>5
        DEF RescheduleRead, NoHist, histVars, repoVars, RepoTypeOK, ClockOK, JobOK, HistoryOK
    <2>2. CASE RescheduleCommit(c)
      <3>. DEFINE E == scan[c].expired
                  D == scan[c].due
      <3>1. /\ E \in SUBSET ExpiredKeys /\ IsFiniteSet(E)
            /\ D \in SUBSET TimeKeys /\ IsFiniteSet(D)
        BY DEF ScanOK
      <3>2. /\ Reschedule(E, D)
            /\ scan' = [scan EXCEPT ![c] = NoScan]
            /\ expired' = [id \in Tasks |-> expired[id] + Cardinality(TaskExpirations(E, id))]
            /\ dropped' = dropped \cup (Cancelled(E) \cap args)
            /\ doubled' = (doubled \/ ~(D \subseteq delayed))
            /\ UNCHANGED <<type, now, life, job, pushed, effects>>
        BY <2>2 DEF RescheduleCommit
      <3>. HIDE DEF E, D
      <3>3. RepoTypeOK'
        BY <3>1, <3>2, RescheduleType
      <3>4. ScanOK'
        BY <3>2, FS_EmptySet DEF ScanOK, NoScan
      <3>5. \A id : Cardinality(TaskExpirations(E, id)) \in Nat
        BY <3>1, FS_Subset, FS_CardinalityType DEF TaskExpirations
      <3>6. HistoryOK'
        BY <3>2, <3>5 DEF HistoryOK, RepoTypeOK
      <3>. QED
        BY <3>2, <3>3, <3>4, <3>6 DEF ClockOK, JobOK
    <2>3. CASE RescheduleRetry(c)
      <3>1. ScanOK'
        BY <2>3, FS_EmptySet DEF RescheduleRetry, ScanOK, NoScan
      <3>. QED
        BY <2>3, <3>1
        DEF RescheduleRetry, NoHist, histVars, repoVars, RepoTypeOK, ClockOK, JobOK, HistoryOK
    <2>. QED
      BY <1>6, <2>1, <2>2, <2>3 DEF Scheduler
  <1>7. CASE UNCHANGED vars
    BY <1>7 DEF vars, repoVars, procVars, histVars, RepoTypeOK, ClockOK, JobOK, ScanOK, HistoryOK
  <1>. QED
    BY <1>1, <1>2, <1>3, <1>4, <1>5, <1>6, <1>7 DEF Next

LEMMA TypeInit == Init => TypeOK
  <1>. SUFFICES ASSUME Init PROVE TypeOK
    OBVIOUS
  <1>1. RepoTypeOK
    BY FS_EmptySet DEF Init, RepoInit, RepoTypeOK, StatNames
  <1>2. FreeSlot \in [phase : Phases, batch : SUBSET Entries] /\ IsFiniteSet(FreeSlot.batch)
    BY FS_EmptySet DEF FreeSlot, Phases
  <1>3. JobOK
    BY <1>2 DEF Init, JobOK
  <1>4. ScanOK
    BY FS_EmptySet DEF Init, ScanOK, NoScan
  <1>5. ClockOK /\ HistoryOK
    BY DEF Init, ClockOK, HistoryOK
  <1>. QED
    BY <1>1, <1>3, <1>4, <1>5, TypeParts

\* Type correctness.
THEOREM TypeCorrect == Spec => []TypeOK
  BY TypeInit, TypeStep, PTL DEF Spec

----------------------------------------------------------------------------
(* No task is lost: the index invariant, method by method *)

IndexInv == ActiveHasTimeout /\ NothingLost

LEMMA PushWorkIndex ==
    ASSUME RepoTypeOK, IndexInv, NEW id \in Tasks, NEW startAt \in Nat, PushWork(id, startAt)
    PROVE  IndexInv'
  <1>. USE DEF IndexInv, PushWork
  <1>1. ActiveHasTimeout'
    BY DEF ActiveHasTimeout
  <1>2. InPending(id)' \/ InDelayed(id)'
    <2>1. CASE startAt = 0
      <3>1. [version |-> version', ex |-> 1, id |-> id] \in pending'
        BY <2>1
      <3>. QED
        BY <3>1 DEF InPending
    <2>2. CASE startAt # 0
      <3>1. [at |-> startAt, id |-> id] \in delayed'
        BY <2>2
      <3>. QED
        BY <3>1 DEF InDelayed
    <2>. QED
      BY <2>1, <2>2
  <1>3. ASSUME NEW i \in args PROVE InPending(i)' \/ InDelayed(i)' \/ active'[i] # NoLease
    <2>1. pending \subseteq pending' /\ delayed \subseteq delayed'
      OBVIOUS
    <2>. QED
      BY <2>1 DEF NothingLost, InPending, InDelayed
  <1>4. NothingLost'
    BY <1>2, <1>3 DEF NothingLost
  <1>. QED
    BY <1>1, <1>4

LEMMA AcquireWorkIndex ==
    ASSUME RepoTypeOK, IndexInv, NEW P \in SUBSET pending, NEW lock \in Seeds,
           NEW timeout \in Nat, AcquireWork(P, lock, timeout)
    PROVE  IndexInv'
  <1>. USE DEF IndexInv
  <1>1. [lock |-> lock, timeout |-> timeout] # NoLease
    BY NoLeaseAssumption DEF Leases
  <1>2. ASSUME NEW id \in Tasks, active'[id] # NoLease
        PROVE  [at |-> active'[id].timeout, id |-> id] \in timeouts'
    <2>1. CASE id \in Ids(P)
      BY <2>1 DEF AcquireWork
    <2>2. CASE id \notin Ids(P)
      BY <1>2, <2>2 DEF AcquireWork, ActiveHasTimeout
    <2>. QED
      BY <2>1, <2>2
  <1>3. ASSUME NEW id \in args'
        PROVE  InPending(id)' \/ InDelayed(id)' \/ active'[id] # NoLease
    <2>1. id \in args /\ id \in Tasks
      BY DEF AcquireWork, RepoTypeOK
    <2>2. CASE id \in Ids(P)
      BY <1>1, <2>1, <2>2 DEF AcquireWork
    <2>3. CASE id \notin Ids(P)
      <3>1. InPending(id) => InPending(id)'
        BY <2>3 DEF AcquireWork, InPending, Ids
      <3>2. InDelayed(id) => InDelayed(id)'
        BY DEF AcquireWork, InDelayed
      <3>3. active'[id] = active[id]
        BY <2>1, <2>3 DEF AcquireWork
      <3>. QED
        BY <2>1, <3>1, <3>2, <3>3 DEF NothingLost
    <2>. QED
      BY <2>2, <2>3
  <1>. QED
    BY <1>2, <1>3 DEF ActiveHasTimeout, NothingLost

LEMMA RefreshLockIndex ==
    ASSUME RepoTypeOK, IndexInv, NEW batch \in SUBSET Entries, NEW lock \in Seeds,
           NEW newTimeout \in Nat, RefreshLock(batch, lock, newTimeout)
    PROVE  IndexInv'
  <1>. DEFINE moved == {id \in Ids(batch) : Holds(id, lock) /\ newTimeout >= active[id].timeout}
              old == {[at |-> active[id].timeout, id |-> id] : id \in moved}
              new == {[at |-> newTimeout, id |-> id] : id \in moved}
  <1>1. /\ active' = [id \in Tasks |-> IF id \in moved
                                       THEN [lock |-> lock, timeout |-> newTimeout]
                                       ELSE active[id]]
        /\ timeouts' = (timeouts \ old) \cup new
        /\ UNCHANGED <<pending, delayed, args>>
    BY DEF RefreshLock
  <1>2. \A k \in old : k.id \in moved
    OBVIOUS
  <1>3. \A id \in moved : [at |-> newTimeout, id |-> id] \in new
    OBVIOUS
  <1>4. [lock |-> lock, timeout |-> newTimeout] # NoLease
    BY NoLeaseAssumption DEF Leases
  <1>. HIDE DEF moved, old, new
  <1>5. ASSUME NEW id \in Tasks, active'[id] # NoLease
        PROVE  [at |-> active'[id].timeout, id |-> id] \in timeouts'
    <2>1. CASE id \in moved
      BY <1>1, <1>3, <2>1
    <2>2. CASE id \notin moved
      <3>1. active'[id] = active[id]
        BY <1>1, <2>2
      <3>2. [at |-> active[id].timeout, id |-> id] \in timeouts
        BY <1>5, <3>1 DEF IndexInv, ActiveHasTimeout
      <3>3. [at |-> active[id].timeout, id |-> id] \notin old
        BY <1>2, <2>2
      <3>. QED
        BY <1>1, <3>1, <3>2, <3>3
    <2>. QED
      BY <2>1, <2>2
  <1>6. ASSUME NEW id \in args'
        PROVE  InPending(id)' \/ InDelayed(id)' \/ active'[id] # NoLease
    <2>1. id \in args /\ id \in Tasks
      BY <1>1 DEF RepoTypeOK
    <2>2. active[id] # NoLease => active'[id] # NoLease
      BY <1>1, <1>4, <2>1
    <2>. QED
      BY <1>1, <2>1, <2>2 DEF IndexInv, NothingLost, InPending, InDelayed
  <1>. QED
    BY <1>5, <1>6 DEF IndexInv, ActiveHasTimeout, NothingLost

LEMMA CompleteWorkIndex ==
    ASSUME RepoTypeOK, IndexInv, NEW batch \in SUBSET Entries, CompleteWork(batch)
    PROVE  IndexInv'
  <1>. DEFINE gone == Ids({e \in batch : active[e.id] # NoLease})
              old == {[at |-> active[id].timeout, id |-> id] : id \in gone}
  <1>1. /\ active' = [id \in Tasks |-> IF id \in gone THEN NoLease ELSE active[id]]
        /\ args' = args \ gone
        /\ timeouts' = timeouts \ old
        /\ UNCHANGED <<pending, delayed>>
    BY DEF CompleteWork
  <1>2. \A k \in old : k.id \in gone
    OBVIOUS
  <1>. HIDE DEF gone, old
  <1>3. ASSUME NEW id \in Tasks, active'[id] # NoLease
        PROVE  [at |-> active'[id].timeout, id |-> id] \in timeouts'
    <2>1. id \notin gone /\ active'[id] = active[id]
      BY <1>1, <1>3
    <2>2. [at |-> active[id].timeout, id |-> id] \in timeouts
      BY <1>3, <2>1 DEF IndexInv, ActiveHasTimeout
    <2>3. [at |-> active[id].timeout, id |-> id] \notin old
      BY <1>2, <2>1
    <2>. QED
      BY <1>1, <2>1, <2>2, <2>3
  <1>4. ASSUME NEW id \in args'
        PROVE  InPending(id)' \/ InDelayed(id)' \/ active'[id] # NoLease
    <2>1. id \in args /\ id \in Tasks /\ id \notin gone
      BY <1>1 DEF RepoTypeOK
    <2>. QED
      BY <1>1, <2>1 DEF IndexInv, NothingLost, InPending, InDelayed
  <1>. QED
    BY <1>3, <1>4 DEF IndexInv, ActiveHasTimeout, NothingLost

LEMMA RescheduleIndex ==
    ASSUME RepoTypeOK, IndexInv, NEW E \in SUBSET ExpiredKeys, IsFiniteSet(E),
           NEW D \in SUBSET TimeKeys, Reschedule(E, D)
    PROVE  IndexInv'
  <1>. DEFINE old == {[at |-> k.at, id |-> k.id] : k \in E}
  <1>1. /\ active' = [id \in Tasks |-> IF id \in Ids(E) THEN NoLease ELSE active[id]]
        /\ timeouts' = timeouts \ old
        /\ args' = args \ Cancelled(E)
        /\ pending' = pending \cup RetryEntries(E) \cup DueEntries(E, D)
        /\ delayed' = delayed \ D
    BY DEF Reschedule
  <1>2. \A k \in old : k.id \in Ids(E)
    BY DEF Ids
  <1>. HIDE DEF old
  <1>3. ASSUME NEW id \in Tasks, active'[id] # NoLease
        PROVE  [at |-> active'[id].timeout, id |-> id] \in timeouts'
    <2>1. id \notin Ids(E) /\ active'[id] = active[id]
      BY <1>1, <1>3
    <2>2. [at |-> active[id].timeout, id |-> id] \in timeouts
      BY <1>3, <2>1 DEF IndexInv, ActiveHasTimeout
    <2>3. [at |-> active[id].timeout, id |-> id] \notin old
      BY <1>2, <2>1
    <2>. QED
      BY <1>1, <2>1, <2>2, <2>3
  <1>4. ASSUME NEW id \in args'
        PROVE  InPending(id)' \/ InDelayed(id)' \/ active'[id] # NoLease
    <2>1. id \in args /\ id \in Tasks /\ id \notin Cancelled(E)
      BY <1>1 DEF RepoTypeOK
    <2>2. CASE id \in Ids(E)
      <3>1. \E p \in RetryEntries(E) : p.id = id
        BY <2>1, <2>2, RetriedOrCancelled DEF RepoTypeOK
      <3>. QED
        BY <1>1, <3>1 DEF InPending
    <2>3. CASE id \notin Ids(E)
      <3>1. InPending(id) => InPending(id)'
        BY <1>1 DEF InPending
      <3>2. ASSUME InDelayed(id) PROVE InPending(id)' \/ InDelayed(id)'
        <4>1. PICK d \in delayed : d.id = id
          BY <3>2 DEF InDelayed
        <4>2. CASE d \in D
          <5>1. [version |-> version + 1, ex |-> Cardinality(E) + Position(D, d), id |-> d.id]
                   \in DueEntries(E, D)
            BY <4>2 DEF DueEntries
          <5>. QED
            BY <1>1, <4>1, <5>1 DEF InPending
        <4>3. CASE d \notin D
          BY <1>1, <4>1, <4>3 DEF InDelayed
        <4>. QED
          BY <4>2, <4>3
      <3>3. active'[id] = active[id]
        BY <1>1, <2>1, <2>3
      <3>. QED
        BY <2>1, <3>1, <3>2, <3>3 DEF IndexInv, NothingLost
    <2>. QED
      BY <2>2, <2>3
  <1>. QED
    BY <1>3, <1>4 DEF IndexInv, ActiveHasTimeout, NothingLost

\* A step that leaves the key space alone.
LEMMA IndexUnchanged ==
    ASSUME IndexInv, UNCHANGED repoVars
    PROVE  IndexInv'
  BY DEF IndexInv, ActiveHasTimeout, NothingLost, InPending, InDelayed, repoVars

LEMMA IndexStep == TypeOK /\ IndexInv /\ [Next]_vars => IndexInv'
  <1>. SUFFICES ASSUME RepoTypeOK, ClockOK, JobOK, ScanOK, IndexInv, [Next]_vars
                PROVE  IndexInv'
    BY TypeParts
  <1>0. \A s \in Servers : Seed(s) \in Seeds
    BY DEF Seed, Seeds, ClockOK
  <1>1. CASE Tick
    BY <1>1, IndexUnchanged DEF Tick, repoVars
  <1>2. ASSUME NEW id \in Tasks, NEW startAt \in StartTimes, Push(id, startAt)
        PROVE  IndexInv'
    BY <1>2, PushWorkIndex, TimesAssumption DEF Push
  <1>3. ASSUME NEW s \in Servers, Acquire(s) PROVE IndexInv'
    <2>1. PICK P \in SUBSET pending : AcquireWork(P, Seed(s), now + FirstLease)
      BY <1>3 DEF Acquire, OldestPending
    <2>. QED
      BY <1>0, <2>1, AcquireWorkIndex, TimesAssumption DEF ClockOK
  <1>4. ASSUME NEW s \in Servers, Restart(s) PROVE IndexInv'
    BY <1>4, IndexUnchanged DEF Restart, repoVars
  <1>5. ASSUME NEW s \in Servers, NEW k \in Slots,
               DoWork(s, k) \/ Refresh(s, k) \/ DoWorkThrows(s, k)
        PROVE  IndexInv'
    <2>1. CASE DoWorkTransactional(s, k)
      BY <2>1, LiveType, CompleteWorkIndex DEF DoWorkTransactional
    <2>2. CASE StartExternal(s, k)
      BY <2>2, IndexUnchanged DEF StartExternal, repoVars
    <2>3. CASE Refresh(s, k)
      BY <1>0, <2>3, LiveType, RefreshLockIndex, TimesAssumption DEF Refresh, ClockOK
    <2>4. CASE Handle(s, k)
      BY <2>4, IndexUnchanged DEF Handle, repoVars
    <2>5. CASE CommitExternal(s, k)
      BY <2>5, LiveType, CompleteWorkIndex DEF CommitExternal
    <2>6. CASE DoWorkThrows(s, k)
      BY <2>6, IndexUnchanged DEF DoWorkThrows, repoVars
    <2>. QED
      BY <1>5, <2>1, <2>2, <2>3, <2>4, <2>5, <2>6 DEF DoWork
  <1>6. ASSUME NEW c \in Schedulers, Scheduler(c) PROVE IndexInv'
    <2>1. CASE RescheduleRead(c)
      BY <2>1, IndexUnchanged DEF RescheduleRead, repoVars
    <2>2. CASE RescheduleCommit(c)
      BY <2>2, RescheduleIndex DEF RescheduleCommit, ScanOK
    <2>3. CASE RescheduleRetry(c)
      BY <2>3, IndexUnchanged DEF RescheduleRetry, repoVars
    <2>. QED
      BY <1>6, <2>1, <2>2, <2>3 DEF Scheduler
  <1>7. CASE UNCHANGED vars
    BY <1>7, IndexUnchanged DEF vars, repoVars
  <1>. QED
    BY <1>1, <1>2, <1>3, <1>4, <1>5, <1>6, <1>7 DEF Next

LEMMA IndexInit == Init => IndexInv
  BY DEF Init, RepoInit, IndexInv, ActiveHasTimeout, NothingLost

\* No task is lost, whatever processes die and whatever schedulers race.
THEOREM NoTaskLost == Spec => [](ActiveHasTimeout /\ NothingLost)
  <1>1. Init => TypeOK /\ IndexInv
    BY TypeInit, IndexInit
  <1>2. TypeOK /\ IndexInv /\ [Next]_vars => (TypeOK /\ IndexInv)'
    BY TypeStep, IndexStep
  <1>3. IndexInv => ActiveHasTimeout /\ NothingLost
    BY DEF IndexInv
  <1>. QED
    BY <1>1, <1>2, <1>3, PTL DEF Spec

----------------------------------------------------------------------------
(* Counting the items of a batch, and the slots after a step *)

\* No two keys of the set are of one task.
Distinct(K) == \A j, k \in K : j.id = k.id => j = k

LEMMA NoneCounted ==
    ASSUME NEW B, NEW id, id \notin Ids(B)
    PROVE  Cardinality({p \in B : p.id = id}) = 0
  <1>1. {p \in B : p.id = id} = {}
    BY DEF Ids
  <1>. QED
    BY <1>1, FS_EmptySet

LEMMA SomeCounted ==
    ASSUME NEW B, IsFiniteSet(B), NEW id, id \in Ids(B)
    PROVE  Cardinality({p \in B : p.id = id}) \in Nat \ {0}
  <1>. DEFINE S == {p \in B : p.id = id}
  <1>1. S # {}
    BY DEF Ids
  <1>2. IsFiniteSet(S)
    BY FS_Subset
  <1>. HIDE DEF S
  <1>3. Cardinality(S) \in Nat \ {0}
    BY <1>1, <1>2, FS_EmptySet, FS_CardinalityType
  <1>. QED
    BY <1>3 DEF S

LEMMA OneCounted ==
    ASSUME NEW B, NEW id, Distinct(B)
    PROVE  Cardinality({p \in B : p.id = id}) \in {0, 1}
  <1>. DEFINE S == {p \in B : p.id = id}
  <1>1. CASE S = {}
    BY <1>1, FS_EmptySet
  <1>2. CASE S # {}
    <2>1. PICK p \in S : TRUE
      BY <1>2
    <2>2. S = {p}
      BY <2>1 DEF Distinct
    <2>3. Cardinality({p}) = 1
      BY FS_Singleton
    <2>. HIDE DEF S
    <2>4. Cardinality(S) = 1
      BY <2>2, <2>3
    <2>. QED
      BY <2>4 DEF S
  <1>. QED
    BY <1>1, <1>2

LEMMA AtMostOneElement ==
    ASSUME NEW S, IsFiniteSet(S), Cardinality(S) <= 1
    PROVE  \A p, q \in S : p = q
  <1>1. Cardinality(S) = 0 \/ Cardinality(S) = 1
    BY FS_CardinalityType
  <1>2. CASE Cardinality(S) = 0
    BY <1>2, FS_EmptySet
  <1>3. CASE Cardinality(S) = 1
    BY <1>3, FS_Singleton
  <1>. QED
    BY <1>1, <1>2, <1>3

LEMMA OtherSlots ==
    ASSUME JobOK, NEW s \in Servers, NEW k \in Slots, NEW slot, SetSlot(s, k, slot),
           NEW r \in Servers, NEW j \in Slots
    PROVE  job'[r][j] = IF r = s /\ j = k THEN slot ELSE job[r][j]
  BY DEF JobOK, SetSlot

\* Every slot after a step of a process comes from the same slot before it, or
\* is free, or starts a batch of pending tasks, or resolves, or handles.
LEMMA SlotChange ==
    ASSUME JobOK, [Next]_vars, NEW r \in Servers, NEW j \in Slots
    PROVE  \/ job'[r][j] = job[r][j]
           \/ job'[r][j] = FreeSlot
           \/ \E P \in SUBSET pending : \E f \in Batches(r, P) :
                 job'[r][j] = [phase |-> "acquired", batch |-> {p \in P : f[p] = j}]
           \/ type = "external" /\ job'[r][j] = [phase |-> "running", batch |-> Live(r, j)]
           \/ Handle(r, j) /\ job'[r][j] = [phase |-> "handled", batch |-> job[r][j].batch]
  <1>. DEFINE Goal ==
           \/ job'[r][j] = job[r][j]
           \/ job'[r][j] = FreeSlot
           \/ \E P \in SUBSET pending : \E f \in Batches(r, P) :
                 job'[r][j] = [phase |-> "acquired", batch |-> {p \in P : f[p] = j}]
           \/ type = "external" /\ job'[r][j] = [phase |-> "running", batch |-> Live(r, j)]
           \/ Handle(r, j) /\ job'[r][j] = [phase |-> "handled", batch |-> job[r][j].batch]
  <1>1. ASSUME NEW s \in Servers, Acquire(s) PROVE Goal
    <2>1. PICK P \in SUBSET pending : \E f \in Batches(s, P) :
                job' = [job EXCEPT ![s] = Started(s, P, f)]
      BY <1>1 DEF Acquire, OldestPending
    <2>2. PICK f \in Batches(s, P) : job' = [job EXCEPT ![s] = Started(s, P, f)]
      BY <2>1
    <2>3. CASE r = s
      <3>1. job'[r][j] = Started(s, P, f)[j]
        BY <2>2, <2>3 DEF JobOK
      <3>. QED
        BY <2>3, <3>1 DEF Started
    <2>4. CASE r # s
      BY <2>2, <2>4 DEF JobOK
    <2>. QED
      BY <2>3, <2>4
  <1>2. ASSUME NEW s \in Servers, Restart(s) PROVE Goal
    <2>1. job' = [job EXCEPT ![s] = [k \in Slots |-> FreeSlot]]
      BY <1>2 DEF Restart
    <2>2. job'[r] = IF r = s THEN [k \in Slots |-> FreeSlot] ELSE job[r]
      BY <2>1 DEF JobOK
    <2>. QED
      BY <2>2
  <1>3. ASSUME NEW s \in Servers, NEW k \in Slots,
               DoWork(s, k) \/ Refresh(s, k) \/ DoWorkThrows(s, k)
        PROVE  Goal
    <2>1. CASE \/ DoWorkTransactional(s, k) \/ CommitExternal(s, k) \/ DoWorkThrows(s, k)
      <3>1. SetSlot(s, k, FreeSlot)
        BY <2>1 DEF DoWorkTransactional, CommitExternal, DoWorkThrows
      <3>. QED
        BY <3>1, OtherSlots
    <2>2. CASE StartExternal(s, k)
      <3>1. \/ SetSlot(s, k, FreeSlot)
            \/ type = "external" /\ SetSlot(s, k, [phase |-> "running", batch |-> Live(s, k)])
        BY <2>2 DEF StartExternal
      <3>. QED
        BY <3>1, OtherSlots
    <2>3. CASE Handle(s, k)
      <3>1. job[s][k] \in [phase : Phases, batch : SUBSET Entries]
        BY DEF JobOK
      <3>2. [job[s][k] EXCEPT !.phase = "handled"]
               = [phase |-> "handled", batch |-> job[s][k].batch]
        BY <3>1
      <3>3. SetSlot(s, k, [phase |-> "handled", batch |-> job[s][k].batch])
        BY <2>3, <3>2 DEF Handle
      <3>. QED
        BY <2>3, <3>3, OtherSlots
    <2>4. CASE Refresh(s, k)
      BY <2>4 DEF Refresh, procVars
    <2>. QED
      BY <1>3, <2>1, <2>2, <2>3, <2>4 DEF DoWork
  <1>4. CASE \/ Tick
             \/ \E id \in Tasks, startAt \in StartTimes : Push(id, startAt)
             \/ \E c \in Schedulers : Scheduler(c)
             \/ UNCHANGED vars
    BY <1>4
    DEF Tick, Push, Scheduler, RescheduleRead, RescheduleCommit, RescheduleRetry, vars, procVars
  <1>. QED
    BY <1>1, <1>2, <1>3, <1>4 DEF Next

----------------------------------------------------------------------------
(* What the history says: handled before it is gone, at most once          *)

\* The items of an external run that waits to commit have been handled.
HandledInv ==
    \A s \in Servers, k \in Slots :
        job[s][k].phase = "handled" => \A p \in job[s][k].batch : effects[p.id] > 0

LEMMA EffectsGrow ==
    ASSUME JobOK, HistoryOK, [Next]_vars, NEW id \in Tasks
    PROVE  effects[id] \in Nat /\ effects'[id] \in Nat /\ effects'[id] >= effects[id]
  <1>. DEFINE Goal == effects[id] \in Nat /\ effects'[id] \in Nat /\ effects'[id] >= effects[id]
  <1>0. effects[id] \in Nat
    BY DEF HistoryOK
  <1>1. ASSUME NEW B, IsFiniteSet(B), CountEffects(B) PROVE Goal
    <2>1. Cardinality({p \in B : p.id = id}) \in Nat
      BY <1>1, FS_Subset, FS_CardinalityType
    <2>2. effects'[id] = effects[id] + Cardinality({p \in B : p.id = id})
      BY <1>1 DEF CountEffects
    <2>. QED
      BY <1>0, <2>1, <2>2
  <1>2. ASSUME NEW s \in Servers, NEW k \in Slots,
               DoWorkTransactional(s, k) \/ Handle(s, k)
        PROVE  Goal
    <2>1. CountEffects(Live(s, k)) \/ CountEffects(job[s][k].batch)
      BY <1>2 DEF DoWorkTransactional, Handle
    <2>. HIDE DEF Goal
    <2>. QED
      BY <1>1, <2>1, LiveType
  <1>3. ASSUME NEW s \in Servers, NEW k \in Slots,
               StartExternal(s, k) \/ CommitExternal(s, k) \/ Refresh(s, k) \/ DoWorkThrows(s, k)
        PROVE  Goal
    <2>1. effects' = effects
      BY <1>3 DEF StartExternal, CommitExternal, Refresh, DoWorkThrows, NoHist, histVars
    <2>. QED
      BY <1>0, <2>1
  <1>4. ASSUME NEW s \in Servers, Acquire(s) \/ Restart(s) PROVE Goal
    BY <1>0, <1>4 DEF Acquire, Restart, NoHist, histVars
  <1>5. ASSUME NEW c \in Schedulers, Scheduler(c) PROVE Goal
    <2>1. effects' = effects
      BY <1>5
      DEF Scheduler, RescheduleRead, RescheduleCommit, RescheduleRetry, NoHist, histVars
    <2>. QED
      BY <1>0, <2>1
  <1>6. CASE \/ Tick
             \/ \E i \in Tasks, startAt \in StartTimes : Push(i, startAt)
             \/ UNCHANGED vars
    BY <1>0, <1>6 DEF Tick, Push, vars, histVars
  <1>7. ASSUME NEW s \in Servers, NEW k \in Slots,
               DoWork(s, k) \/ Refresh(s, k) \/ DoWorkThrows(s, k)
        PROVE  Goal
    BY <1>2, <1>3, <1>7 DEF DoWork
  <1>8. Goal
    BY <1>4, <1>5, <1>6, <1>7 DEF Next
  <1>. QED
    BY <1>8

LEMMA HandledStep == TypeOK /\ HandledInv /\ [Next]_vars => HandledInv'
  <1>. SUFFICES ASSUME JobOK, HistoryOK, HandledInv, [Next]_vars,
                       NEW s \in Servers, NEW k \in Slots, job'[s][k].phase = "handled",
                       NEW p \in job'[s][k].batch
                PROVE  effects'[p.id] > 0
    BY TypeParts DEF HandledInv
  <1>1. CASE job'[s][k] = job[s][k]
    <2>1. p \in job[s][k].batch /\ effects[p.id] > 0
      BY <1>1 DEF HandledInv
    <2>2. p.id \in Tasks
      BY <2>1, LiveType DEF Entries
    <2>. QED
      BY <2>1, <2>2, EffectsGrow
  <1>2. CASE Handle(s, k) /\ job'[s][k] = [phase |-> "handled", batch |-> job[s][k].batch]
    <2>1. p \in job[s][k].batch /\ p.id \in Ids(job[s][k].batch)
      BY <1>2 DEF Ids
    <2>2. p.id \in Tasks
      BY <2>1, LiveType DEF Entries
    <2>3. Cardinality({q \in job[s][k].batch : q.id = p.id}) \in Nat \ {0}
      BY <2>1, LiveType, SomeCounted
    <2>4. effects'[p.id] = effects[p.id] + Cardinality({q \in job[s][k].batch : q.id = p.id})
      BY <1>2, <2>2 DEF Handle, CountEffects
    <2>. QED
      BY <2>2, <2>3, <2>4 DEF HistoryOK
  <1>3. CASE \/ job'[s][k] = FreeSlot
             \/ \E P \in SUBSET pending : \E f \in Batches(s, P) :
                  job'[s][k] = [phase |-> "acquired", batch |-> {q \in P : f[q] = k}]
             \/ job'[s][k] = [phase |-> "running", batch |-> Live(s, k)]
    <2>1. job'[s][k].phase # "handled"
      <3>1. CASE job'[s][k] = FreeSlot
        BY <3>1 DEF FreeSlot
      <3>2. CASE \E P \in SUBSET pending : \E f \in Batches(s, P) :
                    job'[s][k] = [phase |-> "acquired", batch |-> {q \in P : f[q] = k}]
        <4>1. PICK B : job'[s][k] = [phase |-> "acquired", batch |-> B]
          BY <3>2
        <4>. QED
          BY <4>1
      <3>3. CASE job'[s][k] = [phase |-> "running", batch |-> Live(s, k)]
        BY <3>3
      <3>. QED
        BY <1>3, <3>1, <3>2, <3>3
    <2>. QED
      BY <2>1
  <1>. QED
    BY <1>1, <1>2, <1>3, SlotChange

LEMMA GoneStep ==
    TypeOK /\ HandledInv /\ GoneIsHandledOrDropped /\ [Next]_vars => GoneIsHandledOrDropped'
  <1>. SUFFICES ASSUME TypeOK, JobOK, HistoryOK, HandledInv, GoneIsHandledOrDropped, [Next]_vars,
                       NEW id \in pushed' \ args', id \notin dropped'
                PROVE  effects'[id] > 0
    BY TypeParts DEF GoneIsHandledOrDropped
  <1>1. TypeOK'
    BY TypeStep
  <1>2. id \in Tasks
    BY <1>1 DEF TypeOK
  <1>3. CASE effects[id] > 0
    BY <1>2, <1>3, EffectsGrow
  <1>4. ASSUME id \in args \/ id \notin pushed PROVE effects'[id] > 0
    <2>1. ASSUME NEW B, IsFiniteSet(B), CompleteWork(B), id \in args PROVE id \in Ids(B)
      BY <2>1 DEF CompleteWork, Ids
    <2>2. ASSUME NEW s \in Servers, NEW k \in Slots, DoWorkTransactional(s, k)
          PROVE  effects'[id] > 0
      <3>1. id \in args /\ CompleteWork(Live(s, k)) /\ CountEffects(Live(s, k))
        BY <1>4, <2>2 DEF DoWorkTransactional
      <3>2. Cardinality({p \in Live(s, k) : p.id = id}) \in Nat \ {0}
        BY <2>1, <3>1, LiveType, SomeCounted
      <3>3. effects'[id] = effects[id] + Cardinality({p \in Live(s, k) : p.id = id})
        BY <1>2, <3>1 DEF CountEffects
      <3>. QED
        BY <1>2, <3>2, <3>3 DEF HistoryOK
    <2>3. ASSUME NEW s \in Servers, NEW k \in Slots, CommitExternal(s, k)
          PROVE  effects'[id] > 0
      <3>1. id \in args /\ CompleteWork(job[s][k].batch) /\ job[s][k].phase = "handled"
            /\ effects' = effects
        BY <1>4, <2>3 DEF CommitExternal, NoHist, histVars
      <3>2. id \in Ids(job[s][k].batch)
        BY <2>1, <3>1, LiveType
      <3>. QED
        BY <3>1, <3>2 DEF HandledInv, Ids
    <2>4. ASSUME NEW c \in Schedulers, RescheduleCommit(c) PROVE FALSE
      <3>1. /\ args' = args \ Cancelled(scan[c].expired)
            /\ dropped' = dropped \cup (Cancelled(scan[c].expired) \cap args)
            /\ pushed' = pushed
        BY <2>4 DEF RescheduleCommit, Reschedule
      <3>. QED
        BY <1>4, <3>1
    <2>5. ASSUME NEW i \in Tasks, NEW startAt \in StartTimes, Push(i, startAt) PROVE FALSE
      BY <1>4, <2>5 DEF Push, PushWork
    <2>6. ASSUME args' = args, pushed' = pushed PROVE FALSE
      BY <1>4, <2>6
    <2>7. ASSUME NEW s \in Servers, NEW k \in Slots,
                 StartExternal(s, k) \/ Handle(s, k) \/ Refresh(s, k) \/ DoWorkThrows(s, k)
          PROVE  args' = args /\ pushed' = pushed
      BY <2>7
      DEF StartExternal, Handle, Refresh, DoWorkThrows, RefreshLock, NoHist, histVars, repoVars
    <2>8. ASSUME NEW s \in Servers, Acquire(s) \/ Restart(s)
          PROVE  args' = args /\ pushed' = pushed
      BY <2>8 DEF Acquire, AcquireWork, Restart, NoHist, histVars, repoVars
    <2>9. ASSUME NEW c \in Schedulers, RescheduleRead(c) \/ RescheduleRetry(c)
          PROVE  args' = args /\ pushed' = pushed
      BY <2>9 DEF RescheduleRead, RescheduleRetry, NoHist, histVars, repoVars
    <2>10. CASE Tick \/ UNCHANGED vars
      BY <2>6, <2>10 DEF Tick, vars, histVars, repoVars
    <2>. QED
      BY <2>2, <2>3, <2>4, <2>5, <2>6, <2>7, <2>8, <2>9, <2>10 DEF Next, DoWork, Scheduler
  <1>. QED
    <2>1. CASE id \in args \/ id \notin pushed
      BY <1>4, <2>1
    <2>2. CASE id \in pushed \ args
      <3>1. dropped \subseteq dropped'
        BY <2>2
        DEF Next, Tick, Push, Acquire, Restart, DoWork, DoWorkTransactional, StartExternal, Handle,
            CommitExternal, Refresh, DoWorkThrows, Scheduler, RescheduleRead, RescheduleCommit,
            RescheduleRetry, vars, histVars, NoHist
      <3>. QED
        BY <1>3, <2>2, <3>1 DEF GoneIsHandledOrDropped
    <2>. QED
      BY <1>2, <2>1, <2>2

\* A task leaves the queue only handled or out of attempts.
THEOREM GoneOnlyHandledOrDropped == Spec => []GoneIsHandledOrDropped
  <1>1. Init => TypeOK /\ HandledInv /\ GoneIsHandledOrDropped
    <2>1. Init => HandledInv /\ GoneIsHandledOrDropped
      BY DEF Init, HandledInv, FreeSlot, GoneIsHandledOrDropped
    <2>. QED
      BY <2>1, TypeInit
  <1>2. TypeOK /\ HandledInv /\ GoneIsHandledOrDropped /\ [Next]_vars
            => (TypeOK /\ HandledInv /\ GoneIsHandledOrDropped)'
    BY TypeStep, HandledStep, GoneStep
  <1>. QED
    BY <1>1, <1>2, PTL DEF Spec

----------------------------------------------------------------------------
(* Every index names only tasks that were pushed                           *)

JobKnown == \A s \in Servers, k \in Slots : Ids(job[s][k].batch) \subseteq pushed
ScanKnown ==
    \A c \in Schedulers : Ids(scan[c].expired) \subseteq pushed /\ Ids(scan[c].due) \subseteq pushed
KeysKnown ==
    /\ args \subseteq pushed
    /\ Ids(pending) \subseteq pushed
    /\ Ids(delayed) \subseteq pushed
    /\ Ids(timeouts) \subseteq pushed
HistoryKnown ==
    /\ dropped \subseteq pushed \ args
    /\ \A id \in Tasks \ pushed : effects[id] = 0 /\ expired[id] = 0

KnownInv == JobKnown /\ ScanKnown /\ KeysKnown /\ HistoryKnown

LEMMA PushedGrows == [Next]_vars => pushed \subseteq pushed'
  BY DEF Next, Tick, Push, Acquire, Restart, DoWork, DoWorkTransactional, StartExternal, Handle,
         CommitExternal, Refresh, DoWorkThrows, Scheduler, RescheduleRead, RescheduleCommit,
         RescheduleRetry, vars, histVars, NoHist

LEMMA JobKnownStep ==
    ASSUME JobOK, JobKnown, KeysKnown, [Next]_vars
    PROVE  JobKnown'
  <1>. SUFFICES ASSUME NEW s \in Servers, NEW k \in Slots, NEW p \in job'[s][k].batch
                PROVE  p.id \in pushed
    BY PushedGrows DEF JobKnown, Ids
  <1>1. ASSUME p \in job[s][k].batch \/ p \in pending PROVE p.id \in pushed
    BY <1>1 DEF JobKnown, KeysKnown, Ids
  <1>2. ASSUME NEW P \in SUBSET pending, NEW f \in Batches(s, P),
               job'[s][k] = [phase |-> "acquired", batch |-> {e \in P : f[e] = k}]
        PROVE  p \in pending
    BY <1>2
  <1>3. ASSUME \/ job'[s][k] = job[s][k]
               \/ job'[s][k] = FreeSlot
               \/ job'[s][k] = [phase |-> "running", batch |-> Live(s, k)]
               \/ job'[s][k] = [phase |-> "handled", batch |-> job[s][k].batch]
        PROVE  p \in job[s][k].batch
    BY <1>3 DEF FreeSlot, Live
  <1>. QED
    BY <1>1, <1>2, <1>3, SlotChange

LEMMA ScanKnownStep ==
    ASSUME ScanOK, ScanKnown, KeysKnown, [Next]_vars
    PROVE  ScanKnown'
  <1>1. ASSUME scan' = scan PROVE ScanKnown'
    BY <1>1, PushedGrows DEF ScanKnown
  <1>2. ASSUME NEW c \in Schedulers, scan' = [scan EXCEPT ![c] = NoScan] PROVE ScanKnown'
    BY <1>2, PushedGrows DEF ScanKnown, ScanOK, NoScan, Ids
  <1>3. ASSUME NEW c \in Schedulers, RescheduleRead(c) PROVE ScanKnown'
    <2>1. PICK E \in SUBSET timeouts, D \in SUBSET delayed :
              scan' = [scan EXCEPT ![c] =
                         [phase |-> "read", expired |-> WithAttempts(E), due |-> D]]
      BY <1>3 DEF RescheduleRead, LatestBefore
    <2>2. Ids(WithAttempts(E)) \subseteq pushed /\ Ids(D) \subseteq pushed
      BY DEF KeysKnown, Ids, WithAttempts
    <2>3. ASSUME NEW b \in Schedulers
          PROVE  Ids(scan'[b].expired) \subseteq pushed /\ Ids(scan'[b].due) \subseteq pushed
      <3>1. CASE b = c
        <4>1. scan'[b].expired = WithAttempts(E) /\ scan'[b].due = D
          BY <2>1, <3>1 DEF ScanOK
        <4>. QED
          BY <2>2, <4>1
      <3>2. CASE b # c
        BY <2>1, <3>2 DEF ScanOK, ScanKnown
      <3>. QED
        BY <3>1, <3>2
    <2>. QED
      BY <2>3, PushedGrows DEF ScanKnown
  <1>4. ASSUME NEW c \in Schedulers, RescheduleCommit(c) \/ RescheduleRetry(c) PROVE ScanKnown'
    BY <1>2, <1>4 DEF RescheduleCommit, RescheduleRetry
  <1>5. ASSUME NEW s \in Servers, NEW k \in Slots,
               DoWork(s, k) \/ Refresh(s, k) \/ DoWorkThrows(s, k)
        PROVE  scan' = scan
    BY <1>5 DEF DoWork, DoWorkTransactional, StartExternal, Handle, CommitExternal, Refresh,
                DoWorkThrows, procVars
  <1>6. ASSUME NEW s \in Servers, Acquire(s) \/ Restart(s) PROVE scan' = scan
    BY <1>6 DEF Acquire, Restart
  <1>7. CASE Tick \/ UNCHANGED vars \/ \E id \in Tasks, t \in StartTimes : Push(id, t)
    BY <1>1, <1>7 DEF Tick, Push, vars, procVars
  <1>. QED
    BY <1>1, <1>3, <1>4, <1>5, <1>6, <1>7 DEF Next, Scheduler

\* A step on the key space that pushes nothing, cancels nothing and whose new
\* keys are of known tasks.
LEMMA KeysShrink ==
    ASSUME KeysKnown, UNCHANGED pushed, args' \subseteq args,
           Ids(pending') \subseteq pushed, Ids(delayed') \subseteq pushed,
           Ids(timeouts') \subseteq pushed
    PROVE  KeysKnown'
  BY DEF KeysKnown, Ids

LEMMA KeysKnownStep ==
    ASSUME JobOK, ScanOK, JobKnown, ScanKnown, KeysKnown, [Next]_vars
    PROVE  KeysKnown'
  <1>1. ASSUME UNCHANGED repoVars, UNCHANGED pushed PROVE KeysKnown'
    BY <1>1 DEF KeysKnown, repoVars
  <1>2. ASSUME NEW id \in Tasks, NEW t \in StartTimes, Push(id, t) PROVE KeysKnown'
    <2>1. /\ pushed' = pushed \cup {id} /\ args' = args \cup {id}
          /\ UNCHANGED timeouts
          /\ pending' \subseteq pending \cup {[version |-> version', ex |-> 1, id |-> id]}
          /\ delayed' \subseteq delayed \cup {[at |-> t, id |-> id]}
      BY <1>2 DEF Push, PushWork
    <2>. QED
      BY <2>1 DEF KeysKnown, Ids
  <1>3. ASSUME NEW s \in Servers, Acquire(s) PROVE KeysKnown'
    <2>1. PICK P \in SUBSET pending : AcquireWork(P, Seed(s), now + FirstLease)
      BY <1>3 DEF Acquire, OldestPending
    <2>2. UNCHANGED pushed
      BY <1>3 DEF Acquire, NoHist, histVars
    <2>3. /\ pending' \subseteq pending /\ delayed' = delayed /\ args' = args
          /\ timeouts' = timeouts \cup {[at |-> now + FirstLease, id |-> id] : id \in Ids(P)}
      BY <2>1 DEF AcquireWork
    <2>. QED
      BY <2>2, <2>3 DEF KeysKnown, Ids
  <1>4. ASSUME NEW B, CompleteWork(B), UNCHANGED pushed
        PROVE  KeysKnown'
    BY <1>4 DEF CompleteWork, KeysKnown, Ids
  <1>5. ASSUME NEW s \in Servers, NEW k \in Slots, Refresh(s, k) PROVE KeysKnown'
    <2>1. /\ timeouts' \subseteq timeouts
                \cup {[at |-> now + Lease, id |-> id] : id \in Ids(job[s][k].batch)}
          /\ UNCHANGED <<pending, delayed, args, pushed>>
      BY <1>5 DEF Refresh, RefreshLock, NoHist, histVars
    <2>2. Ids(job[s][k].batch) \subseteq pushed
      BY DEF JobKnown
    <2>. QED
      BY <2>1, <2>2 DEF KeysKnown, Ids
  <1>6. ASSUME NEW c \in Schedulers, RescheduleCommit(c) PROVE KeysKnown'
    <2>. DEFINE E == scan[c].expired
                D == scan[c].due
    <2>1. Reschedule(E, D) /\ UNCHANGED pushed
      BY <1>6 DEF RescheduleCommit
    <2>2. Ids(E) \subseteq pushed /\ Ids(D) \subseteq pushed
      BY DEF ScanKnown
    <2>. HIDE DEF E, D
    <2>3. Ids(RetryEntries(E)) \subseteq Ids(E) /\ Ids(DueEntries(E, D)) \subseteq Ids(D)
      BY DEF Ids, RetryEntries, Retried, DueEntries
    <2>4. /\ pending' = pending \cup RetryEntries(E) \cup DueEntries(E, D)
          /\ delayed' \subseteq delayed /\ timeouts' \subseteq timeouts /\ args' \subseteq args
      BY <2>1 DEF Reschedule
    <2>5. Ids(pending') = Ids(pending) \cup Ids(RetryEntries(E)) \cup Ids(DueEntries(E, D))
      BY <2>4 DEF Ids
    <2>6. Ids(delayed') \subseteq Ids(delayed) /\ Ids(timeouts') \subseteq Ids(timeouts)
      BY <2>4 DEF Ids
    <2>. QED
      BY <2>1, <2>2, <2>3, <2>4, <2>5, <2>6, KeysShrink DEF KeysKnown
  <1>7. ASSUME NEW s \in Servers, NEW k \in Slots,
               DoWork(s, k) \/ Refresh(s, k) \/ DoWorkThrows(s, k)
        PROVE  KeysKnown'
    <2>1. CASE DoWorkTransactional(s, k) \/ CommitExternal(s, k)
      <3>1. \E B : CompleteWork(B) /\ UNCHANGED pushed
        BY <2>1 DEF DoWorkTransactional, CommitExternal, NoHist, histVars
      <3>. QED
        BY <1>4, <3>1
    <2>2. CASE StartExternal(s, k) \/ Handle(s, k) \/ DoWorkThrows(s, k)
      BY <1>1, <2>2 DEF StartExternal, Handle, DoWorkThrows, NoHist, histVars
    <2>. QED
      BY <1>5, <1>7, <2>1, <2>2 DEF DoWork
  <1>8. ASSUME NEW c \in Schedulers, Scheduler(c) PROVE KeysKnown'
    <2>1. CASE RescheduleRead(c) \/ RescheduleRetry(c)
      BY <1>1, <2>1 DEF RescheduleRead, RescheduleRetry, NoHist, histVars
    <2>. QED
      BY <1>6, <1>8, <2>1 DEF Scheduler
  <1>9. ASSUME NEW s \in Servers, Restart(s) PROVE KeysKnown'
    BY <1>1, <1>9 DEF Restart, NoHist, histVars
  <1>10. CASE Tick \/ UNCHANGED vars
    BY <1>1, <1>10 DEF Tick, vars, histVars
  <1>. QED
    BY <1>2, <1>3, <1>7, <1>8, <1>9, <1>10 DEF Next

LEMMA HistoryKnownStep ==
    ASSUME TypeOK, KnownInv, [Next]_vars
    PROVE  HistoryKnown'
  <1>1. RepoTypeOK /\ JobOK /\ ScanOK /\ HistoryOK
    BY TypeParts
  <1>2. ASSUME args' \subseteq args, UNCHANGED <<pushed, dropped, effects, expired>>
        PROVE  HistoryKnown'
    BY <1>2 DEF KnownInv, HistoryKnown
  <1>3. ASSUME NEW B, Ids(B) \subseteq pushed, CountEffects(B), args' \subseteq args,
               UNCHANGED <<pushed, dropped, expired>>
        PROVE  HistoryKnown'
    <2>1. ASSUME NEW id \in Tasks \ pushed PROVE effects'[id] = 0
      <3>1. Cardinality({p \in B : p.id = id}) = 0
        BY <1>3, NoneCounted
      <3>2. effects'[id] = effects[id] + Cardinality({p \in B : p.id = id})
        BY <1>3 DEF CountEffects
      <3>. QED
        BY <3>1, <3>2 DEF KnownInv, HistoryKnown
    <2>. QED
      BY <1>3, <2>1 DEF KnownInv, HistoryKnown
  <1>4. ASSUME NEW id \in Tasks, NEW t \in StartTimes, Push(id, t) PROVE HistoryKnown'
    BY <1>4 DEF Push, PushWork, KnownInv, HistoryKnown
  <1>5. ASSUME NEW s \in Servers, NEW k \in Slots,
               DoWork(s, k) \/ Refresh(s, k) \/ DoWorkThrows(s, k)
        PROVE  HistoryKnown'
    <2>0. Ids(job[s][k].batch) \subseteq pushed /\ Ids(Live(s, k)) \subseteq pushed
      BY DEF KnownInv, JobKnown, Live, Ids
    <2>1. CASE DoWorkTransactional(s, k)
      BY <1>3, <2>0, <2>1 DEF DoWorkTransactional, CompleteWork
    <2>2. CASE Handle(s, k)
      BY <1>3, <2>0, <2>2 DEF Handle, repoVars
    <2>3. CASE StartExternal(s, k) \/ CommitExternal(s, k) \/ Refresh(s, k) \/ DoWorkThrows(s, k)
      BY <1>2, <2>3
      DEF StartExternal, CommitExternal, CompleteWork, Refresh, RefreshLock, DoWorkThrows, NoHist,
          histVars, repoVars
    <2>. QED
      BY <1>5, <2>1, <2>2, <2>3 DEF DoWork
  <1>6. ASSUME NEW c \in Schedulers, Scheduler(c) PROVE HistoryKnown'
    <2>1. CASE RescheduleCommit(c)
      <3>. DEFINE E == scan[c].expired
      <3>1. /\ args' = args \ Cancelled(E)
            /\ dropped' = dropped \cup (Cancelled(E) \cap args)
            /\ expired' = [id \in Tasks |-> expired[id] + Cardinality(TaskExpirations(E, id))]
            /\ UNCHANGED <<pushed, effects>>
        BY <2>1 DEF RescheduleCommit, Reschedule
      <3>2. ASSUME NEW id \in Tasks \ pushed PROVE expired'[id] = 0
        <4>1. id \notin Ids(E)
          BY DEF KnownInv, ScanKnown
        <4>. HIDE DEF E
        <4>2. Cardinality(TaskExpirations(E, id)) = 0
          BY <4>1, NoneCounted DEF TaskExpirations
        <4>. QED
          BY <3>1, <4>2 DEF KnownInv, HistoryKnown
      <3>3. dropped' \subseteq pushed' \ args'
        BY <3>1 DEF KnownInv, HistoryKnown, KeysKnown
      <3>. QED
        BY <3>1, <3>2, <3>3 DEF KnownInv, HistoryKnown
    <2>2. CASE RescheduleRead(c) \/ RescheduleRetry(c)
      BY <1>2, <2>2 DEF RescheduleRead, RescheduleRetry, NoHist, histVars, repoVars
    <2>. QED
      BY <1>6, <2>1, <2>2 DEF Scheduler
  <1>7. ASSUME NEW s \in Servers, Acquire(s) \/ Restart(s) PROVE HistoryKnown'
    BY <1>2, <1>7 DEF Acquire, AcquireWork, Restart, NoHist, histVars, repoVars
  <1>8. CASE Tick \/ UNCHANGED vars
    BY <1>2, <1>8 DEF Tick, vars, histVars, repoVars
  <1>. QED
    BY <1>4, <1>5, <1>6, <1>7, <1>8 DEF Next

LEMMA KnownStep == TypeOK /\ KnownInv /\ [Next]_vars => KnownInv'
  <1>. SUFFICES ASSUME TypeOK, KnownInv, [Next]_vars PROVE KnownInv'
    OBVIOUS
  <1>1. JobOK /\ ScanOK
    BY TypeParts
  <1>. QED
    BY <1>1, JobKnownStep, ScanKnownStep, KeysKnownStep, HistoryKnownStep DEF KnownInv

LEMMA KnownInit == Init => KnownInv
  BY DEF Init, RepoInit, FreeSlot, NoScan, Ids, KnownInv, JobKnown, ScanKnown, KeysKnown,
         HistoryKnown

----------------------------------------------------------------------------
(* A task is cancelled only when its last attempt has expired              *)

AttemptsInv ==
    \A id \in args :
        failures[id] = IF MaxAttempts = Infinite THEN Infinite ELSE MaxAttempts - expired[id]

LEMMA AttemptsStep ==
    TypeOK /\ KnownInv /\ AttemptsInv /\ DroppedAfterAllAttempts /\ [Next]_vars
        => (AttemptsInv /\ DroppedAfterAllAttempts)'
  <1>. SUFFICES ASSUME TypeOK, KnownInv, AttemptsInv, DroppedAfterAllAttempts, [Next]_vars
                PROVE  (AttemptsInv /\ DroppedAfterAllAttempts)'
    OBVIOUS
  <1>1. RepoTypeOK /\ JobOK /\ ScanOK /\ HistoryOK
    BY TypeParts
  <1>2. ASSUME args' \subseteq args, UNCHANGED <<dropped, expired>>,
               \A id \in args' : failures'[id] = failures[id]
        PROVE  (AttemptsInv /\ DroppedAfterAllAttempts)'
    BY <1>2 DEF AttemptsInv, DroppedAfterAllAttempts
  <1>3. ASSUME NEW id \in Tasks, NEW t \in StartTimes, Push(id, t)
        PROVE  (AttemptsInv /\ DroppedAfterAllAttempts)'
    <2>1. expired[id] = 0 /\ UNCHANGED <<dropped, expired>>
      BY <1>3 DEF Push, KnownInv, HistoryKnown
    <2>2. /\ args' = args \cup {id} /\ id \notin args
          /\ failures' = [failures EXCEPT ![id] = MaxAttempts]
      BY <1>3 DEF Push, PushWork, KnownInv, KeysKnown
    <2>3. ASSUME NEW i \in args'
          PROVE  failures'[i] = IF MaxAttempts = Infinite THEN Infinite ELSE MaxAttempts - expired'[i]
      <3>1. CASE i = id
        BY <1>1, <2>1, <2>2, <3>1, AttemptsAssumption DEF RepoTypeOK, AttemptsLeft, Infinite
      <3>2. CASE i # id
        BY <1>1, <2>1, <2>2, <3>2 DEF AttemptsInv, RepoTypeOK
      <3>. QED
        BY <3>1, <3>2
    <2>. QED
      BY <2>1, <2>3 DEF AttemptsInv, DroppedAfterAllAttempts
  <1>4. ASSUME NEW c \in Schedulers, RescheduleCommit(c)
        PROVE  (AttemptsInv /\ DroppedAfterAllAttempts)'
    <2>. DEFINE E == scan[c].expired
                n(id) == Cardinality(TaskExpirations(E, id))
    <2>1. /\ failures' = [id \in Tasks |->
                             IF id \in Ids(E) THEN Remaining(failures[id], n(id)) ELSE failures[id]]
          /\ args' = args \ Cancelled(E)
          /\ dropped' = dropped \cup (Cancelled(E) \cap args)
          /\ expired' = [id \in Tasks |-> expired[id] + n(id)]
      BY <1>4 DEF RescheduleCommit, Reschedule
    <2>2. \A id : n(id) \in Nat
      <3>1. IsFiniteSet(E)
        BY <1>1 DEF ScanOK
      <3>. QED
        BY <3>1, FS_Subset, FS_CardinalityType DEF TaskExpirations
    <2>3. \A id \in Tasks \ Ids(E) : n(id) = 0
      BY NoneCounted DEF TaskExpirations
    <2>4. Cancelled(E) = {id \in Ids(E) : Remaining(failures[id], n(id)) = 0}
      BY DEF Cancelled
    <2>5. args \subseteq Tasks /\ MaxAttempts \in 1..51 /\ \A id \in Tasks : expired[id] \in Nat
      BY <1>1, AttemptsAssumption DEF RepoTypeOK, HistoryOK, AttemptsLeft, Infinite
    <2>. HIDE DEF E, n
    <2>6. ASSUME NEW id \in args'
          PROVE  failures'[id] = IF MaxAttempts = Infinite THEN Infinite
                                 ELSE MaxAttempts - expired'[id]
      <3>1. /\ id \in args /\ id \in Tasks /\ id \notin Cancelled(E)
            /\ expired'[id] = expired[id] + n(id)
        BY <2>1, <2>5
      <3>2. failures[id] = IF MaxAttempts = Infinite THEN Infinite ELSE MaxAttempts - expired[id]
        BY <3>1 DEF AttemptsInv
      <3>3. CASE id \in Ids(E)
        <4>1. failures'[id] = Remaining(failures[id], n(id)) /\ Remaining(failures[id], n(id)) # 0
          BY <2>1, <2>4, <3>1, <3>3
        <4>. QED
          BY <2>2, <2>5, <3>1, <3>2, <4>1 DEF Remaining, Infinite
      <3>4. CASE id \notin Ids(E)
        <4>1. failures'[id] = failures[id] /\ n(id) = 0
          BY <2>1, <2>3, <3>1, <3>4
        <4>. QED
          BY <2>5, <3>1, <3>2, <4>1
      <3>. QED
        BY <3>3, <3>4
    <2>7. ASSUME NEW id \in dropped'
          PROVE  MaxAttempts # Infinite /\ expired'[id] >= MaxAttempts
      <3>0. id \in Tasks /\ expired'[id] = expired[id] + n(id)
        BY <1>1, <2>1, <2>5 DEF HistoryOK
      <3>1. CASE id \in dropped
        <4>1. MaxAttempts # Infinite /\ expired[id] >= MaxAttempts
          BY <3>1 DEF DroppedAfterAllAttempts
        <4>. QED
          BY <2>2, <2>5, <3>0, <4>1
      <3>2. CASE id \in Cancelled(E) /\ id \in args
        <4>1. Remaining(failures[id], n(id)) = 0
          BY <2>4, <3>2
        <4>2. failures[id] = IF MaxAttempts = Infinite THEN Infinite ELSE MaxAttempts - expired[id]
          BY <3>2 DEF AttemptsInv
        <4>. QED
          BY <2>2, <2>5, <3>0, <4>1, <4>2 DEF Remaining, Infinite
      <3>. QED
        BY <2>1, <3>1, <3>2
    <2>. QED
      BY <2>6, <2>7 DEF AttemptsInv, DroppedAfterAllAttempts
  <1>5. ASSUME NEW s \in Servers, NEW k \in Slots,
               DoWork(s, k) \/ Refresh(s, k) \/ DoWorkThrows(s, k)
        PROVE  (AttemptsInv /\ DroppedAfterAllAttempts)'
    <2>1. ASSUME NEW B, CompleteWork(B), UNCHANGED <<dropped, expired>>
          PROVE  (AttemptsInv /\ DroppedAfterAllAttempts)'
      <3>1. args' \subseteq args /\ \A id \in args' : failures'[id] = failures[id]
        BY <1>1, <2>1 DEF CompleteWork, RepoTypeOK
      <3>. QED
        BY <1>2, <2>1, <3>1
    <2>2. CASE DoWorkTransactional(s, k) \/ CommitExternal(s, k)
      BY <2>1, <2>2 DEF DoWorkTransactional, CommitExternal, NoHist, histVars
    <2>3. CASE StartExternal(s, k) \/ Handle(s, k) \/ Refresh(s, k) \/ DoWorkThrows(s, k)
      BY <1>2, <2>3
      DEF StartExternal, Handle, Refresh, RefreshLock, DoWorkThrows, NoHist, histVars, repoVars
    <2>. QED
      BY <1>5, <2>2, <2>3 DEF DoWork
  <1>6. ASSUME NEW c \in Schedulers, RescheduleRead(c) \/ RescheduleRetry(c)
        PROVE  (AttemptsInv /\ DroppedAfterAllAttempts)'
    BY <1>2, <1>6 DEF RescheduleRead, RescheduleRetry, NoHist, histVars, repoVars
  <1>7. ASSUME NEW s \in Servers, Acquire(s) \/ Restart(s)
        PROVE  (AttemptsInv /\ DroppedAfterAllAttempts)'
    BY <1>2, <1>7 DEF Acquire, AcquireWork, Restart, NoHist, histVars, repoVars
  <1>8. CASE Tick \/ UNCHANGED vars
    BY <1>2, <1>8 DEF Tick, vars, histVars, repoVars
  <1>. QED
    BY <1>3, <1>4, <1>5, <1>6, <1>7, <1>8 DEF Next, Scheduler

\* rescheduleTasks gives a task up only when as many leases ran out as the
\* queue allows, and never when it allows any number.
THEOREM DroppedOnlyAfterAllAttempts == Spec => []DroppedAfterAllAttempts
  <1>1. Init => TypeOK /\ KnownInv /\ AttemptsInv /\ DroppedAfterAllAttempts
    <2>1. Init => AttemptsInv /\ DroppedAfterAllAttempts
      BY DEF Init, RepoInit, AttemptsInv, DroppedAfterAllAttempts
    <2>. QED
      BY <2>1, TypeInit, KnownInit
  <1>2. TypeOK /\ KnownInv /\ AttemptsInv /\ DroppedAfterAllAttempts /\ [Next]_vars
            => (TypeOK /\ KnownInv /\ AttemptsInv /\ DroppedAfterAllAttempts)'
    BY TypeStep, KnownStep, AttemptsStep
  <1>. QED
    BY <1>1, <1>2, PTL DEF Spec

\* A task leaves the queue only handled, or after as many lost leases as it had
\* attempts.
THEOREM GoneOnlyHandledOrSpent == Spec => []GoneIsHandledOrSpent
  <1>1. GoneIsHandledOrDropped /\ DroppedAfterAllAttempts => GoneIsHandledOrSpent
    BY DEF GoneIsHandledOrSpent
  <1>. QED
    BY <1>1, GoneOnlyHandledOrDropped, DroppedOnlyAfterAllAttempts, PTL

----------------------------------------------------------------------------
(* Until a delayed task is moved twice, every task is in one place and the *)
(* indexes and counters are exact.                                         *)

\* A task is pending, delayed or leased, once, and then its arguments are
\* stored; a timeout key belongs to a lease.
OnePlace ==
    /\ Distinct(pending)
    /\ Distinct(delayed)
    /\ \A p \in pending : p.id \in args /\ active[p.id] = NoLease
    /\ \A d \in delayed : d.id \in args /\ active[d.id] = NoLease /\ ~InPending(d.id)
    /\ \A id \in Tasks : active[id] # NoLease => id \in args
    /\ \A t \in timeouts : active[t.id] # NoLease /\ active[t.id].timeout = t.at

Leased == {id \in Tasks : active[id] # NoLease}

CountersExact ==
    /\ stats["active"] = Cardinality(Leased)
    /\ stats["scheduled"] = Cardinality(delayed)

\* The number of keys is the number of tasks they name.
LEMMA DistinctCounts ==
    ASSUME NEW K, IsFiniteSet(K), Distinct(K)
    PROVE  Cardinality(Ids(K)) = Cardinality(K)
  <1>. DEFINE f == [k \in K |-> k.id]
  <1>1. f \in [K -> Ids(K)]
    BY DEF Ids
  <1>2. \A j, k \in K : f[j] = f[k] => j = k
    BY DEF Distinct
  <1>3. \A t \in Ids(K) : \E k \in K : f[k] = t
    BY DEF Ids
  <1>. HIDE DEF f
  <1>4. f \in Bijection(K, Ids(K))
    BY <1>1, <1>2, <1>3 DEF Bijection, Injection, IsInjective, Surjection
  <1>. QED
    BY <1>4, FS_Bijection DEF ExistsBijection

LEMMA LeasedFinite ==
    ASSUME RepoTypeOK, ActiveHasTimeout
    PROVE  IsFiniteSet(Leased)
  <1>1. IsFiniteSet(Ids(timeouts))
    BY FiniteIds DEF RepoTypeOK
  <1>2. Leased \subseteq Ids(timeouts)
    <2>1. ASSUME NEW id \in Leased PROVE id \in Ids(timeouts)
      <3>1. [at |-> active[id].timeout, id |-> id] \in timeouts
        BY DEF Leased, ActiveHasTimeout
      <3>. QED
        BY <3>1 DEF Ids
    <2>. QED
      BY <2>1
  <1>. QED
    BY <1>1, <1>2, FS_Subset

LEMMA PushPlaces ==
    ASSUME RepoTypeOK, ActiveHasTimeout, KeysKnown, OnePlace, CountersExact,
           NEW id \in Tasks \ pushed, NEW startAt \in Nat, PushWork(id, startAt)
    PROVE  OnePlace' /\ CountersExact'
  <1>1. /\ \A p \in pending : p.id # id
        /\ \A d \in delayed : d.id # id
        /\ active[id] = NoLease
    <2>1. id \notin Ids(pending) /\ id \notin Ids(delayed) /\ id \notin Ids(timeouts)
      BY DEF KeysKnown
    <2>2. [at |-> active[id].timeout, id |-> id] \notin timeouts
      BY <2>1 DEF Ids
    <2>. QED
      BY <2>1, <2>2 DEF Ids, ActiveHasTimeout
  <1>2. \/ /\ pending' = pending \cup {[version |-> version', ex |-> 1, id |-> id]}
           /\ delayed' = delayed /\ stats'["scheduled"] = stats["scheduled"]
        \/ /\ delayed' = delayed \cup {[at |-> startAt, id |-> id]}
           /\ pending' = pending /\ stats'["scheduled"] = stats["scheduled"] + 1
    BY DEF PushWork, RepoTypeOK, StatNames
  <1>3. args' = args \cup {id} /\ UNCHANGED <<active, timeouts>>
        /\ stats'["active"] = stats["active"]
    BY DEF PushWork, RepoTypeOK, StatNames
  <1>4. OnePlace'
    <2>1. Distinct(pending)' /\ Distinct(delayed)'
      BY <1>1, <1>2 DEF OnePlace, Distinct
    <2>2. \A p \in pending' : p.id \in args' /\ active'[p.id] = NoLease
      BY <1>1, <1>2, <1>3 DEF OnePlace
    <2>3. \A d \in delayed' : d.id \in args' /\ active'[d.id] = NoLease /\ ~InPending(d.id)'
      BY <1>1, <1>2, <1>3 DEF OnePlace, InPending
    <2>. QED
      BY <1>3, <2>1, <2>2, <2>3 DEF OnePlace
  <1>5. Cardinality(delayed') = Cardinality(delayed) + stats'["scheduled"] - stats["scheduled"]
    <2>. DEFINE key == [at |-> startAt, id |-> id]
    <2>1. key \notin delayed
      BY <1>1
    <2>2. Cardinality(delayed \cup {key}) = Cardinality(delayed) + 1 /\ Cardinality(delayed) \in Nat
      <3>. HIDE DEF key
      <3>. QED
        BY <2>1, FS_AddElement, FS_CardinalityType DEF RepoTypeOK
    <2>3. stats["scheduled"] \in Int
      BY DEF RepoTypeOK, StatNames
    <2>. QED
      <3>1. CASE delayed' = delayed /\ stats'["scheduled"] = stats["scheduled"]
        BY <2>2, <2>3, <3>1
      <3>2. CASE delayed' = delayed \cup {key} /\ stats'["scheduled"] = stats["scheduled"] + 1
        <4>. HIDE DEF key
        <4>. QED
          BY <2>2, <2>3, <3>2
      <3>. QED
        BY <1>2, <3>1, <3>2
  <1>6. stats["scheduled"] \in Int /\ stats'["scheduled"] \in Int
    BY <1>2 DEF RepoTypeOK, StatNames
  <1>7. Leased' = Leased
    BY <1>3 DEF Leased
  <1>8. stats'["scheduled"] = Cardinality(delayed')
    BY <1>5, <1>6 DEF CountersExact
  <1>. QED
    BY <1>3, <1>4, <1>7, <1>8 DEF CountersExact

LEMMA AcquirePlaces ==
    ASSUME RepoTypeOK, ActiveHasTimeout, OnePlace, CountersExact, NEW P \in SUBSET pending,
           NEW lock \in Seeds, NEW timeout \in Nat, AcquireWork(P, lock, timeout)
    PROVE  OnePlace' /\ CountersExact' /\ Distinct(P)
  <1>0. [lock |-> lock, timeout |-> timeout] # NoLease
    BY NoLeaseAssumption DEF Leases
  <1>1. /\ pending' = pending \ P
        /\ active' = [id \in Tasks |-> IF id \in Ids(P)
                                       THEN [lock |-> lock, timeout |-> timeout]
                                       ELSE active[id]]
        /\ timeouts' = timeouts \cup {[at |-> timeout, id |-> id] : id \in Ids(P)}
        /\ UNCHANGED <<delayed, args>>
    BY DEF AcquireWork
  <1>2. Distinct(P) /\ IsFiniteSet(P)
    BY FS_Subset DEF OnePlace, Distinct, RepoTypeOK
  <1>3. /\ Ids(P) \subseteq args /\ Ids(P) \subseteq Tasks
        /\ \A p \in pending' : p.id \notin Ids(P)
        /\ \A d \in delayed : d.id \notin Ids(P)
        /\ \A id \in Ids(P) : active[id] = NoLease
    BY <1>1 DEF Ids, OnePlace, InPending, Distinct, RepoTypeOK
  <1>4. OnePlace'
    <2>1. Distinct(pending)' /\ Distinct(delayed)'
      BY <1>1 DEF OnePlace, Distinct
    <2>2. \A p \in pending' : p.id \in args' /\ active'[p.id] = NoLease
      BY <1>1, <1>3 DEF OnePlace, RepoTypeOK, Entries
    <2>3. \A d \in delayed' : d.id \in args' /\ active'[d.id] = NoLease /\ ~InPending(d.id)'
      BY <1>1, <1>3 DEF OnePlace, InPending, RepoTypeOK, TimeKeys
    <2>4. \A id \in Tasks : active'[id] # NoLease => id \in args'
      BY <1>1, <1>3 DEF OnePlace
    <2>5. \A t \in timeouts' : active'[t.id] # NoLease /\ active'[t.id].timeout = t.at
      <3>1. ASSUME NEW id \in Ids(P)
            PROVE  active'[id] # NoLease /\ active'[id].timeout = timeout
        BY <1>0, <1>1, <1>3
      <3>2. ASSUME NEW t \in timeouts
            PROVE  active'[t.id] # NoLease /\ active'[t.id].timeout = t.at
        <4>1. t.id \notin Ids(P) /\ t.id \in Tasks
          BY <1>3 DEF OnePlace, RepoTypeOK, TimeKeys
        <4>. QED
          BY <1>1, <4>1 DEF OnePlace
      <3>. QED
        BY <1>1, <3>1, <3>2
    <2>. QED
      BY <2>1, <2>2, <2>3, <2>4, <2>5 DEF OnePlace
  <1>5. CountersExact'
    <2>1. Leased' = Leased \cup Ids(P)
      BY <1>0, <1>1, <1>3 DEF Leased
    <2>2. Leased \cap Ids(P) = {}
      BY <1>3 DEF Leased
    <2>3. IsFiniteSet(Leased) /\ IsFiniteSet(Ids(P)) /\ Cardinality(Ids(P)) = Cardinality(P)
      BY <1>2, LeasedFinite, FiniteIds, DistinctCounts
    <2>4. Cardinality(Leased') = Cardinality(Leased) + Cardinality(P)
      <3>1. Cardinality(Leased) \in Nat /\ Cardinality(Ids(P)) \in Nat
        BY <2>3, FS_CardinalityType
      <3>2. Cardinality(Leased \cap Ids(P)) = 0
        BY <2>2, FS_EmptySet
      <3>3. Cardinality(Leased \cup Ids(P))
                = Cardinality(Leased) + Cardinality(Ids(P)) - Cardinality(Leased \cap Ids(P))
        BY <2>3, FS_Union
      <3>. QED
        BY <2>1, <2>3, <3>1, <3>2, <3>3
    <2>5. stats'["active"] = stats["active"] + Cardinality(P)
          /\ stats'["scheduled"] = stats["scheduled"]
      BY DEF AcquireWork, RepoTypeOK, StatNames
    <2>. QED
      BY <1>1, <2>4, <2>5 DEF CountersExact
  <1>. QED
    BY <1>2, <1>4, <1>5

LEMMA RefreshPlaces ==
    ASSUME RepoTypeOK, OnePlace, CountersExact, NEW batch \in SUBSET Entries,
           NEW lock \in Seeds, NEW newTimeout \in Nat, RefreshLock(batch, lock, newTimeout)
    PROVE  OnePlace' /\ CountersExact'
  <1>. DEFINE moved == {id \in Ids(batch) : Holds(id, lock) /\ newTimeout >= active[id].timeout}
              old == {[at |-> active[id].timeout, id |-> id] : id \in moved}
              new == {[at |-> newTimeout, id |-> id] : id \in moved}
  <1>0. [lock |-> lock, timeout |-> newTimeout] # NoLease
    BY NoLeaseAssumption DEF Leases
  <1>1. /\ active' = [id \in Tasks |-> IF id \in moved
                                       THEN [lock |-> lock, timeout |-> newTimeout]
                                       ELSE active[id]]
        /\ timeouts' = (timeouts \ old) \cup new
        /\ UNCHANGED <<pending, delayed, args, stats>>
    BY DEF RefreshLock
  <1>2. moved \subseteq Tasks /\ \A id \in moved : active[id] # NoLease
    BY DEF Ids, Entries, Holds
  <1>3. \A t \in timeouts : t.id \in moved => t \in old
    <2>1. ASSUME NEW t \in timeouts, t.id \in moved PROVE t \in old
      <3>1. t = [at |-> active[t.id].timeout, id |-> t.id]
        BY DEF OnePlace, RepoTypeOK, TimeKeys
      <3>. QED
        BY <2>1, <3>1
    <2>. QED
      BY <2>1
  <1>4. \A t \in new : t.id \in moved /\ t.at = newTimeout
    OBVIOUS
  <1>. HIDE DEF moved, old, new
  <1>5. \A id \in Tasks : active'[id] = NoLease <=> active[id] = NoLease
    BY <1>0, <1>1, <1>2
  <1>6. \A t \in timeouts' : active'[t.id] # NoLease /\ active'[t.id].timeout = t.at
    <2>1. ASSUME NEW t \in new PROVE active'[t.id] # NoLease /\ active'[t.id].timeout = t.at
      BY <1>0, <1>1, <1>2, <1>4
    <2>2. ASSUME NEW t \in timeouts \ old
          PROVE active'[t.id] # NoLease /\ active'[t.id].timeout = t.at
      <3>1. t.id \notin moved /\ t.id \in Tasks
        BY <1>3 DEF RepoTypeOK, TimeKeys
      <3>. QED
        BY <1>1, <3>1 DEF OnePlace
    <2>. QED
      BY <1>1, <2>1, <2>2
  <1>7. OnePlace'
    <2>1. Distinct(pending)' /\ Distinct(delayed)'
      BY <1>1 DEF OnePlace, Distinct
    <2>2. \A p \in pending' : p.id \in args' /\ active'[p.id] = NoLease
      BY <1>1, <1>5 DEF OnePlace, RepoTypeOK, Entries
    <2>3. \A d \in delayed' : d.id \in args' /\ active'[d.id] = NoLease /\ ~InPending(d.id)'
      BY <1>1, <1>5 DEF OnePlace, InPending, RepoTypeOK, TimeKeys
    <2>. QED
      BY <1>1, <1>5, <1>6, <2>1, <2>2, <2>3 DEF OnePlace
  <1>8. Leased' = Leased
    BY <1>5 DEF Leased
  <1>. QED
    BY <1>1, <1>7, <1>8 DEF CountersExact

LEMMA CompletePlaces ==
    ASSUME RepoTypeOK, ActiveHasTimeout, OnePlace, CountersExact, NEW batch \in SUBSET Entries,
           IsFiniteSet(batch), Distinct(batch), CompleteWork(batch)
    PROVE  OnePlace' /\ CountersExact'
  <1>. DEFINE found == {e \in batch : active[e.id] # NoLease}
              gone == Ids(found)
              old == {[at |-> active[id].timeout, id |-> id] : id \in gone}
  <1>1. /\ active' = [id \in Tasks |-> IF id \in gone THEN NoLease ELSE active[id]]
        /\ args' = args \ gone
        /\ timeouts' = timeouts \ old
        /\ stats'["active"] = stats["active"] - Cardinality(found)
        /\ stats'["scheduled"] = stats["scheduled"]
        /\ UNCHANGED <<pending, delayed>>
    BY DEF CompleteWork, RepoTypeOK, StatNames
  <1>2. gone \subseteq Leased /\ IsFiniteSet(found) /\ Cardinality(gone) = Cardinality(found)
    <2>1. IsFiniteSet(found) /\ Distinct(found)
      BY FS_Subset DEF Distinct
    <2>2. gone \subseteq Leased
      BY DEF Ids, Leased, Entries
    <2>. QED
      BY <2>1, <2>2, DistinctCounts
  <1>3. \A t \in timeouts : t.id \in gone => t \in old
    <2>1. ASSUME NEW t \in timeouts, t.id \in gone PROVE t \in old
      <3>1. t = [at |-> active[t.id].timeout, id |-> t.id]
        BY DEF OnePlace, RepoTypeOK, TimeKeys
      <3>. QED
        BY <2>1, <3>1
    <2>. QED
      BY <2>1
  <1>. HIDE DEF found, gone, old
  <1>4. OnePlace'
    <2>1. \A p \in pending : p.id \notin gone
      BY <1>2 DEF OnePlace, Leased
    <2>2. \A d \in delayed : d.id \notin gone
      BY <1>2 DEF OnePlace, Leased
    <2>3. Distinct(pending)' /\ Distinct(delayed)'
      BY <1>1 DEF OnePlace, Distinct
    <2>4. \A p \in pending' : p.id \in args' /\ active'[p.id] = NoLease
      BY <1>1, <2>1 DEF OnePlace, RepoTypeOK, Entries
    <2>5. \A d \in delayed' : d.id \in args' /\ active'[d.id] = NoLease /\ ~InPending(d.id)'
      BY <1>1, <2>2 DEF OnePlace, InPending, RepoTypeOK, TimeKeys
    <2>6. \A id \in Tasks : active'[id] # NoLease => id \in args'
      BY <1>1 DEF OnePlace
    <2>7. \A t \in timeouts' : active'[t.id] # NoLease /\ active'[t.id].timeout = t.at
      <3>1. ASSUME NEW t \in timeouts'
            PROVE  active'[t.id] # NoLease /\ active'[t.id].timeout = t.at
        <4>1. t \in timeouts /\ t.id \notin gone /\ t.id \in Tasks
          BY <1>1, <1>3 DEF RepoTypeOK, TimeKeys
        <4>. QED
          BY <1>1, <4>1 DEF OnePlace
      <3>. QED
        BY <3>1
    <2>. QED
      BY <2>3, <2>4, <2>5, <2>6, <2>7 DEF OnePlace
  <1>5. CountersExact'
    <2>1. Leased' = Leased \ gone
      BY <1>1 DEF Leased
    <2>2. Leased \cap gone = gone /\ IsFiniteSet(Leased)
      BY <1>2, LeasedFinite
    <2>3. Cardinality(Leased') = Cardinality(Leased) - Cardinality(found)
      BY <1>2, <2>1, <2>2, FS_Difference
    <2>. QED
      BY <1>1, <2>3 DEF CountersExact
  <1>. QED
    BY <1>4, <1>5

\* A commit without a conflict takes one key of each task: that of its lease.
LEMMA ScannedLeases ==
    ASSUME RepoTypeOK, OnePlace, NEW E \in SUBSET ExpiredKeys, ~Conflicts(E)
    PROVE  /\ \A k \in E : k.id \in Leased /\ active[k.id].timeout = k.at
           /\ Distinct(E)
           /\ \A t \in timeouts : t.id \in Ids(E) => t \in {[at |-> k.at, id |-> k.id] : k \in E}
  <1>1. ASSUME NEW k \in E
        PROVE  k.id \in Leased /\ active[k.id].timeout = k.at /\ failures[k.id] = k.left
    <2>1. [at |-> k.at, id |-> k.id] \in timeouts /\ failures[k.id] = k.left /\ k.id \in Tasks
      BY DEF Conflicts, ExpiredKeys
    <2>2. active[k.id] # NoLease /\ active[k.id].timeout = k.at
      BY <2>1 DEF OnePlace
    <2>. QED
      BY <2>1, <2>2 DEF Leased
  <1>2. Distinct(E)
    <2>1. ASSUME NEW j \in E, NEW k \in E, j.id = k.id PROVE j = k
      <3>1. j.at = k.at /\ j.left = k.left
        BY <1>1, <2>1
      <3>. QED
        BY <2>1, <3>1 DEF ExpiredKeys
    <2>. QED
      BY <2>1 DEF Distinct
  <1>3. ASSUME NEW t \in timeouts, t.id \in Ids(E)
        PROVE  t \in {[at |-> k.at, id |-> k.id] : k \in E}
    <2>1. PICK k \in E : k.id = t.id
      BY <1>3 DEF Ids
    <2>2. t.at = k.at
      BY <1>1, <2>1 DEF OnePlace
    <2>3. t = [at |-> k.at, id |-> k.id]
      BY <2>1, <2>2 DEF RepoTypeOK, TimeKeys
    <2>. QED
      BY <2>3
  <1>. QED
    BY <1>1, <1>2, <1>3

\* Each of the keys is one expiration of its task: it is retried or cancelled.
LEMMA RetriedNotCancelled ==
    ASSUME NEW E \in SUBSET ExpiredKeys, Distinct(E), NEW p \in RetryEntries(E)
    PROVE  p.id \in Ids(E) \ Cancelled(E)
  <1>1. PICK k \in Retried(E) : p.id = k.id
    BY DEF RetryEntries
  <1>2. k \in E /\ Remaining(failures[k.id], Cardinality(Expirations(E, k))) > 0
    BY DEF Retried
  <1>3. Expirations(E, k) = TaskExpirations(E, k.id)
    <2>1. ASSUME NEW j \in E, j.id = k.id PROVE j \in Expirations(E, k)
      <3>1. j = k
        BY <1>2, <2>1 DEF Distinct
      <3>2. k \in Expirations(E, k)
        <4>1. k.at >= k.at
          BY <1>2 DEF ExpiredKeys
        <4>. QED
          BY <1>2, <4>1 DEF Expirations
      <3>. QED
        BY <3>1, <3>2
    <2>. QED
      BY <2>1 DEF Expirations, TaskExpirations
  <1>4. k.id \notin Cancelled(E)
    BY <1>2, <1>3 DEF Cancelled
  <1>. QED
    BY <1>1, <1>2, <1>4 DEF Ids

LEMMA RescheduledDistinct ==
    ASSUME RepoTypeOK, OnePlace, NEW E \in SUBSET ExpiredKeys, Distinct(E),
           \A k \in E : k.id \in Leased,
           NEW D \in SUBSET delayed, Reschedule(E, D)
    PROVE  /\ Distinct(pending)'
           /\ \A p \in pending' : \/ p \in pending
                                  \/ p.id \in Ids(E) \ Cancelled(E)
                                  \/ \E d \in D : d.id = p.id
  <1>. DEFINE R == RetryEntries(E)
              N == DueEntries(E, D)
  <1>1. pending' = pending \cup R \cup N
    BY DEF Reschedule
  <1>2. \A p \in R : p.id \in Leased /\ p.id \in Ids(E) \ Cancelled(E)
    BY RetriedNotCancelled DEF Ids
  <1>3. \A p \in N : \E d \in D : d.id = p.id
    BY DEF DueEntries
  <1>4. Distinct(R)
    <2>1. ASSUME NEW p \in R, NEW q \in R, p.id = q.id PROVE p = q
      <3>1. PICK k \in E : p = [version |-> version + 1, ex |-> Position(E, k), id |-> k.id]
        BY DEF RetryEntries, Retried
      <3>2. PICK j \in E : q = [version |-> version + 1, ex |-> Position(E, j), id |-> j.id]
        BY DEF RetryEntries, Retried
      <3>3. k.id = j.id
        BY <2>1, <3>1, <3>2
      <3>4. k = j
        BY <3>3 DEF Distinct
      <3>. QED
        BY <3>1, <3>2, <3>4
    <2>. QED
      BY <2>1 DEF Distinct
  <1>5. Distinct(N)
    <2>1. ASSUME NEW p \in N, NEW q \in N, p.id = q.id PROVE p = q
      <3>1. PICK k \in D : p = [version |-> version + 1,
                                ex |-> Cardinality(E) + Position(D, k), id |-> k.id]
        BY DEF DueEntries
      <3>2. PICK j \in D : q = [version |-> version + 1,
                                ex |-> Cardinality(E) + Position(D, j), id |-> j.id]
        BY DEF DueEntries
      <3>3. k.id = j.id
        BY <2>1, <3>1, <3>2
      <3>4. k = j
        BY <3>3 DEF OnePlace, Distinct
      <3>. QED
        BY <3>1, <3>2, <3>4
    <2>. QED
      BY <2>1 DEF Distinct
  <1>. HIDE DEF R, N
  <1>6. ASSUME NEW p \in pending PROVE p.id \notin Leased /\ \A d \in D : d.id # p.id
    BY DEF OnePlace, InPending, Leased
  <1>7. ASSUME NEW p \in R PROVE \A d \in D : d.id # p.id
    BY <1>2 DEF OnePlace, Leased
  <1>8. Distinct(pending)'
    <2>1. ASSUME NEW p \in pending', NEW q \in pending', p.id = q.id PROVE p = q
      <3>1. CASE p \in pending /\ q \in pending
        BY <2>1, <3>1 DEF OnePlace, Distinct
      <3>2. CASE p \in R /\ q \in R
        BY <1>4, <2>1, <3>2 DEF Distinct
      <3>3. CASE p \in N /\ q \in N
        BY <1>5, <2>1, <3>3 DEF Distinct
      <3>4. CASE (p \in N /\ q \in R) \/ (p \in R /\ q \in N)
        BY <1>3, <1>7, <2>1, <3>4
      <3>5. CASE (p \in N /\ q \in pending) \/ (p \in pending /\ q \in N)
        BY <1>3, <1>6, <2>1, <3>5
      <3>6. CASE (p \in R /\ q \in pending) \/ (p \in pending /\ q \in R)
        BY <1>2, <1>6, <2>1, <3>6
      <3>. QED
        <4>1. (p \in pending \/ p \in R \/ p \in N) /\ (q \in pending \/ q \in R \/ q \in N)
          BY <1>1
        <4>. QED
          BY <3>1, <3>2, <3>3, <3>4, <3>5, <3>6, <4>1
    <2>. QED
      BY <2>1 DEF Distinct
  <1>. QED
    BY <1>1, <1>2, <1>3, <1>8

LEMMA ReschedulePlaces ==
    ASSUME RepoTypeOK, ActiveHasTimeout, OnePlace, CountersExact,
           NEW E \in SUBSET ExpiredKeys, IsFiniteSet(E), ~Conflicts(E),
           NEW D \in SUBSET delayed, Reschedule(E, D)
    PROVE  OnePlace' /\ CountersExact'
  <1>. DEFINE old == {[at |-> k.at, id |-> k.id] : k \in E}
  <1>1. /\ active' = [id \in Tasks |-> IF id \in Ids(E) THEN NoLease ELSE active[id]]
        /\ timeouts' = timeouts \ old
        /\ args' = args \ Cancelled(E)
        /\ delayed' = delayed \ D
        /\ stats'["active"] = stats["active"] - Cardinality(E)
        /\ stats'["scheduled"] = stats["scheduled"] - Cardinality(D)
    BY DEF Reschedule, RepoTypeOK, StatNames
  <1>2. /\ \A k \in E : k.id \in Leased
        /\ Distinct(E)
        /\ \A t \in timeouts : t.id \in Ids(E) => t \in old
    BY ScannedLeases
  <1>3. Ids(E) \subseteq Leased /\ Cancelled(E) \subseteq Ids(E)
    BY <1>2 DEF Ids, Cancelled
  <1>4. /\ Distinct(pending)'
        /\ \A p \in pending' : \/ p \in pending
                               \/ p.id \in Ids(E) \ Cancelled(E)
                               \/ \E d \in D : d.id = p.id
    BY <1>2, RescheduledDistinct
  <1>. HIDE DEF old
  <1>5. Distinct(delayed)'
    BY <1>1 DEF OnePlace, Distinct
  <1>6. \A id \in args \ Leased : id \in args'
    BY <1>1, <1>3
  <1>7. ASSUME NEW p \in pending' PROVE p.id \in args' /\ active'[p.id] = NoLease
    <2>1. CASE p \in pending
      <3>1. p.id \in args /\ p.id \notin Leased /\ p.id \in Tasks /\ active[p.id] = NoLease
        BY <2>1 DEF OnePlace, Leased, RepoTypeOK, Entries
      <3>. QED
        BY <1>1, <1>6, <3>1
    <2>2. CASE p.id \in Ids(E) \ Cancelled(E)
      <3>1. p.id \in args /\ p.id \in Tasks
        BY <1>3, <2>2 DEF OnePlace, Leased
      <3>. QED
        BY <1>1, <2>2, <3>1
    <2>3. ASSUME NEW d \in D, d.id = p.id PROVE p.id \in args' /\ active'[p.id] = NoLease
      <3>1. p.id \in args /\ p.id \notin Leased /\ p.id \in Tasks /\ active[p.id] = NoLease
        BY <2>3 DEF OnePlace, Leased, RepoTypeOK, TimeKeys
      <3>. QED
        BY <1>1, <1>6, <3>1
    <2>. QED
      BY <1>4, <2>1, <2>2, <2>3
  <1>8. ASSUME NEW d \in delayed'
        PROVE  d.id \in args' /\ active'[d.id] = NoLease /\ ~InPending(d.id)'
    <2>1. /\ d \in delayed \ D /\ d.id \in args /\ d.id \notin Leased /\ d.id \in Tasks
          /\ active[d.id] = NoLease
      BY <1>1 DEF OnePlace, Leased, RepoTypeOK, TimeKeys
    <2>2. \A e \in D : e.id # d.id
      BY <2>1 DEF OnePlace, Distinct
    <2>3. ~InPending(d.id)
      BY <2>1 DEF OnePlace
    <2>4. ~InPending(d.id)'
      BY <1>3, <1>4, <2>1, <2>2, <2>3 DEF InPending
    <2>. QED
      BY <1>1, <1>6, <2>1, <2>4
  <1>9. \A id \in Tasks : active'[id] # NoLease => id \in args'
    BY <1>1, <1>3 DEF OnePlace
  <1>10. ASSUME NEW t \in timeouts' PROVE active'[t.id] # NoLease /\ active'[t.id].timeout = t.at
    <2>1. t \in timeouts /\ t.id \notin Ids(E) /\ t.id \in Tasks
      BY <1>1, <1>2 DEF RepoTypeOK, TimeKeys
    <2>. QED
      BY <1>1, <2>1 DEF OnePlace
  <1>11. OnePlace'
    BY <1>4, <1>5, <1>7, <1>8, <1>9, <1>10 DEF OnePlace
  <1>12. CountersExact'
    <2>1. Leased' = Leased \ Ids(E)
      BY <1>1 DEF Leased
    <2>2. Leased \cap Ids(E) = Ids(E) /\ IsFiniteSet(Leased) /\ Cardinality(Ids(E)) = Cardinality(E)
      BY <1>2, <1>3, LeasedFinite, DistinctCounts
    <2>3. Cardinality(Leased') = Cardinality(Leased) - Cardinality(E)
      <3>1. Cardinality(Leased \ Ids(E)) = Cardinality(Leased) - Cardinality(Leased \cap Ids(E))
        BY <2>2, FS_Difference
      <3>. QED
        BY <2>1, <2>2, <3>1
    <2>4. delayed \cap D = D /\ IsFiniteSet(delayed)
      BY DEF RepoTypeOK
    <2>5. Cardinality(delayed') = Cardinality(delayed) - Cardinality(D)
      <3>1. Cardinality(delayed \ D) = Cardinality(delayed) - Cardinality(delayed \cap D)
        BY <2>4, FS_Difference
      <3>. QED
        BY <1>1, <2>4, <3>1
    <2>. QED
      BY <1>1, <2>3, <2>5 DEF CountersExact
  <1>. QED
    BY <1>11, <1>12

LEMMA PlacesUnchanged ==
    ASSUME OnePlace, CountersExact, UNCHANGED repoVars
    PROVE  OnePlace' /\ CountersExact'
  BY DEF OnePlace, CountersExact, Distinct, InPending, Leased, repoVars

\* A batch is taken from the pending keys and only loses tasks after that.
BatchesDistinct == \A s \in Servers, k \in Slots : Distinct(job[s][k].batch)

LEMMA BatchesStep ==
    ASSUME TypeOK, OnePlace, BatchesDistinct, [Next]_vars
    PROVE  BatchesDistinct'
  <1>1. JobOK
    BY TypeParts
  <1>. SUFFICES ASSUME NEW s \in Servers, NEW k \in Slots PROVE Distinct(job'[s][k].batch)
    BY DEF BatchesDistinct, Distinct
  <1>2. ASSUME NEW B, B \subseteq job[s][k].batch PROVE Distinct(B)
    BY <1>2 DEF BatchesDistinct, Distinct
  <1>3. ASSUME NEW P \in SUBSET pending, NEW f \in Batches(s, P),
               job'[s][k] = [phase |-> "acquired", batch |-> {e \in P : f[e] = k}]
        PROVE  Distinct(job'[s][k].batch)
    <2>. DEFINE B == {e \in P : f[e] = k}
    <2>1. B \subseteq pending /\ job'[s][k].batch = B
      BY <1>3
    <2>. HIDE DEF B
    <2>. QED
      BY <2>1 DEF OnePlace, Distinct
  <1>4. ASSUME \/ job'[s][k] = job[s][k]
               \/ job'[s][k] = FreeSlot
               \/ job'[s][k] = [phase |-> "running", batch |-> Live(s, k)]
               \/ job'[s][k] = [phase |-> "handled", batch |-> job[s][k].batch]
        PROVE  Distinct(job'[s][k].batch)
    <2>1. job'[s][k].batch \subseteq job[s][k].batch
      BY <1>4 DEF FreeSlot, Live
    <2>. QED
      BY <1>2, <2>1
  <1>. QED
    BY <1>1, <1>3, <1>4, SlotChange

LEMMA PlacesStep ==
    ASSUME TypeOK, IndexInv, KnownInv, OnePlace, CountersExact, BatchesDistinct, ~doubled',
           [Next]_vars
    PROVE  OnePlace' /\ CountersExact'
  <1>0. /\ RepoTypeOK /\ ClockOK /\ JobOK /\ ScanOK /\ HistoryOK
        /\ ActiveHasTimeout /\ KeysKnown
        /\ \A s \in Servers : Seed(s) \in Seeds
    BY TypeParts DEF IndexInv, KnownInv, Seed, Seeds, ClockOK
  <1>1. ASSUME NEW id \in Tasks, NEW startAt \in StartTimes, Push(id, startAt)
        PROVE  OnePlace' /\ CountersExact'
    BY <1>0, <1>1, PushPlaces, TimesAssumption DEF Push
  <1>2. ASSUME NEW s \in Servers, Acquire(s) PROVE OnePlace' /\ CountersExact'
    <2>1. PICK P \in SUBSET pending : AcquireWork(P, Seed(s), now + FirstLease)
      BY <1>2 DEF Acquire, OldestPending
    <2>2. now + FirstLease \in Nat
      BY <1>0, TimesAssumption DEF ClockOK
    <2>. QED
      BY <1>0, <2>1, <2>2, AcquirePlaces
  <1>3. ASSUME NEW s \in Servers, NEW k \in Slots, DoWork(s, k) \/ Refresh(s, k)
        PROVE  OnePlace' /\ CountersExact'
    <2>. DEFINE B == job[s][k].batch
    <2>1. Distinct(B) /\ Distinct(Live(s, k))
      BY DEF BatchesDistinct, Live, Distinct
    <2>2. /\ B \in SUBSET Entries /\ IsFiniteSet(B)
          /\ Live(s, k) \in SUBSET Entries /\ IsFiniteSet(Live(s, k))
      BY <1>0, LiveType
    <2>3. CASE DoWorkTransactional(s, k)
      BY <1>0, <2>1, <2>2, <2>3, CompletePlaces DEF DoWorkTransactional
    <2>4. CASE CommitExternal(s, k)
      BY <1>0, <2>1, <2>2, <2>4, CompletePlaces DEF CommitExternal
    <2>5. CASE Refresh(s, k)
      <3>1. now + Lease \in Nat
        BY <1>0, TimesAssumption DEF ClockOK
      <3>. QED
        BY <1>0, <2>2, <2>5, <3>1, RefreshPlaces DEF Refresh
    <2>6. CASE StartExternal(s, k) \/ Handle(s, k)
      BY <2>6, PlacesUnchanged DEF StartExternal, Handle
    <2>. QED
      BY <1>3, <2>3, <2>4, <2>5, <2>6 DEF DoWork
  <1>4. ASSUME NEW c \in Schedulers, RescheduleCommit(c) PROVE OnePlace' /\ CountersExact'
    <2>1. scan[c].due \subseteq delayed
      BY <1>4 DEF RescheduleCommit
    <2>. QED
      BY <1>0, <1>4, <2>1, ReschedulePlaces DEF RescheduleCommit, ScanOK
  <1>5. CASE \/ Tick \/ UNCHANGED vars
             \/ \E s \in Servers : Restart(s)
             \/ \E s \in Servers, k \in Slots : DoWorkThrows(s, k)
             \/ \E c \in Schedulers : RescheduleRead(c) \/ RescheduleRetry(c)
    BY <1>5, PlacesUnchanged
    DEF Tick, Restart, DoWorkThrows, RescheduleRead, RescheduleRetry, vars, repoVars
  <1>. QED
    BY <1>1, <1>2, <1>3, <1>4, <1>5 DEF Next, Scheduler

\* Every pushed task is stored, completed or dropped.
TotalExact ==
    stats["total"] = Cardinality(args) + Cardinality(dropped) + stats["completed"]

LEMMA CompleteTotal ==
    ASSUME RepoTypeOK, OnePlace, TotalExact, IsFiniteSet(args), IsFiniteSet(dropped),
           NEW batch \in SUBSET Entries,
           IsFiniteSet(batch), Distinct(batch), CompleteWork(batch), dropped' = dropped
    PROVE  TotalExact'
  <1>. DEFINE found == {e \in batch : active[e.id] # NoLease}
              gone == Ids(found)
  <1>1. /\ args' = args \ gone
        /\ stats'["total"] = stats["total"]
        /\ stats'["completed"] = stats["completed"] + Cardinality(found)
    BY DEF CompleteWork, RepoTypeOK, StatNames
  <1>2. gone \subseteq args
    BY DEF Ids, OnePlace, Entries
  <1>3. IsFiniteSet(found) /\ Distinct(found)
    BY FS_Subset DEF Distinct
  <1>. HIDE DEF found
  <1>4. Cardinality(gone) = Cardinality(found) /\ Cardinality(found) \in Nat
    BY <1>3, DistinctCounts, FS_CardinalityType
  <1>5. Cardinality(args \ gone) = Cardinality(args) - Cardinality(args \cap gone)
    BY FS_Difference
  <1>6. args \cap gone = gone
    BY <1>2
  <1>7. /\ Cardinality(args) \in Nat /\ Cardinality(dropped) \in Nat
        /\ Cardinality(args) - Cardinality(found) = Cardinality(args')
        /\ stats["total"] \in Int /\ stats["completed"] \in Int
    BY <1>1, <1>4, <1>5, <1>6, FS_CardinalityType DEF RepoTypeOK, StatNames
  <1>. QED
    BY <1>1, <1>4, <1>7 DEF TotalExact

LEMMA TotalStep ==
    ASSUME TypeOK, KnownInv, OnePlace, BatchesDistinct, TotalExact, IsFiniteSet(pushed),
           [Next]_vars
    PROVE  TotalExact'
  <1>0. /\ RepoTypeOK /\ JobOK /\ HistoryOK
        /\ args \subseteq pushed /\ dropped \subseteq pushed \ args
    BY TypeParts DEF KnownInv, KeysKnown, HistoryKnown
  <1>1. /\ IsFiniteSet(args) /\ Cardinality(args) \in Nat
        /\ IsFiniteSet(dropped) /\ Cardinality(dropped) \in Nat
        /\ stats["total"] \in Int /\ stats["completed"] \in Int
    BY <1>0, FS_Subset, FS_CardinalityType DEF RepoTypeOK, StatNames
  <1>2. ASSUME UNCHANGED <<args, dropped, stats>> PROVE TotalExact'
    BY <1>2 DEF TotalExact
  <1>3. ASSUME NEW id \in Tasks, NEW startAt \in StartTimes, Push(id, startAt)
        PROVE  TotalExact'
    <2>1. /\ args' = args \cup {id} /\ id \notin args /\ dropped' = dropped
          /\ stats'["total"] = stats["total"] + 1 /\ stats'["completed"] = stats["completed"]
      BY <1>0, <1>3 DEF Push, PushWork, RepoTypeOK, StatNames
    <2>2. Cardinality(args') = Cardinality(args) + 1
      BY <1>1, <2>1, FS_AddElement
    <2>. QED
      BY <1>1, <2>1, <2>2 DEF TotalExact
  <1>4. ASSUME NEW s \in Servers, Acquire(s) PROVE TotalExact'
    <2>1. PICK P \in SUBSET pending : AcquireWork(P, Seed(s), now + FirstLease)
      BY <1>4 DEF Acquire, OldestPending
    <2>2. /\ args' = args /\ dropped' = dropped
          /\ stats'["total"] = stats["total"] /\ stats'["completed"] = stats["completed"]
      BY <1>0, <1>4, <2>1 DEF AcquireWork, RepoTypeOK, StatNames, Acquire, NoHist, histVars
    <2>. QED
      BY <2>2 DEF TotalExact
  <1>5. ASSUME NEW s \in Servers, NEW k \in Slots, DoWork(s, k) \/ Refresh(s, k)
        PROVE  TotalExact'
    <2>. DEFINE B == job[s][k].batch
    <2>1. Distinct(B) /\ Distinct(Live(s, k))
      BY DEF BatchesDistinct, Live, Distinct
    <2>2. /\ B \in SUBSET Entries /\ IsFiniteSet(B)
          /\ Live(s, k) \in SUBSET Entries /\ IsFiniteSet(Live(s, k))
      BY <1>0, LiveType
    <2>3. CASE DoWorkTransactional(s, k)
      BY <1>0, <1>1, <2>1, <2>2, <2>3, CompleteTotal DEF DoWorkTransactional
    <2>4. CASE CommitExternal(s, k)
      BY <1>0, <1>1, <2>1, <2>2, <2>4, CompleteTotal DEF CommitExternal, NoHist, histVars
    <2>5. CASE Refresh(s, k) \/ StartExternal(s, k) \/ Handle(s, k)
      BY <1>2, <2>5
      DEF Refresh, RefreshLock, StartExternal, Handle, NoHist, histVars, repoVars
    <2>. QED
      BY <1>5, <2>3, <2>4, <2>5 DEF DoWork
  <1>6. ASSUME NEW c \in Schedulers, RescheduleCommit(c) PROVE TotalExact'
    <2>. DEFINE S == Cancelled(scan[c].expired) \cap args
    <2>1. /\ args' = args \ S /\ dropped' = dropped \cup S
          /\ stats'["total"] = stats["total"] /\ stats'["completed"] = stats["completed"]
      BY <1>0, <1>6 DEF RescheduleCommit, Reschedule, RepoTypeOK, StatNames
    <2>2. S \subseteq args
      OBVIOUS
    <2>. HIDE DEF S
    <2>3. IsFiniteSet(S) /\ Cardinality(S) \in Nat
      BY <1>1, <2>2, FS_Subset, FS_CardinalityType
    <2>4. Cardinality(args \ S) = Cardinality(args) - Cardinality(args \cap S)
      BY <1>1, FS_Difference
    <2>5. Cardinality(dropped \cup S)
              = Cardinality(dropped) + Cardinality(S) - Cardinality(dropped \cap S)
      BY <1>1, <2>3, FS_Union
    <2>6. args \cap S = S /\ dropped \cap S = {}
      BY <1>0, <2>2
    <2>7. Cardinality({}) = 0
      BY FS_EmptySet
    <2>8. /\ Cardinality(args') = Cardinality(args) - Cardinality(S)
          /\ Cardinality(dropped') = Cardinality(dropped) + Cardinality(S)
      <3>1. Cardinality(args') = Cardinality(args) - Cardinality(S)
        BY <2>1, <2>4, <2>6
      <3>2. Cardinality(dropped') = Cardinality(dropped) + Cardinality(S) - 0
        BY <2>1, <2>5, <2>6, <2>7
      <3>. QED
        BY <1>1, <2>3, <3>1, <3>2
    <2>. QED
      BY <1>1, <2>1, <2>3, <2>8 DEF TotalExact
  <1>7. CASE \/ Tick \/ UNCHANGED vars
             \/ \E s \in Servers : Restart(s)
             \/ \E s \in Servers, k \in Slots : DoWorkThrows(s, k)
             \/ \E c \in Schedulers : RescheduleRead(c) \/ RescheduleRetry(c)
    BY <1>2, <1>7
    DEF Tick, Restart, DoWorkThrows, RescheduleRead, RescheduleRetry, vars, repoVars, NoHist,
        histVars
  <1>. QED
    BY <1>3, <1>4, <1>5, <1>6, <1>7 DEF Next, Scheduler

LEMMA FinitePushedStep ==
    ASSUME IsFiniteSet(pushed), [Next]_vars
    PROVE  IsFiniteSet(pushed')
  <1>1. pushed' = pushed \/ \E id \in Tasks : pushed' = pushed \cup {id}
    BY DEF Next, Tick, Push, Acquire, Restart, DoWork, DoWorkTransactional, StartExternal, Handle,
           CommitExternal, Refresh, DoWorkThrows, Scheduler, RescheduleRead, RescheduleCommit,
           RescheduleRetry, vars, procVars, histVars, NoHist
  <1>. QED
    BY <1>1, FS_AddElement

LEMMA DoubledStays ==
    ASSUME [Next]_vars, doubled \in BOOLEAN
    PROVE  doubled => doubled'
  BY DEF Next, Tick, Push, Acquire, Restart, DoWork, DoWorkTransactional, StartExternal, Handle,
         CommitExternal, Refresh, DoWorkThrows, Scheduler, RescheduleRead, RescheduleCommit,
         RescheduleRetry, vars, procVars, histVars, NoHist

Exact ==
    /\ IsFiniteSet(pushed)
    /\ doubled \/ (OnePlace /\ CountersExact /\ TotalExact /\ BatchesDistinct)

LEMMA ExactStep ==
    TypeOK /\ IndexInv /\ KnownInv /\ Exact /\ [Next]_vars => Exact'
  <1>. SUFFICES ASSUME TypeOK, IndexInv, KnownInv, Exact, [Next]_vars PROVE Exact'
    OBVIOUS
  <1>1. IsFiniteSet(pushed')
    BY FinitePushedStep DEF Exact
  <1>2. ASSUME ~doubled'
        PROVE  OnePlace' /\ CountersExact' /\ TotalExact' /\ BatchesDistinct'
    <2>1. OnePlace /\ CountersExact /\ TotalExact /\ BatchesDistinct /\ IsFiniteSet(pushed)
      BY <1>2, DoubledStays DEF Exact, TypeOK
    <2>. QED
      BY <1>2, <2>1, PlacesStep, TotalStep, BatchesStep
  <1>. QED
    BY <1>1, <1>2 DEF Exact

\* What the invariant says of the number of keys a task has.
LEMMA ExactAgrees ==
    TypeOK /\ IndexInv /\ Exact => IndexesAgree
  <1>. SUFFICES ASSUME TypeOK, IndexInv, OnePlace, CountersExact, TotalExact PROVE IndexesAgree
    BY DEF Exact, IndexesAgree, IndexInv
  <1>1. timeouts = {[at |-> active[id].timeout, id |-> id] :
                        id \in {i \in Tasks : active[i] # NoLease}}
    <2>1. ASSUME NEW t \in timeouts
          PROVE  /\ t.id \in Tasks /\ active[t.id] # NoLease
                 /\ t = [at |-> active[t.id].timeout, id |-> t.id]
      BY DEF OnePlace, TypeOK, RepoTypeOK, TimeKeys
    <2>. QED
      BY <2>1 DEF IndexInv, ActiveHasTimeout
  <1>2. ASSUME NEW id \in Tasks
        PROVE  Cardinality({p \in pending : p.id = id})
                   + (IF InDelayed(id) THEN 1 ELSE 0)
                   + (IF active[id] # NoLease THEN 1 ELSE 0)
                       = (IF id \in args THEN 1 ELSE 0)
    <2>. DEFINE S == {p \in pending : p.id = id}
    <2>1. CASE InPending(id)
      <3>1. PICK p \in pending : S = {p}
        BY <2>1 DEF InPending, OnePlace, Distinct
      <3>2. Cardinality(S) = 1
        BY <3>1, FS_Singleton
      <3>3. id \in args /\ active[id] = NoLease /\ ~InDelayed(id)
        BY <2>1 DEF InPending, InDelayed, OnePlace
      <3>. QED
        BY <3>2, <3>3
    <2>2. CASE ~InPending(id)
      <3>1. Cardinality(S) = 0
        BY <2>2, FS_EmptySet DEF InPending
      <3>2. InDelayed(id) => id \in args /\ active[id] = NoLease
        BY DEF InDelayed, OnePlace
      <3>3. active[id] # NoLease => id \in args
        BY DEF OnePlace
      <3>4. id \in args => InDelayed(id) \/ active[id] # NoLease
        BY <2>2 DEF IndexInv, NothingLost
      <3>5. CASE InDelayed(id)
        BY <3>1, <3>2, <3>5
      <3>6. CASE ~InDelayed(id)
        BY <3>1, <3>3, <3>4, <3>6
      <3>. QED
        BY <3>5, <3>6
    <2>. QED
      BY <2>1, <2>2
  <1>. QED
    BY <1>1, <1>2 DEF IndexesAgree, IndexInv, CountersExact, TotalExact, Leased

LEMMA ExactInit == Init => Exact
  <1>. SUFFICES ASSUME Init PROVE Exact
    OBVIOUS
  <1>1. /\ pushed = {} /\ args = {} /\ dropped = {}
        /\ delayed = {} /\ pending = {} /\ timeouts = {}
        /\ \A id \in Tasks : active[id] = NoLease
        /\ stats = [s \in StatNames |-> 0]
        /\ \A s \in Servers, k \in Slots : job[s][k].batch = {}
    BY DEF Init, RepoInit, FreeSlot
  <1>2. IsFiniteSet({}) /\ Cardinality({}) = 0
    BY FS_EmptySet
  <1>3. Leased = {}
    BY <1>1 DEF Leased
  <1>. QED
    <2>1. OnePlace /\ BatchesDistinct
      BY <1>1 DEF OnePlace, BatchesDistinct, Distinct
    <2>2. stats["active"] = 0 /\ stats["scheduled"] = 0 /\ stats["total"] = 0
          /\ stats["completed"] = 0
      BY <1>1 DEF StatNames
    <2>3. CountersExact /\ TotalExact
      BY <1>1, <1>2, <1>3, <2>2 DEF CountersExact, TotalExact
    <2>. QED
      BY <1>1, <1>2, <2>1, <2>3 DEF Exact

\* The indexes of the key space agree and the counters are exact, whatever
\* processes and schedulers do, until a delayed task is moved twice.
THEOREM IndexesAlwaysAgree == Spec => []IndexesAgree
  <1>1. Init => TypeOK /\ IndexInv /\ KnownInv /\ Exact
    BY TypeInit, IndexInit, KnownInit, ExactInit
  <1>2. TypeOK /\ IndexInv /\ KnownInv /\ Exact /\ [Next]_vars
            => (TypeOK /\ IndexInv /\ KnownInv /\ Exact)'
    BY TypeStep, IndexStep, KnownStep, ExactStep
  <1>. QED
    BY <1>1, <1>2, ExactAgrees, PTL DEF Spec

\* A scan holds only timeouts that have passed.
ScanPast == \A c \in Schedulers : \A k \in scan[c].expired : k.at < now

LEMMA ScanPastStep ==
    ASSUME TypeOK, ScanPast, [Next]_vars
    PROVE  ScanPast'
  <1>0. ScanOK /\ now \in Nat /\ timeouts \subseteq TimeKeys
    BY TypeParts DEF ClockOK, RepoTypeOK
  <1>1. ASSUME scan' = scan, now' \in {now, now + 1} PROVE ScanPast'
    BY <1>0, <1>1 DEF ScanPast, ScanOK, ExpiredKeys
  <1>2. ASSUME NEW c \in Schedulers, scan' = [scan EXCEPT ![c] = NoScan], now' = now
        PROVE  ScanPast'
    BY <1>0, <1>2 DEF ScanPast, ScanOK, NoScan
  <1>3. ASSUME NEW c \in Schedulers, RescheduleRead(c) PROVE ScanPast'
    <2>1. PICK E \in LatestBefore(timeouts, now), D \in LatestBefore(delayed, now) :
              scan' = [scan EXCEPT ![c] = [phase |-> "read", expired |-> WithAttempts(E),
                                           due |-> D]]
      BY <1>3 DEF RescheduleRead
    <2>2. \A k \in WithAttempts(E) : k.at < now
      BY DEF WithAttempts, LatestBefore
    <2>3. now' = now
      BY <1>3 DEF RescheduleRead
    <2>. QED
      BY <1>0, <2>1, <2>2, <2>3 DEF ScanPast, ScanOK
  <1>4. CASE \/ \E id \in Tasks, startAt \in StartTimes : Push(id, startAt)
             \/ \E s \in Servers : Acquire(s) \/ Restart(s)
             \/ \E s \in Servers, k \in Slots : DoWork(s, k) \/ Refresh(s, k) \/ DoWorkThrows(s, k)
             \/ Tick \/ UNCHANGED vars
    BY <1>1, <1>4
    DEF Push, Acquire, Restart, DoWork, DoWorkTransactional, StartExternal, Handle, CommitExternal,
        Refresh, DoWorkThrows, Tick, vars, procVars
  <1>5. ASSUME NEW c \in Schedulers, RescheduleCommit(c) \/ RescheduleRetry(c) PROVE ScanPast'
    BY <1>2, <1>5 DEF RescheduleCommit, RescheduleRetry
  <1>. QED
    BY <1>3, <1>4, <1>5 DEF Next, Scheduler

LEMMA LeaseStep ==
    ASSUME TypeOK, OnePlace, ScanPast, [Next]_vars
    PROVE  LeaseKept
  <1>0. RepoTypeOK /\ JobOK /\ ScanOK /\ now \in Nat
    BY TypeParts DEF ClockOK
  <1>. SUFFICES ASSUME NEW id \in Tasks, active[id] # NoLease, active[id].timeout >= now,
                       id \in args'
                PROVE  active'[id] # NoLease /\ active'[id].lock = active[id].lock
    BY DEF LeaseKept
  <1>1. ASSUME active'[id] = active[id]
        PROVE  active'[id] # NoLease /\ active'[id].lock = active[id].lock
    BY <1>1
  <1>2. ASSUME NEW s \in Servers, Acquire(s) PROVE active'[id] = active[id]
    <2>1. PICK P \in SUBSET pending : AcquireWork(P, Seed(s), now + FirstLease)
      BY <1>2 DEF Acquire, OldestPending
    <2>2. id \notin Ids(P)
      BY DEF OnePlace, Ids
    <2>. QED
      BY <2>1, <2>2 DEF AcquireWork
  <1>3. ASSUME NEW B, CompleteWork(B) PROVE active'[id] = active[id]
    BY <1>3 DEF CompleteWork
  <1>4. ASSUME NEW s \in Servers, NEW k \in Slots, Refresh(s, k)
        PROVE  active'[id] # NoLease /\ active'[id].lock = active[id].lock
    <2>0. [lock |-> Seed(s), timeout |-> now + Lease] # NoLease
      <3>1. now + Lease \in Nat /\ Seed(s) \in Seeds
        BY <1>0, TypeParts, TimesAssumption DEF Seed, Seeds, ClockOK
      <3>. QED
        BY <3>1, NoLeaseAssumption DEF Leases
    <2>. DEFINE moved == {i \in Ids(job[s][k].batch) :
                             Holds(i, Seed(s)) /\ now + Lease >= active[i].timeout}
    <2>1. active' = [i \in Tasks |-> IF i \in moved
                                     THEN [lock |-> Seed(s), timeout |-> now + Lease]
                                     ELSE active[i]]
      BY <1>4 DEF Refresh, RefreshLock
    <2>2. id \in moved => active[id].lock = Seed(s)
      BY DEF Holds
    <2>. HIDE DEF moved
    <2>. QED
      BY <2>0, <2>1, <2>2
  <1>5. ASSUME NEW c \in Schedulers, RescheduleCommit(c) PROVE active'[id] = active[id]
    <2>. DEFINE E == scan[c].expired
    <2>1. /\ active' = [i \in Tasks |-> IF i \in Ids(E) THEN NoLease ELSE active[i]]
          /\ E \in SUBSET ExpiredKeys /\ ~Conflicts(E)
      BY <1>0, <1>5 DEF RescheduleCommit, Reschedule, ScanOK
    <2>2. \A k \in E : active[k.id].timeout = k.at /\ k.at < now /\ k.at \in Nat
      BY <1>0, <2>1, ScannedLeases DEF ScanPast, ExpiredKeys
    <2>3. id \notin Ids(E)
      BY <1>0, <2>2 DEF Ids
    <2>. QED
      BY <2>1, <2>3
  <1>6. CASE \/ \E i \in Tasks, startAt \in StartTimes : Push(i, startAt)
             \/ Tick \/ UNCHANGED vars
             \/ \E s \in Servers : Restart(s)
             \/ \E s \in Servers, k \in Slots :
                    StartExternal(s, k) \/ Handle(s, k) \/ DoWorkThrows(s, k)
             \/ \E c \in Schedulers : RescheduleRead(c) \/ RescheduleRetry(c)
    BY <1>1, <1>6
    DEF Push, PushWork, Tick, Restart, StartExternal, Handle, DoWorkThrows, RescheduleRead,
        RescheduleRetry, vars, repoVars
  <1>7. ASSUME NEW s \in Servers, NEW k \in Slots,
               DoWorkTransactional(s, k) \/ CommitExternal(s, k)
        PROVE  active'[id] = active[id]
    BY <1>3, <1>7 DEF DoWorkTransactional, CommitExternal
  <1>. QED
    BY <1>1, <1>2, <1>4, <1>5, <1>6, <1>7 DEF Next, DoWork, Scheduler

\* No scheduler and no other process takes a lease that has not run out, until a
\* delayed task is moved twice.
THEOREM LeasesAlwaysRespected == Spec => LeaseRespected
  <1>1. Init => TypeOK /\ IndexInv /\ KnownInv /\ Exact /\ ScanPast
    <2>1. Init => ScanPast
      BY DEF Init, ScanPast, NoScan
    <2>. QED
      BY <2>1, TypeInit, IndexInit, KnownInit, ExactInit
  <1>2. TypeOK /\ IndexInv /\ KnownInv /\ Exact /\ ScanPast /\ [Next]_vars
            => (TypeOK /\ IndexInv /\ KnownInv /\ Exact /\ ScanPast)'
    BY TypeStep, IndexStep, KnownStep, ExactStep, ScanPastStep
  <1>3. TypeOK /\ Exact /\ ScanPast /\ [Next]_vars => [LeaseKept \/ doubled']_vars
    BY LeaseStep, DoubledStays DEF Exact, TypeOK
  <1>. QED
    BY <1>1, <1>2, <1>3, PTL DEF Spec, LeaseRespected

----------------------------------------------------------------------------
(* The effect of a transactional handler happens once                      *)

SingleBatch ==
    \A s \in Servers, k \in Slots : \A p, q \in job[s][k].batch : p = q

LEMMA SingleStep ==
    ASSUME BatchSize = 1, TypeOK, SingleBatch, [Next]_vars
    PROVE  SingleBatch'
  <1>1. JobOK /\ IsFiniteSet(pending)
    BY TypeParts DEF RepoTypeOK
  <1>. SUFFICES ASSUME NEW s \in Servers, NEW k \in Slots,
                       NEW p \in job'[s][k].batch, NEW q \in job'[s][k].batch
                PROVE  p = q
    BY DEF SingleBatch
  <1>2. CASE job'[s][k].batch \in SUBSET job[s][k].batch
    BY <1>2 DEF SingleBatch
  <1>3. ASSUME NEW P \in SUBSET pending, NEW f \in Batches(s, P),
               job'[s][k] = [phase |-> "acquired", batch |-> {e \in P : f[e] = k}]
        PROVE  p = q
    <2>. DEFINE B == {e \in P : f[e] = k}
    <2>1. f \in [P -> FreeSlots(s)]
      BY <1>3 DEF Batches
    <2>2. p \in B /\ q \in B /\ k \in FreeSlots(s)
      BY <1>3, <2>1
    <2>3. IsFiniteSet(B)
      BY <1>1, FS_Subset
    <2>4. Cardinality(B) <= 1
      BY <1>3, <2>2 DEF Batches
    <2>. HIDE DEF B
    <2>. QED
      BY <2>2, <2>3, <2>4, AtMostOneElement
  <1>4. ASSUME \/ job'[s][k] = job[s][k]
               \/ job'[s][k] = FreeSlot
               \/ job'[s][k] = [phase |-> "running", batch |-> Live(s, k)]
               \/ job'[s][k] = [phase |-> "handled", batch |-> job[s][k].batch]
        PROVE  p = q
    BY <1>2, <1>4 DEF FreeSlot, Live
  <1>. QED
    BY <1>1, <1>3, <1>4, SlotChange

\* A stored task has not been handled, so that one completion is the only one.
OnceInv ==
    /\ args \subseteq pushed
    /\ type = "transactional" =>
           \A id \in Tasks :
               /\ effects[id] \in {0, 1}
               /\ id \in args \/ id \notin pushed => effects[id] = 0

\* A step that runs no handler, settles no task and pushes none.
LEMMA OnceUnchanged ==
    ASSUME OnceInv, UNCHANGED <<type, pushed, effects>>, args' \subseteq args
    PROVE  OnceInv'
  BY DEF OnceInv

LEMMA OnceStep ==
    ASSUME TypeOK, BatchesDistinct, OnceInv, [Next]_vars
    PROVE  OnceInv'
  <1>1. RepoTypeOK /\ JobOK /\ HistoryOK
    BY TypeParts
  <1>2. CASE Tick \/ UNCHANGED vars
    BY <1>2, OnceUnchanged DEF Tick, vars, procVars, histVars, repoVars
  <1>3. ASSUME NEW id \in Tasks, NEW startAt \in StartTimes, Push(id, startAt)
        PROVE  OnceInv'
    BY <1>3 DEF Push, PushWork, procVars, OnceInv
  <1>4. ASSUME NEW s \in Servers, Acquire(s) \/ Restart(s) PROVE OnceInv'
    BY <1>4, OnceUnchanged DEF Acquire, AcquireWork, Restart, NoHist, histVars, repoVars
  <1>5. ASSUME NEW s \in Servers, NEW k \in Slots, DoWorkTransactional(s, k) PROVE OnceInv'
    <2>. DEFINE B == Live(s, k)
    <2>1. /\ type = "transactional" /\ UNCHANGED <<type, pushed>>
          /\ CompleteWork(B) /\ CountEffects(B)
      BY <1>5 DEF DoWorkTransactional
    <2>2. /\ Distinct(B)
          /\ \A p \in B : p.id \in args /\ active[p.id] # NoLease
      BY DEF BatchesDistinct, Distinct, Live, Resolves, Holds
    <2>3. args' = args \ Ids(B)
      BY <2>1, <2>2 DEF CompleteWork, Ids
    <2>. HIDE DEF B
    <2>4. ASSUME NEW id \in Tasks
          PROVE  /\ effects'[id] \in {0, 1}
                 /\ id \in args' \/ id \notin pushed => effects'[id] = 0
      <3>. DEFINE n == Cardinality({p \in B : p.id = id})
      <3>1. effects'[id] = effects[id] + n
        BY <2>1 DEF CountEffects
      <3>2. n \in {0, 1}
        BY <2>2, OneCounted
      <3>3. CASE id \in Ids(B)
        <4>1. id \in args
          BY <2>2, <3>3 DEF Ids
        <4>2. effects[id] = 0
          BY <2>1, <4>1 DEF OnceInv
        <4>3. id \notin args' /\ id \in pushed
          BY <2>3, <3>3, <4>1 DEF OnceInv
        <4>. HIDE DEF n
        <4>. QED
          BY <3>1, <3>2, <4>2, <4>3
      <3>4. CASE id \notin Ids(B)
        <4>1. n = 0
          BY <3>4, NoneCounted
        <4>2. effects[id] \in {0, 1} /\ (id \in args \/ id \notin pushed => effects[id] = 0)
          BY <2>1 DEF OnceInv
        <4>. HIDE DEF n
        <4>. QED
          BY <2>3, <3>1, <4>1, <4>2
      <3>. QED
        BY <3>3, <3>4
    <2>. QED
      BY <2>1, <2>3, <2>4 DEF OnceInv
  <1>6. ASSUME NEW s \in Servers, NEW k \in Slots, StartExternal(s, k) \/ Handle(s, k)
        PROVE  OnceInv'
    <2>1. CASE StartExternal(s, k)
      BY <2>1, OnceUnchanged DEF StartExternal, NoHist, histVars, repoVars
    <2>2. CASE Handle(s, k)
      BY <2>2 DEF Handle, repoVars, OnceInv
    <2>. QED
      BY <1>6, <2>1, <2>2
  <1>7. ASSUME NEW s \in Servers, NEW k \in Slots,
               CommitExternal(s, k) \/ Refresh(s, k) \/ DoWorkThrows(s, k)
        PROVE  OnceInv'
    BY <1>7, OnceUnchanged
    DEF CommitExternal, CompleteWork, Refresh, RefreshLock, DoWorkThrows, NoHist, histVars,
        repoVars, procVars
  <1>8. ASSUME NEW c \in Schedulers, Scheduler(c) PROVE OnceInv'
    BY <1>8, OnceUnchanged
    DEF Scheduler, RescheduleRead, RescheduleCommit, RescheduleRetry, Reschedule, NoHist,
        histVars, repoVars
  <1>9. ASSUME NEW s \in Servers, NEW k \in Slots,
               DoWork(s, k) \/ Refresh(s, k) \/ DoWorkThrows(s, k)
        PROVE  OnceInv'
    BY <1>5, <1>6, <1>7, <1>9 DEF DoWork
  <1>. QED
    BY <1>2, <1>3, <1>4, <1>8, <1>9 DEF Next

\* With one task per run, or until a delayed task is moved twice, no batch names
\* a task twice.
SingleInv == BatchSize = 1 => SingleBatch

LEMMA OneIsDistinct == SingleBatch => BatchesDistinct
  BY DEF SingleBatch, BatchesDistinct, Distinct

BatchInv == TypeOK /\ IndexInv /\ KnownInv /\ Exact /\ SingleInv

LEMMA BatchInit == Init => BatchInv
  <1>1. Init => SingleInv
    BY DEF Init, SingleInv, SingleBatch, FreeSlot
  <1>. QED
    BY <1>1, TypeInit, IndexInit, KnownInit, ExactInit DEF BatchInv

LEMMA BatchStep == BatchInv /\ [Next]_vars => BatchInv'
  BY TypeStep, IndexStep, KnownStep, ExactStep, SingleStep DEF BatchInv, SingleInv

LEMMA BatchDistinct ==
    ASSUME BatchInv, [Next]_vars, BatchSize = 1 \/ ~doubled'
    PROVE  (BatchSize = 1 \/ ~doubled) /\ BatchesDistinct
  <1>1. CASE BatchSize = 1
    BY <1>1, OneIsDistinct DEF BatchInv, SingleInv
  <1>2. CASE ~doubled'
    BY <1>2, DoubledStays DEF BatchInv, Exact, TypeOK
  <1>. QED
    BY <1>1, <1>2

\* A transactional handler takes effect at most once, however leases expire,
\* processes die and schedulers race.
THEOREM AtMostOnce == Spec => []EffectAtMostOnce
  <1>. DEFINE Once == (BatchSize = 1 \/ ~doubled) => OnceInv
  <1>1. Init => BatchInv /\ Once
    <2>1. Init => OnceInv
      BY DEF Init, RepoInit, OnceInv
    <2>. QED
      BY <2>1, BatchInit
  <1>2. BatchInv /\ Once /\ [Next]_vars => (BatchInv /\ Once)'
    <2>. SUFFICES ASSUME BatchInv, Once, [Next]_vars, BatchSize = 1 \/ ~doubled'
                  PROVE  OnceInv'
      BY BatchStep
    <2>1. OnceInv /\ BatchesDistinct /\ TypeOK
      BY BatchDistinct DEF BatchInv
    <2>. QED
      BY <2>1, OnceStep
  <1>3. Once => EffectAtMostOnce
    BY DEF OnceInv, EffectAtMostOnce
  <1>. QED
    BY <1>1, <1>2, <1>3, PTL DEF Spec

----------------------------------------------------------------------------
(* The queue implements TaskQueue: every step is a step of that module on  *)
(* the stages of the tasks, or leaves them and the effects alone.          *)

\* Only a run of an external queue calls its handler outside a transaction.
ExternalInv ==
    \A s \in Servers, k \in Slots :
        job[s][k].phase \in {"running", "handled"} => type = "external"

LEMMA ExternalStep ==
    ASSUME TypeOK, ExternalInv, [Next]_vars
    PROVE  ExternalInv'
  <1>1. JobOK /\ type' = type
    BY TypeParts
    DEF Next, Tick, Push, Acquire, Restart, DoWork, DoWorkTransactional, StartExternal, Handle,
        CommitExternal, Refresh, DoWorkThrows, Scheduler, RescheduleRead, RescheduleCommit,
        RescheduleRetry, vars, procVars
  <1>2. ASSUME NEW s \in Servers, NEW k \in Slots, job'[s][k].phase \in {"running", "handled"}
        PROVE  type = "external"
    <2>1. CASE job'[s][k] = job[s][k]
      BY <1>2, <2>1 DEF ExternalInv
    <2>2. CASE Handle(s, k) \/ type = "external"
      BY <2>2 DEF Handle
    <2>3. job'[s][k].phase # "free" /\ job'[s][k].phase # "acquired"
      BY <1>2
    <2>4. ASSUME NEW B PROVE job'[s][k] # [phase |-> "acquired", batch |-> B]
      BY <2>3
    <2>5. job'[s][k] # FreeSlot
      BY <2>3 DEF FreeSlot
    <2>. QED
      BY <1>1, <2>1, <2>2, <2>4, <2>5, SlotChange
  <1>. QED
    BY <1>1, <1>2 DEF ExternalInv

LEMMA StageMoves ==
    ASSUME NEW S, NEW st, \A id \in Tasks : Stage(id)' = IF id \in S THEN st ELSE Stage(id)
    PROVE  Queue!Move(S, st)
  BY DEF Queue!Move

\* Completing a batch settles the tasks of it that are stored and leased.
LEMMA CompleteMoves ==
    ASSUME KnownInv, NEW B, CompleteWork(B), UNCHANGED <<pushed, dropped>>
    PROVE  LET S == Ids({e \in B : active[e.id] # NoLease}) \cap args
           IN  /\ Queue!Move(S, "done")
               /\ \A id \in S \cap Tasks : Stage(id) = "open"
  <1>. DEFINE S == Ids({e \in B : active[e.id] # NoLease}) \cap args
  <1>1. args' = args \ S /\ args \subseteq pushed /\ dropped \cap args = {}
    BY DEF CompleteWork, KnownInv, KeysKnown, HistoryKnown
  <1>2. S \subseteq args
    OBVIOUS
  <1>. HIDE DEF S
  <1>3. \A id \in Tasks : Stage(id)' = IF id \in S THEN "done" ELSE Stage(id)
    BY <1>1, <1>2 DEF Stage
  <1>4. \A id \in S \cap Tasks : Stage(id) = "open"
    BY <1>1, <1>2 DEF Stage
  <1>5. Queue!Move(S, "done")
    BY <1>3, StageMoves
  <1>. QED
    BY <1>4, <1>5 DEF S

\* A batch that names no task twice counts one run for each of its tasks.
LEMMA SingleCounts ==
    ASSUME HistoryOK, NEW B, Distinct(B), CountEffects(B)
    PROVE  Queue!CountRun(Ids(B))
  <1>1. ASSUME NEW id \in Tasks
        PROVE  effects'[id] = IF id \in Ids(B) THEN effects[id] + 1 ELSE effects[id]
    <2>. DEFINE S == {p \in B : p.id = id}
    <2>1. effects'[id] = effects[id] + Cardinality(S) /\ effects[id] \in Nat
      BY DEF CountEffects, HistoryOK
    <2>2. CASE id \in Ids(B)
      <3>1. PICK p \in B : S = {p}
        BY <2>2 DEF Ids, Distinct
      <3>2. Cardinality(S) = 1
        BY <3>1, FS_Singleton
      <3>. QED
        BY <2>1, <2>2, <3>2
    <2>3. CASE id \notin Ids(B)
      <3>1. Cardinality(S) = 0
        BY <2>3, NoneCounted
      <3>. QED
        BY <2>1, <2>3, <3>1
    <2>. QED
      BY <2>2, <2>3
  <1>2. effects' = [id \in Tasks |-> effects'[id]]
    BY DEF CountEffects
  <1>. QED
    BY <1>1, <1>2 DEF Queue!CountRun

LEMMA QueueStep ==
    ASSUME TypeOK, KnownInv, BatchesDistinct, HandledInv, ExternalInv, AttemptsInv, [Next]_vars
    PROVE  [Queue!Next]_(Queue!vars)
  <1>0. /\ RepoTypeOK /\ JobOK /\ ScanOK /\ HistoryOK
        /\ args \subseteq pushed /\ pushed \subseteq Tasks /\ dropped \cap args = {}
    BY TypeParts DEF HistoryOK, KnownInv, KeysKnown, HistoryKnown
  <1>1. ASSUME UNCHANGED <<type, args, pushed, effects, dropped>>
        PROVE  UNCHANGED Queue!vars
    BY <1>1 DEF Queue!vars, Stage
  <1>2. ASSUME NEW id \in Tasks, NEW startAt \in StartTimes, Push(id, startAt)
        PROVE  Queue!Next
    <2>1. /\ id \notin pushed /\ pushed' = pushed \cup {id} /\ args' = args \cup {id}
          /\ UNCHANGED <<type, effects, dropped>>
      BY <1>2 DEF Push, PushWork, procVars
    <2>2. Queue!Move({id}, "open")
      BY <1>0, <2>1, StageMoves DEF Stage
    <2>3. id \in Queue!InStage("new")
      BY <2>1 DEF Queue!InStage, Stage
    <2>. QED
      BY <2>1, <2>2, <2>3 DEF Queue!Next, Queue!Push
  <1>3. ASSUME NEW s \in Servers, NEW k \in Slots, DoWorkTransactional(s, k)
        PROVE  Queue!Next
    <2>. DEFINE B == Live(s, k)
    <2>1. /\ type = "transactional" /\ UNCHANGED <<type, pushed, dropped>>
          /\ CompleteWork(B) /\ CountEffects(B)
      BY <1>3 DEF DoWorkTransactional
    <2>2. /\ Distinct(B)
          /\ Ids({e \in B : active[e.id] # NoLease}) \cap args = Ids(B)
          /\ Ids(B) \subseteq Tasks
      BY <1>0 DEF BatchesDistinct, Distinct, Live, Resolves, Holds, Ids, JobOK, Entries
    <2>. HIDE DEF B
    <2>3. Queue!Move(Ids(B), "done") /\ \A id \in Ids(B) : Stage(id) = "open"
      BY <2>1, <2>2, CompleteMoves
    <2>4. Queue!CountRun(Ids(B))
      BY <1>0, <2>1, <2>2, SingleCounts
    <2>5. Ids(B) \subseteq Queue!InStage("open")
      BY <2>2, <2>3 DEF Queue!InStage
    <2>6. Queue!Perform(Ids(B))
      BY <2>1, <2>3, <2>4, <2>5 DEF Queue!Perform
    <2>. QED
      BY <2>2, <2>6 DEF Queue!Next
  <1>4. ASSUME NEW s \in Servers, NEW k \in Slots, Handle(s, k)
        PROVE  Queue!Next
    <2>. DEFINE B == job[s][k].batch
    <2>1. /\ type = "external" /\ UNCHANGED <<type, args, pushed, dropped>> /\ CountEffects(B)
      BY <1>4 DEF Handle, repoVars
    <2>2. Distinct(B) /\ Ids(B) \subseteq pushed
      BY DEF BatchesDistinct, KnownInv, JobKnown
    <2>. HIDE DEF B
    <2>3. Queue!CountRun(Ids(B))
      BY <1>0, <2>1, <2>2, SingleCounts
    <2>4. Ids(B) \cap Queue!InStage("new") = {}
      BY <2>2 DEF Queue!InStage, Stage
    <2>5. UNCHANGED [id \in Tasks |-> Stage(id)]
      BY <2>1 DEF Stage
    <2>6. Queue!Run(Ids(B))
      BY <2>1, <2>3, <2>4, <2>5 DEF Queue!Run
    <2>. QED
      BY <1>0, <2>2, <2>6 DEF Queue!Next
  <1>5. ASSUME NEW s \in Servers, NEW k \in Slots, CommitExternal(s, k)
        PROVE  Queue!Next
    <2>. DEFINE B == job[s][k].batch
                S == Ids({e \in B : active[e.id] # NoLease}) \cap args
    <2>1. /\ CompleteWork(B) /\ UNCHANGED <<type, pushed, effects, dropped>>
          /\ job[s][k].phase = "handled" /\ type = "external"
      BY <1>5 DEF CommitExternal, NoHist, histVars, ExternalInv
    <2>2. Queue!Move(S, "done") /\ S \subseteq Tasks /\ \A id \in S : Stage(id) = "open"
      BY <1>0, <2>1, CompleteMoves
    <2>3. \A id \in S : effects[id] > 0
      BY <2>1 DEF HandledInv, Ids
    <2>. HIDE DEF S
    <2>4. Queue!Confirm(S)
      BY <2>1, <2>2, <2>3 DEF Queue!Confirm
    <2>. QED
      BY <2>2, <2>4 DEF Queue!Next
  <1>6. ASSUME NEW c \in Schedulers, RescheduleCommit(c)
        PROVE  [Queue!Next]_(Queue!vars)
    <2>. DEFINE E == scan[c].expired
                S == Cancelled(E) \cap args
    <2>1. /\ args' = args \ S /\ dropped' = dropped \cup S
          /\ UNCHANGED <<type, pushed, effects>>
      BY <1>6 DEF RescheduleCommit, Reschedule
    <2>2. CASE MaxAttempts = Infinite
      <3>1. S = {}
        BY <2>2 DEF AttemptsInv, Cancelled, Remaining, Infinite
      <3>. QED
        BY <1>1, <2>1, <3>1
    <2>3. CASE MaxAttempts # Infinite
      <3>. HIDE DEF S
      <3>0. S \subseteq args
        BY DEF S
      <3>1. Queue!Move(S, "dropped")
        BY <1>0, <2>1, <3>0, StageMoves DEF Stage
      <3>2. S \subseteq Queue!InStage("open")
        BY <1>0, <3>0 DEF Queue!InStage, Stage
      <3>3. Queue!GiveUp(S)
        BY <2>1, <2>3, <3>1, <3>2 DEF Queue!GiveUp
      <3>. QED
        BY <1>0, <3>0, <3>3 DEF Queue!Next
    <2>. QED
      BY <2>2, <2>3
  <1>7. ASSUME NEW s \in Servers, Acquire(s) \/ Restart(s) PROVE UNCHANGED Queue!vars
    BY <1>1, <1>7 DEF Acquire, AcquireWork, Restart, NoHist, histVars, repoVars
  <1>8. ASSUME NEW s \in Servers, NEW k \in Slots,
               StartExternal(s, k) \/ Refresh(s, k) \/ DoWorkThrows(s, k)
        PROVE  UNCHANGED Queue!vars
    BY <1>1, <1>8
    DEF StartExternal, Refresh, RefreshLock, DoWorkThrows, NoHist, histVars, repoVars, procVars
  <1>9. ASSUME NEW c \in Schedulers, RescheduleRead(c) \/ RescheduleRetry(c)
        PROVE  UNCHANGED Queue!vars
    BY <1>1, <1>9 DEF RescheduleRead, RescheduleRetry, NoHist, histVars, repoVars
  <1>10. CASE Tick \/ UNCHANGED vars
    BY <1>1, <1>10 DEF Tick, vars, procVars, histVars, repoVars
  <1>. QED
    BY <1>2, <1>3, <1>4, <1>5, <1>6, <1>7, <1>8, <1>9, <1>10 DEF Next, DoWork, Scheduler

\* The queue does what TaskQueue promises to the callers of pushWork: with one
\* task per run, as addWorkers configures it, always; with larger batches as long
\* as no delayed task is moved twice.
THEOREM ImplementsTaskQueue == Spec /\ [](BatchSize = 1 \/ ~doubled) => QueueSpec
  <1>. DEFINE I == /\ BatchInv /\ HandledInv /\ ExternalInv
                   /\ AttemptsInv /\ DroppedAfterAllAttempts
              Sole == BatchSize = 1 \/ ~doubled
  <1>1. Init => I
    <2>1. Init => /\ HandledInv /\ ExternalInv
                  /\ AttemptsInv /\ DroppedAfterAllAttempts
      BY DEF Init, RepoInit, FreeSlot, HandledInv, ExternalInv, AttemptsInv,
             DroppedAfterAllAttempts
    <2>. QED
      BY <2>1, BatchInit
  <1>2. I /\ [Next]_vars => I'
    BY BatchStep, HandledStep, ExternalStep, AttemptsStep DEF BatchInv
  <1>3. Init => Queue!Init
    BY DEF Init, RepoInit, Queue!Init, Stage
  <1>4. I /\ Sole' /\ [Next]_vars => [Queue!Next]_(Queue!vars)
    BY QueueStep, BatchDistinct DEF BatchInv
  <1>. QED
    BY <1>1, <1>2, <1>3, <1>4, PTL DEF Spec, QueueSpec, Queue!Spec

=============================================================================
