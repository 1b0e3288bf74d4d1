# openland-server: models and proofs

TLA+ models of the parts of openland-server whose correctness depends on
interleavings, failures, time, or long sequences of operations: the durable task
queues, the sharding of services over processes, the delivery of events, remote
streams, the money of the wallet, voice chats, and the unread counters with the
counting tree under them. Paths below are relative to `src/packages/`.

Contents

1. [The system](#1-the-system)
2. [The modules](#2-the-modules)
3. [The runs](#3-the-runs)
4. [The proofs](#4-the-proofs)
5. [Disagreements met on the way](#5-disagreements-met-on-the-way)
6. [What is not modelled](#6-what-is-not-modelled)
7. [Plan](#7-plan)

## 1. The system

Many identical server processes run over one FoundationDB cluster. Everything
durable is in the database, and `inTx` makes a request a serialisable
transaction that is begun again when something it read has changed. Processes
speak to each other only through the database and a NATS bus that may lose
messages. So a bug lives in one of few places: between two transactions of one
loop, in a snapshot read, in a call of an external service from inside a
transaction, in a message that is late, in a clock, or in a fact that several
records repeat and every operation has to keep in step.

### Components

| Component | State it keeps | Operations | Talks to |
|---|---|---|---|
| Durable task queue (`openland-module-workers`: `WorkQueueRepository`, `BetterWorkerQueue`, `startScheduler`) | per task: arguments, versionstamped pending entry or delayed key, active key with lock and timeout, attempts; a timeouts index; five counters | `pushWork`, `acquireWork`, `refreshLock`, `resolveActiveTasks`, `completeWork`, `rescheduleTasks` | every module that defers work |
| Keyed queue (`SyncWorkerQueue`) | per key: a task store, a counter, an enqueued flag | `pushWork`, the worker loop | the durable queue; calls |
| Sharding (`openland-module-sharding`) | nodes with state and timeout, allocations of shards to nodes; in a process: allocator loop, refresh loop, one manager per node identifier | join, heartbeat, leave, left, `scheduleShards`, allocation ready and removed | presence groups, push worker |
| Events (`openland-module-events`) | feeds with events and latest references, subscriptions, an index of changed feeds per subscriber, a sequence number and an on-line timeout per subscriber | `subscribe`, `unsubscribe`, `post`, `refreshOnline`, `getState`, `getDifference`, receivers | bus; messaging |
| Wallet (`openland-module-wallet`) | wallets, transactions, payments, payment intents, payment scheduling, subscriptions and their periods, user passes | create, charge, retry and cancel a payment; create, extend, pause, expire and cancel a subscription | Stripe; durable queue; `PremiumChatMediator` |
| Remote streams (`openland-module-pubsub/RemoteTransport`, `openland-spacex/remoteExecutor`) | at each end: status, numbers sent and processed, a buffer of what came early, messages kept for another try, retry timer, watchdog | connect, send, acknowledge, ask again, keep alive, stop | bus; broker; GraphQL subscriptions |
| Voice chats (`openland-module-voice-chats`) | a participant per chat and user with status, role and hand; four counters; the active chat of a user; `active` of a chat; the voice chat of a room | create, join, leave, raise hand, promote, demote, admin rights, kick, end | calls; events |
| Unread counters (`openland-module-messaging/counters`) | per chat: a reference and counting collections of messages, the list of direct subscribers; per user and chat: position, muted, direct or async, counts; per user: async subscriptions and eight totals | on message, on read, on join and leave, on dialog mute; local and global counts | messaging |
| Counting collection (`openland-module-db/collections`) | a B+ tree of numbers whose nodes hold bounds, counts and parents | add, remove, count a range | unread counters |
| Calls (`openland-module-calls`) | conferences, peers, streams, budgets of media servers | join, offer, answer, keep alive, leave | keyed queue; media servers |
| Messaging (`openland-module-messaging`) | rooms, messages, read positions, deliveries | send, edit, delete, deliver, read, notify | durable queue, events, counters |
| Presence, authentication, users, organizations, content, search, push, e-mail, API | records of their own | one transaction per operation | database |

`PROJECT.json` lists all of them, modelled or not, with their sources.

### How the modelled ones interact

- `pushWork` is called inside the transaction of a request, so a task exists
  exactly when the request committed. A payment attempt, a delivery, a push are
  such tasks; whatever the queue promises, they rely on.
- `SyncWorkerQueue` runs on a durable queue of external type with unlimited
  attempts: one job works a key until its store is empty.
- A payment scheduler enqueues attempts. An attempt calls Stripe from inside the
  transaction that records the result. Stripe's events arrive in another reader,
  and cancellations in a third loop.
- A payment event is routed in the same transaction to the subject of the
  payment: a subscription's period, a wallet transaction, an income of the chat's
  owner, the pass of the user.
- The push worker and the presence groups run in shards: a process is told by
  the directory which shards are its own.
- Every change a client sees goes through a feed: posted in the transaction of
  the change, published after it commits.
- A GraphQL subscription may be executed on another server: a broker call starts
  it, a pair of `RemoteTransport`s over the bus carries its events.
- Sending, editing, deleting and reading messages, membership and notification
  settings all end in the counters, in the same transaction; the counters file each
  message in up to a handful of counting trees of its chat.
- Joining a voice chat leaves the one the user was in; leaving may end a chat;
  ending it makes everybody leave.

### What is hard, and what makes each component correct

**Durable queue.** Leases expire under running handlers; the lock is checked when
a run begins and not when it completes; a scheduler scans from a snapshot and
commits later, beside other schedulers; processes die with a batch in hand. It is
correct when no stored task is out of reach of every loop, a task leaves only
handled or out of attempts, a transactional handler takes effect once, a lease
that has not run out is respected, and indexes and counters agree.

**Keyed queue.** A push may commit while a worker is about to release the key. It
is correct when the store, the counter and the flag agree, no task is stored
without a job that will work it, and the tasks of a key are handled in order.

**Sharding.** The directory changes while processes act on an older copy of it.
A heartbeat may be late, a process may be killed while it starts a shard. It is
correct when one node is named to serve a shard, a handover leaves no gap, and
the processes end up where the directory says.

**Events.** The test whether a subscriber is on-line is a snapshot read; numbers,
messages and versionstamps are given by different steps; messages are lost; a
client trusts the position of the last update it got. It is correct when no
position hides an event that the client does not have.

**Payments.** A charge and the transaction that records it can fail apart; three
actors look up the same intent; a cancellation races with a charge. It is
correct when payment, intent and Stripe agree, an attempt is never marked in
progress with no task behind it, what is completed stays so, and a charge that is not
yet recorded is in the hands of somebody who will record it.

**Subscriptions.** Days pass, renewals are created a day early, payments fail and
succeed late, the user cancels or pays at any time. It is correct when the user
has access for the days that are paid, the owner earns none of them twice, no cent
is lost, nothing throws that would make a reader retry for ever, and a paused
subscription has a way to go on or to end.

**Which of these loops run.** At this commit `WalletModule.start`
(`openland-module-wallet/WalletModule.ts:58-62`) starts only the reader that stores
Stripe's events. The workers that export customers and cards, the intent commiter,
the payment scheduler and the subscriptions scheduler are commented out there. What
is still called without them is what clients and other modules call:
`updatePaymentIntent`, `tryCancelPayment` (from
`openland-module-super/Debug.resolver.ts` and `openland-module-messaging/mediators/DonationsMediator.ts`)
and `tryCancelSubscription` (from `Debug.resolver.ts`). The models describe the functions and workers
of the module as they are written, all of them together. Safety does not need that
anything runs: it holds whichever of the loops is started. Liveness does, so none is
claimed that rests on one of these loops.

**Remote streams.** The broker may answer after the events arrive, or never; a
message is lost and asked for again while others pass it; either end may stop
first. It is correct when the reader gets what was sent in order and without a
gap, what it did not get is kept for it, and one end does not outlive the other.

**Voice chats.** Each fact is kept several times and the operations call each
other inside one transaction. It is correct when the counters agree with
the lists, the pointers between user, chat and room agree, and a chat is active
exactly while somebody leads it.

**Unread counters.** A count is never computed from the messages: six collections
are added and subtracted, the count is kept for some subscribers and recomputed
for others, and totals move by differences. It is correct when after any history
of edits, deletions, reads, joins and mutings each of them is what counting the
messages would give.

**Counting collection.** Splitting, lending and merging rewrite bounds, counts and
parents of several nodes. It is correct when every range counts what it contains
and no operation throws.

The list of hazards, each at its line and with the properties that would catch
it, is in `PROJECT.json`.

## 2. The modules

A transaction is one step when everything it reads adds a conflict; it is
several steps when it reads from a snapshot or awaits something outside the
database (a bus, Stripe, a factory). The loops of a process are actions of their
own, so that every delay between two awaits is an interleaving. Identifiers drawn
at random are members of a set; a versionstamp is a position in an order. History
variables (what was pushed, handled, expired, dropped, demoted) exist only for
properties.

| Module | Models | Extends or instantiates |
|---|---|---|
| `TaskQueue` | what a durable queue promises, without leases, locks or processes | |
| `WorkQueueRepository` | the key space of one queue; an operator for the write set of each repository method | |
| `BetterWorkerQueue` | worker processes and schedulers over it; the refinement `Queue` | `WorkQueueRepository`; `TaskQueue` |
| `SyncWorkerQueue` | keyed queues over what `TaskQueue` promises | |
| `ShardingRepository` | nodes and allocations of a region, `scheduleShards` whole | |
| `ShardRegion` | allocator and refresh loops, managers, schedulers, shutdown, kills | `ShardingRepository` |
| `EventsDelivery` | one subscriber: transactions on its feeds, sequence numbers, bus, receiver, difference | |
| `MessageStream` | what the reader of a remote stream is promised | |
| `RemoteTransport` | one remote subscription: executor, caller, their transports, broker and bus; the refinement `Stream` | `MessageStream` |
| `Payments` | the state machine of a payment entity | |
| `PaymentMediator` | one payment between database, queue workers, Stripe, its events and cancellations | `Payments` |
| `Subscriptions` | a user's subscriptions to a chat with periods, pass, wallet and income | `Payments` |
| `VoiceChats` | participants, counters, active chats and rooms, every operation on them | |
| `Counters` | filing of messages, direct and async subscribers, totals, and the handlers that reach them | |
| `BPlusTree` | the tree of a counting collection, operation by operation | |
| `MCBetterWorkerQueue`, `MCEventsDelivery` | symmetry for TLC | the module they name |
| `MCShardRegion` | `ShardRegion` with node identifiers drawn in a fixed order | `ShardRegion` |
| `MCSubscriptions`, `MCCounters` | model values and inputs for TLC | the module they name |
| `Payments_proofs` | theorems and proofs | `PaymentMediator`, `Subscriptions` |
| `Calls_proofs` | theorems and proofs: the keyed queue that runs calls, and voice chats | `SyncWorkerQueue`, `VoiceChats` |
| `Cluster_proofs` | theorems and proofs: shards and streams between processes | `ShardRegion`, `RemoteTransport` |
| `BPlusTree_lemmas` | what a B+ tree is; searching, counting, splitting and adding | `BPlusTree` |
| `BPlusTree_proofs` | neighbours, lending, merging, removing; the theorems | `BPlusTree_lemmas` |
| the other `..._proofs` | theorems and proofs | the module they name |

Three proof modules extend two components each, so what both would call `Init`, `Next`
or `Spec` has a prefix in one of them: `PM` in `PaymentMediator` (`PMInit`, `PMNext`,
`PMSpec`, `PMTypeOK`), `Voice` in `VoiceChats`, `Transport` in `RemoteTransport` and
`Tree` in `BPlusTree`.

### BetterWorkerQueue and WorkQueueRepository

`pending` holds entries with the versionstamp that orders them, `delayed` the
keys of delayed tasks, `active` the lease of a task (lock and timeout),
`timeouts` the index of leases, `failures` the attempts left, `args` the tasks
whose arguments are stored, `stats` the counters. Each run of `doWork` is a slot
of a process and keeps the batch it acquired. A transactional run resolves,
handles and completes in one transaction (`DoWorkTransactional`); an external one
does so in three (`StartExternal`, `Handle`, `CommitExternal`) with `Refresh`
beside it. The lock is the seed of an `#addWorkers` call, so a restarted process
has a new one. `rescheduleTasks` is `RescheduleRead` and `RescheduleCommit`: it
reads from a snapshot, then adds a read conflict for the expired timeouts it
takes (`Conflicts`, `RescheduleRetry`), and for the delayed tasks adds none.

### SyncWorkerQueue

`store`, `counter` and `enqueued` are the three records of a key. `Start`, `Read`,
`HandleTransactional` or `HandleExternal` and `CommitExternal`, `Complete` are the
awaits of the worker loop. A lost lease lets a second worker start the same job.

### ShardingRepository and ShardRegion

Every method of the two repositories ends with `scheduleShards`, so every
operator ends with `ScheduleShards`: clean up after nodes that are gone, take back
what leaving nodes need not serve any more, deduplicate, place what is missing on
the least loaded joined nodes. `view` is the copy of the allocations a process
last read; a manager decides on the copy, awaits the factory or the stop function
and then reports. `RegionFirst` is the set of processes whose region handler was
registered for shutdown before the module's, both of which orders occur in the
code.

### EventsDelivery

`log` is the sequence of committed posts and subscription changes and a
versionstamp is a position in it. `Begin` takes the snapshot read of `isOnline`,
`Commit` the rest of the transaction with its messages: `n` is how many of them
found the subscriber still on-line, since each operation compares with the clock
again. Of the transactions open on one feed only one can commit, so one per feed
is enough. A message stays on `wire` until it is received: a bus that loses, delays
and reorders is a receiver that takes what is there in any order or never. Two
places are stated as assumptions: a transaction (5 s at most) and a refresh together
take no longer than `ONLINE_GAP` (`TxTime`, `RefreshTime`), and a client applies
updates once it has loaded a difference after the start (`Deliver`), because the
clients are not part of the repository.

### RemoteTransport and MessageStream

The executor only sends and the caller only acknowledges, so `server` is the
sender's half of the class and `client` the receiver's half; the body of message
`n` is `n`. `HandleMessage`, `FlushIfNeeded`, `OnReceivedSeq` and
`StartRetryTimerIfNeeded` are functions on the receiver's record, because the code
calls them one inside the other without an await. A retry timer that has fired
remains (`running` is false), as in the code. Keep-alives carry nothing: the
watchdog may fire whenever it is armed, since its timeout equals the interval of
the keep-alives. `ordered` chooses whether the bus keeps the order of a subject.
`ExecutorStarts` says that the executor's transport was started, which the code
forgets (section 5). `MessageStream` is a counter of what was sent and a sequence
of what was got that grows by the next message only and no more once closed.

### PaymentMediator, Payments, Subscriptions

`inTx` nests into the outer transaction, so a whole attempt is one database
transaction that calls Stripe on its way: a worker keeps the snapshot it read
(`snap`) and the records as it has changed them (`view`), and `Commit` succeeds
only if what it read is unchanged (`Isolated`). Stripe is modelled from its use:
the idempotency key makes the creation of an intent idempotent; `succeeded` and
`canceled` are final; a confirmation succeeds, is declined or asks the user.
`Payments` has the guards of the four handlers of a payment, used both here and
in `Subscriptions`, where days are counted from the start of the current period
and all effects of a payment event on period, wallet, income and pass are one
step as in the code, with one exception. `incomeSuccess` settles the incomes that were
announced for a transaction in callbacks of `forEach(async ...)`, which nobody awaits
(`openland-module-wallet/repo/WalletRepository.ts:305-316`): they may run after their
transaction has returned, and what they throw is not seen. The model's
`incomeSuccess` is therefore a set of outcomes, settled or left as announced, and the
step chooses one.

An attempt's transaction may be begun again any number of times (`TooOld`), an updater
may stop at any step (`UpdaterDies`), and a worker may die up to `MaxDeaths` times
(`Abandon`), which `deaths` counts because a property speaks of it. `Otherwise` is
where `updatePaymentIntent` leaves its two callers when it has not completed the
intent.

### VoiceChats

An operation is a function on a record of the database (`Db`), so that one can be
applied to the outcome of another: `ChangeRole` applies `LeaveChat`, which applies
`SetInactive`, which applies `Gone`. Counters only ever change by differences
(`Counted`), never by counting anew, and an action is the operation with the
guards of its resolver and mediator. `On` says what is on a list; the hand of a
participant is on the list of hands only while he is joined (`IsHandRaised`), as the
index of the store has it. `stale` and `demoted` are histories that mark
what the two exceptions of the properties speak of.

### Counters and BPlusTree

`counters` is what `MessageCountersDirectory` stores. `FiledUnder` names the
collections a message belongs to, `count` adds and subtracts six of them past a
position, `Moved` moves the totals of a user by the difference of two states.
`onMessage`, `Subscribe`, `readMessages`, `unsubscribe` and `updateMuted` are the
methods of `NewCountersRepository`; the actions are the handlers of
`MessagingMediator` and `RoomMediator` that call them, with the messages that
joining and leaving write and the position that joining sets. A counting
collection is a set of numbers here; that the tree really counts like a set is
what `BPlusTree` shows, which models the tree operation by operation: search,
splitting at `maxBranch`, borrowing from siblings, merging, the count of a range
from the counts in inner nodes, and the transaction that is rolled back when an
operation throws. Where the code walks up or down the tree in a loop or by calling
itself, the model has one round (`Tell`, `Split`, `Merge`) and a function that repeats
it, once for each of the `Levels` a tree may have: no more than it has nodes. A round
after the last one changes nothing.

## 3. The runs

Every cfg has `CHECK_DEADLOCK FALSE`: the bounded models really stop when clock,
pushes and faults are used up. Bounds are constants named in the module and appear
in guards only.

| Run | Instance | Shows |
|---|---|---|
| `bwq` | 2 tasks, 2 processes, 2 schedulers, 2 attempts, batches of 2, scan limit 1, clock to 4, failures to 2; symmetric | no task lost, none handled twice in a transaction, none dropped early, leases respected, indexes and counters exact |
| `bwq_live` | 2 tasks, 2 processes, 1 scheduler, unlimited attempts; fair | every task is settled; the queue implements `TaskQueue` |
| `sync` | 1 key, 2 workers, 4 pushes, 2 lost leases, 1 death; fair | records agree, nothing stranded, order kept, everything worked |
| `sync_crossed` | 2 queues on one key | violated: a handler gets the tasks of another queue |
| `shard` | 3 node identifiers, 1 shard, 2 processes with either order of shutdown, clock to 1; fair | the directory names one node; allocations follow nodes; no gap in a handover; in the end the shard runs where the directory says and nowhere else |
| `events` | 2 feeds, subscribed to or not at first, 2 operations, the subscriber expires after 3 of 5 ticks, transactions and refreshes run across a tick; symmetric | a position hides no event, but for a raced transaction; the index of changed feeds is exact |
| `stream` | 3 messages, 2 lost, in order or not; fair | the reader gets a prefix in order; what it did not get is kept; both ends end; without a loss everything arrives |
| `payments` | 2 workers, attempts counted to 3, 1 death of a worker, updaters that stop at any step; a cancellation is fair | records and Stripe agree; what is completed stays; a charge not yet recorded is in somebody's hands; a cancellation ends |
| `subscriptions` | 2 subscriptions, 2 periods each, days 0 to 2 of a period, grace 1, 3 retries | access, income and money follow what is paid; a paid period keeps its access; a paused subscription has a way on |
| `voice` | 2 users, a chat of the room and one outside, 2 hands | counters agree with lists, but for hands of those gone; pointers and memberships agree; a chat ends with its last admin |
| `counters` | 2 users, a room, a private chat, limit 0, 2 messages of which 1 private | every count and total is that of the messages; the records of a subscription agree |
| `btree` | 11 values, 2 to 3 children per node | every range counts what it contains; no operation throws but a deep merge |

### Why the bounds are enough to be interesting

- *Queue*: two tasks with a scan limit of 1 make the scan stop between two
  tasks, and between the two timeout keys of one. Two attempts distinguish a retry
  from a drop. The clock runs through two leases and a second start.
- *Keyed queue*: four pushes fill the store before, during and after a worker's
  read; a lost lease puts two workers on one key.
- *Sharding*: three identifiers for two processes let one process expire or be
  killed and come back under another name while the other serves. `MCShardRegion`
  draws identifiers in a fixed order, which renames behaviours and drops none, and
  unlike a symmetry is sound for liveness. One shard leaves the choice of placement
  small; the proofs cover any number of shards and nodes.
- *Events*: two operations are a post the subscriber misses and one it gets, in two
  transactions at once or one after the other, or a subscription (or its end) with
  a post. The clock runs two ticks past the first expiry; a transaction may begin
  before it and commit after it, beside a refresh that stalls for a tick, which
  together fill the gap (`TxTime + RefreshTime = OnlineGap`). A transaction begins
  only if there is room in the log for all that are open, which drops only
  transactions that could never commit. With a gap of zero, where no transaction
  spans a tick, neither of the two exceptions of `CursorCovers` that involve the
  clock would show.
- *Streams*: three messages are one processed, one missing and one buffered; two
  losses are a message and the stop signal behind it, or two in a row.
- *Payments*: two workers hold two attempts of one payment, which an expired lease
  makes possible; a worker may die at any step, and a transaction be aborted at any time.
- *Subscriptions*: prices and deposits are small numbers with the minimal charge
  between them, so that a price is paid by wallet, by card or by both. Grace,
  retry limit, interval and lead keep the order they have in the code.
- *Voice chats*: a user comes from one chat to the other with the other user in
  either; histories are unbounded except for the hands up at a time.
- *Counters*: with limit 0 the first subscriber of a chat is direct and the second
  async, since the limit is compared before the new one is added; the two come and
  go in every order. Two messages, edited, deleted and read at will, mention
  everybody, one or nobody; the private chat has messages for one reader.
- *Tree*: with 4 branches a node has 2 or 3 children; 11 values reach three levels
  and, by removals, every way back.

### Fairness, and why the code justifies it

Only loops that the code runs for ever, and steps that end by themselves, are
fair, and weakly.

- *Queue* (`bwq_live`): the clock, the acquiring loop of every process, a run that
  has begun (handlers end or throw), the scheduler. Processes may fail only up to
  `LastFailure`: liveness is claimed once failures stop.
- *Keyed queue* (`sync`): a worker that has begun goes on, and the job queue starts
  open jobs again, which is what `bwq_live` shows of it.
- *Sharding* (`shard`): the clock, a scheduler, the managers, the loops of
  processes. The liveness property adds that some process stays joined, that nobody
  has its refresh loop stopped for good, and that no expired node joined again.
- *Streams* (`stream`): the bus hands over what it does not lose, the broker
  answers or times out, timers fire; a watchdog fires for sure only when the other
  end is silent. Nothing is assumed of the reader or of the source of events.
- *Payments*: a cancellation that has begun goes on (`tryCancelPaymentIntent` is one
  loop) unless its process dies. Nothing is assumed of attempts, of the reader of
  events, of users and of Stripe.
- *Subscriptions*: none, and no liveness is claimed: the scheduler and the canceler
  are not started (section 1).

### Exceptions that properties state

Some properties hold only up to a window the code really has; they name it.

- `EffectAtMostOnce`, `IndexesAgree` and `LeaseRespected` except the case that a
  delayed task was moved twice (`doubled`, see section 5).
- `CursorCovers` excepts unnumbered events (`raced`) of two kinds: of a transaction
  that was open when the receiver went on-line, and of one that committed after the
  subscriber expired, because its refreshes stalled, beside a transaction that had
  still found it on-line and is numbered later (`FindsOnline`). The receiver never
  misses the first event, and a number after it moves the position past it.
- `ChargeInHand` excepts the death of a worker, whose attempt may have charged, and a
  payment that was canceled before it had an intent, under an uncommitted attempt.
- `CancelEnds` says that the payment is completed, not that the call returns
  (section 5).
- `EarnedOncePaid` lets an announced income stay unsettled although its period is
  paid, as the callbacks nobody awaits may leave it.
- `CountersAgree`: the count of raised hands is larger than its list by the hands of
  those who left or were kicked with a hand up (`HandsLeftUp`).
- `OnlyUntriedRenewalsThrow` confines what throws to a pass of the scheduler over a
  renewal that nobody has tried to charge.
- `HandledInOrder` speaks of keys that no two workers shared, `EventuallySettled`
  of `ShardRegion` of nodes that did not join again after they expired.
- `EventuallyDelivered` of a stream of which nothing is lost (section 5);
  `EndsTogether` excepts a started transport, of a call that failed, which never
  heard of the other end: its watchdog is armed by messages only, so it stays.
- `PointersAgree` excepts users who, while in a chat, left or were kicked from
  another they were not in (`stale`): that clears their active chat.
- `LedWhileActive` excepts active chats of which an admin was made speaker or
  listener (`demoted`).
- `OnlyDeepMergesThrow` confines what throws to a merge under an inner node that is
  not the root.

## 4. The proofs

Proved with TLAPS for every value of the constants that the named assumptions
allow. TLC checks the same properties, and the inductive invariants, on the
instances above first.

| Module | Theorem | Property | Argument |
|---|---|---|---|
| `BetterWorkerQueue_proofs` | `TypeCorrect` | `TypeOK` | every set of keys a step writes is the image of a finite set, so cardinalities stay numbers |
| | `NoTaskLost` | `NothingLost`, `ActiveHasTimeout` | `IndexInv`, see below |
| | `GoneOnlyHandledOrSpent` | `GoneIsHandledOrSpent` | `HandledInv`: a run that is `handled` has counted an effect for each of its tasks; `AttemptsInv`: attempts left and expired leases add up |
| | `IndexesAlwaysAgree` | `IndexesAgree` | `Exact`, see below |
| | `LeasesAlwaysRespected` | `LeaseRespected` | action property: `Exact` says whose lease a key of the index is |
| | `AtMostOnce` | `EffectAtMostOnce` | `OnceInv`: a stored task of a transactional queue has no effect yet; `Exact` for batches of several tasks |
| | `ImplementsTaskQueue` | `QueueSpec` | the refinement: every step is one of `TaskQueue` or a stutter |
| `Cluster_proofs` (sharding) | `TypeCorrect` | `TypeOK` | |
| | `AlwaysOneServingNode` | `OneServingNode` | `RegionInv`, see below |
| | `AllocationsAlwaysFollow` | `AllocationsFollowNodes` | part of `RegionInv` |
| | `ActiveAlwaysRunning` | `ActiveIsRunning` | `OwnersInv` and `RunningInv`, see below |
| | `NeverAServiceGap` | `NoServiceGap` | action property from `RegionInv` |
| `Payments_proofs` | `PassAlwaysFollows` | `PassFollowsSubscription` | `IInv`, see below under subscriptions |
| | `AlwaysEarnedAsPaid` | `EarnedOncePaid` | from `IInv`, whose `Earned` gives what may be left of an income |
| | `NothingElseThrows` | `OnlyUntriedRenewalsThrow` | from `IInv` |
| | `WalletAlwaysConserved` | `WalletConserved` | `IInv` and `Conserved`, see below |
| | `PausedAlwaysHasWayOn` | `PausedHasWayOn` | `Handover`, see below under subscriptions |
| | `AccessAlwaysKept` | `AccessKeptWhilePaid` | action property from `IInv` |
| | `PMTypeCorrect` | `PMTypeOK` | |
| | `LedgersAlwaysAgree` | `LedgersAgree` | `LedgersInv`, see below under payments |
| | `ChargeAlwaysInHand` | `ChargeInHand` | inductive beside `LedgersInv`, see below under payments |
| | `InProgressAlwaysHasTask` | `InProgressHasTask` | part of `LedgersInv` |
| | `CompletedStays` | `CompletedForGood` | action property from `LedgersInv` |
| `Calls_proofs` (voice chats) | `CountersAlwaysAgree` | `CountersAgree` | see below |
| | `PointersAlwaysAgree` | `PointersAgree` | see below |
| | `AlwaysLedWhileActive` | `LedWhileActive` | see below |
| `Counters_proofs` | `AlwaysSound` | the inductive invariant | see below |
| | `GlobalCountersAlwaysTrue` | `GlobalCountersTrue` | `TotalsExact`, see below |
| | `LocalCountersAlwaysTrue` | `LocalCountersTrue` | from `AlwaysSound` |
| | `SubscriptionsAlwaysAgree` | `SubscriptionsAgree` | from `AlwaysSound` |
| `Cluster_proofs` (streams) | `ImplementsStream` | `StreamSpec` | the refinement: every step is one of `MessageStream` or a stutter |
| | `KeptUntilDeliveredHolds` | `KeptUntilDelivered` | see below |
| `Calls_proofs` (keyed queue) | `NothingEverStranded` | `NothingStranded` | see below |
| | `AlwaysHandledInOrder` | `HandledInOrder` | see below |
| `EventsDelivery_proofs` | `IndexAlwaysExact` | `RefsFollowSubscriptions` | see below |
| | `CursorAlwaysCovers` | `CursorCovers` | `CoverInv`, see below |
| `BPlusTree_proofs` | `TreeAlwaysBuilt` | the inductive invariant | see below under counting tree |
| | `CountsAlwaysTrue` | `CountsAreTrue` | from `TreeInv` |
| | `OnlyDeepMergesEverThrow` | `OnlyDeepMergesThrow` | from `TreeInv` |

### Assumptions

`AttemptsAssumption`, `LimitAssumption`, `NoLeaseAssumption`, `SizesAssumption`
and `TimesAssumption` (queue), `RegionAssumption`, `RegionTimesAssumption`,
`RegionFirstAssumption` and `NoneAssumption` (sharding),
`PaymentMediatorAssumption` (payments), `SubscriptionsAssumption` (subscriptions),
`ChatsAssumption`, `NoChatAssumption` and `UsersAssumption` (voice chats),
`CountersAssumption`, `UsersAssumption`, `ChatsAssumption` and `NoneAssumption`
(counters), `ConstantsAssumption` (remote streams), `SyncAssumption` (keyed queue) and
`DeliveryAssumption` (events) and `BranchAssumption` (counting tree: values are positive
numbers and the branching factor is at least 4, since with 3 an inner node could be
left with one child; the code has 4000, its test 5): sizes are natural numbers, positive where the code
divides or loops by them, absent values are not members of the sets they are
absent from, shards, nodes, users, and the chats and subscriptions that amounts are
summed over, are finite; times and prices keep the order that the constants of the
code have. No bound is assumed on tasks, processes, schedulers, workers, users,
chats, messages, values of a tree or time, and no symmetry. `ImplementsTaskQueue` is about behaviours in
which no delayed task is moved twice, or about queues with one task per run, which is
what `addWorkers` configures.

### The inductive invariants

**No task lost.** `NothingLost` alone is not inductive: `rescheduleTasks` reaches an
abandoned task only through the timeouts index. `IndexInv` therefore joins it with
`ActiveHasTimeout`: an active task's current timeout is in the index. It is
preserved although refreshing leaves the index to the lock that is held, a
completion does not check its lock, and the scan may end between two keys of one
task; the last makes the proof distinguish entries of a task that were all
taken from those of which an earlier one was taken (`Expirations`, `Retried`,
`Cancelled`).

**Gone only handled or spent.** A task that was never pushed must occur nowhere
(`KnownInv`: in no batch, scan, key set or history), or its first push could start
with attempts already spent. `AttemptsInv` then says that attempts left plus leases
expired are the maximum, and the scan drops only at zero.

**Indexes and counters of the queue.** `Exact` says, until a delayed task is moved
twice, that a task is in one place only (`OnePlace`: pending, delayed or leased, with
the timeout of its lease and no other in the index), that each counter is the size of
what it counts (`CountersExact`), that nothing pushed is missing from the total
(`TotalExact`) and that no run holds a task twice (`BatchesDistinct`). The counters
are written as differences, once per batch or scan; that a difference equals what the
sets gain and lose needs the entries of a batch to be of distinct tasks. From `Exact`
follow `IndexesAgree` and `LeaseRespected`, and that a batch of several tasks applies
no effect twice.

**The queue implements TaskQueue.** A push, the effect of a handler, a completion and a
drop are the steps of `TaskQueue`, all else stutters. The mapping reads the stage of a
task from the stored arguments and the histories. `AttemptsInv` shows that a dropped
task has no attempt left, `HandledInv` that what an external run completes took
effect, `BatchesDistinct` that a run counts one effect for each of its tasks, and
`KnownInv` that nothing is settled that was not pushed.

**One serving node.** Every transaction changes nodes or allocations and then runs
`scheduleShards`. The proof is cut there: `Ready` is what holds before
(at most one node is serving or about to, at most one leaving node still serves,
no joined node is being withdrawn), `Directory` what holds after. One lemma shows
that `ScheduleShards` leads from `Ready` to `Directory`, whatever the placement
chooses; each transaction then needs only that it leads from `Directory` to
`Ready`.

**No service gap** follows in the same way: `scheduleShards` withdraws an active
node only when another one is active.

**Active is running.** A manager decides on a copy of the directory (`view`), awaits,
and reports. `OwnersInv` says that a manager that runs belongs to the process that is
on its node. `RunningInv` compares three things for each node and shard (`Fits`): the
allocation, the copy, and what the manager runs or is at. A live node gets a shard
once: it goes from allocating over active to removing and never back, so a copy that
says less than the directory can make the manager late and not wrong.

**Subscriptions.** The pass names one subscription and `PassInv` says that it is the one
that serves the user, or the live one. `Row` is about a subscription and its
periods: `Entry` lists what state, index, period, payment, transaction and income can
be together, before, at and after the current period. Two facts are needed that no
property mentions: a period that was announced has a payment as long as it was not
free, and who asked for a cancellation (`sought`) finds the payment completed or the
subscription retrying. Without the second, a cancellation that is answered late could
meet a period that goes on. An income is either settled, as announced, or what an
unawaited callback left of it (`Earned`); which one, no step depends on. `Handover` says
that a period the canceler has handed over is being canceled until its payment is
decided.

**Sums.** What the wallet holds and what a user has not read are sums over finite sets,
by the recursion of `MapThenSumSet`, which the prover cannot unfold. It can reason
about the function that the recursion chooses: that one exists and that two agree
follow from the subsets of a finite set being well-founded (`Smallest`: among
counterexamples there is a smallest). From there come the laws that are used:
when one summand changes the sum changes by as much (`TotalMoves`, `SumMoves`), sums
add (`SumAdds`), summands that are zero may be left out (`SumWithin`). `Conserved` says
that deposits are the balance and the shares the transactions hold; each step
changes the shares of one transaction.

**Payments.** `LedgersAgree` is about the records; it is preserved only if the
uncommitted transactions agree as well, since a commit replaces the records by
what a worker computed from an older look at Stripe. `Ledgers` states the agreement
for the records, for the snapshot and the view of every open transaction, and that
an updater about to apply a result has a final one; it relies on Stripe never
leaving a final state and on `Isolated`. `Queue` adds that attempts are numbered in
order and that a worker that committed an attempt has ended its progress, without
which `InProgressHasTask` fails when the worker removes its task. With these
`ChargeInHand` is inductive by itself: a charge is made by a worker that then has it in
hand, or by the user, whose event is queued while the intent is registered; a worker
lets go of a charge only by committing it, since otherwise it begins again and finds
it at Stripe; and the reader consumes the event only with the step that applies it or
while there is no intent, when a worker holds the charge.

**Voice chats.** Operations are applied to states no step ends in: while `Gone` has
removed a member, the chat may be active without an admin. So the invariant is
split into facts about a state (`Sound`: counters and types; `Named`: rooms;
`Placed`: users; `Peopled` and `Led`: chats) and each operation has a lemma
(`GoneSound`, `SetInactiveKeeps`, `LeaveChatKeeps`, `ChangeRoleKeeps`,
`JoinChatKeeps`) that says which of them it keeps and what it changes. `CountersAgree`
is needed by `LedWhileActive`: whether the last admin left is read from a counter.
The cardinality argument is one lemma (`Recount`): a set that changes only inside
another one grows by what that one gains and loses. What the counters count
(`Tallied`) is a list, and for hands the list together with the hands of those who have
gone, since leaving does not take a hand down.

**Unread counters.** The invariant `Inv` cuts the counters along the code: `Filing`
says that the index of a chat is what filing each message of it anew would give;
`Sound` that a kept count is the count of that index and that a subscription is
listed once; `Follows` that membership, position and settings agree with the
records of the messaging module; `Untouched` that a private chat not yet created
has neither messages nor settings, without which its first subscription could
forget a mute. That six collections added and subtracted give the unread messages
is a lemma about finite sets (`CountIsTrue`), for every position.

**Totals.** `TotalsExact` says that a total is the sum, over the chats a user subscribes
directly, of what the kept count of the chat contributes (`KeptShare`). The totals
move by differences, which are taken between two records of one chat; `Accounted`
says this of an operation, and the operations that call each other inside one handler
compose (`AccountedTwice`). `GlobalCountersTrue` follows with `CountIsTrue`: the summands
of the kept chats are true, and those of the async chats are counted on the read.

**Remote streams.** The receiver's half calls its functions one inside the other, so
each of them has a lemma about the record it returns. The invariant joins `Sent`
(what is on the way, buffered or processed was sent), `Given` (the reader has the
first messages, as many as were processed, and what was not is kept), `Ends` (what
the state of one end says of the other and of the timers) and `InOrder`: on an
ordered bus that lost nothing the messages up to some number have arrived and the
rest is on the way in order, with at most the stop signal behind it (`Arrived`).
Without the last, a stop signal could end a stream before its last message. The
refinement follows: a step hands over the next numbers, or ends one of the two
halves, or changes nothing the abstract stream shows.

**Keyed queue.** What a worker commits depends on what it read before. `Known` says
that tasks, jobs and what workers hold were pushed. `Agree` says that the counter
of a key differs from what a worker read only if a task is stored that is later than
all it read, so a worker that finds another counter leaves a task and its job
behind, and that a key with tasks has a job whose worker is not done with it.
For keys that never had two workers at once, `Sole` adds that what the worker read
is the first part of the store, and all of it while the counter is the same;
`InOrder` that what left the store was handled, and nothing before what precedes it.

**Index of changed feeds.** The references are a function of log and subscriptions.
A commit changes those of one feed, by a reading of its subscription at its
beginning; `SeesSubscription` says that this reading is still true, since
transactions on one feed exclude each other. No two feeds share a latest post, so
removing the old reference of one takes away none of another
(`ReferencesDiffer`).

**The position of a client.** What a position hides are posts with a lower number in
the log and a message that is still to come, or none at all. `CoverInv` says of each
event a live client misses (`Missing`) that the receiver cannot pass it: some number
after the receiver's can only be that of its message (`Awaits`), or the subscriber is
off-line with nobody about to give a number (`Away`), so that the next refresh skips
one. A number that nobody has (`Gap`) stops every receiver for good. `Ordered` adds that a
message waits behind those of earlier events, which makes the position of the last
message handed on a safe one. That a post without a number leaves a gap or nobody
about to number is a matter of time, which the remaining parts state: a transaction
saw the time-out that holds, or ends before the one it saw (`SeenInTime`); a refresh
that has checked sets the time-out before the old one passes, or has skipped numbers
(`RefreshedInTime`). Both use `TxTime + RefreshTime <= OnlineGap`. A difference leaves
nothing missing since the index of changed feeds is exact.

**Counting tree.** `TreeInv` says that the collection is empty or that there is an
assignment B of sets of values to nodes, and one H of heights, for which three things
hold. `Built`: the nodes form one tree, whose parents name their children and whose
children name their parent, leaves are at height 0, the children of a node divide its
values in ascending order, and B of the root is what was added and not removed. `Told`:
each inner node keeps the true bounds and the true count of each child
(`TrueEntry`). `AllSized`: no node is too large, and none but the root too small. The
counts of a range follow by adding up a level at a time, and where a search ends
follows from the bounds (`Place`: a key has its place under a node if it lies on the
same side of every other value as the node's own).

None of the three holds in the middle of an operation, so each step has a lemma about
a tree as a value. While ancestors are being told, every entry is true except those
above the changed node (`ToldBut`). While nodes are being split, one node is too large
(`SizedBut`, `Splitting`), and the halves are a node of their own beside the old one.
Removing needs that the neighbour found under another parent is the nearest node of
its level, so that a value lent by it (`Lend`) or values merged into it (`Join`) keep
the order, and that a root left with one child may give way to it (`Collapse`). Where
a leaf would be merged and its parent is not the root, `deleteNode` looks for the
deleted node in the grandparent and throws (`DeepThrow`); the transaction is rolled
back, which is why no committed removal merges inner nodes.
That nothing else throws is `OnlyDeepMergesThrow`.

The prover has no induction for such functions. What a loop does is shown for the
sequence of its rounds (`Runs`), and a statement about all nodes by taking a
counterexample of least height (`LowestNode`) or, for sums, a least set (`Smallest`).

### What is only model-checked

Everything that needs fairness: `EventuallySettled` of the queue and of the
region, `EventuallyWorked`, `CancelEnds`, `EndsTogether` and `EventuallyDelivered`. Liveness is beyond the prover.

All other properties of passing runs are theorems.

## 5. Disagreements met on the way

Shown by a run:

- `sync_crossed`: the task store is keyed by the caller's key alone
  (`openland-module-workers/repo/WorkQueueRepository.ts:379`) while every other key
  starts with the queue's number, and conferences and peers use plain numbers. A
  handler declared for one queue's tasks gets those of another.

Found while modelling, modelled as the code has them, and confined by the
properties that section 3 lists under exceptions:

- *Delayed tasks.* Of the three snapshot loops of `WorkQueueRepository` two carry the
  comment "Mark key as read conflict since we read all items from snapshot"
  (`openland-module-workers/repo/WorkQueueRepository.ts:185` and `:269`) and do so;
  the loop over delayed tasks (`:320`) does not. Two schedulers move the same task.
- *Expired nodes.* The heartbeat loop ends "If node is expired"
  (`openland-module-sharding/ShardRegion.ts:269`), but an expired node has no key any
  more and `registerNode` joins an unknown node, so the loop never ends that way
  and the node comes back under its old identifier.
- *Missing messages of a stream.* The negative acknowledgement asks for the number
  after the highest one received (`openland-module-pubsub/RemoteTransport.ts:121`),
  which is never the one missing in the middle; a timer that has fired is never
  forgotten, so none follows it, and "Still not moved: Do abort" (`:135`) is not
  reached once anything later arrives. The stream stays open and silent.
- *The executor's transport* is connected without having been started
  (`openland-spacex/remoteExecutor.ts:113`), and `connect` throws on it.
  `ExecutorStarts = TRUE` is the program with that call added; with `FALSE` every
  call fails and no message is ever sent.
- *Deep merges of a counting tree.* `deleteNode` removes the child from its parent and
  then looks for it there
  (`openland-module-db/collections/algs/btree2/storage/BTreeOperations.ts:229`), so a
  merge below an inner node other than the root throws. The merge of inner nodes
  behind it is not right either: `addChildren` (`:173`) does not tell the children it
  takes over who their new parent is. With the branching the program uses, both
  take millions of messages in one chat.
- *Incomes nobody waits for.* `incomeSuccess` promises with `await inTx` that the
  incomes of a payment are settled with it, but settles those that were announced in
  `transactions.forEach(async ...)`
  (`openland-module-wallet/repo/WalletRepository.ts:305`): the period is paid, and the
  owner's income may stay pending.
- *Hands left up.* The list of raised hands is of those joined
  (`openland-module-voice-chats/VoiceChats.store.ts:56-57`); leaving and being kicked
  count down neither the hand nor its counter
  (`openland-module-voice-chats/repositories/ParticipantsRepository.ts:181-234`). So
  `handRaisedCount` (`VoiceChats.resolver.ts:23`) shows more than the list has.
- *A cancellation that never returns.* The loop of `tryCancelPaymentIntent`
  (`openland-module-wallet/mediators/PaymentMediator.ts:512-519`) ends only when its own
  `updatePaymentIntent` has completed the intent. When an attempt or an event did so
  first, that returns nothing (`:450-457`), Stripe refuses to cancel what is completed,
  and `backoff` begins the loop again, for ever.
- *A personal message to all.* `CountersDirectory` sets `allMention` to false just
  before it tests it (`openland-module-messaging/counters/CountersDirectory.ts:94`),
  so such a message mentions nobody but those it names.

Seen in code that is left out of the models:

- The cleanup of voice chats ends a chat in the name of the user who started it
  (`openland-module-voice-chats/workers/voiceChatsCleanupWorker.ts:30`), which throws
  when that user is no admin any more.
- The loops of a region do not all end on shutdown
  (`openland-module-sharding/ShardRegion.ts:156` and `:217`).
- A difference cut at its global limit returns the old position
  (`openland-module-events/repo/EventsRepository.ts:492`).
- A receiver's death timer is cancelled by any expected event
  (`openland-module-events/receiver/SubscriberReceiver.ts:195`).

## 6. What is not modelled

Left out because nothing in it interleaves beyond what the database serialises:
authentication, users, contacts, organizations, comments, feed, invites, short
names, matchmaking, apps, drafts, oauth and the other small request handlers.
Left out because it is input and output: push and e-mail senders, search
indexing, exports, media services, the bus engines, GraphQL plumbing, generated
code. Left out because it was replaced in the code: the old work queues and readers.
Left out for now, and in the plan: calls, the rest of the wallet.

Inside the modelled components the following is left out.

- *Queue*: waking of workers by the bus (their loops poll), metrics, graceful
  shutdown.
- *Keyed queue*: several pushes in one transaction.
- *Sharding*: the initial load of a region, the registry of regions.
- *Events*: subscriptions to feeds with over a hundred subscribers, collapse keys,
  ephemeral events, the limits of a difference and its reports of ended
  subscriptions, several receivers of one subscriber. The death timer only decides
  when a receiver closes.
- *Remote streams*: queries and mutations of the executor, which are one request and
  one answer; messages from the caller to the executor, of which there are none.
- *Payments*: customers and cards, deposits, the 24 hours after which Stripe forgets
  an idempotency key, cancellation from inside a transaction (donations), several
  cancelers at once. The timeout of a Stripe call (15 s) exceeds that of a
  transaction (5 s); the model lets a transaction abort after any call.
- *Subscriptions*: one-time purchases of a pass, the commission, the balance of the
  owner's wallet (only incomes are kept), chat membership, calendar arithmetic.
- *Voice chats*: titles, pinned messages, events and reports, the peers of the call,
  and the reopening of a chat without a duration, of which there is none.
- *Counters*: the widths of records, the deletion of a private message for one side,
  the largest identifier kept per collection, which nothing reads.
- *Counting tree*: the encoding of nodes and the dump for tests.

## 7. Plan

Done so far: queue, keyed queue, sharding, payments, subscriptions, delivery of
events to one subscriber, remote streams, voice chats, counters and their tree, with
the proofs above. Next, in this order:

1. *Proofs.* What a task handler that uses both queues may rely on: that the tasks of a
   key are handled once when its job queue is `TaskQueue`.
2. *Wallet*: deposits, transfers, purchases and debts (`updateIsLocked`) beside
   `Subscriptions`, with the balance as the sum of transactions; among others the
   amount a purchase charges when the wallet covers a part of it
   (`PurchaseRepository`, `OperationsRepository`).
3. *Calls*: budgets of producers and consumers per shard (`ScalableShardRepository`)
   as counters that are taken and given back by tasks of the keyed queue; peers and
   their keep-alive, whose reaper is the `Leave` of `VoiceChats`.
4. *Events*: the limits of a difference and subscriptions to large feeds.

The number of runs is kept small on purpose: a new component takes the place of the
weaker run of an older one rather than adding to the list.
