---------------------------- MODULE EventsDelivery ----------------------------
(***************************************************************************)
(* Delivery of events to one subscriber (openland-module-events), for      *)
(* feeds it is subscribed to directly.                                     *)
(*                                                                         *)
(* A transaction that posts to a feed, or changes the subscription, gives  *)
(* its messages the subscriber's next sequence numbers if it finds it      *)
(* on-line; they are published on a lossy bus after the commit.  A         *)
(* receiver puts them back in order and hands them on without a gap.       *)
(* Whoever was off-line, or lost a message, catches up with a difference   *)
(* that an index of changed feeds (references) makes cheap.                *)
(*                                                                         *)
(* A versionstamp is a position in `log', the committed operations.        *)
(* Transactions that write only the subscriber's own keys are one step:    *)
(* they read its sequence number, so nothing numbered commits beside them. *)
(***************************************************************************)
EXTENDS Integers, FiniteSets, Sequences, FiniteSetsExt

CONSTANTS
    Feeds,
    OnlineExpires, \* ONLINE_EXPIRES
    OnlineGap,     \* ONLINE_GAP
    TxTime,        \* how long a transaction may take
    RefreshTime,   \* how long a refresh may take
    Block,         \* numbers skipped by refreshOnline
    Flex,          \* how far back a difference that is not strict may start
    MaxTime,       \* bound on the clock
    MaxLog         \* bound on the operations, committed or of open transactions

ASSUME DeliveryAssumption ==
    /\ OnlineExpires \in Nat /\ OnlineGap \in Nat /\ OnlineGap < OnlineExpires
    /\ TxTime \in Nat /\ RefreshTime \in Nat /\ TxTime + RefreshTime <= OnlineGap
    /\ Block \in Nat \ {0} /\ Flex \in Nat /\ MaxTime \in Nat /\ MaxLog \in Nat

VARIABLES
    now,       \* Date.now()
    expires,   \* the subscriber is on-line until then; Offline without a key
    seq,       \* last sequence number of the subscriber
    log,       \* committed posts and changes of the subscription, in order
    since,     \* from.state of the subscription to each feed
    refs,      \* directUpdates: latest posts of the feeds that changed
    tx,        \* open transactions of requests, one for a feed
    wire,      \* published messages on the bus
    refresher, \* the refresh loop of the receiver
    receiver,
    client     \* what the client made of what it got

repoVars == <<expires, seq, log, since, refs>>
vars == <<now, repoVars, tx, wire, refresher, receiver, client>>

Offline == -1
Never == -1    \* since of a feed without a subscription
Stamps == 1..MaxLog
Changes == {"none", "subscribe", "unsubscribe"}
NoTx == [open |-> FALSE]
OpenTx == [open : {TRUE}, change : Changes, post : BOOLEAN,
           stale : BOOLEAN, expires : Nat \cup {Offline}, began : 0..MaxTime, raced : BOOLEAN]
\* vt is 0 in the message of a changed subscription.
Messages == [seq : Nat \ {0}, vt : 0..MaxLog]
Closed == [phase |-> "closed", seq |-> 0, pending |-> {}]

TypeOK ==
    /\ now \in 0..MaxTime
    /\ expires \in Nat \cup {Offline}
    /\ seq \in Nat
    /\ Len(log) <= MaxLog
    /\ \A i \in DOMAIN log : log[i] \in [feed : Feeds, post : BOOLEAN, raced : BOOLEAN]
    /\ since \in [Feeds -> {Never} \cup 0..Len(log)]
    /\ refs \subseteq DOMAIN log
    /\ tx \in [Feeds -> {NoTx} \cup OpenTx]
    /\ wire \subseteq Messages
    /\ refresher \in [phase : {"idle", "set"}, at : 0..MaxTime]
    /\ receiver.phase \in {"closed", "committed", "started"}
    /\ receiver.seq \in 0..seq
    /\ receiver.pending \subseteq Messages
    /\ receiver.phase = "started" => \A m \in receiver.pending : m.seq > receiver.seq + 1
    /\ client.cursor \in 0..MaxLog
    /\ client.has \subseteq Stamps
    /\ client.live \in BOOLEAN

Init ==
    /\ now = 0
    /\ expires = Offline
    /\ seq = 0
    /\ log = <<>>
    /\ since \in [Feeds -> {Never, 0}]
    /\ refs = {}
    /\ tx = [f \in Feeds |-> NoTx]
    /\ wire = {}
    /\ refresher = [phase |-> "idle", at |-> 0]
    /\ receiver = Closed
    /\ client = [cursor |-> 0, has |-> {}, live |-> FALSE]

\* A transaction (5 s) and a refresh together take less than ONLINE_GAP (1 min).
Tick ==
    /\ now < MaxTime
    /\ \A f \in Feeds : tx[f].open => now < tx[f].began + TxTime
    /\ refresher.phase # "idle" => now < refresher.at + RefreshTime
    /\ now' = now + 1
    /\ UNCHANGED <<repoVars, tx, wire, refresher, receiver, client>>

----------------------------------------------------------------------------
(* Requests: subscribe, unsubscribe and post, alone or, as joining and     *)
(* leaving a room do, a change of the subscription and then a post.        *)

OnlineAt(time) == expires >= time
PostsOf(f) == {i \in DOMAIN log : log[i].feed = f /\ log[i].post}
Latest(f) == IF PostsOf(f) = {} THEN 0 ELSE Max(PostsOf(f))

\* What a transaction is going to add to the log.
Operations(x) ==
    (IF x.open /\ x.change # "none" THEN 1 ELSE 0) + (IF x.open /\ x.post THEN 1 ELSE 0)
Fits(t) == Len(log) + MapThenSumSet(LAMBDA f : Operations(t[f]), Feeds) <= MaxLog

\* isOnline reads a snapshot, all else adds a read conflict. Transactions on one
\* feed conflict on its sequence number: of those, the one that commits. A
\* subscriber that is off-line at the beginning stays so for the transaction.
Begin(f) ==
    /\ ~tx[f].open
    /\ \E change \in Changes, post \in BOOLEAN :
         /\ post \/ change # "none"
         /\ change = "subscribe" => since[f] = Never
         /\ change = "unsubscribe" => since[f] # Never
         /\ tx' = [tx EXCEPT ![f] =
                     [open |-> TRUE, change |-> change, post |-> post,
                      stale |-> FALSE, began |-> now, raced |-> FALSE,
                      expires |-> IF OnlineAt(now) THEN expires ELSE Offline]]
    /\ Fits(tx')
    /\ UNCHANGED <<now, repoVars, wire, refresher, receiver, client>>

\* The subscription as the post of the transaction sees it.
Subscribed(f) ==
    CASE tx[f].change = "subscribe" -> TRUE
      [] tx[f].change = "unsubscribe" -> FALSE
      [] OTHER -> since[f] # Never

Entries(f, raced) ==
    LET entry(post) == <<[feed |-> f, post |-> post, raced |-> raced]>>
    IN  (IF tx[f].change = "none" THEN <<>> ELSE entry(FALSE))
          \o (IF tx[f].post THEN entry(TRUE) ELSE <<>>)

\* Open transactions when the subscriber's number becomes n: those that read it,
\* having found the subscriber on-line, can only begin again.
Transactions(n) ==
    [f \in Feeds |-> IF n # seq /\ tx[f].open /\ tx[f].expires # Offline
                     THEN [tx[f] EXCEPT !.stale = TRUE] ELSE tx[f]]

\* Mutant of References: unsubscribing leaves the reference.
References_KeptByUnsubscribe(f, stamp) ==
    IF tx[f].post /\ Subscribed(f) THEN (refs \ {Latest(f)}) \cup {stamp} ELSE refs

\* setUpdatedReference and removeUpdatedReference.
References(f, stamp) ==
    LET others == refs \ {Latest(f)}
    IN  CASE tx[f].post /\ Subscribed(f) -> others \cup {stamp}
          [] tx[f].change = "unsubscribe" -> others
          [] OTHER -> refs

\* The messages of a transaction for the subscriber: stamps of its posts.
Outgoing(f, stamp) ==
    (IF tx[f].change = "none" THEN <<>> ELSE <<0>>)
      \o (IF tx[f].post /\ Subscribed(f) THEN <<stamp>> ELSE <<>>)

\* A transaction that will give its messages numbers, although the subscriber may
\* have expired since it began.
FindsOnline(x) == x.open /\ x.expires # Offline /\ ~x.stale

\* The transaction commits, having found the subscriber on-line for its first
\* n messages: each operation compares with the clock again.
Commit(f) ==
    /\ tx[f].open
    /\ \E n \in 0..2 :
         LET stamp == Len(log')
             out == Outgoing(f, stamp)
             raced == tx[f].raced \/ \E g \in Feeds \ {f} : FindsOnline(tx[g])
         IN  /\ log' = log \o Entries(f, raced /\ n < Len(Outgoing(f, 0)))
             /\ stamp <= MaxLog
             /\ n <= Len(out)
             /\ n > 0 => tx[f].expires # Offline /\ ~tx[f].stale
             /\ n < Len(out) => tx[f].expires < now
             /\ seq' = seq + n
             /\ wire' = wire \cup {[seq |-> seq + i, vt |-> out[i]] : i \in 1..n}
             /\ refs' = References(f, stamp)
    /\ since' = CASE tx[f].change = "subscribe" -> [since EXCEPT ![f] = Len(log) + 1]
                  [] tx[f].change = "unsubscribe" -> [since EXCEPT ![f] = Never]
                  [] OTHER -> since
    /\ tx' = [Transactions(seq') EXCEPT ![f] = NoTx]
    /\ UNCHANGED <<now, expires, refresher, receiver, client>>

\* It conflicts on the sequence number of the subscriber, and begins again.
Retry(f) ==
    /\ tx[f].open /\ tx[f].stale
    /\ tx' = [tx EXCEPT ![f] = NoTx]
    /\ UNCHANGED <<now, repoVars, wire, refresher, receiver, client>>

----------------------------------------------------------------------------
(* Going on-line *)

\* Mutant of Bumped: keeps the sequence number.
Bumped_Never == seq

\* "bump seq number to trigger forced difference"
Bumped == IF OnlineAt(now + OnlineGap) THEN seq ELSE seq + Block

Prolonged == Max({expires, now + OnlineExpires})

\* refreshOnline inside a transaction.
RefreshOnline == seq' = Bumped /\ expires' = Prolonged

\* The refresh loop calls it outside one. The check and the bump are one step:
\* a bump after a check that is out of date only skips numbers once more.
RefreshBump ==
    /\ receiver.phase = "started"
    /\ refresher.phase = "idle"
    /\ seq' = Bumped
    /\ tx' = Transactions(seq')
    /\ refresher' = [phase |-> "set", at |-> now]
    /\ UNCHANGED <<now, expires, log, since, refs, wire, receiver, client>>

RefreshSet ==
    /\ refresher.phase = "set"
    /\ expires' = Prolonged
    /\ refresher' = [phase |-> "idle", at |-> 0]
    /\ UNCHANGED <<now, seq, log, since, refs, tx, wire, receiver, client>>

----------------------------------------------------------------------------
(* The receiver *)

\* The bus is subscribed to before the first transaction, refreshOnline and
\* getState, commits: what arrives before that is older than its state.
GoOnline ==
    /\ receiver.phase = "closed"
    /\ RefreshOnline
    /\ receiver' = [phase |-> "committed", seq |-> seq', pending |-> {}]
    /\ tx' = LET after == Transactions(seq')
             IN  [f \in Feeds |-> IF after[f].open
                                  THEN [after[f] EXCEPT !.raced = TRUE] ELSE after[f]]
    /\ UNCHANGED <<now, log, since, refs, wire, refresher, client>>

Numbers(M) == {m.seq : m \in M}
Handed(M, to) == {m.vt : m \in {k \in M : k.seq <= to}} \ {0}

\* The last number that follows `from' without a gap.
Reach(from, M) ==
    CHOOSE n \in from..(from + Cardinality(M)) :
        from + 1..n \subseteq Numbers(M) /\ n + 1 \notin Numbers(M)

\* flushPending; the messages it hands on are left to its caller.
Advance(from, M) ==
    receiver' = [phase |-> "started", seq |-> Reach(from, M),
                 pending |-> {m \in M : m.seq > Reach(from, M)}]

\* The handler: a client applies updates once it has loaded a difference after
\* the start; what came before is in that difference.
Deliver(vts) ==
    client' = IF client.live
              THEN [client EXCEPT !.has = @ \cup vts, !.cursor = Max({@} \cup vts)]
              ELSE client

HandleStart ==
    /\ receiver.phase = "committed"
    /\ LET M == {m \in receiver.pending : m.seq > receiver.seq}
       IN Advance(receiver.seq, receiver.pending) /\ Deliver(Handed(M, Reach(receiver.seq, M)))
    /\ UNCHANGED <<now, repoVars, tx, wire, refresher>>

\* A message comes late, to a later receiver, or never.
Receive(m) ==
    /\ receiver.phase # "closed"
    /\ LET M == receiver.pending \cup {m}
       IN  CASE receiver.phase # "started" ->
                  receiver' = [receiver EXCEPT !.pending = M] /\ UNCHANGED client
             [] receiver.phase = "started" /\ m.seq > receiver.seq ->
                  /\ Advance(receiver.seq, M)
                  /\ Deliver(Handed(M, Reach(receiver.seq, M)))
             [] OTHER -> UNCHANGED <<receiver, client>>
    /\ wire' = wire \ {m}
    /\ UNCHANGED <<now, repoVars, tx, refresher>>

\* The death timer fires or the client goes away.
Close ==
    /\ receiver.phase # "closed"
    /\ receiver' = Closed
    /\ client' = [client EXCEPT !.live = FALSE]
    /\ UNCHANGED <<now, repoVars, tx, wire, refresher>>

----------------------------------------------------------------------------
(* getDifference *)

\* Events of the feeds whose reference is after the position.
Difference(after) ==
    UNION {{i \in PostsOf(log[r].feed) : i > Max({after, since[log[r].feed]})} :
              r \in {q \in refs : q > after}}

Sync ==
    \E after \in {client.cursor, Max({0, client.cursor - Flex})} :
        LET state == Max({after} \cup Difference(after))
        IN  /\ RefreshOnline
            /\ client' = [cursor |-> state,
                          has |-> client.has \cup Difference(after),
                          live |-> receiver.phase = "started"]
            /\ tx' = Transactions(seq')
            /\ UNCHANGED <<now, log, since, refs, wire, refresher, receiver>>

Next ==
    \/ Tick
    \/ \E f \in Feeds : Begin(f) \/ Commit(f) \/ Retry(f)
    \/ RefreshBump \/ RefreshSet
    \/ GoOnline \/ HandleStart \/ Close
    \/ \E m \in wire : Receive(m)
    \/ Sync

Spec == Init /\ [][Next]_vars
----------------------------------------------------------------------------
(* Properties *)

\* What the subscriber is to get: posts made since it subscribed.
Relevant == {i \in DOMAIN log : log[i].post /\ since[log[i].feed] \in 0..(i - 1)}

\* A client has every event up to the position it would continue from, although
\* messages are lost and come out of order, receivers die, and the subscriber
\* goes off-line under running transactions. Two kinds of unnumbered events are
\* excepted, which the code does lose: those of a transaction that was open when
\* the receiver went on-line, and those committed after the subscriber expired,
\* beside a transaction that had still found it on-line.
CursorCovers ==
    /\ TypeOK
    /\ \A i \in Relevant : i <= client.cursor /\ ~log[i].raced => i \in client.has

\* The references are the latest posts of the feeds that changed since they
\* were subscribed to: no change is hidden from a difference, and no reference
\* leads to a feed without events (`f.events[0]', TypedEventsMediator.ts:291).
RefsFollowSubscriptions ==
    refs = {Latest(f) : f \in {g \in Feeds : since[g] # Never /\ Latest(g) > since[g]}}
=============================================================================
