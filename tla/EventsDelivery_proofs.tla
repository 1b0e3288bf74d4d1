------------------------ MODULE EventsDelivery_proofs ------------------------
(***************************************************************************)
(* Proofs about EventsDelivery, for any number of feeds, operations and    *)
(* transactions and any times: the index of changed feeds is exact, and    *)
(* the position of the client covers the events before it.                 *)
(***************************************************************************)
EXTENDS EventsDelivery, FiniteSetTheorems, WellFoundedInduction, TLAPS

----------------------------------------------------------------------------
(* The greatest of some numbers *)

\* A set of natural numbers has a least one.
LEMMA Least ==
  ASSUME NEW T \in SUBSET Nat, T # {}
  PROVE  \E x \in T : \A y \in T : x <= y
<1> DEFINE R == {ss \in Nat \X Nat : ss[1] < ss[2]}
<1>1. IsWellFoundedOn(R, Nat)
  BY NatLessThanWellFounded, Zenon DEF OpToRel
<1>2. \A x, y \in Nat : x < y => <<x, y>> \in R
  OBVIOUS
<1> HIDE DEF R
<1>3. PICK x \in T : \A y \in T : ~(<<y, x>> \in R)
  BY <1>1, WFMin
<1>4. x \in Nat /\ \A y \in T : y \in Nat /\ ~(y < x)
  BY <1>2, <1>3
<1>5. \A y \in T : x <= y
  BY <1>4
<1> QED BY <1>3, <1>5

\* Hence numbers from 0 to n, if there are any, have a greatest one.
LEMMA MaxIs ==
  ASSUME NEW n \in Nat, NEW S \in SUBSET (0..n), S # {}
  PROVE  Max(S) \in S /\ \A y \in S : y <= Max(S)
<1> DEFINE T == {k \in Nat : n - k \in S}
<1>1. \A x \in S : n - x \in T
  OBVIOUS
<1>2. PICK k \in T : \A m \in T : k <= m
  BY <1>1, Least
<1>3. n - k \in S /\ \A y \in S : n - k >= y
  BY <1>1, <1>2
<1>4. \E z \in S : \A y \in S : z >= y
  BY <1>3
<1>5. Max(S) \in S /\ \A y \in S : Max(S) >= y
  BY <1>4, Zenon DEF Max
<1> QED BY <1>5

LEMMA MaxOfTwo ==
  ASSUME NEW a \in Int, NEW b \in Int
  PROVE  Max({a, b}) \in {a, b}
<1>1. \E z \in {a, b} : \A y \in {a, b} : z >= y
  <2>1. CASE a >= b
    BY <2>1
  <2>2. CASE ~(a >= b)
    BY <2>2
  <2> QED BY <2>1, <2>2
<1> QED BY <1>1, Zenon DEF Max

----------------------------------------------------------------------------
(* The inductive invariant *)

Entry == [feed : Feeds, post : BOOLEAN, raced : BOOLEAN]

Typed ==
    /\ now \in 0..MaxTime
    /\ expires \in Nat \cup {Offline}
    /\ log \in Seq(Entry)
    /\ since \in [Feeds -> {Never} \cup 0..Len(log)]
    /\ tx \in [Feeds -> {NoTx} \cup OpenTx]

\* A transaction that is open sees its subscription as it is: the only ones that
\* change it are those on the same feed.
SeesSubscription ==
    \A f \in Feeds : tx[f].open =>
       /\ tx[f].change = "subscribe" => since[f] = Never
       /\ tx[f].change = "unsubscribe" => since[f] # Never

Inv == Typed /\ SeesSubscription /\ RefsFollowSubscriptions

----------------------------------------------------------------------------
(* The latest post of a feed *)

LEMMA LatestIs ==
  ASSUME Typed, NEW f
  PROVE  /\ Latest(f) \in 0..Len(log)
         /\ Latest(f) # 0 => log[Latest(f)].feed = f
         /\ \A i \in PostsOf(f) : i <= Latest(f)
<1>1. Len(log) \in Nat /\ DOMAIN log = 1..Len(log)
  BY DEF Typed
<1>2. PostsOf(f) \in SUBSET (0..Len(log))
  BY <1>1 DEF PostsOf
<1>3. CASE PostsOf(f) = {}
  BY <1>1, <1>3 DEF Latest
<1>4. CASE PostsOf(f) # {}
  <2>1. Max(PostsOf(f)) \in PostsOf(f) /\ \A i \in PostsOf(f) : i <= Max(PostsOf(f))
    BY <1>1, <1>2, <1>4, MaxIs
  <2>2. Latest(f) = Max(PostsOf(f))
    BY <1>4 DEF Latest
  <2>3. log[Latest(f)].feed = f
    BY <2>1, <2>2 DEF PostsOf
  <2> QED BY <1>2, <2>1, <2>2, <2>3
<1> QED BY <1>3, <1>4

\* A log that grows without a post of f.
LEMMA LatestStays ==
  ASSUME Typed, Typed', NEW f,
         PostsOf(f)' = PostsOf(f)
  PROVE  Latest(f)' = Latest(f)
BY DEF Latest

\* A log that ends with a post of f.
LEMMA LatestMoves ==
  ASSUME Typed', NEW f, Len(log') \in PostsOf(f)'
  PROVE  Latest(f)' = Len(log')
<1>1. Len(log') \in Nat /\ PostsOf(f)' \in SUBSET (0..Len(log'))
  BY DEF Typed, PostsOf
<1>2. Max(PostsOf(f)') \in PostsOf(f)' /\ Len(log') <= Max(PostsOf(f)')
  BY <1>1, MaxIs
<1>3. Max(PostsOf(f)') = Len(log')
  BY <1>1, <1>2
<1> QED BY <1>3 DEF Latest

----------------------------------------------------------------------------
(* Opening and closing transactions *)

LEMMA TransactionsType ==
  ASSUME Typed, NEW n
  PROVE  /\ Transactions(n) \in [Feeds -> {NoTx} \cup OpenTx]
         /\ \A f \in Feeds : /\ Transactions(n)[f].open <=> tx[f].open
                             /\ tx[f].open => Transactions(n)[f].change = tx[f].change
<1> SUFFICES ASSUME NEW f \in Feeds
             PROVE  /\ Transactions(n)[f] \in {NoTx} \cup OpenTx
                    /\ Transactions(n)[f].open <=> tx[f].open
                    /\ tx[f].open => Transactions(n)[f].change = tx[f].change
  BY DEF Transactions
<1>1. tx[f] \in {NoTx} \cup OpenTx
  BY DEF Typed
<1>2. ASSUME tx[f] \in OpenTx
      PROVE  /\ [tx[f] EXCEPT !.stale = TRUE] \in OpenTx
             /\ [tx[f] EXCEPT !.stale = TRUE].open
             /\ [tx[f] EXCEPT !.stale = TRUE].change = tx[f].change
             /\ tx[f].open
  BY <1>2 DEF OpenTx
<1>3. CASE tx[f] = NoTx
  BY <1>3 DEF Transactions, NoTx
<1>4. CASE tx[f] \in OpenTx
  BY <1>2, <1>4 DEF Transactions
<1> QED BY <1>1, <1>3, <1>4

\* Steps that change no subscription, post or reference keep the invariant.
LEMMA OthersKeep ==
  ASSUME Inv, UNCHANGED <<log, since, refs>>, Typed',
         \A f \in Feeds : tx'[f].open => tx[f].open /\ tx'[f].change = tx[f].change
  PROVE  Inv'
<1>1. SeesSubscription'
  BY DEF Inv, SeesSubscription
<1>2. RefsFollowSubscriptions'
  BY DEF Inv, RefsFollowSubscriptions, Latest, PostsOf
<1> QED BY <1>1, <1>2 DEF Inv

----------------------------------------------------------------------------
(* The steps *)

\* A transaction that is not the last of its feed reads what is there.
LEMMA BeginStep ==
  ASSUME Inv, NEW f \in Feeds, Begin(f)
  PROVE  Inv'
<1> PICK change \in Changes, post \in BOOLEAN :
           /\ change = "subscribe" => since[f] = Never
           /\ change = "unsubscribe" => since[f] # Never
           /\ tx' = [tx EXCEPT ![f] =
                       [open |-> TRUE, change |-> change, post |-> post,
                        stale |-> FALSE, began |-> now, raced |-> FALSE,
                        expires |-> IF OnlineAt(now) THEN expires ELSE Offline]]
  BY Zenon DEF Begin
<1> DEFINE x == [open |-> TRUE, change |-> change, post |-> post,
                 stale |-> FALSE, began |-> now, raced |-> FALSE,
                 expires |-> IF OnlineAt(now) THEN expires ELSE Offline]
<1>0. UNCHANGED <<now, repoVars>>
  BY Zenon DEF Begin
<1>1. x \in OpenTx /\ x.change = change
  BY DEF OpenTx, Inv, Typed
<1>2. tx' = [tx EXCEPT ![f] = x]
  OBVIOUS
<1> HIDE DEF x
<1>3. Typed'
  BY <1>0, <1>1, <1>2 DEF Inv, Typed, repoVars
<1>4. SeesSubscription'
  <2> SUFFICES ASSUME NEW g \in Feeds, tx'[g].open
               PROVE  /\ tx'[g].change = "subscribe" => since[g] = Never
                      /\ tx'[g].change = "unsubscribe" => since[g] # Never
    BY <1>0 DEF SeesSubscription, repoVars
  <2>1. CASE g = f
    <3>1. tx'[f].change = change
      BY <1>1, <1>2 DEF Inv, Typed
    <3> QED BY <2>1, <3>1
  <2>2. CASE g # f
    BY <1>2, <2>2 DEF Inv, Typed, SeesSubscription
  <2> QED BY <2>1, <2>2
<1>5. RefsFollowSubscriptions'
  BY <1>0 DEF Inv, RefsFollowSubscriptions, Latest, PostsOf, repoVars
<1> QED BY <1>3, <1>4, <1>5 DEF Inv

\* What a transaction adds: an entry for a change, then one for a post.
LEMMA EntriesAre ==
  ASSUME Typed, NEW f \in Feeds, tx[f].open, NEW r \in BOOLEAN
  PROVE  /\ Entries(f, r) \in Seq(Entry)
         /\ Len(Entries(f, r)) = (IF tx[f].change = "none" THEN 0 ELSE 1)
                                   + (IF tx[f].post THEN 1 ELSE 0)
         /\ \A i \in 1..Len(Entries(f, r)) :
              /\ Entries(f, r)[i].feed = f /\ Entries(f, r)[i].raced = r
              /\ Entries(f, r)[i].post <=> tx[f].post /\ i = Len(Entries(f, r))
<1>1. tx[f] \in OpenTx
  BY DEF Typed, NoTx
<1>2. tx[f].post \in BOOLEAN
  BY <1>1 DEF OpenTx
<1> DEFINE a == [feed |-> f, post |-> FALSE, raced |-> r]
           b == [feed |-> f, post |-> TRUE, raced |-> r]
<1>3. /\ a \in Entry /\ a.feed = f /\ a.post = FALSE /\ a.raced = r
      /\ b \in Entry /\ b.feed = f /\ b.post = TRUE /\ b.raced = r
  BY DEF Entry
<1>4. Entries(f, r) = (IF tx[f].change = "none" THEN <<>> ELSE <<a>>)
                        \o (IF tx[f].post THEN <<b>> ELSE <<>>)
  BY Zenon DEF Entries
<1> HIDE DEF a, b
<1>5. CASE tx[f].change = "none" /\ tx[f].post
  <2>1. Entries(f, r) = <<>> \o <<b>>
    BY <1>4, <1>5, Zenon
  <2>2. Entries(f, r) = <<b>>
    BY <1>3, <2>1
  <2> QED BY <1>3, <1>5, <2>2
<1>6. CASE tx[f].change = "none" /\ ~tx[f].post
  <2>1. Entries(f, r) = <<>> \o <<>>
    BY <1>4, <1>6, Zenon
  <2>2. Entries(f, r) = <<>>
    BY <2>1
  <2> QED BY <1>6, <2>2
<1>7. CASE tx[f].change # "none" /\ tx[f].post
  <2> DEFINE e == <<a>> \o <<b>>
  <2>1. Entries(f, r) = e
    BY <1>4, <1>7, Zenon
  <2>2. e \in Seq(Entry) /\ Len(e) = 2 /\ e[1] = a /\ e[2] = b
    BY <1>3
  <2> HIDE DEF e
  <2>3. \A i \in 1..2 : e[i].feed = f /\ e[i].raced = r /\ (e[i].post <=> i = 2)
    BY <1>3, <2>2
  <2>4. Len(e) = 1 + 1 /\ 1..Len(e) = 1..2
    BY <2>2
  <2>5. \A i \in 1..Len(e) :
          e[i].feed = f /\ e[i].raced = r /\ (e[i].post <=> tx[f].post /\ i = Len(e))
    BY <1>7, <2>2, <2>3, <2>4
  <2> QED BY <1>7, <2>1, <2>2, <2>4, <2>5
<1>8. CASE tx[f].change # "none" /\ ~tx[f].post
  <2>1. Entries(f, r) = <<a>> \o <<>>
    BY <1>4, <1>8, Zenon
  <2>2. Entries(f, r) = <<a>>
    BY <1>3, <2>1
  <2> QED BY <1>3, <1>8, <2>2
<1> QED BY <1>2, <1>5, <1>6, <1>7, <1>8

\* The log after a transaction on f with these entries.
LEMMA LogAfter ==
  ASSUME Typed, NEW f \in Feeds, tx[f].open, NEW r \in BOOLEAN,
         log' = log \o Entries(f, r)
  PROVE  /\ \A i \in 1..Len(log) : log'[i] = log[i]
         /\ \A i \in 1..Len(log') : i > Len(log) =>
              /\ log'[i].feed = f /\ log'[i].raced = r
              /\ log'[i].post <=> tx[f].post /\ i = Len(log')
<1> DEFINE e == Entries(f, r)
           n == Len(log)
<1>1. /\ e \in Seq(Entry)
      /\ \A i \in 1..Len(e) :
           /\ e[i].feed = f /\ e[i].raced = r
           /\ e[i].post <=> tx[f].post /\ i = Len(e)
  BY EntriesAre
<1> HIDE DEF e
<1>2. log \in Seq(Entry) /\ n \in Nat
  BY DEF Typed
<1>3. /\ Len(log') = n + Len(e)
      /\ \A i \in 1..n : log'[i] = log[i]
      /\ \A i \in 1..(n + Len(e)) : i > n => log'[i] = e[i - n]
  BY <1>1, <1>2 DEF e
<1>4. ASSUME NEW i \in 1..(n + Len(e)), i > n
      PROVE  /\ log'[i].feed = f /\ log'[i].raced = r
             /\ log'[i].post <=> tx[f].post /\ i = n + Len(e)
  <2> DEFINE j == i - n
  <2>1. j \in 1..Len(e) /\ (j = Len(e) <=> i = n + Len(e))
    BY <1>1, <1>2, <1>4
  <2>2. log'[i] = e[j]
    BY <1>3, <1>4
  <2> HIDE DEF j
  <2>3. /\ e[j].feed = f /\ e[j].raced = r
        /\ e[j].post <=> tx[f].post /\ j = Len(e)
    BY <1>1, <2>1
  <2>4. tx[f].post /\ j = Len(e) <=> tx[f].post /\ i = n + Len(e)
    BY <2>1
  <2> QED BY <2>2, <2>3, <2>4, Zenon
<1> QED BY <1>3, <1>4

\* The posts in the log after such a transaction.
LEMMA PostsAfter ==
  ASSUME Typed, NEW f \in Feeds, tx[f].open, NEW r \in BOOLEAN,
         log' = log \o Entries(f, r)
  PROVE  /\ log' \in Seq(Entry) /\ Len(log) <= Len(log')
         /\ Len(log') = Len(log) + (IF tx[f].change = "none" THEN 0 ELSE 1)
                                 + (IF tx[f].post THEN 1 ELSE 0)
         /\ \A g \in Feeds : g # f \/ ~tx[f].post => PostsOf(g)' = PostsOf(g)
         /\ tx[f].post => Len(log') \in PostsOf(f)'
<1> DEFINE e == Entries(f, r)
           n == Len(log)
<1>1. /\ e \in Seq(Entry)
      /\ Len(e) = (IF tx[f].change = "none" THEN 0 ELSE 1) + (IF tx[f].post THEN 1 ELSE 0)
      /\ \A i \in 1..Len(e) : e[i].feed = f /\ (e[i].post <=> tx[f].post /\ i = Len(e))
  BY EntriesAre
<1> HIDE DEF e
<1>2. log \in Seq(Entry) /\ n \in Nat /\ DOMAIN log = 1..n
  BY DEF Typed
<1>3. /\ log' \in Seq(Entry) /\ Len(log') = n + Len(e) /\ DOMAIN log' = 1..(n + Len(e))
      /\ \A i \in 1..n : log'[i] = log[i]
      /\ \A i \in 1..(n + Len(e)) : i > n => log'[i] = e[i - n]
  BY <1>1, <1>2 DEF e
<1>4. \A i \in 1..(n + Len(e)) : i > n =>
        log'[i].feed = f /\ (log'[i].post <=> tx[f].post /\ i = n + Len(e))
  BY <1>1, <1>2, <1>3
<1>5. ASSUME NEW g \in Feeds, g # f \/ ~tx[f].post
      PROVE  PostsOf(g)' = PostsOf(g)
  <2>1. \A i \in 1..(n + Len(e)) : i > n => ~(log'[i].feed = g /\ log'[i].post)
    BY <1>4, <1>5
  <2>2. PostsOf(g)' = {i \in 1..(n + Len(e)) : log'[i].feed = g /\ log'[i].post}
    BY <1>3 DEF PostsOf
  <2>3. PostsOf(g) = {i \in 1..n : log[i].feed = g /\ log[i].post}
    BY <1>2 DEF PostsOf
  <2> QED BY <1>1, <1>2, <1>3, <2>1, <2>2, <2>3
<1>6. ASSUME tx[f].post
      PROVE  Len(log') \in PostsOf(f)'
  <2>1. n + Len(e) > n /\ n + Len(e) \in 1..(n + Len(e))
    BY <1>1, <1>2, <1>6
  <2> QED BY <1>3, <1>4, <1>6, <2>1 DEF PostsOf
<1>7. n + Len(e) = n + (IF tx[f].change = "none" THEN 0 ELSE 1)
                     + (IF tx[f].post THEN 1 ELSE 0)
  <2> DEFINE c == IF tx[f].change = "none" THEN 0 ELSE 1
             p == IF tx[f].post THEN 1 ELSE 0
  <2>1. c \in Nat /\ p \in Nat /\ Len(e) = c + p
    BY <1>1
  <2> HIDE DEF c, p
  <2>2. n + Len(e) = n + c + p
    BY <1>2, <2>1
  <2> QED BY <2>2 DEF c, p
<1>8. Len(log) <= Len(log')
  BY <1>1, <1>2, <1>3
<1> QED BY <1>3, <1>5, <1>6, <1>7, <1>8

\* A feed whose latest post is a reference.
Changed(f) == since[f] # Never /\ Latest(f) > since[f]

\* No two feeds that changed have the same latest post.
LEMMA ReferencesDiffer ==
  ASSUME Inv, NEW f \in Feeds
  PROVE  refs \ {Latest(f)} = {Latest(g) : g \in {h \in Feeds \ {f} : Changed(h)}}
<1>1. \A g \in Feeds : since[g] \in {Never} \cup 0..Len(log) /\ Len(log) \in Nat
  BY DEF Inv, Typed
<1>2. \A g \in Feeds : Changed(g) => Latest(g) # 0 /\ log[Latest(g)].feed = g
  BY <1>1, LatestIs DEF Changed, Inv
<1>3. \A g \in Feeds : Latest(g) # 0 => log[Latest(g)].feed = g
  BY LatestIs DEF Inv
<1>4. \A g \in Feeds : Changed(g) /\ g # f => Latest(g) # Latest(f)
  BY <1>2, <1>3
<1>5. refs = {Latest(g) : g \in {h \in Feeds : Changed(h)}}
  BY DEF Inv, RefsFollowSubscriptions, Changed
<1> QED BY <1>4, <1>5

LEMMA CommitStep ==
  ASSUME Inv, NEW f \in Feeds, Commit(f)
  PROVE  Inv'
<1>0. Typed /\ tx[f].open /\ tx[f] \in OpenTx
  BY DEF Inv, Typed, Commit, NoTx
<1>1. PICK r \in BOOLEAN : log' = log \o Entries(f, r) /\ refs' = References(f, Len(log'))
  <2>1. PICK n \in 0..2 :
          /\ log' = log \o Entries(f, (tx[f].raced \/ \E g \in Feeds \ {f} : FindsOnline(tx[g]))
                                       /\ n < Len(Outgoing(f, 0)))
          /\ refs' = References(f, Len(log'))
    BY Zenon DEF Commit
  <2> QED BY <2>1
<1>2. /\ since' = CASE tx[f].change = "subscribe" -> [since EXCEPT ![f] = Len(log) + 1]
                    [] tx[f].change = "unsubscribe" -> [since EXCEPT ![f] = Never]
                    [] OTHER -> since
      /\ tx' = [Transactions(seq') EXCEPT ![f] = NoTx]
      /\ UNCHANGED <<now, expires>>
  BY Zenon DEF Commit
<1>3. /\ log' \in Seq(Entry)
      /\ Len(log') = Len(log) + (IF tx[f].change = "none" THEN 0 ELSE 1)
                              + (IF tx[f].post THEN 1 ELSE 0)
      /\ \A g \in Feeds : g # f \/ ~tx[f].post => PostsOf(g)' = PostsOf(g)
      /\ tx[f].post => Len(log') \in PostsOf(f)'
  BY <1>0, <1>1, PostsAfter
<1>4. Len(log) \in Nat /\ Len(log') \in Nat /\ Len(log) <= Len(log')
  BY <1>0, <1>1, PostsAfter DEF Typed
<1>5. tx[f].change \in Changes /\ tx[f].post \in BOOLEAN
  BY <1>0 DEF OpenTx
<1>6. /\ \A g \in Feeds : g # f => since'[g] = since[g]
      /\ since'[f] = CASE tx[f].change = "subscribe" -> Len(log) + 1
                      [] tx[f].change = "unsubscribe" -> Never
                      [] OTHER -> since[f]
      /\ since' \in [Feeds -> {Never} \cup 0..Len(log')]
  <2>1. since \in [Feeds -> {Never} \cup 0..Len(log)]
    BY <1>0 DEF Typed
  <2>2. since \in [Feeds -> {Never} \cup 0..Len(log')]
    BY <1>4, <2>1
  <2>3. CASE tx[f].change = "subscribe"
    <3>1. since' = [since EXCEPT ![f] = Len(log) + 1]
      BY <1>2, <2>3
    <3>2. Len(log) + 1 \in 0..Len(log')
      BY <1>3, <1>4, <1>5, <2>3
    <3> QED BY <2>2, <2>3, <3>1, <3>2
  <2>4. CASE tx[f].change = "unsubscribe"
    <3>1. since' = [since EXCEPT ![f] = Never]
      BY <1>2, <2>4
    <3> QED BY <2>2, <2>4, <3>1
  <2>5. CASE tx[f].change = "none"
    BY <1>2, <2>2, <2>5
  <2> QED BY <1>5, <2>3, <2>4, <2>5 DEF Changes
<1>7. /\ tx' \in [Feeds -> {NoTx} \cup OpenTx]
      /\ \A g \in Feeds : tx'[g].open => g # f /\ tx[g].open /\ tx'[g].change = tx[g].change
  <2>1. /\ Transactions(seq') \in [Feeds -> {NoTx} \cup OpenTx]
        /\ \A g \in Feeds : /\ Transactions(seq')[g].open <=> tx[g].open
                            /\ tx[g].open => Transactions(seq')[g].change = tx[g].change
    BY <1>0, TransactionsType
  <2> QED BY <1>2, <2>1 DEF NoTx
<1>8. Typed'
  BY <1>0, <1>2, <1>3, <1>6, <1>7 DEF Typed
<1>9. SeesSubscription'
  BY <1>6, <1>7 DEF Inv, SeesSubscription
<1>10. RefsFollowSubscriptions'
  <2>1. /\ \A g \in Feeds : g # f \/ ~tx[f].post => Latest(g)' = Latest(g)
        /\ tx[f].post => Latest(f)' = Len(log')
    BY <1>0, <1>3, <1>8, LatestStays, LatestMoves
  <2>2. \A g \in Feeds : g # f => (Changed(g)' <=> Changed(g))
    BY <1>6, <2>1 DEF Changed
  <2>3. refs \ {Latest(f)} = {Latest(g) : g \in {h \in Feeds \ {f} : Changed(h)}}
    BY ReferencesDiffer
  <2>4. {Latest(g)' : g \in {h \in Feeds \ {f} : Changed(h)'}} = refs \ {Latest(f)}
    BY <2>1, <2>2, <2>3
  <2>5. {Latest(g)' : g \in {h \in Feeds : Changed(h)'}} =
          (refs \ {Latest(f)}) \cup (IF Changed(f)' THEN {Latest(f)'} ELSE {})
    BY <2>4
  <2>6. refs = (refs \ {Latest(f)}) \cup (IF Changed(f) THEN {Latest(f)} ELSE {})
    BY <2>3 DEF Inv, RefsFollowSubscriptions, Changed
  <2>7. since[f] \in {Never} \cup 0..Len(log) /\ Latest(f) \in 0..Len(log)
    BY <1>0, LatestIs DEF Typed
  <2>8. /\ tx[f].change = "subscribe" => since[f] = Never
        /\ tx[f].change = "unsubscribe" => since[f] # Never
    BY <1>0 DEF Inv, SeesSubscription
  <2>9. refs' = (refs \ {Latest(f)}) \cup (IF Changed(f)' THEN {Latest(f)'} ELSE {})
    <3>1. CASE tx[f].post /\ Subscribed(f)
      <4>1. refs' = (refs \ {Latest(f)}) \cup {Len(log')}
        <5>1. ~(tx[f].change = "unsubscribe")
          BY <3>1 DEF Subscribed
        <5> QED BY <1>1, <3>1, <5>1, Zenon DEF References
      <4>2. since'[f] # Never /\ Len(log') > since'[f]
        BY <1>3, <1>4, <1>5, <1>6, <2>7, <3>1 DEF Subscribed, Changes, Never
      <4> QED BY <2>1, <3>1, <4>1, <4>2 DEF Changed
    <3>2. CASE tx[f].change = "unsubscribe"
      <4>1. ~Subscribed(f)
        BY <3>2 DEF Subscribed
      <4>2. refs' = refs \ {Latest(f)}
        BY <1>1, <3>2, <4>1 DEF References
      <4> QED BY <1>6, <3>2, <4>2 DEF Changed
    <3>3. CASE ~(tx[f].post /\ Subscribed(f)) /\ tx[f].change # "unsubscribe"
      <4>1. refs' = refs
        BY <1>1, <3>3, Zenon DEF References
      <4>2. CASE tx[f].change = "subscribe"
        <5>1. ~tx[f].post /\ Latest(f)' = Latest(f)
          BY <2>1, <3>3, <4>2 DEF Subscribed
        <5>2. ~Changed(f)
          BY <2>8, <4>2 DEF Changed
        <5>3. ~Changed(f)'
          BY <1>4, <1>6, <2>7, <4>2, <5>1 DEF Changed
        <5> QED BY <2>6, <4>1, <5>2, <5>3
      <4>3. CASE tx[f].change = "none" /\ tx[f].post
        <5>1. since[f] = Never /\ since'[f] = since[f]
          BY <1>6, <3>3, <4>3 DEF Subscribed
        <5>2. ~Changed(f) /\ ~Changed(f)'
          BY <5>1 DEF Changed
        <5> QED BY <2>6, <4>1, <5>2
      <4>4. CASE tx[f].change = "none" /\ ~tx[f].post
        <5>1. since'[f] = since[f] /\ Latest(f)' = Latest(f)
          BY <1>6, <2>1, <4>4
        <5>2. Changed(f)' <=> Changed(f)
          BY <5>1 DEF Changed
        <5> QED BY <2>6, <4>1, <5>1, <5>2
      <4> QED BY <1>5, <3>3, <4>2, <4>3, <4>4 DEF Changes
    <3> QED BY <3>1, <3>2, <3>3
  <2> QED BY <2>5, <2>9 DEF RefsFollowSubscriptions, Changed
<1> QED BY <1>8, <1>9, <1>10 DEF Inv

LEMMA TickStep ==
  ASSUME Inv, Tick
  PROVE  Inv'
<1>1. Typed'
  BY DeliveryAssumption DEF Inv, Typed, Tick, repoVars
<1> QED BY <1>1, OthersKeep DEF Tick, repoVars

LEMMA RetryStep ==
  ASSUME Inv, NEW f \in Feeds, Retry(f)
  PROVE  Inv'
<1>1. tx' = [tx EXCEPT ![f] = NoTx] /\ UNCHANGED <<now, repoVars>>
  BY DEF Retry
<1>2. Typed'
  BY <1>1 DEF Inv, Typed, repoVars
<1>3. \A g \in Feeds : tx'[g].open => tx[g].open /\ tx'[g].change = tx[g].change
  BY <1>1 DEF Inv, Typed, NoTx
<1> QED BY <1>1, <1>2, <1>3, OthersKeep DEF repoVars

\* The steps that may change the subscriber's number and its time-out.
LEMMA OnlineKeeps ==
  ASSUME Inv, UNCHANGED <<now, log, since, refs>>,
         expires' \in {expires, Prolonged}, NEW n, tx' = Transactions(n)
  PROVE  Inv'
<1>1. Prolonged \in Nat \cup {Offline}
  <2>1. expires \in Int /\ now + OnlineExpires \in Nat
    BY DeliveryAssumption DEF Inv, Typed, Offline
  <2>2. Prolonged \in {expires, now + OnlineExpires}
    BY <2>1, MaxOfTwo DEF Prolonged
  <2> QED BY <2>1, <2>2 DEF Inv, Typed
<1>2. /\ tx' \in [Feeds -> {NoTx} \cup OpenTx]
      /\ \A f \in Feeds : tx'[f].open => tx[f].open /\ tx'[f].change = tx[f].change
  BY TransactionsType DEF Inv
<1>3. Typed'
  BY <1>1, <1>2 DEF Inv, Typed
<1> QED BY <1>2, <1>3, OthersKeep

LEMMA GoOnlineStep ==
  ASSUME Inv, GoOnline
  PROVE  Inv'
<1> DEFINE after == Transactions(seq')
<1>1. /\ UNCHANGED <<now, log, since, refs>>
      /\ expires' = Prolonged
      /\ tx' = [f \in Feeds |-> IF after[f].open
                                THEN [after[f] EXCEPT !.raced = TRUE] ELSE after[f]]
  BY DEF GoOnline, RefreshOnline
<1>2. /\ after \in [Feeds -> {NoTx} \cup OpenTx]
      /\ \A f \in Feeds : /\ after[f].open <=> tx[f].open
                          /\ tx[f].open => after[f].change = tx[f].change
  BY TransactionsType DEF Inv
<1> HIDE DEF after
<1>3. ASSUME NEW f \in Feeds
      PROVE  /\ tx'[f] \in {NoTx} \cup OpenTx
             /\ tx'[f].open => after[f].open /\ tx'[f].change = after[f].change
  <2>1. CASE after[f] = NoTx
    BY <1>1, <2>1 DEF NoTx
  <2>2. CASE after[f] \in OpenTx
    <3>1. tx'[f] = [after[f] EXCEPT !.raced = TRUE]
      BY <1>1, <2>2 DEF OpenTx
    <3> QED BY <2>2, <3>1 DEF OpenTx
  <2> QED BY <1>2, <2>1, <2>2
<1>4. tx' \in [Feeds -> {NoTx} \cup OpenTx]
  BY <1>1, <1>3
<1>5. expires' \in Nat \cup {Offline}
  <2>1. expires \in Int /\ now + OnlineExpires \in Nat
    BY DeliveryAssumption DEF Inv, Typed, Offline
  <2>2. Prolonged \in {expires, now + OnlineExpires}
    BY <2>1, MaxOfTwo DEF Prolonged
  <2> QED BY <1>1, <2>1, <2>2 DEF Inv, Typed
<1>6. Typed'
  BY <1>1, <1>4, <1>5 DEF Inv, Typed
<1> QED BY <1>1, <1>2, <1>3, <1>6, OthersKeep

\* Steps of the receiver and its bus.
LEMMA ReceiverStep ==
  ASSUME Inv, UNCHANGED <<now, repoVars, tx>>
  PROVE  Inv'
BY DEF Inv, Typed, SeesSubscription, RefsFollowSubscriptions, Latest, PostsOf, repoVars

LEMMA NextKeeps ==
  ASSUME Inv, [Next]_vars
  PROVE  Inv'
<1>1. CASE Tick
  BY <1>1, TickStep
<1>2. ASSUME NEW f \in Feeds, Begin(f)
      PROVE  Inv'
  BY <1>2, BeginStep
<1>3. ASSUME NEW f \in Feeds, Commit(f)
      PROVE  Inv'
  BY <1>3, CommitStep
<1>4. ASSUME NEW f \in Feeds, Retry(f)
      PROVE  Inv'
  BY <1>4, RetryStep
<1>5. CASE RefreshBump
  BY <1>5, OnlineKeeps DEF RefreshBump
<1>6. CASE RefreshSet
  <2>1. UNCHANGED <<now, log, since, refs, tx, seq>> /\ expires' = Prolonged
    BY <1>6 DEF RefreshSet
  <2>2. tx = Transactions(seq)
    BY DEF Inv, Typed, Transactions
  <2> QED BY <2>1, <2>2, OnlineKeeps
<1>7. CASE GoOnline
  BY <1>7, GoOnlineStep
<1>8. CASE HandleStart
  BY <1>8, ReceiverStep DEF HandleStart
<1>9. CASE Close
  BY <1>9, ReceiverStep DEF Close
<1>10. ASSUME NEW m \in wire, Receive(m)
       PROVE  Inv'
  BY <1>10, ReceiverStep DEF Receive
<1>11. CASE Sync
  <2>1. /\ UNCHANGED <<now, log, since, refs>>
        /\ expires' = Prolonged /\ tx' = Transactions(seq')
    BY <1>11 DEF Sync, RefreshOnline
  <2> QED BY <2>1, OnlineKeeps
<1>12. CASE UNCHANGED vars
  BY <1>12, ReceiverStep DEF vars
<1> QED BY <1>1, <1>2, <1>3, <1>4, <1>5, <1>6, <1>7, <1>8, <1>9, <1>10, <1>11, <1>12 DEF Next

LEMMA InitHolds ==
  ASSUME Init
  PROVE  Inv
<1>1. log = <<>> /\ Len(log) = 0 /\ DOMAIN log = {}
  BY DEF Init
<1>2. Typed
  BY <1>1, DeliveryAssumption DEF Init, Typed
<1>3. SeesSubscription
  BY DEF Init, SeesSubscription, NoTx
<1>4. \A f \in Feeds : Latest(f) = 0 /\ since[f] \in {Never, 0}
  BY <1>1 DEF Latest, PostsOf, Init
<1>5. RefsFollowSubscriptions
  BY <1>4 DEF Init, RefsFollowSubscriptions, Never
<1> QED BY <1>2, <1>3, <1>5 DEF Inv

----------------------------------------------------------------------------
(* The index of changed feeds *)

\* The index of changed feeds holds the latest post of every feed with posts since
\* it was subscribed to, and nothing else: a difference that reads only these feeds
\* (getFeedDifference) misses none, and finds an event in each.
THEOREM IndexAlwaysExact == Spec => []RefsFollowSubscriptions
<1>1. Init => Inv
  BY InitHolds
<1>2. Inv /\ [Next]_vars => Inv'
  BY NextKeeps
<1>3. Inv => RefsFollowSubscriptions
  BY DEF Inv
<1> QED BY <1>1, <1>2, <1>3, PTL DEF Spec
----------------------------------------------------------------------------
(* The position of the client *)

\* Messages a receiver may still get or has kept; whoever has number n among
\* them is the message of event i.
Queue == wire \cup receiver.pending
OnlyOf(n, i) == \A k \in Queue : k.seq = n => k.vt = i

\* The receiver can not come past number `to' without handing on event i, or at all.
Awaits(i, to) == \E n \in receiver.seq + 1 .. to : OnlyOf(n, i)
Gap == \E n \in receiver.seq + 1 .. seq : \A k \in Queue : k.seq # n

\* Nothing is numbered before the subscriber is on-line again, and that skips numbers.
Away ==
    /\ expires < now /\ refresher.phase = "idle"
    /\ \A f \in Feeds : ~FindsOnline(tx[f])

\* What the client is to get, and has not got.
Missing == {i \in Relevant : ~log[i].raced /\ i \notin client.has}

\* The subscriber as an open transaction found it: no refresh came between, or
\* one for which the transaction ends in time.
Sees(x) ==
    IF x.expires = Offline THEN expires < x.began
    ELSE expires = x.expires \/ x.began + TxTime <= x.expires

InTime ==
    /\ refresher.phase = "set" => refresher.at <= now /\ now <= refresher.at + RefreshTime
    /\ \A f \in Feeds : tx[f].open => tx[f].began <= now /\ now <= tx[f].began + TxTime
RefreshedInTime ==
    refresher.phase = "set" /\ receiver.phase # "closed" =>
      Gap \/ refresher.at + OnlineGap <= expires
SeenInTime ==
    receiver.phase # "closed" =>
      \A f \in Feeds : tx[f].open /\ ~tx[f].raced => Gap \/ Sees(tx[f])

Numbered ==
    /\ \A k \in Queue : k.seq <= seq /\ k.vt <= Len(log)
    /\ client.cursor <= Len(log) /\ IsFiniteSet(receiver.pending)
Awaited ==
    client.live => /\ receiver.phase = "started"
                   /\ \A i \in Missing : Awaits(i, seq) \/ Away
Ordered ==
    client.live =>
      \A m \in Queue : m.seq > receiver.seq =>
        \A i \in Missing : i < m.vt => Awaits(i, m.seq - 1)

\* The types of the rest of the state.
Shaped ==
    /\ Len(log) <= MaxLog /\ seq \in Nat
    /\ wire \in SUBSET Messages
    /\ refresher \in [phase : {"idle", "set"}, at : 0..MaxTime]
    /\ receiver \in [phase : {"closed", "committed", "started"},
                     seq : Nat, pending : SUBSET Messages]
    /\ receiver.seq <= seq
    /\ receiver.phase = "started" => \A m \in receiver.pending : m.seq > receiver.seq + 1
    /\ client \in [cursor : Nat, has : SUBSET Stamps, live : BOOLEAN]
Covered == \A i \in Missing : i > client.cursor

CoverInv ==
    /\ Inv /\ Shaped
    /\ InTime /\ RefreshedInTime /\ SeenInTime
    /\ Numbered /\ Awaited /\ Ordered /\ Covered

----------------------------------------------------------------------------
(* Numbers without a gap *)

\* A finite set of messages has no number for one of the next.
LEMMA SomeNumberFree ==
  ASSUME NEW M \in SUBSET Messages, IsFiniteSet(M), NEW from \in Nat
  PROVE  /\ Cardinality(M) \in Nat
         /\ \E k \in from + 1 .. from + Cardinality(M) + 1 : k \notin Numbers(M)
<1> DEFINE c == Cardinality(M)
           S == from + 1 .. from + c + 1
           number == [m \in M |-> m.seq]
<1>1. c \in Nat
  BY FS_CardinalityType
<1>2. number \in Surjection(M, Numbers(M))
  BY DEF Numbers, Surjection
<1>3. IsFiniteSet(Numbers(M)) /\ Cardinality(Numbers(M)) <= c
  BY <1>2, FS_Surjection
<1>4. IsFiniteSet(S) /\ Cardinality(S) = c + 1
  <2>1. from + 1 \in Int /\ from + c + 1 \in Int /\ ~(from + 1 > from + c + 1)
    BY <1>1
  <2>2. IsFiniteSet(S) /\ Cardinality(S) = (from + c + 1) - (from + 1) + 1
    BY <2>1, FS_Interval
  <2> HIDE DEF S, c
  <2>3. (from + c + 1) - (from + 1) + 1 = c + 1
    BY <1>1
  <2> QED BY <2>2, <2>3
<1>5. Cardinality(Numbers(M)) \in Nat
  BY <1>3, FS_CardinalityType
<1>6. ~(S \subseteq Numbers(M))
  <2> SUFFICES ASSUME S \subseteq Numbers(M)
               PROVE  FALSE
    OBVIOUS
  <2>1. Cardinality(S) <= Cardinality(Numbers(M))
    BY <1>3, FS_Subset
  <2> HIDE DEF c, S, number
  <2> QED BY <1>1, <1>3, <1>4, <1>5, <2>1
<1> QED BY <1>1, <1>6

\* flushPending stops before the first number that nobody has.
LEMMA ReachIs ==
  ASSUME NEW M \in SUBSET Messages, IsFiniteSet(M), NEW from \in Nat
  PROVE  /\ Reach(from, M) \in Nat /\ from <= Reach(from, M)
         /\ from + 1 .. Reach(from, M) \subseteq Numbers(M)
         /\ Reach(from, M) + 1 \notin Numbers(M)
<1> DEFINE c == Cardinality(M)
           T == {k \in from + 1 .. from + c + 1 : k \notin Numbers(M)}
<1>1. c \in Nat /\ T # {}
  BY SomeNumberFree
<1>2. T \in SUBSET Nat
  BY <1>1
<1>3. PICK k \in T : \A j \in T : k <= j
  BY <1>1, <1>2, Least
<1>4. k \in from + 1 .. from + c + 1 /\ k \notin Numbers(M)
  BY <1>3
<1>5. \A j \in from + 1 .. k - 1 : j \in Numbers(M)
  BY <1>1, <1>3, <1>4
<1> HIDE DEF c, T
<1> DEFINE n == k - 1
<1>6. n \in from .. from + c /\ n + 1 = k
  BY <1>1, <1>4
<1>7. from + 1 .. n \subseteq Numbers(M) /\ n + 1 \notin Numbers(M)
  BY <1>4, <1>5, <1>6
<1> HIDE DEF n
<1>8. \E r \in from .. from + c :
        from + 1 .. r \subseteq Numbers(M) /\ r + 1 \notin Numbers(M)
  BY <1>6, <1>7
<1>9. /\ Reach(from, M) \in from .. from + c
      /\ from + 1 .. Reach(from, M) \subseteq Numbers(M)
      /\ Reach(from, M) + 1 \notin Numbers(M)
  BY <1>8, Zenon DEF Reach, c
<1> QED BY <1>1, <1>9

----------------------------------------------------------------------------
(* What waits in the queue *)

LEMMA AwaitsAt ==
  ASSUME Shaped, NEW i, NEW a \in Int, NEW b \in Int, a <= b, Awaits(i, a)
  PROVE  Awaits(i, b)
BY DEF Awaits, Shaped

LEMMA GapAwaits ==
  ASSUME Gap, NEW i
  PROVE  Awaits(i, seq)
BY DEF Gap, Awaits, OnlyOf

\* New messages have new numbers.
LEMMA AwaitsStays ==
  ASSUME Shaped, receiver'.seq = receiver.seq,
         \A k \in Queue' : k \in Queue \/ k.seq > seq,
         NEW i, NEW to \in Int, to <= seq, Awaits(i, to)
  PROVE  Awaits(i, to)'
<1>1. PICK n \in receiver.seq + 1 .. to : OnlyOf(n, i)
  BY DEF Awaits
<1>2. n <= seq /\ seq \in Nat /\ n \in Int
  BY DEF Shaped
<1>3. \A k \in Queue' : k.seq = n => k.vt = i
  BY <1>1, <1>2 DEF OnlyOf
<1> QED BY <1>1, <1>3 DEF Awaits, OnlyOf

LEMMA GapStays ==
  ASSUME Shaped, receiver'.seq = receiver.seq, seq' \in Nat, seq <= seq',
         \A k \in Queue' : k \in Queue \/ k.seq > seq,
         Gap
  PROVE  Gap'
<1>1. PICK n \in receiver.seq + 1 .. seq : \A k \in Queue : k.seq # n
  BY DEF Gap
<1>2. n <= seq /\ seq \in Nat /\ n \in Int /\ receiver.seq \in Nat
  BY DEF Shaped
<1>3. \A k \in Queue' : k.seq # n
  BY <1>1, <1>2
<1>4. n \in receiver'.seq + 1 .. seq'
  BY <1>1, <1>2
<1> QED BY <1>3, <1>4 DEF Gap

\* A number is skipped when nobody has the number that comes next.
LEMMA SkipGap ==
  ASSUME Shaped, Numbered, UNCHANGED <<wire, receiver>>, seq' \in Nat, seq < seq'
  PROVE  Gap'
<1>1. receiver'.seq \in Nat /\ receiver'.seq <= seq /\ seq \in Nat
  BY DEF Shaped
<1>2. \A k \in Queue' : k.seq # seq + 1
  <2> SUFFICES ASSUME NEW k \in Queue
               PROVE  k.seq # seq + 1
    BY DEF Queue
  <2>1. k \in Messages
    BY DEF Shaped, Queue
  <2>2. k.seq \in Nat
    BY <2>1 DEF Messages
  <2>3. k.seq <= seq
    BY DEF Numbered
  <2> QED BY <1>1, <2>2, <2>3
<1>3. seq + 1 \in receiver'.seq + 1 .. seq'
  BY <1>1
<1> QED BY <1>2, <1>3 DEF Gap
----------------------------------------------------------------------------
(* Transactions between their beginning and their end *)

\* Transactions go on, begin again or end.
Later(x, y) ==
    y.open => /\ x.open /\ x.began = y.began /\ x.expires = y.expires
              /\ ~y.stale => ~x.stale
              /\ ~y.raced => ~x.raced
GoOn == \A f \in Feeds : Later(tx[f], tx'[f])

LEMMA MarkedLater ==
  ASSUME Typed, NEW n, NEW f \in Feeds
  PROVE  Later(tx[f], Transactions(n)[f])
<1> DEFINE y == [tx[f] EXCEPT !.stale = TRUE]
<1>1. Transactions(n)[f] \in {tx[f], y}
  BY DEF Transactions
<1>2. CASE tx[f] = NoTx
  BY <1>2 DEF Transactions, NoTx, Later
<1>3. CASE tx[f] \in OpenTx
  <2>1. /\ y.open = tx[f].open /\ y.began = tx[f].began /\ y.expires = tx[f].expires
        /\ y.stale = TRUE /\ y.raced = tx[f].raced /\ tx[f].open
    BY <1>3 DEF OpenTx
  <2> HIDE DEF y
  <2> QED BY <1>1, <2>1 DEF Later
<1> QED BY <1>2, <1>3 DEF Typed

LEMMA MarkedGoOn ==
  ASSUME Typed, NEW n, tx' = Transactions(n)
  PROVE  GoOn
BY MarkedLater DEF GoOn

LEMMA NoneFindOnline ==
  ASSUME GoOn, \A f \in Feeds : ~FindsOnline(tx[f])
  PROVE  \A f \in Feeds : ~FindsOnline(tx'[f])
BY DEF GoOn, Later, FindsOnline

LEMMA StaysInTime ==
  ASSUME InTime, GoOn, now' = now,
         refresher' = refresher \/ refresher'.phase = "idle"
  PROVE  InTime'
BY DEF InTime, GoOn, Later

\* Open transactions see the subscriber as long as its time-out stays.
LEMMA StaysSeen ==
  ASSUME SeenInTime, GoOn, expires' = expires, Gap => Gap',
         receiver'.phase # "closed" => receiver.phase # "closed"
  PROVE  SeenInTime'
<1> SUFFICES ASSUME receiver'.phase # "closed",
                    NEW f \in Feeds, tx'[f].open, ~tx'[f].raced
             PROVE  Gap' \/ Sees(tx[f])'
  BY DEF SeenInTime
<1>1. Gap \/ Sees(tx[f])
  BY DEF SeenInTime, GoOn, Later
<1>2. Sees(tx[f]) => Sees(tx[f])'
  BY DEF GoOn, Later, Sees
<1> QED BY <1>1, <1>2

LEMMA StaysRefreshed ==
  ASSUME RefreshedInTime, refresher' = refresher, expires' = expires, Gap => Gap',
         receiver'.phase # "closed" => receiver.phase # "closed"
  PROVE  RefreshedInTime'
BY DEF RefreshedInTime

\* Steps that leave the receiver, its queue and the events alone.
LEMMA Quiet ==
  ASSUME CoverInv, UNCHANGED <<log, since, wire, receiver, client>>,
         seq' \in Nat, seq <= seq',
         refresher' \in [phase : {"idle", "set"}, at : 0..MaxTime],
         Away => Away' \/ Gap'
  PROVE  Shaped' /\ Numbered' /\ Awaited' /\ Ordered' /\ Covered' /\ (Gap => Gap')
<1>1. Shaped /\ Numbered /\ Awaited /\ Ordered /\ Covered /\ Typed
  BY DEF CoverInv, Inv
<1>2. Queue' = Queue /\ Missing' = Missing
  BY DEF Queue, Missing, Relevant
<1>3. Gap => Gap'
  BY <1>1, <1>2, GapStays
<1>4. seq \in Nat /\ receiver.seq \in Nat /\ receiver.seq <= seq'
  BY <1>1 DEF Shaped
<1>5. Shaped'
  BY <1>1, <1>4 DEF Shaped
<1>6. \A k \in Queue : k.seq \in Nat /\ k.seq <= seq
  <2>1. \A k \in Queue : k \in Messages
    BY <1>1 DEF Shaped, Queue
  <2> QED BY <1>1, <2>1 DEF Numbered, Messages
<1>7. Numbered'
  BY <1>1, <1>2, <1>4, <1>6 DEF Numbered
<1>8. ASSUME NEW i, NEW to \in Int, to <= seq, Awaits(i, to)
      PROVE  Awaits(i, to)'
  BY <1>1, <1>2, <1>8, AwaitsStays
<1>9. Awaited'
  <2> SUFFICES ASSUME client.live, NEW i \in Missing
               PROVE  Awaits(i, seq)' \/ Away'
    BY <1>1, <1>2 DEF Awaited
  <2>1. Awaits(i, seq) \/ Away
    BY <1>1 DEF Awaited
  <2>2. CASE Awaits(i, seq)
    <3>1. \E n \in receiver.seq + 1 .. seq : OnlyOf(n, i)'
      BY <1>2, <2>2 DEF Awaits, OnlyOf
    <3>2. \E n \in receiver'.seq + 1 .. seq' : OnlyOf(n, i)'
      BY <1>4, <3>1
    <3> QED BY <3>2 DEF Awaits
  <2>3. CASE Gap'
    <3>1. \E n \in receiver'.seq + 1 .. seq' : OnlyOf(n, i)'
      BY <2>3 DEF Gap, OnlyOf
    <3> QED BY <3>1 DEF Awaits
  <2> QED BY <2>1, <2>2, <2>3
<1>10. Ordered'
  <2> SUFFICES ASSUME client.live, NEW m \in Queue, m.seq > receiver.seq,
                      NEW i \in Missing, i < m.vt
               PROVE  Awaits(i, m.seq - 1)'
    BY <1>2 DEF Ordered
  <2>1. m.seq - 1 \in Int /\ m.seq - 1 <= seq
    BY <1>4, <1>6
  <2>2. Awaits(i, m.seq - 1)
    BY <1>1 DEF Ordered
  <2> QED BY <1>8, <2>1, <2>2
<1>11. Covered'
  BY <1>1, <1>2 DEF Covered
<1> QED BY <1>3, <1>5, <1>7, <1>9, <1>10, <1>11

----------------------------------------------------------------------------
(* The steps of the clock, of transactions and of the refresh loop *)

LEMMA TickCovers ==
  ASSUME CoverInv, Tick
  PROVE  CoverInv'
<1>1. Inv' /\ UNCHANGED <<repoVars, tx, wire, refresher, receiver, client>> /\ now' = now + 1
  BY TickStep DEF CoverInv, Tick
<1>2. UNCHANGED <<expires, seq, log, since>>
  BY <1>1 DEF repoVars
<1>3. now \in Nat /\ MaxTime \in Nat /\ expires \in Int
  BY DeliveryAssumption DEF CoverInv, Inv, Typed, Offline
<1>4. seq' \in Nat /\ seq <= seq' /\ refresher' \in [phase : {"idle", "set"}, at : 0..MaxTime]
  BY <1>1, <1>2 DEF CoverInv, Shaped
<1>5. Away => Away'
  BY <1>1, <1>2, <1>3 DEF Away
<1>6. Shaped' /\ Numbered' /\ Awaited' /\ Ordered' /\ Covered' /\ (Gap => Gap')
  BY <1>1, <1>2, <1>4, <1>5, Quiet
<1>7. InTime'
  <2>1. ASSUME refresher.phase = "set"
        PROVE  refresher.at <= now' /\ now' <= refresher.at + RefreshTime
    <3>1. refresher.at \in Nat /\ refresher.at <= now /\ now < refresher.at + RefreshTime
      BY <2>1 DEF CoverInv, InTime, Tick, Shaped
    <3> QED BY <1>1, <1>3, <3>1, DeliveryAssumption
  <2>2. ASSUME NEW f \in Feeds, tx[f].open
        PROVE  tx[f].began <= now' /\ now' <= tx[f].began + TxTime
    <3>1. tx[f] \in OpenTx
      BY <2>2 DEF CoverInv, Inv, Typed, NoTx
    <3>2. tx[f].began \in Nat /\ tx[f].began <= now /\ now < tx[f].began + TxTime
      <4>1. tx[f].began \in 0..MaxTime
        BY <3>1 DEF OpenTx
      <4>2. tx[f].began <= now /\ now < tx[f].began + TxTime
        BY <2>2 DEF CoverInv, InTime, Tick
      <4> QED BY <1>3, <4>1, <4>2
    <3> QED BY <1>1, <1>3, <3>2, DeliveryAssumption
  <2> QED BY <1>1, <2>1, <2>2 DEF InTime
<1>8. GoOn
  BY <1>1 DEF GoOn, Later
<1>9. RefreshedInTime' /\ SeenInTime'
  BY <1>1, <1>2, <1>6, <1>8, StaysSeen, StaysRefreshed DEF CoverInv
<1> QED BY <1>1, <1>6, <1>7, <1>9 DEF CoverInv

\* A transaction that begins finds the subscriber as it is.
LEMMA BeginCovers ==
  ASSUME CoverInv, NEW f \in Feeds, Begin(f)
  PROVE  CoverInv'
<1>1. Inv' /\ UNCHANGED <<now, repoVars, wire, refresher, receiver, client>>
  BY BeginStep, Zenon DEF CoverInv, Begin
<1>2. UNCHANGED <<expires, seq, log, since>>
  BY <1>1 DEF repoVars
<1>3. now \in Nat /\ expires \in Int
  BY DEF CoverInv, Inv, Typed, Offline
<1>4. seq' \in Nat /\ seq <= seq' /\ refresher' \in [phase : {"idle", "set"}, at : 0..MaxTime]
  BY <1>1, <1>2 DEF CoverInv, Shaped
<1>5. PICK change \in Changes, post \in BOOLEAN :
           tx' = [tx EXCEPT ![f] =
                       [open |-> TRUE, change |-> change, post |-> post,
                        stale |-> FALSE, began |-> now, raced |-> FALSE,
                        expires |-> IF OnlineAt(now) THEN expires ELSE Offline]]
  BY Zenon DEF Begin
<1>6. /\ \A g \in Feeds : g # f => tx'[g] = tx[g]
      /\ tx'[f].began = now
      /\ tx'[f].expires = IF OnlineAt(now) THEN expires ELSE Offline
  BY <1>5 DEF CoverInv, Inv, Typed
<1>7. Away => Away'
  <2> SUFFICES ASSUME Away
               PROVE  ~FindsOnline(tx'[f])
    BY <1>1, <1>2, <1>6 DEF Away
  <2>1. ~OnlineAt(now)
    BY <1>3 DEF Away, OnlineAt
  <2> QED BY <1>6, <2>1 DEF FindsOnline
<1>8. Shaped' /\ Numbered' /\ Awaited' /\ Ordered' /\ Covered' /\ (Gap => Gap')
  BY <1>1, <1>2, <1>4, <1>7, Quiet
<1>9. InTime'
  BY <1>1, <1>3, <1>6, DeliveryAssumption DEF CoverInv, InTime
<1>10. RefreshedInTime'
  BY <1>1, <1>2, <1>8, StaysRefreshed DEF CoverInv
<1>11. SeenInTime'
  <2> SUFFICES ASSUME receiver.phase # "closed",
                      NEW g \in Feeds, tx'[g].open, ~tx'[g].raced
               PROVE  Gap' \/ Sees(tx[g])'
    BY <1>1 DEF SeenInTime
  <2>1. CASE g = f
    <3>1. CASE OnlineAt(now)
      <4>1. tx'[f].expires = expires' /\ expires # Offline
        BY <1>2, <1>3, <1>6, <3>1 DEF OnlineAt, Offline
      <4> QED BY <1>2, <2>1, <4>1 DEF Sees
    <3>2. CASE ~OnlineAt(now)
      <4>1. tx'[f].expires = Offline /\ expires < now
        BY <1>3, <1>6, <3>2 DEF OnlineAt
      <4> QED BY <1>2, <1>6, <2>1, <4>1 DEF Sees
    <3> QED BY <3>1, <3>2
  <2>2. CASE g # f
    <3>1. Gap \/ Sees(tx[g])
      BY <1>6, <2>2 DEF CoverInv, SeenInTime
    <3>2. Sees(tx[g]) => Sees(tx[g])'
      BY <1>2, <1>6, <2>2 DEF Sees
    <3> QED BY <1>8, <3>1, <3>2
  <2> QED BY <2>1, <2>2
<1> QED BY <1>1, <1>8, <1>9, <1>10, <1>11 DEF CoverInv

LEMMA RetryCovers ==
  ASSUME CoverInv, NEW f \in Feeds, Retry(f)
  PROVE  CoverInv'
<1>1. /\ Inv' /\ UNCHANGED <<now, repoVars, wire, refresher, receiver, client>>
      /\ tx' = [tx EXCEPT ![f] = NoTx]
  BY RetryStep DEF CoverInv, Retry
<1>2. UNCHANGED <<expires, seq, log, since>>
  BY <1>1 DEF repoVars
<1>3. GoOn
  BY <1>1 DEF CoverInv, Inv, Typed, GoOn, Later, NoTx
<1>4. Away => Away'
  BY <1>1, <1>2, <1>3, NoneFindOnline DEF Away
<1>5. seq' \in Nat /\ seq <= seq' /\ refresher' \in [phase : {"idle", "set"}, at : 0..MaxTime]
  BY <1>1, <1>2 DEF CoverInv, Shaped
<1>6. Shaped' /\ Numbered' /\ Awaited' /\ Ordered' /\ Covered' /\ (Gap => Gap')
  BY <1>1, <1>2, <1>4, <1>5, Quiet
<1>7. InTime' /\ RefreshedInTime' /\ SeenInTime'
  BY <1>1, <1>2, <1>3, <1>6, StaysInTime, StaysSeen, StaysRefreshed DEF CoverInv
<1> QED BY <1>1, <1>6, <1>7 DEF CoverInv

\* What refreshOnline computes.
LEMMA RefreshIs ==
  ASSUME CoverInv
  PROVE  /\ now \in Nat /\ expires \in Int /\ seq \in Nat
         /\ expires <= Prolonged /\ now + OnlineExpires <= Prolonged /\ Prolonged \in Int
         /\ Bumped \in Nat /\ seq <= Bumped
         /\ OnlineAt(now + OnlineGap) \/ seq < Bumped
         /\ OnlineAt(now + OnlineGap) <=> expires >= now + OnlineGap
<1>1. now \in Nat /\ expires \in Int /\ seq \in Nat
  BY DEF CoverInv, Inv, Typed, Shaped, Offline
<1>2. expires <= Prolonged /\ now + OnlineExpires <= Prolonged /\ Prolonged \in Int
  <2> DEFINE b == now + OnlineExpires
  <2>1. b \in Int
    BY <1>1, DeliveryAssumption
  <2>2. Prolonged = Max({expires, b})
    BY DEF Prolonged
  <2> HIDE DEF b
  <2>3. \E z \in {expires, b} : \A y \in {expires, b} : z >= y
    <3>1. CASE expires >= b
      BY <1>1, <3>1
    <3>2. CASE ~(expires >= b)
      BY <1>1, <2>1, <3>2
    <3> QED BY <3>1, <3>2
  <2>4. Prolonged \in {expires, b} /\ \A y \in {expires, b} : Prolonged >= y
    BY <2>2, <2>3, Zenon DEF Max
  <2>5. expires <= Prolonged /\ b <= Prolonged /\ Prolonged \in Int
    BY <1>1, <2>1, <2>4
  <2> QED BY <2>5 DEF b
<1>3. Bumped \in Nat /\ seq <= Bumped /\ (OnlineAt(now + OnlineGap) \/ seq < Bumped)
  BY <1>1, DeliveryAssumption DEF Bumped
<1> QED BY <1>1, <1>2, <1>3 DEF OnlineAt

\* Who is off-line is skipped a number.
LEMMA BumpSkips ==
  ASSUME CoverInv, seq' = Bumped, UNCHANGED <<wire, receiver>>
  PROVE  Gap' \/ expires >= now + OnlineGap
<1>1. Shaped /\ Numbered
  BY DEF CoverInv
<1>2. Bumped \in Nat /\ (expires >= now + OnlineGap \/ seq < Bumped)
  BY RefreshIs
<1>3. CASE seq < Bumped
  <2>1. seq' \in Nat /\ seq < seq'
    BY <1>2, <1>3
  <2> QED BY <1>1, <2>1, SkipGap
<1> QED BY <1>2, <1>3

LEMMA RefreshBumpCovers ==
  ASSUME CoverInv, RefreshBump
  PROVE  CoverInv'
<1>1. /\ seq' = Bumped /\ tx' = Transactions(seq')
      /\ refresher' = [phase |-> "set", at |-> now]
      /\ UNCHANGED <<now, expires, log, since, refs, wire, receiver, client>>
  BY DEF RefreshBump
<1>2. Inv'
  BY <1>1, OnlineKeeps DEF CoverInv
<1>3. GoOn
  BY <1>1, MarkedGoOn DEF CoverInv, Inv
<1>4. Gap' \/ expires >= now + OnlineGap
  BY <1>1, BumpSkips
<1>5. /\ now \in Nat /\ expires \in Int
      /\ now \in 0..MaxTime /\ OnlineGap \in Nat /\ RefreshTime \in Nat
  BY RefreshIs, DeliveryAssumption DEF CoverInv, Inv, Typed
<1>6. seq' \in Nat /\ seq <= seq' /\ refresher' \in [phase : {"idle", "set"}, at : 0..MaxTime]
  BY <1>1, <1>5, RefreshIs
<1>7. Away => Gap'
  BY <1>4, <1>5 DEF Away
<1>8. Shaped' /\ Numbered' /\ Awaited' /\ Ordered' /\ Covered' /\ (Gap => Gap')
  BY <1>1, <1>6, <1>7, Quiet
<1>9. InTime'
  BY <1>1, <1>3, <1>5 DEF CoverInv, InTime, GoOn, Later
<1>10. RefreshedInTime'
  BY <1>1, <1>4, <1>5 DEF RefreshedInTime
<1>11. SeenInTime'
  BY <1>1, <1>3, <1>8, StaysSeen DEF CoverInv
<1> QED BY <1>2, <1>8, <1>9, <1>10, <1>11 DEF CoverInv

\* The refresh comes before a transaction that found the subscriber can outlive it.
LEMMA RefreshSetCovers ==
  ASSUME CoverInv, RefreshSet
  PROVE  CoverInv'
<1>1. /\ refresher.phase = "set" /\ refresher' = [phase |-> "idle", at |-> 0]
      /\ expires' = Prolonged
      /\ UNCHANGED <<now, seq, log, since, refs, tx, wire, receiver, client>>
  BY DEF RefreshSet
<1>2. Inv'
  <2>1. tx = Transactions(seq)
    BY DEF CoverInv, Inv, Typed, Transactions
  <2> QED BY <1>1, <2>1, OnlineKeeps DEF CoverInv
<1>3. GoOn
  BY <1>1 DEF GoOn, Later
<1>4. /\ now \in Nat /\ expires \in Int /\ OnlineGap \in Nat /\ RefreshTime \in Nat
      /\ TxTime \in Nat /\ TxTime + RefreshTime <= OnlineGap /\ 0 \in 0..MaxTime
  BY RefreshIs, DeliveryAssumption
<1>5. seq' \in Nat /\ seq <= seq' /\ refresher' \in [phase : {"idle", "set"}, at : 0..MaxTime]
  BY <1>1, <1>4, RefreshIs
<1>6. ~Away
  BY <1>1 DEF Away
<1>7. Shaped' /\ Numbered' /\ Awaited' /\ Ordered' /\ Covered' /\ (Gap => Gap')
  BY <1>1, <1>5, <1>6, Quiet
<1>8. InTime' /\ RefreshedInTime'
  BY <1>1, <1>3, StaysInTime DEF CoverInv, RefreshedInTime
<1>9. SeenInTime'
  <2> SUFFICES ASSUME receiver.phase # "closed", ~Gap',
                      NEW f \in Feeds, tx[f].open, ~tx[f].raced
               PROVE  Sees(tx[f])'
    BY <1>1 DEF SeenInTime
  <2> DEFINE x == tx[f]
  <2>1. Sees(x) /\ refresher.at + OnlineGap <= expires
    BY <1>1, <1>7 DEF CoverInv, SeenInTime, RefreshedInTime
  <2>2. /\ refresher.at <= now /\ now <= refresher.at + RefreshTime
        /\ x.began <= now
    BY <1>1 DEF CoverInv, InTime
  <2>3. x.began \in Nat /\ refresher.at \in Nat
    <3>1. x \in OpenTx
      BY DEF CoverInv, Inv, Typed, NoTx
    <3>2. x.began \in 0..MaxTime /\ refresher.at \in 0..MaxTime
      BY <3>1 DEF OpenTx, CoverInv, Shaped
    <3> QED BY <3>2, DeliveryAssumption
  <2> HIDE DEF x
  <2>4. x.began <= expires /\ x.began + TxTime <= expires
    BY <1>4, <2>1, <2>2, <2>3
  <2>5. x.expires # Offline /\ x.began + TxTime <= x.expires
    <3>1. x.expires # Offline
      BY <1>4, <2>1, <2>3, <2>4 DEF Sees
    <3>2. expires = x.expires \/ x.began + TxTime <= x.expires
      BY <2>1, <3>1 DEF Sees
    <3> QED BY <2>4, <3>1, <3>2
  <2>6. x' = x
    BY <1>1 DEF x
  <2>7. Sees(x)'
    BY <2>5, <2>6 DEF Sees
  <2> QED BY <2>7 DEF x
<1> QED BY <1>2, <1>7, <1>8, <1>9 DEF CoverInv

----------------------------------------------------------------------------
(* The steps of the receiver *)

\* Transactions that the receiver found open are not followed.
LEMMA GoOnlineCovers ==
  ASSUME CoverInv, GoOnline
  PROVE  CoverInv'
<1> DEFINE after == Transactions(seq')
<1>1. /\ receiver.phase = "closed" /\ seq' = Bumped /\ expires' = Prolonged
      /\ receiver' = [phase |-> "committed", seq |-> seq', pending |-> {}]
      /\ tx' = [f \in Feeds |-> IF after[f].open
                                THEN [after[f] EXCEPT !.raced = TRUE] ELSE after[f]]
      /\ UNCHANGED <<now, log, since, refs, wire, refresher, client>>
  BY DEF GoOnline, RefreshOnline
<1>2. Inv'
  BY GoOnlineStep DEF CoverInv
<1>3. after \in [Feeds -> {NoTx} \cup OpenTx] /\ \A f \in Feeds : Later(tx[f], after[f])
  BY TransactionsType, MarkedLater DEF CoverInv, Inv
<1> HIDE DEF after
<1>4. ASSUME NEW f \in Feeds, tx'[f].open
      PROVE  tx'[f].raced /\ Later(tx[f], tx'[f])
  <2>1. CASE after[f] = NoTx
    BY <1>1, <1>4, <2>1 DEF NoTx
  <2>2. CASE after[f] \in OpenTx
    <3> DEFINE y == [after[f] EXCEPT !.raced = TRUE]
    <3>1. /\ y.open = after[f].open /\ y.began = after[f].began
          /\ y.expires = after[f].expires /\ y.stale = after[f].stale
          /\ y.raced = TRUE /\ after[f].open
      BY <2>2 DEF OpenTx
    <3>2. tx'[f] = y
      BY <1>1, <3>1
    <3> HIDE DEF y
    <3> QED BY <1>3, <3>1, <3>2 DEF Later
  <2> QED BY <1>3, <2>1, <2>2
<1>5. GoOn
  BY <1>4 DEF GoOn, Later
<1>6. ~client.live
  BY <1>1 DEF CoverInv, Awaited
<1>7. Awaited' /\ Ordered'
  BY <1>1, <1>6 DEF Awaited, Ordered
<1>8. Covered'
  BY <1>1 DEF CoverInv, Covered, Missing, Relevant
<1>9. SeenInTime'
  BY <1>4 DEF SeenInTime
<1>10. InTime'
  BY <1>1, <1>5, StaysInTime DEF CoverInv
<1>11. seq \in Nat /\ Bumped \in Nat /\ seq <= Bumped
  BY RefreshIs
<1>12. Numbered'
  <2>1. /\ \A k \in Queue : k \in Messages /\ k.seq <= seq /\ k.vt <= Len(log)
        /\ client.cursor <= Len(log)
    BY DEF CoverInv, Numbered, Queue, Shaped
  <2>2. Queue' \subseteq Queue /\ IsFiniteSet(receiver'.pending)
    BY <1>1, FS_EmptySet DEF Queue
  <2>3. \A k \in Queue' : k.seq <= seq'
    BY <1>1, <1>11, <2>1, <2>2 DEF Messages
  <2> QED BY <1>1, <2>1, <2>2, <2>3 DEF Numbered
<1>13. Shaped'
  BY <1>1, <1>11 DEF CoverInv, Shaped
<1>14. RefreshedInTime'
  <2> SUFFICES ASSUME refresher.phase = "set"
               PROVE  refresher.at + OnlineGap <= expires'
    BY <1>1 DEF RefreshedInTime
  <2>1. refresher.at \in Int /\ refresher.at <= now
    BY DEF CoverInv, InTime, Shaped
  <2>2. now \in Nat /\ now + OnlineExpires <= expires' /\ expires' \in Int
    BY <1>1, RefreshIs
  <2> QED BY <2>1, <2>2, DeliveryAssumption
<1> QED BY <1>2, <1>7, <1>8, <1>9, <1>10, <1>12, <1>13, <1>14 DEF CoverInv

LEMMA CloseCovers ==
  ASSUME CoverInv, Close
  PROVE  CoverInv'
<1>1. /\ receiver' = Closed /\ client' = [client EXCEPT !.live = FALSE]
      /\ UNCHANGED <<now, repoVars, tx, wire, refresher>>
  BY DEF Close
<1>2. UNCHANGED <<expires, seq, log, since>>
  BY <1>1 DEF repoVars
<1>3. Inv'
  BY <1>1, ReceiverStep DEF CoverInv
<1>4. client'.cursor = client.cursor /\ client'.has = client.has /\ ~client'.live
      /\ client' \in [cursor : Nat, has : SUBSET Stamps, live : BOOLEAN]
  BY <1>1 DEF CoverInv, Shaped
<1>5. receiver'.phase = "closed" /\ receiver'.pending = {} /\ receiver'.seq = 0
      /\ receiver' \in [phase : {"closed", "committed", "started"},
                        seq : Nat, pending : SUBSET Messages]
  BY <1>1 DEF Closed
<1>6. Shaped'
  BY <1>1, <1>2, <1>4, <1>5 DEF CoverInv, Shaped
<1>7. InTime' /\ RefreshedInTime' /\ SeenInTime'
  BY <1>1, <1>2, <1>5 DEF CoverInv, InTime, RefreshedInTime, SeenInTime
<1>8. Numbered'
  BY <1>1, <1>2, <1>4, <1>5, FS_EmptySet DEF CoverInv, Numbered, Queue
<1>9. Awaited' /\ Ordered'
  BY <1>4 DEF Awaited, Ordered
<1>10. Covered'
  BY <1>1, <1>2, <1>4 DEF CoverInv, Covered, Missing, Relevant
<1> QED BY <1>3, <1>6, <1>7, <1>8, <1>9, <1>10 DEF CoverInv

\* What flushPending makes of messages of the queue: it stops below every number
\* that nobody has, and hands on all numbers before it.
LEMMA AdvanceIs ==
  ASSUME CoverInv, NEW M, M \subseteq Queue, IsFiniteSet(M)
  PROVE  LET n == Reach(receiver.seq, M)
         IN  /\ n \in Nat /\ receiver.seq <= n /\ n <= seq
             /\ receiver.seq + 1 .. n \subseteq Numbers(M) /\ n + 1 \notin Numbers(M)
             /\ M \in SUBSET Messages
<1> DEFINE n == Reach(receiver.seq, M)
<1>1. receiver.seq \in Nat /\ seq \in Nat /\ receiver.seq <= seq /\ M \in SUBSET Messages
  BY DEF CoverInv, Shaped, Queue
<1>2. /\ n \in Nat /\ receiver.seq <= n
      /\ receiver.seq + 1 .. n \subseteq Numbers(M) /\ n + 1 \notin Numbers(M)
  BY <1>1, ReachIs
<1> HIDE DEF n
<1>3. n <= seq
  <2>1. CASE n = receiver.seq
    BY <1>1, <2>1
  <2>2. CASE n # receiver.seq
    <3>1. n \in Numbers(M)
      BY <1>1, <1>2, <2>2
    <3>2. PICK k \in M : k.seq = n
      BY <3>1 DEF Numbers
    <3> QED BY <3>2 DEF CoverInv, Numbered
  <2> QED BY <2>1, <2>2
<1> QED BY <1>1, <1>2, <1>3 DEF n

\* The receiver gets no further than a number that nobody has.
LEMMA AdvanceGap ==
  ASSUME CoverInv, NEW M, M \subseteq Queue, IsFiniteSet(M),
         receiver'.seq = Reach(receiver.seq, M), seq' = seq, Queue' \subseteq Queue, Gap
  PROVE  Gap'
<1> DEFINE n == Reach(receiver.seq, M)
<1>1. n \in Nat /\ receiver.seq \in Nat /\ receiver.seq + 1 .. n \subseteq Numbers(M)
  BY AdvanceIs DEF CoverInv, Shaped
<1>2. PICK k \in receiver.seq + 1 .. seq : \A j \in Queue : j.seq # k
  BY DEF Gap
<1>3. k \notin Numbers(M)
  BY <1>2 DEF Numbers
<1>4. k \in Int /\ receiver.seq + 1 <= k /\ k <= seq
  BY <1>1, <1>2 DEF CoverInv, Shaped
<1> HIDE DEF n
<1>5. n + 1 <= k
  BY <1>1, <1>3, <1>4
<1>6. k \in receiver'.seq + 1 .. seq'
  BY <1>1, <1>4, <1>5 DEF n, CoverInv, Shaped
<1> QED BY <1>2, <1>6 DEF Gap

\* The frame of the steps that only read the queue.
LEMMA ReadStep ==
  ASSUME CoverInv, UNCHANGED <<now, repoVars, tx, refresher>>,
         Shaped', Queue' \subseteq Queue, Gap => Gap', IsFiniteSet(receiver'.pending),
         receiver'.phase # "closed" => receiver.phase # "closed",
         client'.cursor <= Len(log), Awaited', Ordered', Covered'
  PROVE  CoverInv'
<1>1. UNCHANGED <<expires, seq, log, since>>
  BY DEF repoVars
<1>2. Inv'
  BY ReceiverStep DEF CoverInv
<1>3. GoOn
  BY DEF GoOn, Later
<1>4. InTime' /\ RefreshedInTime' /\ SeenInTime'
  BY <1>1, <1>3, StaysInTime, StaysSeen, StaysRefreshed DEF CoverInv
<1>5. Numbered'
  BY <1>1 DEF CoverInv, Numbered
<1> QED BY <1>2, <1>4, <1>5 DEF CoverInv

LEMMA HandleStartCovers ==
  ASSUME CoverInv, HandleStart
  PROVE  CoverInv'
<1> DEFINE M == receiver.pending
           n == Reach(receiver.seq, M)
<1>1. /\ receiver.phase = "committed"
      /\ receiver' = [phase |-> "started", seq |-> n, pending |-> {m \in M : m.seq > n}]
      /\ UNCHANGED <<now, repoVars, tx, wire, refresher>>
  BY Zenon DEF HandleStart, Advance
<1>2. ~client.live
  BY <1>1 DEF CoverInv, Awaited
<1>3. client' = client
  BY <1>2, Zenon DEF HandleStart, Deliver
<1>4. IsFiniteSet(M) /\ M \subseteq Queue
  BY DEF CoverInv, Numbered, Queue
<1>5. n \in Nat /\ n <= seq /\ n + 1 \notin Numbers(M) /\ M \in SUBSET Messages
  BY <1>4, AdvanceIs
<1>6. receiver'.seq = n /\ receiver'.pending = {m \in M : m.seq > n}
      /\ receiver'.phase = "started"
  BY <1>1
<1>7. Gap => Gap'
  <2>1. Queue' \subseteq Queue /\ seq' = seq
    BY <1>1, <1>6 DEF Queue, repoVars
  <2> QED BY <1>4, <1>6, <2>1, AdvanceGap
<1> HIDE DEF n
<1>8. \A m \in receiver'.pending : m.seq > n + 1
  <2> SUFFICES ASSUME NEW m \in M, m.seq > n
               PROVE  m.seq > n + 1
    BY <1>6
  <2>1. m.seq \in Nat
    BY <1>5 DEF Messages
  <2>2. m.seq # n + 1
    BY <1>5 DEF Numbers
  <2> QED BY <1>5, <2>1, <2>2
<1> HIDE DEF M
<1>9. receiver' \in [phase : {"closed", "committed", "started"},
                     seq : Nat, pending : SUBSET Messages]
  BY <1>1, <1>5
<1>10. Shaped'
  BY <1>1, <1>3, <1>5, <1>6, <1>8, <1>9 DEF CoverInv, Shaped, repoVars
<1>11. Queue' \subseteq Queue
  BY <1>1, <1>6 DEF Queue, M
<1>12. IsFiniteSet(receiver'.pending)
  BY <1>4, <1>6, FS_Subset
<1>13. Awaited' /\ Ordered'
  BY <1>2, <1>3 DEF Awaited, Ordered
<1>14. Covered' /\ client'.cursor <= Len(log)
  BY <1>1, <1>3 DEF CoverInv, Covered, Missing, Relevant, repoVars, Numbered
<1> QED BY <1>1, <1>7, <1>10, <1>11, <1>12, <1>13, <1>14, ReadStep

\* What is handed on ends before the first number that would hand on an event the
\* client still misses: the client passes none of them.
LEMMA HandOnCovers ==
  ASSUME CoverInv, receiver.phase = "started", NEW m \in wire, m.seq > receiver.seq,
         UNCHANGED <<now, repoVars, tx, refresher>>, wire' = wire \ {m},
         Advance(receiver.seq, receiver.pending \cup {m}),
         Deliver(Handed(receiver.pending \cup {m},
                        Reach(receiver.seq, receiver.pending \cup {m})))
  PROVE  CoverInv'
<1> DEFINE M == receiver.pending \cup {m}
           n == Reach(receiver.seq, M)
           H == Handed(M, n)
<1>1. UNCHANGED <<expires, seq, log, since>>
  BY DEF repoVars
<1>2. IsFiniteSet(M) /\ M \subseteq Queue
  BY FS_AddElement DEF CoverInv, Numbered, Queue
<1>3. /\ n \in Nat /\ receiver.seq <= n /\ n <= seq
      /\ receiver.seq + 1 .. n \subseteq Numbers(M) /\ n + 1 \notin Numbers(M)
      /\ M \in SUBSET Messages
  BY <1>2, AdvanceIs
<1>4. /\ receiver' = [phase |-> "started", seq |-> n, pending |-> {k \in M : k.seq > n}]
      /\ client' = IF client.live
                   THEN [client EXCEPT !.has = @ \cup H, !.cursor = Max({@} \cup H)]
                   ELSE client
  BY Zenon DEF Advance, Deliver
<1>5. receiver'.seq = n /\ receiver'.pending = {k \in M : k.seq > n}
      /\ receiver'.phase = "started"
  BY <1>4
<1>6. Queue' \subseteq Queue
  BY <1>2, <1>5 DEF Queue
<1>7. Gap => Gap'
  BY <1>1, <1>2, <1>5, <1>6, AdvanceGap
<1>8. IsFiniteSet(receiver'.pending)
  <2>1. receiver'.pending \in SUBSET M
    BY <1>5
  <2> QED BY <1>2, <2>1, FS_Subset
<1>9. \A k \in M : k \in Queue /\ k.seq \in Nat /\ k.vt \in 0..Len(log) /\ k.seq > receiver.seq
  <2> SUFFICES ASSUME NEW k \in M
               PROVE  k.seq \in Nat /\ k.vt \in 0..Len(log) /\ k.seq > receiver.seq
    BY <1>2
  <2>1. k.seq \in Nat /\ k.vt \in Nat
    <3>1. k \in Messages
      BY <1>3
    <3> QED BY <3>1, DeliveryAssumption DEF Messages
  <2>2. k.vt <= Len(log)
    BY <1>2 DEF CoverInv, Numbered
  <2>3. receiver.seq \in Nat /\ Len(log) \in Nat
    BY DEF CoverInv, Shaped, Inv, Typed
  <2>4. k.seq > receiver.seq
    BY <2>1, <2>3 DEF CoverInv, Shaped
  <2> QED BY <2>1, <2>2, <2>3, <2>4
<1>10. H \subseteq 0..Len(log) /\ Len(log) \in Nat /\ Len(log) <= MaxLog
       /\ \A k \in M : k.seq <= n /\ k.vt # 0 => k.vt \in H
  <2>1. \A k \in M : k.seq <= n /\ k.vt # 0 => k.vt \in H
    BY DEF Handed
  <2>2. H \subseteq {k.vt : k \in M}
    BY DEF Handed
  <2> HIDE DEF H, M, n
  <2>3. Len(log) \in Nat /\ Len(log) <= MaxLog
    BY DEF CoverInv, Shaped, Inv, Typed
  <2> QED BY <1>9, <2>1, <2>2, <2>3
<1>11. H \subseteq Stamps
  <2>1. 0 \notin H
    BY DEF Handed
  <2> HIDE DEF H
  <2> QED BY <1>10, <2>1, DeliveryAssumption DEF Stamps
<1>12. \A h \in H : \E k \in M : k.seq <= n /\ k.vt = h
  BY DEF Handed
<1> HIDE DEF n, H
<1>13. \A k \in receiver'.pending : k.seq > n + 1
  <2> SUFFICES ASSUME NEW k \in M, k.seq > n
               PROVE  k.seq > n + 1
    BY <1>5
  <2>1. k.seq # n + 1
    BY <1>3 DEF Numbers
  <2> QED BY <1>3, <1>9, <2>1
<1> HIDE DEF M
<1>14. /\ client.live => client'.has = client.has \cup H /\ client'.cursor = Max({client.cursor} \cup H)
       /\ client'.live = client.live
       /\ ~client.live => client' = client
       /\ client.cursor \in 0..Len(log)
  <2>1. client \in [cursor : Nat, has : SUBSET Stamps, live : BOOLEAN]
        /\ client.cursor <= Len(log)
    BY DEF CoverInv, Shaped, Numbered
  <2> QED BY <1>4, <1>10, <2>1
<1>15. /\ client'.cursor \in 0..Len(log) /\ client.cursor <= client'.cursor
       /\ client'.cursor \in {client.cursor} \cup (IF client.live THEN H ELSE {})
  <2>1. CASE client.live
    <3> DEFINE S == {client.cursor} \cup H
    <3>1. S \in SUBSET (0..Len(log)) /\ S # {}
      BY <1>10, <1>14
    <3>2. Max(S) \in S /\ \A y \in S : y <= Max(S)
      BY <1>10, <3>1, MaxIs
    <3>3. client'.cursor \in S /\ \A y \in S : y <= client'.cursor
      BY <1>14, <2>1, <3>2
    <3> QED BY <2>1, <3>1, <3>3
  <2>2. CASE ~client.live
    BY <1>10, <1>14, <2>2
  <2> QED BY <2>1, <2>2
<1>16. Shaped'
  <2>1. client' \in [cursor : Nat, has : SUBSET Stamps, live : BOOLEAN]
    <3>1. client \in [cursor : Nat, has : SUBSET Stamps, live : BOOLEAN]
      BY DEF CoverInv, Shaped
    <3>2. CASE client.live
      <4> DEFINE h == client.has \cup H
                 c == Max({client.cursor} \cup H)
      <4>1. client' = [client EXCEPT !.has = h, !.cursor = c]
        BY <1>4, <3>2
      <4>2. h \in SUBSET Stamps
        BY <1>11, <3>1
      <4>3. c \in Nat
        BY <1>10, <1>14, <1>15, <3>2
      <4> HIDE DEF h, c
      <4> QED BY <3>1, <4>1, <4>2, <4>3
    <3> QED BY <1>14, <3>1, <3>2
  <2>2. receiver' \in [phase : {"closed", "committed", "started"},
                       seq : Nat, pending : SUBSET Messages]
    BY <1>3, <1>4
  <2>3. wire' \in SUBSET Messages
    BY DEF CoverInv, Shaped
  <2> QED BY <1>1, <1>3, <1>5, <1>13, <2>1, <2>2, <2>3 DEF CoverInv, Shaped
<1>17. Missing' = {i \in Missing : i \notin client'.has} /\ client.has \subseteq client'.has
       /\ \A i \in Missing : i \in Nat /\ i # 0
  <2>1. client.has \subseteq client'.has
    BY <1>14
  <2>2. \A i \in Missing : i \in 1..Len(log)
    BY DEF Missing, Relevant, CoverInv, Inv, Typed
  <2> QED BY <1>1, <1>10, <2>1, <2>2 DEF Missing, Relevant
\* A number that only the message of i can have has been reached only with i.
<1>18. ASSUME client.live, NEW i \in Missing', NEW to, to \in Int, to <= seq, Awaits(i, to)
       PROVE  n < to /\ \E j \in n + 1 .. to : OnlyOf(j, i)'
  <2>1. PICK j \in receiver.seq + 1 .. to : OnlyOf(j, i)
    BY <1>18 DEF Awaits
  <2>2. receiver.seq \in Nat /\ j \in Int /\ receiver.seq + 1 <= j /\ j <= to
    BY <1>18, <2>1 DEF CoverInv, Shaped
  <2>3. ~(j <= n)
    <3> SUFFICES ASSUME j <= n
                 PROVE  FALSE
      OBVIOUS
    <3>1. j \in Numbers(M)
      BY <1>3, <2>2
    <3>2. PICK k \in M : k.seq = j
      BY <3>1 DEF Numbers
    <3>3. k.vt = i
      BY <1>9, <2>1, <3>2 DEF OnlyOf
    <3>4. i \in H
      BY <1>10, <1>17, <3>2, <3>3
    <3> QED BY <1>14, <1>17, <1>18, <3>4
  <2>4. j \in n + 1 .. to /\ n < to
    BY <1>3, <1>18, <2>2, <2>3
  <2>5. OnlyOf(j, i)'
    BY <1>6, <2>1 DEF OnlyOf
  <2> QED BY <2>4, <2>5
<1>19. Awaited'
  <2> SUFFICES ASSUME client.live, NEW i \in Missing'
               PROVE  Awaits(i, seq)' \/ Away'
    BY <1>5, <1>14 DEF Awaited
  <2>1. Awaits(i, seq) \/ Away
    BY <1>17 DEF CoverInv, Awaited
  <2>2. Away => Away'
    BY <1>1 DEF Away
  <2>3. seq \in Int /\ seq <= seq
    BY DEF CoverInv, Shaped
  <2>4. ASSUME Awaits(i, seq)
        PROVE  Awaits(i, seq)'
    <3>1. \E j \in n + 1 .. seq : OnlyOf(j, i)'
      BY <1>18, <2>3, <2>4
    <3> QED BY <1>1, <1>5, <3>1 DEF Awaits
  <2> QED BY <2>1, <2>2, <2>4
<1>20. Ordered'
  <2> SUFFICES ASSUME client.live, NEW k \in Queue', k.seq > n, NEW i \in Missing', i < k.vt
               PROVE  Awaits(i, k.seq - 1)'
    BY <1>5, <1>14 DEF Ordered
  <2>1. k \in Queue /\ k \in Messages /\ k.seq <= seq
    BY <1>6 DEF CoverInv, Shaped, Queue, Numbered
  <2>2. k.seq \in Nat /\ seq \in Nat /\ receiver.seq \in Nat
    BY <2>1 DEF Messages, CoverInv, Shaped
  <2>3. Awaits(i, k.seq - 1)
    BY <1>3, <1>17, <2>1, <2>2 DEF CoverInv, Ordered
  <2>4. k.seq - 1 \in Int /\ k.seq - 1 <= seq
    BY <2>1, <2>2
  <2>5. \E j \in n + 1 .. k.seq - 1 : OnlyOf(j, i)'
    BY <1>18, <2>3, <2>4
  <2> QED BY <1>5, <2>5 DEF Awaits
<1>21. Covered'
  <2> SUFFICES ASSUME NEW i \in Missing', ~(i > client'.cursor)
               PROVE  FALSE
    BY DEF Covered
  <2>1. i \in Missing /\ i \in Nat /\ i > client.cursor
    BY <1>17 DEF CoverInv, Covered
  <2>2. client'.cursor \in H /\ client.live
    BY <1>10, <1>14, <1>15, <2>1
  <2>3. PICK k \in M : k.seq <= n /\ k.vt = client'.cursor
    BY <1>12, <2>2
  <2>4. i # k.vt
    BY <1>14, <1>17, <2>2, <2>3
  <2>5. i < k.vt
    BY <1>9, <2>1, <2>3, <2>4
  <2>6. Awaits(i, k.seq - 1)
    BY <1>9, <2>1, <2>2, <2>5 DEF CoverInv, Ordered
  <2>7. k.seq - 1 \in Int /\ k.seq - 1 <= seq /\ ~(n < k.seq - 1)
    BY <1>3, <1>9, <2>3 DEF CoverInv, Shaped
  <2> QED BY <1>18, <2>2, <2>6, <2>7
<1>22. client'.cursor <= Len(log)
  BY <1>10, <1>15
<1> QED BY <1>6, <1>7, <1>8, <1>16, <1>19, <1>20, <1>21, <1>22, ReadStep

LEMMA ReceiveCovers ==
  ASSUME CoverInv, NEW m \in wire, Receive(m)
  PROVE  CoverInv'
<1> DEFINE M == receiver.pending \cup {m}
<1>1. /\ receiver.phase # "closed" /\ wire' = wire \ {m}
      /\ UNCHANGED <<now, repoVars, tx, refresher>>
  BY DEF Receive
<1>2. UNCHANGED <<expires, seq, log, since>>
  BY <1>1 DEF repoVars
<1>3. CASE receiver.phase = "started" /\ m.seq > receiver.seq
  <2>1. Advance(receiver.seq, M) /\ Deliver(Handed(M, Reach(receiver.seq, M)))
    BY <1>3, Zenon DEF Receive
  <2> QED BY <1>1, <1>3, <2>1, HandOnCovers
<1>4. CASE receiver.phase # "started"
  <2>1. receiver' = [receiver EXCEPT !.pending = M] /\ client' = client
    BY <1>4, Zenon DEF Receive
  <2>2. M \in SUBSET Messages
    BY DEF CoverInv, Shaped
  <2>3. IsFiniteSet(M)
    BY FS_AddElement DEF CoverInv, Numbered
  <2> HIDE DEF M
  <2>4. /\ receiver'.pending = M /\ receiver'.seq = receiver.seq
        /\ receiver'.phase = receiver.phase
        /\ receiver' \in [phase : {"closed", "committed", "started"},
                          seq : Nat, pending : SUBSET Messages]
    BY <2>1, <2>2 DEF CoverInv, Shaped
  <2>5. Shaped'
    BY <1>1, <1>2, <1>4, <2>1, <2>4 DEF CoverInv, Shaped
  <2>6. Queue' \subseteq Queue
    BY <1>1, <2>4 DEF Queue, M
  <2>7. ~client.live
    BY <1>4 DEF CoverInv, Awaited
  <2>8. Awaited' /\ Ordered'
    BY <2>1, <2>7 DEF Awaited, Ordered
  <2>9. Covered' /\ client'.cursor <= Len(log)
    BY <1>2, <2>1 DEF CoverInv, Covered, Missing, Relevant, Numbered
  <2>10. Gap => Gap'
    BY <1>2, <2>4, <2>6, GapStays DEF CoverInv, Shaped
  <2> QED BY <1>1, <2>3, <2>4, <2>5, <2>6, <2>8, <2>9, <2>10, ReadStep
<1>5. CASE receiver.phase = "started" /\ ~(m.seq > receiver.seq)
  <2>1. receiver' = receiver /\ client' = client
    BY <1>5, Zenon DEF Receive
  <2>2. Queue' \subseteq Queue /\ Missing' = Missing
    BY <1>1, <1>2, <2>1 DEF Queue, Missing, Relevant
  <2>3. Shaped'
    BY <1>1, <1>2, <2>1 DEF CoverInv, Shaped
  <2>4. ASSUME NEW i, NEW to, Awaits(i, to)
        PROVE  Awaits(i, to)'
    BY <2>1, <2>2, <2>4 DEF Awaits, OnlyOf
  <2>5. Gap => Gap'
    BY <1>2, <2>1, <2>2 DEF Gap
  <2>6. Away => Away'
    BY <1>1, <1>2 DEF Away
  <2>7. \A i : Awaits(i, seq) => Awaits(i, seq)'
    BY <1>2, <2>1, <2>2 DEF Awaits, OnlyOf
  <2>8. Awaited'
    BY <1>2, <2>1, <2>2, <2>6, <2>7 DEF CoverInv, Awaited
  <2>9. Ordered'
    <3> SUFFICES ASSUME client.live, NEW k \in Queue', k.seq > receiver.seq,
                        NEW i \in Missing, i < k.vt
                 PROVE  Awaits(i, k.seq - 1)'
      BY <2>1, <2>2 DEF Ordered
    <3>1. Awaits(i, k.seq - 1)
      BY <2>2 DEF CoverInv, Ordered
    <3> QED BY <2>4, <3>1
  <2>10. Covered' /\ client'.cursor <= Len(log) /\ IsFiniteSet(receiver'.pending)
    BY <2>1, <2>2 DEF CoverInv, Covered, Numbered
  <2> QED BY <1>1, <2>1, <2>2, <2>3, <2>5, <2>8, <2>9, <2>10, ReadStep
<1> QED BY <1>3, <1>4, <1>5

----------------------------------------------------------------------------
(* The steps that load a difference or commit *)

\* A difference has every event after its position that the subscriber is to get.
LEMMA DifferenceIs ==
  ASSUME Inv, NEW after \in Nat
  PROVE  /\ Difference(after) \in SUBSET (1..Len(log))
         /\ \A i \in Relevant : i > after => i \in Difference(after)
<1>1. Typed /\ log \in Seq(Entry) /\ DOMAIN log = 1..Len(log) /\ Len(log) \in Nat
  BY DEF Inv, Typed
<1>2. Difference(after) \in SUBSET (1..Len(log))
  BY <1>1 DEF Difference, PostsOf
<1>3. ASSUME NEW i \in Relevant, i > after
      PROVE  i \in Difference(after)
  <2> DEFINE f == log[i].feed
             q == Latest(f)
             D == {j \in PostsOf(log[q].feed) : j > Max({after, since[log[q].feed]})}
  <2>1. i \in 1..Len(log) /\ log[i].post /\ since[f] \in 0..(i - 1)
    BY <1>1 DEF Relevant
  <2>2. f \in Feeds
    <3>1. log[i] \in Entry
      BY <1>1, <2>1
    <3> QED BY <3>1 DEF Entry
  <2>3. i \in PostsOf(f)
    BY <1>1, <2>1 DEF PostsOf
  <2>4. q \in 0..Len(log) /\ (q # 0 => log[q].feed = f) /\ i <= q
    BY <1>1, <2>3, LatestIs
  <2>5. since[f] \in Nat /\ since[f] < i /\ i \in Nat
    BY <1>1, <2>1
  <2>6. q # 0 /\ q > after /\ q > since[f] /\ log[q].feed = f
    BY <1>3, <2>4, <2>5
  <2>7. since[f] # Never
    BY <2>5 DEF Never
  <2>8. q \in refs
    BY <2>2, <2>6, <2>7 DEF Inv, RefsFollowSubscriptions
  <2>9. Max({after, since[f]}) \in {after, since[f]}
    BY <2>5, MaxOfTwo
  <2>10. i > Max({after, since[f]})
    BY <1>3, <2>5, <2>9
  <2>11. i \in D
    BY <2>3, <2>6, <2>10
  <2> HIDE DEF D
  <2>12. \E p \in refs : p > after
                         /\ i \in {j \in PostsOf(log[p].feed) :
                                     j > Max({after, since[log[p].feed]})}
    BY <2>6, <2>8, <2>11 DEF D
  <2> QED BY <2>12 DEF Difference
<1> QED BY <1>2, <1>3

\* After a difference nothing is missing.
LEMMA SyncCovers ==
  ASSUME CoverInv, Sync
  PROVE  CoverInv'
<1>1. PICK after \in {client.cursor, Max({0, client.cursor - Flex})} :
           client' = [cursor |-> Max({after} \cup Difference(after)),
                      has |-> client.has \cup Difference(after),
                      live |-> receiver.phase = "started"]
  BY Zenon DEF Sync
<1>2. /\ seq' = Bumped /\ expires' = Prolonged /\ tx' = Transactions(seq')
      /\ UNCHANGED <<now, log, since, refs, wire, refresher, receiver>>
  BY Zenon DEF Sync, RefreshOnline
<1>3. Inv'
  BY <1>2, OnlineKeeps DEF CoverInv
<1>4. GoOn
  BY <1>2, MarkedGoOn DEF CoverInv, Inv
<1>5. client.cursor \in Nat /\ client.cursor <= Len(log) /\ client.has \in SUBSET Stamps
      /\ Len(log) \in Nat /\ Len(log) <= MaxLog
  BY DEF CoverInv, Shaped, Numbered, Inv, Typed
<1>6. after \in Nat /\ after <= client.cursor
  <2> DEFINE b == client.cursor - Flex
  <2>1. b \in Int /\ b <= client.cursor
    BY <1>5, DeliveryAssumption
  <2> HIDE DEF b
  <2>2. Max({0, b}) \in {0, b} /\ Max({0, b}) >= 0
    <3>1. \E z \in {0, b} : \A y \in {0, b} : z >= y
      <4>1. CASE 0 >= b
        BY <2>1, <4>1
      <4>2. CASE ~(0 >= b)
        BY <2>1, <4>2
      <4> QED BY <4>1, <4>2
    <3> QED BY <3>1, Zenon DEF Max
  <2>3. after \in {client.cursor, Max({0, b})}
    BY <1>1 DEF b
  <2> QED BY <1>5, <2>1, <2>2, <2>3
<1> DEFINE D == Difference(after)
           state == Max({after} \cup D)
<1>7. D \in SUBSET (1..Len(log)) /\ \A i \in Relevant : i > after => i \in D
  BY <1>6, DifferenceIs DEF CoverInv
<1>8. state \in 0..Len(log)
  <2> DEFINE S == {after} \cup D
  <2>1. S \in SUBSET (0..Len(log)) /\ S # {}
    BY <1>5, <1>6, <1>7
  <2> HIDE DEF S
  <2>2. Max(S) \in S
    BY <1>5, <2>1, MaxIs
  <2> QED BY <2>1, <2>2 DEF S
<1>9. D \in SUBSET Stamps
  BY <1>5, <1>7, DeliveryAssumption DEF Stamps
<1> DEFINE has == client.has \cup D
           live == receiver.phase = "started"
<1>10. client' = [cursor |-> state, has |-> has, live |-> live] /\ live \in BOOLEAN
  BY <1>1
<1> HIDE DEF D, state, live
<1>11. /\ client'.cursor = state /\ client'.has = client.has \cup D
       /\ client'.live => receiver.phase = "started"
       /\ client' \in [cursor : Nat, has : SUBSET Stamps, live : BOOLEAN]
  <2>1. state \in Nat /\ has \in SUBSET Stamps
    BY <1>5, <1>8, <1>9
  <2>2. client'.has = client.has \cup D
    BY <1>10
  <2> HIDE DEF has
  <2>3. client'.cursor = state /\ client'.live = live
        /\ client' \in [cursor : Nat, has : SUBSET Stamps, live : BOOLEAN]
    BY <1>10, <2>1
  <2> QED BY <2>2, <2>3 DEF live
<1>12. seq \in Nat /\ seq' \in Nat /\ seq <= seq'
  BY <1>2, RefreshIs
<1>13. Queue' = Queue
  BY <1>2 DEF Queue
<1>14. Shaped'
  <2>1. receiver.seq \in Nat /\ receiver.seq <= seq
    BY DEF CoverInv, Shaped
  <2>2. receiver.seq <= seq'
    BY <1>12, <2>1
  <2> QED BY <1>2, <1>11, <1>12, <2>2 DEF CoverInv, Shaped
<1>15. Missing' = {}
  <2> SUFFICES ASSUME NEW i \in Relevant, ~log[i].raced, i \notin client.has, i \notin D
               PROVE  FALSE
    BY <1>2, <1>11 DEF Missing, Relevant
  <2>1. i \in Nat
    BY <1>5 DEF Relevant, CoverInv, Inv, Typed
  <2>2. ~(i > after)
    BY <1>7
  <2>3. i \in Missing
    BY DEF Missing
  <2>4. i > client.cursor
    BY <2>3 DEF CoverInv, Covered
  <2> QED BY <1>5, <1>6, <2>1, <2>2, <2>4
<1>16. Awaited' /\ Ordered' /\ Covered'
  BY <1>2, <1>11, <1>15 DEF Awaited, Ordered, Covered
<1>17. Numbered'
  <2>1. \A k \in Queue : k \in Messages /\ k.seq <= seq /\ k.vt <= Len(log)
    BY DEF CoverInv, Numbered, Queue, Shaped
  <2>2. \A k \in Queue : k.seq <= seq'
    BY <1>12, <2>1 DEF Messages
  <2>3. client'.cursor <= Len(log)
    BY <1>5, <1>8, <1>11
  <2> QED BY <1>2, <1>13, <2>1, <2>2, <2>3 DEF CoverInv, Numbered
<1>18. Gap => Gap'
  BY <1>2, <1>12, <1>13, GapStays DEF CoverInv
<1>19. Gap' \/ expires >= now + OnlineGap
  BY <1>2, BumpSkips
<1>20. InTime'
  BY <1>2, <1>4, StaysInTime DEF CoverInv
<1>21. /\ now \in Nat /\ expires \in Int /\ expires' \in Int /\ expires <= expires'
       /\ OnlineGap \in Nat /\ TxTime \in Nat /\ TxTime <= OnlineGap
  BY <1>2, RefreshIs, DeliveryAssumption
<1>22. RefreshedInTime'
  <2> SUFFICES ASSUME refresher.phase = "set", receiver.phase # "closed", ~Gap'
               PROVE  refresher.at + OnlineGap <= expires'
    BY <1>2 DEF RefreshedInTime
  <2>1. refresher.at + OnlineGap <= expires /\ refresher.at \in Int
    BY <1>18 DEF CoverInv, RefreshedInTime, Shaped
  <2> QED BY <1>21, <2>1
<1>23. SeenInTime'
  <2> SUFFICES ASSUME receiver.phase # "closed", ~Gap',
                      NEW f \in Feeds, tx'[f].open, ~tx'[f].raced
               PROVE  Sees(tx[f])'
    BY <1>2 DEF SeenInTime
  <2> DEFINE x == tx[f]
  <2>1. /\ x.open /\ ~x.raced /\ x'.began = x.began /\ x'.expires = x.expires
    BY <1>4 DEF GoOn, Later
  <2>2. Sees(x) /\ expires >= now + OnlineGap
    BY <1>18, <1>19, <2>1 DEF CoverInv, SeenInTime
  <2>3. x.began <= now
    BY <2>1 DEF CoverInv, InTime
  <2>4. x.began \in Nat
    <3>1. x \in OpenTx
      BY <2>1 DEF CoverInv, Inv, Typed, NoTx
    <3>2. x.began \in 0..MaxTime
      BY <3>1 DEF OpenTx
    <3> QED BY <3>2, DeliveryAssumption
  <2> HIDE DEF x
  <2>5. x.began <= expires /\ x.began + TxTime <= expires
    BY <1>21, <2>2, <2>3, <2>4
  <2>6. x.expires # Offline
    BY <1>21, <2>2, <2>4, <2>5 DEF Sees
  <2>7. x.began + TxTime <= x.expires
    <3>1. expires = x.expires \/ x.began + TxTime <= x.expires
      BY <2>2, <2>6 DEF Sees
    <3> QED BY <2>5, <3>1
  <2>8. Sees(x)'
    BY <2>1, <2>6, <2>7 DEF Sees
  <2> QED BY <2>8 DEF x
<1> QED BY <1>3, <1>14, <1>16, <1>17, <1>20, <1>22, <1>23 DEF CoverInv

\* What the messages of a transaction say.
LEMMA OutgoingIs ==
  ASSUME Typed, NEW f \in Feeds, tx[f].open, NEW stamp \in Nat
  PROVE  LET out == Outgoing(f, stamp)
         IN  /\ out \in Seq({0, stamp}) /\ Len(out) \in 0..2
             /\ Len(Outgoing(f, 0)) = Len(out)
             /\ tx[f].post /\ Subscribed(f) => Len(out) >= 1 /\ out[Len(out)] = stamp
<1> DEFINE says == tx[f].post /\ Subscribed(f)
           length == (IF tx[f].change = "none" THEN 0 ELSE 1) + (IF says THEN 1 ELSE 0)
<1>1. ASSUME NEW s \in Nat
      PROVE  LET out == Outgoing(f, s)
             IN  /\ out \in Seq({0, s}) /\ Len(out) = length
                 /\ says => out[Len(out)] = s
  <2> DEFINE out == Outgoing(f, s)
             S == {0, s}
  <2>1. out = (IF tx[f].change = "none" THEN <<>> ELSE <<0>>) \o (IF says THEN <<s>> ELSE <<>>)
    BY Zenon DEF Outgoing
  <2>2. 0 \in S /\ s \in S
    OBVIOUS
  <2> HIDE DEF out, S, says
  <2>3. CASE tx[f].change = "none" /\ says
    <3>1. out = <<>> \o <<s>>
      BY <2>1, <2>3, Zenon
    <3>2. out = <<s>>
      BY <2>2, <3>1
    <3> QED BY <2>2, <2>3, <3>2 DEF S, out
  <2>4. CASE tx[f].change = "none" /\ ~says
    <3>1. out = <<>> \o <<>>
      BY <2>1, <2>4, Zenon
    <3>2. out = <<>>
      BY <3>1
    <3> QED BY <2>4, <3>2 DEF S, out
  <2>5. CASE tx[f].change # "none" /\ says
    <3>1. out = <<0>> \o <<s>>
      BY <2>1, <2>5, Zenon
    <3>2. out \in Seq(S) /\ Len(out) = 2 /\ out[2] = s
      BY <2>2, <3>1
    <3>3. length = 2
      BY <2>5
    <3> HIDE DEF length
    <3> QED BY <2>5, <3>2, <3>3 DEF S, out
  <2>6. CASE tx[f].change # "none" /\ ~says
    <3>1. out = <<0>> \o <<>>
      BY <2>1, <2>6, Zenon
    <3>2. out = <<0>>
      BY <2>2, <3>1
    <3> QED BY <2>2, <2>6, <3>2 DEF S, out
  <2> QED BY <2>3, <2>4, <2>5, <2>6
<1>2. length \in 0..2 /\ (says => length >= 1)
  OBVIOUS
<1> HIDE DEF length, says
<1> QED BY <1>1, <1>2 DEF says

LEMMA CommitCovers ==
  ASSUME CoverInv, NEW f \in Feeds, Commit(f)
  PROVE  CoverInv'
<1> DEFINE stamp == Len(log')
           out == Outgoing(f, stamp)
           raced == tx[f].raced \/ \E g \in Feeds \ {f} : FindsOnline(tx[g])
<1>1. PICK n \in 0..2 :
        /\ log' = log \o Entries(f, raced /\ n < Len(Outgoing(f, 0)))
        /\ stamp <= MaxLog /\ n <= Len(out)
        /\ n > 0 => tx[f].expires # Offline /\ ~tx[f].stale
        /\ n < Len(out) => tx[f].expires < now
        /\ seq' = seq + n
        /\ wire' = wire \cup {[seq |-> seq + i, vt |-> out[i]] : i \in 1..n}
  BY Zenon DEF Commit
<1> DEFINE r == raced /\ n < Len(Outgoing(f, 0))
<1>2. /\ since' = CASE tx[f].change = "subscribe" -> [since EXCEPT ![f] = Len(log) + 1]
                    [] tx[f].change = "unsubscribe" -> [since EXCEPT ![f] = Never]
                    [] OTHER -> since
      /\ tx' = [Transactions(seq') EXCEPT ![f] = NoTx]
      /\ UNCHANGED <<now, expires, refresher, receiver, client>>
  BY Zenon DEF Commit
<1>3. Inv' /\ Typed /\ tx[f].open /\ tx[f] \in OpenTx
  <2>1. Inv' /\ tx[f] \in {NoTx} \cup OpenTx /\ Typed
    BY CommitStep DEF CoverInv, Inv, Typed
  <2>2. tx[f].open
    BY Zenon DEF Commit
  <2> QED BY <2>1, <2>2 DEF NoTx
<1>4. r \in BOOLEAN /\ log' = log \o Entries(f, r)
  BY <1>1
<1> HIDE DEF r
<1>5. /\ \A i \in 1..Len(log) : log'[i] = log[i]
      /\ \A i \in 1..Len(log') : i > Len(log) =>
           /\ log'[i].feed = f /\ log'[i].raced = r
           /\ log'[i].post <=> tx[f].post /\ i = Len(log')
  BY <1>3, <1>4, LogAfter
<1>6. /\ Len(log) \in Nat /\ Len(log') \in Nat /\ Len(log) <= Len(log')
      /\ DOMAIN log = 1..Len(log) /\ DOMAIN log' = 1..Len(log')
  BY <1>3, <1>4, PostsAfter DEF Typed
<1>7. /\ out \in Seq({0, stamp}) /\ Len(out) \in 0..2 /\ Len(Outgoing(f, 0)) = Len(out)
      /\ tx[f].post /\ Subscribed(f) => Len(out) >= 1 /\ out[Len(out)] = stamp
  BY <1>3, <1>6, OutgoingIs
<1>8. /\ stamp \in Nat /\ Len(log) <= stamp /\ stamp <= MaxLog
      /\ n \in 0..2 /\ n <= Len(out) /\ Len(out) \in Nat
      /\ seq \in Nat /\ seq' = seq + n /\ seq' \in Nat /\ seq <= seq'
  BY <1>1, <1>6, <1>7 DEF CoverInv, Shaped
<1>9. r <=> raced /\ n < Len(out)
  BY <1>7 DEF r
<1>10. wire' = wire \cup {[seq |-> seq + i, vt |-> out[i]] : i \in 1..n}
  BY <1>1
<1>11. /\ n > 0 => FindsOnline(tx[f])
       /\ n < Len(out) => tx[f].expires < now
  BY <1>1, <1>3 DEF FindsOnline
<1> HIDE DEF stamp, out, raced
\* What is new on the bus.
<1>12. ASSUME NEW i \in 1..n
       PROVE  /\ out[i] \in {0, stamp} /\ out[i] \in 0..MaxLog /\ out[i] <= stamp
              /\ seq + i \in Nat /\ seq < seq + i /\ seq + i <= seq'
  <2>1. i \in 1..Len(out)
    BY <1>8
  <2>2. out[i] \in {0, stamp}
    BY <1>7, <2>1
  <2> QED BY <1>8, <2>2, DeliveryAssumption
<1>13. \A k \in Queue' : k \in Queue \/ \E i \in 1..n : k = [seq |-> seq + i, vt |-> out[i]]
  BY <1>2, <1>10 DEF Queue
<1>14. \A k \in Queue' : k \in Queue \/ (k.seq > seq /\ k.seq <= seq' /\ k.vt \in {0, stamp})
  BY <1>12, <1>13
<1>15. Gap => Gap'
  BY <1>2, <1>8, <1>14, GapStays DEF CoverInv
<1>16. ASSUME NEW i, NEW to \in Int, to <= seq, Awaits(i, to)
       PROVE  Awaits(i, to)'
  BY <1>2, <1>14, <1>16, AwaitsStays DEF CoverInv
<1>17. Shaped'
  <2>1. wire' \in SUBSET Messages
    <3>1. \A i \in 1..n : [seq |-> seq + i, vt |-> out[i]] \in Messages
      BY <1>8, <1>12 DEF Messages
    <3> QED BY <1>10, <3>1 DEF CoverInv, Shaped
  <2>2. receiver'.seq <= seq' /\ Len(log') <= MaxLog
    BY <1>2, <1>8 DEF CoverInv, Shaped, stamp
  <2> QED BY <1>2, <1>8, <2>1, <2>2 DEF CoverInv, Shaped
<1>18. GoOn /\ ~tx'[f].open
  <2>1. Transactions(seq') \in [Feeds -> {NoTx} \cup OpenTx]
        /\ \A g \in Feeds : Later(tx[g], Transactions(seq')[g])
    BY <1>3, TransactionsType, MarkedLater
  <2>2. tx'[f] = NoTx /\ \A g \in Feeds : g # f => tx'[g] = Transactions(seq')[g]
    BY <1>2, <2>1
  <2> QED BY <2>1, <2>2 DEF GoOn, Later, NoTx
<1>19. InTime' /\ RefreshedInTime' /\ SeenInTime'
  BY <1>2, <1>15, <1>18, StaysInTime, StaysSeen, StaysRefreshed DEF CoverInv
<1>20. Numbered'
  <2>1. \A k \in Queue : k \in Messages /\ k.seq <= seq /\ k.vt <= Len(log)
    BY DEF CoverInv, Numbered, Queue, Shaped
  <2>2. \A k \in Queue : k.seq <= seq' /\ k.vt <= stamp
    BY <1>6, <1>8, <2>1 DEF Messages
  <2>3. \A k \in Queue' : k.seq <= seq' /\ k.vt <= stamp
    BY <1>8, <1>14, <2>2
  <2>4. client'.cursor <= stamp /\ IsFiniteSet(receiver'.pending)
    BY <1>2, <1>6, <1>8 DEF CoverInv, Numbered, Shaped
  <2> QED BY <2>3, <2>4 DEF Numbered, stamp
\* The events that the client misses: those it missed, and the post of the transaction.
<1>21. ASSUME NEW i \in Missing'
       PROVE  \/ i \in Missing /\ i <= Len(log)
              \/ i = stamp /\ i > Len(log) /\ tx[f].post /\ Subscribed(f) /\ ~r
  <2>1. i \in 1..Len(log') /\ log'[i].post /\ since'[log'[i].feed] \in 0..(i - 1)
        /\ ~log'[i].raced /\ i \notin client.has
    BY <1>2, <1>6 DEF Missing, Relevant
  <2>2. since \in [Feeds -> {Never} \cup 0..Len(log)] /\ tx[f].change \in Changes
        /\ log \in Seq(Entry)
    BY <1>3 DEF Typed, OpenTx
  <2>3. /\ \A g \in Feeds : g # f => since'[g] = since[g]
        /\ since'[f] = CASE tx[f].change = "subscribe" -> Len(log) + 1
                        [] tx[f].change = "unsubscribe" -> Never
                        [] OTHER -> since[f]
    BY <1>2, <2>2
  <2>4. CASE i <= Len(log)
    <3>1. i \in 1..Len(log) /\ log'[i] = log[i]
      <4>1. i \in 1..Len(log)
        BY <1>6, <2>1, <2>4
      <4> QED BY <1>5, <4>1
    <3>2. log[i].feed \in Feeds
      <4>1. log[i] \in Entry
        BY <2>2, <3>1
      <4> QED BY <4>1 DEF Entry
    <3>3. since[log[i].feed] \in 0..(i - 1)
      <4>1. CASE log[i].feed # f
        BY <2>1, <2>3, <3>1, <3>2, <4>1
      <4>2. CASE log[i].feed = f
        <5>1. tx[f].change # "subscribe"
          BY <1>6, <2>1, <2>3, <2>4, <3>1, <4>2
        <5>2. tx[f].change # "unsubscribe"
          BY <2>1, <2>3, <3>1, <4>2 DEF Never
        <5> QED BY <2>1, <2>3, <3>1, <4>2, <5>1, <5>2
      <4> QED BY <4>1, <4>2
    <3> QED BY <1>6, <2>1, <2>4, <3>1, <3>3 DEF Missing, Relevant
  <2>5. CASE ~(i <= Len(log))
    <3>1. i > Len(log)
      BY <1>6, <2>1, <2>5
    <3>2. log'[i].feed = f /\ log'[i].raced = r /\ tx[f].post /\ i = stamp
      BY <1>5, <2>1, <3>1 DEF stamp
    <3>3. since'[f] # Never
      BY <2>1, <3>2 DEF Never
    <3>4. Subscribed(f)
      BY <2>2, <2>3, <3>3 DEF Subscribed, Changes
    <3> QED BY <2>1, <3>1, <3>2, <3>4
  <2> QED BY <2>4, <2>5
<1>22. Away => n = 0 /\ Away'
  <2> SUFFICES ASSUME Away
               PROVE  n = 0 /\ Away'
    OBVIOUS
  <2>1. n = 0
    BY <1>8, <1>11 DEF Away
  <2>2. \A g \in Feeds : ~FindsOnline(tx'[g])
    BY <1>18, NoneFindOnline DEF Away
  <2> QED BY <1>2, <2>1, <2>2 DEF Away
<1>23. Awaited'
  <2> SUFFICES ASSUME client.live, NEW i \in Missing'
               PROVE  Awaits(i, seq)' \/ Away'
    BY <1>2 DEF CoverInv, Awaited
  <2>1. receiver.phase = "started" /\ receiver.seq \in Nat /\ receiver.seq <= seq
    BY DEF CoverInv, Awaited, Shaped
  <2>2. CASE i \in Missing
    <3>1. Awaits(i, seq) \/ Away
      BY <2>2 DEF CoverInv, Awaited
    <3>2. ASSUME Awaits(i, seq)
          PROVE  Awaits(i, seq)'
      <4>1. PICK s : s = seq
        OBVIOUS
      <4>2. Awaits(i, s)'
        BY <1>8, <1>16, <3>2, <4>1
      <4>3. \E j \in receiver'.seq + 1 .. s : OnlyOf(j, i)'
        BY <4>2 DEF Awaits
      <4>4. \E j \in receiver'.seq + 1 .. seq' : OnlyOf(j, i)'
        BY <1>2, <1>8, <2>1, <4>1, <4>3
      <4> QED BY <4>4 DEF Awaits
    <3> QED BY <1>22, <3>1, <3>2
  <2>3. CASE i = stamp /\ tx[f].post /\ Subscribed(f) /\ ~r
    <3>1. CASE n = Len(out)
      <4>1. n >= 1 /\ out[n] = stamp /\ n \in 1..n
        BY <1>7, <1>8, <2>3, <3>1
      <4>2. PICK s : s = seq + n
        OBVIOUS
      <4>3. ASSUME NEW k \in Queue', k.seq = s
            PROVE  k.vt = i
        <5> SUFFICES k.vt = stamp
          BY <2>3
        <5>1. CASE k \in Queue
          <6>1. k.seq <= seq
            BY <5>1 DEF CoverInv, Numbered
          <6> QED BY <1>8, <4>1, <4>2, <4>3, <6>1
        <5>2. ASSUME NEW j \in 1..n, k = [seq |-> seq + j, vt |-> out[j]]
              PROVE  k.vt = stamp
          <6>1. seq + j = seq + n /\ k.vt = out[j]
            BY <4>2, <4>3, <5>2
          <6>2. j = n
            BY <1>8, <6>1
          <6> QED BY <4>1, <6>1, <6>2
        <5> QED BY <1>13, <5>1, <5>2
      <4>4. s \in receiver'.seq + 1 .. seq'
        BY <1>2, <1>8, <2>1, <4>1, <4>2
      <4>5. OnlyOf(s, i)'
        BY <4>3 DEF OnlyOf
      <4> QED BY <4>4, <4>5 DEF Awaits
    \* It has no number: the subscriber has expired, and nobody found it on-line.
    <3>2. CASE n # Len(out)
      <4>1. n < Len(out) /\ ~raced /\ tx[f].expires < now
        BY <1>8, <1>9, <1>11, <2>3, <3>2
      <4>2. ~tx[f].raced /\ \A g \in Feeds \ {f} : ~FindsOnline(tx[g])
        BY <4>1 DEF raced
      <4>3. Gap \/ Sees(tx[f])
        BY <1>3, <2>1, <4>2 DEF CoverInv, SeenInTime
      <4>4. CASE Gap
        <5>1. \E j \in receiver'.seq + 1 .. seq' : OnlyOf(j, i)'
          BY <1>15, <4>4 DEF Gap, OnlyOf
        <5> QED BY <5>1 DEF Awaits
      <4>5. CASE ~Gap
        <5> DEFINE x == tx[f]
        <5>1. now \in Nat /\ expires \in Int
          BY <1>3 DEF Typed, Offline
        <5>2. x.began \in Nat /\ x.expires \in Int
          <6>1. x.began \in 0..MaxTime /\ x.expires \in Nat \cup {Offline}
            BY <1>3 DEF OpenTx
          <6> QED BY <6>1, DeliveryAssumption DEF Offline
        <5>3. x.began <= now /\ now <= x.began + TxTime
          BY <1>3 DEF CoverInv, InTime
        <5>4. Sees(x) /\ x.expires < now
          BY <4>1, <4>3, <4>5
        <5> HIDE DEF x
        <5>5. expires < now
          <6>1. CASE x.expires = Offline
            BY <5>1, <5>2, <5>3, <5>4, <6>1 DEF Sees
          <6>2. CASE x.expires # Offline
            BY <5>1, <5>2, <5>3, <5>4, <6>2, DeliveryAssumption DEF Sees
          <6> QED BY <6>1, <6>2
        <5>6. refresher.phase = "idle"
          <6> SUFFICES ASSUME refresher.phase = "set"
                       PROVE  FALSE
            BY DEF CoverInv, Shaped
          <6>1. refresher.at + OnlineGap <= expires
            BY <2>1, <4>5 DEF CoverInv, RefreshedInTime
          <6>2. now <= refresher.at + RefreshTime /\ refresher.at \in Int
            BY DEF CoverInv, InTime, Shaped
          <6> QED BY <5>1, <5>5, <6>1, <6>2, DeliveryAssumption
        <5>7. \A g \in Feeds : ~FindsOnline(tx'[g])
          <6>1. ~FindsOnline(tx'[f])
            BY <1>18 DEF FindsOnline
          <6>2. \A g \in Feeds \ {f} : ~FindsOnline(tx'[g])
            BY <1>18, <4>2 DEF GoOn, Later, FindsOnline
          <6> QED BY <6>1, <6>2
        <5> QED BY <1>2, <5>5, <5>6, <5>7 DEF Away
      <4> QED BY <4>4, <4>5
    <3> QED BY <3>1, <3>2
  <2> QED BY <1>21, <2>2, <2>3
<1>24. Ordered'
  <2> SUFFICES ASSUME client.live, NEW m \in Queue', m.seq > receiver.seq,
                      NEW i \in Missing', i < m.vt
               PROVE  Awaits(i, m.seq - 1)'
    BY <1>2 DEF Ordered
  <2>1. m.seq \in Nat /\ m.vt \in Nat
    <3>1. m \in Messages
      BY <1>17 DEF Shaped, Queue
    <3> QED BY <3>1, DeliveryAssumption DEF Messages
  <2>2. CASE m \in Queue
    <3>1. m.seq <= seq /\ m.vt <= Len(log)
      BY <2>2 DEF CoverInv, Numbered
    <3>2. i \in Missing
      BY <1>6, <1>8, <1>21, <2>1, <3>1
    <3>3. Awaits(i, m.seq - 1)
      BY <2>2, <3>2 DEF CoverInv, Ordered
    <3>4. m.seq - 1 \in Int /\ m.seq - 1 <= seq
      BY <1>8, <2>1, <3>1
    <3> QED BY <1>16, <3>3, <3>4
  <2>3. CASE m \notin Queue
    <3>1. m.seq > seq /\ m.vt \in {0, stamp} /\ n > 0
      BY <1>8, <1>13, <1>14, <2>3
    <3>2. i \in Missing
      BY <1>6, <1>8, <1>21, <3>1
    <3>3. Awaits(i, seq)
      BY <1>11, <3>1, <3>2 DEF CoverInv, Awaited, Away
    <3>4. Awaits(i, m.seq - 1) 
      BY <1>8, <2>1, <3>1, <3>3, AwaitsAt DEF CoverInv
    <3>5. PICK j \in receiver.seq + 1 .. seq : OnlyOf(j, i)
      BY <3>3 DEF Awaits
    <3>6. PICK s : s = seq
      OBVIOUS
    <3>7. Awaits(i, s)'
      BY <1>8, <1>16, <3>3, <3>6
    <3>8. \E h \in receiver'.seq + 1 .. m.seq - 1 : OnlyOf(h, i)'
      BY <1>2, <1>8, <2>1, <3>1, <3>6, <3>7 DEF Awaits, CoverInv, Shaped
    <3> QED BY <3>8 DEF Awaits
  <2> QED BY <2>2, <2>3
<1>25. Covered'
  <2> SUFFICES ASSUME NEW i \in Missing'
               PROVE  i > client.cursor
    BY <1>2 DEF Covered
  <2>1. CASE i \in Missing
    BY <2>1 DEF CoverInv, Covered
  <2>2. CASE i = stamp /\ i > Len(log)
    BY <1>6, <1>8, <2>2 DEF CoverInv, Numbered, Shaped
  <2> QED BY <1>21, <2>1, <2>2
<1> QED BY <1>3, <1>17, <1>19, <1>20, <1>23, <1>24, <1>25 DEF CoverInv

LEMMA CoverStep ==
  ASSUME CoverInv, [Next]_vars
  PROVE  CoverInv'
<1>1. CASE Tick
  BY <1>1, TickCovers
<1>2. ASSUME NEW f \in Feeds, Begin(f)
      PROVE  CoverInv'
  BY <1>2, BeginCovers
<1>3. ASSUME NEW f \in Feeds, Commit(f)
      PROVE  CoverInv'
  BY <1>3, CommitCovers
<1>4. ASSUME NEW f \in Feeds, Retry(f)
      PROVE  CoverInv'
  BY <1>4, RetryCovers
<1>5. CASE RefreshBump
  BY <1>5, RefreshBumpCovers
<1>6. CASE RefreshSet
  BY <1>6, RefreshSetCovers
<1>7. CASE GoOnline
  BY <1>7, GoOnlineCovers
<1>8. CASE HandleStart
  BY <1>8, HandleStartCovers
<1>9. CASE Close
  BY <1>9, CloseCovers
<1>10. ASSUME NEW m \in wire, Receive(m)
       PROVE  CoverInv'
  BY <1>10, ReceiveCovers
<1>11. CASE Sync
  BY <1>11, SyncCovers
<1>12. CASE UNCHANGED vars
  BY <1>12 DEF vars, repoVars, CoverInv, Inv, Typed, SeesSubscription,
       RefsFollowSubscriptions, Latest, PostsOf, Shaped, InTime, RefreshedInTime, SeenInTime,
       Sees, Gap, Numbered, Awaited, Awaits, OnlyOf, Away, FindsOnline, Ordered, Covered,
       Missing, Relevant, Queue
<1> QED BY <1>1, <1>2, <1>3, <1>4, <1>5, <1>6, <1>7, <1>8, <1>9, <1>10, <1>11, <1>12 DEF Next

LEMMA CoverInitially ==
  ASSUME Init
  PROVE  CoverInv
<1>1. Inv
  BY InitHolds
<1>2. log = <<>> /\ Len(log) = 0 /\ DOMAIN log = {} /\ ~client.live
      /\ client = [cursor |-> 0, has |-> {}, live |-> FALSE]
      /\ receiver = Closed /\ refresher = [phase |-> "idle", at |-> 0]
      /\ seq = 0 /\ wire = {} /\ \A f \in Feeds : ~tx[f].open
  BY DEF Init, NoTx
<1>3. Queue = {} /\ Missing = {} /\ receiver.pending = {} /\ receiver.phase = "closed"
  BY <1>2 DEF Queue, Missing, Relevant, Closed
<1>4. Shaped
  BY <1>2, DeliveryAssumption DEF Shaped, Closed
<1>5. InTime /\ RefreshedInTime /\ SeenInTime
  BY <1>2, <1>3 DEF InTime, RefreshedInTime, SeenInTime
<1>6. Numbered
  BY <1>2, <1>3, FS_EmptySet DEF Numbered
<1>7. Awaited /\ Ordered /\ Covered
  BY <1>2, <1>3 DEF Awaited, Ordered, Covered
<1> QED BY <1>1, <1>4, <1>5, <1>6, <1>7 DEF CoverInv

\* A client that continues from its position has every event up to it: messages
\* that are lost, late or out of order, receivers that die, time-outs under
\* running transactions and refreshes under running requests cost it none,
\* but for the two kinds of events without a number that `raced' marks.
THEOREM CursorAlwaysCovers == Spec => []CursorCovers
<1>1. Init => CoverInv
  BY CoverInitially
<1>2. CoverInv /\ [Next]_vars => CoverInv'
  BY CoverStep
<1>3. CoverInv => CursorCovers
  <2> SUFFICES ASSUME CoverInv
               PROVE  CursorCovers
    OBVIOUS
  <2>1. refs \subseteq DOMAIN log
    <3>1. Typed /\ RefsFollowSubscriptions /\ DOMAIN log = 1..Len(log) /\ Len(log) \in Nat
      BY DEF CoverInv, Inv, Typed
    <3>2. ASSUME NEW g \in Feeds, since[g] # Never, Latest(g) > since[g]
          PROVE  Latest(g) \in 1..Len(log)
      <4>1. Latest(g) \in 0..Len(log) /\ since[g] \in {Never} \cup 0..Len(log)
        BY <3>1, LatestIs DEF Typed
      <4> QED BY <3>1, <3>2, <4>1
    <3> QED BY <3>1, <3>2 DEF RefsFollowSubscriptions
  <2>2. client.cursor \in 0..MaxLog
    BY DeliveryAssumption DEF CoverInv, Shaped, Numbered, Inv, Typed
  <2>3. receiver.seq \in 0..seq
    BY DEF CoverInv, Shaped
  <2>4. \A i \in DOMAIN log : log[i] \in [feed : Feeds, post : BOOLEAN, raced : BOOLEAN]
    <3>1. log \in Seq(Entry)
      BY DEF CoverInv, Inv, Typed
    <3>2. ASSUME NEW i \in DOMAIN log
          PROVE  log[i] \in Entry
      BY <3>1
    <3> QED BY <3>2 DEF Entry
  <2>5. TypeOK
    BY <2>1, <2>2, <2>3, <2>4 DEF CoverInv, Inv, Typed, Shaped, TypeOK
  <2>6. ASSUME NEW i \in Relevant, i <= client.cursor, ~log[i].raced
        PROVE  i \in client.has
    <3>1. i \in Missing => i > client.cursor
      BY DEF CoverInv, Covered
    <3>2. i \in Int /\ client.cursor \in Nat
      BY DEF Relevant, CoverInv, Inv, Typed, Shaped
    <3> QED BY <2>6, <3>1, <3>2 DEF Missing
  <2> QED BY <2>5, <2>6 DEF CursorCovers
<1> QED BY <1>1, <1>2, <1>3, PTL DEF Spec

=============================================================================
