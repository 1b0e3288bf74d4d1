------------------------------ MODULE Counters ------------------------------
(***************************************************************************)
(* The unread counters of the messaging module: NewCountersRepository with *)
(* CountersDirectory (the index of a chat's messages) and                  *)
(* CounterSubscribersDirectory (what every subscriber is shown), driven by *)
(* MessagingMediator and RoomMediator together with UserReadSeqsDirectory. *)
(*                                                                         *)
(* A counter is never computed from the messages.  A message is filed      *)
(* under several counting collections of its chat; a user's count adds and *)
(* subtracts the sizes of six of them past the user's read position.  The  *)
(* count is kept for the first subscribers of a chat ("direct") and        *)
(* recomputed on every read for the later ones ("async"); four totals of   *)
(* each user, for all messages and for mentions, are kept by increments.   *)
(*                                                                         *)
(* Every handler runs in one serializable transaction, hence is one step.  *)
(* A counting collection (a B+ tree per key) is a set of sequence numbers: *)
(* adding twice or removing what is absent changes nothing.  The largest   *)
(* known id of a collection is written and never read, and is left out, as *)
(* is the deletion of a private message for one side, which the counters   *)
(* do not see.                                                             *)
(***************************************************************************)
EXTENDS Integers, Sequences, FiniteSets, FiniteSetsExt

CONSTANTS Users, Rooms, PrivateChats,
          Contents,    \* what a message or an edit may say
          DirectLimit, \* DIRECT_SUBSCRIBER_LIMIT
          MaxMessages, \* bound on the messages sent, over all chats
          MaxPrivate,  \* bound on the messages sent in one private chat
          Mutable,     \* bound: the <<user, chat>> ever muted or unmuted
          Outsiders,   \* bound: the <<user, chat>> read without being in it
          None         \* an absent record

Chats == Rooms \cup PrivateChats

Content == [mentions : SUBSET Users, allMention : BOOLEAN, visibleOnlyTo : SUBSET Users]

ASSUME CountersAssumption ==
  /\ {DirectLimit, MaxMessages, MaxPrivate} \subseteq Nat
  /\ Contents \subseteq Content /\ Mutable \cup Outsiders \subseteq Users \X Chats
  /\ Rooms \cap PrivateChats = {}

\* What a message is filed under, and what a subscriber of a chat is shown.
Ref == [sender : Users, mentions : SUBSET Users, allMention : BOOLEAN,
        visibleOnlyTo : SUBSET Users]
UserState == [seq : Nat, muted : BOOLEAN, async : BOOLEAN, counter : Int, mentions : Int]

ASSUME UsersAssumption == IsFiniteSet(Users)
ASSUME ChatsAssumption == IsFiniteSet(Chats)
ASSUME NoneAssumption == None \notin Ref \cup UserState \cup Nat

VARIABLES
  messages,  \* Store.Message of each chat, in the order of their seq
  joined,    \* participants of each chat
  readSeqs,  \* UserReadSeqsDirectory, None when the user has no row
  mute,      \* UserDialogSettings.mute
  counters   \* what MessageCountersDirectory stores: index, the refs and counting
             \*   collections of each chat; users, the UserCounterState of each
             \*   user and chat; direct, the direct subscribers of each chat;
             \*   async, the async subscriptions of each user; and totals,
             \*   the userCounters

vars == <<messages, joined, readSeqs, mute, counters>>

Seqs == 1 .. MaxMessages
LastSeq(c) == Len(messages[c])
MaySend(c) ==
  /\ LastSeq(c) < MaxMessages /\ MapThenSumSet(LastSeq, Chats) < MaxMessages
  /\ c \in PrivateChats => LastSeq(c) < MaxPrivate

Message == [sender : Users, mentions : SUBSET Users, allMention : BOOLEAN,
            visibleOnlyTo : SUBSET Users, invite : BOOLEAN, deleted : BOOLEAN]

------------------------------------------------------------------------------
(* CountersDirectory: what a message is filed under, and the six collections *)
(* a user's count is made of.                                                *)

Collections ==
  {<<"total">>, <<"allMention">>}
    \cup ({"mention", "userTotal", "userAllMention", "personalTotal"} \X Users)

EmptyIndex == [refs |-> [q \in Seqs |-> None], counting |-> [k \in Collections |-> {}]]

\* The normalized input: a message to everybody mentions all or somebody other
\* than its sender, a personal one only those of its readers it names.
Normalized(m) ==
  [sender |-> m.sender, visibleOnlyTo |-> m.visibleOnlyTo,
   allMention |-> m.allMention /\ m.visibleOnlyTo = {},
   mentions |-> IF m.visibleOnlyTo # {} THEN (m.mentions \cap m.visibleOnlyTo) \ {m.sender}
                ELSE IF m.allMention THEN {} ELSE m.mentions \ {m.sender}]

FiledUnder(ref) ==
  (IF ref.visibleOnlyTo = {} THEN {<<"total">>, <<"userTotal", ref.sender>>} ELSE {})
    \cup {<<"personalTotal", u>> : u \in ref.visibleOnlyTo \ {ref.sender}}
    \cup (IF ref.allMention THEN {<<"allMention">>, <<"userAllMention", ref.sender>>} ELSE {})
    \cup {<<"mention", u>> : u \in ref.mentions}

removeMessage(ix, q) ==
  LET filed == FiledUnder(ix.refs[q])
  IN  IF ix.refs[q] = None THEN ix
      ELSE [refs |-> [ix.refs EXCEPT ![q] = None],
            counting |-> [k \in Collections |->
              IF k \in filed THEN ix.counting[k] \ {q} ELSE ix.counting[k]]]

fileMessage(ix, q, ref) ==
  LET filed == FiledUnder(ref)
  IN  [refs |-> [ix.refs EXCEPT ![q] = ref],
       counting |-> [k \in Collections |->
         IF k \in filed THEN ix.counting[k] \cup {q} ELSE ix.counting[k]]]

\* A mutant: an edited message is not removed from the index first.
addOrUpdateMessage_KeepsOld(ix, q, m) == fileMessage(ix, q, Normalized(m))

addOrUpdateMessage(ix, q, m) ==
  LET ref == Normalized(m)
  IN  IF ix.refs[q] = ref THEN ix ELSE fileMessage(removeMessage(ix, q), q, ref)

count(ix, u, seq) ==
  LET past(k) == Cardinality({q \in ix.counting[k] : q > seq})
  IN  [unread |-> past(<<"total">>) - past(<<"userTotal", u>>)
                    + past(<<"personalTotal", u>>),
       unreadMentions |-> past(<<"allMention">>) - past(<<"userAllMention", u>>)
                    + past(<<"mention", u>>)]

------------------------------------------------------------------------------
(* CounterSubscribersDirectory.                                              *)

Kinds == {"all", "distinct"}
Of == {"messages", "mentions"}
Totals == {<<kind, excludeMuted, of>> : kind \in Kinds, excludeMuted \in BOOLEAN, of \in Of}

NoTotals == [t \in Totals |-> 0]

\* A subscriber whose count is kept, and one whose count is not.
State(seq, muted, n) ==
  [seq |-> seq, muted |-> muted, async |-> FALSE,
   counter |-> n.unread, mentions |-> n.unreadMentions]
AsyncState(seq, muted) ==
  [seq |-> seq, muted |-> muted, async |-> TRUE, counter |-> 0, mentions |-> 0]

\* No subscription counts as one without unread messages.
Nothing == AsyncState(0, FALSE)

InKind(kind, n) == IF kind = "all" THEN n ELSE IF n > 0 THEN 1 ELSE 0

\* What addCounters adds to the totals of a user for one chat, and
\* substractCounters takes away.
Share(state) ==
  [t \in Totals |->
     IF state.muted /\ t[2] THEN 0
     ELSE InKind(t[1], IF t[3] = "messages" THEN state.counter ELSE state.mentions)]

\* A mutant: the old count of an updated subscriber is not taken away.
Moved_OnlyAdds(total, old, new) ==
  LET more == Share(new) IN [t \in Totals |-> total[t] + more[t]]

Moved(total, old, new) ==
  LET less == Share(old)
      more == Share(new)
  IN  [t \in Totals |-> total[t] - less[t] + more[t]]

\* The counters s after the async subscription of u to c is dropped, or
\* replaced by one with the given position.
withoutAsync(s, u, c) == {a \in s.async[u] : a.cid # c}
withAsync(s, u, c, seq, muted) ==
  withoutAsync(s, u, c) \cup {[cid |-> c, muted |-> muted, seq |-> seq]}

subscribe(s, u, c, seq, muted, n) ==
  LET old == s.users[u][c]
      direct == State(seq, muted, n)
      asAsync == [s EXCEPT !.users[u][c] = AsyncState(seq, muted),
                           !.async[u] = withAsync(s, u, c, seq, muted)]
  IN  IF old # None
      THEN IF old.async THEN asAsync
           ELSE [s EXCEPT !.users[u][c] = direct, !.totals[u] = Moved(@, old, direct)]
      ELSE IF Cardinality(s.direct[c]) > DirectLimit THEN asAsync
           ELSE [s EXCEPT !.users[u][c] = direct,
                          !.direct[c] = @ \cup {u},
                          !.totals[u] = Moved(@, Nothing, direct)]

\* A mutant: whoever leaves stays in the list of direct subscribers.
unsubscribe_StaysListed(s, u, c) ==
  IF s.users[u][c] = None THEN s
  ELSE [s EXCEPT !.users[u][c] = None,
                 !.async[u] = withoutAsync(s, u, c),
                 !.totals[u] = IF s.users[u][c].async THEN @
                               ELSE Moved(@, s.users[u][c], Nothing)]

unsubscribe(s, u, c) ==
  LET old == s.users[u][c]
  IN  IF old = None THEN s
      ELSE IF old.async
      THEN [s EXCEPT !.users[u][c] = None, !.async[u] = withoutAsync(s, u, c)]
      ELSE [s EXCEPT !.users[u][c] = None,
                     !.direct[c] = @ \ {u},
                     !.totals[u] = Moved(@, old, Nothing)]

------------------------------------------------------------------------------
(* NewCountersRepository.                                                    *)

\* The direct subscribers of c are recounted after every message written,
\* edited or deleted, each from its own position.
onMessage(s, c, q, m) ==
  LET ix == IF m.deleted THEN removeMessage(s.index[c], q)
            ELSE addOrUpdateMessage(s.index[c], q, m)
      recounted == {u \in s.direct[c] : s.users[u][c] # None /\ ~s.users[u][c].async}
      new(u) == State(s.users[u][c].seq, s.users[u][c].muted,
                      count(ix, u, s.users[u][c].seq))
  IN  [s EXCEPT !.index[c] = ix,
                !.users = [u \in Users |-> IF u \in recounted
                                           THEN [@[u] EXCEPT ![c] = new(u)] ELSE @[u]],
                !.totals = [u \in Users |-> IF u \in recounted
                                            THEN Moved(@[u], s.users[u][c], new(u)) ELSE @[u]]]

Subscribe(s, u, c, seq, muted) ==
  subscribe(s, u, c, seq, muted, count(s.index[c], u, seq))

readMessages(s, u, c, seq) ==
  IF s.users[u][c] = None THEN s
  ELSE subscribe(s, u, c, seq, s.users[u][c].muted, count(s.index[c], u, seq))

updateMuted(s, u, c, muted) ==
  LET old == s.users[u][c]
  IN  IF old = None THEN s
      ELSE subscribe(s, u, c, old.seq, muted,
                     [unread |-> old.counter, unreadMentions |-> old.mentions])

\* What the user is shown of one chat ...
getLocalCounter(u, c) ==
  LET state == counters.users[u][c]
  IN  IF state = None THEN [unread |-> 0, unreadMentions |-> 0]
      ELSE IF state.async THEN count(counters.index[c], u, state.seq)
      ELSE [unread |-> state.counter, unreadMentions |-> state.mentions]

\* ... and of all of them: the total kept for the direct subscriptions, plus
\* what the async ones, each counted now, come to.
getGlobalCounter(u, t) ==
  LET of(a) == LET n == count(counters.index[a.cid], u, counters.users[u][a.cid].seq)
               IN  IF a.muted /\ t[2] THEN 0
                   ELSE InKind(t[1], IF t[3] = "messages" THEN n.unread ELSE n.unreadMentions)
  IN  counters.totals[u][t] + MapThenSumSet(of, counters.async[u])

------------------------------------------------------------------------------
(* MessagingMediator and RoomMediator.                                       *)

TypeOK ==
  /\ messages \in [Chats -> Seq(Message)]
  /\ joined \in [Chats -> SUBSET Users]
  /\ readSeqs \in [Users -> [Chats -> Seqs \cup {0, None}]]
  /\ mute \in [Users -> [Chats -> BOOLEAN]]

Init ==
  /\ messages = [c \in Chats |-> <<>>]
  /\ joined = [c \in Chats |-> {}]
  /\ readSeqs = [u \in Users |-> [c \in Chats |-> None]]
  /\ mute = [u \in Users |-> [c \in Chats |-> FALSE]]
  /\ counters = [index |-> [c \in Chats |-> EmptyIndex],
                 users |-> [u \in Users |-> [c \in Chats |-> None]],
                 direct |-> [c \in Chats |-> {}],
                 async |-> [u \in Users |-> {}],
                 totals |-> [u \in Users |-> NoTotals]]

NewMessage(u, content, invite) ==
  [sender |-> u, mentions |-> content.mentions, allMention |-> content.allMention,
   visibleOnlyTo |-> content.visibleOnlyTo, invite |-> invite, deleted |-> FALSE]

Mentioning(who) == [mentions |-> who, allMention |-> FALSE, visibleOnlyTo |-> {}]

\* Nothing reads what a deleted message says, and the model forgets it.
Kept(m) == IF m.deleted THEN [NewMessage(m.sender, Mentioning({}), FALSE) EXCEPT !.deleted = TRUE]
           ELSE m

\* Write message m of chat c at position q, the counters being s.
Write(s, c, q, m) ==
  /\ messages' = [messages EXCEPT ![c] = IF q = LastSeq(c) + 1 THEN Append(@, m)
                                         ELSE [@ EXCEPT ![q] = Kept(m)]]
  /\ counters' = onMessage(s, c, q, m)

\* Only the welcome and the phone book workers write to some of the members,
\* and only in a private chat.
sendMessage(u, c, content) ==
  /\ MaySend(c)
  /\ u \in joined[c]
  /\ content.visibleOnlyTo \subseteq joined[c]
  /\ content.visibleOnlyTo # {} => c \in PrivateChats
  /\ Write(counters, c, LastSeq(c) + 1, NewMessage(u, content, FALSE))
  /\ UNCHANGED <<joined, readSeqs, mute>>

\* The author, or a super admin, changes what a message mentions; neither
\* membership nor the deletion of the message is looked at.
editMessage(c, q, content) ==
  /\ Write(counters, c, q, [messages[c][q] EXCEPT !.mentions = content.mentions,
                                                  !.allMention = content.allMention])
  /\ UNCHANGED <<joined, readSeqs, mute>>

deleteMessage(c, q) ==
  /\ Write(counters, c, q, [messages[c][q] EXCEPT !.deleted = TRUE])
  /\ UNCHANGED <<joined, readSeqs, mute>>

\* A position only moves forward; whoever asks may have one, member or not.
updateReadSeq(u, c, q) == IF readSeqs[u][c] = None THEN TRUE ELSE readSeqs[u][c] < q

readRoom(u, c, q) ==
  /\ updateReadSeq(u, c, q)
  /\ readSeqs' = [readSeqs EXCEPT ![u][c] = q]
  /\ counters' = readMessages(counters, u, c, q)
  /\ UNCHANGED <<messages, joined, mute>>

\* setParticipant and onRoomJoin: the new member starts at the end of the chat.
onRoomJoin(u, c) == Subscribe(counters, u, c, LastSeq(c), mute[u][c])
Enter(u, c) ==
  /\ c \in Rooms /\ u \notin joined[c]
  /\ joined' = [joined EXCEPT ![c] = @ \cup {u}]
  /\ readSeqs' = [readSeqs EXCEPT ![u][c] = LastSeq(c)]
  /\ UNCHANGED mute

\* joinRoom, and inviteToRoom by another member; the room may have its join
\* messages disabled.
joinSilently(u, c) ==
  /\ Enter(u, c)
  /\ counters' = onRoomJoin(u, c)
  /\ UNCHANGED messages

\* findTopMessage: the last message u sees, if it announces who joined.
Visible(m, u) == ~m.deleted /\ (m.visibleOnlyTo = {} \/ u \in m.visibleOnlyTo)
InviteOnTop(u, c) ==
  {q \in 1 .. LastSeq(c) : /\ messages[c][q].invite /\ Visible(messages[c][q], u)
                           /\ \A r \in q + 1 .. LastSeq(c) : ~Visible(messages[c][r], u)}

joinAnnounced(u, by, c) ==
  /\ by \in joined[c] \cup {u}
  /\ InviteOnTop(by, c) = {} /\ MaySend(c)
  /\ Enter(u, c)
  /\ Write(onRoomJoin(u, c), c, LastSeq(c) + 1, NewMessage(by, Mentioning({u}), TRUE))

\* The message announcing the last to join is edited to name this one too.
joinAppended(u, by, c) ==
  /\ by \in joined[c] \cup {u}
  /\ Enter(u, c)
  /\ \E q \in InviteOnTop(by, c) :
       Write(onRoomJoin(u, c), c, q, [messages[c][q] EXCEPT !.mentions = @ \cup {u}])

\* setParticipant and onRoomLeave, of leaveRoom or of kickFromRoom by another.
Exit(u, c) ==
  /\ c \in Rooms /\ u \in joined[c]
  /\ joined' = [joined EXCEPT ![c] = @ \ {u}]
  /\ readSeqs' = [readSeqs EXCEPT ![u][c] = None]
  /\ UNCHANGED mute

leaveSilently(u, c) ==
  /\ Exit(u, c)
  /\ counters' = unsubscribe(counters, u, c)
  /\ UNCHANGED messages

leaveAnnounced(u, by, c) ==
  /\ by \in joined[c] /\ MaySend(c)
  /\ Exit(u, c)
  /\ Write(unsubscribe(counters, u, c), c, LastSeq(c) + 1,
           NewMessage(by, Mentioning({u, by}), FALSE))

\* A private chat is created, empty, for two users.
resolvePrivateChat(u, v, c) ==
  /\ c \in PrivateChats /\ joined[c] = {} /\ u # v
  /\ joined' = [joined EXCEPT ![c] = {u, v}]
  /\ readSeqs' = [w \in Users |->
       IF w \in {u, v} THEN [readSeqs[w] EXCEPT ![c] = LastSeq(c)] ELSE readSeqs[w]]
  /\ counters' = Subscribe(Subscribe(counters, u, c, 0, FALSE), v, c, 0, FALSE)
  /\ UNCHANGED <<messages, mute>>

\* The settings of a chat that exists, whether or not the user is in it.
updateNotificationSettings(u, c) ==
  /\ c \in Rooms \/ joined[c] # {}
  /\ mute' = [mute EXCEPT ![u][c] = ~@]
  /\ counters' = updateMuted(counters, u, c, ~mute[u][c])
  /\ UNCHANGED <<messages, joined, readSeqs>>

Next ==
  \/ \E u \in Users, c \in Chats :
       \/ \E content \in Contents : sendMessage(u, c, content)
       \/ /\ u \in joined[c] \/ <<u, c>> \in Outsiders
          /\ \E q \in 1 .. LastSeq(c) : readRoom(u, c, q)
       \/ joinSilently(u, c)
       \/ leaveSilently(u, c)
       \/ <<u, c>> \in Mutable /\ updateNotificationSettings(u, c)
       \/ \E by \in Users : \/ joinAnnounced(u, by, c)
                            \/ joinAppended(u, by, c)
                            \/ leaveAnnounced(u, by, c)
                            \/ resolvePrivateChat(u, by, c)
  \/ \E c \in Chats : \E q \in 1 .. LastSeq(c) :
       \/ \E content \in Contents : editMessage(c, q, content)
       \/ deleteMessage(c, q)

Spec == Init /\ [][Next]_vars

------------------------------------------------------------------------------
(* Properties.                                                               *)

\* What a user should be shown: the messages of others past his position that
\* are there, that he may see, and, of these, the ones that mention him.
UnreadBy(u, c, after) ==
  {q \in 1 .. LastSeq(c) : /\ q > after /\ messages[c][q].sender # u
                           /\ Visible(messages[c][q], u)}
Mentions(m, u) == (m.allMention /\ m.visibleOnlyTo = {}) \/ u \in m.mentions
MentioningUnread(u, c, after) ==
  {q \in UnreadBy(u, c, after) : Mentions(messages[c][q], u)}
Truth(u, c, after) ==
  [unread |-> Cardinality(UnreadBy(u, c, after)),
   unreadMentions |-> Cardinality(MentioningUnread(u, c, after))]

\* A member is shown, for each of his chats, exactly the messages he has not
\* read, whether his count is kept or computed, and whatever was sent, edited,
\* deleted or read, by whomever, since he joined.
LocalCountersTrue ==
  \A c \in Chats : \A u \in joined[c] : getLocalCounter(u, c) = Truth(u, c, readSeqs[u][c])

\* Each of the eight totals kept for a user, with the async chats counted on
\* the read, is the sum over the chats he is in, the muted ones left out when
\* asked: no increment was lost or made twice on any path.
GlobalCountersTrue ==
  \A u \in Users, t \in Totals :
    getGlobalCounter(u, t) =
      MapThenSumSet(LAMBDA c : IF mute[u][c] /\ t[2] THEN 0
                               ELSE LET n == Truth(u, c, readSeqs[u][c])
                                    IN  InKind(t[1], IF t[3] = "messages" THEN n.unread
                                                     ELSE n.unreadMentions),
                    {c \in Chats : u \in joined[c]})

\* The four records of a subscription agree: who is in the chat has a counter
\* state, at the position of the read directory and muted as the settings say,
\* and is listed once, by the chat or by the user.
SubscriptionsAgree ==
  /\ TypeOK
  /\ \A u \in Users, c \in Chats :
       LET state == counters.users[u][c]
           listed == {a \in counters.async[u] : a.cid = c}
       IN  /\ u \in joined[c] <=> state # None
           /\ state # None => state.seq = readSeqs[u][c] /\ state.muted = mute[u][c]
           /\ u \in counters.direct[c] <=> state # None /\ ~state.async
           /\ listed = IF state # None /\ state.async
                       THEN {[cid |-> c, muted |-> state.muted, seq |-> state.seq]} ELSE {}

=============================================================================
