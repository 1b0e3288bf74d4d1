---------------------------- MODULE Counters_proofs ----------------------------
(***************************************************************************)
(* Proofs about Counters, for any users, chats, contents and limits.  What *)
(* a member is shown of a chat is true because                             *)
(*   - the index of the chat is what its messages, normalized, come to     *)
(*     (Indexed), and then the six collections add up to the truth         *)
(*     (CountIsTrue);                                                      *)
(*   - a kept count is the count of the index at the subscriber's position *)
(*     (Kept counts, part of Sound);                                       *)
(*   - that position is the one of the read directory (Follows).           *)
(* A handler writes the counters up to three times, so these are facts     *)
(* about a value s of the counters, and each operation has a lemma.        *)
(*                                                                         *)
(* The totals of a user are the sums of what the states of his chats stand *)
(* for (TotalsExact): a handler changes states in one chat only, and each  *)
(* total by as much (Accounted), however many times it writes.  The facts  *)
(* about sums this takes are those of Payments_proofs, and three more.     *)
(***************************************************************************)
EXTENDS Counters, FiniteSetTheorems, WellFoundedInduction, TLAPS

Index == [refs : [Seqs -> Ref \cup {None}], counting : [Collections -> SUBSET Seqs]]
AsyncRef == [cid : Chats, muted : BOOLEAN, seq : Nat]

CountersType ==
  [index : [Chats -> Index],
   users : [Users -> [Chats -> UserState \cup {None}]],
   direct : [Chats -> SUBSET Users],
   async : [Users -> SUBSET AsyncRef],
   totals : [Users -> [Totals -> Int]]]

\* The index ix is the one of the messages M of a chat.
Filed(ix, k) == {q \in Seqs : ix.refs[q] # None /\ k \in FiledUnder(ix.refs[q])}
RefOf(M, q) == IF q \in 1 .. Len(M) /\ ~M[q].deleted THEN Normalized(M[q]) ELSE None
Indexed(ix, M) ==
  /\ \A q \in Seqs : ix.refs[q] = RefOf(M, q)
  /\ \A k \in Collections : ix.counting[k] = Filed(ix, k)

\* A kept count is the count of the index.
Counted(s, u, c, state) ==
  [unread |-> state.counter, unreadMentions |-> state.mentions]
    = count(s.index[c], u, state.seq)
KeptTrue(s, u, c) ==
  LET state == s.users[u][c]
  IN  state # None /\ ~state.async => Counted(s, u, c, state)

\* A subscription is listed once, by the chat or by the user.
ListedOnce(s, u, c) ==
  LET state == s.users[u][c]
  IN  /\ u \in s.direct[c] <=> state # None /\ ~state.async
      /\ {a \in s.async[u] : a.cid = c} =
            IF state # None /\ state.async
            THEN {[cid |-> c, muted |-> state.muted, seq |-> state.seq]} ELSE {}

Sound(s) ==
  /\ s \in CountersType
  /\ \A u \in Users, c \in Chats : KeptTrue(s, u, c) /\ ListedOnce(s, u, c)

-----------------------------------------------------------------------------
(* The index and the count.                                                *)

LEMMA NormalizedType == ASSUME NEW m \in Message PROVE Normalized(m) \in Ref
BY DEF Normalized, Message, Ref

\* The collections a message is filed under exist.
LEMMA FiledUnderType == ASSUME NEW ref \in Ref PROVE FiledUnder(ref) \subseteq Collections
<1>1. /\ <<"total">> \in Collections /\ <<"allMention">> \in Collections
      /\ \A u \in Users : /\ <<"mention", u>> \in Collections
                          /\ <<"userTotal", u>> \in Collections
                          /\ <<"userAllMention", u>> \in Collections
                          /\ <<"personalTotal", u>> \in Collections
  BY DEF Collections
<1>2. ref.sender \in Users /\ ref.mentions \subseteq Users /\ ref.visibleOnlyTo \subseteq Users
  BY DEF Ref
<1> QED BY <1>1, <1>2 DEF FiledUnder

\* Taking a message out of an index leaves the index of the others.
LEMMA RemoveFiled ==
  ASSUME NEW ix \in Index, NEW q \in Seqs, NEW k \in Collections,
         \A l \in Collections : ix.counting[l] = Filed(ix, l)
  PROVE  LET iy == removeMessage(ix, q)
         IN  /\ iy \in Index
             /\ iy.refs = [ix.refs EXCEPT ![q] = None]
             /\ iy.counting[k] = Filed(iy, k)
<1> DEFINE iy == removeMessage(ix, q)
<1>1. CASE ix.refs[q] = None
  <2>1. iy = ix
    BY <1>1 DEF removeMessage
  <2>2. [ix.refs EXCEPT ![q] = None] = ix.refs
    BY <1>1 DEF Index
  <2> QED BY <2>1, <2>2
<1>2. CASE ix.refs[q] # None
  <2>1. /\ iy.refs = [ix.refs EXCEPT ![q] = None]
        /\ iy.counting = [l \in Collections |->
             IF l \in FiledUnder(ix.refs[q]) THEN ix.counting[l] \ {q} ELSE ix.counting[l]]
        /\ iy = [refs |-> iy.refs, counting |-> iy.counting]
    BY <1>2 DEF removeMessage
  <2>2. iy \in Index
    BY <2>1 DEF Index
  <2>3. iy.counting[k] = Filed(ix, k) \ {q}
    BY <1>2, <2>1 DEF Filed
  <2>4. Filed(iy, k) = Filed(ix, k) \ {q}
    BY <2>1 DEF Filed, Index
  <2> QED BY <2>1, <2>2, <2>3, <2>4
<1> QED BY <1>1, <1>2

\* Filing a message that is in no collection yet adds it to its own.
LEMMA FileFiled ==
  ASSUME NEW ix \in Index, NEW q \in Seqs, NEW ref \in Ref, NEW k \in Collections,
         ix.refs[q] = None, ix.counting[k] = Filed(ix, k)
  PROVE  LET iy == fileMessage(ix, q, ref)
         IN  /\ iy \in Index
             /\ iy.refs = [ix.refs EXCEPT ![q] = ref]
             /\ iy.counting[k] = Filed(iy, k)
<1> DEFINE iy == fileMessage(ix, q, ref)
<1>1. /\ iy.refs = [ix.refs EXCEPT ![q] = ref]
      /\ iy.counting = [l \in Collections |->
           IF l \in FiledUnder(ref) THEN ix.counting[l] \cup {q} ELSE ix.counting[l]]
      /\ iy = [refs |-> iy.refs, counting |-> iy.counting]
  BY DEF fileMessage
<1>2. iy \in Index
  BY <1>1 DEF Index
<1>3. ref # None
  BY NoneAssumption
<1>4. q \in Filed(iy, k) <=> k \in FiledUnder(ref)
  BY <1>1, <1>3 DEF Filed, Index
<1>5. Filed(iy, k) \ {q} = Filed(ix, k)
  BY <1>1 DEF Filed, Index
<1>6. q \notin Filed(ix, k)
  BY DEF Filed
<1>7. iy.counting[k] = IF k \in FiledUnder(ref) THEN Filed(ix, k) \cup {q} ELSE Filed(ix, k)
  BY <1>1
<1>8. iy.counting[k] = Filed(iy, k)
  <2>1. CASE k \in FiledUnder(ref)
    BY <1>4, <1>5, <1>7, <2>1
  <2>2. CASE k \notin FiledUnder(ref)
    BY <1>4, <1>5, <1>7, <2>2
  <2> QED BY <2>1, <2>2
<1> QED BY <1>1, <1>2, <1>8

\* Writing message m at position q of the messages M, which become N, updates
\* the index.
LEMMA IndexKept ==
  ASSUME NEW ix \in Index, NEW M, NEW N, Indexed(ix, M),
         NEW q \in Seqs, NEW m \in Message,
         \A r \in Seqs \ {q} : RefOf(N, r) = RefOf(M, r),
         RefOf(N, q) = IF m.deleted THEN None ELSE Normalized(m)
  PROVE  LET iy == IF m.deleted THEN removeMessage(ix, q) ELSE addOrUpdateMessage(ix, q, m)
         IN  iy \in Index /\ Indexed(iy, N)
<1> DEFINE ref == Normalized(m)
           iz == removeMessage(ix, q)
           iy == IF m.deleted THEN iz ELSE addOrUpdateMessage(ix, q, m)
<1>1. ref \in Ref
  BY NormalizedType
<1>2. /\ iz \in Index
      /\ iz.refs = [ix.refs EXCEPT ![q] = None]
      /\ \A k \in Collections : iz.counting[k] = Filed(iz, k)
  <2>1. \A k \in Collections :
          /\ iz \in Index
          /\ iz.refs = [ix.refs EXCEPT ![q] = None]
          /\ iz.counting[k] = Filed(iz, k)
    BY RemoveFiled DEF Indexed
  <2>2. <<"total">> \in Collections
    BY DEF Collections
  <2> HIDE DEF iz
  <2> QED BY <2>1, <2>2
<1>3. CASE m.deleted
  <2>1. \A r \in Seqs : iz.refs[r] = RefOf(N, r)
    BY <1>2, <1>3 DEF Indexed, Index
  <2> QED BY <1>2, <1>3, <2>1 DEF Indexed
<1>4. CASE ~m.deleted /\ ix.refs[q] = ref
  <2>1. addOrUpdateMessage(ix, q, m) = ix
    BY <1>4 DEF addOrUpdateMessage
  <2>2. \A r \in Seqs : ix.refs[r] = RefOf(N, r)
    BY <1>4 DEF Indexed
  <2> QED BY <1>4, <2>1, <2>2 DEF Indexed
<1>5. CASE ~m.deleted /\ ix.refs[q] # ref
  <2> DEFINE iw == fileMessage(iz, q, ref)
  <2>1. addOrUpdateMessage(ix, q, m) = iw
    BY <1>5 DEF addOrUpdateMessage
  <2>2. iz.refs[q] = None
    BY <1>2 DEF Index
  <2>3. \A k \in Collections :
          /\ iw \in Index
          /\ iw.refs = [iz.refs EXCEPT ![q] = ref]
          /\ iw.counting[k] = Filed(iw, k)
    <3> SUFFICES ASSUME NEW k \in Collections
                 PROVE  /\ iw \in Index
                        /\ iw.refs = [iz.refs EXCEPT ![q] = ref]
                        /\ iw.counting[k] = Filed(iw, k)
      OBVIOUS
    <3>1. iz \in Index /\ iz.counting[k] = Filed(iz, k)
      BY <1>2
    <3> HIDE DEF iz, ref
    <3> QED BY <1>1, <2>2, <3>1, FileFiled
  <2>4. <<"total">> \in Collections
    BY DEF Collections
  <2> HIDE DEF iw
  <2>5. \A r \in Seqs : iw.refs[r] = RefOf(N, r)
    <3> HIDE DEF iz
    <3> QED BY <1>2, <1>5, <2>3, <2>4 DEF Indexed, Index
  <2>6. iw \in Index /\ Indexed(iw, N)
    BY <2>3, <2>4, <2>5 DEF Indexed
  <2> QED BY <1>5, <2>1, <2>6
<1> QED BY <1>3, <1>4, <1>5

\* Appending a message, and changing one, is writing it.
LEMMA AppendRefs ==
  ASSUME NEW M \in Seq(Message), NEW m \in Message, ~m.deleted,
         Len(M) + 1 \in Seqs
  PROVE  /\ \A r \in Seqs \ {Len(M) + 1} : RefOf(Append(M, m), r) = RefOf(M, r)
         /\ RefOf(Append(M, m), Len(M) + 1) = Normalized(m)
BY DEF RefOf, Seqs

LEMMA ChangeRefs ==
  ASSUME NEW M \in Seq(Message), NEW m \in Message, NEW q \in 1 .. Len(M)
  PROVE  LET N == [M EXCEPT ![q] = Kept(m)]
         IN  /\ \A r \in Seqs \ {q} : RefOf(N, r) = RefOf(M, r)
             /\ RefOf(N, q) = IF m.deleted THEN None ELSE Normalized(m)
<1> DEFINE N == [M EXCEPT ![q] = Kept(m)]
<1>1. Kept(m).deleted = m.deleted /\ (~m.deleted => Kept(m) = m)
  BY DEF Kept, NewMessage, Message
<1>2. Len(N) = Len(M) /\ N[q] = Kept(m) /\ \A r \in 1 .. Len(M) : r # q => N[r] = M[r]
  OBVIOUS
<1> HIDE DEF N
<1> QED BY <1>1, <1>2 DEF RefOf

LEMMA FiledUnderMeans ==
  ASSUME NEW ref \in Ref, NEW u \in Users
  PROVE  /\ <<"total">> \in FiledUnder(ref) <=> ref.visibleOnlyTo = {}
         /\ <<"userTotal", u>> \in FiledUnder(ref)
              <=> ref.visibleOnlyTo = {} /\ ref.sender = u
         /\ <<"personalTotal", u>> \in FiledUnder(ref)
              <=> u \in ref.visibleOnlyTo \ {ref.sender}
         /\ <<"allMention">> \in FiledUnder(ref) <=> ref.allMention
         /\ <<"userAllMention", u>> \in FiledUnder(ref)
              <=> ref.allMention /\ ref.sender = u
         /\ <<"mention", u>> \in FiledUnder(ref) <=> u \in ref.mentions
BY DEF FiledUnder, Ref

LEMMA Subtract ==
  ASSUME NEW S \in SUBSET Seqs, NEW T \in SUBSET S
  PROVE  /\ Cardinality(S \ T) = Cardinality(S) - Cardinality(T)
         /\ IsFiniteSet(S) /\ IsFiniteSet(T)
         /\ Cardinality(S) \in Nat /\ Cardinality(T) \in Nat
<1>1. MaxMessages \in Nat
  BY CountersAssumption
<1>2. IsFiniteSet(S)
  <2>1. IsFiniteSet(Seqs)
    BY <1>1, FS_Interval DEF Seqs
  <2> QED BY <2>1, FS_Subset
<1>3. IsFiniteSet(T) /\ S \cap T = T
  BY <1>2, FS_Subset
<1>4. Cardinality(S \ T) = Cardinality(S) - Cardinality(S \cap T)
  BY <1>2, FS_Difference
<1> QED BY <1>2, <1>3, <1>4, FS_CardinalityType

\* Everybody's messages without one's own, and the personal ones besides.
LEMMA AddUp ==
  ASSUME NEW S \in SUBSET Seqs, NEW A \in SUBSET Seqs, NEW B \in SUBSET A,
         NEW C \in SUBSET Seqs, S = (A \ B) \cup C, A \cap C = {}
  PROVE  Cardinality(S) = Cardinality(A) - Cardinality(B) + Cardinality(C)
<1>1. /\ Cardinality(A \ B) = Cardinality(A) - Cardinality(B)
      /\ Cardinality(A) \in Nat /\ Cardinality(B) \in Nat
  BY Subtract
<1>2. S \ C = A \ B
  OBVIOUS
<1>3. C \in SUBSET S
  OBVIOUS
<1>4. /\ Cardinality(S \ C) = Cardinality(S) - Cardinality(C)
      /\ Cardinality(S) \in Nat /\ Cardinality(C) \in Nat
  BY <1>3, Subtract
<1> QED BY <1>1, <1>2, <1>4

\* The six collections add up to what the user has not read.
LEMMA CountIsTrue ==
  ASSUME messages \in [Chats -> Seq(Message)],
         NEW c \in Chats, LastSeq(c) <= MaxMessages,
         NEW ix \in Index, Indexed(ix, messages[c]), NEW u \in Users, NEW after \in Nat
  PROVE  count(ix, u, after) = Truth(u, c, after)
<1> DEFINE M == messages[c]
           past(k) == {q \in ix.counting[k] : q > after}
           There(q) == q \in 1 .. LastSeq(c) /\ q > after /\ ~M[q].deleted
<1>1. MaxMessages \in Nat /\ LastSeq(c) \in Nat /\ 1 .. LastSeq(c) \subseteq Seqs
  <2>1. MaxMessages \in Nat
    BY CountersAssumption
  <2>2. M \in Seq(Message)
    OBVIOUS
  <2>3. Len(M) \in Nat
    BY <2>2
  <2> QED BY <2>1, <2>3 DEF LastSeq, Seqs
<1>2. \A q \in 1 .. LastSeq(c) : M[q] \in Message /\ Normalized(M[q]) \in Ref
  <2>1. M \in Seq(Message)
    OBVIOUS
  <2> QED BY <2>1, NormalizedType DEF LastSeq
<1>3. \A k \in Collections, q \in Seqs :
        q \in past(k) <=> There(q) /\ k \in FiledUnder(Normalized(M[q]))
  <2>1. \A q \in 1 .. LastSeq(c) : Normalized(M[q]) # None
    BY <1>2, NoneAssumption
  <2>2. \A q \in Seqs : ix.refs[q] = IF q \in 1 .. LastSeq(c) /\ ~M[q].deleted
                                     THEN Normalized(M[q]) ELSE None
    BY DEF Indexed, RefOf, LastSeq
  <2> QED BY <2>1, <2>2 DEF Indexed, Filed
<1>4. \A k \in Collections : past(k) \subseteq Seqs
  BY DEF Index
<1>5. /\ <<"total">> \in Collections /\ <<"allMention">> \in Collections
      /\ <<"mention", u>> \in Collections /\ <<"userTotal", u>> \in Collections
      /\ <<"userAllMention", u>> \in Collections /\ <<"personalTotal", u>> \in Collections
  BY DEF Collections
<1> DEFINE A == past(<<"total">>)
           B == past(<<"userTotal", u>>)
           C == past(<<"personalTotal", u>>)
           D == past(<<"allMention">>)
           E == past(<<"userAllMention", u>>)
           F == past(<<"mention", u>>)
<1>6. \A q \in Seqs :
        /\ q \in A <=> There(q) /\ M[q].visibleOnlyTo = {}
        /\ q \in B <=> There(q) /\ M[q].visibleOnlyTo = {} /\ M[q].sender = u
        /\ q \in C <=> There(q) /\ M[q].sender # u /\ u \in M[q].visibleOnlyTo
        /\ q \in D <=> There(q) /\ M[q].visibleOnlyTo = {} /\ M[q].allMention
        /\ q \in E <=> There(q) /\ M[q].visibleOnlyTo = {} /\ M[q].allMention /\ M[q].sender = u
        /\ q \in F <=> /\ There(q) /\ M[q].sender # u /\ u \in M[q].mentions
                       /\ IF M[q].visibleOnlyTo = {} THEN ~M[q].allMention
                          ELSE u \in M[q].visibleOnlyTo
  <2> TAKE q \in Seqs
  <2>1. CASE ~There(q)
    <3> HIDE DEF There, past
    <3> QED BY <1>3, <1>5, <2>1
  <2>2. CASE There(q)
    <3>1. M[q] \in Message /\ Normalized(M[q]) \in Ref
      BY <1>2, <2>2
    <3> DEFINE r == Normalized(M[q])
    <3>2. /\ q \in A <=> <<"total">> \in FiledUnder(r)
          /\ q \in B <=> <<"userTotal", u>> \in FiledUnder(r)
          /\ q \in C <=> <<"personalTotal", u>> \in FiledUnder(r)
          /\ q \in D <=> <<"allMention">> \in FiledUnder(r)
          /\ q \in E <=> <<"userAllMention", u>> \in FiledUnder(r)
          /\ q \in F <=> <<"mention", u>> \in FiledUnder(r)
      <4> HIDE DEF There, past, r
      <4> QED BY <1>3, <1>5, <2>2 DEF r
    <3>3. /\ r.sender = M[q].sender /\ r.visibleOnlyTo = M[q].visibleOnlyTo
          /\ r.allMention = (M[q].allMention /\ M[q].visibleOnlyTo = {})
          /\ r.mentions = IF M[q].visibleOnlyTo # {}
                          THEN (M[q].mentions \cap M[q].visibleOnlyTo) \ {M[q].sender}
                          ELSE IF M[q].allMention THEN {} ELSE M[q].mentions \ {M[q].sender}
      BY DEF Normalized
    <3> HIDE DEF There, past, r
    <3>4. /\ q \in A <=> r.visibleOnlyTo = {}
          /\ q \in B <=> r.visibleOnlyTo = {} /\ r.sender = u
          /\ q \in C <=> u \in r.visibleOnlyTo \ {r.sender}
          /\ q \in D <=> r.allMention
          /\ q \in E <=> r.allMention /\ r.sender = u
          /\ q \in F <=> u \in r.mentions
      <4>1. r \in Ref
        BY <3>1 DEF r
      <4> QED BY <3>2, <4>1, FiledUnderMeans
    <3> QED BY <2>2, <3>1, <3>3, <3>4 DEF Message
  <2> QED BY <2>1, <2>2
<1> HIDE DEF past
<1>7. /\ A \in SUBSET Seqs /\ C \in SUBSET Seqs /\ D \in SUBSET Seqs /\ F \in SUBSET Seqs
      /\ B \in SUBSET A /\ E \in SUBSET D
  BY <1>4, <1>5, <1>6
<1>8. \A q : q \in UnreadBy(u, c, after) <=>
        There(q) /\ M[q].sender # u /\ (M[q].visibleOnlyTo = {} \/ u \in M[q].visibleOnlyTo)
  BY DEF UnreadBy, Visible
<1>9. Cardinality(UnreadBy(u, c, after)) = Cardinality(A) - Cardinality(B) + Cardinality(C)
  <2>1. UnreadBy(u, c, after) \in SUBSET Seqs
    BY <1>1, <1>8
  <2>2. UnreadBy(u, c, after) = (A \ B) \cup C /\ A \cap C = {}
    BY <1>6, <1>7, <1>8, <2>1
  <2>3. A \in SUBSET Seqs /\ B \in SUBSET A /\ C \in SUBSET Seqs
    BY <1>7
  <2> DEFINE U == UnreadBy(u, c, after)
  <2>4. U \in SUBSET Seqs /\ U = (A \ B) \cup C /\ A \cap C = {}
    BY <2>1, <2>2
  <2> HIDE DEF A, B, C, U
  <2>5. Cardinality(U) = Cardinality(A) - Cardinality(B) + Cardinality(C)
    BY <2>3, <2>4, AddUp
  <2> QED BY <2>5 DEF U
<1>10. Cardinality(MentioningUnread(u, c, after)) = Cardinality(D) - Cardinality(E) + Cardinality(F)
  <2>1. MentioningUnread(u, c, after) \in SUBSET Seqs
    BY <1>1, <1>8 DEF MentioningUnread
  <2>2. MentioningUnread(u, c, after) = (D \ E) \cup F /\ D \cap F = {}
    <3>1. \A q : q \in MentioningUnread(u, c, after) <=>
            /\ q \in UnreadBy(u, c, after)
            /\ (M[q].allMention /\ M[q].visibleOnlyTo = {}) \/ u \in M[q].mentions
      BY DEF MentioningUnread, Mentions
    <3> QED BY <1>6, <1>7, <1>8, <2>1, <3>1
  <2>3. D \in SUBSET Seqs /\ E \in SUBSET D /\ F \in SUBSET Seqs
    BY <1>7
  <2> DEFINE U == MentioningUnread(u, c, after)
  <2>4. U \in SUBSET Seqs /\ U = (D \ E) \cup F /\ D \cap F = {}
    BY <2>1, <2>2
  <2> HIDE DEF D, E, F, U
  <2>5. Cardinality(U) = Cardinality(D) - Cardinality(E) + Cardinality(F)
    BY <2>3, <2>4, AddUp
  <2> QED BY <2>5 DEF U
<1> QED BY <1>9, <1>10 DEF count, Truth, past

LEMMA CountType ==
  ASSUME NEW ix \in Index, NEW u \in Users, NEW pos \in Nat
  PROVE  LET n == count(ix, u, pos)
         IN  /\ n.unread \in Int /\ n.unreadMentions \in Int
             /\ n = [unread |-> n.unread, unreadMentions |-> n.unreadMentions]
<1> DEFINE past(k) == Cardinality({q \in ix.counting[k] : q > pos})
<1>1. \A k \in Collections : past(k) \in Nat
  <2> TAKE k \in Collections
  <2> DEFINE S == {q \in ix.counting[k] : q > pos}
  <2>1. S \in SUBSET Seqs /\ S \in SUBSET S
    BY DEF Index
  <2> HIDE DEF S
  <2> QED BY <2>1, Subtract DEF S
<1>2. /\ <<"total">> \in Collections /\ <<"allMention">> \in Collections
      /\ <<"mention", u>> \in Collections /\ <<"userTotal", u>> \in Collections
      /\ <<"userAllMention", u>> \in Collections /\ <<"personalTotal", u>> \in Collections
  BY DEF Collections
<1>3. count(ix, u, pos) =
        [unread |-> past(<<"total">>) - past(<<"userTotal", u>>) + past(<<"personalTotal", u>>),
         unreadMentions |-> past(<<"allMention">>) - past(<<"userAllMention", u>>)
                              + past(<<"mention", u>>)]
  BY DEF count
<1>4. /\ past(<<"total">>) \in Nat /\ past(<<"userTotal", u>>) \in Nat
      /\ past(<<"personalTotal", u>>) \in Nat /\ past(<<"allMention">>) \in Nat
      /\ past(<<"userAllMention", u>>) \in Nat /\ past(<<"mention", u>>) \in Nat
  <2> HIDE DEF past
  <2> QED BY <1>1, <1>2
<1> DEFINE n == count(ix, u, pos)
<1> HIDE DEF past
<1>5. /\ n.unread = past(<<"total">>) - past(<<"userTotal", u>>) + past(<<"personalTotal", u>>)
      /\ n.unreadMentions = past(<<"allMention">>) - past(<<"userAllMention", u>>)
                              + past(<<"mention", u>>)
      /\ n = [unread |-> n.unread, unreadMentions |-> n.unreadMentions]
  BY <1>3
<1> HIDE DEF n
<1>6. n.unread \in Int /\ n.unreadMentions \in Int
  BY <1>4, <1>5
<1> QED BY <1>5, <1>6 DEF n

-----------------------------------------------------------------------------
(* Sums over a finite set.  FiniteSetsExt sums by recursion on the set; the *)
(* facts below follow from the well-foundedness of its subsets: a set of    *)
(* counterexamples would have a smallest member.                            *)

SumOf(f, U) == MapThenSumSet(LAMBDA x : f[x], U)

Pick(s) == CHOOSE x \in s : TRUE

\* g solves the recursion for the sums of f over the subsets of U.
Solves(g, f, U) ==
  g = [s \in SUBSET U |-> IF s = {} THEN 0 ELSE f[Pick(s)] + g[s \ {Pick(s)}]]

LEMMA SumChosen == ASSUME NEW f, NEW U PROVE SumOf(f, U) = (CHOOSE g : Solves(g, f, U))[U]
BY DEF SumOf, MapThenSumSet, MapThenFoldSet, Solves, Pick

LEMMA PickIn == ASSUME NEW s, s # {} PROVE Pick(s) \in s
BY DEF Pick

\* A set of subsets of a finite set has a smallest member.
LEMMA Smallest ==
  ASSUME NEW U, IsFiniteSet(U), NEW T \in SUBSET SUBSET U, T # {}
  PROVE  \E s \in T : \A r \in SUBSET s : r # s => r \notin T
<1>1. IsWellFoundedOn(StrictSubsetOrdering(U), SUBSET U)
  BY FS_StrictSubsetOrderingWellFounded, FS_FiniteSubsetsOfFinite
<1>2. PICK s \in T : \A r \in T : <<r, s>> \notin StrictSubsetOrdering(U)
  BY <1>1, WFMin
<1> QED BY <1>2 DEF StrictSubsetOrdering

LEMMA SolutionsAgree ==
  ASSUME NEW U, IsFiniteSet(U), NEW f, NEW V \in SUBSET U, NEW W \in SUBSET U,
         NEW g, Solves(g, f, V), NEW h, Solves(h, f, W)
  PROVE  \A s \in SUBSET (V \cap W) : g[s] = h[s]
<1> DEFINE T == {s \in SUBSET (V \cap W) : g[s] # h[s]}
<1>1. SUFFICES ASSUME T # {} PROVE FALSE
  OBVIOUS
<1>2. PICK s \in T : \A r \in SUBSET s : r # s => r \notin T
  <2>1. T \in SUBSET SUBSET U
    OBVIOUS
  <2> HIDE DEF T
  <2> QED BY <1>1, <2>1, Smallest
<1>3. /\ g[s] = IF s = {} THEN 0 ELSE f[Pick(s)] + g[s \ {Pick(s)}]
      /\ h[s] = IF s = {} THEN 0 ELSE f[Pick(s)] + h[s \ {Pick(s)}]
  BY DEF Solves
<1>4. s # {}
  BY <1>3
<1>5. g[s \ {Pick(s)}] = h[s \ {Pick(s)}]
  BY <1>2, <1>4, PickIn
<1> QED BY <1>3, <1>4, <1>5

LEMMA SolutionExists ==
  ASSUME NEW U, IsFiniteSet(U), NEW f
  PROVE  \A V \in SUBSET U : \E g : Solves(g, f, V)
<1> DEFINE T == {V \in SUBSET U : ~ \E g : Solves(g, f, V)}
<1>1. SUFFICES ASSUME T # {} PROVE FALSE
  OBVIOUS
<1>2. PICK V \in T : \A r \in SUBSET V : r # V => r \notin T
  <2>1. T \in SUBSET SUBSET U
    OBVIOUS
  <2> HIDE DEF T
  <2> QED BY <1>1, <2>1, Smallest
<1> DEFINE of(r) == CHOOSE g : Solves(g, f, r)
           G == [s \in SUBSET V |->
                   IF s = {} THEN 0 ELSE f[Pick(s)] + of(s \ {Pick(s)})[s \ {Pick(s)}]]
<1>3. \A r \in SUBSET V : r # V => Solves(of(r), f, r)
  BY <1>2
<1> HIDE DEF of
<1>4. \A r \in SUBSET V : r # V => G[r] = of(r)[r]
  <2> SUFFICES ASSUME NEW r \in SUBSET V, r # V PROVE G[r] = of(r)[r]
    OBVIOUS
  <2> DEFINE q == r \ {Pick(r)}
  <2>1. of(r)[r] = IF r = {} THEN 0 ELSE f[Pick(r)] + of(r)[q]
    BY <1>3 DEF Solves
  <2>2. Solves(of(r), f, r) /\ Solves(of(q), f, q)
    BY <1>3
  <2>3. of(r)[q] = of(q)[q]
    BY <2>2, SolutionsAgree
  <2> QED BY <2>1, <2>3
<1>5. \A s \in SUBSET V : s # {} => G[s \ {Pick(s)}] = of(s \ {Pick(s)})[s \ {Pick(s)}]
  BY <1>4, PickIn
<1>6. Solves(G, f, V)
  <2> DEFINE H == [s \in SUBSET V |-> IF s = {} THEN 0 ELSE f[Pick(s)] + G[s \ {Pick(s)}]]
  <2>1. \A s \in SUBSET V : G[s] = H[s]
    BY <1>5
  <2>2. G = H
    BY <2>1
  <2> QED BY <2>2 DEF Solves
<1> QED BY <1>6

\* The sum, one summand at a time: first the one the recursion picks.
LEMMA SumPicks ==
  ASSUME NEW U, IsFiniteSet(U), NEW f
  PROVE  SumOf(f, U) = IF U = {} THEN 0 ELSE f[Pick(U)] + SumOf(f, U \ {Pick(U)})
<1> DEFINE g == CHOOSE h : Solves(h, f, U)
           r == U \ {Pick(U)}
           k == CHOOSE h : Solves(h, f, r)
<1>1. Solves(g, f, U) /\ Solves(k, f, r)
  BY SolutionExists
<1>2. SumOf(f, U) = g[U] /\ SumOf(f, r) = k[r]
  BY SumChosen
<1> HIDE DEF g, k
<1>3. g[r] = k[r]
  BY <1>1, SolutionsAgree
<1>4. g[U] = IF U = {} THEN 0 ELSE f[Pick(U)] + g[r]
  BY <1>1 DEF Solves
<1> QED BY <1>2, <1>3, <1>4

LEMMA SumInt ==
  ASSUME NEW U, IsFiniteSet(U), NEW f, \A x \in U : f[x] \in Int
  PROVE  SumOf(f, U) \in Int
<1> DEFINE T == {s \in SUBSET U : SumOf(f, s) \notin Int}
<1>1. SUFFICES ASSUME T # {} PROVE FALSE
  OBVIOUS
<1>2. PICK s \in T : \A r \in SUBSET s : r # s => r \notin T
  <2>1. T \in SUBSET SUBSET U
    OBVIOUS
  <2> HIDE DEF T
  <2> QED BY <1>1, <2>1, Smallest
<1>3. SumOf(f, s) = IF s = {} THEN 0 ELSE f[Pick(s)] + SumOf(f, s \ {Pick(s)})
  BY FS_Subset, SumPicks
<1>4. s # {}
  BY <1>3
<1>5. SumOf(f, s \ {Pick(s)}) \in Int /\ Pick(s) \in U
  BY <1>2, <1>4, PickIn
<1> QED BY <1>3, <1>4, <1>5

\* Any summand can be taken out.
LEMMA SumWithout ==
  ASSUME NEW U, IsFiniteSet(U), NEW f, \A x \in U : f[x] \in Int, NEW x \in U
  PROVE  SumOf(f, U) = f[x] + SumOf(f, U \ {x})
<1> DEFINE T == {s \in SUBSET U : \E y \in s : SumOf(f, s) # f[y] + SumOf(f, s \ {y})}
<1>1. SUFFICES ASSUME T # {} PROVE FALSE
  OBVIOUS
<1>2. PICK s \in T : \A r \in SUBSET s : r # s => r \notin T
  <2>1. T \in SUBSET SUBSET U
    OBVIOUS
  <2> HIDE DEF T
  <2> QED BY <1>1, <2>1, Smallest
<1>3. PICK y \in s : SumOf(f, s) # f[y] + SumOf(f, s \ {y})
  OBVIOUS
<1> DEFINE p == Pick(s)
           r == (s \ {p}) \ {y}
<1>4. p \in s /\ SumOf(f, s) = f[p] + SumOf(f, s \ {p})
  BY FS_Subset, SumPicks, PickIn
<1>5. p # y
  BY <1>3, <1>4
<1>6. SumOf(f, s \ {p}) = f[y] + SumOf(f, r)
  BY <1>2, <1>4, <1>5
<1>7. SumOf(f, s \ {y}) = f[p] + SumOf(f, r)
  <2>1. s \ {y} \notin T /\ p \in s \ {y} /\ (s \ {y}) \ {p} = r
    BY <1>2, <1>4, <1>5
  <2> QED BY <2>1
<1>8. f[p] \in Int /\ f[y] \in Int /\ SumOf(f, r) \in Int
  BY <1>4, FS_Subset, SumInt
<1> HIDE DEF p, r
<1> QED BY <1>3, <1>4, <1>6, <1>7, <1>8

\* The sum depends on the summands alone.
LEMMA SumSame ==
  ASSUME NEW U, IsFiniteSet(U), NEW f, NEW h, \A x \in U : f[x] = h[x]
  PROVE  SumOf(f, U) = SumOf(h, U)
<1> DEFINE T == {s \in SUBSET U : SumOf(f, s) # SumOf(h, s)}
<1>1. SUFFICES ASSUME T # {} PROVE FALSE
  OBVIOUS
<1>2. PICK s \in T : \A r \in SUBSET s : r # s => r \notin T
  <2>1. T \in SUBSET SUBSET U
    OBVIOUS
  <2> HIDE DEF T
  <2> QED BY <1>1, <2>1, Smallest
<1>3. /\ SumOf(f, s) = IF s = {} THEN 0 ELSE f[Pick(s)] + SumOf(f, s \ {Pick(s)})
      /\ SumOf(h, s) = IF s = {} THEN 0 ELSE h[Pick(s)] + SumOf(h, s \ {Pick(s)})
  BY FS_Subset, SumPicks
<1>4. s # {}
  BY <1>3
<1>5. SumOf(f, s \ {Pick(s)}) = SumOf(h, s \ {Pick(s)}) /\ Pick(s) \in U
  BY <1>2, <1>4, PickIn
<1> QED BY <1>3, <1>4, <1>5

\* A summand that changes moves the sum by as much.
LEMMA SumMoves ==
  ASSUME NEW U, IsFiniteSet(U), NEW x \in U, NEW f, NEW h,
         \A y \in U : f[y] \in Int /\ h[y] \in Int,
         \A y \in U \ {x} : h[y] = f[y]
  PROVE  SumOf(h, U) = SumOf(f, U) - f[x] + h[x]
<1>1. /\ SumOf(f, U) = f[x] + SumOf(f, U \ {x})
      /\ SumOf(h, U) = h[x] + SumOf(h, U \ {x})
  BY SumWithout
<1>2. IsFiniteSet(U \ {x})
  BY FS_Subset
<1>3. SumOf(f, U \ {x}) \in Int /\ SumOf(f, U \ {x}) = SumOf(h, U \ {x})
  BY <1>2, SumInt, SumSame
<1>4. f[x] \in Int /\ h[x] \in Int
  OBVIOUS
<1> QED BY <1>1, <1>3, <1>4

LEMMA SumZero ==
  ASSUME NEW U, IsFiniteSet(U), NEW f, \A x \in U : f[x] = 0
  PROVE  SumOf(f, U) = 0
<1> DEFINE T == {s \in SUBSET U : SumOf(f, s) # 0}
<1>1. SUFFICES ASSUME T # {} PROVE FALSE
  OBVIOUS
<1>2. PICK s \in T : \A r \in SUBSET s : r # s => r \notin T
  <2>1. T \in SUBSET SUBSET U
    OBVIOUS
  <2> HIDE DEF T
  <2> QED BY <1>1, <2>1, Smallest
<1>3. SumOf(f, s) = IF s = {} THEN 0 ELSE f[Pick(s)] + SumOf(f, s \ {Pick(s)})
  BY FS_Subset, SumPicks
<1>4. s # {}
  BY <1>3
<1>5. SumOf(f, s \ {Pick(s)}) = 0 /\ Pick(s) \in U
  BY <1>2, <1>4, PickIn
<1> QED BY <1>3, <1>4, <1>5

\* Summands that are zero can be left out.
LEMMA SumWithin ==
  ASSUME NEW U, IsFiniteSet(U), NEW W \in SUBSET U, NEW f, \A x \in U : f[x] \in Int,
         \A x \in U \ W : f[x] = 0
  PROVE  SumOf(f, U) = SumOf(f, W)
<1> DEFINE T == {s \in SUBSET U : SumOf(f, s) # SumOf(f, s \cap W)}
<1>1. SUFFICES ASSUME T # {} PROVE FALSE
  <2>1. U \notin T /\ U \cap W = W
    BY <1>1
  <2> QED BY <2>1
<1>2. PICK s \in T : \A r \in SUBSET s : r # s => r \notin T
  <2>1. T \in SUBSET SUBSET U
    OBVIOUS
  <2> HIDE DEF T
  <2> QED BY <1>1, <2>1, Smallest
<1> DEFINE p == Pick(s)
           r == s \ {p}
<1>3. SumOf(f, s) = IF s = {} THEN 0 ELSE f[p] + SumOf(f, r)
  BY FS_Subset, SumPicks
<1>4. s # {}
  <2>1. CASE s = {}
    <3>1. s \cap W = s
      BY <2>1
    <3> QED BY <3>1
  <2> QED BY <2>1
<1>5. SumOf(f, r) = SumOf(f, r \cap W) /\ p \in s /\ p \in U /\ s \in SUBSET U
  BY <1>2, <1>4, PickIn
<1>6. CASE p \in W
  <2>1. p \in s \cap W /\ (s \cap W) \ {p} = r \cap W
    BY <1>5, <1>6
  <2>2. IsFiniteSet(s \cap W) /\ \A x \in s \cap W : f[x] \in Int
    BY <1>5, FS_Subset
  <2> HIDE DEF p, r, T
  <2>3. SumOf(f, s \cap W) = f[p] + SumOf(f, (s \cap W) \ {p})
    BY <2>1, <2>2, SumWithout
  <2>4. SumOf(f, s) = SumOf(f, s \cap W)
    BY <1>3, <1>4, <1>5, <2>1, <2>3
  <2> QED BY <2>4 DEF T
<1>7. CASE p \notin W
  <2>1. s \cap W = r \cap W /\ f[p] = 0
    BY <1>5, <1>7
  <2>2. SumOf(f, r) \in Int
    BY <1>5, FS_Subset, SumInt
  <2> HIDE DEF p, r, T
  <2>3. SumOf(f, s) = SumOf(f, s \cap W)
    BY <1>3, <1>4, <1>5, <2>1, <2>2
  <2> QED BY <2>3 DEF T
<1> QED BY <1>6, <1>7

\* Two sums over one set add up summand by summand.
LEMMA SumAdds ==
  ASSUME NEW U, IsFiniteSet(U), NEW f, NEW g, NEW h,
         \A x \in U : f[x] \in Int /\ g[x] \in Int /\ h[x] = f[x] + g[x]
  PROVE  SumOf(h, U) = SumOf(f, U) + SumOf(g, U)
<1> DEFINE T == {s \in SUBSET U : SumOf(h, s) # SumOf(f, s) + SumOf(g, s)}
<1>1. SUFFICES ASSUME T # {} PROVE FALSE
  OBVIOUS
<1>2. PICK s \in T : \A r \in SUBSET s : r # s => r \notin T
  <2>1. T \in SUBSET SUBSET U
    OBVIOUS
  <2> HIDE DEF T
  <2> QED BY <1>1, <2>1, Smallest
<1> DEFINE p == Pick(s)
           r == s \ {p}
<1>3. /\ SumOf(f, s) = IF s = {} THEN 0 ELSE f[p] + SumOf(f, r)
      /\ SumOf(g, s) = IF s = {} THEN 0 ELSE g[p] + SumOf(g, r)
      /\ SumOf(h, s) = IF s = {} THEN 0 ELSE h[p] + SumOf(h, r)
  BY FS_Subset, SumPicks
<1>4. s # {}
  BY <1>3
<1>5. p \in U /\ SumOf(h, r) = SumOf(f, r) + SumOf(g, r)
  BY <1>2, <1>4, PickIn
<1>6. SumOf(f, r) \in Int /\ SumOf(g, r) \in Int
  BY FS_Subset, SumInt
<1>7. SumOf(h, s) = SumOf(f, s) + SumOf(g, s)
  <2>1. f[p] \in Int /\ g[p] \in Int /\ h[p] = f[p] + g[p]
    BY <1>5
  <2> HIDE DEF p, r, T
  <2> QED BY <1>3, <1>4, <1>5, <1>6, <2>1
<1> QED BY <1>7

\* The summands may be named by others, one to one.
LEMMA SumRenamed ==
  ASSUME NEW U, IsFiniteSet(U), NEW r, \A x, y \in U : r[x] = r[y] => x = y,
         NEW f, NEW g, \A x \in U : g[x] = f[r[x]] /\ g[x] \in Int
  PROVE  SumOf(g, U) = SumOf(f, {r[x] : x \in U})
<1> DEFINE Image(s) == {r[x] : x \in s}
           T == {s \in SUBSET U : SumOf(g, s) # SumOf(f, Image(s))}
<1>1. SUFFICES ASSUME T # {} PROVE FALSE
  OBVIOUS
<1>2. PICK s \in T : \A q \in SUBSET s : q # s => q \notin T
  <2>1. T \in SUBSET SUBSET U
    OBVIOUS
  <2> HIDE DEF T
  <2> QED BY <1>1, <2>1, Smallest
<1> DEFINE p == Pick(s)
<1>3. s \in SUBSET U /\ IsFiniteSet(s)
  BY FS_Subset
<1>4. IsFiniteSet(Image(s))
  <2> DEFINE to == [x \in s |-> r[x]]
  <2>1. to \in Surjection(s, Image(s))
    BY DEF Surjection
  <2> HIDE DEF to
  <2> QED BY <1>3, <2>1, FS_Surjection
<1>5. s # {}
  <2>1. CASE s = {}
    <3>1. Image(s) = {} /\ SumOf(g, s) = 0
      BY <1>3, <2>1, SumPicks
    <3>2. SumOf(f, Image(s)) = 0
      BY <1>4, <3>1, SumPicks
    <3> QED BY <3>1, <3>2
  <2> QED BY <2>1
<1>6. p \in s /\ p \in U /\ SumOf(g, s) = g[p] + SumOf(g, s \ {p})
  BY <1>3, <1>5, PickIn, SumPicks
<1>7. SumOf(g, s \ {p}) = SumOf(f, Image(s \ {p}))
  BY <1>2, <1>6
<1>8. r[p] \in Image(s) /\ Image(s) \ {r[p]} = Image(s \ {p})
  BY <1>3, <1>6
<1>9. \A y \in Image(s) : f[y] \in Int
  BY <1>3
<1>10. SumOf(f, Image(s)) = f[r[p]] + SumOf(f, Image(s \ {p}))
  <2> DEFINE V == Image(s)
             y == r[p]
  <2>1. IsFiniteSet(V) /\ y \in V /\ \A z \in V : f[z] \in Int
    BY <1>4, <1>8, <1>9
  <2> HIDE DEF V, y
  <2>2. SumOf(f, V) = f[y] + SumOf(f, V \ {y})
    BY <2>1, SumWithout
  <2> QED BY <1>8, <2>2 DEF V, y
<1>11. SumOf(g, s) = SumOf(f, Image(s))
  BY <1>6, <1>7, <1>10
<1> QED BY <1>11

-----------------------------------------------------------------------------
(* Subscribing and unsubscribing.  Each of their branches gives one user    *)
(* another state for one chat and updates the two lists.                    *)

\* What an operation about u and c does to the users' states of others.
OthersKept(s, t, u, c) ==
  /\ t.index = s.index
  /\ \A v \in Users, d \in Chats : v # u \/ d # c => t.users[v][d] = s.users[v][d]

LEMMA SoundParts ==
  ASSUME NEW s, Sound(s)
  PROVE  /\ s.index \in [Chats -> Index]
         /\ s.users \in [Users -> [Chats -> UserState \cup {None}]]
         /\ s.direct \in [Chats -> SUBSET Users]
         /\ s.async \in [Users -> SUBSET AsyncRef]
         /\ s.totals \in [Users -> [Totals -> Int]]
BY DEF Sound, CountersType

\* t is s with another state for u and c, and other lists for them.
Changed(s, t, u, c, state, D, A) ==
  /\ t \in CountersType /\ t.index = s.index
  /\ t.users[u][c] = state
  /\ \A v \in Users, d \in Chats : v # u \/ d # c => t.users[v][d] = s.users[v][d]
  /\ t.direct[c] = D /\ \A d \in Chats \ {c} : t.direct[d] = s.direct[d]
  /\ t.async[u] = A /\ \A v \in Users \ {u} : t.async[v] = s.async[v]
  /\ \A v \in Users \ {u} : t.totals[v] = s.totals[v]

LEMMA ChangedSound ==
  ASSUME NEW s, Sound(s), NEW u \in Users, NEW c \in Chats, NEW state, NEW t, NEW D, NEW A,
         Changed(s, t, u, c, state, D, A),
         D \ {u} = s.direct[c] \ {u},
         u \in D <=> state # None /\ ~state.async,
         {a \in A : a.cid # c} = {a \in s.async[u] : a.cid # c},
         {a \in A : a.cid = c} =
           IF state # None /\ state.async
           THEN {[cid |-> c, muted |-> state.muted, seq |-> state.seq]} ELSE {},
         state # None /\ ~state.async =>
           Counted(s, u, c, state)
  PROVE  Sound(t) /\ OthersKept(s, t, u, c)
<1>1. s.async \in [Users -> SUBSET AsyncRef]
  BY SoundParts
<1>6. /\ t \in CountersType /\ t.index = s.index
      /\ t.users[u][c] = state
      /\ \A v \in Users, d \in Chats : v # u \/ d # c => t.users[v][d] = s.users[v][d]
      /\ t.direct[c] = D /\ \A d \in Chats \ {c} : t.direct[d] = s.direct[d]
      /\ t.async[u] = A /\ \A v \in Users \ {u} : t.async[v] = s.async[v]
  BY DEF Changed
<1>7. ASSUME NEW v \in Users, NEW d \in Chats
      PROVE  KeptTrue(t, v, d) /\ ListedOnce(t, v, d)
  <2>1. KeptTrue(s, v, d) /\ ListedOnce(s, v, d)
    BY DEF Sound
  <2>2. CASE v = u /\ d = c
    BY <1>6, <2>2 DEF KeptTrue, ListedOnce, Counted
  <2>3. CASE v # u \/ d # c
    <3>1. t.users[v][d] = s.users[v][d]
      BY <1>6, <2>3
    <3>2. v \in t.direct[d] <=> v \in s.direct[d]
      BY <1>6, <2>3
    <3>3. {a \in t.async[v] : a.cid = d} = {a \in s.async[v] : a.cid = d}
      <4>1. CASE v # u
        BY <1>6, <4>1
      <4>2. CASE v = u
        BY <1>1, <1>6, <2>3, <4>2
      <4> QED BY <4>1, <4>2
    <3> QED BY <1>6, <2>1, <3>1, <3>2, <3>3 DEF KeptTrue, ListedOnce, Counted
  <2> QED BY <2>2, <2>3
<1> QED BY <1>6, <1>7 DEF Sound, OthersKept

\* The two kinds of states.
LEMMA AsyncStateType ==
  ASSUME NEW pos \in Nat, NEW muted \in BOOLEAN
  PROVE  LET state == AsyncState(pos, muted)
         IN  /\ state \in UserState /\ state.async
             /\ state.seq = pos /\ state.muted = muted
BY DEF AsyncState, UserState

LEMMA StateType ==
  ASSUME NEW pos \in Nat, NEW muted \in BOOLEAN, NEW n \in [unread : Int, unreadMentions : Int]
  PROVE  LET state == State(pos, muted, n)
         IN  /\ state \in UserState /\ ~state.async
             /\ state.seq = pos /\ state.muted = muted
             /\ [unread |-> state.counter, unreadMentions |-> state.mentions] = n
BY DEF State, UserState

LEMMA NotNone == ASSUME NEW state \in UserState PROVE state # None
BY NoneAssumption

LEMMA MovedType ==
  ASSUME NEW total \in [Totals -> Int], NEW old \in UserState, NEW new \in UserState
  PROVE  Moved(total, old, new) \in [Totals -> Int]
<1>1. ASSUME NEW state \in UserState PROVE Share(state) \in [Totals -> Int]
  BY DEF Share, InKind, UserState
<1> QED BY <1>1 DEF Moved

\* What the state of a user in one chat stands for in his total k.
KeptShare(state, k) == IF state # None /\ ~state.async THEN Share(state)[k] ELSE 0

\* From s to t only states in chat c change, and each total by as much as its user's.
Accounted(s, t, c) ==
  /\ \A v \in Users, d \in Chats : d # c => t.users[v][d] = s.users[v][d]
  /\ \A v \in Users, k \in Totals :
       t.totals[v][k] = s.totals[v][k] - KeptShare(s.users[v][c], k)
                          + KeptShare(t.users[v][c], k)

LEMMA KeptShareType ==
  ASSUME NEW state \in UserState \cup {None}, NEW k \in Totals
  PROVE  KeptShare(state, k) \in Int
<1>1. CASE state = None
  BY <1>1 DEF KeptShare
<1>2. CASE state \in UserState
  BY <1>2 DEF KeptShare, Share, InKind, UserState
<1> QED BY <1>1, <1>2

LEMMA Ints ==
  ASSUME NEW s \in CountersType, NEW v \in Users, NEW c \in Chats, NEW k \in Totals
  PROVE  s.totals[v][k] \in Int /\ KeptShare(s.users[v][c], k) \in Int
<1>1. /\ s.users \in [Users -> [Chats -> UserState \cup {None}]]
      /\ s.totals \in [Users -> [Totals -> Int]]
  BY DEF CountersType
<1>2. s.users[v][c] \in UserState \cup {None} /\ s.totals[v][k] \in Int
  BY ONLY <1>1
<1> QED BY <1>2, KeptShareType

LEMMA MovedBy ==
  ASSUME NEW total, NEW old, NEW new, NEW k \in Totals
  PROVE  Moved(total, old, new)[k] = total[k] - Share(old)[k] + Share(new)[k]
BY DEF Moved

LEMMA NothingCounts == ASSUME NEW k \in Totals PROVE Share(Nothing)[k] = 0
<1>1. Nothing.counter = 0 /\ Nothing.mentions = 0
  BY DEF Nothing, AsyncState
<1> QED BY <1>1 DEF Share, InKind

LEMMA AccountedSame ==
  ASSUME NEW s \in CountersType, NEW c \in Chats
  PROVE  Accounted(s, s, c)
<1> SUFFICES ASSUME NEW v \in Users, NEW k \in Totals
             PROVE  s.totals[v][k] = s.totals[v][k] - KeptShare(s.users[v][c], k)
                                       + KeptShare(s.users[v][c], k)
  BY DEF Accounted
<1>1. s.totals[v][k] \in Int /\ KeptShare(s.users[v][c], k) \in Int
  BY Ints
<1> QED BY <1>1

LEMMA AccountedTwice ==
  ASSUME NEW r \in CountersType, NEW s \in CountersType, NEW t \in CountersType,
         NEW c \in Chats, Accounted(r, s, c), Accounted(s, t, c)
  PROVE  Accounted(r, t, c)
<1>1. ASSUME NEW v \in Users, NEW k \in Totals
      PROVE  t.totals[v][k] = r.totals[v][k] - KeptShare(r.users[v][c], k)
                                + KeptShare(t.users[v][c], k)
  <2>1. /\ r.totals[v][k] \in Int /\ KeptShare(r.users[v][c], k) \in Int
        /\ KeptShare(s.users[v][c], k) \in Int /\ KeptShare(t.users[v][c], k) \in Int
    BY Ints
  <2>2. /\ s.totals[v][k] = r.totals[v][k] - KeptShare(r.users[v][c], k)
                               + KeptShare(s.users[v][c], k)
        /\ t.totals[v][k] = s.totals[v][k] - KeptShare(s.users[v][c], k)
                               + KeptShare(t.users[v][c], k)
    BY DEF Accounted
  <2> QED BY <2>1, <2>2
<1>2. \A v \in Users, d \in Chats : d # c => t.users[v][d] = r.users[v][d]
  BY DEF Accounted
<1> QED BY <1>1, <1>2 DEF Accounted

\* Each total is the sum of what its user's states stand for.
TotalsExact(s) ==
  \A v \in Users, k \in Totals :
    s.totals[v][k] = SumOf([c \in Chats |-> KeptShare(s.users[v][c], k)], Chats)

LEMMA ExactKept ==
  ASSUME NEW s \in CountersType, NEW t \in CountersType, NEW c \in Chats,
         TotalsExact(s), Accounted(s, t, c)
  PROVE  TotalsExact(t)
<1> SUFFICES ASSUME NEW v \in Users, NEW k \in Totals
             PROVE  t.totals[v][k] = SumOf([d \in Chats |-> KeptShare(t.users[v][d], k)], Chats)
  BY DEF TotalsExact
<1> DEFINE f == [d \in Chats |-> KeptShare(s.users[v][d], k)]
           h == [d \in Chats |-> KeptShare(t.users[v][d], k)]
<1>1. \A d \in Chats : f[d] \in Int /\ h[d] \in Int
  BY Ints
<1>2. \A d \in Chats \ {c} : h[d] = f[d]
  BY DEF Accounted
<1>3. /\ s.totals[v][k] = SumOf(f, Chats)
      /\ t.totals[v][k] = s.totals[v][k] - f[c] + h[c]
  BY DEF TotalsExact, Accounted
<1> HIDE DEF f, h
<1>4. SumOf(h, Chats) = SumOf(f, Chats) - f[c] + h[c]
  BY <1>1, <1>2, ChatsAssumption, SumMoves
<1> QED BY <1>3, <1>4 DEF h

\* A step that changes the state and the totals of one user.
LEMMA AccountedOne ==
  ASSUME NEW s \in CountersType, NEW t \in CountersType, NEW u \in Users, NEW c \in Chats,
         OthersKept(s, t, u, c),
         \A v \in Users \ {u} : t.totals[v] = s.totals[v],
         \A k \in Totals : t.totals[u][k] = s.totals[u][k] - KeptShare(s.users[u][c], k)
                                               + KeptShare(t.users[u][c], k)
  PROVE  Accounted(s, t, c)
<1> SUFFICES ASSUME NEW v \in Users, NEW k \in Totals, v # u
             PROVE  t.totals[v][k] = s.totals[v][k] - KeptShare(s.users[v][c], k)
                                       + KeptShare(t.users[v][c], k)
  BY DEF Accounted, OthersKept
<1>1. t.users[v][c] = s.users[v][c] /\ t.totals[v] = s.totals[v]
  BY DEF OthersKept
<1>2. s.totals[v][k] \in Int /\ KeptShare(s.users[v][c], k) \in Int
  BY Ints
<1> QED BY <1>1, <1>2

\* The three ways subscribe and unsubscribe write the counters.
PutAsync(s, u, c, state, A) == [s EXCEPT !.users[u][c] = state, !.async[u] = A]
PutKept(s, u, c, state, total) == [s EXCEPT !.users[u][c] = state, !.totals[u] = total]
PutDirect(s, u, c, state, D, total) ==
  [s EXCEPT !.users[u][c] = state, !.direct[c] = D, !.totals[u] = total]

LEMMA PutAsyncChanges ==
  ASSUME NEW s \in CountersType, NEW u \in Users, NEW c \in Chats,
         NEW state \in UserState \cup {None}, NEW A \in SUBSET AsyncRef
  PROVE  LET t == PutAsync(s, u, c, state, A)
         IN  Changed(s, t, u, c, state, s.direct[c], A) /\ t.totals[u] = s.totals[u]
<1> DEFINE us == [s.users EXCEPT ![u][c] = state]
           as == [s.async EXCEPT ![u] = A]
           t == [s EXCEPT !.users = us, !.async = as]
<1>1. us \in [Users -> [Chats -> UserState \cup {None}]] /\ as \in [Users -> SUBSET AsyncRef]
  BY DEF CountersType
<1>2. /\ us[u][c] = state
      /\ \A v \in Users, d \in Chats : v # u \/ d # c => us[v][d] = s.users[v][d]
      /\ as[u] = A /\ \A v \in Users \ {u} : as[v] = s.async[v]
  BY DEF CountersType
<1>3. PutAsync(s, u, c, state, A) = t
  BY DEF PutAsync
<1> HIDE DEF us, as
<1>4. /\ t.index = s.index /\ t.users = us /\ t.direct = s.direct /\ t.async = as
      /\ t.totals = s.totals
  BY DEF CountersType
<1>5. t \in CountersType
  BY <1>1 DEF CountersType
<1> HIDE DEF t
<1> QED BY <1>2, <1>3, <1>4, <1>5 DEF Changed

LEMMA PutKeptChanges ==
  ASSUME NEW s \in CountersType, NEW u \in Users, NEW c \in Chats,
         NEW state \in UserState \cup {None}, NEW total \in [Totals -> Int]
  PROVE  LET t == PutKept(s, u, c, state, total)
         IN  Changed(s, t, u, c, state, s.direct[c], s.async[u]) /\ t.totals[u] = total
<1> DEFINE us == [s.users EXCEPT ![u][c] = state]
           to == [s.totals EXCEPT ![u] = total]
           t == [s EXCEPT !.users = us, !.totals = to]
<1>1. us \in [Users -> [Chats -> UserState \cup {None}]] /\ to \in [Users -> [Totals -> Int]]
  BY DEF CountersType
<1>2. /\ us[u][c] = state
      /\ \A v \in Users, d \in Chats : v # u \/ d # c => us[v][d] = s.users[v][d]
      /\ to[u] = total /\ \A v \in Users \ {u} : to[v] = s.totals[v]
  BY DEF CountersType
<1>3. PutKept(s, u, c, state, total) = t
  BY DEF PutKept
<1> HIDE DEF us, to
<1>4. /\ t.index = s.index /\ t.users = us /\ t.direct = s.direct /\ t.async = s.async
      /\ t.totals = to
  BY DEF CountersType
<1>5. t \in CountersType
  BY <1>1 DEF CountersType
<1> HIDE DEF t
<1> QED BY <1>2, <1>3, <1>4, <1>5 DEF Changed

LEMMA PutDirectChanges ==
  ASSUME NEW s \in CountersType, NEW u \in Users, NEW c \in Chats,
         NEW state \in UserState \cup {None}, NEW total \in [Totals -> Int],
         NEW D \in SUBSET Users
  PROVE  LET t == PutDirect(s, u, c, state, D, total)
         IN  Changed(s, t, u, c, state, D, s.async[u]) /\ t.totals[u] = total
<1> DEFINE us == [s.users EXCEPT ![u][c] = state]
           di == [s.direct EXCEPT ![c] = D]
           to == [s.totals EXCEPT ![u] = total]
           t == [s EXCEPT !.users = us, !.direct = di, !.totals = to]
<1>1. us \in [Users -> [Chats -> UserState \cup {None}]] /\ di \in [Chats -> SUBSET Users]
      /\ to \in [Users -> [Totals -> Int]]
  BY DEF CountersType
<1>2. /\ us[u][c] = state
      /\ \A v \in Users, d \in Chats : v # u \/ d # c => us[v][d] = s.users[v][d]
      /\ di[c] = D /\ \A d \in Chats \ {c} : di[d] = s.direct[d]
      /\ to[u] = total /\ \A v \in Users \ {u} : to[v] = s.totals[v]
  BY DEF CountersType
<1>3. PutDirect(s, u, c, state, D, total) = t
  BY DEF PutDirect
<1> HIDE DEF us, di, to
<1>4. /\ t.index = s.index /\ t.users = us /\ t.direct = di /\ t.async = s.async
      /\ t.totals = to
  BY DEF CountersType
<1>5. t \in CountersType
  BY <1>1 DEF CountersType
<1> HIDE DEF t
<1> QED BY <1>2, <1>3, <1>4, <1>5 DEF Changed

\* A subscriber whose count is not kept.
LEMMA AsAsync ==
  ASSUME NEW s, Sound(s), NEW u \in Users, NEW c \in Chats,
         NEW pos \in Nat, NEW muted \in BOOLEAN, u \notin s.direct[c],
         NEW t, t = PutAsync(s, u, c, AsyncState(pos, muted), withAsync(s, u, c, pos, muted))
  PROVE  /\ Sound(t) /\ OthersKept(s, t, u, c) /\ t.users[u][c] = AsyncState(pos, muted)
         /\ Accounted(s, t, c)
<1> DEFINE state == AsyncState(pos, muted)
           A == withAsync(s, u, c, pos, muted)
<1>1. /\ state \in UserState /\ state # None /\ state.async
      /\ state.seq = pos /\ state.muted = muted
  BY AsyncStateType, NotNone
<1>2. /\ A \in SUBSET AsyncRef
      /\ {a \in A : a.cid # c} = {a \in s.async[u] : a.cid # c}
      /\ {a \in A : a.cid = c} = {[cid |-> c, muted |-> muted, seq |-> pos]}
  BY SoundParts DEF withAsync, withoutAsync, AsyncRef
<1>3. s \in CountersType
  BY DEF Sound
<1> HIDE DEF state, A
<1>4. Changed(s, t, u, c, state, s.direct[c], A) /\ t.totals[u] = s.totals[u]
  BY <1>1, <1>2, <1>3, PutAsyncChanges DEF state, A
<1> DEFINE D == s.direct[c]
<1>5. /\ D \ {u} = s.direct[c] \ {u}
      /\ u \in D <=> state # None /\ ~state.async
      /\ Changed(s, t, u, c, state, D, A)
      /\ {a \in A : a.cid = c} =
           IF state # None /\ state.async
           THEN {[cid |-> c, muted |-> state.muted, seq |-> state.seq]} ELSE {}
      /\ state # None /\ ~state.async =>
           Counted(s, u, c, state)
  BY <1>1, <1>2, <1>4
<1> HIDE DEF D
<1>6. Sound(t) /\ OthersKept(s, t, u, c) /\ t.users[u][c] = state
  BY <1>2, <1>5, ChangedSound DEF Changed
<1>7. Accounted(s, t, c)
  <2>1. ~(s.users[u][c] # None /\ ~s.users[u][c].async)
    BY DEF Sound, ListedOnce
  <2>2. \A k \in Totals : /\ KeptShare(s.users[u][c], k) = 0 /\ KeptShare(t.users[u][c], k) = 0
                          /\ s.totals[u][k] \in Int
    BY <1>1, <1>3, <1>6, <2>1 DEF KeptShare, CountersType
  <2>3. t \in CountersType /\ \A v \in Users \ {u} : t.totals[v] = s.totals[v]
    BY <1>4 DEF Changed
  <2>4. \A k \in Totals : t.totals[u][k] = s.totals[u][k] - KeptShare(s.users[u][c], k)
                                              + KeptShare(t.users[u][c], k)
    BY <1>4, <2>2
  <2> QED BY <1>3, <1>6, <2>3, <2>4, AccountedOne
<1> QED BY <1>6, <1>7 DEF state, A

\* One whose count is kept.
LEMMA AsDirect ==
  ASSUME NEW s, Sound(s), NEW u \in Users, NEW c \in Chats,
         NEW state \in UserState, ~state.async,
         Counted(s, u, c, state),
         \A a \in s.async[u] : a.cid # c,
         NEW t, Changed(s, t, u, c, state, s.direct[c] \cup {u}, s.async[u]),
         \A k \in Totals : t.totals[u][k] =
           s.totals[u][k] - KeptShare(s.users[u][c], k) + Share(state)[k]
  PROVE  Sound(t) /\ OthersKept(s, t, u, c) /\ Accounted(s, t, c)
<1> DEFINE D == s.direct[c] \cup {u}
           A == s.async[u]
<1>1. D \ {u} = s.direct[c] \ {u} /\ u \in D
  OBVIOUS
<1>2. /\ {a \in A : a.cid # c} = {a \in s.async[u] : a.cid # c} /\ {a \in A : a.cid = c} = {}
      /\ Changed(s, t, u, c, state, D, A)
  OBVIOUS
<1>3. state # None
  BY NotNone
<1> HIDE DEF D, A
<1>4. Sound(t) /\ OthersKept(s, t, u, c)
  BY <1>1, <1>2, <1>3, ChangedSound
<1>5. Accounted(s, t, c)
  <2>1. \A k \in Totals : KeptShare(t.users[u][c], k) = Share(state)[k]
    BY <1>2, <1>3 DEF Changed, KeptShare
  <2>2. /\ s \in CountersType /\ t \in CountersType
        /\ \A v \in Users \ {u} : t.totals[v] = s.totals[v]
    BY <1>2 DEF Changed, Sound
  <2> QED BY <1>4, <2>1, <2>2, AccountedOne
<1> QED BY <1>4, <1>5

Subscribed(s, t, u, c, pos, muted) ==
  /\ Sound(t) /\ OthersKept(s, t, u, c)
  /\ t.users[u][c] # None /\ t.users[u][c].seq = pos /\ t.users[u][c].muted = muted
  /\ Accounted(s, t, c)

LEMMA SubscribeSound ==
  ASSUME NEW s, Sound(s), NEW u \in Users, NEW c \in Chats,
         NEW pos \in Nat, NEW muted \in BOOLEAN,
         NEW n \in [unread : Int, unreadMentions : Int],
         n = count(s.index[c], u, pos) \/ (s.users[u][c] # None /\ s.users[u][c].async)
  PROVE  Subscribed(s, subscribe(s, u, c, pos, muted, n), u, c, pos, muted)
<1> DEFINE old == s.users[u][c]
           asAsync == PutAsync(s, u, c, AsyncState(pos, muted), withAsync(s, u, c, pos, muted))
           t == subscribe(s, u, c, pos, muted, n)
<1>1. /\ u \in s.direct[c] <=> old # None /\ ~old.async
      /\ ~(old # None /\ old.async) => \A a \in s.async[u] : a.cid # c
      /\ old \in UserState \cup {None}
  BY SoundParts DEF Sound, ListedOnce
<1>2. ASSUME u \notin s.direct[c] PROVE Subscribed(s, asAsync, u, c, pos, muted)
  <2>1. /\ Sound(asAsync) /\ OthersKept(s, asAsync, u, c)
        /\ asAsync.users[u][c] = AsyncState(pos, muted) /\ Accounted(s, asAsync, c)
    BY <1>2, AsAsync
  <2>2. /\ AsyncState(pos, muted).seq = pos /\ AsyncState(pos, muted).muted = muted
        /\ AsyncState(pos, muted) # None
    BY AsyncStateType, NotNone
  <2> HIDE DEF asAsync
  <2> QED BY <2>1, <2>2 DEF Subscribed
<1>3. PICK kept \in UserState :
        /\ kept = State(pos, muted, n) /\ kept # None /\ ~kept.async
        /\ kept.seq = pos /\ kept.muted = muted
        /\ [unread |-> kept.counter, unreadMentions |-> kept.mentions] = n
  BY StateType, NotNone
<1>4. s \in CountersType /\ s.direct[c] \in SUBSET Users /\ s.totals[u] \in [Totals -> Int]
  BY SoundParts DEF Sound
<1>5. CASE old # None /\ old.async
  <2>1. t = asAsync
    BY <1>5 DEF subscribe, PutAsync
  <2>2. u \notin s.direct[c]
    BY <1>1, <1>5
  <2> QED BY <1>2, <2>1, <2>2
<1>6. CASE old # None /\ ~old.async
  <2> DEFINE total == Moved(s.totals[u], old, kept)
  <2>1. t = PutKept(s, u, c, kept, total)
    BY <1>3, <1>6 DEF subscribe, PutKept
  <2>2. /\ u \in s.direct[c] /\ n = count(s.index[c], u, pos) /\ old \in UserState
        /\ \A a \in s.async[u] : a.cid # c
    BY <1>1, <1>6
  <2>3. /\ total \in [Totals -> Int]
        /\ \A k \in Totals : total[k] = s.totals[u][k] - KeptShare(old, k) + Share(kept)[k]
    BY <1>3, <1>4, <1>6, <2>2, MovedType, MovedBy DEF KeptShare
  <2> HIDE DEF t, total
  <2>4. Changed(s, t, u, c, kept, s.direct[c], s.async[u]) /\ t.totals[u] = total
    BY <1>3, <1>4, <2>1, <2>3, PutKeptChanges
  <2>5. s.direct[c] \cup {u} = s.direct[c]
    BY <2>2
  <2>6. Counted(s, u, c, kept)
    BY <1>3, <2>2 DEF Counted
  <2>7. Changed(s, t, u, c, kept, s.direct[c] \cup {u}, s.async[u])
    BY <2>4, <2>5
  <2>8. Sound(t) /\ OthersKept(s, t, u, c) /\ Accounted(s, t, c)
    BY <1>3, <2>2, <2>3, <2>4, <2>6, <2>7, AsDirect
  <2>9. Subscribed(s, t, u, c, pos, muted)
    BY <1>3, <2>4, <2>8 DEF Subscribed, Changed
  <2> QED BY <2>9 DEF t
<1>7. CASE old = None /\ Cardinality(s.direct[c]) > DirectLimit
  <2>1. t = asAsync
    BY <1>7 DEF subscribe, PutAsync
  <2>2. u \notin s.direct[c]
    BY <1>1, <1>7
  <2> QED BY <1>2, <2>1, <2>2
<1>8. CASE old = None /\ ~(Cardinality(s.direct[c]) > DirectLimit)
  <2> DEFINE total == Moved(s.totals[u], Nothing, kept)
             D == s.direct[c] \cup {u}
  <2>1. t = PutDirect(s, u, c, kept, D, total)
    BY <1>3, <1>8 DEF subscribe, PutDirect
  <2>2. n = count(s.index[c], u, pos) /\ \A a \in s.async[u] : a.cid # c
    BY <1>1, <1>8
  <2>3. total \in [Totals -> Int]
    <3>1. Nothing \in UserState
      BY AsyncStateType DEF Nothing
    <3> QED BY <1>3, <1>4, <3>1, MovedType
  <2>4. D \in SUBSET Users
    BY <1>4
  <2>7. \A k \in Totals : total[k] = s.totals[u][k] - KeptShare(old, k) + Share(kept)[k]
    BY <1>8, MovedBy, NothingCounts DEF KeptShare
  <2> HIDE DEF t, total
  <2>5. Changed(s, t, u, c, kept, D, s.async[u]) /\ t.totals[u] = total
    BY <1>3, <1>4, <2>1, <2>3, <2>4, PutDirectChanges
  <2>6. Counted(s, u, c, kept)
    BY <1>3, <2>2 DEF Counted
  <2>8. Sound(t) /\ OthersKept(s, t, u, c) /\ Accounted(s, t, c)
    BY <1>3, <2>2, <2>5, <2>6, <2>7, AsDirect
  <2>9. Subscribed(s, t, u, c, pos, muted)
    BY <1>3, <2>5, <2>8 DEF Subscribed, Changed
  <2> QED BY <2>9 DEF t
<1> QED BY <1>5, <1>6, <1>7, <1>8

LEMMA UnsubscribeSound ==
  ASSUME NEW s, Sound(s), NEW u \in Users, NEW c \in Chats,
         NEW t, t = unsubscribe(s, u, c)
  PROVE  Sound(t) /\ OthersKept(s, t, u, c) /\ t.users[u][c] = None /\ Accounted(s, t, c)
<1> DEFINE old == s.users[u][c]
<1>1. /\ u \in s.direct[c] <=> old # None /\ ~old.async
      /\ ~(old # None /\ old.async) => \A a \in s.async[u] : a.cid # c
      /\ old \in UserState \cup {None}
  BY SoundParts DEF Sound, ListedOnce
<1>2. /\ s \in CountersType /\ s.direct[c] \in SUBSET Users /\ s.totals[u] \in [Totals -> Int]
      /\ s.async[u] \in SUBSET AsyncRef
  BY SoundParts DEF Sound
<1>3. ASSUME NEW D \in SUBSET Users, NEW A \in SUBSET AsyncRef, Changed(s, t, u, c, None, D, A),
             D = s.direct[c] \ {u}, A = {a \in s.async[u] : a.cid # c},
             \A k \in Totals : t.totals[u][k] = s.totals[u][k] - KeptShare(old, k)
      PROVE  Sound(t) /\ OthersKept(s, t, u, c) /\ t.users[u][c] = None /\ Accounted(s, t, c)
  <2>1. /\ D \ {u} = s.direct[c] \ {u} /\ u \notin D
        /\ {a \in A : a.cid # c} = {a \in s.async[u] : a.cid # c}
        /\ {a \in A : a.cid = c} = {}
    BY <1>3
  <2>2. Sound(t) /\ OthersKept(s, t, u, c)
    BY <1>3, <2>1, ChangedSound
  <2>3. /\ t \in CountersType /\ t.users[u][c] = None
        /\ \A v \in Users \ {u} : t.totals[v] = s.totals[v]
    BY <1>3 DEF Changed
  <2>4. \A k \in Totals : t.totals[u][k] = s.totals[u][k] - KeptShare(old, k)
                                              + KeptShare(t.users[u][c], k)
    <3> TAKE k \in Totals
    <3>1. /\ KeptShare(t.users[u][c], k) = 0
          /\ s.totals[u][k] \in Int /\ KeptShare(old, k) \in Int
      BY <1>1, <1>2, <2>3, KeptShareType DEF KeptShare
    <3> QED BY <1>3, <3>1
  <2> QED BY <1>2, <2>2, <2>3, <2>4, AccountedOne
<1>4. CASE old = None
  <2>1. t = s
    BY <1>4 DEF unsubscribe
  <2> QED BY <1>2, <1>4, <2>1, AccountedSame DEF OthersKept
<1>5. CASE old # None /\ old.async
  <2> DEFINE A == withoutAsync(s, u, c)
             D == s.direct[c]
  <2>1. t = PutAsync(s, u, c, None, A)
    BY <1>5 DEF unsubscribe, PutAsync
  <2>2. /\ A \in SUBSET AsyncRef /\ A = {a \in s.async[u] : a.cid # c}
        /\ D \in SUBSET Users /\ D = s.direct[c] \ {u}
    BY <1>1, <1>2, <1>5 DEF withoutAsync
  <2> HIDE DEF A
  <2>3. Changed(s, t, u, c, None, D, A) /\ t.totals[u] = s.totals[u]
    BY <1>2, <2>1, <2>2, PutAsyncChanges
  <2>4. \A k \in Totals : t.totals[u][k] = s.totals[u][k] - KeptShare(old, k)
    BY <1>2, <1>5, <2>3 DEF KeptShare
  <2> HIDE DEF D
  <2> QED BY <1>3, <2>2, <2>3, <2>4
<1>6. CASE old # None /\ ~old.async
  <2> DEFINE total == Moved(s.totals[u], old, Nothing)
             D == s.direct[c] \ {u}
             A == s.async[u]
  <2>1. t = PutDirect(s, u, c, None, D, total)
    BY <1>6 DEF unsubscribe, PutDirect
  <2>2. total \in [Totals -> Int]
    <3>1. Nothing \in UserState /\ old \in UserState
      BY <1>1, <1>6, AsyncStateType DEF Nothing
    <3> QED BY <1>2, <3>1, MovedType
  <2>3. /\ A \in SUBSET AsyncRef /\ A = {a \in s.async[u] : a.cid # c}
        /\ D \in SUBSET Users
    BY <1>1, <1>2, <1>6
  <2>6. \A k \in Totals : total[k] = s.totals[u][k] - KeptShare(old, k)
    <3> TAKE k \in Totals
    <3>1. /\ KeptShare(old, k) = Share(old)[k] /\ KeptShare(old, k) \in Int
          /\ s.totals[u][k] \in Int
      BY <1>1, <1>2, <1>6, KeptShareType DEF KeptShare
    <3>2. total[k] = s.totals[u][k] - Share(old)[k] + 0
      BY MovedBy, NothingCounts
    <3> QED BY <3>1, <3>2
  <2> HIDE DEF total
  <2>4. Changed(s, t, u, c, None, D, A) /\ t.totals[u] = total
    BY <1>2, <2>1, <2>2, <2>3, PutDirectChanges
  <2>5. D = s.direct[c] \ {u}
    OBVIOUS
  <2> HIDE DEF D, A
  <2> QED BY <1>3, <2>3, <2>4, <2>5, <2>6
<1> QED BY <1>4, <1>5, <1>6

LEMMA CountOfSound ==
  ASSUME NEW s, Sound(s), NEW u \in Users, NEW c \in Chats, NEW pos \in Nat
  PROVE  count(s.index[c], u, pos) \in [unread : Int, unreadMentions : Int]
<1>1. s.index[c] \in Index
  BY SoundParts
<1> DEFINE n == count(s.index[c], u, pos)
<1>2. /\ n.unread \in Int /\ n.unreadMentions \in Int
      /\ n = [unread |-> n.unread, unreadMentions |-> n.unreadMentions]
  BY <1>1, CountType
<1> HIDE DEF n
<1>3. n \in [unread : Int, unreadMentions : Int]
  BY <1>2
<1> QED BY <1>3 DEF n

LEMMA ReadMessagesSound ==
  ASSUME NEW s, Sound(s), NEW u \in Users, NEW c \in Chats, NEW pos \in Nat,
         NEW t, t = readMessages(s, u, c, pos)
  PROVE  IF s.users[u][c] = None THEN t = s
         ELSE Subscribed(s, t, u, c, pos, s.users[u][c].muted)
<1>1. CASE s.users[u][c] = None
  BY <1>1 DEF readMessages
<1>2. CASE s.users[u][c] # None
  <2>1. s.users[u][c] \in UserState
    BY <1>2, SoundParts
  <2> DEFINE muted == s.users[u][c].muted
             n == count(s.index[c], u, pos)
  <2>2. muted \in BOOLEAN
    BY <2>1 DEF UserState
  <2>3. n \in [unread : Int, unreadMentions : Int]
    BY CountOfSound
  <2>4. t = subscribe(s, u, c, pos, muted, n)
    BY <1>2 DEF readMessages
  <2>5. n = count(s.index[c], u, pos)
    OBVIOUS
  <2> HIDE DEF n, muted
  <2>6. Subscribed(s, t, u, c, pos, muted)
    BY <2>2, <2>3, <2>4, <2>5, SubscribeSound
  <2> QED BY <1>2, <2>6 DEF muted
<1> QED BY <1>1, <1>2

LEMMA UpdateMutedSound ==
  ASSUME NEW s, Sound(s), NEW u \in Users, NEW c \in Chats,
         NEW muted \in BOOLEAN, NEW t, t = updateMuted(s, u, c, muted)
  PROVE  IF s.users[u][c] = None THEN t = s
         ELSE Subscribed(s, t, u, c, s.users[u][c].seq, muted)
<1>1. CASE s.users[u][c] = None
  BY <1>1 DEF updateMuted
<1>2. CASE s.users[u][c] # None
  <2> DEFINE old == s.users[u][c]
             n == [unread |-> old.counter, unreadMentions |-> old.mentions]
  <2>1. old \in UserState
    BY <1>2, SoundParts
  <2>2. old.seq \in Nat /\ n \in [unread : Int, unreadMentions : Int] /\ old.async \in BOOLEAN
    BY <2>1 DEF UserState
  <2>3. n = count(s.index[c], u, old.seq) \/ (old # None /\ old.async)
    <3>1. KeptTrue(s, u, c)
      BY DEF Sound
    <3> QED BY <1>2, <2>2, <3>1 DEF KeptTrue, Counted
  <2>4. t = subscribe(s, u, c, old.seq, muted, n)
    BY <1>2 DEF updateMuted
  <2> HIDE DEF n
  <2>5. Subscribed(s, t, u, c, old.seq, muted)
    BY <2>2, <2>3, <2>4, SubscribeSound
  <2> QED BY <1>2, <2>5
<1> QED BY <1>1, <1>2

\* A message leaves everybody's subscriptions alone, but for what they count.
SameSubscription(old, new) ==
  /\ new = None <=> old = None
  /\ new # None => new.seq = old.seq /\ new.muted = old.muted /\ new.async = old.async

LEMMA MessageSound ==
  ASSUME NEW s, Sound(s), NEW c \in Chats, NEW q \in Seqs, NEW m \in Message,
         NEW ix \in Index,
         ix = IF m.deleted THEN removeMessage(s.index[c], q)
              ELSE addOrUpdateMessage(s.index[c], q, m),
         NEW t, t = onMessage(s, c, q, m)
  PROVE  /\ Sound(t)
         /\ t.index[c] = ix /\ \A d \in Chats \ {c} : t.index[d] = s.index[d]
         /\ \A v \in Users, d \in Chats : SameSubscription(s.users[v][d], t.users[v][d])
         /\ Accounted(s, t, c)
<1> DEFINE recounted == {v \in s.direct[c] : s.users[v][c] # None /\ ~s.users[v][c].async}
           new(v) == State(s.users[v][c].seq, s.users[v][c].muted,
                           count(ix, v, s.users[v][c].seq))
           us == [v \in Users |-> IF v \in recounted
                                  THEN [s.users[v] EXCEPT ![c] = new(v)] ELSE s.users[v]]
           to == [v \in Users |-> IF v \in recounted
                                  THEN Moved(s.totals[v], s.users[v][c], new(v)) ELSE s.totals[v]]
           is == [s.index EXCEPT ![c] = ix]
<1>1. t = [s EXCEPT !.index = is, !.users = us, !.totals = to]
  BY DEF onMessage
<1>2. s \in CountersType /\ recounted \subseteq Users
  BY SoundParts DEF Sound
<1>3. ASSUME NEW v \in recounted
      PROVE  /\ s.users[v][c] \in UserState /\ new(v) \in UserState /\ ~new(v).async
             /\ new(v).seq = s.users[v][c].seq /\ new(v).muted = s.users[v][c].muted
             /\ [unread |-> new(v).counter, unreadMentions |-> new(v).mentions]
                  = count(ix, v, new(v).seq)
  <2>1. s.users[v][c] \in UserState
    BY <1>2, <1>3, SoundParts
  <2> DEFINE pos == s.users[v][c].seq
             muted == s.users[v][c].muted
             n == count(ix, v, pos)
  <2>2. pos \in Nat /\ muted \in BOOLEAN
    BY <2>1 DEF UserState
  <2>3. n \in [unread : Int, unreadMentions : Int]
    <3>1. /\ n.unread \in Int /\ n.unreadMentions \in Int
          /\ n = [unread |-> n.unread, unreadMentions |-> n.unreadMentions]
      BY <1>2, <2>2, CountType
    <3> HIDE DEF n
    <3> QED BY <3>1
  <2> HIDE DEF pos, muted, n
  <2>4. /\ State(pos, muted, n) \in UserState /\ ~State(pos, muted, n).async
        /\ State(pos, muted, n).seq = pos /\ State(pos, muted, n).muted = muted
        /\ [unread |-> State(pos, muted, n).counter,
            unreadMentions |-> State(pos, muted, n).mentions] = n
    BY <2>2, <2>3, StateType
  <2> QED BY <2>1, <2>4 DEF pos, muted, n
<1> HIDE DEF new
<1>4. /\ is \in [Chats -> Index]
      /\ is[c] = ix /\ \A d \in Chats \ {c} : is[d] = s.index[d]
  BY SoundParts
<1>5. to \in [Users -> [Totals -> Int]]
  <2>1. ASSUME NEW v \in recounted
        PROVE  Moved(s.totals[v], s.users[v][c], new(v)) \in [Totals -> Int]
    <3>1. s.totals[v] \in [Totals -> Int]
      BY <1>2, SoundParts
    <3> QED BY <1>3, <3>1, MovedType
  <2> QED BY <2>1, SoundParts
<1>6. /\ us \in [Users -> [Chats -> UserState \cup {None}]]
      /\ \A v \in Users, d \in Chats :
           us[v][d] = IF v \in recounted /\ d = c THEN new(v) ELSE s.users[v][d]
  <2>1. \A v \in Users : s.users[v] \in [Chats -> UserState \cup {None}]
    BY SoundParts
  <2>2. \A v \in recounted : new(v) \in UserState
    BY <1>3
  <2> HIDE DEF recounted
  <2> QED BY <2>1, <2>2
<1>10. \A v \in Users : to[v] = IF v \in recounted THEN Moved(s.totals[v], s.users[v][c], new(v))
                                 ELSE s.totals[v]
  OBVIOUS
<1> HIDE DEF is, us, to
<1>7. /\ t.index = is /\ t.users = us /\ t.direct = s.direct /\ t.async = s.async
      /\ t.totals = to
  BY <1>1, <1>2 DEF CountersType
<1>8. t \in CountersType
  BY <1>1, <1>2, <1>4, <1>5, <1>6 DEF CountersType
<1>9. ASSUME NEW v \in Users, NEW d \in Chats
      PROVE  /\ SameSubscription(s.users[v][d], t.users[v][d])
             /\ KeptTrue(t, v, d) /\ ListedOnce(t, v, d)
  <2>1. KeptTrue(s, v, d) /\ ListedOnce(s, v, d)
    BY DEF Sound
  <2>2. CASE v \in recounted /\ d = c
    <3>1. t.users[v][d] = new(v)
      BY <1>6, <1>7, <2>2
    <3>2. s.users[v][d] # None /\ ~s.users[v][d].async
      BY <2>2
    <3>3. /\ new(v) \in UserState /\ ~new(v).async
          /\ new(v).seq = s.users[v][d].seq /\ new(v).muted = s.users[v][d].muted
          /\ [unread |-> new(v).counter, unreadMentions |-> new(v).mentions]
               = count(t.index[d], v, new(v).seq)
          /\ s.users[v][d] \in UserState
      BY <1>3, <1>4, <1>7, <2>2
    <3>4. new(v) # None
      BY <3>3, NotNone
    <3>5. KeptTrue(t, v, d)
      BY <3>1, <3>3 DEF KeptTrue, Counted
    <3>6. SameSubscription(s.users[v][d], t.users[v][d])
      BY <3>1, <3>2, <3>3, <3>4 DEF SameSubscription, UserState
    <3>7. ListedOnce(t, v, d)
      BY <1>7, <2>1, <3>1, <3>2, <3>3, <3>4 DEF ListedOnce
    <3> QED BY <3>5, <3>6, <3>7
  <2>3. CASE ~(v \in recounted /\ d = c)
    <3>1. t.users[v][d] = s.users[v][d]
      BY <1>6, <1>7, <2>3
    <3>2. KeptTrue(t, v, d)
      <4>1. CASE d = c
        <5>1. ~(s.users[v][d] # None /\ ~s.users[v][d].async)
          BY <2>1, <2>3, <4>1 DEF ListedOnce
        <5> QED BY <3>1, <5>1 DEF KeptTrue
      <4>2. CASE d # c
        <5>1. t.index[d] = s.index[d]
          BY <1>4, <1>7, <4>2
        <5> QED BY <2>1, <3>1, <5>1 DEF KeptTrue, Counted
      <4> QED BY <4>1, <4>2
    <3> QED BY <1>7, <2>1, <3>1, <3>2 DEF SameSubscription, ListedOnce
  <2> QED BY <2>2, <2>3
<1>11. Accounted(s, t, c)
  <2>1. \A v \in Users, d \in Chats : d # c => t.users[v][d] = s.users[v][d]
    BY <1>6, <1>7
  <2>2. ASSUME NEW v \in Users, NEW k \in Totals
        PROVE  t.totals[v][k] = s.totals[v][k] - KeptShare(s.users[v][c], k)
                                  + KeptShare(t.users[v][c], k)
    <3>1. CASE v \in recounted
      <4>1. t.totals[v][k] = s.totals[v][k] - Share(s.users[v][c])[k] + Share(new(v))[k]
        BY <1>7, <1>10, <3>1, MovedBy
      <4>2. /\ t.users[v][c] = new(v) /\ new(v) # None /\ ~new(v).async
            /\ s.users[v][c] # None /\ ~s.users[v][c].async
        BY <1>3, <1>6, <1>7, <3>1, NotNone
      <4> QED BY <4>1, <4>2 DEF KeptShare
    <3>2. CASE v \notin recounted
      <4>1. t.users[v][c] = s.users[v][c] /\ t.totals[v] = s.totals[v]
        BY <1>6, <1>7, <1>10, <3>2
      <4>2. s.totals[v][k] \in Int /\ KeptShare(s.users[v][c], k) \in Int
        BY <1>2, Ints
      <4> QED BY <4>1, <4>2
    <3> QED BY <3>1, <3>2
  <2> QED BY <2>1, <2>2 DEF Accounted
<1> QED BY <1>4, <1>7, <1>8, <1>9, <1>11 DEF Sound

-----------------------------------------------------------------------------
(* The inductive invariant.                                                *)

\* The index of every chat is the one of its messages.
Filing(M, ix) ==
  /\ M \in [Chats -> Seq(Message)]
  /\ \A c \in Chats : Len(M[c]) <= MaxMessages /\ Indexed(ix[c], M[c])

\* Who is in the chats J has a state in s, at the positions R, muted as in U.
Follows(s, J, R, U) ==
  \A u \in Users, c \in Chats :
    LET state == s.users[u][c]
    IN  /\ u \in J[c] <=> state # None
        /\ state # None => state.seq = R[u][c] /\ state.muted = U[u][c]

\* A private chat that is not created yet has no messages and no settings.
Untouched(J, M, U) ==
  \A c \in PrivateChats :
    J[c] = {} => M[c] = <<>> /\ \A u \in Users : U[u][c] = FALSE

Inv ==
  /\ TypeOK
  /\ Sound(counters) /\ Filing(messages, counters.index)
  /\ Follows(counters, joined, readSeqs, mute)
  /\ Untouched(joined, messages, mute)
  /\ TotalsExact(counters)

LEMMA ExactStep ==
  ASSUME Inv, NEW c \in Chats, Sound(counters'), Accounted(counters, counters', c)
  PROVE  TotalsExact(counters')
<1> DEFINE s == counters
           t == counters'
<1>1. s \in CountersType /\ t \in CountersType /\ TotalsExact(s) /\ Accounted(s, t, c)
  BY DEF Inv, Sound
<1> HIDE DEF s, t
<1>2. TotalsExact(t)
  BY <1>1, ExactKept
<1> QED BY <1>2 DEF t

LEMMA LastSeqType ==
  ASSUME Inv, NEW c \in Chats
  PROVE  /\ messages[c] \in Seq(Message) /\ LastSeq(c) \in Nat /\ LastSeq(c) <= MaxMessages
         /\ LastSeq(c) \in Seqs \cup {0} /\ MaxMessages \in Nat
         /\ 1 .. LastSeq(c) \subseteq Seqs
         /\ \A q \in 1 .. LastSeq(c) : messages[c][q] \in Message
<1>1. MaxMessages \in Nat
  BY CountersAssumption
<1>2. messages[c] \in Seq(Message) /\ Len(messages[c]) <= MaxMessages
  BY DEF Inv, Filing
<1>3. Len(messages[c]) \in Nat /\ \A q \in 1 .. Len(messages[c]) : messages[c][q] \in Message
  BY <1>2
<1> QED BY <1>1, <1>2, <1>3 DEF LastSeq, Seqs

\* Writing a message, the subscriptions being those of s.
Written(s) ==
  /\ Sound(counters') /\ Filing(messages', counters'.index)
  /\ \A u \in Users, c \in Chats :
       SameSubscription(s.users[u][c], counters'.users[u][c])

LEMMA WriteSound ==
  ASSUME Inv, NEW s, Sound(s), s.index = counters.index,
         NEW c \in Chats, NEW q, NEW m \in Message, Write(s, c, q, m),
         \/ q \in 1 .. LastSeq(c)
         \/ q = LastSeq(c) + 1 /\ LastSeq(c) < MaxMessages /\ ~m.deleted
  PROVE  /\ Written(s) /\ \A d \in Chats \ {c} : messages'[d] = messages[d]
         /\ Accounted(s, counters', c)
<1> DEFINE M == messages[c]
           N == IF q = LastSeq(c) + 1 THEN Append(M, m) ELSE [M EXCEPT ![q] = Kept(m)]
           ix == IF m.deleted THEN removeMessage(s.index[c], q)
                 ELSE addOrUpdateMessage(s.index[c], q, m)
<1>1. /\ M \in Seq(Message) /\ LastSeq(c) \in Nat /\ LastSeq(c) = Len(M)
      /\ MaxMessages \in Nat /\ Len(M) <= MaxMessages
  BY LastSeqType DEF LastSeq
<1>2. q \in Seqs
  BY <1>1 DEF Seqs
<1>3. Kept(m) \in Message
  BY DEF Kept, NewMessage, Mentioning, Message
<1>4. N \in Seq(Message) /\ Len(N) <= MaxMessages
  <2>1. CASE q = LastSeq(c) + 1
    BY <1>1, <2>1
  <2>2. CASE q # LastSeq(c) + 1
    BY <1>1, <1>3, <2>2
  <2> QED BY <2>1, <2>2
<1>5. /\ \A r \in Seqs \ {q} : RefOf(N, r) = RefOf(M, r)
      /\ RefOf(N, q) = IF m.deleted THEN None ELSE Normalized(m)
  <2>1. CASE q = LastSeq(c) + 1
    <3>1. N = Append(M, m) /\ Len(M) + 1 = q /\ ~m.deleted
      BY <1>1, <2>1
    <3> HIDE DEF N, M
    <3> QED BY <1>1, <1>2, <3>1, AppendRefs
  <2>2. CASE q # LastSeq(c) + 1
    <3>1. N = [M EXCEPT ![q] = Kept(m)] /\ q \in 1 .. Len(M)
      BY <1>1, <2>2
    <3> HIDE DEF N, M
    <3> QED BY <1>1, <3>1, ChangeRefs
  <2> QED BY <2>1, <2>2
<1>6. s.index[c] \in Index /\ Indexed(s.index[c], M)
  BY SoundParts DEF Inv, Filing
<1>7. ix \in Index /\ Indexed(ix, N)
  <2> DEFINE iy == s.index[c]
  <2>1. iy \in Index /\ Indexed(iy, M)
    BY <1>6
  <2> HIDE DEF M, N, iy
  <2>2. LET iz == IF m.deleted THEN removeMessage(iy, q) ELSE addOrUpdateMessage(iy, q, m)
        IN  iz \in Index /\ Indexed(iz, N)
    BY <1>2, <1>5, <2>1, IndexKept
  <2> QED BY <2>2 DEF iy
<1>8. counters' = onMessage(s, c, q, m)
  BY DEF Write
<1>9. messages' = [messages EXCEPT ![c] = N]
  BY DEF Write
<1> DEFINE t == counters'
<1>10. t = onMessage(s, c, q, m)
  BY <1>8
<1>11. ix = IF m.deleted THEN removeMessage(s.index[c], q)
            ELSE addOrUpdateMessage(s.index[c], q, m)
  OBVIOUS
<1> HIDE DEF ix, N, t
<1>12. /\ Sound(t)
       /\ t.index[c] = ix /\ \A d \in Chats \ {c} : t.index[d] = s.index[d]
       /\ \A v \in Users, d \in Chats : SameSubscription(s.users[v][d], t.users[v][d])
       /\ Accounted(s, t, c)
  BY <1>2, <1>7, <1>10, <1>11, MessageSound
<1>13. /\ messages' \in [Chats -> Seq(Message)]
       /\ messages'[c] = N /\ \A d \in Chats \ {c} : messages'[d] = messages[d]
  BY <1>4, <1>9 DEF Inv, Filing
<1>14. \A d \in Chats : Len(messages'[d]) <= MaxMessages /\ Indexed(t.index[d], messages'[d])
  <2> TAKE d \in Chats
  <2>1. CASE d = c
    BY <1>4, <1>7, <1>12, <1>13, <2>1
  <2>2. CASE d # c
    BY <1>12, <1>13, <2>2 DEF Inv, Filing
  <2> QED BY <2>1, <2>2
<1> QED BY <1>12, <1>13, <1>14 DEF Written, Filing, t

LEMMA FollowsSame ==
  ASSUME NEW s, NEW t, NEW J, NEW R, NEW U, Follows(s, J, R, U),
         \A u \in Users, c \in Chats : SameSubscription(s.users[u][c], t.users[u][c])
  PROVE  Follows(t, J, R, U)
BY DEF Follows, SameSubscription

\* What Follows says of one user and one chat.
At(t, J, R, U, u, c) ==
  /\ u \in J[c] <=> t.users[u][c] # None
  /\ t.users[u][c] # None => t.users[u][c].seq = R[u][c] /\ t.users[u][c].muted = U[u][c]

LEMMA FollowsMoved ==
  ASSUME NEW s, NEW t, NEW J, NEW R, NEW U, Follows(s, J, R, U), NEW u, NEW c,
         OthersKept(s, t, u, c), NEW J2, NEW R2, NEW U2, At(t, J2, R2, U2, u, c),
         \A v \in Users, d \in Chats : v # u \/ d # c =>
           /\ v \in J2[d] <=> v \in J[d]
           /\ R2[v][d] = R[v][d] /\ U2[v][d] = U[v][d]
  PROVE  Follows(t, J2, R2, U2)
<1> SUFFICES ASSUME NEW v \in Users, NEW d \in Chats PROVE At(t, J2, R2, U2, v, d)
  BY DEF Follows, At
<1>1. At(s, J, R, U, v, d)
  BY DEF Follows, At
<1>2. CASE v = u /\ d = c
  BY <1>2
<1>3. CASE v # u \/ d # c
  <2>1. t.users[v][d] = s.users[v][d]
    BY <1>3 DEF OthersKept
  <2> QED BY <1>1, <1>3, <2>1 DEF At
<1> QED BY <1>2, <1>3

\* Steps that write no message leave the index and the private chats filed.
LEMMA Refiled ==
  ASSUME Inv, NEW s, Sound(s), s.index = counters.index, UNCHANGED messages, counters' = s
  PROVE  Sound(counters') /\ Filing(messages', counters'.index)
BY DEF Inv, Filing

LEMMA UntouchedStep ==
  ASSUME Inv, NEW c \in Chats,
         c \in Rooms \/ joined'[c] # {},
         \A d \in Chats \ {c} : /\ joined'[d] = joined[d] /\ messages'[d] = messages[d]
                                /\ \A u \in Users : mute'[u][d] = mute[u][d]
  PROVE  Untouched(joined', messages', mute')
<1> SUFFICES ASSUME NEW d \in PrivateChats, joined'[d] = {}
             PROVE  messages'[d] = <<>> /\ \A u \in Users : mute'[u][d] = FALSE
  BY DEF Untouched
<1>1. d # c /\ d \in Chats
  BY CountersAssumption DEF Chats
<1> QED BY <1>1 DEF Inv, Untouched

LEMMA SendStep ==
  ASSUME Inv, NEW u \in Users, NEW c \in Chats, NEW content \in Contents,
         sendMessage(u, c, content)
  PROVE  Inv'
<1> DEFINE m == NewMessage(u, content, FALSE)
<1>1. m \in Message /\ ~m.deleted
  BY CountersAssumption DEF NewMessage, Message, Content
<1>2. Write(counters, c, LastSeq(c) + 1, m) /\ LastSeq(c) < MaxMessages /\ u \in joined[c]
      /\ UNCHANGED <<joined, readSeqs, mute>>
  BY DEF sendMessage, MaySend
<1> HIDE DEF m
<1>3. Written(counters) /\ \A d \in Chats \ {c} : messages'[d] = messages[d]
  BY <1>1, <1>2, WriteSound DEF Inv
<1>4. Follows(counters', joined', readSeqs', mute')
  BY <1>2, <1>3, FollowsSame DEF Inv, Written
<1>5. Untouched(joined', messages', mute')
  BY <1>2, <1>3, UntouchedStep
<1>6. TypeOK'
  BY <1>2, <1>3 DEF Inv, TypeOK, Written, Filing
<1>7. TotalsExact(counters')
  BY <1>1, <1>2, WriteSound, ExactStep DEF Inv, Written
<1> QED BY <1>3, <1>4, <1>5, <1>6, <1>7 DEF Inv, Written

\* Changing a message that exists, whatever of it.
LEMMA ChangeStep ==
  ASSUME Inv, NEW c \in Chats, NEW q \in 1 .. LastSeq(c), NEW m \in Message,
         Write(counters, c, q, m), UNCHANGED <<joined, readSeqs, mute>>
  PROVE  Inv'
<1>1. /\ Written(counters) /\ \A d \in Chats \ {c} : messages'[d] = messages[d]
      /\ Accounted(counters, counters', c)
  BY WriteSound DEF Inv
<1>2. Follows(counters', joined', readSeqs', mute')
  BY <1>1, FollowsSame DEF Inv, Written
<1>3. messages[c] # <<>>
  BY LastSeqType DEF LastSeq
<1>4. c \in Rooms \/ joined'[c] # {}
  BY <1>3 DEF Inv, Untouched, Chats
<1>5. Untouched(joined', messages', mute')
  BY <1>1, <1>4, UntouchedStep
<1>6. TypeOK'
  BY <1>1 DEF Inv, TypeOK, Written, Filing
<1>7. TotalsExact(counters')
  BY <1>1, ExactStep DEF Written
<1> QED BY <1>1, <1>2, <1>5, <1>6, <1>7 DEF Inv, Written

LEMMA EditStep ==
  ASSUME Inv, NEW c \in Chats, NEW q \in 1 .. LastSeq(c), NEW content \in Contents,
         editMessage(c, q, content)
  PROVE  Inv'
<1> DEFINE m == [messages[c][q] EXCEPT !.mentions = content.mentions,
                                       !.allMention = content.allMention]
<1>1. messages[c][q] \in Message
  BY LastSeqType
<1>2. m \in Message
  BY <1>1, CountersAssumption DEF Message, Content
<1>3. Write(counters, c, q, m) /\ UNCHANGED <<joined, readSeqs, mute>>
  BY DEF editMessage
<1> HIDE DEF m
<1> QED BY <1>2, <1>3, ChangeStep

LEMMA DeleteStep ==
  ASSUME Inv, NEW c \in Chats, NEW q \in 1 .. LastSeq(c), deleteMessage(c, q)
  PROVE  Inv'
<1> DEFINE m == [messages[c][q] EXCEPT !.deleted = TRUE]
<1>1. messages[c][q] \in Message
  BY LastSeqType
<1>2. m \in Message
  BY <1>1 DEF Message
<1>3. Write(counters, c, q, m) /\ UNCHANGED <<joined, readSeqs, mute>>
  BY DEF deleteMessage
<1> HIDE DEF m
<1> QED BY <1>2, <1>3, ChangeStep

LEMMA ReadStep ==
  ASSUME Inv, NEW u \in Users, NEW c \in Chats, NEW q \in 1 .. LastSeq(c), readRoom(u, c, q)
  PROVE  Inv'
<1>1. /\ readSeqs' = [readSeqs EXCEPT ![u][c] = q]
      /\ counters' = readMessages(counters, u, c, q)
      /\ UNCHANGED <<messages, joined, mute>>
  BY DEF readRoom
<1>2. q \in Seqs /\ q \in Nat
  BY LastSeqType DEF Seqs
<1>3. /\ readSeqs' \in [Users -> [Chats -> Seqs \cup {0, None}]]
      /\ readSeqs'[u][c] = q
      /\ \A v \in Users, d \in Chats : v # u \/ d # c => readSeqs'[v][d] = readSeqs[v][d]
  BY <1>1, <1>2 DEF Inv, TypeOK
<1>4. Sound(counters)
  BY DEF Inv
<1>5. /\ At(counters, joined, readSeqs, mute, u, c)
  BY DEF Inv, Follows, At
<1>6. /\ Sound(counters') /\ OthersKept(counters, counters', u, c)
      /\ At(counters', joined, readSeqs', mute, u, c) /\ Accounted(counters, counters', c)
  <2> DEFINE s == counters
             t == counters'
  <2>1. IF s.users[u][c] = None THEN t = s
        ELSE Subscribed(s, t, u, c, q, s.users[u][c].muted)
    <3>1. Sound(s) /\ t = readMessages(s, u, c, q)
      BY <1>1, <1>4
    <3> HIDE DEF s, t
    <3> QED BY <1>2, <3>1, ReadMessagesSound
  <2>2. CASE s.users[u][c] = None
    BY <1>4, <1>5, <2>1, <2>2, AccountedSame DEF OthersKept, At, Sound
  <2>3. CASE s.users[u][c] # None
    BY <1>3, <1>5, <2>1, <2>3 DEF Subscribed, At
  <2> QED BY <2>2, <2>3
<1>7. Sound(counters') /\ Filing(messages', counters'.index)
  BY <1>1, <1>6 DEF Inv, Filing, OthersKept
<1>8. Follows(counters', joined, readSeqs', mute)
  <2>1. Follows(counters, joined, readSeqs, mute)
    BY DEF Inv
  <2> QED BY <1>3, <1>6, <2>1, FollowsMoved
<1>9. TotalsExact(counters')
  BY <1>6, ExactStep
<1> QED BY <1>1, <1>3, <1>7, <1>8, <1>9 DEF Inv, TypeOK

\* Entering or leaving room c, the counters becoming t before any message.
Passed(c, t) ==
  /\ Sound(t) /\ t.index = counters.index /\ Accounted(counters, t, c)
  /\ Follows(t, joined', readSeqs', mute')
  /\ joined' \in [Chats -> SUBSET Users]
  /\ readSeqs' \in [Users -> [Chats -> Seqs \cup {0, None}]]
  /\ mute' = mute /\ c \in Rooms
  /\ \A d \in Chats \ {c} : joined'[d] = joined[d]

LEMMA SubscribeKeeps ==
  ASSUME NEW s, Sound(s), NEW u \in Users, NEW c \in Chats, NEW pos \in Nat,
         NEW muted \in BOOLEAN, NEW t, t = Subscribe(s, u, c, pos, muted)
  PROVE  Subscribed(s, t, u, c, pos, muted)
<1> DEFINE n == count(s.index[c], u, pos)
<1>1. n \in [unread : Int, unreadMentions : Int] /\ n = count(s.index[c], u, pos)
  BY CountOfSound
<1>2. t = subscribe(s, u, c, pos, muted, n)
  BY DEF Subscribe
<1> HIDE DEF n
<1> QED BY <1>1, <1>2, SubscribeSound

LEMMA EnterPasses ==
  ASSUME Inv, NEW u \in Users, NEW c \in Chats, Enter(u, c), NEW t, t = onRoomJoin(u, c)
  PROVE  Passed(c, t)
<1>1. /\ c \in Rooms
      /\ joined' = [joined EXCEPT ![c] = @ \cup {u}]
      /\ readSeqs' = [readSeqs EXCEPT ![u][c] = LastSeq(c)]
      /\ mute' = mute
  BY DEF Enter
<1>2. LastSeq(c) \in Nat /\ LastSeq(c) \in Seqs \cup {0} /\ mute[u][c] \in BOOLEAN
  BY LastSeqType DEF Inv, TypeOK
<1>3. /\ joined' \in [Chats -> SUBSET Users]
      /\ \A v \in Users, d \in Chats : v # u \/ d # c => (v \in joined'[d] <=> v \in joined[d])
      /\ \A d \in Chats \ {c} : joined'[d] = joined[d]
      /\ u \in joined'[c]
  BY <1>1 DEF Inv, TypeOK
<1>4. /\ readSeqs' \in [Users -> [Chats -> Seqs \cup {0, None}]]
      /\ readSeqs'[u][c] = LastSeq(c)
      /\ \A v \in Users, d \in Chats : v # u \/ d # c => readSeqs'[v][d] = readSeqs[v][d]
  BY <1>1, <1>2 DEF Inv, TypeOK
<1>5. Subscribed(counters, t, u, c, LastSeq(c), mute[u][c])
  <2> DEFINE pos == LastSeq(c)
             muted == mute[u][c]
             s == counters
  <2>1. t = Subscribe(s, u, c, pos, muted) /\ Sound(s) /\ pos \in Nat /\ muted \in BOOLEAN
    BY <1>2 DEF onRoomJoin, Inv
  <2> HIDE DEF pos, muted, s
  <2>2. Subscribed(s, t, u, c, pos, muted)
    BY <2>1, SubscribeKeeps
  <2> QED BY <2>2 DEF pos, muted, s
<1>6. At(t, joined', readSeqs', mute', u, c)
  BY <1>1, <1>3, <1>4, <1>5 DEF Subscribed, At
<1>7. Follows(t, joined', readSeqs', mute')
  <2>1. Follows(counters, joined, readSeqs, mute) /\ OthersKept(counters, t, u, c)
    BY <1>5 DEF Inv, Subscribed
  <2> DEFINE J == joined'
             R == readSeqs'
             U == mute'
  <2>2. \A v \in Users, d \in Chats : v # u \/ d # c =>
          /\ v \in J[d] <=> v \in joined[d]
          /\ R[v][d] = readSeqs[v][d] /\ U[v][d] = mute[v][d]
    BY <1>1, <1>3, <1>4
  <2>3. At(t, J, R, U, u, c)
    BY <1>6
  <2> HIDE DEF J, R, U
  <2>4. Follows(t, J, R, U)
    BY <2>1, <2>2, <2>3, FollowsMoved
  <2> QED BY <2>4 DEF J, R, U
<1> QED BY <1>1, <1>3, <1>4, <1>5, <1>7 DEF Passed, Subscribed, OthersKept

LEMMA ExitPasses ==
  ASSUME Inv, NEW u \in Users, NEW c \in Chats, Exit(u, c),
         NEW t, t = unsubscribe(counters, u, c)
  PROVE  Passed(c, t)
<1>1. /\ c \in Rooms
      /\ joined' = [joined EXCEPT ![c] = @ \ {u}]
      /\ readSeqs' = [readSeqs EXCEPT ![u][c] = None]
      /\ mute' = mute
  BY DEF Exit
<1>3. /\ joined' \in [Chats -> SUBSET Users]
      /\ \A v \in Users, d \in Chats : v # u \/ d # c => (v \in joined'[d] <=> v \in joined[d])
      /\ \A d \in Chats \ {c} : joined'[d] = joined[d]
      /\ u \notin joined'[c]
  BY <1>1 DEF Inv, TypeOK
<1>4. /\ readSeqs' \in [Users -> [Chats -> Seqs \cup {0, None}]]
      /\ \A v \in Users, d \in Chats : v # u \/ d # c => readSeqs'[v][d] = readSeqs[v][d]
  BY <1>1 DEF Inv, TypeOK
<1>5. /\ Sound(t) /\ OthersKept(counters, t, u, c) /\ t.users[u][c] = None
      /\ Accounted(counters, t, c)
  BY UnsubscribeSound DEF Inv
<1>6. At(t, joined', readSeqs', mute', u, c)
  BY <1>3, <1>5 DEF At
<1>7. Follows(t, joined', readSeqs', mute')
  <2>1. Follows(counters, joined, readSeqs, mute)
    BY DEF Inv
  <2> DEFINE J == joined'
             R == readSeqs'
             U == mute'
  <2>2. \A v \in Users, d \in Chats : v # u \/ d # c =>
          /\ v \in J[d] <=> v \in joined[d]
          /\ R[v][d] = readSeqs[v][d] /\ U[v][d] = mute[v][d]
    BY <1>1, <1>3, <1>4
  <2>3. At(t, J, R, U, u, c)
    BY <1>6
  <2> HIDE DEF J, R, U
  <2>4. Follows(t, J, R, U)
    BY <1>5, <2>1, <2>2, <2>3, FollowsMoved
  <2> QED BY <2>4 DEF J, R, U
<1> QED BY <1>1, <1>3, <1>4, <1>5, <1>7 DEF Passed, OthersKept

\* Then no message is written ...
LEMMA SilentStep ==
  ASSUME Inv, NEW c \in Chats, Passed(c, counters'), UNCHANGED messages
  PROVE  Inv'
<1>1. Sound(counters') /\ Filing(messages', counters'.index)
  BY DEF Inv, Filing, Passed
<1>2. Untouched(joined', messages', mute')
  BY UntouchedStep DEF Passed
<1>3. TotalsExact(counters')
  BY ExactStep DEF Passed
<1> QED BY <1>1, <1>2, <1>3 DEF Inv, TypeOK, Passed

\* ... or one is.
LEMMA AnnouncedStep ==
  ASSUME Inv, NEW c \in Chats, NEW t, Passed(c, t), NEW q, NEW m \in Message, Write(t, c, q, m),
         \/ q \in 1 .. LastSeq(c)
         \/ q = LastSeq(c) + 1 /\ LastSeq(c) < MaxMessages /\ ~m.deleted
  PROVE  Inv'
<1>1. /\ Written(t) /\ \A d \in Chats \ {c} : messages'[d] = messages[d]
      /\ Accounted(t, counters', c)
  BY WriteSound DEF Passed
<1>2. Follows(counters', joined', readSeqs', mute')
  <2>1. Follows(t, joined', readSeqs', mute')
    BY DEF Passed
  <2> QED BY <1>1, <2>1, FollowsSame DEF Written
<1>3. Untouched(joined', messages', mute')
  BY <1>1, UntouchedStep DEF Passed
<1>4. TypeOK'
  BY <1>1 DEF Inv, TypeOK, Passed, Written, Filing
<1>5. Accounted(counters, counters', c)
  <2> DEFINE r == counters
             s == counters'
  <2>1. /\ r \in CountersType /\ t \in CountersType /\ s \in CountersType
        /\ Accounted(r, t, c) /\ Accounted(t, s, c)
    BY <1>1 DEF Inv, Sound, Passed, Written
  <2> HIDE DEF r, s
  <2>2. Accounted(r, s, c)
    BY <2>1, AccountedTwice
  <2> QED BY <2>2 DEF r, s
<1>6. TotalsExact(counters')
  BY <1>1, <1>5, ExactStep DEF Written
<1> QED BY <1>1, <1>2, <1>3, <1>4, <1>6 DEF Inv, Written

LEMMA JoinStep ==
  ASSUME Inv, NEW u \in Users, NEW by \in Users, NEW c \in Chats,
         joinSilently(u, c) \/ joinAnnounced(u, by, c) \/ joinAppended(u, by, c)
  PROVE  Inv'
<1>1. CASE joinSilently(u, c)
  <2>1. Passed(c, counters') /\ UNCHANGED messages
    BY <1>1, EnterPasses DEF joinSilently
  <2> QED BY <2>1, SilentStep
<1>2. CASE joinAnnounced(u, by, c)
  <2> DEFINE m == NewMessage(by, Mentioning({u}), TRUE)
             t == onRoomJoin(u, c)
  <2>1. m \in Message /\ ~m.deleted
    BY DEF NewMessage, Mentioning, Message
  <2>2. Write(t, c, LastSeq(c) + 1, m) /\ LastSeq(c) < MaxMessages /\ Enter(u, c)
    BY <1>2 DEF joinAnnounced, MaySend
  <2>3. t = onRoomJoin(u, c)
    OBVIOUS
  <2> HIDE DEF m, t
  <2>4. Passed(c, t)
    BY <2>2, <2>3, EnterPasses
  <2> QED BY <2>1, <2>2, <2>4, AnnouncedStep
<1>3. CASE joinAppended(u, by, c)
  <2>1. PICK q \in InviteOnTop(by, c) :
          Write(onRoomJoin(u, c), c, q, [messages[c][q] EXCEPT !.mentions = @ \cup {u}])
    BY <1>3 DEF joinAppended
  <2> DEFINE m == [messages[c][q] EXCEPT !.mentions = @ \cup {u}]
             t == onRoomJoin(u, c)
  <2>2. q \in 1 .. LastSeq(c)
    BY DEF InviteOnTop
  <2>3. messages[c][q] \in Message
    BY <2>2, LastSeqType
  <2>4. m \in Message
    BY <2>3 DEF Message
  <2>5. Write(t, c, q, m) /\ Enter(u, c) /\ t = onRoomJoin(u, c)
    BY <1>3, <2>1 DEF joinAppended
  <2> HIDE DEF m, t
  <2>6. Passed(c, t)
    BY <2>5, EnterPasses
  <2> QED BY <2>2, <2>4, <2>5, <2>6, AnnouncedStep
<1> QED BY <1>1, <1>2, <1>3

LEMMA LeaveStep ==
  ASSUME Inv, NEW u \in Users, NEW by \in Users, NEW c \in Chats,
         leaveSilently(u, c) \/ leaveAnnounced(u, by, c)
  PROVE  Inv'
<1>1. CASE leaveSilently(u, c)
  <2>1. Passed(c, counters') /\ UNCHANGED messages
    BY <1>1, ExitPasses DEF leaveSilently
  <2> QED BY <2>1, SilentStep
<1>2. CASE leaveAnnounced(u, by, c)
  <2> DEFINE m == NewMessage(by, Mentioning({u, by}), FALSE)
             t == unsubscribe(counters, u, c)
  <2>1. m \in Message /\ ~m.deleted
    BY DEF NewMessage, Mentioning, Message
  <2>2. Write(t, c, LastSeq(c) + 1, m) /\ LastSeq(c) < MaxMessages /\ Exit(u, c)
    BY <1>2 DEF leaveAnnounced, MaySend
  <2>3. t = unsubscribe(counters, u, c)
    OBVIOUS
  <2> HIDE DEF m, t
  <2>4. Passed(c, t)
    BY <2>2, <2>3, ExitPasses
  <2> QED BY <2>1, <2>2, <2>4, AnnouncedStep
<1> QED BY <1>1, <1>2

LEMMA PrivateStep ==
  ASSUME Inv, NEW u \in Users, NEW v \in Users, NEW c \in Chats, resolvePrivateChat(u, v, c)
  PROVE  Inv'
<1> DEFINE s == counters
           s1 == Subscribe(s, u, c, 0, FALSE)
           s2 == Subscribe(s1, v, c, 0, FALSE)
<1>1. /\ c \in PrivateChats /\ joined[c] = {} /\ u # v
      /\ joined' = [joined EXCEPT ![c] = {u, v}]
      /\ readSeqs' = [w \in Users |->
           IF w \in {u, v} THEN [readSeqs[w] EXCEPT ![c] = LastSeq(c)] ELSE readSeqs[w]]
      /\ counters' = s2
      /\ messages' = messages /\ mute' = mute
  BY DEF resolvePrivateChat
<1>2. /\ LastSeq(c) = 0
      /\ \A w \in Users : mute[w][c] = FALSE
  BY <1>1 DEF Inv, Untouched, LastSeq
<1>3. Sound(s) /\ Follows(s, joined, readSeqs, mute)
  BY DEF Inv
<1>4. Subscribed(s, s1, u, c, 0, FALSE)
  <2>1. s1 = Subscribe(s, u, c, 0, FALSE) /\ 0 \in Nat /\ FALSE \in BOOLEAN
    OBVIOUS
  <2> HIDE DEF s, s1
  <2> QED BY <1>3, <2>1, SubscribeKeeps
<1>5. Subscribed(s1, s2, v, c, 0, FALSE)
  <2>1. s2 = Subscribe(s1, v, c, 0, FALSE) /\ 0 \in Nat /\ FALSE \in BOOLEAN
    OBVIOUS
  <2>2. Sound(s1)
    BY <1>4 DEF Subscribed
  <2> HIDE DEF s1, s2
  <2> QED BY <2>1, <2>2, SubscribeKeeps
<1> HIDE DEF s, s1, s2
<1>6. /\ Sound(s2) /\ s2.index = s.index
      /\ s2.users[u][c] # None /\ s2.users[u][c].seq = 0 /\ s2.users[u][c].muted = FALSE
      /\ s2.users[v][c] # None /\ s2.users[v][c].seq = 0 /\ s2.users[v][c].muted = FALSE
      /\ \A w \in Users, d \in Chats :
           w \notin {u, v} \/ d # c => s2.users[w][d] = s.users[w][d]
  BY <1>1, <1>4, <1>5 DEF Subscribed, OthersKept
<1>7. /\ readSeqs' \in [Users -> [Chats -> Seqs \cup {0, None}]]
      /\ readSeqs'[u][c] = 0 /\ readSeqs'[v][c] = 0
      /\ \A w \in Users, d \in Chats :
           w \notin {u, v} \/ d # c => readSeqs'[w][d] = readSeqs[w][d]
  BY <1>1, <1>2 DEF Inv, TypeOK
<1>8. /\ joined' \in [Chats -> SUBSET Users] /\ joined'[c] = {u, v}
      /\ \A d \in Chats \ {c} : joined'[d] = joined[d]
  BY <1>1 DEF Inv, TypeOK
<1>9. Follows(s2, joined', readSeqs', mute')
  <2> SUFFICES ASSUME NEW w \in Users, NEW d \in Chats
               PROVE  At(s2, joined', readSeqs', mute', w, d)
    BY DEF Follows, At
  <2>1. At(s, joined, readSeqs, mute, w, d)
    BY <1>3 DEF Follows, At
  <2>2. CASE d = c /\ w \in {u, v}
    BY <1>1, <1>2, <1>6, <1>7, <1>8, <2>2 DEF At
  <2>3. CASE ~(d = c /\ w \in {u, v})
    <3>1. s2.users[w][d] = s.users[w][d] /\ readSeqs'[w][d] = readSeqs[w][d]
      BY <1>6, <1>7, <2>3
    <3>2. w \in joined'[d] <=> w \in joined[d]
      BY <1>1, <1>8, <2>1, <2>3
    <3> QED BY <1>1, <2>1, <3>1, <3>2 DEF At
  <2> QED BY <2>2, <2>3
<1>10. Untouched(joined', messages', mute')
  BY <1>1, <1>8, UntouchedStep
<1>11. Sound(counters') /\ Filing(messages', counters'.index)
  BY <1>1, <1>6 DEF Inv, Filing, s
<1>12. TotalsExact(counters')
  <2>1. /\ s \in CountersType /\ s1 \in CountersType /\ s2 \in CountersType
        /\ Accounted(s, s1, c) /\ Accounted(s1, s2, c) /\ c \in Chats
    BY <1>3, <1>4, <1>5 DEF Subscribed, Sound
  <2>2. Accounted(s, s2, c)
    BY <2>1, AccountedTwice
  <2> QED BY <1>1, <1>11, <2>2, ExactStep DEF s
<1> QED BY <1>1, <1>7, <1>8, <1>9, <1>10, <1>11, <1>12 DEF Inv, TypeOK

LEMMA SettingsStep ==
  ASSUME Inv, NEW u \in Users, NEW c \in Chats, updateNotificationSettings(u, c)
  PROVE  Inv'
<1> DEFINE s == counters
           t == counters'
           muted == ~mute[u][c]
<1>1. /\ c \in Rooms \/ joined[c] # {}
      /\ mute' = [mute EXCEPT ![u][c] = muted]
      /\ t = updateMuted(s, u, c, muted)
      /\ messages' = messages /\ joined' = joined /\ readSeqs' = readSeqs
  BY DEF updateNotificationSettings
<1>2. muted \in BOOLEAN
  OBVIOUS
<1>3. Sound(s) /\ Follows(s, joined, readSeqs, mute) /\ At(s, joined, readSeqs, mute, u, c)
  BY DEF Inv, Follows, At
<1> HIDE DEF muted
<1>4. /\ mute' \in [Users -> [Chats -> BOOLEAN]] /\ mute'[u][c] = muted
      /\ \A v \in Users, d \in Chats : v # u \/ d # c => mute'[v][d] = mute[v][d]
  BY <1>1, <1>2 DEF Inv, TypeOK
<1> HIDE DEF s, t
<1>5. IF s.users[u][c] = None THEN t = s
      ELSE Subscribed(s, t, u, c, s.users[u][c].seq, muted)
  BY <1>1, <1>2, <1>3, UpdateMutedSound
<1>6. /\ Sound(t) /\ OthersKept(s, t, u, c)
      /\ At(t, joined, readSeqs, mute', u, c) /\ Accounted(s, t, c)
  <2>1. CASE s.users[u][c] = None
    BY <1>3, <1>5, <2>1, AccountedSame DEF OthersKept, At, Sound
  <2>2. CASE s.users[u][c] # None
    BY <1>3, <1>4, <1>5, <2>2 DEF Subscribed, At
  <2> QED BY <2>1, <2>2
<1>7. Follows(t, joined, readSeqs, mute')
  <2> DEFINE U == mute'
  <2>1. /\ At(t, joined, readSeqs, U, u, c)
        /\ \A v \in Users, d \in Chats : v # u \/ d # c => U[v][d] = mute[v][d]
    BY <1>4, <1>6
  <2> HIDE DEF U
  <2>2. Follows(t, joined, readSeqs, U)
    BY <1>3, <1>6, <2>1, FollowsMoved
  <2> QED BY <2>2 DEF U
<1>8. Untouched(joined', messages', mute')
  BY <1>1, <1>4, UntouchedStep DEF Inv, Untouched, Chats
<1>9. Sound(t) /\ Filing(messages', t.index)
  BY <1>1, <1>6 DEF Inv, Filing, OthersKept, s
<1>10. TotalsExact(t)
  BY <1>6, ExactStep DEF s, t
<1> QED BY <1>1, <1>4, <1>7, <1>8, <1>9, <1>10 DEF Inv, TypeOK, t

LEMMA InitInv == Init => Inv
<1> SUFFICES ASSUME Init PROVE Inv
  OBVIOUS
<1>1. /\ messages = [c \in Chats |-> <<>>] /\ joined = [c \in Chats |-> {}]
      /\ readSeqs = [u \in Users |-> [c \in Chats |-> None]]
      /\ mute = [u \in Users |-> [c \in Chats |-> FALSE]]
  BY DEF Init
<1>2. /\ counters.index = [c \in Chats |-> EmptyIndex]
      /\ counters.users = [u \in Users |-> [c \in Chats |-> None]]
      /\ counters.direct = [c \in Chats |-> {}]
      /\ counters.async = [u \in Users |-> {}]
      /\ counters.totals = [u \in Users |-> NoTotals]
      /\ counters = [index |-> counters.index, users |-> counters.users,
                     direct |-> counters.direct, async |-> counters.async,
                     totals |-> counters.totals]
  BY DEF Init
<1>3. EmptyIndex \in Index
  BY DEF EmptyIndex, Index
<1>4. NoTotals \in [Totals -> Int]
  BY DEF NoTotals
<1>5. counters \in CountersType
  <2> HIDE DEF Init
  <2>1. /\ counters.index \in [Chats -> Index]
        /\ counters.users \in [Users -> [Chats -> UserState \cup {None}]]
        /\ counters.direct \in [Chats -> SUBSET Users]
        /\ counters.async \in [Users -> SUBSET AsyncRef]
        /\ counters.totals \in [Users -> [Totals -> Int]]
    BY <1>2, <1>3, <1>4
  <2> QED BY <1>2, <2>1 DEF CountersType
<1>6. Sound(counters)
  <2> SUFFICES ASSUME NEW u \in Users, NEW c \in Chats
               PROVE  KeptTrue(counters, u, c) /\ ListedOnce(counters, u, c)
    BY <1>5 DEF Sound
  <2>1. counters.users[u][c] = None /\ counters.direct[c] = {} /\ counters.async[u] = {}
    BY <1>2
  <2> QED BY <2>1 DEF KeptTrue, ListedOnce
<1>7. Filing(messages, counters.index)
  <2>1. Indexed(EmptyIndex, <<>>)
    BY DEF Indexed, EmptyIndex, RefOf, Filed
  <2>2. MaxMessages \in Nat
    BY CountersAssumption
  <2>3. messages \in [Chats -> Seq(Message)]
    BY <1>1
  <2>4. \A c \in Chats : messages[c] = <<>> /\ counters.index[c] = EmptyIndex
    BY <1>1, <1>2
  <2>5. \A c \in Chats : Len(messages[c]) <= MaxMessages
    BY <2>2, <2>4
  <2> QED BY <2>1, <2>3, <2>4, <2>5 DEF Filing
<1>8. TypeOK
  BY <1>1, <1>7 DEF TypeOK, Filing
<1>9. Follows(counters, joined, readSeqs, mute)
  BY <1>1, <1>2 DEF Follows
<1>10. Untouched(joined, messages, mute)
  BY <1>1 DEF Untouched, Chats
<1>11. TotalsExact(counters)
  <2> SUFFICES ASSUME NEW v \in Users, NEW k \in Totals
               PROVE  counters.totals[v][k]
                        = SumOf([c \in Chats |-> KeptShare(counters.users[v][c], k)], Chats)
    BY DEF TotalsExact
  <2> DEFINE f == [c \in Chats |-> KeptShare(counters.users[v][c], k)]
  <2>1. \A c \in Chats : f[c] = 0
    BY <1>2 DEF KeptShare
  <2>2. counters.totals[v][k] = 0
    BY <1>2 DEF NoTotals
  <2> HIDE DEF f
  <2>3. SumOf(f, Chats) = 0
    BY <2>1, ChatsAssumption, SumZero
  <2> QED BY <2>2, <2>3 DEF f
<1> QED BY <1>6, <1>7, <1>8, <1>9, <1>10, <1>11 DEF Inv

LEMMA NextInv == Inv /\ [Next]_vars => Inv'
<1> SUFFICES ASSUME Inv, [Next]_vars PROVE Inv'
  OBVIOUS
<1>1. CASE UNCHANGED vars
  BY <1>1 DEF Inv, TypeOK, Sound, KeptTrue, ListedOnce, Counted, Filing, Follows, Untouched,
              TotalsExact, vars
<1>2. ASSUME NEW u \in Users, NEW c \in Chats, NEW content \in Contents,
             sendMessage(u, c, content)
      PROVE  Inv'
  BY <1>2, SendStep
<1>3. ASSUME NEW u \in Users, NEW c \in Chats, NEW q \in 1 .. LastSeq(c), readRoom(u, c, q)
      PROVE  Inv'
  BY <1>3, ReadStep
<1>4. ASSUME NEW u \in Users, NEW c \in Chats, joinSilently(u, c)
      PROVE  Inv'
  BY <1>4, JoinStep
<1>5. ASSUME NEW u \in Users, NEW c \in Chats, leaveSilently(u, c)
      PROVE  Inv'
  BY <1>5, LeaveStep
<1>6. ASSUME NEW u \in Users, NEW c \in Chats, updateNotificationSettings(u, c)
      PROVE  Inv'
  BY <1>6, SettingsStep
<1>7. ASSUME NEW u \in Users, NEW by \in Users, NEW c \in Chats,
             joinAnnounced(u, by, c) \/ joinAppended(u, by, c)
      PROVE  Inv'
  BY <1>7, JoinStep
<1>8. ASSUME NEW u \in Users, NEW by \in Users, NEW c \in Chats, leaveAnnounced(u, by, c)
      PROVE  Inv'
  BY <1>8, LeaveStep
<1>9. ASSUME NEW u \in Users, NEW v \in Users, NEW c \in Chats, resolvePrivateChat(u, v, c)
      PROVE  Inv'
  BY <1>9, PrivateStep
<1>10. ASSUME NEW c \in Chats, NEW q \in 1 .. LastSeq(c), NEW content \in Contents,
              editMessage(c, q, content)
       PROVE  Inv'
  BY <1>10, EditStep
<1>11. ASSUME NEW c \in Chats, NEW q \in 1 .. LastSeq(c), deleteMessage(c, q)
       PROVE  Inv'
  BY <1>11, DeleteStep
<1> QED BY <1>1, <1>2, <1>3, <1>4, <1>5, <1>6, <1>7, <1>8, <1>9, <1>10, <1>11 DEF Next

\* The counters are always sound: the index is the one of the messages, a kept
\* count is the count of the index, and a subscription is listed once.
THEOREM AlwaysSound == Spec => []Inv
BY InitInv, NextInv, PTL DEF Spec

LEMMA LocalTrue == Inv => LocalCountersTrue
<1> SUFFICES ASSUME Inv, NEW c \in Chats, NEW u \in joined[c]
             PROVE  getLocalCounter(u, c) = Truth(u, c, readSeqs[u][c])
  BY DEF LocalCountersTrue
<1> DEFINE state == counters.users[u][c]
<1>1. u \in Users
  BY DEF Inv, TypeOK
<1>2. /\ state \in UserState /\ state # None /\ state.seq = readSeqs[u][c]
      /\ KeptTrue(counters, u, c)
  BY <1>1, SoundParts DEF Inv, Follows, Sound
<1>3. count(counters.index[c], u, state.seq) = Truth(u, c, state.seq)
  <2>1. /\ counters.index[c] \in Index /\ Indexed(counters.index[c], messages[c])
        /\ messages \in [Chats -> Seq(Message)] /\ LastSeq(c) <= MaxMessages
    BY SoundParts, LastSeqType DEF Inv, Filing
  <2>2. state.seq \in Nat
    BY <1>2 DEF UserState
  <2> DEFINE pos == state.seq
             ix == counters.index[c]
  <2>3. pos \in Nat /\ ix \in Index /\ Indexed(ix, messages[c])
    BY <2>1, <2>2
  <2> HIDE DEF pos, ix
  <2>4. count(ix, u, pos) = Truth(u, c, pos)
    BY <1>1, <2>1, <2>3, CountIsTrue
  <2> QED BY <2>4 DEF pos, ix
<1>4. CASE state.async
  BY <1>2, <1>3, <1>4 DEF getLocalCounter
<1>5. CASE ~state.async
  BY <1>2, <1>3, <1>5 DEF getLocalCounter, KeptTrue, Counted
<1> QED BY <1>4, <1>5

\* A member is always shown exactly what he has not read of a chat, and what
\* of it mentions him, for any number of users, chats and messages.
THEOREM LocalCountersAlwaysTrue == Spec => []LocalCountersTrue
BY LocalTrue, AlwaysSound, PTL

\* The membership, the read position and the settings of a user in a chat
\* always agree with the state his counter is kept in, which is listed once.
THEOREM SubscriptionsAlwaysAgree == Spec => []SubscriptionsAgree
<1>1. Inv => SubscriptionsAgree
  <2> SUFFICES ASSUME Inv, NEW u \in Users, NEW c \in Chats
               PROVE  LET state == counters.users[u][c]
                          listed == {a \in counters.async[u] : a.cid = c}
                      IN  /\ u \in joined[c] <=> state # None
                          /\ state # None => state.seq = readSeqs[u][c] /\ state.muted = mute[u][c]
                          /\ u \in counters.direct[c] <=> state # None /\ ~state.async
                          /\ listed = IF state # None /\ state.async
                                      THEN {[cid |-> c, muted |-> state.muted, seq |-> state.seq]}
                                      ELSE {}
    BY DEF SubscriptionsAgree, Inv
  <2> QED BY DEF Inv, Sound, ListedOnce, Follows
<1> QED BY <1>1, AlwaysSound, PTL

\* What getGlobalCounter adds for the async subscription a, and what it should
\* add for the chat c.
AsyncShare(u, t, a) ==
  LET n == count(counters.index[a.cid], u, counters.users[u][a.cid].seq)
  IN  IF a.muted /\ t[2] THEN 0
      ELSE InKind(t[1], IF t[3] = "messages" THEN n.unread ELSE n.unreadMentions)
TrueShare(u, t, c) ==
  IF mute[u][c] /\ t[2] THEN 0
  ELSE LET n == Truth(u, c, readSeqs[u][c])
       IN  InKind(t[1], IF t[3] = "messages" THEN n.unread ELSE n.unreadMentions)

\* The model sums with an operator, the facts about sums are for functions.
LEMMA GlobalCounterIs ==
  ASSUME NEW u, NEW t, IsFiniteSet(counters.async[u])
  PROVE  getGlobalCounter(u, t) = counters.totals[u][t]
           + SumOf([a \in counters.async[u] |-> AsyncShare(u, t, a)], counters.async[u])
<1> DEFINE D == counters.async[u]
           f == [a \in D |-> AsyncShare(u, t, a)]
           of(a) == AsyncShare(u, t, a)
           F(g) == [s \in SUBSET D |-> IF s = {} THEN 0 ELSE of(Pick(s)) + g[s \ {Pick(s)}]]
           iter == CHOOSE g : g = F(g)
           k == CHOOSE g : Solves(g, f, D)
<1>1. getGlobalCounter(u, t) = counters.totals[u][t] + iter[D]
  BY DEF getGlobalCounter, MapThenSumSet, MapThenFoldSet, Pick, AsyncShare
<1>2. \A s \in SUBSET D : s # {} => f[Pick(s)] = of(Pick(s))
  BY PickIn
<1>3. Solves(k, f, D) /\ SumOf(f, D) = k[D]
  BY SolutionExists, SumChosen
<1>4. IsFiniteSet(D)
  OBVIOUS
<1> HIDE DEF k, of, D, f
<1>5. k = F(k)
  BY <1>2, <1>3 DEF Solves
<1>6. iter = F(iter)
  BY <1>5
<1> HIDE DEF iter
<1>7. Solves(iter, f, D)
  BY <1>2, <1>6 DEF Solves
<1>8. iter[D] = k[D]
  BY <1>3, <1>4, <1>7, SolutionsAgree
<1> QED BY <1>1, <1>3, <1>8 DEF D, f

LEMMA GlobalTruthIs ==
  ASSUME NEW u, NEW t, NEW D, IsFiniteSet(D)
  PROVE  MapThenSumSet(LAMBDA c : IF mute[u][c] /\ t[2] THEN 0
                                  ELSE LET n == Truth(u, c, readSeqs[u][c])
                                       IN  InKind(t[1], IF t[3] = "messages" THEN n.unread
                                                        ELSE n.unreadMentions), D)
           = SumOf([c \in D |-> TrueShare(u, t, c)], D)
<1> DEFINE f == [c \in D |-> TrueShare(u, t, c)]
           of(c) == TrueShare(u, t, c)
           F(g) == [s \in SUBSET D |-> IF s = {} THEN 0 ELSE of(Pick(s)) + g[s \ {Pick(s)}]]
           iter == CHOOSE g : g = F(g)
           k == CHOOSE g : Solves(g, f, D)
<1>1. MapThenSumSet(LAMBDA c : IF mute[u][c] /\ t[2] THEN 0
                               ELSE LET n == Truth(u, c, readSeqs[u][c])
                                    IN  InKind(t[1], IF t[3] = "messages" THEN n.unread
                                                     ELSE n.unreadMentions), D) = iter[D]
  BY DEF MapThenSumSet, MapThenFoldSet, Pick, TrueShare
<1>2. \A s \in SUBSET D : s # {} => f[Pick(s)] = of(Pick(s))
  BY PickIn
<1>3. Solves(k, f, D) /\ SumOf(f, D) = k[D]
  BY SolutionExists, SumChosen
<1> HIDE DEF k, of, f
<1>5. k = F(k)
  BY <1>2, <1>3 DEF Solves
<1>6. iter = F(iter)
  BY <1>5
<1> HIDE DEF iter
<1>7. Solves(iter, f, D)
  BY <1>2, <1>6 DEF Solves
<1>8. iter[D] = k[D]
  BY <1>3, <1>7, SolutionsAgree
<1> QED BY <1>1, <1>3, <1>8 DEF f

LEMMA TrueShareType ==
  ASSUME Inv, NEW u \in Users, NEW t \in Totals, NEW c \in Chats
  PROVE  TrueShare(u, t, c) \in Int
<1> DEFINE U == UnreadBy(u, c, readSeqs[u][c])
           V == MentioningUnread(u, c, readSeqs[u][c])
<1>1. IsFiniteSet(1 .. LastSeq(c))
  BY LastSeqType, FS_Interval
<1>2. IsFiniteSet(U) /\ IsFiniteSet(V)
  <2>1. U \in SUBSET (1 .. LastSeq(c)) /\ V \in SUBSET U
    BY DEF UnreadBy, MentioningUnread
  <2> QED BY <1>1, <2>1, FS_Subset
<1>3. Cardinality(U) \in Int /\ Cardinality(V) \in Int
  BY <1>2, FS_CardinalityType
<1> HIDE DEF U, V
<1> QED BY <1>3 DEF TrueShare, Truth, InKind, U, V

\* What a chat stands for in a total, and what it should.
LEMMA ShareTrue ==
  ASSUME Inv, NEW u \in Users, NEW t \in Totals, NEW c \in Chats
  PROVE  LET state == counters.users[u][c]
             a == [cid |-> c, muted |-> state.muted, seq |-> state.seq]
         IN  /\ u \notin joined[c] => state = None
             /\ u \in joined[c] /\ state.async =>
                  state # None /\ AsyncShare(u, t, a) = TrueShare(u, t, c)
             /\ u \in joined[c] /\ ~state.async => KeptShare(state, t) = TrueShare(u, t, c)
<1> DEFINE state == counters.users[u][c]
           a == [cid |-> c, muted |-> state.muted, seq |-> state.seq]
           true == Truth(u, c, readSeqs[u][c])
<1>1. u \notin joined[c] => state = None
  BY DEF Inv, Follows
<1>2. ASSUME u \in joined[c]
      PROVE  /\ state # None /\ state.seq = readSeqs[u][c] /\ state.muted = mute[u][c]
             /\ getLocalCounter(u, c) = true
  BY <1>2, LocalTrue DEF Inv, Follows, LocalCountersTrue
<1>3. CASE u \in joined[c] /\ state.async
  <2>1. count(counters.index[c], u, state.seq) = true
    BY <1>2, <1>3 DEF getLocalCounter
  <2>2. a.cid = c /\ a.muted = state.muted
    OBVIOUS
  <2> HIDE DEF a, true
  <2>3. AsyncShare(u, t, a) = TrueShare(u, t, c)
    BY <1>2, <1>3, <2>1, <2>2 DEF AsyncShare, TrueShare, true
  <2> QED BY <1>2, <1>3, <2>3 DEF a
<1>4. CASE u \in joined[c] /\ ~state.async
  <2>1. state.counter = true.unread /\ state.mentions = true.unreadMentions
    <3>1. [unread |-> state.counter, unreadMentions |-> state.mentions] = true
      BY <1>2, <1>4 DEF getLocalCounter
    <3> HIDE DEF state, true
    <3> QED BY <3>1
  <2> HIDE DEF true
  <2>2. KeptShare(state, t) = TrueShare(u, t, c)
    BY <1>2, <1>4, <2>1 DEF KeptShare, Share, TrueShare, true
  <2> QED BY <1>2, <1>4, <2>2
<1> QED BY <1>1, <1>3, <1>4

LEMMA GlobalTrue == Inv => GlobalCountersTrue
<1> SUFFICES ASSUME Inv, NEW u \in Users, NEW t \in Totals
             PROVE  getGlobalCounter(u, t) =
                      MapThenSumSet(LAMBDA c : IF mute[u][c] /\ t[2] THEN 0
                               ELSE LET n == Truth(u, c, readSeqs[u][c])
                                    IN  InKind(t[1], IF t[3] = "messages" THEN n.unread
                                                     ELSE n.unreadMentions),
                                    {c \in Chats : u \in joined[c]})
  BY DEF GlobalCountersTrue
<1> DEFINE state(c) == counters.users[u][c]
           A == {c \in Chats : state(c) # None /\ state(c).async}
           J == {c \in Chats : u \in joined[c]}
           entry == [c \in Chats |-> [cid |-> c, muted |-> state(c).muted, seq |-> state(c).seq]]
           kept == [c \in Chats |-> KeptShare(state(c), t)]
           added == [c \in Chats |-> IF c \in A THEN AsyncShare(u, t, entry[c]) ELSE 0]
           all == [c \in Chats |-> IF c \in J THEN TrueShare(u, t, c) ELSE 0]
           D == counters.async[u]
           ofAsync == [a \in D |-> AsyncShare(u, t, a)]
           ofJoined == [c \in J |-> TrueShare(u, t, c)]
<1>1. IsFiniteSet(Chats) /\ IsFiniteSet(A) /\ IsFiniteSet(J)
  BY ChatsAssumption, FS_Subset
<1>2. D = {entry[c] : c \in A}
  <2>1. D \in SUBSET AsyncRef
    BY SoundParts DEF Inv
  <2>2. \A c \in Chats : {a \in D : a.cid = c} = IF c \in A THEN {entry[c]} ELSE {}
    BY DEF Inv, Sound, ListedOnce
  <2>3. \A a \in D : a.cid \in A /\ a = entry[a.cid]
    <3> TAKE a \in D
    <3>1. a.cid \in Chats
      BY <2>1 DEF AsyncRef
    <3>2. a \in {b \in D : b.cid = a.cid}
      OBVIOUS
    <3> HIDE DEF A, D, entry
    <3> QED BY <2>2, <3>1, <3>2
  <2>4. \A c \in A : entry[c] \in D
    <3> TAKE c \in A
    <3>1. c \in Chats
      OBVIOUS
    <3> HIDE DEF A, D, entry
    <3> QED BY <2>2, <3>1
  <2> HIDE DEF A, D, entry
  <2> QED BY <2>3, <2>4
<1>3. \A c, d \in A : entry[c] = entry[d] => c = d
  <2>1. \A c \in A : entry[c].cid = c
    OBVIOUS
  <2> HIDE DEF A, entry
  <2> QED BY <2>1
<1>4. /\ \A c \in Chats : /\ kept[c] \in Int /\ added[c] \in Int /\ all[c] \in Int
                          /\ all[c] = kept[c] + added[c]
      /\ \A c \in J : all[c] = ofJoined[c]
      /\ \A c \in A : c \in J
  <2> SUFFICES ASSUME NEW c \in Chats
               PROVE  /\ kept[c] \in Int /\ added[c] \in Int /\ all[c] \in Int
                      /\ all[c] = kept[c] + added[c]
                      /\ c \in A => c \in J
    OBVIOUS
  <2>1. TrueShare(u, t, c) \in Int
    BY TrueShareType
  <2>2. /\ u \notin joined[c] => state(c) = None
        /\ u \in joined[c] /\ state(c).async =>
             state(c) # None /\ AsyncShare(u, t, entry[c]) = TrueShare(u, t, c)
        /\ u \in joined[c] /\ ~state(c).async => KeptShare(state(c), t) = TrueShare(u, t, c)
    BY ShareTrue
  <2>3. CASE u \notin joined[c]
    BY <2>2, <2>3 DEF KeptShare
  <2>4. CASE u \in joined[c] /\ state(c).async
    BY <2>1, <2>2, <2>4 DEF KeptShare
  <2>5. CASE u \in joined[c] /\ ~state(c).async
    BY <2>1, <2>2, <2>5
  <2> QED BY <2>3, <2>4, <2>5
<1>5. counters.totals[u][t] = SumOf(kept, Chats)
  BY DEF Inv, TotalsExact
<1>6. \A c \in A : added[c] = ofAsync[entry[c]] /\ added[c] \in Int
  BY <1>2, <1>4
<1>7. \A c \in Chats \ A : added[c] = 0
  OBVIOUS
<1>8. \A c \in Chats \ J : all[c] = 0
  OBVIOUS
<1>9. IsFiniteSet(D)
  <2> DEFINE to == [c \in A |-> entry[c]]
  <2>1. to \in Surjection(A, D)
    BY <1>2 DEF Surjection
  <2> HIDE DEF to
  <2> QED BY <1>1, <2>1, FS_Surjection
<1>10. A \in SUBSET Chats /\ J \in SUBSET Chats
  OBVIOUS
<1>11. getGlobalCounter(u, t) = counters.totals[u][t] + SumOf(ofAsync, D)
  BY <1>9, GlobalCounterIs
<1>12. MapThenSumSet(LAMBDA c : IF mute[u][c] /\ t[2] THEN 0
                               ELSE LET n == Truth(u, c, readSeqs[u][c])
                                    IN  InKind(t[1], IF t[3] = "messages" THEN n.unread
                                                     ELSE n.unreadMentions), J)
         = SumOf(ofJoined, J)
  BY <1>1, GlobalTruthIs
<1> HIDE DEF state, A, J, entry, kept, added, all, D, ofAsync, ofJoined
<1>13. SumOf(all, Chats) = SumOf(kept, Chats) + SumOf(added, Chats)
  BY <1>1, <1>4, SumAdds
<1>14. SumOf(added, Chats) = SumOf(ofAsync, D)
  <2>1. SumOf(added, Chats) = SumOf(added, A)
    BY <1>1, <1>4, <1>7, <1>10, SumWithin
  <2>2. SumOf(added, A) = SumOf(ofAsync, {entry[c] : c \in A})
    BY <1>1, <1>3, <1>6, SumRenamed
  <2> QED BY <1>2, <2>1, <2>2
<1>15. SumOf(all, Chats) = SumOf(ofJoined, J)
  <2>1. SumOf(all, Chats) = SumOf(all, J)
    BY <1>1, <1>4, <1>8, <1>10, SumWithin
  <2>2. SumOf(all, J) = SumOf(ofJoined, J)
    BY <1>1, <1>4, SumSame
  <2> QED BY <2>1, <2>2
<1> QED BY <1>5, <1>11, <1>12, <1>13, <1>14, <1>15 DEF J

\* Each of the totals a user is shown, the kept ones with the chats counted on
\* the read, is always the sum of the truth over the chats he is in: no
\* increment is lost or made twice, whatever joins, leaves, is sent or is read.
THEOREM GlobalCountersAlwaysTrue == Spec => []GlobalCountersTrue
BY GlobalTrue, AlwaysSound, PTL
=============================================================================
