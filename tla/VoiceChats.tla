------------------------------ MODULE VoiceChats ------------------------------
(***************************************************************************)
(* Voice chats and who is in them: ParticipantsRepository.ts and           *)
(* VoiceChatsRepository.ts behind their mediators, and the resolvers that  *)
(* create, join and end the chats.  Every action is one transaction.       *)
(*                                                                         *)
(* The same facts are kept several times: the status and role of each      *)
(* participant, a counter for each list, the chat a user is in             *)
(* (VoiceChatParticipantActive), `active` of the chat and the voice chat   *)
(* its room names.  An operation writes them one after the other, and the  *)
(* operations call each other: joining a chat leaves another, leaving it   *)
(* may end it, and ending it makes everybody leave.                        *)
(*                                                                         *)
(* An operation is a function on the state of the database, so that one    *)
(* can be applied to the outcome of another.                               *)
(***************************************************************************)
EXTENDS Integers, FiniteSets

CONSTANTS
    Users,
    Chats,        \* ids of voice chats
    InRoom,       \* those created in the room, by voiceChatCreateInChat
    RoomAdmins,   \* users with admin permissions in the room
    NoChat,       \* 0 or null where a chat could be
    MaxHands      \* bound on the hands that are raised

ASSUME ChatsAssumption == InRoom \subseteq Chats /\ RoomAdmins \subseteq Users
ASSUME NoChatAssumption == NoChat \notin Chats
ASSUME UsersAssumption == IsFiniteSet(Users) /\ MaxHands \in Nat

VARIABLES
    chat,       \* ConversationVoice: [Chats -> {"none", "active", "ended"}]
    part,       \* VoiceChatParticipant of each chat and user
    counters,   \* VoiceChatParticipantCounter of each chat
    activeIn,   \* VoiceChatParticipantActive of each user
    voiceChat,  \* voiceChat of the room's RoomProfile
    stale,      \* history: users who, while in a chat, left or were kicked from
                \*          another one they were not in
    demoted     \* history: active chats of which an admin was made speaker or
                \*          listener

dbVars == <<chat, part, counters, activeIn, voiceChat>>
voiceVars == <<dbVars, stale, demoted>>

NoRole == "null"
Roles == {"listener", "speaker", "admin"}
Participants == [status : {"none", "joined", "left", "kicked"},
                 role : Roles \cup {NoRole}, handRaised : BOOLEAN]
Lists == {"listener", "speaker", "admin", "handRaised"}

VoiceTypeOK ==
    /\ chat \in [Chats -> {"none", "active", "ended"}]
    /\ part \in [Chats -> [Users -> Participants]]
    /\ counters \in [Chats -> [Lists -> Int]]
    /\ activeIn \in [Users -> Chats \cup {NoChat}]
    /\ voiceChat \in InRoom \cup {NoChat}
    /\ stale \subseteq Users /\ demoted \subseteq Chats

VoiceInit ==
    /\ chat = [c \in Chats |-> "none"]
    /\ part = [c \in Chats |-> [u \in Users |->
                 [status |-> "none", role |-> NoRole, handRaised |-> FALSE]]]
    /\ counters = [c \in Chats |-> [l \in Lists |-> 0]]
    /\ activeIn = [u \in Users |-> NoChat]
    /\ voiceChat = NoChat
    /\ stale = {} /\ demoted = {}

\* What the transaction of an operation reads, and what it leaves behind.
Db == [chat |-> chat, part |-> part, counter |-> counters,
       activeIn |-> activeIn, voiceChat |-> voiceChat]

\* The transaction leaves S behind.  For the history: it makes the users of us
\* stale if they are in a chat, and demotes an admin of the chats cs.
CommitMarking(S, us, cs) ==
    /\ chat' = S.chat /\ part' = S.part /\ counters' = S.counter
    /\ activeIn' = S.activeIn /\ voiceChat' = S.voiceChat
    /\ stale' = stale \cup {u \in us : activeIn[u] # NoChat}
    /\ demoted' = {c \in demoted \cup cs : S.chat[c] = "active"}

Commit(S) == CommitMarking(S, {}, {})

----------------------------------------------------------------------------
(* Participants *)

\* VoiceChatParticipantStatus
IsJoined(p) == p.status = "joined"
IsAdmin(p) == IsJoined(p) /\ p.role = "admin"
IsSpeaker(p) == IsJoined(p) /\ p.role \in {"speaker", "admin"}
IsListener(p) == IsJoined(p) /\ p.role = "listener"

\* The index of those with a hand up, which one leaves by leaving the chat.
IsHandRaised(p) == IsJoined(p) /\ p.handRaised

On(l, p) ==
    CASE l = "listener" -> IsListener(p)
      [] l = "speaker" -> IsSpeaker(p)
      [] l = "admin" -> IsAdmin(p)
      [] l = "handRaised" -> IsHandRaised(p)

Members(S, c) == {u \in Users : IsJoined(S.part[c][u])}

\* The three lists #changeStatus counts, after the participants of us became q.
Counted(S, c, us, q) ==
    [S.counter[c] EXCEPT
        !["listener"] = @ + Cardinality({u \in us : IsListener(q[u])})
                          - Cardinality({u \in us : IsListener(S.part[c][u])}),
        !["speaker"] = @ + Cardinality({u \in us : IsSpeaker(q[u])})
                         - Cardinality({u \in us : IsSpeaker(S.part[c][u])}),
        !["admin"] = @ + Cardinality({u \in us : IsAdmin(q[u])})
                       - Cardinality({u \in us : IsAdmin(S.part[c][u])})]

\* #changeStatus of each of us in c to what q says, without the active chat.
Rewrite(S, c, us, q) ==
    [S EXCEPT !.part[c] = [u \in Users |-> IF u \in us THEN q[u] ELSE @[u]],
              !.counter[c] = Counted(S, c, us, q)]

\* #changeStatus of us to 'left' or 'kicked'.  The active chat of each is reset,
\* even if it is another one.
Gone(S, c, us, status) ==
    LET gone == {u \in us : S.part[c][u].status # status}
        q == [u \in Users |->
                [S.part[c][u] EXCEPT !.status = status,
                                     !.role = IF status = "kicked" THEN NoRole ELSE @]]
    IN [Rewrite(S, c, gone, q) EXCEPT
            !.activeIn = [u \in Users |-> IF u \in gone THEN NoChat ELSE @[u]]]

\* setChatActive(id, false): all who are joined leave, and the room of the chat,
\* if it has one, has no voice chat any more, whichever it names.
SetInactive(S, c) ==
    IF S.chat[c] # "active" THEN S
    ELSE [Gone(S, c, Members(S, c), "left") EXCEPT
            !.chat[c] = "ended",
            !.voiceChat = IF c \in InRoom THEN NoChat ELSE @]

\* leaveChat: the chat ends with its last admin.
LeaveChat(S, c, u) ==
    LET T == Gone(S, c, {u}, "left")
    IN IF T.counter[c]["admin"] = 0 THEN SetInactive(T, c) ELSE T

\* Mutant: the chat the user comes from is not left.
ChangeRole_StaysInOther(S, c, u, role) ==
    IF IsJoined(S.part[c][u]) /\ S.part[c][u].role = role THEN S
    ELSE LET q == [v \in Users |-> [S.part[c][v] EXCEPT !.status = "joined", !.role = role]]
         IN [Rewrite(S, c, {u}, q) EXCEPT !.activeIn[u] = c]

\* #changeStatus of u to a role: joined in c, and no longer where u was before.
ChangeRole(S, c, u, role) ==
    IF IsJoined(S.part[c][u]) /\ S.part[c][u].role = role THEN S
    ELSE LET q == [v \in Users |-> [S.part[c][v] EXCEPT !.status = "joined", !.role = role]]
             T == IF S.activeIn[u] \in Chats \ {c} THEN LeaveChat(S, S.activeIn[u], u) ELSE S
         IN [Rewrite(T, c, {u}, q) EXCEPT !.activeIn[u] = c]

\* The hand of u is put down, and counted once less if it was raised.
HandDown(S, c, u) ==
    [S EXCEPT !.part[c][u].handRaised = FALSE,
              !.counter[c]["handRaised"] = @ - IF S.part[c][u].handRaised THEN 1 ELSE 0]

\* The first is admin; another has the role of before, or the one asked for.
JoinRole(S, c, u, role) ==
    IF S.counter[c]["admin"] = 0 THEN "admin"
    ELSE IF S.part[c][u].role # NoRole THEN S.part[c][u].role
    ELSE IF role # NoRole THEN role ELSE "listener"

\* joinChat: not into a chat that has ended, and not twice.  (An ended chat has a
\* duration: the branch that opens one with duration 0 again is left out.)
JoinChat(S, c, u, role) ==
    IF S.chat[c] = "ended" \/ IsJoined(S.part[c][u]) THEN S
    ELSE ChangeRole(S, c, u, JoinRole(S, c, u, role))

----------------------------------------------------------------------------
(* The operations *)

\* voiceChatCreate and voiceChatCreateWithMedia: a new chat and its first member.
CreateChat(c, u) ==
    /\ c \notin InRoom /\ chat[c] = "none"
    /\ Commit(JoinChat([Db EXCEPT !.chat[c] = "active"], c, u, NoRole))

\* voiceChatCreateInChat: one at a time in the room.
CreateInChat(c, u) ==
    /\ c \in InRoom /\ chat[c] = "none"
    /\ u \in RoomAdmins /\ voiceChat = NoChat
    /\ Commit(JoinChat([Db EXCEPT !.chat[c] = "active", !.voiceChat = c], c, u, NoRole))

\* voiceChatJoin asks for admin rights for an admin of the room,
\* voiceChatJoinWithMedia never does.
Join(c, u) ==
    /\ chat[c] # "none"
    /\ \E role \in {NoRole} \cup (IF c \in InRoom /\ u \in RoomAdmins THEN {"admin"} ELSE {}) :
         Commit(JoinChat(Db, c, u, role))

\* updateHandRaised, of a listener only.
UpdateHandRaised(c, u, raised) ==
    /\ IsListener(part[c][u]) /\ part[c][u].handRaised # raised
    /\ raised => Cardinality({x \in Chats \X Users : part[x[1]][x[2]].handRaised}) < MaxHands
    /\ Commit([Db EXCEPT !.part[c][u].handRaised = raised,
                         !.counter[c]["handRaised"] = @ + IF raised THEN 1 ELSE -1])

\* voiceChatLeave, and the reaper of the calls for a user whose peer timed out.
Leave(c, u) ==
    /\ part[c][u].status # "none"
    /\ CommitMarking(LeaveChat(Db, c, u),
                     IF part[c][u].status = "kicked" THEN {u} ELSE {}, {})

\* Mutant: the hand that was raised stays counted.
Promote_KeepsCount(c, by, u) ==
    /\ IsAdmin(part[c][by]) /\ part[c][u].status # "none"
    /\ IsListener(part[c][u]) \/ ~part[c][u].handRaised
    /\ CommitMarking([ChangeRole(Db, c, u, "speaker") EXCEPT !.part[c][u].handRaised = FALSE],
                     {}, IF IsAdmin(part[c][u]) THEN {c} ELSE {})

\* promoteParticipant.  The guard lets everybody through but one who is not a
\* listener and has a hand raised: an admin becomes speaker, and one who left or
\* was kicked is joined again.
PromoteParticipant(c, by, u) ==
    /\ IsAdmin(part[c][by]) /\ part[c][u].status # "none"
    /\ IsListener(part[c][u]) \/ ~part[c][u].handRaised
    /\ CommitMarking(HandDown(ChangeRole(Db, c, u, "speaker"), c, u),
                     {}, IF IsAdmin(part[c][u]) THEN {c} ELSE {})

\* demoteParticipant, by an admin or oneself.
DemoteParticipant(c, by, u) ==
    /\ by = u \/ IsAdmin(part[c][by])
    /\ IsSpeaker(part[c][u])
    /\ CommitMarking(HandDown(ChangeRole(Db, c, u, "listener"), c, u),
                     {}, IF IsAdmin(part[c][u]) THEN {c} ELSE {})

\* updateAdminRights of another speaker.
UpdateAdminRights(c, by, u, isAdmin) ==
    /\ IsAdmin(part[c][by]) /\ by # u
    /\ IsSpeaker(part[c][u])
    /\ Commit(ChangeRole(Db, c, u, IF isAdmin THEN "admin" ELSE "speaker"))

\* Mutant: one may kick oneself.
Kick_Oneself(c, by, u) ==
    /\ IsAdmin(part[c][by]) /\ part[c][u].status # "none"
    /\ CommitMarking(Gone(Db, c, {u}, "kicked"),
                     IF part[c][u].status = "left" THEN {u} ELSE {}, {})

\* kick of another.  It never ends the chat.
Kick(c, by, u) ==
    /\ IsAdmin(part[c][by]) /\ by # u /\ part[c][u].status # "none"
    /\ CommitMarking(Gone(Db, c, {u}, "kicked"),
                     IF part[c][u].status = "left" THEN {u} ELSE {}, {})

\* endChat by an admin, which is also what the cleanup worker calls in the name
\* of the user who started the chat.
EndChat(c, by) ==
    /\ IsAdmin(part[c][by])
    /\ Commit(SetInactive(Db, c))

VoiceNext ==
    \E c \in Chats, u \in Users :
        \/ CreateChat(c, u) \/ CreateInChat(c, u)
        \/ Join(c, u) \/ Leave(c, u)
        \/ \E raised \in BOOLEAN : UpdateHandRaised(c, u, raised)
        \/ EndChat(c, u)
        \/ \E by \in Users :
            \/ PromoteParticipant(c, by, u) \/ DemoteParticipant(c, by, u)
            \/ \E isAdmin \in BOOLEAN : UpdateAdminRights(c, by, u, isAdmin)
            \/ Kick(c, by, u)

VoiceSpec == VoiceInit /\ [][VoiceNext]_voiceVars

----------------------------------------------------------------------------
(* Properties *)

\* Those who left, or were kicked, with their hand up: nothing puts it down.
HandsLeftUp(c) == {u \in Users : part[c][u].handRaised /\ ~IsJoined(part[c][u])}

\* The counters, which are only ever added to, are the sizes of the lists they
\* count, after whatever cascade of leaving and ending: the counts shown for a
\* chat, and the test for its last admin, can be trusted.  But for one: the raised
\* hands shown are more than those listed by exactly the hands of those who have
\* gone, and come right again only if these come back.
CountersAgree ==
    /\ VoiceTypeOK
    /\ \A c \in Chats, l \in Lists :
         counters[c][l] = Cardinality({u \in Users : On(l, part[c][u])})
                          + IF l = "handRaised" THEN Cardinality(HandsLeftUp(c)) ELSE 0

\* The room names its voice chat exactly while that one is active, hence has one
\* at a time.  The active chat of a user is one the user is in, and a user is in no
\* other, unless, while in one, they left or were kicked from another they were
\* not in.
PointersAgree ==
    /\ \A c \in InRoom : voiceChat = c <=> chat[c] = "active"
    /\ \A u \in Users, c \in Chats :
         /\ activeIn[u] = c => IsJoined(part[c][u])
         /\ IsJoined(part[c][u]) => activeIn[u] = c \/ u \in stale

\* Somebody is in a chat exactly while it is active: an ended chat has no member
\* left in it.  And somebody in it is an admin, unless an admin of it was made a
\* speaker or a listener: the last admin cannot be kicked, and takes the chat along
\* on leaving.
LedWhileActive ==
    \A c \in Chats :
        /\ chat[c] = "active" <=> \E u \in Users : IsJoined(part[c][u])
        /\ chat[c] = "active" => c \in demoted \/ \E u \in Users : IsAdmin(part[c][u])
==============================================================================
