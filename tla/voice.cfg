SPECIFICATION VoiceSpec
CONSTANTS
    Users = {u1, u2}
    Chats = {c1, c2}
    InRoom = {c1}
    RoomAdmins = {u1}
    NoChat = NoChat
    MaxHands = 2
INVARIANTS CountersAgree PointersAgree LedWhileActive
CHECK_DEADLOCK FALSE
