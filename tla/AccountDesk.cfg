CONSTANTS
    Account = {1, 2, 3}
    Seeded <- MCSeeded
    Email = {"ana", "ben"}
    Conversation = {1, 2}
    Tab = {1, 2}
    Request = {1, 2, 3}
    Cookie = 1
    SignedIn = {1}
    MaxSent = 3
SPECIFICATION Spec
CHECK_DEADLOCK FALSE
INVARIANTS
    DeletedIsForgotten
    OwnConversationOnly
PROPERTIES
    ShutdownEnds
