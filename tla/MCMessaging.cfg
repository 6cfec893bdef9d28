CONSTANTS
    a1 = a1
    a2 = a2
    Sockets = {a1, a2}
    Users = {"A", "B"}
    Owner <- MCOwner
    Convs = {"c"}
    Tasks = {"t"}
    MaxPending <- MCMaxPending
    MaxFaults = 1
    Jobs = {"j"}
    Conversation <- MCConversation
    Participants <- MCParticipants
    NoUser = "nobody"
    HasToken = {"B"}
    MaxStalls = 1
    People = {A, B, C}
    ChatRequests = {r1, r2}
    MaxThreads = 2
    MaxRows = 2
    MaxCalls = 2
    Reader = "ann"
    Peer = "bob"
    Limit = 1
    MaxMessages = 3
    MaxTime = 3
    MaxSends = 1
    MaxReads = 2
SPECIFICATION MCSpec
INVARIANTS
    JoinedIsMember
    ParticipantsTold
    SerialDirectUnique
    NewStaysUnread
    WalkComplete
CHECK_DEADLOCK FALSE
