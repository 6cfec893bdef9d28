CONSTANTS
    Reader = "ann"
    Peer = "bob"
    Limit = 2
    MaxMessages = 3
    MaxTime = 2
    MaxSends = 1
    MaxReads = 1
SPECIFICATION MessagesSpec
INVARIANT ShownIsRead
CHECK_DEADLOCK FALSE
