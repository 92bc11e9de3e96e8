CONSTANTS
    alice = alice
    bob = bob
    a1 = a1
    a2 = a2
    b1 = b1
    lobby = lobby
    None = None
    Users <- PairUsers
    Sessions <- PairSessions
    Owner <- PairOwner
    RoomIds <- MCRoomIds
    Leavers <- PairLeavers
    ChannelSize = 1
    AckSize = 1
    MaxMessages = 2
    MaxRequests = 2
    HostLeaves = FALSE
SPECIFICATION RoomSpec
INVARIANTS
    SameOrderForAll
    NotFoundGoesNowhere
CHECK_DEADLOCK FALSE
