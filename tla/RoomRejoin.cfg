CONSTANTS
    alice = alice
    bob = bob
    a1 = a1
    a2 = a2
    b1 = b1
    lobby = lobby
    None = None
    Users <- ReconnectUsers
    Sessions <- ReconnectSessions
    Owner <- ReconnectOwner
    Leavers <- ReconnectLeavers
    RoomIds <- MCRoomIds
    ChannelSize = 1
    AckSize = 1
    MaxMessages = 0
    MaxRequests = 2
    HostLeaves = FALSE
SPECIFICATION RoomSpec
PROPERTIES
    AlreadyInRoomIsServed
CHECK_DEADLOCK FALSE
