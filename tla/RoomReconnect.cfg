CONSTANTS
    alice = alice
    bob = bob
    a1 = a1
    a2 = a2
    b1 = b1
    lobby = lobby
    None = None
    Users <- ReconnectUsers
    Sessions <- ReconnectSessions
    Owner <- ReconnectOwner
    RoomIds <- MCRoomIds
    Leavers <- ReconnectLeavers
    ChannelSize = 1
    AckSize = 1
    MaxMessages = 1
    MaxRequests = 2
    HostLeaves = TRUE
SPECIFICATION RoomFairSpec
PROPERTIES
    OpenMemberStays
    DeadMembersCleaned
    EveryMessageAcknowledged
CHECK_DEADLOCK FALSE
