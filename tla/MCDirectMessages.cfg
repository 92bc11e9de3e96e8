CONSTANTS
    alice = alice
    a1 = a1
    a2 = a2
    bob = bob
    b1 = b1
    None = None
    Users <- MCUsers
    Sessions <- MCSessions
    Owner <- MCOwner
    Leavers <- MCLeavers
    ChannelSize = 1
    AckSize = 1
    MaxMessages = 2
SPECIFICATION MCSpec
INVARIANTS
    SenderOrderKept
    AckTellsTheTruth
PROPERTIES
    ImplementsRegistry
    EveryMessageAcknowledged
    EveryQueuedMessageWritten
CHECK_DEADLOCK FALSE
