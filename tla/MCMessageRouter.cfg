CONSTANTS
    alice = alice
    bob = bob
    a1 = a1
    a2 = a2
    a3 = a3
    b1 = b1
    None = None
    Users <- MCUsers
    Sessions <- MCSessions
    Owner <- MCOwner
SPECIFICATION FairSpec
INVARIANTS
    OnlineUsersAgree
    RunningIsRegistered
    RegistryInv
PROPERTIES
    NoStaleUnregister
    ImplementsPresence
    EveryRegistrationDecided
    EveryEndedSessionUnregistered
CHECK_DEADLOCK FALSE
