CONSTANTS
    direct_messages = direct_messages
    room_messages = room_messages
    Direct = direct_messages
    Room = room_messages
    MaxQueued <- MCMaxQueued
    MaxFaults <- MCMaxFaults
    Malformed <- MCMalformed
SPECIFICATION RabbitFairSpec
INVARIANTS
    GoneMeansTried
    WorksInOrder
PROPERTIES
    EveryMessageLeaves
CHECK_DEADLOCK FALSE
