CONSTANTS
    c1 = c1
    c2 = c2
    c3 = c3
    Missing = Missing
    Calls <- MCCalls
    People <- MCPeople
SYMMETRY CallSymmetry
SPECIFICATION LookupSpec
INVARIANTS
    OneRowPerPair
    ReplyBelongsToPair
PROPERTIES
    SettledPairKeepsConversation
CHECK_DEADLOCK FALSE
