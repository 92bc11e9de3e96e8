CONSTANTS
    c1 = c1
    c2 = c2
    c3 = c3
    Missing = Missing
    Calls <- MCCalls
    People <- MCPeople
SPECIFICATION LookupSpec
INVARIANTS
    SameConversationForAll
CHECK_DEADLOCK FALSE
