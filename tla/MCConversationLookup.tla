------------------------ MODULE MCConversationLookup ------------------------
(* Model checking instance of ConversationLookup: three calls, three users. *)
EXTENDS ConversationLookup, TLC

CONSTANTS c1, c2, c3

MCCalls == {c1, c2, c3}
MCPeople == 1..3
CallSymmetry == Permutations(MCCalls)
=============================================================================
