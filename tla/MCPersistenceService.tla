------------------------ MODULE MCPersistenceService ------------------------
(* Model checking instance of PersistenceService: two messages and the      *)
(* code's three retries.                                                    *)
EXTENDS PersistenceService

CONSTANTS m1, m2

MCIds == {m1, m2}
=============================================================================
