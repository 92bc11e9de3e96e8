------------------------ MODULE MCTenantRegistration ------------------------
(* Four requests of one account, with a quota of two per window.           *)
EXTENDS TenantRegistration

CONSTANTS q1, q2, q3, q4

MCRequests == {q1, q2, q3, q4}
MCMaxPerWindow == 2
=============================================================================
