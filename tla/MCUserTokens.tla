---------------------------- MODULE MCUserTokens ----------------------------
(* Two projects, one user name, two tokens that live two seconds of two     *)
(* ticks, one connection attempt (attempts share nothing), five seconds.    *)
EXTENDS UserTokens, TLC

CONSTANTS acme, globex, ann, t1, t2, v1

MCProjects == {acme, globex}
MCPeople == {ann}
MCRequests == {t1, t2}
MCVerifications == {v1}
MCTicksPerSecond == 2
MCTtl == 2
MCMaxTime == 9

Symmetric == Permutations(MCProjects) \cup Permutations(MCRequests)
=============================================================================
