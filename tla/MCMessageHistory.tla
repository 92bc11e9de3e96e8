-------------------------- MODULE MCMessageHistory --------------------------
(* Five messages, pages of two; the text of the ids starts again after      *)
(* three.                                                                   *)
EXTENDS MessageHistory

MCPageSize == 2
MCWrap == 3
MCMaxIds == 5
=============================================================================
