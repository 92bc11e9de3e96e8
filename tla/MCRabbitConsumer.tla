-------------------------- MODULE MCRabbitConsumer --------------------------
(* Three direct messages, the second malformed, and two room messages;      *)
(* three faults.                                                            *)
EXTENDS RabbitConsumer, TLC

CONSTANTS direct_messages, room_messages

MCMaxQueued == (direct_messages :> 3) @@ (room_messages :> 2)
MCMaxFaults == 3
MCMalformed == {<<direct_messages, 2>>}
=============================================================================
