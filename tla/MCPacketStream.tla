--------------------------- MODULE MCPacketStream ---------------------------
(* A keep-alive, a message of three packets and one of a single packet.    *)
EXTENDS PacketStream

CONSTANTS keepAlive, a, b

MCCmds == {keepAlive, a, b}
MCMessages == {[cmd |-> keepAlive, len |-> 0], [cmd |-> a, len |-> 3],
               [cmd |-> b, len |-> 1]}
=============================================================================
