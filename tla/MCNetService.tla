---------------------------- MODULE MCNetService ----------------------------
(***************************************************************************)
(* NetService with a name of its own for whatever AcceptIo, the other view *)
(* of the same driver, has too: what TLC checks, and what is proved beside *)
(* AcceptIo.                                                               *)
(***************************************************************************)
EXTENDS Naturals

CONSTANTS Sockets, QueueSize, MaxConns, MaxPackets

\* RingQueue makes room for two messages at least.
ASSUME NetAssumption == QueueSize \in Nat \ {0} /\ MaxConns \in Nat /\ MaxPackets \in Nat

VARIABLES m_ServerList, socket, port, serverMsgs, managerMsgs, serverClients, managerClients,
          server, connecting, conns, sent, over, grouped, quit, unheard, stray

Net == INSTANCE NetService

NetSpec == Net!FairSpec

\* The server gives a packet to the client of the connection it arrived on, or
\* to one whose socket the application closed.
PacketsStayApart == Net!PacketsStayApart

\* The client of a connection that is over goes.
DeadClientsGo == Net!DeadClientsGo
=============================================================================
