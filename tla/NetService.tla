------------------------------ MODULE NetService ------------------------------
(***************************************************************************)
(* The sockets of IocpDriver, the messages its IO thread posts about them  *)
(* and the clients that a ServerItem and the IoManager keep by socket: one *)
(* listening server, which is registered after it listens, and             *)
(* connections that the program opens itself.                              *)
(*                                                                         *)
(* A socket handle is used again when its socket was closed.  Threads keep *)
(* handles in messages, contexts and clients and look no further, so conn, *)
(* the number of the connection a handle stands for, is known to the model *)
(* alone.  The model ends (stray) where a thread uses a handle for another *)
(* socket than the one it means: from there on contexts read and close the *)
(* connections of others.  The counter of PostAcceptIo is in AcceptIo, the *)
(* bytes in PacketStream.                                                  *)
(***************************************************************************)
EXTENDS Integers, Sequences

CONSTANTS Sockets,      \* handles
          QueueSize,    \* places of a RingQueue<IoMsg>
          MaxConns,     \* bound: connections
          MaxPackets    \* bound: packets of one connection

VARIABLES
  m_ServerList,   \* the server is in it
  socket,         \* the socket of each handle
  port,           \* the completions that wait for the IO thread
  serverMsgs, managerMsgs,        \* ServerItem's and IoManager's m_MsgQueue
  serverClients, managerClients,  \* their m_ClientList: 0, or the connection of the client
  server,         \* what the server's thread does
  connecting,     \* ConnectServer: the connection it has made and not added, if any
  conns, sent,    \* connections so far, and the packets of each
  over,           \* history: connections that ended
  grouped,        \* history: the client and the connection of each packet the server gave to GroupPackage
  quit,           \* history: connections that the application closed
  unheard,        \* history: connections whose end the manager heard too early or never
  stray           \* history: a handle was used for another socket

lists == <<m_ServerList, serverClients, managerClients>>
queues == <<port, serverMsgs, managerMsgs>>
history == <<over, grouped, quit, unheard, stray>>
vars == <<lists, queues, socket, server, connecting, conns, sent, history>>

Conns == 1 .. MaxConns

Closed == [is |-> "closed", conn |-> 0, op |-> "none", listen |-> FALSE]
Accepting == [Closed EXCEPT !.is = "accept", !.listen = TRUE]

Init ==
  /\ m_ServerList = FALSE
  /\ socket = [s \in Sockets |-> Closed]
  /\ port = <<>> /\ serverMsgs = <<>> /\ managerMsgs = <<>>
  /\ serverClients = [s \in Sockets |-> 0] /\ managerClients = [s \in Sockets |-> 0]
  /\ server = "messages" /\ connecting = <<>>
  /\ conns = 0 /\ sent = [k \in Conns |-> 0]
  /\ over = {} /\ grouped = {} /\ quit = {} /\ unheard = {} /\ stray = FALSE

Becomes(s, r) == socket' = [socket EXCEPT ![s] = r]
Completion(what, s) ==
  [what |-> what, s |-> s, conn |-> socket[s].conn, listen |-> socket[s].listen]

-----------------------------------------------------------------------------
(* Peers and the system                                                    *)

\* A completion of the operation a socket has outstanding.
Complete(s, what) ==
  /\ port' = Append(port, Completion(what, s))
  /\ UNCHANGED <<serverMsgs, managerMsgs>>

PeerConnects(s) ==
  /\ socket[s].is = "accept" /\ conns < MaxConns
  /\ conns' = conns + 1
  /\ Becomes(s, [socket[s] EXCEPT !.is = "up", !.conn = conns + 1])
  /\ port' = Append(port, [what |-> "accepted", s |-> s, conn |-> conns + 1, listen |-> TRUE])
  /\ UNCHANGED <<lists, serverMsgs, managerMsgs, server, connecting, sent, history>>

PeerSends(s) ==
  LET k == socket[s].conn
  IN  /\ socket[s].op = "recv" /\ sent[k] < MaxPackets
      /\ sent' = [sent EXCEPT ![k] = @ + 1]
      /\ Complete(s, "data")
      /\ Becomes(s, [socket[s] EXCEPT !.op = "none"])
      /\ UNCHANGED <<lists, server, connecting, conns, history>>

PeerCloses(s) ==
  /\ socket[s].op = "recv"
  /\ Complete(s, "closed") \/ Complete(s, "reset")
  /\ Becomes(s, [socket[s] EXCEPT !.op = "none"])
  /\ over' = over \cup {socket[s].conn}
  /\ UNCHANGED <<lists, server, connecting, conns, sent, grouped, quit, unheard, stray>>

Disconnected(s) ==
  /\ socket[s].op = "disconnect"
  /\ Complete(s, "disconnected")
  /\ Becomes(s, [socket[s] EXCEPT !.op = "none"])
  /\ UNCHANGED <<lists, server, connecting, conns, sent, history>>

\* What an outstanding operation completes with when its socket is closed.
Aborted(op) ==
  CASE op = "recv" -> {"closed", "reset"}
    [] op = "disconnect" -> {"disconnected", "reset"}
    [] OTHER -> {}

\* The program closes the socket it takes for that of connection k.
closesocket(s, k) ==
  /\ stray' = (socket[s].is # "closed" /\ socket[s].conn # k)
  /\ over' = over \cup {k}
  /\ Becomes(s, Closed)
  /\ IF Aborted(socket[s].op) = {} THEN UNCHANGED queues
     ELSE \E what \in Aborted(socket[s].op) : Complete(s, what)

-----------------------------------------------------------------------------
(* IoManager::PostIoMsg                                                    *)

\* The end of a connection that the program made goes unheard.
Unheard(c) == unheard' = IF c.listen THEN unheard ELSE unheard \cup {c.conn}

\* The server's queue is tried until it has room; what finds the manager's
\* full is lost.
Post(what, c) ==
  LET m == [what |-> what, s |-> c.s, conn |-> c.conn]
  IN  IF c.listen /\ m_ServerList
      THEN /\ Len(serverMsgs) < QueueSize
           /\ serverMsgs' = Append(serverMsgs, m)
           /\ UNCHANGED <<managerMsgs, unheard>>
      ELSE /\ managerMsgs' = IF Len(managerMsgs) < QueueSize THEN Append(managerMsgs, m)
                             ELSE managerMsgs
           /\ IF Len(managerMsgs) = QueueSize /\ what = "disconn" THEN Unheard(c)
              ELSE UNCHANGED unheard
           /\ UNCHANGED serverMsgs

NoPost == UNCHANGED <<serverMsgs, managerMsgs, unheard>>

-----------------------------------------------------------------------------
(* The IO thread, DealIoImpl and the callbacks                             *)

\* The next completion, and a call on its socket: on the one that is meant,
\* on a handle that is closed, or on another socket.
Take(whats) == port # <<>> /\ Head(port).what \in whats /\ port' = Tail(port)
Meant(c) == socket[c.s].conn = c.conn
Call(c, r) ==
  IF Meant(c) THEN Becomes(c.s, r) /\ UNCHANGED stray
  ELSE stray' = (socket[c.s].is # "closed") /\ UNCHANGED socket

\* OnAccept and OnRecv post their message and the next receive.
OnAccept ==
  LET c == Head(port)
  IN  /\ Take({"accepted"})
      /\ Post("accept", c)
      /\ Call(c, [socket[c.s] EXCEPT !.op = "recv"])
      /\ UNCHANGED <<lists, server, connecting, conns, sent, over, grouped, quit>>

OnRecv ==
  LET c == Head(port)
  IN  /\ Take({"data"})
      /\ Post("recv", c)
      /\ Call(c, [socket[c.s] EXCEPT !.op = "recv"])
      /\ UNCHANGED <<lists, server, connecting, conns, sent, over, grouped, quit>>

\* OnRecv without bytes; when DisconnectEx fails the context is freed and the
\* socket stays open.
OnRecvClosed ==
  LET c == Head(port)
  IN  /\ Take({"closed"})
      /\ \/ Call(c, [socket[c.s] EXCEPT !.is = "down", !.op = "disconnect"]) /\ NoPost
         \/ /\ Call(c, [socket[c.s] EXCEPT !.is = "down"])
            /\ Unheard(c)
            /\ UNCHANGED <<serverMsgs, managerMsgs>>
      /\ UNCHANGED <<lists, server, connecting, conns, sent, over, grouped, quit>>

\* Error 64: no callback, no message.
Error64 ==
  LET c == Head(port)
  IN  /\ Take({"reset"})
      /\ Call(c, [socket[c.s] EXCEPT !.is = "down"])
      /\ Unheard(c)
      /\ UNCHANGED <<lists, serverMsgs, managerMsgs, server, connecting, conns, sent, over, grouped, quit>>

\* Mutant: the message is forgotten.
OnDisconnSilent ==
  LET c == Head(port)
  IN  /\ Take({"disconnected"})
      /\ NoPost
      /\ \/ Call(c, Closed)
         \/ Call(c, IF c.listen THEN Accepting ELSE socket[c.s])
      /\ UNCHANGED <<lists, server, connecting, conns, sent, over, grouped, quit>>

\* PostAcceptIo takes the socket again; at its limit it closes it.  Without a
\* listening socket AcceptEx fails, and the socket stays open for ever.
OnDisconn ==
  LET c == Head(port)
  IN  /\ Take({"disconnected"})
      /\ Post("disconn", c)
      /\ \/ Call(c, Closed)
         \/ Call(c, IF c.listen THEN Accepting ELSE socket[c.s])
      /\ UNCHANGED <<lists, server, connecting, conns, sent, over, grouped, quit>>

DealIoImpl == OnAccept \/ OnRecv \/ OnRecvClosed \/ Error64 \/ OnDisconn

\* The accept thread: a new socket.
MtAcceptIo(s) ==
  /\ socket[s].is = "closed"
  /\ Becomes(s, Accepting)
  /\ UNCHANGED <<lists, queues, server, connecting, conns, sent, history>>

-----------------------------------------------------------------------------
(* The thread of the server, DealIoMsgQueue                                *)

\* CreateServer's last step; the accept thread has been at work since Listen.
AddServer ==
  /\ ~m_ServerList /\ m_ServerList' = TRUE
  /\ UNCHANGED <<serverClients, managerClients, queues, socket, server, connecting, conns, sent, history>>

\* AddClient leaves a client alone that the socket has already; DelClient and
\* FindClient go by the socket.
ProcessIoMsg(clients, m) ==
  CASE m.what = "accept" /\ clients[m.s] = 0 -> [clients EXCEPT ![m.s] = m.conn]
    [] m.what = "disconn" -> [clients EXCEPT ![m.s] = 0]
    [] OTHER -> clients

Grouped(m) ==
  IF m.what = "recv" /\ serverClients[m.s] # 0
  THEN {[client |-> serverClients[m.s], conn |-> m.conn]} ELSE {}

ServerMsg ==
  /\ server = "messages" /\ serverMsgs # <<>>
  /\ serverMsgs' = Tail(serverMsgs)
  /\ serverClients' = ProcessIoMsg(serverClients, Head(serverMsgs))
  /\ grouped' = grouped \cup Grouped(Head(serverMsgs))
  /\ UNCHANGED <<m_ServerList, managerClients, port, managerMsgs, socket, server, connecting,
                 conns, sent, over, quit, unheard, stray>>

\* The queue was empty: the clients are looked at, and the queue again.
Turn ==
  /\ \/ server = "messages" /\ serverMsgs = <<>> /\ m_ServerList /\ server' = "clients"
     \/ server = "clients" /\ server' = "messages"
  /\ UNCHANGED <<lists, queues, socket, connecting, conns, sent, history>>

\* Mutant: the client stays.
TimeOutKeeps(s) ==
  /\ server = "clients" /\ serverClients[s] # 0
  /\ closesocket(s, serverClients[s])
  /\ UNCHANGED <<lists, server, connecting, conns, sent, grouped, quit, unheard>>

\* A client that was silent for too long is closed and erased.
TimeOut(s) ==
  /\ server = "clients" /\ serverClients[s] # 0
  /\ closesocket(s, serverClients[s])
  /\ serverClients' = [serverClients EXCEPT ![s] = 0]
  /\ UNCHANGED <<m_ServerList, managerClients, server, connecting, conns, sent, grouped, quit, unheard>>

\* The application closes a client: the socket, not the client.
CloseConn(s) ==
  /\ serverClients[s] # 0
  /\ socket[s].is # "closed"
  /\ closesocket(s, serverClients[s])
  /\ quit' = quit \cup {serverClients[s]}
  /\ UNCHANGED <<lists, server, connecting, conns, sent, grouped, unheard>>

-----------------------------------------------------------------------------
(* The thread of the manager, and the connections of the program           *)

\* A message for no server: the manager ignores that a connection was
\* accepted.
ManagerMsg ==
  LET m == Head(managerMsgs)
  IN  /\ managerMsgs # <<>>
      /\ managerMsgs' = Tail(managerMsgs)
      /\ managerClients' = IF m.what = "accept" THEN managerClients
                           ELSE ProcessIoMsg(managerClients, m)
      /\ unheard' = IF m.what = "disconn" /\ managerClients[m.s] # m.conn
                    THEN unheard \cup {m.conn} ELSE unheard
      /\ UNCHANGED <<m_ServerList, serverClients, port, serverMsgs, socket, server, connecting,
                     conns, sent, over, grouped, quit, stray>>

\* ConnectServer: Connect posts a receive, and the client is added after it.
Connect(s) ==
  /\ connecting = <<>> /\ socket[s].is = "closed" /\ conns < MaxConns
  /\ conns' = conns + 1
  /\ Becomes(s, [is |-> "up", conn |-> conns + 1, op |-> "recv", listen |-> FALSE])
  /\ connecting' = <<[s |-> s, conn |-> conns + 1]>>
  /\ UNCHANGED <<lists, queues, server, sent, history>>

\* A client that is there already is left alone.
AddClient ==
  /\ connecting # <<>>
  /\ LET c == Head(connecting)
     IN  managerClients' = [managerClients EXCEPT ![c.s] = IF @ = 0 THEN c.conn ELSE @]
  /\ connecting' = <<>>
  /\ UNCHANGED <<m_ServerList, serverClients, queues, socket, server, conns, sent, history>>

\* IoManager::CloseConn: the client is deleted, the socket closed.
Disconn(s) ==
  /\ managerClients[s] # 0
  /\ closesocket(s, managerClients[s])
  /\ managerClients' = [managerClients EXCEPT ![s] = 0]
  /\ quit' = quit \cup {managerClients[s]}
  /\ UNCHANGED <<m_ServerList, serverClients, server, connecting, conns, sent, grouped, unheard>>

-----------------------------------------------------------------------------
System(s) == PeerConnects(s) \/ PeerSends(s) \/ PeerCloses(s) \/ Disconnected(s) \/ MtAcceptIo(s)
Application(s) == CloseConn(s) \/ Connect(s) \/ Disconn(s)

Next ==
  /\ ~stray
  /\ \/ DealIoImpl \/ AddServer \/ ServerMsg \/ Turn \/ ManagerMsg \/ AddClient
     \/ \E s \in Sockets : System(s) \/ Application(s) \/ TimeOut(s)

Spec == Init /\ [][Next]_vars

\* The threads run; a DisconnectEx ends.  A client that nothing arrives for is
\* found silent by one of the rounds over the clients, which go on for ever.
FairSpec ==
  /\ Spec
  /\ WF_vars(~stray /\ DealIoImpl) /\ WF_vars(~stray /\ ServerMsg)
  /\ WF_vars(~stray /\ Turn) /\ WF_vars(~stray /\ ManagerMsg)
  /\ \A s \in Sockets : WF_vars(~stray /\ Disconnected(s)) /\ SF_vars(~stray /\ TimeOut(s))

-----------------------------------------------------------------------------
TypeOK ==
  /\ m_ServerList \in BOOLEAN /\ stray \in BOOLEAN
  /\ socket \in [Sockets -> [is : {"closed", "accept", "up", "down"}, conn : 0 .. MaxConns,
                             op : {"none", "recv", "disconnect"}, listen : BOOLEAN]]
  /\ Len(serverMsgs) <= QueueSize /\ Len(managerMsgs) <= QueueSize
  /\ serverClients \in [Sockets -> 0 .. MaxConns] /\ managerClients \in [Sockets -> 0 .. MaxConns]
  /\ server \in {"messages", "clients"} /\ Len(connecting) <= 1
  /\ conns \in 0 .. MaxConns /\ sent \in [Conns -> 0 .. MaxPackets]
  /\ over \subseteq Conns /\ quit \subseteq Conns /\ unheard \subseteq Conns
  /\ grouped \subseteq [client : Conns, conn : Conns]

\* The server gives a packet to the client of the connection it arrived on,
\* though messages name a socket and sockets are used again: what it posts and
\* adds goes through one queue.  The exception: a client whose socket the
\* application closed stays, and gets the packets of the next connection on the
\* handle.
PacketsStayApart == \A g \in grouped : g.client = g.conn \/ g.client \in quit

\* The client of a connection that is over goes.  With the server, which times
\* out those it hears nothing of, always; with the manager, which does not,
\* when the end of the connection reaches it, and after AddClient.
DeadClientsGo ==
  \A s \in Sockets, k \in Conns :
    /\ serverClients[s] = k /\ k \in over ~> serverClients[s] # k \/ stray
    /\ managerClients[s] = k /\ k \in over ~> managerClients[s] # k \/ k \in unheard \/ stray

=============================================================================
