---------------------------- MODULE PacketStream ----------------------------
(***************************************************************************)
(* A message from SendPackage on one side to ClientItem::GroupPackage on   *)
(* the other: cut into packets by the sender, anywhere by TCP, into        *)
(* packets again by IocpDriver::OnRecv, and put together by the client     *)
(* item.  One AsyncResult serves one connection after another; several     *)
(* threads may send on a connection.                                       *)
(*                                                                         *)
(* Lengths are those of the code, scaled down; the pieces of a message are *)
(* pairs of its number and a position, and a packet names the message and  *)
(* the place in it that it was cut from, which only the sender knows:      *)
(* GroupPackage reads the command, the type and the data.  Compression is  *)
(* a choice of the length that is sent (nDestLen): uncompress gives a      *)
(* message back exactly when it gets all its pieces in order.              *)
(***************************************************************************)
EXTENDS Naturals, Sequences

CONSTANTS Threads,        \* threads that send
          Cmds,           \* message commands
          MSG_KEEP_ALIVE, \* the one that GroupPackage ignores
          Messages,       \* what is sent: records of cmd and len, as encoded
          MSG_HEAD_LEN,   \* 17: two bytes of length and the rest of the head
          MSG_DATA_LEN,   \* 8175
          MaxMessages,    \* bound: messages, on all connections
          MaxConns,       \* bound: connections
          MaxRefused      \* bound: packets that WSASend refuses, on all connections

ASSUME PacketAssumption ==
  /\ MSG_KEEP_ALIVE \in Cmds
  /\ MSG_HEAD_LEN \in Nat /\ MSG_HEAD_LEN >= 2
  /\ MSG_DATA_LEN \in Nat \ {0}
  /\ Messages \subseteq [cmd : Cmds, len : Nat]
  /\ MaxMessages \in Nat /\ MaxConns \in Nat /\ MaxRefused \in Nat

PACKET_MAX == MSG_HEAD_LEN + MSG_DATA_LEN
Conns == 1 .. MaxConns

VARIABLES
  conn,         \* the connection, 0 before the first
  up,           \* its peer has not closed it
  sender,       \* per thread: Idle, or how far SendPackage has come
  packets,      \* the packets sent on the connection
  stream,       \* the bytes of them TCP holds: <<packet, position>>
  phase,        \* which callback the AsyncResult waits for
  m_nCurFlag,   \* bytes of an incomplete packet, as the AsyncResult counts them
  buffer,       \* the bytes received from pRecvBuf on
  m_MsgQueue,   \* of the ServerItem
  client,       \* NoClient, or the connection and the reassembly map of a client
  begun,        \* history: messages so far, on all connections
  sent, delivered,  \* history, per connection and command: messages sent; what ProcessMessage gets
  base,         \* history, per connection: m_nCurFlag when it was accepted
  mixed,        \* history, per connection: commands that two threads sent at once
  refused       \* history: connection and command of the packets WSASend refused

peer == <<up, sender, packets>>
driver == <<phase, m_nCurFlag, buffer>>
server == <<m_MsgQueue, client>>
history == <<begun, sent, base, mixed, refused>>
vars == <<conn, peer, stream, driver, server, history, delivered>>

Idle == [msg |-> [id |-> 0, cmd |-> MSG_KEEP_ALIVE, len |-> 0], done |-> 0, type |-> {}]
NoClient == [conn |-> 0, group |-> [cmd \in {} |-> <<>>]]
Init ==
  /\ conn = 0 /\ up = FALSE
  /\ sender = [t \in Threads |-> Idle]
  /\ packets = <<>> /\ stream = <<>>
  /\ phase = "accept" /\ m_nCurFlag = 0 /\ buffer = <<>>
  /\ m_MsgQueue = <<>> /\ client = NoClient
  /\ begun = 0
  /\ sent = [c \in Conns |-> [cmd \in Cmds |-> <<>>]]
  /\ delivered = [c \in Conns |-> [cmd \in Cmds |-> <<>>]]
  /\ base = [c \in Conns |-> 0] /\ mixed = [c \in Conns |-> {}]
  /\ refused = <<>>

\* The pieces of a message, and from k to l of them.
Pieces(m, k, l) == [j \in 1 .. l - k + 1 |-> <<m.id, k + j - 1>>]
Encoded(m) == Pieces(m, 1, m.len)

\* A packet with a message's pieces after done, up to one; and bytes posted as
\* a packet that are not one.
Packet(m, done, upto, type) ==
  [msg |-> m, done |-> done, type |-> type, data |-> Pieces(m, done + 1, upto)]
Misframed == Packet(Idle.msg, 0, 0, {})

usMsgLen(p) == MSG_HEAD_LEN + Len(p.data)

-----------------------------------------------------------------------------
(* SendPackage                                                             *)

\* The packet's bytes follow those sent before.
WSASend(p) ==
  /\ packets' = Append(packets, p)
  /\ stream' = stream \o [k \in 1 .. usMsgLen(p) |-> <<Len(packets) + 1, k>>]
  /\ UNCHANGED refused

\* It fails, not for a broken connection only (no buffers are left), and PostSendIo
\* frees the packet.
WSASendFails(p) ==
  /\ Len(refused) < MaxRefused
  /\ refused' = Append(refused, <<conn, p.msg.cmd>>)
  /\ UNCHANGED <<packets, stream>>

\* SendPackage does not look at the result and goes on.
SendMessage(p) == WSASend(p) \/ WSASendFails(p)

\* The connection is over for the peer: what its threads still send gets
\* nowhere.
Down == up' = FALSE /\ sender' = [t \in Threads |-> Idle]

Begin(t, message) ==
  LET cmd == message.cmd
      m == [id |-> begun + 1, cmd |-> cmd, len |-> message.len]
      others == {u \in Threads \ {t} : sender[u] # Idle /\ sender[u].msg.cmd = cmd}
  IN /\ up
     /\ sender[t] = Idle
     /\ begun < MaxMessages /\ begun' = begun + 1
     /\ sent' = [sent EXCEPT ![conn][cmd] = Append(@, m)]
     /\ sender' = [sender EXCEPT ![t] = [msg |-> m, done |-> 0, type |-> {}]]
     /\ mixed' = [mixed EXCEPT ![conn] = IF others = {} THEN @ ELSE @ \cup {cmd}]
     /\ UNCHANGED <<conn, up, packets, stream, driver, server, delivered, base, refused>>

\* A message that fits in a packet.
SendWhole(t) ==
  /\ sender[t] # Idle
  /\ sender[t].msg.len <= MSG_DATA_LEN
  /\ SendMessage(Packet(sender[t].msg, 0, sender[t].msg.len, {"OP_COMPLETE"}))
  /\ sender' = [sender EXCEPT ![t] = Idle]
  /\ UNCHANGED <<conn, up, driver, server, begun, sent, base, mixed, delivered>>

\* nMsgDataType ^= flag
Toggle(type, flag) == (type \cup {flag}) \ (type \cap {flag})

\* One turn of the loop over a longer message.
SendFragment(t) ==
  /\ sender[t] # Idle
  /\ sender[t].msg.len > MSG_DATA_LEN
  /\ LET m == sender[t].msg
         done == sender[t].done
         last == m.len - done <= MSG_DATA_LEN
         upto == IF last THEN m.len ELSE done + MSG_DATA_LEN
         type == IF last
                 THEN Toggle(sender[t].type, "OP_IMCOMPLETE") \cup {"OP_COMPLETE"}
                 ELSE sender[t].type \cup {"OP_IMCOMPLETE"}
     IN /\ SendMessage(Packet(m, done, upto, type))
        /\ sender' = [sender EXCEPT ![t] = IF last THEN Idle
                                           ELSE [msg |-> m, done |-> upto, type |-> type]]
  /\ UNCHANGED <<conn, up, driver, server, begun, sent, base, mixed, delivered>>

\* The peer goes away; what TCP still holds may be lost from any byte on.
Close ==
  /\ up /\ Down
  /\ \E n \in 0 .. Len(stream) : stream' = SubSeq(stream, 1, n)
  /\ UNCHANGED <<conn, packets, driver, server, history, delivered>>

-----------------------------------------------------------------------------
(* IocpDriver's callbacks for the AsyncResult                              *)

PostIoMsg(type, p) == Append(m_MsgQueue, [type |-> type, packet |-> p, conn |-> conn])

\* DisconnectEx leads to OnDisconn; if it fails, the AsyncResult is freed.
DisconnectEx == phase' \in {"disconn", "lost"} /\ buffer' = <<>>

\* WSARecv waits for more, with some bytes in the buffer, or fails at once.
WSARecv(next, bytes) ==
  \/ phase' = next /\ buffer' = bytes
  \/ ~up /\ DisconnectEx

\* A connection, perhaps over already, takes the AsyncResult; m_nCurFlag stays
\* as it was.
OnAccept ==
  /\ phase = "accept"
  /\ conn < MaxConns
  /\ conn' = conn + 1
  /\ \/ up' = TRUE /\ phase' = "prerecv" /\ buffer' = <<>>
     \/ up' = FALSE /\ DisconnectEx
  /\ sender' = [t \in Threads |-> Idle] /\ packets' = <<>> /\ stream' = <<>>
  /\ m_MsgQueue' = Append(m_MsgQueue, [type |-> "IO_ON_ACCEPT", packet |-> Misframed,
                                       conn |-> conn + 1])
  /\ base' = [base EXCEPT ![conn + 1] = m_nCurFlag]
  /\ UNCHANGED <<m_nCurFlag, client, begun, sent, delivered, mixed, refused>>

\* The receive of no bytes ends when there is something to read: a new buffer
\* is read into from its start.
OnPreRecv ==
  /\ phase = "prerecv"
  /\ stream # <<>> \/ ~up
  /\ WSARecv("recv", <<>>)
  /\ UNCHANGED <<conn, peer, stream, m_nCurFlag, server, history, delivered>>

\* The length that the first bytes of the buffer hold.
wLen == usMsgLen(packets[buffer[1][1]])

\* TCP hands over n bytes, which follow those in the buffer.
OnRecv ==
  /\ phase = "recv" /\ phase' = "framing"
  /\ base[conn] = 0
  /\ \E n \in 1 .. Len(stream) :
       /\ n <= PACKET_MAX - Len(buffer)
       /\ buffer' = buffer \o SubSeq(stream, 1, n)
       /\ stream' = SubSeq(stream, n + 1, Len(stream))
  /\ UNCHANGED <<conn, peer, m_nCurFlag, server, history, delivered>>

\* Mutant: a packet that ends with the bytes received is taken for incomplete.
IsWholeLate == Len(buffer) >= 2 /\ wLen < Len(buffer)

\* The loop of OnRecv goes on.
IsWhole == Len(buffer) >= 2 /\ wLen <= Len(buffer)

\* The packet that starts at a byte.
Framed(byte) == IF byte[2] = 1 THEN packets[byte[1]] ELSE Misframed

\* Mutant: the length of the head is not counted.
OnPacketShort ==
  /\ phase = "framing" /\ IsWhole
  /\ m_MsgQueue' = PostIoMsg("IO_ON_RECV", Framed(buffer[1]))
  /\ buffer' = SubSeq(buffer, wLen - MSG_HEAD_LEN + 1, Len(buffer))
  /\ UNCHANGED <<conn, peer, stream, phase, m_nCurFlag, client, history, delivered>>

\* One turn of it posts the packet; the server's thread may take it before the
\* next.
OnPacket ==
  /\ phase = "framing" /\ IsWhole
  /\ m_MsgQueue' = PostIoMsg("IO_ON_RECV", Framed(buffer[1]))
  /\ buffer' = SubSeq(buffer, wLen + 1, Len(buffer))
  /\ UNCHANGED <<conn, peer, stream, phase, m_nCurFlag, client, history, delivered>>

\* The rest moves to the start of the buffer.
OnRest ==
  /\ phase = "framing" /\ ~IsWhole
  /\ m_nCurFlag' = Len(buffer)
  /\ WSARecv("recv", buffer)
  /\ UNCHANGED <<conn, peer, stream, server, history, delivered>>

\* m_nCurFlag was left by an earlier connection: the buffer is read beyond the
\* bytes received.  What is posted then, how much is kept, and whether the loop
\* ends (it does not at a length of 0) depends on what the memory holds.
OnRecvAstray ==
  /\ phase = "recv"
  /\ base[conn] # 0
  /\ stream # <<>>
  /\ stream' = <<>>
  /\ \E rubbish \in {<<>>, <<Misframed>>} :
       m_MsgQueue' = m_MsgQueue \o [j \in 1 .. Len(rubbish) |->
                       [type |-> "IO_ON_RECV", packet |-> Misframed, conn |-> conn]]
  /\ m_nCurFlag' \in 0 .. PACKET_MAX
  /\ \/ phase' = "spin" /\ UNCHANGED buffer
     \/ WSARecv("recv", buffer)
  /\ UNCHANGED <<conn, peer, client, history, delivered>>

\* A receive that ends with no bytes.
OnRecvClosed ==
  /\ phase = "recv"
  /\ ~up /\ stream = <<>>
  /\ DisconnectEx
  /\ UNCHANGED <<conn, peer, stream, m_nCurFlag, server, history, delivered>>

\* The connection ends with error 64: DealIoImpl calls nobody back, and the
\* AsyncResult serves no other connection.
Reset ==
  /\ up /\ Down
  /\ phase \in {"prerecv", "recv"} /\ phase' = "lost"
  /\ stream' = <<>> /\ buffer' = <<>>
  /\ UNCHANGED <<conn, packets, m_nCurFlag, server, history, delivered>>

\* The server is told, and PostAcceptIo gives the AsyncResult to AcceptEx.
OnDisconn ==
  /\ phase = "disconn"
  /\ m_MsgQueue' = PostIoMsg("IO_ON_DISCONN", Misframed)
  /\ phase' = "accept"
  /\ UNCHANGED <<conn, peer, stream, m_nCurFlag, buffer, client, history, delivered>>

-----------------------------------------------------------------------------
(* The thread of the ServerItem                                            *)

\* AddClient inserts, and leaves an entry that is there as it is.
ProcessAccept(msg) ==
  /\ msg.type = "IO_ON_ACCEPT"
  /\ client' = IF client = NoClient THEN [NoClient EXCEPT !.conn = msg.conn] ELSE client
  /\ UNCHANGED delivered

ProcessDisconn(msg) ==
  /\ msg.type = "IO_ON_DISCONN"
  /\ client' = NoClient
  /\ UNCHANGED delivered

\* Mutant: the entry of a complete message stays.
GroupPackageKeeps(p) ==
  LET cmd == p.msg.cmd
      group == client.group
      data == IF cmd \in DOMAIN group THEN group[cmd] \o p.data ELSE p.data
  IN IF "OP_IMCOMPLETE" \in p.type
     THEN /\ client' = [client EXCEPT !.group =
                          [c \in DOMAIN group \cup {cmd} |-> IF c = cmd THEN data ELSE group[c]]]
          /\ UNCHANGED delivered
     ELSE /\ UNCHANGED client
          /\ delivered' = [delivered EXCEPT ![client.conn][cmd] = Append(@, data)]

\* m_GroupPackage as a function from the commands that have an entry.
GroupPackage(p) ==
  LET cmd == p.msg.cmd
      group == client.group
      data == IF cmd \in DOMAIN group THEN group[cmd] \o p.data ELSE p.data
  IN IF "OP_IMCOMPLETE" \in p.type
     THEN /\ client' = [client EXCEPT !.group =
                          [c \in DOMAIN group \cup {cmd} |-> IF c = cmd THEN data ELSE group[c]]]
          /\ UNCHANGED delivered
     ELSE /\ client' = [client EXCEPT !.group = [c \in DOMAIN group \ {cmd} |-> group[c]]]
          /\ delivered' = [delivered EXCEPT ![client.conn][cmd] = Append(@, data)]

\* What becomes of bytes that are no packet is not said: something is delivered,
\* which is counted with the keep-alives.
ProcessRecv(msg) ==
  /\ msg.type = "IO_ON_RECV"
  /\ \/ /\ client = NoClient
        /\ UNCHANGED <<client, delivered>>
     \/ /\ client # NoClient /\ msg.packet = Misframed
        /\ delivered' = [delivered EXCEPT ![client.conn][MSG_KEEP_ALIVE] = Append(@, <<>>)]
        /\ UNCHANGED client
     \/ /\ client # NoClient /\ msg.packet # Misframed
        /\ IF msg.packet.msg.cmd = MSG_KEEP_ALIVE THEN UNCHANGED <<client, delivered>>
           ELSE GroupPackage(msg.packet)

\* A client whose messages stay away for m_uClientTimeOut is closed and
\* forgotten.  The receive ends without bytes, DisconnectEx fails on the closed
\* socket and the AsyncResult is freed.
IdleTimeout ==
  /\ up /\ Down
  /\ m_MsgQueue = <<>> /\ client # NoClient
  /\ phase \in {"prerecv", "recv"} /\ phase' = "lost"
  /\ client' = NoClient
  /\ stream' = <<>> /\ buffer' = <<>>
  /\ UNCHANGED <<conn, packets, m_nCurFlag, m_MsgQueue, history, delivered>>

ProcessIoMsg ==
  /\ m_MsgQueue # <<>>
  /\ m_MsgQueue' = Tail(m_MsgQueue)
  /\ LET msg == Head(m_MsgQueue)
     IN ProcessAccept(msg) \/ ProcessDisconn(msg) \/ ProcessRecv(msg)
  /\ UNCHANGED <<conn, peer, stream, driver, history>>

-----------------------------------------------------------------------------
Send(t) == SendWhole(t) \/ SendFragment(t)
DealIo == OnAccept \/ OnPreRecv \/ OnRecv \/ OnPacket \/ OnRest \/ OnRecvAstray \/ OnRecvClosed \/ OnDisconn

Next ==
  \/ \E t \in Threads, message \in Messages : Begin(t, message)
  \/ \E t \in Threads : Send(t)
  \/ Close \/ Reset \/ IdleTimeout
  \/ DealIo
  \/ ProcessIoMsg

Spec == Init /\ [][Next]_vars

\* A thread in SendPackage goes on, TCP delivers, both server threads run.
FairSpec ==
  /\ Spec
  /\ \A t \in Threads : WF_vars(Send(t))
  /\ WF_vars(DealIo) /\ WF_vars(ProcessIoMsg)

-----------------------------------------------------------------------------
Message == [id : Nat, cmd : Cmds, len : Nat]
PacketType == SUBSET {"OP_IMCOMPLETE", "OP_COMPLETE"}
AnyPacket == [msg : Message, done : Nat, type : PacketType, data : Seq(Nat \X Nat)]
IoMsg == [type : {"IO_ON_ACCEPT", "IO_ON_RECV", "IO_ON_DISCONN"}, packet : AnyPacket, conn : Conns]

TypeOK ==
  /\ conn \in 0 .. MaxConns /\ up \in BOOLEAN
  /\ sender \in [Threads -> [msg : Message, done : Nat, type : PacketType]]
  /\ packets \in Seq(AnyPacket) /\ stream \in Seq(Nat \X Nat)
  /\ phase \in {"accept", "prerecv", "recv", "framing", "disconn", "spin", "lost"}
  /\ m_nCurFlag \in 0 .. PACKET_MAX /\ buffer \in Seq(Nat \X Nat)
  /\ m_MsgQueue \in Seq(IoMsg)
  /\ client.conn \in 0 .. conn /\ DOMAIN client.group \subseteq Cmds
  /\ client = [conn |-> client.conn,
               group |-> [cmd \in DOMAIN client.group |-> client.group[cmd]]]
  /\ \A cmd \in DOMAIN client.group : client.group[cmd] \in Seq(Nat \X Nat)
  /\ begun \in 0 .. MaxMessages
  /\ sent \in [Conns -> [Cmds -> Seq(Message)]]
  /\ delivered \in [Conns -> [Cmds -> Seq(Seq(Nat \X Nat))]]
  /\ base \in [Conns -> 0 .. PACKET_MAX] /\ mixed \in [Conns -> SUBSET Cmds]
  /\ refused \in Seq(Conns \X Cmds)

\* The commands whose packets follow one another as SendPackage cuts them: no
\* two threads sent one at once, and WSASend took every packet.
Unbroken(c) ==
  {cmd \in Cmds \ (mixed[c] \cup {MSG_KEEP_ALIVE}) :
     \A k \in 1 .. Len(refused) : refused[k] # <<c, cmd>>}

\* On a connection whose AsyncResult brought no left-over count, the messages
\* of a command that no two threads sent at once and no packet of which WSASend
\* refused arrive whole, in order and once, whatever TCP, the packets of other
\* commands and their loss do; nothing else does.
MessagesAreWhole ==
  \A c \in Conns : base[c] = 0 =>
    /\ \A cmd \in Unbroken(c) :
         /\ Len(delivered[c][cmd]) <= Len(sent[c][cmd])
         /\ \A k \in DOMAIN delivered[c][cmd] : delivered[c][cmd][k] = Encoded(sent[c][cmd][k])
    /\ delivered[c][MSG_KEEP_ALIVE] = <<>>

\* Bytes of the packets sent, from the start of one, each after the one before.
Following(byte) ==
  IF byte[2] < usMsgLen(packets[byte[1]]) THEN <<byte[1], byte[2] + 1>> ELSE <<byte[1] + 1, 1>>

AreFramed(bytes) ==
  /\ \A k \in 1 .. Len(bytes) : /\ bytes[k][1] \in 1 .. Len(packets)
                                /\ bytes[k][2] \in 1 .. usMsgLen(packets[bytes[k][1]])
  /\ bytes # <<>> => bytes[1][2] = 1
  /\ \A k \in 1 .. Len(bytes) - 1 : bytes[k + 1] = Following(bytes[k])

\* The bytes received and not posted start a packet, the bytes in the stream
\* follow them, and the next receive has room for at least one.
StreamIsKept ==
  phase = "recv" /\ base[conn] = 0 =>
    /\ m_nCurFlag = Len(buffer)
    /\ Len(buffer) < PACKET_MAX
    /\ AreFramed(buffer \o stream)

\* A message of such a command on such a connection that has not arrived.
Outstanding(id) ==
  /\ up
  /\ conn # 0 /\ base[conn] = 0
  /\ \E cmd \in Unbroken(conn) :
       \E k \in DOMAIN sent[conn][cmd] :
         sent[conn][cmd][k].id = id /\ k > Len(delivered[conn][cmd])

\* It arrives, unless the peer goes away, WSASend refuses a packet of the command
\* or another thread sends one meanwhile.  The server is taken to be registered in
\* m_ServerList, as it is from AddServer to DelServer.
MessagesArrive == \A id \in 1 .. MaxMessages : []<>~Outstanding(id)
=============================================================================
