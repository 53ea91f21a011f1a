------------------------- MODULE PacketStreamProofs -------------------------
(***************************************************************************)
(* That the bytes received stay framed and that messages arrive whole, in  *)
(* order and once; for any threads, commands, messages and lengths, and    *)
(* any number of connections.                                              *)
(***************************************************************************)
EXTENDS PacketStream, SequenceTheorems, TLAPS

Byte == Nat \X Nat

-----------------------------------------------------------------------------
(* The inductive invariant                                                 *)

\* The life of the AsyncResult, of its peer and of the client.
Life ==
  /\ conn = 0 => phase = "accept" /\ ~up
  /\ ~up => \A t \in Threads : sender[t] = Idle
  /\ up => phase \in {"prerecv", "recv", "framing", "spin"}
  /\ phase = "spin" => base[conn] # 0
  /\ phase = "framing" => base[conn] = 0 /\ Len(buffer) <= PACKET_MAX
  /\ client.conn = 0 => client = NoClient

\* What a message of the queue does to the last connection accepted and the one
\* that is open, if any: x before it, y after it.
Turn(m, x, y) ==
  /\ m.type = "IO_ON_ACCEPT" => x[2] = 0 /\ m.conn = x[1] + 1 /\ y = <<m.conn, m.conn>>
  /\ m.type = "IO_ON_RECV" => x = <<m.conn, m.conn>> /\ y = x
  /\ m.type = "IO_ON_DISCONN" => x = <<m.conn, m.conn>> /\ y = <<m.conn, 0>>

\* What has ended once stays so.
Later(x, y) == x[1] <= y[1] /\ (x[1] = y[1] /\ x[2] = 0 => y[2] = 0)

Turns(L, o) ==
  /\ o \in [1 .. Len(L) + 1 -> Nat \X Nat]
  /\ \A j \in 1 .. Len(L) : Turn(L[j], o[j], o[j + 1])
  /\ \A i, j \in 1 .. Len(L) + 1 : i <= j => Later(o[i], o[j])

\* The queue tells of one connection after another, from where the server is to
\* where the AsyncResult is.
InOrder ==
  \E o : /\ Turns(m_MsgQueue, o)
         /\ o[1][2] = client.conn
         /\ o[Len(m_MsgQueue) + 1][1] <= conn
         /\ phase # "lost" =>
              o[Len(m_MsgQueue) + 1] = <<conn, IF phase = "accept" THEN 0 ELSE conn>>

\* How far a packet takes its message; what SendPackage makes of it.
Reach(p) == p.done + Len(p.data)

Cut(p) ==
  /\ p.msg.id # 0
  /\ Len(p.data) <= MSG_DATA_LEN /\ Reach(p) <= p.msg.len
  /\ p.data = Pieces(p.msg, p.done + 1, Reach(p))
  /\ "OP_IMCOMPLETE" \in p.type <=> Reach(p) < p.msg.len

PacketsAreCut == \A i \in 1 .. Len(packets) : Cut(packets[i])

\* Where nothing was left over, what is posted are such packets.
NoneAstray ==
  \A j \in 1 .. Len(m_MsgQueue) :
    m_MsgQueue[j].type = "IO_ON_RECV" /\ base[m_MsgQueue[j].conn] = 0 =>
      Cut(m_MsgQueue[j].packet)

\* Where a thread may be in a message.
Senders ==
  \A t \in Threads : sender[t] # Idle =>
    /\ sender[t].msg.id # 0
    /\ \/ sender[t].done = 0 /\ sender[t].type = {}
       \/ /\ MSG_DATA_LEN < sender[t].msg.len /\ sender[t].type = {"OP_IMCOMPLETE"}
          /\ 0 < sender[t].done /\ sender[t].done < sender[t].msg.len

\* The bytes b are of the packets P, from the start of one, each after the one
\* before: a packet's follow one another up to its end, where the next begins.
IsFramed(P, b) ==
  /\ \A k \in 1 .. Len(b) : b[k][1] \in 1 .. Len(P) /\ b[k][2] \in 1 .. usMsgLen(P[b[k][1]])
  /\ b # <<>> => b[1][2] = 1
  /\ \A k \in 1 .. Len(b), d \in Nat :
       k + d <= Len(b) /\ b[k][2] + d <= usMsgLen(P[b[k][1]]) =>
         b[k + d] = <<b[k][1], b[k][2] + d>>
  /\ \A k \in 1 .. Len(b) :
       k < Len(b) /\ b[k][2] = usMsgLen(P[b[k][1]]) => b[k + 1] = <<b[k][1] + 1, 1>>

\* They go to the end of the last.
IsFull(P, b) == b # <<>> => b[Len(b)] = <<Len(P), usMsgLen(P[Len(P)])>>

Receiving == conn # 0 /\ base[conn] = 0 /\ phase \in {"prerecv", "recv", "framing"}

Framing ==
  Receiving =>
    /\ phase = "prerecv" => buffer = <<>> /\ m_nCurFlag = 0
    /\ phase = "recv" => m_nCurFlag = Len(buffer) /\ Len(buffer) < PACKET_MAX
    /\ IsFramed(packets, buffer \o stream)
    /\ up => IsFull(packets, buffer \o stream)

\* What the server will be told of: its queue, and the packets that are to be
\* posted.
First == (buffer \o stream)[1][1]
Pending == IF Receiving /\ buffer \o stream # <<>> THEN Len(packets) + 1 - First ELSE 0
Line ==
  m_MsgQueue \o [j \in 1 .. Pending |->
                   [type |-> "IO_ON_RECV", packet |-> packets[First + j - 1], conn |-> conn]]

\* A place is a message, by its place among those of its command, and how much
\* of it is behind.  The packet p goes on at a place in S.
Fits(S, p, at) == at[1] \in 1 .. Len(S) /\ S[at[1]] = p.msg /\ at[2] = p.done
After(p, at) == IF "OP_IMCOMPLETE" \in p.type THEN <<at[1], Reach(p)>> ELSE <<at[1] + 1, 0>>

Concerns(m, c, cmd) == m.type = "IO_ON_RECV" /\ m.conn = c /\ m.packet.msg.cmd = cmd

Move(S, m, c, cmd, x, y) ==
  IF Concerns(m, c, cmd) THEN Fits(S, m.packet, x) /\ y = After(m.packet, x) ELSE y = x

Along(S, L, c, cmd, at) ==
  /\ at \in [1 .. Len(L) + 1 -> Nat \X Nat]
  /\ \A j \in 1 .. Len(L) : Move(S, L[j], c, cmd, at[j], at[j + 1])

\* Where the server is in the messages of a command, and where the sender is.
Taken(c, cmd) ==
  <<Len(delivered[c][cmd]) + 1,
    IF client.conn = c /\ cmd \in DOMAIN client.group THEN Len(client.group[cmd]) ELSE 0>>

Sending(t, cmd) == sender[t] # Idle /\ sender[t].msg.cmd = cmd

IsSenderAt(cmd, at) ==
  /\ \A t \in Threads : Sending(t, cmd) => at = <<Len(sent[conn][cmd]), sender[t].done>>
  /\ (\A t \in Threads : ~Sending(t, cmd)) => at = <<Len(sent[conn][cmd]) + 1, 0>>

\* From one to the other the packets of the line follow one another.
InStep(c, cmd) ==
  \E at : /\ Along(sent[c][cmd], Line, c, cmd, at)
          /\ at[1] = Taken(c, cmd)
          /\ c = conn /\ up => IsSenderAt(cmd, at[Len(Line) + 1])

\* What is delivered are the messages sent, what is put by is the start of the
\* next.
Content(c, cmd) ==
  /\ \A k \in 1 .. Len(delivered[c][cmd]) :
       k <= Len(sent[c][cmd]) /\ delivered[c][cmd][k] = Encoded(sent[c][cmd][k])
  /\ client.conn = c /\ cmd \in DOMAIN client.group =>
       /\ Len(delivered[c][cmd]) + 1 <= Len(sent[c][cmd])
       /\ client.group[cmd] = Pieces(sent[c][cmd][Len(delivered[c][cmd]) + 1],
                                     1, Len(client.group[cmd]))

Orderly(c, cmd) == base[c] = 0 /\ cmd \in Unbroken(c)

Arrivals ==
  \A c \in Conns, cmd \in Cmds : Orderly(c, cmd) => InStep(c, cmd) /\ Content(c, cmd)

\* A thread whose command no other thread sends is in the last message of it.
Alone ==
  \A t \in Threads : sender[t] # Idle /\ sender[t].msg.cmd \notin mixed[conn] =>
    LET S == sent[conn][sender[t].msg.cmd]
    IN /\ \A u \in Threads : Sending(u, sender[t].msg.cmd) => u = t
       /\ S # <<>> /\ S[Len(S)] = sender[t].msg

\* Nothing yet of the connections to come.
Fresh ==
  \A c \in Conns : c > conn => \A cmd \in Cmds : sent[c][cmd] = <<>> /\ delivered[c][cmd] = <<>>

NoKeepAlive == \A c \in Conns : base[c] = 0 => delivered[c][MSG_KEEP_ALIVE] = <<>>

Basics == TypeOK /\ Life /\ Senders /\ PacketsAreCut /\ Framing /\ InOrder /\ NoneAstray

\* The inductive invariant.
PInv == Basics /\ Fresh /\ NoKeepAlive /\ Alone /\ Arrivals

-----------------------------------------------------------------------------
(* Types                                                                   *)

LEMMA FunctionIsSeq ==
  ASSUME NEW S, NEW n \in Nat, NEW f \in [1 .. n -> S]
  PROVE  f \in Seq(S) /\ Len(f) = n
BY SeqDef

LEMMA PiecesType ==
  ASSUME NEW m \in Message, NEW k \in Nat, NEW l \in Nat, k <= l + 1
  PROVE  Pieces(m, k, l) \in Seq(Byte) /\ Len(Pieces(m, k, l)) = l - k + 1
<1>1. l - k + 1 \in Nat
  OBVIOUS
<1>2. Pieces(m, k, l) \in [1 .. l - k + 1 -> Byte]
  BY DEF Pieces, Message, Byte
<1> QED BY <1>1, <1>2, FunctionIsSeq

LEMMA IdleType == Idle \in [msg : Message, done : Nat, type : PacketType]
BY PacketAssumption DEF Idle, Message, PacketType

LEMMA PacketIsTyped ==
  ASSUME NEW m \in Message, NEW done \in Nat, NEW upto \in Nat, NEW type \in PacketType,
         done <= upto
  PROVE  Packet(m, done, upto, type) \in AnyPacket
<1>1. Pieces(m, done + 1, upto) \in Seq(Byte)
  BY PiecesType
<1> QED BY <1>1 DEF Packet, AnyPacket, Byte

LEMMA MisframedType == Misframed \in AnyPacket
BY IdleType, PacketIsTyped DEF Misframed, Idle, PacketType

LEMMA LengthType ==
  ASSUME NEW p \in AnyPacket
  PROVE  usMsgLen(p) \in Nat /\ usMsgLen(p) >= 2
BY PacketAssumption, LenProperties DEF usMsgLen, AnyPacket

LEMMA MaxType == PACKET_MAX \in Nat /\ PACKET_MAX > 2
BY PacketAssumption DEF PACKET_MAX

LEMMA NoClientType ==
  /\ NoClient.conn = 0 /\ DOMAIN NoClient.group = {}
  /\ NoClient = [conn |-> NoClient.conn,
                 group |-> [cmd \in DOMAIN NoClient.group |-> NoClient.group[cmd]]]
BY DEF NoClient

LEMMA InitTypes == Init => TypeOK
<1> SUFFICES ASSUME Init PROVE TypeOK
  OBVIOUS
<1> USE DEF Init
<1>1. begun \in 0 .. MaxMessages /\ conn \in 0 .. MaxConns
  BY PacketAssumption
<1>0. up \in BOOLEAN
  OBVIOUS
<1>2. sender \in [Threads -> [msg : Message, done : Nat, type : PacketType]]
  BY IdleType
<1>3. /\ client.conn \in 0 .. conn /\ DOMAIN client.group \subseteq Cmds
      /\ client = [conn |-> client.conn,
                   group |-> [cmd \in DOMAIN client.group |-> client.group[cmd]]]
      /\ \A cmd \in DOMAIN client.group : client.group[cmd] \in Seq(Nat \X Nat)
  BY NoClientType
<1>4. /\ sent \in [Conns -> [Cmds -> Seq(Message)]]
      /\ delivered \in [Conns -> [Cmds -> Seq(Seq(Nat \X Nat))]]
      /\ base \in [Conns -> 0 .. PACKET_MAX] /\ mixed \in [Conns -> SUBSET Cmds]
  BY EmptySeq, MaxType
<1>5. refused \in Seq(Conns \X Cmds)
  BY EmptySeq
<1> QED BY <1>0, <1>1, <1>2, <1>3, <1>4, <1>5, EmptySeq, MaxType DEF TypeOK


LEMMA MessageType ==
  ASSUME NEW m \in Messages, NEW n \in Nat
  PROVE  [id |-> n, cmd |-> m.cmd, len |-> m.len] \in Message /\ m.cmd \in Cmds
BY PacketAssumption DEF Message

\* What the callbacks leave in the driver.
LEMMA ReceiveTypes ==
  ASSUME TypeOK, NEW next \in {"prerecv", "recv"}, NEW bytes \in Seq(Byte), WSARecv(next, bytes)
  PROVE  /\ phase' \in {next, "disconn", "lost"} /\ buffer' \in Seq(Byte)
         /\ phase' = next => buffer' = bytes
         /\ phase' # next => ~up /\ buffer' = <<>>
BY EmptySeq DEF WSARecv, DisconnectEx

LEMMA SendTypes ==
  ASSUME TypeOK, NEW p \in AnyPacket, p.msg.cmd \in Cmds, conn \in Conns, SendMessage(p)
  PROVE  packets' \in Seq(AnyPacket) /\ stream' \in Seq(Byte) /\ refused' \in Seq(Conns \X Cmds)
<1>1. CASE WSASend(p)
  <2>1. packets' \in Seq(AnyPacket)
    BY <1>1, AppendProperties DEF TypeOK, WSASend
  <2> DEFINE bytes == [k \in 1 .. usMsgLen(p) |-> <<Len(packets) + 1, k>>]
  <2>2. bytes \in Seq(Byte)
    <3>1. bytes \in [1 .. usMsgLen(p) -> Byte]
      BY LenProperties DEF TypeOK, Byte
    <3> QED BY <3>1, LengthType, FunctionIsSeq
  <2>3. stream \in Seq(Byte) /\ stream' = stream \o bytes
    BY <1>1 DEF TypeOK, Byte, WSASend
  <2>4. refused' \in Seq(Conns \X Cmds)
    BY <1>1 DEF TypeOK, WSASend
  <2> HIDE DEF bytes
  <2> QED BY <2>1, <2>2, <2>3, <2>4, ConcatProperties
<1>2. CASE WSASendFails(p)
  <2>1. UNCHANGED <<packets, stream>> /\ refused' = Append(refused, <<conn, p.msg.cmd>>)
    BY <1>2 DEF WSASendFails
  <2>2. <<conn, p.msg.cmd>> \in Conns \X Cmds /\ refused \in Seq(Conns \X Cmds)
    BY DEF TypeOK
  <2>3. refused' \in Seq(Conns \X Cmds)
    BY <2>1, <2>2, AppendProperties
  <2> QED BY <2>1, <2>3 DEF TypeOK, Byte
<1> QED BY <1>1, <1>2 DEF SendMessage

LEMMA BeginTypes ==
  ASSUME TypeOK, NEW t \in Threads, NEW message \in Messages, Begin(t, message), conn # 0
  PROVE  TypeOK'
<1> DEFINE m == [id |-> begun + 1, cmd |-> message.cmd, len |-> message.len]
<1>1. m \in Message /\ message.cmd \in Cmds
  <2>1. begun + 1 \in Nat
    BY DEF TypeOK
  <2> QED BY <2>1, MessageType
<1>2. sender' \in [Threads -> [msg : Message, done : Nat, type : PacketType]]
  BY <1>1 DEF TypeOK, Begin, PacketType
<1>3. sent' \in [Conns -> [Cmds -> Seq(Message)]]
  <2>1. conn \in Conns
    BY PacketAssumption DEF TypeOK, Conns
  <2>2. sent[conn][m.cmd] \in Seq(Message)
    BY <1>1, <2>1 DEF TypeOK
  <2>3. Append(sent[conn][m.cmd], m) \in Seq(Message)
    BY <1>1, <2>2, AppendProperties
  <2>4. sent' = [sent EXCEPT ![conn][m.cmd] = Append(@, m)]
    BY DEF Begin
  <2> HIDE DEF m
  <2> QED BY <2>1, <2>3, <2>4 DEF TypeOK
<1>4. begun' \in 0 .. MaxMessages
  BY PacketAssumption DEF TypeOK, Begin
<1>5. mixed' \in [Conns -> SUBSET Cmds]
  <2> DEFINE others == {u \in Threads \ {t} : sender[u] # Idle /\ sender[u].msg.cmd = message.cmd}
  <2>1. mixed' = [mixed EXCEPT ![conn] = IF others = {} THEN @ ELSE @ \cup {message.cmd}]
    BY DEF Begin
  <2> HIDE DEF others
  <2> QED BY <1>1, <2>1 DEF TypeOK
<1>6. UNCHANGED <<conn, up, packets, stream, phase, m_nCurFlag, buffer, m_MsgQueue, client, delivered, base, refused>>
  BY DEF Begin, driver, server
<1> QED BY <1>2, <1>3, <1>4, <1>5, <1>6 DEF TypeOK

LEMMA SenderType ==
  ASSUME TypeOK, NEW t \in Threads
  PROVE  /\ sender[t].msg \in Message /\ sender[t].msg.cmd \in Cmds /\ sender[t].msg.len \in Nat
         /\ sender[t].msg.id \in Nat /\ sender[t].done \in Nat /\ sender[t].type \in PacketType
BY DEF TypeOK, Message

LEMMA WholeTypes ==
  ASSUME TypeOK, NEW t \in Threads, SendWhole(t), conn \in Conns
  PROVE  TypeOK'
<1>1. Packet(sender[t].msg, 0, sender[t].msg.len, {"OP_COMPLETE"}) \in AnyPacket
  BY SenderType, PacketIsTyped DEF PacketType
<1>2. packets' \in Seq(AnyPacket) /\ stream' \in Seq(Byte) /\ refused' \in Seq(Conns \X Cmds)
  <2>1. Packet(sender[t].msg, 0, sender[t].msg.len, {"OP_COMPLETE"}).msg.cmd \in Cmds
    BY SenderType DEF Packet
  <2> QED BY <1>1, <2>1, SendTypes DEF SendWhole
<1>3. sender' \in [Threads -> [msg : Message, done : Nat, type : PacketType]]
  BY IdleType DEF TypeOK, SendWhole
<1>4. UNCHANGED <<conn, up, phase, m_nCurFlag, buffer, m_MsgQueue, client, begun, sent, delivered, base, mixed>>
  BY DEF SendWhole, driver, server, history
<1> QED BY <1>2, <1>3, <1>4 DEF TypeOK, Byte

LEMMA FragmentTypes ==
  ASSUME TypeOK, NEW t \in Threads, SendFragment(t), sender[t].done <= sender[t].msg.len,
         conn \in Conns
  PROVE  TypeOK'
<1> DEFINE m == sender[t].msg
           done == sender[t].done
           last == m.len - done <= MSG_DATA_LEN
           upto == IF last THEN m.len ELSE done + MSG_DATA_LEN
           type == IF last
                   THEN Toggle(sender[t].type, "OP_IMCOMPLETE") \cup {"OP_COMPLETE"}
                   ELSE sender[t].type \cup {"OP_IMCOMPLETE"}
<1>1. upto \in Nat /\ done <= upto /\ m \in Message /\ done \in Nat
  BY SenderType, PacketAssumption
<1>2. type \in PacketType
  BY SenderType DEF PacketType, Toggle
<1>3. /\ SendMessage(Packet(m, done, upto, type))
      /\ sender' = [sender EXCEPT ![t] = IF last THEN Idle
                                         ELSE [msg |-> m, done |-> upto, type |-> type]]
  BY DEF SendFragment
<1>4. UNCHANGED <<conn, up, phase, m_nCurFlag, buffer, m_MsgQueue, client, begun, sent, delivered, base, mixed>>
  BY DEF SendFragment, driver, server, history
<1>7. m.cmd \in Cmds
  BY SenderType
<1> HIDE DEF m, done, last, upto, type
<1>5. packets' \in Seq(AnyPacket) /\ stream' \in Seq(Byte) /\ refused' \in Seq(Conns \X Cmds)
  <2>1. Packet(m, done, upto, type).msg.cmd \in Cmds
    BY <1>7 DEF Packet
  <2> QED BY <1>1, <1>2, <1>3, <2>1, PacketIsTyped, SendTypes
<1>6. sender' \in [Threads -> [msg : Message, done : Nat, type : PacketType]]
  BY <1>1, <1>2, <1>3, IdleType DEF TypeOK
<1> QED BY <1>4, <1>5, <1>6 DEF TypeOK, Byte

LEMMA DownTypes ==
  ASSUME TypeOK, Down
  PROVE  up' \in BOOLEAN /\ sender' \in [Threads -> [msg : Message, done : Nat, type : PacketType]]
<1>1. up' = FALSE /\ sender' = [t \in Threads |-> Idle]
  BY DEF Down
<1>2. up' \in BOOLEAN
  BY <1>1
<1> QED BY <1>1, <1>2, IdleType

LEMMA CutTypes ==
  ASSUME NEW S, NEW s \in Seq(S), NEW i \in Nat, NEW j \in 0 .. Len(s), i >= 1
  PROVE  /\ SubSeq(s, i, j) \in Seq(S)
         /\ Len(SubSeq(s, i, j)) = IF i <= j THEN j - i + 1 ELSE 0
         /\ \A k \in 1 .. j - i + 1 : SubSeq(s, i, j)[k] = s[i + k - 1]
<1>1. \A k \in i .. j : s[k] \in S
  BY ElementOfSeq, LenProperties
<1> QED BY <1>1, SubSeqProperties, LenProperties

LEMMA CloseTypes == ASSUME TypeOK, Close PROVE TypeOK'
<1>1. up' \in BOOLEAN /\ sender' \in [Threads -> [msg : Message, done : Nat, type : PacketType]]
  BY DownTypes DEF Close
<1>2. stream' \in Seq(Byte)
  <2>1. PICK n \in 0 .. Len(stream) : stream' = SubSeq(stream, 1, n)
    BY DEF Close
  <2>2. stream \in Seq(Byte)
    BY DEF TypeOK, Byte
  <2> QED BY <2>1, <2>2, CutTypes
<1>3. UNCHANGED <<conn, packets, phase, m_nCurFlag, buffer, m_MsgQueue, client, begun, sent, delivered, base, mixed, refused>>
  BY DEF Close, driver, server, history
<1> QED BY <1>1, <1>2, <1>3 DEF TypeOK, Byte

LEMMA PostTypes ==
  ASSUME TypeOK, NEW c \in Conns, NEW p \in AnyPacket,
         NEW type \in {"IO_ON_ACCEPT", "IO_ON_RECV", "IO_ON_DISCONN"},
         m_MsgQueue' = Append(m_MsgQueue, [type |-> type, packet |-> p, conn |-> c])
  PROVE  m_MsgQueue' \in Seq(IoMsg)
<1>1. [type |-> type, packet |-> p, conn |-> c] \in IoMsg
  BY DEF IoMsg
<1> QED BY <1>1, AppendProperties DEF TypeOK

LEMMA AcceptTypes == ASSUME TypeOK, OnAccept PROVE TypeOK'
<1>1. conn + 1 \in Conns /\ conn' \in 0 .. MaxConns /\ conn' = conn + 1
  BY PacketAssumption DEF TypeOK, OnAccept, Conns
<1>2. up' \in BOOLEAN /\ phase' \in {"prerecv", "disconn", "lost"} /\ buffer' = <<>>
  BY DEF OnAccept, DisconnectEx
<1>3. /\ sender' \in [Threads -> [msg : Message, done : Nat, type : PacketType]]
      /\ packets' \in Seq(AnyPacket) /\ stream' \in Seq(Byte) /\ buffer' \in Seq(Byte)
  BY <1>2, IdleType, EmptySeq DEF OnAccept
<1>4. m_MsgQueue' \in Seq(IoMsg)
  BY <1>1, MisframedType, PostTypes DEF OnAccept
<1>5. base' \in [Conns -> 0 .. PACKET_MAX]
  BY <1>1 DEF OnAccept, TypeOK
<1>6. client.conn \in 0 .. conn'
  BY <1>1 DEF TypeOK
<1>7. UNCHANGED <<m_nCurFlag, client, begun, sent, delivered, mixed, refused>>
  BY DEF OnAccept
<1> QED BY <1>1, <1>2, <1>3, <1>4, <1>5, <1>6, <1>7 DEF TypeOK, Byte

LEMMA PreRecvTypes == ASSUME TypeOK, OnPreRecv PROVE TypeOK'
<1>1. phase' \in {"recv", "disconn", "lost"} /\ buffer' \in Seq(Byte)
  BY EmptySeq, ReceiveTypes DEF OnPreRecv
<1>2. UNCHANGED <<conn, up, sender, packets, stream, m_nCurFlag, m_MsgQueue, client, begun, sent, delivered, base, mixed, refused>>
  BY DEF OnPreRecv, peer, server, history
<1> QED BY <1>1, <1>2 DEF TypeOK, Byte

LEMMA RecvTypes == ASSUME TypeOK, OnRecv PROVE TypeOK'
<1>1. stream \in Seq(Byte) /\ buffer \in Seq(Byte)
  BY DEF TypeOK, Byte
<1>2. stream' \in Seq(Byte) /\ buffer' \in Seq(Byte)
  <2>1. PICK n \in 1 .. Len(stream) : /\ buffer' = buffer \o SubSeq(stream, 1, n)
                                      /\ stream' = SubSeq(stream, n + 1, Len(stream))
    BY DEF OnRecv
  <2>2. Len(stream) \in Nat
    BY <1>1, LenProperties
  <2>3. n \in 0 .. Len(stream) /\ n + 1 \in Nat /\ n + 1 >= 1 /\ Len(stream) \in 0 .. Len(stream)
    BY <2>2
  <2>4. SubSeq(stream, 1, n) \in Seq(Byte) /\ stream' \in Seq(Byte)
    BY <1>1, <2>1, <2>3, CutTypes
  <2> QED BY <1>1, <2>1, <2>4, ConcatProperties
<1>3. phase' = "framing"
  BY DEF OnRecv
<1>4. UNCHANGED <<conn, up, sender, packets, m_nCurFlag, m_MsgQueue, client, begun, sent, delivered, base, mixed, refused>>
  BY DEF OnRecv, peer, server, history
<1> QED BY <1>2, <1>3, <1>4 DEF TypeOK, Byte

LEMMA PacketTypes ==
  ASSUME TypeOK, Life, OnPacket,
         buffer[1][1] \in 1 .. Len(packets)
  PROVE  TypeOK' /\ Framed(buffer[1]) \in AnyPacket /\ wLen \in 2 .. Len(buffer)
<1>1. buffer \in Seq(Byte) /\ Len(buffer) \in Nat /\ conn \in Conns
  BY LenProperties, PacketAssumption DEF TypeOK, Byte, Life, OnPacket, Conns
<1>2. packets[buffer[1][1]] \in AnyPacket
  BY ElementOfSeq DEF TypeOK
<1>3. wLen \in 2 .. Len(buffer)
  BY <1>1, <1>2, LengthType DEF wLen, OnPacket, IsWhole
<1>4. buffer' \in Seq(Byte)
  <2>1. wLen + 1 \in Nat /\ wLen + 1 >= 1 /\ Len(buffer) \in 0 .. Len(buffer)
    BY <1>1, <1>3
  <2>2. SubSeq(buffer, wLen + 1, Len(buffer)) \in Seq(Byte)
    BY <1>1, <2>1, CutTypes
  <2> QED BY <2>2 DEF OnPacket
<1>5. Framed(buffer[1]) \in AnyPacket
  BY <1>2, MisframedType DEF Framed
<1>6. m_MsgQueue' \in Seq(IoMsg)
  <2>1. m_MsgQueue' = Append(m_MsgQueue, [type |-> "IO_ON_RECV", packet |-> Framed(buffer[1]), conn |-> conn])
    BY DEF OnPacket, PostIoMsg
  <2> QED BY <1>1, <1>5, <2>1, PostTypes
<1>7. UNCHANGED <<conn, up, sender, packets, stream, phase, m_nCurFlag, client, begun, sent, delivered, base, mixed, refused>>
  BY DEF OnPacket, peer, history
<1>8. TypeOK'
  BY <1>4, <1>6, <1>7 DEF TypeOK, Byte
<1> QED BY <1>3, <1>5, <1>8

LEMMA RestTypes == ASSUME TypeOK, Life, OnRest PROVE TypeOK'
<1>1. buffer \in Seq(Byte) /\ Len(buffer) \in 0 .. PACKET_MAX
  BY LenProperties, MaxType DEF TypeOK, Byte, Life, OnRest
<1>2. phase' \in {"recv", "disconn", "lost"} /\ buffer' \in Seq(Byte)
  BY <1>1, ReceiveTypes DEF OnRest
<1>3. m_nCurFlag' \in 0 .. PACKET_MAX
  BY <1>1 DEF OnRest
<1>4. UNCHANGED <<conn, up, sender, packets, stream, m_MsgQueue, client, begun, sent, delivered, base, mixed, refused>>
  BY DEF OnRest, peer, server, history
<1> QED BY <1>2, <1>3, <1>4 DEF TypeOK, Byte

LEMMA AstrayTypes == ASSUME TypeOK, Life, OnRecvAstray PROVE TypeOK'
<1>1. conn \in Conns
  BY PacketAssumption DEF TypeOK, Life, OnRecvAstray, Conns
<1>2. stream' \in Seq(Byte) /\ m_nCurFlag' \in 0 .. PACKET_MAX
  BY EmptySeq DEF OnRecvAstray
<1>3. phase' \in {"spin", "recv", "disconn", "lost"} /\ buffer' \in Seq(Byte)
  <2>1. buffer \in Seq(Byte)
    BY DEF TypeOK, Byte
  <2>2. CASE phase' = "spin" /\ UNCHANGED buffer
    BY <2>1, <2>2
  <2>3. CASE WSARecv("recv", buffer)
    BY <2>1, <2>3, ReceiveTypes
  <2> QED BY <2>2, <2>3 DEF OnRecvAstray
<1>4. m_MsgQueue' \in Seq(IoMsg)
  <2>1. PICK rubbish \in {<<>>, <<Misframed>>} :
          m_MsgQueue' = m_MsgQueue \o [j \in 1 .. Len(rubbish) |->
                          [type |-> "IO_ON_RECV", packet |-> Misframed, conn |-> conn]]
    BY DEF OnRecvAstray
  <2> DEFINE posts == [j \in 1 .. Len(rubbish) |->
                        [type |-> "IO_ON_RECV", packet |-> Misframed, conn |-> conn]]
  <2>2. Len(rubbish) \in Nat
    BY <2>1
  <2>3. [type |-> "IO_ON_RECV", packet |-> Misframed, conn |-> conn] \in IoMsg
    BY <1>1, MisframedType DEF IoMsg
  <2>4. posts \in [1 .. Len(rubbish) -> IoMsg]
    BY <2>3
  <2>5. posts \in Seq(IoMsg)
    BY <2>2, <2>4, FunctionIsSeq
  <2>6. m_MsgQueue' = m_MsgQueue \o posts
    BY <2>1
  <2> HIDE DEF posts
  <2> QED BY <2>5, <2>6, ConcatProperties DEF TypeOK
<1>5. UNCHANGED <<conn, up, sender, packets, client, begun, sent, delivered, base, mixed, refused>>
  BY DEF OnRecvAstray, peer, history
<1> QED BY <1>2, <1>3, <1>4, <1>5 DEF TypeOK, Byte

LEMMA RecvClosedTypes == ASSUME TypeOK, OnRecvClosed PROVE TypeOK'
<1>1. phase' \in {"disconn", "lost"} /\ buffer' \in Seq(Byte)
  BY EmptySeq DEF OnRecvClosed, DisconnectEx
<1>2. UNCHANGED <<conn, up, sender, packets, stream, m_nCurFlag, m_MsgQueue, client, begun, sent, delivered, base, mixed, refused>>
  BY DEF OnRecvClosed, peer, server, history
<1> QED BY <1>1, <1>2 DEF TypeOK, Byte

LEMMA ResetTypes == ASSUME TypeOK, Reset PROVE TypeOK'
<1>1. up' \in BOOLEAN /\ sender' \in [Threads -> [msg : Message, done : Nat, type : PacketType]]
  BY DownTypes DEF Reset
<1>2. phase' = "lost" /\ stream' \in Seq(Byte) /\ buffer' \in Seq(Byte)
  BY EmptySeq DEF Reset
<1>3. UNCHANGED <<conn, packets, m_nCurFlag, m_MsgQueue, client, begun, sent, delivered, base, mixed, refused>>
  BY DEF Reset, server, history
<1> QED BY <1>1, <1>2, <1>3 DEF TypeOK, Byte

LEMMA IdleTypes == ASSUME TypeOK, IdleTimeout PROVE TypeOK'
<1>1. up' \in BOOLEAN /\ sender' \in [Threads -> [msg : Message, done : Nat, type : PacketType]]
  BY DownTypes DEF IdleTimeout
<1>2. phase' = "lost" /\ stream' \in Seq(Byte) /\ buffer' \in Seq(Byte) /\ client' = NoClient
  BY EmptySeq DEF IdleTimeout
<1>3. UNCHANGED <<conn, packets, m_nCurFlag, m_MsgQueue, begun, sent, delivered, base, mixed, refused>>
  BY DEF IdleTimeout, history
<1> QED BY <1>1, <1>2, <1>3, NoClientType DEF TypeOK, Byte

LEMMA DisconnTypes == ASSUME TypeOK, Life, OnDisconn PROVE TypeOK'
<1>1. conn \in Conns
  BY PacketAssumption DEF TypeOK, Life, OnDisconn, Conns
<1>2. m_MsgQueue' \in Seq(IoMsg)
  <2>1. m_MsgQueue' = Append(m_MsgQueue, [type |-> "IO_ON_DISCONN", packet |-> Misframed, conn |-> conn])
    BY DEF OnDisconn, PostIoMsg
  <2> QED BY <1>1, <2>1, MisframedType, PostTypes
<1>3. phase' = "accept"
  BY DEF OnDisconn
<1>4. UNCHANGED <<conn, up, sender, packets, stream, m_nCurFlag, buffer, client, begun, sent, delivered, base, mixed, refused>>
  BY DEF OnDisconn, peer, history
<1> QED BY <1>2, <1>3, <1>4 DEF TypeOK

-----------------------------------------------------------------------------
(* The order of the queue                                                  *)

LEMMA LaterIsTransitive ==
  ASSUME NEW x \in Nat \X Nat, NEW y \in Nat \X Nat, NEW z \in Nat \X Nat,
         Later(x, y), Later(y, z)
  PROVE  Later(x, z)
BY DEF Later

LEMMA TurnIsLater ==
  ASSUME NEW m \in IoMsg, NEW x \in Nat \X Nat, NEW y, Turn(m, x, y)
  PROVE  y \in Nat \X Nat /\ Later(x, y)
BY PacketAssumption DEF Turn, Later, IoMsg, Conns

LEMMA TurnsAppend ==
  ASSUME NEW L \in Seq(IoMsg), NEW o, Turns(L, o),
         NEW m \in IoMsg, NEW y, Turn(m, o[Len(L) + 1], y)
  PROVE  \E p : Turns(Append(L, m), p) /\ p[1] = o[1] /\ p[Len(Append(L, m)) + 1] = y
<1> DEFINE M == Append(L, m)
           p == [j \in 1 .. Len(L) + 2 |-> IF j = Len(L) + 2 THEN y ELSE o[j]]
<1>1. /\ Len(L) \in Nat /\ Len(M) = Len(L) + 1
      /\ \A j \in 1 .. Len(L) : M[j] = L[j]
      /\ M[Len(L) + 1] = m
  BY AppendProperties, LenProperties
<1>2. /\ o \in [1 .. Len(L) + 1 -> Nat \X Nat]
      /\ \A j \in 1 .. Len(L) : Turn(L[j], o[j], o[j + 1])
      /\ \A i, j \in 1 .. Len(L) + 1 : i <= j => Later(o[i], o[j])
  BY DEF Turns
<1>3. y \in Nat \X Nat /\ Later(o[Len(L) + 1], y)
  BY <1>1, <1>2, TurnIsLater
<1>4. p[Len(L) + 2] = y /\ \A j \in 1 .. Len(L) + 1 : p[j] = o[j]
  BY <1>1
<1>5. p \in [1 .. Len(M) + 1 -> Nat \X Nat]
  BY <1>1, <1>2, <1>3
<1> HIDE DEF p, M
<1>6. ASSUME NEW j \in 1 .. Len(M) PROVE Turn(M[j], p[j], p[j + 1])
  <2>1. CASE j = Len(L) + 1
    BY <1>1, <1>4, <2>1
  <2>2. CASE j # Len(L) + 1
    BY <1>1, <1>2, <1>4, <2>2
  <2> QED BY <2>1, <2>2
<1>7. ASSUME NEW i \in 1 .. Len(M) + 1, NEW j \in 1 .. Len(M) + 1, i <= j
      PROVE  Later(p[i], p[j])
  <2>1. CASE j <= Len(L) + 1
    BY <1>1, <1>2, <1>4, <1>7, <2>1
  <2>2. CASE j = Len(L) + 2 /\ i <= Len(L) + 1
    <3>1. i \in 1 .. Len(L) + 1 /\ Len(L) + 1 \in 1 .. Len(L) + 1
      BY <1>1, <2>2
    <3>2. Later(o[i], o[Len(L) + 1]) /\ o[i] \in Nat \X Nat /\ o[Len(L) + 1] \in Nat \X Nat
      BY <1>1, <1>2, <3>1
    <3> QED BY <1>3, <1>4, <2>2, <3>1, <3>2, LaterIsTransitive
  <2>3. CASE i = Len(L) + 2 /\ j = Len(L) + 2
    BY <1>3, <1>4, <2>3 DEF Later
  <2> QED BY <1>1, <1>7, <2>1, <2>2, <2>3
<1>8. Turns(M, p)
  BY <1>5, <1>6, <1>7 DEF Turns
<1>9. p[1] = o[1] /\ p[Len(M) + 1] = y
  BY <1>1, <1>4
<1> QED BY <1>8, <1>9 DEF M

LEMMA TurnsTail ==
  ASSUME NEW L \in Seq(IoMsg), L # <<>>, NEW o, Turns(L, o)
  PROVE  \E p : /\ Turns(Tail(L), p) /\ p[1] = o[2] /\ p[Len(Tail(L)) + 1] = o[Len(L) + 1]
                /\ \A j \in 1 .. Len(Tail(L)) + 1 : p[j] = o[j + 1]
<1> DEFINE M == Tail(L)
           p == [j \in 1 .. Len(L) |-> o[j + 1]]
<1>1. /\ Len(L) \in Nat \ {0} /\ Len(M) = Len(L) - 1
      /\ \A j \in 1 .. Len(M) : M[j] = L[j + 1]
  BY HeadTailProperties, EmptySeq
<1>2. /\ o \in [1 .. Len(L) + 1 -> Nat \X Nat]
      /\ \A j \in 1 .. Len(L) : Turn(L[j], o[j], o[j + 1])
      /\ \A i, j \in 1 .. Len(L) + 1 : i <= j => Later(o[i], o[j])
  BY DEF Turns
<1>3. p \in [1 .. Len(M) + 1 -> Nat \X Nat] /\ \A j \in 1 .. Len(M) + 1 : p[j] = o[j + 1]
  BY <1>1, <1>2
<1> HIDE DEF p, M
<1>4. ASSUME NEW j \in 1 .. Len(M) PROVE Turn(M[j], p[j], p[j + 1])
  BY <1>1, <1>2, <1>3, SMTT(30)
<1>5. ASSUME NEW i \in 1 .. Len(M) + 1, NEW j \in 1 .. Len(M) + 1, i <= j
      PROVE  Later(p[i], p[j])
  <2>1. i + 1 \in 1 .. Len(L) + 1 /\ j + 1 \in 1 .. Len(L) + 1 /\ i + 1 <= j + 1
    BY <1>1, <1>5
  <2>2. Later(o[i + 1], o[j + 1])
    BY <1>2, <2>1
  <2> QED BY <1>3, <2>2
<1>6. Turns(M, p)
  BY <1>3, <1>4, <1>5 DEF Turns
<1>7. p[1] = o[2] /\ p[Len(M) + 1] = o[Len(L) + 1]
  BY <1>1, <1>3
<1> QED BY <1>3, <1>6, <1>7 DEF M

LEMMA InitInOrder == Init => InOrder
<1> SUFFICES ASSUME Init PROVE InOrder
  OBVIOUS
<1> DEFINE o == [j \in 1 .. 1 |-> <<0, 0>>]
<1>1. m_MsgQueue = <<>> /\ Len(m_MsgQueue) = 0 /\ client.conn = 0 /\ conn = 0 /\ phase = "accept"
  BY NoClientType DEF Init
<1>2. Turns(m_MsgQueue, o)
  BY <1>1 DEF Turns, Later
<1>3. o[1] = <<0, 0>>
  OBVIOUS
<1> HIDE DEF o
<1> QED BY <1>1, <1>2, <1>3 DEF InOrder

\* The driver does not post, and goes on with the connection.
LEMMA OrderStays ==
  ASSUME InOrder, UNCHANGED <<conn, m_MsgQueue, client>>,
         phase' = phase \/ phase' = "lost" \/ (phase # "accept" /\ phase # "lost" /\ phase' # "accept")
  PROVE  InOrder'
BY DEF InOrder

\* It posts, and y is the last connection and the open one then.
LEMMA OrderPosts ==
  ASSUME TypeOK, InOrder, NEW m \in IoMsg, NEW y, phase # "lost",
         Turn(m, <<conn, IF phase = "accept" THEN 0 ELSE conn>>, y),
         m_MsgQueue' = Append(m_MsgQueue, m), UNCHANGED client,
         y[1] <= conn', phase' # "lost" => y = <<conn', IF phase' = "accept" THEN 0 ELSE conn'>>
  PROVE  InOrder'
<1>1. PICK o : /\ Turns(m_MsgQueue, o)
               /\ o[1][2] = client.conn
               /\ o[Len(m_MsgQueue) + 1] = <<conn, IF phase = "accept" THEN 0 ELSE conn>>
  BY DEF InOrder
<1>2. m_MsgQueue \in Seq(IoMsg)
  BY DEF TypeOK
<1>3. PICK p : Turns(m_MsgQueue', p) /\ p[1] = o[1] /\ p[Len(m_MsgQueue') + 1] = y
  BY <1>1, <1>2, TurnsAppend
<1> QED BY <1>1, <1>3 DEF InOrder

\* What the server makes of the message it takes.
Handles(m) == ProcessAccept(m) \/ ProcessDisconn(m) \/ ProcessRecv(m)

\* The message that is taken is about the open connection, or opens one.
LEMMA NextTurn ==
  ASSUME TypeOK, InOrder, Life, m_MsgQueue # <<>>
  PROVE  /\ Head(m_MsgQueue) \in IoMsg /\ Head(m_MsgQueue) = m_MsgQueue[1]
         /\ Head(m_MsgQueue).conn \in 1 .. conn
         /\ Head(m_MsgQueue).type = "IO_ON_ACCEPT" => client = NoClient
         /\ Head(m_MsgQueue).type # "IO_ON_ACCEPT" =>
              client # NoClient /\ client.conn = Head(m_MsgQueue).conn
<1> DEFINE m == Head(m_MsgQueue)
<1>1. PICK o : /\ Turns(m_MsgQueue, o)
               /\ o[1][2] = client.conn
               /\ o[Len(m_MsgQueue) + 1][1] <= conn
  BY DEF InOrder
<1>2. /\ m_MsgQueue \in Seq(IoMsg) /\ Len(m_MsgQueue) \in Nat \ {0} /\ m \in IoMsg /\ m = m_MsgQueue[1]
  BY HeadTailProperties, EmptySeq DEF TypeOK
<1>3. Turn(m, o[1], o[2]) /\ Later(o[2], o[Len(m_MsgQueue) + 1])
  BY <1>1, <1>2 DEF Turns
<1>4. o[1] \in Nat \X Nat /\ o[2] \in Nat \X Nat /\ o[Len(m_MsgQueue) + 1] \in Nat \X Nat
  BY <1>1, <1>2, SMTT(30) DEF Turns
<1> HIDE DEF m
<1>5. m.conn \in Nat \ {0} /\ m.type \in {"IO_ON_ACCEPT", "IO_ON_RECV", "IO_ON_DISCONN"}
  BY <1>2 DEF IoMsg, Conns
<1>6. o[2][1] = m.conn
  BY <1>3, <1>5 DEF Turn
<1>7. m.conn \in 1 .. conn
  <2>1. conn \in Nat
    BY PacketAssumption DEF TypeOK
  <2>2. m.conn <= o[Len(m_MsgQueue) + 1][1] /\ o[Len(m_MsgQueue) + 1][1] \in Nat
    BY <1>3, <1>4, <1>6 DEF Later
  <2> QED BY <1>1, <1>5, <2>1, <2>2
<1>8. m.type = "IO_ON_ACCEPT" => client = NoClient
  BY <1>1, <1>3 DEF Turn, Life
<1>9. m.type # "IO_ON_ACCEPT" => client.conn = m.conn /\ client # NoClient
  BY <1>1, <1>3, <1>5, NoClientType DEF Turn
<1> QED BY <1>2, <1>7, <1>8, <1>9 DEF m

LEMMA OrderTaken ==
  ASSUME TypeOK, InOrder, Life, m_MsgQueue # <<>>, m_MsgQueue' = Tail(m_MsgQueue),
         UNCHANGED <<conn, phase>>,
         Head(m_MsgQueue).type = "IO_ON_ACCEPT" => client'.conn = Head(m_MsgQueue).conn,
         Head(m_MsgQueue).type = "IO_ON_RECV" => client'.conn = client.conn,
         Head(m_MsgQueue).type = "IO_ON_DISCONN" => client'.conn = 0
  PROVE  InOrder'
<1> DEFINE m == Head(m_MsgQueue)
<1>1. PICK o : /\ Turns(m_MsgQueue, o)
               /\ o[1][2] = client.conn
               /\ o[Len(m_MsgQueue) + 1][1] <= conn
               /\ phase # "lost" =>
                    o[Len(m_MsgQueue) + 1] = <<conn, IF phase = "accept" THEN 0 ELSE conn>>
  BY DEF InOrder
<1>2. m_MsgQueue \in Seq(IoMsg) /\ Len(m_MsgQueue) \in Nat \ {0} /\ m \in IoMsg /\ m = m_MsgQueue[1]
  BY HeadTailProperties, EmptySeq DEF TypeOK
<1>3. Turn(m, o[1], o[2])
  BY <1>1, <1>2 DEF Turns
<1>4. o[2][2] = client'.conn
  <2>1. m.type \in {"IO_ON_ACCEPT", "IO_ON_RECV", "IO_ON_DISCONN"}
    BY <1>2 DEF IoMsg
  <2> HIDE DEF m
  <2>2. /\ m.type = "IO_ON_ACCEPT" => client'.conn = m.conn
        /\ m.type = "IO_ON_RECV" => client'.conn = client.conn
        /\ m.type = "IO_ON_DISCONN" => client'.conn = 0
    BY DEF m
  <2> QED BY <1>1, <1>3, <2>1, <2>2 DEF Turn
<1>5. PICK p : /\ Turns(m_MsgQueue', p) /\ p[1] = o[2]
               /\ p[Len(m_MsgQueue') + 1] = o[Len(m_MsgQueue) + 1]
  BY <1>1, <1>2, TurnsTail
<1> QED BY <1>1, <1>4, <1>5 DEF InOrder

\* One client at a time: its connection, and the pieces put by for it.
IsClient(cl) ==
  /\ cl.conn \in 0 .. conn /\ DOMAIN cl.group \subseteq Cmds
  /\ cl = [conn |-> cl.conn, group |-> [cmd \in DOMAIN cl.group |-> cl.group[cmd]]]
  /\ \A cmd \in DOMAIN cl.group : cl.group[cmd] \in Seq(Byte)

LEMMA GroupTypes ==
  ASSUME TypeOK, NEW p \in AnyPacket, client # NoClient, Life, GroupPackage(p)
  PROVE  /\ IsClient(client')
         /\ client'.conn = client.conn
         /\ delivered' \in [Conns -> [Cmds -> Seq(Seq(Byte))]]
<1> DEFINE cmd == p.msg.cmd
           group == client.group
           data == IF cmd \in DOMAIN group THEN group[cmd] \o p.data ELSE p.data
<1>1. cmd \in Cmds /\ p.data \in Seq(Byte) /\ client.conn \in Conns
  <2>1. p.msg \in Message /\ p.data \in Seq(Byte)
    BY DEF AnyPacket, Byte
  <2>2. client.conn \in Conns
    BY PacketAssumption, SMTT(30) DEF TypeOK, Life, Conns
  <2> QED BY <2>1, <2>2 DEF Message
<1>2. data \in Seq(Byte)
  BY <1>1, ConcatProperties DEF TypeOK, Byte
<1>3. /\ client = [conn |-> client.conn, group |-> [c \in DOMAIN group |-> group[c]]]
      /\ DOMAIN group \subseteq Cmds /\ \A c \in DOMAIN group : group[c] \in Seq(Byte)
      /\ client.conn \in 0 .. conn
  BY DEF TypeOK, Byte
<1>4. CASE "OP_IMCOMPLETE" \in p.type
  <2> DEFINE new == [c \in DOMAIN group \cup {cmd} |-> IF c = cmd THEN data ELSE group[c]]
  <2>1. client' = [client EXCEPT !.group = new] /\ delivered' = delivered
    BY <1>4 DEF GroupPackage
  <2>2. DOMAIN new \subseteq Cmds /\ \A c \in DOMAIN new : new[c] \in Seq(Byte)
    BY <1>1, <1>2, <1>3
  <2>3. new = [c \in DOMAIN new |-> new[c]]
    OBVIOUS
  <2> HIDE DEF new, data, cmd, group
  <2>4. client'.conn = client.conn /\ client'.group = new
    BY <1>3, <2>1
  <2>5. client' = [conn |-> client.conn, group |-> new]
    BY <1>3, <2>1
  <2> QED BY <1>3, <2>1, <2>2, <2>3, <2>4, <2>5 DEF IsClient, TypeOK, Byte
<1>5. CASE "OP_IMCOMPLETE" \notin p.type
  <2> DEFINE new == [c \in DOMAIN group \ {cmd} |-> group[c]]
  <2>1. /\ client' = [client EXCEPT !.group = new]
        /\ delivered' = [delivered EXCEPT ![client.conn][cmd] = Append(@, data)]
    BY <1>5 DEF GroupPackage
  <2>2. DOMAIN new \subseteq Cmds /\ \A c \in DOMAIN new : new[c] \in Seq(Byte)
    BY <1>3
  <2>3. new = [c \in DOMAIN new |-> new[c]]
    OBVIOUS
  <2>4. delivered[client.conn][cmd] \in Seq(Seq(Byte))
    BY <1>1 DEF TypeOK, Byte
  <2> HIDE DEF new, data, cmd, group
  <2>5. client'.conn = client.conn /\ client'.group = new
    BY <1>3, <2>1
  <2>6. client' = [conn |-> client.conn, group |-> new]
    BY <1>3, <2>1
  <2>7. IsClient(client')
    BY <1>3, <2>2, <2>3, <2>5, <2>6 DEF IsClient
  <2>8. Append(delivered[client.conn][cmd], data) \in Seq(Seq(Byte))
    BY <1>2, <2>4, AppendProperties
  <2>9. delivered' \in [Conns -> [Cmds -> Seq(Seq(Byte))]]
    BY <1>1, <2>1, <2>8 DEF TypeOK, Byte
  <2> QED BY <2>5, <2>7, <2>9
<1> QED BY <1>4, <1>5

\* How the message that is taken changes the client and what is delivered.
LEMMA ProcessTypes ==
  ASSUME TypeOK, InOrder, Life, ProcessIoMsg
  PROVE  TypeOK' /\ InOrder' /\ Life'
<1> DEFINE m == Head(m_MsgQueue)
<1>1. /\ m \in IoMsg /\ m.conn \in 1 .. conn
      /\ m.type = "IO_ON_ACCEPT" => client = NoClient
      /\ m.type # "IO_ON_ACCEPT" => client # NoClient /\ client.conn = m.conn
  BY NextTurn DEF ProcessIoMsg
<1>2. m_MsgQueue # <<>> /\ m_MsgQueue' = Tail(m_MsgQueue) /\ Handles(m)
  BY DEF ProcessIoMsg, Handles
<1>3. UNCHANGED <<conn, up, sender, packets, stream, phase, m_nCurFlag, buffer, begun, sent, base, mixed, refused>>
  BY DEF ProcessIoMsg, peer, driver, history
<1>4. m_MsgQueue' \in Seq(IoMsg)
  BY <1>2, HeadTailProperties DEF TypeOK
<1>5. conn \in 0 .. MaxConns /\ client.conn \in 0 .. conn /\ IsClient(client) /\ delivered \in [Conns -> [Cmds -> Seq(Seq(Byte))]]
  BY DEF TypeOK, IsClient, Byte
<1> HIDE DEF m
<1>6. /\ IsClient(client') /\ delivered' \in [Conns -> [Cmds -> Seq(Seq(Byte))]]
      /\ m.type = "IO_ON_ACCEPT" => client'.conn = m.conn
      /\ m.type = "IO_ON_RECV" => client'.conn = client.conn
      /\ m.type = "IO_ON_DISCONN" => client'.conn = 0
      /\ client'.conn = 0 => client' = NoClient
  <2>1. CASE ProcessAccept(m)
    <3>1. m.type = "IO_ON_ACCEPT" /\ client' = [NoClient EXCEPT !.conn = m.conn] /\ delivered' = delivered
      BY <1>1, <2>1 DEF ProcessAccept
    <3>2. m.conn \in 0 .. conn /\ m.conn # 0
      BY <1>1, <1>5
    <3>3. client' = [conn |-> m.conn, group |-> NoClient.group]
      BY <3>1 DEF NoClient
    <3> DEFINE new == [conn |-> m.conn, group |-> NoClient.group]
    <3>4. new.conn = m.conn /\ new.group = NoClient.group
      OBVIOUS
    <3>5. new = [conn |-> new.conn, group |-> [c \in DOMAIN new.group |-> new.group[c]]]
      BY <3>4 DEF NoClient
    <3>6. DOMAIN new.group \subseteq Cmds /\ \A c \in DOMAIN new.group : new.group[c] \in Seq(Byte)
      BY <3>4 DEF NoClient
    <3> HIDE DEF new
    <3>7. IsClient(new)
      BY <3>2, <3>4, <3>5, <3>6 DEF IsClient
    <3>8. client' = new
      BY <3>3 DEF new
    <3> QED BY <1>5, <3>1, <3>2, <3>4, <3>7, <3>8
  <2>2. CASE ProcessDisconn(m)
    <3>1. m.type = "IO_ON_DISCONN" /\ client' = NoClient /\ delivered' = delivered
      BY <2>2 DEF ProcessDisconn
    <3>2. 0 \in 0 .. conn
      BY <1>5
    <3> QED BY <1>5, <3>1, <3>2, NoClientType DEF IsClient
  <2>3. CASE ProcessRecv(m)
    <3>1. m.type = "IO_ON_RECV" /\ client # NoClient
      BY <1>1, <2>3 DEF ProcessRecv
    <3>2. CASE UNCHANGED <<client, delivered>>
      BY <1>5, <3>1, <3>2 DEF Life
    <3>3. CASE /\ delivered' = [delivered EXCEPT ![client.conn][MSG_KEEP_ALIVE] = Append(@, <<>>)]
               /\ UNCHANGED client
      <4>1. client.conn \in Conns /\ MSG_KEEP_ALIVE \in Cmds
        BY <1>5, <3>1, PacketAssumption DEF Life, Conns
      <4>2. delivered[client.conn][MSG_KEEP_ALIVE] \in Seq(Seq(Byte)) /\ <<>> \in Seq(Byte)
        BY <1>5, <4>1, EmptySeq
      <4>3. Append(delivered[client.conn][MSG_KEEP_ALIVE], <<>>) \in Seq(Seq(Byte))
        BY <4>2, AppendProperties
      <4>4. delivered' \in [Conns -> [Cmds -> Seq(Seq(Byte))]]
        BY <1>5, <3>3, <4>1, <4>3
      <4> QED BY <1>5, <3>1, <3>3, <4>4 DEF Life
    <3>4. CASE GroupPackage(m.packet)
      <4>1. m.packet \in AnyPacket
        BY <1>1 DEF IoMsg
      <4> QED BY <1>1, <1>5, <3>1, <3>4, <4>1, GroupTypes, NoClientType DEF Life
    <3> QED BY <2>3, <3>1, <3>2, <3>3, <3>4 DEF ProcessRecv
  <2> QED BY <1>2, <2>1, <2>2, <2>3 DEF Handles
<1>7. TypeOK'
  BY <1>3, <1>4, <1>6 DEF TypeOK, IsClient, Byte
<1>8. InOrder'
  BY <1>2, <1>3, <1>6, OrderTaken DEF m
<1>9. Life'
  BY <1>3, <1>6 DEF Life
<1> QED BY <1>7, <1>8, <1>9

-----------------------------------------------------------------------------
(* What is sent                                                            *)

\* What is left of t's message goes on after the packet p.
GoesOn(t, p) ==
  \/ /\ Reach(p) = p.msg.len
     /\ sender' = [sender EXCEPT ![t] = Idle]
  \/ /\ Reach(p) < p.msg.len /\ MSG_DATA_LEN < p.msg.len /\ 0 < Reach(p)
     /\ sender' = [sender EXCEPT ![t] = [msg |-> p.msg, done |-> Reach(p), type |-> {"OP_IMCOMPLETE"}]]

LEMMA PacketIsCut ==
  ASSUME NEW m \in Message, NEW done \in Nat, NEW upto \in Nat, NEW type \in PacketType,
         m.id # 0, done <= upto, upto <= m.len, upto - done <= MSG_DATA_LEN,
         "OP_IMCOMPLETE" \in type <=> upto < m.len
  PROVE  LET p == Packet(m, done, upto, type)
         IN p \in AnyPacket /\ Cut(p) /\ p.msg = m /\ p.done = done /\ Reach(p) = upto
<1> DEFINE p == Packet(m, done, upto, type)
<1>1. Pieces(m, done + 1, upto) \in Seq(Byte) /\ Len(Pieces(m, done + 1, upto)) = upto - done
  <2>1. done + 1 \in Nat /\ done + 1 <= upto + 1 /\ upto - (done + 1) + 1 = upto - done
    OBVIOUS
  <2> QED BY <2>1, PiecesType
<1>2. /\ p.msg = m /\ p.done = done /\ p.type = type /\ p.data = Pieces(m, done + 1, upto)
      /\ p \in AnyPacket
  BY PacketIsTyped DEF Packet
<1> HIDE DEF p
<1>3. Reach(p) = upto /\ Len(p.data) = upto - done
  BY <1>1, <1>2 DEF Reach
<1>4. Cut(p)
  BY <1>2, <1>3 DEF Cut
<1> QED BY <1>2, <1>3, <1>4 DEF p

LEMMA WholeCuts ==
  ASSUME TypeOK, Senders, NEW t \in Threads, SendWhole(t)
  PROVE  \E p \in AnyPacket : /\ SendMessage(p) /\ Cut(p) /\ GoesOn(t, p)
                              /\ p.msg = sender[t].msg /\ p.done = sender[t].done
<1> DEFINE m == sender[t].msg
           p == Packet(m, 0, m.len, {"OP_COMPLETE"})
<1>1. m \in Message /\ m.len \in Nat /\ m.id # 0 /\ m.len <= MSG_DATA_LEN /\ sender[t].done = 0
  <2>1. sender[t] # Idle /\ m.len <= MSG_DATA_LEN
    BY DEF SendWhole
  <2> QED BY <2>1, SenderType, PacketAssumption DEF Senders
<1>2. SendMessage(p) /\ sender' = [sender EXCEPT ![t] = Idle]
  BY DEF SendWhole
<1> HIDE DEF m
<1>3. p \in AnyPacket /\ Cut(p) /\ p.msg = m /\ p.done = 0 /\ Reach(p) = m.len
  <2>1. {"OP_COMPLETE"} \in PacketType
    BY DEF PacketType
  <2>2. "OP_IMCOMPLETE" \in {"OP_COMPLETE"} <=> m.len < m.len
    BY <1>1
  <2>3. 0 \in Nat /\ 0 <= m.len /\ m.len <= m.len /\ m.len - 0 <= MSG_DATA_LEN
    BY <1>1, PacketAssumption
  <2> QED BY <1>1, <2>1, <2>2, <2>3, PacketIsCut
<1> HIDE DEF p
<1> QED BY <1>1, <1>2, <1>3 DEF GoesOn, m

LEMMA FragmentCuts ==
  ASSUME TypeOK, Senders, NEW t \in Threads, SendFragment(t)
  PROVE  \E p \in AnyPacket : /\ SendMessage(p) /\ Cut(p) /\ GoesOn(t, p)
                              /\ p.msg = sender[t].msg /\ p.done = sender[t].done
<1> DEFINE m == sender[t].msg
           done == sender[t].done
           last == m.len - done <= MSG_DATA_LEN
           upto == IF last THEN m.len ELSE done + MSG_DATA_LEN
           type == IF last
                   THEN Toggle(sender[t].type, "OP_IMCOMPLETE") \cup {"OP_COMPLETE"}
                   ELSE sender[t].type \cup {"OP_IMCOMPLETE"}
           p == Packet(m, done, upto, type)
<1>1. /\ m \in Message /\ m.len \in Nat /\ done \in Nat /\ m.id # 0
      /\ MSG_DATA_LEN < m.len /\ done < m.len /\ MSG_DATA_LEN \in Nat \ {0}
      /\ \/ done = 0 /\ sender[t].type = {}
         \/ 0 < done /\ sender[t].type = {"OP_IMCOMPLETE"}
  <2>1. sender[t] # Idle /\ m.len > MSG_DATA_LEN
    BY DEF SendFragment
  <2> QED BY <2>1, SenderType, PacketAssumption DEF Senders
<1>2. /\ SendMessage(p)
      /\ sender' = [sender EXCEPT ![t] = IF last THEN Idle
                                         ELSE [msg |-> m, done |-> upto, type |-> type]]
  BY DEF SendFragment
<1>3. last => type = {"OP_COMPLETE"}
  <2>1. last => sender[t].type = {"OP_IMCOMPLETE"}
    BY <1>1
  <2> QED BY <2>1 DEF Toggle
<1>4. ~last => type = {"OP_IMCOMPLETE"}
  BY <1>1
<1>5. type \in PacketType
  BY <1>3, <1>4 DEF PacketType
<1>6. "OP_IMCOMPLETE" \in type <=> ~last
  BY <1>3, <1>4
<1>7. /\ upto \in Nat /\ done <= upto /\ upto <= m.len /\ upto - done <= MSG_DATA_LEN
      /\ last => upto = m.len
      /\ ~last => upto < m.len /\ 0 < upto
  BY <1>1
<1> HIDE DEF m, done, last, upto, type
<1>8. p \in AnyPacket /\ Cut(p) /\ p.msg = m /\ p.done = done /\ Reach(p) = upto
  <2>1. "OP_IMCOMPLETE" \in type <=> upto < m.len
    BY <1>1, <1>6, <1>7
  <2> QED BY <1>1, <1>5, <1>7, <2>1, PacketIsCut
<1> HIDE DEF p
<1>9. GoesOn(t, p)
  BY <1>1, <1>2, <1>4, <1>7, <1>8 DEF GoesOn
<1> QED BY <1>2, <1>8, <1>9 DEF m, done

-----------------------------------------------------------------------------
(* Framed bytes                                                            *)

LEMMA FramedTypes ==
  ASSUME NEW P \in Seq(AnyPacket), NEW b \in Seq(Byte), IsFramed(P, b)
  PROVE  \A k \in 1 .. Len(b) :
           /\ b[k] \in Byte /\ b[k][1] \in 1 .. Len(P) /\ b[k][1] \in Nat /\ b[k][2] \in Nat
           /\ usMsgLen(P[b[k][1]]) \in Nat /\ usMsgLen(P[b[k][1]]) >= 2
           /\ b[k] = <<b[k][1], b[k][2]>>
<1> TAKE k \in 1 .. Len(b)
<1>1. b[k] \in Byte
  BY ElementOfSeq
<1>2. b[k][1] \in 1 .. Len(P)
  BY DEF IsFramed
<1>3. P[b[k][1]] \in AnyPacket
  BY <1>2, ElementOfSeq
<1> QED BY <1>1, <1>2, <1>3, LengthType, SMTT(30) DEF Byte

\* TCP may lose what comes last.
LEMMA FramedPrefix ==
  ASSUME NEW P \in Seq(AnyPacket), NEW b \in Seq(Byte), IsFramed(P, b),
         NEW c \in Seq(Byte), Len(c) <= Len(b), \A k \in 1 .. Len(c) : c[k] = b[k]
  PROVE  IsFramed(P, c)
<1>1. Len(b) \in Nat /\ Len(c) \in Nat /\ (c # <<>> => Len(c) > 0)
  BY LenProperties, EmptySeq
<1>2. \A k \in 1 .. Len(c) : /\ k \in 1 .. Len(b) /\ c[k] = b[k]
                             /\ c[k][1] \in 1 .. Len(P) /\ c[k][2] \in 1 .. usMsgLen(P[c[k][1]])
  BY <1>1 DEF IsFramed
<1>3. c # <<>> => c[1][2] = 1
  <2>1. ASSUME c # <<>> PROVE b # <<>> /\ c[1] = b[1]
    BY <1>1, <2>1, EmptySeq
  <2> QED BY <2>1 DEF IsFramed
<1>4. ASSUME NEW k \in 1 .. Len(c), NEW d \in Nat,
             k + d <= Len(c), c[k][2] + d <= usMsgLen(P[c[k][1]])
      PROVE  c[k + d] = <<c[k][1], c[k][2] + d>>
  <2>1. k + d \in 1 .. Len(c) /\ k + d <= Len(b)
    BY <1>1, <1>4
  <2> QED BY <1>2, <1>4, <2>1 DEF IsFramed
<1>5. ASSUME NEW k \in 1 .. Len(c), k < Len(c), c[k][2] = usMsgLen(P[c[k][1]])
      PROVE  c[k + 1] = <<c[k][1] + 1, 1>>
  <2>1. k + 1 \in 1 .. Len(c) /\ k < Len(b)
    BY <1>1, <1>5
  <2> QED BY <1>2, <1>5, <2>1 DEF IsFramed
<1> QED BY <1>2, <1>3, <1>4, <1>5 DEF IsFramed

\* What the loop leaves when it has taken a packet.
LEMMA FramedRest ==
  ASSUME NEW P \in Seq(AnyPacket), NEW b \in Seq(Byte), IsFramed(P, b), b # <<>>,
         usMsgLen(P[b[1][1]]) <= Len(b),
         NEW c \in Seq(Byte), Len(c) = Len(b) - usMsgLen(P[b[1][1]]),
         \A k \in 1 .. Len(c) : c[k] = b[k + usMsgLen(P[b[1][1]])]
  PROVE  /\ IsFramed(P, c) /\ (IsFull(P, b) => IsFull(P, c))
         /\ c # <<>> => c[1] = <<b[1][1] + 1, 1>>
         /\ c = <<>> /\ IsFull(P, b) => b[1][1] = Len(P)
<1> DEFINE r == b[1][1]
           n == usMsgLen(P[r])
<1>1. Len(b) \in Nat \ {0} /\ Len(c) \in Nat /\ (c # <<>> => Len(c) > 0) /\ (c = <<>> => Len(c) = 0)
  BY LenProperties, EmptySeq
<1>2. r \in Nat /\ n \in Nat /\ n >= 2 /\ b[1][2] = 1 /\ b[1] = <<r, 1>>
  <2>1. 1 \in 1 .. Len(b) /\ b[1][2] = 1
    BY <1>1 DEF IsFramed
  <2> QED BY <2>1, FramedTypes
<1>3. n <= Len(b) /\ Len(c) = Len(b) - n /\ \A k \in 1 .. Len(c) : c[k] = b[k + n]
  OBVIOUS
<1>4. \A k \in 1 .. Len(b), d \in Nat :
        k + d <= Len(b) /\ b[k][2] + d <= usMsgLen(P[b[k][1]]) => b[k + d] = <<b[k][1], b[k][2] + d>>
  BY DEF IsFramed
<1>5. \A k \in 1 .. Len(b) :
        k < Len(b) /\ b[k][2] = usMsgLen(P[b[k][1]]) => b[k + 1] = <<b[k][1] + 1, 1>>
  BY DEF IsFramed
<1>6. b[n] = <<r, n>>
  <2>1. n - 1 \in Nat /\ 1 \in 1 .. Len(b) /\ 1 + (n - 1) = n /\ b[1][2] + (n - 1) = n
    BY <1>1, <1>2
  <2> HIDE DEF n
  <2> QED BY <1>2, <1>3, <1>4, <2>1, SMTT(30) DEF n
<1> HIDE DEF r, n
<1>7. c # <<>> => c[1] = <<r + 1, 1>>
  <2>1. ASSUME c # <<>> PROVE n \in 1 .. Len(b) /\ n < Len(b) /\ 1 \in 1 .. Len(c) /\ 1 + n = n + 1
    BY <1>1, <1>2, <1>3, <2>1
  <2>2. b[n][2] = n /\ b[n][1] = r
    BY <1>6
  <2> QED BY <1>3, <1>5, <2>1, <2>2 DEF n
<1>8. \A k \in 1 .. Len(c) : k + n \in 1 .. Len(b) /\ c[k] = b[k + n]
  BY <1>1, <1>2, <1>3
<1>9. \A k \in 1 .. Len(c) : c[k][1] \in 1 .. Len(P) /\ c[k][2] \in 1 .. usMsgLen(P[c[k][1]])
  BY <1>8 DEF IsFramed
<1>10. ASSUME NEW k \in 1 .. Len(c), NEW d \in Nat,
              k + d <= Len(c), c[k][2] + d <= usMsgLen(P[c[k][1]])
       PROVE  c[k + d] = <<c[k][1], c[k][2] + d>>
  <2>1. k + d \in 1 .. Len(c) /\ (k + n) + d <= Len(b) /\ (k + n) + d = (k + d) + n
    BY <1>1, <1>2, <1>3, <1>10
  <2>2. c[k] = b[k + n] /\ k + n \in 1 .. Len(b) /\ c[k + d] = b[(k + n) + d]
    BY <1>8, <2>1
  <2> QED BY <1>4, <1>10, <2>1, <2>2
<1>11. ASSUME NEW k \in 1 .. Len(c), k < Len(c), c[k][2] = usMsgLen(P[c[k][1]])
       PROVE  c[k + 1] = <<c[k][1] + 1, 1>>
  <2>1. k + 1 \in 1 .. Len(c) /\ k + n < Len(b) /\ (k + n) + 1 = (k + 1) + n
    BY <1>1, <1>2, <1>3, <1>11
  <2>2. c[k] = b[k + n] /\ k + n \in 1 .. Len(b) /\ c[k + 1] = b[(k + n) + 1]
    BY <1>8, <2>1
  <2> QED BY <1>5, <1>11, <2>1, <2>2
<1>12. IsFramed(P, c)
  <2>1. c # <<>> => c[1][2] = 1
    BY <1>7
  <2> QED BY <1>9, <1>10, <1>11, <2>1 DEF IsFramed
<1>13. IsFull(P, b) => IsFull(P, c)
  <2>1. ASSUME c # <<>> PROVE Len(c) \in 1 .. Len(c) /\ c[Len(c)] = b[Len(b)]
    <3>1. Len(c) \in 1 .. Len(c) /\ Len(c) + n = Len(b)
      BY <1>1, <1>2, <1>3, <2>1
    <3> QED BY <1>8, <3>1
  <2> QED BY <2>1 DEF IsFull
<1>14. c = <<>> /\ IsFull(P, b) => r = Len(P)
  <2>1. ASSUME c = <<>> PROVE n = Len(b)
    BY <1>1, <1>2, <1>3, <2>1
  <2> QED BY <1>6, <2>1 DEF IsFull
<1> QED BY <1>7, <1>12, <1>13, <1>14 DEF r

\* A packet that is sent follows a stream that is whole.
LEMMA FramedAppend ==
  ASSUME NEW P \in Seq(AnyPacket), NEW b \in Seq(Byte), IsFramed(P, b), IsFull(P, b),
         NEW p \in AnyPacket, NEW c \in Seq(Byte),
         Len(c) = Len(b) + usMsgLen(p),
         \A k \in 1 .. Len(b) : c[k] = b[k],
         \A k \in 1 .. usMsgLen(p) : c[Len(b) + k] = <<Len(P) + 1, k>>
  PROVE  /\ IsFramed(Append(P, p), c) /\ IsFull(Append(P, p), c) /\ c # <<>>
         /\ c[1][1] = IF b = <<>> THEN Len(P) + 1 ELSE b[1][1]
<1> DEFINE Q == Append(P, p)
           n == usMsgLen(p)
           N == Len(P) + 1
<1>1. /\ Len(P) \in Nat /\ Len(b) \in Nat /\ n \in Nat /\ n >= 2 /\ Len(c) \in Nat
      /\ Len(Q) = N /\ N \in Nat /\ N >= 1 /\ Q[N] = p
      /\ \A i \in 1 .. Len(P) : Q[i] = P[i]
  BY LenProperties, AppendProperties, LengthType
<1>2. \A k \in 1 .. Len(b) :
           /\ b[k] \in Byte /\ b[k][1] \in 1 .. Len(P) /\ b[k][1] \in Nat /\ b[k][2] \in Nat
           /\ usMsgLen(P[b[k][1]]) \in Nat /\ usMsgLen(P[b[k][1]]) >= 2
           /\ b[k] = <<b[k][1], b[k][2]>>
  BY FramedTypes
<1>3. \A k \in 1 .. Len(b) : /\ c[k] = b[k] /\ Q[c[k][1]] = P[b[k][1]]
  BY <1>1, <1>2
<1>4. \A k \in 1 .. n : c[Len(b) + k] = <<N, k>>
  OBVIOUS
<1>5. Len(c) = Len(b) + n /\ Q \in Seq(AnyPacket)
  BY AppendProperties
<1> HIDE DEF Q, n, N
<1>6. \A k \in 1 .. Len(c) : k > Len(b) => k - Len(b) \in 1 .. n /\ c[k] = <<N, k - Len(b)>> /\ usMsgLen(Q[c[k][1]]) = n
  <2> TAKE k \in 1 .. Len(c)
  <2> HAVE k > Len(b)
  <2>1. k - Len(b) \in 1 .. n /\ Len(b) + (k - Len(b)) = k
    BY <1>1, <1>5
  <2>2. c[k] = <<N, k - Len(b)>>
    BY <1>4, <2>1
  <2>3. usMsgLen(Q[c[k][1]]) = n
    BY <1>1, <2>2 DEF n
  <2> QED BY <2>1, <2>2, <2>3
<1>7. ASSUME NEW k \in 1 .. Len(c) PROVE c[k][1] \in 1 .. Len(Q) /\ c[k][2] \in 1 .. usMsgLen(Q[c[k][1]])
  <2>1. CASE k > Len(b)
    <3>1. /\ k - Len(b) \in 1 .. n /\ usMsgLen(Q[c[k][1]]) = n
          /\ c[k][1] = N /\ c[k][2] = k - Len(b)
      BY <1>6, <2>1
    <3>2. N \in 1 .. Len(Q)
      BY <1>1
    <3> QED BY <3>1, <3>2
  <2>2. CASE k <= Len(b)
    <3>1. k \in 1 .. Len(b)
      BY <1>1, <2>2
    <3>2. b[k][1] \in 1 .. Len(P) /\ b[k][2] \in 1 .. usMsgLen(P[b[k][1]])
      BY <3>1 DEF IsFramed
    <3> QED BY <1>1, <1>3, <3>1, <3>2 DEF N
  <2> QED BY <1>1, <2>1, <2>2
<1>8. c # <<>> /\ 1 \in 1 .. Len(c)
  BY <1>1, <1>5, EmptySeq
<1>9. c[1][2] = 1 /\ c[1][1] = IF b = <<>> THEN N ELSE b[1][1]
  <2>1. CASE b = <<>>
    <3>1. Len(b) = 0
      BY <2>1
    <3>2. c[1] = <<N, 1>>
      BY <1>6, <1>8, <3>1
    <3> QED BY <2>1, <3>2
  <2>2. CASE b # <<>>
    <3>1. 1 \in 1 .. Len(b)
      BY <1>1, <2>2, EmptySeq
    <3>2. b[1][2] = 1
      BY <2>2 DEF IsFramed
    <3> QED BY <1>3, <2>2, <3>1, <3>2
  <2> QED BY <2>1, <2>2
\* A packet that starts in b ends there, for b is full.
<1>10. ASSUME NEW k \in 1 .. Len(b), NEW d \in Nat, b[k][2] + d <= usMsgLen(P[b[k][1]])
       PROVE  k + d <= Len(b)
  <2>1. SUFFICES ASSUME k + d > Len(b) PROVE FALSE
    BY <1>1
  <2> DEFINE e == Len(b) - k
  <2>2. e \in Nat /\ k + e = Len(b) /\ e < d
    BY <1>1, <2>1
  <2> HIDE DEF e
  <2>3. b[k][2] + e <= usMsgLen(P[b[k][1]])
    BY <1>2, <1>10, <2>2
  <2>4. b[k + e] = <<b[k][1], b[k][2] + e>>
    BY <1>1, <2>2, <2>3 DEF IsFramed
  <2>5. b[Len(b)] = <<Len(P), usMsgLen(P[Len(P)])>>
    <3>1. b # <<>>
      BY <1>1
    <3> QED BY <3>1 DEF IsFull
  <2>6. b[k][1] = Len(P) /\ b[k][2] + e = usMsgLen(P[Len(P)])
    <3>1. <<b[k][1], b[k][2] + e>> = <<Len(P), usMsgLen(P[Len(P)])>>
      BY <2>2, <2>4, <2>5
    <3> QED BY <3>1
  <2> QED BY <1>2, <1>10, <2>2, <2>6
<1>11. ASSUME NEW k \in 1 .. Len(c), NEW d \in Nat,
              k + d <= Len(c), c[k][2] + d <= usMsgLen(Q[c[k][1]])
       PROVE  c[k + d] = <<c[k][1], c[k][2] + d>>
  <2>1. CASE k > Len(b)
    <3>1. k + d \in 1 .. Len(c) /\ k + d > Len(b) /\ (k + d) - Len(b) = (k - Len(b)) + d
      BY <1>1, <1>11, <2>1
    <3>2. c[k + d] = <<N, (k - Len(b)) + d>> /\ c[k] = <<N, k - Len(b)>>
      BY <1>6, <2>1, <3>1
    <3> QED BY <3>2
  <2>2. CASE k <= Len(b)
    <3>1. k \in 1 .. Len(b)
      BY <1>1, <2>2
    <3>2. b[k][2] + d <= usMsgLen(P[b[k][1]])
      BY <1>3, <1>11, <3>1
    <3>3. k + d <= Len(b) /\ k + d \in 1 .. Len(b)
      BY <1>1, <1>10, <3>1, <3>2
    <3>4. b[k + d] = <<b[k][1], b[k][2] + d>>
      BY <3>1, <3>2, <3>3 DEF IsFramed
    <3> QED BY <1>3, <3>1, <3>3, <3>4
  <2> QED BY <1>1, <2>1, <2>2
<1>12. ASSUME NEW k \in 1 .. Len(c), k < Len(c), c[k][2] = usMsgLen(Q[c[k][1]])
       PROVE  c[k + 1] = <<c[k][1] + 1, 1>>
  <2>1. CASE k > Len(b)
    <3>1. c[k][2] = k - Len(b) /\ usMsgLen(Q[c[k][1]]) = n
      BY <1>6, <2>1
    <3>2. k - Len(b) = n
      BY <1>12, <3>1
    <3> QED BY <1>1, <1>5, <1>12, <3>2
  <2>2. CASE k = Len(b)
    <3>1. k + 1 \in 1 .. Len(c) /\ k + 1 > Len(b) /\ (k + 1) - Len(b) = 1 /\ b # <<>>
      BY <1>1, <1>12, <2>2
    <3>2. c[k + 1] = <<N, 1>>
      BY <1>6, <3>1
    <3>3. c[k] = b[Len(b)] /\ b[Len(b)] = <<Len(P), usMsgLen(P[Len(P)])>>
      BY <1>1, <1>3, <2>2, <3>1 DEF IsFull
    <3> QED BY <3>2, <3>3 DEF N
  <2>3. CASE k < Len(b)
    <3>1. k \in 1 .. Len(b) /\ k + 1 \in 1 .. Len(b)
      BY <1>1, <2>3
    <3>2. b[k][2] = usMsgLen(P[b[k][1]])
      BY <1>3, <1>12, <3>1
    <3>3. b[k + 1] = <<b[k][1] + 1, 1>>
      BY <2>3, <3>1, <3>2 DEF IsFramed
    <3> QED BY <1>3, <3>1, <3>3
  <2> QED BY <1>1, <2>1, <2>2, <2>3
<1>13. IsFull(Q, c)
  <2>1. Len(c) \in 1 .. Len(c) /\ Len(c) > Len(b) /\ Len(c) - Len(b) = n
    BY <1>1, <1>5
  <2>2. c[Len(c)] = <<N, n>>
    BY <1>6, <2>1
  <2>3. Len(Q) = N /\ usMsgLen(Q[Len(Q)]) = n
    BY <1>1 DEF n
  <2> QED BY <2>2, <2>3 DEF IsFull
<1>14. IsFramed(Q, c)
  BY <1>7, <1>9, <1>11, <1>12 DEF IsFramed
<1> QED BY <1>8, <1>9, <1>13, <1>14 DEF Q, N

-----------------------------------------------------------------------------
(* The line                                                                *)

BytesAre ==
  /\ buffer \in Seq(Byte) /\ stream \in Seq(Byte)
  /\ buffer \o stream \in Seq(Byte) /\ Len(buffer \o stream) = Len(buffer) + Len(stream)
  /\ Len(buffer) \in Nat /\ Len(stream) \in Nat
  /\ \A k \in 1 .. Len(buffer) + Len(stream) :
       (buffer \o stream)[k] = IF k <= Len(buffer) THEN buffer[k] ELSE stream[k - Len(buffer)]

LEMMA BytesType == TypeOK => BytesAre
<1> SUFFICES ASSUME TypeOK PROVE BytesAre
  OBVIOUS
<1>1. buffer \in Seq(Byte) /\ stream \in Seq(Byte)
  BY DEF TypeOK, Byte
<1> QED BY <1>1, ConcatProperties, LenProperties DEF BytesAre

LEMMA BytesTypeNext == TypeOK' => BytesAre'
BY BytesType, PTL

LineIs ==
  /\ Pending \in Nat /\ Line \in Seq(IoMsg) /\ Len(Line) = Len(m_MsgQueue) + Pending
  /\ Len(m_MsgQueue) \in Nat
  /\ \A j \in 1 .. Len(m_MsgQueue) : Line[j] = m_MsgQueue[j]
  /\ \A j \in 1 .. Pending :
       Line[Len(m_MsgQueue) + j] =
         [type |-> "IO_ON_RECV", packet |-> packets[First + j - 1], conn |-> conn]
  /\ Pending # 0 => First \in 1 .. Len(packets)

LEMMA LineType == TypeOK /\ Framing => LineIs
<1> SUFFICES ASSUME TypeOK, Framing PROVE LineIs
  OBVIOUS
<1>1. m_MsgQueue \in Seq(IoMsg) /\ Len(m_MsgQueue) \in Nat /\ packets \in Seq(AnyPacket) /\ Len(packets) \in Nat
  BY LenProperties DEF TypeOK
<1>2. Pending \in Nat /\ (Pending # 0 => conn \in Conns /\ First \in 1 .. Len(packets) /\ Pending = Len(packets) + 1 - First)
  <2>1. CASE Receiving /\ buffer \o stream # <<>>
    <3>1. IsFramed(packets, buffer \o stream) /\ conn \in Conns
      BY <2>1, PacketAssumption DEF Framing, Receiving, TypeOK, Conns
    <3>2. 1 \in 1 .. Len(buffer \o stream)
      BY <2>1, BytesType, EmptySeq DEF BytesAre
    <3>3. First \in 1 .. Len(packets)
      BY <3>1, <3>2 DEF IsFramed, First
    <3> QED BY <1>1, <2>1, <3>1, <3>3 DEF Pending
  <2>2. CASE ~(Receiving /\ buffer \o stream # <<>>)
    BY <2>2 DEF Pending
  <2> QED BY <2>1, <2>2
<1> DEFINE posts == [j \in 1 .. Pending |->
                      [type |-> "IO_ON_RECV", packet |-> packets[First + j - 1], conn |-> conn]]
<1>3. posts \in Seq(IoMsg) /\ Len(posts) = Pending
  <2>1. posts \in [1 .. Pending -> IoMsg]
    <3>1. SUFFICES ASSUME NEW j \in 1 .. Pending
                   PROVE  [type |-> "IO_ON_RECV", packet |-> packets[First + j - 1], conn |-> conn] \in IoMsg
      BY <1>2
    <3>2. First + j - 1 \in 1 .. Len(packets) /\ conn \in Conns
      BY <1>1, <1>2
    <3>3. packets[First + j - 1] \in AnyPacket
      BY <1>1, <3>2, ElementOfSeq
    <3> QED BY <3>2, <3>3 DEF IoMsg
  <2> QED BY <1>2, <2>1, FunctionIsSeq
<1>4. Line = m_MsgQueue \o posts
  BY DEF Line
<1>5. \A j \in 1 .. Pending : posts[j] = [type |-> "IO_ON_RECV", packet |-> packets[First + j - 1], conn |-> conn]
  OBVIOUS
<1> HIDE DEF posts
<1>6. /\ Line \in Seq(IoMsg) /\ Len(Line) = Len(m_MsgQueue) + Pending
      /\ \A j \in 1 .. Len(m_MsgQueue) + Pending :
           Line[j] = IF j <= Len(m_MsgQueue) THEN m_MsgQueue[j] ELSE posts[j - Len(m_MsgQueue)]
  BY <1>1, <1>3, <1>4, ConcatProperties
<1>7. \A j \in 1 .. Len(m_MsgQueue) : Line[j] = m_MsgQueue[j]
  BY <1>1, <1>2, <1>6
<1>8. \A j \in 1 .. Pending :
        Line[Len(m_MsgQueue) + j] =
          [type |-> "IO_ON_RECV", packet |-> packets[First + j - 1], conn |-> conn]
  <2> TAKE j \in 1 .. Pending
  <2>1. /\ Len(m_MsgQueue) + j \in 1 .. Len(m_MsgQueue) + Pending
        /\ ~(Len(m_MsgQueue) + j <= Len(m_MsgQueue))
        /\ (Len(m_MsgQueue) + j) - Len(m_MsgQueue) = j
    BY <1>1, <1>2
  <2>2. Line[Len(m_MsgQueue) + j] = posts[j]
    BY <1>6, <2>1
  <2> QED BY <1>5, <2>2
<1> QED BY <1>1, <1>2, <1>6, <1>7, <1>8 DEF LineIs

LEMMA LineTypeNext == TypeOK' /\ Framing' => LineIs'
BY LineType, PTL

LEMMA LineIfNone ==
  /\ Pending = 0 => Line = m_MsgQueue \o <<>>
  /\ Pending' = 0 => Line' = m_MsgQueue' \o <<>>
<1>1. Pending = 0 => Line = m_MsgQueue \o <<>>
  <2>1. ASSUME Pending = 0
        PROVE  [j \in 1 .. Pending |->
                 [type |-> "IO_ON_RECV", packet |-> packets[First + j - 1], conn |-> conn]] = <<>>
    BY <2>1
  <2> QED BY <2>1 DEF Line
<1>2. (Pending = 0 => Line = m_MsgQueue \o <<>>)'
  BY <1>1, PTL
<1> QED BY <1>1, <1>2

\* How a step changes it.
Shorter ==
  /\ Len(Line') <= Len(Line) /\ (up' => Len(Line') = Len(Line))
  /\ \A j \in 1 .. Len(Line') : Line'[j] = Line[j]

Longer(m) ==
  /\ Len(Line') = Len(Line) + 1 /\ Line'[Len(Line) + 1] = m
  /\ \A j \in 1 .. Len(Line) : Line'[j] = Line[j]

RecvMsg(p) == [type |-> "IO_ON_RECV", packet |-> p, conn |-> conn]

LEMMA InitBasics == Init => Basics
<1> SUFFICES ASSUME Init PROVE Basics
  OBVIOUS
<1>1. TypeOK /\ InOrder
  BY InitTypes, InitInOrder
<1>2. Life
  BY NoClientType DEF Life, Init
<1>3. Senders /\ PacketsAreCut /\ NoneAstray /\ Framing
  BY DEF Senders, PacketsAreCut, NoneAstray, Framing, Receiving, Init
<1> QED BY <1>1, <1>2, <1>3 DEF Basics

\* A step that leaves the driver and what it receives alone.
LEMMA DriverStands ==
  ASSUME Basics,
         UNCHANGED <<conn, up, packets, stream, phase, m_nCurFlag, buffer, m_MsgQueue, base>>
  PROVE  Framing' /\ NoneAstray' /\ PacketsAreCut' /\ Line' = Line
<1>1. Framing'
  BY DEF Basics, Framing, Receiving, IsFull
<1>2. NoneAstray' /\ PacketsAreCut'
  BY DEF Basics, NoneAstray, PacketsAreCut
<1>3. Line' = Line
  BY DEF Line, Pending, First, Receiving
<1> QED BY <1>1, <1>2, <1>3

LEMMA BeginBasics ==
  ASSUME Basics, NEW t \in Threads, NEW message \in Messages, Begin(t, message)
  PROVE  Basics' /\ Line' = Line
<1>1. TypeOK /\ Life /\ Senders /\ InOrder /\ conn # 0
  BY DEF Basics, Life, Begin
<1>2. UNCHANGED <<conn, up, packets, stream, phase, m_nCurFlag, buffer, m_MsgQueue, base, client>>
  BY DEF Begin, driver, server
<1>3. TypeOK'
  BY <1>1, BeginTypes
<1>4. Life'
  BY <1>1, <1>2 DEF Life, Begin
<1>5. Senders'
  <2> DEFINE m == [id |-> begun + 1, cmd |-> message.cmd, len |-> message.len]
  <2>1. sender' = [sender EXCEPT ![t] = [msg |-> m, done |-> 0, type |-> {}]] /\ m.id # 0
    BY <1>1 DEF Begin, TypeOK
  <2> HIDE DEF m
  <2>2. /\ sender'[t].msg = m /\ sender'[t].done = 0 /\ sender'[t].type = {}
        /\ \A u \in Threads \ {t} : sender'[u] = sender[u]
    BY <1>1, <2>1 DEF TypeOK
  <2> QED BY <1>1, <2>1, <2>2 DEF Senders
<1>6. InOrder'
  BY <1>1, <1>2, OrderStays
<1> QED BY <1>2, <1>3, <1>4, <1>5, <1>6, DriverStands DEF Basics

\* A packet is sent, by a thread that is in its message.
LEMMA SendCuts ==
  ASSUME Basics, NEW t \in Threads, Send(t)
  PROVE  /\ TypeOK' /\ up /\ conn \in Conns /\ sender[t] # Idle
         /\ UNCHANGED <<conn, up, phase, m_nCurFlag, buffer, m_MsgQueue, client, begun, sent, delivered, base, mixed>>
         /\ \E p \in AnyPacket : /\ SendMessage(p) /\ Cut(p) /\ GoesOn(t, p)
                                 /\ p.msg = sender[t].msg /\ p.done = sender[t].done
<1>1. TypeOK /\ Life /\ Senders
  BY DEF Basics
<1>2. sender[t] # Idle
  BY DEF Send, SendWhole, SendFragment
<1>3. up /\ conn \in Conns
  BY <1>1, <1>2, PacketAssumption DEF Life, TypeOK, Conns
<1>4. UNCHANGED <<conn, up, phase, m_nCurFlag, buffer, m_MsgQueue, client, begun, sent, delivered, base, mixed>>
  BY DEF Send, SendWhole, SendFragment, driver, server, history
<1>5. sender[t].done <= sender[t].msg.len
  BY <1>1, <1>2, SenderType DEF Senders
<1>6. CASE SendWhole(t)
  BY <1>1, <1>2, <1>3, <1>4, <1>6, WholeTypes, WholeCuts
<1>7. CASE SendFragment(t)
  BY <1>1, <1>2, <1>3, <1>4, <1>5, <1>7, FragmentTypes, FragmentCuts
<1> QED BY <1>6, <1>7 DEF Send

LEMMA SendFrames ==
  ASSUME Basics, TypeOK', up, conn \in Conns, NEW p \in AnyPacket, WSASend(p), Cut(p),
         UNCHANGED <<conn, up, phase, m_nCurFlag, buffer, m_MsgQueue, base>>
  PROVE  /\ Framing' /\ PacketsAreCut'
         /\ IF base[conn] = 0 THEN Longer(RecvMsg(p)) ELSE Line' = Line
<1> DEFINE b == buffer \o stream
           c == buffer' \o stream'
<1>1. /\ TypeOK /\ Life /\ Framing /\ PacketsAreCut /\ packets \in Seq(AnyPacket)
      /\ packets' = Append(packets, p) /\ BytesAre /\ BytesAre'
  BY BytesType, BytesTypeNext DEF Basics, TypeOK, WSASend
<1>2. /\ Len(packets) \in Nat /\ Len(packets') = Len(packets) + 1 /\ packets'[Len(packets) + 1] = p
      /\ \A i \in 1 .. Len(packets) : packets'[i] = packets[i]
  BY <1>1, AppendProperties, LenProperties
<1>3. PacketsAreCut'
  BY <1>1, <1>2 DEF PacketsAreCut
<1>4. /\ b \in Seq(Byte) /\ c \in Seq(Byte) /\ Len(c) = Len(b) + usMsgLen(p)
      /\ \A k \in 1 .. Len(b) : c[k] = b[k]
      /\ \A k \in 1 .. usMsgLen(p) : c[Len(b) + k] = <<Len(packets) + 1, k>>
  <2> DEFINE new == [k \in 1 .. usMsgLen(p) |-> <<Len(packets) + 1, k>>]
  <2>1. usMsgLen(p) \in Nat
    BY LengthType
  <2>2. new \in [1 .. usMsgLen(p) -> Byte]
    BY <1>2 DEF Byte
  <2>3. new \in Seq(Byte) /\ Len(new) = usMsgLen(p)
    BY <2>1, <2>2, FunctionIsSeq
  <2>4. \A k \in 1 .. usMsgLen(p) : new[k] = <<Len(packets) + 1, k>>
    OBVIOUS
  <2>5. stream' = stream \o new /\ buffer' = buffer
    BY DEF WSASend
  <2> HIDE DEF new
  <2>6. c = b \o new
    BY <1>1, <2>3, <2>5, ConcatAssociative, SMTT(30) DEF BytesAre
  <2> HIDE DEF b, c
  <2>7. b \in Seq(Byte) /\ Len(b) \in Nat
    BY <1>1, LenProperties DEF BytesAre, b
  <2>8. /\ c \in Seq(Byte) /\ Len(c) = Len(b) + usMsgLen(p)
        /\ \A k \in 1 .. Len(b) + usMsgLen(p) : c[k] = IF k <= Len(b) THEN b[k] ELSE new[k - Len(b)]
    BY <2>3, <2>6, <2>7, ConcatProperties
  <2>9. \A k \in 1 .. Len(b) : c[k] = b[k]
    BY <2>1, <2>7, <2>8
  <2>10. ASSUME NEW k \in 1 .. usMsgLen(p) PROVE c[Len(b) + k] = <<Len(packets) + 1, k>>
    <3>1. Len(b) + k \in 1 .. Len(b) + usMsgLen(p) /\ ~(Len(b) + k <= Len(b)) /\ (Len(b) + k) - Len(b) = k
      BY <2>1, <2>7
    <3> QED BY <2>4, <2>8, <3>1
  <2> QED BY <2>7, <2>8, <2>9, <2>10
<1>5. CASE base[conn] = 0
  <2>1. Receiving /\ Receiving'
    BY <1>1, <1>5 DEF Receiving, Life, Conns
  <2>2. IsFramed(packets, b) /\ IsFull(packets, b)
    BY <1>1, <2>1 DEF Framing
  <2> HIDE DEF b, c
  <2>3. /\ IsFramed(packets', c) /\ IsFull(packets', c) /\ c # <<>>
        /\ c[1][1] = IF b = <<>> THEN Len(packets) + 1 ELSE b[1][1]
    <3>1. packets \in Seq(AnyPacket) /\ packets' = Append(packets, p)
      BY <1>1
    <3>2. PICK P, x, y : P = packets /\ x = b /\ y = c
      OBVIOUS
    <3>3. /\ P \in Seq(AnyPacket) /\ x \in Seq(Byte) /\ IsFramed(P, x) /\ IsFull(P, x)
          /\ y \in Seq(Byte) /\ Len(y) = Len(x) + usMsgLen(p)
          /\ \A k \in 1 .. Len(x) : y[k] = x[k]
          /\ \A k \in 1 .. usMsgLen(p) : y[Len(x) + k] = <<Len(P) + 1, k>>
      BY <1>4, <2>2, <3>1, <3>2
    <3>4. /\ IsFramed(Append(P, p), y) /\ IsFull(Append(P, p), y) /\ y # <<>>
          /\ y[1][1] = IF x = <<>> THEN Len(P) + 1 ELSE x[1][1]
      BY <3>3, FramedAppend
    <3> QED BY <3>1, <3>2, <3>4
  <2>4. Framing'
    BY <1>1, <2>1, <2>3 DEF Framing, c
  <2>5. LineIs /\ LineIs'
    BY <1>1, <2>4, LineType, LineTypeNext
  <2>6. /\ Pending = IF b # <<>> THEN Len(packets) + 1 - b[1][1] ELSE 0
        /\ Pending' = Len(packets') + 1 - c[1][1]
        /\ First' = c[1][1] /\ First = b[1][1]
    BY <2>1, <2>3 DEF Pending, First, b, c
  <2>7. Pending' = Pending + 1 /\ First' = Len(packets) + 1 - Pending /\ (Pending # 0 => First' = First) /\ Pending \in Nat
    <3>1. b # <<>> => b[1][1] \in 1 .. Len(packets)
      <4>1. b # <<>> => 1 \in 1 .. Len(b)
        BY <1>4, EmptySeq
      <4> QED BY <2>2, <4>1 DEF IsFramed
    <3> QED BY <1>2, <2>3, <2>6, <3>1, SMTT(30)
  <2>8. Longer(RecvMsg(p))
    <3> DEFINE n == Len(m_MsgQueue)
    <3>1. n \in Nat /\ Len(m_MsgQueue') = n /\ m_MsgQueue' = m_MsgQueue
      BY <2>5 DEF LineIs
    <3>2. Len(Line) = n + Pending /\ Len(Line') = Len(Line) + 1
      BY <2>5, <2>7, <3>1 DEF LineIs
    <3>3. ASSUME NEW j \in 1 .. Len(Line) PROVE Line'[j] = Line[j]
      <4>1. CASE j \in 1 .. n
        BY <2>5, <3>1, <4>1 DEF LineIs
      <4>2. CASE j \notin 1 .. n
        <5> DEFINE i == j - n
        <5>1. i \in 1 .. Pending /\ j = n + i /\ i \in 1 .. Pending' /\ Pending # 0
          BY <2>7, <3>1, <3>2, <4>2
        <5> HIDE DEF i
        <5>2. /\ Line[n + i] = [type |-> "IO_ON_RECV", packet |-> packets[First + i - 1], conn |-> conn]
              /\ Line'[n + i] = [type |-> "IO_ON_RECV", packet |-> packets'[First' + i - 1], conn |-> conn']
          BY <2>5, <3>1, <5>1 DEF LineIs
        <5>3. First + i - 1 \in 1 .. Len(packets)
          BY <1>2, <2>5, <2>7, <5>1 DEF LineIs
        <5>4. packets'[First' + i - 1] = packets[First + i - 1]
          BY <1>2, <2>7, <5>1, <5>3
        <5> QED BY <5>1, <5>2, <5>4
      <4> QED BY <4>1, <4>2
    <3>4. Line'[Len(Line) + 1] = RecvMsg(p)
      <4>1. Pending' \in 1 .. Pending' /\ Len(Line) + 1 = n + Pending'
        BY <2>7, <3>1, <3>2
      <4>2. Line'[n + Pending'] = [type |-> "IO_ON_RECV", packet |-> packets'[First' + Pending' - 1], conn |-> conn']
        BY <2>5, <3>1, <4>1 DEF LineIs
      <4>3. First' + Pending' - 1 = Len(packets) + 1
        BY <1>2, <2>7
      <4> QED BY <1>2, <4>1, <4>2, <4>3 DEF RecvMsg
    <3> QED BY <3>2, <3>3, <3>4 DEF Longer
  <2> QED BY <1>3, <1>5, <2>4, <2>8
<1>6. CASE base[conn] # 0
  <2>1. ~Receiving /\ ~Receiving'
    BY <1>6 DEF Receiving
  <2>2. Framing'
    BY <2>1 DEF Framing
  <2>3. Pending = 0 /\ Pending' = 0
    BY <2>1 DEF Pending
  <2>4. Line' = Line
    BY <2>3, LineIfNone DEF Line
  <2> QED BY <1>3, <1>6, <2>2, <2>4
<1> QED BY <1>5, <1>6

LEMMA SendBasics ==
  ASSUME Basics, NEW t \in Threads, Send(t)
  PROVE  /\ Basics' /\ up /\ conn \in Conns /\ sender[t] # Idle
         /\ UNCHANGED <<conn, up, client, sent, delivered, base, mixed>>
         /\ \E p \in AnyPacket :
              /\ Cut(p) /\ GoesOn(t, p) /\ p.msg = sender[t].msg /\ p.done = sender[t].done
              /\ \/ refused' = refused /\ IF base[conn] = 0 THEN Longer(RecvMsg(p)) ELSE Line' = Line
                 \/ refused' = Append(refused, <<conn, p.msg.cmd>>) /\ Line' = Line
<1>1. /\ TypeOK' /\ up /\ conn \in Conns /\ sender[t] # Idle
      /\ UNCHANGED <<conn, up, phase, m_nCurFlag, buffer, m_MsgQueue, client, begun, sent, delivered, base, mixed>>
  BY SendCuts
<1>2. PICK p \in AnyPacket : /\ SendMessage(p) /\ Cut(p) /\ GoesOn(t, p)
                             /\ p.msg = sender[t].msg /\ p.done = sender[t].done
  BY SendCuts
<1>3. /\ Framing' /\ PacketsAreCut'
      /\ \/ refused' = refused /\ IF base[conn] = 0 THEN Longer(RecvMsg(p)) ELSE Line' = Line
         \/ refused' = Append(refused, <<conn, p.msg.cmd>>) /\ Line' = Line
  <2>1. CASE WSASend(p)
    <3>1. refused' = refused
      BY <2>1 DEF WSASend
    <3> QED BY <1>1, <1>2, <2>1, <3>1, SendFrames
  <2>2. CASE WSASendFails(p)
    <3>1. UNCHANGED <<packets, stream>> /\ refused' = Append(refused, <<conn, p.msg.cmd>>)
      BY <2>2 DEF WSASendFails
    <3> QED BY <1>1, <3>1, DriverStands
  <2> QED BY <1>2, <2>1, <2>2 DEF SendMessage
<1>4. TypeOK /\ Life /\ Senders /\ InOrder /\ NoneAstray
  BY DEF Basics
<1>5. \A u \in Threads \ {t} : sender'[u] = sender[u]
  BY <1>2, <1>4 DEF GoesOn, TypeOK
<1>6. Life'
  BY <1>1, <1>4 DEF Life
<1>7. Senders'
  <2>1. CASE sender' = [sender EXCEPT ![t] = Idle]
    <3>1. sender'[t] = Idle
      BY <1>4, <2>1 DEF TypeOK
    <3> QED BY <1>4, <1>5, <3>1 DEF Senders
  <2>2. CASE /\ Reach(p) < p.msg.len /\ MSG_DATA_LEN < p.msg.len /\ 0 < Reach(p)
             /\ sender' = [sender EXCEPT ![t] = [msg |-> p.msg, done |-> Reach(p), type |-> {"OP_IMCOMPLETE"}]]
    <3>1. sender'[t].msg = p.msg /\ sender'[t].done = Reach(p) /\ sender'[t].type = {"OP_IMCOMPLETE"}
      BY <1>4, <2>2 DEF TypeOK
    <3> QED BY <1>2, <1>4, <1>5, <2>2, <3>1 DEF Senders, Cut
  <2> QED BY <1>2, <2>1, <2>2 DEF GoesOn
<1>8. InOrder' /\ NoneAstray'
  BY <1>1, <1>4, OrderStays DEF NoneAstray
<1> QED BY <1>1, <1>2, <1>3, <1>6, <1>7, <1>8 DEF Basics

-----------------------------------------------------------------------------
(* Steps of the driver                                                     *)

\* The server's queue is as it was, and no packet gets into the line.
LEMMA LineShrinks ==
  ASSUME TypeOK, Framing, TypeOK', Framing', m_MsgQueue' = m_MsgQueue,
         Pending' <= Pending, up' => Pending' = Pending,
         Pending' # 0 => First' = First /\ packets' = packets /\ conn' = conn
  PROVE  Shorter
<1>1. LineIs /\ LineIs'
  BY LineType, LineTypeNext
<1> DEFINE n == Len(m_MsgQueue)
<1>2. /\ n \in Nat /\ Pending \in Nat /\ Pending' \in Nat
      /\ Len(Line) = n + Pending /\ Len(Line') = n + Pending'
  BY <1>1 DEF LineIs
<1>3. ASSUME NEW j \in 1 .. Len(Line') PROVE Line'[j] = Line[j]
  <2>1. CASE j \in 1 .. n
    BY <1>1, <2>1 DEF LineIs
  <2>2. CASE j \notin 1 .. n
    <3> DEFINE i == j - n
    <3>1. i \in 1 .. Pending' /\ i \in 1 .. Pending /\ j = n + i /\ Pending' # 0
      BY <1>2, <2>2
    <3> HIDE DEF i
    <3>2. /\ Line[n + i] = [type |-> "IO_ON_RECV", packet |-> packets[First + i - 1], conn |-> conn]
          /\ Line'[n + i] = [type |-> "IO_ON_RECV", packet |-> packets'[First' + i - 1], conn |-> conn']
      BY <1>1, <3>1 DEF LineIs
    <3> QED BY <3>1, <3>2
  <2> QED BY <2>1, <2>2
<1> QED BY <1>2, <1>3 DEF Shorter

\* The receiving ends, or nothing is received yet: the line is the queue.
LEMMA LineEnds ==
  ASSUME TypeOK, Framing, TypeOK', Framing', m_MsgQueue' = m_MsgQueue, Pending' = 0, ~up'
  PROVE  Shorter
<1>1. Pending \in Nat
  BY LineType DEF LineIs
<1> QED BY <1>1, LineShrinks

LEMMA CloseBasics == ASSUME Basics, Close PROVE Basics' /\ Shorter
<1>1. /\ TypeOK /\ Life /\ Framing /\ TypeOK' /\ BytesAre /\ BytesAre'
      /\ packets \in Seq(AnyPacket)
  BY CloseTypes, BytesType, BytesTypeNext DEF Basics, TypeOK
<1>2. /\ ~up' /\ (\A t \in Threads : sender'[t] = Idle)
      /\ UNCHANGED <<conn, packets, phase, m_nCurFlag, buffer, m_MsgQueue, client, base>>
  BY DEF Close, Down, driver, server, history
<1>3. Life' /\ Senders' /\ PacketsAreCut' /\ NoneAstray'
  BY <1>2 DEF Basics, Life, Senders, PacketsAreCut, NoneAstray
<1>4. InOrder'
  BY <1>2, OrderStays DEF Basics
<1> DEFINE b == buffer \o stream
           c == buffer' \o stream'
<1>5. /\ c \in Seq(Byte) /\ b \in Seq(Byte) /\ Len(c) <= Len(b)
      /\ \A k \in 1 .. Len(c) : c[k] = b[k]
  <2>1. PICK n \in 0 .. Len(stream) : stream' = SubSeq(stream, 1, n)
    BY DEF Close
  <2>2. stream \in Seq(Byte) /\ Len(stream) \in Nat /\ Len(buffer) \in Nat
    BY <1>1 DEF BytesAre
  <2>3. Len(stream') = n /\ \A k \in 1 .. n : stream'[k] = stream[k]
    <3>1. /\ Len(SubSeq(stream, 1, n)) = IF 1 <= n THEN n - 1 + 1 ELSE 0
          /\ \A k \in 1 .. n - 1 + 1 : SubSeq(stream, 1, n)[k] = stream[1 + k - 1]
      BY <2>2, CutTypes
    <3> QED BY <2>1, <2>2, <3>1
  <2>4. /\ Len(b) = Len(buffer) + Len(stream) /\ Len(c) = Len(buffer) + n
        /\ c \in Seq(Byte) /\ b \in Seq(Byte)
    BY <1>1, <1>2, <2>3 DEF BytesAre
  <2>5. /\ \A k \in 1 .. Len(b) : b[k] = IF k <= Len(buffer) THEN buffer[k] ELSE stream[k - Len(buffer)]
        /\ \A k \in 1 .. Len(c) : c[k] = IF k <= Len(buffer) THEN buffer[k] ELSE stream'[k - Len(buffer)]
    BY <1>1, <1>2, <2>4 DEF BytesAre
  <2> HIDE DEF b, c
  <2>6. ASSUME NEW k \in 1 .. Len(c) PROVE c[k] = b[k]
    <3>1. CASE k <= Len(buffer)
      BY <2>2, <2>4, <2>5, <3>1
    <3>2. CASE k > Len(buffer)
      <4>1. k - Len(buffer) \in 1 .. n
        BY <2>2, <2>4, <3>2
      <4> QED BY <2>2, <2>3, <2>4, <2>5, <3>2, <4>1
    <3> QED BY <2>2, <2>4, <3>1, <3>2
  <2> QED BY <2>2, <2>4, <2>6
<1> HIDE DEF b, c
<1>6. Receiving' = Receiving
  BY <1>2 DEF Receiving
<1>7. Receiving => IsFramed(packets, b)
  BY <1>1 DEF Framing, b
<1>8. Receiving => IsFramed(packets, c)
  <2>1. PICK P, x, y : P = packets /\ x = b /\ y = c
    OBVIOUS
  <2>2. SUFFICES ASSUME Receiving PROVE IsFramed(P, y)
    BY <2>1
  <2>3. /\ P \in Seq(AnyPacket) /\ x \in Seq(Byte) /\ y \in Seq(Byte) /\ IsFramed(P, x)
        /\ Len(y) <= Len(x) /\ \A k \in 1 .. Len(y) : y[k] = x[k]
    BY <1>1, <1>5, <1>7, <2>1, <2>2
  <2> QED BY <2>3, FramedPrefix
<1>9. Framing'
  BY <1>1, <1>2, <1>6, <1>8 DEF Framing, c, Receiving
<1>10. Shorter
  <2>1. /\ Pending = IF Receiving /\ b # <<>> THEN Len(packets) + 1 - b[1][1] ELSE 0
        /\ Pending' = IF Receiving /\ c # <<>> THEN Len(packets) + 1 - c[1][1] ELSE 0
        /\ First' = c[1][1] /\ First = b[1][1]
    BY <1>2, <1>6 DEF Pending, First, b, c
  <2>2. c # <<>> => b # <<>> /\ c[1] = b[1]
    <3>1. c # <<>> => Len(c) \in Nat \ {0}
      BY <1>5, EmptySeq
    <3>2. Len(b) \in Nat /\ (b = <<>> => Len(b) = 0)
      BY <1>5, LenProperties
    <3>3. c # <<>> => 1 \in 1 .. Len(c)
      BY <3>1
    <3> QED BY <1>5, <3>1, <3>2, <3>3
  <2>3. Pending \in Nat /\ Pending' \in Nat
    BY <1>1, <1>9, LineType, LineTypeNext DEF LineIs
  <2>4. Pending' # 0 => Pending' = Pending /\ First' = First
    BY <2>1, <2>2
  <2>5. Pending' <= Pending
    BY <2>3, <2>4
  <2> QED BY <1>1, <1>2, <1>9, <2>4, <2>5, LineShrinks DEF Basics
<1> QED BY <1>1, <1>3, <1>4, <1>9, <1>10 DEF Basics

\* A connection that is over brings no more: the driver waits for its end.
LEMMA OverBasics ==
  ASSUME Basics, TypeOK', ~up', phase' \in {"disconn", "lost"},
         phase \notin {"accept", "lost"}, conn # 0,
         \A t \in Threads : sender'[t] = Idle,
         UNCHANGED <<conn, packets, m_MsgQueue, base>>,
         client' = client \/ (m_MsgQueue = <<>> /\ client' = NoClient /\ phase' = "lost")
  PROVE  Basics' /\ Shorter
<1>1. TypeOK /\ Life /\ Framing /\ InOrder
  BY DEF Basics
<1>2. Life' /\ Senders' /\ PacketsAreCut' /\ NoneAstray'
  BY DEF Basics, Life, Senders, PacketsAreCut, NoneAstray
<1>3. ~Receiving'
  BY DEF Receiving
<1>4. Framing' /\ Pending' = 0
  BY <1>3 DEF Framing, Pending
<1>5. Shorter
  BY <1>1, <1>4, LineEnds
<1>6. InOrder'
  <2>1. CASE client' = client
    BY <1>1, <2>1, OrderStays
  <2>2. CASE m_MsgQueue = <<>> /\ client' = NoClient /\ phase' = "lost"
    <3> DEFINE o == [j \in 1 .. 1 |-> <<0, 0>>]
    <3>1. Turns(m_MsgQueue', o)
      BY <2>2 DEF Turns, Later
    <3>2. o[1] = <<0, 0>> /\ Len(m_MsgQueue') = 0 /\ conn' \in Nat /\ client'.conn = 0
      BY <1>1, <2>2, NoClientType, PacketAssumption DEF TypeOK
    <3> HIDE DEF o
    <3> QED BY <2>2, <3>1, <3>2 DEF InOrder
  <2> QED BY <2>1, <2>2
<1> QED BY <1>2, <1>4, <1>5, <1>6 DEF Basics

LEMMA PreRecvBasics == ASSUME Basics, OnPreRecv PROVE Basics' /\ Shorter
<1>1. /\ TypeOK /\ Life /\ Framing /\ InOrder /\ TypeOK' /\ BytesAre
      /\ phase = "prerecv" /\ conn # 0
  BY PreRecvTypes, BytesType DEF Basics, OnPreRecv, Life
<1>2. UNCHANGED <<conn, up, sender, packets, stream, m_nCurFlag, m_MsgQueue, client, base>>
  BY DEF OnPreRecv, peer, server, history
<1>3. WSARecv("recv", <<>>)
  BY DEF OnPreRecv
<1>4. CASE phase' = "recv" /\ buffer' = <<>>
  <2>1. Life' /\ Senders' /\ PacketsAreCut' /\ NoneAstray'
    BY <1>1, <1>2, <1>4 DEF Basics, Life, Senders, PacketsAreCut, NoneAstray
  <2>2. InOrder'
    BY <1>1, <1>2, <1>4, OrderStays
  <2>3. Receiving' = Receiving /\ (Receiving => buffer' = buffer /\ m_nCurFlag = 0)
    BY <1>1, <1>2, <1>4 DEF Receiving, Framing
  <2>4. Framing'
    BY <1>1, <1>2, <1>4, <2>3, MaxType DEF Framing
  <2>5. Pending' = Pending /\ (Pending # 0 => First' = First)
    BY <1>2, <2>3 DEF Pending, First
  <2>6. Pending \in Nat
    BY <1>1, LineType DEF LineIs
  <2>7. Shorter
    BY <1>1, <1>2, <2>4, <2>5, <2>6, LineShrinks
  <2> QED BY <1>1, <2>1, <2>2, <2>4, <2>7 DEF Basics
<1>5. CASE ~up /\ DisconnectEx
  BY <1>1, <1>2, <1>5, OverBasics DEF DisconnectEx, Life
<1> QED BY <1>3, <1>4, <1>5 DEF WSARecv

LEMMA RecvBasics == ASSUME Basics, OnRecv PROVE Basics' /\ Shorter
<1>1. /\ TypeOK /\ Life /\ Framing /\ InOrder /\ TypeOK' /\ BytesAre
      /\ phase = "recv" /\ phase' = "framing" /\ conn # 0 /\ base[conn] = 0
  BY RecvTypes, BytesType DEF Basics, OnRecv, Life
<1>2. UNCHANGED <<conn, up, sender, packets, m_nCurFlag, m_MsgQueue, client, base>>
  BY DEF OnRecv, peer, server, history
<1>3. buffer' \o stream' = buffer \o stream /\ Len(buffer') <= PACKET_MAX
  <2>1. PICK n \in 1 .. Len(stream) : /\ n <= PACKET_MAX - Len(buffer)
                                      /\ buffer' = buffer \o SubSeq(stream, 1, n)
                                      /\ stream' = SubSeq(stream, n + 1, Len(stream))
    BY DEF OnRecv
  <2>2. buffer \in Seq(Byte) /\ stream \in Seq(Byte) /\ Len(stream) \in Nat /\ Len(buffer) \in Nat
    BY <1>1 DEF BytesAre
  <2>3. n \in Nat /\ n <= Len(stream) /\ n \in 0 .. Len(stream) /\ n + 1 \in Nat /\ n + 1 >= 1 /\ Len(stream) \in 0 .. Len(stream)
    BY <2>2
  <2>4. /\ SubSeq(stream, 1, n) \in Seq(Byte)
        /\ Len(SubSeq(stream, 1, n)) = IF 1 <= n THEN n - 1 + 1 ELSE 0
        /\ SubSeq(stream, n + 1, Len(stream)) \in Seq(Byte)
    BY <2>2, <2>3, CutTypes
  <2>5. SubSeq(stream, 1, n) \o SubSeq(stream, n + 1, Len(stream)) = stream
    <3>1. /\ 1 \in 1 .. Len(stream) + 1 /\ n \in 1 - 1 .. Len(stream) /\ Len(stream) \in n .. Len(stream)
      BY <2>2, <2>3
    <3>2. SubSeq(stream, 1, n) \o SubSeq(stream, n + 1, Len(stream)) = SubSeq(stream, 1, Len(stream))
      BY <2>2, <3>1, ConcatAdjacentSubSeq
    <3> QED BY <2>2, <3>2, SubSeqFull
  <2>6. (buffer \o SubSeq(stream, 1, n)) \o SubSeq(stream, n + 1, Len(stream))
          = buffer \o (SubSeq(stream, 1, n) \o SubSeq(stream, n + 1, Len(stream)))
    <3>1. PICK x, y : x = SubSeq(stream, 1, n) /\ y = SubSeq(stream, n + 1, Len(stream))
      OBVIOUS
    <3>2. x \in Seq(Byte) /\ y \in Seq(Byte) /\ buffer \in Seq(Byte)
      BY <2>2, <2>4, <3>1
    <3>3. (buffer \o x) \o y = buffer \o (x \o y)
      BY <3>2, ConcatAssociative, SMT
    <3> QED BY <3>1, <3>3
  <2>7. Len(buffer') = Len(buffer) + n
    BY <2>1, <2>2, <2>3, <2>4, ConcatProperties
  <2>8. buffer' \o stream' = buffer \o stream
    BY <2>1, <2>5, <2>6
  <2>9. Len(buffer') <= PACKET_MAX
    <3>1. n <= PACKET_MAX - Len(buffer)
      BY <2>1
    <3> QED BY <2>2, <2>3, <2>7, <3>1, MaxType
  <2> QED BY <2>8, <2>9
<1>4. Life' /\ Senders' /\ PacketsAreCut' /\ NoneAstray'
  BY <1>1, <1>2, <1>3 DEF Basics, Life, Senders, PacketsAreCut, NoneAstray
<1>5. InOrder'
  BY <1>1, <1>2, OrderStays
<1>6. Receiving' /\ Receiving
  BY <1>1, <1>2 DEF Receiving
<1>7. Framing'
  BY <1>1, <1>2, <1>3, <1>6 DEF Framing
<1>8. Pending' = Pending /\ First' = First /\ Pending \in Nat
  BY <1>1, <1>2, <1>3, <1>6, LineType DEF Pending, First, LineIs
<1>9. Shorter
  BY <1>1, <1>2, <1>7, <1>8, LineShrinks
<1> QED BY <1>1, <1>4, <1>5, <1>7, <1>9 DEF Basics

LEMMA RestBasics == ASSUME Basics, OnRest PROVE Basics' /\ Shorter
<1>1. /\ TypeOK /\ Life /\ Framing /\ InOrder /\ TypeOK' /\ BytesAre
      /\ phase = "framing" /\ conn # 0 /\ base[conn] = 0
  BY RestTypes, BytesType DEF Basics, OnRest, Life
<1>2. UNCHANGED <<conn, up, sender, packets, stream, m_MsgQueue, client, base>> /\ m_nCurFlag' = Len(buffer)
  BY DEF OnRest, peer, server, history
<1>3. WSARecv("recv", buffer)
  BY DEF OnRest
<1>4. CASE phase' = "recv" /\ buffer' = buffer
  <2>1. Life' /\ Senders' /\ PacketsAreCut' /\ NoneAstray'
    BY <1>1, <1>2, <1>4 DEF Basics, Life, Senders, PacketsAreCut, NoneAstray
  <2>2. InOrder'
    BY <1>1, <1>2, <1>4, OrderStays
  <2>3. Receiving' /\ Receiving
    BY <1>1, <1>2, <1>4 DEF Receiving
  <2>4. Len(buffer) < PACKET_MAX
    <3>1. Len(buffer) < 2 \/ wLen > Len(buffer)
      <4>1. ~IsWhole
        BY DEF OnRest
      <4>2. CASE buffer = <<>>
        BY <4>2
      <4>3. CASE buffer # <<>>
        <5>1. wLen \in Nat
          <6>1. 1 \in 1 .. Len(buffer)
            BY <1>1, <4>3, EmptySeq DEF BytesAre
          <6>2. buffer[1] = (buffer \o stream)[1] /\ 1 \in 1 .. Len(buffer \o stream)
            BY <1>1, <6>1 DEF BytesAre
          <6>3. buffer[1][1] \in 1 .. Len(packets)
            BY <1>1, <2>3, <6>2 DEF Framing, IsFramed
          <6>4. packets[buffer[1][1]] \in AnyPacket
            BY <1>1, <6>3, ElementOfSeq DEF TypeOK
          <6> QED BY <6>4, LengthType DEF wLen
        <5> QED BY <1>1, <4>1, <5>1 DEF IsWhole, BytesAre
      <4> QED BY <4>2, <4>3
    <3>2. CASE Len(buffer) < 2
      BY <1>1, <3>2, MaxType DEF BytesAre
    <3>3. CASE ~(Len(buffer) < 2)
      <4>1. wLen > Len(buffer) /\ 1 \in 1 .. Len(buffer)
        BY <1>1, <3>1, <3>3 DEF BytesAre
      <4>2. buffer[1] = (buffer \o stream)[1] /\ 1 \in 1 .. Len(buffer \o stream)
        BY <1>1, <4>1 DEF BytesAre
      <4>3. buffer[1][1] \in 1 .. Len(packets)
        BY <1>1, <2>3, <4>2 DEF Framing, IsFramed
      <4>4. packets[buffer[1][1]] \in AnyPacket /\ Cut(packets[buffer[1][1]])
        BY <1>1, <4>3, ElementOfSeq DEF TypeOK, Basics, PacketsAreCut
      <4>5. wLen \in Nat /\ wLen <= PACKET_MAX
        <5>1. Len(packets[buffer[1][1]].data) \in Nat /\ Len(packets[buffer[1][1]].data) <= MSG_DATA_LEN
          BY <4>4, LenProperties DEF AnyPacket, Cut
        <5> QED BY <5>1, PacketAssumption DEF wLen, usMsgLen, PACKET_MAX
      <4> QED BY <1>1, <4>1, <4>5, MaxType DEF BytesAre
    <3> QED BY <3>2, <3>3
  <2>5. Framing'
    BY <1>1, <1>2, <1>4, <2>3, <2>4 DEF Framing
  <2>6. Pending' = Pending /\ First' = First /\ Pending \in Nat
    BY <1>1, <1>2, <1>4, <2>3, LineType DEF Pending, First, LineIs
  <2>7. Shorter
    BY <1>1, <1>2, <2>5, <2>6, LineShrinks
  <2> QED BY <1>1, <2>1, <2>2, <2>5, <2>7 DEF Basics
<1>5. CASE ~up /\ DisconnectEx
  BY <1>1, <1>2, <1>5, OverBasics DEF DisconnectEx, Life
<1> QED BY <1>3, <1>4, <1>5 DEF WSARecv

LEMMA RecvClosedBasics == ASSUME Basics, OnRecvClosed PROVE Basics' /\ Shorter
<1>1. TypeOK /\ Life /\ TypeOK' /\ phase = "recv" /\ conn # 0 /\ ~up
  BY RecvClosedTypes DEF Basics, OnRecvClosed, Life
<1>2. UNCHANGED <<conn, up, sender, packets, m_MsgQueue, client, base>>
  BY DEF OnRecvClosed, peer, server, history
<1>3. phase' \in {"disconn", "lost"}
  BY DEF OnRecvClosed, DisconnectEx
<1> QED BY <1>1, <1>2, <1>3, OverBasics DEF Life

LEMMA ResetBasics == ASSUME Basics, Reset PROVE Basics' /\ Shorter
<1>1. TypeOK /\ Life /\ TypeOK' /\ phase \in {"prerecv", "recv"} /\ conn # 0
  BY ResetTypes DEF Basics, Reset, Life
<1>2. UNCHANGED <<conn, packets, m_MsgQueue, client, base>> /\ ~up' /\ \A t \in Threads : sender'[t] = Idle
  BY DEF Reset, Down, server, history
<1>3. phase' \in {"disconn", "lost"}
  BY DEF Reset
<1> QED BY <1>1, <1>2, <1>3, OverBasics

LEMMA IdleBasics == ASSUME Basics, IdleTimeout PROVE Basics' /\ Shorter
<1>1. TypeOK /\ Life /\ TypeOK' /\ phase \in {"prerecv", "recv"} /\ conn # 0
  BY IdleTypes DEF Basics, IdleTimeout, Life
<1>2. UNCHANGED <<conn, packets, m_MsgQueue, base>> /\ ~up' /\ \A t \in Threads : sender'[t] = Idle
  BY DEF IdleTimeout, Down, history
<1>3. phase' = "lost" /\ m_MsgQueue = <<>> /\ client' = NoClient
  BY DEF IdleTimeout
<1> QED BY <1>1, <1>2, <1>3, OverBasics

\* The queue grows by one message.
LEMMA QueueAppend ==
  ASSUME TypeOK, NEW m \in IoMsg, m_MsgQueue' = Append(m_MsgQueue, m)
  PROVE  /\ Len(m_MsgQueue) \in Nat /\ Len(m_MsgQueue') = Len(m_MsgQueue) + 1
         /\ m_MsgQueue'[Len(m_MsgQueue) + 1] = m
         /\ \A j \in 1 .. Len(m_MsgQueue) : m_MsgQueue'[j] = m_MsgQueue[j]
BY AppendProperties, LenProperties DEF TypeOK

LEMMA AstrayAppend ==
  ASSUME TypeOK, NoneAstray, NEW m \in IoMsg, m_MsgQueue' = Append(m_MsgQueue, m),
         m.type = "IO_ON_RECV" /\ base'[m.conn] = 0 => Cut(m.packet),
         \A j \in 1 .. Len(m_MsgQueue) : base'[m_MsgQueue[j].conn] = base[m_MsgQueue[j].conn]
  PROVE  NoneAstray'
<1>1. /\ Len(m_MsgQueue) \in Nat /\ Len(m_MsgQueue') = Len(m_MsgQueue) + 1
      /\ m_MsgQueue'[Len(m_MsgQueue) + 1] = m
      /\ \A j \in 1 .. Len(m_MsgQueue) : m_MsgQueue'[j] = m_MsgQueue[j]
  BY QueueAppend
<1>2. ASSUME NEW j \in 1 .. Len(m_MsgQueue'),
             m_MsgQueue'[j].type = "IO_ON_RECV", base'[m_MsgQueue'[j].conn] = 0
      PROVE  Cut(m_MsgQueue'[j].packet)
  <2>1. CASE j = Len(m_MsgQueue) + 1
    BY <1>1, <1>2, <2>1
  <2>2. CASE j # Len(m_MsgQueue) + 1
    <3>1. j \in 1 .. Len(m_MsgQueue)
      BY <1>1, <2>2
    <3> QED BY <1>1, <1>2, <3>1 DEF NoneAstray
  <2> QED BY <2>1, <2>2
<1> QED BY <1>2 DEF NoneAstray

LEMMA PacketFrames ==
  ASSUME Basics, OnPacket
  PROVE  /\ TypeOK' /\ Framing' /\ conn \in Conns /\ First \in 1 .. Len(packets)
         /\ m_MsgQueue' = Append(m_MsgQueue, RecvMsg(packets[First]))
         /\ RecvMsg(packets[First]) \in IoMsg
         /\ Pending' <= Pending - 1 /\ (up => Pending' = Pending - 1)
         /\ Pending' # 0 => First' = First + 1
<1> DEFINE b == buffer \o stream
           c == buffer' \o stream'
<1>1. /\ TypeOK /\ Life /\ Framing /\ BytesAre /\ phase = "framing" /\ conn # 0 /\ base[conn] = 0
      /\ packets \in Seq(AnyPacket) /\ Len(packets) \in Nat
  BY BytesType, LenProperties DEF Basics, OnPacket, Life, TypeOK
<1>2. UNCHANGED <<conn, up, sender, packets, stream, phase, m_nCurFlag, client, base>>
  BY DEF OnPacket, peer, history
<1>3. Receiving /\ Receiving' /\ IsFramed(packets, b) /\ (up => IsFull(packets, b))
  BY <1>1, <1>2 DEF Receiving, Framing
<1>4. Len(buffer) >= 2 /\ Len(buffer) \in Nat /\ wLen <= Len(buffer)
  BY <1>1 DEF OnPacket, IsWhole, BytesAre
<1>5. buffer[1] = b[1] /\ 1 \in 1 .. Len(b) /\ b # <<>> /\ First = b[1][1]
  BY <1>1, <1>4, EmptySeq DEF BytesAre, First
<1> HIDE DEF b
<1>6. First \in 1 .. Len(packets) /\ b[1][2] = 1
  BY <1>3, <1>5 DEF IsFramed
<1>7. TypeOK' /\ wLen \in 2 .. Len(buffer)
  BY <1>1, <1>5, <1>6, PacketTypes
<1>8. /\ conn \in Conns /\ packets[First] \in AnyPacket /\ Framed(buffer[1]) = packets[First]
      /\ wLen = usMsgLen(packets[First])
  BY <1>1, <1>5, <1>6, PacketAssumption, ElementOfSeq, SMTT(30) DEF TypeOK, Conns, Framed, wLen
<1>9. m_MsgQueue' = Append(m_MsgQueue, RecvMsg(packets[First])) /\ RecvMsg(packets[First]) \in IoMsg
  BY <1>8 DEF OnPacket, PostIoMsg, RecvMsg, IoMsg
<1>10. /\ c \in Seq(Byte) /\ b \in Seq(Byte) /\ Len(c) = Len(b) - wLen /\ wLen <= Len(b)
       /\ \A k \in 1 .. Len(c) : c[k] = b[k + wLen]
  <2>1. BytesAre'
    BY <1>7, BytesTypeNext
  <2>2. /\ buffer \in Seq(Byte) /\ wLen \in Nat /\ wLen >= 2 /\ Len(stream) \in Nat
        /\ wLen + 1 \in Nat /\ wLen + 1 >= 1 /\ Len(buffer) \in 0 .. Len(buffer)
    BY <1>1, <1>7 DEF BytesAre
  <2>3. /\ Len(buffer') = Len(buffer) - wLen
        /\ \A k \in 1 .. Len(buffer) - wLen : buffer'[k] = buffer[k + wLen]
    <3>1. /\ Len(SubSeq(buffer, wLen + 1, Len(buffer)))
               = IF wLen + 1 <= Len(buffer) THEN Len(buffer) - (wLen + 1) + 1 ELSE 0
          /\ \A k \in 1 .. Len(buffer) - (wLen + 1) + 1 :
               SubSeq(buffer, wLen + 1, Len(buffer))[k] = buffer[wLen + 1 + k - 1]
      BY <2>2, CutTypes
    <3>2. buffer' = SubSeq(buffer, wLen + 1, Len(buffer))
      BY DEF OnPacket
    <3>3. Len(buffer) - (wLen + 1) + 1 = Len(buffer) - wLen
      BY <1>4, <2>2
    <3>4. \A k \in 1 .. Len(buffer) - wLen : wLen + 1 + k - 1 = k + wLen
      BY <1>4, <2>2
    <3>5. Len(buffer') = Len(buffer) - wLen
      <4>1. Len(buffer') = IF wLen + 1 <= Len(buffer) THEN Len(buffer) - (wLen + 1) + 1 ELSE 0
        BY <3>1, <3>2
      <4>2. wLen \in Nat /\ Len(buffer) \in Nat /\ wLen <= Len(buffer)
        BY <1>4, <2>2
      <4> HIDE DEF wLen
      <4> QED BY <4>1, <4>2
    <3> QED BY <3>1, <3>2, <3>3, <3>4, <3>5
  <2>4. /\ Len(b) = Len(buffer) + Len(stream) /\ Len(c) = (Len(buffer) - wLen) + Len(stream)
        /\ c \in Seq(Byte) /\ b \in Seq(Byte)
    BY <1>1, <1>2, <2>1, <2>3 DEF BytesAre, b
  <2>5. /\ \A k \in 1 .. Len(b) : b[k] = IF k <= Len(buffer) THEN buffer[k] ELSE stream[k - Len(buffer)]
        /\ \A k \in 1 .. Len(c) : c[k] = IF k <= Len(buffer') THEN buffer'[k] ELSE stream[k - Len(buffer')]
    BY <1>1, <1>2, <2>1, <2>3, <2>4 DEF BytesAre, b
  <2> HIDE DEF c
  <2>6. ASSUME NEW k \in 1 .. Len(c) PROVE c[k] = b[k + wLen]
    <3>1. k + wLen \in 1 .. Len(b) /\ Len(buffer') = Len(buffer) - wLen
      BY <1>4, <2>2, <2>3, <2>4
    <3>2. CASE k <= Len(buffer')
      <4>1. k \in 1 .. Len(buffer) - wLen /\ k + wLen <= Len(buffer)
        BY <1>4, <2>2, <3>1, <3>2
      <4> QED BY <2>3, <2>5, <3>1, <3>2, <4>1
    <3>3. CASE ~(k <= Len(buffer'))
      <4>1. ~(k + wLen <= Len(buffer)) /\ (k + wLen) - Len(buffer) = k - Len(buffer')
        BY <1>4, <2>2, <3>1, <3>3
      <4> QED BY <2>5, <3>1, <3>3, <4>1
    <3> QED BY <3>2, <3>3
  <2> QED BY <1>4, <2>2, <2>4, <2>6
<1> HIDE DEF c
<1>11. /\ IsFramed(packets, c) /\ (IsFull(packets, b) => IsFull(packets, c))
       /\ c # <<>> => c[1] = <<First + 1, 1>>
       /\ c = <<>> /\ IsFull(packets, b) => First = Len(packets)
  <2>1. PICK P, x, y : P = packets /\ x = b /\ y = c
    OBVIOUS
  <2>2. /\ P \in Seq(AnyPacket) /\ x \in Seq(Byte) /\ IsFramed(P, x) /\ x # <<>>
        /\ usMsgLen(P[x[1][1]]) <= Len(x) /\ y \in Seq(Byte)
        /\ Len(y) = Len(x) - usMsgLen(P[x[1][1]])
        /\ \A k \in 1 .. Len(y) : y[k] = x[k + usMsgLen(P[x[1][1]])]
    BY <1>1, <1>3, <1>5, <1>8, <1>10, <2>1
  <2>3. /\ IsFramed(P, y) /\ (IsFull(P, x) => IsFull(P, y))
        /\ y # <<>> => y[1] = <<x[1][1] + 1, 1>>
        /\ y = <<>> /\ IsFull(P, x) => x[1][1] = Len(P)
    BY <2>2, FramedRest
  <2> QED BY <1>5, <2>1, <2>3
<1>12. Framing'
  BY <1>1, <1>2, <1>3, <1>11 DEF Framing, c
<1>13. /\ Pending = Len(packets) + 1 - First
       /\ Pending' = IF c # <<>> THEN Len(packets) + 1 - First' ELSE 0
       /\ First' = c[1][1]
  BY <1>2, <1>3, <1>5 DEF Pending, First, b, c
<1>14. c # <<>> => First' = First + 1
  BY <1>11, <1>13
<1>15. Pending' <= Pending - 1 /\ (up => Pending' = Pending - 1) /\ (Pending' # 0 => First' = First + 1)
  BY <1>1, <1>3, <1>6, <1>11, <1>13, <1>14
<1> QED BY <1>6, <1>7, <1>8, <1>9, <1>12, <1>15

LEMMA PacketBasics == ASSUME Basics, OnPacket PROVE Basics' /\ Shorter
<1>1. /\ TypeOK' /\ Framing' /\ conn \in Conns /\ First \in 1 .. Len(packets)
      /\ m_MsgQueue' = Append(m_MsgQueue, RecvMsg(packets[First]))
      /\ RecvMsg(packets[First]) \in IoMsg
      /\ Pending' <= Pending - 1 /\ (up => Pending' = Pending - 1)
      /\ Pending' # 0 => First' = First + 1
  BY PacketFrames
<1>2. TypeOK /\ Life /\ Framing /\ InOrder /\ NoneAstray /\ PacketsAreCut /\ phase = "framing" /\ base[conn] = 0
  BY DEF Basics, OnPacket, Life
<1>3. UNCHANGED <<conn, up, sender, packets, stream, phase, m_nCurFlag, client, base>>
  BY DEF OnPacket, peer, history
<1> DEFINE m == RecvMsg(packets[First])
<1>4. m.type = "IO_ON_RECV" /\ m.conn = conn /\ m.packet = packets[First]
  BY DEF RecvMsg
<1> HIDE DEF m
<1>5. Life'
  <2>1. Len(buffer') <= PACKET_MAX
    <3>1. Len(buffer) \in Nat /\ Len(buffer) <= PACKET_MAX /\ buffer \in Seq(Byte)
      BY <1>2, LenProperties DEF TypeOK, Life, Byte
    <3>2. wLen \in 2 .. Len(buffer)
      <4>1. 1 \in 1 .. Len(buffer) /\ BytesAre
        BY <1>2, <3>1, BytesType DEF OnPacket, IsWhole
      <4>2. (buffer \o stream)[1] = buffer[1]
        BY <4>1 DEF BytesAre
      <4> QED BY <1>1, <1>2, <4>2, PacketTypes DEF First
    <3>3. /\ wLen + 1 \in Nat /\ wLen + 1 >= 1 /\ Len(buffer) \in 0 .. Len(buffer)
      BY <3>1, <3>2
    <3>4. Len(SubSeq(buffer, wLen + 1, Len(buffer)))
               = IF wLen + 1 <= Len(buffer) THEN Len(buffer) - (wLen + 1) + 1 ELSE 0
      BY <3>1, <3>3, CutTypes
    <3>5. buffer' = SubSeq(buffer, wLen + 1, Len(buffer))
      BY DEF OnPacket
    <3> QED BY <3>1, <3>2, <3>4, <3>5, MaxType
  <2> QED BY <1>2, <1>3, <2>1 DEF Life
<1>6. Senders' /\ PacketsAreCut'
  BY <1>2, <1>3 DEF Basics, Senders, PacketsAreCut
<1>7. NoneAstray'
  <2>1. Cut(m.packet) /\ m \in IoMsg /\ m_MsgQueue' = Append(m_MsgQueue, m)
    BY <1>1, <1>2, <1>4 DEF PacketsAreCut, m
  <2> QED BY <1>2, <1>3, <2>1, AstrayAppend
<1>8. InOrder'
  <2>1. Turn(m, <<conn, IF phase = "accept" THEN 0 ELSE conn>>, <<conn, conn>>)
    BY <1>2, <1>4 DEF Turn
  <2>2. m \in IoMsg /\ m_MsgQueue' = Append(m_MsgQueue, m)
    BY <1>1 DEF m
  <2>3. conn <= conn
    BY <1>1 DEF Conns
  <2>4. /\ <<conn, conn>>[1] <= conn'
        /\ phase' # "lost" => <<conn, conn>> = <<conn', IF phase' = "accept" THEN 0 ELSE conn'>>
    BY <1>2, <1>3, <2>3
  <2> QED BY <1>2, <1>3, <2>1, <2>2, <2>4, OrderPosts
<1>9. Shorter
  <2>1. LineIs /\ LineIs'
    BY <1>1, <1>2, LineType, LineTypeNext
  <2> DEFINE n == Len(m_MsgQueue)
  <2>2. /\ n \in Nat /\ Len(m_MsgQueue') = n + 1 /\ m_MsgQueue'[n + 1] = m
        /\ \A j \in 1 .. n : m_MsgQueue'[j] = m_MsgQueue[j]
    BY <1>1, <1>2, QueueAppend DEF m
  <2>3. /\ Pending \in Nat /\ Pending' \in Nat
        /\ Len(Line) = n + Pending /\ Len(Line') = (n + 1) + Pending'
        /\ Pending # 0
    BY <1>1, <2>1, <2>2 DEF LineIs
  <2>4. ASSUME NEW j \in 1 .. Len(Line') PROVE Line'[j] = Line[j]
    <3>1. CASE j \in 1 .. n
      <4>1. j \in 1 .. Len(m_MsgQueue')
        BY <2>2, <3>1
      <4> QED BY <2>1, <2>2, <3>1, <4>1 DEF LineIs
    <3>2. CASE j = n + 1
      <4>1. n + 1 \in 1 .. Len(m_MsgQueue') /\ 1 \in 1 .. Pending
        BY <2>2, <2>3
      <4>2. Line'[j] = m
        BY <2>1, <2>2, <3>2, <4>1 DEF LineIs
      <4>3. Line[n + 1] = [type |-> "IO_ON_RECV", packet |-> packets[First + 1 - 1], conn |-> conn]
        BY <2>1, <4>1 DEF LineIs
      <4>4. First + 1 - 1 = First
        BY <1>1
      <4> QED BY <3>2, <4>2, <4>3, <4>4 DEF m, RecvMsg
    <3>3. CASE j > n + 1
      <4> DEFINE i == j - (n + 1)
      <4>1. i \in 1 .. Pending' /\ i + 1 \in 1 .. Pending /\ j = (n + 1) + i /\ j = n + (i + 1) /\ Pending' # 0
        BY <1>1, <2>2, <2>3, <3>3
      <4> HIDE DEF i
      <4>2. Line[n + (i + 1)] = [type |-> "IO_ON_RECV", packet |-> packets[First + (i + 1) - 1], conn |-> conn]
        BY <2>1, <4>1 DEF LineIs
      <4>3. Line'[(n + 1) + i] = [type |-> "IO_ON_RECV", packet |-> packets'[First' + i - 1], conn |-> conn']
        BY <2>1, <2>2, <4>1 DEF LineIs
      <4>4. First' + i - 1 = First + (i + 1) - 1
        BY <1>1, <4>1
      <4> QED BY <1>3, <4>1, <4>2, <4>3, <4>4
    <3> QED BY <2>2, <2>3, <3>1, <3>2, <3>3
  <2>5. Len(Line') <= Len(Line) /\ (up' => Len(Line') = Len(Line))
    BY <1>1, <1>3, <2>2, <2>3
  <2> QED BY <2>4, <2>5 DEF Shorter
<1> QED BY <1>1, <1>5, <1>6, <1>7, <1>8, <1>9 DEF Basics

LEMMA QueueLonger ==
  ASSUME TypeOK, Framing, TypeOK', Framing', Pending = 0, Pending' = 0,
         NEW m \in IoMsg, m_MsgQueue' = Append(m_MsgQueue, m)
  PROVE  Longer(m)
<1>1. LineIs /\ LineIs'
  BY LineType, LineTypeNext
<1>2. /\ Len(m_MsgQueue) \in Nat /\ Len(m_MsgQueue') = Len(m_MsgQueue) + 1
      /\ m_MsgQueue'[Len(m_MsgQueue) + 1] = m
      /\ \A j \in 1 .. Len(m_MsgQueue) : m_MsgQueue'[j] = m_MsgQueue[j]
  BY QueueAppend
<1>3. Len(Line) = Len(m_MsgQueue) /\ Len(Line') = Len(m_MsgQueue')
  BY <1>1, <1>2 DEF LineIs
<1>4. ASSUME NEW j \in 1 .. Len(Line) PROVE Line'[j] = Line[j]
  <2>1. j \in 1 .. Len(m_MsgQueue) /\ j \in 1 .. Len(m_MsgQueue')
    BY <1>2, <1>3
  <2> QED BY <1>1, <1>2, <2>1 DEF LineIs
<1>5. Line'[Len(Line) + 1] = m
  <2>1. Len(m_MsgQueue) + 1 \in 1 .. Len(m_MsgQueue')
    BY <1>2
  <2> QED BY <1>1, <1>2, <1>3, <2>1 DEF LineIs
<1> QED BY <1>2, <1>3, <1>4, <1>5 DEF Longer

\* The queue tells of no connection to come.
LEMMA QueueConns ==
  ASSUME TypeOK, InOrder, NEW j \in 1 .. Len(m_MsgQueue)
  PROVE  m_MsgQueue[j].conn \in 1 .. conn
<1> DEFINE n == Len(m_MsgQueue)
           m == m_MsgQueue[j]
<1>1. PICK o : Turns(m_MsgQueue, o) /\ o[n + 1][1] <= conn
  BY DEF InOrder
<1>2. n \in Nat /\ m \in IoMsg /\ conn \in Nat
  BY ElementOfSeq, LenProperties, PacketAssumption DEF TypeOK
<1>3. m.conn \in Nat \ {0} /\ m.type \in {"IO_ON_ACCEPT", "IO_ON_RECV", "IO_ON_DISCONN"}
  BY <1>2 DEF IoMsg, Conns
<1>4. Turn(m, o[j], o[j + 1]) /\ o \in [1 .. n + 1 -> Nat \X Nat]
  BY <1>1 DEF Turns
<1> HIDE DEF m
<1>5. o[j + 1][1] = m.conn
  BY <1>3, <1>4 DEF Turn
<1> HIDE DEF n
<1>6. j \in 1 .. n
  BY DEF n
<1>7. j + 1 \in 1 .. n + 1 /\ n + 1 \in 1 .. n + 1 /\ j + 1 <= n + 1
  BY <1>2, <1>6
<1>8. Later(o[j + 1], o[n + 1])
  BY <1>1, <1>7 DEF Turns, n
<1>9. o[n + 1] \in Nat \X Nat
  BY <1>4, <1>7
<1>10. o[j + 1][1] <= o[n + 1][1] /\ o[n + 1][1] \in Nat
  BY <1>8, <1>9 DEF Later
<1> QED BY <1>1, <1>2, <1>3, <1>5, <1>10 DEF m, n

LEMMA AcceptBasics ==
  ASSUME Basics, OnAccept
  PROVE  /\ Basics' /\ conn' = conn + 1 /\ conn' \in Conns /\ ~up
         /\ \A t \in Threads : sender'[t] = Idle
         /\ UNCHANGED <<client, sent, delivered, mixed, refused>>
         /\ \A c \in Conns : c <= conn => base'[c] = base[c]
         /\ \E m \in IoMsg : m.type = "IO_ON_ACCEPT" /\ Longer(m)
<1> DEFINE m == [type |-> "IO_ON_ACCEPT", packet |-> Misframed, conn |-> conn + 1]
<1>1. /\ TypeOK /\ Life /\ Framing /\ InOrder /\ NoneAstray /\ TypeOK' /\ BytesAre'
      /\ phase = "accept" /\ ~up
  BY AcceptTypes, BytesTypeNext DEF Basics, OnAccept, Life
<1>2. conn + 1 \in Conns /\ conn \in Nat /\ conn' = conn + 1 /\ base' = [base EXCEPT ![conn + 1] = m_nCurFlag]
  BY <1>1, PacketAssumption DEF TypeOK, OnAccept, Conns
<1>3. /\ packets' = <<>> /\ stream' = <<>> /\ (\A t \in Threads : sender'[t] = Idle)
      /\ m_MsgQueue' = Append(m_MsgQueue, m)
      /\ UNCHANGED <<m_nCurFlag, client, begun, sent, delivered, mixed, refused>>
  BY DEF OnAccept
<1>4. m \in IoMsg /\ m.type = "IO_ON_ACCEPT" /\ m.conn = conn + 1
  BY <1>2, MisframedType DEF IoMsg
<1>5. /\ buffer' = <<>> /\ phase' \in {"prerecv", "disconn", "lost"}
      /\ (up' => phase' = "prerecv") /\ (~up' => phase' # "prerecv")
  BY DEF OnAccept, DisconnectEx
<1> HIDE DEF m
<1>6. base'[conn + 1] = m_nCurFlag /\ \A c \in Conns : c <= conn => base'[c] = base[c]
  BY <1>1, <1>2 DEF TypeOK
<1>7. Life' /\ Senders' /\ PacketsAreCut'
  BY <1>1, <1>2, <1>3, <1>5 DEF Life, Senders, PacketsAreCut
<1>8. ~Receiving /\ Pending = 0
  BY <1>1 DEF Receiving, Pending
<1>9. buffer' \o stream' = <<>>
  BY <1>3, <1>5
<1>10. Framing'
  <2>1. IsFramed(packets', buffer' \o stream') /\ IsFull(packets', buffer' \o stream')
    BY <1>9 DEF IsFramed, IsFull
  <2>2. Receiving' => m_nCurFlag' = 0
    BY <1>2, <1>3, <1>6 DEF Receiving
  <2> QED BY <1>5, <2>1, <2>2 DEF Framing
<1>11. Pending' = 0
  BY <1>9 DEF Pending
<1>12. Longer(m)
  BY <1>1, <1>3, <1>4, <1>8, <1>10, <1>11, QueueLonger
<1>13. NoneAstray'
  <2>1. \A j \in 1 .. Len(m_MsgQueue) : base'[m_MsgQueue[j].conn] = base[m_MsgQueue[j].conn]
    <3> TAKE j \in 1 .. Len(m_MsgQueue)
    <3>1. m_MsgQueue[j].conn \in 1 .. conn
      BY <1>1, QueueConns
    <3>2. m_MsgQueue[j].conn \in Conns /\ m_MsgQueue[j].conn <= conn
      BY <1>2, <3>1, PacketAssumption DEF Conns
    <3> QED BY <1>6, <3>2
  <2> QED BY <1>1, <1>3, <1>4, <2>1, AstrayAppend
<1>14. InOrder'
  <2>1. Turn(m, <<conn, IF phase = "accept" THEN 0 ELSE conn>>, <<conn + 1, conn + 1>>)
    BY <1>1, <1>4 DEF Turn
  <2>2. /\ <<conn + 1, conn + 1>>[1] <= conn'
        /\ phase' # "lost" => <<conn + 1, conn + 1>> = <<conn', IF phase' = "accept" THEN 0 ELSE conn'>>
    BY <1>2, <1>5
  <2> QED BY <1>1, <1>3, <1>4, <2>1, <2>2, OrderPosts
<1>15. Basics'
  BY <1>1, <1>7, <1>10, <1>13, <1>14 DEF Basics
<1> QED BY <1>1, <1>2, <1>3, <1>4, <1>6, <1>12, <1>15

LEMMA DisconnBasics ==
  ASSUME Basics, OnDisconn
  PROVE  /\ Basics' /\ ~up'
         /\ UNCHANGED <<conn, client, sent, delivered, base, mixed, refused, sender>>
         /\ \E m \in IoMsg : m.type = "IO_ON_DISCONN" /\ Longer(m)
<1> DEFINE m == [type |-> "IO_ON_DISCONN", packet |-> Misframed, conn |-> conn]
<1>1. /\ TypeOK /\ Life /\ Framing /\ InOrder /\ NoneAstray /\ TypeOK'
      /\ phase = "disconn" /\ phase' = "accept" /\ ~up /\ conn # 0
  BY DisconnTypes DEF Basics, OnDisconn, Life
<1>2. UNCHANGED <<conn, up, sender, packets, stream, m_nCurFlag, buffer, client, begun, sent, delivered, base, mixed, refused>>
  BY DEF OnDisconn, peer, history
<1>3. m_MsgQueue' = Append(m_MsgQueue, m)
  BY DEF OnDisconn, PostIoMsg
<1>4. m \in IoMsg /\ m.type = "IO_ON_DISCONN" /\ m.conn = conn /\ conn \in Conns
  BY <1>1, MisframedType, PacketAssumption, SMTT(30) DEF IoMsg, TypeOK, Conns
<1> HIDE DEF m
<1>5. Life' /\ Senders' /\ PacketsAreCut'
  BY <1>1, <1>2 DEF Basics, Life, Senders, PacketsAreCut
<1>6. ~Receiving /\ ~Receiving'
  BY <1>1 DEF Receiving
<1>7. Framing' /\ Pending = 0 /\ Pending' = 0
  BY <1>6 DEF Framing, Pending
<1>8. Longer(m)
  BY <1>1, <1>3, <1>4, <1>7, QueueLonger
<1>9. NoneAstray'
  BY <1>1, <1>2, <1>3, <1>4, AstrayAppend
<1>10. InOrder'
  <2>1. Turn(m, <<conn, IF phase = "accept" THEN 0 ELSE conn>>, <<conn, 0>>)
    BY <1>1, <1>4 DEF Turn
  <2>2. /\ <<conn, 0>>[1] <= conn'
        /\ phase' # "lost" => <<conn, 0>> = <<conn', IF phase' = "accept" THEN 0 ELSE conn'>>
    BY <1>1, <1>2, <1>4 DEF Conns
  <2> QED BY <1>1, <1>2, <1>3, <1>4, <2>1, <2>2, OrderPosts
<1>11. Basics'
  BY <1>1, <1>5, <1>7, <1>9, <1>10 DEF Basics
<1> QED BY <1>1, <1>2, <1>4, <1>8, <1>11

LEMMA AstrayBasics ==
  ASSUME Basics, OnRecvAstray
  PROVE  /\ Basics' /\ conn \in Conns /\ base[conn] # 0
         /\ UNCHANGED <<conn, up, client, sent, delivered, base, mixed, refused, sender>>
         /\ \/ Line' = Line
            \/ \E m \in IoMsg : m.conn = conn /\ Longer(m)
<1>1. /\ TypeOK /\ Life /\ Framing /\ InOrder /\ NoneAstray /\ TypeOK'
      /\ phase = "recv" /\ conn # 0 /\ base[conn] # 0
  BY AstrayTypes DEF Basics, OnRecvAstray, Life
<1>2. UNCHANGED <<conn, up, sender, packets, client, begun, sent, delivered, base, mixed, refused>>
  BY DEF OnRecvAstray, peer, history
<1>3. conn \in Conns /\ conn \in Nat
  BY <1>1, PacketAssumption, SMTT(30) DEF TypeOK, Conns
<1>4. phase' \in {"spin", "recv", "disconn", "lost"} /\ (up => phase' \in {"spin", "recv"})
  BY DEF OnRecvAstray, WSARecv, DisconnectEx
<1>5. Life' /\ Senders' /\ PacketsAreCut'
  BY <1>1, <1>2, <1>4 DEF Basics, Life, Senders, PacketsAreCut
<1>6. ~Receiving /\ ~Receiving'
  BY <1>1, <1>2 DEF Receiving
<1>7. Framing' /\ Pending = 0 /\ Pending' = 0
  BY <1>6 DEF Framing, Pending
<1> DEFINE m == RecvMsg(Misframed)
<1>8. m \in IoMsg /\ m.type = "IO_ON_RECV" /\ m.conn = conn
  BY <1>3, MisframedType DEF RecvMsg, IoMsg
<1>9. m_MsgQueue' = m_MsgQueue \/ m_MsgQueue' = Append(m_MsgQueue, m)
  <2>1. PICK rubbish \in {<<>>, <<Misframed>>} :
          m_MsgQueue' = m_MsgQueue \o [j \in 1 .. Len(rubbish) |->
                          [type |-> "IO_ON_RECV", packet |-> Misframed, conn |-> conn]]
    BY DEF OnRecvAstray
  <2> DEFINE posts == [j \in 1 .. Len(rubbish) |-> m]
  <2>2. m_MsgQueue' = m_MsgQueue \o posts
    BY <2>1 DEF RecvMsg
  <2> HIDE DEF m
  <2>3. m_MsgQueue \in Seq(IoMsg)
    BY <1>1 DEF TypeOK
  <2>4. CASE rubbish = <<>>
    <3>1. posts = <<>>
      BY <2>4
    <3> HIDE DEF posts
    <3>2. m_MsgQueue \o <<>> = m_MsgQueue
      BY <2>3, ConcatEmptySeq
    <3> QED BY <2>2, <3>1, <3>2
  <2>5. CASE rubbish = <<Misframed>>
    <3>1. Len(rubbish) = 1
      BY <2>5
    <3>2. posts = <<m>>
      BY <3>1
    <3> HIDE DEF posts
    <3>3. Append(m_MsgQueue, m) = m_MsgQueue \o <<m>>
      BY <1>8, <2>3, AppendIsConcat
    <3> QED BY <2>2, <3>2, <3>3
  <2> QED BY <2>1, <2>4, <2>5
<1> HIDE DEF m
<1>10. CASE m_MsgQueue' = m_MsgQueue
  <2>1. NoneAstray'
    BY <1>1, <1>2, <1>10 DEF NoneAstray
  <2>2. InOrder'
    BY <1>1, <1>2, <1>4, <1>10, OrderStays
  <2>3. Line' = Line
    BY <1>7, <1>10, LineIfNone
  <2> QED BY <1>1, <1>2, <1>3, <1>5, <1>7, <2>1, <2>2, <2>3 DEF Basics
<1>11. CASE m_MsgQueue' = Append(m_MsgQueue, m)
  <2>1. NoneAstray'
    BY <1>1, <1>2, <1>8, <1>11, AstrayAppend
  <2>2. InOrder'
    <3>1. Turn(m, <<conn, IF phase = "accept" THEN 0 ELSE conn>>, <<conn, conn>>)
      BY <1>1, <1>8 DEF Turn
    <3>2. /\ <<conn, conn>>[1] <= conn'
          /\ phase' # "lost" => <<conn, conn>> = <<conn', IF phase' = "accept" THEN 0 ELSE conn'>>
      BY <1>2, <1>3, <1>4
    <3> QED BY <1>1, <1>2, <1>8, <1>11, <3>1, <3>2, OrderPosts
  <2>3. Longer(m)
    BY <1>1, <1>7, <1>8, <1>11, QueueLonger
  <2> QED BY <1>1, <1>2, <1>3, <1>5, <1>7, <1>8, <2>1, <2>2, <2>3 DEF Basics
<1> QED BY <1>9, <1>10, <1>11

LEMMA ProcessBasics ==
  ASSUME Basics, ProcessIoMsg
  PROVE  /\ Basics' /\ UNCHANGED <<conn, up, sender, sent, base, mixed, refused>>
         /\ m_MsgQueue # <<>> /\ Head(m_MsgQueue) = Line[1]
         /\ Len(Line) \in Nat \ {0} /\ Len(Line') = Len(Line) - 1
         /\ \A j \in 1 .. Len(Line') : Line'[j] = Line[j + 1]
<1>1. /\ TypeOK /\ Life /\ Framing /\ InOrder /\ NoneAstray /\ TypeOK' /\ InOrder' /\ Life'
  BY ProcessTypes DEF Basics
<1>2. UNCHANGED <<conn, up, sender, packets, stream, phase, m_nCurFlag, buffer, begun, sent, base, mixed, refused>>
  BY DEF ProcessIoMsg, peer, driver, history
<1>3. m_MsgQueue # <<>> /\ m_MsgQueue' = Tail(m_MsgQueue) /\ m_MsgQueue \in Seq(IoMsg)
  BY <1>1 DEF ProcessIoMsg, TypeOK
<1> DEFINE n == Len(m_MsgQueue)
<1>4. /\ n \in Nat \ {0} /\ Len(m_MsgQueue') = n - 1 /\ Head(m_MsgQueue) = m_MsgQueue[1]
      /\ \A j \in 1 .. n - 1 : m_MsgQueue'[j] = m_MsgQueue[j + 1]
  BY <1>3, HeadTailProperties, EmptySeq
<1>5. Senders' /\ PacketsAreCut'
  BY <1>2 DEF Basics, Senders, PacketsAreCut
<1>6. NoneAstray'
  <2>1. ASSUME NEW j \in 1 .. Len(m_MsgQueue') PROVE j + 1 \in 1 .. n /\ m_MsgQueue'[j] = m_MsgQueue[j + 1]
    BY <1>4
  <2> QED BY <1>1, <1>2, <2>1 DEF NoneAstray
<1>7. Framing' /\ Pending' = Pending /\ First' = First
  BY <1>1, <1>2 DEF Framing, Pending, First, Receiving
<1>8. LineIs /\ LineIs'
  BY <1>1, <1>7, LineType, LineTypeNext
<1> HIDE DEF n
<1>9. Pending \in Nat /\ Len(Line) = n + Pending /\ Len(Line') = (n - 1) + Pending
  BY <1>4, <1>7, <1>8 DEF LineIs, n
<1>10. Line[1] = m_MsgQueue[1]
  BY <1>4, <1>8 DEF LineIs, n
<1>11. ASSUME NEW j \in 1 .. Len(Line') PROVE Line'[j] = Line[j + 1]
  <2>1. CASE j <= n - 1
    <3>1. j \in 1 .. n - 1 /\ j + 1 \in 1 .. n
      BY <1>4, <1>9, <2>1
    <3>2. Line'[j] = m_MsgQueue'[j] /\ Line[j + 1] = m_MsgQueue[j + 1]
      BY <1>4, <1>8, <3>1 DEF LineIs, n
    <3> QED BY <1>4, <3>1, <3>2
  <2>2. CASE ~(j <= n - 1)
    <3> DEFINE i == j - (n - 1)
    <3>1. i \in 1 .. Pending /\ j = (n - 1) + i /\ j + 1 = n + i
      BY <1>4, <1>9, <2>2
    <3> HIDE DEF i
    <3>2. Line[n + i] = [type |-> "IO_ON_RECV", packet |-> packets[First + i - 1], conn |-> conn]
      BY <1>8, <3>1 DEF LineIs, n
    <3>3. Line'[(n - 1) + i] = [type |-> "IO_ON_RECV", packet |-> packets'[First' + i - 1], conn |-> conn']
      BY <1>4, <1>7, <1>8, <3>1 DEF LineIs
    <3> QED BY <1>2, <1>7, <3>1, <3>2, <3>3
  <2> QED BY <2>1, <2>2
<1>12. Basics'
  BY <1>1, <1>5, <1>6, <1>7 DEF Basics
<1> QED BY <1>2, <1>3, <1>4, <1>9, <1>10, <1>11, <1>12

-----------------------------------------------------------------------------
(* Places along a line                                                     *)

LEMMA AfterType ==
  ASSUME NEW m \in IoMsg, NEW at \in Nat \X Nat
  PROVE  After(m.packet, at) \in Nat \X Nat
<1>1. m.packet.done \in Nat /\ Len(m.packet.data) \in Nat
  BY LenProperties DEF IoMsg, AnyPacket
<1>2. Reach(m.packet) \in Nat
  BY <1>1 DEF Reach
<1> QED BY <1>2 DEF After

LEMMA AlongPrefix ==
  ASSUME NEW S, NEW L \in Seq(IoMsg), NEW c, NEW cmd, NEW at, Along(S, L, c, cmd, at),
         NEW M \in Seq(IoMsg), Len(M) <= Len(L), \A j \in 1 .. Len(M) : M[j] = L[j]
  PROVE  \E bt : /\ Along(S, M, c, cmd, bt) /\ bt[1] = at[1]
                 /\ Len(M) = Len(L) => bt[Len(M) + 1] = at[Len(L) + 1]
<1> DEFINE bt == [j \in 1 .. Len(M) + 1 |-> at[j]]
<1>1. Len(L) \in Nat /\ Len(M) \in Nat
  BY LenProperties
<1>2. /\ at \in [1 .. Len(L) + 1 -> Nat \X Nat]
      /\ \A j \in 1 .. Len(L) : Move(S, L[j], c, cmd, at[j], at[j + 1])
  BY DEF Along
<1>3. \A j \in 1 .. Len(M) + 1 : bt[j] = at[j]
  OBVIOUS
<1>4. bt \in [1 .. Len(M) + 1 -> Nat \X Nat]
  BY <1>1, <1>2
<1> HIDE DEF bt
<1>5. ASSUME NEW j \in 1 .. Len(M) PROVE Move(S, M[j], c, cmd, bt[j], bt[j + 1])
  <2>1. j \in 1 .. Len(L) /\ j \in 1 .. Len(M) + 1 /\ j + 1 \in 1 .. Len(M) + 1
    BY <1>1
  <2> QED BY <1>2, <1>3, <2>1
<1>6. Along(S, M, c, cmd, bt)
  BY <1>4, <1>5 DEF Along
<1>7. bt[1] = at[1] /\ (Len(M) = Len(L) => bt[Len(M) + 1] = at[Len(L) + 1])
  BY <1>1, <1>3
<1> QED BY <1>6, <1>7

LEMMA AlongAppend ==
  ASSUME NEW S, NEW L \in Seq(IoMsg), NEW c, NEW cmd, NEW at, Along(S, L, c, cmd, at),
         NEW M \in Seq(IoMsg), Len(M) = Len(L) + 1, \A j \in 1 .. Len(L) : M[j] = L[j],
         NEW y \in Nat \X Nat, Move(S, M[Len(L) + 1], c, cmd, at[Len(L) + 1], y)
  PROVE  \E bt : Along(S, M, c, cmd, bt) /\ bt[1] = at[1] /\ bt[Len(M) + 1] = y
<1> DEFINE bt == [j \in 1 .. Len(L) + 2 |-> IF j = Len(L) + 2 THEN y ELSE at[j]]
<1>1. Len(L) \in Nat /\ Len(M) = Len(L) + 1
  BY LenProperties
<1>2. /\ at \in [1 .. Len(L) + 1 -> Nat \X Nat]
      /\ \A j \in 1 .. Len(L) : Move(S, L[j], c, cmd, at[j], at[j + 1])
  BY DEF Along
<1>3. bt[Len(L) + 2] = y /\ \A j \in 1 .. Len(L) + 1 : bt[j] = at[j]
  BY <1>1
<1>4. bt \in [1 .. Len(M) + 1 -> Nat \X Nat]
  BY <1>1, <1>2
<1> HIDE DEF bt
<1>5. ASSUME NEW j \in 1 .. Len(M) PROVE Move(S, M[j], c, cmd, bt[j], bt[j + 1])
  <2>1. CASE j = Len(L) + 1
    <3>1. bt[j] = at[Len(L) + 1] /\ bt[j + 1] = y
      BY <1>1, <1>3, <2>1
    <3> QED BY <2>1, <3>1
  <2>2. CASE j # Len(L) + 1
    <3>1. j \in 1 .. Len(L) /\ j \in 1 .. Len(L) + 1 /\ j + 1 \in 1 .. Len(L) + 1
      BY <1>1, <2>2
    <3> QED BY <1>2, <1>3, <3>1
  <2> QED BY <2>1, <2>2
<1>6. Along(S, M, c, cmd, bt)
  BY <1>4, <1>5 DEF Along
<1>7. bt[1] = at[1] /\ bt[Len(M) + 1] = y
  BY <1>1, <1>3
<1> QED BY <1>6, <1>7

IsTail(M, L) ==
  /\ Len(L) \in Nat \ {0} /\ Len(M) = Len(L) - 1
  /\ \A j \in 1 .. Len(M) : M[j] = L[j + 1]

Shifted(L, at) == [j \in 1 .. Len(L) |-> at[j + 1]]

LEMMA AlongTail ==
  ASSUME NEW S, NEW L \in Seq(IoMsg), NEW c, NEW cmd, NEW at, Along(S, L, c, cmd, at),
         NEW M \in Seq(IoMsg), IsTail(M, L)
  PROVE  Along(S, M, c, cmd, Shifted(L, at))
<1> DEFINE bt == Shifted(L, at)
<1>1. Len(L) \in Nat \ {0} /\ Len(M) = Len(L) - 1 /\ \A j \in 1 .. Len(M) : M[j] = L[j + 1]
  BY DEF IsTail
<1>2. /\ at \in [1 .. Len(L) + 1 -> Nat \X Nat]
      /\ \A j \in 1 .. Len(L) : Move(S, L[j], c, cmd, at[j], at[j + 1])
  BY DEF Along
<1>3. \A j \in 1 .. Len(L) : bt[j] = at[j + 1]
  BY DEF Shifted
<1>4. bt \in [1 .. Len(M) + 1 -> Nat \X Nat]
  BY <1>1, <1>2 DEF Shifted
<1> HIDE DEF bt
<1>5. ASSUME NEW j \in 1 .. Len(M) PROVE Move(S, M[j], c, cmd, bt[j], bt[j + 1])
  <2>1. j \in 1 .. Len(L) /\ j + 1 \in 1 .. Len(L)
    BY <1>1
  <2> QED BY <1>1, <1>2, <1>3, <2>1
<1>6. Along(S, M, c, cmd, bt)
  BY <1>4, <1>5 DEF Along
<1> QED BY <1>6 DEF bt

LEMMA AlongGrow ==
  ASSUME NEW S, NEW T, Len(S) \in Nat, Len(T) \in Nat, Len(S) <= Len(T),
         \A k \in 1 .. Len(S) : T[k] = S[k],
         NEW L, NEW c, NEW cmd, NEW at, Along(S, L, c, cmd, at)
  PROVE  Along(T, L, c, cmd, at)
<1>1. ASSUME NEW j \in 1 .. Len(L) PROVE Move(T, L[j], c, cmd, at[j], at[j + 1])
  <2>1. Move(S, L[j], c, cmd, at[j], at[j + 1])
    BY DEF Along
  <2> QED BY <2>1 DEF Move, Fits
<1> QED BY <1>1 DEF Along

\* Nothing of the line concerns it.
Still(L, x) == [j \in 1 .. Len(L) + 1 |-> x]

LEMMA AlongNone ==
  ASSUME NEW S, NEW L \in Seq(IoMsg), NEW c, NEW cmd, NEW x \in Nat \X Nat,
         \A j \in 1 .. Len(L) : ~Concerns(L[j], c, cmd)
  PROVE  /\ Along(S, L, c, cmd, Still(L, x))
         /\ Still(L, x)[1] = x /\ Still(L, x)[Len(L) + 1] = x
<1> DEFINE at == Still(L, x)
<1>1. Len(L) \in Nat
  BY LenProperties
<1>2. at \in [1 .. Len(L) + 1 -> Nat \X Nat] /\ \A j \in 1 .. Len(L) + 1 : at[j] = x
  BY DEF Still
<1> HIDE DEF at
<1>3. ASSUME NEW j \in 1 .. Len(L) PROVE Move(S, L[j], c, cmd, at[j], at[j + 1])
  BY <1>1, <1>2 DEF Move
<1>4. Along(S, L, c, cmd, at) /\ at[1] = x /\ at[Len(L) + 1] = x
  BY <1>1, <1>2, <1>3 DEF Along
<1> QED BY <1>4 DEF at

-----------------------------------------------------------------------------
(* Messages keep in step                                                   *)

LEMMA TakenType ==
  ASSUME TypeOK, NEW c \in Conns, NEW cmd \in Cmds
  PROVE  /\ sent[c][cmd] \in Seq(Message) /\ Len(sent[c][cmd]) \in Nat
         /\ delivered[c][cmd] \in Seq(Seq(Byte)) /\ Len(delivered[c][cmd]) \in Nat
         /\ Taken(c, cmd) \in Nat \X Nat
<1>1. /\ sent[c][cmd] \in Seq(Message) /\ delivered[c][cmd] \in Seq(Seq(Byte))
      /\ \A d \in DOMAIN client.group : client.group[d] \in Seq(Byte)
  BY DEF TypeOK, Byte
<1>2. /\ Len(sent[c][cmd]) \in Nat /\ Len(delivered[c][cmd]) \in Nat
      /\ \A d \in DOMAIN client.group : Len(client.group[d]) \in Nat
  BY <1>1, LenProperties
<1> QED BY <1>1, <1>2 DEF Taken

LEMMA StepShorter ==
  ASSUME Basics, Basics', Shorter, NEW c \in Conns, NEW cmd \in Cmds, InStep(c, cmd),
         Taken(c, cmd)' = Taken(c, cmd), sent' = sent,
         c = conn' /\ up' => c = conn /\ up /\ sender' = sender
  PROVE  InStep(c, cmd)'
<1>1. LineIs /\ LineIs'
  BY LineType, LineTypeNext DEF Basics
<1>2. PICK at : /\ Along(sent[c][cmd], Line, c, cmd, at)
                /\ at[1] = Taken(c, cmd)
                /\ c = conn /\ up => IsSenderAt(cmd, at[Len(Line) + 1])
  BY DEF InStep
<1>3. PICK S, L, M : S = sent[c][cmd] /\ L = Line /\ M = Line'
  OBVIOUS
<1>4. /\ L \in Seq(IoMsg) /\ M \in Seq(IoMsg) /\ Len(M) <= Len(L) /\ Along(S, L, c, cmd, at)
      /\ \A j \in 1 .. Len(M) : M[j] = L[j]
  BY <1>1, <1>2, <1>3 DEF Shorter, LineIs
<1>5. PICK bt : /\ Along(S, M, c, cmd, bt) /\ bt[1] = at[1]
                /\ Len(M) = Len(L) => bt[Len(M) + 1] = at[Len(L) + 1]
  BY <1>4, AlongPrefix
<1>6. /\ Along(sent'[c][cmd], Line', c, cmd, bt) /\ bt[1] = Taken(c, cmd)'
      /\ Len(Line') = Len(Line) => bt[Len(Line') + 1] = at[Len(Line) + 1]
  BY <1>2, <1>3, <1>5
<1>7. ASSUME c = conn', up' PROVE IsSenderAt(cmd, bt[Len(Line) + 1])'
  <2>1. bt[Len(Line') + 1] = at[Len(Line) + 1]
    BY <1>6, <1>7 DEF Shorter
  <2>2. IsSenderAt(cmd, at[Len(Line) + 1])
    BY <1>2, <1>7
  <2>3. conn' = conn /\ sender' = sender
    BY <1>7
  <2> QED BY <2>1, <2>2, <2>3 DEF IsSenderAt, Sending
<1> QED BY <1>6, <1>7 DEF InStep

\* The line grows by a message, after which the place is y.
LEMMA StepLonger ==
  ASSUME Basics, Basics', NEW m, Longer(m), NEW c \in Conns, NEW cmd \in Cmds,
         NEW at, Along(sent[c][cmd], Line, c, cmd, at), at[1] = Taken(c, cmd),
         NEW y \in Nat \X Nat, Move(sent[c][cmd], m, c, cmd, at[Len(Line) + 1], y),
         Taken(c, cmd)' = Taken(c, cmd), sent' = sent,
         c = conn' /\ up' => IsSenderAt(cmd, y)'
  PROVE  InStep(c, cmd)'
<1>1. LineIs /\ LineIs'
  BY LineType, LineTypeNext DEF Basics
<1>2. PICK S, L, M : S = sent[c][cmd] /\ L = Line /\ M = Line'
  OBVIOUS
<1>3. /\ L \in Seq(IoMsg) /\ M \in Seq(IoMsg) /\ Len(M) = Len(L) + 1 /\ Along(S, L, c, cmd, at)
      /\ \A j \in 1 .. Len(L) : M[j] = L[j]
      /\ Move(S, M[Len(L) + 1], c, cmd, at[Len(L) + 1], y)
  BY <1>1, <1>2 DEF Longer, LineIs
<1>4. PICK bt : Along(S, M, c, cmd, bt) /\ bt[1] = at[1] /\ bt[Len(M) + 1] = y
  BY <1>3, AlongAppend
<1>5. /\ Along(sent'[c][cmd], Line', c, cmd, bt) /\ bt[1] = Taken(c, cmd)'
      /\ bt[Len(Line') + 1] = y
  BY <1>2, <1>4
<1>6. ASSUME c = conn', up' PROVE IsSenderAt(cmd, bt[Len(Line) + 1])'
  BY <1>5, <1>6 DEF IsSenderAt, Sending
<1> QED BY <1>5, <1>6 DEF InStep

\* A message that does not concern it.
LEMMA StepAside ==
  ASSUME Basics, Basics', NEW m, Longer(m), NEW c \in Conns, NEW cmd \in Cmds, InStep(c, cmd),
         ~Concerns(m, c, cmd), Taken(c, cmd)' = Taken(c, cmd), sent' = sent,
         c = conn' /\ up' => /\ c = conn /\ up
                             /\ \A t \in Threads : /\ Sending(t, cmd)' <=> Sending(t, cmd)
                                                   /\ Sending(t, cmd) => sender'[t].done = sender[t].done
  PROVE  InStep(c, cmd)'
<1>1. PICK at : /\ Along(sent[c][cmd], Line, c, cmd, at)
                /\ at[1] = Taken(c, cmd)
                /\ c = conn /\ up => IsSenderAt(cmd, at[Len(Line) + 1])
  BY DEF InStep
<1>2. PICK y : y = at[Len(Line) + 1]
  OBVIOUS
<1>3. y \in Nat \X Nat
  <2>1. Len(Line) + 1 \in 1 .. Len(Line) + 1
    BY LineType DEF Basics, LineIs
  <2> QED BY <1>1, <1>2, <2>1 DEF Along
<1>4. Move(sent[c][cmd], m, c, cmd, at[Len(Line) + 1], y)
  BY <1>2 DEF Move
<1>5. ASSUME c = conn', up' PROVE IsSenderAt(cmd, y)'
  BY <1>1, <1>2, <1>5 DEF IsSenderAt
<1> QED BY <1>1, <1>3, <1>4, <1>5, StepLonger

-----------------------------------------------------------------------------
(* Messages arrive                                                         *)

LEMMA InitInv == Init => PInv
<1> SUFFICES ASSUME Init PROVE PInv
  OBVIOUS
<1>1. Basics
  BY InitBasics
<1>2. Fresh /\ NoKeepAlive /\ Alone
  BY PacketAssumption DEF Fresh, NoKeepAlive, Alone, Init
<1>3. ASSUME NEW c \in Conns, NEW cmd \in Cmds PROVE InStep(c, cmd) /\ Content(c, cmd)
  <2>1. LineIs /\ m_MsgQueue = <<>> /\ Pending = 0
    BY <1>1, LineType DEF Basics, Init, Pending, Receiving
  <2>2. Line \in Seq(IoMsg) /\ Len(Line) = 0
    BY <2>1, EmptySeq DEF LineIs
  <2>3. Taken(c, cmd) \in Nat \X Nat
    BY <1>1, TakenType DEF Basics
  <2>4. PICK S, L, x : S = sent[c][cmd] /\ L = Line /\ x = Taken(c, cmd)
    OBVIOUS
  <2>5. PICK at : Along(S, L, c, cmd, at) /\ at[1] = x
    <3>1. L \in Seq(IoMsg) /\ x \in Nat \X Nat
      BY <2>2, <2>3, <2>4
    <3>2. \A j \in 1 .. Len(L) : ~Concerns(L[j], c, cmd)
      BY <2>2, <2>3, <2>4
    <3>3. Along(S, L, c, cmd, Still(L, x)) /\ Still(L, x)[1] = x
      BY <3>1, <3>2, AlongNone
    <3> QED BY <3>3
  <2>6. InStep(c, cmd)
    BY <2>4, <2>5 DEF InStep, Init, Conns
  <2>7. Content(c, cmd)
    BY EmptySeq DEF Content, Init, NoClient
  <2> QED BY <2>6, <2>7
<1> QED BY <1>1, <1>2, <1>3 DEF PInv, Arrivals

LEMMA ConnType == TypeOK => conn \in Nat
BY PacketAssumption DEF TypeOK

LEMMA ConnTypeNext == TypeOK' => (conn \in Nat)'
BY ConnType, PTL

LEMMA TakenIs == TypeOK => \A c \in Conns, cmd \in Cmds : Taken(c, cmd) \in Nat \X Nat
BY TakenType

LEMMA TakenNext == TypeOK' => (\A c \in Conns, cmd \in Cmds : Taken(c, cmd) \in Nat \X Nat)'
BY TakenIs, PTL

LEMMA FreshStays ==
  ASSUME TypeOK, TypeOK', Fresh, UNCHANGED <<sent, delivered>>, conn <= conn'
  PROVE  Fresh'
<1>1. conn \in Nat /\ conn' \in Nat /\ \A c \in Conns : c \in Nat
  <2>1. \A c \in Conns : c \in Nat
    BY DEF Conns
  <2> QED BY <2>1, ConnType, ConnTypeNext
<1>2. \A c \in Conns : c > conn' => c > conn
  BY <1>1
<1> QED BY <1>2 DEF Fresh

LEMMA AloneStays ==
  ASSUME Alone,
         UNCHANGED <<conn, sender, sent, mixed, refused>> \/ \A t \in Threads : sender'[t] = Idle
  PROVE  Alone'
BY DEF Alone, Sending

LEMMA ContentStays ==
  ASSUME NEW c \in Conns, NEW cmd \in Cmds, Content(c, cmd), UNCHANGED <<sent, delivered>>,
         client' = client \/ client' = NoClient
  PROVE  Content(c, cmd)'
BY NoClientType DEF Content

\* What leaves the server, the messages and the connection as they are.
LEMMA ShorterInv ==
  ASSUME PInv, Basics', Shorter, UNCHANGED <<conn, client, sent, delivered, base, mixed, refused>>,
         UNCHANGED <<up, sender>> \/ (~up' /\ \A t \in Threads : sender'[t] = Idle)
  PROVE  PInv'
<1>1. Basics /\ TypeOK /\ TypeOK' /\ conn <= conn'
  BY ConnType DEF PInv, Basics
<1>2. Fresh' /\ NoKeepAlive' /\ Alone'
  BY <1>1, FreshStays, AloneStays DEF PInv, NoKeepAlive
<1>3. ASSUME NEW c \in Conns, NEW cmd \in Cmds, Orderly(c, cmd)'
      PROVE  InStep(c, cmd)' /\ Content(c, cmd)'
  <2>1. InStep(c, cmd) /\ Content(c, cmd)
    BY <1>3 DEF PInv, Arrivals, Orderly, Unbroken
  <2>2. Taken(c, cmd)' = Taken(c, cmd)
    BY DEF Taken
  <2>3. InStep(c, cmd)'
    BY <1>1, <2>1, <2>2, StepShorter
  <2> QED BY <2>1, <2>3, ContentStays
<1> QED BY <1>2, <1>3 DEF PInv, Arrivals

LEMMA StutterInv == ASSUME PInv, UNCHANGED vars PROVE PInv'
<1>1. UNCHANGED <<conn, up, sender, packets, stream, phase, m_nCurFlag, buffer, m_MsgQueue, client,
                  begun, sent, delivered, base, mixed, refused>>
  BY DEF vars, peer, driver, server, history
<1>2. TypeOK' /\ Life' /\ Senders' /\ InOrder'
  BY <1>1, OrderStays DEF PInv, Basics, TypeOK, Life, Senders
<1>3. Basics' /\ Line' = Line
  BY <1>1, <1>2, DriverStands DEF PInv, Basics
<1>4. Shorter
  BY <1>3, LineType DEF PInv, Basics, LineIs, Shorter
<1> QED BY <1>1, <1>3, <1>4, ShorterInv

LEMMA DriverInv ==
  ASSUME PInv, Close \/ Reset \/ OnPreRecv \/ OnRecv \/ OnPacket \/ OnRest \/ OnRecvClosed
  PROVE  PInv'
<1>1. Basics' /\ Shorter
  BY CloseBasics, ResetBasics, PreRecvBasics, RecvBasics, PacketBasics, RestBasics,
     RecvClosedBasics DEF PInv
<1>2. UNCHANGED <<conn, client, sent, delivered, base, mixed, refused>>
  BY DEF Close, Reset, OnPreRecv, OnRecv, OnPacket, OnRest, OnRecvClosed, peer, driver, server, history
<1>3. UNCHANGED <<up, sender>> \/ (~up' /\ \A t \in Threads : sender'[t] = Idle)
  BY DEF Close, Reset, Down, OnPreRecv, OnRecv, OnPacket, OnRest, OnRecvClosed, peer
<1> QED BY <1>1, <1>2, <1>3, ShorterInv

\* A client that is forgotten: nothing of it is under way.
LEMMA IdleInv == ASSUME PInv, IdleTimeout PROVE PInv'
<1>0. /\ UNCHANGED <<conn, sent, delivered, base, mixed, refused, m_MsgQueue>>
      /\ m_MsgQueue = <<>> /\ client' = NoClient /\ phase' = "lost" /\ ~up'
      /\ \A t \in Threads : sender'[t] = Idle
  BY DEF IdleTimeout, Down, history
<1>1. Basics /\ Basics' /\ TypeOK /\ TypeOK' /\ conn <= conn'
  BY <1>0, IdleBasics, ConnType DEF PInv, Basics
<1>2. Fresh' /\ NoKeepAlive' /\ Alone'
  BY <1>0, <1>1, FreshStays, AloneStays DEF PInv, NoKeepAlive
<1>3. ASSUME NEW c \in Conns, NEW cmd \in Cmds, Orderly(c, cmd)'
      PROVE  InStep(c, cmd)' /\ Content(c, cmd)'
  <2>1. Content(c, cmd)
    BY <1>0, <1>1, <1>3 DEF PInv, Arrivals, Orderly, Unbroken
  <2>2. LineIs' /\ Pending' = 0
    BY <1>0, <1>1, LineTypeNext DEF Basics, Pending, Receiving
  <2>3. Line' \in Seq(IoMsg) /\ Len(Line') = 0
    BY <1>0, <1>1, <2>2, EmptySeq DEF LineIs
  <2>4. Taken(c, cmd)' \in Nat \X Nat
    BY <1>1, TakenNext
  <2>5. PICK S, L, x : S = sent'[c][cmd] /\ L = Line' /\ x = Taken(c, cmd)'
    OBVIOUS
  <2>6. PICK at : Along(S, L, c, cmd, at) /\ at[1] = x
    <3>1. L \in Seq(IoMsg) /\ x \in Nat \X Nat
      BY <2>3, <2>4, <2>5
    <3>2. \A j \in 1 .. Len(L) : ~Concerns(L[j], c, cmd)
      BY <2>3, <2>4, <2>5
    <3>3. Along(S, L, c, cmd, Still(L, x)) /\ Still(L, x)[1] = x
      BY <3>1, <3>2, AlongNone
    <3> QED BY <3>3
  <2>7. Along(sent'[c][cmd], Line', c, cmd, at) /\ at[1] = Taken(c, cmd)'
    BY <2>5, <2>6
  <2>8. InStep(c, cmd)'
    BY <1>0, <1>1, <2>7 DEF InStep
  <2> QED BY <1>0, <1>1, <2>1, <2>8, ContentStays
<1> QED BY <1>1, <1>2, <1>3 DEF PInv, Arrivals

LEMMA DisconnInv == ASSUME PInv, OnDisconn PROVE PInv'
<1>1. /\ Basics /\ TypeOK /\ Basics' /\ TypeOK' /\ ~up'
      /\ UNCHANGED <<conn, client, sent, delivered, base, mixed, refused, sender>>
  BY DisconnBasics DEF PInv, Basics
<1>2. PICK m \in IoMsg : m.type = "IO_ON_DISCONN" /\ Longer(m)
  BY <1>1, DisconnBasics
<1>3. Fresh' /\ NoKeepAlive' /\ Alone'
  BY <1>1, FreshStays, AloneStays, ConnType DEF PInv, NoKeepAlive
<1>4. ASSUME NEW c \in Conns, NEW cmd \in Cmds, Orderly(c, cmd)'
      PROVE  InStep(c, cmd)' /\ Content(c, cmd)'
  <2>1. InStep(c, cmd) /\ Content(c, cmd)
    BY <1>1, <1>4 DEF PInv, Arrivals, Orderly, Unbroken
  <2>2. Taken(c, cmd)' = Taken(c, cmd)
    BY <1>1 DEF Taken
  <2>3. ~Concerns(m, c, cmd)
    BY <1>2 DEF Concerns
  <2>4. InStep(c, cmd)'
    BY <1>1, <1>2, <2>1, <2>2, <2>3, StepAside
  <2> QED BY <1>1, <2>1, <2>4, ContentStays
<1> QED BY <1>1, <1>3, <1>4 DEF PInv, Arrivals

LEMMA AstrayInv == ASSUME PInv, OnRecvAstray PROVE PInv'
<1>1. /\ Basics /\ TypeOK /\ Basics' /\ TypeOK' /\ conn \in Conns /\ base[conn] # 0
      /\ UNCHANGED <<conn, up, client, sent, delivered, base, mixed, refused, sender>>
  BY AstrayBasics DEF PInv, Basics
<1>2. CASE Line' = Line
  <2>1. Shorter
    BY <1>1, <1>2, LineType DEF Basics, LineIs, Shorter
  <2> QED BY <1>1, <2>1, ShorterInv
<1>3. CASE \E m \in IoMsg : m.conn = conn /\ Longer(m)
  <2>1. PICK m \in IoMsg : m.conn = conn /\ Longer(m)
    BY <1>3
  <2>2. Fresh' /\ NoKeepAlive' /\ Alone'
    BY <1>1, FreshStays, AloneStays, ConnType DEF PInv, NoKeepAlive
  <2>3. ASSUME NEW c \in Conns, NEW cmd \in Cmds, Orderly(c, cmd)'
        PROVE  InStep(c, cmd)' /\ Content(c, cmd)'
    <3>1. InStep(c, cmd) /\ Content(c, cmd) /\ c # conn
      BY <1>1, <2>3 DEF PInv, Arrivals, Orderly, Unbroken
    <3>2. Taken(c, cmd)' = Taken(c, cmd)
      BY <1>1 DEF Taken
    <3>3. ~Concerns(m, c, cmd)
      BY <2>1, <3>1 DEF Concerns
    <3>4. InStep(c, cmd)'
      BY <1>1, <2>1, <3>1, <3>2, <3>3, StepAside
    <3> QED BY <1>1, <3>1, <3>4, ContentStays
  <2> QED BY <1>1, <2>2, <2>3 DEF PInv, Arrivals
<1> QED BY <1>2, <1>3, AstrayBasics DEF PInv

LEMMA LineConns == ASSUME Basics, NEW j \in 1 .. Len(Line) PROVE Line[j].conn \in 1 .. conn
<1>1. LineIs /\ TypeOK /\ InOrder
  BY LineType DEF Basics
<1> DEFINE n == Len(m_MsgQueue)
<1>2. CASE j \in 1 .. n
  <2>1. Line[j] = m_MsgQueue[j]
    BY <1>1, <1>2 DEF LineIs
  <2> QED BY <1>1, <1>2, <2>1, QueueConns
<1>3. CASE j \notin 1 .. n
  <2> DEFINE i == j - n
  <2>1. i \in 1 .. Pending /\ j = n + i /\ Pending # 0
    BY <1>1, <1>3 DEF LineIs
  <2>2. Line[j].conn = conn
    <3> HIDE DEF i
    <3>1. Line[n + i] = [type |-> "IO_ON_RECV", packet |-> packets[First + i - 1], conn |-> conn]
      BY <1>1, <2>1 DEF LineIs
    <3> QED BY <2>1, <3>1
  <2>3. conn # 0 /\ conn \in Nat
    BY <1>1, <2>1, ConnType DEF Pending, Receiving
  <2> QED BY <2>2, <2>3
<1> QED BY <1>2, <1>3

\* A connection of which nothing was told.
LEMMA AcceptInv == ASSUME PInv, OnAccept PROVE PInv'
<1>1. /\ Basics /\ TypeOK /\ Basics' /\ TypeOK' /\ conn \in Nat /\ conn' = conn + 1 /\ conn' \in Conns
      /\ (\A t \in Threads : sender'[t] = Idle)
      /\ UNCHANGED <<client, sent, delivered, mixed, refused>>
      /\ \A c \in Conns : c <= conn => base'[c] = base[c]
  BY AcceptBasics, ConnType DEF PInv, Basics
<1>2. PICK m \in IoMsg : m.type = "IO_ON_ACCEPT" /\ Longer(m)
  BY AcceptBasics DEF PInv
<1>3. ASSUME NEW c \in Conns PROVE c <= conn \/ c = conn' \/ c > conn'
  BY <1>1 DEF Conns
<1>4. Fresh' /\ Alone'
  BY <1>1, FreshStays, AloneStays DEF PInv
<1>5. ASSUME NEW c \in Conns, c > conn, NEW cmd \in Cmds
      PROVE  sent[c][cmd] = <<>> /\ delivered[c][cmd] = <<>>
  BY <1>5 DEF PInv, Fresh
<1>6. NoKeepAlive'
  <2>1. SUFFICES ASSUME NEW c \in Conns, base'[c] = 0
                 PROVE  delivered'[c][MSG_KEEP_ALIVE] = <<>>
    BY DEF NoKeepAlive
  <2>2. CASE c <= conn
    BY <1>1, <2>1, <2>2 DEF PInv, NoKeepAlive
  <2>3. CASE c > conn
    BY <1>1, <1>5, <2>3, PacketAssumption
  <2> QED BY <1>1, <2>2, <2>3 DEF Conns
<1>7. ASSUME NEW c \in Conns, NEW cmd \in Cmds, Orderly(c, cmd)'
      PROVE  InStep(c, cmd)' /\ Content(c, cmd)'
  <2>1. ~Concerns(m, c, cmd)
    BY <1>2 DEF Concerns
  <2>2. Taken(c, cmd)' = Taken(c, cmd)
    BY <1>1 DEF Taken
  <2>3. CASE c <= conn
    <3>1. c # conn' /\ InStep(c, cmd) /\ Content(c, cmd)
      <4>1. c # conn'
        BY <1>1, <2>3 DEF Conns
      <4>2. Orderly(c, cmd)
        BY <1>1, <1>7, <2>3 DEF Orderly, Unbroken
      <4> QED BY <4>1, <4>2 DEF PInv, Arrivals
    <3>2. InStep(c, cmd)'
      BY <1>1, <1>2, <2>1, <2>2, <3>1, StepAside
    <3> QED BY <1>1, <3>1, <3>2, ContentStays
  <2>4. CASE c > conn
    <3>1. sent[c][cmd] = <<>> /\ delivered[c][cmd] = <<>> /\ client.conn # c
      <4>1. client.conn # c
        BY <1>1, <2>4 DEF TypeOK, Conns
      <4> QED BY <1>5, <2>4, <4>1
    <3>2. Content(c, cmd)'
      BY <1>1, <3>1, EmptySeq DEF Content
    <3>3. Taken(c, cmd)' = <<1, 0>>
      BY <2>2, <3>1 DEF Taken
    <3>4. LineIs /\ LineIs'
      BY <1>1, LineType, LineTypeNext DEF Basics
    <3>5. ASSUME NEW j \in 1 .. Len(Line') PROVE ~Concerns(Line'[j], c, cmd)
      <4>1. CASE j = Len(Line) + 1
        BY <1>2, <2>1, <4>1 DEF Longer
      <4>2. CASE j # Len(Line) + 1
        <5>1. j \in 1 .. Len(Line) /\ Line'[j] = Line[j]
          BY <1>2, <3>4, <4>2 DEF Longer, LineIs
        <5>2. Line[j].conn # c
          BY <1>1, <2>4, <5>1, LineConns DEF Conns
        <5> QED BY <5>1, <5>2 DEF Concerns
      <4> QED BY <4>1, <4>2
    <3>6. PICK S, L : S = sent'[c][cmd] /\ L = Line'
      OBVIOUS
    <3>7. PICK at : Along(S, L, c, cmd, at) /\ at[1] = <<1, 0>> /\ at[Len(L) + 1] = <<1, 0>>
      <4>1. L \in Seq(IoMsg) /\ <<1, 0>> \in Nat \X Nat
        BY <3>4, <3>6 DEF LineIs
      <4>2. \A j \in 1 .. Len(L) : ~Concerns(L[j], c, cmd)
        BY <3>5, <3>6
      <4>3. LET x == <<1, 0>> IN Along(S, L, c, cmd, Still(L, x)) /\ Still(L, x)[1] = x /\ Still(L, x)[Len(L) + 1] = x
        BY <4>1, <4>2, AlongNone
      <4> QED BY <4>3
    <3>8. /\ Along(sent'[c][cmd], Line', c, cmd, at) /\ at[1] = Taken(c, cmd)'
          /\ at[Len(Line') + 1] = <<1, 0>>
      BY <3>3, <3>6, <3>7
    <3>9. ASSUME c = conn', up' PROVE IsSenderAt(cmd, at[Len(Line) + 1])'
      BY <1>1, <3>1, <3>8, <3>9, EmptySeq DEF IsSenderAt, Sending
    <3>10. InStep(c, cmd)'
      BY <3>8, <3>9 DEF InStep
    <3> QED BY <3>2, <3>10
  <2> QED BY <1>1, <2>3, <2>4 DEF Conns
<1> QED BY <1>1, <1>4, <1>6, <1>7 DEF PInv, Arrivals

\* A thread begins a message; where no other thread sends the command, the one
\* before has all been sent.
LEMMA BeginInv ==
  ASSUME PInv, NEW t \in Threads, NEW message \in Messages, Begin(t, message)
  PROVE  PInv'
<1> DEFINE cmd == message.cmd
           m == [id |-> begun + 1, cmd |-> cmd, len |-> message.len]
           others == {u \in Threads \ {t} : sender[u] # Idle /\ sender[u].msg.cmd = cmd}
<1>1. /\ Basics /\ TypeOK /\ Basics' /\ TypeOK' /\ Line' = Line /\ conn \in Conns /\ up
      /\ UNCHANGED <<conn, up, client, delivered, base, refused>>
  <2>1. Basics /\ TypeOK /\ Life /\ Basics' /\ TypeOK' /\ Line' = Line
    BY BeginBasics DEF PInv, Basics
  <2>2. up /\ UNCHANGED <<conn, up, client, delivered, base, refused>>
    BY DEF Begin, server
  <2>3. conn # 0
    BY <2>1, <2>2 DEF Life
  <2>4. conn \in Conns
    <3>1. conn \in 0 .. MaxConns /\ MaxConns \in Nat
      BY <2>1, PacketAssumption DEF TypeOK
    <3> QED BY <2>3, <3>1 DEF Conns
  <2> QED BY <2>1, <2>2, <2>4
<1>2. m \in Message /\ cmd \in Cmds /\ m.id # 0 /\ m.cmd = cmd
  <2>1. begun \in Nat
    BY <1>1, PacketAssumption DEF TypeOK
  <2>2. begun + 1 \in Nat /\ begun + 1 # 0
    BY <2>1
  <2> QED BY <2>2, MessageType
<1>3. /\ sent' = [sent EXCEPT ![conn][cmd] = Append(@, m)]
      /\ sender' = [sender EXCEPT ![t] = [msg |-> m, done |-> 0, type |-> {}]]
      /\ mixed' = [mixed EXCEPT ![conn] = IF others = {} THEN @ ELSE @ \cup {cmd}]
      /\ sender[t] = Idle
  BY DEF Begin
<1> HIDE DEF cmd, m
<1>4. /\ sender'[t].msg = m /\ sender'[t].done = 0 /\ sender'[t] # Idle
      /\ \A u \in Threads \ {t} : sender'[u] = sender[u]
  <2>1. sender'[t] = [msg |-> m, done |-> 0, type |-> {}]
    BY <1>1, <1>3 DEF TypeOK
  <2>2. sender'[t] # Idle
    BY <1>2, <2>1 DEF Idle
  <2> QED BY <1>1, <1>3, <2>1, <2>2 DEF TypeOK
<1>5. mixed'[conn] = (IF others = {} THEN mixed[conn] ELSE mixed[conn] \cup {cmd})
      /\ \A c \in Conns : mixed[c] \subseteq mixed'[c]
  BY <1>1, <1>3 DEF TypeOK
<1>6. cmd \notin mixed'[conn] =>
        \A u \in Threads : sender'[u] # Idle /\ sender'[u].msg.cmd = cmd => u = t
  BY <1>4, <1>5
<1>7. /\ sent'[conn][cmd] = Append(sent[conn][cmd], m)
      /\ \A c \in Conns, d \in Cmds : c # conn \/ d # cmd => sent'[c][d] = sent[c][d]
  BY <1>1, <1>2, <1>3, SMTT(30) DEF TypeOK
<1>8. /\ sent[conn][cmd] \in Seq(Message) /\ Len(sent[conn][cmd]) \in Nat
      /\ Len(sent'[conn][cmd]) = Len(sent[conn][cmd]) + 1
      /\ sent'[conn][cmd][Len(sent[conn][cmd]) + 1] = m
      /\ \A k \in 1 .. Len(sent[conn][cmd]) : sent'[conn][cmd][k] = sent[conn][cmd][k]
      /\ sent'[conn][cmd] # <<>>
  BY <1>1, <1>2, <1>7, TakenType, AppendProperties, SMTT(30)
<1>9. Fresh'
  <2>1. ASSUME NEW c \in Conns, c > conn, NEW d \in Cmds PROVE sent'[c][d] = sent[c][d]
    <3>1. c # conn
      BY <1>1, <2>1 DEF Conns
    <3> QED BY <1>7, <3>1
  <2> QED BY <1>1, <2>1 DEF PInv, Fresh
<1>10. NoKeepAlive'
  BY <1>1 DEF PInv, NoKeepAlive
<1>11. Alone'
  <2>1. SUFFICES ASSUME NEW u \in Threads, sender'[u] # Idle, sender'[u].msg.cmd \notin mixed'[conn]
                 PROVE  /\ \A w \in Threads : sender'[w] # Idle /\ sender'[w].msg.cmd = sender'[u].msg.cmd => w = u
                        /\ sent'[conn][sender'[u].msg.cmd] # <<>>
                        /\ sent'[conn][sender'[u].msg.cmd][Len(sent'[conn][sender'[u].msg.cmd])] = sender'[u].msg
    BY <1>1 DEF Alone, Sending
  <2>2. CASE u = t
    BY <1>2, <1>4, <1>6, <1>8, <2>1, <2>2
  <2>3. CASE u # t
    <3>1. sender'[u] = sender[u] /\ sender[u] # Idle
      BY <1>4, <2>1, <2>3
    <3>2. sender[u].msg.cmd # cmd
      BY <1>6, <2>1, <2>3, <3>1
    <3>3. sender[u].msg.cmd \in Cmds /\ sender[u].msg.cmd \notin mixed[conn]
      BY <1>1, <1>5, <2>1, <3>1 DEF TypeOK, Message
    <3>4. sent'[conn][sender[u].msg.cmd] = sent[conn][sender[u].msg.cmd]
      BY <1>1, <1>7, <3>2, <3>3
    <3>5. /\ \A w \in Threads : Sending(w, sender[u].msg.cmd) => w = u
          /\ sent[conn][sender[u].msg.cmd] # <<>>
          /\ sent[conn][sender[u].msg.cmd][Len(sent[conn][sender[u].msg.cmd])] = sender[u].msg
      BY <3>1, <3>3 DEF PInv, Alone
    <3>6. ASSUME NEW w \in Threads, sender'[w] # Idle, sender'[w].msg.cmd = sender[u].msg.cmd PROVE w = u
      <4>1. w # t
        BY <1>2, <1>4, <3>2, <3>6
      <4> QED BY <1>4, <3>5, <3>6, <4>1 DEF Sending
    <3> QED BY <3>1, <3>4, <3>5, <3>6
  <2> QED BY <2>2, <2>3
<1>12. ASSUME NEW c \in Conns, NEW d \in Cmds, Orderly(c, d)'
       PROVE  InStep(c, d)' /\ Content(c, d)'
  <2>1. InStep(c, d) /\ Content(c, d)
    BY <1>1, <1>5, <1>12 DEF PInv, Arrivals, Orderly, Unbroken
  <2>2. Taken(c, d)' = Taken(c, d)
    BY <1>1 DEF Taken
  <2>3. PICK at : /\ Along(sent[c][d], Line, c, d, at)
                  /\ at[1] = Taken(c, d)
                  /\ c = conn /\ up => IsSenderAt(d, at[Len(Line) + 1])
    BY <2>1 DEF InStep
  <2>4. CASE c = conn /\ d = cmd
    <3>1. \A u \in Threads : sender'[u] # Idle /\ sender'[u].msg.cmd = cmd => u = t
      BY <1>1, <1>6, <1>12, <2>4 DEF Orderly, Unbroken
    <3>2. \A u \in Threads : ~Sending(u, d)
      BY <1>3, <1>4, <2>4, <3>1 DEF Sending
    <3>3. at[Len(Line) + 1] = <<Len(sent[conn][cmd]) + 1, 0>>
      BY <1>1, <2>3, <2>4, <3>2 DEF IsSenderAt
    <3>4. IsSenderAt(d, at[Len(Line) + 1])'
      <4>1. at[Len(Line') + 1] = <<Len(sent'[conn'][d]), 0>>
        BY <1>1, <1>8, <2>4, <3>3
      <4>2. sender'[t] # Idle /\ sender'[t].msg.cmd = d
        BY <1>2, <1>4, <2>4
      <4> QED BY <1>4, <2>4, <3>1, <4>1, <4>2 DEF IsSenderAt, Sending
    <3>5. Along(sent'[c][d], Line', c, d, at)
      <4>1. PICK S, T, L : S = sent[c][d] /\ T = sent'[c][d] /\ L = Line
        OBVIOUS
      <4>2. /\ Len(S) \in Nat /\ Len(T) \in Nat /\ Len(S) <= Len(T)
            /\ \A k \in 1 .. Len(S) : T[k] = S[k]
        BY <1>8, <2>4, <4>1
      <4>3. Along(S, L, c, d, at)
        BY <2>3, <4>1
      <4>4. Along(T, L, c, d, at)
        BY <4>2, <4>3, AlongGrow
      <4> QED BY <1>1, <4>1, <4>4
    <3>6. InStep(c, d)'
      BY <2>2, <2>3, <3>4, <3>5 DEF InStep
    <3>7. Content(c, d)'
      <4>1. /\ \A k \in 1 .. Len(sent[c][d]) : sent'[c][d][k] = sent[c][d][k]
            /\ Len(sent'[c][d]) = Len(sent[c][d]) + 1 /\ Len(sent[c][d]) \in Nat
            /\ Len(delivered[c][d]) \in Nat
        BY <1>1, <1>8, <2>4, TakenType
      <4>2. UNCHANGED <<client, delivered>>
        BY <1>1
      <4>3. ASSUME NEW k \in 1 .. Len(delivered[c][d])
            PROVE  k <= Len(sent'[c][d]) /\ delivered[c][d][k] = Encoded(sent'[c][d][k])
        <5>1. k <= Len(sent[c][d]) /\ delivered[c][d][k] = Encoded(sent[c][d][k])
          BY <2>1 DEF Content
        <5>2. k \in 1 .. Len(sent[c][d])
          BY <4>1, <5>1
        <5> QED BY <4>1, <5>1, <5>2
      <4>4. ASSUME client.conn = c, d \in DOMAIN client.group
            PROVE  /\ Len(delivered[c][d]) + 1 <= Len(sent'[c][d])
                   /\ client.group[d] = Pieces(sent'[c][d][Len(delivered[c][d]) + 1],
                                               1, Len(client.group[d]))
        <5>1. /\ Len(delivered[c][d]) + 1 <= Len(sent[c][d])
              /\ client.group[d] = Pieces(sent[c][d][Len(delivered[c][d]) + 1], 1, Len(client.group[d]))
          BY <2>1, <4>4 DEF Content
        <5>2. Len(delivered[c][d]) + 1 \in 1 .. Len(sent[c][d])
          BY <4>1, <5>1
        <5>3. sent'[c][d][Len(delivered[c][d]) + 1] = sent[c][d][Len(delivered[c][d]) + 1]
          BY <4>1, <5>2
        <5>4. Len(delivered[c][d]) + 1 <= Len(sent'[c][d])
          BY <4>1, <5>1
        <5> QED BY <5>1, <5>3, <5>4
      <4> QED BY <4>2, <4>3, <4>4 DEF Content
    <3> QED BY <3>6, <3>7
  <2>5. CASE ~(c = conn /\ d = cmd)
    <3>1. sent'[c][d] = sent[c][d]
      BY <1>7, <2>5
    <3>2. c = conn => \A u \in Threads : /\ (sender'[u] # Idle /\ sender'[u].msg.cmd = d) <=> Sending(u, d)
                                         /\ Sending(u, d) => sender'[u].done = sender[u].done
      BY <1>2, <1>3, <1>4, <2>5 DEF Sending
    <3>3. ASSUME c = conn', up' PROVE IsSenderAt(d, at[Len(Line) + 1])'
      BY <1>1, <2>3, <3>1, <3>2, <3>3 DEF IsSenderAt, Sending
    <3>4. InStep(c, d)'
      BY <1>1, <2>2, <2>3, <3>1, <3>3 DEF InStep
    <3>5. Content(c, d)'
      BY <1>1, <2>1, <3>1 DEF Content
    <3> QED BY <3>4, <3>5
  <2> QED BY <2>4, <2>5
<1> QED BY <1>1, <1>9, <1>10, <1>11, <1>12 DEF PInv, Arrivals

\* What is orderly was so before a packet was sent; a refused one is not of it.
LEMMA OrderlyBefore ==
  ASSUME TypeOK, UNCHANGED <<base, mixed>>, NEW x,
         refused' = refused \/ refused' = Append(refused, x),
         NEW c \in Conns, NEW cmd \in Cmds, Orderly(c, cmd)'
  PROVE  Orderly(c, cmd) /\ (refused' = Append(refused, x) => x # <<c, cmd>>)
<1>1. /\ base'[c] = 0 /\ cmd \notin mixed'[c] /\ cmd # MSG_KEEP_ALIVE
      /\ \A k \in 1 .. Len(refused') : refused'[k] # <<c, cmd>>
  BY DEF Orderly, Unbroken
<1>2. CASE refused' = refused
  <2>1. refused' # Append(refused, x)
    BY <1>2, AppendProperties, LenProperties DEF TypeOK
  <2> QED BY <1>1, <1>2, <2>1 DEF Orderly, Unbroken
<1>3. CASE refused' = Append(refused, x)
  <2>1. /\ Len(refused) \in Nat /\ Len(refused') = Len(refused) + 1
        /\ refused'[Len(refused) + 1] = x
        /\ \A k \in 1 .. Len(refused) : refused'[k] = refused[k]
    BY <1>3, AppendProperties, LenProperties DEF TypeOK
  <2>2. x # <<c, cmd>> /\ \A k \in 1 .. Len(refused) : refused[k] # <<c, cmd>>
    BY <1>1, <2>1
  <2> QED BY <1>1, <2>2 DEF Orderly, Unbroken
<1> QED BY <1>2, <1>3

\* A packet is sent: it goes on where its thread is; or it is refused, and its
\* command is in order no more.
LEMMA SendInv == ASSUME PInv, NEW t \in Threads, Send(t) PROVE PInv'
<1>1. /\ Basics /\ TypeOK /\ Basics' /\ TypeOK' /\ up /\ conn \in Conns /\ sender[t] # Idle
      /\ UNCHANGED <<conn, up, client, sent, delivered, base, mixed>>
  BY SendBasics DEF PInv, Basics
<1>2. PICK p \in AnyPacket :
        /\ Cut(p) /\ GoesOn(t, p) /\ p.msg = sender[t].msg /\ p.done = sender[t].done
        /\ \/ refused' = refused /\ IF base[conn] = 0 THEN Longer(RecvMsg(p)) ELSE Line' = Line
           \/ refused' = Append(refused, <<conn, p.msg.cmd>>) /\ Line' = Line
  BY SendBasics DEF PInv
<1>3. \A u \in Threads \ {t} : sender'[u] = sender[u]
  BY <1>1, <1>2 DEF GoesOn, TypeOK
<1>4. \/ sender'[t] = Idle /\ Reach(p) = p.msg.len
      \/ sender'[t] # Idle /\ sender'[t].msg = p.msg /\ sender'[t].done = Reach(p) /\ Reach(p) < p.msg.len
  <2>1. CASE Reach(p) = p.msg.len /\ sender' = [sender EXCEPT ![t] = Idle]
    BY <1>1, <2>1 DEF TypeOK
  <2>2. CASE /\ Reach(p) < p.msg.len
             /\ sender' = [sender EXCEPT ![t] = [msg |-> p.msg, done |-> Reach(p), type |-> {"OP_IMCOMPLETE"}]]
    <3>1. sender'[t] = [msg |-> p.msg, done |-> Reach(p), type |-> {"OP_IMCOMPLETE"}]
      BY <1>1, <2>2 DEF TypeOK
    <3>2. p.msg.id # 0
      BY <1>2 DEF Cut
    <3> QED BY <2>2, <3>1, <3>2 DEF Idle
  <2> QED BY <1>2, <2>1, <2>2 DEF GoesOn
<1>5. Fresh' /\ NoKeepAlive'
  BY <1>1, FreshStays, ConnType DEF PInv, NoKeepAlive
<1>6. \A u \in Threads : sender'[u] # Idle => sender[u] # Idle /\ sender'[u].msg = sender[u].msg
  BY <1>1, <1>2, <1>3, <1>4
<1>7. Alone'
  BY <1>1, <1>6 DEF PInv, Alone, Sending
<1>8. ASSUME NEW c \in Conns, NEW cmd \in Cmds, Orderly(c, cmd)'
      PROVE  InStep(c, cmd)' /\ Content(c, cmd)'
  <2>0. /\ Orderly(c, cmd)
        /\ refused' = Append(refused, <<conn, p.msg.cmd>>) => ~(c = conn /\ cmd = p.msg.cmd)
    BY <1>1, <1>2, <1>8, OrderlyBefore
  <2>1. Orderly(c, cmd) /\ InStep(c, cmd) /\ Content(c, cmd)
    BY <2>0 DEF PInv, Arrivals
  <2>2. Taken(c, cmd)' = Taken(c, cmd)
    BY <1>1 DEF Taken
  <2>3. Content(c, cmd)'
    BY <1>1, <2>1, ContentStays
  <2>4. CASE c = conn /\ cmd = p.msg.cmd
    <3>1. Longer(RecvMsg(p))
      BY <1>2, <2>0, <2>1, <2>4 DEF Orderly, Unbroken
    <3>2. PICK at : /\ Along(sent[c][cmd], Line, c, cmd, at)
                    /\ at[1] = Taken(c, cmd)
                    /\ IsSenderAt(cmd, at[Len(Line) + 1])
      BY <1>1, <2>1, <2>4 DEF InStep
    <3>3. /\ \A u \in Threads : Sending(u, cmd) => u = t
          /\ sent[c][cmd] # <<>> /\ sent[c][cmd][Len(sent[c][cmd])] = p.msg
      BY <1>1, <1>2, <2>1, <2>4 DEF PInv, Alone, Orderly, Unbroken
    <3>4. at[Len(Line) + 1] = <<Len(sent[c][cmd]), p.done>>
      BY <1>1, <1>2, <2>4, <3>2 DEF IsSenderAt, Sending
    <3>5. /\ Len(sent[c][cmd]) \in Nat \ {0}
      BY <1>1, <3>3, TakenType, EmptySeq
    <3>6. PICK x, y : x = <<Len(sent[c][cmd]), p.done>> /\ y = After(p, x)
      OBVIOUS
    <3>7. Fits(sent[c][cmd], p, x)
      BY <3>3, <3>5, <3>6 DEF Fits
    <3>8. /\ y = IF Reach(p) < p.msg.len THEN <<Len(sent[c][cmd]), Reach(p)>>
                 ELSE <<Len(sent[c][cmd]) + 1, 0>>
          /\ y \in Nat \X Nat
      <4>1. Reach(p) \in Nat
        BY LenProperties DEF Reach, AnyPacket
      <4>2. "OP_IMCOMPLETE" \in p.type <=> Reach(p) < p.msg.len
        BY <1>2 DEF Cut
      <4> QED BY <3>5, <3>6, <4>1, <4>2 DEF After
    <3>9. Move(sent[c][cmd], RecvMsg(p), c, cmd, at[Len(Line) + 1], y)
      <4>1. RecvMsg(p).packet = p /\ Concerns(RecvMsg(p), c, cmd)
        BY <2>4 DEF RecvMsg, Concerns
      <4> QED BY <3>4, <3>6, <3>7, <4>1 DEF Move
    <3>10. IsSenderAt(cmd, y)'
      <4>1. CASE sender'[t] = Idle /\ Reach(p) = p.msg.len
        <5>1. \A u \in Threads : sender'[u] # Idle => ~(sender'[u].msg.cmd = cmd)
          BY <1>6, <3>3, <4>1 DEF Sending
        <5>2. ~(Reach(p) < p.msg.len)
          BY <4>1, LenProperties DEF Reach, AnyPacket
        <5> QED BY <1>1, <2>4, <3>8, <5>1, <5>2 DEF IsSenderAt, Sending
      <4>2. CASE sender'[t] # Idle /\ sender'[t].msg = p.msg /\ sender'[t].done = Reach(p) /\ Reach(p) < p.msg.len
        <5>1. \A u \in Threads : sender'[u] # Idle /\ sender'[u].msg.cmd = cmd => u = t
          BY <1>6, <3>3 DEF Sending
        <5> QED BY <1>1, <2>4, <3>8, <4>2, <5>1 DEF IsSenderAt, Sending
      <4> QED BY <1>4, <4>1, <4>2
    <3>11. InStep(c, cmd)'
      BY <1>1, <2>2, <3>1, <3>2, <3>8, <3>9, <3>10, StepLonger
    <3> QED BY <2>3, <3>11
  <2>5. CASE ~(c = conn /\ cmd = p.msg.cmd)
    <3>1. ASSUME c = conn', up'
          PROVE  /\ c = conn /\ up
                 /\ \A u \in Threads : /\ Sending(u, cmd)' <=> Sending(u, cmd)
                                       /\ Sending(u, cmd) => sender'[u].done = sender[u].done
      <4>1. ~Sending(t, cmd) /\ ~Sending(t, cmd)'
        BY <1>1, <1>2, <1>6, <2>5, <3>1 DEF Sending
      <4> QED BY <1>1, <1>3, <3>1, <4>1 DEF Sending
    <3>2. CASE base[conn] = 0 /\ Line' # Line
      <4>1. Longer(RecvMsg(p)) /\ ~Concerns(RecvMsg(p), c, cmd)
        BY <1>2, <2>5, <3>2 DEF Concerns, RecvMsg
      <4>2. InStep(c, cmd)'
        BY <1>1, <2>1, <2>2, <3>1, <4>1, StepAside
      <4> QED BY <2>3, <4>2
    <3>3. CASE Line' = Line
      <4>1. PICK at : /\ Along(sent[c][cmd], Line, c, cmd, at)
                      /\ at[1] = Taken(c, cmd)
                      /\ c = conn /\ up => IsSenderAt(cmd, at[Len(Line) + 1])
        BY <2>1 DEF InStep
      <4>2. ASSUME c = conn', up' PROVE IsSenderAt(cmd, at[Len(Line) + 1])'
        BY <1>1, <3>1, <3>3, <4>1, <4>2 DEF IsSenderAt
      <4>3. InStep(c, cmd)'
        BY <1>1, <2>2, <3>3, <4>1, <4>2 DEF InStep
      <4> QED BY <2>3, <4>3
    <3>4. CASE base[conn] # 0
      BY <1>2, <3>3, <3>4
    <3> QED BY <3>2, <3>3, <3>4
  <2> QED BY <2>4, <2>5
<1> QED BY <1>1, <1>5, <1>7, <1>8 DEF PInv, Arrivals

-----------------------------------------------------------------------------
(* The server takes a message                                              *)

LEMMA PiecesJoin ==
  ASSUME NEW m \in Message, NEW k \in Nat, NEW l \in Nat, k <= l
  PROVE  Pieces(m, 1, k) \o Pieces(m, k + 1, l) = Pieces(m, 1, l)
<1> DEFINE a == Pieces(m, 1, k)
           b == Pieces(m, k + 1, l)
           c == Pieces(m, 1, l)
<1>1. /\ a \in Seq(Byte) /\ Len(a) = k /\ b \in Seq(Byte) /\ Len(b) = l - k
      /\ c \in Seq(Byte) /\ Len(c) = l
  <2>1. k <= l /\ 1 <= k + 1 /\ k + 1 <= l + 1 /\ 1 <= l + 1 /\ k + 1 \in Nat
    OBVIOUS
  <2>2. a \in Seq(Byte) /\ Len(a) = k - 1 + 1
    BY <2>1, PiecesType
  <2>3. b \in Seq(Byte) /\ Len(b) = l - (k + 1) + 1
    BY <2>1, PiecesType
  <2>4. c \in Seq(Byte) /\ Len(c) = l - 1 + 1
    BY <2>1, PiecesType
  <2> HIDE DEF a, b, c
  <2> QED BY <2>2, <2>3, <2>4
<1>2. /\ \A j \in 1 .. k : a[j] = <<m.id, j>>
      /\ \A j \in 1 .. l - k : b[j] = <<m.id, k + j>>
      /\ \A j \in 1 .. l : c[j] = <<m.id, j>>
  <2>1. ASSUME NEW j \in 1 .. k PROVE a[j] = <<m.id, j>>
    <3>1. j \in 1 .. k - 1 + 1 /\ 1 + j - 1 = j
      OBVIOUS
    <3>2. a[j] = <<m.id, 1 + j - 1>>
      BY <3>1 DEF Pieces
    <3> QED BY <3>1, <3>2
  <2>2. ASSUME NEW j \in 1 .. l - k PROVE b[j] = <<m.id, k + j>>
    <3>1. j \in 1 .. l - (k + 1) + 1 /\ (k + 1) + j - 1 = k + j
      OBVIOUS
    <3>2. b[j] = <<m.id, (k + 1) + j - 1>>
      BY <3>1 DEF Pieces
    <3> QED BY <3>1, <3>2
  <2>3. ASSUME NEW j \in 1 .. l PROVE c[j] = <<m.id, j>>
    <3>1. j \in 1 .. l - 1 + 1 /\ 1 + j - 1 = j
      OBVIOUS
    <3>2. c[j] = <<m.id, 1 + j - 1>>
      BY <3>1 DEF Pieces
    <3> QED BY <3>1, <3>2
  <2> HIDE DEF a, b, c
  <2> QED BY <2>1, <2>2, <2>3
<1> HIDE DEF a, b, c
<1>3. /\ a \o b \in Seq(Byte) /\ Len(a \o b) = l
      /\ \A j \in 1 .. l : (a \o b)[j] = IF j <= k THEN a[j] ELSE b[j - k]
  <2>1. /\ a \o b \in Seq(Byte) /\ Len(a \o b) = Len(a) + Len(b)
        /\ \A j \in 1 .. Len(a) + Len(b) : (a \o b)[j] = IF j <= Len(a) THEN a[j] ELSE b[j - Len(a)]
    BY <1>1, ConcatProperties
  <2>2. k + (l - k) = l
    OBVIOUS
  <2> QED BY <1>1, <2>1, <2>2
<1>4. \A j \in 1 .. l : (a \o b)[j] = c[j]
  <2>1. ASSUME NEW j \in 1 .. l PROVE (a \o b)[j] = c[j]
    <3>1. CASE j <= k
      <4>1. j \in 1 .. k
        BY <3>1
      <4> QED BY <1>2, <1>3, <3>1, <4>1
    <3>2. CASE ~(j <= k)
      <4>1. j - k \in 1 .. l - k /\ k + (j - k) = j
        BY <3>2
      <4>2. b[j - k] = <<m.id, k + (j - k)>>
        BY <1>2, <4>1
      <4> QED BY <1>2, <1>3, <3>2, <4>1, <4>2
    <3> QED BY <3>1, <3>2
  <2> QED BY <2>1
<1>5. a \o b = c
  BY <1>1, <1>3, <1>4, SeqEqual
<1> QED BY <1>5 DEF a, b, c

\* What GroupPackage puts by, or delivers.
Data(p) ==
  IF p.msg.cmd \in DOMAIN client.group THEN client.group[p.msg.cmd] \o p.data ELSE p.data

LEMMA Grouped ==
  ASSUME TypeOK, Life, client # NoClient, NEW p \in AnyPacket, GroupPackage(p)
  PROVE  /\ client'.conn = client.conn
         /\ \A d \in Cmds : d # p.msg.cmd =>
              /\ d \in DOMAIN client'.group <=> d \in DOMAIN client.group
              /\ d \in DOMAIN client.group => client'.group[d] = client.group[d]
         /\ IF "OP_IMCOMPLETE" \in p.type
            THEN /\ delivered' = delivered /\ p.msg.cmd \in DOMAIN client'.group
                 /\ client'.group[p.msg.cmd] = Data(p)
            ELSE /\ p.msg.cmd \notin DOMAIN client'.group
                 /\ delivered'[client.conn][p.msg.cmd] =
                      Append(delivered[client.conn][p.msg.cmd], Data(p))
                 /\ \A c \in Conns, d \in Cmds : c # client.conn \/ d # p.msg.cmd =>
                      delivered'[c][d] = delivered[c][d]
<1> DEFINE cmd == p.msg.cmd
           group == client.group
<1>1. cmd \in Cmds /\ client.conn \in Conns
  <2>1. p.msg \in Message
    BY DEF AnyPacket
  <2>2. client.conn \in Conns
    BY PacketAssumption, SMTT(30) DEF TypeOK, Life, Conns
  <2> QED BY <2>1, <2>2 DEF Message
<1>2. /\ client = [conn |-> client.conn, group |-> [c \in DOMAIN group |-> group[c]]]
      /\ delivered \in [Conns -> [Cmds -> Seq(Seq(Byte))]]
  BY DEF TypeOK, Byte
<1>3. client'.conn = client.conn
  BY GroupTypes
<1>4. CASE "OP_IMCOMPLETE" \in p.type
  <2> DEFINE new == [c \in DOMAIN group \cup {cmd} |-> IF c = cmd THEN Data(p) ELSE group[c]]
  <2>1. client' = [client EXCEPT !.group = new] /\ delivered' = delivered
    BY <1>4 DEF GroupPackage, Data
  <2>2. client'.group = new
    BY <1>2, <2>1
  <2> QED BY <1>3, <1>4, <2>1, <2>2
<1>5. CASE "OP_IMCOMPLETE" \notin p.type
  <2> DEFINE new == [c \in DOMAIN group \ {cmd} |-> group[c]]
  <2>1. client' = [client EXCEPT !.group = new] /\ delivered' = [delivered EXCEPT ![client.conn][cmd] = Append(@, Data(p))]
    BY <1>5 DEF GroupPackage, Data
  <2>2. client'.group = new
    BY <1>2, <2>1
  <2>3. /\ delivered'[client.conn][cmd] = Append(delivered[client.conn][cmd], Data(p))
        /\ \A c \in Conns, d \in Cmds : c # client.conn \/ d # cmd => delivered'[c][d] = delivered[c][d]
    <3> HIDE DEF cmd
    <3> QED BY <1>1, <1>2, <2>1
  <2> QED BY <1>3, <1>5, <2>2, <2>3
<1> QED BY <1>4, <1>5

\* The other commands, and connections, are as they were.
LEMMA GroupAside ==
  ASSUME TypeOK, Life, client # NoClient, NEW p \in AnyPacket, GroupPackage(p), sent' = sent,
         NEW c \in Conns, NEW cmd \in Cmds, c # client.conn \/ cmd # p.msg.cmd
  PROVE  /\ delivered'[c][cmd] = delivered[c][cmd] /\ Taken(c, cmd)' = Taken(c, cmd)
         /\ Content(c, cmd) => Content(c, cmd)'
<1>1. /\ client'.conn = client.conn
      /\ cmd # p.msg.cmd =>
           /\ cmd \in DOMAIN client'.group <=> cmd \in DOMAIN client.group
           /\ cmd \in DOMAIN client.group => client'.group[cmd] = client.group[cmd]
      /\ delivered'[c][cmd] = delivered[c][cmd]
  BY Grouped
<1>2. client.conn = c => cmd # p.msg.cmd
  OBVIOUS
<1>3. Taken(c, cmd)' = Taken(c, cmd)
  BY <1>1, <1>2 DEF Taken
<1>4. Content(c, cmd) => Content(c, cmd)'
  BY <1>1, <1>2 DEF Content
<1> QED BY <1>1, <1>3, <1>4

\* A packet that goes on where the server is brings the next part of the message.
LEMMA GroupGoesOn ==
  ASSUME TypeOK, TypeOK', Life, client # NoClient, NEW p \in AnyPacket, Cut(p), GroupPackage(p),
         sent' = sent, NEW c \in Conns, NEW cmd \in Cmds, c = client.conn, cmd = p.msg.cmd,
         Fits(sent[c][cmd], p, Taken(c, cmd)), Content(c, cmd)
  PROVE  Taken(c, cmd)' = After(p, Taken(c, cmd)) /\ Content(c, cmd)'
<1> DEFINE S == sent[c][cmd]
           D == delivered[c][cmd]
           l == IF cmd \in DOMAIN client.group THEN Len(client.group[cmd]) ELSE 0
<1>1. /\ S \in Seq(Message) /\ Len(S) \in Nat /\ D \in Seq(Seq(Byte)) /\ Len(D) \in Nat
      /\ p.msg \in Message /\ p.done \in Nat /\ p.msg.len \in Nat /\ Len(p.data) \in Nat
  BY TakenType, LenProperties DEF AnyPacket, Message
<1>2. Len(D) + 1 \in 1 .. Len(S) /\ S[Len(D) + 1] = p.msg /\ l = p.done
  BY DEF Fits, Taken
<1>3. /\ Reach(p) \in Nat /\ p.done <= Reach(p) /\ Reach(p) <= p.msg.len
      /\ p.data = Pieces(p.msg, p.done + 1, Reach(p))
      /\ "OP_IMCOMPLETE" \in p.type <=> Reach(p) < p.msg.len
  BY <1>1 DEF Cut, Reach
<1>4. Data(p) = Pieces(p.msg, 1, Reach(p))
  <2>1. CASE cmd \in DOMAIN client.group
    <3>1. client.group[cmd] = Pieces(p.msg, 1, p.done)
      BY <1>2, <2>1 DEF Content
    <3>2. Pieces(p.msg, 1, p.done) \o Pieces(p.msg, p.done + 1, Reach(p)) = Pieces(p.msg, 1, Reach(p))
      BY <1>1, <1>3, PiecesJoin
    <3>3. Data(p) = client.group[cmd] \o p.data
      BY <2>1 DEF Data
    <3> QED BY <1>3, <3>1, <3>2, <3>3
  <2>2. CASE cmd \notin DOMAIN client.group
    <3>1. p.done + 1 = 1
      BY <1>2, <2>2
    <3> QED BY <1>3, <2>2, <3>1 DEF Data
  <2> QED BY <2>1, <2>2
<1>5. Data(p) \in Seq(Byte) /\ Len(Data(p)) = Reach(p)
  <2>1. 1 <= Reach(p) + 1 /\ Reach(p) - 1 + 1 = Reach(p)
    BY <1>3
  <2>2. 1 \in Nat /\ Reach(p) \in Nat /\ p.msg \in Message
    BY <1>1, <1>3
  <2>3. /\ Pieces(p.msg, 1, Reach(p)) \in Seq(Byte)
        /\ Len(Pieces(p.msg, 1, Reach(p))) = Reach(p) - 1 + 1
    BY <2>1, <2>2, PiecesType
  <2> QED BY <1>4, <2>1, <2>3
<1>6. /\ client'.conn = c
      /\ IF "OP_IMCOMPLETE" \in p.type
         THEN delivered' = delivered /\ cmd \in DOMAIN client'.group /\ client'.group[cmd] = Data(p)
         ELSE cmd \notin DOMAIN client'.group /\ delivered'[c][cmd] = Append(D, Data(p))
  BY Grouped
<1>7. \A k \in 1 .. Len(D) : k <= Len(S) /\ D[k] = Encoded(S[k])
  BY DEF Content
<1>8. CASE "OP_IMCOMPLETE" \in p.type
  <2>1. Taken(c, cmd)' = <<Len(D) + 1, Reach(p)>>
    BY <1>5, <1>6, <1>8 DEF Taken
  <2>2. After(p, Taken(c, cmd)) = <<Len(D) + 1, Reach(p)>>
    BY <1>8 DEF After, Taken
  <2>3. Content(c, cmd)'
    <3>1. delivered'[c][cmd] = D /\ sent'[c][cmd] = S
      BY <1>6, <1>8
    <3>2. \A k \in 1 .. Len(delivered'[c][cmd]) :
            k <= Len(sent'[c][cmd]) /\ delivered'[c][cmd][k] = Encoded(sent'[c][cmd][k])
      BY <1>7, <3>1
    <3>3. /\ Len(delivered'[c][cmd]) + 1 <= Len(sent'[c][cmd])
          /\ sent'[c][cmd][Len(delivered'[c][cmd]) + 1] = p.msg
      BY <1>2, <3>1
    <3>4. client'.group[cmd] = Pieces(p.msg, 1, Len(client'.group[cmd]))
      BY <1>4, <1>5, <1>6, <1>8
    <3> QED BY <3>2, <3>3, <3>4 DEF Content
  <2> QED BY <2>1, <2>2, <2>3
<1>9. CASE "OP_IMCOMPLETE" \notin p.type
  <2>1. Reach(p) = p.msg.len
    BY <1>1, <1>3, <1>9
  <2>2. Data(p) = Encoded(S[Len(D) + 1])
    BY <1>2, <1>4, <2>1 DEF Encoded
  <2>3. /\ Len(delivered'[c][cmd]) = Len(D) + 1 /\ delivered'[c][cmd][Len(D) + 1] = Data(p)
        /\ \A k \in 1 .. Len(D) : delivered'[c][cmd][k] = D[k]
    <3>1. PICK L, x : L = D /\ x = Data(p)
      OBVIOUS
    <3>2. L \in Seq(Seq(Byte)) /\ x \in Seq(Byte) /\ Len(L) \in Nat
      BY <1>1, <1>5, <3>1
    <3>3. /\ Len(Append(L, x)) = Len(L) + 1 /\ Append(L, x)[Len(L) + 1] = x
          /\ \A k \in 1 .. Len(L) : Append(L, x)[k] = L[k]
      BY <3>2, AppendProperties
    <3> QED BY <1>6, <1>9, <3>1, <3>3
  <2>4. Taken(c, cmd)' = <<Len(D) + 2, 0>>
    <3>1. (Len(D) + 1) + 1 = Len(D) + 2
      BY <1>1
    <3> QED BY <1>6, <1>9, <2>3, <3>1 DEF Taken
  <2>5. After(p, Taken(c, cmd)) = <<Len(D) + 2, 0>>
    <3>1. (Len(D) + 1) + 1 = Len(D) + 2
      BY <1>1
    <3> QED BY <1>9, <3>1 DEF After, Taken
  <2>6. ASSUME NEW k \in 1 .. Len(delivered'[c][cmd])
        PROVE  k <= Len(S) /\ delivered'[c][cmd][k] = Encoded(S[k])
    <3>1. CASE k = Len(D) + 1
      <4>1. k <= Len(S)
        BY <1>2, <3>1
      <4> QED BY <2>2, <2>3, <3>1, <4>1
    <3>2. CASE k # Len(D) + 1
      <4>1. k \in 1 .. Len(D)
        BY <1>1, <2>3, <3>2
      <4> QED BY <1>7, <2>3, <4>1
    <3> QED BY <3>1, <3>2
  <2>7. Content(c, cmd)'
    BY <1>6, <1>9, <2>6 DEF Content
  <2> QED BY <2>4, <2>5, <2>7
<1> QED BY <1>8, <1>9

\* The line without its head.
LEMMA StepTaken ==
  ASSUME NEW c \in Conns, NEW cmd \in Cmds, Basics, Basics',
         UNCHANGED <<conn, up, sender, sent>>,
         Len(Line) \in Nat \ {0}, Len(Line') = Len(Line) - 1,
         \A j \in 1 .. Len(Line') : Line'[j] = Line[j + 1],
         NEW at, Along(sent[c][cmd], Line, c, cmd, at),
         c = conn /\ up => IsSenderAt(cmd, at[Len(Line) + 1]),
         Taken(c, cmd)' = at[2]
  PROVE  InStep(c, cmd)'
<1>1. Line \in Seq(IoMsg) /\ Line' \in Seq(IoMsg)
  BY LineType, LineTypeNext DEF Basics, LineIs
<1>2. PICK S, L, M : S = sent[c][cmd] /\ L = Line /\ M = Line'
  OBVIOUS
<1>3. /\ L \in Seq(IoMsg) /\ M \in Seq(IoMsg) /\ Len(L) \in Nat \ {0} /\ Len(M) = Len(L) - 1
      /\ Along(S, L, c, cmd, at)
  BY <1>1, <1>2
<1>4. IsTail(M, L)
  BY <1>2 DEF IsTail
<1>5. Along(S, M, c, cmd, Shifted(L, at))
  BY <1>3, <1>4, AlongTail
<1>6. PICK bt : /\ Along(sent'[c][cmd], Line', c, cmd, bt) /\ bt[1] = Taken(c, cmd)'
                /\ bt[Len(Line') + 1] = at[Len(Line) + 1]
  <2>1. 1 \in 1 .. Len(L) /\ Len(L) \in 1 .. Len(L) /\ Len(M) + 1 = Len(L)
    BY <1>3
  <2>2. Shifted(L, at)[1] = at[1 + 1] /\ Shifted(L, at)[Len(L)] = at[Len(L) + 1]
    BY <2>1 DEF Shifted
  <2> QED BY <1>2, <1>5, <2>1, <2>2
<1>7. ASSUME c = conn', up' PROVE IsSenderAt(cmd, bt[Len(Line) + 1])'
  BY <1>6, <1>7 DEF IsSenderAt, Sending
<1> QED BY <1>6, <1>7 DEF InStep

\* A client is told that its connection is over after all that came on it.
LEMMA NothingAfter ==
  ASSUME Basics, m_MsgQueue # <<>>, Head(m_MsgQueue).type = "IO_ON_DISCONN"
  PROVE  /\ \A j \in 2 .. Len(Line), cmd \in Cmds : ~Concerns(Line[j], client.conn, cmd)
         /\ client.conn = conn => ~up
<1>1. TypeOK /\ InOrder /\ Life /\ LineIs
  BY LineType DEF Basics
<1> DEFINE m == Head(m_MsgQueue)
           n == Len(m_MsgQueue)
<1>2. /\ m \in IoMsg /\ m = m_MsgQueue[1] /\ m.conn = client.conn /\ m.conn \in 1 .. conn
      /\ m.type = "IO_ON_DISCONN" /\ conn \in Nat
  BY <1>1, NextTurn, ConnType
<1>3. PICK o : /\ Turns(m_MsgQueue, o)
               /\ phase # "lost" =>
                    o[n + 1] = <<conn, IF phase = "accept" THEN 0 ELSE conn>>
  BY <1>1 DEF InOrder
<1>4. n \in Nat \ {0}
  BY <1>1, EmptySeq DEF TypeOK
<1>5. /\ o \in [1 .. n + 1 -> Nat \X Nat]
      /\ \A j \in 1 .. n : Turn(m_MsgQueue[j], o[j], o[j + 1])
      /\ \A i, j \in 1 .. n + 1 : i <= j => Later(o[i], o[j])
  BY <1>3 DEF Turns
<1> HIDE DEF m, n
<1>6. o[2] = <<m.conn, 0>>
  <2>1. Turn(m_MsgQueue[1], o[1], o[1 + 1])
    BY <1>4, <1>5
  <2>2. Turn(m, o[1], o[2])
    BY <1>2, <2>1
  <2> QED BY <1>2, <2>2 DEF Turn
<1>7. ASSUME NEW j \in 2 .. n + 1 PROVE ~(o[j] = <<m.conn, m.conn>>)
  <2>1. Later(o[2], o[j])
    BY <1>4, <1>5
  <2>2. m.conn # 0
    BY <1>2
  <2> QED BY <1>6, <2>1, <2>2 DEF Later
<1>8. ~(phase \notin {"accept", "lost"} /\ conn = m.conn)
  BY <1>3, <1>4, <1>7
<1>9. ASSUME NEW j \in 2 .. Len(Line), NEW cmd \in Cmds, Concerns(Line[j], m.conn, cmd) PROVE FALSE
  <2>1. Line[j].type = "IO_ON_RECV" /\ Line[j].conn = m.conn
    BY <1>9 DEF Concerns
  <2>2. CASE j \in 1 .. n
    <3>1. Line[j] = m_MsgQueue[j]
      BY <1>1, <2>2 DEF LineIs, n
    <3>2. Turn(m_MsgQueue[j], o[j], o[j + 1])
      BY <1>5, <2>2
    <3>3. o[j] = <<m.conn, m.conn>>
      BY <2>1, <3>1, <3>2 DEF Turn
    <3> QED BY <1>4, <1>7, <2>2, <3>3
  <2>3. CASE j \notin 1 .. n
    <3> DEFINE i == j - n
    <3>1. i \in 1 .. Pending /\ j = n + i /\ Pending # 0
      BY <1>1, <1>4, <2>3 DEF LineIs, n
    <3> HIDE DEF i
    <3>2. Line[n + i] = [type |-> "IO_ON_RECV", packet |-> packets[First + i - 1], conn |-> conn]
      BY <1>1, <3>1 DEF LineIs, n
    <3>3. conn = m.conn
      BY <2>1, <3>1, <3>2
    <3>4. phase \notin {"accept", "lost"}
      BY <3>1 DEF Pending, Receiving
    <3> QED BY <1>8, <3>3, <3>4
  <2> QED BY <2>2, <2>3
<1>10. client.conn = conn => ~up
  BY <1>1, <1>2, <1>8 DEF Life
<1> QED BY <1>2, <1>9, <1>10

\* What is told of a connection without a left-over count is a packet.
LEMMA HeadIsCut ==
  ASSUME Basics, m_MsgQueue # <<>>, Head(m_MsgQueue).type = "IO_ON_RECV", base[client.conn] = 0
  PROVE  Cut(Head(m_MsgQueue).packet) /\ Head(m_MsgQueue).packet # Misframed
<1>1. TypeOK /\ InOrder /\ Life /\ NoneAstray
  BY DEF Basics
<1>2. /\ Head(m_MsgQueue) = m_MsgQueue[1] /\ Head(m_MsgQueue).conn = client.conn
  BY <1>1, NextTurn
<1>3. 1 \in 1 .. Len(m_MsgQueue)
  BY <1>1, EmptySeq DEF TypeOK
<1>4. Cut(Head(m_MsgQueue).packet)
  BY <1>1, <1>2, <1>3 DEF NoneAstray
<1>5. Misframed.msg.id = 0
  BY DEF Misframed, Packet, Idle
<1> QED BY <1>4, <1>5 DEF Cut

LEMMA ProcessInv == ASSUME PInv, ProcessIoMsg PROVE PInv'
<1> DEFINE m == Head(m_MsgQueue)
<1>1. /\ Basics /\ Basics' /\ TypeOK /\ TypeOK' /\ Life
      /\ UNCHANGED <<conn, up, sender, sent, base, mixed, refused>>
      /\ m_MsgQueue # <<>> /\ m = Line[1]
      /\ Len(Line) \in Nat \ {0} /\ Len(Line') = Len(Line) - 1
  BY ProcessBasics DEF PInv, Basics
<1>2. \A j \in 1 .. Len(Line') : Line'[j] = Line[j + 1]
  BY ProcessBasics DEF PInv
<1>3. /\ m \in IoMsg /\ m.packet \in AnyPacket /\ m.conn \in 1 .. conn
      /\ m.type = "IO_ON_ACCEPT" => client = NoClient
      /\ m.type # "IO_ON_ACCEPT" => client # NoClient /\ client.conn = m.conn
  BY <1>1, NextTurn DEF Basics, IoMsg
<1>4. ProcessAccept(m) \/ ProcessDisconn(m) \/ ProcessRecv(m)
  BY DEF ProcessIoMsg
<1>5. conn \in Nat /\ MSG_KEEP_ALIVE \in Cmds
  BY <1>1, ConnType, PacketAssumption
<1>6. Alone'
  BY <1>1, AloneStays DEF PInv
<1>7. m.type = "IO_ON_RECV" /\ base[client.conn] = 0 => Cut(m.packet) /\ m.packet # Misframed
  BY <1>1, HeadIsCut
<1>8. m.type = "IO_ON_DISCONN" =>
        /\ \A j \in 2 .. Len(Line), cmd \in Cmds : ~Concerns(Line[j], client.conn, cmd)
        /\ client.conn = conn => ~up
  BY <1>1, NothingAfter
<1> HIDE DEF m
\* What is delivered, and where the server is then.
<1>9. ASSUME NEW c \in Conns, NEW cmd \in Cmds, c > conn \/ cmd = MSG_KEEP_ALIVE,
             c <= conn => base[c] = 0
      PROVE  delivered'[c][cmd] = delivered[c][cmd]
  <2>1. CASE UNCHANGED delivered
    BY <2>1
  <2>2. CASE /\ client # NoClient /\ m.type = "IO_ON_RECV" /\ m.packet = Misframed
             /\ delivered' = [delivered EXCEPT ![client.conn][MSG_KEEP_ALIVE] = Append(@, <<>>)]
    <3>1. client.conn # c
      BY <1>1, <1>3, <1>5, <1>7, <1>9, <2>2 DEF Conns
    <3> QED BY <1>1, <2>2, <3>1 DEF TypeOK
  <2>3. CASE /\ client # NoClient /\ m.type = "IO_ON_RECV" /\ m.packet.msg.cmd # MSG_KEEP_ALIVE
             /\ GroupPackage(m.packet)
    <3>1. client.conn # c \/ cmd # m.packet.msg.cmd
      BY <1>3, <1>5, <1>9, <2>3 DEF Conns
    <3> QED BY <1>1, <1>3, <2>3, <3>1, GroupAside
  <2> QED BY <1>4, <2>1, <2>2, <2>3 DEF ProcessAccept, ProcessDisconn, ProcessRecv
<1>10. Fresh'
  <2>1. ASSUME NEW c \in Conns, c > conn, NEW cmd \in Cmds
        PROVE  sent'[c][cmd] = <<>> /\ delivered'[c][cmd] = <<>>
    <3>1. delivered'[c][cmd] = delivered[c][cmd]
      BY <1>5, <1>9, <2>1 DEF Conns
    <3> QED BY <1>1, <2>1, <3>1 DEF PInv, Fresh
  <2> QED BY <1>1, <2>1 DEF Fresh
<1>11. NoKeepAlive'
  BY <1>1, <1>5, <1>9 DEF PInv, NoKeepAlive
<1>12. ASSUME NEW c \in Conns, NEW cmd \in Cmds, Orderly(c, cmd)'
       PROVE  InStep(c, cmd)' /\ Content(c, cmd)'
  <2>1. Orderly(c, cmd) /\ InStep(c, cmd) /\ Content(c, cmd)
    BY <1>1, <1>12 DEF PInv, Arrivals, Orderly, Unbroken
  <2>2. PICK at : /\ Along(sent[c][cmd], Line, c, cmd, at)
                  /\ at[1] = Taken(c, cmd)
                  /\ c = conn /\ up => IsSenderAt(cmd, at[Len(Line) + 1])
    BY <2>1 DEF InStep
  <2>3. Move(sent[c][cmd], m, c, cmd, Taken(c, cmd), at[2])
    <3>1. 1 \in 1 .. Len(Line) /\ 1 + 1 = 2
      BY <1>1
    <3>2. Move(sent[c][cmd], Line[1], c, cmd, at[1], at[1 + 1])
      BY <2>2, <3>1 DEF Along
    <3> QED BY <1>1, <2>2, <3>1, <3>2
  <2>4. Taken(c, cmd)' = at[2] => InStep(c, cmd)'
    BY <1>1, <1>2, <2>2, StepTaken
  <2>5. CASE UNCHANGED <<client, delivered>> /\ ~Concerns(m, c, cmd)
    <3>1. Taken(c, cmd)' = at[2]
      BY <2>3, <2>5 DEF Taken, Move
    <3> QED BY <1>1, <2>1, <2>4, <2>5, <3>1, ContentStays
  <2>6. CASE ProcessAccept(m)
    <3>1. /\ client = NoClient /\ client'.group = NoClient.group /\ UNCHANGED delivered
          /\ ~Concerns(m, c, cmd)
      BY <1>3, <2>6 DEF ProcessAccept, Concerns, NoClient
    <3>2. Taken(c, cmd)' = Taken(c, cmd)
      BY <3>1, NoClientType DEF Taken
    <3>3. Taken(c, cmd)' = at[2]
      BY <2>3, <3>1, <3>2 DEF Move
    <3>4. Content(c, cmd)'
      BY <1>1, <2>1, <3>1, NoClientType DEF Content
    <3> QED BY <2>4, <3>3, <3>4
  <2>7. CASE ProcessDisconn(m)
    <3>1. m.type = "IO_ON_DISCONN" /\ client' = NoClient /\ UNCHANGED delivered /\ ~Concerns(m, c, cmd)
      BY <2>7 DEF ProcessDisconn, Concerns
    <3>2. Content(c, cmd)'
      BY <1>1, <2>1, <3>1, ContentStays
    <3>3. CASE client.conn # c
      <4>1. Taken(c, cmd)' = Taken(c, cmd)
        BY <3>1, <3>3, NoClientType DEF Taken
      <4>2. Taken(c, cmd)' = at[2]
        BY <2>3, <3>1, <4>1 DEF Move
      <4> QED BY <2>4, <3>2, <4>2
    <3>4. CASE client.conn = c
      <4>1. ASSUME NEW j \in 1 .. Len(Line') PROVE ~Concerns(Line'[j], c, cmd)
        <5>1. j + 1 \in 2 .. Len(Line) /\ Line'[j] = Line[j + 1]
          BY <1>1, <1>2
        <5> QED BY <1>8, <3>1, <3>4, <5>1
      <4>2. PICK S, L, x : S = sent'[c][cmd] /\ L = Line' /\ x = Taken(c, cmd)'
        OBVIOUS
      <4>3. L \in Seq(IoMsg) /\ x \in Nat \X Nat
        BY <1>1, <4>2, LineTypeNext, TakenNext DEF Basics, LineIs
      <4>4. \A j \in 1 .. Len(L) : ~Concerns(L[j], c, cmd)
        BY <4>1, <4>2
      <4>5. Along(S, L, c, cmd, Still(L, x)) /\ Still(L, x)[1] = x
        BY <4>3, <4>4, AlongNone
      <4>6. PICK bt : Along(sent'[c][cmd], Line', c, cmd, bt) /\ bt[1] = Taken(c, cmd)'
        BY <4>2, <4>5
      <4>7. ~(c = conn' /\ up')
        BY <1>1, <1>8, <3>1, <3>4
      <4>8. InStep(c, cmd)'
        BY <4>6, <4>7 DEF InStep
      <4> QED BY <3>2, <4>8
    <3> QED BY <3>3, <3>4
  <2>8. CASE ProcessRecv(m) /\ client.conn = c
    <3>1. m.type = "IO_ON_RECV" /\ m.conn = c /\ client # NoClient /\ Cut(m.packet) /\ m.packet # Misframed
      <4>1. m.type = "IO_ON_RECV"
        BY <2>8 DEF ProcessRecv
      <4> QED BY <1>3, <1>7, <2>1, <2>8, <4>1 DEF Orderly, Unbroken
    <3>2. CASE m.packet.msg.cmd = MSG_KEEP_ALIVE
      <4>1. UNCHANGED <<client, delivered>>
        BY <2>8, <3>1, <3>2 DEF ProcessRecv
      <4>2. ~Concerns(m, c, cmd)
        BY <2>1, <3>2 DEF Concerns, Orderly, Unbroken
      <4> QED BY <2>5, <4>1, <4>2
    <3>3. CASE m.packet.msg.cmd # MSG_KEEP_ALIVE
      <4>1. GroupPackage(m.packet)
        BY <2>8, <3>1, <3>3 DEF ProcessRecv
      <4>2. CASE cmd = m.packet.msg.cmd
        <5>1. Concerns(m, c, cmd)
          BY <3>1, <4>2 DEF Concerns
        <5>2. Fits(sent[c][cmd], m.packet, Taken(c, cmd)) /\ at[2] = After(m.packet, Taken(c, cmd))
          BY <2>3, <5>1 DEF Move
        <5>3. Taken(c, cmd)' = After(m.packet, Taken(c, cmd)) /\ Content(c, cmd)'
          BY <1>1, <1>3, <2>1, <2>8, <3>1, <4>1, <4>2, <5>2, GroupGoesOn
        <5> QED BY <2>4, <5>2, <5>3
      <4>3. CASE cmd # m.packet.msg.cmd
        <5>1. Taken(c, cmd)' = Taken(c, cmd) /\ Content(c, cmd)'
          BY <1>1, <1>3, <2>1, <3>1, <4>1, <4>3, GroupAside
        <5>2. Taken(c, cmd)' = at[2]
          BY <2>3, <4>3, <5>1 DEF Move, Concerns
        <5> QED BY <2>4, <5>1, <5>2
      <4> QED BY <4>2, <4>3
    <3> QED BY <3>2, <3>3
  <2>9. CASE ProcessRecv(m) /\ client.conn # c
    <3>1. m.type = "IO_ON_RECV" /\ client # NoClient /\ m.conn = client.conn /\ ~Concerns(m, c, cmd)
      BY <1>3, <2>9 DEF ProcessRecv, Concerns
    <3>2. CASE UNCHANGED <<client, delivered>>
      BY <2>5, <3>1, <3>2
    <3>3. CASE /\ delivered' = [delivered EXCEPT ![client.conn][MSG_KEEP_ALIVE] = Append(@, <<>>)]
               /\ UNCHANGED client
      <4>1. delivered'[c][cmd] = delivered[c][cmd]
        BY <1>1, <2>9, <3>3 DEF TypeOK
      <4>2. Taken(c, cmd)' = at[2]
        BY <2>3, <3>1, <3>3, <4>1 DEF Taken, Move
      <4>3. Content(c, cmd)'
        BY <1>1, <2>1, <3>3, <4>1 DEF Content
      <4> QED BY <2>4, <4>2, <4>3
    <3>4. CASE GroupPackage(m.packet)
      <4>1. Taken(c, cmd)' = Taken(c, cmd) /\ Content(c, cmd)'
        BY <1>1, <1>3, <2>1, <2>9, <3>1, <3>4, GroupAside
      <4>2. Taken(c, cmd)' = at[2]
        BY <2>3, <3>1, <4>1 DEF Move
      <4> QED BY <2>4, <4>1, <4>2
    <3> QED BY <2>9, <3>1, <3>2, <3>3, <3>4 DEF ProcessRecv
  <2> QED BY <1>4, <2>6, <2>7, <2>8, <2>9
<1> QED BY <1>1, <1>6, <1>10, <1>11, <1>12 DEF PInv, Arrivals

-----------------------------------------------------------------------------
(* Every step                                                              *)

LEMMA NextInv == PInv /\ [Next]_vars => PInv'
<1> SUFFICES ASSUME PInv, [Next]_vars PROVE PInv'
  OBVIOUS
<1>1. ASSUME NEW t \in Threads, NEW message \in Messages, Begin(t, message) PROVE PInv'
  BY <1>1, BeginInv
<1>2. ASSUME NEW t \in Threads, Send(t) PROVE PInv'
  BY <1>2, SendInv
<1>3. CASE Close \/ Reset \/ OnPreRecv \/ OnRecv \/ OnPacket \/ OnRest \/ OnRecvClosed
  BY <1>3, DriverInv
<1>4. CASE IdleTimeout
  BY <1>4, IdleInv
<1>5. CASE OnAccept
  BY <1>5, AcceptInv
<1>6. CASE OnRecvAstray
  BY <1>6, AstrayInv
<1>7. CASE OnDisconn
  BY <1>7, DisconnInv
<1>8. CASE ProcessIoMsg
  BY <1>8, ProcessInv
<1>9. CASE UNCHANGED vars
  BY <1>9, StutterInv
<1> QED BY <1>1, <1>2, <1>3, <1>4, <1>5, <1>6, <1>7, <1>8, <1>9 DEF Next, DealIo

\* The inductive invariant: framing, the turns of the queue, and the places
\* along the line from the server to the senders.
THEOREM AlwaysPInv == Spec => []PInv
BY InitInv, NextInv, PTL DEF Spec

\* Each state is one the program can be in: for every number of threads,
\* connections and messages, and every length of a packet.
THEOREM TypeCorrect == Spec => []TypeOK
<1>1. PInv => TypeOK
  BY DEF PInv, Basics
<1> QED BY <1>1, AlwaysPInv, PTL

\* When OnRecv waits for more, m_nCurFlag counts what it has kept of the packet
\* before, which is no whole packet; those bytes and the ones TCP still holds
\* are those of the packets sent, one after the other, from the start of one.
THEOREM StreamKept == Spec => []StreamIsKept
<1>1. PInv => StreamIsKept
  <2> SUFFICES ASSUME PInv, phase = "recv", base[conn] = 0
               PROVE  m_nCurFlag = Len(buffer) /\ Len(buffer) < PACKET_MAX /\ AreFramed(buffer \o stream)
    BY DEF StreamIsKept
  <2>1. TypeOK /\ Life /\ Framing
    BY DEF PInv, Basics
  <2>2. Receiving
    BY <2>1 DEF Receiving, Life
  <2>3. /\ m_nCurFlag = Len(buffer) /\ Len(buffer) < PACKET_MAX
        /\ IsFramed(packets, buffer \o stream)
    BY <2>1, <2>2 DEF Framing
  <2> DEFINE b == buffer \o stream
  <2>4. b \in Seq(Byte) /\ Len(b) \in Nat /\ packets \in Seq(AnyPacket)
    BY <2>1, BytesType, LenProperties DEF BytesAre, TypeOK
  <2> HIDE DEF b
  <2>5. IsFramed(packets, b)
    BY <2>3 DEF b
  <2>6. ASSUME NEW k \in 1 .. Len(b) - 1 PROVE b[k + 1] = Following(b[k])
    <3>1. k \in 1 .. Len(b) /\ k + 1 <= Len(b) /\ k < Len(b)
      BY <2>4
    <3>2. /\ b[k][2] \in Nat /\ usMsgLen(packets[b[k][1]]) \in Nat
          /\ b[k][2] <= usMsgLen(packets[b[k][1]])
      <4>1. b[k][2] \in Nat /\ usMsgLen(packets[b[k][1]]) \in Nat
        BY <2>4, <2>5, <3>1, FramedTypes
      <4>2. b[k][2] \in 1 .. usMsgLen(packets[b[k][1]])
        BY <2>5, <3>1 DEF IsFramed
      <4> QED BY <4>1, <4>2
    <3>3. CASE b[k][2] < usMsgLen(packets[b[k][1]])
      <4>1. b[k][2] + 1 <= usMsgLen(packets[b[k][1]]) /\ 1 \in Nat
        BY <3>2, <3>3
      <4>2. b[k + 1] = <<b[k][1], b[k][2] + 1>>
        BY <2>5, <3>1, <4>1 DEF IsFramed
      <4> QED BY <3>3, <4>2 DEF Following
    <3>4. CASE ~(b[k][2] < usMsgLen(packets[b[k][1]]))
      <4>1. b[k][2] = usMsgLen(packets[b[k][1]])
        BY <3>2, <3>4
      <4>2. b[k + 1] = <<b[k][1] + 1, 1>>
        BY <2>5, <3>1, <4>1 DEF IsFramed
      <4> QED BY <3>4, <4>2 DEF Following
    <3> QED BY <3>3, <3>4
  <2>7. AreFramed(b)
    BY <2>5, <2>6 DEF AreFramed, IsFramed
  <2> QED BY <2>3, <2>7 DEF b
<1> QED BY <1>1, AlwaysPInv, PTL

\* What ProcessMessage gets of a command that no two threads sent at once and no
\* packet of which WSASend refused, on a connection whose AsyncResult brought no
\* left-over count, are the messages sent, each whole, in their order and once,
\* also when packets of other commands are refused (PostSendIo frees them and
\* SendPackage goes on); and keep-alives never get there.
THEOREM MessagesWhole == Spec => []MessagesAreWhole
<1>1. PInv => MessagesAreWhole
  <2> SUFFICES ASSUME PInv, NEW c \in Conns, base[c] = 0
               PROVE  /\ \A cmd \in Unbroken(c) :
                           /\ Len(delivered[c][cmd]) <= Len(sent[c][cmd])
                           /\ \A k \in DOMAIN delivered[c][cmd] :
                                delivered[c][cmd][k] = Encoded(sent[c][cmd][k])
                      /\ delivered[c][MSG_KEEP_ALIVE] = <<>>
    BY DEF MessagesAreWhole
  <2>1. ASSUME NEW cmd \in Unbroken(c)
        PROVE  /\ Len(delivered[c][cmd]) <= Len(sent[c][cmd])
               /\ \A k \in DOMAIN delivered[c][cmd] :
                    delivered[c][cmd][k] = Encoded(sent[c][cmd][k])
    <3>0. cmd \in Cmds
      BY DEF Unbroken
    <3>1. Content(c, cmd)
      BY <3>0 DEF PInv, Arrivals, Orderly
    <3>2. /\ delivered[c][cmd] \in Seq(Seq(Byte)) /\ Len(delivered[c][cmd]) \in Nat
          /\ Len(sent[c][cmd]) \in Nat
      BY <3>0, TakenType DEF PInv, Basics
    <3>3. DOMAIN delivered[c][cmd] = 1 .. Len(delivered[c][cmd])
      BY <3>2, LenProperties
    <3>4. Len(delivered[c][cmd]) <= Len(sent[c][cmd])
      <4>1. CASE Len(delivered[c][cmd]) = 0
        BY <3>2, <4>1
      <4>2. CASE Len(delivered[c][cmd]) # 0
        <5>1. Len(delivered[c][cmd]) \in 1 .. Len(delivered[c][cmd])
          BY <3>2, <4>2
        <5> QED BY <3>1, <5>1 DEF Content
      <4> QED BY <4>1, <4>2
    <3> QED BY <3>1, <3>3, <3>4 DEF Content
  <2>2. delivered[c][MSG_KEEP_ALIVE] = <<>>
    BY DEF PInv, NoKeepAlive
  <2> QED BY <2>1, <2>2
<1> QED BY <1>1, AlwaysPInv, PTL

\* The queue tells the server of one connection at a time: accepted, what came
\* on it, disconnected; and each of its messages but an accept finds the client
\* of its connection, so that nothing that is posted is dropped for want of one.
QueueFindsClient ==
  m_MsgQueue # <<>> =>
    IF Head(m_MsgQueue).type = "IO_ON_ACCEPT" THEN client = NoClient
    ELSE client.conn = Head(m_MsgQueue).conn /\ client # NoClient

THEOREM QueueInOrder == Spec => [](InOrder /\ QueueFindsClient)
<1>1. PInv => InOrder /\ QueueFindsClient
  BY NextTurn DEF PInv, Basics, QueueFindsClient
<1> QED BY <1>1, AlwaysPInv, PTL

=============================================================================
