\* Packets of two or three bytes, so that TCP can cut anywhere: in the length, at
\* the end of a packet and in the data.  Two messages over two connections, sent
\* by two threads.
CONSTANTS
  Threads = {t1, t2}
  keepAlive = keepAlive
  a = a
  b = b
  Cmds <- MCCmds
  Messages <- MCMessages
  MSG_KEEP_ALIVE = keepAlive
  MSG_HEAD_LEN = 2
  MSG_DATA_LEN = 1
  MaxMessages = 2
  MaxConns = 2
  MaxRefused = 1
SPECIFICATION FairSpec
INVARIANTS
  MessagesAreWhole
  StreamIsKept
PROPERTIES
  MessagesArrive
CHECK_DEADLOCK FALSE
