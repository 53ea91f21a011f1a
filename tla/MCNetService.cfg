\* One handle, so that it is used again at once; two connections, each of which
\* may be accepted or made by the program; an accept and two packets do not fit
\* into the queue, so that the IO thread waits and the manager loses messages.
CONSTANTS
  Sockets = {1}
  QueueSize = 2
  MaxConns = 2
  MaxPackets = 2
SPECIFICATION NetSpec
INVARIANTS
  PacketsStayApart
PROPERTIES
  DeadClientsGo
CHECK_DEADLOCK FALSE
