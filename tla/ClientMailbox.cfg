\* Two clients that share two pool threads and a task queue with room for one
\* task, so that AddTask fails, workers time out early and clients go away at
\* every point.
CONSTANTS
  Clients = {c1, c2}
  Served = {c1, c2}
  PoolThreads = {p1, p2}
  Dispatcher = d
  Manager = m
  TaskRoom = 1
  MaxMsgs = 2
  NULL = NULL
SPECIFICATION FairSpec
INVARIANTS
  OneWorker
  InOrder
PROPERTIES
  DeafForever
  MailboxIsEmptied
CHECK_DEADLOCK FALSE
