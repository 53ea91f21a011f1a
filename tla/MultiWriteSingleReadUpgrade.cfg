\* One reader upgrades.
CONSTANTS
  Threads = {u1, t1}
  Upgraders = {u1}
  Values = {0, 1, 2}
SPECIFICATION FairSpec
PROPERTIES WriterGetsIn
CHECK_DEADLOCK FALSE
