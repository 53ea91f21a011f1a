\* Two threads that may upgrade and two that do not.  Threads that meet in
\* ReadToWrite wait for each other for ever: the system may stop.
CONSTANTS
  Threads = {u1, u2, t1, t2}
  Upgraders = {u1, u2}
  Values = {0, 1, 2}
SPECIFICATION FairSpec
INVARIANTS
  ReadCountIsReaders
  WriterAlone
  NoLostUpdate
PROPERTIES
  WriterGetsInUnlessUpgrade
CHECK_DEADLOCK FALSE
