\* A pool that keeps two threads free and grows to three, with one thread more
\* than the code may create, so that creating it would be possible, and as
\* many failures to start a thread as threads are kept free.
CONSTANTS
  Threads = {t1, t2, t3, t4}
  m_nThreadDefualtNum = 2
  m_nThreadMaxNum = 3
  TaskRoom = 2
  MaxFailures = 2
SPECIFICATION FairSpec
INVARIANTS
  CountersAreExact
  ThreadsAreBounded
PROPERTIES
  NeverShrinksBelowDefault
  QueueGetsRoom
  ThreadsEnd
