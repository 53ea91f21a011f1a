\* Rounds of two against a limit of two, so that both threads can pass the test
\* together; three connections, so that a burst can leave one in the backlog.
CONSTANTS
  MAX_ACCEPT = 2
  AcceptLimit = 2
  MaxConnects = 3
  MaxRefused = 1
SPECIFICATION FairSpec
INVARIANTS
  StatCountsAccepts
  AcceptsAreBounded
PROPERTIES
  BacklogIsTaken
CHECK_DEADLOCK FALSE
