\* One thread, which writes beside the worker after SetSynType; with two files of
\* two lines, three lines and files of earlier runs, a file is used again, is
\* full, or gets too old.  Two files more than configured: both left by earlier
\* runs, or not removed, or one of each.
CONSTANTS
  Loggers = {t1}
  m_eLevel = 2
  m_iMaxFileSum = 2
  m_iTimeLimit = 2
  m_lFileSizeMax = 2
  MaxLines = 2
  MaxTime = 4
  MaxExcess = 2
SPECIFICATION LogSpec
INVARIANTS
  LinesInOrder
PROPERTIES
  LinesAreWritten
  RotationIsSound
CHECK_DEADLOCK FALSE
