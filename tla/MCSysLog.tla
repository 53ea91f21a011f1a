------------------------------ MODULE MCSysLog ------------------------------
(***************************************************************************)
(* SysLog with a name of its own for whatever ClientMailbox, the other     *)
(* user of SynDeque, has too: what TLC checks, and what is proved beside   *)
(* ClientMailbox.                                                          *)
(***************************************************************************)
EXTENDS Integers

CONSTANTS Loggers,    \* the threads that push lines
          m_eLevel, m_iMaxFileSum, m_iTimeLimit, m_lFileSizeMax, MaxLines, MaxTime,
          MaxExcess

ASSUME LogAssumption ==
  /\ m_eLevel \in 0 .. 3 /\ m_iMaxFileSum \in Nat \ {0}
  /\ m_iTimeLimit \in Nat /\ m_lFileSizeMax \in Nat
  /\ MaxLines \in Nat /\ MaxTime \in Nat /\ MaxExcess \in Nat
  /\ "worker" \notin Loggers

VARIABLES m_nType, m_bClose, m_LogDeque, doing, hand, victim, target, files, now, shift,
          pushed, written, lost, excess

Log == INSTANCE SysLog WITH Threads <- Loggers, pc <- doing

LogSpec == Log!FairSpec

\* No line is written twice, and the lines of a thread are in the order it
\* pushed them, in each mode.
LinesInOrder == Log!LinesInOrder

\* A queued line that is not below the level gets to a file, unless its file
\* cannot be opened or the log is closed or was never started.
LinesAreWritten == Log!LinesAreWritten

\* Rotation removes the oldest file, and the files are never more than the number
\* configured, what earlier runs left beyond it, and the removals that failed.
RotationIsSound == Log!RotationIsSound
=============================================================================
