-------------------------------- MODULE SysLog --------------------------------
(***************************************************************************)
(* CSysLog for one of its four kinds of log: lines are pushed by any       *)
(* thread and written by the worker, or, after SetSynType, by the thread   *)
(* itself.  Every line looks for its file anew: the newest one while it is *)
(* young and small enough, or else a new one, named after the local time   *)
(* in seconds, for which DeleteOldFile makes room.                         *)
(*                                                                         *)
(* A line is a record, a file is its name, the time it was created, and    *)
(* its size in lines.  Names are local time, which can be set back, and    *)
(* directories list their files by name.                                   *)
(***************************************************************************)
EXTENDS Integers, FiniteSets, SynDeque

CONSTANTS Threads,
          m_eLevel, m_iMaxFileSum, m_iTimeLimit, m_lFileSizeMax,   \* the configuration
          MaxLines,    \* bound: lines of one thread
          MaxTime,     \* bound: seconds
          MaxExcess    \* bound: files beyond m_iMaxFileSum that nobody removes

VARIABLES
  m_nType, m_bClose, m_LogDeque,
  pc,        \* what each writer does: the threads and the worker
  hand,      \* the line it writes
  victim,    \* szOldFile: the file it is about to remove, if any
  target,    \* the name of the file it writes to
  files,
  now, shift,        \* seconds, and what local time is ahead of them
  pushed,            \* lines that each thread has pushed
  written, lost,     \* history: lines in files, in order; lines no file took
  excess             \* history: how many more files than configured earlier runs
                     \* left, and how many could not be removed

log == <<m_nType, m_bClose, m_LogDeque>>
clock == <<now, shift>>
history == <<written, lost, excess>>
vars == <<log, pc, hand, victim, target, files, clock, pushed, history>>

worker == "worker"
Writers == Threads \cup {worker}
Levels == 1 .. 4     \* LEVEL_ERROR, LEVEL_WARNING, LEVEL_INFO, LEVEL_BUTT

LogHead == [by |-> worker, no |-> 1, level |-> 4, type |-> "asyn"]
NoLine == [LogHead EXCEPT !.no = 0]

\* Files of earlier runs are there, more than configured if MaxFileSum has been
\* made smaller since.
Init ==
  /\ m_nType = "asyn" /\ m_bClose = FALSE /\ m_LogDeque = CreateQueue
  /\ pc = [w \in Writers |-> IF w = worker THEN "off" ELSE "idle"]
  /\ hand = [w \in Writers |-> NoLine]
  /\ victim = [w \in Writers |-> {}] /\ target = [w \in Writers |-> 0]
  /\ \E n \in 0 .. m_iMaxFileSum + MaxExcess :
       /\ files = {[name |-> -i, created |-> -i, size |-> m_lFileSizeMax] : i \in 1 .. n}
       /\ excess = IF n <= m_iMaxFileSum THEN 0 ELSE n - m_iMaxFileSum
  /\ now = 0 /\ shift = 0
  /\ pushed = [t \in Threads |-> 0]
  /\ written = <<>> /\ lost = {}

Goto(w, from, to) == pc[w] = from /\ pc' = [pc EXCEPT ![w] = to]
Rest(w) == IF w = worker THEN "wait" ELSE "idle"

\* WriteLogRun, WriteLogDbg, WriteLogStat and WriteLogBin drop what is below
\* the level.
Passes(line) == ~(m_eLevel > line.level)

-----------------------------------------------------------------------------
(* The log                                                                 *)

\* Init: the directory is made, LoadConfig writes the head of the log, and the
\* worker starts.  If the directory cannot be made nothing happens.
StartLog ==
  /\ Goto(worker, "off", "find")
  /\ hand' = [hand EXCEPT ![worker] = LogHead]
  /\ UNCHANGED <<log, victim, target, files, clock, pushed, history>>

UnInit ==
  /\ ~m_bClose /\ m_bClose' = TRUE
  /\ UNCHANGED <<m_nType, m_LogDeque, pc, hand, victim, target, files, clock, pushed, history>>

SetSynType ==
  /\ m_nType = "asyn" /\ m_nType' = "syn"
  /\ UNCHANGED <<m_bClose, m_LogDeque, pc, hand, victim, target, files, clock, pushed, history>>

PushLog(t) ==
  /\ pc[t] = "idle" /\ pushed[t] < MaxLines
  /\ pushed' = [pushed EXCEPT ![t] = @ + 1]
  /\ \E level \in {1, 3} :
       LET line == [by |-> t, no |-> pushed[t] + 1, level |-> level, type |-> m_nType]
       IN  \/ /\ m_nType = "asyn"
              /\ m_LogDeque' = PushBack(m_LogDeque, line)
              /\ UNCHANGED <<pc, hand>>
           \/ /\ m_nType = "syn"
              /\ IF Passes(line)
                 THEN hand' = [hand EXCEPT ![t] = line] /\ Goto(t, "idle", "find")
                 ELSE UNCHANGED <<pc, hand>>
              /\ UNCHANGED m_LogDeque
  /\ UNCHANGED <<m_nType, m_bClose, victim, target, files, clock, history>>

\* LogWorker: the next line, until m_bClose is seen; what is queued then stays.
TakeLine ==
  /\ ~m_bClose /\ m_LogDeque.m_hevent
  /\ LET line == Popped(m_LogDeque, NoLine)
     IN  /\ Goto(worker, "wait", IF Passes(line) THEN "find" ELSE "wait")
         /\ hand' = [hand EXCEPT ![worker] = IF Passes(line) THEN line ELSE NoLine]
         /\ m_LogDeque' = PopFront(m_LogDeque)
  /\ UNCHANGED <<m_nType, m_bClose, victim, target, files, clock, pushed, history>>

EndWorker ==
  /\ m_bClose
  /\ Goto(worker, "wait", "ended")
  /\ UNCHANGED <<log, hand, victim, target, files, clock, pushed, history>>

-----------------------------------------------------------------------------
(* The file of a line                                                      *)

Listed(f, g) == f.name < g.name
First == CHOOSE f \in files : \A g \in files \ {f} : Listed(f, g)
Newest == CHOOSE f \in files : \A g \in files \ {f} :
            g.created < f.created \/ (g.created = f.created /\ Listed(f, g))

\* GetFileName.
GetFileName(w) ==
  /\ IF files # {} /\ now - Newest.created < m_iTimeLimit /\ Newest.size < m_lFileSizeMax
     THEN Goto(w, "find", "write") /\ target' = [target EXCEPT ![w] = Newest.name]
     ELSE Goto(w, "find", "list") /\ UNCHANGED target
  /\ UNCHANGED <<log, hand, victim, files, clock, pushed, history>>

\* Mutant: the last file of the list is taken.
OldFileLast == CHOOSE f \in files : \A g \in files : ~Listed(f, g)

\* DeleteOldFile compares every file with the first: the last that is older
\* than the first, or the first.
OldFile ==
  LET older == {f \in files : f.created < First.created}
  IN  IF older = {} THEN First ELSE CHOOSE f \in older : \A g \in older \ {f} : Listed(g, f)

\* count is 1 when there are none.
DeleteOldFile(w) ==
  /\ Goto(w, "list", "remove")
  /\ victim' = [victim EXCEPT ![w] =
                  IF files # {} /\ m_iMaxFileSum <= Cardinality(files) THEN {OldFile.name} ELSE {}]
  /\ UNCHANGED <<log, hand, target, files, clock, pushed, history>>

\* remove fails on a file that is open elsewhere; GetFileName goes on to its new
\* file all the same.
Remove(w) ==
  /\ Goto(w, "remove", "write")
  /\ \/ files' = {f \in files : f.name \notin victim[w]} /\ UNCHANGED excess
     \/ /\ victim[w] # {} /\ excess < MaxExcess /\ excess' = excess + 1
        /\ UNCHANGED files
  /\ victim' = [victim EXCEPT ![w] = {}]
  /\ target' = [target EXCEPT ![w] = now + shift]
  /\ UNCHANGED <<log, hand, clock, pushed, written, lost>>

Done(w) == hand' = [hand EXCEPT ![w] = NoLine] /\ target' = [target EXCEPT ![w] = 0]

\* WriteLog opens the file, or makes it, and appends.
WriteLog(w) ==
  LET there == {f \in files : f.name = target[w]}
      new == [name |-> target[w], created |-> now, size |-> 1]
  IN  /\ Goto(w, "write", Rest(w))
      /\ files' = (files \ there) \cup
                  IF there = {} THEN {new} ELSE {[f EXCEPT !.size = @ + 1] : f \in there}
      /\ written' = Append(written, hand[w])
      /\ Done(w)
      /\ UNCHANGED <<log, victim, clock, pushed, lost, excess>>

\* fopen fails: the line is lost.
WriteFails(w) ==
  /\ Goto(w, "write", Rest(w))
  /\ lost' = lost \cup {hand[w]}
  /\ Done(w)
  /\ UNCHANGED <<log, victim, files, clock, pushed, written, excess>>

-----------------------------------------------------------------------------
Tick ==
  /\ now < MaxTime /\ now' = now + 1
  /\ UNCHANGED <<log, pc, hand, victim, target, files, shift, pushed, history>>

\* Local time goes back: the end of summer time, or a clock that is set.
SetBack ==
  /\ shift = 0 /\ shift' = -2
  /\ UNCHANGED <<log, pc, hand, victim, target, files, now, pushed, history>>

Write(w) == GetFileName(w) \/ DeleteOldFile(w) \/ Remove(w) \/ WriteLog(w) \/ WriteFails(w)
LogWorker == TakeLine \/ EndWorker \/ Write(worker)

Next ==
  \/ StartLog \/ UnInit \/ SetSynType \/ LogWorker
  \/ \E t \in Threads : PushLog(t) \/ Write(t)
  \/ Tick \/ SetBack

Spec == Init /\ [][Next]_vars

\* The worker is scheduled.
FairSpec == Spec /\ WF_vars(LogWorker)

-----------------------------------------------------------------------------
Line == [by : Writers, no : 0 .. MaxLines + 1, level : Levels, type : {"asyn", "syn"}]
File == [name : Int, created : Int, size : Nat]

TypeOK ==
  /\ m_nType \in {"asyn", "syn"} /\ m_bClose \in BOOLEAN
  /\ m_LogDeque.m_deque \in Seq(Line) /\ m_LogDeque.m_hevent = (m_LogDeque.m_deque # <<>>)
  /\ pc \in [Writers -> {"off", "idle", "wait", "find", "list", "remove", "write", "ended"}]
  /\ hand \in [Writers -> Line] /\ target \in [Writers -> Int]
  /\ files \subseteq File
  /\ pushed \in [Threads -> 0 .. MaxLines] /\ written \in Seq(Line) /\ lost \subseteq Line
  /\ excess \in 0 .. MaxExcess

Range(s) == {s[i] : i \in DOMAIN s}

\* No line is written twice, and the lines of a thread are in the order it
\* pushed them, in each mode: after SetSynType they overtake those that are
\* queued.
LinesInOrder ==
  \A i, j \in DOMAIN written :
    i < j /\ written[i].by = written[j].by /\ written[i].type = written[j].type
      => written[i].no < written[j].no

\* A queued line that is not below the level gets to a file, or is lost
\* because its file cannot be opened, unless the log is closed, which forgets
\* what is queued, or was never started.
LinesAreWritten ==
  \A t \in Threads, n \in 1 .. MaxLines, level \in {1, 3} :
    LET line == [by |-> t, no |-> n, level |-> level, type |-> "asyn"]
    IN  line \in Range(m_LogDeque.m_deque) /\ Passes(line)
          ~> line \in Range(written) \cup lost \/ m_bClose \/ pc[worker] = "off"

Names(fs) == {f.name : f \in fs}
Gone(f) == f.name \notin Names(files')

\* While the worker is the only writer, rotation removes the oldest file as long
\* as local time has not been set back.  When it has, the names do not list the
\* files by age, and another may go, but not the newest of several.  A thread
\* that writes too may stall between making room and making its file, whose name
\* is then older than the file.
TakesOldest ==
  m_nType = "asyn" => \A f \in files : Gone(f) =>
    /\ shift = 0 => \A g \in files : f.created <= g.created
    /\ files # {f} => \E g \in files \ {f} : f.created <= g.created

\* While the worker is the only writer there are no more files than configured
\* and those accounted for: a file goes for each one that comes, so what earlier
\* runs left beyond the number configured stays, and a removal that fails adds
\* one.  Threads that write at the same time make a file each.
StaysBounded == m_nType' = "asyn" => Cardinality(files') <= m_iMaxFileSum + excess'

RotationIsSound == [][TakesOldest /\ StaysBounded]_vars

=============================================================================
