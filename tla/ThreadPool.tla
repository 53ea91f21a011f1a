----------------------------- MODULE ThreadPool -----------------------------
(***************************************************************************)
(* How many threads the ThreadPool has.  A control thread adds a thread    *)
(* while fewer than m_nThreadDefualtNum are free; a thread that has run a  *)
(* task leaves when enough others are free.  Both decide on counters that  *)
(* the others change with interlocked instructions, one by one.  What a    *)
(* task does is the business of ClientMailbox.                             *)
(***************************************************************************)
EXTENDS Integers, FiniteSets

CONSTANTS Threads,              \* identities of pool threads
          m_nThreadDefualtNum,  \* 14
          m_nThreadMaxNum,      \* 200
          TaskRoom,             \* how many tasks m_TaskList holds
          MaxFailures           \* bound: failures of _beginthreadex

ASSUME PoolSizeAssumption ==
  /\ IsFiniteSet(Threads)
  /\ m_nThreadMaxNum \in Nat /\ m_nThreadDefualtNum \in 0 .. m_nThreadMaxNum
  /\ TaskRoom \in Nat \ {0} /\ MaxFailures \in Nat

VARIABLES
  m_nTotalNum, m_nFreeNum,
  m_bClose,
  tasks,     \* how many tasks m_TaskList holds
  control,   \* where the control thread is
  thread,    \* where a pool thread is; "none" before it starts
  phantoms   \* how often a thread was counted that could not be created

counters == <<m_nTotalNum, m_nFreeNum>>
vars == <<counters, m_bClose, tasks, control, thread, phantoms>>

Init ==
  /\ m_nTotalNum = 0 /\ m_nFreeNum = 0
  /\ m_bClose = FALSE
  /\ tasks = 0
  /\ control = "loop"
  /\ thread = [t \in Threads |-> "none"]
  /\ phantoms = 0

ControlGoto(pc) == control' = pc
Goto(t, pc) == thread' = [thread EXCEPT ![t] = pc]

-----------------------------------------------------------------------------
\* A full queue refuses the task.
AddTask ==
  /\ tasks < TaskRoom
  /\ tasks' = tasks + 1
  /\ UNCHANGED <<counters, m_bClose, control, thread, phantoms>>

UnInitThreadPool ==
  /\ m_bClose' = TRUE
  /\ UNCHANGED <<counters, tasks, control, thread, phantoms>>

-----------------------------------------------------------------------------
(* ControlThreadProc                                                       *)

\* Mutant: off by one.
ControlLoopOffByOne ==
  /\ control = "loop"
  /\ ControlGoto(IF m_bClose THEN "closed"
                 ELSE IF m_nFreeNum + 1 < m_nThreadDefualtNum THEN "total"
                 ELSE "loop")
  /\ UNCHANGED <<counters, m_bClose, tasks, thread, phantoms>>

ControlLoop ==
  /\ control = "loop"
  /\ ControlGoto(IF m_bClose THEN "closed"
                 ELSE IF m_nFreeNum < m_nThreadDefualtNum THEN "total"
                 ELSE "loop")
  /\ UNCHANGED <<counters, m_bClose, tasks, thread, phantoms>>

\* Mutant: off by one.
CheckTotalLate ==
  /\ control = "total"
  /\ ControlGoto(IF m_nTotalNum <= m_nThreadMaxNum THEN "create" ELSE "loop")
  /\ UNCHANGED <<counters, m_bClose, tasks, thread, phantoms>>

CheckTotal ==
  /\ control = "total"
  /\ ControlGoto(IF m_nTotalNum < m_nThreadMaxNum THEN "create" ELSE "loop")
  /\ UNCHANGED <<counters, m_bClose, tasks, thread, phantoms>>

\* The thread runs from ResumeThread on, before it is counted.
CreateThread ==
  /\ control = "create" /\ ControlGoto("countTotal")
  /\ \E t \in Threads : thread[t] = "none" /\ Goto(t, "loop")
  /\ UNCHANGED <<counters, m_bClose, tasks, phantoms>>

\* _beginthreadex returns 0 when it fails, not INVALID_HANDLE_VALUE.
CreateThreadFails ==
  /\ control = "create" /\ ControlGoto("countTotal")
  /\ phantoms < MaxFailures /\ phantoms' = phantoms + 1
  /\ UNCHANGED <<counters, m_bClose, tasks, thread>>

CountTotal ==
  /\ control = "countTotal" /\ ControlGoto("countFree")
  /\ m_nTotalNum' = m_nTotalNum + 1
  /\ UNCHANGED <<m_nFreeNum, m_bClose, tasks, thread, phantoms>>

CountFree ==
  /\ control = "countFree" /\ ControlGoto("loop")
  /\ m_nFreeNum' = m_nFreeNum + 1
  /\ UNCHANGED <<m_nTotalNum, m_bClose, tasks, thread, phantoms>>

Control ==
  \/ ControlLoop \/ CheckTotal \/ CreateThread \/ CreateThreadFails
  \/ CountTotal \/ CountFree

-----------------------------------------------------------------------------
(* RunThreadProc                                                           *)

\* Mutant: the loop looks at the queue only.
RunLoopNeverCloses(t) ==
  /\ thread[t] = "loop" /\ Goto(t, "pop")
  /\ UNCHANGED <<counters, m_bClose, tasks, control, phantoms>>

\* A thread that closes stays counted; tasks that are left are not run.
RunLoop(t) ==
  /\ thread[t] = "loop"
  /\ Goto(t, IF m_bClose THEN "closed" ELSE "pop")
  /\ UNCHANGED <<counters, m_bClose, tasks, control, phantoms>>

PopTask(t) ==
  /\ thread[t] = "pop"
  /\ IF tasks > 0 THEN tasks' = tasks - 1 /\ Goto(t, "busy")
                  ELSE UNCHANGED tasks /\ Goto(t, "loop")
  /\ UNCHANGED <<counters, m_bClose, control, phantoms>>

DecFree(t) ==
  /\ thread[t] = "busy" /\ Goto(t, "run")
  /\ m_nFreeNum' = m_nFreeNum - 1
  /\ UNCHANGED <<m_nTotalNum, m_bClose, tasks, control, phantoms>>

\* Mutant: the thread counts itself among those that stay.
RunTaskOffByOne(t) ==
  /\ thread[t] = "run"
  /\ Goto(t, IF m_nFreeNum + 1 >= m_nThreadDefualtNum THEN "decTotal"
             ELSE "incFree")
  /\ UNCHANGED <<counters, m_bClose, tasks, control, phantoms>>

\* The task returns, its memory is freed, and the thread decides whether it is
\* needed any longer.  ClientItem::RunProcess, which is every task there is, goes
\* on as long as its peer sends, and does not look at m_bClose.
RunTask(t) ==
  /\ thread[t] = "run"
  /\ Goto(t, IF m_nFreeNum >= m_nThreadDefualtNum THEN "decTotal"
             ELSE "incFree")
  /\ UNCHANGED <<counters, m_bClose, tasks, control, phantoms>>

\* Mutant: a thread that leaves stays counted.
DecTotalForgotten(t) ==
  /\ thread[t] = "decTotal" /\ Goto(t, "none")
  /\ UNCHANGED <<counters, m_bClose, tasks, control, phantoms>>

DecTotal(t) ==
  /\ thread[t] = "decTotal" /\ Goto(t, "none")
  /\ m_nTotalNum' = m_nTotalNum - 1
  /\ UNCHANGED <<m_nFreeNum, m_bClose, tasks, control, phantoms>>

IncFree(t) ==
  /\ thread[t] = "incFree" /\ Goto(t, "loop")
  /\ m_nFreeNum' = m_nFreeNum + 1
  /\ UNCHANGED <<m_nTotalNum, m_bClose, tasks, control, phantoms>>

\* What a thread does outside its task, where it waits for nobody.
OwnStep(t) ==
  RunLoop(t) \/ PopTask(t) \/ DecFree(t) \/ DecTotal(t) \/ IncFree(t)

Run(t) == OwnStep(t) \/ RunTask(t)

Next ==
  AddTask \/ UnInitThreadPool \/ Control \/ \E t \in Threads : Run(t)

Spec == Init /\ [][Next]_vars

\* Every thread runs; that a task returns is up to the peer and not assumed.
FairSpec == Spec /\ WF_vars(Control) /\ \A t \in Threads : WF_vars(OwnStep(t))

-----------------------------------------------------------------------------
TypeOK ==
  /\ m_nTotalNum \in 0 .. m_nThreadMaxNum
  /\ m_nFreeNum \in Int
  /\ m_bClose \in BOOLEAN
  /\ tasks \in 0 .. TaskRoom
  /\ control \in {"loop", "total", "create", "countTotal", "countFree",
                  "closed"}
  /\ thread \in [Threads -> {"none", "loop", "pop", "busy", "run", "decTotal",
                             "incFree", "closed"}]
  /\ phantoms \in 0 .. MaxFailures

Live == {t \in Threads : thread[t] # "none"}
Free == {t \in Threads : thread[t] \in {"loop", "pop", "busy", "closed"}}
Staying == {t \in Threads : thread[t] \notin {"none", "decTotal"}}

\* The counters are those of the threads, but for the thread that control has
\* started and not yet counted and for the threads that never started.
TotalIsExact ==
  m_nTotalNum = Cardinality(Live) + phantoms
                  - (IF control = "countTotal" THEN 1 ELSE 0)

FreeIsExact ==
  m_nFreeNum = Cardinality(Free) + phantoms
                 - (IF control \in {"countTotal", "countFree"} THEN 1 ELSE 0)

CountersAreExact == TotalIsExact /\ FreeIsExact

\* There are never more threads than m_nThreadMaxNum, although the limit is
\* tested before the thread is counted.
ThreadsAreBounded == Cardinality(Live) <= m_nThreadMaxNum

\* Threads that decide at the same time that they are not needed do not shrink
\* the pool below m_nThreadDefualtNum.
NeverShrinksBelowDefault ==
  [][LET n == Cardinality(Staying) + phantoms
     IN  n >= m_nThreadDefualtNum => n' >= m_nThreadDefualtNum]_vars

\* Nobody is left to take a task: each thread there is is inside one, and control
\* starts no other, as the pool is at its limit or takes phantoms for the free
\* threads it is to keep.
AllInTasks ==
  /\ \A t \in Live : thread[t] = "run"
  /\ \/ Cardinality(Live) + phantoms = m_nThreadMaxNum
     \/ phantoms >= m_nThreadDefualtNum

\* A full queue of tasks gets room again, however many threads stay inside their
\* tasks and never return: it stays full only when all that the pool may have do.
QueueGetsRoom ==
  <>[](tasks = TaskRoom /\ ~m_bClose) => <>[]AllInTasks

\* After UnInitThreadPool the control thread ends, and every other thread does,
\* unless it stays inside its task for ever.
ThreadsEnd ==
  <>m_bClose => /\ <>[](control = "closed")
                /\ \A t \in Threads : \/ <>[](thread[t] \in {"none", "closed"})
                                      \/ <>[](thread[t] = "run")
=============================================================================
