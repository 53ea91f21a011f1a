---------------------------- MODULE ThreadPoolProofs ----------------------------
(***************************************************************************)
(* That the counters of the pool are exact but for the thread that is      *)
(* being counted, that the pool keeps to its limit, and that it does not   *)
(* shrink below its default; for any number of threads and any limits.     *)
(***************************************************************************)
EXTENDS ThreadPool, FiniteSetTheorems, TLAPS

Pcs == {"none", "loop", "pop", "busy", "run", "decTotal", "incFree", "closed"}
FreePcs == {"loop", "pop", "busy", "closed"}

\* How many threads there are, are free, and stay.
LiveNum == Cardinality(Live)
FreeNum == Cardinality(Free)
StayNum == Cardinality(Staying)

\* The thread that control has started and not counted yet.
Uncounted == IF control = "countTotal" THEN 1 ELSE 0

\* Between the test of the limit and the count only control adds threads.
LimitIsKept == control \in {"create", "countTotal"} => m_nTotalNum < m_nThreadMaxNum

\* The thread that is not counted yet does not leave uncounted: one stays, or
\* never was.
OneStays == control = "countTotal" => StayNum + phantoms >= 1

Types ==
  /\ m_nTotalNum \in Int /\ m_nTotalNum <= m_nThreadMaxNum
  /\ m_nFreeNum \in Int
  /\ m_bClose \in BOOLEAN
  /\ tasks \in 0 .. TaskRoom
  /\ control \in {"loop", "total", "create", "countTotal", "countFree", "closed"}
  /\ thread \in [Threads -> Pcs]
  /\ phantoms \in Nat /\ phantoms <= MaxFailures

\* The inductive invariant.
IInv == Types /\ CountersAreExact /\ LimitIsKept /\ OneStays

-----------------------------------------------------------------------------
(* Counting                                                                *)

LEMMA SetCount ==
  ASSUME NEW S \in SUBSET Threads, NEW t \in Threads
  PROVE  /\ Cardinality(S) \in Nat
         /\ Cardinality(S \cup {t}) = IF t \in S THEN Cardinality(S) ELSE Cardinality(S) + 1
         /\ Cardinality(S \ {t}) = IF t \in S THEN Cardinality(S) - 1 ELSE Cardinality(S)
<1>1. IsFiniteSet(S)
  BY FS_Subset, PoolSizeAssumption
<1> QED
  BY <1>1, FS_CardinalityType, FS_AddElement, FS_RemoveElement

\* What it does to a set's number that t is in it afterwards, or is not.
LEMMA SetMove ==
  ASSUME NEW S \in SUBSET Threads, NEW t \in Threads, NEW in \in BOOLEAN
  PROVE  Cardinality(IF in THEN S \cup {t} ELSE S \ {t})
           = Cardinality(S) + (IF in THEN 1 ELSE 0) - (IF t \in S THEN 1 ELSE 0)
<1>1. /\ Cardinality(S) \in Nat
      /\ Cardinality(S \cup {t}) = IF t \in S THEN Cardinality(S) ELSE Cardinality(S) + 1
      /\ Cardinality(S \ {t}) = IF t \in S THEN Cardinality(S) - 1 ELSE Cardinality(S)
  BY SetCount
<1>2. CASE in
  <2>1. (IF in THEN S \cup {t} ELSE S \ {t}) = S \cup {t}
    BY <1>2
  <2> QED
    BY <1>1, <1>2, <2>1
<1>3. CASE ~in
  <2>1. (IF in THEN S \cup {t} ELSE S \ {t}) = S \ {t}
    BY <1>3
  <2> QED
    BY <1>1, <1>3, <2>1
<1> QED
  BY <1>2, <1>3

LEMMA NumType == LiveNum \in Nat /\ FreeNum \in Nat /\ StayNum \in Nat
<1>1. ASSUME NEW S \in SUBSET Threads PROVE Cardinality(S) \in Nat
  BY FS_Subset, FS_CardinalityType, PoolSizeAssumption
<1> QED
  BY <1>1 DEF LiveNum, FreeNum, StayNum, Live, Free, Staying

\* All free threads stay, all that stay are live; a thread that leaves is live
\* besides.
LEMMA NumOrder ==
  /\ FreeNum <= StayNum
  /\ \A t \in Threads : thread[t] = "run" => FreeNum + 1 <= StayNum
  /\ StayNum <= LiveNum
  /\ \A t \in Threads : thread[t] = "decTotal" => StayNum + 1 <= LiveNum
<1>1. ASSUME NEW S \in SUBSET Threads, NEW T \in SUBSET S PROVE Cardinality(T) <= Cardinality(S)
  BY FS_Subset, PoolSizeAssumption
<1>2. /\ Free \in SUBSET Staying /\ Staying \in SUBSET Live /\ Live \in SUBSET Threads
      /\ Staying \in SUBSET Threads /\ Free \in SUBSET Threads
  BY DEF Free, Staying, Live
<1>3. FreeNum <= StayNum /\ StayNum <= LiveNum
  BY <1>1, <1>2 DEF FreeNum, StayNum, LiveNum
<1>4. ASSUME NEW t \in Threads, thread[t] = "run" PROVE FreeNum + 1 <= StayNum
  <2>1. Free \cup {t} \in SUBSET Staying /\ t \notin Free
    BY <1>2, <1>4 DEF Staying, Free
  <2>2. Cardinality(Free \cup {t}) <= Cardinality(Staying)
    BY <1>1, <1>2, <2>1
  <2>3. Cardinality(Free \cup {t}) = Cardinality(Free) + 1
    BY <1>2, <2>1, SetCount
  <2> QED
    BY <2>2, <2>3 DEF FreeNum, StayNum
<1>5. ASSUME NEW t \in Threads, thread[t] = "decTotal" PROVE StayNum + 1 <= LiveNum
  <2>1. Staying \cup {t} \in SUBSET Live /\ t \notin Staying
    BY <1>2, <1>5 DEF Staying, Live
  <2>2. Cardinality(Staying \cup {t}) <= Cardinality(Live)
    BY <1>1, <1>2, <2>1
  <2>3. Cardinality(Staying \cup {t}) = Cardinality(Staying) + 1
    BY <1>2, <2>1, SetCount
  <2> QED
    BY <2>2, <2>3 DEF StayNum, LiveNum
<1> QED
  BY <1>3, <1>4, <1>5

\* What a thread that goes from one place to another does to the numbers.
LEMMA GotoCounts ==
  ASSUME Types, NEW t \in Threads, NEW pc \in Pcs, Goto(t, pc)
  PROVE  /\ thread' \in [Threads -> Pcs]
         /\ LiveNum' = LiveNum + (IF pc # "none" THEN 1 ELSE 0) - (IF thread[t] # "none" THEN 1 ELSE 0)
         /\ FreeNum' = FreeNum + (IF pc \in FreePcs THEN 1 ELSE 0) - (IF thread[t] \in FreePcs THEN 1 ELSE 0)
         /\ StayNum' = StayNum + (IF pc \notin {"none", "decTotal"} THEN 1 ELSE 0)
                               - (IF thread[t] \notin {"none", "decTotal"} THEN 1 ELSE 0)
<1>0. thread \in [Threads -> Pcs]
  BY DEF Types
<1>1. thread' = [thread EXCEPT ![t] = pc]
  BY DEF Goto
<1>2. thread' \in [Threads -> Pcs]
  BY <1>0, <1>1
<1>3. thread'[t] = pc /\ \A u \in Threads \ {t} : thread'[u] = thread[u]
  BY <1>0, <1>1
<1>4. /\ Live \in SUBSET Threads /\ Free \in SUBSET Threads /\ Staying \in SUBSET Threads
      /\ t \in Live <=> thread[t] # "none"
      /\ t \in Free <=> thread[t] \in FreePcs
      /\ t \in Staying <=> thread[t] \notin {"none", "decTotal"}
  BY DEF Live, Free, Staying, FreePcs
<1>5. Live' = IF pc # "none" THEN Live \cup {t} ELSE Live \ {t}
  BY <1>3 DEF Live
<1>6. Free' = IF pc \in FreePcs THEN Free \cup {t} ELSE Free \ {t}
  BY <1>3 DEF Free, FreePcs
<1>7. Staying' = IF pc \notin {"none", "decTotal"} THEN Staying \cup {t} ELSE Staying \ {t}
  BY <1>3 DEF Staying
<1>8. LiveNum' = LiveNum + (IF pc # "none" THEN 1 ELSE 0) - (IF thread[t] # "none" THEN 1 ELSE 0)
  BY <1>4, <1>5, SetMove DEF LiveNum
<1>9. FreeNum' = FreeNum + (IF pc \in FreePcs THEN 1 ELSE 0) - (IF thread[t] \in FreePcs THEN 1 ELSE 0)
  BY <1>4, <1>6, SetMove DEF FreeNum
<1>10. StayNum' = StayNum + (IF pc \notin {"none", "decTotal"} THEN 1 ELSE 0)
                          - (IF thread[t] \notin {"none", "decTotal"} THEN 1 ELSE 0)
  BY <1>4, <1>7, SetMove DEF StayNum
<1> QED
  BY <1>2, <1>8, <1>9, <1>10

\* Threads that stand still change none of them.
LEMMA StandStill ==
  ASSUME thread' = thread
  PROVE  LiveNum' = LiveNum /\ FreeNum' = FreeNum /\ StayNum' = StayNum
BY DEF LiveNum, FreeNum, StayNum, Live, Free, Staying

-----------------------------------------------------------------------------
(* The invariant                                                           *)

\* The counters and numbers in one place.
Exact ==
  /\ m_nTotalNum = LiveNum + phantoms - Uncounted
  /\ m_nFreeNum = FreeNum + phantoms - (IF control \in {"countTotal", "countFree"} THEN 1 ELSE 0)

LEMMA ExactIsExact == (Exact <=> CountersAreExact) /\ (Exact' <=> CountersAreExact')
BY DEF Exact, CountersAreExact, TotalIsExact, FreeIsExact, LiveNum, FreeNum, Uncounted

LEMMA IInvInit == Init => IInv
<1> SUFFICES ASSUME Init PROVE IInv
  OBVIOUS
<1>1. Live = {} /\ Free = {}
  BY DEF Init, Live, Free
<1>2. LiveNum = 0 /\ FreeNum = 0
  BY <1>1, FS_EmptySet DEF LiveNum, FreeNum
<1>i. control = "loop" /\ m_nTotalNum = 0 /\ m_nFreeNum = 0 /\ phantoms = 0 /\ tasks = 0
  BY DEF Init
<1>s. m_nThreadMaxNum \in Nat /\ TaskRoom \in Nat /\ MaxFailures \in Nat
  BY PoolSizeAssumption
<1>3. Exact
  <2>1. Uncounted = 0 /\ (IF control \in {"countTotal", "countFree"} THEN 1 ELSE 0) = 0
    BY <1>i DEF Uncounted
  <2>2. m_nTotalNum = LiveNum + phantoms - Uncounted
    BY <1>2, <1>i, <2>1
  <2>3. m_nFreeNum = FreeNum + phantoms - (IF control \in {"countTotal", "countFree"} THEN 1 ELSE 0)
    <3>1. control \notin {"countTotal", "countFree"}
      BY <1>i
    <3>2. 0 = 0 + 0 - 0
      OBVIOUS
    <3> QED
      BY <1>2, <1>i, <3>1, <3>2
  <2> QED
    BY <2>2, <2>3 DEF Exact
<1>t. thread \in [Threads -> Pcs] /\ m_bClose \in BOOLEAN
  BY DEF Init, Pcs
<1>4. Types
  BY <1>i, <1>s, <1>t DEF Types
<1> QED
  BY <1>3, <1>4, ExactIsExact DEF IInv, Init, LimitIsKept, OneStays

\* A step of a pool thread that leaves control and the phantoms alone.
LEMMA RunStep ==
  ASSUME IInv, NEW t \in Threads, NEW pc \in Pcs \ {"none"}, Goto(t, pc),
         UNCHANGED <<m_nTotalNum, m_bClose, control, phantoms>>,
         thread[t] \notin {"none", "decTotal"}, pc # "decTotal",
         tasks' \in 0 .. TaskRoom,
         m_nFreeNum' = m_nFreeNum + (IF pc \in FreePcs THEN 1 ELSE 0)
                                  - (IF thread[t] \in FreePcs THEN 1 ELSE 0)
  PROVE  IInv'
<1> USE DEF IInv
<1>0. Exact
  BY ExactIsExact
<1>1. /\ thread' \in [Threads -> Pcs] /\ LiveNum' = LiveNum /\ StayNum' = StayNum
      /\ FreeNum' = FreeNum + (IF pc \in FreePcs THEN 1 ELSE 0) - (IF thread[t] \in FreePcs THEN 1 ELSE 0)
  BY GotoCounts, NumType
<1>2. Exact'
  BY <1>0, <1>1, NumType DEF Exact, Uncounted, Types
<1>3. Types'
  BY <1>1 DEF Types
<1> QED
  BY <1>1, <1>2, <1>3, ExactIsExact DEF LimitIsKept, OneStays

LEMMA IInvNext == IInv /\ [Next]_vars => IInv'
<1> SUFFICES ASSUME IInv, [Next]_vars PROVE IInv'
  OBVIOUS
<1>0. Types /\ Exact /\ LimitIsKept /\ OneStays
  BY ExactIsExact DEF IInv
<1>n. LiveNum \in Nat /\ FreeNum \in Nat /\ StayNum \in Nat
  BY NumType
<1>q. ASSUME Types', Exact', LimitIsKept', OneStays' PROVE IInv'
  BY <1>q, ExactIsExact DEF IInv
<1>s. m_nThreadMaxNum \in Nat /\ m_nThreadDefualtNum \in Nat /\ TaskRoom \in Nat \ {0} /\ MaxFailures \in Nat
  BY PoolSizeAssumption
<1>1. CASE AddTask \/ UnInitThreadPool \/ UNCHANGED vars
  <2>1. UNCHANGED <<counters, control, thread, phantoms>>
    BY <1>1 DEF AddTask, UnInitThreadPool, vars
  <2>2. LiveNum' = LiveNum /\ FreeNum' = FreeNum /\ StayNum' = StayNum
    BY <2>1, StandStill
  <2>3. tasks' \in 0 .. TaskRoom
    BY <1>0, <1>1, <1>s DEF AddTask, UnInitThreadPool, vars, Types
  <2>4. m_bClose' \in BOOLEAN
    BY <1>0, <1>1 DEF AddTask, UnInitThreadPool, vars, Types
  <2>5. Types'
    BY <1>0, <2>1, <2>3, <2>4 DEF Types, counters
  <2> QED
    BY <1>0, <1>q, <2>1, <2>2, <2>5 DEF Exact, Uncounted, LimitIsKept, OneStays, counters
<1>2. CASE ControlLoop \/ CheckTotal
  <2>1. /\ UNCHANGED <<counters, m_bClose, tasks, thread, phantoms>>
        /\ control \in {"loop", "total"}
        /\ control' \in {"closed", "total", "loop", "create"}
        /\ control' = "create" => m_nTotalNum < m_nThreadMaxNum
    BY <1>2 DEF ControlLoop, CheckTotal, ControlGoto
  <2>2. LiveNum' = LiveNum /\ FreeNum' = FreeNum /\ StayNum' = StayNum
    BY <2>1, StandStill
  <2>3. Types'
    BY <1>0, <2>1 DEF Types, counters
  <2> QED
    BY <1>0, <1>q, <2>1, <2>2, <2>3 DEF Exact, Uncounted, LimitIsKept, OneStays, counters
<1>3. CASE CreateThread
  <2>1. PICK t \in Threads : thread[t] = "none" /\ Goto(t, "loop")
    BY <1>3 DEF CreateThread
  <2>2. /\ UNCHANGED <<counters, m_bClose, tasks, phantoms>>
        /\ control = "create" /\ control' = "countTotal"
    BY <1>3 DEF CreateThread, ControlGoto
  <2>3. "loop" \in Pcs
    BY DEF Pcs
  <2>4. /\ thread' \in [Threads -> Pcs]
        /\ LiveNum' = LiveNum + 1 /\ FreeNum' = FreeNum + 1 /\ StayNum' = StayNum + 1
    BY <1>0, <1>n, <2>1, <2>3, GotoCounts DEF FreePcs
  <2>5. Types'
    BY <1>0, <2>2, <2>4 DEF Types, counters
  <2>6. Exact'
    BY <1>0, <1>n, <2>2, <2>4 DEF Exact, Uncounted, counters, Types
  <2>7. LimitIsKept' /\ OneStays'
    BY <1>0, <1>n, <2>2, <2>4 DEF LimitIsKept, OneStays, counters, Types
  <2> QED
    BY <1>q, <2>5, <2>6, <2>7
<1>4. CASE CreateThreadFails
  <2>1. /\ UNCHANGED <<counters, m_bClose, tasks, thread>>
        /\ control = "create" /\ control' = "countTotal"
        /\ phantoms < MaxFailures /\ phantoms' = phantoms + 1
    BY <1>4 DEF CreateThreadFails, ControlGoto
  <2>2. LiveNum' = LiveNum /\ FreeNum' = FreeNum /\ StayNum' = StayNum
    BY <2>1, StandStill
  <2>3. phantoms' \in Nat /\ phantoms' <= MaxFailures
    BY <1>0, <1>s, <2>1 DEF Types
  <2>4. Types'
    BY <1>0, <2>1, <2>3 DEF Types, counters
  <2>5. Exact'
    BY <1>0, <1>n, <2>1, <2>2 DEF Exact, Uncounted, counters, Types
  <2>6. LimitIsKept' /\ OneStays'
    BY <1>0, <1>n, <2>1, <2>2 DEF LimitIsKept, OneStays, counters, Types
  <2> QED
    BY <1>q, <2>4, <2>5, <2>6
<1>5. CASE CountTotal
  <2>1. /\ UNCHANGED <<m_nFreeNum, m_bClose, tasks, thread, phantoms>>
        /\ control = "countTotal" /\ control' = "countFree" /\ m_nTotalNum' = m_nTotalNum + 1
    BY <1>5 DEF CountTotal, ControlGoto
  <2>2. LiveNum' = LiveNum /\ FreeNum' = FreeNum /\ StayNum' = StayNum
    BY <2>1, StandStill
  <2>3. m_nTotalNum' \in Int /\ m_nTotalNum' <= m_nThreadMaxNum
    BY <1>0, <1>s, <2>1 DEF Types, LimitIsKept
  <2>4. Types'
    BY <1>0, <2>1, <2>3 DEF Types
  <2>5. Exact'
    BY <1>0, <1>n, <2>1, <2>2 DEF Exact, Uncounted, Types
  <2> QED
    BY <1>q, <2>1, <2>4, <2>5 DEF LimitIsKept, OneStays
<1>6. CASE CountFree
  <2>1. /\ UNCHANGED <<m_nTotalNum, m_bClose, tasks, thread, phantoms>>
        /\ control = "countFree" /\ control' = "loop" /\ m_nFreeNum' = m_nFreeNum + 1
    BY <1>6 DEF CountFree, ControlGoto
  <2>2. LiveNum' = LiveNum /\ FreeNum' = FreeNum /\ StayNum' = StayNum
    BY <2>1, StandStill
  <2>3. Types'
    BY <1>0, <2>1 DEF Types
  <2>4. Exact'
    BY <1>0, <1>n, <2>1, <2>2 DEF Exact, Uncounted, Types
  <2> QED
    BY <1>q, <2>1, <2>3, <2>4 DEF LimitIsKept, OneStays
<1>7. ASSUME NEW t \in Threads, RunLoop(t) \/ PopTask(t) PROVE IInv'
  <2>1. PICK pc \in {"closed", "pop", "busy", "loop"} : Goto(t, pc)
    BY <1>7 DEF RunLoop, PopTask
  <2>2. /\ UNCHANGED <<m_nTotalNum, m_nFreeNum, m_bClose, control, phantoms>>
        /\ thread[t] \in {"loop", "pop"}
    BY <1>7 DEF RunLoop, PopTask, counters
  <2>3. tasks' \in 0 .. TaskRoom
    BY <1>0, <1>7, <1>s DEF RunLoop, PopTask, Types
  <2>4. pc \in Pcs \ {"none"} /\ pc # "decTotal" /\ pc \in FreePcs /\ thread[t] \in FreePcs
    BY <2>2 DEF Pcs, FreePcs
  <2>5. m_nFreeNum' = m_nFreeNum + 1 - 1
    BY <1>0, <2>2 DEF Types
  <2> QED
    BY <2>1, <2>2, <2>3, <2>4, <2>5, RunStep
<1>8. ASSUME NEW t \in Threads, DecFree(t) \/ IncFree(t) PROVE IInv'
  <2>1. PICK pc \in {"run", "loop"} : Goto(t, pc) /\ thread[t] = (IF pc = "run" THEN "busy" ELSE "incFree")
                                      /\ m_nFreeNum' = IF pc = "run" THEN m_nFreeNum - 1 ELSE m_nFreeNum + 1
    BY <1>8 DEF DecFree, IncFree
  <2>2. UNCHANGED <<m_nTotalNum, m_bClose, control, phantoms, tasks>>
    BY <1>8 DEF DecFree, IncFree
  <2>3. tasks' \in 0 .. TaskRoom
    BY <1>0, <2>2 DEF Types
  <2>4. /\ pc \in Pcs \ {"none"} /\ pc # "decTotal" /\ thread[t] \notin {"none", "decTotal"}
        /\ pc \in FreePcs <=> pc = "loop"
        /\ thread[t] \in FreePcs <=> pc = "run"
    BY <2>1 DEF Pcs, FreePcs
  <2>5. m_nFreeNum' = m_nFreeNum + (IF pc \in FreePcs THEN 1 ELSE 0)
                                 - (IF thread[t] \in FreePcs THEN 1 ELSE 0)
    BY <1>0, <2>1, <2>4 DEF Types
  <2> QED
    BY <2>1, <2>2, <2>3, <2>4, <2>5, RunStep
<1>9. ASSUME NEW t \in Threads, RunTask(t) PROVE IInv'
  <2>1. /\ UNCHANGED <<m_nTotalNum, m_nFreeNum, m_bClose, tasks, control, phantoms>>
        /\ thread[t] = "run"
        /\ Goto(t, IF m_nFreeNum >= m_nThreadDefualtNum THEN "decTotal" ELSE "incFree")
    BY <1>9 DEF RunTask, counters
  <2>2. CASE m_nFreeNum >= m_nThreadDefualtNum
    <3>1. "decTotal" \in Pcs /\ Goto(t, "decTotal")
      BY <2>1, <2>2 DEF Pcs
    <3>2. /\ thread' \in [Threads -> Pcs]
          /\ LiveNum' = LiveNum /\ FreeNum' = FreeNum /\ StayNum' = StayNum - 1
      BY <1>0, <1>n, <2>1, <3>1, GotoCounts DEF FreePcs
    <3>3. Types'
      BY <1>0, <2>1, <3>2 DEF Types
    <3>4. Exact'
      BY <1>0, <2>1, <3>2 DEF Exact, Uncounted
    <3>5. FreeNum + 1 <= StayNum
      BY <2>1, NumOrder
    <3>6. ASSUME control = "countTotal" PROVE FreeNum + phantoms >= 1
      BY <1>0, <1>n, <1>s, <2>2, <3>6 DEF Exact, Types
    <3>7. OneStays'
      BY <1>0, <1>n, <2>1, <3>2, <3>5, <3>6 DEF OneStays, Types
    <3> QED
      BY <1>0, <1>q, <2>1, <3>3, <3>4, <3>7 DEF LimitIsKept
  <2>3. CASE ~(m_nFreeNum >= m_nThreadDefualtNum)
    <3>1. "incFree" \in Pcs \ {"none"} /\ Goto(t, "incFree") /\ "incFree" \notin FreePcs /\ thread[t] \notin FreePcs
      BY <2>1, <2>3 DEF Pcs, FreePcs
    <3>2. tasks' \in 0 .. TaskRoom /\ m_nFreeNum' = m_nFreeNum + 0 - 0
      BY <1>0, <2>1 DEF Types
    <3> QED
      BY <2>1, <3>1, <3>2, RunStep
  <2> QED
    BY <2>2, <2>3
<1>10. ASSUME NEW t \in Threads, DecTotal(t) PROVE IInv'
  <2>1. /\ UNCHANGED <<m_nFreeNum, m_bClose, tasks, control, phantoms>>
        /\ thread[t] = "decTotal" /\ Goto(t, "none") /\ m_nTotalNum' = m_nTotalNum - 1
    BY <1>10 DEF DecTotal
  <2>2. "none" \in Pcs
    BY DEF Pcs
  <2>3. /\ thread' \in [Threads -> Pcs]
        /\ LiveNum' = LiveNum - 1 /\ FreeNum' = FreeNum /\ StayNum' = StayNum
    BY <1>0, <1>n, <2>1, <2>2, GotoCounts DEF FreePcs
  <2>4. m_nTotalNum' \in Int /\ m_nTotalNum' <= m_nThreadMaxNum
    BY <1>0, <1>s, <2>1 DEF Types
  <2>5. Types'
    BY <1>0, <2>1, <2>3, <2>4 DEF Types
  <2>6. Exact'
    BY <1>0, <1>n, <2>1, <2>3 DEF Exact, Uncounted, Types
  <2>7. LimitIsKept' /\ OneStays'
    BY <1>0, <1>n, <1>s, <2>1, <2>3 DEF LimitIsKept, OneStays, Types
  <2> QED
    BY <1>q, <2>5, <2>6, <2>7
<1> QED
  BY <1>1, <1>2, <1>3, <1>4, <1>5, <1>6, <1>7, <1>8, <1>9, <1>10 DEF Next, Control, Run, OwnStep

-----------------------------------------------------------------------------
(* The theorems                                                            *)

LEMMA Invariant == Spec => []IInv
BY IInvInit, IInvNext, PTL DEF Spec

\* Every variable has its type; the total is never negative, although a thread
\* may leave before control has counted it.
THEOREM TypeCorrect == Spec => []TypeOK
<1>1. ASSUME IInv PROVE TypeOK
  <2>1. Types /\ Exact /\ OneStays
    BY <1>1, ExactIsExact DEF IInv
  <2>2. LiveNum \in Nat /\ StayNum \in Nat /\ StayNum <= LiveNum
    BY NumType, NumOrder
  <2>3. m_nTotalNum >= 0
    BY <2>1, <2>2 DEF Exact, Uncounted, OneStays, Types
  <2>4. m_nThreadMaxNum \in Nat /\ MaxFailures \in Nat
    BY PoolSizeAssumption
  <2>5. m_nTotalNum \in 0 .. m_nThreadMaxNum /\ phantoms \in 0 .. MaxFailures
    BY <2>1, <2>3, <2>4 DEF Types
  <2> QED
    BY <2>1, <2>5 DEF Types, TypeOK, Pcs
<1> QED
  BY <1>1, Invariant, PTL

\* The counters are those of the threads that run, for any number of them.
THEOREM CountersAreRight == Spec => []CountersAreExact
<1>1. IInv => CountersAreExact
  BY DEF IInv
<1> QED
  BY <1>1, Invariant, PTL

\* The limit holds although it is tested before the thread is counted: control
\* alone adds threads.
THEOREM LimitHolds == Spec => []ThreadsAreBounded
<1>1. ASSUME IInv PROVE ThreadsAreBounded
  <2>1. Types /\ Exact /\ LimitIsKept
    BY <1>1, ExactIsExact DEF IInv
  <2>2. LiveNum \in Nat /\ m_nThreadMaxNum \in Nat
    BY NumType, PoolSizeAssumption
  <2>3. LiveNum <= m_nThreadMaxNum
    BY <2>1, <2>2 DEF Exact, Uncounted, LimitIsKept, Types
  <2> QED
    BY <2>3 DEF ThreadsAreBounded, LiveNum
<1> QED
  BY <1>1, Invariant, PTL

\* A thread leaves only when, without it, enough are free.
LEMMA StayNext ==
  ASSUME IInv, [Next]_vars, StayNum + phantoms >= m_nThreadDefualtNum
  PROVE  StayNum' + phantoms' >= m_nThreadDefualtNum
<1>0. Types /\ Exact
  BY ExactIsExact DEF IInv
<1>n. StayNum \in Nat /\ FreeNum \in Nat /\ phantoms \in Nat /\ m_nThreadDefualtNum \in Nat
  BY <1>0, NumType, PoolSizeAssumption DEF Types
<1>1. ASSUME thread' = thread, phantoms' \in {phantoms, phantoms + 1}
      PROVE  StayNum' + phantoms' >= m_nThreadDefualtNum
  <2>1. StayNum' = StayNum
    BY <1>1, StandStill
  <2>2. phantoms' = phantoms \/ phantoms' = phantoms + 1
    BY <1>1
  <2>3. CASE phantoms' = phantoms
    BY <2>1, <2>3
  <2>4. CASE phantoms' = phantoms + 1
    <3>1. \A s, p, d \in Nat : s + p >= d => s + (p + 1) >= d
      OBVIOUS
    <3> QED
      BY <1>n, <2>1, <2>4, <3>1
  <2> QED
    BY <2>2, <2>3, <2>4
\* A thread that goes on to a place where it still stays.
<1>2. ASSUME NEW t \in Threads, NEW pc \in Pcs, Goto(t, pc), phantoms' = phantoms,
             thread[t] \notin {"none", "decTotal"} => pc \notin {"none", "decTotal"}
      PROVE  StayNum' + phantoms' >= m_nThreadDefualtNum
  <2>1. StayNum' = StayNum \/ StayNum' = StayNum + 1
    BY <1>0, <1>2, <1>n, GotoCounts
  <2> QED
    BY <1>2, <1>n, <2>1
<1>3. CASE AddTask \/ UnInitThreadPool \/ UNCHANGED vars \/ ControlLoop \/ CheckTotal \/ CountTotal \/ CountFree
  BY <1>1, <1>3 DEF AddTask, UnInitThreadPool, vars, ControlLoop, CheckTotal, CountTotal, CountFree
<1>4. CASE CreateThreadFails
  BY <1>1, <1>4 DEF CreateThreadFails
<1>5. CASE CreateThread
  <2>1. PICK t \in Threads : thread[t] = "none" /\ Goto(t, "loop")
    BY <1>5 DEF CreateThread
  <2>2. phantoms' = phantoms /\ "loop" \in Pcs
    BY <1>5 DEF CreateThread, Pcs
  <2> QED
    BY <1>2, <2>1, <2>2
<1>6. ASSUME NEW t \in Threads, RunLoop(t) \/ PopTask(t) \/ DecFree(t) \/ DecTotal(t) \/ IncFree(t)
      PROVE  StayNum' + phantoms' >= m_nThreadDefualtNum
  <2>1. PICK pc \in {"closed", "pop", "busy", "loop", "run", "none"} :
          Goto(t, pc) /\ (pc = "none" => thread[t] = "decTotal")
    BY <1>6 DEF RunLoop, PopTask, DecFree, DecTotal, IncFree
  <2>2. phantoms' = phantoms
    BY <1>6 DEF RunLoop, PopTask, DecFree, DecTotal, IncFree
  <2>3. pc \in Pcs
    BY DEF Pcs
  <2> QED
    BY <1>2, <2>1, <2>2, <2>3
<1>7. ASSUME NEW t \in Threads, RunTask(t) PROVE StayNum' + phantoms' >= m_nThreadDefualtNum
  <2>1. /\ thread[t] = "run" /\ phantoms' = phantoms
        /\ Goto(t, IF m_nFreeNum >= m_nThreadDefualtNum THEN "decTotal" ELSE "incFree")
    BY <1>7 DEF RunTask
  <2>2. CASE m_nFreeNum >= m_nThreadDefualtNum
    <3>1. "decTotal" \in Pcs /\ Goto(t, "decTotal")
      BY <2>1, <2>2 DEF Pcs
    <3>2. StayNum' = StayNum - 1
      BY <1>0, <1>n, <2>1, <3>1, GotoCounts
    <3>3. FreeNum + 1 <= StayNum
      BY <2>1, NumOrder
    <3>4. FreeNum + phantoms >= m_nFreeNum /\ m_nFreeNum \in Int
      BY <1>0, <1>n DEF Exact, Types
    <3> QED
      BY <1>n, <2>1, <2>2, <3>2, <3>3, <3>4
  <2>3. CASE ~(m_nFreeNum >= m_nThreadDefualtNum)
    <3>1. "incFree" \in Pcs /\ Goto(t, "incFree")
      BY <2>1, <2>3 DEF Pcs
    <3> QED
      BY <1>2, <2>1, <3>1
  <2> QED
    BY <2>2, <2>3
<1> QED
  BY <1>3, <1>4, <1>5, <1>6, <1>7 DEF Next, Control, Run, OwnStep

\* Threads that leave at the same time do not shrink the pool below its default
\* (RunThreadProc's test of m_nFreeNum after a task).
THEOREM DefaultIsKept == Spec => NeverShrinksBelowDefault
<1>1. IInv /\ [Next]_vars =>
        [LET n == Cardinality(Staying) + phantoms
         IN  n >= m_nThreadDefualtNum => n' >= m_nThreadDefualtNum]_vars
  BY StayNext DEF StayNum
<1> QED
  BY <1>1, Invariant, PTL DEF Spec, NeverShrinksBelowDefault

=============================================================================
