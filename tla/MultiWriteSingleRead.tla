------------------------ MODULE MultiWriteSingleRead ------------------------
(***************************************************************************)
(* CSRongMultiWriteSingleRead of Lock.cpp, many readers or one writer, and *)
(* MWSR_int, the counter it guards.  Each access of the lock to its fields *)
(* is a critical section of its own, hence one step; the loops around them *)
(* spin, which leaves the state alone.                                     *)
(***************************************************************************)
EXTENDS Integers, FiniteSets

CONSTANTS Threads,     \* the threads that share the lock
          Upgraders,   \* those of them that call ReadToWrite
          Values       \* the values of the counter that are told apart

ASSUME ThreadsAssumption ==
  /\ IsFiniteSet(Threads)
  /\ Upgraders \subseteq Threads
  /\ Values \subseteq Int /\ 0 \in Values

VARIABLES readCount,   \* s_nReadCount
          writeFlag,   \* s_bReadFlag, which says that somebody writes
          value,       \* m_nValue
          pc,          \* what each thread does with the lock
          seen,        \* the value a thread has read under the lock
          expected     \* history: the value if each update were atomic

vars == <<readCount, writeFlag, value, pc, seen, expected>>

Labels == {"idle", "wantRead", "holdRead", "reading", "wantUpgrade",
           "drainUpgrade", "wantWrite", "drainWrite", "load", "store",
           "stored"}

Init ==
  /\ readCount = 0
  /\ writeFlag = FALSE
  /\ value = 0
  /\ pc = [t \in Threads |-> "idle"]
  /\ seen = [t \in Threads |-> 0]
  /\ expected = 0

-----------------------------------------------------------------------------
Goto(t, from, to) ==
  /\ pc[t] = from
  /\ pc' = [pc EXCEPT ![t] = to]

Call(t, what) ==
  /\ Goto(t, "idle", what)
  /\ UNCHANGED <<readCount, writeFlag, value, seen, expected>>

\* Mutant: the reader does not look at the write flag.
AddReadCountUnguarded(t) ==
  /\ Goto(t, "wantRead", "holdRead")
  /\ readCount' = readCount + 1
  /\ UNCHANGED <<writeFlag, value, seen, expected>>

AddReadCount(t) ==
  /\ Goto(t, "wantRead", "holdRead")
  /\ ~writeFlag
  /\ readCount' = readCount + 1
  /\ UNCHANGED <<writeFlag, value, seen, expected>>

\* nRet = m_nValue of MWSR_int::GetValue.
Read(t) ==
  /\ Goto(t, "holdRead", "reading")
  /\ seen' = [seen EXCEPT ![t] = value]
  /\ UNCHANGED <<readCount, writeFlag, value, expected>>

\* Mutant: a reader leaves without giving its count back.
DecReadCountForgotten(t) ==
  /\ Goto(t, "reading", "idle")
  /\ seen' = [seen EXCEPT ![t] = 0]
  /\ UNCHANGED <<readCount, writeFlag, value, expected>>

DecReadCount(t) ==
  /\ Goto(t, "reading", "idle")
  /\ readCount' = IF readCount > 0 THEN readCount - 1 ELSE readCount
  /\ seen' = [seen EXCEPT ![t] = 0]
  /\ UNCHANGED <<writeFlag, value, expected>>

\* A reader that decides to update the value it has read.
CallReadToWrite(t) ==
  /\ t \in Upgraders
  /\ Goto(t, "reading", "wantUpgrade")
  /\ UNCHANGED <<readCount, writeFlag, value, seen, expected>>

\* Mutant: the flag is set without a look at it.
ReadToWriteUnguarded(t) ==
  /\ Goto(t, "wantUpgrade", "drainUpgrade")
  /\ writeFlag' = TRUE
  /\ readCount' = IF readCount > 0 THEN readCount - 1 ELSE readCount
  /\ UNCHANGED <<value, seen, expected>>

ReadToWrite(t) ==
  /\ Goto(t, "wantUpgrade", "drainUpgrade")
  /\ ~writeFlag
  /\ writeFlag' = TRUE
  /\ readCount' = IF readCount > 0 THEN readCount - 1 ELSE readCount
  /\ UNCHANGED <<value, seen, expected>>

EnableWrite(t) ==
  /\ Goto(t, "wantWrite", "drainWrite")
  /\ ~writeFlag
  /\ writeFlag' = TRUE
  /\ UNCHANGED <<readCount, value, seen, expected>>

\* The second loop of EnableWrite and of ReadToWrite ends when GetReadCount
\* returns 0.
Drained(t) ==
  /\ readCount = 0
  /\ Goto(t, "drainWrite", "load") \/ Goto(t, "drainUpgrade", "store")
  /\ UNCHANGED <<readCount, writeFlag, value, seen, expected>>

\* operator++, operator-- and SetValue of MWSR_int.
Apply(update, v) ==
  CASE update = "++" -> v + 1
    [] update = "--" -> v - 1
    [] update = "="  -> 0

\* nRet = ++m_nValue is a load and a store.
Load(t) ==
  /\ Goto(t, "load", "store")
  /\ seen' = [seen EXCEPT ![t] = value]
  /\ UNCHANGED <<readCount, writeFlag, value, expected>>

Store(t) ==
  /\ Goto(t, "store", "stored")
  /\ \E update \in {"++", "--", "="} :
       /\ Apply(update, seen[t]) \in Values     \* the bound
       /\ value' = Apply(update, seen[t])
       /\ expected' = Apply(update, expected)
  /\ UNCHANGED <<readCount, writeFlag, seen>>

DisableWrite(t) ==
  /\ Goto(t, "stored", "idle")
  /\ writeFlag' = FALSE
  /\ seen' = [seen EXCEPT ![t] = 0]
  /\ UNCHANGED <<readCount, value, expected>>

Step(t) ==
  \/ AddReadCount(t) \/ Read(t) \/ DecReadCount(t)
  \/ ReadToWrite(t) \/ EnableWrite(t) \/ Drained(t)
  \/ Load(t) \/ Store(t) \/ DisableWrite(t)

GetValue(t) == Call(t, "wantRead")

Update(t) == Call(t, "wantWrite")

Next ==
  \E t \in Threads :
    GetValue(t) \/ Update(t) \/ CallReadToWrite(t) \/ Step(t)

Spec == Init /\ [][Next]_vars

\* Every thread that can take a step of the lock takes it eventually: Sleep(1)
\* and the critical section keep no thread from running, and a thread that
\* has the lock releases it.
FairSpec == Spec /\ \A t \in Threads : WF_vars(Step(t))

-----------------------------------------------------------------------------
TypeOK ==
  /\ readCount \in Nat
  /\ writeFlag \in BOOLEAN
  /\ value \in Values
  /\ pc \in [Threads -> Labels]
  /\ seen \in [Threads -> Values]
  /\ expected \in Int

Readers == {t \in Threads : pc[t] \in {"holdRead", "reading", "wantUpgrade"}}
Writers == {t \in Threads : pc[t] \in {"load", "store", "stored"}}
FlagOwners == Writers \cup
  {t \in Threads : pc[t] \in {"drainWrite", "drainUpgrade"}}

\* Lock.h 142: while some thread only reads, others may read and none may
\* write; while one writes, no other writes or reads.
WriterAlone == \A t \in Writers : Writers = {t} /\ Readers = {}

\* The read count is the number of threads that hold the lock for reading,
\* those that wait in ReadToWrite included.
ReadCountIsReaders == readCount = Cardinality(Readers)

\* No update is lost: neither to a writer that got in between the load and
\* the store of another, nor to one that got in between the read and the
\* write of a reader that became a writer by ReadToWrite.
NoLostUpdate == value = expected

\* A writer that has raised the flag gets to write: the readers it waits for
\* leave and no new one comes in.  Only a reader in ReadToWrite, which waits
\* for the flag and keeps its count, can prevent it.
WriterGetsInUnlessUpgrade ==
  \A t \in Threads :
    pc[t] \in {"drainWrite", "drainUpgrade"}
      ~> (t \in Writers \/ \E u \in Threads : pc[u] = "wantUpgrade")

\* Lock.cpp 696-697: the loop is endless only when somebody forgets to release
\* a read lock.
WriterGetsIn ==
  \A t \in Threads : pc[t] \in {"drainWrite", "drainUpgrade"} ~> t \in Writers
=============================================================================
