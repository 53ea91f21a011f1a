--------------------- MODULE MultiWriteSingleReadProofs ---------------------
(***************************************************************************)
(* Proofs about the readers-writer lock for any finite set of threads, any *)
(* of which may upgrade.                                                   *)
(***************************************************************************)
EXTENDS MultiWriteSingleRead, FiniteSetTheorems, TLAPS

\* The inductive invariant.  The flag is up exactly while one thread owns it;
\* the count is that of the threads that hold the lock for reading; a thread
\* that writes has seen the count at 0, and nobody can have joined since; what
\* a thread has read under the lock is still the value.
OneFlagOwner ==
  /\ \A t, u \in FlagOwners : t = u
  /\ writeFlag <=> FlagOwners # {}

Snapshots ==
  \A t \in Threads :
    pc[t] \in {"reading", "wantUpgrade", "drainUpgrade", "store"} =>
      seen[t] = value

IInv ==
  /\ TypeOK
  /\ ReadCountIsReaders
  /\ OneFlagOwner
  /\ Writers # {} => Readers = {}
  /\ Snapshots
  /\ NoLostUpdate

USE DEF Labels, Goto

-----------------------------------------------------------------------------
\* Readers is finite, so that its cardinality is a number that counts.
LEMMA ReadersFinite ==
  /\ IsFiniteSet(Readers)
  /\ Cardinality(Readers) \in Nat
  /\ Cardinality(Readers) = 0 <=> Readers = {}
<1>1. IsFiniteSet(Readers)
  BY ThreadsAssumption, FS_Subset DEF Readers
<1>2. QED
  BY <1>1, FS_CardinalityType, FS_EmptySet

LEMMA ReadersGrow ==
  ASSUME NEW t, t \notin Readers
  PROVE  Cardinality(Readers \cup {t}) = Cardinality(Readers) + 1
  BY ReadersFinite, FS_AddElement

LEMMA ReadersShrink ==
  ASSUME NEW t \in Readers
  PROVE  Cardinality(Readers \ {t}) = Cardinality(Readers) - 1
  BY ReadersFinite, FS_RemoveElement

LEMMA InitIInv == Init => IInv
<1> SUFFICES ASSUME Init PROVE IInv
  OBVIOUS
<1>1. Readers = {} /\ FlagOwners = {} /\ Writers = {}
  BY DEF Init, Readers, FlagOwners, Writers
<1>2. QED
  BY <1>1, FS_EmptySet, ThreadsAssumption
  DEF Init, IInv, TypeOK, ReadCountIsReaders, OneFlagOwner, Snapshots,
      NoLostUpdate

LEMMA TypeStep == TypeOK /\ [Next]_vars => TypeOK'
<1> SUFFICES ASSUME TypeOK, [Next]_vars PROVE TypeOK'
  OBVIOUS
<1> USE DEF TypeOK
<1>1. ASSUME NEW t \in Threads,
             GetValue(t) \/ Update(t) \/ CallReadToWrite(t)
      PROVE  TypeOK'
  BY <1>1 DEF GetValue, Update, CallReadToWrite, Call
<1>2. ASSUME NEW t \in Threads,
             AddReadCount(t) \/ Read(t) \/ DecReadCount(t)
      PROVE  TypeOK'
  BY <1>2, ThreadsAssumption DEF AddReadCount, Read, DecReadCount
<1>3. ASSUME NEW t \in Threads,
             ReadToWrite(t) \/ EnableWrite(t) \/ Drained(t) \/ Load(t)
      PROVE  TypeOK'
  <2>1. CASE ReadToWrite(t)
    BY <2>1 DEF ReadToWrite
  <2>2. CASE EnableWrite(t) \/ Drained(t) \/ Load(t)
    BY <2>2 DEF EnableWrite, Drained, Load
  <2>3. QED
    BY <1>3, <2>1, <2>2
<1>4. ASSUME NEW t \in Threads, Store(t) PROVE TypeOK'
  BY <1>4, ThreadsAssumption DEF Store, Apply
<1>5. ASSUME NEW t \in Threads, DisableWrite(t) PROVE TypeOK'
  BY <1>5, ThreadsAssumption DEF DisableWrite
<1>6. CASE UNCHANGED vars
  BY <1>6 DEF vars
<1>7. QED
  BY <1>1, <1>2, <1>3, <1>4, <1>5, <1>6 DEF Next, Step

\* Every field keeps its type; the count never goes below 0.
THEOREM TypeCorrect == Spec => []TypeOK
<1>1. Init => TypeOK
  BY InitIInv DEF IInv
<1>2. QED
  BY <1>1, TypeStep, PTL DEF Spec

LEMMA NextIInv == IInv /\ [Next]_vars => IInv'
<1> SUFFICES ASSUME IInv, [Next]_vars PROVE IInv'
  OBVIOUS
<1>0. TypeOK'
  BY TypeStep DEF IInv
<1> USE DEF IInv, TypeOK, ReadCountIsReaders, OneFlagOwner, Snapshots,
            NoLostUpdate
<1>1. ASSUME NEW t \in Threads,
             GetValue(t) \/ Update(t) \/ CallReadToWrite(t)
                \/ Read(t) \/ Load(t)
      PROVE  IInv'
  <2>1. Readers' = Readers /\ FlagOwners' = FlagOwners /\ Writers' = Writers
    BY <1>1 DEF GetValue, Update, CallReadToWrite, Call, Read, Load,
                Readers, FlagOwners, Writers
  <2>2. QED
    BY <1>0, <1>1, <2>1
    DEF GetValue, Update, CallReadToWrite, Call, Read, Load
<1>2. ASSUME NEW t \in Threads, AddReadCount(t)
      PROVE  IInv'
  <2>1. Readers' = Readers \cup {t} /\ t \notin Readers
    BY <1>2 DEF AddReadCount, Readers
  <2>2. FlagOwners' = FlagOwners /\ Writers' = Writers /\ Writers = {}
    BY <1>2 DEF AddReadCount, FlagOwners, Writers
  <2>3. QED
    BY <1>0, <1>2, <2>1, <2>2, ReadersGrow DEF AddReadCount
<1>3. ASSUME NEW t \in Threads, DecReadCount(t)
      PROVE  IInv'
  <2>1. Readers' = Readers \ {t} /\ t \in Readers
    BY <1>3 DEF DecReadCount, Readers
  <2>2. FlagOwners' = FlagOwners /\ Writers' = Writers
    BY <1>3 DEF DecReadCount, FlagOwners, Writers
  <2>3. readCount > 0
    BY <2>1, ReadersFinite
  <2>4. QED
    BY <1>0, <1>3, <2>1, <2>2, <2>3, ReadersShrink DEF DecReadCount
<1>4. ASSUME NEW t \in Threads, ReadToWrite(t)
      PROVE  IInv'
  <2>1. Readers' = Readers \ {t} /\ t \in Readers
    BY <1>4 DEF ReadToWrite, Readers
  <2>2. FlagOwners = {} /\ FlagOwners' = {t} /\ Writers' = {}
    BY <1>4 DEF ReadToWrite, FlagOwners, Writers
  <2>3. readCount > 0
    BY <2>1, ReadersFinite
  <2>4. QED
    BY <1>0, <1>4, <2>1, <2>2, <2>3, ReadersShrink DEF ReadToWrite
<1>5. ASSUME NEW t \in Threads, EnableWrite(t)
      PROVE  IInv'
  <2>1. Readers' = Readers
    BY <1>5 DEF EnableWrite, Readers
  <2>2. FlagOwners = {} /\ FlagOwners' = {t} /\ Writers' = {}
    BY <1>5 DEF EnableWrite, FlagOwners, Writers
  <2>3. QED
    BY <1>0, <1>5, <2>1, <2>2 DEF EnableWrite
<1>6. ASSUME NEW t \in Threads, Drained(t)
      PROVE  IInv'
  <2>1. Readers' = Readers /\ Readers = {}
    BY <1>6, ReadersFinite DEF Drained, Readers
  <2>2. FlagOwners' = FlagOwners
    BY <1>6 DEF Drained, FlagOwners, Writers
  <2>3. QED
    BY <1>0, <1>6, <2>1, <2>2 DEF Drained
<1>7. ASSUME NEW t \in Threads, Store(t)
      PROVE  IInv'
  <2>1. Readers' = Readers /\ FlagOwners' = FlagOwners /\ Writers' = Writers
    BY <1>7 DEF Store, Readers, FlagOwners, Writers
  <2>2. t \in Writers /\ Readers = {} /\ FlagOwners = {t}
    BY <1>7 DEF Store, Writers, FlagOwners
  <2>3. Snapshots'
    BY <1>7, <2>2 DEF Store, Readers, FlagOwners, Writers
  <2>4. QED
    BY <1>0, <1>7, <2>1, <2>3 DEF Store
<1>8. ASSUME NEW t \in Threads, DisableWrite(t)
      PROVE  IInv'
  <2>1. Readers' = Readers
    BY <1>8 DEF DisableWrite, Readers
  <2>2. FlagOwners = {t} /\ FlagOwners' = {} /\ Writers' = {}
    BY <1>8 DEF DisableWrite, FlagOwners, Writers
  <2>3. QED
    BY <1>0, <1>8, <2>1, <2>2 DEF DisableWrite
<1>9. CASE UNCHANGED vars
  <2>1. Readers' = Readers /\ FlagOwners' = FlagOwners /\ Writers' = Writers
    BY <1>9 DEF vars, Readers, FlagOwners, Writers
  <2>2. QED
    BY <1>0, <1>9, <2>1 DEF vars
<1>10. QED
  BY <1>1, <1>2, <1>3, <1>4, <1>5, <1>6, <1>7, <1>8, <1>9 DEF Next, Step

THEOREM Invariance == Spec => []IInv
  BY InitIInv, NextIInv, PTL DEF Spec

\* A writer is alone, whichever threads upgrade: Lock.h 142 for any number of
\* threads.
THEOREM WriterIsAlone == Spec => []WriterAlone
<1>1. IInv => WriterAlone
  BY DEF IInv, OneFlagOwner, WriterAlone, FlagOwners
<1>2. QED
  BY <1>1, Invariance, PTL

\* The count is that of the threads that hold the lock for reading.
THEOREM CountIsExact == Spec => []ReadCountIsReaders
  BY Invariance, PTL DEF IInv

\* No update is lost, and none gets in between the read and the write of a
\* reader that upgrades.
THEOREM UpdatesAreAtomic == Spec => []NoLostUpdate
  BY Invariance, PTL DEF IInv
=============================================================================
