--------------------------- MODULE RingQueueProofs ---------------------------
(***************************************************************************)
(* Proofs about RingQueue for any number of threads, any capacity and any  *)
(* width of the indices.                                                   *)
(***************************************************************************)
EXTENDS RingQueue, TLAPS

-----------------------------------------------------------------------------
(* Remainders by a divisor that is not a literal.                          *)

LEMMA Division ==
  ASSUME NEW a \in Int, NEW c \in Nat, c > 0
  PROVE  /\ a % c \in 0 .. c - 1
         /\ \E q \in Int : a = c * q + (a % c)
<1> DEFINE q == a \div c
<1>1. q \in Int /\ a = c * q + (a % c) /\ a % c \in 0 .. c - 1
  OBVIOUS
<1> HIDE DEF q
<1>2. QED
  BY <1>1

LEMMA QuotientRemainder ==
  ASSUME NEW c \in Nat, c > 0, NEW q \in Int, NEW r \in 0 .. c - 1,
         NEW a \in Int, a = c * q + r
  PROVE  a % c = r
  OBVIOUS

\* Adding a multiple of the divisor does not change the remainder.
LEMMA RemainderPeriod ==
  ASSUME NEW c \in Nat, c > 0, NEW s \in Nat, s % c = 0, NEW i \in Nat
  PROVE  (i + s) % c = i % c
<1>1. PICK p \in Int : s = c * p
  BY Division
<1>2. PICK q \in Int : i = c * q + (i % c)
  BY Division
<1> DEFINE r == i % c
<1>3. r \in 0 .. c - 1
  BY Division
<1>4. c * (q + p) = c * q + c * p /\ c * q \in Int /\ c * p \in Int
  OBVIOUS
<1> HIDE DEF r
<1>5. i + s = c * (q + p) + r
  BY <1>1, <1>2, <1>3, <1>4 DEF r
<1>6. QED
  BY <1>3, <1>5, QuotientRemainder, SMTT(30) DEF r

\* Numbers that are closer to each other than the divisor have different
\* remainders.
LEMMA RemaindersDiffer ==
  ASSUME NEW c \in Nat, c > 0, NEW a \in Nat, NEW b \in Nat, a < b, b - a < c
  PROVE  a % c # b % c
<1>0. a \in Int /\ b \in Int
  OBVIOUS
<1>1. PICK p \in Int : a = c * p + (a % c)
  BY <1>0, Division, Zenon
<1>2. PICK q \in Int : b = c * q + (b % c)
  BY <1>0, Division, Zenon
<1> SUFFICES ASSUME a % c = b % c PROVE FALSE
  OBVIOUS
<1>3. b - a = c * (q - p)
  BY <1>1, <1>2, Division
<1>4. q - p > 0
  BY <1>3
<1>5. c * (q - p) >= c
  BY <1>4
<1>6. QED
  BY <1>3, <1>5

-----------------------------------------------------------------------------
(* Arithmetic of the wrapping indices.                                     *)

\* i + 1 is an index again.
LEMMA IncType ==
  ASSUME NEW i \in Indices
  PROVE  Inc(i) \in Indices
  BY CapacityAssumption DEF Indices, Inc

\* Advancing head by one lengthens the distance by one, as long as the
\* distance is below the capacity.
LEMMA IncHead ==
  ASSUME NEW h \in Indices, NEW tl \in Indices, Sub(h, tl) < kCapacity
  PROVE  Sub(Inc(h), tl) = Sub(h, tl) + 1
  BY CapacityAssumption DEF Indices, Inc, Sub

\* Advancing tail by one shortens a distance that is not 0 by one.
LEMMA IncTail ==
  ASSUME NEW h \in Indices, NEW tl \in Indices, h # tl
  PROVE  Sub(h, Inc(tl)) = Sub(h, tl) - 1
  BY CapacityAssumption DEF Indices, Inc, Sub

\* A distance is 0 only between equal indices.
LEMMA SubRange ==
  ASSUME NEW h \in Indices, NEW tl \in Indices
  PROVE  /\ Sub(h, tl) \in 0 .. IndexSpan - 1
         /\ Sub(h, tl) = 0 <=> h = tl
  BY CapacityAssumption DEF Indices, Sub

\* The slot of an index is a slot of the array.
LEMMA SlotType ==
  ASSUME NEW i \in Indices
  PROVE  Slot(i) \in Slots
  BY CapacityAssumption DEF Indices, Slots, Slot, kMask

-----------------------------------------------------------------------------
(* The items between two indices.                                          *)

LEMMA Capacity ==
  /\ kCapacity \in Nat /\ kCapacity > 0
  /\ IndexSpan \in Nat /\ IndexSpan % kCapacity = 0
  /\ \A i \in Indices : i \in Nat
  BY CapacityAssumption DEF Indices

\* The slot n places behind h's tail is h's own when n is their distance.
LEMMA SlotAhead ==
  ASSUME NEW h \in Indices, NEW tl \in Indices
  PROVE  Slot(tl + Sub(h, tl)) = Slot(h)
<1>1. CASE h >= tl
  BY <1>1 DEF Sub, Indices
<1>2. CASE ~(h >= tl)
  <2>1. tl + Sub(h, tl) = h + IndexSpan
    BY <1>2, CapacityAssumption DEF Sub, Indices
  <2>2. (h + IndexSpan) % kCapacity = h % kCapacity
    BY Capacity, RemainderPeriod, Zenon
  <2>3. QED
    BY <2>1, <2>2 DEF Slot
<1>3. QED
  BY <1>1, <1>2

\* Slots counted from tail + 1 are those counted from tail, one later.
LEMMA SlotNext ==
  ASSUME NEW tl \in Indices, NEW j \in Nat
  PROVE  Slot(Inc(tl) + j) = Slot(tl + 1 + j)
<1>1. CASE tl # IndexSpan - 1
  BY <1>1 DEF Inc, Indices
<1>2. CASE tl = IndexSpan - 1
  <2>1. (j + IndexSpan) % kCapacity = j % kCapacity
    BY Capacity, RemainderPeriod, Zenon
  <2>2. Inc(tl) + j = j /\ tl + 1 + j = j + IndexSpan
    BY <1>2, CapacityAssumption DEF Inc
  <2>3. QED
    BY <2>1, <2>2 DEF Slot
<1>3. QED
  BY <1>1, <1>2

\* Storing into the slot at head does not touch an item that is queued.
LEMMA WindowStore ==
  ASSUME NEW h \in Indices, NEW tl \in Indices, Sub(h, tl) < kCapacity,
         NEW S, NEW q \in [Slots -> S], NEW x
  PROVE  Window([q EXCEPT ![Slot(h)] = x], h, tl) = Window(q, h, tl)
<1> SUFFICES ASSUME NEW k \in 1 .. Sub(h, tl)
             PROVE  Slot(tl + k - 1) # Slot(h)
  BY DEF Window
<1>1. Sub(h, tl) \in Nat /\ tl \in Nat
  BY SubRange DEF Indices
<1>2. /\ tl + k - 1 \in Nat /\ tl + Sub(h, tl) \in Nat
      /\ tl + k - 1 < tl + Sub(h, tl)
      /\ (tl + Sub(h, tl)) - (tl + k - 1) < kCapacity
  BY <1>1, CapacityAssumption
<1>3. (tl + k - 1) % kCapacity # (tl + Sub(h, tl)) % kCapacity
  BY <1>2, Capacity, RemaindersDiffer, Zenon
<1>4. QED
  BY <1>3, SlotAhead DEF Slot

\* Advancing head appends what the slot at head holds.
LEMMA WindowPush ==
  ASSUME NEW h \in Indices, NEW tl \in Indices, Sub(h, tl) < kCapacity,
         NEW S, NEW q \in [Slots -> S]
  PROVE  Window(q, Inc(h), tl) = Append(Window(q, h, tl), q[Slot(h)])
<1> DEFINE n == Sub(h, tl)
<1>1. n \in Nat /\ Sub(Inc(h), tl) = n + 1 /\ tl \in Nat
  BY SubRange, IncHead DEF Indices
<1>2. Slot(tl + (n + 1) - 1) = Slot(h)
  BY <1>1, SlotAhead
<1>3. Window(q, h, tl) = [k \in 1 .. n |-> q[Slot(tl + k - 1)]]
  BY DEF Window
<1>4. Window(q, Inc(h), tl) = [k \in 1 .. n + 1 |-> q[Slot(tl + k - 1)]]
  BY <1>1 DEF Window
<1> HIDE DEF n
<1>5. QED
  BY <1>1, <1>2, <1>3, <1>4

\* Advancing tail removes the item at tail, which is the oldest.
LEMMA WindowPop ==
  ASSUME NEW h \in Indices, NEW tl \in Indices, h # tl,
         NEW S, NEW q \in [Slots -> S]
  PROVE  /\ Window(q, h, tl) # <<>>
         /\ Head(Window(q, h, tl)) = q[Slot(tl)]
         /\ Window(q, h, Inc(tl)) = Tail(Window(q, h, tl))
<1> DEFINE n == Sub(h, tl)
<1>1. n \in Nat /\ n > 0 /\ Sub(h, Inc(tl)) = n - 1 /\ tl \in Nat
  BY SubRange, IncTail DEF Indices
<1>2. Window(q, h, tl) = [k \in 1 .. n |-> q[Slot(tl + k - 1)]]
  BY DEF Window
<1>3. Window(q, h, Inc(tl)) = [k \in 1 .. n - 1 |-> q[Slot(tl + k)]]
  <2>1. ASSUME NEW k \in 1 .. n - 1
        PROVE  Slot(Inc(tl) + k - 1) = Slot(tl + k)
    <3>1. k - 1 \in Nat /\ Inc(tl) \in Nat
      BY <1>1, IncType DEF Indices
    <3>2. Slot(Inc(tl) + (k - 1)) = Slot(tl + 1 + (k - 1))
      BY <3>1, SlotNext
    <3>3. Inc(tl) + k - 1 = Inc(tl) + (k - 1) /\ tl + 1 + (k - 1) = tl + k
      BY <1>1, <3>1
    <3>4. QED
      BY <3>2, <3>3
  <2>2. QED
    BY <1>1, <2>1 DEF Window
<1>4. tl + 1 - 1 = tl
  BY <1>1
<1> HIDE DEF n
<1>5. QED
  BY <1>1, <1>2, <1>3, <1>4

-----------------------------------------------------------------------------
LEMMA TypeStep == TypeOK /\ [Next]_vars => TypeOK'
<1> SUFFICES ASSUME TypeOK, [Next]_vars PROVE TypeOK'
  OBVIOUS
<1> USE DEF TypeOK, Goto
<1>1. ASSUME NEW t \in Threads, NEW c \in Calls, Begin(t, c) PROVE TypeOK'
  BY <1>1 DEF Begin, Labels, Results
<1>2. ASSUME NEW t \in Threads, Exchange(t) PROVE TypeOK'
  BY <1>2 DEF Exchange, Labels
<1>3. ASSUME NEW t \in Threads, CompareExchange(t) PROVE TypeOK'
  BY <1>3 DEF CompareExchange, Labels
<1>4. ASSUME NEW t \in Threads, Load(t) PROVE TypeOK'
  BY <1>4 DEF Load, Labels
<1>5. ASSUME NEW t \in Threads, Reject(t) PROVE TypeOK'
  BY <1>5, CapacityAssumption
  DEF Reject, Leave, Labels, Results, Calls, Indices
<1>6. ASSUME NEW t \in Threads, PushIndex(t) PROVE TypeOK'
  BY <1>6, IncType DEF PushIndex, Labels
<1>7. ASSUME NEW t \in Threads, PushSlot(t) PROVE TypeOK'
  <2>1. call[t].item \in Items \cup {NULL}
    BY DEF Calls, NoCall, PopCall, PushCall
  <2>2. QED
    BY <1>7, <2>1, SlotType DEF PushSlot, Labels
<1>8. ASSUME NEW t \in Threads, PopIndex(t) PROVE TypeOK'
  BY <1>8, IncType DEF PopIndex, Labels
<1>9. ASSUME NEW t \in Threads, PopSlot(t) PROVE TypeOK'
  BY <1>9, SlotType DEF PopSlot, Labels, Results
<1>10. ASSUME NEW t \in Threads, Unlock(t) PROVE TypeOK'
  BY <1>10, CapacityAssumption
  DEF Unlock, Leave, Labels, Results, Calls, Indices
<1>11. CASE UNCHANGED vars
  BY <1>11 DEF vars
<1>12. QED
  BY <1>1, <1>2, <1>3, <1>4, <1>5, <1>6, <1>7, <1>8, <1>9, <1>10, <1>11
  DEF Next, PushBack, PopFront, Step, Calls

\* Every variable of the queue keeps its type: the indices stay within
\* index_type, the slots hold pointers or NULL.
THEOREM TypeCorrect == Spec => []TypeOK
<1>1. Init => TypeOK
  BY CapacityAssumption
  DEF Init, TypeOK, Indices, Labels, Calls, Results
<1>2. QED
  BY <1>1, TypeStep, PTL DEF Spec

-----------------------------------------------------------------------------
\* What the thread that holds the lock knows: the indices it has read are the
\* current ones, up to the one it has advanced itself.
Knows(t) ==
  /\ pc[t] # "idle" => call[t].op \in {"push", "pop"}
  /\ pc[t] \in {"index", "slot", "unlock"} =>
       ~Refuses(call[t].op, myHead[t], myTail[t])
  /\ pc[t] \in {"reject", "index"} => myHead[t] = head /\ myTail[t] = tail
  /\ pc[t] \in {"slot", "unlock"} /\ call[t].op = "push" =>
       head = Inc(myHead[t]) /\ tail = myTail[t]
  /\ pc[t] \in {"slot", "unlock"} /\ call[t].op = "pop" =>
       head = myHead[t] /\ tail = Inc(myTail[t])

\* The inductive invariant: a step that advances an index uses the value read
\* under the lock, which is the current one because the lock excludes.
IInv ==
  /\ TypeOK
  /\ MutualExclusion
  /\ NeverOverrun
  /\ \A t \in Threads : Knows(t)

\* The step of one thread does not disturb what another knows, as long as it
\* leaves the indices alone or the other is outside of the lock.
LEMMA KnowsStable ==
  ASSUME NEW u \in Threads, Knows(u),
         pc[u] \in {"idle", "xchg", "spin"} \/ UNCHANGED <<head, tail>>,
         pc'[u] = pc[u], call'[u] = call[u],
         myHead'[u] = myHead[u], myTail'[u] = myTail[u]
  PROVE  Knows(u)'
  BY DEF Knows, Refuses, Full, Empty

LEMMA InitIInv == Init => IInv
  BY CapacityAssumption
  DEF Init, IInv, TypeOK, Indices, Labels, Calls, Results, MutualExclusion,
      InLock, NeverOverrun, Sub, Knows

LEMMA NextIInv == IInv /\ [Next]_vars => IInv'
<1> SUFFICES ASSUME IInv, [Next]_vars PROVE IInv'
  OBVIOUS
<1>1. TypeOK'
  BY TypeStep DEF IInv
<1> USE DEF IInv, TypeOK, MutualExclusion, InLock, NeverOverrun, Goto
<1>2. ASSUME NEW t \in Threads, NEW c \in Calls \ {NoCall}, Begin(t, c)
      PROVE  IInv'
  <2>1. \A u \in Threads \ {t} : Knows(u)'
    BY <1>2, KnowsStable DEF Begin
  <2>2. Knows(t)'
    BY <1>2 DEF Begin, Knows, Calls, NoCall, PopCall, PushCall
  <2>3. QED
    BY <1>1, <1>2, <2>1, <2>2 DEF Begin
<1>3. ASSUME NEW t \in Threads, Exchange(t) \/ CompareExchange(t)
      PROVE  IInv'
  <2>1. \A u \in Threads \ {t} : Knows(u)'
    BY <1>3, KnowsStable DEF Exchange, CompareExchange
  <2>2. Knows(t)'
    BY <1>3 DEF Exchange, CompareExchange, Knows
  <2>3. QED
    BY <1>1, <1>3, <2>1, <2>2 DEF Exchange, CompareExchange
<1>4. ASSUME NEW t \in Threads, Load(t)
      PROVE  IInv'
  <2>1. \A u \in Threads \ {t} : Knows(u)'
    BY <1>4, KnowsStable DEF Load
  <2>2. Knows(t)'
    BY <1>4 DEF Load, Knows
  <2>3. QED
    BY <1>1, <1>4, <2>1, <2>2 DEF Load
<1>5. ASSUME NEW t \in Threads, Reject(t) \/ Unlock(t)
      PROVE  IInv'
  <2>1. \A u \in Threads \ {t} : Knows(u)'
    BY <1>5, KnowsStable DEF Reject, Unlock, Leave
  <2>2. Knows(t)'
    BY <1>5 DEF Reject, Unlock, Leave, Knows
  <2>3. QED
    BY <1>1, <1>5, <2>1, <2>2 DEF Reject, Unlock, Leave
<1>6. ASSUME NEW t \in Threads, PushSlot(t) \/ PopSlot(t)
      PROVE  IInv'
  <2>1. \A u \in Threads \ {t} : Knows(u)'
    BY <1>6, KnowsStable DEF PushSlot, PopSlot
  <2>2. Knows(t)'
    BY <1>6 DEF PushSlot, PopSlot, Knows
  <2>3. QED
    BY <1>1, <1>6, <2>1, <2>2 DEF PushSlot, PopSlot
<1>7. ASSUME NEW t \in Threads, PushIndex(t)
      PROVE  IInv'
  <2>1. ASSUME NEW u \in Threads \ {t} PROVE Knows(u)'
    <3>1. pc[u] \in {"idle", "xchg", "spin"}
      BY <1>7 DEF PushIndex, Labels
    <3>2. QED
      BY <1>7, <3>1, KnowsStable DEF PushIndex
  <2>2. Knows(t)'
    BY <1>7 DEF PushIndex, Knows
  <2>3. NeverOverrun'
    <3>1. Sub(head, tail) < kCapacity
      BY <1>7, SubRange, CapacityAssumption
      DEF PushIndex, Knows, Refuses, Full, kMask
    <3>2. head' = Inc(head) /\ tail' = tail
      BY <1>7 DEF PushIndex, Knows
    <3>3. QED
      BY <3>1, <3>2, IncHead, SubRange, CapacityAssumption DEF NeverOverrun
  <2>4. QED
    BY <1>1, <1>7, <2>1, <2>2, <2>3 DEF PushIndex
<1>8. ASSUME NEW t \in Threads, PopIndex(t)
      PROVE  IInv'
  <2>1. ASSUME NEW u \in Threads \ {t} PROVE Knows(u)'
    <3>1. pc[u] \in {"idle", "xchg", "spin"}
      BY <1>8 DEF PopIndex, Labels
    <3>2. QED
      BY <1>8, <3>1, KnowsStable DEF PopIndex
  <2>2. Knows(t)'
    BY <1>8 DEF PopIndex, Knows
  <2>3. NeverOverrun'
    <3>1. head # tail
      BY <1>8 DEF PopIndex, Knows, Refuses, Empty
    <3>2. tail' = Inc(tail) /\ head' = head
      BY <1>8 DEF PopIndex, Knows
    <3>3. QED
      BY <3>1, <3>2, IncTail, SubRange, CapacityAssumption DEF NeverOverrun
  <2>4. QED
    BY <1>1, <1>8, <2>1, <2>2, <2>3 DEF PopIndex
<1>9. CASE UNCHANGED vars
  BY <1>9 DEF vars, Knows, Refuses, Full, Empty
<1>10. QED
  BY <1>2, <1>3, <1>4, <1>5, <1>6, <1>7, <1>8, <1>9
  DEF Next, PushBack, PopFront, Step, Calls, NoCall, PopCall, PushCall

THEOREM Invariance == Spec => []IInv
  BY InitIInv, NextIInv, PTL DEF Spec

\* The lock excludes, for any number of threads.
THEOREM LockExcludes == Spec => []MutualExclusion
  BY Invariance, PTL DEF IInv

\* The ring never holds more than kCapacity items, wherever the indices wrap.
THEOREM NoOverrun == Spec => []NeverOverrun
  BY Invariance, PTL DEF IInv

-----------------------------------------------------------------------------
\* A wedged ring refuses both operations, so that no index moves again.
LEMMA WedgedRefuses ==
  ASSUME IInv, Wedged, NEW t \in Threads
  PROVE  ~PushIndex(t) /\ ~PopIndex(t)
  BY CapacityAssumption
  DEF IInv, Wedged, PushIndex, PopIndex, Knows, Refuses, Full, Empty, kMask

THEOREM WedgeIsPermanent == Spec => WedgedForever
<1>1. IInv /\ [Next]_vars => [Wedged => UNCHANGED <<head, tail>>]_vars
  <2> SUFFICES ASSUME IInv, Next, Wedged PROVE UNCHANGED <<head, tail>>
    OBVIOUS
  <2> PICK t \in Threads : PushBack(t) \/ PopFront(t) \/ Step(t)
    BY DEF Next
  <2> QED
    BY WedgedRefuses
    DEF PushBack, PopFront, Step, Begin, Exchange, CompareExchange, Load,
        Reject, PushSlot, PopSlot, Unlock
<1>2. QED
  BY <1>1, Invariance, PTL DEF Spec, WedgedForever

-----------------------------------------------------------------------------
(* Refinement of the bounded FIFO queue.                                   *)

\* What the refinement needs to know of an operation beyond IInv: it has been
\* refused for a reason, the item it pushed is in its slot, the item it
\* popped is the one of its slot, and it has no result before it has ended.
Carries(t) ==
  /\ pc[t] = "idle" => call[t] = NoCall
  /\ pc[t] \notin {"idle", "unlock"} => ret[t] = "none"
  /\ pc[t] = "reject" => Refuses(call[t].op, head, tail)
  /\ pc[t] = "unlock" =>
       \/ call[t].op = "push" /\ queue[Slot(myHead[t])] = call[t].item
       \/ call[t].op = "pop" /\ queue[Slot(myTail[t])] = ret[t]

RInv == IInv /\ \A t \in Threads : Carries(t)

\* The step of one thread does not disturb what another carries.
LEMMA CarriesStable ==
  ASSUME NEW u \in Threads, Carries(u),
         pc[u] \in {"idle", "xchg", "spin"} \/ UNCHANGED <<head, tail, queue>>,
         pc'[u] = pc[u], call'[u] = call[u], ret'[u] = ret[u],
         myHead'[u] = myHead[u], myTail'[u] = myTail[u]
  PROVE  Carries(u)'
  BY DEF Carries, Refuses, Full, Empty

LEMMA InitRInv == Init => RInv
  BY InitIInv DEF RInv, Init, Carries

LEMMA NextRInv == RInv /\ [Next]_vars => RInv'
<1> SUFFICES ASSUME RInv, [Next]_vars PROVE \A t \in Threads : Carries(t)'
  BY NextIInv DEF RInv
<1> USE DEF RInv, IInv, TypeOK, Goto
<1>1. ASSUME NEW t \in Threads, NEW c \in Calls \ {NoCall}, Begin(t, c)
      PROVE  \A u \in Threads : Carries(u)'
  <2>1. Carries(t)'
    BY <1>1 DEF Begin, Carries
  <2>2. QED
    BY <1>1, <2>1, CarriesStable DEF Begin
<1>2. ASSUME NEW t \in Threads, Exchange(t) \/ CompareExchange(t)
      PROVE  \A u \in Threads : Carries(u)'
  <2>1. Carries(t)'
    BY <1>2 DEF Exchange, CompareExchange, Carries
  <2>2. QED
    BY <1>2, <2>1, CarriesStable DEF Exchange, CompareExchange
<1>3. ASSUME NEW t \in Threads, Load(t)
      PROVE  \A u \in Threads : Carries(u)'
  <2>1. Carries(t)'
    BY <1>3 DEF Load, Carries, Refuses, Full, Empty
  <2>2. QED
    BY <1>3, <2>1, CarriesStable DEF Load
<1>4. ASSUME NEW t \in Threads, Reject(t) \/ Unlock(t)
      PROVE  \A u \in Threads : Carries(u)'
  <2>1. Carries(t)'
    BY <1>4 DEF Reject, Unlock, Leave, Carries
  <2>2. QED
    BY <1>4, <2>1, CarriesStable DEF Reject, Unlock, Leave
<1>5. ASSUME NEW t \in Threads,
             PushIndex(t) \/ PopIndex(t) \/ PushSlot(t) \/ PopSlot(t)
      PROVE  \A u \in Threads : Carries(u)'
  <2>1. Carries(t)'
    <3>1. Slot(myHead[t]) \in Slots
      BY SlotType
    <3>2. QED
      BY <1>5, <3>1 DEF PushIndex, PopIndex, PushSlot, PopSlot, Carries, Knows
  <2>2. ASSUME NEW u \in Threads \ {t} PROVE Carries(u)'
    <3>1. pc[u] \in {"idle", "xchg", "spin"}
      BY <1>5 DEF PushIndex, PopIndex, PushSlot, PopSlot, MutualExclusion,
                  InLock, Labels
    <3>2. QED
      BY <1>5, <3>1, CarriesStable
      DEF PushIndex, PopIndex, PushSlot, PopSlot
  <2>3. QED
    BY <2>1, <2>2
<1>6. CASE UNCHANGED vars
  BY <1>6 DEF vars, Carries, Refuses, Full, Empty
<1>7. QED
  BY <1>1, <1>2, <1>3, <1>4, <1>5, <1>6
  DEF Next, PushBack, PopFront, Step, Calls, NoCall, PopCall, PushCall

\* The settled indices, when no thread or when one has advanced an index.
LEMMA DecInc ==
  ASSUME NEW i \in Indices
  PROVE  Dec(Inc(i)) = i
  BY CapacityAssumption DEF Dec, Inc, Indices

LEMMA Settled ==
  ASSUME IInv, NEW t \in Threads
  PROVE  /\ pc[t] \in {"load", "reject", "index"} =>
              SettledHead = head /\ SettledTail = tail
         /\ pc[t] \in {"slot", "unlock"} /\ call[t].op = "push" =>
              SettledHead = myHead[t] /\ SettledTail = tail
         /\ pc[t] \in {"slot", "unlock"} /\ call[t].op = "pop" =>
              SettledHead = head /\ SettledTail = myTail[t]
<1> USE DEF IInv, TypeOK
<1>1. \A u \in Threads : InLock(t) /\ Changed(u, "push") => u = t
  BY DEF MutualExclusion, InLock, Changed
<1>2. \A u \in Threads : InLock(t) /\ Changed(u, "pop") => u = t
  BY DEF MutualExclusion, InLock, Changed
<1>3. CASE pc[t] \in {"load", "reject", "index"}
  BY <1>1, <1>2, <1>3 DEF InLock, Changed, SettledHead, SettledTail
<1>4. CASE pc[t] \in {"slot", "unlock"} /\ call[t].op = "push"
  <2>1. head = Inc(myHead[t])
    BY <1>4 DEF Knows
  <2>2. Changed(t, "push") /\ ~Changed(t, "pop")
    BY <1>4 DEF Changed
  <2>3. QED
    BY <1>1, <1>2, <1>4, <2>1, <2>2, DecInc
    DEF InLock, SettledHead, SettledTail
<1>5. CASE pc[t] \in {"slot", "unlock"} /\ call[t].op = "pop"
  <2>1. tail = Inc(myTail[t])
    BY <1>5 DEF Knows
  <2>2. Changed(t, "pop") /\ ~Changed(t, "push")
    BY <1>5 DEF Changed
  <2>3. QED
    BY <1>1, <1>2, <1>5, <2>1, <2>2, DecInc
    DEF InLock, SettledHead, SettledTail
<1>6. QED
  BY <1>3, <1>4, <1>5

\* When the lock is released nobody is about to change the indices.
LEMMA SettledAfter ==
  ASSUME IInv, NEW t \in Threads, Reject(t) \/ Unlock(t)
  PROVE  SettledHead' = head' /\ SettledTail' = tail'
<1>1. \A u \in Threads \ {t} : pc[u] \notin {"slot", "unlock"}
  BY DEF IInv, MutualExclusion, InLock, Reject, Unlock
<1>2. pc' = [pc EXCEPT ![t] = "idle"]
  BY DEF Reject, Unlock, Leave, Goto
<1>3. \A u \in Threads : ~(pc'[u] \in {"slot", "unlock"})
  BY <1>1, <1>2 DEF IInv, TypeOK
<1>4. QED
  BY <1>3 DEF SettledHead, SettledTail, Changed

\* Steps that leave the pc of every thread out of "slot" and "unlock" alone,
\* and the indices, leave the settled indices alone.
LEMMA SettledStable ==
  ASSUME IInv, NEW t \in Threads, UNCHANGED <<head, tail>>,
         \/ \E c \in Calls \ {NoCall} : Begin(t, c)
         \/ Exchange(t) \/ CompareExchange(t) \/ Load(t)
         \/ PushSlot(t) \/ PopSlot(t)
  PROVE  SettledHead' = SettledHead /\ SettledTail' = SettledTail
<1>1. ASSUME NEW u \in Threads, NEW op \in {"push", "pop"}
      PROVE  Changed(u, op)' <=> Changed(u, op)
  BY DEF IInv, TypeOK, Begin, Exchange, CompareExchange, Load, PushSlot,
         PopSlot, Goto, Changed
<1>2. QED
  BY <1>1 DEF SettledHead, SettledTail

\* The two sides of the refinement agree on what an operation is.
LEMMA CallsAgree ==
  /\ NoCall = Fifo!NoCall /\ PopCall = Fifo!PopCall
  /\ \A i \in Items : PushCall(i) = Fifo!PushCall(i)
  BY DEF NoCall, PopCall, PushCall, Fifo!NoCall, Fifo!PopCall, Fifo!PushCall

\* Begin is the abstract Begin.
LEMMA BeginRefines ==
  ASSUME RInv, NEW t \in Threads, NEW c \in Calls \ {NoCall}, Begin(t, c)
  PROVE  Fifo!Begin(t, c)
<1>1. Contents' = Contents
  <2>1. SettledHead' = SettledHead /\ SettledTail' = SettledTail
    BY SettledStable DEF RInv, Begin
  <2>2. QED
    BY <2>1 DEF Contents, Window, Begin
<1>2. Returned' = [Returned EXCEPT ![t] = "none"]
  BY DEF Returned, Begin, Goto, RInv, IInv, TypeOK
<1>3. QED
  BY <1>1, <1>2, CallsAgree DEF Fifo!Begin, Begin, RInv, Carries

\* The steps inside of an operation leave the abstract queue alone.
LEMMA InnerSteps ==
  ASSUME RInv, RInv', NEW t \in Threads,
         \/ Exchange(t) \/ CompareExchange(t) \/ Load(t)
         \/ PushIndex(t) \/ PushSlot(t) \/ PopIndex(t) \/ PopSlot(t)
  PROVE  UNCHANGED Fifo!vars
<1> USE DEF RInv, IInv, TypeOK
<1>1. Returned' = Returned
  BY DEF Returned, Exchange, CompareExchange, Load, PushIndex, PushSlot,
         PopIndex, PopSlot, Goto, Carries
<1>2. call' = call
  BY DEF Exchange, CompareExchange, Load, PushIndex, PushSlot, PopIndex, PopSlot
<1>3. Contents' = Contents
  <2>1. CASE Exchange(t) \/ CompareExchange(t) \/ Load(t) \/ PopSlot(t)
    <3>1. UNCHANGED <<head, tail, queue>>
      BY <2>1 DEF Exchange, CompareExchange, Load, PopSlot
    <3>2. SettledHead' = SettledHead /\ SettledTail' = SettledTail
      BY <2>1, <3>1, SettledStable
    <3>3. QED
      BY <3>1, <3>2 DEF Contents, Window
  <2>2. CASE PushSlot(t)
    <3>1. SettledHead' = SettledHead /\ SettledTail' = SettledTail
      BY <2>2, SettledStable DEF PushSlot
    <3>2. SettledHead = myHead[t] /\ SettledTail = tail /\ tail = myTail[t]
      BY <2>2, Settled DEF PushSlot, Knows
    <3>3. Sub(myHead[t], tail) < kCapacity
      BY <2>2, <3>2, SubRange, CapacityAssumption
      DEF PushSlot, Knows, Refuses, Full, kMask
    <3>4. Window([queue EXCEPT ![Slot(myHead[t])] = call[t].item],
                 myHead[t], tail) = Window(queue, myHead[t], tail)
      BY <3>3, WindowStore, ZenonT(30)
    <3>5. QED
      BY <2>2, <3>1, <3>2, <3>4 DEF Contents, PushSlot, Window
  <2>3. CASE PushIndex(t) \/ PopIndex(t)
    <3>1. head = myHead[t] /\ tail = myTail[t]
      BY <2>3 DEF PushIndex, PopIndex, Knows
    <3>2. SettledHead = head /\ SettledTail = tail
      BY <2>3, Settled DEF PushIndex, PopIndex
    <3>3. pc' = [pc EXCEPT ![t] = "slot"] /\ UNCHANGED <<call, queue>>
      BY <2>3 DEF PushIndex, PopIndex, Goto
    <3>4. \A u \in Threads \ {t} : pc[u] \notin {"slot", "unlock"}
      BY <2>3 DEF PushIndex, PopIndex, MutualExclusion, InLock
    <3>5. \A op : (\E u \in Threads : Changed(u, op)') <=> call[t].op = op
      BY <3>3, <3>4 DEF Changed
    <3>6. CASE PushIndex(t)
      BY <3>1, <3>2, <3>3, <3>5, <3>6, DecInc
      DEF PushIndex, SettledHead, SettledTail, Contents, Window
    <3>7. CASE PopIndex(t)
      BY <3>1, <3>2, <3>3, <3>5, <3>7, DecInc
      DEF PopIndex, SettledHead, SettledTail, Contents, Window
    <3>8. QED
      BY <2>3, <3>6, <3>7
  <2>4. QED
    BY <2>1, <2>2, <2>3
<1>4. QED
  BY <1>1, <1>2, <1>3 DEF Fifo!vars

\* The result an operation returns becomes visible when it ends.
LEMMA ReturnRefines ==
  ASSUME RInv, NEW t \in Threads, NEW r, Leave(t, r)
  PROVE  Fifo!Return(t, r)
  BY DEF RInv, IInv, TypeOK, Leave, Goto, Returned, Fifo!Return, NoCall,
         Fifo!NoCall

\* A refusal is PushFull or PopEmpty, but for the pop of a wedged ring.
LEMMA RejectRefines ==
  ASSUME RInv, NEW t \in Threads, Reject(t)
  PROVE  WedgedPopReturnsNull \/ Fifo!PushFull(t) \/ Fifo!PopEmpty(t)
<1> USE DEF RInv, IInv, TypeOK
<1>1. SettledHead = head /\ SettledTail = tail
  BY Settled DEF Reject
<1>2. Contents' = Contents
  BY <1>1, SettledAfter DEF Reject, Contents, Window
<1>3. Contents = [k \in 1 .. Sub(head, tail) |-> queue[Slot(tail + k - 1)]]
  BY <1>1 DEF Contents, Window
<1>4. Refuses(call[t].op, head, tail)
  BY DEF Reject, Carries
<1>5. CASE call[t].op = "push"
  <2>1. Sub(head, tail) = kCapacity
    BY <1>4, <1>5, SubRange, CapacityAssumption
    DEF Refuses, Full, kMask, NeverOverrun
  <2>2. Len(Contents) = kCapacity
    BY <1>3, <2>1, CapacityAssumption
  <2>3. QED
    BY <1>2, <1>5, <2>2, ReturnRefines DEF Reject, Fifo!PushFull
<1>6. CASE call[t].op = "pop" /\ tail = head
  <2>1. Contents = <<>>
    BY <1>3, <1>6, SubRange
  <2>2. QED
    BY <1>2, <1>6, <2>1, ReturnRefines DEF Reject, Fifo!PopEmpty
<1>7. CASE call[t].op = "pop" /\ tail # head
  <2>1. tail > head /\ Sub(head, tail) = kCapacity
    BY <1>4, <1>7, SubRange, CapacityAssumption
    DEF Refuses, Empty, kMask, NeverOverrun
  <2>2. QED
    BY <1>7, <2>1 DEF WedgedPopReturnsNull, Wedged
<1>8. QED
  BY <1>4, <1>5, <1>6, <1>7 DEF Refuses

\* A successful operation is Push or Pop.
LEMMA UnlockRefines ==
  ASSUME RInv, NEW t \in Threads, Unlock(t)
  PROVE  Fifo!Push(t) \/ Fifo!Pop(t)
<1> USE DEF RInv, IInv, TypeOK
<1>1. SettledHead' = head /\ SettledTail' = tail /\ queue' = queue
  BY SettledAfter DEF Unlock
<1>2. Contents' = Window(queue, head, tail)
  BY <1>1 DEF Contents, Window
<1>3. CASE call[t].op = "push"
  <2>1. SettledHead = myHead[t] /\ SettledTail = tail
    BY <1>3, Settled DEF Unlock
  <2>2. head = Inc(myHead[t]) /\ tail = myTail[t]
    BY <1>3 DEF Unlock, Knows
  <2>3. Sub(myHead[t], tail) < kCapacity
    BY <1>3, <2>2, SubRange, CapacityAssumption
    DEF Unlock, Knows, Refuses, Full, kMask
  <2>4. queue[Slot(myHead[t])] = call[t].item
    BY <1>3 DEF Unlock, Carries
  <2>5. Contents' = Append(Contents, call[t].item)
    <3>1. Window(queue, Inc(myHead[t]), tail)
            = Append(Window(queue, myHead[t], tail), queue[Slot(myHead[t])])
      BY <2>3, WindowPush
    <3>2. QED
      BY <1>2, <2>1, <2>2, <2>4, <3>1 DEF Contents
  <2>6. Len(Contents) < kCapacity
    BY <2>1, <2>3, SubRange DEF Contents, Window
  <2>7. QED
    BY <1>3, <2>5, <2>6, ReturnRefines DEF Unlock, Fifo!Push
<1>4. CASE call[t].op = "pop"
  <2>1. SettledHead = head /\ SettledTail = myTail[t]
    BY <1>4, Settled DEF Unlock
  <2>2. head = myHead[t] /\ tail = Inc(myTail[t])
    BY <1>4 DEF Unlock, Knows
  <2>3. head # myTail[t]
    BY <1>4, <2>2 DEF Unlock, Knows, Refuses, Empty
  <2>4. queue[Slot(myTail[t])] = ret[t]
    BY <1>4 DEF Unlock, Carries
  <2>5. /\ Contents # <<>> /\ Head(Contents) = ret[t]
        /\ Contents' = Tail(Contents)
    <3>1. /\ Window(queue, head, myTail[t]) # <<>>
          /\ Head(Window(queue, head, myTail[t])) = queue[Slot(myTail[t])]
          /\ Window(queue, head, Inc(myTail[t]))
               = Tail(Window(queue, head, myTail[t]))
      BY <2>3, WindowPop
    <3>2. QED
      BY <1>2, <2>1, <2>2, <2>4, <3>1 DEF Contents
  <2>6. QED
    BY <1>4, <2>5, ReturnRefines DEF Unlock, Fifo!Pop
<1>5. QED
  BY <1>3, <1>4 DEF Unlock, Knows

\* RingQueueBase is a bounded FIFO queue with atomic operations, except that
\* a wedged ring answers PopFront with NULL: for any number of threads, any
\* capacity and any width of the indices.
THEOREM Linearizable == Spec => LinearizableUnlessWedged
<1>1. Init => Fifo!Init
  <2> SUFFICES ASSUME Init PROVE Fifo!Init
    OBVIOUS
  <2>1. Contents = <<>>
    BY DEF Init, Contents, Window, SettledHead, SettledTail, Changed, Sub
  <2>2. Returned = [t \in Threads |-> "none"]
    BY DEF Init, Returned
  <2>3. QED
    BY <2>1, <2>2, CallsAgree DEF Init, Fifo!Init
<1>2. RInv /\ RInv' /\ [Next]_vars
        => [WedgedPopReturnsNull \/ Fifo!Next]_(Fifo!vars)
  <2> SUFFICES ASSUME RInv, RInv', [Next]_vars
               PROVE  WedgedPopReturnsNull \/ Fifo!Next \/ UNCHANGED Fifo!vars
    OBVIOUS
  <2>1. ASSUME NEW t \in Threads, PushBack(t) \/ PopFront(t)
        PROVE  Fifo!Next
    BY <2>1, BeginRefines, CallsAgree
    DEF PushBack, PopFront, Calls, NoCall, PopCall, PushCall, Fifo!Next
  <2>2. ASSUME NEW t \in Threads, Step(t)
        PROVE  WedgedPopReturnsNull \/ Fifo!Next \/ UNCHANGED Fifo!vars
    BY <2>2, InnerSteps, RejectRefines, UnlockRefines DEF Step, Fifo!Next
  <2>3. CASE UNCHANGED vars
    <3>1. Contents' = Contents /\ Returned' = Returned /\ call' = call
      BY <2>3
      DEF vars, Contents, Window, SettledHead, SettledTail, Changed, Returned
    <3>2. QED
      BY <3>1 DEF Fifo!vars
  <2>4. QED
    BY <2>1, <2>2, <2>3 DEF Next
<1>3. QED
  BY <1>1, <1>2, InitRInv, NextRInv, PTL DEF Spec, LinearizableUnlessWedged
=============================================================================
