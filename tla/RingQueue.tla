------------------------------ MODULE RingQueue ------------------------------
(***************************************************************************)
(* RingQueueBase of ringqueue.h: a ring of kCapacity pointers behind a     *)
(* spin lock.  head and tail are free-running uint32_t indices that wrap   *)
(* at 2^32 (IndexSpan here); the slot of an index is its low bits.         *)
(*                                                                         *)
(* Every access to shared memory is a step of its own, so that what keeps  *)
(* two threads apart is the lock and not the granularity of the model.     *)
(***************************************************************************)
EXTENDS Integers, Sequences

CONSTANTS Threads,    \* the threads that use the queue
          Items,      \* the pointers they push
          NULL,       \* the null pointer
          kCapacity,  \* the capacity, a power of two
          IndexSpan   \* number of values of index_type, 2^32 in the code

ASSUME CapacityAssumption ==
  /\ kCapacity \in Nat /\ kCapacity >= 2
  /\ IndexSpan \in Nat /\ IndexSpan > kCapacity
  /\ IndexSpan % kCapacity = 0

ASSUME NullAssumption == NULL \notin Items

VARIABLES locked,     \* spin_mutex.locked
          head,       \* core.info.head: index of the next slot to fill
          tail,       \* core.info.tail: index of the next slot to empty
          queue,      \* core.queue
          pc,         \* where each thread is in PushBack or PopFront
          call,       \* which of the two it executes, with its argument
          myHead,     \* the local variable head of the operation
          myTail,     \* the local variable tail of the operation
          ret         \* what the last operation of each thread returned

vars == <<locked, head, tail, queue, pc, call, myHead, myTail, ret>>

-----------------------------------------------------------------------------
kMask == kCapacity - 1
Indices == 0 .. IndexSpan - 1
Slots == 0 .. kMask

\* Arithmetic of index_type: i + 1, i - 1 and i - j, modulo IndexSpan.
Inc(i) == IF i = IndexSpan - 1 THEN 0 ELSE i + 1
Dec(i) == IF i = 0 THEN IndexSpan - 1 ELSE i - 1
Sub(i, j) == IF i >= j THEN i - j ELSE i - j + IndexSpan

Slot(i) == i % kCapacity            \* i & kMask

NoCall  == [op |-> "none", item |-> NULL]
PopCall == [op |-> "pop", item |-> NULL]
PushCall(i) == [op |-> "push", item |-> i]
Calls == {NoCall, PopCall} \cup {PushCall(i) : i \in Items}

Results == {"none", "ok", "full"} \cup Items \cup {NULL}
Labels == {"idle", "xchg", "spin", "load", "reject", "index", "slot", "unlock"}

Init ==
  /\ locked = 0
  /\ head = 0 /\ tail = 0
  /\ queue = [s \in Slots |-> NULL]
  /\ pc = [t \in Threads |-> "idle"]
  /\ call = [t \in Threads |-> NoCall]
  /\ myHead = [t \in Threads |-> 0]
  /\ myTail = [t \in Threads |-> 0]
  /\ ret = [t \in Threads |-> "none"]

-----------------------------------------------------------------------------
Goto(t, label) == pc' = [pc EXCEPT ![t] = label]

Begin(t, c) ==
  /\ pc[t] = "idle"
  /\ call' = [call EXCEPT ![t] = c]
  /\ ret' = [ret EXCEPT ![t] = "none"]
  /\ Goto(t, "xchg")
  /\ UNCHANGED <<locked, head, tail, queue, myHead, myTail>>

\* Mutant: the value InterlockedExchange returns is not looked at.
ExchangeUntested(t) ==
  /\ pc[t] = "xchg"
  /\ locked' = 1
  /\ Goto(t, "load")
  /\ UNCHANGED <<head, tail, queue, call, myHead, myTail, ret>>

\* InterlockedExchange: writes 1 whether or not it wins the lock.
Exchange(t) ==
  /\ pc[t] = "xchg"
  /\ locked' = 1
  /\ Goto(t, IF locked = 0 THEN "load" ELSE "spin")
  /\ UNCHANGED <<head, tail, queue, call, myHead, myTail, ret>>

\* The InterlockedCompareExchange that ends the spin loop; the failed ones
\* leave the state as it is.
CompareExchange(t) ==
  /\ pc[t] = "spin"
  /\ locked = 0
  /\ locked' = 1
  /\ Goto(t, "load")
  /\ UNCHANGED <<head, tail, queue, call, myHead, myTail, ret>>

\* Mutants: the ring is full one item late; the difference is signed.
FullOneLate(h, tl) == Sub(h, tl) > kCapacity
FullSigned(h, tl) == h - tl > kMask

\* The test PushBack makes before it gives up, on the indices it has read.
Full(h, tl) == Sub(h, tl) > kMask

\* The test PopFront makes before it gives up.
Empty(h, tl) == tl = h \/ (tl > h /\ Sub(h, tl) > kMask)

Refuses(op, h, tl) ==
  \/ op = "push" /\ Full(h, tl)
  \/ op = "pop" /\ Empty(h, tl)

Load(t) ==
  /\ pc[t] = "load"
  /\ myHead' = [myHead EXCEPT ![t] = head]
  /\ myTail' = [myTail EXCEPT ![t] = tail]
  /\ Goto(t, IF Refuses(call[t].op, head, tail) THEN "reject" ELSE "index")
  /\ UNCHANGED <<locked, head, tail, queue, call, ret>>

\* Unlock and return; the locals die with the stack frame.
Leave(t, r) ==
  /\ locked' = 0
  /\ ret' = [ret EXCEPT ![t] = r]
  /\ call' = [call EXCEPT ![t] = NoCall]
  /\ myHead' = [myHead EXCEPT ![t] = 0]
  /\ myTail' = [myTail EXCEPT ![t] = 0]
  /\ Goto(t, "idle")

\* Mutant: the early return keeps the lock.
RejectLocked(t) ==
  /\ pc[t] = "reject"
  /\ Goto(t, "idle")
  /\ call' = [call EXCEPT ![t] = NoCall]
  /\ ret' = [ret EXCEPT ![t] = NULL]
  /\ UNCHANGED <<locked, head, tail, queue, myHead, myTail>>

Reject(t) ==
  /\ pc[t] = "reject"
  /\ Leave(t, IF call[t].op = "push" THEN "full" ELSE NULL)
  /\ UNCHANGED <<head, tail, queue>>

PushIndex(t) ==
  /\ pc[t] = "index" /\ call[t].op = "push"
  /\ head' = Inc(myHead[t])
  /\ Goto(t, "slot")
  /\ UNCHANGED <<locked, tail, queue, call, myHead, myTail, ret>>

PushSlot(t) ==
  /\ pc[t] = "slot" /\ call[t].op = "push"
  /\ queue' = [queue EXCEPT ![Slot(myHead[t])] = call[t].item]
  /\ Goto(t, "unlock")
  /\ UNCHANGED <<locked, head, tail, call, myHead, myTail, ret>>

PopIndex(t) ==
  /\ pc[t] = "index" /\ call[t].op = "pop"
  /\ tail' = Inc(myTail[t])
  /\ Goto(t, "slot")
  /\ UNCHANGED <<locked, head, queue, call, myHead, myTail, ret>>

\* Mutant: the slot is read with the index already incremented.
PopNextSlot(t) ==
  /\ pc[t] = "slot" /\ call[t].op = "pop"
  /\ ret' = [ret EXCEPT ![t] = queue[Slot(tail)]]
  /\ Goto(t, "unlock")
  /\ UNCHANGED <<locked, head, tail, queue, call, myHead, myTail>>

\* item = core.queue[tail & kMask]; the item read is kept in ret until the
\* operation returns.
PopSlot(t) ==
  /\ pc[t] = "slot" /\ call[t].op = "pop"
  /\ ret' = [ret EXCEPT ![t] = queue[Slot(myTail[t])]]
  /\ Goto(t, "unlock")
  /\ UNCHANGED <<locked, head, tail, queue, call, myHead, myTail>>

Unlock(t) ==
  /\ pc[t] = "unlock"
  /\ Leave(t, IF call[t].op = "push" THEN "ok" ELSE ret[t])
  /\ UNCHANGED <<head, tail, queue>>

PushBack(t) == \E i \in Items : Begin(t, PushCall(i))
PopFront(t) == Begin(t, PopCall)

\* The steps of an operation that has been called.
Step(t) ==
  \/ Exchange(t) \/ CompareExchange(t) \/ Load(t) \/ Reject(t)
  \/ PushIndex(t) \/ PushSlot(t) \/ PopIndex(t) \/ PopSlot(t)
  \/ Unlock(t)

Next == \E t \in Threads : PushBack(t) \/ PopFront(t) \/ Step(t)

Spec == Init /\ [][Next]_vars

\* Windows runs every ready thread eventually; it promises no thread that it
\* runs while the lock happens to be free.
FairSpec == Spec /\ \A t \in Threads : WF_vars(Step(t))

-----------------------------------------------------------------------------
TypeOK ==
  /\ locked \in {0, 1}
  /\ head \in Indices /\ tail \in Indices
  /\ queue \in [Slots -> Items \cup {NULL}]
  /\ pc \in [Threads -> Labels]
  /\ call \in [Threads -> Calls]
  /\ myHead \in [Threads -> Indices]
  /\ myTail \in [Threads -> Indices]
  /\ ret \in [Threads -> Results]

InLock(t) == pc[t] \in {"load", "reject", "index", "slot", "unlock"}

\* The spin lock excludes: at most one thread is between the lock and the
\* unlock of PushBack and PopFront, and none is when locked is 0.
MutualExclusion ==
  /\ \A t, u \in Threads : InLock(t) /\ InLock(u) => t = u
  /\ locked = 0 => \A t \in Threads : ~InLock(t)

\* head never runs ahead of tail by more than the ring holds, across the wrap
\* of the 32-bit indices too, so that PushBack never overwrites an item that
\* has not been popped.
NeverOverrun == Sub(head, tail) <= kCapacity

\* A full ring whose head index has wrapped past 0 and whose tail index has
\* not.  PopFront's test "tail > head && (head - tail) > kMask" takes it for
\* an empty ring.
Wedged == tail > head /\ Sub(head, tail) = kCapacity

\* Once PopFront has mistaken a full ring for an empty one it does so for
\* ever: PushBack refuses because the ring is full, PopFront because it looks
\* empty, and no call moves an index again.
WedgedForever == [][Wedged => UNCHANGED <<head, tail>>]_vars

-----------------------------------------------------------------------------
\* Refinement: an operation takes effect when it releases the lock.

Changed(t, op) == pc[t] \in {"slot", "unlock"} /\ call[t].op = op

\* The indices as the last thread to leave the lock left them.
SettledHead == IF \E t \in Threads : Changed(t, "push") THEN Dec(head) ELSE head
SettledTail == IF \E t \in Threads : Changed(t, "pop") THEN Dec(tail) ELSE tail

\* What the slots of q hold from tl to h, oldest first.
Window(q, h, tl) == [k \in 1 .. Sub(h, tl) |-> q[Slot(tl + k - 1)]]

Contents == Window(queue, SettledHead, SettledTail)

\* The item a PopFront has read is not returned before the lock is released.
Returned == [t \in Threads |-> IF pc[t] = "unlock" THEN "none" ELSE ret[t]]

Fifo == INSTANCE FifoQueue WITH
          Bound <- kCapacity, contents <- Contents, ret <- Returned

WedgedPopReturnsNull ==
  Wedged /\ \E t \in Threads : Reject(t) /\ call[t].op = "pop"

\* PushBack and PopFront are the atomic operations of a bounded FIFO queue:
\* PushBack returns -1 only when kCapacity items are queued, PopFront returns
\* NULL only when none is, and the items come out in the order they went in,
\* each once.  The one exception is the NULL of a PopFront on a wedged ring.
LinearizableUnlessWedged ==
  Fifo!Init /\ [][WedgedPopReturnsNull \/ Fifo!Next]_(Fifo!vars)

\* No path through PushBack or PopFront keeps the spin lock: it is free again
\* and again.
LockIsReleased == []<>(locked = 0)
=============================================================================
