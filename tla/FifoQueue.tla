------------------------------ MODULE FifoQueue ------------------------------
(***************************************************************************)
(* What RingQueueBase promises its users: a bounded first-in first-out     *)
(* queue on which every PushBack and every PopFront takes effect at one    *)
(* instant between its call and its return.                                *)
(***************************************************************************)
EXTENDS Naturals, Sequences

CONSTANTS Threads,   \* the threads that call the queue
          Items,     \* the pointers that are queued
          NULL,      \* what PopFront returns when it has nothing to give
          Bound      \* how many items the queue holds at most

VARIABLES contents,  \* the items queued, oldest first
          call,      \* the operation each thread is executing
          ret        \* the result of the last operation each thread completed

vars == <<contents, call, ret>>

NoCall  == [op |-> "none", item |-> NULL]
PopCall == [op |-> "pop", item |-> NULL]
PushCall(i) == [op |-> "push", item |-> i]
Calls == {NoCall, PopCall} \cup {PushCall(i) : i \in Items}

Init ==
  /\ contents = <<>>
  /\ call = [t \in Threads |-> NoCall]
  /\ ret = [t \in Threads |-> "none"]

Begin(t, c) ==
  /\ call[t] = NoCall
  /\ call' = [call EXCEPT ![t] = c]
  /\ ret' = [ret EXCEPT ![t] = "none"]
  /\ UNCHANGED contents

Return(t, r) ==
  /\ call' = [call EXCEPT ![t] = NoCall]
  /\ ret' = [ret EXCEPT ![t] = r]

Push(t) ==
  /\ call[t].op = "push"
  /\ Len(contents) < Bound
  /\ contents' = Append(contents, call[t].item)
  /\ Return(t, "ok")

PushFull(t) ==
  /\ call[t].op = "push"
  /\ Len(contents) = Bound
  /\ Return(t, "full")
  /\ UNCHANGED contents

Pop(t) ==
  /\ call[t].op = "pop"
  /\ contents # <<>>
  /\ contents' = Tail(contents)
  /\ Return(t, Head(contents))

PopEmpty(t) ==
  /\ call[t].op = "pop"
  /\ contents = <<>>
  /\ Return(t, NULL)
  /\ UNCHANGED contents

Next ==
  \E t \in Threads :
    \/ Begin(t, PopCall)
    \/ \E i \in Items : Begin(t, PushCall(i))
    \/ Push(t) \/ PushFull(t) \/ Pop(t) \/ PopEmpty(t)

Spec == Init /\ [][Next]_vars
=============================================================================
