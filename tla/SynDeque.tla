------------------------------ MODULE SynDeque ------------------------------
(***************************************************************************)
(* SynDeque<T>: a deque and a manual-reset event that says whether it has  *)
(* something, both changed in one critical section.  WaiteForQueue waits   *)
(* for the event outside that section; the waiter's two steps are actions  *)
(* of the modules that use the deque.                                      *)
(***************************************************************************)
EXTENDS Sequences

CreateQueue == [m_deque |-> <<>>, m_hevent |-> FALSE]

\* Mutant: the event is not set.
PushBackSilent(q, obj) ==
  [m_deque |-> Append(q.m_deque, obj), m_hevent |-> q.m_hevent]

PushBack(q, obj) ==
  [m_deque |-> Append(q.m_deque, obj), m_hevent |-> TRUE]

PopFront(q) ==
  IF q.m_deque = <<>> THEN q
  ELSE [m_deque |-> Tail(q.m_deque),
        m_hevent |-> q.m_hevent /\ Tail(q.m_deque) # <<>>]

\* Mutant: the youngest item is taken.
PoppedBack(q, none) ==
  IF q.m_deque = <<>> THEN none ELSE q.m_deque[Len(q.m_deque)]

\* obj keeps the value it had, here none, when there is nothing to pop.
Popped(q, none) == IF q.m_deque = <<>> THEN none ELSE Head(q.m_deque)
=============================================================================
