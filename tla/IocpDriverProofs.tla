-------------------------- MODULE IocpDriverProofs --------------------------
(***************************************************************************)
(* The sockets of IocpDriver.  First the accept counter of AcceptIo, for   *)
(* any limit, any size of a round and any number of connections: what it   *)
(* counts, and how far the outstanding AcceptEx calls may pass the limit.  *)
(* Then NetService, for any number of handles, connections and packets and *)
(* any capacity of the queues: whose packets a client is given.            *)
(***************************************************************************)
EXTENDS AcceptIo, MCNetService, SequenceTheorems, TLAPS

-----------------------------------------------------------------------------
(* What the operators that change a function at one place do               *)

\* A completion more of one kind.
LEMMA CompleteAddsOne ==
  ASSUME completed \in [Completions -> Nat], NEW k \in Completions, Complete(k)
  PROVE  /\ completed' \in [Completions -> Nat]
         /\ \A j \in Completions :
              completed'[j] = IF j = k THEN completed[j] + 1 ELSE completed[j]
  BY DEF Complete

\* A completion less of one kind.
LEMMA TakeRemovesOne ==
  ASSUME completed \in [Completions -> Nat], NEW k \in Completions, Take(k)
  PROVE  /\ completed' \in [Completions -> Nat]
         /\ \A j \in Completions :
              completed'[j] = IF j = k THEN completed[j] - 1 ELSE completed[j]
  BY DEF Take

\* Addition keeps the order.
LEMMA AddingIsMonotone ==
  ASSUME NEW k \in Int, NEW x \in Int, NEW y \in Int, x <= y
  PROVE  k + x <= k + y
  OBVIOUS

\* A thread that goes somewhere is there; the others stay.
LEMMA OtherPlaces ==
  ASSUME TypeOK, NEW t \in Threads, NEW where, Goto(t, where)
  PROVE  pc'[t] = where /\ \A u \in Threads : u # t => pc'[u] = pc[u]
  BY DEF TypeOK, Goto

\* What a store changes, the increments and decrements it overwrites included.
LEMMA StoreIsAccounted ==
  ASSUME TypeOK, NEW t \in Threads, NEW d \in Int, Store(t, d)
  PROVE  /\ m_nPostAcceptIoStat' \in Int /\ lostInc' \in Nat /\ lostDec' \in Nat
         /\ lostInc <= lostInc'
         /\ Counted' = Counted + d
  <1>1. m_nPostAcceptIoStat \in Int /\ register[t] \in Int /\ lostInc \in Nat /\ lostDec \in Nat
    BY DEF TypeOK
  <1> QED
    BY <1>1 DEF Store, Counted

-----------------------------------------------------------------------------
\* Every variable keeps its type.
THEOREM TypeCorrect == Spec => []TypeOK
<1>1. Init => TypeOK
  <2> SUFFICES ASSUME Init PROVE TypeOK
    OBVIOUS
  <2>1. pc \in [Threads -> {"wait"}] /\ pc["accept"] = "wait"
    BY DEF Init, Threads
  <2>2. register \in [Threads -> Int] /\ completed \in [Completions -> Nat]
    BY DEF Init
  <2>3. event \in BOOLEAN /\ turnedAway \in BOOLEAN
    BY DEF Init
  <2> QED
    BY <2>1, <2>2, <2>3, AcceptAssumption DEF Init, TypeOK
<1>2. TypeOK /\ [Next]_vars => TypeOK'
  <2> SUFFICES ASSUME TypeOK, [Next]_vars PROVE TypeOK'
    OBVIOUS
  <2> USE AcceptAssumption DEF TypeOK, Threads, Goto, code, system, history
  <2>1. ASSUME NEW t \in Threads, CheckLimit(t) PROVE TypeOK'
    <3>1. turnedAway' \in BOOLEAN
      BY <2>1 DEF CheckLimit
    <3> QED
      BY <2>1, <3>1 DEF CheckLimit, Return
  <2>2. ASSUME NEW t \in Threads, CallAcceptEx(t) PROVE TypeOK'
    <3>1. completed' \in [Completions -> Nat]
      BY <2>2, CompleteAddsOne DEF CallAcceptEx, Completions
    <3>2. event' \in BOOLEAN
      BY <2>2 DEF CallAcceptEx
    <3> QED
      BY <2>2, <3>1, <3>2 DEF CallAcceptEx
  <2>3. ASSUME NEW t \in Threads, AcceptExFails(t) PROVE TypeOK'
    BY <2>3 DEF AcceptExFails, Return
  <2>4. ASSUME NEW t \in Threads, LoadInc(t) PROVE TypeOK'
    BY <2>4 DEF LoadInc, Load
  <2>5. ASSUME NEW t \in Threads, StoreInc(t) PROVE TypeOK'
    BY <2>5 DEF StoreInc, Store, Return
  <2>6. CASE WaitAcceptEvent
    BY <2>6 DEF WaitAcceptEvent
  <2>7. CASE OnAccept \/ OnDisconn
    BY <2>7 DEF OnAccept, OnDisconn, Take
  <2>8. CASE LoadDec
    BY <2>8 DEF LoadDec, Load
  <2>9. CASE StoreDec
    BY <2>9 DEF StoreDec, Store
  <2>10. CASE PostRecv
    <3>1. completed' \in [Completions -> Nat]
      BY <2>10, CompleteAddsOne DEF Completions, PostRecv, DisconnectEx
    <3> QED
      BY <2>10, <3>1 DEF PostRecv
  <2>11. CASE OnRecvClosed
    <3>1. completed' \in [Completions -> Nat]
      BY <2>11 DEF Completions, OnRecvClosed
    <3> QED
      BY <2>11, <3>1 DEF OnRecvClosed
  <2>12. CASE Error64
    <3>1. completed' \in [Completions -> Nat]
      BY <2>12, TakeRemovesOne DEF Completions, Error64
    <3> QED
      BY <2>12, <3>1 DEF Error64
  <2>13. CASE Connect
    <3>1. completed' \in [Completions -> Nat]
      BY <2>13, CompleteAddsOne DEF Connect, Completions
    <3>2. pending' \in Nat /\ backlog' \in Nat
      BY <2>13 DEF Connect
    <3>5. event' \in BOOLEAN
      BY <2>13 DEF Connect
    <3>3. connects' \in 0 .. MaxConnects
      BY <2>13 DEF Connect
    <3>4. UNCHANGED <<code, connected, refused, history>>
      BY <2>13 DEF Connect
    <3> QED
      BY <3>1, <3>2, <3>3, <3>4, <3>5
  <2>14. CASE HangUp
    <3>1. completed' \in [Completions -> Nat]
      BY <2>14, CompleteAddsOne DEF Completions, HangUp
    <3> QED
      BY <2>14, <3>1 DEF HangUp
  <2>15. CASE UNCHANGED vars
    BY <2>15 DEF vars
  <2> QED
    BY <2>1, <2>2, <2>3, <2>4, <2>5, <2>6, <2>7, <2>8, <2>9, <2>10, <2>11,
       <2>12, <2>13, <2>14, <2>15
       DEF Next, MtAcceptIo, DealIoImpl, PostAcceptIo
<1> QED
  BY <1>1, <1>2, PTL DEF Spec

-----------------------------------------------------------------------------
\* The counter accounts for every outstanding AcceptEx call.
THEOREM CounterIsExact == Spec => []StatCountsAccepts
<1>1. Init => StatCountsAccepts
  BY DEF Init, StatCountsAccepts, Counted, Uncounted, CountedStill, Outstanding, Threads, Completions
<1>2. TypeOK /\ StatCountsAccepts /\ [Next]_vars => StatCountsAccepts'
  <2> SUFFICES ASSUME TypeOK, StatCountsAccepts, [Next]_vars PROVE StatCountsAccepts'
    OBVIOUS
  <2> USE DEF code, system, history
  <2>0. /\ Counted \in Int /\ Uncounted \in Int /\ CountedStill \in Int
        /\ Outstanding \in Int /\ stranded \in Int
    BY DEF TypeOK, Counted, Uncounted, CountedStill, Outstanding, Completions
  <2>a. ASSUME UNCHANGED <<m_nPostAcceptIoStat, stranded, lostInc, lostDec>>,
               Uncounted' = Uncounted, CountedStill' = CountedStill, Outstanding' = Outstanding
        PROVE  StatCountsAccepts'
    BY <2>a DEF StatCountsAccepts, Counted
  <2>1. ASSUME NEW t \in Threads, CheckLimit(t) PROVE StatCountsAccepts'
    <3>1. Uncounted' = Uncounted /\ CountedStill' = CountedStill
      BY <2>1, OtherPlaces DEF CheckLimit, Return, Uncounted, CountedStill, Threads
    <3> QED
      BY <2>1, <3>1, <2>a DEF CheckLimit, Outstanding
  <2>2. ASSUME NEW t \in Threads, CallAcceptEx(t) PROVE StatCountsAccepts'
    <3>1. Outstanding' = Outstanding + 1
      BY <2>2, CompleteAddsOne DEF TypeOK, CallAcceptEx, Outstanding, Completions
    <3>2. Uncounted' = Uncounted + 1 /\ CountedStill' = CountedStill
      BY <2>2, OtherPlaces DEF CallAcceptEx, Uncounted, CountedStill, Threads
    <3> QED
      BY <2>0, <2>2, <3>1, <3>2 DEF CallAcceptEx, StatCountsAccepts, Counted
  <2>3. ASSUME NEW t \in Threads, AcceptExFails(t) PROVE StatCountsAccepts'
    <3>1. Uncounted' = Uncounted /\ CountedStill' = CountedStill
      BY <2>3, OtherPlaces DEF AcceptExFails, Return, Uncounted, CountedStill, Threads
    <3> QED
      BY <2>3, <3>1, <2>a DEF AcceptExFails, Outstanding
  <2>4. ASSUME NEW t \in Threads, LoadInc(t) PROVE StatCountsAccepts'
    <3>1. Uncounted' = Uncounted /\ CountedStill' = CountedStill
      BY <2>4, OtherPlaces DEF LoadInc, Uncounted, CountedStill, Threads
    <3> QED
      BY <2>4, <3>1, <2>a DEF LoadInc, Load, Outstanding
  <2>5. ASSUME NEW t \in Threads, StoreInc(t) PROVE StatCountsAccepts'
    <3>1. Uncounted' = Uncounted - 1 /\ CountedStill' = CountedStill
      BY <2>5, OtherPlaces DEF StoreInc, Return, Uncounted, CountedStill, Threads
    <3>2. Counted' = Counted + 1
      BY <2>0, <2>5, StoreIsAccounted DEF StoreInc
    <3>3. Outstanding' = Outstanding /\ stranded' = stranded
      BY <2>5 DEF StoreInc, Outstanding
    <3> QED
      BY <2>0, <3>1, <3>2, <3>3 DEF StatCountsAccepts
  <2>6. CASE WaitAcceptEvent
    <3>1. Uncounted' = Uncounted /\ CountedStill' = CountedStill
      BY <2>6, OtherPlaces DEF WaitAcceptEvent, Uncounted, CountedStill, Threads
    <3> QED
      BY <2>6, <3>1, <2>a DEF WaitAcceptEvent, Outstanding
  <2>7. CASE OnAccept
    <3>1. Outstanding' = Outstanding - 1
      BY <2>7, TakeRemovesOne DEF TypeOK, OnAccept, Outstanding, Completions
    <3>2. Uncounted' = Uncounted /\ CountedStill' = CountedStill + 1
      BY <2>7, OtherPlaces DEF OnAccept, Uncounted, CountedStill, Threads
    <3> QED
      BY <2>0, <2>7, <3>1, <3>2 DEF OnAccept, StatCountsAccepts, Counted
  <2>8. CASE LoadDec
    <3>1. Uncounted' = Uncounted /\ CountedStill' = CountedStill
      BY <2>8, OtherPlaces DEF LoadDec, Uncounted, CountedStill, Threads
    <3> QED
      BY <2>8, <3>1, <2>a DEF LoadDec, Load, Outstanding
  <2>9. CASE StoreDec
    <3>1. Uncounted' = Uncounted /\ CountedStill' = CountedStill - 1
      BY <2>9, OtherPlaces DEF StoreDec, Uncounted, CountedStill, Threads
    <3>2. Counted' = Counted - 1
      BY <2>0, <2>9, StoreIsAccounted DEF StoreDec, Threads
    <3>3. Outstanding' = Outstanding /\ stranded' = stranded
      BY <2>9 DEF StoreDec, Outstanding
    <3> QED
      BY <2>0, <3>1, <3>2, <3>3 DEF StatCountsAccepts
  <2>10. CASE PostRecv
    <3>1. Outstanding' = Outstanding
      BY <2>10, CompleteAddsOne DEF TypeOK, PostRecv, DisconnectEx, Outstanding, Completions
    <3>2. Uncounted' = Uncounted /\ CountedStill' = CountedStill
      BY <2>10, OtherPlaces DEF PostRecv, Uncounted, CountedStill, Threads
    <3> QED
      BY <2>10, <3>1, <3>2, <2>a DEF PostRecv
  <2>11. CASE OnRecvClosed
    <3>1. Outstanding' = Outstanding
      BY <2>11 DEF TypeOK, OnRecvClosed, Outstanding, Completions
    <3> QED
      BY <2>11, <3>1, <2>a DEF OnRecvClosed, Uncounted, CountedStill
  <2>12. CASE Error64
    <3>1. UNCHANGED <<m_nPostAcceptIoStat, lostInc, lostDec, Uncounted, CountedStill>>
      BY <2>12 DEF Error64, Uncounted, CountedStill
    <3>2. CASE Take("acceptReset") /\ stranded' = stranded + 1
      <4>1. Outstanding' = Outstanding - 1
        BY <2>12, <3>2, TakeRemovesOne DEF TypeOK, Error64, Outstanding, Completions
      <4> QED
        BY <2>0, <3>1, <3>2, <4>1 DEF StatCountsAccepts, Counted
    <3>3. CASE Take("reset") /\ UNCHANGED stranded
      <4>1. Outstanding' = Outstanding
        BY <2>12, <3>3, TakeRemovesOne DEF TypeOK, Error64, Outstanding, Completions
      <4> QED
        BY <3>1, <3>3, <4>1, <2>a
    <3> QED
      BY <2>12, <3>2, <3>3 DEF Error64
  <2>13. CASE Connect
    <3>1. Outstanding' = Outstanding
      BY <2>13, CompleteAddsOne DEF TypeOK, Connect, Outstanding, Completions
    <3> QED
      BY <2>13, <3>1, <2>a DEF Connect, Uncounted, CountedStill
  <2>14. CASE HangUp
    <3>1. Outstanding' = Outstanding
      BY <2>14, CompleteAddsOne DEF TypeOK, HangUp, Outstanding, Completions
    <3> QED
      BY <2>14, <3>1, <2>a DEF HangUp, Uncounted, CountedStill
  <2>15. CASE OnDisconn
    <3>1. Outstanding' = Outstanding
      BY <2>15, TakeRemovesOne DEF TypeOK, OnDisconn, Outstanding, Completions
    <3>2. Uncounted' = Uncounted /\ CountedStill' = CountedStill
      BY <2>15, OtherPlaces DEF OnDisconn, Uncounted, CountedStill, Threads
    <3> QED
      BY <2>15, <3>1, <3>2, <2>a DEF OnDisconn
  <2>16. CASE UNCHANGED vars
    BY <2>16, <2>a DEF vars, Outstanding, Uncounted, CountedStill
  <2> QED
    BY <2>1, <2>2, <2>3, <2>4, <2>5, <2>6, <2>7, <2>8, <2>9, <2>10, <2>11,
       <2>12, <2>13, <2>14, <2>15, <2>16
       DEF Next, MtAcceptIo, DealIoImpl, PostAcceptIo, Threads
<1> QED
  BY <1>1, <1>2, TypeCorrect, PTL DEF Spec

-----------------------------------------------------------------------------
(* The bound.  A thread that has passed the test of the limit is as good as *)
(* an outstanding call; the inductive invariant counts it as one.           *)

\* Threads between the test of the limit and AcceptEx.
AtCall == (IF pc["accept"] = "acceptEx" THEN 1 ELSE 0)
          + (IF pc["io"] = "acceptEx" THEN 1 ELSE 0)

Reserved == Outstanding + AtCall
Allowed == AcceptLimit + 1 + lostInc

CallsAreBounded == Reserved <= Allowed

\* Never are more AcceptEx calls outstanding than the limit and one, plus the
\* increments that were overwritten.
THEOREM OutstandingIsBounded == Spec => []AcceptsAreBounded
<1>1. Init => CallsAreBounded
  BY AcceptAssumption DEF Init, CallsAreBounded, Reserved, Allowed, AtCall, Outstanding, Threads, Completions
<1>2. TypeOK /\ StatCountsAccepts /\ CallsAreBounded /\ [Next]_vars => CallsAreBounded'
  <2> SUFFICES ASSUME TypeOK, StatCountsAccepts, CallsAreBounded, [Next]_vars
               PROVE  CallsAreBounded'
    OBVIOUS
  <2> USE DEF code, system, history
  <2>0. /\ Outstanding \in Int /\ AtCall \in Int /\ lostInc \in Int /\ AcceptLimit \in Int
    BY AcceptAssumption DEF TypeOK, AtCall, Outstanding, Completions
  <2>r. Reserved \in Int /\ Allowed \in Int
    BY <2>0 DEF Reserved, Allowed
  <2>a. ASSUME lostInc' = lostInc, Reserved' \in Int, Reserved' <= Reserved
        PROVE  CallsAreBounded'
    <3>1. Allowed' = Allowed
      BY <2>a DEF Allowed
    <3> QED
      BY <2>r, <2>a, <3>1 DEF CallsAreBounded
  <2>b. ASSUME lostInc' = lostInc, Outstanding' = Outstanding, AtCall' = AtCall
        PROVE  CallsAreBounded'
    BY <2>b DEF CallsAreBounded, Reserved, Allowed
  <2>c. ASSUME lostInc' \in Int, lostInc <= lostInc', Outstanding' = Outstanding,
               AtCall' = AtCall
        PROVE  CallsAreBounded'
    <3>1. Reserved' = Reserved
      BY <2>c DEF Reserved
    <3>2. Allowed' \in Int /\ Allowed <= Allowed'
      <4> DEFINE k == AcceptLimit + 1
      <4>1. k \in Int
        BY <2>0
      <4>2. Allowed = k + lostInc /\ Allowed' = k + lostInc'
        BY DEF Allowed
      <4> HIDE DEF k
      <4>3. k + lostInc' \in Int
        BY <2>c, <4>1
      <4>4. k + lostInc <= k + lostInc'
        BY <2>0, <2>c, <4>1, AddingIsMonotone
      <4> QED
        BY <4>2, <4>3, <4>4
    <3> QED
      BY <2>r, <3>1, <3>2 DEF CallsAreBounded
  <2>1. ASSUME NEW t \in Threads, CheckLimit(t) PROVE CallsAreBounded'
    <3>1. CASE m_nPostAcceptIoStat >= AcceptLimit
      <4>1. AtCall' = AtCall
        BY <2>1, <3>1, OtherPlaces DEF CheckLimit, Return, AtCall, Threads
      <4> QED
        BY <2>1, <4>1, <2>b DEF CheckLimit, Outstanding
    <3>2. CASE ~(m_nPostAcceptIoStat >= AcceptLimit)
      <4>1. Goto(t, "acceptEx") /\ pc[t] = "check" /\ lostInc' = lostInc
        BY <2>1, <3>2 DEF CheckLimit
      <4>2. Uncounted \in Int /\ AtCall' = AtCall + 1 /\ Uncounted + AtCall <= 1
        BY <4>1, OtherPlaces DEF Uncounted, AtCall, Threads
      <4>3. Counted \in Int /\ Counted <= AcceptLimit - 1 + lostInc
        BY <3>2, <2>0 DEF Counted, TypeOK
      <4>4. CountedStill \in Nat /\ stranded \in Nat
        BY DEF CountedStill, TypeOK
      <4>5. Outstanding <= Counted + Uncounted
        BY <2>0, <4>2, <4>3, <4>4 DEF StatCountsAccepts
      <4>6. Outstanding' = Outstanding
        BY <2>1 DEF CheckLimit, Outstanding
      <4>7. Outstanding + (AtCall + 1) <= AcceptLimit + 1 + lostInc
        BY <2>0, <4>2, <4>3, <4>5
      <4> QED
        BY <4>1, <4>2, <4>6, <4>7 DEF CallsAreBounded, Reserved, Allowed
    <3> QED
      BY <3>1, <3>2
  <2>2. ASSUME NEW t \in Threads, CallAcceptEx(t) PROVE CallsAreBounded'
    <3>1. Outstanding' = Outstanding + 1
      BY <2>2, CompleteAddsOne DEF TypeOK, CallAcceptEx, Outstanding, Completions
    <3>2. AtCall' = AtCall - 1
      BY <2>2, OtherPlaces DEF CallAcceptEx, AtCall, Threads
    <3> QED
      BY <2>0, <2>2, <3>1, <3>2, <2>a DEF CallAcceptEx, Reserved
  <2>3. ASSUME NEW t \in Threads, AcceptExFails(t) PROVE CallsAreBounded'
    <3>1. AtCall' = AtCall - 1
      BY <2>3, OtherPlaces DEF AcceptExFails, Return, AtCall, Threads
    <3>2. Outstanding' = Outstanding
      BY <2>3 DEF AcceptExFails, Outstanding
    <3> QED
      BY <2>0, <2>3, <3>1, <3>2, <2>a DEF AcceptExFails, Reserved
  <2>4. ASSUME NEW t \in Threads, LoadInc(t) PROVE CallsAreBounded'
    <3>1. AtCall' = AtCall
      BY <2>4, OtherPlaces DEF LoadInc, AtCall, Threads
    <3> QED
      BY <2>4, <3>1, <2>b DEF LoadInc, Load, Outstanding
  <2>5. ASSUME NEW t \in Threads, StoreInc(t) PROVE CallsAreBounded'
    <3>1. AtCall' = AtCall /\ Outstanding' = Outstanding
      BY <2>5, OtherPlaces DEF StoreInc, Return, AtCall, Threads, Outstanding
    <3>2. lostInc' \in Int /\ lostInc <= lostInc'
      BY <2>5, StoreIsAccounted DEF StoreInc
    <3> QED
      BY <3>1, <3>2, <2>c
  <2>6. CASE WaitAcceptEvent
    <3>1. AtCall' = AtCall
      BY <2>6, OtherPlaces DEF WaitAcceptEvent, AtCall, Threads
    <3> QED
      BY <2>6, <3>1, <2>b DEF WaitAcceptEvent, Outstanding
  <2>7. CASE OnAccept
    <3>1. Outstanding' = Outstanding - 1
      BY <2>7, TakeRemovesOne DEF TypeOK, OnAccept, Outstanding, Completions
    <3>2. AtCall' = AtCall
      BY <2>7, OtherPlaces DEF OnAccept, AtCall, Threads
    <3> QED
      BY <2>0, <2>7, <3>1, <3>2, <2>a DEF OnAccept, Reserved
  <2>8. CASE LoadDec
    <3>1. AtCall' = AtCall
      BY <2>8, OtherPlaces DEF LoadDec, AtCall, Threads
    <3> QED
      BY <2>8, <3>1, <2>b DEF LoadDec, Load, Outstanding
  <2>9. CASE StoreDec
    <3>1. AtCall' = AtCall /\ Outstanding' = Outstanding
      BY <2>9, OtherPlaces DEF StoreDec, AtCall, Threads, Outstanding
    <3>2. lostInc' \in Int /\ lostInc <= lostInc'
      BY <2>9, StoreIsAccounted DEF StoreDec, Threads
    <3> QED
      BY <3>1, <3>2, <2>c
  <2>10. CASE PostRecv
    <3>1. Outstanding' = Outstanding
      BY <2>10, CompleteAddsOne DEF TypeOK, PostRecv, DisconnectEx, Outstanding, Completions
    <3>2. AtCall' = AtCall
      BY <2>10, OtherPlaces DEF PostRecv, AtCall, Threads
    <3> QED
      BY <2>10, <3>1, <3>2, <2>b DEF PostRecv
  <2>11. CASE OnRecvClosed
    <3>1. Outstanding' = Outstanding
      BY <2>11 DEF TypeOK, OnRecvClosed, Outstanding, Completions
    <3> QED
      BY <2>11, <3>1, <2>b DEF OnRecvClosed, AtCall
  <2>12. CASE Error64
    <3>1. Outstanding' = Outstanding \/ Outstanding' = Outstanding - 1
      BY <2>12, TakeRemovesOne DEF TypeOK, Error64, Outstanding, Completions
    <3>2. AtCall' = AtCall /\ lostInc' = lostInc
      BY <2>12 DEF Error64, AtCall
    <3> QED
      BY <2>0, <3>1, <3>2, <2>a DEF Reserved
  <2>13. CASE Connect
    <3>1. Outstanding' = Outstanding
      BY <2>13, CompleteAddsOne DEF TypeOK, Connect, Outstanding, Completions
    <3> QED
      BY <2>13, <3>1, <2>b DEF Connect, AtCall
  <2>14. CASE HangUp
    <3>1. Outstanding' = Outstanding
      BY <2>14, CompleteAddsOne DEF TypeOK, HangUp, Outstanding, Completions
    <3> QED
      BY <2>14, <3>1, <2>b DEF HangUp, AtCall
  <2>15. CASE OnDisconn
    <3>1. Outstanding' = Outstanding
      BY <2>15, TakeRemovesOne DEF TypeOK, OnDisconn, Outstanding, Completions
    <3>2. AtCall' = AtCall
      BY <2>15, OtherPlaces DEF OnDisconn, AtCall, Threads
    <3> QED
      BY <2>15, <3>1, <3>2, <2>b DEF OnDisconn
  <2>16. CASE UNCHANGED vars
    BY <2>16, <2>b DEF vars, Outstanding, AtCall
  <2> QED
    BY <2>1, <2>2, <2>3, <2>4, <2>5, <2>6, <2>7, <2>8, <2>9, <2>10, <2>11,
       <2>12, <2>13, <2>14, <2>15, <2>16
       DEF Next, MtAcceptIo, DealIoImpl, PostAcceptIo, Threads
<1>3. TypeOK /\ CallsAreBounded => AcceptsAreBounded
  BY AcceptAssumption
     DEF TypeOK, CallsAreBounded, Reserved, Allowed, AcceptsAreBounded, AtCall, Outstanding, Completions
<1> QED
  BY <1>1, <1>2, <1>3, TypeCorrect, CounterIsExact, PTL DEF Spec

-----------------------------------------------------------------------------
(* The clients of a server                                                 *)

\* What the port and the queue hold.
Socket == [is : {"closed", "accept", "up", "down"}, conn : Nat,
           op : {"none", "recv", "disconnect"}, listen : BOOLEAN]
Arrived == [what : {"accepted", "data", "closed", "reset", "disconnected"},
            s : Sockets, conn : Nat, listen : BOOLEAN]
Told == [what : {"accept", "recv", "disconn"}, s : Sockets, conn : Nat]

Typed ==
  /\ socket \in [Sockets -> Socket] /\ serverClients \in [Sockets -> Nat] /\ conns \in Nat
  /\ port \in Seq(Arrived) /\ serverMsgs \in Seq(Told)
  /\ \A s \in Sockets : serverClients[s] <= conns /\ socket[s].conn <= conns
  /\ \A j \in DOMAIN port : port[j].conn \in 1 .. conns
  /\ \A j \in DOMAIN serverMsgs : serverMsgs[j].conn \in 1 .. conns

\* A socket has a connection, or no operation is outstanding; one that waits
\* for a connection belongs to the listening server.
SocketsAreSound ==
  \A s \in Sockets :
    /\ socket[s].is \in {"closed", "accept"} => socket[s].conn = 0
    /\ socket[s].is = "accept" => socket[s].listen
    /\ socket[s].conn = 0 => socket[s].op = "none"

\* What comes after something about connection k on the same handle is about
\* k, which it does not announce, or about a later connection.
Behind(k, x) == k <= x.conn /\ (x.what \in {"accept", "accepted"} => k < x.conn)
Beneath(k, s) == socket[s].conn = 0 \/ k <= socket[s].conn

Rising(q) ==
  \A j, l \in DOMAIN q : j < l /\ q[j].s = q[l].s => Behind(q[j].conn, q[l])

\* What the server has, what waits for it, what waits for the IO thread and the
\* socket itself are in the order of the connections of the handle.
ClientsFirst ==
  \A s \in Sockets :
    /\ Beneath(serverClients[s], s)
    /\ \A j \in DOMAIN serverMsgs : serverMsgs[j].s = s => Behind(serverClients[s], serverMsgs[j])
    /\ \A j \in DOMAIN port : port[j].s = s => Behind(serverClients[s], port[j])

MessagesNext ==
  /\ Rising(serverMsgs)
  /\ \A j \in DOMAIN serverMsgs :
       /\ Beneath(serverMsgs[j].conn, serverMsgs[j].s)
       /\ \A l \in DOMAIN port :
            serverMsgs[j].s = port[l].s => Behind(serverMsgs[j].conn, port[l])

PortLast ==
  /\ Rising(port)
  /\ \A j \in DOMAIN port : Beneath(port[j].conn, port[j].s)

\* Completions know whether their socket was accepted; the server has messages
\* and clients once it is in the list.
Listens ==
  /\ \A j \in DOMAIN port :
       /\ socket[port[j].s].conn = port[j].conn => port[j].listen = socket[port[j].s].listen
       /\ port[j].what = "accepted" => port[j].listen
  /\ (serverMsgs # <<>> \/ \E s \in Sockets : serverClients[s] # 0) => m_ServerList

\* Connection k is that of the socket still, or the application has closed it.
Stays(k, s) == k \in quit \/ (socket[s].conn = k /\ socket[s].listen)
End(s, l) == serverMsgs[l].what = "disconn" /\ serverMsgs[l].s = s

\* A connection that the server has heard of, or will, stays or its end is told.
EndsAreTold ==
  /\ \A s \in Sockets : serverClients[s] # 0 =>
       Stays(serverClients[s], s) \/ \E l \in DOMAIN serverMsgs : End(s, l)
  /\ \A j \in DOMAIN serverMsgs : serverMsgs[j].what = "accept" =>
       \/ Stays(serverMsgs[j].conn, serverMsgs[j].s)
       \/ \E l \in DOMAIN serverMsgs : j < l /\ End(serverMsgs[j].s, l)
  /\ \A j \in DOMAIN port : port[j].what = "accepted" => Stays(port[j].conn, port[j].s)

\* Before the server hears of another connection on the handle it hears the end
\* of the one it knows.
EndsComeBetween ==
  /\ \A s \in Sockets : \A l \in DOMAIN serverMsgs :
       /\ serverClients[s] # 0 /\ serverClients[s] \notin quit
       /\ serverMsgs[l].s = s /\ serverMsgs[l].conn # serverClients[s]
       => \E n \in DOMAIN serverMsgs : n < l /\ End(s, n)
  /\ \A j, l \in DOMAIN serverMsgs :
       /\ serverMsgs[j].what = "accept" /\ serverMsgs[j].conn \notin quit
       /\ j < l /\ serverMsgs[l].s = serverMsgs[j].s /\ serverMsgs[l].conn # serverMsgs[j].conn
       => \E n \in DOMAIN serverMsgs : j < n /\ n < l /\ End(serverMsgs[j].s, n)

\* The invariant, up to the step that uses a handle for another socket.
Kept ==
  /\ Typed /\ SocketsAreSound
  /\ ClientsFirst /\ MessagesNext /\ PortLast
  /\ Listens /\ EndsAreTold /\ EndsComeBetween

NetInv == Net!PacketsStayApart /\ (stray \/ Kept)

-----------------------------------------------------------------------------
(* Sequences                                                               *)

LEMMA TailShifts ==
  ASSUME NEW T, NEW q \in Seq(T), q # <<>>
  PROVE  /\ Tail(q) \in Seq(T) /\ DOMAIN Tail(q) = 1 .. Len(q) - 1 /\ DOMAIN q = 1 .. Len(q)
         /\ Head(q) = q[1] /\ 1 \in DOMAIN q /\ q[1] \in T /\ Len(q) \in Nat
         /\ \A j \in DOMAIN Tail(q) : j \in Nat /\ j + 1 \in DOMAIN q /\ Tail(q)[j] = q[j + 1]
<1>1. Tail(q) \in Seq(T) /\ Len(Tail(q)) = Len(q) - 1 /\ Len(q) \in Nat \ {0}
  BY HeadTailProperties, EmptySeq
<1>2. \A j \in 1 .. Len(Tail(q)) : Tail(q)[j] = q[j + 1]
  BY <1>1, HeadTailProperties
<1>3. Head(q) = q[1] /\ q[1] \in T
  BY <1>1
<1> QED
  BY <1>1, <1>2, <1>3

LEMMA AppendAdds ==
  ASSUME NEW T, NEW q \in Seq(T), NEW x \in T
  PROVE  /\ Append(q, x) \in Seq(T) /\ DOMAIN Append(q, x) = 1 .. Len(q) + 1
         /\ DOMAIN q = 1 .. Len(q) /\ Len(q) \in Nat
         /\ \A j \in DOMAIN q : j \in Nat /\ j <= Len(q) /\ Append(q, x)[j] = q[j]
         /\ Append(q, x)[Len(q) + 1] = x
         /\ \A j \in DOMAIN Append(q, x) : j \in DOMAIN q \/ j = Len(q) + 1
<1>1. Append(q, x) \in Seq(T) /\ Len(Append(q, x)) = Len(q) + 1 /\ Len(q) \in Nat
  BY AppendProperties
<1>2. Append(q, x)[Len(q) + 1] = x /\ \A j \in 1 .. Len(q) : Append(q, x)[j] = q[j]
  BY AppendProperties
<1> QED
  BY <1>1, <1>2

LEMMA ElementTyped ==
  ASSUME NEW T, NEW q \in Seq(T), NEW j \in DOMAIN q
  PROVE  q[j] \in T
OBVIOUS

-----------------------------------------------------------------------------
(* Steps that tell the server nothing                                      *)

\* A completion of an operation of a socket.
OfSocket(c) ==
  /\ c \in Arrived /\ c.what # "accepted"
  /\ c.conn # 0 /\ c.conn = socket[c.s].conn /\ c.listen = socket[c.s].listen

PortMoves ==
  \/ UNCHANGED port
  \/ port # <<>> /\ port' = Tail(port)
  \/ \E c \in Arrived : OfSocket(c) /\ port' = Append(port, c)

\* The server may time out a client; a socket may be closed, that of a client
\* that is timed out or of a connection the application closes.
Settles ==
  /\ PortMoves
  /\ socket' \in [Sockets -> Socket] /\ SocketsAreSound'
  /\ UNCHANGED <<serverMsgs, conns, grouped>>
  /\ serverClients' \in [Sockets -> Nat]
  /\ \A s \in Sockets : serverClients'[s] \in {serverClients[s], 0}
  /\ quit \subseteq quit'
  /\ m_ServerList => m_ServerList'
  /\ \A s \in Sockets :
       \/ socket'[s].conn = socket[s].conn /\ socket'[s].listen = socket[s].listen
       \/ /\ socket'[s].conn = 0
          /\ \/ socket[s].conn \in quit' \cup {0}
             \/ socket[s].conn = serverClients[s] /\ serverClients'[s] = 0

LEMMA PortStays ==
  ASSUME Typed, PortMoves
  PROVE  /\ port' \in Seq(Arrived)
         /\ \A j \in DOMAIN port' :
              OfSocket(port'[j]) \/ \E m \in DOMAIN port : port'[j] = port[m]
         /\ \A j, l \in DOMAIN port' : j < l =>
              \E m \in DOMAIN port :
                /\ port'[j] = port[m]
                /\ OfSocket(port'[l]) \/ \E n \in DOMAIN port : m < n /\ port'[l] = port[n]
<1>0. port \in Seq(Arrived)
  BY DEF Typed
<1>1. CASE UNCHANGED port
  <2>1. DOMAIN port' \subseteq Nat
    BY <1>0, <1>1
  <2> QED
    BY <1>0, <1>1
<1>2. CASE port # <<>> /\ port' = Tail(port)
  <2>1. \A j, l \in DOMAIN port' : j < l => j + 1 < l + 1
    BY <1>0, <1>2, TailShifts
  <2> QED
    BY <1>0, <1>2, <2>1, TailShifts
<1>3. ASSUME NEW c \in Arrived, OfSocket(c), port' = Append(port, c)
      PROVE  /\ port' \in Seq(Arrived)
             /\ \A j \in DOMAIN port' :
                  OfSocket(port'[j]) \/ \E m \in DOMAIN port : port'[j] = port[m]
             /\ \A j, l \in DOMAIN port' : j < l =>
                  \E m \in DOMAIN port :
                    /\ port'[j] = port[m]
                    /\ OfSocket(port'[l]) \/ \E n \in DOMAIN port : m < n /\ port'[l] = port[n]
  <2> HIDE DEF OfSocket
  <2>1. /\ port' \in Seq(Arrived) /\ Len(port) \in Nat
        /\ \A j \in DOMAIN port' : j \in DOMAIN port \/ j = Len(port) + 1
        /\ \A j \in DOMAIN port : j \in Nat /\ j <= Len(port) /\ port'[j] = port[j]
        /\ port'[Len(port) + 1] = c
    BY <1>0, <1>3, AppendAdds
  <2>2. \A j, l \in DOMAIN port' : j < l => j \in DOMAIN port
    BY <2>1
  <2> QED
    BY <1>3, <2>1, <2>2
<1> QED
  BY <1>1, <1>2, <1>3 DEF PortMoves

LEMMA KeptSettles ==
  ASSUME Kept, Settles
  PROVE  Kept'
<1>0. /\ Typed /\ PortMoves /\ serverMsgs' = serverMsgs /\ conns' = conns
      /\ serverMsgs \in Seq(Told) /\ port \in Seq(Arrived) /\ conns \in Nat
      /\ socket \in [Sockets -> Socket] /\ serverClients \in [Sockets -> Nat]
  BY DEF Kept, Typed, Settles
<1>m. \A j \in DOMAIN serverMsgs : serverMsgs[j] \in Told /\ serverMsgs[j].s \in Sockets /\ serverMsgs[j].conn \in Nat
  <2>1. \A j \in DOMAIN serverMsgs : serverMsgs[j] \in Told
    BY <1>0, ElementTyped
  <2> QED
    BY <2>1 DEF Told
<1>p. \A j \in DOMAIN port : port[j] \in Arrived /\ port[j].s \in Sockets /\ port[j].conn \in Nat
  <2>1. \A j \in DOMAIN port : port[j] \in Arrived
    BY <1>0, ElementTyped
  <2> QED
    BY <2>1 DEF Arrived
<1>q. \A j \in DOMAIN port' :
        /\ port'[j] \in Arrived /\ port'[j].s \in Sockets
        /\ OfSocket(port'[j]) \/ \E m \in DOMAIN port : port'[j] = port[m]
  BY <1>0, <1>p, PortStays DEF OfSocket, Arrived
<1>s. \A s \in Sockets : socket[s].conn \in Nat /\ socket[s].conn <= conns /\ serverClients[s] \in Nat
  BY <1>0 DEF Typed, Socket
<1>f. ASSUME NEW c, OfSocket(c)
      PROVE  /\ c.s \in Sockets /\ c.conn = socket[c.s].conn /\ c.conn \in 1 .. conns
             /\ c.what \notin {"accept", "accepted"} /\ c.listen = socket[c.s].listen
  BY <1>f, <1>s, <1>0 DEF OfSocket, Arrived
<1>b. \A s \in Sockets, k \in Nat : Beneath(k, s) => Beneath(k, s)'
  BY DEF Settles, Beneath
<1>t. Typed'
  <2>1. port' \in Seq(Arrived)
    BY <1>0, PortStays
  <2>2. \A j \in DOMAIN port' : port'[j].conn \in 1 .. conns
    BY <1>q, <1>f, <1>0 DEF Typed
  <2>3. \A s \in Sockets : serverClients'[s] <= conns /\ socket'[s].conn <= conns
    <3> SUFFICES ASSUME NEW s \in Sockets PROVE serverClients'[s] <= conns /\ socket'[s].conn <= conns
      OBVIOUS
    <3>1. serverClients[s] <= conns /\ socket[s].conn <= conns /\ 0 <= conns
      BY <1>0 DEF Typed
    <3>2. serverClients'[s] \in {serverClients[s], 0} /\ socket'[s].conn \in {socket[s].conn, 0}
      BY DEF Settles
    <3> QED
      BY <3>1, <3>2
  <2> QED
    BY <1>0, <2>1, <2>2, <2>3 DEF Typed, Settles
<1>1. ClientsFirst'
  <2> SUFFICES ASSUME NEW s \in Sockets
               PROVE  /\ Beneath(serverClients[s], s)'
                      /\ \A j \in DOMAIN serverMsgs : serverMsgs[j].s = s => Behind(serverClients'[s], serverMsgs[j])
                      /\ \A j \in DOMAIN port' : port'[j].s = s => Behind(serverClients'[s], port'[j])
    BY <1>0 DEF ClientsFirst
  <2>1. /\ Beneath(serverClients[s], s)
        /\ \A j \in DOMAIN serverMsgs : serverMsgs[j].s = s => Behind(serverClients[s], serverMsgs[j])
        /\ \A j \in DOMAIN port : port[j].s = s => Behind(serverClients[s], port[j])
    BY DEF Kept, ClientsFirst
  <2>2. \A j \in DOMAIN port' : port'[j].s = s => Behind(serverClients[s], port'[j])
    <3> SUFFICES ASSUME NEW j \in DOMAIN port', port'[j].s = s PROVE Behind(serverClients[s], port'[j])
      OBVIOUS
    <3>1. CASE OfSocket(port'[j])
      BY <1>f, <1>s, <2>1, <3>1 DEF Behind, Beneath
    <3>2. CASE \E m \in DOMAIN port : port'[j] = port[m]
      BY <2>1, <3>2
    <3> QED
      BY <1>q, <3>1, <3>2
  <2>3. CASE serverClients'[s] = serverClients[s]
    BY <1>b, <1>s, <2>1, <2>2, <2>3 DEF Beneath
  <2>4. CASE serverClients'[s] = 0
    <3>1. \A j \in DOMAIN serverMsgs : serverMsgs[j].conn \in 1 .. conns
      BY DEF Kept, Typed
    <3>2. \A j \in DOMAIN port' : port'[j].conn \in 1 .. conns
      BY <1>t, <1>0 DEF Typed
    <3>3. socket'[s].conn \in Nat
      BY DEF Settles, Socket
    <3> QED
      BY <1>0, <2>4, <3>1, <3>2, <3>3 DEF Behind, Beneath
  <2> QED
    BY <2>3, <2>4 DEF Settles
<1>2. MessagesNext'
  <2>1. \A j \in DOMAIN serverMsgs, l \in DOMAIN port' :
          serverMsgs[j].s = port'[l].s => Behind(serverMsgs[j].conn, port'[l])
    <3> SUFFICES ASSUME NEW j \in DOMAIN serverMsgs, NEW l \in DOMAIN port', serverMsgs[j].s = port'[l].s
                 PROVE  Behind(serverMsgs[j].conn, port'[l])
      OBVIOUS
    <3>0. Beneath(serverMsgs[j].conn, serverMsgs[j].s)
      BY DEF Kept, MessagesNext
    <3>1. CASE OfSocket(port'[l])
      BY <1>f, <1>m, <3>0, <3>1 DEF Behind, Beneath
    <3>2. CASE \E m \in DOMAIN port : port'[l] = port[m]
      BY <3>2 DEF Kept, MessagesNext
    <3> QED
      BY <1>q, <3>1, <3>2
  <2> QED
    BY <1>0, <1>b, <1>m, <2>1 DEF Kept, MessagesNext, Rising
<1>3. PortLast'
  <2>1. \A j \in DOMAIN port' : Beneath(port'[j].conn, port'[j].s)
    <3> SUFFICES ASSUME NEW j \in DOMAIN port' PROVE Beneath(port'[j].conn, port'[j].s)
      OBVIOUS
    <3>1. CASE OfSocket(port'[j])
      BY <1>s, <1>f, <3>1 DEF Beneath
    <3>2. CASE \E m \in DOMAIN port : port'[j] = port[m]
      BY <3>2 DEF Kept, PortLast
    <3> QED
      BY <1>q, <3>1, <3>2
  <2>2. \A j \in DOMAIN port' :
          socket'[port'[j].s].conn = 0 \/ port'[j].conn <= socket'[port'[j].s].conn
    BY <2>1, <1>q DEF Beneath, Settles
  <2>3. ASSUME NEW j \in DOMAIN port', NEW l \in DOMAIN port', j < l, port'[j].s = port'[l].s
        PROVE  Behind(port'[j].conn, port'[l])
    <3>1. PICK m \in DOMAIN port :
            /\ port'[j] = port[m]
            /\ OfSocket(port'[l]) \/ \E n \in DOMAIN port : m < n /\ port'[l] = port[n]
      BY <1>0, <2>3, PortStays
    <3>2. CASE OfSocket(port'[l])
      <4>1. Beneath(port'[j].conn, port'[j].s)
        BY <2>1
      <4>2. port'[l].conn = socket[port'[j].s].conn /\ port'[l].conn # 0 /\ port'[l].what \notin {"accept", "accepted"}
        BY <1>f, <2>3, <3>2 DEF OfSocket
      <4> QED
        BY <4>1, <4>2 DEF Behind, Beneath
    <3>3. CASE \E n \in DOMAIN port : m < n /\ port'[l] = port[n]
      BY <2>3, <3>1, <3>3 DEF Kept, PortLast, Rising
    <3> QED
      BY <3>1, <3>2, <3>3
  <2> QED
    BY <2>2, <2>3 DEF PortLast, Rising, Beneath
<1>4. Listens'
  <2>1. ASSUME NEW j \in DOMAIN port', socket'[port'[j].s].conn = port'[j].conn
        PROVE  port'[j].listen = socket'[port'[j].s].listen
    <3> DEFINE s == port'[j].s
    <3>1. s \in Sockets /\ port'[j].conn # 0
      BY <1>q, <1>t DEF Typed
    <3>2. socket'[s].conn = socket[s].conn /\ socket'[s].listen = socket[s].listen
      BY <2>1, <3>1 DEF Settles
    <3>3. CASE OfSocket(port'[j])
      BY <1>f, <3>2, <3>3
    <3>4. CASE \E m \in DOMAIN port : port'[j] = port[m]
      BY <2>1, <3>2, <3>4 DEF Kept, Listens
    <3> QED
      BY <1>q, <3>3, <3>4
  <2>2. \A j \in DOMAIN port' : port'[j].what = "accepted" => port'[j].listen
    BY <1>q, <1>f DEF Kept, Listens
  <2>3. (serverMsgs # <<>> \/ \E s \in Sockets : serverClients'[s] # 0) => m_ServerList'
    BY DEF Kept, Listens, Settles
  <2> QED
    BY <1>0, <2>1, <2>2, <2>3 DEF Listens
<1>5. EndsAreTold'
  <2>1. ASSUME NEW s \in Sockets, NEW k \in Nat \ {0}, Stays(k, s),
               serverClients[s] # k \/ serverClients'[s] = k
        PROVE  Stays(k, s)'
    BY <2>1 DEF Stays, Settles
  <2>2. ASSUME NEW s \in Sockets, serverClients'[s] # 0
        PROVE  Stays(serverClients[s], s)' \/ \E l \in DOMAIN serverMsgs : End(s, l)
    <3>1. serverClients'[s] = serverClients[s]
      BY <2>2 DEF Settles
    <3> QED
      BY <1>s, <2>1, <2>2, <3>1 DEF Kept, EndsAreTold
  <2>3. ASSUME NEW j \in DOMAIN serverMsgs, serverMsgs[j].what = "accept"
        PROVE  \/ Stays(serverMsgs[j].conn, serverMsgs[j].s)'
               \/ \E l \in DOMAIN serverMsgs : j < l /\ End(serverMsgs[j].s, l)
    <3>1. serverClients[serverMsgs[j].s] < serverMsgs[j].conn
      BY <1>m, <2>3 DEF Kept, ClientsFirst, Behind
    <3>2. serverMsgs[j].conn \in Nat \ {0}
      BY DEF Kept, Typed
    <3>3. serverClients[serverMsgs[j].s] # serverMsgs[j].conn
      BY <1>m, <1>s, <3>1
    <3>4. Stays(serverMsgs[j].conn, serverMsgs[j].s) => Stays(serverMsgs[j].conn, serverMsgs[j].s)'
      BY <1>m, <1>0, <2>1, <3>2, <3>3
    <3> QED
      BY <2>3, <3>4 DEF Kept, EndsAreTold
  <2>4. ASSUME NEW j \in DOMAIN port', port'[j].what = "accepted"
        PROVE  \/ port'[j].conn \in quit'
               \/ socket'[port'[j].s].conn = port'[j].conn /\ socket'[port'[j].s].listen
    <3>1. PICK m \in DOMAIN port : port'[j] = port[m]
      BY <1>q, <1>f, <2>4
    <3>2. serverClients[port[m].s] < port[m].conn
      BY <1>p, <2>4, <3>1 DEF Kept, ClientsFirst, Behind
    <3>3. port[m].conn \in Nat \ {0}
      BY DEF Kept, Typed
    <3>4. serverClients[port[m].s] # port[m].conn
      BY <1>p, <1>s, <3>2
    <3>5. Stays(port[m].conn, port[m].s)
      BY <2>4, <3>1 DEF Kept, EndsAreTold
    <3> HIDE DEF Kept
    <3>6. \A s \in Sockets, k \in Nat \ {0} : Stays(k, s) /\ serverClients[s] # k
            => k \in quit' \/ (socket'[s].conn = k /\ socket'[s].listen)
      BY DEF Stays, Settles
    <3> QED
      BY <1>p, <3>1, <3>3, <3>4, <3>5, <3>6
  <2>5. \A s \in Sockets, l \in DOMAIN serverMsgs : End(s, l) <=> End(s, l)'
    BY <1>0 DEF End
  <2>6. \A s \in Sockets : serverClients'[s] # 0 => serverClients'[s] = serverClients[s]
    BY DEF Settles
  <2>7. \A s \in Sockets : serverClients'[s] # 0 =>
          Stays(serverClients[s], s)' \/ \E l \in DOMAIN serverMsgs' : End(s, l)'
    BY <1>0, <2>2, <2>5, <2>6 DEF Stays
  <2>8. \A j \in DOMAIN serverMsgs' : serverMsgs'[j].what = "accept" =>
          \/ Stays(serverMsgs[j].conn, serverMsgs[j].s)'
          \/ \E l \in DOMAIN serverMsgs' : j < l /\ End(serverMsgs[j].s, l)'
    BY <1>0, <1>m, <2>3, <2>5 DEF Stays, End
  <2>9. \A j \in DOMAIN port' : port'[j].what = "accepted" => Stays(port[j].conn, port[j].s)'
    BY <2>4 DEF Stays
  <2> QED
    BY <2>7, <2>8, <2>9 DEF EndsAreTold
<1>6. EndsComeBetween'
  <2>1. \A s \in Sockets, l \in DOMAIN serverMsgs : End(s, l) <=> End(s, l)'
    BY <1>0 DEF End
  <2>2. \A k : k \notin quit' => k \notin quit
    BY DEF Settles
  <2>3. \A s \in Sockets : serverClients'[s] # 0 => serverClients'[s] = serverClients[s]
    BY DEF Settles
  <2> QED
    BY <1>0, <1>m, <2>1, <2>2, <2>3 DEF Kept, EndsComeBetween
<1> QED
  BY <1>t, <1>1, <1>2, <1>3, <1>4, <1>5, <1>6 DEF Kept, Settles

-----------------------------------------------------------------------------
(* A connection begins                                                     *)

\* The handle has none; the IO thread is told of a connection that is accepted.
Begins(s) ==
  /\ socket[s].conn = 0 /\ conns' = conns + 1
  /\ \E r \in Socket :
       /\ r.conn = conns + 1 /\ r.is = "up" /\ socket' = [socket EXCEPT ![s] = r]
       /\ \/ UNCHANGED port
          \/ \E c \in Arrived :
               /\ c.what = "accepted" /\ c.s = s /\ c.conn = conns + 1 /\ c.listen /\ r.listen
               /\ port' = Append(port, c)
  /\ UNCHANGED <<serverMsgs, serverClients, grouped, quit, m_ServerList>>

LEMMA KeptBegins ==
  ASSUME Kept, NEW s \in Sockets, Begins(s)
  PROVE  Kept'
<1>0. /\ Typed /\ serverMsgs' = serverMsgs /\ serverClients' = serverClients /\ conns' = conns + 1
      /\ quit' = quit /\ m_ServerList' = m_ServerList
      /\ serverMsgs \in Seq(Told) /\ port \in Seq(Arrived) /\ conns \in Nat
      /\ socket \in [Sockets -> Socket] /\ serverClients \in [Sockets -> Nat]
  BY DEF Kept, Typed, Begins
<1>m. \A j \in DOMAIN serverMsgs :
        serverMsgs[j] \in Told /\ serverMsgs[j].s \in Sockets /\ serverMsgs[j].conn \in 1 .. conns
  <2>1. \A j \in DOMAIN serverMsgs : serverMsgs[j] \in Told
    BY <1>0, ElementTyped
  <2> QED
    BY <1>0, <2>1 DEF Told, Typed
<1>p. \A j \in DOMAIN port :
        port[j] \in Arrived /\ port[j].s \in Sockets /\ port[j].conn \in 1 .. conns
  <2>1. \A j \in DOMAIN port : port[j] \in Arrived
    BY <1>0, ElementTyped
  <2> QED
    BY <1>0, <2>1 DEF Arrived, Typed
<1>s. \A t \in Sockets : socket[t].conn \in 0 .. conns /\ serverClients[t] \in 0 .. conns
  BY <1>0 DEF Typed, Socket
<1>r. /\ socket' \in [Sockets -> Socket]
      /\ socket'[s].conn = conns + 1 /\ socket'[s].is = "up"
      /\ \A t \in Sockets \ {s} : socket'[t] = socket[t]
  BY <1>0 DEF Begins
<1> DEFINE New(c) == c \in Arrived /\ c.what = "accepted" /\ c.s = s /\ c.conn = conns + 1
                       /\ c.listen /\ socket'[s].listen
<1> HIDE DEF New
<1>q. /\ port' \in Seq(Arrived)
      /\ \A j \in DOMAIN port' : New(port'[j]) \/ (j \in DOMAIN port /\ port'[j] = port[j])
      /\ \A j, l \in DOMAIN port' : j < l => j \in DOMAIN port /\ port'[j] = port[j]
  <2>1. CASE UNCHANGED port
    BY <1>0, <2>1
  <2>2. ASSUME NEW c \in Arrived, c.what = "accepted", c.s = s, c.conn = conns + 1,
               c.listen, socket'[s].listen, port' = Append(port, c)
        PROVE  /\ port' \in Seq(Arrived)
               /\ \A j \in DOMAIN port' : New(port'[j]) \/ (j \in DOMAIN port /\ port'[j] = port[j])
               /\ \A j, l \in DOMAIN port' : j < l => j \in DOMAIN port /\ port'[j] = port[j]
    <3>1. /\ port' \in Seq(Arrived) /\ Len(port) \in Nat
          /\ \A j \in DOMAIN port' : j \in DOMAIN port \/ j = Len(port) + 1
          /\ \A j \in DOMAIN port : j \in Nat /\ j <= Len(port) /\ port'[j] = port[j]
          /\ port'[Len(port) + 1] = c
      BY <1>0, <2>2, AppendAdds
    <3>2. New(c)
      BY <2>2 DEF New
    <3> QED
      BY <3>1, <3>2
  <2> QED
    <3>1. PICK r \in Socket : /\ socket' = [socket EXCEPT ![s] = r]
                             /\ \/ UNCHANGED port
                                \/ \E c \in Arrived :
                                     /\ c.what = "accepted" /\ c.s = s /\ c.conn = conns + 1 /\ c.listen /\ r.listen
                                     /\ port' = Append(port, c)
      BY DEF Begins
    <3>2. socket'[s] = r
      BY <1>0, <3>1
    <3> QED
      BY <2>1, <2>2, <3>1, <3>2
<1>o. \A j \in DOMAIN port' : port'[j].what # "accepted" => j \in DOMAIN port /\ port'[j] = port[j]
  BY <1>q DEF New
<1>b. \A t \in Sockets, k \in 0 .. conns :
        Beneath(k, t) => socket'[t].conn = 0 \/ k <= socket'[t].conn
  BY <1>r, <1>0 DEF Beneath
<1>t. Typed'
  <2>1. \A j \in DOMAIN port' : port'[j].conn \in 1 .. conns + 1
    BY <1>0, <1>p, <1>q DEF New
  <2>2. \A t \in Sockets : serverClients[t] <= conns + 1 /\ socket'[t].conn <= conns + 1
    BY <1>0, <1>s, <1>r
  <2>3. \A j \in DOMAIN serverMsgs : serverMsgs[j].conn \in 1 .. conns + 1
    BY <1>0, <1>m
  <2> QED
    BY <1>0, <1>r, <1>q, <2>1, <2>2, <2>3 DEF Typed
<1>u. SocketsAreSound'
  BY <1>r, <1>0 DEF Kept, SocketsAreSound
<1>1. ClientsFirst'
  <2>1. \A t \in Sockets, j \in DOMAIN port' : port'[j].s = t => Behind(serverClients[t], port'[j])
    <3> SUFFICES ASSUME NEW t \in Sockets, NEW j \in DOMAIN port', port'[j].s = t
                 PROVE  Behind(serverClients[t], port'[j])
      OBVIOUS
    <3>1. CASE New(port'[j])
      BY <1>0, <1>s, <3>1 DEF New, Behind
    <3>2. CASE j \in DOMAIN port /\ port'[j] = port[j]
      BY <3>2 DEF Kept, ClientsFirst
    <3> QED
      BY <1>q, <3>1, <3>2
  <2>2. \A t \in Sockets : Beneath(serverClients[t], t)
    BY DEF Kept, ClientsFirst
  <2>3. \A t \in Sockets : socket'[t].conn = 0 \/ serverClients[t] <= socket'[t].conn
    BY <1>b, <1>s, <2>2
  <2> QED
    BY <1>0, <2>1, <2>3 DEF Kept, ClientsFirst, Beneath
<1>2. MessagesNext'
  <2>1. \A j \in DOMAIN serverMsgs, l \in DOMAIN port' :
          serverMsgs[j].s = port'[l].s => Behind(serverMsgs[j].conn, port'[l])
    <3> SUFFICES ASSUME NEW j \in DOMAIN serverMsgs, NEW l \in DOMAIN port', serverMsgs[j].s = port'[l].s
                 PROVE  Behind(serverMsgs[j].conn, port'[l])
      OBVIOUS
    <3>1. CASE New(port'[l])
      BY <1>0, <1>m, <3>1 DEF New, Behind
    <3>2. CASE l \in DOMAIN port /\ port'[l] = port[l]
      BY <3>2 DEF Kept, MessagesNext
    <3> QED
      BY <1>q, <3>1, <3>2
  <2>2. \A j \in DOMAIN serverMsgs : Beneath(serverMsgs[j].conn, serverMsgs[j].s)
    BY DEF Kept, MessagesNext
  <2>3. \A j \in DOMAIN serverMsgs :
          socket'[serverMsgs[j].s].conn = 0 \/ serverMsgs[j].conn <= socket'[serverMsgs[j].s].conn
    BY <1>b, <1>m, <1>0, <2>2
  <2> QED
    BY <1>0, <2>1, <2>3 DEF Kept, MessagesNext, Rising, Beneath
<1>3. PortLast'
  <2>1. \A j \in DOMAIN port' :
          socket'[port'[j].s].conn = 0 \/ port'[j].conn <= socket'[port'[j].s].conn
    <3> SUFFICES ASSUME NEW j \in DOMAIN port'
                 PROVE  socket'[port'[j].s].conn = 0 \/ port'[j].conn <= socket'[port'[j].s].conn
      OBVIOUS
    <3>1. CASE New(port'[j])
      BY <1>r, <1>0, <3>1 DEF New
    <3>2. CASE j \in DOMAIN port /\ port'[j] = port[j]
      <4>1. Beneath(port[j].conn, port[j].s)
        BY <3>2 DEF Kept, PortLast
      <4> QED
        BY <1>b, <1>p, <1>0, <3>2, <4>1
    <3> QED
      BY <1>q, <3>1, <3>2
  <2>2. ASSUME NEW j \in DOMAIN port', NEW l \in DOMAIN port', j < l, port'[j].s = port'[l].s
        PROVE  Behind(port'[j].conn, port'[l])
    <3>0. j \in DOMAIN port /\ port'[j] = port[j]
      BY <1>q, <2>2
    <3>1. CASE New(port'[l])
      BY <1>0, <1>p, <3>0, <3>1 DEF New, Behind
    <3>2. CASE l \in DOMAIN port /\ port'[l] = port[l]
      BY <2>2, <3>0, <3>2 DEF Kept, PortLast, Rising
    <3> QED
      BY <1>q, <3>1, <3>2
  <2> QED
    BY <2>1, <2>2 DEF PortLast, Rising, Beneath
<1>4. Listens'
  <2>1. ASSUME NEW j \in DOMAIN port', socket'[port'[j].s].conn = port'[j].conn
        PROVE  port'[j].listen = socket'[port'[j].s].listen
    <3>1. CASE New(port'[j])
      BY <1>r, <3>1 DEF New, Arrived, Socket
    <3>2. CASE j \in DOMAIN port /\ port'[j] = port[j]
      <4>1. port[j].s # s
        BY <1>r, <1>p, <1>0, <2>1, <3>2
      <4> QED
        BY <1>r, <1>p, <2>1, <3>2, <4>1 DEF Kept, Listens
    <3> QED
      BY <1>q, <3>1, <3>2
  <2>2. \A j \in DOMAIN port' : port'[j].what = "accepted" => port'[j].listen
    BY <1>q DEF Kept, Listens, New
  <2> QED
    BY <1>0, <2>1, <2>2 DEF Kept, Listens
<1>5. EndsAreTold'
  <2>0. \A k \in Nat \ {0}, t \in Sockets : Stays(k, t) => k \in quit' \/ (socket'[t].conn = k /\ socket'[t].listen)
    BY <1>r, <1>0 DEF Stays, Begins
  <2>1. \A t \in Sockets : serverClients[t] # 0 =>
          \/ serverClients[t] \in quit' \/ (socket'[t].conn = serverClients[t] /\ socket'[t].listen)
          \/ \E l \in DOMAIN serverMsgs : End(t, l)
    BY <1>s, <1>0, <2>0 DEF Kept, EndsAreTold
  <2>2. \A j \in DOMAIN serverMsgs : serverMsgs[j].what = "accept" =>
          \/ serverMsgs[j].conn \in quit'
          \/ socket'[serverMsgs[j].s].conn = serverMsgs[j].conn /\ socket'[serverMsgs[j].s].listen
          \/ \E l \in DOMAIN serverMsgs : j < l /\ End(serverMsgs[j].s, l)
    <3> SUFFICES ASSUME NEW j \in DOMAIN serverMsgs, serverMsgs[j].what = "accept",
                        Stays(serverMsgs[j].conn, serverMsgs[j].s)
                 PROVE  \/ serverMsgs[j].conn \in quit'
                        \/ socket'[serverMsgs[j].s].conn = serverMsgs[j].conn /\ socket'[serverMsgs[j].s].listen
      BY DEF Kept, EndsAreTold
    <3>1. serverMsgs[j].conn \in Nat \ {0} /\ serverMsgs[j].s \in Sockets
      BY <1>m, <1>0
    <3> QED
      BY <2>0, <3>1
  <2>3. ASSUME NEW j \in DOMAIN port', port'[j].what = "accepted"
        PROVE  \/ port'[j].conn \in quit'
               \/ socket'[port'[j].s].conn = port'[j].conn /\ socket'[port'[j].s].listen
    <3>1. CASE New(port'[j])
      BY <1>r, <3>1 DEF New
    <3>2. CASE j \in DOMAIN port /\ port'[j] = port[j]
      <4>1. Stays(port[j].conn, port[j].s)
        BY <2>3, <3>2 DEF Kept, EndsAreTold
      <4> QED
        <5>1. port[j].conn \in Nat \ {0} /\ port[j].s \in Sockets
          BY <1>p, <1>0, <3>2
        <5> QED
          BY <2>0, <3>2, <4>1, <5>1
    <3> QED
      BY <1>q, <3>1, <3>2
  <2> QED
    BY <1>0, <2>1, <2>2, <2>3 DEF EndsAreTold, Stays, End
<1>6. EndsComeBetween'
  BY <1>0 DEF Kept, EndsComeBetween, End
<1> QED
  BY <1>t, <1>u, <1>1, <1>2, <1>3, <1>4, <1>5, <1>6 DEF Kept

-----------------------------------------------------------------------------
(* The IO thread tells of a completion                                     *)

\* The message about the completion c.
About(m, c) ==
  /\ m \in Told /\ m.s = c.s /\ m.conn = c.conn
  /\ m.what = "accept" <=> c.what = "accepted"
  /\ m.what = "disconn" <=> c.what = "disconnected"

\* Only the end of its connection frees a socket.
Tells(c) ==
  /\ port # <<>> /\ c = Head(port) /\ port' = Tail(port)
  /\ socket[c.s].conn \in {0, c.conn}
  /\ socket' \in [Sockets -> Socket] /\ SocketsAreSound'
  /\ UNCHANGED <<serverClients, conns, grouped, quit, m_ServerList>>
  /\ \A s \in Sockets :
       \/ socket'[s].conn = socket[s].conn /\ socket'[s].listen = socket[s].listen
       \/ socket'[s].conn = 0 /\ s = c.s /\ socket[s].conn = c.conn /\ c.what = "disconnected"
  /\ \/ c.listen /\ m_ServerList /\ \E m : About(m, c) /\ serverMsgs' = Append(serverMsgs, m)
     \/ ~(c.listen /\ m_ServerList) /\ UNCHANGED serverMsgs

LEMMA KeptTells ==
  ASSUME Kept, NEW c, Tells(c)
  PROVE  Kept'
<1>0. /\ Typed /\ conns' = conns /\ serverClients' = serverClients
      /\ quit' = quit /\ m_ServerList' = m_ServerList
      /\ serverMsgs \in Seq(Told) /\ port \in Seq(Arrived) /\ conns \in Nat
      /\ socket \in [Sockets -> Socket] /\ serverClients \in [Sockets -> Nat]
      /\ port # <<>> /\ c = Head(port) /\ port' = Tail(port)
      /\ socket' \in [Sockets -> Socket]
  BY DEF Kept, Typed, Tells
<1>m. \A j \in DOMAIN serverMsgs :
        /\ serverMsgs[j] \in Told /\ serverMsgs[j].s \in Sockets
        /\ serverMsgs[j].conn \in 1 .. conns /\ serverMsgs[j].conn \in Nat \ {0}
  <2>1. \A j \in DOMAIN serverMsgs : serverMsgs[j] \in Told
    BY <1>0, ElementTyped
  <2> QED
    BY <1>0, <2>1 DEF Told, Typed
<1>p. \A j \in DOMAIN port :
        /\ port[j] \in Arrived /\ port[j].s \in Sockets
        /\ port[j].conn \in 1 .. conns /\ port[j].conn \in Nat \ {0}
  <2>1. \A j \in DOMAIN port : port[j] \in Arrived
    BY <1>0, ElementTyped
  <2> QED
    BY <1>0, <2>1 DEF Arrived, Typed
<1>q. /\ port' \in Seq(Arrived)
      /\ c = port[1] /\ 1 \in DOMAIN port
      /\ \A j \in DOMAIN port' : j \in Nat /\ 1 < j + 1 /\ j + 1 \in DOMAIN port /\ port'[j] = port[j + 1]
  <2>1. /\ port' \in Seq(Arrived) /\ c = port[1] /\ 1 \in DOMAIN port
        /\ DOMAIN port' = 1 .. Len(port) - 1 /\ Len(port) \in Nat
        /\ \A j \in DOMAIN port' : j \in Nat /\ j + 1 \in DOMAIN port /\ port'[j] = port[j + 1]
    BY <1>0, TailShifts
  <2> QED
    BY <2>1
<1>c. c \in Arrived /\ c.s \in Sockets /\ c.conn \in 1 .. conns /\ c.conn \in Nat \ {0}
  BY <1>p, <1>q
<1>s. \A s \in Sockets : /\ socket[s].conn \in Nat /\ socket[s].conn <= conns
                         /\ serverClients[s] \in Nat /\ serverClients[s] <= conns
  BY <1>0 DEF Typed, Socket
<1>r. /\ serverMsgs' \in Seq(Told)
      /\ \A j \in DOMAIN serverMsgs : j \in DOMAIN serverMsgs' /\ serverMsgs'[j] = serverMsgs[j]
      /\ \A j \in DOMAIN serverMsgs' :
           \/ j \in DOMAIN serverMsgs
           \/ /\ About(serverMsgs'[j], c) /\ c.listen /\ m_ServerList
              /\ \A l \in DOMAIN serverMsgs : l < j
              /\ \A l \in DOMAIN serverMsgs' : l <= j
      /\ \A j \in DOMAIN serverMsgs' : j \in Nat
      /\ c.listen /\ m_ServerList /\ c.what = "disconnected" =>
           \E l \in DOMAIN serverMsgs' :
             (serverMsgs'[l].what = "disconn" /\ serverMsgs'[l].s = c.s) /\ \A j \in DOMAIN serverMsgs : j < l
  <2>1. CASE ~(c.listen /\ m_ServerList) /\ UNCHANGED serverMsgs
    BY <1>0, <2>1
  <2>2. ASSUME NEW m, About(m, c), serverMsgs' = Append(serverMsgs, m), c.listen, m_ServerList
        PROVE  /\ serverMsgs' \in Seq(Told)
               /\ \A j \in DOMAIN serverMsgs : j \in DOMAIN serverMsgs' /\ serverMsgs'[j] = serverMsgs[j]
               /\ \A j \in DOMAIN serverMsgs' :
                    \/ j \in DOMAIN serverMsgs
                    \/ /\ About(serverMsgs'[j], c) /\ c.listen /\ m_ServerList
                       /\ \A l \in DOMAIN serverMsgs : l < j
                       /\ \A l \in DOMAIN serverMsgs' : l <= j
               /\ \A j \in DOMAIN serverMsgs' : j \in Nat
               /\ c.what = "disconnected" =>
                    \E l \in DOMAIN serverMsgs' :
                      (serverMsgs'[l].what = "disconn" /\ serverMsgs'[l].s = c.s) /\ \A j \in DOMAIN serverMsgs : j < l
    <3>0. m \in Told
      BY <2>2 DEF About
    <3>1. /\ serverMsgs' \in Seq(Told) /\ Len(serverMsgs) \in Nat
          /\ DOMAIN serverMsgs' = 1 .. Len(serverMsgs) + 1 /\ DOMAIN serverMsgs = 1 .. Len(serverMsgs)
          /\ \A j \in DOMAIN serverMsgs' : j \in DOMAIN serverMsgs \/ j = Len(serverMsgs) + 1
          /\ \A j \in DOMAIN serverMsgs : j \in Nat /\ j <= Len(serverMsgs) /\ serverMsgs'[j] = serverMsgs[j]
          /\ serverMsgs'[Len(serverMsgs) + 1] = m
      BY <1>0, <2>2, <3>0, AppendAdds
    <3>2. \A l \in DOMAIN serverMsgs : l < Len(serverMsgs) + 1
      BY <3>1
    <3>3. Len(serverMsgs) + 1 \in DOMAIN serverMsgs' /\ \A j \in DOMAIN serverMsgs : j \in DOMAIN serverMsgs'
      BY <3>1
    <3>4. c.what = "disconnected" => m.what = "disconn" /\ m.s = c.s
      BY <2>2 DEF About
    <3> DEFINE e == Len(serverMsgs) + 1
    <3>5. e \in DOMAIN serverMsgs' /\ serverMsgs'[e] = m /\ \A l \in DOMAIN serverMsgs : l < e
      BY <3>1, <3>2, <3>3
    <3>6. /\ \A l \in DOMAIN serverMsgs' : l \in Nat /\ l <= e
          /\ \A j \in DOMAIN serverMsgs' : j \in DOMAIN serverMsgs \/ j = e
      BY <3>1
    <3> HIDE DEF e
    <3>7. \A j \in DOMAIN serverMsgs' :
            \/ j \in DOMAIN serverMsgs
            \/ About(serverMsgs'[j], c) /\ (\A l \in DOMAIN serverMsgs : l < j) /\ \A l \in DOMAIN serverMsgs' : l <= j
      BY <2>2, <3>5, <3>6
    <3>8. c.what = "disconnected" =>
            \E l \in DOMAIN serverMsgs' :
              (serverMsgs'[l].what = "disconn" /\ serverMsgs'[l].s = c.s) /\ \A j \in DOMAIN serverMsgs : j < l
      BY <3>4, <3>5
    <3> QED
      BY <2>2, <3>1, <3>3, <3>6, <3>7, <3>8
  <2> QED
    BY <2>1, <2>2 DEF Tells
<1>a. ASSUME NEW m, About(m, c)
      PROVE  /\ m \in Told /\ m.s = c.s /\ m.conn = c.conn
             /\ m.what = "accept" <=> c.what = "accepted"
             /\ m.what = "disconn" <=> c.what = "disconnected"
  BY <1>a DEF About
<1>b. \A s \in Sockets, k \in Nat : Beneath(k, s) => socket'[s].conn = 0 \/ k <= socket'[s].conn
  BY DEF Tells, Beneath
<1>d. \A j \in DOMAIN port' : port'[j].s = c.s => Behind(c.conn, port'[j])
  BY <1>q DEF Kept, PortLast, Rising
<1>e. \A k : \A m : About(m, c) /\ Behind(k, c) => Behind(k, m)
  BY <1>c DEF About, Behind, Told, Arrived
<1>t. Typed'
  <2>1. \A j \in DOMAIN port' : port'[j].conn \in 1 .. conns
    BY <1>p, <1>q
  <2>2. \A s \in Sockets : socket'[s].conn <= conns
    BY <1>s, <1>0 DEF Tells
  <2>3. \A j \in DOMAIN serverMsgs' : serverMsgs'[j].conn \in 1 .. conns
    BY <1>m, <1>r, <1>a, <1>c
  <2> QED
    BY <1>0, <1>s, <1>q, <1>r, <2>1, <2>2, <2>3 DEF Typed
<1>1. ClientsFirst'
  <2> SUFFICES ASSUME NEW s \in Sockets
               PROVE  /\ socket'[s].conn = 0 \/ serverClients[s] <= socket'[s].conn
                      /\ \A j \in DOMAIN serverMsgs' : serverMsgs'[j].s = s => Behind(serverClients[s], serverMsgs'[j])
                      /\ \A j \in DOMAIN port' : port'[j].s = s => Behind(serverClients[s], port'[j])
    BY <1>0 DEF ClientsFirst, Beneath
  <2>1. /\ Beneath(serverClients[s], s)
        /\ \A j \in DOMAIN serverMsgs : serverMsgs[j].s = s => Behind(serverClients[s], serverMsgs[j])
        /\ \A j \in DOMAIN port : port[j].s = s => Behind(serverClients[s], port[j])
    BY DEF Kept, ClientsFirst
  <2>2. \A j \in DOMAIN port' : port'[j].s = s => Behind(serverClients[s], port'[j])
    BY <1>q, <2>1
  <2>3. ASSUME NEW j \in DOMAIN serverMsgs', serverMsgs'[j].s = s
        PROVE  Behind(serverClients[s], serverMsgs'[j])
    <3>1. CASE About(serverMsgs'[j], c)
      <4>1. c.s = s
        BY <1>a, <2>3, <3>1
      <4> QED
        BY <1>e, <1>q, <2>1, <3>1, <4>1
    <3>2. CASE j \in DOMAIN serverMsgs
      BY <1>r, <2>1, <2>3, <3>2
    <3> QED
      BY <1>r, <3>1, <3>2
  <2> QED
    BY <1>b, <1>s, <2>1, <2>2, <2>3
<1>2. MessagesNext'
  <2>1. ASSUME NEW j \in DOMAIN serverMsgs', NEW l \in DOMAIN serverMsgs', j < l, serverMsgs'[j].s = serverMsgs'[l].s
        PROVE  Behind(serverMsgs'[j].conn, serverMsgs'[l])
    <3>1. j \in DOMAIN serverMsgs /\ serverMsgs'[j] = serverMsgs[j]
      <4>1. CASE \A n \in DOMAIN serverMsgs : n < j
        <5>1. l \notin DOMAIN serverMsgs
          BY <1>r, <2>1, <4>1
        <5>2. \A n \in DOMAIN serverMsgs' : n \in Nat
          BY <1>r
        <5>3. CASE j \in DOMAIN serverMsgs
          BY <1>r, <5>3
        <5>4. CASE j \notin DOMAIN serverMsgs
          BY <1>r, <2>1, <5>1, <5>4
        <5> QED
          BY <5>3, <5>4
      <4> QED
        BY <1>r, <4>1
    <3>2. CASE l \in DOMAIN serverMsgs
      BY <1>r, <2>1, <3>1, <3>2 DEF Kept, MessagesNext, Rising
    <3>3. CASE About(serverMsgs'[l], c)
      <4>1. Behind(serverMsgs[j].conn, c)
        BY <1>a, <1>q, <2>1, <3>1, <3>3 DEF Kept, MessagesNext
      <4> QED
        BY <1>e, <3>1, <3>3, <4>1
    <3> QED
      BY <1>r, <3>2, <3>3
  <2>2. ASSUME NEW j \in DOMAIN serverMsgs', NEW l \in DOMAIN port', serverMsgs'[j].s = port'[l].s
        PROVE  Behind(serverMsgs'[j].conn, port'[l])
    <3>1. CASE j \in DOMAIN serverMsgs
      BY <1>q, <1>r, <2>2, <3>1 DEF Kept, MessagesNext
    <3>2. CASE About(serverMsgs'[j], c)
      BY <1>a, <1>d, <2>2, <3>2
    <3> QED
      BY <1>r, <3>1, <3>2
  <2>3. ASSUME NEW j \in DOMAIN serverMsgs'
        PROVE  socket'[serverMsgs'[j].s].conn = 0 \/ serverMsgs'[j].conn <= socket'[serverMsgs'[j].s].conn
    <3>1. CASE j \in DOMAIN serverMsgs
      BY <1>b, <1>m, <1>r, <3>1 DEF Kept, MessagesNext
    <3>2. CASE About(serverMsgs'[j], c)
      <4>1. serverMsgs'[j].s = c.s /\ serverMsgs'[j].conn = c.conn
        BY <1>a, <3>2
      <4>2. socket'[c.s].conn \in {0, c.conn}
        BY <1>c DEF Tells
      <4> QED
        BY <1>c, <4>1, <4>2
    <3> QED
      BY <1>r, <3>1, <3>2
  <2> QED
    BY <2>1, <2>2, <2>3 DEF MessagesNext, Rising, Beneath
<1>3. PortLast'
  <2>1. ASSUME NEW j \in DOMAIN port'
        PROVE  socket'[port'[j].s].conn = 0 \/ port'[j].conn <= socket'[port'[j].s].conn
    BY <1>b, <1>p, <1>q DEF Kept, PortLast
  <2>2. ASSUME NEW j \in DOMAIN port', NEW l \in DOMAIN port', j < l, port'[j].s = port'[l].s
        PROVE  Behind(port'[j].conn, port'[l])
    <3>1. j + 1 < l + 1 /\ j + 1 \in DOMAIN port /\ l + 1 \in DOMAIN port
      BY <1>q, <2>2
    <3> QED
      BY <1>q, <2>2, <3>1 DEF Kept, PortLast, Rising
  <2> QED
    BY <2>1, <2>2 DEF PortLast, Rising, Beneath
<1>4. Listens'
  <2>1. ASSUME NEW j \in DOMAIN port', socket'[port'[j].s].conn = port'[j].conn
        PROVE  port'[j].listen = socket'[port'[j].s].listen
    <3>1. port'[j] = port[j + 1] /\ j + 1 \in DOMAIN port /\ port[j + 1].s \in Sockets /\ port[j + 1].conn # 0
      BY <1>p, <1>q
    <3>2. socket'[port[j + 1].s].conn = socket[port[j + 1].s].conn /\ socket'[port[j + 1].s].listen = socket[port[j + 1].s].listen
      BY <2>1, <3>1 DEF Tells
    <3> QED
      BY <2>1, <3>1, <3>2 DEF Kept, Listens
  <2>2. \A j \in DOMAIN port' : port'[j].what = "accepted" => port'[j].listen
    BY <1>q DEF Kept, Listens
  <2>3. (serverMsgs' # <<>> \/ \E s \in Sockets : serverClients[s] # 0) => m_ServerList
    BY DEF Kept, Listens, Tells
  <2> QED
    BY <1>0, <2>1, <2>2, <2>3 DEF Listens
<1>g. ASSUME NEW k \in Nat \ {0}, NEW s \in Sockets, Stays(k, s), m_ServerList
      PROVE  \/ k \in quit' \/ (socket'[s].conn = k /\ socket'[s].listen)
             \/ c.s = s /\ c.conn = k /\ \E l \in DOMAIN serverMsgs' : (serverMsgs'[l].what = "disconn" /\ serverMsgs'[l].s = s) /\ \A j \in DOMAIN serverMsgs : j < l
  <2>1. CASE k \in quit
    BY <1>0, <2>1
  <2>2. CASE socket[s].conn = k /\ socket[s].listen /\ socket'[s].conn = socket[s].conn /\ socket'[s].listen = socket[s].listen
    BY <2>2
  <2>3. CASE socket[s].conn = k /\ socket[s].listen /\ s = c.s /\ socket[s].conn = c.conn /\ c.what = "disconnected"
    <3>1. c.listen
      BY <1>q, <2>3 DEF Kept, Listens
    <3> QED
      BY <1>g, <1>r, <2>3, <3>1
  <2> QED
    BY <1>g, <2>1, <2>2, <2>3 DEF Stays, Tells
<1>h. \A s : \A l \in DOMAIN serverMsgs : End(s, l) => l \in DOMAIN serverMsgs' /\ (serverMsgs'[l].what = "disconn" /\ serverMsgs'[l].s = s)
  BY <1>r DEF End
<1>5. EndsAreTold'
  <2>1. ASSUME NEW s \in Sockets, serverClients[s] # 0
        PROVE  \/ serverClients[s] \in quit' \/ (socket'[s].conn = serverClients[s] /\ socket'[s].listen)
               \/ \E l \in DOMAIN serverMsgs' : (serverMsgs'[l].what = "disconn" /\ serverMsgs'[l].s = s)
    <3>1. m_ServerList /\ serverClients[s] \in Nat \ {0}
      BY <1>s, <2>1 DEF Kept, Listens
    <3>2. Stays(serverClients[s], s) \/ \E l \in DOMAIN serverMsgs : End(s, l)
      BY <2>1 DEF Kept, EndsAreTold
    <3> QED
      BY <1>g, <1>h, <3>1, <3>2
  <2>2. ASSUME NEW j \in DOMAIN serverMsgs', serverMsgs'[j].what = "accept"
        PROVE  \/ serverMsgs'[j].conn \in quit'
               \/ socket'[serverMsgs'[j].s].conn = serverMsgs'[j].conn /\ socket'[serverMsgs'[j].s].listen
               \/ \E l \in DOMAIN serverMsgs' : j < l /\ (serverMsgs'[l].what = "disconn" /\ serverMsgs'[l].s = serverMsgs'[j].s)
    <3>1. CASE j \in DOMAIN serverMsgs
      <4>1. m_ServerList
        BY <1>0, <3>1 DEF Kept, Listens
      <4>2. serverMsgs'[j] = serverMsgs[j]
        BY <1>r, <3>1
      <4>3. Stays(serverMsgs[j].conn, serverMsgs[j].s) \/ \E l \in DOMAIN serverMsgs : j < l /\ End(serverMsgs[j].s, l)
        BY <2>2, <3>1, <4>2 DEF Kept, EndsAreTold
      <4> QED
        BY <1>g, <1>h, <1>m, <3>1, <4>1, <4>2, <4>3
    <3>2. CASE About(serverMsgs'[j], c)
      <4>1. c.what = "accepted" /\ serverMsgs'[j].s = c.s /\ serverMsgs'[j].conn = c.conn
        BY <1>a, <2>2, <3>2
      <4>2. Stays(c.conn, c.s)
        BY <1>q, <4>1 DEF Kept, EndsAreTold
      <4>3. socket'[c.s].conn = socket[c.s].conn /\ socket'[c.s].listen = socket[c.s].listen
        BY <1>c, <4>1 DEF Tells
      <4> QED
        BY <1>0, <4>1, <4>2, <4>3 DEF Stays
    <3> QED
      BY <1>r, <3>1, <3>2
  <2>3. ASSUME NEW j \in DOMAIN port', port'[j].what = "accepted"
        PROVE  \/ port'[j].conn \in quit'
               \/ socket'[port'[j].s].conn = port'[j].conn /\ socket'[port'[j].s].listen
    <3> DEFINE k == port'[j].conn
               s == port'[j].s
    <3>1. Stays(k, s) /\ s \in Sockets
      BY <1>p, <1>q, <2>3 DEF Kept, EndsAreTold
    <3>2. ~(s = c.s /\ k = c.conn)
      BY <1>c, <1>d, <2>3 DEF Behind
    <3> HIDE DEF k, s
    <3>3. k \in quit' \/ (socket'[s].conn = k /\ socket'[s].listen)
      BY <1>0, <3>1, <3>2 DEF Stays, Tells
    <3> QED
      BY <3>3 DEF k, s
  <2> QED
    BY <1>0, <2>1, <2>2, <2>3 DEF EndsAreTold, Stays, End
<1>6. EndsComeBetween'
  <2>0. \A k \in Nat \ {0} : Stays(k, c.s) => k \in quit \/ k = c.conn
    BY <1>c DEF Stays, Tells
  <2>1. ASSUME NEW s \in Sockets, NEW l \in DOMAIN serverMsgs',
               serverClients[s] # 0, serverClients[s] \notin quit,
               serverMsgs'[l].s = s, serverMsgs'[l].conn # serverClients[s]
        PROVE  \E n \in DOMAIN serverMsgs' : n < l /\ (serverMsgs'[n].what = "disconn" /\ serverMsgs'[n].s = s)
    <3>1. CASE l \in DOMAIN serverMsgs
      <4>1. \E n \in DOMAIN serverMsgs : n < l /\ End(s, n)
        BY <1>r, <2>1, <3>1 DEF Kept, EndsComeBetween
      <4> QED
        BY <1>h, <4>1
    <3>2. CASE About(serverMsgs'[l], c) /\ \A n \in DOMAIN serverMsgs : n < l
      <4>1. s = c.s /\ serverClients[s] # c.conn
        BY <1>a, <2>1, <3>2
      <4>2. ~Stays(serverClients[s], s)
        BY <1>s, <2>0, <2>1, <4>1
      <4>3. PICK n \in DOMAIN serverMsgs : End(s, n)
        BY <2>1, <4>2 DEF Kept, EndsAreTold
      <4> QED
        BY <1>h, <3>2, <4>3
    <3> QED
      BY <1>r, <3>1, <3>2
  <2>2. ASSUME NEW j \in DOMAIN serverMsgs', NEW l \in DOMAIN serverMsgs',
               serverMsgs'[j].what = "accept", serverMsgs'[j].conn \notin quit, j < l,
               serverMsgs'[l].s = serverMsgs'[j].s, serverMsgs'[l].conn # serverMsgs'[j].conn
        PROVE  \E n \in DOMAIN serverMsgs' : j < n /\ n < l /\ (serverMsgs'[n].what = "disconn" /\ serverMsgs'[n].s = serverMsgs'[j].s)
    <3>1. CASE l \in DOMAIN serverMsgs /\ j \in DOMAIN serverMsgs
      <4>1. \E n \in DOMAIN serverMsgs : j < n /\ n < l /\ End(serverMsgs[j].s, n)
        BY <1>r, <2>2, <3>1 DEF Kept, EndsComeBetween
      <4> QED
        BY <1>h, <1>r, <3>1, <4>1
    <3>2. CASE j \in DOMAIN serverMsgs /\ About(serverMsgs'[l], c) /\ \A n \in DOMAIN serverMsgs : n < l
      <4>0. serverMsgs'[j] = serverMsgs[j] /\ serverMsgs[j].conn \in Nat \ {0}
        BY <1>m, <1>r, <3>2
      <4>1. serverMsgs[j].s = c.s /\ serverMsgs[j].conn # c.conn
        BY <1>a, <2>2, <3>2, <4>0
      <4>2. ~Stays(serverMsgs[j].conn, serverMsgs[j].s)
        BY <2>0, <2>2, <4>0, <4>1
      <4>3. PICK n \in DOMAIN serverMsgs : j < n /\ End(serverMsgs[j].s, n)
        BY <2>2, <3>2, <4>0, <4>2 DEF Kept, EndsAreTold
      <4> QED
        BY <1>h, <3>2, <4>0, <4>3
    <3>3. j \in DOMAIN serverMsgs
      <4>1. CASE l \in DOMAIN serverMsgs /\ \A n \in DOMAIN serverMsgs : n < j
        <5>1. l < j /\ j \in Nat /\ l \in Nat
          BY <1>r, <4>1
        <5> QED
          BY <2>2, <5>1
      <4>2. CASE l \notin DOMAIN serverMsgs /\ j \notin DOMAIN serverMsgs
        BY <1>a, <1>r, <2>2, <4>2
      <4> QED
        BY <1>r, <4>1, <4>2
    <3> QED
      BY <1>r, <3>1, <3>2, <3>3
  <2> QED
    BY <1>0, <2>1, <2>2 DEF EndsComeBetween, End
<1> QED
  BY <1>t, <1>1, <1>2, <1>3, <1>4, <1>5, <1>6 DEF Kept, Tells

-----------------------------------------------------------------------------
(* The server deals with a message                                         *)

LEMMA KeptServer ==
  ASSUME Kept, Net!PacketsStayApart, Net!ServerMsg
  PROVE  Kept' /\ Net!PacketsStayApart'
<1> DEFINE m == serverMsgs[1]
<1>0. /\ Typed /\ serverMsgs # <<>>
      /\ conns' = conns /\ socket' = socket /\ port' = port /\ quit' = quit /\ m_ServerList' = m_ServerList
      /\ serverMsgs \in Seq(Told) /\ port \in Seq(Arrived) /\ conns \in Nat
      /\ serverClients \in [Sockets -> Nat]
  BY DEF Kept, Typed, Net!ServerMsg
<1>q. /\ serverMsgs' \in Seq(Told) /\ m = Head(serverMsgs) /\ 1 \in DOMAIN serverMsgs
      /\ \A j \in DOMAIN serverMsgs' :
           j \in Nat /\ 1 < j + 1 /\ j + 1 \in DOMAIN serverMsgs /\ serverMsgs'[j] = serverMsgs[j + 1]
      /\ \A l \in DOMAIN serverMsgs :
           /\ l \in Nat \ {0}
           /\ l # 1 => l - 1 \in DOMAIN serverMsgs' /\ serverMsgs'[l - 1] = serverMsgs[l]
  <2>1. /\ serverMsgs' \in Seq(Told) /\ m = Head(serverMsgs) /\ 1 \in DOMAIN serverMsgs
        /\ DOMAIN serverMsgs' = 1 .. Len(serverMsgs) - 1 /\ DOMAIN serverMsgs = 1 .. Len(serverMsgs)
        /\ Len(serverMsgs) \in Nat
        /\ \A j \in DOMAIN serverMsgs' : j \in Nat /\ j + 1 \in DOMAIN serverMsgs /\ serverMsgs'[j] = serverMsgs[j + 1]
    BY <1>0, TailShifts DEF Net!ServerMsg
  <2>2. ASSUME NEW l \in DOMAIN serverMsgs, l # 1
        PROVE  l - 1 \in DOMAIN serverMsgs' /\ serverMsgs'[l - 1] = serverMsgs[l]
    <3>1. l \in Nat /\ l - 1 \in 1 .. Len(serverMsgs) - 1 /\ (l - 1) + 1 = l
      BY <2>1, <2>2
    <3>2. l - 1 \in DOMAIN serverMsgs'
      BY <2>1, <3>1
    <3> QED
      BY <2>1, <3>1, <3>2
  <2>3. \A l \in DOMAIN serverMsgs : l \in Nat \ {0}
    BY <2>1
  <2>4. \A j \in DOMAIN serverMsgs' : j \in Nat /\ 1 < j + 1
    BY <2>1
  <2> QED
    BY <2>1, <2>2, <2>3, <2>4
<1>m. \A j \in DOMAIN serverMsgs :
        /\ serverMsgs[j] \in Told /\ serverMsgs[j].s \in Sockets
        /\ serverMsgs[j].conn \in 1 .. conns /\ serverMsgs[j].conn \in Nat \ {0}
  <2>1. \A j \in DOMAIN serverMsgs : serverMsgs[j] \in Told
    BY <1>0, ElementTyped
  <2> QED
    BY <1>0, <2>1 DEF Told, Typed
<1>p. \A j \in DOMAIN port : port[j].s \in Sockets /\ port[j].conn \in Nat \ {0}
  <2>1. \A j \in DOMAIN port : port[j] \in Arrived
    BY <1>0, ElementTyped
  <2> QED
    BY <1>0, <2>1 DEF Arrived, Typed
<1>h. m \in Told /\ m.s \in Sockets /\ m.conn \in 1 .. conns /\ m.conn \in Nat \ {0}
  BY <1>m, <1>q
<1>c. /\ serverClients' \in [Sockets -> Nat]
      /\ \A s \in Sockets :
           \/ m.s = s /\ m.what = "accept" /\ serverClients[s] = 0 /\ serverClients'[s] = m.conn
           \/ serverClients'[s] = 0
           \/ serverClients'[s] = serverClients[s] /\ ~(m.what = "disconn" /\ m.s = s)
  <2>0. serverClients' = Net!ProcessIoMsg(serverClients, m)
    BY <1>q DEF Net!ServerMsg
  <2>1. CASE m.what = "accept" /\ serverClients[m.s] = 0
    <3>1. serverClients' = [serverClients EXCEPT ![m.s] = m.conn]
      BY <2>0, <2>1 DEF Net!ProcessIoMsg
    <3> QED
      BY <1>0, <1>h, <2>1, <3>1
  <2>2. CASE m.what = "disconn"
    <3>1. serverClients' = [serverClients EXCEPT ![m.s] = 0]
      BY <2>0, <2>2 DEF Net!ProcessIoMsg
    <3> QED
      BY <1>0, <1>h, <2>2, <3>1
  <2>3. CASE m.what # "disconn" /\ ~(m.what = "accept" /\ serverClients[m.s] = 0)
    <3>1. serverClients' = serverClients
      BY <2>0, <2>3 DEF Net!ProcessIoMsg
    <3> QED
      BY <1>0, <1>h, <2>3, <3>1
  <2> QED
    BY <2>1, <2>2, <2>3
<1>f. \A s \in Sockets : /\ serverClients[s] \in Nat /\ serverClients[s] <= conns
                         /\ serverClients'[s] \in Nat /\ serverClients'[s] <= conns
  <2>1. \A s \in Sockets : serverClients[s] \in Nat /\ serverClients[s] <= conns
    BY <1>0 DEF Typed
  <2> QED
    BY <1>0, <1>c, <1>h, <2>1
<1> HIDE DEF m
<1>t. Typed'
  <2>1. \A j \in DOMAIN serverMsgs' : serverMsgs'[j].conn \in 1 .. conns
    BY <1>m, <1>q
  <2> QED
    BY <1>0, <1>c, <1>f, <1>q, <2>1 DEF Typed
<1>1. ClientsFirst'
  <2> SUFFICES ASSUME NEW s \in Sockets
               PROVE  /\ socket[s].conn = 0 \/ serverClients'[s] <= socket[s].conn
                      /\ \A j \in DOMAIN serverMsgs' : serverMsgs'[j].s = s => Behind(serverClients'[s], serverMsgs'[j])
                      /\ \A j \in DOMAIN port : port[j].s = s => Behind(serverClients'[s], port[j])
    BY <1>0 DEF ClientsFirst, Beneath
  <2>1. CASE m.s = s /\ serverClients'[s] = m.conn
    <3>1. Beneath(m.conn, s)
      BY <1>q, <2>1 DEF m, Kept, MessagesNext
    <3>2. \A j \in DOMAIN serverMsgs' : serverMsgs'[j].s = s => Behind(m.conn, serverMsgs'[j])
      BY <1>q, <2>1 DEF m, Kept, MessagesNext, Rising
    <3>3. \A j \in DOMAIN port : port[j].s = s => Behind(m.conn, port[j])
      BY <1>q, <2>1 DEF m, Kept, MessagesNext
    <3> QED
      BY <2>1, <3>1, <3>2, <3>3 DEF Beneath
  <2>2. CASE serverClients'[s] = 0
    <3>1. socket[s].conn = 0 \/ 0 <= socket[s].conn
      BY <1>0 DEF Typed, Socket
    <3>2. \A x : x.conn \in Nat \ {0} => Behind(0, x)
      BY DEF Behind
    <3>3. \A j \in DOMAIN serverMsgs' : serverMsgs'[j].conn \in Nat \ {0}
      BY <1>m, <1>q
    <3> QED
      BY <1>p, <2>2, <3>1, <3>2, <3>3
  <2>3. CASE serverClients'[s] = serverClients[s]
    BY <1>q, <2>3 DEF Kept, ClientsFirst, Beneath
  <2> QED
    BY <1>c, <2>1, <2>2, <2>3
<1>2. MessagesNext'
  <2>1. ASSUME NEW j \in DOMAIN serverMsgs', NEW l \in DOMAIN serverMsgs', j < l, serverMsgs'[j].s = serverMsgs'[l].s
        PROVE  Behind(serverMsgs'[j].conn, serverMsgs'[l])
    <3>1. j + 1 < l + 1 /\ j + 1 \in DOMAIN serverMsgs /\ l + 1 \in DOMAIN serverMsgs
      BY <1>q, <2>1
    <3> QED
      BY <1>q, <2>1, <3>1 DEF Kept, MessagesNext, Rising
  <2>2. ASSUME NEW j \in DOMAIN serverMsgs', NEW l \in DOMAIN port, serverMsgs'[j].s = port[l].s
        PROVE  Behind(serverMsgs'[j].conn, port[l])
    BY <1>q, <2>2 DEF Kept, MessagesNext
  <2>3. ASSUME NEW j \in DOMAIN serverMsgs'
        PROVE  socket[serverMsgs'[j].s].conn = 0 \/ serverMsgs'[j].conn <= socket[serverMsgs'[j].s].conn
    BY <1>q DEF Kept, MessagesNext, Beneath
  <2> QED
    BY <1>0, <2>1, <2>2, <2>3 DEF MessagesNext, Rising, Beneath
<1>3. PortLast'
  BY <1>0 DEF Kept, PortLast, Rising, Beneath
<1>4. Listens'
  BY <1>0 DEF Kept, Listens
<1>e. ASSUME NEW s, NEW l \in DOMAIN serverMsgs, l # 1, End(s, l)
      PROVE  /\ l - 1 \in DOMAIN serverMsgs'
             /\ serverMsgs'[l - 1].what = "disconn" /\ serverMsgs'[l - 1].s = s
  BY <1>e, <1>q DEF End
<1>5. EndsAreTold'
  <2>1. ASSUME NEW s \in Sockets, serverClients'[s] # 0
        PROVE  \/ Stays(serverClients'[s], s)
               \/ \E l \in DOMAIN serverMsgs' : serverMsgs'[l].what = "disconn" /\ serverMsgs'[l].s = s
    <3>1. CASE m.s = s /\ m.what = "accept" /\ serverClients'[s] = m.conn
      <4>1. Stays(m.conn, s) \/ \E l \in DOMAIN serverMsgs : 1 < l /\ End(s, l)
        BY <1>q, <3>1 DEF m, Kept, EndsAreTold
      <4> QED
        BY <1>e, <3>1, <4>1
    <3>2. CASE serverClients'[s] = serverClients[s] /\ ~(m.what = "disconn" /\ m.s = s)
      <4>1. Stays(serverClients[s], s) \/ \E l \in DOMAIN serverMsgs : End(s, l)
        BY <2>1, <3>2 DEF Kept, EndsAreTold
      <4>2. ~End(s, 1)
        BY <3>2 DEF m, End
      <4> QED
        BY <1>e, <3>2, <4>1, <4>2
    <3> QED
      BY <1>c, <2>1, <3>1, <3>2
  <2>2. ASSUME NEW j \in DOMAIN serverMsgs', serverMsgs'[j].what = "accept"
        PROVE  \/ Stays(serverMsgs'[j].conn, serverMsgs'[j].s)
               \/ \E l \in DOMAIN serverMsgs' : j < l /\ serverMsgs'[l].what = "disconn" /\ serverMsgs'[l].s = serverMsgs'[j].s
    <3>1. /\ j + 1 \in DOMAIN serverMsgs /\ serverMsgs'[j] = serverMsgs[j + 1] /\ j \in Nat
      BY <1>q
    <3>2. \/ Stays(serverMsgs'[j].conn, serverMsgs'[j].s)
          \/ \E l \in DOMAIN serverMsgs : j + 1 < l /\ End(serverMsgs'[j].s, l)
      BY <2>2, <3>1 DEF Kept, EndsAreTold
    <3>3. ASSUME NEW l \in DOMAIN serverMsgs, j + 1 < l
          PROVE  l # 1 /\ j < l - 1
      BY <1>q, <3>1, <3>3
    <3> QED
      BY <1>e, <3>2, <3>3
  <2>3. \A j \in DOMAIN port : port[j].what = "accepted" => Stays(port[j].conn, port[j].s)
    BY DEF Kept, EndsAreTold
  <2> QED
    BY <1>0, <2>1, <2>2, <2>3 DEF EndsAreTold, Stays, End
<1>6. EndsComeBetween'
  <2>1. ASSUME NEW s \in Sockets, NEW l \in DOMAIN serverMsgs',
               serverClients'[s] # 0, serverClients'[s] \notin quit,
               serverMsgs'[l].s = s, serverMsgs'[l].conn # serverClients'[s]
        PROVE  \E n \in DOMAIN serverMsgs' : n < l /\ serverMsgs'[n].what = "disconn" /\ serverMsgs'[n].s = s
    <3>0. l \in Nat /\ l + 1 \in DOMAIN serverMsgs /\ serverMsgs'[l] = serverMsgs[l + 1] /\ 1 < l + 1
      BY <1>q
    <3>1. PICK n \in DOMAIN serverMsgs : n < l + 1 /\ n # 1 /\ End(s, n)
      <4>1. CASE m.s = s /\ m.what = "accept" /\ serverClients'[s] = m.conn
        <5>0. /\ 1 \in DOMAIN serverMsgs /\ l + 1 \in DOMAIN serverMsgs /\ 1 < l + 1
              /\ serverMsgs[1].what = "accept" /\ serverMsgs[1].conn \notin quit
              /\ serverMsgs[l + 1].s = serverMsgs[1].s /\ serverMsgs[l + 1].conn # serverMsgs[1].conn
              /\ serverMsgs[1].s = s
          BY <1>q, <2>1, <3>0, <4>1 DEF m
        <5>1. \E n \in DOMAIN serverMsgs : 1 < n /\ n < l + 1 /\ End(serverMsgs[1].s, n)
          BY <5>0 DEF Kept, EndsComeBetween
        <5> QED
          BY <5>0, <5>1
      <4>2. CASE serverClients'[s] = serverClients[s] /\ ~(m.what = "disconn" /\ m.s = s)
        <5>1. \E n \in DOMAIN serverMsgs : n < l + 1 /\ End(s, n)
          BY <2>1, <3>0, <4>2 DEF Kept, EndsComeBetween
        <5>2. ~End(s, 1)
          BY <4>2 DEF m, End
        <5> QED
          BY <5>1, <5>2
      <4> QED
        BY <1>c, <2>1, <4>1, <4>2
    <3>2. n - 1 < l
      BY <1>q, <3>0, <3>1
    <3> QED
      BY <1>e, <3>1, <3>2
  <2>2. ASSUME NEW j \in DOMAIN serverMsgs', NEW l \in DOMAIN serverMsgs',
               serverMsgs'[j].what = "accept", serverMsgs'[j].conn \notin quit, j < l,
               serverMsgs'[l].s = serverMsgs'[j].s, serverMsgs'[l].conn # serverMsgs'[j].conn
        PROVE  \E n \in DOMAIN serverMsgs' : j < n /\ n < l /\ serverMsgs'[n].what = "disconn" /\ serverMsgs'[n].s = serverMsgs'[j].s
    <3>0. /\ l \in Nat /\ l + 1 \in DOMAIN serverMsgs /\ serverMsgs'[l] = serverMsgs[l + 1]
          /\ j \in Nat /\ j + 1 \in DOMAIN serverMsgs /\ serverMsgs'[j] = serverMsgs[j + 1]
          /\ j + 1 < l + 1
      BY <1>q, <2>2
    <3>1. PICK n \in DOMAIN serverMsgs : j + 1 < n /\ n < l + 1 /\ End(serverMsgs'[j].s, n)
      BY <2>2, <3>0 DEF Kept, EndsComeBetween
    <3>2. n # 1 /\ j < n - 1 /\ n - 1 < l
      BY <1>q, <3>0, <3>1
    <3> QED
      BY <1>e, <3>1, <3>2
  <2> QED
    BY <1>0, <2>1, <2>2 DEF EndsComeBetween, End
<1>7. Net!PacketsStayApart'
  <2>1. grouped' = grouped \cup Net!Grouped(m)
    BY <1>q DEF Net!ServerMsg
  <2>2. ASSUME NEW g \in Net!Grouped(m)
        PROVE  g.client = g.conn \/ g.client \in quit
    <3>1. g = [client |-> serverClients[m.s], conn |-> m.conn] /\ serverClients[m.s] # 0
      BY <2>2 DEF Net!Grouped
    <3>2. ~\E n \in DOMAIN serverMsgs : n < 1
      BY <1>q
    <3>3. serverClients[m.s] = m.conn \/ serverClients[m.s] \in quit
      BY <1>h, <1>q, <3>1, <3>2 DEF m, Kept, EndsComeBetween
    <3> QED
      BY <3>1, <3>3
  <2> QED
    BY <1>0, <2>1, <2>2 DEF Net!PacketsStayApart
<1>8. SocketsAreSound'
  BY <1>0 DEF Kept, SocketsAreSound
<1> QED
  BY <1>t, <1>1, <1>2, <1>3, <1>4, <1>5, <1>6, <1>7, <1>8 DEF Kept

-----------------------------------------------------------------------------
(* The steps                                                               *)

LEMMA InitNetInv ==
  ASSUME Net!Init
  PROVE  NetInv
<1>1. socket = [s \in Sockets |-> [is |-> "closed", conn |-> 0, op |-> "none", listen |-> FALSE]]
  BY DEF Net!Init, Net!Closed
<1>2. Typed
  <2>1. socket \in [Sockets -> Socket] /\ \A s \in Sockets : socket[s].conn = 0
    BY <1>1 DEF Socket
  <2>2. port = <<>> /\ serverMsgs = <<>> /\ conns = 0 /\ serverClients = [s \in Sockets |-> 0]
    BY DEF Net!Init
  <2>3. port \in Seq(Arrived) /\ serverMsgs \in Seq(Told)
    BY <2>2
  <2> QED
    BY <2>1, <2>2, <2>3 DEF Typed
<1>3. SocketsAreSound
  BY <1>1 DEF SocketsAreSound
<1>4. ClientsFirst /\ MessagesNext /\ PortLast
  BY <1>1 DEF ClientsFirst, MessagesNext, PortLast, Rising, Beneath, Net!Init
<1>5. Listens /\ EndsAreTold /\ EndsComeBetween
  BY DEF Listens, EndsAreTold, EndsComeBetween, Net!Init
<1>6. Net!PacketsStayApart
  BY DEF Net!PacketsStayApart, Net!Init
<1> QED
  BY <1>2, <1>3, <1>4, <1>5, <1>6 DEF NetInv, Kept

LEMMA SocketTyped ==
  ASSUME Kept, NEW s \in Sockets
  PROVE  /\ socket[s] \in Socket
         /\ socket[s].op # "none" => socket[s].conn # 0
         /\ socket[s].is = "closed" => socket[s].conn = 0
BY DEF Kept, Typed, SocketsAreSound

LEMMA HeadTyped ==
  ASSUME Kept, port # <<>>
  PROVE  /\ Head(port) \in Arrived /\ Head(port).s \in Sockets
         /\ Head(port).conn \in 1 .. conns /\ Head(port).conn \in Nat \ {0}
<1>1. port \in Seq(Arrived) /\ conns \in Nat /\ \A j \in DOMAIN port : port[j].conn \in 1 .. conns
  BY DEF Kept, Typed
<1>2. Head(port) = port[1] /\ 1 \in DOMAIN port /\ port[1] \in Arrived
  BY <1>1, TailShifts
<1> QED
  BY <1>1, <1>2 DEF Arrived

\* One socket changes and is sound.
LEMMA SocketChanges ==
  ASSUME Kept, NEW s \in Sockets, NEW r \in Socket, Net!Becomes(s, r),
         r.is \in {"closed", "accept"} => r.conn = 0, r.is = "accept" => r.listen,
         r.conn = 0 => r.op = "none"
  PROVE  /\ socket' \in [Sockets -> Socket] /\ SocketsAreSound'
         /\ socket'[s] = r /\ \A t \in Sockets \ {s} : socket'[t] = socket[t]
<1>1. socket \in [Sockets -> Socket] /\ socket' = [socket EXCEPT ![s] = r]
  BY DEF Kept, Typed, Net!Becomes
<1>2. /\ socket' \in [Sockets -> Socket]
      /\ socket'[s] = r /\ \A t \in Sockets \ {s} : socket'[t] = socket[t]
  BY <1>1
<1> QED
  BY <1>2 DEF Kept, SocketsAreSound

LEMMA SocketsStay ==
  ASSUME Kept, socket' = socket
  PROVE  /\ socket' \in [Sockets -> Socket] /\ SocketsAreSound'
         /\ \A s \in Sockets : socket'[s].conn = socket[s].conn /\ socket'[s].listen = socket[s].listen
BY DEF Kept, Typed, SocketsAreSound

LEMMA ClientsStay ==
  ASSUME Kept, serverClients' = serverClients
  PROVE  serverClients' \in [Sockets -> Nat] /\ \A s \in Sockets : serverClients'[s] \in {serverClients[s], 0}
BY DEF Kept, Typed

\* The system completes an operation.
LEMMA Completes ==
  ASSUME Kept, NEW s \in Sockets, socket[s].op # "none",
         NEW what \in {"data", "closed", "reset", "disconnected"}, Net!Complete(s, what)
  PROVE  PortMoves /\ serverMsgs' = serverMsgs
<1>1. socket[s] \in Socket /\ socket[s].conn # 0
  BY SocketTyped
<1>2. Net!Completion(what, s) \in Arrived /\ OfSocket(Net!Completion(what, s))
  BY <1>1 DEF Net!Completion, Socket, Arrived, OfSocket
<1> QED
  BY <1>2 DEF Net!Complete, PortMoves

LEMMA SettlesCompletes ==
  ASSUME Kept, NEW s \in Sockets, socket[s].op # "none",
         \E what \in {"data", "closed", "reset", "disconnected"} : Net!Complete(s, what),
         Net!Becomes(s, [socket[s] EXCEPT !.op = "none"]),
         UNCHANGED <<serverClients, m_ServerList, conns, grouped, quit>>
  PROVE  Settles
<1>1. PortMoves /\ serverMsgs' = serverMsgs
  BY Completes
<1>2. socket[s] \in Socket
  BY SocketTyped
<1> DEFINE r == [socket[s] EXCEPT !.op = "none"]
<1>3. r \in Socket /\ r.is = socket[s].is /\ r.conn = socket[s].conn /\ r.listen = socket[s].listen /\ r.op = "none"
  BY <1>2 DEF Socket
<1>4. Net!Becomes(s, r)
  OBVIOUS
<1> HIDE DEF r
<1>5. /\ socket' \in [Sockets -> Socket] /\ SocketsAreSound'
      /\ socket'[s] = r /\ \A t \in Sockets \ {s} : socket'[t] = socket[t]
  BY <1>3, <1>4, SocketChanges DEF Kept, SocketsAreSound
<1> QED
  BY <1>1, <1>3, <1>5, ClientsStay DEF Settles

\* The program closes the socket of connection k, or a handle that is closed.
LEMMA Closes ==
  ASSUME Kept, NEW s \in Sockets, NEW k, Net!closesocket(s, k), ~stray'
  PROVE  /\ PortMoves /\ serverMsgs' = serverMsgs
         /\ socket' \in [Sockets -> Socket] /\ SocketsAreSound'
         /\ socket[s].conn \in {0, k} /\ socket'[s].conn = 0
         /\ \A t \in Sockets \ {s} : socket'[t] = socket[t]
<1>1. socket[s].conn \in {0, k}
  BY SocketTyped DEF Net!closesocket
<1>2. Net!Closed \in Socket /\ Net!Closed.is = "closed" /\ Net!Closed.conn = 0 /\ Net!Closed.op = "none"
  BY DEF Net!Closed, Socket
<1>3. Net!Becomes(s, Net!Closed)
  BY DEF Net!closesocket
<1>4. PortMoves /\ serverMsgs' = serverMsgs
  <2>1. CASE UNCHANGED Net!queues
    BY <2>1 DEF Net!queues, PortMoves
  <2>2. CASE \E what \in Net!Aborted(socket[s].op) : Net!Complete(s, what)
    <3>1. PICK what \in Net!Aborted(socket[s].op) : Net!Complete(s, what)
      BY <2>2
    <3>2. socket[s].op \in {"none", "recv", "disconnect"}
      BY SocketTyped DEF Socket
    <3>3. what \in {"data", "closed", "reset", "disconnected"} /\ socket[s].op # "none"
      BY <3>1, <3>2 DEF Net!Aborted
    <3> QED
      BY <3>1, <3>3, Completes
  <2> QED
    BY <2>1, <2>2 DEF Net!closesocket
<1> QED
  BY <1>1, <1>2, <1>3, <1>4, SocketChanges

\* The IO thread calls for the socket it means.
LEMMA CallMeans ==
  ASSUME Kept, port # <<>>, NEW r \in Socket, Net!Call(Head(port), r), ~stray',
         socket[Head(port).s].conn = Head(port).conn =>
           /\ r.is \in {"closed", "accept"} => r.conn = 0
           /\ r.is = "accept" => r.listen
           /\ r.conn = 0 => r.op = "none"
  PROVE  /\ socket' \in [Sockets -> Socket] /\ SocketsAreSound'
         /\ socket[Head(port).s].conn \in {0, Head(port).conn}
         /\ \/ socket' = socket
            \/ /\ socket[Head(port).s].conn = Head(port).conn
               /\ socket'[Head(port).s] = r
               /\ \A t \in Sockets \ {Head(port).s} : socket'[t] = socket[t]
<1> DEFINE c == Head(port)
<1>1. c.s \in Sockets /\ c.conn # 0
  BY HeadTyped
<1>2. CASE socket[c.s].conn = c.conn
  <2>1. Net!Becomes(c.s, r)
    BY <1>2 DEF Net!Call, Net!Meant
  <2> HIDE DEF c
  <2>2. /\ socket' \in [Sockets -> Socket] /\ SocketsAreSound'
        /\ socket'[c.s] = r /\ \A t \in Sockets \ {c.s} : socket'[t] = socket[t]
    BY <1>1, <1>2, <2>1, SocketChanges DEF c
  <2> QED
    BY <1>2, <2>2 DEF c
<1>3. CASE socket[c.s].conn # c.conn
  <2>1. socket' = socket /\ socket[c.s].is = "closed"
    BY <1>3 DEF Net!Call, Net!Meant
  <2> QED
    BY <1>1, <2>1, SocketTyped, SocketsStay
<1> QED
  BY <1>2, <1>3

\* What Post does to the queue of the server.
LEMMA Posts ==
  ASSUME Kept, port # <<>>, NEW what \in {"accept", "recv", "disconn"}, Net!Post(what, Head(port)),
         what = "accept" <=> Head(port).what = "accepted",
         what = "disconn" <=> Head(port).what = "disconnected"
  PROVE  \/ /\ Head(port).listen /\ m_ServerList
            /\ \E m : About(m, Head(port)) /\ serverMsgs' = Append(serverMsgs, m)
         \/ ~(Head(port).listen /\ m_ServerList) /\ UNCHANGED serverMsgs
<1> DEFINE m == [what |-> what, s |-> Head(port).s, conn |-> Head(port).conn]
<1>1. About(m, Head(port))
  BY HeadTyped DEF About, Told
<1> QED
  BY <1>1 DEF Net!Post

\* Nothing but the head of the port is dealt with.
LEMMA SettlesDown ==
  ASSUME Kept, port # <<>>, port' = Tail(port), ~stray', serverMsgs' = serverMsgs,
         UNCHANGED <<serverClients, m_ServerList, conns, grouped, quit>>,
         \E op \in {socket[Head(port).s].op, "disconnect"} :
           Net!Call(Head(port), [socket[Head(port).s] EXCEPT !.is = "down", !.op = op])
  PROVE  Settles
<1> DEFINE c == Head(port)
<1>1. c.s \in Sockets /\ c.conn # 0
  BY HeadTyped
<1>2. PICK op \in {socket[c.s].op, "disconnect"} :
        Net!Call(c, [socket[c.s] EXCEPT !.is = "down", !.op = op])
  OBVIOUS
<1> DEFINE r == [socket[c.s] EXCEPT !.is = "down", !.op = op]
<1>3. /\ r \in Socket /\ r.is = "down" /\ r.conn = socket[c.s].conn /\ r.listen = socket[c.s].listen
  BY <1>1, <1>2, SocketTyped DEF Socket
<1>4. Net!Call(c, r)
  BY <1>2
<1> HIDE DEF r
<1>5. /\ socket' \in [Sockets -> Socket] /\ SocketsAreSound'
      /\ \/ socket' = socket
         \/ socket'[c.s] = r /\ \A t \in Sockets \ {c.s} : socket'[t] = socket[t]
  BY <1>1, <1>3, <1>4, CallMeans
<1> HIDE DEF c
<1>6. PortMoves
  BY DEF PortMoves
<1>7. \A s \in Sockets : socket'[s].conn = socket[s].conn /\ socket'[s].listen = socket[s].listen
  BY <1>3, <1>5
<1> QED
  BY <1>5, <1>6, <1>7, ClientsStay DEF Settles

\* Only the client list and the connections the application closed change
\* beside the socket.
LEMMA SettlesClose ==
  ASSUME Kept, NEW s \in Sockets, NEW k, Net!closesocket(s, k), ~stray',
         serverClients' \in [Sockets -> Nat],
         \A t \in Sockets : serverClients'[t] \in {serverClients[t], 0},
         quit \subseteq quit', UNCHANGED <<m_ServerList, conns, grouped>>,
         k \in quit' \/ (k = serverClients[s] /\ serverClients'[s] = 0)
  PROVE  Settles
<1>1. /\ PortMoves /\ serverMsgs' = serverMsgs
      /\ socket' \in [Sockets -> Socket] /\ SocketsAreSound'
      /\ socket[s].conn \in {0, k} /\ socket'[s].conn = 0
      /\ \A t \in Sockets \ {s} : socket'[t] = socket[t]
  BY Closes
<1> QED
  BY <1>1 DEF Settles

\* A step either ends the model or tells the server nothing, begins a
\* connection, tells of a completion or lets the server deal with a message.
LEMMA NextKeeps ==
  ASSUME Kept, Net!PacketsStayApart, Net!Next, ~stray'
  PROVE  Kept' /\ Net!PacketsStayApart'
<1>0. ASSUME Settles
      PROVE  Kept' /\ Net!PacketsStayApart'
  <2>1. Kept'
    BY <1>0, KeptSettles
  <2>2. grouped' = grouped /\ quit \subseteq quit'
    BY <1>0 DEF Settles
  <2> QED
    BY <2>1, <2>2 DEF Net!PacketsStayApart
<1>b. ASSUME NEW s \in Sockets, Begins(s)
      PROVE  Kept' /\ Net!PacketsStayApart'
  <2>1. Kept'
    BY <1>b, KeptBegins
  <2>2. grouped' = grouped /\ quit' = quit
    BY <1>b DEF Begins
  <2> QED
    BY <2>1, <2>2 DEF Net!PacketsStayApart
<1>t. ASSUME Tells(Head(port))
      PROVE  Kept' /\ Net!PacketsStayApart'
  <2>1. Kept'
    BY <1>t, KeptTells
  <2>2. grouped' = grouped /\ quit' = quit
    BY <1>t DEF Tells
  <2> QED
    BY <2>1, <2>2 DEF Net!PacketsStayApart
<1>c. /\ conns \in Nat /\ socket \in [Sockets -> Socket] /\ serverClients \in [Sockets -> Nat]
  BY DEF Kept, Typed
<1>1. ASSUME NEW s \in Sockets, Net!PeerConnects(s)
      PROVE  Begins(s)
  <2> DEFINE r == [socket[s] EXCEPT !.is = "up", !.conn = conns + 1]
             c == [what |-> "accepted", s |-> s, conn |-> conns + 1, listen |-> TRUE]
  <2>1. socket[s] \in Socket /\ socket[s].conn = 0 /\ socket[s].listen
    BY <1>1, SocketTyped DEF Net!PeerConnects, Kept, SocketsAreSound
  <2>0. conns + 1 \in Nat
    BY <1>c
  <2>2. r \in Socket /\ r.conn = conns + 1 /\ r.is = "up" /\ r.listen
    <3>1. r.conn = conns + 1 /\ r.is = "up" /\ r.listen = socket[s].listen
      BY <2>1 DEF Socket
    <3>2. r \in Socket
      BY <2>0, <2>1 DEF Socket
    <3> QED
      BY <2>1, <3>1, <3>2
  <2>3. c \in Arrived /\ c.what = "accepted" /\ c.s = s /\ c.conn = conns + 1 /\ c.listen
    BY <1>c DEF Arrived
  <2>4. socket' = [socket EXCEPT ![s] = r] /\ port' = Append(port, c) /\ conns' = conns + 1
    BY <1>1 DEF Net!PeerConnects, Net!Becomes
  <2>5. UNCHANGED <<serverMsgs, serverClients, grouped, quit, m_ServerList>>
    BY <1>1 DEF Net!PeerConnects, Net!lists, Net!history
  <2> HIDE DEF r, c
  <2>6. \E x \in Socket :
          /\ x.conn = conns + 1 /\ x.is = "up" /\ socket' = [socket EXCEPT ![s] = x]
          /\ \E y \in Arrived : /\ y.what = "accepted" /\ y.s = s /\ y.conn = conns + 1 /\ y.listen /\ x.listen
                                /\ port' = Append(port, y)
    BY <2>2, <2>3, <2>4
  <2> QED
    BY <2>1, <2>4, <2>5, <2>6 DEF Begins
<1>2. ASSUME NEW s \in Sockets, Net!Connect(s)
      PROVE  Begins(s)
  <2> DEFINE r == [is |-> "up", conn |-> conns + 1, op |-> "recv", listen |-> FALSE]
  <2>1. socket[s].conn = 0
    BY <1>2, SocketTyped DEF Net!Connect
  <2>2. r \in Socket /\ r.conn = conns + 1 /\ r.is = "up"
    BY <1>c DEF Socket
  <2>3. socket' = [socket EXCEPT ![s] = r] /\ port' = port /\ conns' = conns + 1
    BY <1>2 DEF Net!Connect, Net!Becomes, Net!queues
  <2>4. UNCHANGED <<serverMsgs, serverClients, grouped, quit, m_ServerList>>
    BY <1>2 DEF Net!Connect, Net!lists, Net!queues, Net!history
  <2> HIDE DEF r
  <2> QED
    BY <2>1, <2>2, <2>3, <2>4 DEF Begins
<1>3. ASSUME NEW s \in Sockets, Net!PeerSends(s)
      PROVE  Settles
  BY <1>3, SettlesCompletes DEF Net!PeerSends, Net!lists, Net!history
<1>4. ASSUME NEW s \in Sockets, Net!PeerCloses(s)
      PROVE  Settles
  BY <1>4, SettlesCompletes DEF Net!PeerCloses, Net!lists
<1>5. ASSUME NEW s \in Sockets, Net!Disconnected(s)
      PROVE  Settles
  BY <1>5, SettlesCompletes DEF Net!Disconnected, Net!lists, Net!history
<1>6. ASSUME NEW s \in Sockets, Net!MtAcceptIo(s)
      PROVE  Settles
  <2>1. socket[s].conn = 0 /\ Net!Becomes(s, Net!Accepting)
    BY <1>6, SocketTyped DEF Net!MtAcceptIo
  <2>2. /\ Net!Accepting \in Socket /\ Net!Accepting.conn = 0 /\ Net!Accepting.listen /\ Net!Accepting.op = "none"
    BY DEF Net!Accepting, Net!Closed, Socket
  <2>3. /\ socket' \in [Sockets -> Socket] /\ SocketsAreSound'
        /\ socket'[s] = Net!Accepting /\ \A t \in Sockets \ {s} : socket'[t] = socket[t]
    BY <2>1, <2>2, SocketChanges
  <2>4. PortMoves /\ UNCHANGED <<serverMsgs, serverClients, m_ServerList, conns, grouped, quit>>
    BY <1>6 DEF Net!MtAcceptIo, PortMoves, Net!lists, Net!queues, Net!history
  <2> QED
    BY <2>1, <2>2, <2>3, <2>4, ClientsStay DEF Settles
<1>7. ASSUME Net!AddServer \/ Net!Turn \/ Net!ManagerMsg \/ Net!AddClient
      PROVE  Settles
  <2>1. /\ socket' = socket /\ port' = port /\ serverClients' = serverClients
        /\ UNCHANGED <<serverMsgs, conns, grouped, quit>> /\ (m_ServerList => m_ServerList')
    BY <1>7 DEF Net!AddServer, Net!Turn, Net!ManagerMsg, Net!AddClient, Net!lists, Net!queues, Net!history
  <2> QED
    BY <2>1, SocketsStay, ClientsStay DEF Settles, PortMoves
<1>8. ASSUME NEW s \in Sockets, Net!CloseConn(s)
      PROVE  Settles
  <2>1. /\ Net!closesocket(s, serverClients[s])
        /\ UNCHANGED <<serverClients, m_ServerList, conns, grouped>>
        /\ quit \subseteq quit' /\ serverClients[s] \in quit'
    BY <1>8 DEF Net!CloseConn, Net!lists
  <2> QED
    BY <2>1, ClientsStay, SettlesClose
<1>9. ASSUME NEW s \in Sockets, Net!TimeOut(s)
      PROVE  Settles
  <2>1. /\ Net!closesocket(s, serverClients[s])
        /\ serverClients' = [serverClients EXCEPT ![s] = 0]
        /\ UNCHANGED <<m_ServerList, conns, grouped, quit>>
    BY <1>9 DEF Net!TimeOut
  <2>2. /\ serverClients' \in [Sockets -> Nat] /\ serverClients'[s] = 0
        /\ \A t \in Sockets : serverClients'[t] \in {serverClients[t], 0}
    BY <1>c, <2>1
  <2> QED
    BY <2>1, <2>2, SettlesClose
<1>10. ASSUME NEW s \in Sockets, Net!Disconn(s)
       PROVE  Settles
  <2>1. /\ Net!closesocket(s, managerClients[s])
        /\ UNCHANGED <<serverClients, m_ServerList, conns, grouped>>
        /\ quit \subseteq quit' /\ managerClients[s] \in quit'
    BY <1>10 DEF Net!Disconn
  <2> QED
    BY <2>1, ClientsStay, SettlesClose
<1>11. ASSUME Net!OnRecvClosed
       PROVE  Settles
  <2>1. /\ port # <<>> /\ port' = Tail(port) /\ serverMsgs' = serverMsgs
        /\ UNCHANGED <<serverClients, m_ServerList, conns, grouped, quit>>
    BY <1>11 DEF Net!OnRecvClosed, Net!Take, Net!NoPost, Net!lists
  <2>2. Head(port).s \in Sockets /\ socket[Head(port).s] \in Socket
    BY <2>1, HeadTyped, SocketTyped
  <2>3. [socket[Head(port).s] EXCEPT !.is = "down"] =
          [socket[Head(port).s] EXCEPT !.is = "down", !.op = socket[Head(port).s].op]
    BY <2>2 DEF Socket
  <2>4. \E op \in {socket[Head(port).s].op, "disconnect"} :
          Net!Call(Head(port), [socket[Head(port).s] EXCEPT !.is = "down", !.op = op])
    BY <1>11, <2>3 DEF Net!OnRecvClosed
  <2> QED
    BY <2>1, <2>4, SettlesDown
<1>12. ASSUME Net!Error64
       PROVE  Settles
  <2>1. /\ port # <<>> /\ port' = Tail(port) /\ serverMsgs' = serverMsgs
        /\ UNCHANGED <<serverClients, m_ServerList, conns, grouped, quit>>
    BY <1>12 DEF Net!Error64, Net!Take, Net!lists
  <2>2. Head(port).s \in Sockets /\ socket[Head(port).s] \in Socket
    BY <2>1, HeadTyped, SocketTyped
  <2>3. [socket[Head(port).s] EXCEPT !.is = "down"] =
          [socket[Head(port).s] EXCEPT !.is = "down", !.op = socket[Head(port).s].op]
    BY <2>2 DEF Socket
  <2>4. \E op \in {socket[Head(port).s].op, "disconnect"} :
          Net!Call(Head(port), [socket[Head(port).s] EXCEPT !.is = "down", !.op = op])
    BY <1>12, <2>3 DEF Net!Error64
  <2> QED
    BY <2>1, <2>4, SettlesDown
<1>13. ASSUME Net!OnAccept \/ Net!OnRecv
       PROVE  Tells(Head(port))
  <2> DEFINE c == Head(port)
  <2>1. /\ port # <<>> /\ port' = Tail(port) /\ c.what \in {"accepted", "data"}
        /\ UNCHANGED <<serverClients, m_ServerList, conns, grouped, quit>>
        /\ Net!Call(c, [socket[c.s] EXCEPT !.op = "recv"])
        /\ \E what \in {"accept", "recv"} : Net!Post(what, c) /\ (what = "accept" <=> c.what = "accepted")
    BY <1>13 DEF Net!OnAccept, Net!OnRecv, Net!Take, Net!lists
  <2> DEFINE r == [socket[c.s] EXCEPT !.op = "recv"]
  <2>2. c.s \in Sockets /\ c.conn # 0
    BY <2>1, HeadTyped
  <2>3. /\ r \in Socket /\ r.conn = socket[c.s].conn /\ r.listen = socket[c.s].listen /\ r.is = socket[c.s].is
    BY <2>2, SocketTyped DEF Socket
  <2>4. Net!Call(c, r)
    BY <2>1
  <2> HIDE DEF r
  <2>5. socket[c.s].conn = c.conn => /\ r.is \in {"closed", "accept"} => r.conn = 0
                                     /\ r.is = "accept" => r.listen
                                     /\ r.conn # 0
    BY <2>2, <2>3 DEF Kept, SocketsAreSound
  <2>6. /\ socket' \in [Sockets -> Socket] /\ SocketsAreSound'
        /\ socket[c.s].conn \in {0, c.conn}
        /\ \/ socket' = socket
           \/ socket'[c.s] = r /\ \A t \in Sockets \ {c.s} : socket'[t] = socket[t]
    BY <2>1, <2>3, <2>4, <2>5, CallMeans
  <2>7. \/ c.listen /\ m_ServerList /\ \E m : About(m, c) /\ serverMsgs' = Append(serverMsgs, m)
        \/ ~(c.listen /\ m_ServerList) /\ UNCHANGED serverMsgs
    BY <2>1, Posts
  <2> HIDE DEF c
  <2>8. \A s \in Sockets : socket'[s].conn = socket[s].conn /\ socket'[s].listen = socket[s].listen
    BY <2>3, <2>6
  <2> QED
    BY <2>1, <2>6, <2>7, <2>8 DEF Tells, c
<1>14. ASSUME Net!OnDisconn
       PROVE  Tells(Head(port))
  <2> DEFINE c == Head(port)
  <2>1. /\ port # <<>> /\ port' = Tail(port) /\ c.what = "disconnected"
        /\ UNCHANGED <<serverClients, m_ServerList, conns, grouped, quit>>
        /\ \E r \in {Net!Closed, Net!Accepting, socket[c.s]} : Net!Call(c, r)
        /\ Net!Post("disconn", c)
    BY <1>14 DEF Net!OnDisconn, Net!Take, Net!lists
  <2>2. c.s \in Sockets /\ c.conn # 0
    BY <2>1, HeadTyped
  <2>3. PICK r \in {Net!Closed, Net!Accepting, socket[c.s]} : Net!Call(c, r)
    BY <2>1
  <2>4. /\ r \in Socket
        /\ r = socket[c.s] \/ r.conn = 0
        /\ r.is \in {"closed", "accept"} => r.conn = 0
        /\ r.is = "accept" => r.listen
        /\ r.conn = 0 => r.op = "none"
    <3>1. CASE r = socket[c.s]
      BY <2>2, <3>1, SocketTyped DEF Kept, SocketsAreSound
    <3>2. /\ Net!Closed \in Socket /\ Net!Closed.conn = 0 /\ Net!Closed.is = "closed" /\ Net!Closed.op = "none"
          /\ Net!Accepting \in Socket /\ Net!Accepting.conn = 0 /\ Net!Accepting.listen /\ Net!Accepting.op = "none"
      BY DEF Net!Closed, Net!Accepting, Socket
    <3>3. CASE r = Net!Closed
      BY <3>2, <3>3
    <3>4. CASE r = Net!Accepting
      BY <3>2, <3>4
    <3> QED
      BY <2>3, <3>1, <3>3, <3>4
  <2>6. /\ socket' \in [Sockets -> Socket] /\ SocketsAreSound'
        /\ socket[c.s].conn \in {0, c.conn}
        /\ \/ socket' = socket
           \/ /\ socket[c.s].conn = c.conn /\ socket'[c.s] = r
              /\ \A t \in Sockets \ {c.s} : socket'[t] = socket[t]
    BY <2>1, <2>3, <2>4, CallMeans
  <2>7. \/ c.listen /\ m_ServerList /\ \E m : About(m, c) /\ serverMsgs' = Append(serverMsgs, m)
        \/ ~(c.listen /\ m_ServerList) /\ UNCHANGED serverMsgs
    BY <2>1, Posts
  <2> HIDE DEF c
  <2>8. \A s \in Sockets :
          \/ socket'[s].conn = socket[s].conn /\ socket'[s].listen = socket[s].listen
          \/ socket'[s].conn = 0 /\ s = c.s /\ socket[s].conn = c.conn
    BY <2>4, <2>6
  <2> QED
    BY <2>1, <2>6, <2>7, <2>8 DEF Tells, c
<1>15. CASE Net!DealIoImpl
  BY <1>0, <1>t, <1>11, <1>12, <1>13, <1>14, <1>15 DEF Net!DealIoImpl
<1>16. CASE Net!AddServer \/ Net!Turn \/ Net!ManagerMsg \/ Net!AddClient
  BY <1>0, <1>7, <1>16
<1>17. CASE Net!ServerMsg
  BY <1>17, KeptServer
<1>18. CASE \E s \in Sockets : Net!System(s) \/ Net!Application(s) \/ Net!TimeOut(s)
  BY <1>0, <1>b, <1>1, <1>2, <1>3, <1>4, <1>5, <1>6, <1>8, <1>9, <1>10, <1>18 DEF Net!System, Net!Application
<1> QED
  BY <1>15, <1>16, <1>17, <1>18 DEF Net!Next

LEMMA NextNetInv ==
  ASSUME NetInv, [Net!Next]_(Net!vars)
  PROVE  NetInv'
<1>1. CASE Net!Next /\ ~stray'
  <2>1. Kept /\ Net!PacketsStayApart
    BY <1>1 DEF NetInv, Net!Next
  <2> QED
    BY <1>1, <2>1, NextKeeps DEF NetInv
<1>2. CASE Net!Next /\ stray'
  <2>1. Net!PacketsStayApart'
    <3>0. Kept /\ Net!PacketsStayApart
      BY <1>2 DEF NetInv, Net!Next
    <3>1. CASE Net!ServerMsg
      BY <3>0, <3>1, KeptServer
    <3>2. CASE ~Net!ServerMsg
      <4>1. grouped' = grouped
        BY <1>2, <3>2 DEF Net!Next, Net!DealIoImpl, Net!OnAccept, Net!OnRecv, Net!OnRecvClosed, Net!Error64, Net!OnDisconn, Net!AddServer, Net!Turn,
           Net!ManagerMsg, Net!AddClient, Net!System, Net!Application, Net!PeerConnects, Net!PeerSends, Net!PeerCloses, Net!Disconnected, Net!MtAcceptIo,
           Net!CloseConn, Net!Connect, Net!Disconn, Net!TimeOut, Net!history
      <4>2. quit \subseteq quit'
        BY <1>2, <3>2 DEF Net!Next, Net!DealIoImpl, Net!OnAccept, Net!OnRecv, Net!OnRecvClosed, Net!Error64, Net!OnDisconn, Net!AddServer, Net!Turn,
           Net!ManagerMsg, Net!AddClient, Net!System, Net!Application, Net!PeerConnects, Net!PeerSends, Net!PeerCloses, Net!Disconnected, Net!MtAcceptIo,
           Net!CloseConn, Net!Connect, Net!Disconn, Net!TimeOut, Net!history
      <4> QED
        BY <3>0, <4>1, <4>2 DEF Net!PacketsStayApart
    <3> QED
      BY <3>1, <3>2
  <2> QED
    BY <1>2, <2>1 DEF NetInv
<1>3. CASE UNCHANGED Net!vars
  BY <1>3 DEF NetInv, Net!PacketsStayApart, Kept, Typed, SocketsAreSound, ClientsFirst, MessagesNext, PortLast, Rising,
     Beneath, Listens, EndsAreTold, EndsComeBetween, Stays, End, Net!vars, Net!lists, Net!queues, Net!history
<1> QED
  BY <1>1, <1>2, <1>3

\* However handles are used again, and however many there are: what the server
\* groups for a client arrived on the connection of the client, up to the step
\* that uses a handle for another socket and but for clients whose socket the
\* application closed.
THEOREM PacketsAreApart == Net!Spec => []PacketsStayApart
<1>1. Net!Init => NetInv
  BY InitNetInv
<1>2. NetInv /\ [Net!Next]_(Net!vars) => NetInv'
  BY NextNetInv
<1>3. NetInv => PacketsStayApart
  BY DEF NetInv, PacketsStayApart
<1> QED
  BY <1>1, <1>2, <1>3, PTL DEF Net!Spec

-----------------------------------------------------------------------------
(* Types of the clients of a server                                        *)

NetSocket == [is : {"closed", "accept", "up", "down"}, conn : 0 .. MaxConns,
              op : {"none", "recv", "disconnect"}, listen : BOOLEAN]
Completed == [what : {"accepted", "data", "closed", "reset", "disconnected"},
              s : Sockets, conn : Net!Conns, listen : BOOLEAN]
Posted == [what : {"accept", "recv", "disconn"}, s : Sockets, conn : Net!Conns]

OpsHaveConns == \A s \in Sockets : socket[s].conn = 0 => socket[s].op = "none"

\* The queues hold messages and completions about connections: what a step takes
\* from them to put it elsewhere is about a connection, too.
NetTypes ==
  /\ Net!TypeOK /\ OpsHaveConns
  /\ port \in Seq(Completed) /\ serverMsgs \in Seq(Posted) /\ managerMsgs \in Seq(Posted)
  /\ connecting \in Seq([s : Sockets, conn : Net!Conns])

LEMMA ConnsAre ==
  ASSUME NEW k \in 0 .. MaxConns, k # 0
  PROVE  k \in Net!Conns
BY NetAssumption DEF Net!Conns

LEMMA FreshSockets ==
  /\ Net!Closed \in NetSocket /\ Net!Closed.conn = 0 /\ Net!Closed.op = "none"
  /\ Net!Accepting \in NetSocket /\ Net!Accepting.op = "none"
<1>1. Net!Closed \in NetSocket /\ Net!Closed.conn = 0 /\ Net!Closed.op = "none"
  BY NetAssumption DEF Net!Closed, NetSocket
<1> DEFINE r == Net!Closed
<1>2. Net!Accepting = [r EXCEPT !.is = "accept", !.listen = TRUE]
  BY DEF Net!Accepting
<1> HIDE DEF r
<1>3. r \in NetSocket /\ r.op = "none"
  BY <1>1 DEF r
<1>4. Net!Accepting \in NetSocket /\ Net!Accepting.op = "none"
  BY <1>2, <1>3 DEF NetSocket
<1> QED
  BY <1>1, <1>4

LEMMA SocketsTyped ==
  ASSUME Net!TypeOK, NEW s \in Sockets
  PROVE  /\ socket \in [Sockets -> NetSocket] /\ socket[s] \in NetSocket
         /\ socket[s].conn \in 0 .. MaxConns /\ socket[s].is \in {"closed", "accept", "up", "down"}
         /\ socket[s].op \in {"none", "recv", "disconnect"} /\ socket[s].listen \in BOOLEAN
BY DEF Net!TypeOK, NetSocket

LEMMA BecomesTyped ==
  ASSUME NetTypes, NEW s \in Sockets, NEW r \in NetSocket, r.conn = 0 => r.op = "none", Net!Becomes(s, r)
  PROVE  socket' \in [Sockets -> NetSocket] /\ OpsHaveConns'
<1>1. socket' \in [Sockets -> NetSocket]
  BY SocketsTyped DEF NetTypes, Net!Becomes
<1>2. \A t \in Sockets : socket'[t] = IF t = s THEN r ELSE socket[t]
  BY SocketsTyped DEF NetTypes, Net!Becomes
<1> QED
  BY <1>1, <1>2 DEF NetTypes, OpsHaveConns

LEMMA CompleteTyped ==
  ASSUME NetTypes, NEW s \in Sockets, socket[s].op # "none",
         NEW what \in {"data", "closed", "reset", "disconnected"}, Net!Complete(s, what)
  PROVE  port' \in Seq(Completed) /\ UNCHANGED <<serverMsgs, managerMsgs>>
<1>1. socket[s].conn \in Net!Conns
  BY SocketsTyped, ConnsAre DEF NetTypes, OpsHaveConns
<1>2. Net!Completion(what, s) \in Completed
  BY <1>1, SocketsTyped DEF NetTypes, Net!Completion, Completed
<1> QED
  BY <1>2, AppendAdds DEF NetTypes, Net!Complete

LEMMA CloseTyped ==
  ASSUME NetTypes, NEW s \in Sockets, NEW k \in Net!Conns, Net!closesocket(s, k)
  PROVE  /\ stray' \in BOOLEAN /\ over' \subseteq Net!Conns
         /\ socket' \in [Sockets -> NetSocket] /\ OpsHaveConns'
         /\ port' \in Seq(Completed) /\ UNCHANGED <<serverMsgs, managerMsgs>>
<1>1. stray' \in BOOLEAN /\ over' \subseteq Net!Conns
  BY DEF NetTypes, Net!TypeOK, Net!closesocket
<1>2. Net!Closed \in NetSocket /\ Net!Closed.conn = 0 /\ Net!Closed.op = "none"
  BY FreshSockets
<1>3. socket' \in [Sockets -> NetSocket] /\ OpsHaveConns'
  BY <1>2, BecomesTyped DEF Net!closesocket
<1>4. CASE Net!Aborted(socket[s].op) = {}
  BY <1>1, <1>3, <1>4 DEF Net!closesocket, Net!queues, NetTypes
<1>5. CASE Net!Aborted(socket[s].op) # {}
  <2>1. Net!Aborted(socket[s].op) \subseteq {"closed", "reset", "disconnected"} /\ socket[s].op # "none"
    BY <1>5, SocketsTyped DEF NetTypes, Net!Aborted
  <2>2. PICK what \in Net!Aborted(socket[s].op) : Net!Complete(s, what)
    BY <1>5 DEF Net!closesocket
  <2> QED
    BY <1>1, <1>3, <2>1, <2>2, CompleteTyped
<1> QED
  BY <1>4, <1>5

LEMMA TakeTyped ==
  ASSUME NetTypes, NEW whats, Net!Take(whats)
  PROVE  Head(port) \in Completed /\ port' \in Seq(Completed)
BY TailShifts DEF NetTypes, Net!Take

LEMMA CallTyped ==
  ASSUME NetTypes, NEW c \in Completed, NEW r,
         socket[c.s].conn = c.conn => r \in NetSocket /\ (r.conn = 0 => r.op = "none"), Net!Call(c, r)
  PROVE  socket' \in [Sockets -> NetSocket] /\ OpsHaveConns' /\ stray' \in BOOLEAN
<1>0. c.s \in Sockets
  BY DEF Completed
<1>1. CASE Net!Meant(c)
  BY <1>0, <1>1, BecomesTyped DEF Net!Call, Net!Meant, NetTypes, Net!TypeOK
<1>2. CASE ~Net!Meant(c)
  BY <1>0, <1>2, SocketsTyped DEF Net!Call, Net!Meant, NetTypes, OpsHaveConns
<1> QED
  BY <1>1, <1>2

LEMMA UnheardTyped ==
  ASSUME NetTypes, NEW c \in Completed, Net!Unheard(c)
  PROVE  unheard' \subseteq Net!Conns
<1>1. c.conn \in Net!Conns
  BY DEF Completed
<1> QED
  BY <1>1 DEF NetTypes, Net!TypeOK, Net!Unheard

LEMMA PostTyped ==
  ASSUME NetTypes, NEW c \in Completed, NEW what \in {"accept", "recv", "disconn"}, Net!Post(what, c)
  PROVE  /\ serverMsgs' \in Seq(Posted) /\ Len(serverMsgs') <= QueueSize
         /\ managerMsgs' \in Seq(Posted) /\ Len(managerMsgs') <= QueueSize
         /\ unheard' \subseteq Net!Conns
<1> DEFINE m == [what |-> what, s |-> c.s, conn |-> c.conn]
<1>1. m \in Posted
  BY DEF Posted, Completed
<1>2. \A q \in Seq(Posted) : Len(q) < QueueSize =>
        Append(q, m) \in Seq(Posted) /\ Len(Append(q, m)) <= QueueSize
  BY <1>1, NetAssumption, AppendProperties
<1>3. /\ serverMsgs \in Seq(Posted) /\ Len(serverMsgs) <= QueueSize
      /\ managerMsgs \in Seq(Posted) /\ Len(managerMsgs) <= QueueSize /\ unheard \subseteq Net!Conns
  BY DEF NetTypes, Net!TypeOK
<1>4. unheard' \subseteq Net!Conns
  BY <1>3, UnheardTyped DEF Net!Post
<1>5. serverMsgs' \in Seq(Posted) /\ Len(serverMsgs') <= QueueSize
  BY <1>2, <1>3 DEF Net!Post
<1>6. managerMsgs' \in Seq(Posted) /\ Len(managerMsgs') <= QueueSize
  BY <1>2, <1>3 DEF Net!Post
<1> QED
  BY <1>4, <1>5, <1>6

LEMMA ProcessTyped ==
  ASSUME NEW clients \in [Sockets -> 0 .. MaxConns], NEW m \in Posted
  PROVE  Net!ProcessIoMsg(clients, m) \in [Sockets -> 0 .. MaxConns]
<1>1. m.conn \in 0 .. MaxConns /\ m.s \in Sockets /\ 0 \in 0 .. MaxConns
  BY NetAssumption DEF Posted, Net!Conns
<1> QED
  BY <1>1 DEF Net!ProcessIoMsg

LEMMA InitTypes == Net!Init => NetTypes
<1> SUFFICES ASSUME Net!Init PROVE NetTypes
  OBVIOUS
<1>1. <<>> \in Seq(Completed) /\ <<>> \in Seq(Posted) /\ <<>> \in Seq([s : Sockets, conn : Net!Conns]) /\ Len(<<>>) = 0
  OBVIOUS
<1>2. Net!Closed \in NetSocket /\ Net!Closed.op = "none"
  BY FreshSockets
<1>3. socket \in [Sockets -> NetSocket] /\ OpsHaveConns
  BY <1>2 DEF Net!Init, OpsHaveConns
<1>4. 0 \in 0 .. MaxConns /\ 0 \in 0 .. MaxPackets /\ 0 <= QueueSize
  BY NetAssumption
<1>5. /\ serverClients \in [Sockets -> 0 .. MaxConns] /\ managerClients \in [Sockets -> 0 .. MaxConns]
      /\ sent \in [Net!Conns -> 0 .. MaxPackets] /\ conns \in 0 .. MaxConns
  BY <1>4 DEF Net!Init
<1>6. Len(serverMsgs) <= QueueSize /\ Len(managerMsgs) <= QueueSize /\ Len(connecting) <= 1
  <2>1. serverMsgs = <<>> /\ managerMsgs = <<>> /\ connecting = <<>>
    BY DEF Net!Init
  <2> QED
    BY <1>1, <1>4, <2>1
<1>7. /\ m_ServerList \in BOOLEAN /\ stray \in BOOLEAN /\ server \in {"messages", "clients"}
      /\ over = {} /\ quit = {} /\ unheard = {} /\ grouped = {}
  BY DEF Net!Init
<1>8. Net!TypeOK
  BY <1>3, <1>5, <1>6, <1>7 DEF Net!TypeOK, NetSocket
<1> QED
  BY <1>1, <1>3, <1>8 DEF NetTypes, Net!Init

\* What has to be shown of a step.
LEMMA TypesAre ==
  ASSUME m_ServerList' \in BOOLEAN, stray' \in BOOLEAN,
         socket' \in [Sockets -> NetSocket], OpsHaveConns',
         port' \in Seq(Completed), serverMsgs' \in Seq(Posted), managerMsgs' \in Seq(Posted),
         Len(serverMsgs') <= QueueSize, Len(managerMsgs') <= QueueSize,
         serverClients' \in [Sockets -> 0 .. MaxConns], managerClients' \in [Sockets -> 0 .. MaxConns],
         server' \in {"messages", "clients"},
         connecting' \in Seq([s : Sockets, conn : Net!Conns]), Len(connecting') <= 1,
         conns' \in 0 .. MaxConns, sent' \in [Net!Conns -> 0 .. MaxPackets],
         over' \subseteq Net!Conns, quit' \subseteq Net!Conns, unheard' \subseteq Net!Conns,
         grouped' \subseteq [client : Net!Conns, conn : Net!Conns]
  PROVE  NetTypes'
<1>1. Net!TypeOK'
  BY DEF Net!TypeOK, NetSocket, Net!Conns
<1> QED
  BY <1>1 DEF NetTypes, Net!Conns, Posted, Completed

LEMMA TypesNow ==
  ASSUME NetTypes
  PROVE  /\ m_ServerList \in BOOLEAN /\ stray \in BOOLEAN
         /\ socket \in [Sockets -> NetSocket] /\ OpsHaveConns
         /\ port \in Seq(Completed) /\ serverMsgs \in Seq(Posted) /\ managerMsgs \in Seq(Posted)
         /\ Len(serverMsgs) <= QueueSize /\ Len(managerMsgs) <= QueueSize
         /\ serverClients \in [Sockets -> 0 .. MaxConns] /\ managerClients \in [Sockets -> 0 .. MaxConns]
         /\ server \in {"messages", "clients"}
         /\ connecting \in Seq([s : Sockets, conn : Net!Conns]) /\ Len(connecting) <= 1
         /\ conns \in 0 .. MaxConns /\ sent \in [Net!Conns -> 0 .. MaxPackets]
         /\ over \subseteq Net!Conns /\ quit \subseteq Net!Conns /\ unheard \subseteq Net!Conns
         /\ grouped \subseteq [client : Net!Conns, conn : Net!Conns]
BY DEF NetTypes, Net!TypeOK, NetSocket

LEMMA SystemTypes ==
  ASSUME NetTypes, NEW s \in Sockets, Net!System(s)
  PROVE  NetTypes'
<1> DEFINE r == socket[s]
<1>r. r \in NetSocket /\ (r.conn = 0 => r.op = "none") /\ r.op \in {"none", "recv", "disconnect"}
  BY TypesNow, SocketsTyped DEF NetTypes, OpsHaveConns
<1>q. [r EXCEPT !.op = "none"] \in NetSocket /\ [r EXCEPT !.op = "none"].op = "none"
  BY <1>r DEF NetSocket
<1> HIDE DEF r
<1>1. CASE Net!PeerConnects(s)
  <2> DEFINE n == [r EXCEPT !.is = "up", !.conn = conns + 1]
             c == [what |-> "accepted", s |-> s, conn |-> conns + 1, listen |-> TRUE]
  <2>1. conns + 1 \in Net!Conns /\ conns + 1 \in 0 .. MaxConns /\ conns + 1 # 0
    BY <1>1, TypesNow, NetAssumption DEF Net!PeerConnects, Net!Conns
  <2>2. n \in NetSocket /\ n.conn # 0 /\ c \in Completed
    BY <1>r, <2>1 DEF NetSocket, Completed
  <2>3. Net!Becomes(s, n) /\ port' = Append(port, c)
    BY <1>1 DEF Net!PeerConnects, r
  <2> HIDE DEF n, c
  <2>4. socket' \in [Sockets -> NetSocket] /\ OpsHaveConns' /\ port' \in Seq(Completed)
    BY <2>2, <2>3, BecomesTyped, TypesNow, AppendAdds
  <2>5. conns' \in 0 .. MaxConns /\ UNCHANGED <<Net!lists, serverMsgs, managerMsgs, server, connecting, sent, Net!history>>
    BY <1>1, <2>1 DEF Net!PeerConnects
  <2> QED
    BY <2>4, <2>5, TypesNow, TypesAre DEF Net!lists, Net!history
<1>2. CASE Net!PeerSends(s)
  <2>1. Net!Complete(s, "data") /\ Net!Becomes(s, [r EXCEPT !.op = "none"]) /\ r.op = "recv"
    BY <1>2 DEF Net!PeerSends, r
  <2>2. /\ socket' \in [Sockets -> NetSocket] /\ OpsHaveConns'
        /\ port' \in Seq(Completed) /\ UNCHANGED <<serverMsgs, managerMsgs>>
    BY <1>q, <2>1, BecomesTyped, CompleteTyped DEF r
  <2>3. r.conn \in Net!Conns
    BY <1>r, <2>1, ConnsAre DEF NetSocket
  <2>4. sent' \in [Net!Conns -> 0 .. MaxPackets]
    <3>1. sent[r.conn] + 1 \in 0 .. MaxPackets
      BY <1>2, <2>3, TypesNow, NetAssumption DEF Net!PeerSends, r
    <3>2. sent' = [sent EXCEPT ![r.conn] = sent[r.conn] + 1]
      BY <1>2 DEF Net!PeerSends, r
    <3> QED
      BY <2>3, <3>1, <3>2, TypesNow
  <2>5. UNCHANGED <<Net!lists, server, connecting, conns, Net!history>>
    BY <1>2 DEF Net!PeerSends
  <2> QED
    BY <2>2, <2>4, <2>5, TypesNow, TypesAre DEF Net!lists, Net!history
<1>3. CASE Net!PeerCloses(s)
  <2>1. (Net!Complete(s, "closed") \/ Net!Complete(s, "reset")) /\ Net!Becomes(s, [r EXCEPT !.op = "none"]) /\ r.op = "recv"
    BY <1>3 DEF Net!PeerCloses, r
  <2>2. /\ socket' \in [Sockets -> NetSocket] /\ OpsHaveConns'
        /\ port' \in Seq(Completed) /\ UNCHANGED <<serverMsgs, managerMsgs>>
    BY <1>q, <2>1, BecomesTyped, CompleteTyped DEF r
  <2>3. r.conn \in Net!Conns
    BY <1>r, <2>1, ConnsAre DEF NetSocket
  <2>4. /\ over' = over \cup {r.conn}
        /\ UNCHANGED <<Net!lists, server, connecting, conns, sent, grouped, quit, unheard, stray>>
    BY <1>3 DEF Net!PeerCloses, r
  <2>5. over' \subseteq Net!Conns
    BY <2>3, <2>4, TypesNow
  <2> QED
    BY <2>2, <2>4, <2>5, TypesNow, TypesAre DEF Net!lists
<1>4. CASE Net!Disconnected(s)
  <2>1. Net!Complete(s, "disconnected") /\ Net!Becomes(s, [r EXCEPT !.op = "none"]) /\ r.op = "disconnect"
    BY <1>4 DEF Net!Disconnected, r
  <2>2. /\ socket' \in [Sockets -> NetSocket] /\ OpsHaveConns'
        /\ port' \in Seq(Completed) /\ UNCHANGED <<serverMsgs, managerMsgs>>
    BY <1>q, <2>1, BecomesTyped, CompleteTyped DEF r
  <2>3. UNCHANGED <<Net!lists, server, connecting, conns, sent, Net!history>>
    BY <1>4 DEF Net!Disconnected
  <2> QED
    BY <2>2, <2>3, TypesNow, TypesAre DEF Net!lists, Net!history
<1>5. CASE Net!MtAcceptIo(s)
  <2>1. Net!Accepting \in NetSocket /\ Net!Accepting.op = "none"
    BY FreshSockets
  <2>2. Net!Becomes(s, Net!Accepting)
    BY <1>5 DEF Net!MtAcceptIo
  <2>3. socket' \in [Sockets -> NetSocket] /\ OpsHaveConns'
    BY <2>1, <2>2, BecomesTyped
  <2>4. UNCHANGED <<Net!lists, Net!queues, server, connecting, conns, sent, Net!history>>
    BY <1>5 DEF Net!MtAcceptIo
  <2> QED
    BY <2>3, <2>4, TypesNow, TypesAre DEF Net!lists, Net!queues, Net!history
<1> QED
  BY <1>1, <1>2, <1>3, <1>4, <1>5 DEF Net!System

LEMMA ClosingTypes ==
  ASSUME NetTypes, NEW s \in Sockets, Net!TimeOut(s) \/ Net!Application(s)
  PROVE  NetTypes'
<1>s. serverClients[s] \in 0 .. MaxConns /\ managerClients[s] \in 0 .. MaxConns
  BY TypesNow
<1>0. 0 \in 0 .. MaxConns
  BY NetAssumption
<1>1. CASE Net!TimeOut(s)
  <2>1. serverClients[s] \in Net!Conns /\ Net!closesocket(s, serverClients[s])
    BY <1>s, <1>1, ConnsAre DEF Net!TimeOut
  <2>2. serverClients' \in [Sockets -> 0 .. MaxConns]
    BY <1>0, <1>1, TypesNow DEF Net!TimeOut
  <2>3. UNCHANGED <<m_ServerList, managerClients, server, connecting, conns, sent, grouped, quit, unheard>>
    BY <1>1 DEF Net!TimeOut
  <2> QED
    BY <2>1, <2>2, <2>3, CloseTyped, TypesNow, TypesAre
<1>2. CASE Net!CloseConn(s)
  <2>1. serverClients[s] \in Net!Conns /\ Net!closesocket(s, serverClients[s])
    BY <1>s, <1>2, ConnsAre DEF Net!CloseConn
  <2>2. /\ quit' = quit \cup {serverClients[s]}
        /\ UNCHANGED <<Net!lists, server, connecting, conns, sent, grouped, unheard>>
    BY <1>2 DEF Net!CloseConn
  <2>3. quit' \subseteq Net!Conns
    BY <2>1, <2>2, TypesNow
  <2> QED
    BY <2>1, <2>2, <2>3, CloseTyped, TypesNow, TypesAre DEF Net!lists
<1>3. CASE Net!Disconn(s)
  <2>1. managerClients[s] \in Net!Conns /\ Net!closesocket(s, managerClients[s])
    BY <1>s, <1>3, ConnsAre DEF Net!Disconn
  <2>2. managerClients' \in [Sockets -> 0 .. MaxConns]
    BY <1>0, <1>3, TypesNow DEF Net!Disconn
  <2>3. /\ quit' = quit \cup {managerClients[s]}
        /\ UNCHANGED <<m_ServerList, serverClients, server, connecting, conns, sent, grouped, unheard>>
    BY <1>3 DEF Net!Disconn
  <2>4. quit' \subseteq Net!Conns
    BY <2>1, <2>3, TypesNow
  <2> QED
    BY <2>1, <2>2, <2>3, <2>4, CloseTyped, TypesNow, TypesAre
<1>4. CASE Net!Connect(s)
  <2> DEFINE n == [is |-> "up", conn |-> conns + 1, op |-> "recv", listen |-> FALSE]
             c == [s |-> s, conn |-> conns + 1]
  <2>1. conns + 1 \in Net!Conns /\ conns + 1 \in 0 .. MaxConns /\ conns + 1 # 0
    BY <1>4, TypesNow, NetAssumption DEF Net!Connect, Net!Conns
  <2>2. n \in NetSocket /\ n.conn # 0 /\ c \in [s : Sockets, conn : Net!Conns]
    BY <2>1 DEF NetSocket
  <2>3. /\ Net!Becomes(s, n) /\ connecting' = <<c>> /\ conns' = conns + 1
        /\ UNCHANGED <<Net!lists, Net!queues, server, sent, Net!history>>
    BY <1>4 DEF Net!Connect
  <2> HIDE DEF n, c
  <2>4. socket' \in [Sockets -> NetSocket] /\ OpsHaveConns'
    BY <2>2, <2>3, BecomesTyped
  <2>5. connecting' \in Seq([s : Sockets, conn : Net!Conns]) /\ Len(connecting') <= 1
    BY <2>2, <2>3
  <2> QED
    BY <2>1, <2>3, <2>4, <2>5, TypesNow, TypesAre DEF Net!lists, Net!queues, Net!history
<1> QED
  BY <1>1, <1>2, <1>3, <1>4 DEF Net!Application

LEMMA DriverTypes ==
  ASSUME NetTypes, Net!DealIoImpl
  PROVE  NetTypes'
<1> DEFINE c == Head(port)
           r == socket[c.s]
           recv == [r EXCEPT !.op = "recv"]
           ends == [r EXCEPT !.is = "down", !.op = "disconnect"]
           down == [r EXCEPT !.is = "down"]
<1>1. c \in Completed /\ port' \in Seq(Completed)
  BY TakeTyped DEF Net!DealIoImpl, Net!OnAccept, Net!OnRecv, Net!OnRecvClosed, Net!Error64, Net!OnDisconn
<1>2. c.s \in Sockets /\ c.conn \in Net!Conns /\ c.conn # 0
  BY <1>1, NetAssumption DEF Completed, Net!Conns
<1>3. r \in NetSocket /\ (r.conn = 0 => r.op = "none")
  BY <1>2, SocketsTyped DEF NetTypes, OpsHaveConns
<1>4. /\ recv \in NetSocket /\ recv.conn = r.conn
      /\ ends \in NetSocket /\ ends.conn = r.conn
      /\ down \in NetSocket /\ down.conn = r.conn /\ down.op = r.op
  BY <1>3 DEF NetSocket
<1>5. /\ Net!Closed \in NetSocket /\ Net!Closed.op = "none"
      /\ Net!Accepting \in NetSocket /\ Net!Accepting.op = "none"
  BY FreshSockets
<1>6. /\ \/ Net!Call(c, recv) \/ Net!Call(c, ends) \/ Net!Call(c, down) \/ Net!Call(c, Net!Closed)
         \/ Net!Call(c, Net!Accepting) \/ Net!Call(c, r)
      /\ UNCHANGED <<Net!lists, server, connecting, conns, sent, over, grouped, quit>>
  BY DEF Net!DealIoImpl, Net!OnAccept, Net!OnRecv, Net!OnRecvClosed, Net!Error64, Net!OnDisconn
<1>7. \/ Net!Post("accept", c) \/ Net!Post("recv", c) \/ Net!Post("disconn", c) \/ Net!NoPost
      \/ Net!Unheard(c) /\ UNCHANGED <<serverMsgs, managerMsgs>>
  BY DEF Net!DealIoImpl, Net!OnAccept, Net!OnRecv, Net!OnRecvClosed, Net!Error64, Net!OnDisconn
<1>8. r.conn = socket[c.s].conn
  OBVIOUS
<1> HIDE DEF c, r, recv, ends, down
<1>9. socket' \in [Sockets -> NetSocket] /\ OpsHaveConns' /\ stray' \in BOOLEAN
  BY <1>1, <1>2, <1>3, <1>4, <1>5, <1>6, <1>8, CallTyped
<1>10. /\ serverMsgs' \in Seq(Posted) /\ Len(serverMsgs') <= QueueSize
       /\ managerMsgs' \in Seq(Posted) /\ Len(managerMsgs') <= QueueSize /\ unheard' \subseteq Net!Conns
  BY <1>1, <1>7, PostTyped, UnheardTyped, TypesNow DEF Net!NoPost
<1> QED
  BY <1>1, <1>6, <1>9, <1>10, TypesNow, TypesAre DEF Net!lists

LEMMA ThreadsTypes ==
  ASSUME NetTypes, Net!AddServer \/ Net!ServerMsg \/ Net!Turn \/ Net!ManagerMsg \/ Net!AddClient
  PROVE  NetTypes'
<1>0. socket' = socket => OpsHaveConns'
  BY TypesNow DEF OpsHaveConns
<1>1. CASE Net!AddServer
  BY <1>0, <1>1, TypesNow, TypesAre DEF Net!AddServer, Net!queues, Net!history
<1>2. CASE Net!Turn
  <2>1. server' \in {"messages", "clients"} /\ UNCHANGED <<Net!lists, Net!queues, socket, connecting, conns, sent, Net!history>>
    BY <1>2 DEF Net!Turn
  <2> QED
    BY <1>0, <2>1, TypesNow, TypesAre DEF Net!lists, Net!queues, Net!history
<1>3. CASE Net!ServerMsg
  <2> DEFINE m == Head(serverMsgs)
  <2>1. m \in Posted /\ serverMsgs' \in Seq(Posted) /\ Len(serverMsgs') <= QueueSize
    <3>1. serverMsgs # <<>> /\ serverMsgs' = Tail(serverMsgs) /\ serverMsgs \in Seq(Posted) /\ Len(serverMsgs) <= QueueSize
      BY <1>3, TypesNow DEF Net!ServerMsg
    <3>2. Len(Tail(serverMsgs)) = Len(serverMsgs) - 1 /\ Len(serverMsgs) \in Nat
      BY <3>1, HeadTailProperties
    <3> QED
      BY <3>1, <3>2, TailShifts, NetAssumption
  <2>2. /\ serverClients' = Net!ProcessIoMsg(serverClients, m)
        /\ grouped' = grouped \cup Net!Grouped(m)
        /\ UNCHANGED <<m_ServerList, managerClients, port, managerMsgs, socket, server, connecting,
                       conns, sent, over, quit, unheard, stray>>
    BY <1>3 DEF Net!ServerMsg
  <2> HIDE DEF m
  <2>3. serverClients' \in [Sockets -> 0 .. MaxConns]
    BY <2>1, <2>2, TypesNow, ProcessTyped
  <2>4. Net!Grouped(m) \subseteq [client : Net!Conns, conn : Net!Conns]
    <3>1. m.s \in Sockets /\ m.conn \in Net!Conns
      BY <2>1 DEF Posted
    <3>2. serverClients[m.s] # 0 => serverClients[m.s] \in Net!Conns
      BY <3>1, TypesNow, ConnsAre
    <3> QED
      BY <3>1, <3>2 DEF Net!Grouped
  <2>5. grouped' \subseteq [client : Net!Conns, conn : Net!Conns]
    BY <2>2, <2>4, TypesNow
  <2>6. OpsHaveConns'
    BY <1>0, <2>2
  <2> QED
    BY <2>1, <2>2, <2>3, <2>5, <2>6, TypesNow, TypesAre
<1>4. CASE Net!ManagerMsg
  <2> DEFINE m == Head(managerMsgs)
  <2>1. m \in Posted /\ managerMsgs' \in Seq(Posted) /\ Len(managerMsgs') <= QueueSize
    <3>1. managerMsgs # <<>> /\ managerMsgs' = Tail(managerMsgs) /\ managerMsgs \in Seq(Posted) /\ Len(managerMsgs) <= QueueSize
      BY <1>4, TypesNow DEF Net!ManagerMsg
    <3>2. Len(Tail(managerMsgs)) = Len(managerMsgs) - 1 /\ Len(managerMsgs) \in Nat
      BY <3>1, HeadTailProperties
    <3> QED
      BY <3>1, <3>2, TailShifts, NetAssumption
  <2>2. /\ managerClients' = managerClients \/ managerClients' = Net!ProcessIoMsg(managerClients, m)
        /\ unheard' = unheard \/ unheard' = unheard \cup {m.conn}
        /\ UNCHANGED <<m_ServerList, serverClients, port, serverMsgs, socket, server, connecting,
                       conns, sent, over, grouped, quit, stray>>
    BY <1>4 DEF Net!ManagerMsg
  <2> HIDE DEF m
  <2>3. managerClients' \in [Sockets -> 0 .. MaxConns]
    BY <2>1, <2>2, TypesNow, ProcessTyped
  <2>4. m.conn \in Net!Conns
    BY <2>1 DEF Posted
  <2>5. unheard' \subseteq Net!Conns
    BY <2>2, <2>4, TypesNow
  <2>6. OpsHaveConns'
    BY <1>0, <2>2
  <2> QED
    BY <2>1, <2>2, <2>3, <2>5, <2>6, TypesNow, TypesAre
<1>5. CASE Net!AddClient
  <2> DEFINE c == Head(connecting)
  <2>0. connecting # <<>> /\ connecting \in Seq([s : Sockets, conn : Net!Conns])
    BY <1>5, TypesNow DEF Net!AddClient
  <2>1. c \in [s : Sockets, conn : Net!Conns]
    <3> DEFINE T == [s : Sockets, conn : Net!Conns]
    <3>1. connecting \in Seq(T)
      BY <2>0
    <3> HIDE DEF T
    <3>2. Head(connecting) \in T
      BY <2>0, <3>1, TailShifts
    <3> QED
      BY <3>2 DEF T
  <2>2. c.s \in Sockets /\ c.conn \in 0 .. MaxConns
    BY <2>1, NetAssumption DEF Net!Conns
  <2>3. managerClients' = [managerClients EXCEPT ![c.s] = IF @ = 0 THEN c.conn ELSE @]
    BY <1>5 DEF Net!AddClient
  <2>4. /\ connecting' = <<>>
        /\ UNCHANGED <<m_ServerList, serverClients, Net!queues, socket, server, conns, sent, Net!history>>
    BY <1>5 DEF Net!AddClient
  <2> HIDE DEF c
  <2>5. managerClients' \in [Sockets -> 0 .. MaxConns]
    BY <2>2, <2>3, TypesNow
  <2>6. connecting' \in Seq([s : Sockets, conn : Net!Conns]) /\ Len(connecting') <= 1
    BY <2>4
  <2>7. OpsHaveConns'
    BY <1>0, <2>4
  <2> QED
    BY <2>4, <2>5, <2>6, <2>7, TypesNow, TypesAre DEF Net!queues, Net!history
<1> QED
  BY <1>1, <1>2, <1>3, <1>4, <1>5

\* Every variable of the sockets, queues and clients keeps its type: no queue
\* passes its size, one ConnectServer at a time is under way, and clients,
\* messages and completions are about connections that exist, also where the
\* model ends.
THEOREM ClientsAreTyped == Net!Spec => []Net!TypeOK
<1>1. Net!Init => NetTypes
  BY InitTypes
<1>2. NetTypes /\ [Net!Next]_(Net!vars) => NetTypes'
  <2> SUFFICES ASSUME NetTypes, [Net!Next]_(Net!vars) PROVE NetTypes'
    OBVIOUS
  <2>1. CASE Net!Next
    BY <2>1, SystemTypes, ClosingTypes, DriverTypes, ThreadsTypes DEF Net!Next
  <2>2. CASE UNCHANGED Net!vars
    BY <2>2, TypesNow, TypesAre DEF OpsHaveConns, Net!vars, Net!lists, Net!queues, Net!history
  <2> QED
    BY <2>1, <2>2
<1>3. NetTypes => Net!TypeOK
  BY DEF NetTypes
<1> QED
  BY <1>1, <1>2, <1>3, PTL DEF Net!Spec

=============================================================================
