------------------------------ MODULE AcceptIo ------------------------------
(***************************************************************************)
(* How many AcceptEx calls IocpDriver keeps outstanding for a listening    *)
(* socket.  The accept thread posts a round of them each time the listener *)
(* signals FD_ACCEPT; the IO thread takes their completions and posts the  *)
(* context of a closed connection again.  Both read and write the counter  *)
(* m_nPostAcceptIoStat without a lock, so each ++ and -- is a load and a   *)
(* store.  Contexts are counted, not named.                                *)
(***************************************************************************)
EXTENDS Integers

CONSTANTS MAX_ACCEPT,    \* 10, the AcceptEx calls of one round
          AcceptLimit,   \* 20, the literal of PostAcceptIo
          MaxConnects,   \* bound: connections that peers open
          MaxRefused     \* bound: AcceptEx calls that fail

ASSUME AcceptAssumption ==
  /\ MAX_ACCEPT \in Nat \ {0} /\ AcceptLimit \in Nat \ {0}
  /\ MaxConnects \in Nat
  /\ MaxRefused \in 0 .. MAX_ACCEPT - 1

\* The two threads, and the completions the IO thread may find.
Threads == {"accept", "io"}
Completions == {"accepted", "acceptReset", "closed", "reset", "disconnected"}

VARIABLES
  m_nPostAcceptIoStat,
  pc,         \* where each thread is
  register,   \* what each thread last loaded of the counter
  i,          \* the accept thread's loop index
  pending,    \* AcceptEx calls that wait for a connection
  completed,  \* completions in the port, by kind
  connected,  \* contexts whose connection is up
  backlog,    \* connections the listener holds that no AcceptEx took
  event,      \* hAcceptEvent
  connects, refused,    \* what the bounds count
  stranded,   \* AcceptEx calls that ended in error 64: never counted down
  lostInc, lostDec,     \* updates that another store overwrote
  turnedAway  \* the accept thread has met a counter at the limit

code == <<m_nPostAcceptIoStat, pc, register, i>>
system == <<pending, completed, connected, backlog, event, connects, refused>>
history == <<stranded, lostInc, lostDec, turnedAway>>
vars == <<code, system, history>>

Init ==
  /\ m_nPostAcceptIoStat = 0
  /\ pc = [t \in Threads |-> "wait"]
  /\ register = [t \in Threads |-> 0]
  /\ i = 0
  /\ pending = 0 /\ completed = [k \in Completions |-> 0] /\ connected = 0
  /\ backlog = 0 /\ event = FALSE
  /\ connects = 0 /\ refused = 0
  /\ stranded = 0 /\ lostInc = 0 /\ lostDec = 0 /\ turnedAway = FALSE

Goto(t, where) == pc' = [pc EXCEPT ![t] = where]
Take(k) == completed[k] > 0 /\ completed' = [completed EXCEPT ![k] = @ - 1]
Complete(k) == completed' = [completed EXCEPT ![k] = @ + 1]

-----------------------------------------------------------------------------
(* The counter                                                             *)

Load(t) ==
  /\ register' = [register EXCEPT ![t] = m_nPostAcceptIoStat]
  /\ UNCHANGED m_nPostAcceptIoStat

\* The store of a ++ (d = 1) or a -- (d = -1): what the other thread has
\* stored since the load is gone.
Store(t, d) ==
  /\ m_nPostAcceptIoStat' = register[t] + d
  /\ lostInc' = IF m_nPostAcceptIoStat > register[t]
                THEN lostInc + (m_nPostAcceptIoStat - register[t]) ELSE lostInc
  /\ lostDec' = IF m_nPostAcceptIoStat < register[t]
                THEN lostDec + (register[t] - m_nPostAcceptIoStat) ELSE lostDec
  /\ UNCHANGED register

-----------------------------------------------------------------------------
(* PostAcceptIo, called by either thread                                   *)

\* Where PostAcceptIo returns to: the next turn of the accept thread's loop, or
\* the port.
Return(t) ==
  IF t = "io" THEN Goto(t, "wait") /\ UNCHANGED i
  ELSE /\ i' = IF i + 1 = MAX_ACCEPT THEN 0 ELSE i + 1
       /\ Goto(t, IF i + 1 = MAX_ACCEPT THEN "wait" ELSE "check")

\* Mutant: off by one.
CheckLimitLate(t) ==
  /\ pc[t] = "check"
  /\ IF m_nPostAcceptIoStat > AcceptLimit
     THEN Return(t) /\ turnedAway' = (turnedAway \/ t = "accept")
     ELSE Goto(t, "acceptEx") /\ UNCHANGED <<i, turnedAway>>
  /\ UNCHANGED <<m_nPostAcceptIoStat, register, system, stranded, lostInc, lostDec>>

\* At the limit the socket is closed and the context freed.
CheckLimit(t) ==
  /\ pc[t] = "check"
  /\ IF m_nPostAcceptIoStat >= AcceptLimit
     THEN Return(t) /\ turnedAway' = (turnedAway \/ t = "accept")
     ELSE Goto(t, "acceptEx") /\ UNCHANGED <<i, turnedAway>>
  /\ UNCHANGED <<m_nPostAcceptIoStat, register, system, stranded, lostInc, lostDec>>

\* AcceptEx takes a connection of the backlog at once, and the listener
\* signals again when more are left; otherwise the call stays outstanding.
CallAcceptEx(t) ==
  /\ pc[t] = "acceptEx"
  /\ \/ /\ backlog > 0
        /\ backlog' = backlog - 1
        /\ event' = (event \/ backlog > 1)
        /\ Complete("accepted")
        /\ UNCHANGED pending
     \/ /\ backlog = 0
        /\ pending' = pending + 1
        /\ UNCHANGED <<backlog, event, completed>>
  /\ Goto(t, "loadInc")
  /\ UNCHANGED <<m_nPostAcceptIoStat, register, i, connected, connects, refused, history>>

\* AcceptEx fails: buffer and context are freed, the counter is left alone.
AcceptExFails(t) ==
  /\ pc[t] = "acceptEx"
  /\ refused < MaxRefused
  /\ refused' = refused + 1
  /\ Return(t)
  /\ UNCHANGED <<m_nPostAcceptIoStat, register, pending, completed, connected,
                 backlog, event, connects, history>>

LoadInc(t) ==
  /\ pc[t] = "loadInc"
  /\ Load(t) /\ Goto(t, "storeInc")
  /\ UNCHANGED <<i, system, history>>

StoreInc(t) ==
  /\ pc[t] = "storeInc"
  /\ Store(t, 1) /\ Return(t)
  /\ UNCHANGED <<system, stranded, turnedAway>>

-----------------------------------------------------------------------------
(* The accept thread, MtAcceptIo                                           *)

\* Mutant: the wait goes on.
WaitAcceptEventDeaf ==
  /\ pc["accept"] = "wait"
  /\ event
  /\ event' = FALSE
  /\ UNCHANGED <<code, pending, completed, connected, backlog, connects, refused, history>>

\* The event resets itself when the wait ends.
WaitAcceptEvent ==
  /\ pc["accept"] = "wait"
  /\ event
  /\ event' = FALSE
  /\ Goto("accept", "check")
  /\ UNCHANGED <<m_nPostAcceptIoStat, register, i, pending, completed, connected,
                 backlog, connects, refused, history>>

-----------------------------------------------------------------------------
(* The IO thread, DealIoImpl and the callbacks                             *)

\* Mutant: the counter is not decremented.
OnAcceptUncounted ==
  /\ pc["io"] = "wait"
  /\ Take("accepted")
  /\ Goto("io", "recv")
  /\ UNCHANGED <<m_nPostAcceptIoStat, register, i, pending, connected, backlog, event,
                 connects, refused, history>>

\* A completion that leads to OnAccept; other errors than 64 do so too.
OnAccept ==
  /\ pc["io"] = "wait"
  /\ Take("accepted")
  /\ Goto("io", "loadDec")
  /\ UNCHANGED <<m_nPostAcceptIoStat, register, i, pending, connected, backlog, event,
                 connects, refused, history>>

LoadDec ==
  /\ pc["io"] = "loadDec"
  /\ Load("io") /\ Goto("io", "storeDec")
  /\ UNCHANGED <<i, system, history>>

StoreDec ==
  /\ pc["io"] = "storeDec"
  /\ Store("io", -1) /\ Goto("io", "recv")
  /\ UNCHANGED <<i, system, stranded, turnedAway>>

\* What DisconnectEx with the context leads to: its completion, or, when the
\* call fails, a freed context.
DisconnectEx == Complete("disconnected") \/ UNCHANGED completed

\* OnAccept ends by posting a receive; when that fails the socket is
\* disconnected.
PostRecv ==
  /\ pc["io"] = "recv"
  /\ \/ connected' = connected + 1 /\ UNCHANGED completed
     \/ DisconnectEx /\ UNCHANGED connected
  /\ Goto("io", "wait")
  /\ UNCHANGED <<m_nPostAcceptIoStat, register, i, pending, backlog, event, connects,
                 refused, history>>

\* OnRecv with no bytes.
OnRecvClosed ==
  /\ pc["io"] = "wait"
  /\ completed["closed"] > 0
  /\ \/ completed' = [completed EXCEPT !["closed"] = @ - 1]
     \/ completed' = [completed EXCEPT !["closed"] = @ - 1, !["disconnected"] = @ + 1]
  /\ UNCHANGED <<code, pending, connected, backlog, event, connects, refused, history>>

\* Error 64: DisconnectEx gets no context, so no callback follows.
Error64 ==
  /\ pc["io"] = "wait"
  /\ \/ Take("acceptReset") /\ stranded' = stranded + 1
     \/ Take("reset") /\ UNCHANGED stranded
  /\ UNCHANGED <<code, pending, connected, backlog, event, connects, refused,
                 lostInc, lostDec, turnedAway>>

OnDisconn ==
  /\ pc["io"] = "wait"
  /\ Take("disconnected")
  /\ Goto("io", "check")
  /\ UNCHANGED <<m_nPostAcceptIoStat, register, i, pending, connected, backlog, event,
                 connects, refused, history>>

-----------------------------------------------------------------------------
(* Peers and the system                                                    *)

\* A connection completes an outstanding AcceptEx, in error 64 if the peer
\* drops it at once, or joins the backlog and signals the event.
Connect ==
  /\ connects < MaxConnects
  /\ connects' = connects + 1
  /\ \/ /\ pending > 0
        /\ pending' = pending - 1
        /\ Complete("accepted") \/ Complete("acceptReset")
        /\ UNCHANGED <<backlog, event>>
     \/ /\ pending = 0
        /\ backlog' = backlog + 1
        /\ event' = TRUE
        /\ UNCHANGED <<pending, completed>>
  /\ UNCHANGED <<code, connected, refused, history>>

\* A connection ends: the receive completes with no bytes, or with error 64.
HangUp ==
  /\ connected > 0
  /\ connected' = connected - 1
  /\ Complete("closed") \/ Complete("reset")
  /\ UNCHANGED <<code, pending, backlog, event, connects, refused, history>>

-----------------------------------------------------------------------------
PostAcceptIo(t) ==
  CheckLimit(t) \/ CallAcceptEx(t) \/ AcceptExFails(t) \/ LoadInc(t) \/ StoreInc(t)

MtAcceptIo == WaitAcceptEvent \/ PostAcceptIo("accept")

DealIoImpl ==
  \/ OnAccept \/ LoadDec \/ StoreDec \/ PostRecv
  \/ OnRecvClosed \/ Error64 \/ OnDisconn \/ PostAcceptIo("io")

Next == MtAcceptIo \/ DealIoImpl \/ Connect \/ HangUp

Spec == Init /\ [][Next]_vars

\* Both threads are scheduled; peers owe nothing.
FairSpec == Spec /\ WF_vars(MtAcceptIo) /\ WF_vars(DealIoImpl)

-----------------------------------------------------------------------------
TypeOK ==
  /\ m_nPostAcceptIoStat \in Int
  /\ pc \in [Threads -> {"wait", "check", "acceptEx", "loadInc", "storeInc",
                         "loadDec", "storeDec", "recv"}]
  /\ pc["accept"] \notin {"loadDec", "storeDec", "recv"}
  /\ register \in [Threads -> Int]
  /\ i \in 0 .. MAX_ACCEPT - 1
  /\ pending \in Nat /\ completed \in [Completions -> Nat]
  /\ connected \in Nat /\ backlog \in Nat /\ event \in BOOLEAN
  /\ connects \in 0 .. MaxConnects /\ refused \in 0 .. MaxRefused
  /\ stranded \in Nat /\ lostInc \in Nat /\ lostDec \in Nat
  /\ turnedAway \in BOOLEAN

\* Calls that the threads have made and not yet counted; a completion that the
\* IO thread has taken and not yet counted down.
Uncounted == (IF pc["accept"] \in {"loadInc", "storeInc"} THEN 1 ELSE 0)
             + (IF pc["io"] \in {"loadInc", "storeInc"} THEN 1 ELSE 0)
CountedStill == IF pc["io"] \in {"loadDec", "storeDec"} THEN 1 ELSE 0

\* The AcceptEx calls that no thread has taken the completion of.
Outstanding == pending + completed["accepted"] + completed["acceptReset"]

\* The counter, had no store overwritten another.
Counted == m_nPostAcceptIoStat + lostInc - lostDec

\* m_nPostAcceptIoStat differs from the outstanding AcceptEx calls by what the
\* threads have yet to count, by the calls that error 64 ended, which are never
\* counted down, and by the updates the two threads overwrote.
StatCountsAccepts == Counted + Uncounted = Outstanding + CountedStill + stranded

\* The limit of PostAcceptIo is tested before the call and counted after it, so
\* both threads may pass it at once: one call beyond the limit, and one for each
\* increment that was overwritten.
AcceptsAreBounded == Outstanding <= AcceptLimit + 1 + lostInc

\* A connection in the backlog is taken, unless the accept thread used up the
\* event while the counter was at the limit: it does not try again.
BacklogIsTaken == backlog > 0 ~> backlog = 0 \/ turnedAway

=============================================================================
