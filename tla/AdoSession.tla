------------------------------ MODULE AdoSession ------------------------------
(***************************************************************************)
(* The connections of CDBManager and the transactions that threads run on  *)
(* them.  A thread gets the connection of its thread id; two threads may   *)
(* get the same one, and nothing keeps them apart.                         *)
(*                                                                         *)
(* A connection is the ADO object behind one CAdoConnection: open for the  *)
(* client, alive for the server, in a transaction for the client, and the  *)
(* statements that the server has not committed yet.  A call of ADO is one *)
(* step.  The provider is the one that the manager connects to, which has  *)
(* no nested transactions.                                                 *)
(***************************************************************************)
EXTENDS Integers, FiniteSets

CONSTANTS Threads,        \* thread ids: multiples of 4
          Connections,    \* 200
          MaxStatements   \* bound: statements in one transaction

VARIABLES
  m_FreeDbList,   \* the connections, by their number
  server,         \* the server takes connections
  pc,             \* what each thread does
  issued,         \* history: statements of its transaction that were accepted
  stored,         \* history: those of them that are in the database for good
  result          \* history: how its last transaction ended

history == <<issued, stored, result>>
vars == <<m_FreeDbList, server, pc, history>>

Ids == 0 .. Connections - 1
Statement == [by : Threads, no : 1 .. MaxStatements]
Connection == [open : BOOLEAN, alive : BOOLEAN, trans : BOOLEAN, work : SUBSET Statement]

\* Mutant: the id itself is taken modulo the number of connections.
ConnIdUndivided(t) == t % Connections

ConnId(t) == (t \div 4) % Connections
Conn(t) == m_FreeDbList[ConnId(t)]

Closed == [open |-> FALSE, alive |-> FALSE, trans |-> FALSE, work |-> {}]
Opened == [Closed EXCEPT !.open = TRUE, !.alive = TRUE]

\* InitDBManager connects all of them; one that fails is kept all the same.
Init ==
  /\ m_FreeDbList \in [Ids -> {Closed, Opened}]
  /\ server = TRUE
  /\ pc = [t \in Threads |-> "idle"]
  /\ issued = [t \in Threads |-> 0]
  /\ stored = [t \in Threads |-> {}]
  /\ result = [t \in Threads |-> "none"]

Goto(t, from, to) == pc[t] = from /\ pc' = [pc EXCEPT ![t] = to]
Becomes(t, c) == m_FreeDbList' = [m_FreeDbList EXCEPT ![ConnId(t)] = c]

\* An ADO call that reaches the server.
Works(t) == Conn(t).open /\ Conn(t).alive

-----------------------------------------------------------------------------
(* GetDBConnnection: a probe, and Open when it returns NULL                *)

CallGet(t) == Goto(t, "idle", "probe") /\ UNCHANGED <<m_FreeDbList, server, history>>

Probe(t) ==
  /\ Goto(t, "probe", IF Works(t) THEN "ready" ELSE "close")
  /\ UNCHANGED <<m_FreeDbList, server, history>>

\* Mutant: the old connection is not closed.
CloseNothing(t) ==
  Goto(t, "close", "open") /\ UNCHANGED <<m_FreeDbList, server, history>>

\* if (IsOpen()) Close(): an open transaction is rolled back, or makes ADO
\* raise an error, which is caught.
CloseOld(t) ==
  /\ Goto(t, "close", "open")
  /\ \/ Becomes(t, Closed)
     \/ Conn(t).trans /\ Conn(t).open /\ UNCHANGED m_FreeDbList
  /\ UNCHANGED <<server, history>>

\* The object is opened again, unless it is open or the server is away.
Open(t) ==
  IF server /\ ~Conn(t).open
  THEN Goto(t, "open", "ready") /\ Becomes(t, Opened) /\ UNCHANGED <<server, history>>
  ELSE Goto(t, "open", "idle") /\ UNCHANGED <<m_FreeDbList, server, history>>

-----------------------------------------------------------------------------
(* A transaction, by a caller that gives up when a call fails              *)

\* BeginTrans returns -1 in a transaction and on a connection that is dead.
BeginTrans(t) ==
  IF Works(t) /\ ~Conn(t).trans
  THEN /\ Goto(t, "ready", "trans")
       /\ Becomes(t, [Conn(t) EXCEPT !.trans = TRUE])
       /\ issued' = [issued EXCEPT ![t] = 0]
       /\ stored' = [stored EXCEPT ![t] = {}]
       /\ result' = [result EXCEPT ![t] = "none"]
       /\ UNCHANGED server
  ELSE Goto(t, "ready", "idle") /\ UNCHANGED <<m_FreeDbList, server, history>>

\* Execute, ExecuteEx, or Execute of a CAdoCommand, which throws when it
\* fails.  Outside a transaction the server commits at once.
Execute(t) ==
  LET s == [by |-> t, no |-> issued[t] + 1]
  IN  /\ issued[t] < MaxStatements /\ Works(t)
      /\ Goto(t, "trans", "trans")
      /\ issued' = [issued EXCEPT ![t] = @ + 1]
      /\ IF Conn(t).trans
         THEN Becomes(t, [Conn(t) EXCEPT !.work = @ \cup {s}]) /\ UNCHANGED stored
         ELSE stored' = [stored EXCEPT ![t] = @ \cup {s.no}] /\ UNCHANGED m_FreeDbList
      /\ UNCHANGED <<server, result>>

\* The statement is refused, or does not arrive.
ExecuteFails(t) ==
  Goto(t, "trans", "failed") /\ UNCHANGED <<m_FreeDbList, server, history>>

\* The statements the connection holds are in the database.
Store(t) ==
  stored' = [u \in Threads |-> stored[u] \cup {s.no : s \in {w \in Conn(t).work : w.by = u}}]

End(t, from, how) ==
  /\ Goto(t, from, "ready")
  /\ result' = [result EXCEPT ![t] = how]
  /\ UNCHANGED <<server, issued>>

CommitTrans(t) ==
  /\ Works(t) /\ Conn(t).trans
  /\ Store(t)
  /\ Becomes(t, [Conn(t) EXCEPT !.trans = FALSE, !.work = {}])
  /\ End(t, "trans", "committed")

\* The connection breaks when the server has committed and not yet said so.
CommitUnheard(t) ==
  /\ Works(t) /\ Conn(t).trans
  /\ Store(t)
  /\ \E trans \in BOOLEAN :
       Becomes(t, [Conn(t) EXCEPT !.trans = trans, !.alive = FALSE, !.work = {}])
  /\ End(t, "trans", "failed")

\* Without a connection or without a transaction: an error.
CommitFails(t) ==
  /\ ~(Works(t) /\ Conn(t).trans)
  /\ \E trans \in {FALSE, Conn(t).trans} : Becomes(t, [Conn(t) EXCEPT !.trans = trans])
  /\ End(t, "trans", "failed")
  /\ UNCHANGED stored

RollbackTrans(t) ==
  /\ IF Works(t) THEN Becomes(t, [Conn(t) EXCEPT !.trans = FALSE, !.work = {}])
     ELSE \E trans \in {FALSE, Conn(t).trans} : Becomes(t, [Conn(t) EXCEPT !.trans = trans])
  /\ End(t, "failed", "rolled back")
  /\ UNCHANGED stored

-----------------------------------------------------------------------------
(* The server and the network                                              *)

Break(i) ==
  /\ m_FreeDbList[i].alive
  /\ m_FreeDbList' = [m_FreeDbList EXCEPT ![i].alive = FALSE, ![i].work = {}]
  /\ UNCHANGED <<server, pc, history>>

Serve == server' = ~server /\ UNCHANGED <<m_FreeDbList, pc, history>>

Get(t) == Probe(t) \/ CloseOld(t) \/ Open(t)
Transact(t) ==
  \/ BeginTrans(t) \/ Execute(t) \/ ExecuteFails(t)
  \/ CommitTrans(t) \/ CommitUnheard(t) \/ CommitFails(t) \/ RollbackTrans(t)

Next ==
  \/ \E t \in Threads : CallGet(t) \/ Get(t) \/ Transact(t)
  \/ \E i \in Ids : Break(i)
  \/ Serve

\* A call of GetDBConnnection that has begun goes on.
Spec == Init /\ [][Next]_vars
FairSpec == Spec /\ \A t \in Threads : WF_vars(Get(t))

-----------------------------------------------------------------------------
TypeOK ==
  /\ m_FreeDbList \in [Ids -> Connection]
  /\ server \in BOOLEAN
  /\ pc \in [Threads -> {"idle", "probe", "close", "open", "ready", "trans", "failed"}]
  /\ issued \in [Threads -> 0 .. MaxStatements]
  /\ stored \in [Threads -> SUBSET (1 .. MaxStatements)]
  /\ result \in [Threads -> {"none", "committed", "failed", "rolled back"}]

\* No other thread is given the connection of t.
Alone(t) == \A u \in Threads \ {t} : (u \div 4) % Connections # (t \div 4) % Connections

\* The statements of a transaction reach the database together when it is
\* committed, or never, whenever the connection breaks and is opened again:
\* for a thread that shares its connection with no other and gets it before
\* its transaction.
AllOrNothing ==
  \A t \in Threads : Alone(t) =>
    /\ pc[t] \in {"trans", "failed"} => stored[t] = {}
    /\ stored[t] \in {{}, 1 .. issued[t]}
    /\ result[t] = "committed" => stored[t] = 1 .. issued[t]
    /\ result[t] = "rolled back" => stored[t] = {}

\* A thread that asks for its connection gets one that works, however often
\* the old one broke, unless the server is away or ADO holds on to a
\* transaction that nobody can end.
ConnectionComesBack ==
  \A t \in Threads : Alone(t) =>
    (pc[t] = "probe" ~> (pc[t] = "ready" \/ ~server \/ Conn(t).trans))

=============================================================================
