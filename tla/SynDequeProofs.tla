---------------------------- MODULE SynDequeProofs ----------------------------
(***************************************************************************)
(* The two users of SynDeque.  First ClientMailbox: that a client has one  *)
(* worker at a time, stays deaf once it is deaf, and gets its messages in  *)
(* order; for any clients, threads, and room for tasks, and any number of  *)
(* messages.  Then SysLog: that the lines of a thread get to the files in  *)
(* order, and that rotation takes the oldest file and lets the files grow  *)
(* by no more than the removals that fail; for any threads, configuration, *)
(* lines and seconds.                                                      *)
(***************************************************************************)
EXTENDS ClientMailbox, MCSysLog, SequenceTheorems, FiniteSetTheorems, WellFoundedInduction, TLAPS

-----------------------------------------------------------------------------
(* The mailbox                                                             *)

Rec == [pc : Pcs, client : Clients \cup {NULL}, msg : 1 .. MaxMsgs \cup {NULL}]

AtRest(t) == thread[t].pc = "idle" /\ ClientOf(t) = NULL

\* The threads keep to their own parts of the program: the dispatcher and the
\* pool to the clients of the server, the manager's thread to the others.
Places ==
  /\ \/ AtRest(Dispatcher) /\ thread[Dispatcher].msg = NULL
     \/ /\ thread[Dispatcher].pc \in {"check", "add", "activate", "push"}
        /\ ClientOf(Dispatcher) \in Served /\ thread[Dispatcher].msg \in 1 .. MaxMsgs
  /\ \/ AtRest(Manager)
     \/ /\ thread[Manager].pc \in {"run", "wait", "pop", "process", "clear"}
        /\ ClientOf(Manager) \in Clients \ Served
  /\ \A t \in PoolThreads :
       \/ AtRest(t)
       \/ /\ thread[t].pc \in {"expired", "lock", "run", "wait", "pop", "process", "clear", "crashed"}
          /\ ClientOf(t) \in Served

For(x, pc) == At(Dispatcher, pc) /\ ClientOf(Dispatcher) = x

\* A client has one task, or one worker, or neither.
Single(x) ==
  /\ \A i, j \in Tasks(x) : i = j
  /\ \A t, u \in Workers(x) : t = u
  /\ Tasks(x) = {} \/ Workers(x) = {}

\* Who has one is taken for active, or is about to be; who is about to get a
\* task has none and is not taken for active.
Known(x) ==
  /\ Tasks(x) # {} \/ Workers(x) # {} => m_bActive[x] \/ For(x, "activate")
  /\ For(x, "add") => Tasks(x) = {} /\ Workers(x) = {} /\ ~m_bActive[x]

Control(x) == Single(x) /\ Known(x)

Deque(x) == m_MsgQueue[x].m_deque

\* The event tells whether there is a message; only clients of the server get
\* any in their mailboxes; who has seen the event finds a message.
Mail ==
  /\ \A x \in Clients : m_MsgQueue[x].m_hevent <=> Deque(x) # <<>>
  /\ \A x \in Clients \ Served : Deque(x) = <<>>
  /\ \A t \in Threads : /\ At(t, "pop") => Deque(ClientOf(t)) # <<>>
                        /\ At(t, "process") => thread[t].msg \in 1 .. MaxMsgs

\* The inductive invariant.
CInv == TypeOK /\ Places /\ Mail /\ \A x \in Served : Control(x)

-----------------------------------------------------------------------------
(* Steps of one thread                                                     *)

Moved(t, pc, c, m) ==
  /\ thread' \in [Threads -> Rec]
  /\ thread'[t].pc = pc /\ thread'[t].client = c /\ thread'[t].msg = m
  /\ \A u \in Threads \ {t} : thread'[u] = thread[u]

LEMMA RecMoves ==
  ASSUME TypeOK, NEW t \in Threads, NEW r \in Rec, thread' = [thread EXCEPT ![t] = r]
  PROVE  Moved(t, r.pc, r.client, r.msg)
BY DEF TypeOK, Rec, Moved

LEMMA IdleRec == Idle \in Rec /\ Idle.pc = "idle" /\ Idle.client = NULL /\ Idle.msg = NULL
BY DEF Idle, Rec, Pcs

LEMMA ThreadRec == ASSUME TypeOK, NEW t \in Threads PROVE thread[t] \in Rec
BY DEF TypeOK, Rec

LEMMA ReturnMoves ==
  ASSUME TypeOK, NEW t \in Threads, Return(t)
  PROVE  Moved(t, "idle", NULL, NULL)
BY IdleRec, RecMoves DEF Return

LEMMA GotoMoves ==
  ASSUME TypeOK, NEW t \in Threads, NEW pc \in Pcs, Goto(t, pc)
  PROVE  Moved(t, pc, ClientOf(t), thread[t].msg)
<1>1. thread[t] \in Rec
  BY ThreadRec
<1> DEFINE r == [thread[t] EXCEPT !.pc = pc]
<1>2. r \in Rec /\ r.pc = pc /\ r.client = thread[t].client /\ r.msg = thread[t].msg
  BY <1>1 DEF Rec
<1>3. thread' = [thread EXCEPT ![t] = r]
  BY DEF Goto
<1> HIDE DEF r
<1> QED
  BY <1>2, <1>3, RecMoves DEF ClientOf

LEMMA PcMsgMoves ==
  ASSUME TypeOK, NEW t \in Threads, NEW pc \in Pcs, NEW m \in 1 .. MaxMsgs \cup {NULL},
         thread' = [thread EXCEPT ![t] = [@ EXCEPT !.pc = pc, !.msg = m]]
  PROVE  Moved(t, pc, ClientOf(t), m)
<1>1. thread[t] \in Rec
  BY ThreadRec
<1> DEFINE r == [thread[t] EXCEPT !.pc = pc, !.msg = m]
<1>2. r \in Rec /\ r.pc = pc /\ r.client = thread[t].client /\ r.msg = m
  BY <1>1 DEF Rec
<1>3. thread' = [thread EXCEPT ![t] = r]
  OBVIOUS
<1> HIDE DEF r
<1> QED
  BY <1>2, <1>3, RecMoves DEF ClientOf

\* Which threads are which.
LEMMA Roles ==
  /\ Dispatcher \in Threads /\ Manager \in Threads /\ Dispatcher # Manager
  /\ \A t \in PoolThreads : t \in Threads /\ t # Dispatcher /\ t # Manager
  /\ Served \subseteq Clients /\ NULL \notin Clients
BY MailboxAssumption DEF Threads

\* A step of the dispatcher, of the manager's thread, or of a pool thread keeps
\* the places when it goes to one of its own.
LEMMA DispatcherPlaces ==
  ASSUME Places, NEW pc, NEW c, NEW m, Moved(Dispatcher, pc, c, m),
         \/ pc = "idle" /\ c = NULL /\ m = NULL
         \/ pc \in {"check", "add", "activate", "push"} /\ c \in Served /\ m \in 1 .. MaxMsgs
  PROVE  Places'
BY Roles DEF Places, Moved, AtRest, ClientOf

LEMMA ManagerPlaces ==
  ASSUME Places, NEW pc, NEW c, NEW m, Moved(Manager, pc, c, m),
         \/ pc = "idle" /\ c = NULL
         \/ pc \in {"run", "wait", "pop", "process", "clear"} /\ c \in Clients \ Served
  PROVE  Places'
BY Roles DEF Places, Moved, AtRest, ClientOf

LEMMA PoolPlaces ==
  ASSUME Places, NEW t \in PoolThreads, NEW pc, NEW c, NEW m, Moved(t, pc, c, m),
         \/ pc = "idle" /\ c = NULL
         \/ /\ pc \in {"expired", "lock", "run", "wait", "pop", "process", "clear", "crashed"}
            /\ c \in Served
  PROVE  Places'
BY Roles DEF Places, Moved, AtRest, ClientOf

-----------------------------------------------------------------------------
(* What the steps do to the workers and the tasks of a client              *)

LEMMA OthersKeepWorkers ==
  ASSUME NEW t \in {Dispatcher, Manager}, NEW pc, NEW c, NEW m, Moved(t, pc, c, m), NEW x
  PROVE  Workers(x)' = Workers(x)
BY Roles DEF Moved, Workers, ClientOf

LEMMA OthersKeepFor ==
  ASSUME NEW t \in Threads \ {Dispatcher}, NEW pc, NEW c, NEW m, Moved(t, pc, c, m),
         NEW x, NEW p
  PROVE  For(x, p)' <=> For(x, p)
BY Roles DEF Moved, For, At, ClientOf

LEMMA PoolWorkers ==
  ASSUME NEW t \in PoolThreads, NEW pc, NEW c, NEW m, Moved(t, pc, c, m), NEW x
  PROVE  Workers(x)' = IF c = x /\ pc # "crashed" THEN Workers(x) \cup {t} ELSE Workers(x) \ {t}
BY Roles DEF Moved, Workers, ClientOf

\* A pool thread that runs on for its client, or leaves it, keeps control.
LEMMA PoolControl ==
  ASSUME NEW t \in PoolThreads, NEW pc, NEW c, NEW m, Moved(t, pc, c, m),
         thread[t].pc # "crashed", c \in {ClientOf(t), NULL},
         UNCHANGED <<m_TaskList, m_bActive>>, NEW x \in Served, Control(x)
  PROVE  Control(x)'
<1>1. x # NULL
  BY Roles
<1>2. Workers(x)' \subseteq Workers(x)
  BY <1>1, PoolWorkers DEF Workers
<1>3. Tasks(x)' = Tasks(x) /\ m_bActive' = m_bActive
  BY DEF Tasks
<1>4. (For(x, "add")' <=> For(x, "add")) /\ (For(x, "activate")' <=> For(x, "activate"))
  BY Roles, OthersKeepFor
<1>5. Single(x)'
  BY <1>2, <1>3 DEF Control, Single
<1>6. Known(x)'
  BY <1>2, <1>3, <1>4 DEF Control, Known
<1> QED
  BY <1>5, <1>6 DEF Control

LEMMA ManagerControl ==
  ASSUME NEW pc, NEW c, NEW m, Moved(Manager, pc, c, m),
         UNCHANGED m_TaskList, NEW x \in Served, m_bActive'[x] = m_bActive[x], Control(x)
  PROVE  Control(x)'
<1>1. Workers(x)' = Workers(x) /\ Tasks(x)' = Tasks(x)
  BY OthersKeepWorkers DEF Tasks
<1>2. (For(x, "add")' <=> For(x, "add")) /\ (For(x, "activate")' <=> For(x, "activate"))
  BY Roles, OthersKeepFor
<1>3. Single(x)'
  BY <1>1 DEF Control, Single
<1>4. Known(x)'
  BY <1>1, <1>2 DEF Control, Known
<1> QED
  BY <1>3, <1>4 DEF Control

LEMMA DispatcherFor ==
  ASSUME NEW pc, NEW c, NEW m, Moved(Dispatcher, pc, c, m), NEW x, NEW p
  PROVE  For(x, p)' <=> (pc = p /\ c = x)
BY DEF Moved, For, At, ClientOf

\* The dispatcher keeps control when it goes where it neither adds a task nor
\* has added one.
LEMMA DispatcherControl ==
  ASSUME NEW pc, NEW c, NEW m, Moved(Dispatcher, pc, c, m), pc \notin {"add", "activate"},
         UNCHANGED <<m_TaskList, m_bActive>>, NEW x \in Served, ~For(x, "activate"), Control(x)
  PROVE  Control(x)'
<1>1. Workers(x)' = Workers(x) /\ Tasks(x)' = Tasks(x) /\ m_bActive' = m_bActive
  BY OthersKeepWorkers DEF Tasks
<1>2. ~For(x, "add")' /\ ~For(x, "activate")'
  BY DispatcherFor
<1>3. Single(x)'
  BY <1>1 DEF Control, Single
<1>4. Known(x)'
  BY <1>1, <1>2 DEF Control, Known
<1> QED
  BY <1>3, <1>4 DEF Control

LEMMA TasksAppend ==
  ASSUME TypeOK, NEW c \in Served, m_TaskList' = Append(m_TaskList, c), NEW x
  PROVE  Tasks(x)' = IF x = c THEN Tasks(x) \cup {Len(m_TaskList) + 1} ELSE Tasks(x)
<1>1. /\ Len(m_TaskList) \in Nat /\ Len(m_TaskList') = Len(m_TaskList) + 1
      /\ \A i \in 1 .. Len(m_TaskList) : m_TaskList'[i] = m_TaskList[i]
      /\ m_TaskList'[Len(m_TaskList) + 1] = c
  BY DEF TypeOK
<1> QED
  BY <1>1 DEF Tasks

LEMMA TasksTail ==
  ASSUME TypeOK, m_TaskList # <<>>, m_TaskList' = Tail(m_TaskList), NEW x
  PROVE  \A i : i \in Tasks(x)' <=> i \in Nat \ {0} /\ i + 1 \in Tasks(x)
<1>1. /\ Len(m_TaskList) \in Nat \ {0} /\ Len(m_TaskList') = Len(m_TaskList) - 1
      /\ \A i \in 1 .. Len(m_TaskList) - 1 : m_TaskList'[i] = m_TaskList[i + 1]
  BY DEF TypeOK
<1> QED
  BY <1>1 DEF Tasks

-----------------------------------------------------------------------------
(* Types and mailboxes under a step that only moves a thread               *)

LEMMA MoveTypes ==
  ASSUME TypeOK, NEW t, NEW pc, NEW c, NEW m, Moved(t, pc, c, m),
         UNCHANGED <<m_ClientList, m_MsgQueue, m_TaskList, history>>,
         m_bActive' \in [Clients -> BOOLEAN]
  PROVE  TypeOK'
BY DEF TypeOK, Moved, Rec, history

LEMMA MoveMail ==
  ASSUME Mail, NEW t, NEW pc, NEW c, NEW m, Moved(t, pc, c, m), UNCHANGED m_MsgQueue,
         pc = "pop" => Deque(c) # <<>>, pc = "process" => m \in 1 .. MaxMsgs
  PROVE  Mail'
BY DEF Mail, Moved, Deque, At, ClientOf

\* Where the dispatcher is, it has a client and a message.
LEMMA DispatcherHas ==
  ASSUME Places, NEW pc \in {"check", "add", "activate", "push"}, At(Dispatcher, pc)
  PROVE  ClientOf(Dispatcher) \in Served /\ thread[Dispatcher].msg \in 1 .. MaxMsgs
BY DEF Places, At, AtRest

LEMMA PushMoves ==
  ASSUME TypeOK, NEW c \in Clients, NEW m \in 1 .. MaxMsgs, NEW event \in BOOLEAN,
         m_MsgQueue' = [m_MsgQueue EXCEPT
           ![c] = [m_deque |-> Append(m_MsgQueue[c].m_deque, m), m_hevent |-> event]]
  PROVE  /\ m_MsgQueue' \in [Clients -> [m_deque : Seq(1 .. MaxMsgs), m_hevent : BOOLEAN]]
         /\ Deque(c)' = Append(Deque(c), m) /\ m_MsgQueue'[c].m_hevent = event
         /\ \A x \in Clients \ {c} : m_MsgQueue'[x] = m_MsgQueue[x]
<1> DEFINE q == [m_deque |-> Append(m_MsgQueue[c].m_deque, m), m_hevent |-> event]
<1>1. Append(m_MsgQueue[c].m_deque, m) \in Seq(1 .. MaxMsgs)
  BY DEF TypeOK
<1>2. /\ q \in [m_deque : Seq(1 .. MaxMsgs), m_hevent : BOOLEAN]
      /\ q.m_deque = Append(m_MsgQueue[c].m_deque, m) /\ q.m_hevent = event
  BY <1>1
<1>3. m_MsgQueue' = [m_MsgQueue EXCEPT ![c] = q]
  OBVIOUS
<1> HIDE DEF q
<1> QED
  BY <1>2, <1>3 DEF TypeOK, Deque

-----------------------------------------------------------------------------
(* The actions, one by one                                                 *)

LEMMA InitHolds == Init => CInv
<1> SUFFICES ASSUME Init PROVE CInv
  OBVIOUS
<1>1. TypeOK
  <2>1. thread \in [Threads -> Rec]
    BY IdleRec DEF Init
  <2>2. Rec = [pc : Pcs, client : Clients \cup {NULL}, msg : 1 .. MaxMsgs \cup {NULL}]
    BY DEF Rec
  <2>3. CreateQueue \in [m_deque : Seq(1 .. MaxMsgs), m_hevent : BOOLEAN]
    BY DEF CreateQueue
  <2>4. m_TaskList \in Seq(Served) /\ Len(m_TaskList) <= TaskRoom
    BY MailboxAssumption DEF Init
  <2>5. 0 \in 0 .. MaxMsgs
    BY MailboxAssumption
  <2> QED
    BY <2>1, <2>2, <2>3, <2>4, <2>5 DEF Init, TypeOK
<1>2. \A t \in Threads : thread[t] = Idle
  BY DEF Init
<1>3. Places
  BY <1>2, IdleRec, Roles DEF Places, AtRest, ClientOf
<1>4. Mail
  BY <1>2, IdleRec DEF Init, Mail, Deque, CreateQueue, At
<1>5. ASSUME NEW x \in Served PROVE Control(x)
  <2>1. Tasks(x) = {}
    BY DEF Tasks, Init
  <2>2. Workers(x) = {}
    BY <1>2, <1>5, IdleRec, Roles DEF Workers, ClientOf
  <2>3. ~For(x, "add")
    BY <1>2, IdleRec, Roles DEF For, At
  <2> QED
    BY <2>1, <2>2, <2>3 DEF Control, Single, Known
<1> QED
  BY <1>1, <1>3, <1>4, <1>5 DEF CInv

LEMMA GroupPackageKeeps ==
  ASSUME CInv, NEW c \in Clients, GroupPackage(c)
  PROVE  CInv'
<1> DEFINE d == DispatcherOf(c)
           r == [pc |-> IF c \in Served THEN "check" ELSE "run",
                 client |-> c, msg |-> received[c] + 1]
<1> USE DEF CInv
<1>1. received[c] + 1 \in 1 .. MaxMsgs
  BY MailboxAssumption DEF GroupPackage, TypeOK
<1>2. r \in Rec
  BY <1>1 DEF Rec, Pcs
<1>3. d \in {Dispatcher, Manager} /\ d \in Threads
  BY Roles DEF DispatcherOf
<1>4. thread' = [thread EXCEPT ![d] = r]
  BY DEF GroupPackage
<1>5. Moved(d, r.pc, c, received[c] + 1)
  <2> HIDE DEF d
  <2>1. r.client = c /\ r.msg = received[c] + 1
    OBVIOUS
  <2> HIDE DEF r
  <2> QED
    BY <1>2, <1>3, <1>4, <2>1, RecMoves
<1>6. r.pc = IF c \in Served THEN "check" ELSE "run"
  OBVIOUS
<1>7. UNCHANGED <<m_ClientList, m_MsgQueue, m_bActive, m_TaskList, processed>>
      /\ received' = [received EXCEPT ![c] = received[c] + 1] /\ At(d, "idle")
  BY DEF GroupPackage
<1> HIDE DEF r, d
<1>8. TypeOK'
  <2>1. received' \in [Clients -> 0 .. MaxMsgs]
    BY <1>1, <1>7 DEF TypeOK
  <2> QED
    BY <2>1, <1>5, <1>7 DEF TypeOK, Moved, Rec
<1>9. Mail'
  BY <1>5, <1>6, <1>7, MoveMail
<1>10. Places' /\ \A x \in Served : Control(x)'
  <2>1. CASE c \in Served
    <3>1. d = Dispatcher /\ r.pc = "check"
      BY <2>1, <1>6 DEF d, DispatcherOf
    <3>2. Places'
      BY <3>1, <2>1, <1>1, <1>5, DispatcherPlaces
    <3>3. ASSUME NEW x \in Served PROVE Control(x)'
      <4>1. ~For(x, "activate")
        BY <1>7, <3>1 DEF For, At
      <4> QED
        BY <4>1, <3>1, <1>5, <1>7, DispatcherControl
    <3> QED
      BY <3>2, <3>3
  <2>2. CASE c \notin Served
    <3>1. d = Manager /\ r.pc = "run"
      BY <2>2, <1>6 DEF d, DispatcherOf
    <3>2. Places'
      BY <3>1, <2>2, <1>5, ManagerPlaces
    <3>3. ASSUME NEW x \in Served PROVE Control(x)'
      BY <3>1, <1>5, <1>7, ManagerControl
    <3> QED
      BY <3>2, <3>3
  <2> QED
    BY <2>1, <2>2
<1> QED
  BY <1>8, <1>9, <1>10

LEMMA CheckActiveKeeps == CInv /\ CheckActive => CInv'
<1> SUFFICES ASSUME CInv, CheckActive PROVE CInv'
  OBVIOUS
<1> USE DEF CInv
<1> DEFINE c == ClientOf(Dispatcher)
           pc == IF m_bActive[c] THEN "push" ELSE "add"
<1>1. c \in Served /\ thread[Dispatcher].msg \in 1 .. MaxMsgs
  BY DispatcherHas DEF CheckActive
<1>2. Moved(Dispatcher, pc, c, thread[Dispatcher].msg)
  BY Roles, GotoMoves DEF CheckActive, Pcs
<1>3. UNCHANGED <<m_ClientList, m_MsgQueue, m_bActive, m_TaskList, history>>
  BY DEF CheckActive
<1>4. \/ m_bActive[c] /\ pc = "push"
      \/ ~m_bActive[c] /\ pc = "add"
  OBVIOUS
<1> HIDE DEF pc
<1>5. TypeOK'
  BY <1>2, <1>3, MoveTypes DEF TypeOK
<1>6. Places'
  BY <1>1, <1>2, <1>4, DispatcherPlaces
<1>7. Mail'
  BY <1>2, <1>3, <1>4, MoveMail
<1>8. ASSUME NEW x \in Served PROVE Control(x)'
  <2>1. Workers(x)' = Workers(x) /\ Tasks(x)' = Tasks(x) /\ m_bActive' = m_bActive
    BY <1>2, <1>3, OthersKeepWorkers DEF Tasks
  <2>2. ~For(x, "activate") /\ ~For(x, "activate")' /\ (For(x, "add")' => x = c /\ ~m_bActive[x])
    BY <1>2, <1>4, DispatcherFor DEF CheckActive, For, At
  <2>3. Single(x)'
    BY <2>1 DEF Control, Single
  <2>4. Known(x)'
    BY <2>1, <2>2 DEF Control, Known
  <2> QED
    BY <2>3, <2>4 DEF Control
<1> QED
  BY <1>5, <1>6, <1>7, <1>8

LEMMA AddTaskKeeps == CInv /\ AddTask => CInv'
<1> SUFFICES ASSUME CInv, AddTask PROVE CInv'
  OBVIOUS
<1> USE DEF CInv
<1> DEFINE c == ClientOf(Dispatcher)
<1>1. c \in Served /\ thread[Dispatcher].msg \in 1 .. MaxMsgs /\ For(c, "add")
  BY DispatcherHas DEF AddTask, For
<1>2. Moved(Dispatcher, "activate", c, thread[Dispatcher].msg)
  BY Roles, GotoMoves DEF AddTask, Pcs
<1>3. UNCHANGED <<m_ClientList, m_MsgQueue, m_bActive, history>>
  BY DEF AddTask
<1>4. \/ Len(m_TaskList) < TaskRoom /\ m_TaskList' = Append(m_TaskList, c)
      \/ m_TaskList' = m_TaskList
  BY DEF AddTask
<1>5. TypeOK'
  <2>1. m_TaskList \in Seq(Served) /\ Len(m_TaskList) \in Nat /\ Len(m_TaskList) <= TaskRoom
    BY DEF TypeOK
  <2>2. TaskRoom \in Nat
    BY MailboxAssumption
  <2>3. m_TaskList' \in Seq(Served) /\ Len(m_TaskList') <= TaskRoom
    <3>1. CASE Len(m_TaskList) < TaskRoom /\ m_TaskList' = Append(m_TaskList, c)
      <4> HIDE DEF CInv, c
      <4>1. m_TaskList' \in Seq(Served) /\ Len(m_TaskList') = Len(m_TaskList) + 1
        BY <1>1, <2>1, <3>1
      <4> QED
        BY <2>1, <2>2, <3>1, <4>1
    <3>2. CASE m_TaskList' = m_TaskList
      BY <2>1, <3>2
    <3> QED
      BY <1>4, <3>1, <3>2
  <2> QED
    BY <2>3, <1>2, <1>3 DEF TypeOK, Moved, Rec, history
<1>6. Places'
  BY <1>1, <1>2, DispatcherPlaces
<1>7. Mail'
  BY <1>2, <1>3, MoveMail
<1>8. ASSUME NEW x \in Served PROVE Control(x)'
  <2>1. Workers(x)' = Workers(x) /\ m_bActive' = m_bActive
    BY <1>2, <1>3, OthersKeepWorkers
  <2>2. ~For(x, "add")' /\ (For(x, "activate")' <=> x = c) /\ ~For(x, "activate")
    BY <1>2, DispatcherFor DEF AddTask, For, At
  <2>3. \/ Tasks(x)' = Tasks(x)
        \/ x = c /\ Tasks(x)' = Tasks(x) \cup {Len(m_TaskList) + 1}
    BY <1>1, <1>4, TasksAppend DEF Tasks
  <2>4. x = c => Tasks(x) = {} /\ Workers(x) = {}
    BY <1>1 DEF Control, Known
  <2>5. Single(x)'
    BY <2>1, <2>3, <2>4 DEF Control, Single
  <2>6. Known(x)'
    BY <2>1, <2>2, <2>3, <2>4 DEF Control, Known
  <2> QED
    BY <2>5, <2>6 DEF Control
<1> QED
  BY <1>5, <1>6, <1>7, <1>8

LEMMA SetActiveKeeps == CInv /\ SetActive => CInv'
<1> SUFFICES ASSUME CInv, SetActive PROVE CInv'
  OBVIOUS
<1> USE DEF CInv
<1> DEFINE c == ClientOf(Dispatcher)
<1>1. c \in Served /\ thread[Dispatcher].msg \in 1 .. MaxMsgs
  BY DispatcherHas DEF SetActive
<1>2. Moved(Dispatcher, "push", c, thread[Dispatcher].msg)
  BY Roles, GotoMoves DEF SetActive, Pcs
<1>3. UNCHANGED <<m_ClientList, m_MsgQueue, m_TaskList, history>>
  BY DEF SetActive
<1>4. /\ m_bActive' \in [Clients -> BOOLEAN] /\ m_bActive'[c]
      /\ \A x \in Clients \ {c} : m_bActive'[x] = m_bActive[x]
  BY <1>1, Roles DEF SetActive, TypeOK
<1>5. TypeOK'
  BY <1>2, <1>3, <1>4, MoveTypes
<1>6. Places'
  BY <1>1, <1>2, DispatcherPlaces
<1>7. Mail'
  BY <1>2, <1>3, MoveMail
<1>8. ASSUME NEW x \in Served PROVE Control(x)'
  <2>1. Workers(x)' = Workers(x) /\ Tasks(x)' = Tasks(x)
    BY <1>2, <1>3, OthersKeepWorkers DEF Tasks
  <2>2. ~For(x, "add")' /\ (For(x, "activate") => x = c)
    BY <1>2, DispatcherFor DEF For
  <2>3. Single(x)'
    BY <2>1 DEF Control, Single
  <2>4. x \in Clients
    BY Roles
  <2>5. Known(x)'
    BY <2>1, <2>2, <2>4, <1>4 DEF Control, Known
  <2> QED
    BY <2>3, <2>5 DEF Control
<1> QED
  BY <1>5, <1>6, <1>7, <1>8

LEMMA PushMsgKeeps == CInv /\ PushMsg => CInv'
<1> SUFFICES ASSUME CInv, PushMsg PROVE CInv'
  OBVIOUS
<1> USE DEF CInv
<1>0. PICK c \in Served, m \in 1 .. MaxMsgs :
        c = ClientOf(Dispatcher) /\ m = thread[Dispatcher].msg
  BY DispatcherHas DEF PushMsg
<1>1. c \in Served /\ m \in 1 .. MaxMsgs /\ c \in Clients
  BY Roles
<1>2. Moved(Dispatcher, "idle", NULL, NULL)
  BY Roles, ReturnMoves DEF PushMsg
<1>3. UNCHANGED <<m_ClientList, m_bActive, m_TaskList, history>>
  BY DEF PushMsg
<1>4. /\ m_MsgQueue' \in [Clients -> [m_deque : Seq(1 .. MaxMsgs), m_hevent : BOOLEAN]]
      /\ Deque(c)' = Append(Deque(c), m) /\ m_MsgQueue'[c].m_hevent = TRUE
      /\ \A x \in Clients \ {c} : m_MsgQueue'[x] = m_MsgQueue[x]
  <2>1. m_MsgQueue' = [m_MsgQueue EXCEPT
          ![c] = [m_deque |-> Append(m_MsgQueue[c].m_deque, m), m_hevent |-> TRUE]]
    BY <1>0 DEF PushMsg, PushBack
  <2> QED
    BY <1>1, <2>1, PushMoves, Zenon
<1>5. TypeOK'
  BY <1>2, <1>3, <1>4 DEF TypeOK, Moved, Rec, history
<1>6. Places'
  BY <1>2, DispatcherPlaces
<1>7. Mail'
  <2>1. Deque(c)' # <<>>
    <3>1. Deque(c) \in Seq(1 .. MaxMsgs)
      BY <1>1 DEF TypeOK, Deque
    <3> HIDE DEF CInv
    <3>2. Append(Deque(c), m) # <<>>
      BY <3>1, <1>1
    <3> QED
      BY <3>2, <1>4
  <2>2. \A x \in Clients \ {c} : Deque(x)' = Deque(x)
    BY <1>4 DEF Deque
  <2>3. \A t \in Threads :
           /\ At(t, "pop")' => At(t, "pop") /\ ClientOf(t)' = ClientOf(t)
           /\ At(t, "process")' => At(t, "process") /\ thread'[t].msg = thread[t].msg
    BY <1>2 DEF Moved, At, ClientOf
  <2>4. \A t \in Threads : At(t, "pop") => ClientOf(t) \in Clients
    BY Roles DEF Places, At, AtRest, Threads
  <2>5. ASSUME NEW t \in Threads, At(t, "pop")' PROVE Deque(ClientOf(t))' # <<>>
    <3>1. ClientOf(t)' = ClientOf(t) /\ ClientOf(t) \in Clients /\ Deque(ClientOf(t)) # <<>>
      BY <2>3, <2>4, <2>5 DEF Mail
    <3>2. \A x \in Clients : Deque(x) # <<>> => m_MsgQueue'[x].m_deque # <<>>
      BY <2>1, <2>2 DEF Deque
    <3> QED
      BY <3>1, <3>2 DEF Deque
  <2>6. ASSUME NEW x \in Clients PROVE m_MsgQueue'[x].m_hevent <=> Deque(x)' # <<>>
    <3>1. CASE x = c
      BY <2>1, <1>4, <3>1, Zenon
    <3>2. CASE x # c
      <4>1. m_MsgQueue[x].m_hevent <=> Deque(x) # <<>>
        BY DEF Mail
      <4> QED
        BY <1>4, <2>2, <3>2, <4>1, Zenon
    <3> QED
      BY <3>1, <3>2
  <2>7. \A x \in Clients \ Served : Deque(x)' = <<>>
    BY <2>2, <1>1 DEF Mail
  <2>8. \A t \in Threads : At(t, "process")' => thread'[t].msg \in 1 .. MaxMsgs
    BY <2>3 DEF Mail
  <2> QED
    BY <2>5, <2>6, <2>7, <2>8 DEF Mail
<1>8. ASSUME NEW x \in Served PROVE Control(x)'
  <2>1. ~For(x, "activate")
    BY DEF PushMsg, For, At
  <2> QED
    BY <2>1, <1>2, <1>3, DispatcherControl
<1> QED
  BY <1>5, <1>6, <1>7, <1>8

LEMMA DelClientKeeps == ASSUME CInv, NEW c \in Clients, DelClient(c) PROVE CInv'
<1>1. UNCHANGED <<m_MsgQueue, m_bActive, m_TaskList, thread, history>>
      /\ m_ClientList' = m_ClientList \ {c}
  BY DEF DelClient
<1>2. TypeOK'
  BY <1>1 DEF CInv, TypeOK, history
<1>3. Places' /\ Mail'
  BY <1>1 DEF CInv, Places, Mail, AtRest, ClientOf, At, Deque
<1>4. ASSUME NEW x \in Served PROVE Control(x)'
  BY <1>1 DEF CInv, Control, Single, Known, Tasks, Workers, For, At, ClientOf
<1> QED
  BY <1>2, <1>3, <1>4 DEF CInv

-----------------------------------------------------------------------------
(* The steps of a pool thread with a task, and of a thread that runs a     *)
(* client                                                                  *)

LEMMA TakeTaskKeeps == ASSUME CInv, NEW t \in PoolThreads, TakeTask(t) PROVE CInv'
<1> USE DEF CInv
<1>0. PICK c \in Served : c = Head(m_TaskList) /\ 1 \in Tasks(c)
  <2>1. m_TaskList # <<>> /\ m_TaskList \in Seq(Served)
    BY DEF TakeTask, TypeOK
  <2> HIDE DEF CInv
  <2>2. /\ Head(m_TaskList) \in Served /\ Head(m_TaskList) = m_TaskList[1]
        /\ 1 \in 1 .. Len(m_TaskList)
    BY <2>1
  <2> QED
    BY <2>2 DEF Tasks
<1>1. Moved(t, "expired", c, NULL)
  <2> DEFINE r == [pc |-> "expired", client |-> c, msg |-> NULL]
  <2>1. r \in Rec /\ r.pc = "expired" /\ r.client = c /\ r.msg = NULL
    BY <1>0, Roles DEF Rec, Pcs
  <2>2. thread' = [thread EXCEPT ![t] = r]
    BY <1>0 DEF TakeTask
  <2> HIDE DEF r
  <2> QED
    BY <2>1, <2>2, Roles, RecMoves
<1>2. /\ UNCHANGED <<m_ClientList, m_MsgQueue, m_bActive, history>>
      /\ m_TaskList # <<>> /\ m_TaskList' = Tail(m_TaskList) /\ At(t, "idle")
  BY DEF TakeTask
<1>3. TypeOK'
  <2>1. m_TaskList' \in Seq(Served) /\ Len(m_TaskList') <= TaskRoom
    <3>1. /\ m_TaskList \in Seq(Served) /\ Len(m_TaskList) \in Nat
          /\ Len(m_TaskList) <= TaskRoom /\ TaskRoom \in Nat
      BY MailboxAssumption DEF TypeOK
    <3> HIDE DEF CInv
    <3>2. m_TaskList' \in Seq(Served) /\ Len(m_TaskList') = Len(m_TaskList) - 1
      BY <1>2, <3>1
    <3> QED
      BY <3>1, <3>2
  <2> QED
    BY <2>1, <1>1, <1>2 DEF TypeOK, Moved, Rec, history
<1>4. Places'
  BY <1>1, PoolPlaces
<1>5. Mail'
  BY <1>1, <1>2, MoveMail
<1>6. ASSUME NEW x \in Served PROVE Control(x)'
  <2>1. \A i : i \in Tasks(x)' <=> i \in Nat \ {0} /\ i + 1 \in Tasks(x)
    BY <1>2, TasksTail
  <2>2. For(x, "add")' <=> For(x, "add")
    BY <1>1, Roles, OthersKeepFor
  <2>3. For(x, "activate")' <=> For(x, "activate")
    BY <1>1, Roles, OthersKeepFor
  <2>4. CASE x = c
    <3>1. Tasks(x) = {1} /\ Workers(x) = {}
      BY <1>0, <2>4 DEF Control, Single
    <3>2. Tasks(x)' = {}
      BY <2>1, <3>1
    <3>3. Workers(x)' = {t}
      BY <1>1, <2>4, <3>1, PoolWorkers
    <3>4. Single(x)'
      BY <3>2, <3>3 DEF Single
    <3>5. Known(x)'
      BY <3>1, <2>2, <2>3, <1>2 DEF Control, Known
    <3> QED
      BY <3>4, <3>5 DEF Control
  <2>5. CASE x # c
    <3>1. Workers(x)' = Workers(x)
      <4>1. t \notin Workers(x)
        BY <1>2, Roles DEF Workers, Places, At, AtRest
      <4> QED
        BY <4>1, <1>1, <2>5, PoolWorkers
    <3>2. Tasks(x) = {} => Tasks(x)' = {}
      BY <2>1
    <3>3. \A i, j \in Tasks(x)' : i = j
      <4>1. ASSUME NEW i, NEW j, i \in Tasks(x)', j \in Tasks(x)' PROVE i = j
        <5>1. i \in Nat /\ j \in Nat /\ i + 1 \in Tasks(x) /\ j + 1 \in Tasks(x)
          BY <2>1, <4>1
        <5>2. i + 1 = j + 1
          BY <5>1 DEF Control, Single
        <5> QED
          BY <5>1, <5>2
      <4> QED
        BY <4>1
    <3>4. Single(x)'
      BY <3>1, <3>2, <3>3 DEF Control, Single
    <3>5. Known(x)'
      BY <3>1, <3>2, <2>2, <2>3, <1>2 DEF Control, Known
    <3> QED
      BY <3>4, <3>5 DEF Control
  <2> QED
    BY <2>4, <2>5
<1> QED
  BY <1>3, <1>4, <1>5, <1>6

\* A step of a thread that runs on for its client or leaves it.
LEMMA RunnerKeeps ==
  ASSUME CInv, NEW t \in PoolThreads \cup {Manager},
         thread[t].pc \in {"expired", "lock", "run", "wait", "pop", "process", "clear"},
         NEW pc, NEW c, NEW m, Moved(t, pc, c, m),
         \/ pc = "idle" /\ c = NULL
         \/ pc \in {"run", "wait", "pop", "process", "clear"} /\ c = ClientOf(t)
         \/ pc \in {"lock", "crashed"} /\ c = ClientOf(t) /\ t # Manager
  PROVE  /\ Places'
         /\ UNCHANGED <<m_TaskList, m_bActive>> => \A x \in Served : Control(x)'
<1> USE DEF CInv
<1>1. CASE t \in PoolThreads
  <2>1. ClientOf(t) \in Served
    BY <1>1 DEF Places, AtRest
  <2>2. Places'
    BY <1>1, <2>1, PoolPlaces
  <2>3. ASSUME UNCHANGED <<m_TaskList, m_bActive>>, NEW x \in Served PROVE Control(x)'
    BY <1>1, <2>3, PoolControl
  <2> QED
    BY <2>2, <2>3
<1>2. CASE t = Manager
  <2>1. ClientOf(t) \in Clients \ Served
    BY <1>2 DEF Places, AtRest
  <2>2. Places'
    BY <1>2, <2>1, ManagerPlaces
  <2>3. ASSUME UNCHANGED <<m_TaskList, m_bActive>>, NEW x \in Served PROVE Control(x)'
    BY <1>2, <2>3, ManagerControl
  <2> QED
    BY <2>2, <2>3
<1> QED
  BY <1>1, <1>2

\* The same, when it changes nothing else.
LEMMA RunnerStep ==
  ASSUME CInv, NEW t \in PoolThreads \cup {Manager},
         thread[t].pc \in {"expired", "lock", "run", "wait", "pop", "process", "clear"},
         NEW pc, NEW c, NEW m, Moved(t, pc, c, m),
         \/ pc = "idle" /\ c = NULL
         \/ pc \in {"run", "wait", "clear"} /\ c = ClientOf(t)
         \/ pc = "pop" /\ c = ClientOf(t) /\ Deque(c) # <<>>
         \/ pc \in {"lock", "crashed"} /\ c = ClientOf(t) /\ t # Manager,
         UNCHANGED <<m_ClientList, m_MsgQueue, m_bActive, m_TaskList, history>>
  PROVE  CInv'
<1>1. Places' /\ \A x \in Served : Control(x)'
  BY RunnerKeeps
<1>2. TypeOK'
  BY MoveTypes DEF CInv, TypeOK
<1>3. Mail'
  BY MoveMail DEF CInv
<1> QED
  BY <1>1, <1>2, <1>3 DEF CInv

LEMMA TestExpiredKeeps == ASSUME CInv, NEW t \in PoolThreads, TestExpired(t) PROVE CInv'
<1>1. t \in Threads /\ t # Manager /\ TypeOK
  BY Roles DEF CInv
<1>2. /\ thread[t].pc = "expired"
      /\ UNCHANGED <<m_ClientList, m_MsgQueue, m_bActive, m_TaskList, history>>
      /\ Return(t) \/ Goto(t, "lock")
  BY DEF TestExpired, At
<1>3. Moved(t, "idle", NULL, NULL) \/ Moved(t, "lock", ClientOf(t), thread[t].msg)
  BY <1>1, <1>2, ReturnMoves, GotoMoves DEF Pcs
<1> QED
  BY <1>1, <1>2, <1>3, RunnerStep

LEMMA LockTaskKeeps == ASSUME CInv, NEW t \in PoolThreads, LockTask(t) PROVE CInv'
<1>1. t \in Threads /\ t # Manager /\ TypeOK
  BY Roles DEF CInv
<1>2. /\ thread[t].pc = "lock"
      /\ UNCHANGED <<m_ClientList, m_MsgQueue, m_bActive, m_TaskList, history>>
      /\ Goto(t, "crashed") \/ Goto(t, "run")
  BY DEF LockTask, At
<1>3. \/ Moved(t, "crashed", ClientOf(t), thread[t].msg)
      \/ Moved(t, "run", ClientOf(t), thread[t].msg)
  BY <1>1, <1>2, GotoMoves DEF Pcs
<1> QED
  BY <1>1, <1>2, <1>3, RunnerStep

LEMMA RunProcessKeeps ==
  ASSUME CInv, NEW t \in PoolThreads \cup {Manager}, RunProcess(t) PROVE CInv'
<1>1. t \in Threads /\ TypeOK
  BY Roles DEF CInv
<1>2. /\ thread[t].pc = "run"
      /\ UNCHANGED <<m_ClientList, m_MsgQueue, m_bActive, m_TaskList, history>>
  BY DEF RunProcess, At
<1>3. Moved(t, "wait", ClientOf(t), NULL)
  BY <1>1, PcMsgMoves DEF RunProcess, Pcs
<1> QED
  BY <1>2, <1>3, RunnerStep

LEMMA WaitObjectKeeps ==
  ASSUME CInv, NEW t \in PoolThreads \cup {Manager}, WaitObject(t) PROVE CInv'
<1>1. t \in Threads /\ TypeOK
  BY Roles DEF CInv
<1>2. /\ thread[t].pc = "wait" /\ m_MsgQueue[ClientOf(t)].m_hevent
      /\ UNCHANGED <<m_ClientList, m_MsgQueue, m_bActive, m_TaskList, history>>
  BY DEF WaitObject, At
<1>3. Moved(t, "pop", ClientOf(t), thread[t].msg)
  BY <1>1, GotoMoves DEF WaitObject, Pcs
<1>4. ClientOf(t) \in Clients
  BY <1>2, Roles DEF CInv, Places, AtRest
<1>5. Deque(ClientOf(t)) # <<>>
  BY <1>2, <1>4 DEF CInv, Mail
<1> QED
  BY <1>2, <1>3, <1>5, RunnerStep

LEMMA WaitTimeoutKeeps ==
  ASSUME CInv, NEW t \in PoolThreads \cup {Manager}, WaitTimeout(t) PROVE CInv'
<1>1. t \in Threads /\ TypeOK
  BY Roles DEF CInv
<1>2. /\ thread[t].pc = "wait"
      /\ UNCHANGED <<m_ClientList, m_MsgQueue, m_bActive, m_TaskList, history>>
  BY DEF WaitTimeout, At
<1>3. Moved(t, "clear", ClientOf(t), thread[t].msg)
  BY <1>1, GotoMoves DEF WaitTimeout, Pcs
<1> QED
  BY <1>2, <1>3, RunnerStep

\* Who is at "pop" or has a message in its hand is the worker of a client of
\* the server, and its only one.
LEMMA PopperWorks ==
  ASSUME CInv, NEW t \in Threads, At(t, "pop")
  PROVE  /\ t \in PoolThreads /\ ClientOf(t) \in Served
         /\ t \in Workers(ClientOf(t)) /\ Deque(ClientOf(t)) # <<>>
<1>1. Deque(ClientOf(t)) # <<>>
  BY DEF CInv, Mail
<1>2. t # Dispatcher
  BY DEF CInv, Places, At, AtRest
<1>3. t # Manager
  BY <1>1 DEF CInv, Places, At, AtRest, Mail
<1>4. t \in PoolThreads
  BY <1>2, <1>3 DEF Threads
<1> QED
  BY <1>1, <1>4 DEF CInv, Places, AtRest, Workers, At

LEMMA PopMsgKeeps ==
  ASSUME CInv, NEW t \in PoolThreads \cup {Manager}, PopMsg(t) PROVE CInv'
<1>0. t \in PoolThreads /\ t \in Threads
  BY PopperWorks, Roles DEF PopMsg
<1>1. PICK c \in Served : c = ClientOf(t) /\ t \in Workers(c) /\ Deque(c) # <<>> /\ c \in Clients
  BY <1>0, PopperWorks, Roles DEF PopMsg
<1> DEFINE q == m_MsgQueue[c]
<1>2. /\ q \in [m_deque : Seq(1 .. MaxMsgs), m_hevent : BOOLEAN]
      /\ q.m_deque \in Seq(1 .. MaxMsgs) /\ q.m_deque # <<>> /\ q.m_hevent
  BY <1>1 DEF CInv, TypeOK, Mail, Deque
<1> HIDE DEF q
<1>3. PICK m \in 1 .. MaxMsgs : m = Head(q.m_deque)
  <2>1. Head(q.m_deque) \in 1 .. MaxMsgs
    BY <1>2, HeadTailProperties, Zenon
  <2> QED
    BY <2>1
<1>4. Tail(q.m_deque) \in Seq(1 .. MaxMsgs)
  BY <1>2, HeadTailProperties, Zenon
<1> USE DEF q
<1>5. Moved(t, "process", c, m)
  <2>1. thread' = [thread EXCEPT ![t] = [@ EXCEPT !.pc = "process", !.msg = m]]
    BY <1>1, <1>2, <1>3 DEF PopMsg, Popped
  <2> QED
    BY <2>1, <1>0, <1>1, PcMsgMoves DEF CInv, Pcs
<1>6. UNCHANGED <<m_ClientList, m_bActive, m_TaskList, history>>
  BY DEF PopMsg
<1> DEFINE r == PopFront(q)
<1>7. /\ r \in [m_deque : Seq(1 .. MaxMsgs), m_hevent : BOOLEAN]
      /\ r.m_deque = Tail(q.m_deque) /\ (r.m_hevent <=> r.m_deque # <<>>)
  BY <1>2, <1>4 DEF PopFront
<1>8. m_MsgQueue' = [m_MsgQueue EXCEPT ![c] = r]
  BY <1>1 DEF PopMsg
<1> HIDE DEF q, r
<1>9. /\ m_MsgQueue' \in [Clients -> [m_deque : Seq(1 .. MaxMsgs), m_hevent : BOOLEAN]]
      /\ m_MsgQueue'[c] = r /\ \A x \in Clients \ {c} : m_MsgQueue'[x] = m_MsgQueue[x]
  BY <1>1, <1>7, <1>8 DEF CInv, TypeOK
<1>10. TypeOK'
  BY <1>5, <1>6, <1>9 DEF CInv, TypeOK, Moved, Rec, history
<1>11. Places' /\ \A x \in Served : Control(x)'
  <2>1. thread[t].pc = "pop"
    BY DEF PopMsg, At
  <2> QED
    BY <2>1, <1>1, <1>5, <1>6, RunnerKeeps
<1>12. Mail'
  <2>1. \A x \in Clients \ {c} : Deque(x)' = Deque(x)
    BY <1>9 DEF Deque
  <2>2. ASSUME NEW x \in Clients PROVE m_MsgQueue'[x].m_hevent <=> Deque(x)' # <<>>
    <3>1. CASE x = c
      BY <1>7, <1>9, <3>1 DEF Deque
    <3>2. CASE x # c
      <4>1. m_MsgQueue[x].m_hevent <=> Deque(x) # <<>>
        BY DEF CInv, Mail
      <4> QED
        BY <1>9, <2>1, <3>2, <4>1, Zenon
    <3> QED
      BY <3>1, <3>2
  <2>3. \A x \in Clients \ Served : Deque(x)' = <<>>
    BY <1>1, <2>1 DEF CInv, Mail
  <2>4. ASSUME NEW u \in Threads, At(u, "pop")' PROVE Deque(ClientOf(u))' # <<>>
    <3>1. u # t /\ At(u, "pop") /\ ClientOf(u)' = ClientOf(u)
      BY <2>4, <1>5 DEF Moved, At, ClientOf
    <3>2. ClientOf(u) \in Served /\ u \in Workers(ClientOf(u)) /\ Deque(ClientOf(u)) # <<>>
      BY <3>1, PopperWorks
    <3>3. ClientOf(u) # c
      BY <1>1, <3>1, <3>2 DEF CInv, Control, Single
    <3>4. \A x \in Clients \ {c} : Deque(x) # <<>> => m_MsgQueue'[x].m_deque # <<>>
      BY <2>1 DEF Deque
    <3> QED
      BY <3>1, <3>2, <3>3, <3>4, Roles DEF Deque
  <2>5. ASSUME NEW u \in Threads, At(u, "process")' PROVE thread'[u].msg \in 1 .. MaxMsgs
    <3>1. CASE u = t
      BY <1>5, <3>1 DEF Moved
    <3>2. CASE u # t
      BY <1>5, <2>5, <3>2 DEF Moved, At, CInv, Mail
    <3> QED
      BY <3>1, <3>2
  <2> QED
    BY <2>2, <2>3, <2>4, <2>5 DEF Mail
<1> QED
  BY <1>10, <1>11, <1>12 DEF CInv

LEMMA ProcessMessageKeeps ==
  ASSUME CInv, NEW t \in PoolThreads \cup {Manager}, ProcessMessage(t) PROVE CInv'
<1>1. t \in Threads /\ TypeOK
  BY Roles DEF CInv
<1>2. /\ thread[t].pc = "process"
      /\ UNCHANGED <<m_ClientList, m_MsgQueue, m_bActive, m_TaskList, received>>
  BY DEF ProcessMessage, At
<1>3. Moved(t, "wait", ClientOf(t), NULL)
  BY <1>1, PcMsgMoves DEF ProcessMessage, Pcs
<1>4. PICK c \in Clients : c = ClientOf(t)
  BY <1>2, Roles DEF CInv, Places, AtRest
<1>5. PICK m \in 1 .. MaxMsgs : m = thread[t].msg
  BY <1>1, <1>2 DEF CInv, Mail, At
<1>6. processed' = [processed EXCEPT ![c] = Append(processed[c], m)]
  BY <1>4, <1>5 DEF ProcessMessage
<1>7. processed' \in [Clients -> Seq(1 .. MaxMsgs)]
  <2>1. processed \in [Clients -> Seq(1 .. MaxMsgs)]
    BY <1>1 DEF TypeOK
  <2>2. Append(processed[c], m) \in Seq(1 .. MaxMsgs)
    BY <2>1
  <2> QED
    BY <1>6, <2>1, <2>2
<1>8. TypeOK'
  BY <1>1, <1>2, <1>3, <1>7 DEF TypeOK, Moved, Rec
<1>9. Places' /\ \A x \in Served : Control(x)'
  BY <1>2, <1>3, RunnerKeeps
<1>10. Mail'
  BY <1>2, <1>3, MoveMail DEF CInv
<1> QED
  BY <1>8, <1>9, <1>10 DEF CInv

LEMMA ClearActiveKeeps ==
  ASSUME CInv, NEW t \in PoolThreads \cup {Manager}, ClearActive(t) PROVE CInv'
<1>1. t \in Threads /\ TypeOK
  BY Roles DEF CInv
<1>2. thread[t].pc = "clear" /\ UNCHANGED <<m_ClientList, m_MsgQueue, m_TaskList, history>>
  BY DEF ClearActive, At
<1>3. Moved(t, "idle", NULL, NULL)
  BY <1>1, ReturnMoves DEF ClearActive
<1>4. PICK c \in Clients : c = ClientOf(t)
  BY <1>2, Roles DEF CInv, Places, AtRest
<1>5. /\ m_bActive' \in [Clients -> BOOLEAN]
      /\ \A x \in Clients \ {c} : m_bActive'[x] = m_bActive[x]
  BY <1>1, <1>4 DEF ClearActive, TypeOK
<1>6. TypeOK'
  BY <1>1, <1>2, <1>3, <1>5, MoveTypes
<1>7. Mail'
  BY <1>2, <1>3, MoveMail DEF CInv
<1>8. Places'
  BY <1>2, <1>3, RunnerKeeps
<1>9. ASSUME NEW x \in Served PROVE Control(x)'
  <2>0. Control(x) /\ x \in Clients
    BY Roles DEF CInv
  <2>1. CASE t = Manager
    <3>1. x # c
      BY <1>2, <1>4, <2>1 DEF CInv, Places, AtRest
    <3> QED
      BY <2>0, <2>1, <3>1, <1>2, <1>3, <1>5, ManagerControl
  <2>2. CASE t \in PoolThreads
    <3>1. Workers(x)' = Workers(x) \ {t} /\ Tasks(x)' = Tasks(x)
      BY <1>2, <1>3, <2>2, <2>0, Roles, PoolWorkers DEF Tasks
    <3>2. (For(x, "add")' <=> For(x, "add")) /\ (For(x, "activate")' <=> For(x, "activate"))
      BY <1>3, <2>2, Roles, OthersKeepFor
    <3>3. Single(x)'
      BY <2>0, <3>1 DEF Control, Single
    <3>4. x = c => t \in Workers(x)
      BY <1>2, <1>4, <2>2 DEF Workers
    <3>5. x = c => Tasks(x)' = {} /\ Workers(x)' = {} /\ ~For(x, "add")
      BY <2>0, <3>1, <3>4 DEF Control, Single, Known
    <3>6. x # c => m_bActive'[x] = m_bActive[x]
      BY <1>5, <2>0
    <3>7. Known(x)'
      BY <2>0, <3>1, <3>2, <3>5, <3>6 DEF Control, Known
    <3> QED
      BY <3>3, <3>7 DEF Control
  <2> QED
    BY <2>1, <2>2
<1> QED
  BY <1>6, <1>7, <1>8, <1>9 DEF CInv

LEMMA RunKeeps ==
  ASSUME CInv, NEW t \in PoolThreads \cup {Manager}, Run(t) PROVE CInv'
BY RunProcessKeeps, WaitObjectKeeps, WaitTimeoutKeeps, PopMsgKeeps, ProcessMessageKeeps,
   ClearActiveKeeps DEF Run

LEMMA NextKeeps == CInv /\ [Next]_vars => CInv'
<1> SUFFICES ASSUME CInv, [Next]_vars PROVE CInv'
  OBVIOUS
<1>1. CASE \E c \in Clients : GroupPackage(c) \/ DelClient(c)
  BY <1>1, GroupPackageKeeps, DelClientKeeps
<1>2. CASE Dispatch
  BY <1>2, CheckActiveKeeps, AddTaskKeeps, SetActiveKeeps, PushMsgKeeps DEF Dispatch
<1>3. CASE \E t \in PoolThreads : Pool(t)
  BY <1>3, TakeTaskKeeps, TestExpiredKeeps, LockTaskKeeps DEF Pool
<1>4. CASE \E t \in PoolThreads \cup {Manager} : Run(t)
  BY <1>4, RunKeeps
<1>5. CASE UNCHANGED vars
  <2> USE <1>5 DEF vars, history, CInv
  <2>1. TypeOK'
    BY DEF TypeOK
  <2>2. Places' /\ Mail'
    BY DEF Places, AtRest, ClientOf, Mail, At, Deque
  <2>3. ASSUME NEW x \in Served PROVE Control(x)'
    <3>1. Tasks(x)' = Tasks(x) /\ Workers(x)' = Workers(x)
      BY DEF Tasks, Workers, ClientOf
    <3> QED
      BY <3>1 DEF Control, Single, Known, For, At, ClientOf
  <2> QED
    BY <2>1, <2>2, <2>3
<1> QED
  BY <1>1, <1>2, <1>3, <1>4, <1>5 DEF Next

LEMMA CInvHolds == Spec => []CInv
BY InitHolds, NextKeeps, PTL DEF Spec

\* The variables have their types: in particular no message is processed that
\* was not received.
THEOREM TypeCorrect == Spec => []TypeOK
<1>1. CInv => TypeOK
  BY DEF CInv
<1> QED
  BY <1>1, CInvHolds, PTL

\* Clients without a ServerItem have no tasks, and no thread of the pool.
LEMMA UnservedAlone ==
  ASSUME CInv, NEW x \in Clients \ Served PROVE Tasks(x) = {} /\ Workers(x) = {}
<1>1. Tasks(x) = {}
  BY DEF CInv, TypeOK, Tasks
<1>2. Workers(x) = {}
  BY Roles DEF CInv, Places, Workers, AtRest
<1> QED
  BY <1>1, <1>2

\* Never two tasks for a client, nor two pool threads, nor one of each
\* (ClientItem::GroupPackage and RunProcess, which share m_bActive unlocked).
THEOREM OneWorkerHolds == Spec => []OneWorker
<1>1. ASSUME CInv PROVE OneWorker
  <2>1. ASSUME NEW S, \A a, b \in S : a = b PROVE S = {} \/ \E a \in S : S = {a}
    BY <2>1
  <2>2. ASSUME NEW c \in Clients
        PROVE  Cardinality(Tasks(c)) + Cardinality(Workers(c)) <= 1
    <3>1. Single(c)
      BY <1>1, UnservedAlone DEF CInv, Control, Single
    <3>2. Tasks(c) = {} \/ \E i : Tasks(c) = {i}
      BY <3>1 DEF Single
    <3>3. Workers(c) = {} \/ \E t : Workers(c) = {t}
      BY <3>1 DEF Single
    <3>4. Cardinality({}) = 0 /\ \A e : Cardinality({e}) = 1
      BY FS_EmptySet, FS_Singleton
    <3>5. /\ Cardinality(Tasks(c)) \in {0, 1} /\ Cardinality(Workers(c)) \in {0, 1}
          /\ Cardinality(Tasks(c)) = 0 \/ Cardinality(Workers(c)) = 0
      BY <3>1, <3>2, <3>3, <3>4 DEF Single
    <3> QED
      BY <3>5
  <2> QED
    BY <2>2 DEF OneWorker
<1> QED
  BY <1>1, CInvHolds, PTL

-----------------------------------------------------------------------------
(* Deaf clients                                                            *)

\* A client without a ServerItem is not taken for active.
Quiet == \A x \in Clients \ Served : ~m_bActive[x]

LEMMA QuietHolds == Spec => []Quiet
<1>1. Init => Quiet
  BY DEF Init, Quiet
<1>2. ASSUME CInv, Quiet, [Next]_vars PROVE Quiet'
  <2>1. CASE SetActive
    <3>1. ClientOf(Dispatcher) \in Served
      BY <1>2, <2>1, DispatcherHas DEF SetActive, CInv
    <3> QED
      BY <3>1, <1>2, <2>1 DEF SetActive, Quiet, CInv, TypeOK
  <2>2. CASE \E t \in PoolThreads \cup {Manager} : ClearActive(t)
    BY <1>2, <2>2 DEF ClearActive, Quiet, CInv, TypeOK
  <2>3. CASE UNCHANGED m_bActive
    BY <1>2, <2>3 DEF Quiet
  <2> QED
    BY <1>2, <2>1, <2>2, <2>3
    DEF Next, GroupPackage, DelClient, Dispatch, CheckActive, AddTask, PushMsg, Pool, TakeTask,
        TestExpired, LockTask, Run, RunProcess, WaitObject, WaitTimeout, PopMsg, ProcessMessage, vars
<1> QED
  BY <1>1, <1>2, CInvHolds, PTL DEF Spec

LEMMA DispatcherWorkers ==
  ASSUME CInv, Dispatch \/ \E c \in Clients : GroupPackage(c) \/ DelClient(c), NEW x
  PROVE  Workers(x)' = Workers(x)
<1>1. PICK t \in {Dispatcher, Manager} : \A u \in Threads \ {t} : thread'[u] = thread[u]
  BY Roles DEF CInv, TypeOK, Dispatch, CheckActive, AddTask, SetActive, PushMsg, GroupPackage,
     DelClient, Goto, Return, DispatcherOf
<1> QED
  BY <1>1, Roles DEF Workers, ClientOf

\* A pool thread that has taken a task keeps its client or drops it.
LEMMA RunnerWorkers ==
  ASSUME CInv, NEW t \in PoolThreads \cup {Manager}, NEW x \in Clients,
         Run(t) \/ (t \in PoolThreads /\ (TestExpired(t) \/ LockTask(t)))
  PROVE  Workers(x)' \subseteq Workers(x)
<1>1. t \in Threads /\ TypeOK /\ thread[t] \in Rec /\ NULL # x
  BY Roles, ThreadRec DEF CInv
<1>2. \A u \in Threads \ {t} : thread'[u] = thread[u]
  BY <1>1 DEF TypeOK, Run, TestExpired, LockTask, RunProcess, WaitObject, WaitTimeout, PopMsg,
     ProcessMessage, ClearActive, Goto, Return
<1>3. thread'[t].client \in {ClientOf(t), NULL}
  <2>1. CASE Return(t)
    BY <1>1, <2>1, ReturnMoves DEF Moved
  <2>2. CASE \E pc \in Pcs : Goto(t, pc)
    BY <1>1, <2>2, GotoMoves DEF Moved
  <2>3. CASE RunProcess(t) \/ ProcessMessage(t) \/ PopMsg(t)
    <3>1. PICK pc, m : thread' = [thread EXCEPT ![t] = [thread[t] EXCEPT !.pc = pc, !.msg = m]]
      BY <2>3 DEF RunProcess, ProcessMessage, PopMsg
    <3>2. thread'[t] = [thread[t] EXCEPT !.pc = pc, !.msg = m]
      BY <1>1, <3>1 DEF TypeOK
    <3> QED
      BY <1>1, <3>2 DEF Rec, ClientOf
  <2>4. \/ Return(t) \/ \E pc \in Pcs : Goto(t, pc)
        \/ RunProcess(t) \/ ProcessMessage(t) \/ PopMsg(t)
    BY DEF Pcs, Run, TestExpired, LockTask, WaitObject, WaitTimeout, ClearActive
  <2> QED
    BY <2>1, <2>2, <2>3, <2>4
<1>4. thread[t].pc # "crashed"
  BY DEF Run, TestExpired, LockTask, RunProcess, WaitObject, WaitTimeout, PopMsg,
     ProcessMessage, ClearActive, At
<1> QED
  BY <1>1, <1>2, <1>3, <1>4, Roles DEF Workers, ClientOf

LEMMA DeafStays ==
  ASSUME CInv, Quiet, [Next]_vars, NEW x \in Clients, Deaf(x)
  PROVE  Deaf(x)'
<1>1. m_bActive[x] /\ Tasks(x) = {} /\ Workers(x) = {} /\ x \in Served
  BY DEF Deaf, Quiet
<1>2. m_bActive'[x] /\ \A t \in PoolThreads \cup {Manager} : ClientOf(t) = x => ~ClearActive(t)
  <2>1. ASSUME NEW t \in PoolThreads \cup {Manager}, ClearActive(t) PROVE ClientOf(t) # x
    BY <1>1, <2>1 DEF CInv, Places, AtRest, Workers, ClearActive, At
  <2>2. m_bActive \in [Clients -> BOOLEAN] /\ m_bActive[x] = TRUE
    BY <1>1 DEF CInv, TypeOK
  <2>3. ASSUME NEW c, NEW b \in BOOLEAN, m_bActive' = [m_bActive EXCEPT ![c] = b], c = x => b
        PROVE  m_bActive'[x]
    <3>1. CASE c = x
      BY <2>2, <2>3, <3>1
    <3>2. CASE c # x
      <4>1. m_bActive'[x] = m_bActive[x]
        BY <2>2, <2>3, <3>2
      <4> QED
        BY <2>2, <4>1
    <3> QED
      BY <3>1, <3>2
  <2>4. \/ UNCHANGED m_bActive
        \/ m_bActive' = [m_bActive EXCEPT ![ClientOf(Dispatcher)] = TRUE]
        \/ \E t \in PoolThreads \cup {Manager} :
             ClearActive(t) /\ m_bActive' = [m_bActive EXCEPT ![ClientOf(t)] = FALSE]
    BY DEF SetActive, ClearActive,
        Next, GroupPackage, DelClient, Dispatch, CheckActive, AddTask, PushMsg, Pool, TakeTask,
        TestExpired, LockTask, Run, RunProcess, WaitObject, WaitTimeout, PopMsg, ProcessMessage, vars
  <2>5. m_bActive'[x]
    BY <2>1, <2>2, <2>3, <2>4
  <2> QED
    BY <2>1, <2>5
<1>3. Tasks(x)' = {}
  <2>1. CASE AddTask
    <3>1. ClientOf(Dispatcher) # x
      BY <1>1, <2>1 DEF AddTask, CInv, Control, Known, For
    <3>2. ClientOf(Dispatcher) \in Served
      BY <2>1, DispatcherHas DEF AddTask, CInv
    <3>3. m_TaskList' = Append(m_TaskList, ClientOf(Dispatcher)) \/ m_TaskList' = m_TaskList
      BY <2>1 DEF AddTask
    <3> QED
      BY <1>1, <3>1, <3>2, <3>3, TasksAppend DEF CInv, Tasks
  <2>2. CASE \E t \in PoolThreads : TakeTask(t)
    BY <1>1, <2>2, TasksTail DEF TakeTask, CInv
  <2>3. CASE UNCHANGED m_TaskList
    BY <1>1, <2>3 DEF Tasks
  <2> QED
    BY <2>1, <2>2, <2>3
    DEF Next, GroupPackage, DelClient, Dispatch, CheckActive, SetActive, PushMsg, Pool, TestExpired,
        LockTask, Run, RunProcess, WaitObject, WaitTimeout, PopMsg, ProcessMessage, ClearActive, vars
<1>4. Workers(x)' = {}
  <2>1. ASSUME NEW t \in PoolThreads, TakeTask(t) PROVE Workers(x)' = {}
    <3>1. 1 \in 1 .. Len(m_TaskList) /\ m_TaskList[1] = Head(m_TaskList)
      BY <2>1 DEF TakeTask, CInv, TypeOK
    <3>2. Head(m_TaskList) # x
      BY <1>1, <3>1 DEF Tasks
    <3>3. thread'[t].client # x /\ \A u \in PoolThreads \ {t} : thread'[u] = thread[u]
      BY <2>1, <3>2, Roles DEF TakeTask, CInv, TypeOK
    <3> QED
      BY <1>1, <3>3 DEF Workers, ClientOf
  <2>2. CASE Dispatch \/ \E c \in Clients : GroupPackage(c) \/ DelClient(c)
    BY <1>1, <2>2, DispatcherWorkers
  <2>3. CASE \/ \E t \in PoolThreads : TestExpired(t) \/ LockTask(t)
             \/ \E t \in PoolThreads \cup {Manager} : Run(t)
    <3>1. PICK t \in PoolThreads \cup {Manager} :
             Run(t) \/ (t \in PoolThreads /\ (TestExpired(t) \/ LockTask(t)))
      BY <2>3
    <3> QED
      BY <1>1, <3>1, RunnerWorkers
  <2>4. CASE UNCHANGED vars
    BY <1>1, <2>4 DEF vars, Workers, ClientOf
  <2> QED
    BY <2>1, <2>2, <2>3, <2>4 DEF Next, Pool
<1> QED
  BY <1>2, <1>3, <1>4 DEF Deaf

\* A client that is taken for active although it has no task and no worker
\* stays so (ClientItem.cpp 145-151).
THEOREM DeafForeverHolds == Spec => DeafForever
<1>1. CInv /\ Quiet /\ [Next]_vars => [\A c \in Clients : Deaf(c) => Deaf(c)']_vars
  BY DeafStays
<1> QED
  BY <1>1, CInvHolds, QuietHolds, PTL DEF Spec, DeafForever

-----------------------------------------------------------------------------
(* The order of the messages                                               *)

\* The thread that has a message of the client in its hand.
Processors(x) == {t \in Workers(x) : At(t, "process")}
InHand(x) == IF Processors(x) = {} THEN <<>> ELSE Hand(CHOOSE t \in Processors(x) : TRUE)
Coming(x) == IF ClientOf(Dispatcher) = x THEN Hand(Dispatcher) ELSE <<>>

Ordered(x) ==
  processed[x] \o InHand(x) \o Deque(x) \o Coming(x) = [i \in 1 .. received[x] |-> i]

Msgs == 1 .. MaxMsgs

LEMMA InOrderIs == InOrder <=> \A x \in Served : Ordered(x)
BY DEF InOrder, Ordered, InHand, Processors, Coming, Deque

LEMMA HandTypes ==
  ASSUME CInv, NEW x \in Served
  PROVE  /\ processed[x] \in Seq(Msgs) /\ Deque(x) \in Seq(Msgs)
         /\ InHand(x) \in Seq(Msgs) /\ Coming(x) \in Seq(Msgs)
<1>1. processed[x] \in Seq(Msgs) /\ Deque(x) \in Seq(Msgs)
  BY Roles DEF CInv, TypeOK, Msgs, Deque
<1>2. ASSUME NEW t \in Threads PROVE Hand(t) \in Seq(Msgs)
  <2>1. thread[t].msg \in Msgs \cup {NULL}
    BY DEF CInv, TypeOK, Msgs
  <2>2. <<>> \in Seq(Msgs) /\ \A m \in Msgs : <<m>> \in Seq(Msgs)
    OBVIOUS
  <2> QED
    BY <2>1, <2>2 DEF Hand
<1>3. <<>> \in Seq(Msgs)
  OBVIOUS
<1>4. Processors(x) \subseteq Threads
  BY Roles DEF Processors, Workers
<1>5. Processors(x) # {} => (CHOOSE t \in Processors(x) : TRUE) \in Processors(x)
  OBVIOUS
<1> QED
  BY <1>1, <1>2, <1>3, <1>4, <1>5, Roles DEF InHand, Coming

LEMMA InHandKept ==
  ASSUME NEW x, Processors(x)' = Processors(x),
         \A t \in Processors(x) : thread'[t].msg = thread[t].msg
  PROVE  InHand(x)' = InHand(x)
<1>1. CASE Processors(x) = {}
  BY <1>1 DEF InHand
<1>2. CASE Processors(x) # {}
  <2> DEFINE u == CHOOSE t \in Processors(x) : TRUE
  <2>1. u \in Processors(x)
    BY <1>2
  <2>2. InHand(x) = IF thread[u].msg = NULL THEN <<>> ELSE <<thread[u].msg>>
    BY <1>2 DEF InHand, Hand
  <2>3. InHand(x)' = IF thread'[u].msg = NULL THEN <<>> ELSE <<thread'[u].msg>>
    BY <1>2 DEF InHand, Hand
  <2> HIDE DEF u
  <2> QED
    BY <2>1, <2>2, <2>3
<1> QED
  BY <1>1, <1>2

LEMMA OthersKeepProcessors ==
  ASSUME NEW t \in {Dispatcher, Manager}, NEW pc, NEW c, NEW m, Moved(t, pc, c, m), NEW x
  PROVE  /\ Processors(x)' = Processors(x)
         /\ \A u \in Processors(x) : thread'[u].msg = thread[u].msg
BY Roles DEF Moved, Processors, Workers, ClientOf, At

LEMMA PoolKeepsProcessors ==
  ASSUME NEW t \in PoolThreads, NEW pc, NEW c, NEW m, Moved(t, pc, c, m), NEW x,
         t \notin Processors(x), ~(pc = "process" /\ c = x)
  PROVE  /\ Processors(x)' = Processors(x)
         /\ \A u \in Processors(x) : thread'[u].msg = thread[u].msg
BY Roles DEF Moved, Processors, Workers, ClientOf, At

LEMMA OthersKeepComing ==
  ASSUME NEW t \in Threads \ {Dispatcher}, NEW pc, NEW c, NEW m, Moved(t, pc, c, m), NEW x
  PROVE  Coming(x)' = Coming(x)
BY Roles DEF Moved, Coming, Hand, ClientOf

LEMMA DispatcherComes ==
  ASSUME NEW pc, NEW c, NEW m, Moved(Dispatcher, pc, c, m), NEW x
  PROVE  Coming(x)' = IF c = x /\ m # NULL THEN <<m>> ELSE <<>>
BY DEF Moved, Coming, Hand, ClientOf

\* The one thread that has a message of the client in its hand.
LEMMA OneProcessor ==
  ASSUME CInv, NEW x \in Served, NEW t \in Workers(x)
  PROVE  /\ At(t, "process") => Processors(x) = {t} /\ InHand(x) = <<thread[t].msg>>
         /\ ~At(t, "process") => Processors(x) = {} /\ InHand(x) = <<>>
<1>1. \A u \in Workers(x) : u = t
  BY DEF CInv, Control, Single
<1>2. At(t, "process") => Processors(x) = {t}
  BY <1>1 DEF Processors
<1>3. ~At(t, "process") => Processors(x) = {} /\ InHand(x) = <<>>
  BY <1>1 DEF Processors, InHand
<1>4. ASSUME At(t, "process") PROVE InHand(x) = <<thread[t].msg>>
  <2>1. thread[t].msg # NULL
    BY <1>4, Roles, MailboxAssumption DEF CInv, Mail, Workers
  <2>2. (CHOOSE u \in {t} : TRUE) = t
    OBVIOUS
  <2> QED
    BY <1>2, <1>4, <2>1, <2>2 DEF InHand, Hand
<1> QED
  BY <1>2, <1>3, <1>4

-----------------------------------------------------------------------------
(* Moving a message along a sequence                                       *)

LEMMA SeqPush ==
  ASSUME NEW S, NEW q \in Seq(S), NEW d \in Seq(S), NEW m \in S
  PROVE  q \o d \o <<m>> = q \o Append(d, m) \o <<>>
<1>1. <<m>> \in Seq(S) /\ Append(d, m) \in Seq(S)
  OBVIOUS
<1>2. Append(d, m) = d \o <<m>>
  BY AppendIsConcat, Zenon
<1>3. (q \o d) \o <<m>> = q \o (d \o <<m>>)
  BY <1>1, ConcatAssociative
<1>4. q \o Append(d, m) \in Seq(S)
  BY <1>1
<1>5. q \o Append(d, m) \o <<>> = q \o Append(d, m)
  BY <1>4, ConcatEmptySeq, Zenon
<1> QED
  BY <1>2, <1>3, <1>5, Zenon

LEMMA HeadTail ==
  ASSUME NEW S, NEW d \in Seq(S), d # <<>>
  PROVE  <<Head(d)>> \o Tail(d) = d
<1>1. Head(d) \in S /\ Tail(d) \in Seq(S) /\ Head(d) = d[1] /\ Len(d) \in Nat \ {0}
  OBVIOUS
<1>2. Len(Tail(d)) = Len(d) - 1 /\ \A i \in 1 .. Len(Tail(d)) : Tail(d)[i] = d[i + 1]
  BY HeadTailProperties
<1> DEFINE h == Head(d)
           t == Tail(d)
<1> HIDE DEF h, t
<1>0. /\ h \in S /\ t \in Seq(S) /\ h = d[1] /\ Len(t) = Len(d) - 1
      /\ \A i \in 1 .. Len(t) : t[i] = d[i + 1]
  BY <1>1, <1>2 DEF h, t
<1>6. <<h>> \in Seq(S) /\ Len(<<h>>) = 1 /\ <<h>>[1] = h
  BY <1>0
<1>7. /\ <<h>> \o t \in Seq(S) /\ Len(<<h>> \o t) = 1 + Len(t)
      /\ \A i \in 1 .. 1 + Len(t) : (<<h>> \o t)[i] = IF i <= 1 THEN <<h>>[i] ELSE t[i - 1]
  BY <1>0, <1>6, ConcatProperties
<1>3. <<h>> \o t \in Seq(S) /\ Len(<<h>> \o t) = Len(d)
  BY <1>0, <1>1, <1>7
<1>4. \A i \in 1 .. Len(d) : (<<h>> \o t)[i] = d[i]
  <2>1. ASSUME NEW i \in 1 .. Len(d) PROVE (<<h>> \o t)[i] = d[i]
    <3>1. CASE i = 1
      BY <1>0, <1>1, <1>6, <1>7, <3>1
    <3>2. CASE i # 1
      <4>1. i - 1 \in 1 .. Len(t) /\ i - 1 + 1 = i /\ i \in 1 .. 1 + Len(t)
        BY <1>0, <1>1, <3>2
      <4>2. (<<h>> \o t)[i] = t[i - 1]
        BY <4>1, <1>7, <3>2
      <4> QED
        BY <4>1, <4>2, <1>0
    <3> QED
      BY <3>1, <3>2
  <2> QED
    BY <2>1
<1>5. <<h>> \o t = d
  BY <1>3, <1>4, SeqEqual
<1> QED
  BY <1>5 DEF h, t

LEMMA SeqPop ==
  ASSUME NEW S, NEW p \in Seq(S), NEW d \in Seq(S), NEW c \in Seq(S), d # <<>>
  PROVE  p \o <<>> \o d \o c = p \o <<Head(d)>> \o Tail(d) \o c
<1>1. Head(d) \in S /\ Tail(d) \in Seq(S)
  BY HeadTailProperties, Zenon
<1>2. <<Head(d)>> \in Seq(S)
  BY <1>1
<1>3. p \o <<>> = p
  BY ConcatEmptySeq, Zenon
<1>4. (p \o <<Head(d)>>) \o Tail(d) = p \o (<<Head(d)>> \o Tail(d))
  BY <1>1, <1>2, ConcatAssociative
<1>5. (p \o <<Head(d)>>) \o Tail(d) = p \o d
  BY <1>4, HeadTail, Zenon
<1> QED
  BY <1>3, <1>5, Zenon

LEMMA SeqProcess ==
  ASSUME NEW S, NEW p \in Seq(S), NEW d, NEW c, NEW m \in S
  PROVE  p \o <<m>> \o d \o c = Append(p, m) \o <<>> \o d \o c
<1>1. Append(p, m) = p \o <<m>> /\ Append(p, m) \in Seq(S)
  BY AppendIsConcat
<1>2. Append(p, m) \o <<>> = Append(p, m)
  BY <1>1, ConcatEmptySeq, Zenon
<1> QED
  BY <1>1, <1>2, Zenon

LEMMA SeqCount ==
  ASSUME NEW S, NEW s \in Seq(S), NEW n \in Nat, n + 1 \in S,
         s \o <<>> = [i \in 1 .. n |-> i]
  PROVE  s \o <<n + 1>> = [i \in 1 .. n + 1 |-> i]
<1>1. s = [i \in 1 .. n |-> i]
  BY ConcatEmptySeq, Zenon
<1>2. Len(s) = n /\ \A i \in 1 .. n : s[i] = i
  BY <1>1
<1> DEFINE a == s \o <<n + 1>>
           b == [i \in 1 .. n + 1 |-> i]
<1>3. a \in Seq(S) /\ Len(a) = n + 1 /\ \A i \in 1 .. n + 1 : a[i] = i
  BY <1>2
<1>4. a = [i \in 1 .. n + 1 |-> a[i]]
  <2> HIDE DEF a
  <2> QED
    BY <1>3
<1> HIDE DEF a
<1>5. a = b
  BY <1>3, <1>4
<1> QED
  BY <1>5 DEF a

-----------------------------------------------------------------------------
(* The steps that move no message of the client                            *)

LEMMA RunnerOrdered ==
  ASSUME NEW t \in PoolThreads \cup {Manager}, NEW pc, NEW c, NEW m, Moved(t, pc, c, m),
         thread[t].pc # "process", pc # "process", UNCHANGED <<m_MsgQueue, history>>,
         NEW x, Ordered(x)
  PROVE  Ordered(x)'
<1>1. InHand(x)' = InHand(x)
  <2>1. CASE t \in PoolThreads
    <3>1. t \notin Processors(x)
      BY DEF Processors, At
    <3> QED
      BY <2>1, <3>1, PoolKeepsProcessors, InHandKept
  <2>2. CASE t = Manager
    BY <2>2, OthersKeepProcessors, InHandKept
  <2> QED
    BY <2>1, <2>2
<1>2. Coming(x)' = Coming(x)
  BY Roles, OthersKeepComing
<1> QED
  BY <1>1, <1>2 DEF Ordered, Deque, history

LEMMA RestOrdered ==
  ASSUME CInv, NEW t \in PoolThreads \cup {Manager},
         \/ t \in PoolThreads /\ (TakeTask(t) \/ TestExpired(t) \/ LockTask(t))
         \/ RunProcess(t) \/ WaitObject(t) \/ WaitTimeout(t) \/ ClearActive(t),
         NEW x, Ordered(x)
  PROVE  Ordered(x)'
<1>0. t \in Threads /\ TypeOK
  BY Roles DEF CInv
<1>1. thread[t].pc # "process" /\ UNCHANGED <<m_MsgQueue, history>>
  BY DEF TakeTask, TestExpired, LockTask, RunProcess, WaitObject, WaitTimeout, ClearActive, At
<1>2. \E pc, c, m : Moved(t, pc, c, m) /\ pc # "process"
  <2>1. CASE Return(t)
    BY <1>0, <2>1, ReturnMoves
  <2>2. CASE \E pc \in Pcs \ {"process"} : Goto(t, pc)
    BY <1>0, <2>2, GotoMoves
  <2>3. CASE RunProcess(t)
    <3>1. Moved(t, "wait", ClientOf(t), NULL)
      BY <1>0, <2>3, PcMsgMoves DEF RunProcess, Pcs
    <3> QED
      BY <3>1
  <2>4. CASE t \in PoolThreads /\ TakeTask(t)
    <3> DEFINE r == [pc |-> "expired", client |-> Head(m_TaskList), msg |-> NULL]
    <3>1. Head(m_TaskList) \in Clients
      BY <2>4, Roles DEF TakeTask, CInv, TypeOK
    <3>2. r \in Rec /\ r.pc = "expired"
      BY <3>1 DEF Rec, Pcs
    <3>3. thread' = [thread EXCEPT ![t] = r]
      BY <2>4 DEF TakeTask
    <3> HIDE DEF r
    <3>4. Moved(t, r.pc, r.client, r.msg)
      BY <1>0, <3>2, <3>3, RecMoves
    <3> QED
      BY <3>2, <3>4
  <2> QED
    BY <2>1, <2>2, <2>3, <2>4
    DEF Pcs, TestExpired, LockTask, WaitObject, WaitTimeout, ClearActive
<1> QED
  BY <1>1, <1>2, RunnerOrdered

\* Until PushMsg the dispatcher keeps the message it has.
LEMMA DispatchOrdered ==
  ASSUME CInv, CheckActive \/ AddTask \/ SetActive, NEW x, Ordered(x)
  PROVE  Ordered(x)'
<1>1. UNCHANGED <<m_MsgQueue, history>> /\ \E pc \in Pcs : Goto(Dispatcher, pc)
  BY DEF CheckActive, AddTask, SetActive, Pcs
<1>2. PICK pc : Moved(Dispatcher, pc, ClientOf(Dispatcher), thread[Dispatcher].msg)
  BY <1>1, Roles, GotoMoves DEF CInv
<1>3. InHand(x)' = InHand(x)
  BY <1>2, OthersKeepProcessors, InHandKept
<1>4. Coming(x)' = Coming(x)
  BY <1>2 DEF Moved, Coming, Hand, ClientOf
<1> QED
  BY <1>1, <1>3, <1>4 DEF Ordered, Deque, history

LEMMA DelClientOrdered ==
  ASSUME NEW c \in Clients, DelClient(c), NEW x, Ordered(x)
  PROVE  Ordered(x)'
<1>1. InHand(x)' = InHand(x) /\ Coming(x)' = Coming(x)
  BY DEF DelClient, InHand, Processors, Workers, Hand, At, ClientOf, Coming
<1> QED
  BY <1>1 DEF Ordered, Deque, DelClient, history

-----------------------------------------------------------------------------
(* The steps that move a message of the client                             *)

LEMMA GroupPackageOrdered ==
  ASSUME CInv, NEW c \in Clients, GroupPackage(c), NEW x \in Served, Ordered(x)
  PROVE  Ordered(x)'
<1> DEFINE d == DispatcherOf(c)
           r == [pc |-> IF c \in Served THEN "check" ELSE "run",
                 client |-> c, msg |-> received[c] + 1]
<1>1. received[c] \in Nat /\ received[c] + 1 \in Msgs
  BY MailboxAssumption DEF GroupPackage, CInv, TypeOK, Msgs
<1>2. d \in {Dispatcher, Manager} /\ (c \in Served => d = Dispatcher) /\ (c \notin Served => d = Manager)
  BY DEF DispatcherOf
<1>3. PICK pc : Moved(d, pc, c, received[c] + 1)
  <2>1. r \in Rec
    BY <1>1 DEF Rec, Pcs, Msgs
  <2>2. r.client = c /\ r.msg = received[c] + 1
    OBVIOUS
  <2>3. thread' = [thread EXCEPT ![d] = r]
    BY DEF GroupPackage
  <2>4. d \in Threads /\ TypeOK
    BY <1>2, Roles DEF CInv
  <2> HIDE DEF r, d
  <2>5. Moved(d, r.pc, r.client, r.msg)
    BY <2>1, <2>3, <2>4, RecMoves
  <2> QED
    BY <2>2, <2>5
<1>4. /\ UNCHANGED <<m_MsgQueue, processed>> /\ At(d, "idle")
      /\ received'[c] = received[c] + 1 /\ \A y \in Clients \ {c} : received'[y] = received[y]
  BY DEF GroupPackage, CInv, TypeOK
<1> HIDE DEF d
<1>5. InHand(x)' = InHand(x)
  BY <1>2, <1>3, OthersKeepProcessors, InHandKept
<1>6. CASE c \in Served
  <2>0. d = Dispatcher
    BY <1>2, <1>6
  <2>1. Coming(x) = <<>>
    BY <1>4, <2>0, Roles DEF CInv, Places, At, AtRest, Coming
  <2>2. Coming(x)' = IF c = x THEN <<received[c] + 1>> ELSE <<>>
    <3>1. received[c] + 1 # NULL
      BY <1>1, MailboxAssumption
    <3> QED
      BY <1>3, <2>0, <3>1, DispatcherComes
  <2>3. CASE c # x
    BY <1>4, <1>5, <2>1, <2>2, <2>3, Roles DEF Ordered, Deque
  <2>4. CASE c = x
    <3> DEFINE q == processed[x] \o InHand(x) \o Deque(x)
    <3>1. processed[x] \o InHand(x) \in Seq(Msgs)
      BY HandTypes, ConcatProperties, Zenon
    <3>2. q \in Seq(Msgs)
      BY <3>1, HandTypes, ConcatProperties, Zenon
    <3>3. q \o <<>> = [i \in 1 .. received[x] |-> i]
      BY <2>1 DEF Ordered
    <3> HIDE DEF q
    <3>4. q \o <<received[x] + 1>> = [i \in 1 .. received[x] + 1 |-> i]
      BY <1>1, <2>4, <3>2, <3>3, SeqCount
    <3>5. received'[x] = received[x] + 1 /\ Coming(x)' = <<received[x] + 1>>
      BY <1>4, <2>2, <2>4
    <3>6. processed'[x] \o InHand(x)' \o Deque(x)' = q
      BY <1>4, <1>5 DEF q, Deque
    <3>7. q \o Coming(x)' = [i \in 1 .. received'[x] |-> i]
      BY <3>4, <3>5, Zenon
    <3> QED
      BY <3>6, <3>7 DEF Ordered
  <2> QED
    BY <2>3, <2>4
<1>7. CASE c \notin Served
  <2>1. d = Manager
    BY <1>2, <1>7
  <2>2. Coming(x)' = Coming(x)
    BY <1>3, <2>1, Roles, OthersKeepComing
  <2> QED
    BY <1>4, <1>5, <1>7, <2>2, Roles DEF Ordered, Deque
<1> QED
  BY <1>6, <1>7

LEMMA PushMsgOrdered ==
  ASSUME CInv, PushMsg, NEW x \in Served, Ordered(x)
  PROVE  Ordered(x)'
<1>1. PICK c \in Served, m \in Msgs : c = ClientOf(Dispatcher) /\ m = thread[Dispatcher].msg
  BY DispatcherHas DEF CInv, PushMsg, Msgs
<1>2. Moved(Dispatcher, "idle", NULL, NULL)
  BY Roles, ReturnMoves DEF PushMsg, CInv
<1>3. UNCHANGED history
  BY DEF PushMsg
<1>4. Deque(c)' = Append(Deque(c), m) /\ \A y \in Clients \ {c} : m_MsgQueue'[y] = m_MsgQueue[y]
  <2>1. m_MsgQueue' = [m_MsgQueue EXCEPT
          ![c] = [m_deque |-> Append(m_MsgQueue[c].m_deque, m), m_hevent |-> TRUE]]
    BY <1>1 DEF PushMsg, PushBack
  <2> QED
    BY <2>1, Roles, PushMoves DEF CInv, Msgs
<1>5. InHand(x)' = InHand(x)
  BY <1>2, OthersKeepProcessors, InHandKept
<1>6. Coming(x)' = <<>>
  BY <1>2, DispatcherComes
<1>7. m # NULL
  BY MailboxAssumption DEF Msgs
<1>8. CASE x = c
  <2>1. Coming(x) = <<m>>
    BY <1>1, <1>7, <1>8 DEF Coming, Hand
  <2>2. processed[x] \o InHand(x) \o Deque(x) \o <<m>>
          = processed[x] \o InHand(x) \o Append(Deque(x), m) \o <<>>
    <3> DEFINE p == processed[x] \o InHand(x)
               q == Deque(x)
    <3>1. p \in Seq(Msgs) /\ q \in Seq(Msgs)
      BY HandTypes, ConcatProperties
    <3> HIDE DEF p, q
    <3>2. p \o q \o <<m>> = p \o Append(q, m) \o <<>>
      BY <1>1, <3>1, SeqPush
    <3> QED
      BY <3>2 DEF p, q
  <2> QED
    BY <1>3, <1>4, <1>5, <1>6, <1>8, <2>1, <2>2 DEF Ordered, history
<1>9. CASE x # c
  <2>1. Coming(x) = <<>>
    BY <1>1, <1>9 DEF Coming
  <2>2. Deque(x)' = Deque(x)
    BY <1>4, <1>9, Roles DEF Deque
  <2> QED
    BY <1>3, <1>5, <1>6, <2>1, <2>2 DEF Ordered, history
<1> QED
  BY <1>8, <1>9

LEMMA PopMsgOrdered ==
  ASSUME CInv, CInv', NEW t \in PoolThreads \cup {Manager}, PopMsg(t), NEW x \in Served, Ordered(x)
  PROVE  Ordered(x)'
<1>0. t \in PoolThreads /\ t \in Threads
  BY PopperWorks, Roles DEF PopMsg
<1>1. PICK c \in Served : c = ClientOf(t) /\ t \in Workers(c) /\ Deque(c) # <<>> /\ c \in Clients
  BY <1>0, PopperWorks, Roles DEF PopMsg
<1>2. Deque(c) \in Seq(Msgs)
  BY HandTypes
<1>3. PICK m \in Msgs : m = Head(Deque(c))
  <2>1. Head(Deque(c)) \in Msgs
    BY <1>1, <1>2, HeadTailProperties, Zenon
  <2> QED
    BY <2>1
<1>4. Moved(t, "process", c, m)
  <2>1. thread' = [thread EXCEPT ![t] = [@ EXCEPT !.pc = "process", !.msg = m]]
    BY <1>1, <1>3 DEF PopMsg, Popped, Deque
  <2> QED
    BY <2>1, <1>0, <1>1, PcMsgMoves DEF CInv, Pcs, Msgs
<1>5. UNCHANGED history /\ At(t, "pop")
  BY DEF PopMsg
<1>6. Deque(c)' = Tail(Deque(c)) /\ \A y \in Clients \ {c} : Deque(y)' = Deque(y)
  <2>1. m_MsgQueue' = [m_MsgQueue EXCEPT ![c] = PopFront(m_MsgQueue[c])]
    BY <1>1 DEF PopMsg
  <2>2. PopFront(m_MsgQueue[c]).m_deque = Tail(Deque(c))
    BY <1>1 DEF PopFront, Deque
  <2> QED
    BY <1>1, <2>1, <2>2 DEF CInv, TypeOK, Deque
<1>7. Coming(x)' = Coming(x)
  BY <1>0, <1>4, Roles, OthersKeepComing
<1>8. CASE x = c
  <2>1. InHand(x) = <<>> /\ Processors(x) = {}
    BY <1>1, <1>5, <1>8, OneProcessor DEF At
  <2>2. InHand(x)' = <<m>>
    <3>1. Processors(x)' = {t}
      BY <1>0, <1>4, <1>8, <2>1, Roles DEF Moved, Processors, Workers, At, ClientOf
    <3>2. thread'[t].msg = m /\ m # NULL
      BY <1>4, MailboxAssumption DEF Moved, Msgs
    <3>3. InHand(x)' = IF Processors(x)' = {} THEN <<>>
                       ELSE LET u == CHOOSE u \in Processors(x)' : TRUE
                            IN  IF thread'[u].msg = NULL THEN <<>> ELSE <<thread'[u].msg>>
      BY DEF InHand, Hand
    <3>4. (CHOOSE u \in {t} : TRUE) = t
      OBVIOUS
    <3> QED
      BY <3>1, <3>2, <3>3, <3>4
  <2>3. processed[x] \o <<>> \o Deque(x) \o Coming(x)
          = processed[x] \o <<Head(Deque(x))>> \o Tail(Deque(x)) \o Coming(x)
    <3> DEFINE p == processed[x]
               q == Deque(x)
               k == Coming(x)
    <3>1. p \in Seq(Msgs) /\ q \in Seq(Msgs) /\ k \in Seq(Msgs) /\ q # <<>>
      BY <1>1, <1>8, HandTypes
    <3> HIDE DEF p, q, k
    <3>2. p \o <<>> \o q \o k = p \o <<Head(q)>> \o Tail(q) \o k
      BY <3>1, SeqPop
    <3> QED
      BY <3>2 DEF p, q, k
  <2> QED
    BY <1>3, <1>5, <1>6, <1>7, <1>8, <2>1, <2>2, <2>3 DEF Ordered, history
<1>9. CASE x # c
  <2>1. t \notin Processors(x)
    BY <1>5 DEF Processors, At
  <2>2. InHand(x)' = InHand(x)
    BY <1>0, <1>4, <1>9, <2>1, PoolKeepsProcessors, InHandKept
  <2>3. Deque(x)' = Deque(x)
    BY <1>6, <1>9, Roles
  <2> QED
    BY <1>5, <1>7, <2>2, <2>3 DEF Ordered, history
<1> QED
  BY <1>8, <1>9

LEMMA ProcessMessageOrdered ==
  ASSUME CInv, NEW t \in PoolThreads \cup {Manager}, ProcessMessage(t), NEW x \in Served, Ordered(x)
  PROVE  Ordered(x)'
<1>1. t \in Threads /\ TypeOK /\ At(t, "process")
  BY Roles DEF CInv, ProcessMessage
<1>2. PICK c \in Clients : c = ClientOf(t)
  BY <1>1, Roles DEF CInv, Places, At, AtRest
<1>3. PICK m \in Msgs : m = thread[t].msg
  BY <1>1 DEF CInv, Mail, Msgs
<1>4. Moved(t, "wait", c, NULL)
  BY <1>1, <1>2, PcMsgMoves DEF ProcessMessage, Pcs
<1>5. /\ UNCHANGED <<m_MsgQueue, received>>
      /\ processed' = [processed EXCEPT ![c] = Append(processed[c], m)]
  BY <1>2, <1>3 DEF ProcessMessage
<1>6. /\ processed'[c] = Append(processed[c], m)
      /\ \A y \in Clients \ {c} : processed'[y] = processed[y]
  BY <1>1, <1>5 DEF TypeOK
<1>7. Coming(x)' = Coming(x)
  <2>1. t # Dispatcher
    BY Roles
  <2> QED
    BY <1>1, <1>4, <2>1, OthersKeepComing
<1>8. CASE x = c
  <2>1. t \in PoolThreads
    BY <1>1, <1>2, <1>8 DEF CInv, Places, AtRest, At
  <2>2. t \in Workers(x)
    BY <1>1, <1>2, <1>8, <2>1 DEF Workers, At
  <2>3. Processors(x) = {t} /\ InHand(x) = <<m>>
    BY <1>1, <1>3, <2>2, OneProcessor
  <2>4. InHand(x)' = <<>>
    <3>1. Processors(x)' = {}
      BY <1>4, <2>3, Roles DEF Moved, Processors, Workers, At, ClientOf
    <3> QED
      BY <3>1 DEF InHand
  <2>5. processed[x] \o <<m>> \o Deque(x) \o Coming(x)
          = Append(processed[x], m) \o <<>> \o Deque(x) \o Coming(x)
    <3> DEFINE p == processed[x]
               q == Deque(x)
               k == Coming(x)
    <3>1. p \in Seq(Msgs)
      BY HandTypes
    <3> HIDE DEF p, q, k
    <3>2. p \o <<m>> \o q \o k = Append(p, m) \o <<>> \o q \o k
      BY <3>1, SeqProcess
    <3> QED
      BY <3>2 DEF p, q, k
  <2> QED
    BY <1>5, <1>6, <1>7, <1>8, <2>3, <2>4, <2>5 DEF Ordered, Deque
<1>9. CASE x # c
  <2>1. InHand(x)' = InHand(x)
    <3>1. CASE t \in PoolThreads
      <4>1. t \notin Processors(x)
        BY <1>2, <1>9 DEF Processors, Workers
      <4> QED
        BY <3>1, <4>1, <1>4, <1>9, PoolKeepsProcessors, InHandKept
    <3>2. CASE t = Manager
      BY <3>2, <1>4, OthersKeepProcessors, InHandKept
    <3> QED
      BY <3>1, <3>2
  <2>2. processed'[x] = processed[x]
    BY <1>6, <1>9, Roles
  <2> QED
    BY <1>5, <1>7, <2>1, <2>2 DEF Ordered, Deque
<1> QED
  BY <1>8, <1>9

LEMMA OrderedStays ==
  ASSUME CInv, CInv', [Next]_vars, NEW x \in Served, Ordered(x)
  PROVE  Ordered(x)'
<1>1. CASE \E c \in Clients : GroupPackage(c) \/ DelClient(c)
  BY <1>1, GroupPackageOrdered, DelClientOrdered
<1>2. CASE Dispatch
  BY <1>2, DispatchOrdered, PushMsgOrdered DEF Dispatch
<1>3. CASE \E t \in PoolThreads : Pool(t)
  BY <1>3, RestOrdered DEF Pool
<1>4. CASE \E t \in PoolThreads \cup {Manager} : Run(t)
  BY <1>4, RestOrdered, PopMsgOrdered, ProcessMessageOrdered DEF Run
<1>5. CASE UNCHANGED vars
  <2>1. InHand(x)' = InHand(x) /\ Coming(x)' = Coming(x)
    BY <1>5 DEF vars, InHand, Processors, Workers, Hand, At, ClientOf, Coming
  <2> QED
    BY <1>5, <2>1 DEF Ordered, Deque, vars, history
<1> QED
  BY <1>1, <1>2, <1>3, <1>4, <1>5 DEF Next

\* ProcessMessage gets the messages of a client of a server in the order they
\* came in, each once, and none is lost in the mailbox (ClientItem.cpp 133-177).
THEOREM InOrderHolds == Spec => []InOrder
<1>1. Init => InOrder
  <2>1. ASSUME Init, NEW x \in Served PROVE Ordered(x)
    <3>1. /\ processed[x] = <<>> /\ Deque(x) = <<>> /\ received[x] = 0
          /\ \A t \in Threads : thread[t] = Idle
      BY <2>1, Roles DEF Init, Deque, CreateQueue
    <3>2. InHand(x) = <<>> /\ Coming(x) = <<>>
      BY <3>1, Roles, IdleRec DEF InHand, Processors, Workers, Coming, ClientOf
    <3>3. <<>> \o <<>> \o <<>> \o <<>> = [i \in 1 .. 0 |-> i]
      OBVIOUS
    <3> QED
      BY <3>1, <3>2, <3>3 DEF Ordered
  <2> QED
    BY <2>1, InOrderIs
<1>2. ASSUME CInv, CInv', InOrder, [Next]_vars PROVE InOrder'
  <2>1. \A x \in Served : Ordered(x)'
    BY <1>2, InOrderIs, OrderedStays
  <2> QED
    BY <2>1 DEF InOrder, Ordered, InHand, Processors, Coming, Deque
<1> QED
  BY <1>1, <1>2, CInvHolds, PTL DEF Spec

-----------------------------------------------------------------------------
(* The lines of the log                                                    *)

Busy == {"find", "list", "remove", "write"}
Queued == m_LogDeque.m_deque

\* A thread that writes has the line it pushed last.
ThreadsWriteTheirOwn ==
  \A t \in Loggers :
    /\ doing[t] \in {"idle"} \cup Busy
    /\ doing[t] # "idle" => hand[t].by = t /\ hand[t].type = "syn" /\ hand[t].no <= pushed[t]

WasPushed(line) == line.by \in Loggers => line.no <= pushed[line.by]
Before(x, y) == x.by = y.by /\ x.type = y.type => x.no < y.no

QueueIsInOrder ==
  /\ \A j \in DOMAIN Queued :
       Queued[j].by \in Loggers /\ Queued[j].type = "asyn" /\ WasPushed(Queued[j])
  /\ \A j, l \in DOMAIN Queued : j < l => Before(Queued[j], Queued[l])

\* The worker has a line that comes before what is queued.
WorkerTakesTheFirst ==
  /\ doing[Log!worker] \in {"off", "wait", "ended"} \cup Busy
  /\ doing[Log!worker] \in Busy =>
       /\ hand[Log!worker].type = "asyn" /\ WasPushed(hand[Log!worker])
       /\ \A j \in DOMAIN Queued : Before(hand[Log!worker], Queued[j])

\* What is written comes before what is queued and before what is in a hand.
WrittenIsFirst ==
  \A m \in DOMAIN written :
    /\ WasPushed(written[m])
    /\ doing[Log!worker] = "off" => written[m].by # Log!worker
    /\ \A j \in DOMAIN Queued : Before(written[m], Queued[j])
    /\ \A w \in Log!Writers : doing[w] \in Busy => Before(written[m], hand[w])

LinesInv ==
  /\ ThreadsWriteTheirOwn /\ QueueIsInOrder /\ WorkerTakesTheFirst /\ WrittenIsFirst
  /\ Log!LinesInOrder

-----------------------------------------------------------------------------
(* Sequences, and the least and the greatest of integers                   *)

LEMMA HeadAndTail ==
  ASSUME NEW T, NEW q \in Seq(T), q # <<>>
  PROVE  /\ Tail(q) \in Seq(T) /\ DOMAIN Tail(q) = 1 .. Len(q) - 1 /\ DOMAIN q = 1 .. Len(q)
         /\ Head(q) = q[1] /\ 1 \in DOMAIN q /\ q[1] \in T /\ Len(q) \in Nat
         /\ \A j \in DOMAIN Tail(q) : j \in Nat /\ 1 < j + 1 /\ j + 1 \in DOMAIN q /\ Tail(q)[j] = q[j + 1]
<1>1. Tail(q) \in Seq(T) /\ Len(Tail(q)) = Len(q) - 1 /\ Len(q) \in Nat \ {0}
  BY HeadTailProperties, EmptySeq
<1>2. \A j \in 1 .. Len(Tail(q)) : Tail(q)[j] = q[j + 1]
  BY <1>1, HeadTailProperties
<1>3. Head(q) = q[1] /\ q[1] \in T
  BY <1>1
<1> QED
  BY <1>1, <1>2, <1>3

LEMMA OneMore ==
  ASSUME NEW T, NEW q \in Seq(T), NEW x \in T
  PROVE  /\ Append(q, x) \in Seq(T) /\ Append(q, x) # <<>>
         /\ \A j \in DOMAIN q : j \in Nat /\ j < Len(q) + 1 /\ Append(q, x)[j] = q[j]
         /\ Append(q, x)[Len(q) + 1] = x
         /\ \A j \in DOMAIN Append(q, x) : j \in DOMAIN q \/ j = Len(q) + 1
         /\ \A j, l \in DOMAIN Append(q, x) : j < l => j \in DOMAIN q
<1>1. Append(q, x) \in Seq(T) /\ Len(Append(q, x)) = Len(q) + 1 /\ Len(q) \in Nat
  BY AppendProperties
<1>2. Append(q, x)[Len(q) + 1] = x /\ \A j \in 1 .. Len(q) : Append(q, x)[j] = q[j]
  BY AppendProperties
<1>3. DOMAIN Append(q, x) = 1 .. Len(q) + 1 /\ DOMAIN q = 1 .. Len(q)
  BY <1>1
<1> QED
  BY <1>1, <1>2, <1>3

LEMMA ElementOf ==
  ASSUME NEW T, NEW q \in Seq(T), NEW j \in DOMAIN q
  PROVE  q[j] \in T
OBVIOUS

\* The order of the naturals, as a relation.
Below == {p \in Nat \X Nat : p[1] < p[2]}

LEMMA BelowWellFounded == IsWellFoundedOn(Below, Nat)
<1>1. OpToRel(<, Nat) = Below
  BY DEF OpToRel, Below
<1> QED
  BY <1>1, NatLessThanWellFounded, Zenon

LEMMA LeastExists ==
  ASSUME NEW S \in SUBSET Int, S # {}, NEW b \in Int, \A x \in S : b <= x
  PROVE  \E x \in S : \A y \in S : x <= y
<1> DEFINE T == {n \in Nat : b + n \in S}
<1>1. PICK x \in S : TRUE
  OBVIOUS
<1>2. x - b \in T
  BY <1>1
<1>3. PICK n \in T : \A m \in T : <<m, n>> \notin Below
  BY <1>2, BelowWellFounded, WFMin
<1>4. ASSUME NEW m \in T
      PROVE  n <= m
  <2>1. <<m, n>> \notin Below
    BY <1>3
  <2>2. <<m, n>> \in Nat \X Nat => ~(m < n)
    BY <2>1 DEF Below
  <2> QED
    BY <2>2
<1>5. ASSUME NEW y \in S PROVE b + n <= y
  <2>1. y - b \in T
    BY <1>5
  <2> QED
    BY <1>4, <2>1
<1> QED
  BY <1>3, <1>5

LEMMA GreatestExists ==
  ASSUME NEW S \in SUBSET Int, S # {}, NEW b \in Int, \A x \in S : x <= b
  PROVE  \E x \in S : \A y \in S : y <= x
<1> DEFINE T == {x \in Int : -x \in S}
<1>1. T \in SUBSET Int /\ -b \in Int
  OBVIOUS
<1>2. ASSUME NEW x \in S
      PROVE  -x \in T
  <2>1. x \in Int /\ -x \in Int /\ -(-x) = x
    OBVIOUS
  <2> QED
    BY <2>1
<1>3. ASSUME NEW x \in T
      PROVE  -b <= x
  <2>1. -x <= b /\ x \in Int
    OBVIOUS
  <2> QED
    BY <2>1
<1>4. T # {}
  BY <1>2
<1> HIDE DEF T
<1>5. PICK x \in T : \A y \in T : x <= y
  BY <1>1, <1>3, <1>4, LeastExists
<1>6. -x \in S /\ x \in Int
  BY DEF T
<1>7. ASSUME NEW y \in S
      PROVE  y <= -x
  <2>1. x <= -y /\ y \in Int
    BY <1>2, <1>5, <1>7
  <2> QED
    BY <1>6, <2>1
<1> QED
  BY <1>6, <1>7

-----------------------------------------------------------------------------
(* The files of the log                                                    *)

\* Names are local times, of this run or of earlier ones.
Lowest == -m_iMaxFileSum - MaxExcess - 2

FilesAreKnown ==
  /\ now \in Nat /\ shift \in {0, -2} /\ victim \in [Log!Writers -> SUBSET Int]
  /\ files \subseteq Log!File /\ IsFiniteSet(files)
  /\ \A f, g \in files : f.name = g.name => f = g
  /\ \A f \in files : f.created <= now /\ Lowest <= f.name /\ f.name <= now
  /\ \A w \in Log!Writers : Lowest <= target[w] /\ target[w] <= now

\* The file DeleteOldFile decides on.
Oldest ==
  IF files # {} /\ m_iMaxFileSum <= Cardinality(files) THEN {Log!OldFile.name} ELSE {}

NamesAreByAge == \A f, g \in files : f.name < g.name => f.created <= g.created

\* While only the worker writes its files are accounted for, there is room among
\* them for the one it makes, and that one is in order: its name is the last.
WorkerIsAlone ==
  m_nType = "asyn" =>
    /\ \A t \in Loggers : doing[t] = "idle"
    /\ Cardinality(files) <= m_iMaxFileSum + excess
    /\ doing[Log!worker] = "remove" => victim[Log!worker] = Oldest
    /\ doing[Log!worker] = "write" =>
         target[Log!worker] \in Log!Names(files) \/ Cardinality(files) < m_iMaxFileSum + excess
    /\ shift = 0 =>
         /\ NamesAreByAge
         /\ doing[Log!worker] = "write" =>
              target[Log!worker] \in Log!Names(files) \/ \A g \in files : g.name < target[Log!worker]

FilesInv == FilesAreKnown /\ WorkerIsAlone

LEMMA FileTyped ==
  ASSUME FilesAreKnown, NEW f \in files
  PROVE  f.name \in Int /\ f.created \in Int /\ f.size \in Nat
BY DEF FilesAreKnown, Log!File

LEMMA NewestIsThere ==
  ASSUME FilesAreKnown, files # {}
  PROVE  Log!Newest \in files
<1> DEFINE C == {f.created : f \in files}
<1>1. C \in SUBSET Int /\ C # {} /\ now \in Int /\ \A x \in C : x <= now
  BY FileTyped DEF FilesAreKnown
<1>2. PICK c \in C : \A x \in C : x <= c
  <2> HIDE DEF C
  <2> QED
    BY <1>1, GreatestExists
<1> DEFINE N == {f.name : f \in {g \in files : g.created = c}}
<1>3. N \in SUBSET Int /\ N # {} /\ Lowest \in Int /\ \A x \in N : Lowest <= x
  BY LogAssumption, FileTyped DEF FilesAreKnown, Lowest
<1>4. PICK n \in N : \A x \in N : n <= x
  <2> HIDE DEF C, N
  <2> QED
    BY <1>3, LeastExists
<1>5. PICK f \in files : f.created = c /\ f.name = n
  OBVIOUS
<1>6. ASSUME NEW g \in files \ {f}
      PROVE  g.created < f.created \/ (g.created = f.created /\ Log!Listed(f, g))
  <2>1. g.created <= c /\ (g.created = c => n <= g.name)
    BY <1>2, <1>4
  <2>2. f.name # g.name
    BY DEF FilesAreKnown
  <2> QED
    BY <1>5, <2>1, <2>2, FileTyped DEF Log!Listed
<1> QED
  BY <1>6 DEF Log!Newest

LEMMA FirstIsThere ==
  ASSUME FilesAreKnown, files # {}
  PROVE  Log!First \in files /\ \A g \in files \ {Log!First} : Log!First.name < g.name
<1> DEFINE N == {f.name : f \in files}
<1>1. N \in SUBSET Int /\ N # {} /\ Lowest \in Int /\ \A x \in N : Lowest <= x
  BY LogAssumption, FileTyped DEF FilesAreKnown, Lowest
<1>2. PICK n \in N : \A x \in N : n <= x
  <2> HIDE DEF N
  <2> QED
    BY <1>1, LeastExists
<1>3. PICK f \in files : f.name = n
  OBVIOUS
<1>4. ASSUME NEW g \in files \ {f}
      PROVE  Log!Listed(f, g)
  <2>1. n <= g.name /\ f.name # g.name
    BY <1>2, <1>3 DEF FilesAreKnown
  <2> QED
    BY <1>3, <2>1, FileTyped DEF Log!Listed
<1>5. Log!First \in files /\ \A g \in files \ {Log!First} : Log!Listed(Log!First, g)
  BY <1>4 DEF Log!First
<1> QED
  BY <1>5 DEF Log!Listed

LEMMA OldFileIsThere ==
  ASSUME FilesAreKnown, files # {}
  PROVE  /\ Log!OldFile \in files
         /\ \/ Log!OldFile.created < Log!First.created
            \/ Log!OldFile = Log!First /\ \A g \in files : Log!First.created <= g.created
<1> DEFINE older == {f \in files : f.created < Log!First.created}
<1>0. Log!First \in files
  BY FirstIsThere
<1>1. CASE older = {}
  <2>1. Log!OldFile = Log!First
    BY <1>1 DEF Log!OldFile
  <2>2. ASSUME NEW g \in files
        PROVE  Log!First.created <= g.created
    <3>1. ~(g.created < Log!First.created)
      BY <1>1
    <3> QED
      BY <1>0, <3>1, FileTyped
  <2> QED
    BY <1>0, <2>1, <2>2
<1>2. CASE older # {}
  <2> DEFINE N == {f.name : f \in older}
  <2>1. N \in SUBSET Int /\ N # {} /\ now \in Int /\ \A x \in N : x <= now
    BY <1>2, FileTyped DEF FilesAreKnown
  <2>2. PICK n \in N : \A x \in N : x <= n
    <3> HIDE DEF N
    <3> QED
      BY <2>1, GreatestExists
  <2>3. PICK f \in older : f.name = n
    OBVIOUS
  <2>4. ASSUME NEW g \in older \ {f}
        PROVE  Log!Listed(g, f)
    <3>1. g.name <= n /\ f.name # g.name
      BY <2>2, <2>3 DEF FilesAreKnown
    <3> QED
      BY <2>3, <3>1, FileTyped DEF Log!Listed
  <2>5. Log!OldFile = CHOOSE x \in older : \A g \in older \ {x} : Log!Listed(g, x)
    BY <1>2 DEF Log!OldFile
  <2> HIDE DEF older
  <2>6. Log!OldFile \in older
    BY <2>4, <2>5
  <2> QED
    BY <2>6 DEF older
<1> QED
  BY <1>1, <1>2

-----------------------------------------------------------------------------
(* Types                                                                   *)

LogInv == Log!TypeOK /\ LinesInv /\ FilesInv

Doings == {"off", "idle", "wait", "find", "list", "remove", "write", "ended"}

LEMMA WorkerIsNoLogger == Log!worker \notin Loggers /\ Log!worker \in Log!Writers /\ \A t \in Loggers : t \in Log!Writers /\ t # Log!worker
BY LogAssumption DEF Log!worker, Log!Writers

LEMMA GoesThere ==
  ASSUME Log!TypeOK, NEW w \in Log!Writers, NEW a, NEW b \in Doings, Log!Goto(w, a, b)
  PROVE  /\ doing[w] = a /\ doing'[w] = b /\ doing' \in [Log!Writers -> Doings]
         /\ \A v \in Log!Writers \ {w} : doing'[v] = doing[v]
BY DEF Log!TypeOK, Log!Goto, Doings

LEMMA RestIsADoing == \A w : Log!Rest(w) \in Doings /\ Log!Rest(w) \notin Busy
BY DEF Log!Rest, Doings, Busy

LEMMA HeadIsALine == Log!LogHead \in Log!Line /\ Log!LogHead.by = Log!worker /\ Log!LogHead.no = 1 /\ Log!LogHead.type = "asyn"
BY LogAssumption DEF Log!LogHead, Log!Line, Log!Writers, Log!Levels

LEMMA NoLineIsALine == Log!NoLine \in Log!Line
BY LogAssumption DEF Log!NoLine, Log!LogHead, Log!Line, Log!Writers, Log!Levels

\* The line a thread pushes, as PushLog has it.
Pushed(t, level) == [by |-> t, no |-> pushed[t] + 1, level |-> level, type |-> m_nType]

LEMMA PushedIsALine ==
  ASSUME Log!TypeOK, NEW t \in Loggers, pushed[t] < MaxLines, NEW level \in {1, 3}
  PROVE  /\ Pushed(t, level) \in Log!Line /\ Pushed(t, level).by = t
         /\ Pushed(t, level).no = pushed[t] + 1 /\ Pushed(t, level).type = m_nType
<1>1. pushed[t] + 1 \in 0 .. MaxLines + 1 /\ m_nType \in {"asyn", "syn"}
  BY LogAssumption DEF Log!TypeOK
<1>2. t \in Log!Writers /\ level \in Log!Levels
  BY DEF Log!Writers, Log!Levels
<1> QED
  BY <1>1, <1>2 DEF Pushed, Log!Line

\* What a push does to the queue, and what a pop does.
LEMMA QueueAppends ==
  ASSUME Log!TypeOK, NEW x \in Log!Line, m_LogDeque' = Log!PushBack(m_LogDeque, x)
  PROVE  /\ m_LogDeque'.m_deque = Append(Queued, x) /\ m_LogDeque'.m_deque \in Seq(Log!Line)
         /\ m_LogDeque'.m_hevent = (m_LogDeque'.m_deque # <<>>)
<1>1. m_LogDeque'.m_deque = Append(Queued, x) /\ m_LogDeque'.m_hevent = TRUE
  BY DEF Log!PushBack, Queued
<1>2. Append(Queued, x) \in Seq(Log!Line) /\ Append(Queued, x) # <<>>
  <2>1. Queued \in Seq(Log!Line)
    BY DEF Log!TypeOK, Queued
  <2> QED
    BY <2>1, OneMore
<1> QED
  BY <1>1, <1>2

LEMMA QueuePops ==
  ASSUME Log!TypeOK, m_LogDeque.m_hevent, m_LogDeque' = Log!PopFront(m_LogDeque)
  PROVE  /\ Queued \in Seq(Log!Line) /\ Queued # <<>> /\ Log!Popped(m_LogDeque, Log!NoLine) = Queued[1] /\ Queued[1] \in Log!Line
         /\ m_LogDeque'.m_deque = Tail(Queued) /\ m_LogDeque'.m_deque \in Seq(Log!Line)
         /\ m_LogDeque'.m_hevent = (m_LogDeque'.m_deque # <<>>)
<1>1. Queued \in Seq(Log!Line) /\ Queued # <<>>
  BY DEF Log!TypeOK, Queued
<1>2. /\ m_LogDeque'.m_deque = Tail(Queued)
      /\ m_LogDeque'.m_hevent = (m_LogDeque.m_hevent /\ Tail(Queued) # <<>>)
      /\ Log!Popped(m_LogDeque, Log!NoLine) = Head(Queued)
  BY <1>1 DEF Log!PopFront, Log!Popped, Queued
<1>3. m_LogDeque'.m_hevent = (Tail(Queued) # <<>>)
  BY <1>2, Zenon
<1>4. Head(Queued) = Queued[1] /\ Queued[1] \in Log!Line /\ Tail(Queued) \in Seq(Log!Line)
  BY <1>1, HeadAndTail
<1> QED
  BY <1>1, <1>2, <1>3, <1>4

-----------------------------------------------------------------------------
(* The lines stay in order                                                 *)

LEMMA OrderIsBefore == Log!LinesInOrder <=> \A j, l \in DOMAIN written : j < l => Before(written[j], written[l])
BY DEF Log!LinesInOrder, Before

\* A step between two lines.
LinesStay ==
  /\ m_LogDeque' = m_LogDeque /\ hand' = hand /\ pushed' = pushed /\ written' = written
  /\ \A w \in Log!Writers :
       \/ doing'[w] = doing[w]
       \/ doing[w] \in Busy /\ doing'[w] \in Busy
       \/ w = Log!worker /\ doing[w] = "wait" /\ doing'[w] = "ended"

LEMMA LinesKeep ==
  ASSUME LinesInv, LinesStay
  PROVE  LinesInv'
<1>1. \A w \in Log!Writers : doing'[w] \in Busy => doing[w] \in Busy
  BY DEF LinesStay, Busy
<1>2. ThreadsWriteTheirOwn'
  BY <1>1, WorkerIsNoLogger DEF LinesInv, LinesStay, ThreadsWriteTheirOwn, Busy
<1>3. QueueIsInOrder'
  BY DEF LinesInv, LinesStay, QueueIsInOrder, WasPushed, Queued
<1>4. WorkerTakesTheFirst'
  BY <1>1, WorkerIsNoLogger DEF LinesInv, LinesStay, WorkerTakesTheFirst, WasPushed, Queued, Busy
<1>5. WrittenIsFirst'
  <2>1. doing'[Log!worker] = "off" => doing[Log!worker] = "off"
    BY WorkerIsNoLogger DEF LinesStay, Busy
  <2> QED
    BY <1>1, <2>1 DEF LinesInv, LinesStay, WrittenIsFirst, WasPushed, Queued
<1>6. Log!LinesInOrder'
  BY DEF LinesInv, LinesStay, Log!LinesInOrder
<1> QED
  BY <1>2, <1>3, <1>4, <1>5, <1>6 DEF LinesInv

\* The worker gets a line that comes before what is left in the queue and
\* after what is written.
LEMMA LinesTaken ==
  ASSUME Log!TypeOK, LinesInv, NEW x \in Log!Line, hand' = [hand EXCEPT ![Log!worker] = x],
         pushed' = pushed, written' = written,
         doing' \in [Log!Writers -> Doings], doing'[Log!worker] \in {"wait", "find"},
         doing[Log!worker] \notin Busy,
         \A w \in Log!Writers \ {Log!worker} : doing'[w] = doing[w],
         QueueIsInOrder',
         doing'[Log!worker] = "find" =>
           /\ x.type = "asyn" /\ WasPushed(x)
           /\ \A j \in DOMAIN Queued' : Before(x, Queued'[j])
           /\ \A m \in DOMAIN written : Before(written[m], x),
         \A m \in DOMAIN written : \A j \in DOMAIN Queued' : Before(written[m], Queued'[j])
  PROVE  LinesInv'
<1>0. hand'[Log!worker] = x /\ \A w \in Log!Writers \ {Log!worker} : hand'[w] = hand[w]
  BY WorkerIsNoLogger DEF Log!TypeOK
<1>1. ThreadsWriteTheirOwn'
  BY <1>0, WorkerIsNoLogger DEF LinesInv, ThreadsWriteTheirOwn
<1>2. WorkerTakesTheFirst'
  BY <1>0 DEF WorkerTakesTheFirst, WasPushed, Busy
<1>3. WrittenIsFirst'
  <2> SUFFICES ASSUME NEW m \in DOMAIN written
               PROVE  /\ WasPushed(written[m])
                      /\ doing'[Log!worker] # "off"
                      /\ \A j \in DOMAIN Queued' : Before(written[m], Queued'[j])
                      /\ \A w \in Log!Writers : doing'[w] \in Busy => Before(written[m], hand'[w])
    BY DEF WrittenIsFirst, WasPushed
  <2>1. WasPushed(written[m]) /\ \A w \in Log!Writers : doing[w] \in Busy => Before(written[m], hand[w])
    BY DEF LinesInv, WrittenIsFirst
  <2>2. ASSUME NEW w \in Log!Writers, doing'[w] \in Busy
        PROVE  Before(written[m], hand'[w])
    BY <1>0, <2>1, <2>2 DEF Busy
  <2> QED
    BY <2>1, <2>2
<1>4. Log!LinesInOrder'
  BY DEF LinesInv, Log!LinesInOrder
<1> QED
  BY <1>1, <1>2, <1>3, <1>4 DEF LinesInv

LEMMA StartLogLines ==
  ASSUME Log!TypeOK, LinesInv, Log!StartLog
  PROVE  LinesInv'
<1>1. /\ doing[Log!worker] = "off" /\ doing'[Log!worker] = "find" /\ doing' \in [Log!Writers -> Doings]
      /\ \A w \in Log!Writers \ {Log!worker} : doing'[w] = doing[w]
  BY GoesThere, WorkerIsNoLogger DEF Log!StartLog, Doings
<1>2. /\ hand' = [hand EXCEPT ![Log!worker] = Log!LogHead] /\ pushed' = pushed /\ written' = written
      /\ Queued' = Queued
  BY DEF Log!StartLog, Log!history, Log!log, Queued
<1>3. WasPushed(Log!LogHead)
  BY HeadIsALine, WorkerIsNoLogger DEF WasPushed
<1>4. \A j \in DOMAIN Queued : Before(Log!LogHead, Queued[j])
  BY HeadIsALine, WorkerIsNoLogger DEF LinesInv, QueueIsInOrder, Before
<1>5. \A m \in DOMAIN written : Before(written[m], Log!LogHead)
  BY <1>1, HeadIsALine DEF LinesInv, WrittenIsFirst, Before
<1>6. QueueIsInOrder'
  BY <1>2 DEF LinesInv, QueueIsInOrder, WasPushed
<1>7. \A m \in DOMAIN written : \A j \in DOMAIN Queued' : Before(written[m], Queued'[j])
  BY <1>2 DEF LinesInv, WrittenIsFirst
<1> QED
  BY <1>1, <1>2, <1>3, <1>4, <1>5, <1>6, <1>7, HeadIsALine, LinesTaken DEF Busy

LEMMA TakeLineLines ==
  ASSUME Log!TypeOK, LinesInv, Log!TakeLine
  PROVE  LinesInv'
<1> DEFINE x == Queued[1]
           q == Queued'
<1>1. /\ Queued \in Seq(Log!Line) /\ Queued # <<>> /\ Log!Popped(m_LogDeque, Log!NoLine) = x /\ x \in Log!Line
      /\ q = Tail(Queued)
  BY QueuePops DEF Log!TakeLine, Queued
<1>2. /\ 1 \in DOMAIN Queued
      /\ \A j \in DOMAIN q : j \in Nat /\ 1 < j + 1 /\ j + 1 \in DOMAIN Queued /\ q[j] = Queued[j + 1]
  BY <1>1, HeadAndTail
<1> HIDE DEF x, q
<1>3. PICK y \in {x, Log!NoLine} :
        /\ hand' = [hand EXCEPT ![Log!worker] = y]
        /\ Log!Goto(Log!worker, "wait", IF y = x /\ Log!Passes(x) THEN "find" ELSE "wait")
        /\ Log!Passes(x) => y = x
  BY <1>1 DEF Log!TakeLine
<1>4. /\ doing[Log!worker] = "wait" /\ doing'[Log!worker] \in {"wait", "find"} /\ doing' \in [Log!Writers -> Doings]
      /\ \A w \in Log!Writers \ {Log!worker} : doing'[w] = doing[w]
      /\ doing'[Log!worker] = "find" => y = x
  <2>1. CASE y = x /\ Log!Passes(x)
    BY <1>3, <2>1, GoesThere, WorkerIsNoLogger DEF Doings
  <2>2. CASE ~(y = x /\ Log!Passes(x))
    BY <1>3, <2>2, GoesThere, WorkerIsNoLogger DEF Doings
  <2> QED
    BY <2>1, <2>2
<1>5. pushed' = pushed /\ written' = written
  BY DEF Log!TakeLine, Log!history
<1>6. x.type = "asyn" /\ WasPushed(x) /\ \A j \in DOMAIN q : Before(x, q[j])
  BY <1>2 DEF x, LinesInv, QueueIsInOrder
<1>7. \A m \in DOMAIN written : Before(written[m], x) /\ \A j \in DOMAIN q : Before(written[m], q[j])
  BY <1>2 DEF x, LinesInv, WrittenIsFirst
<1>8. QueueIsInOrder'
  <2>1. \A j \in DOMAIN q : q[j].by \in Loggers /\ q[j].type = "asyn" /\ WasPushed(q[j])
    BY <1>2 DEF LinesInv, QueueIsInOrder
  <2>2. ASSUME NEW j \in DOMAIN q, NEW l \in DOMAIN q, j < l
        PROVE  Before(q[j], q[l])
    <3>1. j + 1 < l + 1
      BY <1>2, <2>2
    <3> QED
      BY <1>2, <3>1 DEF LinesInv, QueueIsInOrder
  <2> QED
    BY <1>5, <2>1, <2>2 DEF QueueIsInOrder, WasPushed, q
<1>9. y \in Log!Line
  BY <1>1, NoLineIsALine
<1> QED
  BY <1>3, <1>4, <1>5, <1>6, <1>7, <1>8, <1>9, LinesTaken DEF Busy, q

\* The queue gets a line that its thread has just pushed.
LEMMA LinesPushed ==
  ASSUME Log!TypeOK, LinesInv, NEW t \in Loggers, NEW x \in Log!Line,
         x.by = t, x.no = pushed[t] + 1, x.type = "asyn",
         pushed' = [pushed EXCEPT ![t] = @ + 1],
         Queued' = Append(Queued, x), UNCHANGED <<doing, hand, written>>
  PROVE  LinesInv'
<1>0. /\ Queued \in Seq(Log!Line) /\ written \in Seq(Log!Line) /\ hand \in [Log!Writers -> Log!Line]
      /\ pushed \in [Loggers -> Nat] /\ pushed' \in [Loggers -> Nat]
      /\ pushed'[t] = pushed[t] + 1 /\ \A s \in Loggers \ {t} : pushed'[s] = pushed[s]
  <2>1. pushed \in [Loggers -> Nat] /\ pushed' = [pushed EXCEPT ![t] = pushed[t] + 1]
    BY DEF Log!TypeOK
  <2> QED
    BY <2>1 DEF Log!TypeOK, Queued
<1>1. /\ \A j \in DOMAIN Queued : j \in Nat /\ j < Len(Queued) + 1 /\ Queued'[j] = Queued[j]
      /\ Queued'[Len(Queued) + 1] = x
      /\ \A j \in DOMAIN Queued' : j \in DOMAIN Queued \/ j = Len(Queued) + 1
      /\ \A j, l \in DOMAIN Queued' : j < l => j \in DOMAIN Queued
  BY <1>0, OneMore
<1>2. ASSUME NEW y \in Log!Line, WasPushed(y)
      PROVE  Before(y, x) /\ (y.by \in Loggers => y.no <= pushed'[y.by])
  <2>1. y.no \in Nat
    BY DEF Log!Line
  <2>2. CASE y.by = t
    BY <1>0, <1>2, <2>1, <2>2 DEF WasPushed, Before
  <2>3. CASE y.by # t
    BY <1>0, <1>2, <2>1, <2>3 DEF WasPushed, Before
  <2> QED
    BY <2>2, <2>3
<1>3. (\A j \in DOMAIN Queued : Queued[j] \in Log!Line) /\ (\A m \in DOMAIN written : written[m] \in Log!Line)
  BY <1>0, ElementOf

<1>5. x.by \in Loggers => x.no <= pushed'[x.by]
  BY <1>0
<1>6. ThreadsWriteTheirOwn'
  <2>1. \A s \in Loggers : pushed[s] <= pushed'[s] /\ pushed[s] \in Nat /\ pushed'[s] \in Nat /\ hand[s].no \in Nat
    <3>1. \A s \in Loggers : hand[s] \in Log!Line
      BY <1>0, WorkerIsNoLogger
    <3> QED
      BY <1>0, <3>1 DEF Log!Line
  <2> QED
    BY <2>1 DEF LinesInv, ThreadsWriteTheirOwn
<1>7. QueueIsInOrder'
  <2>1. ASSUME NEW j \in DOMAIN Queued'
        PROVE  Queued'[j].by \in Loggers /\ Queued'[j].type = "asyn" /\ (Queued'[j].no <= pushed'[Queued'[j].by])
    <3>1. CASE j \in DOMAIN Queued
      <4>1. Queued[j].by \in Loggers /\ Queued[j].type = "asyn" /\ WasPushed(Queued[j]) /\ Queued[j] \in Log!Line
        BY <1>3, <3>1 DEF LinesInv, QueueIsInOrder
      <4> QED
        BY <1>1, <1>2, <3>1, <4>1
    <3>2. CASE j = Len(Queued) + 1
      BY <1>0, <1>1, <3>2
    <3> QED
      BY <1>1, <3>1, <3>2
  <2>2. ASSUME NEW j \in DOMAIN Queued', NEW l \in DOMAIN Queued', j < l
        PROVE  Before(Queued'[j], Queued'[l])
    <3>1. j \in DOMAIN Queued /\ Queued'[j] = Queued[j]
      BY <1>1, <2>2
    <3>2. CASE l \in DOMAIN Queued
      BY <1>1, <2>2, <3>1, <3>2 DEF LinesInv, QueueIsInOrder
    <3>3. CASE l = Len(Queued) + 1
      <4>1. Before(Queued[j], x)
        BY <1>2, <1>3, <3>1 DEF LinesInv, QueueIsInOrder
      <4> QED
        BY <1>1, <3>1, <3>3, <4>1
    <3> QED
      BY <1>1, <3>2, <3>3
  <2> QED
    BY <2>1, <2>2 DEF QueueIsInOrder, WasPushed
<1>8. ASSUME NEW y \in Log!Line, WasPushed(y), \A j \in DOMAIN Queued : Before(y, Queued[j])
      PROVE  \A j \in DOMAIN Queued' : Before(y, Queued'[j])
  BY <1>1, <1>2, <1>8
<1>9. WorkerTakesTheFirst'
  <2>1. hand[Log!worker] \in Log!Line
    BY <1>0, WorkerIsNoLogger
  <2>2. doing[Log!worker] \in Busy => /\ (hand[Log!worker].by \in Loggers => hand[Log!worker].no <= pushed'[hand[Log!worker].by])
                                  /\ \A j \in DOMAIN Queued' : Before(hand[Log!worker], Queued'[j])
    <3> SUFFICES ASSUME doing[Log!worker] \in Busy
                 PROVE  /\ hand[Log!worker].by \in Loggers => hand[Log!worker].no <= pushed'[hand[Log!worker].by]
                        /\ \A j \in DOMAIN Queued' : Before(hand[Log!worker], Queued'[j])
      BY DEF WasPushed
    <3>1. WasPushed(hand[Log!worker]) /\ \A j \in DOMAIN Queued : Before(hand[Log!worker], Queued[j])
      BY DEF LinesInv, WorkerTakesTheFirst
    <3> QED
      BY <1>2, <1>8, <2>1, <3>1
  <2> QED
    BY <2>2 DEF LinesInv, WorkerTakesTheFirst, WasPushed
<1>10. WrittenIsFirst'
  <2> SUFFICES ASSUME NEW m \in DOMAIN written
               PROVE  /\ written[m].by \in Loggers => written[m].no <= pushed'[written[m].by]
                      /\ doing[Log!worker] = "off" => written[m].by # Log!worker
                      /\ \A j \in DOMAIN Queued' : Before(written[m], Queued'[j])
                      /\ \A w \in Log!Writers : doing[w] \in Busy => Before(written[m], hand[w])
    BY DEF WrittenIsFirst, WasPushed
  <2>1. WasPushed(written[m]) /\ written[m] \in Log!Line /\ \A j \in DOMAIN Queued : Before(written[m], Queued[j])
    BY <1>3 DEF LinesInv, WrittenIsFirst
  <2> QED
    BY <1>2, <1>8, <2>1 DEF LinesInv, WrittenIsFirst
<1>11. Log!LinesInOrder'
  BY DEF LinesInv, Log!LinesInOrder
<1> QED
  BY <1>6, <1>7, <1>9, <1>10, <1>11 DEF LinesInv

\* A thread pushes a line that it writes itself, or that is dropped.
LEMMA LinesOfThread ==
  ASSUME Log!TypeOK, LinesInv, NEW t \in Loggers, doing[t] = "idle",
         pushed' = [pushed EXCEPT ![t] = @ + 1], Queued' = Queued, written' = written,
         doing' \in [Log!Writers -> Doings], \A w \in Log!Writers \ {t} : doing'[w] = doing[w],
         \/ hand' = hand /\ doing'[t] = "idle"
         \/ \E x \in Log!Line : /\ x.by = t /\ x.no = pushed[t] + 1 /\ x.type = "syn"
                            /\ hand' = [hand EXCEPT ![t] = x] /\ doing'[t] = "find"
  PROVE  LinesInv'
<1>0. /\ Queued \in Seq(Log!Line) /\ written \in Seq(Log!Line) /\ hand \in [Log!Writers -> Log!Line]
      /\ pushed \in [Loggers -> Nat] /\ pushed' \in [Loggers -> Nat]
      /\ pushed'[t] = pushed[t] + 1 /\ \A s \in Loggers \ {t} : pushed'[s] = pushed[s]
      /\ t \in Log!Writers
  <2>1. pushed \in [Loggers -> Nat] /\ pushed' = [pushed EXCEPT ![t] = pushed[t] + 1]
    BY DEF Log!TypeOK
  <2> QED
    BY <2>1, WorkerIsNoLogger DEF Log!TypeOK, Queued
<1>1. \A w \in Log!Writers \ {t} : hand'[w] = hand[w]
  BY <1>0
<1>2. ASSUME NEW y \in Log!Line, WasPushed(y)
      PROVE  y.by \in Loggers => y.no <= pushed'[y.by] /\ (y.by = t => y.no < pushed[t] + 1)
  <2>1. y.no \in Nat
    BY DEF Log!Line
  <2>2. CASE y.by = t
    BY <1>0, <1>2, <2>1, <2>2 DEF WasPushed
  <2>3. CASE y.by # t
    BY <1>0, <1>2, <2>1, <2>3 DEF WasPushed
  <2> QED
    BY <2>2, <2>3
<1>3. (\A j \in DOMAIN Queued : Queued[j] \in Log!Line) /\ (\A m \in DOMAIN written : written[m] \in Log!Line)
  BY <1>0, ElementOf
<1>4. doing'[t] # "idle" => /\ doing'[t] = "find" /\ hand'[t].by = t /\ hand'[t].type = "syn"
                            /\ hand'[t].no = pushed[t] + 1
  BY <1>0
<1>5. ThreadsWriteTheirOwn'
  <2> SUFFICES ASSUME NEW s \in Loggers
               PROVE  /\ doing'[s] \in {"idle"} \cup Busy
                      /\ doing'[s] # "idle" => hand'[s].by = s /\ hand'[s].type = "syn" /\ hand'[s].no <= pushed'[s]
    BY DEF ThreadsWriteTheirOwn
  <2>1. CASE s = t
    BY <1>0, <1>4, <2>1 DEF Busy
  <2>2. CASE s # t
    <3>1. s \in Log!Writers \ {t} /\ pushed'[s] = pushed[s]
      BY <1>0, <2>2, WorkerIsNoLogger
    <3> QED
      BY <1>1, <3>1 DEF LinesInv, ThreadsWriteTheirOwn
  <2> QED
    BY <2>1, <2>2
<1>6. QueueIsInOrder'
  BY <1>2, <1>3 DEF LinesInv, QueueIsInOrder, WasPushed
<1>7. WorkerTakesTheFirst'
  <2>1. hand'[Log!worker] = hand[Log!worker] /\ hand[Log!worker] \in Log!Line /\ doing'[Log!worker] = doing[Log!worker]
    BY <1>0, <1>1, WorkerIsNoLogger
  <2> QED
    BY <1>2, <2>1 DEF LinesInv, WorkerTakesTheFirst, WasPushed
<1>8. WrittenIsFirst'
  <2> SUFFICES ASSUME NEW m \in DOMAIN written
               PROVE  /\ written[m].by \in Loggers => written[m].no <= pushed'[written[m].by]
                      /\ doing'[Log!worker] = "off" => written[m].by # Log!worker
                      /\ \A j \in DOMAIN Queued : Before(written[m], Queued[j])
                      /\ \A w \in Log!Writers : doing'[w] \in Busy => Before(written[m], hand'[w])
    BY DEF WrittenIsFirst, WasPushed
  <2>1. /\ WasPushed(written[m]) /\ written[m] \in Log!Line /\ \A j \in DOMAIN Queued : Before(written[m], Queued[j])
        /\ doing[Log!worker] = "off" => written[m].by # Log!worker
        /\ \A w \in Log!Writers : doing[w] \in Busy => Before(written[m], hand[w])
    BY <1>3 DEF LinesInv, WrittenIsFirst
  <2>2. ASSUME NEW w \in Log!Writers, doing'[w] \in Busy
        PROVE  Before(written[m], hand'[w])
    <3>1. CASE w = t
      BY <1>2, <1>4, <2>1, <2>2, <3>1 DEF Before, Busy
    <3>2. CASE w # t
      BY <1>1, <2>1, <2>2, <3>2
    <3> QED
      BY <3>1, <3>2
  <2> QED
    BY <1>2, <2>1, <2>2, WorkerIsNoLogger
<1>9. Log!LinesInOrder'
  BY DEF LinesInv, Log!LinesInOrder
<1> QED
  BY <1>5, <1>6, <1>7, <1>8, <1>9 DEF LinesInv

\* A line is written, or lost.
LEMMA LinesFinished ==
  ASSUME Log!TypeOK, LinesInv, NEW w \in Log!Writers, doing[w] = "write", doing'[w] = Log!Rest(w),
         \A v \in Log!Writers \ {w} : doing'[v] = doing[v],
         hand' = [hand EXCEPT ![w] = Log!NoLine], Queued' = Queued, pushed' = pushed,
         written' = written \/ written' = Append(written, hand[w])
  PROVE  LinesInv'
<1>0. /\ written \in Seq(Log!Line) /\ hand \in [Log!Writers -> Log!Line] /\ hand[w] \in Log!Line
  BY DEF Log!TypeOK
<1>1. \A v \in Log!Writers \ {w} : hand'[v] = hand[v]
  BY <1>0
<1>2. \A v \in Log!Writers : doing'[v] \in Busy => v # w /\ doing[v] \in Busy
  BY RestIsADoing
<1>3. \A m \in DOMAIN written' :
        \/ m \in DOMAIN written /\ written'[m] = written[m]
        \/ written'[m] = hand[w]
  BY <1>0, OneMore
<1>4. /\ WasPushed(hand[w]) /\ (doing'[Log!worker] = "off" => hand[w].by # Log!worker)
      /\ \A j \in DOMAIN Queued : Before(hand[w], Queued[j])
      /\ \A v \in Log!Writers \ {w} : doing[v] \in Busy => Before(hand[w], hand[v])
  <2>1. CASE w = Log!worker
    <3>1. hand[w].type = "asyn" /\ WasPushed(hand[w]) /\ \A j \in DOMAIN Queued : Before(hand[w], Queued[j])
      BY <2>1 DEF LinesInv, WorkerTakesTheFirst, Busy
    <3>2. \A v \in Log!Writers \ {w} : doing[v] \in Busy => hand[v].type = "syn"
      BY <2>1 DEF LinesInv, ThreadsWriteTheirOwn, Log!Writers, Busy
    <3> QED
      BY <2>1, <3>1, <3>2 DEF Before, Log!Rest
  <2>2. CASE w # Log!worker
    <3>1. w \in Loggers
      BY <2>2 DEF Log!Writers
    <3>2. hand[w].by = w /\ hand[w].type = "syn" /\ hand[w].no <= pushed[w]
      BY <3>1 DEF LinesInv, ThreadsWriteTheirOwn
    <3>3. \A v \in Log!Writers \ {w} : doing[v] \in Busy => hand[v].type = "asyn" \/ hand[v].by # w
      BY <3>1 DEF LinesInv, ThreadsWriteTheirOwn, WorkerTakesTheFirst, Log!Writers, Busy
    <3> QED
      BY <2>2, <3>2, <3>3 DEF Before, WasPushed, LinesInv, QueueIsInOrder
  <2> QED
    BY <2>1, <2>2
<1>5. ThreadsWriteTheirOwn'
  <2> SUFFICES ASSUME NEW s \in Loggers
               PROVE  /\ doing'[s] \in {"idle"} \cup Busy
                      /\ doing'[s] # "idle" => hand'[s].by = s /\ hand'[s].type = "syn" /\ hand'[s].no <= pushed[s]
    BY DEF ThreadsWriteTheirOwn
  <2>1. CASE s = w
    BY <2>1, WorkerIsNoLogger DEF Log!Rest
  <2>2. CASE s # w
    BY <1>1, <2>2, WorkerIsNoLogger DEF LinesInv, ThreadsWriteTheirOwn
  <2> QED
    BY <2>1, <2>2
<1>6. QueueIsInOrder'
  BY DEF LinesInv, QueueIsInOrder, WasPushed
<1>7. WorkerTakesTheFirst'
  <2>1. CASE w = Log!worker
    BY <2>1 DEF WorkerTakesTheFirst, Log!Rest, Busy
  <2>2. CASE w # Log!worker
    BY <1>1, <2>2, WorkerIsNoLogger DEF LinesInv, WorkerTakesTheFirst, WasPushed
  <2> QED
    BY <2>1, <2>2
<1>8. WrittenIsFirst'
  <2> SUFFICES ASSUME NEW m \in DOMAIN written'
               PROVE  /\ WasPushed(written'[m])
                      /\ doing'[Log!worker] = "off" => written'[m].by # Log!worker
                      /\ \A j \in DOMAIN Queued : Before(written'[m], Queued[j])
                      /\ \A v \in Log!Writers : doing'[v] \in Busy => Before(written'[m], hand'[v])
    BY DEF WrittenIsFirst, WasPushed
  <2>1. CASE written'[m] = hand[w]
    BY <1>1, <1>2, <1>4, <2>1
  <2>2. CASE m \in DOMAIN written /\ written'[m] = written[m]
    <3>1. doing'[Log!worker] = "off" => doing[Log!worker] = "off"
      BY WorkerIsNoLogger DEF Log!Rest
    <3> QED
      BY <1>1, <1>2, <2>2, <3>1 DEF LinesInv, WrittenIsFirst
  <2> QED
    BY <1>3, <2>1, <2>2
<1>9. Log!LinesInOrder'
  <2>1. CASE written' = written
    BY <2>1 DEF LinesInv, Log!LinesInOrder
  <2>2. CASE written' = Append(written, hand[w])
    <3>1. /\ \A j \in DOMAIN written : written'[j] = written[j]
          /\ written'[Len(written) + 1] = hand[w]
          /\ \A j \in DOMAIN written' : j \in DOMAIN written \/ j = Len(written) + 1
          /\ \A j, l \in DOMAIN written' : j < l => j \in DOMAIN written
      BY <1>0, <2>2, OneMore
    <3>2. ASSUME NEW j \in DOMAIN written', NEW l \in DOMAIN written', j < l
          PROVE  Before(written'[j], written'[l])
      <4>1. j \in DOMAIN written /\ written'[j] = written[j]
        BY <3>1, <3>2
      <4>2. CASE l \in DOMAIN written
        BY <3>1, <3>2, <4>1, <4>2 DEF LinesInv, Log!LinesInOrder, Before
      <4>3. CASE l = Len(written) + 1
        <5>1. Before(written[j], hand[w])
          BY <4>1 DEF LinesInv, WrittenIsFirst, Busy
        <5> QED
          BY <3>1, <4>1, <4>3, <5>1
      <4> QED
        BY <3>1, <4>2, <4>3
    <3> QED
      BY <3>2 DEF Log!LinesInOrder, Before
  <2> QED
    BY <2>1, <2>2
<1> QED
  BY <1>5, <1>6, <1>7, <1>8, <1>9 DEF LinesInv

\* A writer is one of the threads or the worker; its steps.
LEMMA WriterSteps ==
  ASSUME Log!Next
  PROVE  \/ Log!StartLog \/ Log!UnInit \/ Log!SetSynType \/ Log!TakeLine \/ Log!EndWorker \/ Log!Tick \/ Log!SetBack
         \/ \E t \in Loggers : Log!PushLog(t)
         \/ \E w \in Log!Writers : Log!Write(w)
BY WorkerIsNoLogger DEF Log!Next, Log!LogWorker

\* A step of PushLog pushes a line to the queue, or for the thread to write.
LEMMA PushLogPushes ==
  ASSUME Log!TypeOK, NEW t \in Loggers, Log!PushLog(t)
  PROVE  /\ doing[t] = "idle" /\ pushed[t] < MaxLines /\ pushed' = [pushed EXCEPT ![t] = @ + 1]
         /\ UNCHANGED <<m_nType, m_bClose, victim, target, files, now, shift, written, lost, excess>>
         /\ \E level \in {1, 3} :
              \/ m_nType = "asyn" /\ m_LogDeque' = Log!PushBack(m_LogDeque, Pushed(t, level)) /\ UNCHANGED <<doing, hand>>
              \/ /\ m_nType = "syn" /\ m_LogDeque' = m_LogDeque
                 /\ \/ UNCHANGED <<doing, hand>>
                    \/ hand' = [hand EXCEPT ![t] = Pushed(t, level)] /\ Log!Goto(t, "idle", "find")
BY DEF Log!PushLog, Pushed, Log!clock, Log!history

LEMMA LinesNext ==
  ASSUME Log!TypeOK, LinesInv, Log!Next
  PROVE  LinesInv'
<1>1. CASE Log!StartLog
  BY <1>1, StartLogLines
<1>2. CASE Log!TakeLine
  BY <1>2, TakeLineLines
<1>3. CASE Log!UnInit \/ Log!SetSynType \/ Log!Tick \/ Log!SetBack
  <2>1. LinesStay
    BY <1>3 DEF LinesStay, Log!UnInit, Log!SetSynType, Log!Tick, Log!SetBack, Log!log, Log!clock, Log!history
  <2> QED
    BY <2>1, LinesKeep
<1>4. CASE Log!EndWorker
  <2>1. /\ doing[Log!worker] = "wait" /\ doing'[Log!worker] = "ended"
        /\ \A v \in Log!Writers \ {Log!worker} : doing'[v] = doing[v]
    BY <1>4, GoesThere, WorkerIsNoLogger DEF Log!EndWorker, Doings
  <2>2. LinesStay
    BY <1>4, <2>1 DEF LinesStay, Log!EndWorker, Log!log, Log!clock, Log!history
  <2> QED
    BY <2>2, LinesKeep
<1>5. ASSUME NEW t \in Loggers, Log!PushLog(t)
      PROVE  LinesInv'
  <2>1. PICK level \in {1, 3} :
              \/ m_nType = "asyn" /\ m_LogDeque' = Log!PushBack(m_LogDeque, Pushed(t, level)) /\ UNCHANGED <<doing, hand>>
              \/ /\ m_nType = "syn" /\ m_LogDeque' = m_LogDeque
                 /\ \/ UNCHANGED <<doing, hand>>
                    \/ hand' = [hand EXCEPT ![t] = Pushed(t, level)] /\ Log!Goto(t, "idle", "find")
    BY <1>5, PushLogPushes
  <2>2. /\ doing[t] = "idle" /\ pushed[t] < MaxLines /\ pushed' = [pushed EXCEPT ![t] = @ + 1]
        /\ written' = written
    BY <1>5, PushLogPushes
  <2> DEFINE x == Pushed(t, level)
  <2>3. x \in Log!Line /\ x.by = t /\ x.no = pushed[t] + 1 /\ x.type = m_nType
    BY <2>2, PushedIsALine
  <2> HIDE DEF x
  <2>4. CASE m_nType = "asyn" /\ m_LogDeque' = Log!PushBack(m_LogDeque, x) /\ UNCHANGED <<doing, hand>>
    <3>1. Queued' = Append(Queued, x)
      BY <2>3, <2>4, QueueAppends DEF Queued
    <3> QED
      BY <2>2, <2>3, <2>4, <3>1, LinesPushed
  <2>5. CASE /\ m_nType = "syn" /\ m_LogDeque' = m_LogDeque /\ UNCHANGED <<doing, hand>>
    <3>1. Queued' = Queued /\ doing' \in [Log!Writers -> Doings]
      BY <2>5 DEF Queued, Log!TypeOK, Doings
    <3> QED
      BY <2>2, <2>5, <3>1, LinesOfThread
  <2>6. CASE /\ m_nType = "syn" /\ m_LogDeque' = m_LogDeque
             /\ hand' = [hand EXCEPT ![t] = x] /\ Log!Goto(t, "idle", "find")
    <3>1. Queued' = Queued
      BY <2>6 DEF Queued
    <3>2. doing' \in [Log!Writers -> Doings] /\ doing'[t] = "find" /\ \A w \in Log!Writers \ {t} : doing'[w] = doing[w]
      BY <2>6, GoesThere, WorkerIsNoLogger DEF Doings
    <3> QED
      BY <2>2, <2>3, <2>6, <3>1, <3>2, LinesOfThread
  <2> QED
    BY <2>1, <2>4, <2>5, <2>6 DEF x
<1>6. ASSUME NEW w \in Log!Writers, Log!GetFileName(w) \/ Log!DeleteOldFile(w) \/ Log!Remove(w)
      PROVE  LinesInv'
  <2>1. PICK a \in Busy, b \in Busy : Log!Goto(w, a, b)
    BY <1>6 DEF Log!GetFileName, Log!DeleteOldFile, Log!Remove, Busy
  <2>2. doing[w] \in Busy /\ doing'[w] \in Busy /\ \A v \in Log!Writers \ {w} : doing'[v] = doing[v]
    BY <2>1, GoesThere DEF Doings, Busy
  <2>3. LinesStay
    BY <1>6, <2>2 DEF LinesStay, Log!GetFileName, Log!DeleteOldFile, Log!Remove, Log!log, Log!clock, Log!history
  <2> QED
    BY <2>3, LinesKeep
<1>7. ASSUME NEW w \in Log!Writers, Log!WriteLog(w) \/ Log!WriteFails(w)
      PROVE  LinesInv'
  <2>1. Log!Goto(w, "write", Log!Rest(w))
    BY <1>7 DEF Log!WriteLog, Log!WriteFails
  <2>2. doing[w] = "write" /\ doing'[w] = Log!Rest(w) /\ \A v \in Log!Writers \ {w} : doing'[v] = doing[v]
    BY <2>1, GoesThere, RestIsADoing DEF Doings
  <2>3. /\ hand' = [hand EXCEPT ![w] = Log!NoLine] /\ Queued' = Queued /\ pushed' = pushed
        /\ written' = written \/ written' = Append(written, hand[w])
    BY <1>7 DEF Log!WriteLog, Log!WriteFails, Log!Done, Log!log, Queued
  <2> QED
    BY <2>2, <2>3, LinesFinished
<1> QED
  BY <1>1, <1>2, <1>3, <1>4, <1>5, <1>6, <1>7, WriterSteps DEF Log!Write

-----------------------------------------------------------------------------
(* The files keep to what is known of them                                 *)

\* What the writing of a line makes of the files: one more, or one that grew.
There(w) == {f \in files : f.name = target[w]}
NewFile(w) == [name |-> target[w], created |-> now, size |-> 1]
Grown(f) == [f EXCEPT !.size = @ + 1]

LEMMA FileGrows ==
  ASSUME NEW f \in Log!File
  PROVE  Grown(f) \in Log!File /\ Grown(f).name = f.name /\ Grown(f).created = f.created
BY DEF Log!File, Grown

LEMMA FilesWritten ==
  ASSUME FilesAreKnown, Log!TypeOK, NEW w \in Log!Writers, Log!WriteLog(w)
  PROVE  \/ /\ target[w] \notin Log!Names(files) /\ files' = files \cup {NewFile(w)} /\ NewFile(w) \in Log!File
            /\ NewFile(w).name = target[w] /\ NewFile(w).created = now
         \/ \E f \in files : f.name = target[w] /\ files' = (files \ {f}) \cup {Grown(f)}
<1> DEFINE there == There(w)
<1>1. files' = (files \ there) \cup IF there = {} THEN {NewFile(w)} ELSE {Grown(f) : f \in there}
  BY DEF Log!WriteLog, There, NewFile, Grown
<1>2. CASE there = {}
  <2>1. files' = files \cup {NewFile(w)}
    BY <1>1, <1>2
  <2>2. target[w] \notin Log!Names(files)
    BY <1>2 DEF There, Log!Names
  <2>3. target[w] \in Int /\ now \in Int
    BY DEF Log!TypeOK, FilesAreKnown
  <2> QED
    BY <2>1, <2>2, <2>3 DEF NewFile, Log!File
<1>3. CASE there # {}
  <2>1. PICK f \in files : f.name = target[w]
    BY <1>3 DEF There
  <2>2. there = {f}
    BY <2>1 DEF There, FilesAreKnown
  <2> HIDE DEF there
  <2>3. {Grown(g) : g \in {f}} = {Grown(f)}
    OBVIOUS
  <2> QED
    BY <1>1, <1>3, <2>1, <2>2, <2>3
<1> QED
  BY <1>2, <1>3

\* One file more, whose name is new.
LEMMA OneFileMore ==
  ASSUME FilesAreKnown, NEW x \in Log!File, x.created <= now, Lowest <= x.name, x.name <= now,
         x.name \notin Log!Names(files), files' = files \cup {x},
         UNCHANGED <<now, shift, victim>>, \A w \in Log!Writers : Lowest <= target'[w] /\ target'[w] <= now
  PROVE  FilesAreKnown' /\ Cardinality(files') = Cardinality(files) + 1
<1>1. x \notin files
  BY DEF Log!Names
<1>2. IsFiniteSet(files') /\ Cardinality(files') = Cardinality(files) + 1
  BY <1>1, FS_AddElement DEF FilesAreKnown
<1>3. \A f, g \in files' : f.name = g.name => f = g
  BY DEF FilesAreKnown, Log!Names
<1> QED
  BY <1>2, <1>3 DEF FilesAreKnown, Lowest

\* One file has grown.
LEMMA OneFileGrown ==
  ASSUME FilesAreKnown, NEW f \in files, files' = (files \ {f}) \cup {Grown(f)},
         UNCHANGED <<now, shift, victim>>, \A w \in Log!Writers : Lowest <= target'[w] /\ target'[w] <= now
  PROVE  /\ FilesAreKnown' /\ Cardinality(files') = Cardinality(files) /\ Log!Names(files') = Log!Names(files)
         /\ \A g \in files' : \E h \in files : g.name = h.name /\ g.created = h.created
<1>1. Grown(f) \in Log!File /\ Grown(f).name = f.name /\ Grown(f).created = f.created
  BY FileGrows DEF FilesAreKnown
<1>2. \A g \in files \ {f} : g.name # f.name
  BY DEF FilesAreKnown
<1>3. Grown(f) \notin files \ {f}
  BY <1>1, <1>2
<1>4. IsFiniteSet(files \ {f}) /\ Cardinality(files \ {f}) = Cardinality(files) - 1 /\ Cardinality(files) \in Nat
  BY FS_RemoveElement, FS_CardinalityType DEF FilesAreKnown
<1>5. IsFiniteSet(files') /\ Cardinality(files') = Cardinality(files)
  BY <1>3, <1>4, FS_AddElement
<1>6. \A g \in files' : \E h \in files : g.name = h.name /\ g.created = h.created
  BY <1>1
<1>7. Log!Names(files') = Log!Names(files)
  <2>1. \A h \in files : \E g \in files' : g.name = h.name
    BY <1>1
  <2> QED
    BY <1>6, <2>1 DEF Log!Names
<1>8. \A g, h \in files' : g.name = h.name => g = h
  BY <1>1, <1>2 DEF FilesAreKnown
<1>9. files' \subseteq Log!File /\ \A g \in files' : g.created <= now /\ Lowest <= g.name /\ g.name <= now
  BY <1>1 DEF FilesAreKnown
<1> QED
  BY <1>5, <1>6, <1>7, <1>8, <1>9 DEF FilesAreKnown, Lowest

\* Files have gone, or none.
LEMMA FilesFewer ==
  ASSUME FilesAreKnown, files' \subseteq files, UNCHANGED <<now, shift>>, victim' \in [Log!Writers -> SUBSET Int],
         \A w \in Log!Writers : Lowest <= target'[w] /\ target'[w] <= now
  PROVE  FilesAreKnown' /\ Cardinality(files') <= Cardinality(files)
<1>1. IsFiniteSet(files') /\ Cardinality(files') <= Cardinality(files)
  BY FS_Subset DEF FilesAreKnown
<1> QED
  BY <1>1 DEF FilesAreKnown, Lowest

LEMMA NowIsATarget ==
  ASSUME FilesAreKnown
  PROVE  /\ now + shift \in Int /\ Lowest <= now + shift /\ now + shift <= now /\ (shift = 0 => now + shift = now)
         /\ 0 \in Int /\ Lowest <= 0 /\ 0 <= now /\ Lowest \in Int /\ now \in Nat
BY LogAssumption DEF FilesAreKnown, Lowest

\* A writer finishes its line, whose file is gone from its hand.
LEMMA TargetKept ==
  ASSUME FilesAreKnown, Log!TypeOK, NEW w \in Log!Writers, NEW n \in Int, Lowest <= n, n <= now,
         target' = [target EXCEPT ![w] = n]
  PROVE  /\ target'[w] = n /\ (\A v \in Log!Writers \ {w} : target'[v] = target[v]) /\ target' \in [Log!Writers -> Int]
         /\ \A v \in Log!Writers : Lowest <= target'[v] /\ target'[v] <= now
BY DEF FilesAreKnown, Log!TypeOK

LEMMA OldestIsAName ==
  ASSUME FilesAreKnown
  PROVE  Oldest \in SUBSET Int
<1>1. files # {} => Log!OldFile.name \in Int
  BY OldFileIsThere, FileTyped
<1> QED
  BY <1>1 DEF Oldest

\* SysLog counts its files as this module does.
LEMMA SameCount ==
  ASSUME NEW S
  PROVE  Log!Cardinality(S) = Cardinality(S)
BY DEF Log!Cardinality, Cardinality, Log!IsFiniteSet, IsFiniteSet

LEMMA FilesKnownNext ==
  ASSUME Log!TypeOK, FilesAreKnown, Log!Next
  PROVE  FilesAreKnown' /\ target' \in [Log!Writers -> Int]
<1>0. target \in [Log!Writers -> Int] /\ victim \in [Log!Writers -> SUBSET Int]
  BY DEF Log!TypeOK, FilesAreKnown
<1>1. CASE UNCHANGED <<files, target, victim, now, shift>>
  BY <1>0, <1>1 DEF FilesAreKnown, Lowest
<1>2. CASE UNCHANGED <<files, target, victim>> /\ (Log!Tick \/ Log!SetBack)
  <2>1. now' \in Nat /\ shift' \in {0, -2} /\ now <= now' /\ now \in Nat
    BY <1>2 DEF Log!Tick, Log!SetBack, FilesAreKnown
  <2>2. \A f \in files : f.created <= now' /\ f.name <= now'
    BY <2>1, FileTyped DEF FilesAreKnown
  <2>3. \A w \in Log!Writers : target[w] <= now'
    <3>1. \A w \in Log!Writers : target[w] \in Int /\ target[w] <= now
      BY <1>0 DEF FilesAreKnown
    <3> QED
      BY <2>1, <3>1
  <2> QED
    BY <1>0, <1>2, <2>1, <2>2, <2>3 DEF FilesAreKnown, Lowest
<1>3. ASSUME NEW w \in Log!Writers, Log!GetFileName(w)
      PROVE  FilesAreKnown' /\ target' \in [Log!Writers -> Int]
  <2>1. UNCHANGED <<files, victim, now, shift>>
    BY <1>3 DEF Log!GetFileName, Log!clock
  <2>2. CASE target' = target
    BY <1>0, <2>1, <2>2 DEF FilesAreKnown, Lowest
  <2>3. CASE files # {} /\ target' = [target EXCEPT ![w] = Log!Newest.name]
    <3>1. Log!Newest.name \in Int /\ Lowest <= Log!Newest.name /\ Log!Newest.name <= now
      BY <2>3, NewestIsThere, FileTyped DEF FilesAreKnown
    <3>2. target' \in [Log!Writers -> Int] /\ \A v \in Log!Writers : Lowest <= target'[v] /\ target'[v] <= now
      BY <2>3, <3>1, TargetKept
    <3> QED
      BY <1>0, <2>1, <3>2, FilesFewer
  <2> QED
    BY <1>3, <2>2, <2>3 DEF Log!GetFileName
<1>4. ASSUME NEW w \in Log!Writers, Log!DeleteOldFile(w)
      PROVE  FilesAreKnown' /\ target' \in [Log!Writers -> Int]
  <2>1. UNCHANGED <<files, target, now, shift>> /\ victim' = [victim EXCEPT ![w] = Oldest]
    BY <1>4, SameCount DEF Log!DeleteOldFile, Oldest, Log!clock
  <2>2. victim' \in [Log!Writers -> SUBSET Int]
    BY <1>0, <2>1, OldestIsAName
  <2> QED
    BY <1>0, <2>1, <2>2 DEF FilesAreKnown, Lowest
<1>5. ASSUME NEW w \in Log!Writers, Log!Remove(w)
      PROVE  FilesAreKnown' /\ target' \in [Log!Writers -> Int]
  <2>1. /\ files' \subseteq files /\ UNCHANGED <<now, shift>> /\ victim' = [victim EXCEPT ![w] = {}]
        /\ target' = [target EXCEPT ![w] = now + shift]
    BY <1>5 DEF Log!Remove, Log!clock
  <2>2. target' \in [Log!Writers -> Int] /\ \A v \in Log!Writers : Lowest <= target'[v] /\ target'[v] <= now
    BY <2>1, NowIsATarget, TargetKept
  <2>3. victim' \in [Log!Writers -> SUBSET Int]
    BY <1>0, <2>1
  <2> QED
    BY <2>1, <2>2, <2>3, FilesFewer
<1>6. ASSUME NEW w \in Log!Writers, Log!WriteLog(w) \/ Log!WriteFails(w)
      PROVE  FilesAreKnown' /\ target' \in [Log!Writers -> Int]
  <2>1. UNCHANGED <<victim, now, shift>> /\ target' = [target EXCEPT ![w] = 0]
    BY <1>6 DEF Log!WriteLog, Log!WriteFails, Log!Done, Log!clock
  <2>2. target' \in [Log!Writers -> Int] /\ \A v \in Log!Writers : Lowest <= target'[v] /\ target'[v] <= now
    BY <2>1, NowIsATarget, TargetKept
  <2>3. CASE Log!WriteFails(w)
    <3>1. files' = files
      BY <2>3 DEF Log!WriteFails
    <3> QED
      BY <1>0, <2>1, <2>2, <3>1, FilesFewer
  <2>4. CASE Log!WriteLog(w)
    <3>1. CASE /\ target[w] \notin Log!Names(files) /\ files' = files \cup {NewFile(w)} /\ NewFile(w) \in Log!File
               /\ NewFile(w).name = target[w] /\ NewFile(w).created = now
      <4>1. Lowest <= target[w] /\ target[w] <= now /\ now <= now
        BY NowIsATarget DEF FilesAreKnown
      <4> QED
        BY <2>1, <2>2, <3>1, <4>1, OneFileMore
    <3>2. CASE \E f \in files : f.name = target[w] /\ files' = (files \ {f}) \cup {Grown(f)}
      BY <2>1, <2>2, <3>2, OneFileGrown
    <3> QED
      BY <2>4, <3>1, <3>2, FilesWritten
  <2> QED
    BY <1>6, <2>3, <2>4
<1>7. CASE Log!StartLog \/ Log!UnInit \/ Log!SetSynType \/ Log!TakeLine \/ Log!EndWorker
  <2>1. UNCHANGED <<files, target, victim, now, shift>>
    BY <1>7 DEF Log!StartLog, Log!UnInit, Log!SetSynType, Log!TakeLine, Log!EndWorker, Log!clock
  <2> QED
    BY <1>1, <2>1
<1>8. CASE Log!Tick \/ Log!SetBack
  BY <1>2, <1>8 DEF Log!Tick, Log!SetBack
<1>9. ASSUME NEW t \in Loggers, Log!PushLog(t)
      PROVE  UNCHANGED <<files, target, victim, now, shift>>
  BY <1>9, PushLogPushes
<1> QED
  BY <1>1, <1>3, <1>4, <1>5, <1>6, <1>7, <1>8, <1>9, WriterSteps DEF Log!Write

-----------------------------------------------------------------------------
(* While the worker is alone rotation keeps its order                      *)

LEMMA OldestStays ==
  ASSUME files' = files
  PROVE  Oldest' = Oldest /\ Log!Names(files') = Log!Names(files) /\ Cardinality(files') = Cardinality(files)
BY DEF Oldest, Log!OldFile, Log!First, Log!Names, Log!Listed

\* A step after which the worker is not about to remove or to write, or which
\* leaves it as it is.
LEMMA AloneKept ==
  ASSUME WorkerIsAlone, m_nType' = "asyn" => m_nType = "asyn", UNCHANGED <<files, excess>>, shift' = 0 => shift = 0,
         \A t \in Loggers : m_nType = "asyn" => doing'[t] = doing[t],
         \/ doing'[Log!worker] \notin {"remove", "write"}
         \/ doing'[Log!worker] = doing[Log!worker] /\ victim'[Log!worker] = victim[Log!worker] /\ target'[Log!worker] = target[Log!worker]
  PROVE  WorkerIsAlone'
<1>1. Oldest' = Oldest /\ Log!Names(files') = Log!Names(files) /\ Cardinality(files') = Cardinality(files)
  BY OldestStays
<1>2. NamesAreByAge' <=> NamesAreByAge
  BY DEF NamesAreByAge
<1> SUFFICES ASSUME m_nType' = "asyn"
             PROVE  /\ \A t \in Loggers : doing'[t] = "idle"
                    /\ Cardinality(files') <= m_iMaxFileSum + excess'
                    /\ doing'[Log!worker] = "remove" => victim'[Log!worker] = Oldest'
                    /\ doing'[Log!worker] = "write" =>
                         target'[Log!worker] \in Log!Names(files') \/ Cardinality(files') < m_iMaxFileSum + excess'
                    /\ shift' = 0 =>
                         /\ NamesAreByAge'
                         /\ doing'[Log!worker] = "write" =>
                              target'[Log!worker] \in Log!Names(files') \/ \A g \in files' : g.name < target'[Log!worker]
  BY DEF WorkerIsAlone
<1>3. \A t \in Loggers : doing'[t] = "idle"
  BY DEF WorkerIsAlone
<1>4. CASE doing'[Log!worker] \notin {"remove", "write"}
  BY <1>1, <1>2, <1>3, <1>4 DEF WorkerIsAlone
<1>5. CASE doing'[Log!worker] = doing[Log!worker] /\ victim'[Log!worker] = victim[Log!worker] /\ target'[Log!worker] = target[Log!worker]
  BY <1>1, <1>2, <1>3, <1>5 DEF WorkerIsAlone
<1> QED
  BY <1>4, <1>5

\* Removing the oldest makes room, if there was none; when it fails the files may
\* be one more.
LEMMA RemovalMakesRoom ==
  ASSUME FilesAreKnown, excess \in Nat, Cardinality(files) <= m_iMaxFileSum + excess,
         \/ files' = {f \in files : f.name \notin Oldest} /\ excess' = excess
         \/ files' = files /\ excess' = excess + 1
  PROVE  files' \subseteq files /\ IsFiniteSet(files') /\ Cardinality(files') < m_iMaxFileSum + excess'
<1>0. /\ IsFiniteSet(files) /\ Cardinality(files) \in Nat /\ m_iMaxFileSum \in Nat \ {0}
      /\ (files = {} => Cardinality(files) = 0)
  BY LogAssumption, FS_CardinalityType, FS_EmptySet DEF FilesAreKnown
<1>1. CASE files # {} /\ m_iMaxFileSum <= Cardinality(files) /\ files' = {f \in files : f.name \notin Oldest} /\ excess' = excess
  <2>1. Log!OldFile \in files /\ Oldest = {Log!OldFile.name}
    BY <1>1, OldFileIsThere DEF Oldest
  <2>2. files' = files \ {Log!OldFile}
    BY <1>1, <2>1 DEF FilesAreKnown
  <2>3. IsFiniteSet(files') /\ Cardinality(files') = Cardinality(files) - 1
    BY <1>0, <2>1, <2>2, FS_RemoveElement
  <2> QED
    BY <1>0, <1>1, <2>2, <2>3
<1>2. CASE ~(files # {} /\ m_iMaxFileSum <= Cardinality(files)) /\ files' = {f \in files : f.name \notin Oldest} /\ excess' = excess
  <2>1. files' = files
    BY <1>2 DEF Oldest
  <2>2. Cardinality(files) < m_iMaxFileSum
    BY <1>0, <1>2
  <2>3. Cardinality(files) < m_iMaxFileSum + excess'
    BY <1>0, <1>2, <2>2
  <2> QED
    BY <1>0, <2>1, <2>3
<1>3. CASE files' = files /\ excess' = excess + 1
  BY <1>0, <1>3
<1> QED
  BY <1>1, <1>2, <1>3

LEMMA AloneRemoves ==
  ASSUME Log!TypeOK, FilesAreKnown, WorkerIsAlone, m_nType = "asyn", Log!Remove(Log!worker)
  PROVE  WorkerIsAlone'
<1>1. /\ doing[Log!worker] = "remove" /\ doing'[Log!worker] = "write"
      /\ \A t \in Loggers : doing'[t] = doing[t]
  BY GoesThere, WorkerIsNoLogger DEF Log!Remove, Doings
<1>2. target' = [target EXCEPT ![Log!worker] = now + shift] /\ UNCHANGED <<m_nType, shift>>
  BY DEF Log!Remove, Log!log, Log!clock
<1>3. target'[Log!worker] = now + shift
  BY <1>2, WorkerIsNoLogger DEF Log!TypeOK
<1>4. /\ \/ files' = {f \in files : f.name \notin Oldest} /\ excess' = excess
         \/ files' = files /\ excess' = excess + 1
      /\ excess \in Nat /\ excess' \in Nat
  BY <1>1, LogAssumption DEF Log!Remove, WorkerIsAlone, Log!TypeOK
<1>5. files' \subseteq files /\ Cardinality(files') < m_iMaxFileSum + excess' /\ IsFiniteSet(files')
  BY <1>4, RemovalMakesRoom DEF WorkerIsAlone
<1>6. Cardinality(files') <= m_iMaxFileSum + excess'
  BY <1>4, <1>5, FS_CardinalityType, LogAssumption
<1>7. ASSUME shift = 0
      PROVE  /\ NamesAreByAge'
             /\ target'[Log!worker] \in Log!Names(files') \/ \A g \in files' : g.name < target'[Log!worker]
  <2>1. NamesAreByAge'
    BY <1>5, <1>7 DEF NamesAreByAge, WorkerIsAlone
  <2>2. \A g \in files' : g.name <= target'[Log!worker] /\ g.name \in Int /\ target'[Log!worker] \in Int
    BY <1>3, <1>5, <1>7, NowIsATarget, FileTyped DEF FilesAreKnown
  <2>3. \A g \in files' : g.name = target'[Log!worker] \/ g.name < target'[Log!worker]
    BY <2>2
  <2> QED
    BY <2>1, <2>3 DEF Log!Names
<1> QED
  BY <1>1, <1>2, <1>5, <1>6, <1>7 DEF WorkerIsAlone

LEMMA AloneWrites ==
  ASSUME Log!TypeOK, FilesAreKnown, WorkerIsAlone, m_nType = "asyn", Log!WriteLog(Log!worker)
  PROVE  WorkerIsAlone'
<1>1. /\ doing[Log!worker] = "write" /\ doing'[Log!worker] = "wait"
      /\ \A t \in Loggers : doing'[t] = doing[t]
  BY GoesThere, WorkerIsNoLogger DEF Log!WriteLog, Doings, Log!Rest
<1>2. UNCHANGED <<m_nType, shift, now, victim, excess>> /\ target' = [target EXCEPT ![Log!worker] = 0]
  BY DEF Log!WriteLog, Log!Done, Log!log, Log!clock
<1>3. \A w \in Log!Writers : Lowest <= target'[w] /\ target'[w] <= now
  BY <1>2, NowIsATarget, TargetKept, WorkerIsNoLogger
<1>4. CASE /\ target[Log!worker] \notin Log!Names(files) /\ files' = files \cup {NewFile(Log!worker)} /\ NewFile(Log!worker) \in Log!File
           /\ NewFile(Log!worker).name = target[Log!worker] /\ NewFile(Log!worker).created = now
  <2>1. Cardinality(files') = Cardinality(files) + 1
    <3>1. Lowest <= target[Log!worker] /\ target[Log!worker] <= now /\ now <= now
      BY WorkerIsNoLogger, NowIsATarget DEF FilesAreKnown
    <3> QED
      BY <1>2, <1>3, <1>4, <3>1, OneFileMore
  <2>2. /\ Cardinality(files) < m_iMaxFileSum + excess /\ Cardinality(files) \in Nat
        /\ m_iMaxFileSum \in Nat /\ excess \in Nat
    BY <1>1, <1>4, FS_CardinalityType, LogAssumption DEF WorkerIsAlone, FilesAreKnown, Log!TypeOK
  <2>3. Cardinality(files') <= m_iMaxFileSum + excess'
    BY <1>2, <2>1, <2>2
  <2>4. shift = 0 => NamesAreByAge'
    <3> SUFFICES ASSUME shift = 0, NEW f \in files', NEW g \in files', f.name < g.name
                 PROVE  f.created <= g.created
      BY DEF NamesAreByAge
    <3>1. (\A h \in files : h.name < target[Log!worker] /\ h.created <= now) /\ NamesAreByAge
      BY <1>1, <1>4 DEF WorkerIsAlone, FilesAreKnown
    <3>2. target[Log!worker] \in Int /\ now \in Int
      BY WorkerIsNoLogger DEF Log!TypeOK, FilesAreKnown
    <3>3. CASE g \in files
      <4>1. g.name < target[Log!worker] /\ g.name \in Int /\ f.name # target[Log!worker]
        BY <3>1, <3>2, <3>3, FileTyped
      <4>2. f \in files
        BY <1>4, <4>1
      <4> QED
        BY <3>1, <3>3, <4>2 DEF NamesAreByAge
    <3>4. CASE g = NewFile(Log!worker)
      BY <1>4, <3>1, <3>2, <3>4
    <3> QED
      BY <1>4, <3>3, <3>4
  <2> QED
    BY <1>1, <1>2, <2>3, <2>4 DEF WorkerIsAlone
<1>5. CASE \E f \in files : f.name = target[Log!worker] /\ files' = (files \ {f}) \cup {Grown(f)}
  <2>1. /\ Cardinality(files') = Cardinality(files)
        /\ \A g \in files' : \E h \in files : g.name = h.name /\ g.created = h.created
    BY <1>2, <1>3, <1>5, OneFileGrown
  <2>2. NamesAreByAge => NamesAreByAge'
    BY <2>1 DEF NamesAreByAge
  <2> QED
    BY <1>1, <1>2, <2>1, <2>2 DEF WorkerIsAlone
<1> QED
  BY <1>4, <1>5, FilesWritten, WorkerIsNoLogger

LEMMA WorkerIsAloneNext ==
  ASSUME Log!TypeOK, FilesAreKnown, WorkerIsAlone, Log!Next
  PROVE  WorkerIsAlone'
<1>0. m_nType' = "asyn" => m_nType = "asyn"
  <2>1. CASE Log!StartLog \/ Log!UnInit \/ Log!SetSynType \/ Log!TakeLine \/ Log!EndWorker \/ Log!Tick \/ Log!SetBack
    BY <2>1 DEF Log!StartLog, Log!UnInit, Log!SetSynType, Log!TakeLine, Log!EndWorker, Log!Tick, Log!SetBack, Log!log
  <2>2. ASSUME NEW w \in Log!Writers, Log!Write(w) PROVE m_nType' = m_nType
    BY <2>2 DEF Log!Write, Log!GetFileName, Log!DeleteOldFile, Log!Remove, Log!WriteLog, Log!WriteFails, Log!log
  <2> QED
    BY <2>1, <2>2, WriterSteps, PushLogPushes
<1> SUFFICES ASSUME m_nType = "asyn", m_nType' = "asyn"
             PROVE  WorkerIsAlone'
  BY <1>0 DEF WorkerIsAlone
<1>1. CASE Log!UnInit \/ Log!SetSynType \/ Log!Tick \/ Log!SetBack
  <2>1. UNCHANGED <<doing, victim, target, files, excess>> /\ (shift' = 0 => shift = 0)
    BY <1>1 DEF Log!UnInit, Log!SetSynType, Log!Tick, Log!SetBack, Log!clock, Log!history
  <2> QED
    BY <2>1, AloneKept
<1>2. CASE Log!StartLog \/ Log!TakeLine \/ Log!EndWorker
  <2>1. UNCHANGED <<files, excess, shift>>
    BY <1>2 DEF Log!StartLog, Log!TakeLine, Log!EndWorker, Log!clock, Log!history
  <2>2. \E a \in Doings, b \in Doings \ {"remove", "write"} : Log!Goto(Log!worker, a, b)
    BY <1>2 DEF Log!StartLog, Log!TakeLine, Log!EndWorker, Doings
  <2>3. doing'[Log!worker] \notin {"remove", "write"} /\ \A t \in Loggers : doing'[t] = doing[t]
    BY <2>2, GoesThere, WorkerIsNoLogger
  <2> QED
    BY <2>1, <2>3, AloneKept
<1>3. ASSUME NEW t \in Loggers, Log!PushLog(t)
      PROVE  WorkerIsAlone'
  <2>1. UNCHANGED <<doing, victim, target, files, shift, excess>>
    BY <1>3, PushLogPushes
  <2> QED
    BY <2>1, AloneKept
<1>4. ASSUME NEW w \in Log!Writers, Log!Write(w)
      PROVE  w = Log!worker
  <2>1. doing[w] # "idle"
    BY <1>4 DEF Log!Write, Log!GetFileName, Log!DeleteOldFile, Log!Remove, Log!WriteLog, Log!WriteFails, Log!Goto
  <2> QED
    BY <2>1 DEF WorkerIsAlone, Log!Writers
<1>5. CASE Log!GetFileName(Log!worker)
  <2>1. UNCHANGED <<files, excess, shift>>
    BY <1>5 DEF Log!GetFileName, Log!clock, Log!history
  <2>2. CASE Log!Goto(Log!worker, "find", "list")
    <3>1. doing'[Log!worker] = "list" /\ \A t \in Loggers : doing'[t] = doing[t]
      BY <2>2, GoesThere, WorkerIsNoLogger DEF Doings
    <3> QED
      BY <2>1, <3>1, AloneKept
  <2>3. CASE files # {} /\ Log!Goto(Log!worker, "find", "write") /\ target' = [target EXCEPT ![Log!worker] = Log!Newest.name]
    <3>1. doing'[Log!worker] = "write" /\ \A t \in Loggers : doing'[t] = doing[t]
      BY <2>3, GoesThere, WorkerIsNoLogger DEF Doings
    <3>2. target'[Log!worker] \in Log!Names(files)
      BY <2>3, NewestIsThere, WorkerIsNoLogger DEF Log!TypeOK, Log!Names
    <3>3. NamesAreByAge' <=> NamesAreByAge
      BY <2>1 DEF NamesAreByAge
    <3> QED
      BY <2>1, <3>1, <3>2, <3>3, OldestStays DEF WorkerIsAlone
  <2> QED
    BY <1>5, <2>2, <2>3 DEF Log!GetFileName
<1>6. CASE Log!DeleteOldFile(Log!worker)
  <2>1. UNCHANGED <<files, excess, shift>> /\ victim' = [victim EXCEPT ![Log!worker] = Oldest]
    BY <1>6, SameCount DEF Log!DeleteOldFile, Oldest, Log!clock, Log!history
  <2>2. doing'[Log!worker] = "remove" /\ \A t \in Loggers : doing'[t] = doing[t]
    BY <1>6, GoesThere, WorkerIsNoLogger DEF Log!DeleteOldFile, Doings
  <2>3. victim'[Log!worker] = Oldest
    BY <2>1, WorkerIsNoLogger DEF FilesAreKnown
  <2>4. NamesAreByAge' <=> NamesAreByAge
    BY <2>1 DEF NamesAreByAge
  <2> QED
    BY <2>1, <2>2, <2>3, <2>4, OldestStays DEF WorkerIsAlone
<1>7. CASE Log!WriteFails(Log!worker)
  <2>1. UNCHANGED <<files, excess, shift>>
    BY <1>7 DEF Log!WriteFails, Log!clock
  <2>2. doing'[Log!worker] = "wait" /\ \A t \in Loggers : doing'[t] = doing[t]
    BY <1>7, GoesThere, WorkerIsNoLogger DEF Log!WriteFails, Doings, Log!Rest
  <2> QED
    BY <2>1, <2>2, AloneKept
<1> QED
  BY <1>1, <1>2, <1>3, <1>4, <1>5, <1>6, <1>7, AloneRemoves, AloneWrites, WriterSteps DEF Log!Write

-----------------------------------------------------------------------------
(* The invariant of the log                                                *)

LEMMA LogTypesNext ==
  ASSUME Log!TypeOK, FilesAreKnown', target' \in [Log!Writers -> Int], Log!Next
  PROVE  Log!TypeOK'
<1> SUFFICES /\ m_nType' \in {"asyn", "syn"} /\ m_bClose' \in BOOLEAN
             /\ m_LogDeque'.m_deque \in Seq(Log!Line) /\ m_LogDeque'.m_hevent = (m_LogDeque'.m_deque # <<>>)
             /\ doing' \in [Log!Writers -> Doings] /\ hand' \in [Log!Writers -> Log!Line]
             /\ pushed' \in [Loggers -> 0 .. MaxLines] /\ written' \in Seq(Log!Line) /\ lost' \subseteq Log!Line
             /\ excess' \in 0 .. MaxExcess
  BY DEF Log!TypeOK, FilesAreKnown, Doings
<1>0. /\ m_nType \in {"asyn", "syn"} /\ m_bClose \in BOOLEAN
      /\ m_LogDeque.m_deque \in Seq(Log!Line) /\ m_LogDeque.m_hevent = (m_LogDeque.m_deque # <<>>)
      /\ doing \in [Log!Writers -> Doings] /\ hand \in [Log!Writers -> Log!Line]
      /\ pushed \in [Loggers -> 0 .. MaxLines] /\ written \in Seq(Log!Line) /\ lost \subseteq Log!Line
      /\ excess \in 0 .. MaxExcess
  BY DEF Log!TypeOK, Doings
<1>1. CASE Log!UnInit \/ Log!SetSynType \/ Log!Tick \/ Log!SetBack
  BY <1>0, <1>1 DEF Log!UnInit, Log!SetSynType, Log!Tick, Log!SetBack, Log!log, Log!clock, Log!history
<1>2. CASE Log!StartLog \/ Log!EndWorker
  <2>1. UNCHANGED <<m_nType, m_bClose, m_LogDeque, pushed, written, lost, excess>>
    BY <1>2 DEF Log!StartLog, Log!EndWorker, Log!log, Log!history
  <2>2. doing' \in [Log!Writers -> Doings]
    BY <1>2, GoesThere, WorkerIsNoLogger DEF Log!StartLog, Log!EndWorker, Doings
  <2>3. hand' \in [Log!Writers -> Log!Line]
    BY <1>0, <1>2, HeadIsALine DEF Log!StartLog, Log!EndWorker
  <2> QED
    BY <1>0, <2>1, <2>2, <2>3
<1>3. CASE Log!TakeLine
  <2>1. UNCHANGED <<m_nType, m_bClose, pushed, written, lost, excess>>
    BY <1>3 DEF Log!TakeLine, Log!history
  <2>2. /\ m_LogDeque'.m_deque \in Seq(Log!Line) /\ m_LogDeque'.m_hevent = (m_LogDeque'.m_deque # <<>>)
        /\ Log!Popped(m_LogDeque, Log!NoLine) \in Log!Line
    BY <1>3, QueuePops DEF Log!TakeLine
  <2>3. PICK x \in Log!Line : hand' = [hand EXCEPT ![Log!worker] = x]
    BY <1>3, <2>2, NoLineIsALine DEF Log!TakeLine
  <2>4. \E b \in Doings : Log!Goto(Log!worker, "wait", b)
    BY <1>3 DEF Log!TakeLine, Doings
  <2>5. doing' \in [Log!Writers -> Doings]
    BY <2>4, GoesThere, WorkerIsNoLogger
  <2>6. hand' \in [Log!Writers -> Log!Line]
    BY <1>0, <2>3
  <2> QED
    BY <1>0, <2>1, <2>2, <2>5, <2>6
<1>4. ASSUME NEW t \in Loggers, Log!PushLog(t)
      PROVE  Log!TypeOK'
  <2>1. PICK level \in {1, 3} :
              \/ m_nType = "asyn" /\ m_LogDeque' = Log!PushBack(m_LogDeque, Pushed(t, level)) /\ UNCHANGED <<doing, hand>>
              \/ /\ m_nType = "syn" /\ m_LogDeque' = m_LogDeque
                 /\ \/ UNCHANGED <<doing, hand>>
                    \/ hand' = [hand EXCEPT ![t] = Pushed(t, level)] /\ Log!Goto(t, "idle", "find")
    BY <1>4, PushLogPushes
  <2>2. /\ pushed[t] < MaxLines /\ pushed' = [pushed EXCEPT ![t] = @ + 1]
        /\ UNCHANGED <<m_nType, m_bClose, written, lost, excess>>
    BY <1>4, PushLogPushes
  <2>3. pushed' \in [Loggers -> 0 .. MaxLines]
    <3>1. pushed[t] + 1 \in 0 .. MaxLines /\ pushed' = [pushed EXCEPT ![t] = pushed[t] + 1]
      BY <1>0, <2>2, LogAssumption
    <3> QED
      BY <1>0, <3>1
  <2>4. Pushed(t, level) \in Log!Line
    BY <2>2, PushedIsALine
  <2>5. m_LogDeque'.m_deque \in Seq(Log!Line) /\ m_LogDeque'.m_hevent = (m_LogDeque'.m_deque # <<>>)
    BY <1>0, <2>1, <2>4, QueueAppends
  <2>6. hand' \in [Log!Writers -> Log!Line]
    BY <1>0, <2>1, <2>4
  <2>7. doing' \in [Log!Writers -> Doings]
    <3>1. CASE Log!Goto(t, "idle", "find")
      BY <3>1, GoesThere, WorkerIsNoLogger DEF Doings
    <3> QED
      BY <1>0, <2>1, <3>1
  <2> QED
    BY <1>0, <2>2, <2>3, <2>5, <2>6, <2>7 DEF Log!TypeOK, FilesAreKnown, Doings
<1>5. ASSUME NEW w \in Log!Writers, Log!Write(w)
      PROVE  Log!TypeOK'
  <2>1. UNCHANGED <<m_nType, m_bClose, m_LogDeque, pushed>>
    BY <1>5 DEF Log!Write, Log!GetFileName, Log!DeleteOldFile, Log!Remove, Log!WriteLog, Log!WriteFails, Log!log
  <2>2. \E a, b \in Doings : Log!Goto(w, a, b)
    BY <1>5, RestIsADoing DEF Log!Write, Log!GetFileName, Log!DeleteOldFile, Log!Remove, Log!WriteLog, Log!WriteFails, Doings
  <2>3. doing' \in [Log!Writers -> Doings]
    BY <2>2, GoesThere
  <2>4. hand' = hand \/ hand' = [hand EXCEPT ![w] = Log!NoLine]
    BY <1>5 DEF Log!Write, Log!GetFileName, Log!DeleteOldFile, Log!Remove, Log!WriteLog, Log!WriteFails, Log!Done
  <2>5. hand' \in [Log!Writers -> Log!Line] /\ hand[w] \in Log!Line
    BY <1>0, <2>4, NoLineIsALine
  <2>6. /\ written' = written \/ written' = Append(written, hand[w])
        /\ lost' = lost \/ lost' = lost \cup {hand[w]}
    BY <1>5 DEF Log!Write, Log!GetFileName, Log!DeleteOldFile, Log!Remove, Log!WriteLog, Log!WriteFails, Log!history
  <2>7. written' \in Seq(Log!Line) /\ lost' \subseteq Log!Line
    <3>1. Append(written, hand[w]) \in Seq(Log!Line)
      BY <1>0, <2>5, OneMore
    <3> QED
      BY <1>0, <2>5, <2>6, <3>1
  <2>8. excess' \in 0 .. MaxExcess
    <3>1. CASE Log!Remove(w)
      BY <1>0, <3>1, LogAssumption DEF Log!Remove
    <3>2. CASE Log!GetFileName(w) \/ Log!DeleteOldFile(w) \/ Log!WriteLog(w) \/ Log!WriteFails(w)
      BY <1>0, <3>2 DEF Log!GetFileName, Log!DeleteOldFile, Log!WriteLog, Log!WriteFails, Log!history
    <3> QED
      BY <1>5, <3>1, <3>2 DEF Log!Write
  <2> QED
    BY <1>0, <2>1, <2>3, <2>5, <2>7, <2>8 DEF Log!TypeOK, FilesAreKnown, Doings
<1> QED
  BY <1>1, <1>2, <1>3, <1>4, <1>5, WriterSteps DEF Log!TypeOK, FilesAreKnown, Doings

\* The files of earlier runs.
LEMMA EarlierFiles ==
  ASSUME NEW n \in 0 .. m_iMaxFileSum + MaxExcess,
         files = {[name |-> -i, created |-> -i, size |-> m_lFileSizeMax] : i \in 1 .. n}
  PROVE  IsFiniteSet(files) /\ Cardinality(files) = n
<1> DEFINE f == [i \in 1 .. n |-> [name |-> -i, created |-> -i, size |-> m_lFileSizeMax]]
<1>1. n \in Nat /\ 1 \in Nat
  BY LogAssumption
<1>2. IsFiniteSet(1 .. n) /\ Cardinality(1 .. n) = n
  BY <1>1, FS_Interval
<1>3. \A i, j \in 1 .. n : f[i] = f[j] => i = j
  <2> SUFFICES ASSUME NEW i \in 1 .. n, NEW j \in 1 .. n, f[i] = f[j]
               PROVE  i = j
    OBVIOUS
  <2>1. f[i].name = f[j].name
    OBVIOUS
  <2>2. -i = -j
    BY <2>1
  <2> QED
    BY <2>2
<1>4. f \in Bijection(1 .. n, files)
  <2>1. f \in [1 .. n -> files]
    OBVIOUS
  <2>2. \A x \in files : \E i \in 1 .. n : f[i] = x
    OBVIOUS
  <2> HIDE DEF f
  <2>3. f \in Injection(1 .. n, files)
    BY <1>3, <2>1 DEF Injection, IsInjective
  <2>4. f \in Surjection(1 .. n, files)
    BY <2>1, <2>2 DEF Surjection
  <2> QED
    BY <2>3, <2>4 DEF Bijection
<1>5. ExistsBijection(1 .. n, files)
  BY <1>4 DEF ExistsBijection
<1> QED
  BY <1>2, <1>5, FS_Bijection

LEMMA InitLogInv ==
  ASSUME Log!Init
  PROVE  LogInv
<1>1. PICK n \in 0 .. m_iMaxFileSum + MaxExcess :
        /\ files = {[name |-> -i, created |-> -i, size |-> m_lFileSizeMax] : i \in 1 .. n}
        /\ excess = IF n <= m_iMaxFileSum THEN 0 ELSE n - m_iMaxFileSum
  BY DEF Log!Init
<1>2. /\ IsFiniteSet(files) /\ Cardinality(files) = n
      /\ excess \in 0 .. MaxExcess /\ n <= m_iMaxFileSum + excess
  <2>1. n \in Nat /\ n <= m_iMaxFileSum + MaxExcess /\ m_iMaxFileSum \in Nat /\ MaxExcess \in Nat
    BY LogAssumption
  <2>2. excess \in 0 .. MaxExcess /\ n <= m_iMaxFileSum + excess
    BY <1>1, <2>1
  <2>3. IsFiniteSet(files) /\ Cardinality(files) = n
    BY <1>1, EarlierFiles
  <2> QED
    BY <2>2, <2>3
<1>3. \A f \in files : f \in Log!File /\ f.name = f.created /\ f.created <= 0 /\ Lowest <= f.name /\ f.name <= 0
  BY <1>1, LogAssumption DEF Log!File, Lowest
<1>4. \A f, g \in files : f.name = g.name => f = g
  BY <1>1
<1>5. m_LogDeque.m_deque = <<>> /\ m_LogDeque.m_hevent = FALSE /\ m_nType = "asyn" /\ m_bClose = FALSE
  BY DEF Log!Init, Log!CreateQueue
<1>6. /\ \A t \in Loggers : doing[t] = "idle"
      /\ doing[Log!worker] = "off" /\ doing \in [Log!Writers -> Doings]
  BY WorkerIsNoLogger DEF Log!Init, Doings
<1>7. Log!TypeOK
  <2>1. /\ hand \in [Log!Writers -> Log!Line] /\ target \in [Log!Writers -> Int] /\ written = <<>> /\ lost = {}
        /\ pushed \in [Loggers -> 0 .. MaxLines]
    BY NoLineIsALine, LogAssumption DEF Log!Init
  <2>2. m_LogDeque.m_deque \in Seq(Log!Line)
    BY <1>5
  <2>3. m_LogDeque.m_hevent = (m_LogDeque.m_deque # <<>>)
    BY <1>5, Zenon
  <2> QED
    BY <1>2, <1>3, <1>5, <1>6, <2>1, <2>2, <2>3 DEF Log!TypeOK, Doings
<1>8. LinesInv
  <2>1. Queued = <<>> /\ written = <<>>
    BY <1>5 DEF Queued, Log!Init
  <2> QED
    BY <1>6, <2>1 DEF LinesInv, ThreadsWriteTheirOwn, QueueIsInOrder, WorkerTakesTheFirst,
                      WrittenIsFirst, Log!LinesInOrder, Busy
<1>9. FilesAreKnown
  <2>1. now = 0 /\ shift = 0 /\ victim \in [Log!Writers -> {{}}] /\ target \in [Log!Writers -> {0}]
    BY DEF Log!Init
  <2>2. Lowest <= 0
    BY LogAssumption DEF Lowest
  <2> QED
    BY <1>2, <1>3, <1>4, <2>1, <2>2 DEF FilesAreKnown
<1>10. WorkerIsAlone
  <2>1. NamesAreByAge
    BY <1>3 DEF NamesAreByAge, Log!File
  <2> QED
    BY <1>2, <1>6, <2>1 DEF WorkerIsAlone
<1> QED
  BY <1>7, <1>8, <1>9, <1>10 DEF LogInv, FilesInv

LEMMA NextLogInv ==
  ASSUME LogInv, [Log!Next]_(Log!vars)
  PROVE  LogInv'
<1>1. CASE Log!Next
  <2>1. LinesInv'
    BY <1>1, LinesNext DEF LogInv
  <2>2. FilesAreKnown' /\ target' \in [Log!Writers -> Int]
    BY <1>1, FilesKnownNext DEF LogInv, FilesInv
  <2>3. WorkerIsAlone'
    BY <1>1, WorkerIsAloneNext DEF LogInv, FilesInv
  <2>4. Log!TypeOK'
    BY <1>1, <2>2, LogTypesNext DEF LogInv
  <2> QED
    BY <2>1, <2>2, <2>3, <2>4 DEF LogInv, FilesInv
<1>2. CASE UNCHANGED Log!vars
  <2>0. /\ UNCHANGED <<m_nType, m_bClose, m_LogDeque, doing, hand, victim, target, files, now, shift>>
        /\ UNCHANGED <<pushed, written, lost, excess>>
    BY <1>2 DEF Log!vars, Log!log, Log!clock, Log!history
  <2>1. Log!TypeOK'
    BY <2>0 DEF Log!TypeOK, LogInv
  <2>2. LinesInv'
    BY <2>0, LinesKeep DEF LinesStay, LogInv
  <2>3. FilesAreKnown'
    BY <2>0 DEF FilesAreKnown, Lowest, LogInv, FilesInv
  <2>4. WorkerIsAlone'
    BY <2>0, AloneKept DEF LogInv, FilesInv
  <2> QED
    BY <2>1, <2>2, <2>3, <2>4 DEF LogInv, FilesInv
<1> QED
  BY <1>1, <1>2

\* The log keeps its types and the invariant above, with any number of threads,
\* files and lines.
THEOREM LogIsKept == Log!Spec => []LogInv
<1>1. Log!Init => LogInv
  BY InitLogInv
<1>2. LogInv /\ [Log!Next]_(Log!vars) => LogInv'
  BY NextLogInv
<1> QED
  BY <1>1, <1>2, PTL DEF Log!Spec

\* No line is written twice, and the lines of a thread are in the order it
\* pushed them, in each mode: PushLog, LogWorker and WriteLog.
THEOREM LinesAreInOrder == Log!Spec => []LinesInOrder
<1>1. LogInv => LinesInOrder
  BY DEF LogInv, LinesInv, LinesInOrder
<1> QED
  BY <1>1, LogIsKept, PTL

-----------------------------------------------------------------------------
(* Rotation                                                                *)

\* While the worker is alone a file goes only if it is the oldest one.
LEMMA OnlyTheOldestGoes ==
  ASSUME LogInv, Log!Next, m_nType = "asyn", NEW f \in files, Log!Gone(f)
  PROVE  files # {} /\ m_iMaxFileSum <= Cardinality(files) /\ f = Log!OldFile
<1>0. Log!TypeOK /\ FilesAreKnown /\ WorkerIsAlone
  BY DEF LogInv, FilesInv
<1>1. files' # files
  BY DEF Log!Gone, Log!Names
<1>2. PICK w \in Log!Writers : Log!Remove(w) \/ Log!WriteLog(w)
  <2>1. CASE Log!StartLog \/ Log!UnInit \/ Log!SetSynType \/ Log!TakeLine \/ Log!EndWorker \/ Log!Tick \/ Log!SetBack
    BY <1>1, <2>1 DEF Log!StartLog, Log!UnInit, Log!SetSynType, Log!TakeLine, Log!EndWorker, Log!Tick, Log!SetBack
  <2>2. ASSUME NEW w \in Log!Writers, Log!Write(w) PROVE Log!Remove(w) \/ Log!WriteLog(w)
    BY <1>1, <2>2 DEF Log!Write, Log!GetFileName, Log!DeleteOldFile, Log!WriteFails
  <2> QED
    BY <1>0, <1>1, <2>1, <2>2, WriterSteps, PushLogPushes
<1>3. CASE Log!WriteLog(w)
  <2>1. UNCHANGED <<now, shift, victim>> /\ target' = [target EXCEPT ![w] = 0]
    BY <1>3 DEF Log!WriteLog, Log!Done, Log!clock
  <2>2. \A v \in Log!Writers : Lowest <= target'[v] /\ target'[v] <= now
    BY <1>0, <2>1, NowIsATarget, TargetKept
  <2>3. files' = files \cup {NewFile(w)} \/ Log!Names(files') = Log!Names(files)
    BY <1>0, <1>3, <2>1, <2>2, FilesWritten, OneFileGrown
  <2> QED
    BY <2>3 DEF Log!Gone, Log!Names
<1>4. CASE Log!Remove(w)
  <2>1. w = Log!worker /\ victim[w] = Oldest
    <3>1. doing[w] = "remove"
      BY <1>4 DEF Log!Remove, Log!Goto
    <3> QED
      BY <1>0, <3>1 DEF WorkerIsAlone, Log!Writers
  <2>2. files' = {g \in files : g.name \notin Oldest}
    BY <1>1, <1>4, <2>1 DEF Log!Remove
  <2>3. f.name \in Oldest
    BY <2>2 DEF Log!Gone, Log!Names
  <2>4. files # {} /\ m_iMaxFileSum <= Cardinality(files) /\ f.name = Log!OldFile.name
    BY <2>3 DEF Oldest
  <2>5. Log!OldFile \in files
    BY <1>0, <2>4, OldFileIsThere
  <2> QED
    BY <1>0, <2>4, <2>5 DEF FilesAreKnown
<1> QED
  BY <1>2, <1>3, <1>4

LEMMA LogTakesOldest ==
  ASSUME LogInv, Log!Next
  PROVE  Log!TakesOldest
<1> SUFFICES ASSUME m_nType = "asyn", NEW f \in files, Log!Gone(f)
             PROVE  /\ shift = 0 => \A g \in files : f.created <= g.created
                    /\ files # {f} => \E g \in files \ {f} : f.created <= g.created
  BY DEF Log!TakesOldest
<1>0. FilesAreKnown /\ WorkerIsAlone
  BY DEF LogInv, FilesInv
<1>1. files # {} /\ f = Log!OldFile
  BY OnlyTheOldestGoes
<1>2. /\ Log!First \in files /\ \A g \in files \ {Log!First} : Log!First.name < g.name
      /\ f.created < Log!First.created \/ (f = Log!First /\ \A g \in files : Log!First.created <= g.created)
  BY <1>0, <1>1, FirstIsThere, OldFileIsThere
<1>3. f.created \in Int /\ \A g \in files : g.created \in Int /\ g.name \in Int
  BY <1>0, FileTyped
<1>4. CASE f = Log!First /\ \A g \in files : Log!First.created <= g.created
  BY <1>4
<1>5. CASE f.created < Log!First.created
  <2>1. Log!First \in files \ {f} /\ f.created <= Log!First.created /\ Log!First.name < f.name
    BY <1>2, <1>3, <1>5
  <2>2. shift # 0
    <3>1. ASSUME shift = 0 PROVE FALSE
      <4>1. Log!First.created <= f.created
        BY <1>0, <1>2, <2>1, <3>1 DEF WorkerIsAlone, NamesAreByAge
      <4> QED
        BY <1>2, <1>3, <1>5, <4>1
    <3> QED
      BY <3>1
  <2> QED
    BY <2>1, <2>2
<1> QED
  BY <1>2, <1>4, <1>5

\* While the worker is the only writer DeleteOldFile takes the oldest file, or,
\* when local time has gone back, not the newest of several; and the files are
\* never more than the number configured, those that earlier runs left beyond it,
\* and one for each removal that failed (SysLog.cpp:432).
THEOREM RotationTakesTheOldest == Log!Spec => RotationIsSound
<1>1. LogInv /\ LogInv' /\ [Log!Next]_(Log!vars) => [Log!TakesOldest /\ Log!StaysBounded]_(Log!vars)
  <2> SUFFICES ASSUME LogInv, LogInv', Log!Next
               PROVE  Log!TakesOldest /\ Log!StaysBounded
    OBVIOUS
  <2>1. Log!TakesOldest
    BY LogTakesOldest
  <2>2. Log!StaysBounded
    BY SameCount DEF Log!StaysBounded, LogInv, FilesInv, WorkerIsAlone
  <2> QED
    BY <2>1, <2>2
<1> QED
  BY <1>1, LogIsKept, PTL DEF Log!Spec, RotationIsSound, Log!RotationIsSound

=============================================================================
