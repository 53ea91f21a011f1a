---------------------------- MODULE ClientMailbox ----------------------------
(***************************************************************************)
(* How the messages of clients reach ProcessMessage.  The thread that      *)
(* dispatches for a server (ServerItem::DealIoMsgQueue) puts a complete    *)
(* message into the mailbox of its client and, if the client does not look *)
(* active, gives the ThreadPool a task for it.  A pool thread that gets    *)
(* the task empties the mailbox until nothing has come for two seconds.    *)
(* m_bActive is written by both without a lock.  A client without a        *)
(* ServerItem, made by ConnectServer, has its messages run at once by the  *)
(* thread that dispatches for such clients (IoManager::DealIoMsgQueue).    *)
(***************************************************************************)
EXTENDS Naturals, FiniteSets, SynDeque

CONSTANTS Clients,      \* ClientItems, all of them accepted
          Served,       \* those whose m_pServerItem is not NULL
          PoolThreads,  \* the threads of the pool
          Dispatcher,   \* the thread that dispatches for the ServerItem
          Manager,      \* the thread that dispatches for the other clients
          TaskRoom,     \* how many tasks m_TaskList of the pool holds
          MaxMsgs,      \* bound: messages to a client
          NULL

ASSUME MailboxAssumption ==
  /\ Served \subseteq Clients
  /\ IsFiniteSet(PoolThreads)
  /\ Dispatcher \notin PoolThreads \cup {Manager} /\ Manager \notin PoolThreads
  /\ NULL \notin Clients /\ NULL \notin Nat
  /\ TaskRoom \in Nat \ {0} /\ MaxMsgs \in Nat

VARIABLES
  m_ClientList,  \* the clients the server knows and so keeps alive
  m_MsgQueue,    \* of a client: its mailbox, a SynDeque
  m_bActive,     \* of a client: whether it has a task, or so one believes
  m_TaskList,    \* the queue of the pool: whom the tasks are for
  thread,        \* of a thread: where it is and for which client
  received,      \* history, of a client: how many messages were dispatched
  processed      \* history, of a client: what ProcessMessage was given

history == <<received, processed>>
vars == <<m_ClientList, m_MsgQueue, m_bActive, m_TaskList, thread, history>>

Threads == PoolThreads \cup {Dispatcher, Manager}
DispatcherOf(c) == IF c \in Served THEN Dispatcher ELSE Manager

Idle == [pc |-> "idle", client |-> NULL, msg |-> NULL]

Init ==
  /\ m_ClientList = Clients
  /\ m_MsgQueue = [c \in Clients |-> CreateQueue]
  /\ m_bActive = [c \in Clients |-> FALSE]
  /\ m_TaskList = <<>>
  /\ thread = [t \in Threads |-> Idle]
  /\ received = [c \in Clients |-> 0]
  /\ processed = [c \in Clients |-> <<>>]

At(t, pc) == thread[t].pc = pc
Goto(t, pc) == thread' = [thread EXCEPT ![t].pc = pc]
Return(t) == thread' = [thread EXCEPT ![t] = Idle]
ClientOf(t) == thread[t].client

-----------------------------------------------------------------------------
(* ClientItem::GroupPackage, from the moment a message is complete.        *)

\* FindClient has found the client of the message.  The dispatching thread
\* keeps it alive until GroupPackage returns.
GroupPackage(c) ==
  LET d == DispatcherOf(c) IN
  /\ At(d, "idle") /\ c \in m_ClientList /\ received[c] < MaxMsgs
  /\ received' = [received EXCEPT ![c] = @ + 1]
  /\ thread' = [thread EXCEPT ![d] =
       [pc |-> IF c \in Served THEN "check" ELSE "run",
        client |-> c, msg |-> received[c] + 1]]
  /\ UNCHANGED <<m_ClientList, m_MsgQueue, m_bActive, m_TaskList, processed>>

\* Mutant: the flag is not read.
CheckActiveUnread ==
  /\ At(Dispatcher, "check") /\ Goto(Dispatcher, "add")
  /\ UNCHANGED <<m_ClientList, m_MsgQueue, m_bActive, m_TaskList, history>>

CheckActive ==
  /\ At(Dispatcher, "check")
  /\ Goto(Dispatcher, IF m_bActive[ClientOf(Dispatcher)] THEN "push" ELSE "add")
  /\ UNCHANGED <<m_ClientList, m_MsgQueue, m_bActive, m_TaskList, history>>

\* ThreadPool::AddTask.  Nobody looks at the -1 of a full queue.
AddTask ==
  /\ At(Dispatcher, "add") /\ Goto(Dispatcher, "activate")
  /\ m_TaskList' = IF Len(m_TaskList) < TaskRoom
                   THEN Append(m_TaskList, ClientOf(Dispatcher))
                   ELSE m_TaskList
  /\ UNCHANGED <<m_ClientList, m_MsgQueue, m_bActive, history>>

SetActive ==
  /\ At(Dispatcher, "activate") /\ Goto(Dispatcher, "push")
  /\ m_bActive' = [m_bActive EXCEPT ![ClientOf(Dispatcher)] = TRUE]
  /\ UNCHANGED <<m_ClientList, m_MsgQueue, m_TaskList, history>>

PushMsg ==
  LET c == ClientOf(Dispatcher) IN
  /\ At(Dispatcher, "push") /\ Return(Dispatcher)
  /\ m_MsgQueue' =
       [m_MsgQueue EXCEPT ![c] = PushBack(@, thread[Dispatcher].msg)]
  /\ UNCHANGED <<m_ClientList, m_bActive, m_TaskList, history>>

\* ServerItem::ProcessIoMsg for IO_ON_DISCONN, or a client that timed out.
DelClient(c) ==
  /\ At(DispatcherOf(c), "idle") /\ c \in m_ClientList
  /\ m_ClientList' = m_ClientList \ {c}
  /\ UNCHANGED <<m_MsgQueue, m_bActive, m_TaskList, thread, history>>

-----------------------------------------------------------------------------
(* ThreadPool::RunThreadProc                                               *)

\* A thread has a shared_ptr to the client from spTask on, the dispatcher from
\* FindClient on.
Holders(c) ==
  {t \in Threads :
     ClientOf(t) = c /\ thread[t].pc \notin {"expired", "lock", "crashed"}}

Expired(c) == c \notin m_ClientList /\ Holders(c) = {}

TakeTask(t) ==
  /\ At(t, "idle") /\ m_TaskList # <<>>
  /\ m_TaskList' = Tail(m_TaskList)
  /\ thread' = [thread EXCEPT ![t] =
       [pc |-> "expired", client |-> Head(m_TaskList), msg |-> NULL]]
  /\ UNCHANGED <<m_ClientList, m_MsgQueue, m_bActive, history>>

TestExpired(t) ==
  /\ At(t, "expired")
  /\ IF Expired(ClientOf(t)) THEN Return(t) ELSE Goto(t, "lock")
  /\ UNCHANGED <<m_ClientList, m_MsgQueue, m_bActive, m_TaskList, history>>

\* A client that expires between the two calls is run through a NULL pointer.
\* The pool thread is gone then; what else becomes of the process is left out.
LockTask(t) ==
  /\ At(t, "lock")
  /\ Goto(t, IF Expired(ClientOf(t)) THEN "crashed" ELSE "run")
  /\ UNCHANGED <<m_ClientList, m_MsgQueue, m_bActive, m_TaskList, history>>

-----------------------------------------------------------------------------
(* ClientItem::RunProcess                                                  *)

\* The assert on pMsg is no step: a release build goes on.
RunProcess(t) ==
  /\ At(t, "run")
  /\ thread' = [thread EXCEPT ![t] = [@ EXCEPT !.pc = "wait", !.msg = NULL]]
  /\ UNCHANGED <<m_ClientList, m_MsgQueue, m_bActive, m_TaskList, history>>

WaitObject(t) ==
  /\ At(t, "wait") /\ m_MsgQueue[ClientOf(t)].m_hevent /\ Goto(t, "pop")
  /\ UNCHANGED <<m_ClientList, m_MsgQueue, m_bActive, m_TaskList, history>>

WaitTimeout(t) ==
  /\ At(t, "wait") /\ ~m_MsgQueue[ClientOf(t)].m_hevent /\ Goto(t, "clear")
  /\ UNCHANGED <<m_ClientList, m_MsgQueue, m_bActive, m_TaskList, history>>

PopMsg(t) ==
  LET q == m_MsgQueue[ClientOf(t)] IN
  /\ At(t, "pop")
  /\ m_MsgQueue' = [m_MsgQueue EXCEPT ![ClientOf(t)] = PopFront(q)]
  /\ thread' = [thread EXCEPT ![t] =
       [@ EXCEPT !.pc = "process", !.msg = Popped(q, NULL)]]
  /\ UNCHANGED <<m_ClientList, m_bActive, m_TaskList, history>>

ProcessMessage(t) ==
  /\ At(t, "process")
  /\ processed' =
       [processed EXCEPT ![ClientOf(t)] = Append(@, thread[t].msg)]
  /\ thread' = [thread EXCEPT ![t] = [@ EXCEPT !.pc = "wait", !.msg = NULL]]
  /\ UNCHANGED <<m_ClientList, m_MsgQueue, m_bActive, m_TaskList, received>>

ClearActive(t) ==
  /\ At(t, "clear") /\ Return(t)
  /\ m_bActive' = [m_bActive EXCEPT ![ClientOf(t)] = FALSE]
  /\ UNCHANGED <<m_ClientList, m_MsgQueue, m_TaskList, history>>

-----------------------------------------------------------------------------
Dispatch == CheckActive \/ AddTask \/ SetActive \/ PushMsg

Pool(t) == TakeTask(t) \/ TestExpired(t) \/ LockTask(t)

Run(t) ==
  \/ RunProcess(t) \/ WaitObject(t) \/ WaitTimeout(t)
  \/ PopMsg(t) \/ ProcessMessage(t) \/ ClearActive(t)

Next ==
  \/ \E c \in Clients : GroupPackage(c) \/ DelClient(c)
  \/ Dispatch
  \/ \E t \in PoolThreads : Pool(t)
  \/ \E t \in PoolThreads \cup {Manager} : Run(t)

Spec == Init /\ [][Next]_vars

\* Every thread that can go on does; messages and disconnections need not
\* come.
Fairness ==
  /\ WF_vars(Dispatch) /\ WF_vars(Run(Manager))
  /\ \A t \in PoolThreads : WF_vars(Pool(t) \/ Run(t))

FairSpec == Spec /\ Fairness

-----------------------------------------------------------------------------
Pcs == {"idle", "check", "add", "activate", "push", "expired", "lock", "run",
        "wait", "pop", "process", "clear", "crashed"}

TypeOK ==
  /\ m_ClientList \subseteq Clients
  /\ m_MsgQueue \in
       [Clients -> [m_deque : Seq(1 .. MaxMsgs), m_hevent : BOOLEAN]]
  /\ m_bActive \in [Clients -> BOOLEAN]
  /\ m_TaskList \in Seq(Served) /\ Len(m_TaskList) <= TaskRoom
  /\ thread \in [Threads -> [pc : Pcs, client : Clients \cup {NULL},
                             msg : 1 .. MaxMsgs \cup {NULL}]]
  /\ received \in [Clients -> 0 .. MaxMsgs]
  /\ processed \in [Clients -> Seq(1 .. MaxMsgs)]

\* The tasks for a client and the pool threads that are about to run one or
\* are running it.
Tasks(c) == {i \in 1 .. Len(m_TaskList) : m_TaskList[i] = c}
Workers(c) ==
  {t \in PoolThreads : ClientOf(t) = c /\ thread[t].pc # "crashed"}

\* Although m_bActive is read and written without a lock, a client never has
\* two tasks, two workers, or one of each: only the dispatcher adds a task, and
\* only when the last worker has nothing left to do but to return.
OneWorker ==
  \A c \in Clients : Cardinality(Tasks(c)) + Cardinality(Workers(c)) <= 1

\* ProcessMessage gets the messages of a client in the order they came in, each
\* once, and none is lost on the way through the mailbox: what was processed,
\* what a worker has in its hand, what is in the mailbox and what the
\* dispatcher is about to put there are the messages received.
Hand(t) == IF thread[t].msg = NULL THEN <<>> ELSE <<thread[t].msg>>

InOrder ==
  \A c \in Served :
    LET worker == {t \in Workers(c) : At(t, "process")}
        inHand == IF worker = {} THEN <<>> ELSE Hand(CHOOSE t \in worker : TRUE)
        coming == IF ClientOf(Dispatcher) = c THEN Hand(Dispatcher) ELSE <<>>
    IN  processed[c] \o inHand \o m_MsgQueue[c].m_deque \o coming
          = [i \in 1 .. received[c] |-> i]

\* A client that is taken for active although it has no task and no worker,
\* after an AddTask that failed or a worker that left before SetActive, stays
\* so: no later message wakes it (ClientItem.cpp 145-151).
Deaf(c) == m_bActive[c] /\ Tasks(c) = {} /\ Workers(c) = {}

DeafForever == [][\A c \in Clients : Deaf(c) => Deaf(c)']_vars

\* The mailbox of a client with a task, or with a worker that has not given up
\* waiting, gets emptied.
HasWorker(c) ==
  \/ Tasks(c) # {}
  \/ \E t \in Workers(c) : thread[t].pc \notin {"clear"}

Gone(c) == c \notin m_ClientList \/ \E t \in PoolThreads : At(t, "crashed")

MailboxIsEmptied ==
  \A c \in Served : HasWorker(c) ~> (m_MsgQueue[c].m_deque = <<>> \/ Gone(c))

=============================================================================
