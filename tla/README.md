# srlib in TLA+

srlib is a C++ library for Windows servers: an IO completion port driver that
accepts and reads connections, two dispatch layers that turn completions into
messages for servers and clients, a thread pool that runs the clients' work,
and the containers, locks, allocator and logger they share.  This directory
holds TLA+ specifications of its parts, TLC configurations that check them on
small instances, and proofs for TLAPS.

Source references are to `src/srlib/`.  Comments in the source are GBK encoded.

## 1. Inventory

### 1.1 How the parts fit together

    accept thread ---- FD_ACCEPT ----> PostAcceptIo            (IocpDriver)
    IO threads ------- completions --> OnAccept OnPreRecv OnRecv OnDisconn
         | IoManager::PostIoMsg
         v
    RingQueue<IoMsg> of a ServerItem, or of IoManager when no server is found
         | one dispatch thread each: ProcessIoMsg
         v
    ClientItem::GroupPackage  -- reassembly --> SynDeque mailbox
         | ThreadPool::AddTask (RingQueue<TaskParam>)
         v
    a pool thread: ClientItem::RunProcess drains the mailbox

Buffers travel with the messages and come from one `MemoryPool` behind one
critical section.

### 1.2 Components

| component | state | operations | what makes it hard | what makes it correct |
|---|---|---|---|---|
| `RingQueue` (ringqueue.h) | spin lock word, `head`, `tail`, slots | `PushBack`, `PopFront`, `sizes`, `init` | many producers and consumers, 32-bit indices that wrap | exclusion, no overrun, FIFO order, each item once, the lock is released |
| `CSRongMultiWriteSingleRead` (Lock.cpp) | write flag, read count | `EnableWrite`, `DisableWrite`, `AddReadCount`, `DecReadCount`, `ReadToWrite` | spinning, upgrades that meet | a writer is alone, upgrades are atomic, no deadlock |
| `MemTypeAllocator`, `MemoryPool` (MemoryPool.h) | free list, counters; one allocator per size class | `AllocMemory`, `FreeMemory`, `Malloc`, `Free`, `Init`, `UnInit`, `UpSize2Boundary`, `BlockBound2Slot` | linked list surgery, size-class arithmetic, blocks that outlive the list | no block is handed out twice, the list stays doubly linked, counters match it |
| `SynDeque` (syndeque.h) | deque, critical section, manual-reset event | `PushBack`, `PopFront`, `Clear`, `WaiteForQueue` | event and deque change in different critical sections from the wait | the event is set exactly when the deque is not empty, no message is lost |
| `ThreadPool` (threadpool.h) | `m_nTotalThread`, `m_nFreeThread`, `m_bClose`, task queue | `InitThreadPool`, `AddTask`, control thread, worker threads, `UnInitThreadPool` | workers run before they are counted; weak pointers expire; a task lasts as long as its client talks | counters match the threads, the pool grows to its limit and no further, a full queue does not stay full while threads can be had |
| `ClientItem` (net/ClientItem.cpp) | reassembly map, mailbox, `m_bActive` | `GroupPackage`, `RunProcess`, `SendPackage`, `SendMessage`, `Disconn` | the activity flag is set and cleared by two threads without a lock | a message in the mailbox is processed, one worker per client, messages reassembled as sent |
| `ServerItem` (net/ServerItem.cpp) | message queue, client map | `StartServer`, `PostIoMsg`, `ProcessIoMsg`, `DealIoMsgQueue`, `AddClient`, `FindClient`, `DelClient` | messages of a client may arrive before or after its registration | registered clients are the connected ones, idle ones are closed |
| `IoManager` (net/IoManager.cpp, .h) | server map, client map, message queue | `CreateServer`, `ConnectServer`, `PostIoMsg`, `ProcessIoMsg`, `CloseConn`, `SendMessage` | a server accepts before it is registered; handles are used again; a full queue loses messages | a packet goes to the client of its connection, clients of ended connections go |
| `IocpDriver` accepts (net/IocpDriver.cpp) | `m_nPostAcceptIoStat`, pending AcceptEx | `Listen`, `MtAcceptIo`, `PostAcceptIo`, `OnAccept` | counter incremented and decremented by different threads without a lock | the counter equals the pending accepts, at most 20 are pending |
| `IocpDriver` connection life (net/IocpDriver.cpp) | one `AsyncResult` per socket: IO type, buffer, `m_nCurFlag` | `OnAccept`, `OnPreRecv`, `OnRecv`, `OnDisconn`, `PostSendIo`, `Connect`, `CloseConn` | packets cut anywhere by TCP, contexts reused by the next connection | packets come out as they went in, nothing of one connection leaks into the next |
| packaging (net/ClientItem.cpp, NetDefine.h) | operation flags of a packet | `SendPackage`, `GroupPackage` | fragments, compression, refused sends that nobody notices | what is grouped is what was sent |
| `SysLog` (SysLog.cpp) | configuration, line deque, the files | `Init`, `PushLog`, `LogWorker`, `GetFileName`, `DeleteOldFile`, `WriteLog`, `SetSynType`, `UnInit` | synchronous and asynchronous writers, rotation by size and time, a clock that is set back, files that cannot be removed | a queued line is written once, in order; the oldest file goes |
| `CSRongCriticalSection`, `Event`, `Semaphore`, `Mutex` (Lock.cpp) | a Windows handle each | create, open, wait, release | wrappers | they forward |
| `CSingleton`, `ClassFactory` | instance pointer; registry map | `GetInstance`; `Register`, `CreateClass` | unsynchronised first use | one instance |
| `CDBManager` (db/DBManager.cpp) | 200 connections | `InitDBManager`, `GetDBConnnection`, `UnInitDBManager` | two threads may share a connection; a dead connection is opened again in silence | a transaction is stored whole or not at all |
| `CAdoConnection`, `CAdoCommand` (db/) | a COM object each | open, close, execute, transactions | connections break at any point, errors arrive as COM exceptions | the same, and a lost connection comes back |
| `CAdoRecordSet` (db/AdoRecordSet.cpp) | a COM object, the last search and its bookmark | edits, moves, `Find`, `FindNext`, `SeekToFieldValue`, `GetRecordCount`, `GetCursorPos`, `GetFieldValues`, `Open`, `Close` | a pending edit that a move saves, errors in the middle of a walk, cursors without bookmarks | searches miss nothing, a walk that promises so brings the cursor back, calls return |
| `varto*`, `PutCollect`, `GetCollect`, `CAdoParameter` (db/) | none | conversions between C++, VARIANT and field types | widths, signs, halves | what goes in comes out, or is refused |
| `Ini`, `crc32` | none | read and write profile strings; checksum | none | - |
| `zlib/` | vendored | - | - | - |

## 2. The modules

| module | what it is | code |
|---|---|---|
| `FifoQueue` | what a queue promises: each operation takes effect at one instant | - |
| `RingQueue` | the ring buffer, one access to shared memory at a time | ringqueue.h |
| `RingQueueProofs` | proofs about it, the refinement of `FifoQueue` included | |
| `MultiWriteSingleRead` | the readers-writer lock and the counter it guards | Lock.cpp, Lock.h |
| `MultiWriteSingleReadProofs` | proofs about it | |
| `SizeClass` | which allocator serves a request, as pure operators | MemoryPool.h |
| `MemoryPool` | extends `SizeClass` with the blocks, lists and counters | MemoryPool.h |
| `MCMemoryPool`, `MemoryPoolProofs` | its symmetry, and the requests its arithmetic is tried with; proofs about it | |
| `SynDeque` | the deque and its event, as operators | syndeque.h |
| `ClientMailbox` | extends `SynDeque`: how messages reach `ProcessMessage` | net/ClientItem.cpp, threadpool.h |
| `ThreadPool` | how many threads the pool has | threadpool.h |
| `ThreadPoolProofs` | proofs about it | |
| `AcceptIo` | how many AcceptEx calls are outstanding | net/IocpDriver.cpp |
| `PacketStream` | a message from `SendPackage` to `GroupPackage` of the other side | net/ClientItem.cpp, net/IocpDriver.cpp, net/ServerItem.cpp |
| `MCPacketStream`, `PacketStreamProofs` | its commands and messages; proofs about it | |
| `NetService` | sockets and their handles, the messages about them, and who keeps a client for which | net/IocpDriver.cpp, net/IoManager.cpp, net/ServerItem.cpp |
| `MCNetService`, `IocpDriverProofs` | its names beside `AcceptIo`; proofs about the two views of the driver | |
| `SysLog` | extends `SynDeque`: lines and the files they go to | SysLog.cpp |
| `MCSysLog`, `SynDequeProofs` | its names beside `ClientMailbox`; proofs about the two users of `SynDeque` | |
| `Variant` | conversions between C++, VARIANT and fields, as pure operators | db/AdoConnection.cpp, db/AdoRecordSet.cpp, db/AdoCommand.cpp |
| `RecordSet` | extends `Variant`: one record set, its cursor, its edit and its searches | db/AdoRecordSet.cpp |
| `MCRecordSet` | its rows and jumps, and what conversions should give | |
| `AdoSession` | connections and the transactions of threads on them | db/DBManager.cpp, db/AdoConnection.cpp, db/AdoCommand.cpp |
| `MCAdoSession`, `DatabaseProofs` | its names beside `RecordSet`; proofs about both | |

`MCNetService`, `MCSysLog` and `MCAdoSession` instantiate a specification whose
names (`Spec`, `pc`, `Threads`) another one has as well, state the assumptions on
its constants and give its properties the names TLC and the theorems use.

Operators, variables and actions have the names of the functions and fields
they stand for.  An operator whose comment begins with "Mutant" is a wrong
version of the definition that follows it; no specification uses it.  It is
there to show that a property of the module depends on the right one.

### RingQueue

State: the lock word, the free-running indices `head` and `tail`, the slots and,
for each thread, its place in the operation and its local variables.
`PushBack` and `PopFront` begin an operation; `Exchange` and `CompareExchange`
are the two interlocked instructions of `spin_mutex`, `Load` reads both indices
and decides, `Reject` is the early return, `PushIndex`/`PushSlot` and
`PopIndex`/`PopSlot` are the two writes in the order of the code, and `Unlock`
ends it.  `IndexSpan` is 2^32 in the code; the indices wrap.  `sizes` is a read
without consequences and is left out.

The refinement mapping takes the queue's contents as they were when the last
holder left the lock: an operation takes effect at its `Unlock` or `Reject`.
The exception `LinearizableUnlessWedged` makes is a property of the code:
`PopFront` tests `tail > head` on indices that wrap, so a ring that is full
across the wrap looks empty to it, and since it looks full to `PushBack` neither
moves again (`WedgedForever`).  With 2^32 indices this takes four thousand
million pushes and a full ring at that moment.

### MultiWriteSingleRead

State: `s_nReadCount`, the write flag, the counter of `MWSR_int`, and for each
thread its place and the value it has read.  Each access of the lock to its
fields is inside the same critical section, so each is one step; the loops with
`Sleep` around them leave the state alone.  `ReadToWrite` gives up the read count
and raises the flag in one step, then `Drained` waits as `EnableWrite` does.

`WriterGetsIn` is what Lock.cpp 696-697 says: the loop is endless only if
somebody forgets to release a read lock.  The run `rw_lock_upgrade` shows
otherwise (see "findings" in PROJECT.json), and `WriterGetsInUnlessUpgrade` is
what does hold.

### SizeClass and MemoryPool

`SizeClass` has `UpSize2Boundary`, `BlockBound2Slot` and `Slot2BlockBound` as
functions of numbers.  `MemoryPool` has the blocks of the C heap, each with the
links and the size type of its header, and for each allocator the two ends of
its list and its two counters.  `Malloc` and `Free` are one step each: one
critical section covers them, list surgery, counters and the calls of the C
heap included.  `Malloc` has three ways (from the list, from the heap, by the
heap alone), `Free` the same.

`SizesAreClassed` compares the arithmetic with its reference, the smallest block
that fits, for the constants of the code; it also says which requests the pool
asserts on, those of class 0, 1 to 16 bytes.  `IoManager::PostIoMsg` makes such
a request for every ACCEPT (IoManager.cpp 255: `sizeof(SOCKADDR_IN)` is 16).  In `MemoryPool` such a request never gets to an
allocator, as in the code; the network modules take allocation to succeed.

### ClientMailbox and SynDeque

State: the clients that are registered, their mailboxes and `m_bActive`, the
task queue of the pool and for each thread the place it is at.  The dispatch
thread goes through `CheckActive`, `AddTask`, `SetActive` and `PushMsg`, one
step for each of the lines 145 to 151 of ClientItem.cpp.  A pool thread takes a task
(`TakeTask`), tests the weak pointer, locks it, and runs `RunProcess`, whose
`WaiteForQueue` is two steps, the wait and the pop, because the code leaves the
critical section between them.  `DelClient` removes a client at any moment.

`DeafForever` is a property of the code that nobody wants: when `AddTask` fails
because the queue is full, or a worker gives up before `SetActive`, the flag
stays set without a worker.  `MailboxIsEmptied` therefore speaks of clients that
have a task or a waiting worker.  A client without a ServerItem has its
messages run by the thread that dispatches for it: `GroupPackage` hands one to
`RunProcess`, which asserts that it was given none (ClientItem.cpp 158); the
model is of the release build, which waits for the mailbox instead.

### ThreadPool

State: the two counters, `m_bClose`, the number of tasks, and the places of the
control thread and of the workers.  Every interlocked instruction is a step of
its own.  `CreateThreadFails` is there because `_beginthreadex` returns 0 and
not -1 when it fails, so that the code counts a thread that does not exist
(`phantoms`).  What a task does is in `ClientMailbox`.

A worker has steps of two kinds.  `OwnStep` is the loop of the pool.  `RunTask` is
the return of the task: `RunProcess` stays in its loop while messages come within
two seconds of each other (ClientItem.cpp 162), so a task may last as long as its
client talks, and nothing in it reads `m_bClose`.  So `ThreadsEnd` says that at
the end every thread is gone or is in its task for ever, and `QueueGetsRoom` that
a queue stays full for ever only when every thread there is stays in its task and
no other is started, because the pool is at its limit or takes phantoms for the
free threads it is to keep (`AllInTasks`).

### AcceptIo

State: the counter, the registers of the two threads (`++` and `--` are a load
and a store), and how many contexts are in each stage.  `PostAcceptIo` is an
operator of the thread because both call it.  The history variables `lostInc`,
`lostDec` and `stranded` count what makes the counter drift; the properties say
exactly how far.  The comment at IocpDriver.cpp 886 wants at most 20 AcceptEx
calls; `AcceptsAreBounded` has one more, for the two threads that may pass the
test together, and one for each increment that another store overwrote.

### PacketStream

State: the peer (`up`, the threads in `SendPackage`, the packets sent), the bytes
in TCP, the `AsyncResult` (`phase`, `m_nCurFlag`, `buffer`), the queue of the
ServerItem, and the client with its reassembly map.  A byte is a pair of its
packet and its position.  `SendWhole` and `SendFragment` call `SendMessage`;
`OnAccept`, `OnPreRecv` and `OnDisconn` are callbacks, each with the `WSARecv` or
`DisconnectEx` it ends in.  `OnRecv` is three actions: the bytes received are
added to those kept (`OnRecv`), each turn of the loop posts one packet
(`OnPacket`), as the server's thread may take it before the next turn, and the
rest moves to the front of the buffer (`OnRest`); between them `phase` is
"framing".  `ProcessIoMsg` is one turn of the server's thread.  `Close`, `Reset` and `IdleTimeout` end the connection in the
three ways the driver can see.  `Reset` (error 64) and `IdleTimeout` take the
`AsyncResult` out of use, and the model follows it no further.

Nothing clears `m_nCurFlag` when a connection ends inside a packet, and the next
connection of the same `AsyncResult` starts with it: `OnRecv` then reads beyond
what it received.  `OnRecvAstray` is that case, with everything the memory can
make of it, an endless loop (phase "spin") included.  `base` records what a
connection started with, and the properties speak of those that started with 0.
They also leave out commands that two threads sent at the same time (`mixed`):
`GroupPackage` has one entry per command, so their fragments mix.

`SendMessage` may fail while the connection stays up (`WSASendFails`): `PostSendIo`
frees a packet that WSASend does not take, for lack of buffers say, and returns -1
(IocpDriver.cpp 965-985), which neither `SendPackage` nor `SendMessage` looks at.  The
rest of the message follows, and the receiver puts together a message without a
piece of it.  `refused` records the command, and of that command on that
connection nothing more is promised; all others still come whole.
`MessagesArrive` takes the server to be in the manager's list, as it is from
`AddServer` on: before, messages go to the manager's queue (`NetService`).

### NetService

State: the socket behind each handle with the operation it has outstanding, the
completion port, the two message queues, the two client maps by handle, and what
the server's thread and `ConnectServer` are at.  `OnAccept`, `OnRecv`,
`OnRecvClosed`, `OnDisconn` and `Error64` are the turns of the IO thread, each
with its `PostIoMsg` and its next call; `Post` waits for room in the server's
queue and drops what the manager's has no room for.  `ServerMsg` and `ManagerMsg`
are `ProcessIoMsg` of the two threads, `TimeOut` and `CloseConn` close a socket,
`Connect` and `AddClient` are the two halves of `ConnectServer`.

The program keeps handles, and Windows gives a handle out again.  `conn` tells
the model, and only it, which connection a handle stands for; when a thread
calls on a handle that is another socket by now, the model stops (`stray`), as
nothing useful can be said of what follows.  `PacketsStayApart` has one
exception, which is in the code: `ServerItem::CloseConn` closes the socket and
keeps the client.  `DeadClientsGo` has another: the manager has no timeout, and an
end of a connection may never reach it (`unheard`: error 64, a `DisconnectEx`
that fails, a full queue, a message before `AddClient`).  `m_ClientList` of the
manager has no lock; its accesses are taken to be atomic.

### SysLog

State: the mode, the queue, the files with their names, ages and sizes, two
clocks, and for each writer (the worker and the threads) the line in its hand,
the file it is about to remove and the one it writes to.  `GetFileName`,
`DeleteOldFile`, `Remove` and `WriteLog` or `WriteFails` are the steps of one
line; `Remove` may leave the file where it is, as the code ignores what `remove`
returns (SysLog.cpp 432), and at the beginning there may be more files than
configured, as MaxFileSum is read anew in each run.  `excess` counts both, and
`StaysBounded` says that nothing else makes the files more than m_iMaxFileSum.  Names are local time and can go back (`SetBack`).  `DeleteOldFile`
compares each file with the first listed one and not with the oldest so far.
While the names list the files by age that takes the oldest; after the clock was
set back it takes another, but not the newest of several (`TakesOldest`).  `UnInit` forgets the lines that are
queued, and a thread that writes itself (`SetSynType`) shares nothing with the
worker, so that both halves of `RotationIsSound` are about the worker as the only
writer.  The level filter keeps a line when its number is at least `m_eLevel`,
although LEVEL_ERROR is the smallest.

### Variant and RecordSet

`Variant` has one operator per conversion: what is stored for a C++ value, what
the provider makes of it, and what `vartol`, `vartof` and the others read from
the union.  `ConversionsAreFaithful` tries every field and every number with every
C++ type: the read is right, refused, or wrong with TRUE (`Outcome`).  `ReadsAll`
lists the fields that are always right, `ReadsWhatFits` those that are right for
just the numbers the type has, and `Refuses` what is refused: other fields as DWORD
or float, and a currency beyond the longs.  All that remains is wrong with TRUE,
for instance -1 of an adInteger as a DWORD (AdoRecordSet.cpp 1984) and 2^31 of an
adUnsignedInt as a long (AdoConnection.cpp 133).

`RecordSet` has the ADO record set (`rs`), the search that `Find` left behind, and
the call that is under way (`op`) when a call walks over rows, one step for each
row.  The operators `Ado...` are what ADO does, with the edit that a move saves
and the database may refuse at any moment (`Refuse`).  `last` is the row that
was found last while nothing has changed the rows.  `Requery` gives the rows that
the database has by then, like `Open`.

### AdoSession

State: the connections, each open or closed for the client, alive or dead for
the server, in a transaction or not, with the statements the server has not
committed; whether the server takes connections; and what each thread is at.
`Probe`, `CloseOld` and `Open` are `GetDBConnnection`; `BeginTrans`, `Execute`,
`CommitTrans` and `RollbackTrans` are one call of ADO each, with their failures
(`ExecuteFails`, `CommitUnheard`, `CommitFails`).  `Break` and `Serve` are the
network and the server.  `AllOrNothing` is about threads that share their
connection with no other (`Alone`): nothing keeps two threads apart whose ids
divided by 4 agree modulo 200, and a thread of a pool has the connection of its
id and no other.

## 3. The runs

| run | configuration | states | what it shows |
|---|---|---|---|
| `ring_queue` | 3 threads, 2 items, ring of 2, indices modulo 8 | 0.5 M | exclusion, no overrun, refinement of the queue, the lock is released |
| `rw_lock` | 4 threads, 2 of them upgrade | 7 K | a writer is alone, no lost update, writers get in |
| `rw_lock_upgrade` | 2 threads, 1 upgrades | - | expected violation of `WriterGetsIn` |
| `memory_pool` | 6 blocks, 4 classes, requests in 4 ways, 2 free blocks + 1; sizes to 3000 and around each boundary | 588 | lists and counters; the smallest block that fits, and `Free` finds the allocator of `Malloc` |
| `mailbox` | 2 clients, 2 pool threads, room for 1 task, 2 messages each | 29 K | one worker, order, nothing lost |
| `thread_pool` | 4 threads, keeps 2 free, grows to 3, 2 failures | 39 K | counters, limits, room in the queue, the pool ends but for tasks that last |
| `accept_io` | rounds of 2, limit 2, 3 connections, 1 refused call | 1.1 M | the counter, the limit, the backlog |
| `packet_stream` | 2 threads, 3 commands, messages of 0, 1 and 3 pieces, packets of 2 or 3 bytes, 2 messages, 2 connections, 1 refused packet | 2.2 M | messages are whole, in order and once, and arrive |
| `net_service` | 1 handle, queues of 2, 2 connections of 2 packets | 132 K | packets stay with their connection, dead clients go |
| `sys_log` | 1 thread beside the worker, 2 files of 2 lines, 2 lines and the head, 4 seconds, 2 files in excess | 864 K | lines are written once and in order, rotation takes the right file and accounts for every file |
| `record_set` | 3 rows, 2 texts, jumps by 2; bytes of 2 bits, shorts of 3, longs of 4 | 159 K | conversions, searches, walks that keep the cursor, calls that return |
| `ado_session` | 2 threads, 2 connections, 2 statements | 52 K | whole transactions, connections that come back |

States are distinct states, up to symmetry of the blocks in `memory_pool`.  The
modules `MCMemoryPool`, `MCNetService`, `MCPacketStream`, `MCRecordSet`, `MCSysLog`
and `MCAdoSession` are what TLC runs where there is one.

Why the bounds are enough.  A ring of two with indices modulo 8 meets the wrap
at each alignment of `head` and `tail`; the third thread is the one that finds
the lock taken by one and wanted by another.  The lock needs two upgraders to
meet in `ReadToWrite`, a writer and a reader.  Six blocks fill one free list
beyond its limit while another is in use.  With one place for tasks `AddTask`
fails, with two pool threads and two clients a worker can start before the flag
is set while the other is busy.  Three pool threads over a default of two is the
smallest pool that grows, shrinks and reaches its limit; the fourth identity
makes exceeding it possible; two failures are as many phantoms as the pool keeps
free, from which on it starts no thread.  A limit of two with rounds of two lets both
threads pass the test of `PostAcceptIo` together; there MaxRefused is less than
MAX_ACCEPT: a round in which every AcceptEx fails answers the event with no call
outstanding, and the backlog then waits for the next connection, which
`BacklogIsTaken` does not allow for.  A message of three packets needs an entry that is made,
appended to and erased; a head of two bytes can be cut between the bytes of the
length, which is where the code's `nNumBytes < 2` decides.  One refused packet may
be the first, the middle or the last of three, or the one of a whole message, and
leaves another command that is not concerned.

One handle is used again at once, which is the case `NetService` is about; an
accept and two packets do not fit a queue of two, so that the IO thread waits on
the server and the manager loses messages.  Larger instances were checked once,
by hand: three connections on one handle (974 K states), and two handles (787 K
states without, 559 K with the liveness at one packet each).  Files of two
lines, three lines and files left by earlier runs let a file be continued, be
full and be too old; an excess of two is a file too many at the beginning and a
removal that fails, or two of either.  Three rows, two of them with one text, have a row before,
between and behind; widths of 2, 3 and 4 bits keep the order of 8, 16 and 32 and
all their boundaries.  Two statements are what a transaction needs to be torn;
thread ids 4 and 8 have a connection each, and one when they are not divided.

Fairness is weak fairness of each thread's own steps: Windows runs every thread
that is ready, and none of them gives up its loop.  No fairness is assumed of
peers, of users of a lock or queue, of clients that disconnect, of failures, of
tasks that return (`RunTask` of `ThreadPool`), or of getting a lock at a
particular moment.  In `PacketStream` TCP delivers what
it has to a connection that stays up, and in `NetService` a `DisconnectEx` ends.
`TimeOut` of `NetService` has strong fairness: it is enabled only in the rounds
over the clients, and a round, which comes back for ever, does look at every
client that has been silent for long enough.  In `RecordSet` the fair steps are
those inside a call, in `AdoSession` those of a `GetDBConnnection` that has begun,
in `SysLog` those of the worker.  Accordingly `LockIsReleased` promises that the
lock becomes free and not that a given thread gets it.

CHECK_DEADLOCK is FALSE where the system may stop: upgraders that wait for
each other, and systems whose bounded inputs are used up.

The type invariants (`TypeOK`) are stated in the module of every component and
are all proved; the runs spend their time on the other properties, which
could not be evaluated on values of a wrong type.

## 4. The proofs

| module | theorems | inductive invariant |
|---|---|---|
| `RingQueueProofs` | `TypeCorrect`, `LockExcludes`, `NoOverrun`, `WedgeIsPermanent`, `Linearizable` | what the lock holder has read is current (`Knows`), and for the refinement what it carries to its return (`Carries`) |
| `MultiWriteSingleReadProofs` | `TypeCorrect`, `WriterIsAlone`, `CountIsExact`, `UpdatesAreAtomic` | the flag is up while exactly one thread owns it (`OneFlagOwner`), readers and writers exclude each other, a value read under the lock is current (`Snapshots`) |
| `MemoryPoolProofs` | `TypeCorrect`, `ListsAreLinked`, `ListsAreComplete`, `CountersAreExact`, `PoolIsBounded` | the links and counters together: the counter tells when the list is full, the list which blocks are free; and a block keeps the class it was made for (`TypesKnown`, `PoolIsClassed`); no set of free blocks is closed under going back without the first block (`Chained`) |
| `SynDequeProofs`: ClientMailbox | `TypeCorrect`, `OneWorkerHolds`, `InOrderHolds`, `DeafForeverHolds` | a client has one task or one worker or neither (`Single`); who has one is taken for active, or is about to be, and who is about to get a task has none and is not taken for active (`Known`); the event tells whether there is a message (`Mail`) |
| `SynDequeProofs`: SysLog | `LogIsKept`, `LinesAreInOrder`, `RotationTakesTheOldest` | of each thread and mode, the lines written come before the one in a hand, and that before those queued (`LinesInv`); files have different names, and while the worker is the only writer it removes the file `DeleteOldFile` would choose now, its new file is within the number accounted for and has, unless the clock was set back, the last name (`FilesInv`) |
| `ThreadPoolProofs` | `TypeCorrect`, `CountersAreRight`, `LimitHolds`, `DefaultIsKept` | the counters are exact but for the thread that is being counted; between the test of the limit and the count only the control thread adds threads (`LimitIsKept`); the thread not counted yet does not leave uncounted (`OneStays`) |
| `IocpDriverProofs`: AcceptIo | `TypeCorrect`, `CounterIsExact`, `OutstandingIsBounded` | the counting equation is inductive as it stands; the bound needs that a call reserves its place when the test is passed (`CallsAreBounded`) |
| `IocpDriverProofs`: NetService | `ClientsAreTyped`, `PacketsAreApart` | what the queues hold is about connections, and so is what a socket has outstanding (`NetTypes`); for each handle, what the server has, what waits for it, what waits for the IO thread and the socket are in the order of the connections (`ClientsFirst`, `MessagesNext`, `PortLast`); a connection the server has heard of, or will, stays or its end is told (`EndsAreTold`), before the next one is (`EndsComeBetween`) |
| `PacketStreamProofs` | `TypeCorrect`, `StreamKept`, `QueueInOrder`, `MessagesWhole` | the bytes received and under way are framed (`Framing`), the queue tells of one connection after another (`InOrder`), and from where the server is in the messages of a command its packets follow one another to where the sender is (`Arrivals`); all of `PInv` |
| `DatabaseProofs`: RecordSet | `RecordSetIsTyped`, `CursorComesBack`, `SeekTellsTheTruth`, `FindGoesFromMatchToMatch` | the ids of the rows grow and the cursor is on a row or next to one (`IsSound`); the row found last is there and is the bookmark (`FoundIsKept`); what lies behind a search has not the value, and a count is what lies behind it (`SeekIsOnItsWay`, `CountIsOnItsWay`); a call that is to bring the cursor back knows how far it has gone (`PlaceIsKnown`) |
| `DatabaseProofs`: AdoSession | `SessionsAreTyped`, `TransactionsAreWhole` | a connection holds work only in a transaction the server knows of, and only of threads it is given to (`WorkIsOwn`); until a transaction ends, its connection has all of it or is dead (`Whole`) |

They hold for all values of the constants that satisfy the assumptions of the
modules: any number of threads (finite where they are counted), any capacity
that divides the span of the indices, any size classes whose arithmetic round
trips, any limit.  The assumptions:

- `CapacityAssumption`, `NullAssumption` (RingQueue): ringqueue.h rounds
  every capacity up to a power of two and to 2 at least, so it divides 2^32;
  callers push no null pointer.
- `ThreadsAssumption` (MultiWriteSingleRead): finitely many threads.
- `PoolAssumption`, `RoundTripAssumption` (MemoryPool): every request has an
  allocator or goes to the C heap; and `BlockBound2Slot` inverts `Slot2BlockBound`, which the
  run `memory_pool` checks for the constants of the code (`SizesAreClassed`) and
  which is an induction over powers of two, beyond the prover.
- `AcceptAssumption` (AcceptIo): the limits are positive and the bounds numbers.
- `PacketAssumption` (PacketStream): the keep-alive is a command, a head has at
  least the two bytes of the length (17 in the code), a packet carries data, and
  the bounds are numbers.
- `MailboxAssumption` (ClientMailbox): the dispatching threads are not threads of
  the pool, the pool has finitely many, and its queue has room for one task.
- `PoolSizeAssumption` (ThreadPool): finitely many threads, and a default that is
  no more than the limit.
- `ThreadsAssumption` (MCAdoSession): thread ids are multiples of 4, as those of
  Windows are, and there is a connection.
- `LogAssumption` (MCSysLog): the level is one of the four, at least one file is
  kept, the limits are numbers, and the worker is no thread of a caller.
- `RowsAssumption` (RecordSet): the empty text is a text, `Move` goes by integers,
  and what a query gives fits the bound on rows.
- `NetAssumption` (MCNetService): a queue has room and the bounds are numbers;
  `PacketsAreApart` does not need it.

`OneWorkerHolds` needs no lock because only the dispatcher adds tasks: when it has
seen the flag down, the last worker has cleared it and left, no task is waiting,
and nobody but the dispatcher itself can change that.  `InOrderHolds` follows a message
from the dispatcher's hand to the mailbox, the worker's hand and
`ProcessMessage`: each step moves one message along a concatenation of the four
(`SeqPush`, `SeqPop`, `SeqProcess`, `SeqCount`) and leaves it as a whole.

`LinesAreInOrder` needs the mode in the order: a thread that is switched from
queueing to writing passes its own queued lines, so only the lines of one mode
follow each other.  `PushLog` numbers a line before it queues it or writes it; that
line comes after everything of its thread, and each later step moves a line from
the queue to the worker's hand and from a hand to the file.
`RotationTakesTheOldest` rests on what `CHOOSE` picks in `First`, `Newest` and
`OldFile`, which is there because bounded sets of integers have a least and a
greatest element (`LeastExists`, `GreatestExists`).  Between `DeleteOldFile` and
`Remove` the worker waits on nobody, so what it is about to remove is still
`Oldest`; a file it makes takes the last name unless the clock went back, and this
keeps the names in the order of age.  A removal that succeeds makes room for that
file, and one that fails is counted, so that the files stay within what is
configured, what was found beyond it and these failures (`RemovalMakesRoom`).

`PacketsAreApart` is about one handle at a time.  Everything said of connection k
on a handle is followed only by what is said of k, which it does not announce
again, or of a later connection (`Behind`), from the server's client through its
queue and the completion port to the socket itself.  So when the server takes a
packet for a handle, the connection of its client is that of the packet or an
earlier one; an earlier one has ended, its end was told behind its accept and
before the packet, and the server has taken it and dropped the client, unless the
application closed the socket.  The invariant holds up to the step that uses a
handle for another socket (`stray`), where the model ends.

The three theorems on record sets share the operators `Ado...`: every one that
moves is an update of the pending edit followed by a place (`Went`), and keeps a
record set sound.  `IsSound` has the ids of the rows grow with the rows, so that
`FindNext`, which searches from a bookmark, and `FindEnumerates`, which speaks of
ids, mean the same rows (`BeyondIsBehind`).  `SeekTellsTheTruth` follows from what
lies behind the cursor when the walk ends.  `CursorComesBack` has to
know what becomes of an edit: the first move of a walk saves it, or is refused and
leaves the cursor where it was; after that no move of the walk can fail for it.
`Min` and `Max` have their elements by well-foundedness (`MinIsLeast`,
`MaxIsGreatest`).

`ListsAreComplete` is about `Follow`, the walk along m_pNextBlock, which is a
recursive function.  The provers cannot instantiate the library's theorems of
induction and of recursive definition, whose parameters are operators;
`SetInduction` and `PrimitiveRecursion` state what is needed of them with a set
and a function in their place, and are proved from the well-foundedness of the
naturals.  The invariant that a step preserves, `Chained`, has no walk in it:
every non-empty set of free blocks that holds the predecessor of each of its
blocks holds the first.  From it and `DoublyLinked` each step of a walk meets a
block that was not met before, until all have been.

`PacketStreamProofs` has three parts.  *Framing*: the concatenation of what
`OnRecv` keeps and what TCP holds consists of runs, each from the first byte of a
packet to its last (`IsFramed`, stated as "d bytes on" so that no step needs an
induction over bytes), to the end of the last packet sent while the connection
is up; what takes bytes from the front in whole packets, cuts at the end or adds
a packet keeps it (`FramedRest`, `FramedPrefix`, `FramedAppend`).  *Turns*: each
message of the queue of the server takes a pair, the last connection accepted
and the one that is open, to the next (`Turn`), from where the server is to where
the `AsyncResult` is; a connection that has ended stays so (`Later`), so nothing
comes of it after its IO_ON_DISCONN (`NothingAfter`).  *Places*: the queue and the
packets still in bytes are one line (`Line`), on which `OnPacket` moves nothing.
A place is a message and how much of it is behind; each packet of the line that
concerns a command goes on at the place the one before has led to (`Fits`,
`After`), from what the server has delivered and put by (`Taken`) to where the
sending thread is (`IsSenderAt`).  A packet sent makes the line longer at its end
(`StepLonger`), a message taken shorter at its head (`StepTaken`), all else leaves it or
cuts its end when the connection is over (`StepShorter`).  `MessagesWhole` needs all three.
As in the run, it is about connections that began with m_nCurFlag at 0, and
commands that no two threads sent at once and no packet of which was refused
(`Unbroken`): a refused one is a gap in the places, after which `Fits` does not hold.

`TransactionsAreWhole` is proved for one thread at a time: `OthersStay` shows that a
step of another thread leaves a thread that is alone as it was, since what the
other one stores is the work of its own connection (`StoreApart`); `WholeNext`
and `WholeBreak` are the steps of the thread itself and of the network.

The refinement (`Linearizable`) shows that initial states map to initial states
and that each step maps to a step of `FifoQueue` or a stutter.  The arithmetic
of the wrap is in the lemmas about remainders at the head of the module: slots of
indices less than the capacity apart differ, also across the wrap.

Only model-checked: everything under fairness (`LockIsReleased`,
`WriterGetsInUnlessUpgrade`, `MailboxIsEmptied`, `QueueGetsRoom`, `ThreadsEnd`,
`BacklogIsTaken`, `MessagesArrive`, `DeadClientsGo`, `LinesAreWritten`,
`CallsReturn`, `ConnectionComesBack`), since liveness is out of the prover's
reach; the size classes (`SizesAreClassed`) and the conversions
(`ConversionsAreFaithful`), as it knows nothing of powers of two or of remainders
by them, and `HighBit` and the loop over chunks are recursions whose results are
inductions over data.  Every other invariant and action property of a run is a
theorem.

## 5. What is not modelled

- `CSingleton` and `ClassFactory`: `CreateInstance` tests, makes and registers an
  object without a lock.  Two threads that do so first at the same time make two
  objects or break the map; what a broken map does is nothing a model can list.
  The models begin when every object has been made.  The same holds for the
  manager's `m_ClientList`, whose accesses are taken to be atomic.
- Messages about sends and keep-alives, which both dispatch threads ignore;
  `DelServer`, which nothing calls.
- `UnInit` of the manager, of the driver and of `CDBManager`, which run when
  the program ends.
- A second listening server: only the first `Listen` starts an accept thread.
- Of record sets: `Save`, filters, sorting, batches of fields with other types
  than a text, and the accessors that hand one property to ADO; of connections:
  schemas, `Cancel` and the same kind of accessors.
- Of the log: the formats of lines and binary dumps, the configuration file,
  the switches, `MonitorFunction`.
- `Ini`, `crc32`, the wrappers of Windows handles: each call is one call of
  Windows or a loop over bytes.  zlib is third-party; `PacketStream` relies on
  `uncompress` to undo `compress`.
- Memory exhaustion of the C heap.

## 6. Plan

1. `PacketStream` for one connection against an abstract channel that delivers
   messages of a command in order, as a refinement; its mapping is `Taken`.
2. The composition of `ClientMailbox` with `NetService`: a client that goes while
   a worker waits in its mailbox.
3. The composition of `ThreadPool` and `ClientMailbox`, which count the same tasks
   and threads: what a full pool means for the client whose task is refused.
