# EasyGameServer in TLA+

EasyGameServer is a small game server for Windows (`src/EasyServer`), with a
cocos2d-x game client (`src/Cocos2dxGameClient`) and a load generator
(`src/DummyClient`). Players connect over TCP, log in by player id, and their
chat and moves are broadcast to everyone; player data is loaded from and
periodically saved to SQLite by a thread of its own. This directory holds TLA+
models of the server and of its two clients, the TLC runs that check them and
TLAPS proofs.

File names without a directory below are in `src/EasyServer/EasyServer`.

## The system

### Threads

| thread | loop | shares |
| --- | --- | --- |
| main (`_tmain`) | `accept`, then `Produce` into `pendingAcceptList` (100 places) | accept list |
| client (`ClientHandlingThread`) | non-waiting `Consume` of one socket and `CreateClient`, or else `FlushClientSend` and `SleepEx`, in which APCs run: `RecvCompletion`, `SendCompletion`, `TimerProc` | accept list, both job queues |
| database (`DatabaseHandlingThread`) | `Consume` a job, run its SQL, `Produce` the result (127 places each) | both job queues |

Everything but the three queues belongs to the client thread alone.

### Components

| component | state | operations | what makes it correct |
| --- | --- | --- | --- |
| ClientSession | `mConnected`, `mLogon`, `mSocket`, `mPlayerId`, position, name, send and receive buffer, one OVERLAPPED per direction, `mRefCount` | OnConnect, PostRecv, OnRead, SendRequest, SendFlush, OnWriteComplete, Broadcast, OnTick, OnDbUpdate, DatabaseJobDone, LoginDone, Disconnect | never used after delete; one receive outstanding; heartbeat and save go on while it is logged in; nothing new is started once it is disconnected |
| ClientManager | `mClientList` (map from SOCKET), `mLastGCTick` | CreateClient, BroadcastPacket, OnPeriodWork, CollectGarbageSessions, DispatchDatabaseJobResults, FlushClientSend; CreatePlayer, DeletePlayer (no caller) | every live session is listed under its handle; results reach the session that asked; disconnected sessions are deleted in the end |
| PacketHandling | handler table | completion routines, OnRead, handlers for login, chat and move, DefaultHandler | the read loop ends |
| Scheduler | priority queue of tasks, `mCurrentTick` | PushTask, DoTasks, CallFuncAfter | a task runs once, not before it is due, and its owner lives until then |
| DatabaseJobManager | request and result queue | ExecuteDatabaseJobs, PushDatabaseJobRequest, PopDatabaseJobResult | every request gets a result; no thread waits for ever |
| DatabaseJobContext, DbHelper | one object per job; connection and statement | OnExecute of load, create, delete, update | a load sees the last save |
| ProducerConsumerQueue | ring, lock, two condition variables | Produce, Consume | atomic, first in first out, no lost wakeup |
| CircularBuffer | memory, regions A and B | Peek, Read, Write, Remove, Commit, GetBuffer and the size queries | first in first out; regions never overlap |
| RefCountable, ObjectPool | count; free list | IncRefCount, DecRefCount; new, delete | exact counts; no block handed out twice |
| game client (`TcpClient`, `HelloWorld`) | `m_loginId`, `m_recvBuffer`, `mPlayerSprite`, `mPeerMap`, functions posted to the cocos thread | getInstance, loginRequest, chatRequest, moveRequest, send, networkThread, processPacket, onKeyReleased, updateMe, updatePeer, chatDraw | packets arrive whole and in order; the sprites are where the sessions have the players |
| dummy client | per session: id, position, timer; one `io_service` for all | Connect, HandleConnect, read header and payload, OnTick, SendPacket | logs in and then moves and chats, one timer each |

### What is hard here

The server is mostly sequential code in APCs, so what is hard to test is what
spans several of them: a socket handle that `closesocket` has returned to the
system while the session, or a database job, still carries it; reference counts
kept by hand over I/O and tasks; two threads that both wait for room in a queue
only the other empties; a session closed by one packet of a read while the loop
goes on; calls that fail half way; bytes the system reads from a buffer after
the call that posted them has returned; a clock that wraps. The complete list,
each at its line, is under `hazards` in `PROJECT.json`.

## The modules

| module | models |
| --- | --- |
| `EasyServer` | the three threads, the life of a session, the job queues |
| `Connection` | one connection byte by byte: client, stream, session, three buffers |
| `Players` | clients and sessions as the players see them, database jobs, table |
| `Scheduler` | delayed tasks over a tick that wraps |
| `ProducerConsumerQueue` | the queue, lock step by lock step |
| `BoundedQueue` | abstract: what the queue promises |
| `CircularBuffer` | the buffer, byte by byte |
| `ByteFifo` | abstract: what the buffer promises |
| `ObjectPool`, `DbHelper` | operators: the allocator; jobs, statements and the table |
| `MCEasyServer`, `MCCircularBuffer`, `MCPlayers` | symmetry sets for TLC |
| `EasyServerProofs`, `EasyServerSafetyProofs`, `ProducerConsumerQueueProofs`, `CircularBufferProofs`, `SchedulerProofs`, `ConnectionProofs`, `ConnectionStreamProofs`, `PlayersProofs` | theorems |

How they fit together:

- `EasyServer` and `Players` use the queues as atomic sequences;
  `ProducerConsumerQueue` is the justification.
- `EasyServer` uses a send buffer as a number of packets that may be refused
  when it is not empty and must be when it is full; `CircularBuffer`
  (`EmptyTakesAll`) is the justification that an empty one never refuses.
- `Connection` is composed of three instances of `CircularBuffer`, with the
  same operators `Put`, `Fill`, `Front` and `Drop` the proofs are about.
- `Players` uses a connection as two sequences of whole packets; `Connection`
  (`HandledInOrder`, `ReceivedOnce`) is the justification, as long as sends do
  not overlap. It uses `ObjectPool` and `DbHelper` by EXTENDS.
- `EasyServer` counts pending tasks; `Scheduler` says when they run.

### EasyServer

Variables have the names of the members they stand for (`mConnected`,
`mRefCount`, `mClientList`, ...), as functions over `Session`. `Session` is the
set of objects, one per `new`: a deleted identity is not used again, so a
dangling pointer stays visible. `clientPc` is where the client thread is:

    accept -> FlushClientSend -> sleep -> APC ... -> apc -> Wake -> accept
    APC:  RecvCompletion -> read (handlers) -> OnReadDone
          SendCompletion
          TimerProc -> tasks (OnTick, OnDbUpdate) -> gc -> dispatch <-> handle

A step runs from one queue operation to the next, since only the queues are
shared. A step that requests a database job leaves it in `pushing`: the thread
is inside `Produce`, and does nothing else until there is room. A job carries
`owner`, the session that asked; the program has no such field, and the model
uses it only to state `ResultToRequester`.

What the environment decides is nondeterministic: which handle `accept`
returns, what a client sends and when, whether WSARecv, WSASend, a completion,
`setsockopt`, an SQL statement fails, which tasks are due.
Four constants switch parts of the environment, to show which property needs
which assumption: `HandlePolicy` (`"any"`: any closed handle may be returned by
`accept`; `"unlisted"`: not one that is still a key of `mClientList`;
`"fresh"`: none that was used before), `LingerMayFail`, `Unregistered`
(clients send packet types that have no handler) and `ShortPackets` (clients
send packets whose `mSize` is smaller than their type).

A handler has two ends: `ParsePacket` reads the packet and it is handled
(`HandleLogin`, `HandleBroadcast`), or it reads nothing, because fewer bytes are
stored than the type has, and the packet stays (`ParseFailure`). After that, and
after `DefaultHandler`, `OnRead` meets the same packet for ever: `clientPc` stays
`"short"` or `"default"` (`Stuck`).

Left out, and in `Connection`, `Players` and `Scheduler` instead: packet
contents, names, positions, where packets begin and end in the received bytes,
and due times; `OnWriteComplete` removes any number of whole packets, none to all.
The update job and the tasks of `LoginDone` and `OnDbUpdate` are one step with
what surrounds them because no other thread sees what lies between.

### ProducerConsumerQueue

`pc` gives where each thread is in `Produce` or `Consume`: before the lock, at
the test of the loop, past it, asleep on the condition variable, woken and
waiting for the lock, past the release and about to signal.
`SleepConditionVariableSRW` releases the lock and sleeps in one step, may return
spuriously, and returns with the lock held. Callers choose whether they wait.
An argument is forgotten when it is stored or refused, a result when the call
returns (`Forget`): both are variables of the calling thread.

### CircularBuffer

Pointers are offsets into `mBuffer`, `NULL` is -1. `UsesB`, `Room` and `Target`
are the decisions that `Write`, `GetFreeSpaceSize` and `GetBuffer` share.
`posted` is the space a WSARecv in progress may fill: `PostRecv` computes it
and `Commit` is the completion. `Drop` is the removal that `Read` and `Remove`
have in common. The game client's `CircularBuffer` is a copy of this code.

### Scheduler

`mTaskQueue` is the set of elements; `Top` is what the comparator leaves of
their order, so tasks due at the same tick run in any order. `DoTasks` reads
the clock, then `RunTask` and `PopTask` alternate: what the task pushes is in
the queue before the pop, as in the code. `now` is time that does not wrap;
`GetTickCount` is `now % TickMod`, and so is the sum in `PushTask`, where the
code adds two 32-bit numbers. `at` repeats the due time without the wrap, for
the properties, and `chain` names the login that started the element's chain: a
session may log in again, and `LoginDone`, which does not ask, then starts a
heartbeat and a save beside those that run. `MCScheduler` ends before the tick wraps, `MCTickWrap` does not.

### Connection

A cell of the stream carries its packet, its place in the packet and the
packet's size, of which the header gives the size; bytes that are not the
beginning of a packet give any size when they are read as a header, and do not
parse as a packet. The stream hands over any number of bytes at a time. `pc`
is `"read"` inside OnRead's loop and `"alertable"` between completion routines.
`sends` are the outstanding WSASends as places in `mSendBuffer`; `Transmit` is
the moment the system reads the bytes there, at any time between `SendFlush`
and `SendCompletion`. Every packet is answered with one of its size, which
stands for the broadcast of chat and move to the sender.

`Overlap` (a flush may find a send outstanding) and `PartialSend` (`::send` may
take a part of a packet, as it may on a socket that does not block) are parts
of the environment. Overlap is what really happens when a completion takes
longer than a round of the client thread: with it TLC finds `ReceivedOnce`
violated (`MCDuplicateSend`). The socket of the game client blocks, so
`PartialSend` is FALSE in both runs; set it to TRUE to see `TcpClient::send`
leave a packet cut in two and `HandledInOrder` violated.

### Players, ObjectPool, DbHelper

`Client` is the set of clients, each with its session, whose socket handle is
the client itself: handles are not reused here. Game clients press keys;
`ProcessPacket` is the network thread and `RunCallback` the cocos thread, so a
move is compared with `m_loginId` at one time and drawn at another. `Dummy`
clients share one process, which an exception ends. A session that is
disconnected takes what is on its way with it (`Disconnect` closes hard), and a
send buffer never refuses (that is `EasyServer`'s and `Connection`'s subject).
A position is one number; the game has even ones only, so that the conversion of a double of the database
to a float loses something. A table has, for each id, the rows with that id:
there is no primary key, and `CreatePlayer` may insert a second one.

A job object lies in a block of the pool of its class, and the queues hold
references, as in the code; `JobsOwned` is about the free list itself.

Ghosts, which only properties read: `promised` is the table as it will be once
all jobs that were pushed are executed, and a job's `expected` the outcome that
follows from it; `visited` collects the positions each player has had, `told`
who was connected when a session moved.

## The runs

| run | instance | states | checks |
| --- | --- | --- | --- |
| `MCSessions` | 3 sessions, 2 handles, 1 login, buffer of 1 packet, up to 2 sends outstanding; `"unlisted"`, every call may fail, unregistered types, short packets | 752 thousand | TypeOK, RefCountExact, NoDanglingPointers, HandleOwnership, ReceiveExclusive, HeartbeatAlive, LiveListed, DisconnectedDrains |
| `MCLiveness` | 2 sessions that share 1 handle, 1 login; no linger failure, unregistered types, short packets; fairness | 16 thousand | NeverMutuallyBlocked, ConnectedHasRecv, Reclaimed, LoginSettled, FlushesUnlessStuck |
| `MCQueue` | 2 producers, 2 consumers, 2 items, 2 slots; fairness | 312 thousand | TypeOK, NoLostWakeup, RefinesBoundedQueue, SleepersWoken |
| `MCCircularBuffer` | 5 bytes, 2 byte values | 61 thousand | TypeOK, LayoutOK, PostedSpaceFree, EmptyTakesAll, RefinesByteFifo |
| `MCScheduler` | 2 sessions, 2 logins each, intervals 2 and 3, 5 ticks; fairness | 402 thousand | ExecutedIsPopped, RunsWhenDue, ChainsKept, DoTasksEnds |
| `MCConnection` | 3 packets of 3 or 4 bytes, headers of 2, buffers of 8; fairness | 171 thousand | HandledInOrder, ReceivedOnce, RecvHasRoom, InboxTakes, SendPinned, Answered |
| `MCPlayers` | a game client and a dummy client, 2 players, 2 login keys, 1 move or chat, 1 save, error or disconnection | 1.9 million | PacketsOfPlayers, LoginsSeeSaves, OwnPositions, JobsOwned, ViewsAgree |

What they show, in a sentence each, is in `PROJECT.json`. The properties worth
a reader's time, and what they mean for the code:

- `RefCountExact`, `NoDanglingPointers`: the hand-kept counts are right on every
  path, failures included.
- `HandledInOrder`, `ReceivedOnce`, `SendPinned`: however TCP cuts the stream,
  and although the system reads from a buffer that is in use, packets arrive
  whole, once and in order, in both directions.
- `RecvHasRoom`, `InboxTakes`: no buffer that has been read as far as it can be
  is full. They rest on packets being short against the buffers.
- `LoginsSeeSaves`: over two queues and two threads, a login finds the last
  save that was pushed before it. `OwnPositions`: and it is a position of that
  player.
- `ViewsAgree`: once all is delivered, clients draw what sessions have.
- `RunsWhenDue`, `ChainsKept`, `DoTasksEnds`: the periodic work goes on, on
  time, and lets go of the thread. `ChainsKept` counts per login: a session that
  logged in twice has two heartbeats and two saves, exactly.
- `Reclaimed`, `LoginSettled`, `FlushesUnlessStuck`: a packet that `OnRead` cannot
  take is the one thing that stops the client thread; all else that clients do
  leaves it at work.

Five runs show where the code does not do what its comments say. Each checks
one property that a kinder environment keeps (no handle reused, no overlapping
sends, no wrap of the tick, more places in the queues, no packet without a
handler):

| run | property | what happens |
| --- | --- | --- |
| `MCResultKey` | ResultToRequester | a session asks for a load, disconnects and is collected; its handle is accepted again; the result logs the new session in |
| `MCBlocked` | NeverMutuallyBlocked | request and result queue are full, the client thread is in `PushDatabaseJobRequest` and the database thread in `Produce` |
| `MCDefault` | FlushesForever | `DefaultHandler` leaves the packet where it is and `OnRead` never ends |
| `MCTickWrap` | DoTasksEnds | the tick wraps within an interval; a task's successor is due at once and is popped in its place, so the task runs for ever |
| `MCDuplicateSend` | ReceivedOnce | a second flush before the completion sends the same bytes again |

Three more such failures are seen by changing a constant of a run, and are
noted under `hazards`: with `HandlePolicy = "any"` a handle accepted again
before the collection leaves the new session out of `mClientList`
(`LiveListed`); with `LingerMayFail = TRUE` a session stays connected with
no receive outstanding (`ConnectedHasRecv`); and `MCDefault` with
`ShortPackets = TRUE` in place of `Unregistered` shows the same endless loop
(`FlushesForever`) for a packet that is shorter than its type.

Each property of a passing run has a mutant in `PROJECT.json`: a definition,
kept beside the one it changes and marked as such, that a plausible slip in the
code would give, under which TLC finds the property violated.

### Bounds

- Sessions: two, one after the other, are what handle reuse takes; the third
  adds a bystander that is broadcast to and listed throughout.
- `MaxLogins` of `EasyServer`: one login starts both task chains of a session; two are a second
  login of one session, or two sessions that log in together.
- `MAX_DB_JOB`: a queue of one place is full and empty in turn. In the model
  the threads do not block each other with as many logins as places
  (`MCLiveness`: 1 and 1; for every size `FewLoginsNeverBlock`) and do with one
  more (`MCBlocked`: 2 and 1).
  With the code's 127 places it takes a burst of logins in one read, or saves that fall due together.
- `SendCap`, `MaxSends`: a packet that is refused, and a second overlapped send
  on a session, both occur with one and two.
- `Accept` needs an object identity left for the socket.
- The queue's slots: with two, offset and occupation differ and wrap; with four
  threads, two of each kind sleep at once. Two items are what a wrong
  order, a lost item or a doubled one takes to be seen.
- The buffer: five bytes are the least with which B opens, is partly read and
  moves to the front while bytes remain, at several offsets.
- The scheduler: intervals of 2 and 3 fall together and apart; five ticks are
  two heartbeats and a save of each of four chains, started at any time, and a
  save that is pending beside them. Every number of logins is the theorem's.
- The connection: with packets of 3 and 4 bytes in buffers of 8, headers and
  packets are cut at every place, lie across the end, and region B opens in
  each of the three buffers.
- The players: two login keys are one session logged in twice as two players,
  or as the player of the dummy client; one move and one event are enough for
  each of the properties to be broken by its mutant. `MCPlayers` may run out of
  keys and events, so it does not check for deadlock.

TLC checks for deadlock in every other run: the periodic timer, the clock and spurious
wakeups mean there is always a next step, except where `MCBlocked` shows there
is not.

### Fairness

`EasyServer!Fairness`: each thread goes on when it can. Strong fairness is
assumed of `TimerProc` (a waitable timer with a period of 100 ms; its APC is
queued to the sleeping thread), of `Wake` (APCs come from I/O and a timer, so the
queue runs empty), of `CollectGarbageSessions` (`OnPeriodWork` makes one when a
second has passed) and of `Drain` of a disconnected session (`closesocket`
completes its I/O with an error, and a task becomes due after its interval).
Nothing is assumed of clients or of `accept`. `ProducerConsumerQueue!FairSpec`:
a thread inside an operation goes on, and a thread that waits for the lock gets
it; nobody has to call, and no spurious wakeup has to happen.
`Scheduler!Spec`: the client thread goes on with `DoTasks`; time need not pass.
`Connection!Spec`: weak fairness of everything but the keys and the end of the
connection, taken together: every step moves bytes forward, so as long as one
thread or the network goes on, packets get through.

## The proofs

All for every value of the constants that satisfies the assumptions in the
modules: `ConstantsAssumption`, `QueueAssumption`, `ThreadsAssumption`,
`CapacityAssumption`, `IntervalAssumption`, `NoTaskAssumption`,
`ConnectionAssumption`, `AllocCountAssumption` and `PlayersAssumption` (positive
capacities and intervals, null values that are not values, chunks no larger than
the buffer they go to, floats that are even). Some theorems have a hypothesis of
their own, because without it they are false; each is named below with what it
is about and with the run or the hazard that shows what happens otherwise.

- **EasyServerProofs**: `TypeCorrect`, `RefCountsAreExact`, `NoUseAfterDelete`.
  `NoDanglingPointers` is not inductive. The invariant adds to `TypeOK` and
  `RefCountExact`: `HeldOnlyWhileLive` (only a live session has I/O or tasks or is
  in `OnRead`), `PointersOK` (a list entry names a live session whose handle is
  its key, a connected session is alive, `DoTasks` has no more saves to run than
  are queued) and `ControlOK` (`current` is set exactly while `OnRead` runs, and
  a result is in hand while one is handled). The heart is `CollectGarbageSessionsInv`: a session that is deleted has
  count zero, so by exactness nothing holds it, and erasing its handle
  erases its own entry and no other. It holds for every `HandlePolicy`: handle
  reuse loses sessions, but never frees one in use.
- **EasyServerSafetyProofs**, from that invariant. Without a hypothesis:
  `HandlesAreOwned`, `ReceivesAreExclusive`, `DisconnectedOnlyDrains` (an action
  property) and `HeartbeatsStayAlive`, which needs that only a session that
  exists is logged in (`LogonAfterNew`). `ConnectedIsRead` if `setsockopt` does not
  fail (`~LingerMayFail`). `LiveSessionsAreListed` if `accept` does not return a
  handle that is still a key of the list (`HandlePolicy # "any"`): strengthened by
  `PendingUnlisted`, that no handle in the accept list is a key.
  `FreshHandlesDeliver` if handles are never reused (`HandlePolicy = "fresh"`):
  strengthened by `HandlesFresh` and `JobsBelong`, that a job's handle is the one
  of the session that pushed it and of no other. `MCResultKey` shows the
  wrong delivery when they are reused.
  `FewLoginsNeverBlock` is about the two job queues: until more than `MAX_DB_JOB`
  logins have been handled, the client thread and the database thread never wait
  for each other in `Produce`; `CapacitySuffices` is `NeverMutuallyBlocked` itself
  where `MaxLogins` is no larger. The bound is exact: `MCBlocked` blocks with
  one login more. The argument counts. `LoginsPay`: every load job on its way and
  every periodic save has a login of its own (`LoginDone` exchanges the one
  for the other). `JobsBounded`: the jobs on their way and the saves that can
  still be requested before results are dispatched again are at most
  `MAX_DB_JOB + 1` and one for each login; the step it rests on is
  `PopDatabaseJobResult` finding the result queue empty, when only the request
  queue and the database thread's hand can hold jobs. Two full queues and a job in
  each hand are `2 * MAX_DB_JOB + 2`. The saves of all sessions are counted as the
  cardinality of a set of pairs (`Tasks`), since a sum over sessions takes
  recursion. TLC checked both bounds first, with 1 and 2 places and 2 and 3 logins.
- **ProducerConsumerQueueProofs**: `TypeCorrect`, `Refinement` and
  `WakeupsAreNotLost`. The
  invariant adds `LockInv`, that a thread at the test or past it holds the lock
  and that what it saw at the test still holds. `Refinement` maps the
  ring to the sequence of its items from the offset on; storing is `Produce`,
  taking is `Consume`, every other step a stutter or a new argument.
  `NoLostWakeup` counts: a step that changes the number of items changes by
  the same amount the number of threads about to signal or to look, so the proof
  follows the cardinality of the set of those threads through each step.
- **CircularBufferProofs**: `TypeCorrect`, `RegionsApart`,
  `ReceiveIntoFreeSpace`, `EmptyIsWhole`, `Refinement`. The invariant adds that an empty A
  lies at the start with B closed, and that an outstanding receive has room.
  `Refinement` maps the two regions to the bytes `Front` reads, A and then B;
  its lemmas say what `Put` and `Fill` append to and `Drop` takes off that
  sequence, the slide of B to the start included.
- **SchedulerProofs**: `Types` for every tick, and `RunsArePopped`,
  `TasksRunWhenDue` and `ChainsAreKept` as long as no execution tick wraps
  (`BeforeWrap`; `MCTickWrap` shows the wrap). The invariant: ticks are times, a
  task that has run is still the first of the queue until it is popped
  (what it pushes is due later), and each login of a connected session has
  one task of a kind beside the one that has run, while no task names a login
  still to come (`OneOfEach`). That a queue that is not empty has a first element is well-foundedness of the naturals.
- **ConnectionProofs**: the buffers are instances of `CircularBuffer`, so the
  lemmas about it are used as they are, once for each. `Base` says that all
  three are well formed, the receive posted has the place `Commit` will look at,
  and the session's read loop leaves less than a packet. From it
  `ReceivesHaveRoom`, if two packets less a byte each fit the buffer
  (`ReceiveFits`; the code has 10240 bytes and packets of at most a few hundred),
  `InboxAlwaysTakes`, if in the same way a read and a packet fit the client's
  (`InboxFits`; 32768 and 4096), and `SendsArePinned`, if no
  send is posted while one is outstanding (`~Overlap`; `MCDuplicateSend` shows
  what overlapping ones do).
- **ConnectionStreamProofs**: `PacketsAreHandledInOrder` and
  `AnswersAreReceivedOnce`, under the same hypotheses and as long as a blocking
  `::send` takes all it is given (`~PartialSend`). A byte carries its packet and
  its place in it, so that a stream is whole packets in order is said by
  what each byte says of the next (`Begins`, `Within`, `Follows`), which
  takes no induction. The invariants `UpInv` and `DownInv` say it of everything
  on its way: the network, the receive buffer and, on the way back, the send
  buffer from the first byte not yet sent, the network and the client's buffer,
  one after the other. Each step moves bytes from the front of
  one to the end of the next, so their concatenation stays as it is.
  Both invariants were checked by TLC with the constants of `MCConnection` first.
- **PlayersProofs**: `PacketSafety`, `OrderSafety`, `PositionSafety`,
  `BlockSafety` and `ViewSafety`, for any clients, players, moves, bounds and `ALLOC_COUNT`, errors
  of the database, disconnections and logins as a second player included. The
  invariant `IInv` has four parts. `JobInv` is about the jobs: the references in
  the two queues differ; for each kind, the blocks they name are exactly those not
  on the pool's free list, which is a sequence that `Owns` asserts to exist (`New`
  takes its first, `Delete` puts one in front); a job that writes a row, or has read
  one, has a name and a position of its player; and unless the database has
  failed there is a sequence of tables (`Leads`), one for each request, that begins with
  `table` and ends with `promised`, in which each job has the outcome expected of
  it. The ghost `expected` has no influence on that (`ExpectedIsGhost`). `ClientInv`
  and `SessionInv` say that what is on its way and what is drawn are floats and
  ids of players, and that a session that plays a player has its name and one of its
  positions; `VisitedInv` that rounding stays within those. `FreeBlocks` is a
  recursive function: `FreeBlocksOfOwns` shows by the least counterexample that it
  runs through the free list. `JobInv` says that a function exists, over a
  set too large to enumerate, so it is proved without a run of its own; the
  properties it implies are those of `MCPlayers`.

  `ViewSafety` is `ViewsAgree`: once everything is delivered, clients draw what the
  sessions have. That says nothing of a state in which a packet is on its way, so it
  is far from inductive. Its invariant `ViewInv` says of every state what each
  client will have when the packets before it are taken and the
  functions it has queued are run. `IdView`: the id it will have is that of the last login result
  on its way, or the one it has. `OwnView`: it will draw itself where the last login result
  or own move on its way says, or the last `updateMe` queued, or where its sprite is.
  `PeerView`: it will draw a player where that player's last move says, provided
  the move finds the client with another id, because whether a move becomes `updateMe` or
  `updatePeer` is decided by the id the client has when the packet arrives.
  `IdInv`, `OwnInv` and `PeerInv` state that these views agree with the session of each
  client that was told of its last move; `LinkInv`, `DummyInv` and `LoadInv` add that nothing is on its
  way to a client that is not connected and that a dummy client logs in as one
  player only. Each step of a session, of a client and of the network is then a
  lemma about a queue that grows at its end or shrinks at its front. TLC checked
  `ViewInv` first, with the constants of `MCPlayers` and with two game clients.

Only model-checked is liveness, which is out of the prover's reach: `Reclaimed`,
`LoginSettled`, `FlushesUnlessStuck`, `SleepersWoken`, `DoTasksEnds` and `Answered`.

## Not modelled

- Crash dumps (`Exception.cpp`): they write a file while the process dies.
  `CRASH_ASSERT` failing is not an outcome the models have: what it asserts in
  `CircularBuffer` and `ObjectPool` follows from `LayoutOK` and `JobsOwned`.
- Thread-local variables: `LThreadType` feeds assertions, `LScheduler` is the
  client thread's scheduler.
- Opening and closing the database, at the start and end of `_tmain`, and
  `DbHelper::Execute`, which has no caller.
- Errors of the `BindParam` calls, which the jobs ignore: a statement runs with
  the parameters it was given.
- The application delegate, menu and sprites of the game client; the command
  line of the dummy client.
- SQLite: of its interface, what `DbHelper` uses is modelled as an external
  operation (`Stepped`). Its two headers (`sqlite3.h`, `sqlite3ext.h`) are 7 784
  of the 11 402 lines of C and C++ in the repository and hold no code of this
  system; the repository's own 3 618 lines are what the map is about.

## Plan

Every invariant and every safety property of an action that a run checks is
proved, in some cases under the hypothesis that its violation run shows to be
needed. What would extend the project:

- the liveness properties, which the prover cannot reach;
- the two hazards that no property covers yet: a key whose target is computed from
  where the sprite is drawn (`HelloWorldScene.cpp:106`), and a cancelled wait
  of the dummy client that runs `OnTick` all the same (`ClientSession.cpp:29`).
