----------------------------- MODULE EasyServer -----------------------------
(***************************************************************************)
(* The server: its three threads and the life of a client session.         *)
(*                                                                         *)
(*  - the main thread accepts sockets into pendingAcceptList;              *)
(*  - the client thread creates sessions, flushes sends, then sleeps       *)
(*    alertably and runs APCs: receive and send completions and the timer  *)
(*    (DoTasks, CollectGarbageSessions, DispatchDatabaseJobResults);       *)
(*  - the database thread moves jobs from the request to the result queue. *)
(*                                                                         *)
(* Everything but the three queues is private to the client thread, so one *)
(* of its steps runs from one queue operation to the next.  A step that    *)
(* requests a database job leaves it in pushing: the thread is then inside *)
(* Produce, blocked while the request queue is full.                       *)
(*                                                                         *)
(* Packet contents, positions and names are left out; a send buffer is the *)
(* number of packets it holds.  A job carries the session that requested   *)
(* it (owner), which the program does not store.                           *)
(***************************************************************************)
EXTENDS Integers, Sequences, FiniteSets

CONSTANTS
  Session,        \* identities of ClientSession objects, one per new
  NoSession,      \* nullptr, and a key that is absent from mClientList
  Socket,         \* socket handle values the system hands out
  NoSocket,       \* the handle of a session that was never created
  Player,         \* player ids
  NoPlayer,       \* -1
  NoJob,          \* no job in hand
  AcceptQSize,    \* capacity of PendingAcceptList
  MAX_DB_JOB,     \* capacity of each job queue
  SendCap,        \* packets an empty send buffer takes
  MaxSends,       \* bound: overlapped sends outstanding on one session
  MaxLogins,      \* bound: login packets handled in a behaviour
  HandlePolicy,   \* which closed handles accept may return again
  LingerMayFail,  \* whether setsockopt(SO_LINGER) may fail in Disconnect
  Unregistered,   \* whether clients send packet types without a handler
  ShortPackets    \* whether clients send packets too short for their type

\* The capacities of the queues and of the buffer are positive, and the
\* null values are not values.
ASSUME ConstantsAssumption ==
  /\ NoSession \notin Session /\ NoSocket \notin Socket
  /\ NoPlayer \notin Player
  /\ AcceptQSize \in Nat \ {0} /\ MAX_DB_JOB \in Nat \ {0}
  /\ SendCap \in Nat \ {0} /\ MaxSends \in Nat \ {0} /\ MaxLogins \in Nat
  /\ HandlePolicy \in {"any", "unlisted", "fresh"}
  /\ LingerMayFail \in BOOLEAN /\ Unregistered \in BOOLEAN
  /\ ShortPackets \in BOOLEAN

VARIABLES
  openSockets,    \* handles the system holds open for this process
  acceptList,     \* pendingAcceptList
  clientPc,       \* where the client thread is
  current,        \* the session whose OnRead is running
  pushing,        \* the job PushDatabaseJobRequest is about to enqueue
  life,           \* "none", "live" (between new and delete) or "deleted"
  mSocket, mConnected, mLogon, mPlayerId, mSendBuffer, mRefCount,
  mClientList,    \* std::map<SOCKET, ClientSession*>
  recvPosted,     \* overlapped receives outstanding on each session
  sendPosted,     \* overlapped sends outstanding on each session
  tickTasks,      \* OnTick tasks of each session in the scheduler's queue
  dbTasks,        \* OnDbUpdate tasks of each session in it
  dueDb,          \* OnDbUpdate tasks the running DoTasks may still execute
  requests,       \* mDbJobRequestQueue
  dbJob,          \* jobContext of ExecuteDatabaseJobs
  results,        \* mDbJobResultQueue
  dbResult,       \* dbResult of DispatchDatabaseJobResults
  logins          \* login packets handled so far (bound)

osVars   == <<openSockets, mConnected>>
idVars   == <<life, mSocket, mClientList>>
ioVars   == <<recvPosted, sendPosted>>
taskVars == <<tickTasks, dbTasks>>
gameVars == <<mPlayerId, mLogon, mSendBuffer>>
dbVars   == <<requests, dbJob, results>>
ctlVars  == <<clientPc, current, pushing, dueDb, dbResult>>
vars     == <<osVars, idVars, ioVars, taskVars, gameVars, dbVars, ctlVars,
              acceptList, mRefCount, logins>>

ClientPc == {"accept", "sleep", "apc", "read", "default", "short", "tasks",
             "gc", "dispatch", "handle"}

Job == [type : {"load", "update"}, sock : Socket, pid : Player \cup {NoPlayer},
        owner : Session, ok : BOOLEAN]

NewJob(type, s, pid) ==
  [type |-> type, sock |-> mSocket[s], pid |-> pid, owner |-> s, ok |-> FALSE]

\* The sessions mClientList holds.
Listed == {mClientList[k] : k \in Socket} \ {NoSession}

\* The client thread is at pc and not inside Produce.
At(pc) == clientPc = pc /\ pushing = NoJob

\* The client thread is in SleepEx, where APCs run.
Alertable == clientPc \in {"sleep", "apc"} /\ pushing = NoJob

Init ==
  /\ openSockets = {} /\ acceptList = <<>>
  /\ clientPc = "accept" /\ current = NoSession /\ pushing = NoJob
  /\ life = [s \in Session |-> "none"]
  /\ mSocket = [s \in Session |-> NoSocket]
  /\ mConnected = [s \in Session |-> FALSE]
  /\ mLogon = [s \in Session |-> FALSE]
  /\ mPlayerId = [s \in Session |-> NoPlayer]
  /\ mSendBuffer = [s \in Session |-> 0]
  /\ mRefCount = [s \in Session |-> 0]
  /\ mClientList = [k \in Socket |-> NoSession]
  /\ recvPosted = [s \in Session |-> 0]
  /\ sendPosted = [s \in Session |-> 0]
  /\ tickTasks = [s \in Session |-> 0]
  /\ dbTasks = [s \in Session |-> 0]
  /\ dueDb = [s \in Session |-> 0]
  /\ requests = <<>> /\ dbJob = NoJob /\ results = <<>> /\ dbResult = NoJob
  /\ logins = 0
-----------------------------------------------------------------------------
\* Mutant: closesocket is forgotten.
DisconnectLeaks(S) ==
  /\ mConnected' = [s \in Session |-> mConnected[s] /\ s \notin S]
  /\ UNCHANGED openSockets

(* Disconnect on every session of S.  Where setsockopt fails the function  *)
(* returns before closesocket and the session stays connected.             *)
Disconnect(S) ==
  \E kept \in SUBSET S :
    /\ LingerMayFail \/ kept = {}
    /\ LET closing == {s \in S \ kept : mConnected[s]} IN
       /\ mConnected' = [s \in Session |-> mConnected[s] /\ s \notin closing]
       /\ openSockets' = openSockets \ {mSocket[s] : s \in closing}

\* Mutant: Write does not look at the free space.
RefusingSome(S) == SUBSET {s \in S : mSendBuffer[s] > 0}

(* The sessions of S whose circular buffer refuses one more packet: every  *)
(* full one, and any other that holds data, whose free bytes may be split. *)
Refusing(S) ==
  {F \in SUBSET S : \A s \in S : /\ mSendBuffer[s] = SendCap => s \in F
                                 /\ s \in F => mSendBuffer[s] > 0}

(* SendRequest of one packet to every session of S, all connected: it is   *)
(* buffered, or the session is disconnected.                               *)
SendRequest(S) ==
  \E refused \in Refusing(S) :
    /\ mSendBuffer' = [s \in Session |-> IF s \in S \ refused
                                         THEN mSendBuffer[s] + 1
                                         ELSE mSendBuffer[s]]
    /\ Disconnect(refused)

\* The sessions BroadcastPacket from s has a packet for.
Recipients(s) == {c \in Listed \ {s} : mConnected[c]}

(* Broadcast: to the session itself first; only if that succeeds to the    *)
(* other connected sessions of the list.                                   *)
Broadcast(s) ==
  IF mConnected[s]
  THEN \/ /\ {s} \in Refusing({s}) /\ Disconnect({s})
          /\ UNCHANGED mSendBuffer
       \/ /\ {} \in Refusing({s})
          /\ \E refused \in Refusing(Recipients(s)) :
               /\ mSendBuffer' =
                    [c \in Session |-> IF c \in {s} \cup (Recipients(s) \ refused)
                                       THEN mSendBuffer[c] + 1 ELSE mSendBuffer[c]]
               /\ Disconnect(refused)
  ELSE UNCHANGED <<osVars, mSendBuffer>>
-----------------------------------------------------------------------------
(* Main thread.  The handle accept returns is not open; HandlePolicy says  *)
(* whether it may equal a key of mClientList ("any"), or the handle of a   *)
(* session that is no longer listed ("unlisted"), or neither ("fresh").    *)
AcceptableHandle(k) ==
  /\ k \notin openSockets
  /\ HandlePolicy # "any" => mClientList[k] = NoSession
  /\ HandlePolicy = "fresh" => \A s \in Session : mSocket[s] # k

(* accept and Produce in one step: a socket accepted while the list is     *)
(* full is held by the main thread, where no other thread sees it.         *)
(* Bound: there is an object identity left for every accepted socket.      *)
Accept(k) ==
  /\ AcceptableHandle(k)
  /\ Len(acceptList) < AcceptQSize
  /\ Len(acceptList) < Cardinality({s \in Session : life[s] = "none"})
  /\ openSockets' = openSockets \cup {k}
  /\ acceptList' = Append(acceptList, k)
  /\ UNCHANGED <<mConnected, idVars, ioVars, taskVars, gameVars, dbVars,
                 ctlVars, mRefCount, logins>>
-----------------------------------------------------------------------------
(* Client thread: accepting and flushing.                                  *)

\* Mutant: the new session is not inserted.
InsertNothing(k, s) == mClientList

\* std::map::insert keeps the entry that is there already.
InsertClient(k, s) ==
  IF mClientList[k] = NoSession THEN [mClientList EXCEPT ![k] = s] ELSE mClientList

(* OnConnect of the new session s with handle k.  PostRecv may fail; then  *)
(* Disconnect follows, and may fail too.                                   *)
OnConnect(s, k) ==
  \E posted, closed \in BOOLEAN :
    /\ closed => ~posted
    /\ posted \/ closed \/ LingerMayFail
    /\ mConnected' = [mConnected EXCEPT ![s] = ~closed]
    /\ openSockets' = IF closed THEN openSockets \ {k} ELSE openSockets
    /\ recvPosted' = IF posted THEN [recvPosted EXCEPT ![s] = 1] ELSE recvPosted
    /\ mRefCount' = IF posted THEN [mRefCount EXCEPT ![s] = 1] ELSE mRefCount

CreateClient(s) ==
  /\ At("accept") /\ acceptList # <<>> /\ life[s] = "none"
  /\ life' = [life EXCEPT ![s] = "live"]
  /\ mSocket' = [mSocket EXCEPT ![s] = Head(acceptList)]
  /\ mClientList' = InsertClient(Head(acceptList), s)
  /\ acceptList' = Tail(acceptList)
  /\ OnConnect(s, Head(acceptList))
  /\ UNCHANGED <<sendPosted, taskVars, gameVars, dbVars, ctlVars, logins>>

\* Mutant: SendFlush without the test of IsConnected.
FlushableAny == {s \in Listed : mSendBuffer[s] > 0 /\ sendPosted[s] < MaxSends}

(* FlushClientSend, then SleepEx: every listed session with buffered data  *)
(* posts a send, whether or not one is outstanding already; WSASend fails  *)
(* for those in failed.  A disconnected session is disconnected again,     *)
(* which does nothing.                                                     *)
Flushable == {s \in Listed : /\ mConnected[s] /\ mSendBuffer[s] > 0
                             /\ sendPosted[s] < MaxSends}

FlushClientSend ==
  /\ At("accept") /\ acceptList = <<>>
  /\ \E failed \in SUBSET Flushable :
       /\ Disconnect(failed)
       /\ sendPosted' = [s \in Session |-> IF s \in Flushable \ failed
                                           THEN sendPosted[s] + 1 ELSE sendPosted[s]]
       /\ mRefCount' = [s \in Session |-> IF s \in Flushable \ failed
                                          THEN mRefCount[s] + 1 ELSE mRefCount[s]]
  /\ clientPc' = "sleep"
  /\ UNCHANGED <<idVars, recvPosted, taskVars, gameVars, dbVars, current,
                 pushing, dueDb, dbResult, acceptList, logins>>

\* SleepEx returns once an APC has run.
Wake ==
  /\ At("apc") /\ clientPc' = "accept"
  /\ UNCHANGED <<osVars, idVars, ioVars, taskVars, gameVars, dbVars, current,
                 pushing, dueDb, dbResult, acceptList, mRefCount, logins>>
-----------------------------------------------------------------------------
(* Client thread: completion routines.                                     *)

(* RecvCompletion up to OnRead: a session that is disconnected is left     *)
(* alone, one whose receive failed or got no byte is disconnected, and of  *)
(* one that got data the packets are handled next.                         *)
RecvCompletion(s) ==
  /\ Alertable /\ recvPosted[s] > 0
  /\ recvPosted' = [recvPosted EXCEPT ![s] = @ - 1]
  /\ mRefCount' = [mRefCount EXCEPT ![s] = @ - 1]
  /\ \/ /\ ~mConnected[s]
        /\ clientPc' = "apc" /\ UNCHANGED <<osVars, current>>
     \/ /\ mConnected[s] /\ Disconnect({s})
        /\ clientPc' = "apc" /\ UNCHANGED current
     \/ /\ mConnected[s]
        /\ clientPc' = "read" /\ current' = s /\ UNCHANGED osVars
  /\ UNCHANGED <<idVars, sendPosted, taskVars, gameVars, dbVars, pushing, dueDb,
                 dbResult, acceptList, logins>>

(* Handler_PKT_CS_LOGIN of a packet that ParsePacket reads: a load job for *)
(* the session's socket.  OnRead does not look at mConnected, so a session *)
(* that an earlier packet of the same read disconnected gets here too.     *)
HandleLogin(pid) ==
  /\ At("read") /\ logins < MaxLogins
  /\ pushing' = NewJob("load", current, pid)
  /\ logins' = logins + 1
  /\ UNCHANGED <<osVars, idVars, ioVars, taskVars, gameVars, dbVars, clientPc,
                 current, dueDb, dbResult, acceptList, mRefCount>>

(* Handler_PKT_CS_CHAT and Handler_PKT_CS_MOVE of a packet that ParsePacket *)
(* reads: ignored unless it carries the session's player id (-1 before its *)
(* login is done; an ignored packet changes nothing here).  The            *)
(* handler disconnects again when Broadcast fails, which changes nothing   *)
(* more: either attempt may find setsockopt failing.                       *)
HandleBroadcast(pid) ==
  /\ At("read") /\ pid = mPlayerId[current]
  /\ Broadcast(current)
  /\ UNCHANGED <<idVars, ioVars, taskVars, mPlayerId, mLogon, dbVars, ctlVars,
                 acceptList, mRefCount, logins>>

(* DefaultHandler disconnects but leaves the packet in the buffer, so the  *)
(* loop of OnRead meets it again, and again.                               *)
DefaultHandler ==
  /\ Unregistered /\ (At("read") \/ At("default"))
  /\ Disconnect({current}) /\ clientPc' = "default"
  /\ UNCHANGED <<idVars, ioVars, taskVars, gameVars, dbVars, current, pushing,
                 dueDb, dbResult, acceptList, mRefCount, logins>>

(* The other return of the three handlers.  ParsePacket reads as many      *)
(* bytes as the packet's type has, whatever mSize in its header says: where *)
(* mSize is smaller and no more has arrived it reads nothing, the packet   *)
(* stays, and the loop of OnRead meets it again, and again.                *)
ParseFailure ==
  /\ ShortPackets /\ (At("read") \/ At("short"))
  /\ clientPc' = "short"
  /\ UNCHANGED <<osVars, idVars, ioVars, taskVars, gameVars, dbVars, current, pushing,
                 dueDb, dbResult, acceptList, mRefCount, logins>>

\* Mutant: PostRecv without IncRefCount.
PostRecvUncounted(s) ==
  \/ /\ mConnected[s]
     /\ recvPosted' = [recvPosted EXCEPT ![s] = @ + 1]
     /\ UNCHANGED <<osVars, mRefCount>>
  \/ /\ Disconnect({s}) /\ UNCHANGED <<recvPosted, mRefCount>>

\* Mutant: a receive is posted at the end of OnRead and again after it.
PostRecvTwice(s) ==
  \/ /\ mConnected[s]
     /\ recvPosted' = [recvPosted EXCEPT ![s] = @ + 2]
     /\ mRefCount' = [mRefCount EXCEPT ![s] = @ + 2]
     /\ UNCHANGED osVars
  \/ /\ Disconnect({s}) /\ UNCHANGED <<recvPosted, mRefCount>>

\* Mutant: the failure of WSARecv is ignored.
PostRecvUnchecked(s) ==
  \/ /\ mConnected[s]
     /\ recvPosted' = [recvPosted EXCEPT ![s] = @ + 1]
     /\ mRefCount' = [mRefCount EXCEPT ![s] = @ + 1]
     /\ UNCHANGED osVars
  \/ UNCHANGED <<osVars, recvPosted, mRefCount>>

(* PostRecv and, where it fails, the Disconnect after it.  It always fails *)
(* on a disconnected session.                                              *)
PostRecv(s) ==
  \/ /\ mConnected[s]
     /\ recvPosted' = [recvPosted EXCEPT ![s] = @ + 1]
     /\ mRefCount' = [mRefCount EXCEPT ![s] = @ + 1]
     /\ UNCHANGED osVars
  \/ /\ Disconnect({s}) /\ UNCHANGED <<recvPosted, mRefCount>>

\* Mutant: OnRead goes on until the session can receive again.
OnReadRetries ==
  /\ At("read") /\ mConnected[current]
  /\ PostRecv(current)
  /\ clientPc' = "apc" /\ current' = NoSession
  /\ UNCHANGED <<idVars, sendPosted, taskVars, gameVars, dbVars, pushing, dueDb,
                 dbResult, acceptList, logins>>

(* OnRead returns: no further packet is complete, or a packet type is out  *)
(* of range, which disconnects (the same change as PostRecv failing, or,   *)
(* if setsockopt fails, none).  Then PostRecv.                             *)
OnReadDone ==
  /\ At("read")
  /\ PostRecv(current)
  /\ clientPc' = "apc" /\ current' = NoSession
  /\ UNCHANGED <<idVars, sendPosted, taskVars, gameVars, dbVars, pushing, dueDb,
                 dbResult, acceptList, logins>>

(* SendCompletion: Remove takes len whole packets off the buffer, clamped  *)
(* to what it holds; of a packet sent in part the rest stays.              *)
SendCompletion(s) ==
  /\ Alertable /\ sendPosted[s] > 0
  /\ sendPosted' = [sendPosted EXCEPT ![s] = @ - 1]
  /\ mRefCount' = [mRefCount EXCEPT ![s] = @ - 1]
  /\ \/ ~mConnected[s] /\ UNCHANGED <<osVars, mSendBuffer>>
     \/ mConnected[s] /\ Disconnect({s}) /\ UNCHANGED mSendBuffer
     \/ /\ mConnected[s] /\ UNCHANGED osVars
        /\ \E len \in 0 .. SendCap :
             mSendBuffer' = [mSendBuffer EXCEPT ![s] = IF len > @ THEN 0 ELSE @ - len]
  /\ clientPc' = "apc"
  /\ UNCHANGED <<idVars, recvPosted, taskVars, mPlayerId, mLogon, dbVars, current,
                 pushing, dueDb, dbResult, acceptList, logins>>
-----------------------------------------------------------------------------
(* Client thread: TimerProc.  Which tasks are due is left open.  A task    *)
(* pushed while DoTasks runs is not due: dueDb keeps the updates that may  *)
(* still run; running a heartbeat again would change nothing.              *)
TimerProc ==
  /\ Alertable
  /\ clientPc' = "tasks" /\ dueDb' = dbTasks
  /\ UNCHANGED <<osVars, idVars, ioVars, taskVars, gameVars, dbVars, current,
                 pushing, dbResult, acceptList, mRefCount, logins>>

\* Mutants: the task does not reschedule itself; it always does; it does so twice.
RescheduledNever(s)  == 0
RescheduledAlways(s) == 1
RescheduledTwice(s)  == IF mConnected[s] THEN 2 ELSE 0

\* How many tasks OnTick or OnDbUpdate pushes when it runs for s.
Rescheduled(s) == IF mConnected[s] THEN 1 ELSE 0

OnTick(s) ==
  /\ At("tasks") /\ tickTasks[s] > 0
  /\ tickTasks' = [tickTasks EXCEPT ![s] = @ + Rescheduled(s) - 1]
  /\ mRefCount' = [mRefCount EXCEPT ![s] = @ + Rescheduled(s) - 1]
  /\ UNCHANGED <<osVars, idVars, ioVars, dbTasks, gameVars, dbVars, ctlVars,
                 acceptList, logins>>

OnDbUpdate(s) ==
  /\ At("tasks") /\ dueDb[s] > 0
  /\ dueDb' = [dueDb EXCEPT ![s] = @ - 1]
  /\ dbTasks' = [dbTasks EXCEPT ![s] = @ + Rescheduled(s) - 1]
  /\ mRefCount' = [mRefCount EXCEPT ![s] = @ + Rescheduled(s) - 1]
  /\ pushing' = IF mConnected[s] THEN NewJob("update", s, mPlayerId[s]) ELSE NoJob
  /\ UNCHANGED <<osVars, idVars, ioVars, tickTasks, gameVars, dbVars, clientPc,
                 current, dbResult, acceptList, logins>>

DoTasksDone ==
  /\ At("tasks")
  /\ clientPc' = "gc" /\ dueDb' = [s \in Session |-> 0]
  /\ UNCHANGED <<osVars, idVars, ioVars, taskVars, gameVars, dbVars, current,
                 pushing, dbResult, acceptList, mRefCount, logins>>

\* Mutant: the reference count is not looked at.
GarbageReferenced == {s \in Listed : ~mConnected[s]}

Garbage == {s \in Listed : ~mConnected[s] /\ mRefCount[s] = 0}

\* Once a second (OnPeriodWork); in the other periods it is skipped.
CollectGarbageSessions ==
  /\ At("gc")
  /\ LET erased == {mSocket[s] : s \in Garbage} IN
       mClientList' = [k \in Socket |-> IF k \in erased THEN NoSession ELSE mClientList[k]]
  /\ life' = [s \in Session |-> IF s \in Garbage THEN "deleted" ELSE life[s]]
  /\ clientPc' = "dispatch"
  /\ UNCHANGED <<osVars, mSocket, ioVars, taskVars, gameVars, dbVars, current,
                 pushing, dueDb, dbResult, acceptList, mRefCount, logins>>

SkipGarbage ==
  /\ At("gc") /\ clientPc' = "dispatch"
  /\ UNCHANGED <<osVars, idVars, ioVars, taskVars, gameVars, dbVars, current,
                 pushing, dueDb, dbResult, acceptList, mRefCount, logins>>

\* Mutant: the last result is left in the queue.
PopAllButOne ==
  /\ At("dispatch")
  /\ IF Len(results) <= 1
     THEN clientPc' = "apc" /\ UNCHANGED <<results, dbResult>>
     ELSE /\ clientPc' = "handle"
          /\ dbResult' = Head(results) /\ results' = Tail(results)
  /\ UNCHANGED <<osVars, idVars, ioVars, taskVars, gameVars, requests, dbJob,
                 current, pushing, dueDb, acceptList, mRefCount, logins>>

\* PopDatabaseJobResult does not wait: an empty queue ends the timer APC.
PopDatabaseJobResult ==
  /\ At("dispatch")
  /\ IF results = <<>>
     THEN clientPc' = "apc" /\ UNCHANGED <<results, dbResult>>
     ELSE /\ clientPc' = "handle"
          /\ dbResult' = Head(results) /\ results' = Tail(results)
  /\ UNCHANGED <<osVars, idVars, ioVars, taskVars, gameVars, requests, dbJob,
                 current, pushing, dueDb, acceptList, mRefCount, logins>>

\* Mutant: the result is matched by player id, where one has it.
TargetByPlayer ==
  IF \E s \in Listed : mPlayerId[s] = dbResult.pid
  THEN CHOOSE s \in Listed : mPlayerId[s] = dbResult.pid
  ELSE mClientList[dbResult.sock]

\* The session mClientList.find gives for the popped result.
Target == mClientList[dbResult.sock]
Deliverable == dbResult.ok /\ Target # NoSession /\ mConnected[Target]

(* LoginDone: the answer is buffered, or its refusal disconnects; the two  *)
(* periodic tasks start only on a session that is still connected.         *)
LoginDone ==
  /\ SendRequest({Target})
  /\ mPlayerId' = [mPlayerId EXCEPT ![Target] = dbResult.pid]
  /\ mLogon' = [mLogon EXCEPT ![Target] = TRUE]
  /\ IF mConnected'[Target]
     THEN /\ tickTasks' = [tickTasks EXCEPT ![Target] = @ + 1]
          /\ dbTasks' = [dbTasks EXCEPT ![Target] = @ + 1]
          /\ mRefCount' = [mRefCount EXCEPT ![Target] = @ + 2]
          /\ pushing' = NewJob("update", Target, dbResult.pid)
     ELSE UNCHANGED <<taskVars, mRefCount, pushing>>

\* Mutant: one result per timer signal instead of all.
DispatchOne ==
  /\ At("handle")
  /\ \/ Deliverable /\ dbResult.type = "load" /\ LoginDone
     \/ /\ ~(Deliverable /\ dbResult.type = "load")
        /\ UNCHANGED <<osVars, gameVars, taskVars, mRefCount, pushing>>
  /\ clientPc' = "apc" /\ dbResult' = NoJob
  /\ UNCHANGED <<idVars, ioVars, dbVars, current, dueDb, acceptList, logins>>

(* The rest of one round of DispatchDatabaseJobResults: a failed job, and  *)
(* a job whose session is gone or disconnected, is dropped; UpdateDone     *)
(* changes nothing.                                                        *)
DispatchDatabaseJobResult ==
  /\ At("handle")
  /\ \/ Deliverable /\ dbResult.type = "load" /\ LoginDone
     \/ /\ ~(Deliverable /\ dbResult.type = "load")
        /\ UNCHANGED <<osVars, gameVars, taskVars, mRefCount, pushing>>
  /\ clientPc' = "dispatch" /\ dbResult' = NoJob
  /\ UNCHANGED <<idVars, ioVars, dbVars, current, dueDb, acceptList, logins>>

\* PushDatabaseJobRequest: Produce waits for room in the request queue.
PushDatabaseJobRequest ==
  /\ pushing # NoJob /\ Len(requests) < MAX_DB_JOB
  /\ requests' = Append(requests, pushing) /\ pushing' = NoJob
  /\ UNCHANGED <<osVars, idVars, ioVars, taskVars, gameVars, dbJob, results,
                 clientPc, current, dueDb, dbResult, acceptList, mRefCount, logins>>
-----------------------------------------------------------------------------
(* Database thread: ExecuteDatabaseJobs.                                   *)
ConsumeDatabaseJob ==
  /\ dbJob = NoJob /\ requests # <<>>
  /\ dbJob' = Head(requests) /\ requests' = Tail(requests)
  /\ UNCHANGED <<osVars, idVars, ioVars, taskVars, gameVars, results, ctlVars,
                 acceptList, mRefCount, logins>>

\* OnExecute may fail (no such row, an SQL error); Produce waits for room.
ProduceDatabaseResult ==
  /\ dbJob # NoJob /\ Len(results) < MAX_DB_JOB
  /\ \E ok \in BOOLEAN : results' = Append(results, [dbJob EXCEPT !.ok = ok])
  /\ dbJob' = NoJob
  /\ UNCHANGED <<osVars, idVars, ioVars, taskVars, gameVars, requests, ctlVars,
                 acceptList, mRefCount, logins>>
-----------------------------------------------------------------------------
Timer ==
  \/ TimerProc
  \/ \E s \in Session : OnTick(s) \/ OnDbUpdate(s)
  \/ DoTasksDone \/ CollectGarbageSessions \/ SkipGarbage
  \/ PopDatabaseJobResult \/ DispatchDatabaseJobResult

Completion ==
  \/ \E s \in Session : RecvCompletion(s) \/ SendCompletion(s)
  \/ \E pid \in Player : HandleLogin(pid)
  \/ \E pid \in Player \cup {NoPlayer} : HandleBroadcast(pid)
  \/ DefaultHandler \/ ParseFailure \/ OnReadDone

ClientThread ==
  \/ \E s \in Session : CreateClient(s)
  \/ FlushClientSend \/ Wake \/ Completion \/ Timer \/ PushDatabaseJobRequest

DatabaseThread == ConsumeDatabaseJob \/ ProduceDatabaseResult

Next == (\E k \in Socket : Accept(k)) \/ ClientThread \/ DatabaseThread

Spec == Init /\ [][Next]_vars

\* What the client thread goes on with when no input is left.
ClientProgress ==
  \/ \E s \in Session : CreateClient(s)
  \/ FlushClientSend \/ OnReadDone \/ DoTasksDone
  \/ CollectGarbageSessions \/ SkipGarbage
  \/ PopDatabaseJobResult \/ DispatchDatabaseJobResult \/ PushDatabaseJobRequest

(* One of the things that hold a disconnected session lets go of it.       *)
Drain(s) ==
  /\ ~mConnected[s]
  /\ OnTick(s) \/ OnDbUpdate(s) \/ RecvCompletion(s) \/ SendCompletion(s)

(* Fairness.  Both threads run, and a queue operation that can proceed     *)
(* does.  The timer is periodic, so APCs run out between two of its        *)
(* signals and SleepEx returns, the collection is made in one period of    *)
(* ten, and every task becomes due.  Closing a socket completes its        *)
(* overlapped I/O.  Strong fairness is for what the client thread can do   *)
(* only at one point of its loop.                                          *)
Fairness ==
  /\ WF_vars(ClientProgress) /\ WF_vars(DatabaseThread)
  /\ SF_vars(TimerProc) /\ SF_vars(Wake) /\ SF_vars(CollectGarbageSessions)
  /\ \A s \in Session : SF_vars(Drain(s))

FairSpec == Spec /\ Fairness
-----------------------------------------------------------------------------
ControlType ==
  /\ clientPc \in ClientPc
  /\ current \in Session \cup {NoSession}

SessionType ==
  /\ openSockets \subseteq Socket
  /\ life \in [Session -> {"none", "live", "deleted"}]
  /\ mSocket \in [Session -> Socket \cup {NoSocket}]
  /\ mConnected \in [Session -> BOOLEAN] /\ mLogon \in [Session -> BOOLEAN]
  /\ mPlayerId \in [Session -> Player \cup {NoPlayer}]
  /\ mSendBuffer \in [Session -> 0 .. SendCap]
  /\ mClientList \in [Socket -> Session \cup {NoSession}]

CountType ==
  /\ mRefCount \in [Session -> Nat]
  /\ recvPosted \in [Session -> Nat] /\ sendPosted \in [Session -> 0 .. MaxSends]
  /\ tickTasks \in [Session -> Nat] /\ dbTasks \in [Session -> Nat]
  /\ dueDb \in [Session -> Nat]

QueueType ==
  /\ acceptList \in Seq(Socket) /\ Len(acceptList) <= AcceptQSize
  /\ requests \in Seq(Job) /\ Len(requests) <= MAX_DB_JOB
  /\ results \in Seq(Job) /\ Len(results) <= MAX_DB_JOB
  /\ pushing \in Job \cup {NoJob}
  /\ dbJob \in Job \cup {NoJob} /\ dbResult \in Job \cup {NoJob}
  /\ logins \in 0 .. MaxLogins

(* Every variable has its type: in particular a send buffer never holds    *)
(* more than its capacity, the queues never more than theirs, no count of  *)
(* a session goes below zero, and every job carries the handle of a        *)
(* session that was created.                                               *)
TypeOK == ControlType /\ SessionType /\ CountType /\ QueueType

(* mRefCount counts exactly what still points at the session: overlapped   *)
(* I/O whose completion routine will dereference it and scheduled tasks    *)
(* that will call it (RefCountable.h, Scheduler::PushTask and DoTasks,     *)
(* PostRecv, SendFlush and the completion routines).                       *)
RefCountExact ==
  \A s \in Session :
    mRefCount[s] = recvPosted[s] + sendPosted[s] + tickTasks[s] + dbTasks[s]

(* No pointer to a session that CollectGarbageSessions deleted, or to one  *)
(* that is not created yet, is left: not in pending I/O, not in a task, not *)
(* in the task DoTasks may still run, not in mClientList and not in the    *)
(* OnRead that is running.                                                 *)
NoDanglingPointers ==
  \A s \in Session : life[s] # "live" =>
    /\ recvPosted[s] = 0 /\ sendPosted[s] = 0
    /\ tickTasks[s] = 0 /\ dbTasks[s] = 0 /\ dueDb[s] = 0
    /\ s \notin Listed /\ s # current

Pending == {acceptList[i] : i \in DOMAIN acceptList}
Owned   == {mSocket[s] : s \in {c \in Session : mConnected[c]}}

(* Every open socket handle is either waiting in the accept list or owned  *)
(* by exactly one connected session, and never both: no handle leaks, none *)
(* is closed twice, and no session uses a handle it already closed         *)
(* (closesocket in Disconnect against accept in the main thread).          *)
HandleOwnership ==
  /\ openSockets = Pending \cup Owned
  /\ Pending \cap Owned = {}
  /\ \A i, j \in DOMAIN acceptList : acceptList[i] = acceptList[j] => i = j
  /\ \A s, c \in Session :
       mConnected[s] /\ mConnected[c] /\ mSocket[s] = mSocket[c] => s = c

(* A session has at most one receive outstanding, and none while its       *)
(* OnRead runs: PostRecv overwrites the one mOverlappedRecv of the session *)
(* and the receive writes into the free part of mRecvBuffer.               *)
ReceiveExclusive ==
  \A s \in Session : recvPosted[s] + (IF s = current THEN 1 ELSE 0) <= 1

(* A connected session that is logged in keeps its heartbeat and its       *)
(* periodic save scheduled: neither chain of CallFuncAfter ever breaks     *)
(* (OnTick, OnDbUpdate, LoginDone).                                        *)
HeartbeatAlive ==
  \A s \in Session : mConnected[s] /\ mLogon[s] => tickTasks[s] > 0 /\ dbTasks[s] > 0

(* A session from new to delete is the one mClientList holds under its     *)
(* socket, so it is flushed, broadcast to, found by                        *)
(* DispatchDatabaseJobResults and in the end collected.  It fails where    *)
(* the system may hand out a handle whose former session is still listed   *)
(* (CreateClient's map insert keeps the old entry).                        *)
LiveListed ==
  \A s \in Session : life[s] = "live" => mClientList[mSocket[s]] = s

(* A result that DispatchDatabaseJobResults hands to a session was         *)
(* requested by that session and not by an earlier owner of its handle.    *)
ResultToRequester ==
  At("handle") /\ Deliverable => Target = dbResult.owner

(* A connected session always has a receive outstanding, or is in OnRead   *)
(* and will post one: otherwise nothing it sends is ever read and its      *)
(* closing is never noticed (RecvCompletion, PostRecv, Disconnect).        *)
ConnectedHasRecv ==
  \A s \in Session : mConnected[s] => recvPosted[s] > 0 \/ s = current

(* The client thread and the database thread never wait for each other:    *)
(* the one for room in the request queue and the other for room in the     *)
(* result queue.                                                           *)
NeverMutuallyBlocked ==
  ~ /\ pushing # NoJob /\ Len(requests) = MAX_DB_JOB
    /\ dbJob # NoJob /\ Len(results) = MAX_DB_JOB

(* What a session holds only drains once it is disconnected: no step       *)
(* starts I/O or a task for it or reconnects it, whichever of the paths    *)
(* through OnRead, Broadcast, FlushClientSend, DoTasks and LoginDone runs. *)
DisconnectedDrains ==
  [][\A s \in Session : life[s] = "live" /\ ~mConnected[s] =>
       ~mConnected'[s] /\ mRefCount'[s] <= mRefCount[s]]_vars

\* OnRead meets the same packet for ever (DefaultHandler, ParseFailure), and the
\* client thread does nothing else any more.
Stuck == clientPc \in {"default", "short"}

(* A session that is disconnected is deleted in the end, unless OnRead is  *)
(* stuck: its I/O is completed, its tasks run out and                      *)
(* CollectGarbageSessions finds it.                                        *)
Reclaimed ==
  \A s \in Session :
    life[s] = "live" /\ ~mConnected[s] ~> life[s] = "deleted" \/ Stuck

LoadInFlight(s) ==
  LET Is(job) == job # NoJob /\ job.type = "load" /\ job.owner = s IN
  \/ Is(pushing) \/ Is(dbJob) \/ Is(dbResult)
  \/ \E i \in DOMAIN requests : Is(requests[i])
  \/ \E i \in DOMAIN results : Is(results[i])

(* Every login request gets through both queues and both threads and is    *)
(* dispatched, unless OnRead is stuck (PushDatabaseJobRequest,             *)
(* ExecuteDatabaseJobs, DispatchDatabaseJobResults).                       *)
LoginSettled ==
  \A s \in Session : LoadInFlight(s) ~> ~LoadInFlight(s) \/ Stuck

(* The client thread keeps returning to FlushClientSend and SleepEx, as    *)
(* the comment at EasyServer.cpp:143 says of its loop.  A packet that is   *)
(* never taken off the receive buffer refutes it.                          *)
FlushesForever == []<>(clientPc = "sleep")

(* Such a packet is the only thing that keeps the client thread from its   *)
(* flush and its sleep: not a session that disconnects while its packets   *)
(* are handled, a broadcast that fails, a blocked Produce or a task.       *)
FlushesUnlessStuck == []<>(clientPc = "sleep" \/ Stuck)
=============================================================================
