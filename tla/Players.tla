------------------------------ MODULE Players ------------------------------
(***************************************************************************)
(* What the players see and what is kept of it: game clients and the dummy *)
(* clients of a load generator, their sessions, the database jobs of the   *)
(* sessions and the table of players.                                      *)
(*                                                                         *)
(* The connection is a pair of channels of whole packets, in order, which  *)
(* is what Connection shows of it; the sessions' lifetime, the queues'     *)
(* blocking and the reuse of handles are EasyServer's.  A position is one  *)
(* number.  A float is even, and a double of the database any number, so   *)
(* that loading a position rounds it.                                      *)
(*                                                                         *)
(* Not in the code: promised, visited, told and dbFailed, a job's expected *)
(* and the counters of the bounds.                                         *)
(***************************************************************************)
EXTENDS ObjectPool, DbHelper, FiniteSets

CONSTANTS
  Client,                  \* clients, and their sockets
  Dummy,                   \* those that are dummy clients of one process
  Player,                  \* player ids a client may ask for
  NoPlayer,                \* id -1
  Start,                   \* where a client draws its sprite at first
  Steps,                   \* how far a move goes
  Stored, DummyStored,     \* positions in the database of players, and of those
                           \* that a dummy client plays
  MaxLogins,               \* bound: login keys, pressed by all clients together
  MaxMoves,                \* bound: moves and chats
  MaxEvents                \* bound: periodic saves, calls of CreatePlayer and
                           \* DeletePlayer, errors and disconnections, together

\* Float positions are even.
ASSUME PlayersAssumption ==
  /\ NoPlayer \notin Player /\ Dummy \subseteq Client
  /\ Start \in Int /\ Start % 2 = 0 /\ Stored \in Int /\ DummyStored \in Int
  /\ \A n \in Steps : n \in Int /\ n % 2 = 0
  /\ MaxLogins \in Nat /\ MaxMoves \in Nat /\ MaxEvents \in Nat

VARIABLES
  \* of each client
  m_loginId,               \* a dummy client's mPlayerId
  mPlayerSprite,           \* where it draws itself, or a dummy client's position
  mPeerMap,
  callbacks,               \* functions waiting for the cocos thread
  ticks,                   \* waits on a dummy client's timer
  running,                 \* the dummy clients' process
  up, down,                \* packets on their way to and from the server
  \* of each session
  joined,                  \* whether it has been accepted
  mConnected, mPlayerId, mPlayerName, mPos,
  updates,                 \* pending OnDbUpdate tasks
  \* database jobs
  pool,                    \* of each kind of job
  mDbJobRequestQueue, mDbJobResultQueue,
  table,                   \* players, the table
  promised,                \* table, once every job pushed has been executed
  visited,                 \* the positions each player has had
  told,                    \* who was connected at a session's last move, unless
                           \* another session has moved the same player since
  dbFailed,                \* whether the database has returned an error
  budget

clientVars  == <<m_loginId, mPlayerSprite, mPeerMap, callbacks, ticks, running>>
sessionVars == <<joined, mConnected, mPlayerId, mPlayerName, mPos, updates>>
jobVars     == <<pool, mDbJobRequestQueue, mDbJobResultQueue, promised>>
dbVars      == <<jobVars, table, dbFailed>>
vars == <<clientVars, up, down, sessionVars, dbVars, visited, told, budget>>

Kind == {"Load", "Update", "Create", "Delete"}

\* (float): the conversion of what the database holds.
Float(x) == x - (x % 2)

Spend(what) == budget[what] > 0 /\ budget' = [budget EXCEPT ![what] = @ - 1]

\* The database at first.
StoredPos(p) == IF \E d \in Dummy : m_loginId[d] = p THEN DummyStored ELSE Stored
Row(p) == [name |-> p, pos |-> StoredPos(p), posZ |-> 0, comment |-> ""]

\* The dummy clients have player ids of their own from the start.
DummyIds ==
  /\ m_loginId \in [Client -> Player \cup {NoPlayer}]
  /\ \A c \in Client : c \in Dummy <=> m_loginId[c] # NoPlayer
  /\ \A c, d \in Dummy : m_loginId[c] = m_loginId[d] => c = d

Init ==
  /\ DummyIds
  /\ ticks = [c \in Client |-> 0] /\ running = TRUE
  /\ mPlayerSprite = [c \in Client |-> Start]
  /\ mPeerMap = [c \in Client |-> <<>>] /\ callbacks = [c \in Client |-> <<>>]
  /\ up = [c \in Client |-> <<>>] /\ down = [c \in Client |-> <<>>]
  /\ joined = [c \in Client |-> FALSE] /\ mConnected = [c \in Client |-> FALSE]
  /\ mPlayerId = [c \in Client |-> NoPlayer] /\ mPlayerName = [c \in Client |-> ""]
  /\ mPos = [c \in Client |-> 0] /\ updates = [c \in Client |-> 0]
  /\ pool = [k \in Kind |-> EmptyPool]
  /\ mDbJobRequestQueue = <<>> /\ mDbJobResultQueue = <<>>
  /\ table = [p \in Player |-> <<Row(p)>>] /\ promised = table
  /\ visited = [p \in Player |-> {StoredPos(p), Float(StoredPos(p))}]
  /\ told = [c \in Client |-> {}] /\ dbFailed = FALSE
  /\ budget = [login |-> MaxLogins, move |-> MaxMoves, event |-> MaxEvents]
-----------------------------------------------------------------------------
(* The client: keys, which the cocos thread handles.                       *)

Send(c, packet) == up' = [up EXCEPT ![c] = IF mConnected[c] THEN Append(@, packet) ELSE @]

LoginRequest(c, p) ==
  /\ mConnected[c] /\ m_loginId[c] = NoPlayer
  /\ Send(c, [type |-> "login", id |-> p]) /\ Spend("login")
  /\ UNCHANGED <<clientVars, down, sessionVars, dbVars, visited, told>>

\* Mutant: the request is sent before the login is done, too.
MoveRequestEarly(c, x) ==
  /\ mConnected[c]
  /\ Send(c, [type |-> "move", id |-> m_loginId[c], pos |-> x]) /\ Spend("move")
  /\ UNCHANGED <<clientVars, down, sessionVars, dbVars, visited, told>>

MoveRequest(c, x) ==
  /\ mConnected[c] /\ m_loginId[c] # NoPlayer
  /\ Send(c, [type |-> "move", id |-> m_loginId[c], pos |-> x]) /\ Spend("move")
  /\ UNCHANGED <<clientVars, down, sessionVars, dbVars, visited, told>>

ChatRequest(c) ==
  /\ mConnected[c] /\ m_loginId[c] # NoPlayer
  /\ Send(c, [type |-> "chat", id |-> m_loginId[c]]) /\ Spend("move")
  /\ UNCHANGED <<clientVars, down, sessionVars, dbVars, visited, told>>

\* A key of a game client: the target of a move is a step away from where the sprite is drawn.
OnKeyReleased(c) ==
  /\ c \notin Dummy
  /\ \/ \E n \in Steps : MoveRequest(c, mPlayerSprite[c] + n)
     \/ \E p \in Player : LoginRequest(c, p)
     \/ ChatRequest(c)

(* The client: the network thread takes a packet, and the cocos thread     *)
(* runs what it has scheduled.                                             *)
ProcessPacket(c) ==
  /\ c \notin Dummy
  /\ down[c] # <<>> /\ down' = [down EXCEPT ![c] = Tail(@)]
  /\ LET packet == Head(down[c]) IN
     \/ /\ packet.type = "login"
        /\ m_loginId' = [m_loginId EXCEPT ![c] = packet.id]
        /\ UNCHANGED callbacks
     \/ /\ packet.type = "chat"
        /\ callbacks' = [callbacks EXCEPT ![c] = Append(@, [call |-> "chatDraw"])]
        /\ UNCHANGED m_loginId
     \/ /\ packet.type = "move"
        /\ callbacks' = [callbacks EXCEPT ![c] = Append(@,
             IF packet.id = m_loginId[c]
             THEN [call |-> "updateMe", pos |-> packet.pos]
             ELSE [call |-> "updatePeer", id |-> packet.id, pos |-> packet.pos])]
        /\ UNCHANGED m_loginId
  /\ UNCHANGED <<mPlayerSprite, mPeerMap, ticks, running, up, sessionVars, dbVars, visited,
                 told, budget>>

\* updatePeer: a sprite is created, or moved.
PeerMoved(c, id, x) ==
  [p \in DOMAIN mPeerMap[c] \cup {id} |-> IF p = id THEN x ELSE mPeerMap[c][p]]

RunCallback(c) ==
  /\ callbacks[c] # <<>> /\ callbacks' = [callbacks EXCEPT ![c] = Tail(@)]
  /\ LET f == Head(callbacks[c]) IN
     \/ f.call = "chatDraw" /\ UNCHANGED <<mPlayerSprite, mPeerMap>>
     \/ /\ f.call = "updateMe" /\ UNCHANGED mPeerMap
        /\ mPlayerSprite' = [mPlayerSprite EXCEPT ![c] = f.pos]
     \/ /\ f.call = "updatePeer" /\ UNCHANGED mPlayerSprite
        /\ mPeerMap' = [mPeerMap EXCEPT ![c] = PeerMoved(c, f.id, f.pos)]
  /\ UNCHANGED <<m_loginId, ticks, running, up, down, sessionVars, dbVars, visited, told,
                 budget>>
-----------------------------------------------------------------------------
(* The dummy client.                                                       *)

\* A header and then its payload have been read: the next packet.
ReadPacket(d) == down[d] # <<>> /\ down' = [down EXCEPT ![d] = Tail(@)]

(* One more wait on the timer.  A wait that is pending is cancelled, but   *)
(* its handler runs all the same.                                          *)
DoTimer(d) == ticks' = [ticks EXCEPT ![d] = @ + 1]

\* LoginResult starts the timer; a move counts if it is its own.
HandleReadPayload(d) ==
  /\ d \in Dummy /\ running /\ ReadPacket(d)
  /\ LET packet == Head(down[d])
         Mine == packet.type = "move" /\ packet.id = m_loginId[d]
     IN /\ IF packet.type = "login" THEN DoTimer(d) ELSE UNCHANGED ticks
        /\ mPlayerSprite' = [mPlayerSprite EXCEPT ![d] = IF Mine THEN packet.pos ELSE @]
  /\ UNCHANGED <<m_loginId, mPeerMap, callbacks, running, up, sessionVars, dbVars, visited,
                 told, budget>>

\* The timer: a move or a chat is sent, and the next wait begins.
OnTick(d) ==
  /\ d \in Dummy /\ ticks[d] > 0
  /\ \/ \E n \in Steps : MoveRequest(d, mPlayerSprite[d] + n)
     \/ ChatRequest(d)

(* A dummy client that could not connect, or whose connection breaks, or   *)
(* was closed by its session, before its timer fires, writes all the same: *)
(* the exception ends io_service, and with it every dummy client.  What    *)
(* they have sent may still arrive.                                        *)
SendPacketThrows(d) ==
  /\ d \in Dummy /\ running
  /\ \/ (~joined[d] \/ ticks[d] > 0) /\ Spend("event")
     \/ ticks[d] > 0 /\ ~mConnected[d] /\ UNCHANGED budget
  /\ running' = FALSE /\ ticks' = [c \in Client |-> 0]
  /\ UNCHANGED <<m_loginId, mPlayerSprite, mPeerMap, callbacks, up, down, sessionVars, dbVars,
                 visited, told>>
-----------------------------------------------------------------------------
(* Database jobs.                                                          *)

\* A job as it is constructed and filled in before it is pushed.
Job(kind, c, p, x) ==
  [kind |-> kind, mSockKey |-> c, mPlayerId |-> p, mPos |-> x, mPosZ |-> 0,
   mPlayerName |-> IF kind = "Create" THEN p ELSE "",
   mComment |-> IF kind = "Update" THEN "updated_test" ELSE "",
   mSuccess |-> FALSE, expected |-> <<>>]

\* The outcome of a job that the properties look at.
Outcome(job) == <<job.mSuccess, job.mPlayerName, job.mPos>>

\* new and PushDatabaseJobRequest; pools are the pools to allocate from.
PushDatabaseJobRequest(job, pools) ==
  LET executed == OnExecute(job, promised) IN
  /\ mDbJobRequestQueue' =
       Append(mDbJobRequestQueue, [kind |-> job.kind, block |-> Available(pools[job.kind])])
  /\ pool' = [pools EXCEPT ![job.kind] =
                New(@, [job EXCEPT !.expected = Outcome(executed.job)])]
  /\ promised' = executed.table

JobOf(ref) == pool[ref.kind].memory[ref.block]

\* Mutant: the newest request is executed first.
ExecuteLatestJob ==
  /\ mDbJobRequestQueue # <<>>
  /\ LET ref == mDbJobRequestQueue[Len(mDbJobRequestQueue)]
         result == OnExecute(JobOf(ref), table)
     IN /\ pool' = [pool EXCEPT ![ref.kind].memory[ref.block] = result.job]
        /\ table' = result.table
        /\ mDbJobResultQueue' = Append(mDbJobResultQueue, ref)
  /\ mDbJobRequestQueue' = SubSeq(mDbJobRequestQueue, 1, Len(mDbJobRequestQueue) - 1)
  /\ UNCHANGED <<clientVars, up, down, sessionVars, promised, visited, told, dbFailed, budget>>

\* The database thread executes the oldest job and hands it on.
ExecuteDatabaseJob ==
  /\ mDbJobRequestQueue # <<>>
  /\ LET ref == Head(mDbJobRequestQueue)
         Executed(result) ==
           /\ pool' = [pool EXCEPT ![ref.kind].memory[ref.block] = result.job]
           /\ table' = result.table
           /\ mDbJobResultQueue' = Append(mDbJobResultQueue, ref)
     IN \/ Executed(OnExecute(JobOf(ref), table)) /\ UNCHANGED <<dbFailed, budget>>
        \/ Executed(OnExecuteError(JobOf(ref), table)) /\ Spend("event") /\ dbFailed' = TRUE
  /\ mDbJobRequestQueue' = Tail(mDbJobRequestQueue)
  /\ UNCHANGED <<clientVars, up, down, sessionVars, promised, visited, told>>

\* CreatePlayer and DeletePlayer, for which the repository has no caller yet.
CreatePlayer(p, x) ==
  /\ Spend("event") /\ PushDatabaseJobRequest(Job("Create", NoPlayer, p, x), pool)
  /\ visited' = [visited EXCEPT ![p] = @ \cup {x, Float(x)}]
  /\ UNCHANGED <<clientVars, up, down, sessionVars, mDbJobResultQueue, table, dbFailed, told>>

DeletePlayer(p) ==
  /\ Spend("event") /\ PushDatabaseJobRequest(Job("Delete", NoPlayer, p, 0), pool)
  /\ UNCHANGED <<clientVars, up, down, sessionVars, mDbJobResultQueue, table, dbFailed,
                 visited, told>>
-----------------------------------------------------------------------------
(* The session.                                                            *)

OnConnect(c, packets) ==
  /\ ~joined[c] /\ joined' = [joined EXCEPT ![c] = TRUE]
  /\ mConnected' = [mConnected EXCEPT ![c] = TRUE]
  /\ up' = [up EXCEPT ![c] = packets]
  /\ UNCHANGED <<clientVars, down, mPlayerId, mPlayerName, mPos, updates, dbVars,
                 visited, told, budget>>

\* A game client connects when its first key is pressed.
GetInstance(c) == c \notin Dummy /\ OnConnect(c, <<>>)

\* A dummy client logs in at once.
HandleConnect(d) ==
  d \in Dummy /\ running /\ OnConnect(d, <<[type |-> "login", id |-> m_loginId[d]]>>)

(* The session disconnects, at an error or because the dummy clients have  *)
(* ended: what is on its way is lost, and nothing is saved.  The client is *)
(* left as it is; a game client does not connect again.                    *)
Disconnect(c) ==
  /\ mConnected[c] /\ mConnected' = [mConnected EXCEPT ![c] = FALSE]
  /\ \/ Spend("event")
     \/ c \in Dummy /\ ~running /\ UNCHANGED budget
  /\ up' = [up EXCEPT ![c] = <<>>] /\ down' = [down EXCEPT ![c] = <<>>]
  /\ told' = [d \in Client |-> IF d = c THEN {} ELSE told[d] \ {c}]
  /\ UNCHANGED <<clientVars, joined, mPlayerId, mPlayerName, mPos, updates, dbVars, visited>>

Take(c, type) ==
  /\ up[c] # <<>> /\ Head(up[c]).type = type /\ up' = [up EXCEPT ![c] = Tail(@)]

\* Mutant: only to sessions that are logged in.
BroadcastLoggedIn(packet) ==
  down' = [d \in Client |-> IF mConnected[d] /\ mPlayerId[d] # NoPlayer
                            THEN Append(down[d], packet) ELSE down[d]]

\* To the session itself and to every other one that is connected.
Broadcast(packet) ==
  down' = [d \in Client |-> IF mConnected[d] THEN Append(down[d], packet) ELSE down[d]]

OnLogin(c) ==
  /\ Take(c, "login")
  /\ PushDatabaseJobRequest(Job("Load", c, Head(up[c]).id, 0), pool)
  /\ UNCHANGED <<clientVars, down, sessionVars, mDbJobResultQueue, table, dbFailed,
                 visited, told, budget>>

OnChat(c) ==
  /\ Take(c, "chat")
  /\ IF Head(up[c]).id # mPlayerId[c] THEN UNCHANGED down
     ELSE Broadcast([type |-> "chat", id |-> Head(up[c]).id, name |-> mPlayerName[c]])
  /\ UNCHANGED <<clientVars, sessionVars, dbVars, visited, told, budget>>

OnMove(c) ==
  /\ Take(c, "move")
  /\ LET packet == Head(up[c]) IN
     \/ packet.id # mPlayerId[c] /\ UNCHANGED <<down, mPos, visited, told>>
     \/ /\ packet.id = mPlayerId[c]
        /\ mPos' = [mPos EXCEPT ![c] = packet.pos]
        /\ Broadcast(packet)
        /\ visited' = [p \in Player |->
             IF p = packet.id THEN visited[p] \cup {packet.pos} ELSE visited[p]]
        /\ told' = [e \in Client |->
             IF e = c THEN {d \in Client : mConnected[d] /\ (d = c \/ mPlayerId[d] # packet.id)}
             ELSE IF mPlayerId[e] = packet.id THEN {} ELSE told[e]]
  /\ UNCHANGED <<clientVars, joined, mConnected, mPlayerId, mPlayerName, updates, dbVars,
                 budget>>

\* A pending OnDbUpdate is run: it saves and schedules itself again, or ends.
OnDbUpdate(c) ==
  /\ updates[c] > 0
  /\ \/ /\ mConnected[c] /\ Spend("event")
        /\ PushDatabaseJobRequest(Job("Update", c, mPlayerId[c], mPos[c]), pool)
        /\ UNCHANGED updates
     \/ /\ ~mConnected[c] /\ updates' = [updates EXCEPT ![c] = @ - 1]
        /\ UNCHANGED <<pool, mDbJobRequestQueue, promised, budget>>
  /\ UNCHANGED <<clientVars, up, down, joined, mConnected, mPlayerId, mPlayerName, mPos,
                 mDbJobResultQueue, table, dbFailed, visited, told>>

\* Mutant: the position of the session is not set.
LoginDoneStale(c, job, pools) ==
  LET x == Float(job.mPos) IN
  /\ mPlayerId' = [mPlayerId EXCEPT ![c] = job.mPlayerId]
  /\ mPlayerName' = [mPlayerName EXCEPT ![c] = job.mPlayerName]
  /\ down' = [down EXCEPT ![c] = Append(@, [type |-> "login", id |-> job.mPlayerId, pos |-> x])]
  /\ updates' = [updates EXCEPT ![c] = @ + 1]
  /\ told' = [told EXCEPT ![c] = {}]
  /\ PushDatabaseJobRequest(Job("Update", c, job.mPlayerId, mPos[c]), pools)
  /\ UNCHANGED mPos

\* LoginDone, its first OnDbUpdate included.
LoginDone(c, job, pools) ==
  LET x == Float(job.mPos) IN
  /\ mPlayerId' = [mPlayerId EXCEPT ![c] = job.mPlayerId]
  /\ mPlayerName' = [mPlayerName EXCEPT ![c] = job.mPlayerName]
  /\ mPos' = [mPos EXCEPT ![c] = x]
  /\ down' = [down EXCEPT ![c] = Append(@, [type |-> "login", id |-> job.mPlayerId, pos |-> x])]
  /\ updates' = [updates EXCEPT ![c] = @ + 1]
  /\ told' = [told EXCEPT ![c] = {}]
  /\ PushDatabaseJobRequest(Job("Update", c, job.mPlayerId, x), pools)

\* Mutant: a job that failed is not deleted.
DispatchLeaks ==
  /\ mDbJobResultQueue # <<>> /\ mDbJobResultQueue' = Tail(mDbJobResultQueue)
  /\ LET ref == Head(mDbJobResultQueue)
         job == JobOf(ref)
         deleted == IF job.mSuccess THEN [pool EXCEPT ![ref.kind] = Delete(@, ref.block)]
                                    ELSE pool
         loggedIn == ref.kind = "Load" /\ job.mSuccess /\ mConnected[job.mSockKey]
     IN \/ loggedIn /\ LoginDone(job.mSockKey, job, deleted)
        \/ /\ ~loggedIn /\ pool' = deleted
           /\ UNCHANGED <<mPlayerId, mPlayerName, mPos, down, updates, told,
                          mDbJobRequestQueue, promised>>
  /\ UNCHANGED <<clientVars, up, joined, mConnected, table, dbFailed, visited, budget>>

(* One round of DispatchDatabaseJobResults: a Load that succeeded for a    *)
(* session that is connected logs it in, every other result changes        *)
(* nothing, and the job is deleted.                                        *)
DispatchDatabaseJobResult ==
  /\ mDbJobResultQueue # <<>> /\ mDbJobResultQueue' = Tail(mDbJobResultQueue)
  /\ LET ref == Head(mDbJobResultQueue)
         job == JobOf(ref)
         deleted == [pool EXCEPT ![ref.kind] = Delete(@, ref.block)]
         loggedIn == ref.kind = "Load" /\ job.mSuccess /\ mConnected[job.mSockKey]
     IN \/ loggedIn /\ LoginDone(job.mSockKey, job, deleted)
        \/ /\ ~loggedIn /\ pool' = deleted
           /\ UNCHANGED <<mPlayerId, mPlayerName, mPos, down, updates, told,
                          mDbJobRequestQueue, promised>>
  /\ UNCHANGED <<clientVars, up, joined, mConnected, table, dbFailed, visited, budget>>
-----------------------------------------------------------------------------
Next ==
  \/ \E c \in Client :
       \/ OnKeyReleased(c) \/ ProcessPacket(c) \/ RunCallback(c)
       \/ HandleReadPayload(c) \/ OnTick(c) \/ SendPacketThrows(c)
       \/ GetInstance(c) \/ HandleConnect(c) \/ Disconnect(c)
       \/ OnLogin(c) \/ OnChat(c) \/ OnMove(c) \/ OnDbUpdate(c)
  \/ ExecuteDatabaseJob \/ DispatchDatabaseJobResult
  \/ \E p \in Player : CreatePlayer(p, Start + 1) \/ DeletePlayer(p)

Spec == Init /\ [][Next]_vars
-----------------------------------------------------------------------------
(* No packet carries the id -1, which the client asserts, although the     *)
(* server takes it for the id of a session that is not logged in; and the  *)
(* name of a chat is its player's (chatRequest, moveRequest, PKT_CS_CHAT). *)
PacketsOfPlayers ==
  \A c \in Client : \A i \in DOMAIN down[c] :
    /\ down[c][i].id \in Player
    /\ down[c][i].type = "chat" => down[c][i].name = down[c][i].id

(* Jobs take effect in the order they were pushed, across both queues and  *)
(* the database thread: a login gets the position of the last save that    *)
(* was pushed before it, and fails only if the player was gone by then     *)
(* (PushDatabaseJobRequest, ExecuteDatabaseJobs).                          *)
LoginsSeeSaves ==
  \A i \in DOMAIN mDbJobResultQueue :
    LET job == JobOf(mDbJobResultQueue[i]) IN ~dbFailed => Outcome(job) = job.expected

(* A player only gets positions it has had: no save gives it the position  *)
(* of another player, or the one a session has before its login, although  *)
(* a session may log in twice, as two players, while its saves are queued  *)
(* (LoginDone, OnDbUpdate, PKT_CS_MOVE).                                   *)
OwnPositions ==
  /\ \A p \in Player : \A i \in DOMAIN table[p] : table[p][i].pos \in visited[p]
  /\ \A c \in Client : mPlayerId[c] # NoPlayer => mPos[c] \in visited[mPlayerId[c]]

(* A block is free or holds the one job that refers to it: none leaks,     *)
(* whether its job succeeded, failed or found its session gone, and none   *)
(* is used twice (operator new, operator delete,                           *)
(* DispatchDatabaseJobResults).                                            *)
JobsOwned ==
  LET refs == mDbJobRequestQueue \o mDbJobResultQueue
      Refs(k) == {i \in DOMAIN refs : refs[i].kind = k}
  IN \A k \in Kind :
       /\ {refs[i].block : i \in Refs(k)} = DOMAIN pool[k].memory \ FreeBlocks(pool[k])
       /\ Cardinality(Refs(k)) = pool[k].mCurrentUseCount
       /\ Cardinality(FreeBlocks(pool[k])) + pool[k].mCurrentUseCount = Len(pool[k].memory)

Quiet ==
  /\ mDbJobRequestQueue = <<>> /\ mDbJobResultQueue = <<>>
  /\ \A c \in Client : mConnected[c] => up[c] = <<>> /\ down[c] = <<>> /\ callbacks[c] = <<>>

Online(c) == mConnected[c] /\ mPlayerId[c] # NoPlayer

(* When nothing is on its way, a client has the id its session has, and    *)
(* once a session has moved its player, its own client and each game       *)
(* client that was connected then and played another player have the       *)
(* player where the session has it, unless a second session has moved the  *)
(* same player since (PKT_CS_MOVE, Broadcast, processPacket, updateMe,     *)
(* updatePeer, HandleReadPayload).                                         *)
ViewsAgree ==
  Quiet =>
    \A c \in Client : Online(c) =>
      /\ m_loginId[c] = mPlayerId[c]
      /\ told[c] # {} => mPlayerSprite[c] = mPos[c]
      /\ \A d \in told[c] \ (Dummy \cup {c}) :
           mPlayerId[c] \in DOMAIN mPeerMap[d] /\ mPeerMap[d][mPlayerId[c]] = mPos[c]
=============================================================================
