----------------------- MODULE EasyServerSafetyProofs -----------------------
(* Proofs about the ownership of handles, the receives, the periodic       *)
(* tasks, the client list and the two job queues of EasyServer, on top of  *)
(* the invariant Inv of EasyServerProofs.                                  *)
EXTENDS EasyServerProofs, FiniteSetTheorems

(* Only Accept and CreateClient move handles into the program; every other *)
(* step closes the handles of the sessions it disconnects, or none.        *)
LEMMA HandleSteps ==
  ASSUME Inv, [Next]_vars
  PROVE  \/ \E k \in Socket : Accept(k)
         \/ \E s \in Session : CreateClient(s)
         \/ /\ UNCHANGED <<acceptList, mSocket>>
            /\ \/ UNCHANGED osVars
               \/ \E S \in SUBSET Session : Disconnect(S)
<1> USE DEF idVars
<1>1. CASE UNCHANGED vars
  BY <1>1 DEF vars
<1>2. CASE FlushClientSend
  <2>1. Flushable \subseteq Session
    BY DEF Flushable, Listed, Inv, TypeOK, SessionType
  <2> QED  BY <1>2, <2>1 DEF FlushClientSend
<1>3. CASE Wake \/ PushDatabaseJobRequest \/ DatabaseThread
  BY <1>3 DEF Wake, PushDatabaseJobRequest, DatabaseThread, ConsumeDatabaseJob,
              ProduceDatabaseResult
<1>4. CASE Completion
  <2>1. CASE \E s \in Session : RecvCompletion(s) \/ SendCompletion(s)
    BY <2>1 DEF RecvCompletion, SendCompletion
  <2>2. CASE \E pid \in Player : HandleLogin(pid)
    BY <2>2 DEF HandleLogin
  <2>3. CASE \E pid \in Player \cup {NoPlayer} : HandleBroadcast(pid)
    <3>1. PICK pid \in Player \cup {NoPlayer} : HandleBroadcast(pid)
      BY <2>3
    <3>2. current \in Session
      BY <3>1 DEF HandleBroadcast, At, Inv, ControlOK
    <3>3. Recipients(current) \subseteq Session
      BY DEF Recipients, Listed, Inv, TypeOK, SessionType
    <3>4. \A F \in Refusing(Recipients(current)) : F \in SUBSET Session
      BY <3>3 DEF Refusing
    <3> QED  BY <3>1, <3>2, <3>4 DEF HandleBroadcast, Broadcast
  <2>4. CASE DefaultHandler \/ OnReadDone
    <3>1. current \in Session
      BY <2>4 DEF DefaultHandler, OnReadDone, At, Inv, ControlOK
    <3> QED  BY <2>4, <3>1 DEF DefaultHandler, OnReadDone, PostRecv
  <2>5. CASE ParseFailure
    BY <2>5 DEF ParseFailure
  <2> QED  BY <1>4, <2>1, <2>2, <2>3, <2>4, <2>5 DEF Completion
<1>5. CASE Timer
  <2>1. CASE DispatchDatabaseJobResult
    <3>1. CASE UNCHANGED osVars
      BY <2>1, <3>1 DEF DispatchDatabaseJobResult
    <3>2. CASE Deliverable /\ LoginDone
      <4>1. Target \in Session
        BY <2>1, <3>2 DEF Deliverable, Target, DispatchDatabaseJobResult, At, Inv, ControlOK,
                          Job, TypeOK, SessionType
      <4>2. \A F \in Refusing({Target}) : F \in SUBSET Session
        BY <4>1 DEF Refusing
      <4> QED  BY <2>1, <3>2, <4>2 DEF LoginDone, SendRequest, DispatchDatabaseJobResult
    <3> QED  BY <2>1, <3>1, <3>2 DEF DispatchDatabaseJobResult
  <2>2. CASE TimerProc \/ DoTasksDone \/ CollectGarbageSessions \/ SkipGarbage
             \/ PopDatabaseJobResult \/ \E s \in Session : OnTick(s) \/ OnDbUpdate(s)
    BY <2>2 DEF TimerProc, DoTasksDone, CollectGarbageSessions, SkipGarbage,
                PopDatabaseJobResult, OnTick, OnDbUpdate, ctlVars
  <2> QED  BY <1>5, <2>1, <2>2 DEF Timer
<1> QED  BY <1>1, <1>2, <1>3, <1>4, <1>5 DEF Next, ClientThread

(* Disconnect closes each handle with its only owner.                      *)
LEMMA DisconnectOwnership ==
  ASSUME Inv, HandleOwnership, NEW S \in SUBSET Session, Disconnect(S),
         UNCHANGED <<acceptList, mSocket>>
  PROVE  HandleOwnership'
<1> USE DEF Inv, TypeOK, SessionType, HandleOwnership
<1>1. PICK closing \in SUBSET {s \in Session : mConnected[s]} :
        /\ mConnected' = [s \in Session |-> mConnected[s] /\ s \notin closing]
        /\ openSockets' = openSockets \ {mSocket[s] : s \in closing}
  BY DEF Disconnect
<1>2. Pending' = Pending
  BY DEF Pending
<1>3. Owned' = Owned \ {mSocket[s] : s \in closing}
  <2>1. Owned' \subseteq Owned
    BY <1>1 DEF Owned
  <2>2. ASSUME NEW k \in Owned', NEW s \in closing PROVE mSocket[s] # k
    <3>1. PICK c \in Session : mConnected'[c] /\ mSocket[c] = k
      BY DEF Owned
    <3>2. mConnected[c] /\ c # s /\ mConnected[s] /\ s \in Session
      BY <1>1, <3>1
    <3> QED  BY <3>1, <3>2
  <2>3. ASSUME NEW k \in Owned, k \notin {mSocket[s] : s \in closing}
        PROVE  k \in Owned'
    BY <1>1, <2>3 DEF Owned
  <2> QED  BY <2>1, <2>2, <2>3
<1>4. {mSocket[s] : s \in closing} \subseteq Owned
  BY <1>1 DEF Owned
<1>5. openSockets' = Pending' \cup Owned' /\ Pending' \cap Owned' = {}
  BY <1>1, <1>2, <1>3, <1>4
<1> QED  BY <1>1, <1>5

(* accept returns a handle that is not open, hence neither waiting in the  *)
(* list nor used by a connected session.                                   *)
LEMMA AcceptOwnership ==
  ASSUME Inv, HandleOwnership, NEW k \in Socket, Accept(k)
  PROVE  HandleOwnership'
<1>1. /\ k \notin Pending /\ k \notin Owned
      /\ openSockets' = openSockets \cup {k} /\ acceptList' = Append(acceptList, k)
      /\ mConnected' = mConnected /\ mSocket' = mSocket
  BY DEF Accept, AcceptableHandle, HandleOwnership, idVars
<1>0. acceptList \in Seq(Socket)
  BY DEF Inv, TypeOK, QueueType
<1>2. /\ DOMAIN acceptList = 1 .. Len(acceptList)
      /\ DOMAIN acceptList' = 1 .. (Len(acceptList) + 1)
      /\ acceptList'[Len(acceptList) + 1] = k
      /\ \A i \in 1 .. Len(acceptList) : acceptList'[i] = acceptList[i]
      /\ Len(acceptList) \in Nat
  BY <1>0, <1>1
<1>3. Pending' = Pending \cup {k}
  <2>1. Pending' \subseteq Pending \cup {k}
    BY <1>2 DEF Pending
  <2>2. Pending \subseteq Pending'
    BY <1>2 DEF Pending
  <2>3. k \in Pending'
    BY <1>2 DEF Pending
  <2> QED  BY <2>1, <2>2, <2>3
<1>4. Owned' = Owned
  BY <1>1 DEF Owned
<1>5. \A i, j \in DOMAIN acceptList' : acceptList'[i] = acceptList'[j] => i = j
  BY <1>1, <1>2 DEF Pending, HandleOwnership
<1> QED  BY <1>1, <1>3, <1>4, <1>5 DEF HandleOwnership

(* CreateClient hands the first pending handle to a session that had none. *)
LEMMA CreateClientOwnership ==
  ASSUME Inv, HandleOwnership, NEW s \in Session, CreateClient(s)
  PROVE  HandleOwnership'
<1> DEFINE k == Head(acceptList)
<1>1. PICK closed \in BOOLEAN :
        /\ mConnected' = [mConnected EXCEPT ![s] = ~closed]
        /\ openSockets' = IF closed THEN openSockets \ {k} ELSE openSockets
  BY Zenon DEF CreateClient, OnConnect
<1>2. /\ ~mConnected[s] /\ acceptList \in Seq(Socket) /\ acceptList # <<>>
      /\ acceptList' = Tail(acceptList) /\ mSocket' = [mSocket EXCEPT ![s] = k]
  BY DEF CreateClient, PointersOK, Inv, TypeOK, QueueType
<1>0. /\ mConnected \in [Session -> BOOLEAN] /\ mSocket \in [Session -> Socket \cup {NoSocket}]
      /\ openSockets \subseteq Socket
  BY DEF Inv, TypeOK, SessionType
<1>3. /\ Len(acceptList) \in Nat \ {0} /\ DOMAIN acceptList = 1 .. Len(acceptList)
      /\ DOMAIN acceptList' = 1 .. (Len(acceptList) - 1)
      /\ k = acceptList[1] /\ k \in Socket
      /\ \A i \in 1 .. (Len(acceptList) - 1) : acceptList'[i] = acceptList[i + 1]
  BY <1>2
<1> HIDE DEF k
<1>4. Pending' = Pending \ {k}
  <2>1. Pending' \subseteq Pending
    BY <1>3 DEF Pending
  <2>2. k \notin Pending'
    BY <1>3 DEF Pending, HandleOwnership
  <2>3. ASSUME NEW x \in Pending, x # k PROVE x \in Pending'
    <3>1. PICK i \in 1 .. Len(acceptList) : x = acceptList[i]
      BY <1>3 DEF Pending
    <3>2. i - 1 \in 1 .. (Len(acceptList) - 1) /\ acceptList'[i - 1] = x
      BY <1>3, <2>3, <3>1
    <3> QED  BY <1>3, <3>2 DEF Pending
  <2> QED  BY <2>1, <2>2, <2>3
<1>5. k \in Pending /\ k \in openSockets /\ k \notin Owned
  BY <1>3 DEF Pending, HandleOwnership
<1>6. Owned' = IF closed THEN Owned ELSE Owned \cup {k}
  BY <1>0, <1>1, <1>2 DEF Owned
<1>7. /\ openSockets' = Pending' \cup Owned' /\ Pending' \cap Owned' = {}
  BY <1>1, <1>4, <1>5, <1>6 DEF HandleOwnership
<1>8. \A i, j \in DOMAIN acceptList' : acceptList'[i] = acceptList'[j] => i = j
  BY <1>3 DEF HandleOwnership
<1>9. \A a, c \in Session :
        mConnected'[a] /\ mConnected'[c] /\ mSocket'[a] = mSocket'[c] => a = c
  BY <1>0, <1>1, <1>2, <1>5 DEF Owned, HandleOwnership
<1> QED  BY <1>7, <1>8, <1>9 DEF HandleOwnership

(* Whatever accept returns and whichever calls fail, no handle leaks, none *)
(* is closed twice and none is shared (HandleOwnership).                   *)
THEOREM HandlesAreOwned == Spec => []HandleOwnership
<1>1. Init => HandleOwnership
  BY DEF Init, HandleOwnership, Pending, Owned
<1>2. Inv /\ HandleOwnership /\ [Next]_vars => HandleOwnership'
  <2> SUFFICES ASSUME Inv, HandleOwnership, [Next]_vars PROVE HandleOwnership'
    OBVIOUS
  <2>1. CASE UNCHANGED <<acceptList, mSocket, osVars>>
    BY <2>1 DEF HandleOwnership, Pending, Owned, osVars
  <2> QED  BY <2>1, HandleSteps, AcceptOwnership, CreateClientOwnership, DisconnectOwnership
<1> QED  BY <1>1, <1>2, Invariance, PTL DEF Spec
-----------------------------------------------------------------------------
(* Only CreateClient, RecvCompletion and OnReadDone start or finish a      *)
(* receive.                                                                *)
LEMMA ReceiveSteps ==
  ASSUME [Next]_vars
  PROVE  \/ \E s \in Session : CreateClient(s) \/ RecvCompletion(s)
         \/ OnReadDone
         \/ UNCHANGED <<recvPosted, current>>
<1> USE DEF ioVars, ctlVars
<1>1. CASE UNCHANGED vars
  BY <1>1 DEF vars
<1>2. CASE \E k \in Socket : Accept(k)
  BY <1>2 DEF Accept
<1>3. CASE FlushClientSend \/ Wake \/ PushDatabaseJobRequest
  BY <1>3 DEF FlushClientSend, Wake, PushDatabaseJobRequest
<1>4. CASE Completion
  BY <1>4 DEF Completion, SendCompletion, HandleLogin, HandleBroadcast, DefaultHandler,
              ParseFailure
<1>5. CASE Timer
  BY <1>5 DEF Timer, TimerProc, OnTick, OnDbUpdate, DoTasksDone, CollectGarbageSessions,
              SkipGarbage, PopDatabaseJobResult, DispatchDatabaseJobResult
<1>6. CASE DatabaseThread
  BY <1>6 DEF DatabaseThread, ConsumeDatabaseJob, ProduceDatabaseResult
<1> QED  BY <1>1, <1>2, <1>3, <1>4, <1>5, <1>6 DEF Next, ClientThread

(* A session never has two receives outstanding, nor one while its OnRead  *)
(* reads the same buffer (ReceiveExclusive).                               *)
THEOREM ReceivesAreExclusive == Spec => []ReceiveExclusive
<1>1. Init => ReceiveExclusive
  BY ConstantsAssumption DEF Init, ReceiveExclusive
<1>2. Inv /\ ReceiveExclusive /\ [Next]_vars => ReceiveExclusive'
  <2> SUFFICES ASSUME Inv, ReceiveExclusive, [Next]_vars PROVE ReceiveExclusive'
    OBVIOUS
  <2> USE DEF Inv, TypeOK, CountType, ReceiveExclusive
  <2>1. CASE UNCHANGED <<recvPosted, current>>
    BY <2>1
  <2>2. ASSUME NEW s \in Session, CreateClient(s) PROVE ReceiveExclusive'
    <3>1. recvPosted[s] = 0 /\ s # current /\ current' = current
      BY <2>2 DEF CreateClient, HeldOnlyWhileLive, ctlVars
    <3>2. recvPosted' \in {[recvPosted EXCEPT ![s] = 1], recvPosted}
      BY <2>2, Zenon DEF CreateClient, OnConnect
    <3> QED  BY <3>1, <3>2
  <2>3. ASSUME NEW s \in Session, RecvCompletion(s) PROVE ReceiveExclusive'
    <3>1. current = NoSession /\ current' \in {NoSession, s} /\ recvPosted[s] > 0
          /\ recvPosted' = [recvPosted EXCEPT ![s] = @ - 1]
      BY <2>3 DEF RecvCompletion, Alertable, ControlOK
    <3> QED  BY <3>1, ConstantsAssumption
  <2>4. CASE OnReadDone
    <3>1. current \in Session /\ current' = NoSession
      BY <2>4 DEF OnReadDone, At, ControlOK
    <3>2. recvPosted' \in {[recvPosted EXCEPT ![current] = @ + 1], recvPosted}
      BY <2>4 DEF OnReadDone, PostRecv
    <3> QED  BY <3>1, <3>2, ConstantsAssumption
  <2> QED  BY <2>1, <2>2, <2>3, <2>4, ReceiveSteps
<1> QED  BY <1>1, <1>2, Invariance, PTL DEF Spec

(* Only CreateClient connects a session.                                   *)
LEMMA ConnectSteps ==
  ASSUME Inv, [Next]_vars
  PROVE  \A c \in Session : mConnected'[c] => mConnected[c] \/ CreateClient(c)
<1> USE DEF Inv, TypeOK, SessionType
<1>1. ASSUME NEW s \in Session, CreateClient(s)
      PROVE  \A c \in Session \ {s} : mConnected'[c] = mConnected[c]
  <2>1. PICK closed \in BOOLEAN : mConnected' = [mConnected EXCEPT ![s] = ~closed]
    BY <1>1, Zenon DEF CreateClient, OnConnect
  <2> QED  BY <2>1
<1>2. ASSUME NEW S \in SUBSET Session, Disconnect(S)
      PROVE  \A c \in Session : mConnected'[c] => mConnected[c]
  BY <1>2, DisconnectType
<1>3. ASSUME NEW k \in Socket, Accept(k)
      PROVE  mConnected' = mConnected
  BY <1>3 DEF Accept
<1>4. CASE UNCHANGED osVars
  BY <1>4 DEF osVars
<1> QED  BY <1>1, <1>2, <1>3, <1>4, HandleSteps

(* With a receive that fails only where Disconnect succeeds, a connected   *)
(* session is always read from (ConnectedHasRecv).  The hypothesis is that *)
(* setsockopt(SO_LINGER) does not fail.                                    *)
THEOREM ConnectedIsRead == ~LingerMayFail => (Spec => []ConnectedHasRecv)
<1> SUFFICES ASSUME ~LingerMayFail PROVE Spec => []ConnectedHasRecv
  OBVIOUS
<1>1. Init => ConnectedHasRecv
  BY DEF Init, ConnectedHasRecv
<1>2. Inv /\ ConnectedHasRecv /\ [Next]_vars => ConnectedHasRecv'
  <2> SUFFICES ASSUME Inv, ConnectedHasRecv, [Next]_vars PROVE ConnectedHasRecv'
    OBVIOUS
  <2> USE DEF Inv, TypeOK, SessionType, CountType, ConnectedHasRecv
  <2>0. ASSUME NEW s \in Session, Disconnect({s}) PROVE ~mConnected'[s]
    BY <2>0 DEF Disconnect
  <2>1. CASE UNCHANGED <<recvPosted, current>> /\ ~\E c \in Session : CreateClient(c)
    BY <2>1, ConnectSteps
  <2>2. ASSUME NEW s \in Session, CreateClient(s) PROVE ConnectedHasRecv'
    <3>1. PICK posted, closed \in BOOLEAN :
            /\ posted \/ closed
            /\ mConnected' = [mConnected EXCEPT ![s] = ~closed]
            /\ recvPosted' = IF posted THEN [recvPosted EXCEPT ![s] = 1] ELSE recvPosted
      BY <2>2, Zenon DEF CreateClient, OnConnect
    <3>2. current' = current
      BY <2>2 DEF CreateClient, ctlVars
    <3> QED  BY <3>1, <3>2
  <2>3. ASSUME NEW s \in Session, RecvCompletion(s) PROVE ConnectedHasRecv'
    <3>1. /\ \A c \in Session \ {s} : recvPosted'[c] = recvPosted[c] /\ c # current
          /\ \A c \in Session : mConnected'[c] => mConnected[c]
      BY <2>3, DisconnectType, ConstantsAssumption
      DEF RecvCompletion, Alertable, ControlOK, osVars
    <3>2. ~mConnected'[s] \/ current' = s
      BY <2>0, <2>3 DEF RecvCompletion, osVars
    <3> QED  BY <3>1, <3>2
  <2>4. CASE OnReadDone
    <3>1. current \in Session
      BY <2>4 DEF OnReadDone, At, ControlOK
    <3>2. /\ \A c \in Session \ {current} : recvPosted'[c] = recvPosted[c]
          /\ \A c \in Session : mConnected'[c] => mConnected[c]
          /\ ~mConnected'[current] \/ recvPosted'[current] > 0
      BY <2>0, <2>4, <3>1, DisconnectType DEF OnReadDone, PostRecv, osVars
    <3> QED  BY <3>1, <3>2
  <2> QED  BY <2>1, <2>2, <2>3, <2>4, ReceiveSteps
<1> QED  BY <1>1, <1>2, Invariance, PTL DEF Spec
-----------------------------------------------------------------------------
(* Only OnTick, OnDbUpdate and LoginDone change the scheduled tasks or     *)
(* mark a session as logged in.                                            *)
LEMMA TaskSteps ==
  ASSUME [Next]_vars
  PROVE  \/ \E s \in Session : OnTick(s) \/ OnDbUpdate(s)
         \/ DispatchDatabaseJobResult
         \/ UNCHANGED <<tickTasks, dbTasks, mLogon>>
<1> USE DEF taskVars, gameVars
<1>1. CASE UNCHANGED vars
  BY <1>1 DEF vars
<1>2. CASE \E k \in Socket : Accept(k)
  BY <1>2 DEF Accept
<1>3. CASE FlushClientSend \/ Wake \/ PushDatabaseJobRequest \/ \E s \in Session : CreateClient(s)
  BY <1>3 DEF FlushClientSend, Wake, PushDatabaseJobRequest, CreateClient
<1>4. CASE Completion
  BY <1>4 DEF Completion, SendCompletion, RecvCompletion, HandleLogin, HandleBroadcast,
              DefaultHandler, ParseFailure, OnReadDone
<1>5. CASE Timer
  BY <1>5 DEF Timer, TimerProc, DoTasksDone, CollectGarbageSessions,
              SkipGarbage, PopDatabaseJobResult
<1>6. CASE DatabaseThread
  BY <1>6 DEF DatabaseThread, ConsumeDatabaseJob, ProduceDatabaseResult
<1> QED  BY <1>1, <1>2, <1>3, <1>4, <1>5, <1>6 DEF Next, ClientThread

(* Only CreateClient and CollectGarbageSessions change which sessions      *)
(* exist, their handles or the client list.                                *)
LEMMA ListSteps ==
  ASSUME [Next]_vars
  PROVE  \/ \E s \in Session : CreateClient(s)
         \/ CollectGarbageSessions
         \/ UNCHANGED idVars
<1>1. CASE UNCHANGED vars
  BY <1>1 DEF vars
<1>2. CASE \E k \in Socket : Accept(k)
  BY <1>2 DEF Accept
<1>3. CASE FlushClientSend \/ Wake \/ PushDatabaseJobRequest
  BY <1>3 DEF FlushClientSend, Wake, PushDatabaseJobRequest
<1>4. CASE Completion
  BY <1>4 DEF Completion, SendCompletion, RecvCompletion, HandleLogin, HandleBroadcast,
              DefaultHandler, ParseFailure, OnReadDone
<1>5. CASE Timer
  BY <1>5 DEF Timer, TimerProc, OnTick, OnDbUpdate, DoTasksDone, SkipGarbage,
              PopDatabaseJobResult, DispatchDatabaseJobResult
<1>6. CASE DatabaseThread
  BY <1>6 DEF DatabaseThread, ConsumeDatabaseJob, ProduceDatabaseResult
<1> QED  BY <1>1, <1>2, <1>3, <1>4, <1>5, <1>6 DEF Next, ClientThread

(* A session that has not been created yet is not logged in, so that a new *)
(* session starts without the two periodic tasks rightly.                  *)
LogonAfterNew == \A s \in Session : mLogon[s] => life[s] # "none"

(* What a login or a dropped result does to the tasks: both chains start   *)
(* with the login, for a session that is in the client list.               *)
LEMMA DispatchTasks ==
  ASSUME Inv, DispatchDatabaseJobResult
  PROVE  \/ UNCHANGED <<tickTasks, dbTasks, mLogon>>
         \/ \E s \in Session :
              /\ life[s] = "live" /\ mLogon' = [mLogon EXCEPT ![s] = TRUE]
              /\ \/ /\ tickTasks' = [tickTasks EXCEPT ![s] = @ + 1]
                    /\ dbTasks' = [dbTasks EXCEPT ![s] = @ + 1]
                 \/ ~mConnected'[s] /\ UNCHANGED <<tickTasks, dbTasks>>
<1>1. CASE UNCHANGED <<osVars, gameVars, taskVars, mRefCount, pushing>>
  BY <1>1 DEF gameVars, taskVars
<1>2. CASE Deliverable /\ LoginDone
  <2>1. Target \in Session /\ life[Target] = "live"
    BY <1>2 DEF DispatchDatabaseJobResult, At, Deliverable, Target, Inv, ControlOK, Job,
                TypeOK, SessionType, PointersOK
  <2> QED  BY <1>2, <2>1 DEF LoginDone, taskVars
<1> QED  BY <1>1, <1>2 DEF DispatchDatabaseJobResult

(* A connected, logged-in session keeps its heartbeat and its periodic     *)
(* save scheduled (HeartbeatAlive).                                        *)
THEOREM HeartbeatsStayAlive == Spec => []HeartbeatAlive
<1> DEFINE HInv == HeartbeatAlive /\ LogonAfterNew
<1>1. Init => HInv
  BY DEF Init, HeartbeatAlive, LogonAfterNew
<1>2. Inv /\ HInv /\ [Next]_vars => HInv'
  <2> SUFFICES ASSUME Inv, HInv, [Next]_vars PROVE HInv'
    OBVIOUS
  <2> USE DEF Inv, TypeOK, SessionType, CountType, HeartbeatAlive, LogonAfterNew
  <2>1. \A c \in Session : life'[c] = "none" => life[c] = "none"
    <3>1. ASSUME NEW s \in Session, CreateClient(s)
          PROVE  \A c \in Session : life'[c] = "none" => life[c] = "none"
      BY <3>1 DEF CreateClient
    <3>2. CASE CollectGarbageSessions
      BY <3>2 DEF CollectGarbageSessions
    <3>3. CASE UNCHANGED idVars
      BY <3>3 DEF idVars
    <3> QED  BY <3>1, <3>2, <3>3, ListSteps
  <2>2. \A c \in Session : mConnected'[c] => mConnected[c] \/ life[c] = "none"
    BY ConnectSteps DEF CreateClient
  <2>3. CASE UNCHANGED <<tickTasks, dbTasks, mLogon>>
    BY <2>1, <2>2, <2>3
  <2>4. ASSUME NEW s \in Session, OnTick(s) \/ OnDbUpdate(s) PROVE HInv'
    <3>1. /\ mLogon' = mLogon /\ mConnected' = mConnected
          /\ \A c \in Session : mConnected[c] =>
               tickTasks'[c] = tickTasks[c] /\ dbTasks'[c] = dbTasks[c]
      BY <2>4 DEF OnTick, OnDbUpdate, Rescheduled, osVars, gameVars
    <3> QED  BY <2>1, <3>1
  <2>5. CASE DispatchDatabaseJobResult
    <3>1. CASE \E s \in Session :
              /\ life[s] = "live" /\ mLogon' = [mLogon EXCEPT ![s] = TRUE]
              /\ \/ /\ tickTasks' = [tickTasks EXCEPT ![s] = @ + 1]
                    /\ dbTasks' = [dbTasks EXCEPT ![s] = @ + 1]
                 \/ ~mConnected'[s] /\ UNCHANGED <<tickTasks, dbTasks>>
      <4>1. PICK s \in Session :
              /\ life[s] = "live" /\ mLogon' = [mLogon EXCEPT ![s] = TRUE]
              /\ \/ /\ tickTasks' = [tickTasks EXCEPT ![s] = @ + 1]
                    /\ dbTasks' = [dbTasks EXCEPT ![s] = @ + 1]
                 \/ ~mConnected'[s] /\ UNCHANGED <<tickTasks, dbTasks>>
        BY <3>1
      <4>2. HeartbeatAlive'
        BY <4>1, <2>2
      <4>3. LogonAfterNew'
        BY <4>1, <2>1
      <4> QED  BY <4>2, <4>3
    <3> QED  BY <2>3, <2>5, <3>1, DispatchTasks
  <2> QED  BY <2>3, <2>4, <2>5, TaskSteps
<1>3. HInv => HeartbeatAlive
  OBVIOUS
<1> QED  BY <1>1, <1>2, <1>3, Invariance, PTL DEF Spec
-----------------------------------------------------------------------------
(* A handle that waits to be accepted is no key of the client list.        *)
PendingUnlisted ==
  \A i \in DOMAIN acceptList : mClientList[acceptList[i]] = NoSession

(* Where the system never hands out a handle whose former session is still *)
(* listed, a session is listed under its handle from new to delete         *)
(* (LiveListed): the map insert of CreateClient never finds the key taken. *)
THEOREM LiveSessionsAreListed == HandlePolicy # "any" => (Spec => []LiveListed)
<1> SUFFICES ASSUME HandlePolicy # "any" PROVE Spec => []LiveListed
  OBVIOUS
<1> DEFINE LInv == LiveListed /\ PendingUnlisted
<1>1. Init => LInv
  BY DEF Init, LiveListed, PendingUnlisted
<1>2. Inv /\ HandleOwnership /\ LInv /\ [Next]_vars => LInv'
  <2> SUFFICES ASSUME Inv, HandleOwnership, LInv, [Next]_vars PROVE LInv'
    OBVIOUS
  <2>0. /\ life \in [Session -> {"none", "live", "deleted"}]
        /\ mSocket \in [Session -> Socket \cup {NoSocket}]
        /\ mClientList \in [Socket -> Session \cup {NoSession}]
        /\ acceptList \in Seq(Socket)
    BY DEF Inv, TypeOK, SessionType, QueueType
  <2>1. ASSUME NEW k \in Socket, Accept(k) PROVE LInv'
    <3>1. /\ mClientList[k] = NoSession /\ acceptList' = Append(acceptList, k)
          /\ UNCHANGED <<life, mSocket, mClientList>>
      BY <2>1 DEF Accept, AcceptableHandle, idVars
    <3> QED  BY <2>0, <3>1 DEF LiveListed, PendingUnlisted
  <2>2. ASSUME NEW s \in Session, CreateClient(s) PROVE LInv'
    <3> DEFINE k == Head(acceptList)
    <3>1. /\ acceptList # <<>> /\ life' = [life EXCEPT ![s] = "live"]
          /\ mSocket' = [mSocket EXCEPT ![s] = k] /\ acceptList' = Tail(acceptList)
          /\ mClientList' = InsertClient(k, s)
      BY <2>2 DEF CreateClient
    <3>2. /\ Len(acceptList) \in Nat \ {0} /\ DOMAIN acceptList = 1 .. Len(acceptList)
          /\ DOMAIN acceptList' = 1 .. (Len(acceptList) - 1)
          /\ k = acceptList[1] /\ k \in Socket
          /\ \A i \in 1 .. (Len(acceptList) - 1) :
               acceptList'[i] = acceptList[i + 1] /\ acceptList[i + 1] \in Socket
      BY <2>0, <3>1
    <3> HIDE DEF k
    <3>3. mClientList' = [mClientList EXCEPT ![k] = s]
      BY <3>1, <3>2 DEF InsertClient, PendingUnlisted
    <3>4. \A i \in DOMAIN acceptList' : acceptList'[i] # k
      BY <3>2 DEF HandleOwnership
    <3>5. PendingUnlisted'
      BY <2>0, <3>2, <3>3, <3>4 DEF PendingUnlisted
    <3>6. LiveListed'
      <4> SUFFICES ASSUME NEW c \in Session, life'[c] = "live"
                   PROVE  mClientList'[mSocket'[c]] = c
        BY DEF LiveListed
      <4>1. CASE c = s
        BY <2>0, <3>1, <3>2, <3>3, <4>1
      <4>2. CASE c # s
        <5>1. life[c] = "live" /\ mSocket'[c] = mSocket[c]
          BY <2>0, <3>1, <4>2
        <5>2. mClientList[mSocket[c]] = c /\ mSocket[c] \in Socket
          BY <5>1 DEF LiveListed, Inv, PointersOK
        <5>3. mSocket[c] # k
          BY <3>2, <5>2, ConstantsAssumption DEF PendingUnlisted
        <5> QED  BY <2>0, <3>3, <5>1, <5>2, <5>3
      <4> QED  BY <4>1, <4>2
    <3> QED  BY <3>5, <3>6
  <2>3. CASE CollectGarbageSessions
    <3>1. /\ mSocket' = mSocket /\ acceptList' = acceptList
          /\ mClientList' = [k \in Socket |-> IF k \in {mSocket[s] : s \in Garbage}
                                              THEN NoSession ELSE mClientList[k]]
          /\ life' = [s \in Session |-> IF s \in Garbage THEN "deleted" ELSE life[s]]
      BY <2>3 DEF CollectGarbageSessions
    <3>2. \A s \in Garbage : s \in Session /\ mClientList[mSocket[s]] = s
      BY <2>0 DEF Garbage, Listed, Inv, PointersOK
    <3>3. PendingUnlisted'
      BY <2>0, <3>1 DEF PendingUnlisted
    <3>4. ASSUME NEW c \in Session, life'[c] = "live"
          PROVE  mClientList'[mSocket'[c]] = c
      <4>1. c \notin Garbage /\ life[c] = "live"
        BY <3>1, <3>4
      <4>2. mClientList[mSocket[c]] = c /\ mSocket[c] \in Socket
        BY <4>1 DEF LiveListed, Inv, PointersOK
      <4>3. mSocket[c] \notin {mSocket[s] : s \in Garbage}
        BY <3>2, <4>1, <4>2
      <4> QED  BY <3>1, <4>2, <4>3
    <3> QED  BY <3>3, <3>4 DEF LiveListed
  <2>4. CASE UNCHANGED <<acceptList, idVars>>
    BY <2>4 DEF LiveListed, PendingUnlisted, idVars
  <2>5. CASE UNCHANGED <<acceptList, mSocket>>
    BY <2>3, <2>4, <2>5, <2>2, ListSteps
  <2> QED  BY <2>1, <2>2, <2>5, HandleSteps
<1>3. LInv => LiveListed
  OBVIOUS
<1> QED  BY <1>1, <1>2, <1>3, Invariance, HandlesAreOwned, PTL DEF Spec
-----------------------------------------------------------------------------
(* Every step takes references only on sessions that are connected, or     *)
(* that it creates.                                                        *)
LEMMA ReferenceSteps ==
  ASSUME Inv, [Next]_vars, NEW s \in Session, life[s] = "live", ~mConnected[s]
  PROVE  mRefCount'[s] <= mRefCount[s]
<1> USE DEF Inv, TypeOK, SessionType, CountType
<1>0. mRefCount[s] \in Nat
  OBVIOUS
<1>1. CASE UNCHANGED vars
  BY <1>1 DEF vars
<1>2. CASE \E k \in Socket : Accept(k)
  BY <1>2 DEF Accept
<1>3. ASSUME NEW c \in Session, CreateClient(c) PROVE mRefCount'[s] <= mRefCount[s]
  <2>1. mRefCount' \in {mRefCount, [mRefCount EXCEPT ![c] = 1]}
    BY <1>3, Zenon DEF CreateClient, OnConnect
  <2>2. c # s
    BY <1>3 DEF CreateClient
  <2> QED  BY <1>0, <2>1, <2>2
<1>4. CASE FlushClientSend
  BY <1>4 DEF FlushClientSend, Flushable
<1>5. CASE Wake \/ PushDatabaseJobRequest \/ DatabaseThread
  BY <1>5 DEF Wake, PushDatabaseJobRequest, DatabaseThread, ConsumeDatabaseJob,
              ProduceDatabaseResult
<1>6. ASSUME NEW c \in Session, RecvCompletion(c) \/ SendCompletion(c)
      PROVE  mRefCount'[s] <= mRefCount[s]
  BY <1>6 DEF RecvCompletion, SendCompletion
<1>7. CASE OnReadDone
  <2>1. current \in Session
    BY <1>7 DEF OnReadDone, At, ControlOK
  <2>2. \/ UNCHANGED mRefCount
        \/ mConnected[current] /\ mRefCount' = [mRefCount EXCEPT ![current] = @ + 1]
    BY <1>7 DEF OnReadDone, PostRecv
  <2> QED  BY <2>1, <2>2
<1>8. CASE \/ \E pid \in Player : HandleLogin(pid)
           \/ \E pid \in Player \cup {NoPlayer} : HandleBroadcast(pid)
           \/ DefaultHandler \/ ParseFailure
  BY <1>8 DEF HandleLogin, HandleBroadcast, DefaultHandler, ParseFailure
<1>9. ASSUME NEW c \in Session, OnTick(c) \/ OnDbUpdate(c)
      PROVE  mRefCount'[s] <= mRefCount[s]
  BY <1>9 DEF OnTick, OnDbUpdate, Rescheduled
<1>10. CASE DispatchDatabaseJobResult
  <2>1. \/ UNCHANGED mRefCount
        \/ mConnected[Target] /\ mRefCount' = [mRefCount EXCEPT ![Target] = @ + 2]
    BY <1>10 DEF DispatchDatabaseJobResult, LoginDone, Deliverable
  <2> QED  BY <2>1
<1>11. CASE TimerProc \/ DoTasksDone \/ CollectGarbageSessions \/ SkipGarbage
            \/ PopDatabaseJobResult
  BY <1>11 DEF TimerProc, DoTasksDone, CollectGarbageSessions, SkipGarbage,
               PopDatabaseJobResult
<1> QED  BY <1>1, <1>2, <1>3, <1>4, <1>5, <1>6, <1>7, <1>8, <1>9, <1>10, <1>11
         DEF Next, ClientThread, Completion, Timer

(* What holds a disconnected session only drains: no step takes a new      *)
(* reference on it or connects it again (DisconnectedDrains).              *)
THEOREM DisconnectedOnlyDrains == Spec => DisconnectedDrains
<1>1. Inv /\ [Next]_vars =>
        [\A s \in Session : life[s] = "live" /\ ~mConnected[s] =>
           ~mConnected'[s] /\ mRefCount'[s] <= mRefCount[s]]_vars
  <2> SUFFICES ASSUME Inv, [Next]_vars, NEW s \in Session, life[s] = "live", ~mConnected[s]
               PROVE  ~mConnected'[s] /\ mRefCount'[s] <= mRefCount[s]
    OBVIOUS
  <2>1. ~mConnected'[s]
    BY ConnectSteps DEF CreateClient
  <2> QED  BY <2>1, ReferenceSteps
<1> QED  BY <1>1, Invariance, PTL DEF Spec, DisconnectedDrains
-----------------------------------------------------------------------------
(* No two sessions ever had the same handle, nor has a session the handle  *)
(* of a socket that waits to be accepted.                                  *)
HandlesFresh ==
  /\ \A s, c \in Session : mSocket[s] \in Socket /\ mSocket[s] = mSocket[c] => s = c
  /\ \A s \in Session, i \in DOMAIN acceptList : mSocket[s] # acceptList[i]
  /\ \A s \in Session : life[s] = "none" => mSocket[s] = NoSocket

(* A job carries the handle of the session that requested it.              *)
Belongs(job) == mSocket[job.owner] = job.sock

JobsBelong ==
  /\ pushing # NoJob => Belongs(pushing)
  /\ dbJob # NoJob => Belongs(dbJob)
  /\ clientPc = "handle" => Belongs(dbResult)
  /\ \A i \in DOMAIN requests : Belongs(requests[i])
  /\ \A i \in DOMAIN results : Belongs(results[i])

(* With fresh handles only, HandlesFresh is kept, and the handle of a      *)
(* session never changes once it has one.                                  *)
LEMMA HandlesFreshStep ==
  ASSUME HandlePolicy = "fresh", Inv, HandleOwnership, HandlesFresh, [Next]_vars
  PROVE  /\ HandlesFresh'
         /\ \A s \in Session : mSocket[s] \in Socket => mSocket'[s] = mSocket[s]
<1>0. /\ life \in [Session -> {"none", "live", "deleted"}]
      /\ mSocket \in [Session -> Socket \cup {NoSocket}]
      /\ acceptList \in Seq(Socket)
  BY DEF Inv, TypeOK, SessionType, QueueType
<1>1. ASSUME NEW k \in Socket, Accept(k) PROVE HandlesFresh' /\ mSocket' = mSocket
  <2>1. /\ \A s \in Session : mSocket[s] # k
        /\ acceptList' = Append(acceptList, k) /\ UNCHANGED <<life, mSocket>>
    BY <1>1 DEF Accept, AcceptableHandle, idVars
  <2> QED  BY <1>0, <2>1 DEF HandlesFresh
<1>2. ASSUME NEW s \in Session, CreateClient(s)
      PROVE  /\ HandlesFresh'
             /\ \A c \in Session : mSocket[c] \in Socket => mSocket'[c] = mSocket[c]
  <2> DEFINE k == Head(acceptList)
  <2>1. /\ acceptList # <<>> /\ life[s] = "none" /\ life' = [life EXCEPT ![s] = "live"]
        /\ mSocket' = [mSocket EXCEPT ![s] = k] /\ acceptList' = Tail(acceptList)
    BY <1>2 DEF CreateClient
  <2>2. /\ Len(acceptList) \in Nat \ {0} /\ DOMAIN acceptList = 1 .. Len(acceptList)
        /\ DOMAIN acceptList' = 1 .. (Len(acceptList) - 1)
        /\ k = acceptList[1] /\ k \in Socket
        /\ \A i \in 1 .. (Len(acceptList) - 1) : acceptList'[i] = acceptList[i + 1]
    BY <1>0, <2>1
  <2> HIDE DEF k
  <2>3. \A i \in DOMAIN acceptList' : acceptList'[i] # k
    BY <2>2 DEF HandleOwnership
  <2>4. \A c \in Session : mSocket[c] # k
    BY <2>2 DEF HandlesFresh
  <2>5. \A c \in Session, i \in DOMAIN acceptList' : mSocket'[c] # acceptList'[i]
    BY <1>0, <2>1, <2>2, <2>3 DEF HandlesFresh
  <2>6. \A a, c \in Session : mSocket'[a] \in Socket /\ mSocket'[a] = mSocket'[c] => a = c
    BY <1>0, <2>1, <2>4 DEF HandlesFresh
  <2>7. \A c \in Session : life'[c] = "none" => mSocket'[c] = NoSocket
    BY <1>0, <2>1 DEF HandlesFresh
  <2>8. \A c \in Session : mSocket[c] \in Socket => mSocket'[c] = mSocket[c]
    BY <1>0, <2>1, ConstantsAssumption DEF HandlesFresh
  <2> QED  BY <2>5, <2>6, <2>7, <2>8 DEF HandlesFresh
<1>3. CASE UNCHANGED <<acceptList, mSocket>> /\ ~\E s \in Session : CreateClient(s)
  <2>1. \A c \in Session : life'[c] = "none" => life[c] = "none"
    BY <1>0, <1>3, ListSteps DEF CollectGarbageSessions, idVars
  <2> QED  BY <1>3, <2>1 DEF HandlesFresh
<1> QED  BY <1>1, <1>2, <1>3, HandleSteps

(* Only the steps named here put a job in hand, in a queue or out of one.  *)
LEMMA JobSteps ==
  ASSUME [Next]_vars
  PROVE  \/ \E pid \in Player : HandleLogin(pid)
         \/ \E s \in Session : OnDbUpdate(s)
         \/ PopDatabaseJobResult \/ DispatchDatabaseJobResult
         \/ PushDatabaseJobRequest \/ ConsumeDatabaseJob \/ ProduceDatabaseResult
         \/ /\ UNCHANGED <<pushing, requests, dbJob, results, dbResult>>
            /\ clientPc' = "handle" => clientPc = "handle"
<1> USE DEF dbVars, ctlVars
<1>1. CASE UNCHANGED vars
  BY <1>1 DEF vars
<1>2. CASE \E k \in Socket : Accept(k)
  BY <1>2 DEF Accept
<1>3. CASE FlushClientSend \/ Wake \/ \E s \in Session : CreateClient(s)
  BY <1>3 DEF FlushClientSend, Wake, CreateClient
<1>4. CASE Completion
  BY <1>4 DEF Completion, SendCompletion, RecvCompletion, HandleBroadcast, DefaultHandler,
              ParseFailure, OnReadDone
<1>5. CASE Timer
  BY <1>5 DEF Timer, TimerProc, OnTick, DoTasksDone, CollectGarbageSessions, SkipGarbage
<1> QED  BY <1>1, <1>2, <1>3, <1>4, <1>5 DEF Next, ClientThread, DatabaseThread

(* A job keeps the handle and the owner it was made with on its way        *)
(* through both queues.                                                    *)
LEMMA JobsBelongStep ==
  ASSUME Inv, JobsBelong, [Next]_vars,
         \A s \in Session : mSocket[s] \in Socket => mSocket'[s] = mSocket[s]
  PROVE  JobsBelong'
<1>0. /\ requests \in Seq(Job) /\ results \in Seq(Job)
      /\ pushing \in Job \cup {NoJob} /\ dbJob \in Job \cup {NoJob}
  BY DEF Inv, TypeOK, QueueType
<1>1. \A job \in Job : Belongs(job) => Belongs(job)'
  BY DEF Belongs, Job
<1>2. ASSUME NEW s \in Session, NEW type, NEW pid, life[s] = "live"
      PROVE  mSocket'[NewJob(type, s, pid).owner] = NewJob(type, s, pid).sock
  BY <1>2 DEF Belongs, NewJob, Inv, PointersOK
<1>3. CASE UNCHANGED <<requests, dbJob, results>> /\ clientPc' # "handle"
           /\ (pushing' # NoJob => Belongs(pushing)')
  BY <1>0, <1>1, <1>3 DEF JobsBelong
<1>4. ASSUME NEW pid \in Player, HandleLogin(pid) PROVE JobsBelong'
  <2>1. current \in Session /\ life[current] = "live"
    BY <1>4 DEF HandleLogin, At, Inv, ControlOK, HeldOnlyWhileLive
  <2>2. Belongs(pushing)'
    BY <1>2, <1>4, <2>1 DEF HandleLogin, Belongs
  <2> QED  BY <1>3, <1>4, <2>2 DEF HandleLogin, At, dbVars
<1>5. ASSUME NEW s \in Session, OnDbUpdate(s) PROVE JobsBelong'
  <2>1. life[s] = "live"
    BY <1>5 DEF OnDbUpdate, Inv, HeldOnlyWhileLive, PointersOK, TypeOK, CountType
  <2>2. pushing' # NoJob => Belongs(pushing)'
    BY <1>2, <1>5, <2>1 DEF OnDbUpdate, Belongs
  <2> QED  BY <1>3, <1>5, <2>2 DEF OnDbUpdate, At, dbVars
<1>6. CASE DispatchDatabaseJobResult
  <2>1. CASE UNCHANGED pushing
    BY <1>0, <1>1, <1>3, <1>6, <2>1 DEF DispatchDatabaseJobResult, JobsBelong, dbVars
  <2>2. CASE Deliverable /\ pushing' = NewJob("update", Target, dbResult.pid)
    <3>1. Target \in Session /\ life[Target] = "live"
      BY <1>6, <2>2 DEF DispatchDatabaseJobResult, At, Deliverable, Target, Inv, ControlOK,
                        Job, TypeOK, SessionType, PointersOK
    <3>2. Belongs(pushing)'
      BY <1>2, <2>2, <3>1 DEF Belongs
    <3> QED  BY <1>3, <1>6, <3>2 DEF DispatchDatabaseJobResult, dbVars
  <2> QED  BY <1>6, <2>1, <2>2 DEF DispatchDatabaseJobResult, LoginDone
<1>7. CASE PopDatabaseJobResult
  <2>1. UNCHANGED <<pushing, requests, dbJob>>
    BY <1>7 DEF PopDatabaseJobResult
  <2>2. CASE results = <<>>
    BY <1>3, <1>7, <2>1, <2>2, <1>0, <1>1 DEF PopDatabaseJobResult, JobsBelong
  <2>3. CASE results # <<>>
    <3>1. dbResult' = Head(results) /\ results' = Tail(results)
      BY <1>7, <2>3 DEF PopDatabaseJobResult
    <3>2. Belongs(Head(results)) /\ \A i \in DOMAIN results' : Belongs(results'[i])
      BY <1>0, <2>3, <3>1 DEF JobsBelong
    <3>3. Head(results) \in Job /\ results' \in Seq(Job)
      BY <1>0, <2>3, <3>1
    <3>4. Belongs(dbResult)' /\ (\A i \in DOMAIN results : Belongs(results[i]))'
      BY <1>1, <3>1, <3>2, <3>3
    <3> QED  BY <1>0, <1>1, <2>1, <3>4 DEF JobsBelong
  <2> QED  BY <2>2, <2>3
<1>8. CASE PushDatabaseJobRequest
  <2>1. /\ pushing # NoJob /\ requests' = Append(requests, pushing) /\ pushing' = NoJob
        /\ UNCHANGED <<dbJob, results, clientPc, dbResult>>
    BY <1>8 DEF PushDatabaseJobRequest
  <2>2. requests' \in Seq(Job) /\ \A i \in DOMAIN requests' : Belongs(requests'[i])
    BY <1>0, <2>1 DEF JobsBelong
  <2>3. (\A i \in DOMAIN requests : Belongs(requests[i]))'
    BY <1>1, <2>2
  <2>4. clientPc = "handle" => dbResult \in Job
    BY DEF Inv, ControlOK
  <2> QED  BY <1>0, <1>1, <2>1, <2>3, <2>4 DEF JobsBelong
<1>9. CASE ConsumeDatabaseJob
  <2>1. /\ requests # <<>> /\ dbJob' = Head(requests) /\ requests' = Tail(requests)
        /\ UNCHANGED <<pushing, results, clientPc, dbResult>>
    BY <1>9 DEF ConsumeDatabaseJob, ctlVars
  <2>2. /\ requests' \in Seq(Job) /\ \A i \in DOMAIN requests' : Belongs(requests'[i])
        /\ Head(requests) \in Job /\ Belongs(Head(requests))
    BY <1>0, <2>1 DEF JobsBelong
  <2>3. (\A i \in DOMAIN requests : Belongs(requests[i]))' /\ Belongs(dbJob)'
    BY <1>1, <2>1, <2>2
  <2>4. clientPc = "handle" => dbResult \in Job
    BY DEF Inv, ControlOK
  <2> QED  BY <1>0, <1>1, <2>1, <2>3, <2>4 DEF JobsBelong
<1>10. CASE ProduceDatabaseResult
  <2>1. PICK ok \in BOOLEAN : results' = Append(results, [dbJob EXCEPT !.ok = ok])
    BY <1>10 DEF ProduceDatabaseResult
  <2>2. /\ dbJob # NoJob /\ dbJob' = NoJob
        /\ UNCHANGED <<pushing, requests, clientPc, dbResult>>
    BY <1>10 DEF ProduceDatabaseResult, ctlVars
  <2>3. [dbJob EXCEPT !.ok = ok] \in Job /\ Belongs([dbJob EXCEPT !.ok = ok])
    BY <1>0, <2>2 DEF Job, JobsBelong, Belongs
  <2>4. results' \in Seq(Job) /\ \A i \in DOMAIN results' : Belongs(results'[i])
    BY <1>0, <2>1, <2>3, SMTT(30) DEF JobsBelong
  <2>5. (\A i \in DOMAIN results : Belongs(results[i]))'
    BY <1>1, <2>4
  <2>6. clientPc = "handle" => dbResult \in Job
    BY DEF Inv, ControlOK
  <2> QED  BY <1>0, <1>1, <2>2, <2>5, <2>6 DEF JobsBelong
<1>11. CASE /\ UNCHANGED <<pushing, requests, dbJob, results, dbResult>>
            /\ clientPc' = "handle" => clientPc = "handle"
  <2>1. clientPc = "handle" => dbResult \in Job
    BY DEF Inv, ControlOK
  <2> QED  BY <1>0, <1>1, <1>11, <2>1 DEF JobsBelong
<1> QED  BY <1>4, <1>5, <1>6, <1>7, <1>8, <1>9, <1>10, <1>11, JobSteps

(* If the system never hands out a handle twice, a result always reaches   *)
(* the session that asked for it (ResultToRequester): the reuse of handles *)
(* is all that the run MCResultKey needs to break it.                      *)
THEOREM FreshHandlesDeliver == HandlePolicy = "fresh" => (Spec => []ResultToRequester)
<1> SUFFICES ASSUME HandlePolicy = "fresh" PROVE Spec => []ResultToRequester
  OBVIOUS
<1> DEFINE RInv == HandlesFresh /\ JobsBelong
<1>1. Init => RInv
  BY ConstantsAssumption DEF Init, HandlesFresh, JobsBelong
<1>2. Inv /\ HandleOwnership /\ RInv /\ [Next]_vars => RInv'
  BY HandlesFreshStep, JobsBelongStep
<1>3. Inv /\ RInv => ResultToRequester
  <2> SUFFICES ASSUME Inv, RInv, At("handle"), Deliverable PROVE Target = dbResult.owner
    BY DEF ResultToRequester
  <2>1. dbResult \in Job /\ mSocket[dbResult.owner] = dbResult.sock
    BY DEF At, Inv, ControlOK, JobsBelong, Belongs
  <2>2. Target \in Session /\ mSocket[Target] = dbResult.sock
    BY <2>1 DEF Deliverable, Target, Job, Inv, TypeOK, SessionType, PointersOK
  <2> QED  BY <2>1, <2>2 DEF HandlesFresh, Job
<1> QED  BY <1>1, <1>2, <1>3, Invariance, HandlesAreOwned, PTL DEF Spec
-----------------------------------------------------------------------------
(* Capacity: how many jobs are on their way at most.  A login packet makes *)
(* one load job, the load's result starts one periodic save and makes one  *)
(* update job, and a round of DoTasks makes at most one update job for     *)
(* each periodic save.  DispatchDatabaseJobResults empties the result      *)
(* queue after every round, before the next.                               *)

\* The OnDbUpdate tasks f counts, one by one, and their number.
Tasks(f) == {t \in Session \X Nat : 1 <= t[2] /\ t[2] <= f[t[1]]}
TaskCount(f) == Cardinality(Tasks(f))

\* 1 for the job of a login, and for a variable that holds one.
LoadOf(job) == IF job.type = "load" THEN 1 ELSE 0
HeldLoad(job) == IF job = NoJob THEN 0 ELSE LoadOf(job)

\* 1 for a variable that holds a job.
Held(job) == IF job = NoJob THEN 0 ELSE 1

\* The load jobs of a queue, and their number.
LoadsOf(q) == {i \in 1 .. Len(q) : q[i].type = "load"}
LoadsIn(q) == Cardinality(LoadsOf(q))

\* The load jobs, and all the jobs, between request and dispatch.
PendingLoads ==
  LoadsIn(requests) + HeldLoad(dbJob) + LoadsIn(results) + HeldLoad(pushing)
    + (IF clientPc = "handle" THEN LoadOf(dbResult) ELSE 0)

PendingJobs ==
  Len(requests) + Held(dbJob) + Len(results) + Held(pushing)
    + (IF clientPc = "handle" THEN 1 ELSE 0)

\* The saves that can still be requested before the results are dispatched.
SavesDue ==
  IF clientPc = "tasks" THEN TaskCount(dueDb)
  ELSE IF clientPc \in {"gc", "dispatch", "handle"} THEN 0 ELSE TaskCount(dbTasks)

(* Every load job on its way and every periodic save comes from a login of *)
(* its own.                                                                *)
LoginsPay ==
  /\ IsFiniteSet(Tasks(dbTasks))
  /\ PendingLoads + TaskCount(dbTasks) <= logins

(* The jobs on their way and the saves to come before the next dispatch:   *)
(* a full request queue and the job in the database thread's hand, which   *)
(* may be left from the last round, and one job for every login.           *)
JobsBounded == PendingJobs + SavesDue <= MAX_DB_JOB + 1 + logins

(* One more task of one session is one more task.                          *)
LEMMA TasksGrow ==
  ASSUME NEW f \in [Session -> Nat], NEW g, NEW s \in Session,
         g = [f EXCEPT ![s] = @ + 1], IsFiniteSet(Tasks(f))
  PROVE  IsFiniteSet(Tasks(g)) /\ TaskCount(g) = TaskCount(f) + 1
<1>1. PICK n \in Nat : n = f[s]
  OBVIOUS
<1>2. \A c \in Session : g[c] = IF c = s THEN n + 1 ELSE f[c]
  BY <1>1
<1>3. Tasks(g) = Tasks(f) \cup {<<s, n + 1>>}
  <2>1. Tasks(g) \subseteq Tasks(f) \cup {<<s, n + 1>>}
    <3> SUFFICES ASSUME NEW t \in Tasks(g), t \notin Tasks(f) PROVE t = <<s, n + 1>>
      OBVIOUS
    <3>1. /\ t[1] \in Session /\ t[2] \in Nat /\ t = <<t[1], t[2]>>
          /\ t \in Session \X Nat /\ 1 <= t[2] /\ t[2] <= g[t[1]]
      BY DEF Tasks
    <3>2. ~(t[2] <= f[t[1]])
      BY <3>1 DEF Tasks
    <3>3. t[1] = s
      BY <1>2, <3>1, <3>2
    <3>4. t[2] <= n + 1 /\ ~(t[2] <= n)
      BY <1>1, <1>2, <3>1, <3>2, <3>3
    <3>5. t[2] = n + 1
      BY <3>1, <3>4
    <3> QED  BY <3>1, <3>3, <3>5
  <2>2. Tasks(f) \subseteq Tasks(g)
    <3> SUFFICES ASSUME NEW t \in Tasks(f) PROVE t \in Tasks(g)
      OBVIOUS
    <3>1. t[1] \in Session /\ t[2] \in Nat /\ 1 <= t[2] /\ t[2] <= f[t[1]] /\ t \in Session \X Nat
      BY DEF Tasks
    <3>2. f[t[1]] <= g[t[1]] /\ f[t[1]] \in Nat /\ g[t[1]] \in Nat
      BY <1>1, <1>2, <3>1
    <3> QED  BY <3>1, <3>2 DEF Tasks
  <2>3. <<s, n + 1>> \in Tasks(g)
    BY <1>2 DEF Tasks
  <2> QED  BY <2>1, <2>2, <2>3
<1>4. <<s, n + 1>> \notin Tasks(f)
  BY <1>1 DEF Tasks
<1>5. PICK x : x = <<s, n + 1>>
  OBVIOUS
<1>6. Tasks(g) = Tasks(f) \cup {x} /\ x \notin Tasks(f)
  BY <1>3, <1>4, <1>5
<1>7. /\ IsFiniteSet(Tasks(f) \cup {x})
      /\ Cardinality(Tasks(f) \cup {x}) =
           IF x \in Tasks(f) THEN Cardinality(Tasks(f)) ELSE Cardinality(Tasks(f)) + 1
  BY FS_AddElement, Zenon
<1> QED  BY <1>6, <1>7 DEF TaskCount

(* One task fewer of one session is one task fewer.                        *)
LEMMA TasksShrink ==
  ASSUME NEW f \in [Session -> Nat], NEW g, NEW s \in Session, f[s] > 0,
         g = [f EXCEPT ![s] = @ - 1], IsFiniteSet(Tasks(f))
  PROVE  IsFiniteSet(Tasks(g)) /\ TaskCount(g) = TaskCount(f) - 1
<1>1. /\ g \in [Session -> Nat]
      /\ f = [g EXCEPT ![s] = @ + 1]
  <2>1. g \in [Session -> Nat] /\ g[s] + 1 = f[s] /\ \A c \in Session : c # s => g[c] = f[c]
    OBVIOUS
  <2> DEFINE h == [g EXCEPT ![s] = @ + 1]
  <2>2. h \in [Session -> Nat] /\ \A c \in Session : h[c] = f[c]
    BY <2>1
  <2>3. h = f
    BY <2>2
  <2> QED  BY <2>1, <2>3
<1>2. Tasks(g) \in SUBSET Tasks(f)
  <2> SUFFICES ASSUME NEW t \in Tasks(g) PROVE t \in Tasks(f)
    OBVIOUS
  <2>1. t[1] \in Session /\ t[2] \in Nat /\ 1 <= t[2] /\ t[2] <= g[t[1]] /\ t \in Session \X Nat
    BY DEF Tasks
  <2>2. g[t[1]] <= f[t[1]] /\ f[t[1]] \in Nat /\ g[t[1]] \in Nat
    BY <1>1, <2>1
  <2> QED  BY <2>1, <2>2 DEF Tasks
<1>3. IsFiniteSet(Tasks(g))
  BY <1>2, FS_Subset
<1>4. TaskCount(f) = TaskCount(g) + 1
  BY <1>1, <1>3, TasksGrow
<1>5. TaskCount(g) \in Nat
  BY <1>3, FS_CardinalityType DEF TaskCount
<1> QED  BY <1>3, <1>4, <1>5

(* The loads of a queue are finitely many.                                 *)
LEMMA LoadsFinite ==
  ASSUME NEW q \in Seq(Job)
  PROVE  IsFiniteSet(LoadsOf(q)) /\ LoadsIn(q) \in Nat
<1>1. Len(q) \in Nat
  OBVIOUS
<1>2. IsFiniteSet(1 .. Len(q))
  BY <1>1, FS_Interval
<1>3. LoadsOf(q) \in SUBSET (1 .. Len(q))
  BY DEF LoadsOf
<1> QED  BY <1>2, <1>3, FS_Subset, FS_CardinalityType DEF LoadsIn

(* Produce adds the job it appends.                                        *)
LEMMA LoadsAppend ==
  ASSUME NEW q \in Seq(Job), NEW job \in Job, NEW p, p = Append(q, job)
  PROVE  LoadsIn(p) = LoadsIn(q) + LoadOf(job)
<1>1. PICK n \in Nat : n = Len(q)
  OBVIOUS
<1>2. /\ Len(p) = n + 1 /\ p[n + 1] = job
      /\ \A i \in 1 .. n : p[i] = q[i]
  BY <1>1
<1>3. IsFiniteSet(LoadsOf(q)) /\ LoadsIn(q) \in Nat
  BY LoadsFinite
<1>4. CASE job.type = "load"
  <2>1. LoadsOf(p) = LoadsOf(q) \cup {n + 1} /\ n + 1 \notin LoadsOf(q)
    BY <1>1, <1>2, <1>4 DEF LoadsOf
  <2> QED  BY <1>3, <1>4, <2>1, FS_AddElement DEF LoadsIn, LoadOf
<1>5. CASE job.type # "load"
  <2>1. LoadsOf(p) = LoadsOf(q)
    BY <1>1, <1>2, <1>5 DEF LoadsOf
  <2> QED  BY <1>3, <1>5, <2>1 DEF LoadsIn, LoadOf
<1> QED  BY <1>4, <1>5

(* Consume takes away the job it returns.                                  *)
LEMMA LoadsTail ==
  ASSUME NEW q \in Seq(Job), q # <<>>, NEW p, p = Tail(q)
  PROVE  LoadsIn(q) = LoadsIn(p) + LoadOf(Head(q))
<1>1. PICK n \in Nat : Len(q) = n + 1
  OBVIOUS
<1>2. /\ Len(p) = n /\ p \in Seq(Job) /\ Head(q) = q[1]
      /\ \A i \in 1 .. n : p[i] = q[i + 1]
  BY <1>1
<1>3. IsFiniteSet(LoadsOf(p)) /\ LoadsIn(p) \in Nat
  BY <1>2, LoadsFinite
<1> DEFINE rest == LoadsOf(q) \ {1}
           shift == [i \in LoadsOf(p) |-> i + 1]
<1>4. /\ \A i \in LoadsOf(p) : i \in 1 .. n /\ i + 1 \in rest
      /\ \A j \in rest : j \in 2 .. n + 1 /\ j - 1 \in LoadsOf(p)
  <2>1. \A i \in LoadsOf(p) : i \in 1 .. n /\ i + 1 \in rest
    BY <1>1, <1>2 DEF LoadsOf
  <2>2. ASSUME NEW j \in rest PROVE j \in 2 .. n + 1 /\ j - 1 \in LoadsOf(p)
    <3>1. j \in 2 .. n + 1 /\ q[j].type = "load"
      BY <1>1, <2>2 DEF LoadsOf
    <3>2. j - 1 \in 1 .. n /\ (j - 1) + 1 = j
      BY <3>1
    <3>3. p[j - 1] = q[j]
      BY <1>2, <3>2
    <3> QED  BY <1>2, <3>1, <3>2, <3>3 DEF LoadsOf
  <2> QED  BY <2>1, <2>2
<1>5. shift \in Bijection(LoadsOf(p), rest)
  <2>1. shift \in [LoadsOf(p) -> rest]
    BY <1>4
  <2>2. \A i, j \in LoadsOf(p) : shift[i] = shift[j] => i = j
    BY <1>4
  <2>3. \A j \in rest : \E i \in LoadsOf(p) : shift[i] = j
    <3> SUFFICES ASSUME NEW j \in rest PROVE \E i \in LoadsOf(p) : shift[i] = j
      OBVIOUS
    <3>1. j - 1 \in LoadsOf(p) /\ (j - 1) + 1 = j
      BY <1>4
    <3> QED  BY <3>1
  <2> QED  BY <2>1, <2>2, <2>3 DEF Bijection, Injection, IsInjective, Surjection
<1>6. IsFiniteSet(rest) /\ Cardinality(rest) = LoadsIn(p)
  BY <1>3, <1>5, FS_Bijection DEF ExistsBijection, LoadsIn
<1> HIDE DEF rest
<1>7. CASE Head(q).type = "load"
  <2>1. LoadsOf(q) = rest \cup {1} /\ 1 \notin rest
    BY <1>1, <1>2, <1>7 DEF LoadsOf, rest
  <2> QED  BY <1>3, <1>6, <1>7, <2>1, FS_AddElement DEF LoadsIn, LoadOf
<1>8. CASE Head(q).type # "load"
  <2>1. LoadsOf(q) = rest
    BY <1>1, <1>2, <1>8 DEF LoadsOf, rest
  <2> QED  BY <1>3, <1>6, <1>8, <2>1 DEF LoadsIn, LoadOf
<1> QED  BY <1>7, <1>8

(* Where the client thread is when it has dispatched all results and has   *)
(* not started the next round of DoTasks.                                  *)
BetweenRounds == {"accept", "sleep", "apc", "read", "default", "short"}

(* Only the steps named here move a job, run a task or begin or end a      *)
(* round of the timer.                                                     *)
LEMMA CapacitySteps ==
  ASSUME [Next]_vars
  PROVE  \/ \E pid \in Player : HandleLogin(pid)
         \/ \E s \in Session : OnDbUpdate(s)
         \/ TimerProc \/ DoTasksDone
         \/ PopDatabaseJobResult \/ DispatchDatabaseJobResult
         \/ PushDatabaseJobRequest \/ ConsumeDatabaseJob \/ ProduceDatabaseResult
         \/ /\ UNCHANGED <<requests, dbJob, results, pushing, dbTasks, logins>>
            /\ \/ UNCHANGED <<clientPc, dueDb, dbResult>>
               \/ clientPc \in BetweenRounds /\ clientPc' \in BetweenRounds
               \/ clientPc = "gc" /\ clientPc' = "dispatch"
<1> USE DEF dbVars, ctlVars, taskVars, At, Alertable, BetweenRounds
<1>1. CASE UNCHANGED vars
  BY <1>1 DEF vars
<1>2. CASE \E k \in Socket : Accept(k)
  BY <1>2 DEF Accept
<1>3. CASE FlushClientSend \/ Wake \/ \E s \in Session : CreateClient(s)
  BY <1>3 DEF FlushClientSend, Wake, CreateClient
<1>4. CASE Completion
  BY <1>4 DEF Completion, SendCompletion, RecvCompletion, HandleBroadcast, DefaultHandler,
              ParseFailure, OnReadDone
<1>5. CASE Timer
  BY <1>5 DEF Timer, OnTick, CollectGarbageSessions, SkipGarbage
<1> QED  BY <1>1, <1>2, <1>3, <1>4, <1>5 DEF Next, ClientThread, DatabaseThread

(* All the counts are natural numbers.                                     *)
LEMMA CountsAreNat ==
  ASSUME Inv, LoginsPay
  PROVE  /\ LoadsIn(requests) \in Nat /\ LoadsIn(results) \in Nat
         /\ Len(requests) \in 0 .. MAX_DB_JOB /\ Len(results) \in 0 .. MAX_DB_JOB
         /\ TaskCount(dbTasks) \in Nat
         /\ IsFiniteSet(Tasks(dueDb)) /\ TaskCount(dueDb) \in Nat
         /\ logins \in Nat /\ MAX_DB_JOB \in Nat
<1>1. /\ requests \in Seq(Job) /\ results \in Seq(Job)
      /\ Len(requests) \in 0 .. MAX_DB_JOB /\ Len(results) \in 0 .. MAX_DB_JOB
      /\ logins \in Nat /\ MAX_DB_JOB \in Nat
  BY ConstantsAssumption DEF Inv, TypeOK, QueueType
<1>2. LoadsIn(requests) \in Nat /\ LoadsIn(results) \in Nat
  BY <1>1, LoadsFinite
<1>3. IsFiniteSet(Tasks(dbTasks))
  BY DEF LoginsPay
<1>4. Tasks(dueDb) \in SUBSET Tasks(dbTasks)
  <2> SUFFICES ASSUME NEW t \in Tasks(dueDb) PROVE t \in Tasks(dbTasks)
    OBVIOUS
  <2>1. t[1] \in Session /\ t[2] \in Nat /\ 1 <= t[2] /\ t[2] <= dueDb[t[1]] /\ t \in Session \X Nat
    BY DEF Tasks
  <2>2. dueDb[t[1]] <= dbTasks[t[1]] /\ dueDb[t[1]] \in Nat /\ dbTasks[t[1]] \in Nat
    BY <2>1 DEF Inv, PointersOK, TypeOK, CountType
  <2> QED  BY <2>1, <2>2 DEF Tasks
<1>5. IsFiniteSet(Tasks(dueDb))
  BY <1>3, <1>4, FS_Subset
<1> QED  BY <1>1, <1>2, <1>3, <1>5, FS_CardinalityType DEF TaskCount

(* A variable holds at most one job, and that is at most one load.         *)
LEMMA HeldIsBit ==
  ASSUME NEW job
  PROVE  /\ Held(job) \in 0 .. 1 /\ HeldLoad(job) \in 0 .. 1 /\ LoadOf(job) \in 0 .. 1
         /\ job = NoJob => Held(job) = 0 /\ HeldLoad(job) = 0
         /\ job # NoJob => Held(job) = 1 /\ HeldLoad(job) = LoadOf(job)
  BY DEF Held, HeldLoad, LoadOf

(* So are their sums.                                                      *)
LEMMA SumsAreNat ==
  ASSUME Inv, LoginsPay
  PROVE  PendingLoads \in Nat /\ PendingJobs \in Nat /\ SavesDue \in Nat
<1>1. PendingLoads \in Nat
  <2>1. LoadsIn(requests) \in Nat /\ LoadsIn(results) \in Nat
    BY CountsAreNat
  <2>2. /\ HeldLoad(dbJob) \in Nat /\ HeldLoad(pushing) \in Nat
        /\ (IF clientPc = "handle" THEN LoadOf(dbResult) ELSE 0) \in Nat
    BY HeldIsBit
  <2> QED  BY <2>1, <2>2 DEF PendingLoads
<1>2. PendingJobs \in Nat
  <2>1. Len(requests) \in Nat /\ Len(results) \in Nat
    BY CountsAreNat
  <2> QED  BY <2>1, HeldIsBit DEF PendingJobs
<1>3. SavesDue \in Nat
  BY CountsAreNat DEF SavesDue
<1> QED  BY <1>1, <1>2, <1>3

(* A smaller sum stays below a bound.                                      *)
LEMMA SumShrinks ==
  ASSUME NEW a \in Nat, NEW b \in Nat, NEW c \in Nat, NEW d \in Nat, NEW n \in Nat,
         a <= c, b <= d, c + d <= n
  PROVE  a + b <= n
  OBVIOUS

(* A login pays for the load job it makes.                                 *)
LEMMA HandleLoginCapacity ==
  ASSUME Inv, LoginsPay, JobsBounded, NEW pid \in Player, HandleLogin(pid)
  PROVE  LoginsPay' /\ JobsBounded'
<1>0. /\ TaskCount(dbTasks) \in Nat /\ logins \in Nat /\ MAX_DB_JOB \in Nat
      /\ PendingLoads \in Nat /\ PendingJobs \in Nat /\ SavesDue \in Nat
  BY CountsAreNat, SumsAreNat
<1>1. /\ UNCHANGED <<requests, dbJob, results, clientPc, dbTasks>>
      /\ clientPc = "read" /\ pushing = NoJob /\ logins' = logins + 1
  BY DEF HandleLogin, At, dbVars, taskVars
<1>2. PICK l \in 0 .. 1, h \in 0 .. 1 : l = HeldLoad(pushing') /\ h = Held(pushing')
  BY HeldIsBit
<1>3. Held(pushing) = 0 /\ HeldLoad(pushing) = 0
  BY <1>1, HeldIsBit
<1>4. PendingLoads' = PendingLoads + l
  BY <1>1, <1>2, <1>3, CountsAreNat, HeldIsBit DEF PendingLoads
<1>5. PendingJobs' = PendingJobs + h
  <2>1. Len(requests) \in Nat /\ Len(results) \in Nat
    BY CountsAreNat
  <2> QED  BY <1>1, <1>2, <1>3, <2>1, HeldIsBit DEF PendingJobs
<1>6. SavesDue' = SavesDue
  BY <1>1, CountsAreNat DEF SavesDue
<1>7. LoginsPay'
  BY <1>1, <1>4, <1>0 DEF LoginsPay
<1>8. JobsBounded'
  BY <1>1, <1>5, <1>6, <1>0 DEF JobsBounded
<1> QED  BY <1>7, <1>8

(* A save that DoTasks runs is no longer to come, and makes at most one    *)
(* job.                                                                    *)
LEMMA OnDbUpdateCapacity ==
  ASSUME Inv, LoginsPay, JobsBounded, NEW s \in Session, OnDbUpdate(s)
  PROVE  LoginsPay' /\ JobsBounded'
<1>0. /\ TaskCount(dbTasks) \in Nat /\ logins \in Nat /\ MAX_DB_JOB \in Nat
      /\ PendingLoads \in Nat /\ PendingJobs \in Nat /\ SavesDue \in Nat
  BY CountsAreNat, SumsAreNat
<1>1. /\ UNCHANGED <<requests, dbJob, results, clientPc, logins>>
      /\ clientPc = "tasks" /\ pushing = NoJob
      /\ dueDb[s] > 0 /\ dueDb' = [dueDb EXCEPT ![s] = @ - 1]
      /\ dbTasks' = [dbTasks EXCEPT ![s] = @ + Rescheduled(s) - 1]
  BY DEF OnDbUpdate, At, dbVars
<1>2. /\ dueDb \in [Session -> Nat] /\ dbTasks \in [Session -> Nat]
      /\ dueDb[s] <= dbTasks[s]
  BY DEF Inv, TypeOK, CountType, PointersOK
<1>3. IsFiniteSet(Tasks(dbTasks)) /\ IsFiniteSet(Tasks(dueDb))
  BY CountsAreNat DEF LoginsPay
<1>4. TaskCount(dueDb') = TaskCount(dueDb) - 1
  BY <1>1, <1>2, <1>3, TasksShrink
<1>5. dbTasks' = dbTasks \/ dbTasks' = [dbTasks EXCEPT ![s] = @ - 1]
  <2>1. CASE Rescheduled(s) = 1
    <3>1. \A n \in Nat : (n + 1) - 1 = n
      OBVIOUS
    <3> QED  BY <1>1, <1>2, <2>1, <3>1
  <2>2. CASE Rescheduled(s) = 0
    <3>1. dbTasks[s] + Rescheduled(s) - 1 = dbTasks[s] - 1
      BY <1>2, <2>2
    <3> QED  BY <1>1, <3>1, Zenon
  <2> QED  BY <2>1, <2>2 DEF Rescheduled
<1>6. /\ IsFiniteSet(Tasks(dbTasks'))
      /\ TaskCount(dbTasks') = TaskCount(dbTasks) \/ TaskCount(dbTasks') = TaskCount(dbTasks) - 1
  <2>1. CASE dbTasks' = dbTasks
    BY <1>3, <2>1
  <2>2. CASE dbTasks' = [dbTasks EXCEPT ![s] = @ - 1]
    <3>1. dbTasks[s] > 0
      BY <1>1, <1>2
    <3>2. IsFiniteSet(Tasks(dbTasks')) /\ TaskCount(dbTasks') = TaskCount(dbTasks) - 1
      BY <1>2, <1>3, <2>2, <3>1, TasksShrink, Zenon
    <3> QED  BY <3>2
  <2> QED  BY <1>5, <2>1, <2>2
<1>7. HeldLoad(pushing) = 0 /\ Held(pushing) = 0
  BY <1>1, HeldIsBit
<1>8. HeldLoad(pushing') = 0
  BY DEF OnDbUpdate, HeldLoad, LoadOf, NewJob
<1>9. PICK h \in 0 .. 1 : h = Held(pushing')
  BY HeldIsBit
<1>10. PendingLoads' = PendingLoads
  BY <1>1, <1>7, <1>8, CountsAreNat, HeldIsBit DEF PendingLoads
<1>11. PendingJobs' = PendingJobs + h
  BY <1>1, <1>7, <1>9, CountsAreNat, HeldIsBit DEF PendingJobs
<1>12. SavesDue' = SavesDue - 1
  BY <1>1, <1>4, CountsAreNat DEF SavesDue
<1>13. LoginsPay'
  BY <1>1, <1>6, <1>10, <1>0 DEF LoginsPay
<1>14. JobsBounded'
  BY <1>1, <1>11, <1>12, <1>0 DEF JobsBounded
<1> QED  BY <1>13, <1>14

(* A round of the timer begins with every save to come, and after DoTasks  *)
(* there is none.                                                          *)
LEMMA RoundCapacity ==
  ASSUME Inv, LoginsPay, JobsBounded, TimerProc \/ DoTasksDone
  PROVE  LoginsPay' /\ JobsBounded'
<1>0. /\ TaskCount(dbTasks) \in Nat /\ logins \in Nat /\ MAX_DB_JOB \in Nat
      /\ PendingLoads \in Nat /\ PendingJobs \in Nat /\ SavesDue \in Nat
  BY CountsAreNat, SumsAreNat
<1>1. /\ UNCHANGED <<requests, dbJob, results, pushing, dbTasks, logins>>
      /\ clientPc \notin {"handle", "gc", "dispatch"} /\ clientPc' # "handle"
      /\ \/ clientPc # "tasks" /\ clientPc' = "tasks" /\ dueDb' = dbTasks
         \/ clientPc = "tasks" /\ clientPc' = "gc"
  BY DEF TimerProc, DoTasksDone, At, Alertable, dbVars, taskVars
<1>2. PendingLoads' = PendingLoads
  BY <1>1 DEF PendingLoads
<1>3. PendingJobs' = PendingJobs
  BY <1>1, CountsAreNat, HeldIsBit DEF PendingJobs
<1>4. SavesDue' <= SavesDue /\ SavesDue' \in Nat
  BY <1>1, CountsAreNat DEF SavesDue
<1>5. LoginsPay'
  BY <1>1, <1>2 DEF LoginsPay
<1>6. JobsBounded'
  <2>1. PendingJobs + SavesDue <= MAX_DB_JOB + 1 + logins
    BY DEF JobsBounded
  <2>2. PendingJobs' + SavesDue' <= MAX_DB_JOB + 1 + logins
    <3>1. MAX_DB_JOB + 1 + logins \in Nat /\ PendingJobs' \in Nat /\ PendingJobs' <= PendingJobs
      BY <1>0, <1>3
    <3> QED  BY <1>0, <1>4, <2>1, <3>1, SumShrinks
  <2> QED  BY <1>1, <2>2 DEF JobsBounded
<1> QED  BY <1>5, <1>6

(* A dispatched login exchanges its load for a periodic save and the job   *)
(* LoginDone pushes; any other result is dropped.                          *)
LEMMA DispatchCapacity ==
  ASSUME Inv, LoginsPay, JobsBounded, DispatchDatabaseJobResult
  PROVE  LoginsPay' /\ JobsBounded'
<1>0. /\ TaskCount(dbTasks) \in Nat /\ logins \in Nat /\ MAX_DB_JOB \in Nat
      /\ PendingLoads \in Nat /\ PendingJobs \in Nat /\ SavesDue \in Nat
  BY CountsAreNat, SumsAreNat
<1>1. /\ UNCHANGED <<requests, dbJob, results, logins>>
      /\ clientPc = "handle" /\ clientPc' = "dispatch" /\ pushing = NoJob
  BY DEF DispatchDatabaseJobResult, At, dbVars
<1>2. HeldLoad(pushing) = 0 /\ Held(pushing) = 0
  BY <1>1, HeldIsBit
<1>3. SavesDue' = 0 /\ SavesDue = 0
  BY <1>1 DEF SavesDue
<1>4. PICK h \in 0 .. 1 : h = Held(pushing')
  BY HeldIsBit
<1>5. PendingJobs' = PendingJobs - 1 + h
  <2>1. Len(requests) \in Nat /\ Len(results) \in Nat
    BY CountsAreNat
  <2> QED  BY <1>1, <1>2, <1>4, <2>1, HeldIsBit DEF PendingJobs
<1>6. HeldLoad(pushing') = 0
  BY <1>1 DEF DispatchDatabaseJobResult, LoginDone, HeldLoad, LoadOf, NewJob
<1>7. PendingLoads' = PendingLoads - LoadOf(dbResult)
  BY <1>1, <1>2, <1>6, CountsAreNat, HeldIsBit DEF PendingLoads
<1>8. LoginsPay'
  <2>1. CASE UNCHANGED dbTasks
    BY <1>0, <1>1, <1>7, <2>1, HeldIsBit DEF LoginsPay
  <2>2. CASE dbTasks' # dbTasks
    <3>1. PICK s \in Session : dbTasks' = [dbTasks EXCEPT ![s] = @ + 1]
      BY <2>2, DispatchTasks
    <3>2. dbTasks \in [Session -> Nat] /\ IsFiniteSet(Tasks(dbTasks))
      BY DEF Inv, TypeOK, CountType, LoginsPay
    <3>3. IsFiniteSet(Tasks(dbTasks')) /\ TaskCount(dbTasks') = TaskCount(dbTasks) + 1
      BY <3>1, <3>2, TasksGrow
    <3>4. LoadOf(dbResult) = 1
      BY <2>2 DEF DispatchDatabaseJobResult, LoadOf, taskVars
    <3> QED  BY <1>0, <1>1, <1>7, <3>3, <3>4 DEF LoginsPay
  <2> QED  BY <2>1, <2>2
<1>9. JobsBounded'
  BY <1>0, <1>1, <1>3, <1>5 DEF JobsBounded
<1> QED  BY <1>8, <1>9

(* The step the bound rests on: where the result queue is found empty, no  *)
(* job is left but those of the request queue and of the database thread,  *)
(* and every save that may now come has a login.                           *)
LEMMA PopCapacity ==
  ASSUME Inv, LoginsPay, JobsBounded, PopDatabaseJobResult
  PROVE  LoginsPay' /\ JobsBounded'
<1>0. /\ TaskCount(dbTasks) \in Nat /\ logins \in Nat /\ MAX_DB_JOB \in Nat
      /\ PendingLoads \in Nat /\ PendingJobs \in Nat /\ SavesDue \in Nat
  BY CountsAreNat, SumsAreNat
<1>1. /\ UNCHANGED <<requests, dbJob, pushing, dbTasks, logins>>
      /\ clientPc = "dispatch" /\ pushing = NoJob
  BY DEF PopDatabaseJobResult, At, taskVars
<1>2. /\ HeldLoad(pushing) = 0 /\ Held(pushing) = 0
      /\ Held(dbJob) \in 0 .. 1 /\ HeldLoad(dbJob) \in 0 .. 1
  BY <1>1, HeldIsBit
<1>3. CASE results = <<>>
  <2>1. clientPc' = "apc" /\ results' = results
    BY <1>3 DEF PopDatabaseJobResult
  <2>2. PendingLoads' = PendingLoads
    BY <1>1, <2>1 DEF PendingLoads
  <2>3. LoginsPay'
    BY <1>1, <2>2 DEF LoginsPay
  <2>4. Len(requests) \in 0 .. MAX_DB_JOB /\ Len(results) = 0
    BY <1>3, CountsAreNat
  <2>5. PendingJobs' <= MAX_DB_JOB + 1 /\ PendingJobs' \in Nat
    BY <1>0, <1>1, <1>2, <2>1, <2>4 DEF PendingJobs
  <2>6. SavesDue' = TaskCount(dbTasks)
    BY <1>1, <2>1 DEF SavesDue
  <2>7. TaskCount(dbTasks) <= logins
    BY <1>0 DEF LoginsPay
  <2>8. JobsBounded'
    BY <1>0, <1>1, <2>5, <2>6, <2>7 DEF JobsBounded
  <2> QED  BY <2>3, <2>8
<1>4. CASE results # <<>>
  <2>1. clientPc' = "handle" /\ dbResult' = Head(results) /\ results' = Tail(results)
    BY <1>4 DEF PopDatabaseJobResult
  <2>2. results \in Seq(Job)
    BY DEF Inv, TypeOK, QueueType
  <2>3. results' \in Seq(Job) /\ Len(results) = Len(results') + 1 /\ Len(results') \in Nat
    BY <1>4, <2>1, <2>2
  <2>4. LoadsIn(results) = LoadsIn(results') + LoadOf(dbResult')
    BY <1>4, <2>1, <2>2, LoadsTail
  <2>5. LoadsIn(results') \in Nat /\ LoadOf(dbResult') \in 0 .. 1 /\ LoadsIn(requests) \in Nat
    BY <2>3, LoadsFinite, HeldIsBit, CountsAreNat
  <2>6. PendingLoads' = PendingLoads
    BY <1>1, <1>2, <2>1, <2>4, <2>5 DEF PendingLoads
  <2>7. Len(requests) \in Nat
    BY CountsAreNat
  <2>8. PendingJobs' = PendingJobs
    BY <1>1, <1>2, <2>1, <2>3, <2>7 DEF PendingJobs
  <2>9. SavesDue' = SavesDue
    BY <1>1, <2>1 DEF SavesDue
  <2> QED  BY <1>1, <2>6, <2>8, <2>9 DEF LoginsPay, JobsBounded
<1> QED  BY <1>3, <1>4

(* A job that moves from one place to the next is still one job, and a     *)
(* load stays one.                                                         *)
LEMMA MoveCapacity ==
  ASSUME Inv, LoginsPay, JobsBounded,
         PushDatabaseJobRequest \/ ConsumeDatabaseJob \/ ProduceDatabaseResult
  PROVE  LoginsPay' /\ JobsBounded'
<1>0. /\ PendingLoads \in Nat /\ PendingJobs \in Nat /\ SavesDue \in Nat
      /\ LoadsIn(requests) \in Nat /\ LoadsIn(results) \in Nat
      /\ TaskCount(dbTasks) \in Nat /\ logins \in Nat /\ MAX_DB_JOB \in Nat
  BY CountsAreNat, SumsAreNat
<1>1. /\ requests \in Seq(Job) /\ results \in Seq(Job)
      /\ pushing \in Job \cup {NoJob} /\ dbJob \in Job \cup {NoJob}
      /\ Len(requests) \in Nat /\ Len(results) \in Nat
  BY DEF Inv, TypeOK, QueueType
<1>2. UNCHANGED <<clientPc, dbResult, dueDb, dbTasks, logins>>
  BY DEF PushDatabaseJobRequest, ConsumeDatabaseJob, ProduceDatabaseResult, ctlVars, taskVars
<1>3. SavesDue' = SavesDue
  BY <1>2 DEF SavesDue
<1>4. PICK r \in 0 .. 1 : r = IF clientPc = "handle" THEN LoadOf(dbResult) ELSE 0
  BY HeldIsBit
<1>5. PICK e \in 0 .. 1 : e = IF clientPc = "handle" THEN 1 ELSE 0
  OBVIOUS
<1>6. /\ PendingLoads = LoadsIn(requests) + HeldLoad(dbJob) + LoadsIn(results)
                           + HeldLoad(pushing) + r
      /\ PendingLoads' = LoadsIn(requests') + HeldLoad(dbJob') + LoadsIn(results')
                            + HeldLoad(pushing') + r
  BY <1>2, <1>4 DEF PendingLoads
<1>7. /\ PendingJobs = Len(requests) + Held(dbJob) + Len(results) + Held(pushing) + e
      /\ PendingJobs' = Len(requests') + Held(dbJob') + Len(results') + Held(pushing') + e
  BY <1>2, <1>5 DEF PendingJobs
<1>8. ASSUME PendingLoads' <= PendingLoads, PendingJobs' <= PendingJobs,
             PendingLoads' \in Nat, PendingJobs' \in Nat
      PROVE  LoginsPay' /\ JobsBounded'
  <2>1. LoginsPay'
    BY <1>0, <1>2, <1>8 DEF LoginsPay
  <2>2. JobsBounded'
    <3>1. PendingJobs + SavesDue <= MAX_DB_JOB + 1 + logins
      BY DEF JobsBounded
    <3>2. PendingJobs' + SavesDue' <= MAX_DB_JOB + 1 + logins
      <4>1. MAX_DB_JOB + 1 + logins \in Nat /\ SavesDue' \in Nat /\ SavesDue' <= SavesDue
        BY <1>0, <1>3
      <4> QED  BY <1>0, <1>8, <3>1, <4>1, SumShrinks
    <3> QED  BY <1>2, <3>2 DEF JobsBounded
  <2> QED  BY <2>1, <2>2
<1>9. CASE PushDatabaseJobRequest
  <2>1. /\ pushing # NoJob /\ requests' = Append(requests, pushing) /\ pushing' = NoJob
        /\ UNCHANGED <<dbJob, results>>
    BY <1>9 DEF PushDatabaseJobRequest
  <2>2. Len(requests') = Len(requests) + 1
    BY <1>1, <2>1
  <2>3. LoadsIn(requests') = LoadsIn(requests) + LoadOf(pushing)
    BY <1>1, <2>1, LoadsAppend
  <2>4. /\ Held(pushing) = 1 /\ Held(pushing') = 0 /\ HeldLoad(pushing') = 0
        /\ HeldLoad(pushing) = LoadOf(pushing) /\ LoadOf(pushing) \in 0 .. 1
        /\ Held(dbJob) \in 0 .. 1 /\ HeldLoad(dbJob) \in 0 .. 1
    BY <2>1, HeldIsBit
  <2>5. PendingLoads' = PendingLoads
    <3>1. PICK a \in Nat, b \in 0 .. 1, c \in Nat, d \in 0 .. 1 :
            /\ a = LoadsIn(requests) /\ b = HeldLoad(dbJob)
            /\ c = LoadsIn(results) /\ d = LoadOf(pushing)
      BY <1>0, <2>4
    <3>2. PendingLoads = a + b + c + d + r
      BY <1>6, <2>4, <3>1
    <3>3. PendingLoads' = (a + d) + b + c + 0 + r
      BY <1>6, <2>1, <2>3, <2>4, <3>1
    <3> QED  BY <3>2, <3>3
  <2>6. PendingJobs' = PendingJobs
    BY <1>1, <1>7, <2>1, <2>2, <2>4
  <2> QED  BY <1>0, <1>8, <2>5, <2>6
<1>10. CASE ConsumeDatabaseJob
  <2>1. /\ dbJob = NoJob /\ requests # <<>>
        /\ dbJob' = Head(requests) /\ requests' = Tail(requests)
        /\ UNCHANGED <<pushing, results>>
    BY <1>10 DEF ConsumeDatabaseJob, ctlVars
  <2>2. /\ requests' \in Seq(Job) /\ Len(requests') \in Nat
        /\ Len(requests) = Len(requests') + 1
    BY <1>1, <2>1
  <2>3. LoadsIn(requests) = LoadsIn(requests') + LoadOf(dbJob')
    BY <1>1, <2>1, LoadsTail
  <2>4. LoadsIn(requests') \in Nat
    BY <2>2, LoadsFinite
  <2>5. /\ Held(dbJob) = 0 /\ HeldLoad(dbJob) = 0 /\ Held(dbJob') \in 0 .. 1
        /\ HeldLoad(dbJob') \in 0 .. 1 /\ LoadOf(dbJob') \in 0 .. 1
        /\ HeldLoad(dbJob') <= LoadOf(dbJob')
        /\ Held(pushing) \in 0 .. 1 /\ HeldLoad(pushing) \in 0 .. 1
    BY <2>1, HeldIsBit
  <2>6. PendingLoads' <= PendingLoads /\ PendingLoads' \in Nat
    <3>1. PICK a \in Nat, b \in 0 .. 1, c \in Nat, d \in 0 .. 1, l \in 0 .. 1 :
            /\ a = LoadsIn(requests') /\ b = HeldLoad(dbJob')
            /\ c = LoadsIn(results) /\ d = HeldLoad(pushing) /\ l = LoadOf(dbJob')
      BY <1>0, <2>4, <2>5
    <3>2. PendingLoads = (a + l) + 0 + c + d + r
      BY <1>6, <2>3, <2>5, <3>1
    <3>3. PendingLoads' = a + b + c + d + r
      BY <1>6, <2>1, <3>1
    <3>4. b <= l
      BY <2>5, <3>1
    <3> QED  BY <3>2, <3>3, <3>4
  <2>7. PendingJobs' <= PendingJobs /\ PendingJobs' \in Nat
    BY <1>1, <1>7, <2>1, <2>2, <2>5
  <2> QED  BY <1>8, <2>6, <2>7
<1>11. CASE ProduceDatabaseResult
  <2>1. PICK ok \in BOOLEAN : results' = Append(results, [dbJob EXCEPT !.ok = ok])
    BY <1>11 DEF ProduceDatabaseResult
  <2>2. dbJob # NoJob /\ dbJob' = NoJob /\ UNCHANGED <<pushing, requests>>
    BY <1>11 DEF ProduceDatabaseResult, ctlVars
  <2>3. PICK job : job = [dbJob EXCEPT !.ok = ok]
    OBVIOUS
  <2>4. job \in Job /\ LoadOf(job) = LoadOf(dbJob)
    BY <1>1, <2>2, <2>3 DEF Job, LoadOf
  <2>5. results' = Append(results, job)
    BY <2>1, <2>3
  <2>6. Len(results') = Len(results) + 1
    <3>1. results \in Seq(Job) /\ job \in Job
      BY <1>1, <2>4
    <3> QED  BY <2>5, <3>1
  <2>7. LoadsIn(results') = LoadsIn(results) + LoadOf(dbJob)
    <3>1. results \in Seq(Job) /\ job \in Job
      BY <1>1, <2>4
    <3>2. LoadsIn(results') = LoadsIn(results) + LoadOf(job)
      BY <2>5, <3>1, LoadsAppend
    <3> QED  BY <2>4, <3>2
  <2>8. /\ Held(dbJob) = 1 /\ Held(dbJob') = 0 /\ HeldLoad(dbJob') = 0
        /\ HeldLoad(dbJob) = LoadOf(dbJob) /\ LoadOf(dbJob) \in 0 .. 1
        /\ Held(pushing) \in 0 .. 1 /\ HeldLoad(pushing) \in 0 .. 1
    BY <2>2, HeldIsBit
  <2>9. PendingLoads' = PendingLoads
    BY <1>0, <1>6, <2>2, <2>7, <2>8
  <2>10. PendingJobs' = PendingJobs
    BY <1>1, <1>7, <2>2, <2>6, <2>8
  <2> QED  BY <1>0, <1>8, <2>9, <2>10
<1> QED  BY <1>9, <1>10, <1>11

(* Every step keeps the two bounds.                                        *)
LEMMA CapacityStep ==
  ASSUME Inv, LoginsPay, JobsBounded, [Next]_vars
  PROVE  LoginsPay' /\ JobsBounded'
<1>1. CASE /\ UNCHANGED <<requests, dbJob, results, pushing, dbTasks, logins>>
           /\ \/ UNCHANGED <<clientPc, dueDb, dbResult>>
              \/ clientPc \in BetweenRounds /\ clientPc' \in BetweenRounds
              \/ clientPc = "gc" /\ clientPc' = "dispatch"
  <2>1. PendingLoads' = PendingLoads
    BY <1>1 DEF PendingLoads, BetweenRounds
  <2>2. PendingJobs' = PendingJobs
    BY <1>1 DEF PendingJobs, BetweenRounds
  <2>3. SavesDue' = SavesDue
    BY <1>1 DEF SavesDue, BetweenRounds
  <2> QED  BY <1>1, <2>1, <2>2, <2>3 DEF LoginsPay, JobsBounded
<1> QED  BY <1>1, CapacitySteps, HandleLoginCapacity, OnDbUpdateCapacity, RoundCapacity,
            DispatchCapacity, PopCapacity, MoveCapacity

(* Until more logins have been handled than a job queue has slots, the     *)
(* client thread in Produce and the database thread in Produce never wait  *)
(* for each other.  MAX_DB_JOB + 1 logins are enough for it (MCBlocked).   *)
THEOREM FewLoginsNeverBlock == Spec => [](logins <= MAX_DB_JOB => NeverMutuallyBlocked)
<1> DEFINE CInv == LoginsPay /\ JobsBounded
<1>1. Init => CInv
  <2> SUFFICES ASSUME Init PROVE CInv
    OBVIOUS
  <2>1. Tasks(dbTasks) = {}
    BY DEF Init, Tasks
  <2>2. IsFiniteSet(Tasks(dbTasks)) /\ TaskCount(dbTasks) = 0
    BY <2>1, FS_EmptySet DEF TaskCount
  <2>3. /\ requests = <<>> /\ results = <<>> /\ dbJob = NoJob /\ pushing = NoJob
        /\ clientPc = "accept" /\ logins = 0 /\ MAX_DB_JOB \in Nat
    BY ConstantsAssumption DEF Init
  <2>4. LoadsOf(requests) = {} /\ LoadsOf(results) = {}
    BY <2>3 DEF LoadsOf
  <2>5. LoadsIn(requests) = 0 /\ LoadsIn(results) = 0
    BY <2>4, FS_EmptySet DEF LoadsIn
  <2>6. PendingLoads = 0 /\ PendingJobs = 0 /\ SavesDue = 0
    BY <2>2, <2>3, <2>5 DEF PendingLoads, PendingJobs, SavesDue, Held, HeldLoad
  <2> QED  BY <2>2, <2>3, <2>6 DEF LoginsPay, JobsBounded
<1>2. Inv /\ CInv /\ [Next]_vars => CInv'
  BY CapacityStep
<1>3. Inv /\ CInv => (logins <= MAX_DB_JOB => NeverMutuallyBlocked)
  <2> SUFFICES ASSUME Inv, CInv, logins <= MAX_DB_JOB,
                      pushing # NoJob, Len(requests) = MAX_DB_JOB,
                      dbJob # NoJob, Len(results) = MAX_DB_JOB
               PROVE  FALSE
    BY DEF NeverMutuallyBlocked
  <2>1. PendingJobs \in Nat /\ SavesDue \in Nat /\ logins \in Nat /\ MAX_DB_JOB \in Nat
    BY CountsAreNat, SumsAreNat
  <2>2. PendingJobs >= MAX_DB_JOB + 1 + MAX_DB_JOB + 1
    BY <2>1 DEF PendingJobs, Held
  <2>3. PendingJobs + SavesDue <= MAX_DB_JOB + 1 + logins
    BY DEF JobsBounded
  <2> QED  BY <2>1, <2>2, <2>3
<1> QED  BY <1>1, <1>2, <1>3, Invariance, PTL DEF Spec

(* The threads never wait for each other where at most MAX_DB_JOB logins   *)
(* are handled in all (NeverMutuallyBlocked, as in the run MCLiveness).    *)
THEOREM CapacitySuffices ==
  MaxLogins <= MAX_DB_JOB => (Spec => []NeverMutuallyBlocked)
<1> SUFFICES ASSUME MaxLogins <= MAX_DB_JOB PROVE Spec => []NeverMutuallyBlocked
  OBVIOUS
<1>1. Inv => logins <= MAX_DB_JOB
  BY ConstantsAssumption DEF Inv, TypeOK, QueueType
<1> QED  BY <1>1, Invariance, FewLoginsNeverBlock, PTL
=============================================================================
