-------------------------- MODULE EasyServerProofs --------------------------
(* Proofs about EasyServer for every value of its constants.               *)
EXTENDS EasyServer, TLAPS

(* What the pointers and keys of the program say of each other: a live     *)
(* session has a handle, mClientList holds live sessions under their own   *)
(* handle, only live sessions are connected, and the updates DoTasks may   *)
(* still run are in the scheduler's queue.                                 *)
PointersOK ==
  /\ \A s \in Session : life[s] = "live" => mSocket[s] \in Socket
  /\ \A k \in Socket : mClientList[k] # NoSession =>
       life[mClientList[k]] = "live" /\ mSocket[mClientList[k]] = k
  /\ \A s \in Session : mConnected[s] => life[s] = "live"
  /\ \A s \in Session : dueDb[s] <= dbTasks[s]

(* What the client thread holds where it is.                               *)
ControlOK ==
  /\ clientPc \in {"read", "default", "short"} => current \in Session
  /\ clientPc \notin {"read", "default", "short"} => current = NoSession
  /\ clientPc = "handle" => dbResult \in Job

(* What can still reach a session object is gone before the object is.     *)
HeldOnlyWhileLive ==
  \A s \in Session : life[s] # "live" =>
    /\ recvPosted[s] = 0 /\ sendPosted[s] = 0
    /\ tickTasks[s] = 0 /\ dbTasks[s] = 0 /\ s # current

Inv ==
  TypeOK /\ RefCountExact /\ HeldOnlyWhileLive /\ PointersOK /\ ControlOK
-----------------------------------------------------------------------------
(* The initial state satisfies the invariant.                              *)
LEMMA InitInv == Init => Inv
  BY ConstantsAssumption
  DEF Init, Inv, TypeOK, ControlType, ClientPc, SessionType, CountType, QueueType,
      RefCountExact, HeldOnlyWhileLive, PointersOK, ControlOK

(* Disconnect disconnects sessions and closes handles, and does neither    *)
(* the other way round.                                                    *)
LEMMA DisconnectType ==
  ASSUME mConnected \in [Session -> BOOLEAN], openSockets \subseteq Socket,
         NEW S \in SUBSET Session, Disconnect(S)
  PROVE  /\ mConnected' \in [Session -> BOOLEAN]
         /\ openSockets' \subseteq Socket
         /\ \A s \in Session : mConnected'[s] => mConnected[s]
  BY DEF Disconnect

(* Steps that only move the client thread or a queue.                      *)
LEMMA AcceptInv ==
  ASSUME Inv, NEW k \in Socket, Accept(k)
  PROVE  Inv'
<1> USE DEF Inv, TypeOK, Accept, idVars, ioVars, taskVars, gameVars, dbVars, ctlVars
<1>1. ControlType' /\ CountType' /\ RefCountExact' /\ HeldOnlyWhileLive' /\ ControlOK'
  BY DEF ControlType, CountType, RefCountExact, HeldOnlyWhileLive, ControlOK
<1>2. SessionType' /\ PointersOK'
  BY DEF SessionType, PointersOK
<1>3. QueueType'
  BY ConstantsAssumption DEF QueueType
<1> QED  BY <1>1, <1>2, <1>3

(* A new session starts with nothing pointing at it, so its first receive  *)
(* is its only reference.                                                  *)
LEMMA CreateClientInv ==
  ASSUME Inv, NEW s \in Session, CreateClient(s)
  PROVE  Inv'
<1> USE DEF Inv, TypeOK
<1>k. /\ Head(acceptList) \in Socket /\ Tail(acceptList) \in Seq(Socket)
      /\ Len(Tail(acceptList)) <= Len(acceptList)
  BY DEF CreateClient, QueueType
<1>0. /\ recvPosted[s] = 0 /\ sendPosted[s] = 0 /\ tickTasks[s] = 0
      /\ dbTasks[s] = 0 /\ dueDb[s] = 0 /\ mRefCount[s] = 0
  BY DEF CreateClient, HeldOnlyWhileLive, RefCountExact, PointersOK, CountType
<1>1. ControlType' /\ ControlOK'
  BY DEF CreateClient, ControlType, ControlOK, ctlVars
<1>2. PICK posted, closed \in BOOLEAN :
        /\ mConnected' = [mConnected EXCEPT ![s] = ~closed]
        /\ openSockets' = IF closed THEN openSockets \ {Head(acceptList)} ELSE openSockets
        /\ recvPosted' = IF posted THEN [recvPosted EXCEPT ![s] = 1] ELSE recvPosted
        /\ mRefCount' = IF posted THEN [mRefCount EXCEPT ![s] = 1] ELSE mRefCount
  BY Zenon DEF CreateClient, OnConnect
<1>3. mClientList' \in [Socket -> Session \cup {NoSession}]
  BY <1>k DEF CreateClient, InsertClient, SessionType
<1>4. SessionType'
  BY <1>k, <1>2, <1>3 DEF CreateClient, SessionType, gameVars
<1>5. CountType'
  BY <1>0, <1>2 DEF CreateClient, CountType, taskVars, ctlVars
<1>6. QueueType'
  BY <1>k, ConstantsAssumption DEF CreateClient, QueueType, dbVars, ctlVars
<1>7. RefCountExact'
  <2> SUFFICES ASSUME NEW c \in Session
               PROVE  mRefCount'[c] = recvPosted'[c] + sendPosted'[c] + tickTasks'[c] + dbTasks'[c]
    BY DEF RefCountExact
  <2>1. CASE c = s
    BY <2>1, <1>0, <1>2 DEF CreateClient, CountType, taskVars
  <2>2. CASE c # s
    BY <2>2, <1>2 DEF CreateClient, CountType, taskVars, RefCountExact
  <2> QED  BY <2>1, <2>2
<1>8. HeldOnlyWhileLive'
  BY <1>2 DEF CreateClient, HeldOnlyWhileLive, CountType, SessionType, taskVars, ctlVars
<1>9. PointersOK'
  <2>1. \A k \in Socket : mClientList'[k] # NoSession =>
          life'[mClientList'[k]] = "live" /\ mSocket'[mClientList'[k]] = k
    BY <1>k DEF CreateClient, InsertClient, PointersOK, SessionType
  <2>2. \A c \in Session : /\ life'[c] = "live" => mSocket'[c] \in Socket
                           /\ mConnected'[c] => life'[c] = "live"
                           /\ dueDb'[c] <= dbTasks'[c]
    BY <1>k, <1>2 DEF CreateClient, PointersOK, SessionType, taskVars, ctlVars
  <2> QED  BY <2>1, <2>2 DEF PointersOK
<1> QED  BY <1>1, <1>4, <1>5, <1>6, <1>7, <1>8, <1>9

(* A flush adds one reference for every send it posts.                     *)
LEMMA FlushClientSendInv ==
  ASSUME Inv, FlushClientSend
  PROVE  Inv'
<1> USE DEF Inv, TypeOK
<1>1. PICK failed \in SUBSET Flushable :
        /\ Disconnect(failed)
        /\ sendPosted' = [s \in Session |-> IF s \in Flushable \ failed
                                            THEN sendPosted[s] + 1 ELSE sendPosted[s]]
        /\ mRefCount' = [s \in Session |-> IF s \in Flushable \ failed
                                           THEN mRefCount[s] + 1 ELSE mRefCount[s]]
  BY DEF FlushClientSend
<1>2. /\ Flushable \subseteq Session
      /\ \A s \in Flushable : life[s] = "live" /\ sendPosted[s] < MaxSends
  BY DEF Flushable, Listed, SessionType, PointersOK
<1>3. /\ mConnected' \in [Session -> BOOLEAN] /\ openSockets' \subseteq Socket
      /\ \A s \in Session : mConnected'[s] => mConnected[s]
  BY <1>1, <1>2, DisconnectType DEF SessionType
<1>4. ControlType' /\ ControlOK'
  BY DEF FlushClientSend, At, ControlType, ClientPc, ControlOK
<1>5. SessionType' /\ PointersOK'
  BY <1>3 DEF FlushClientSend, SessionType, PointersOK, idVars, gameVars, taskVars
<1>6. CountType'
  BY <1>1, <1>2, ConstantsAssumption DEF FlushClientSend, CountType, taskVars
<1>7. QueueType'
  BY DEF FlushClientSend, QueueType, dbVars
<1>8. RefCountExact'
  BY <1>1, <1>2 DEF FlushClientSend, RefCountExact, CountType, taskVars
<1>9. HeldOnlyWhileLive'
  BY <1>1, <1>2 DEF FlushClientSend, HeldOnlyWhileLive, idVars, taskVars, CountType
<1> QED  BY <1>4, <1>5, <1>6, <1>7, <1>8, <1>9

(* The return of SleepEx changes nothing but the place in the loop.        *)
LEMMA WakeInv ==
  ASSUME Inv, Wake
  PROVE  Inv'
<1> USE DEF Inv, TypeOK, Wake, At, osVars, idVars, ioVars, taskVars, gameVars, dbVars
<1>1. ControlType' /\ SessionType' /\ CountType' /\ QueueType'
  BY DEF ControlType, ClientPc, SessionType, CountType, QueueType
<1>2. RefCountExact' /\ HeldOnlyWhileLive' /\ PointersOK' /\ ControlOK'
  BY DEF RefCountExact, HeldOnlyWhileLive, PointersOK, ControlOK
<1> QED  BY <1>1, <1>2

(* A completion gives back the reference of its I/O, and OnRead is entered *)
(* only for a session that a receive still held.                           *)
LEMMA RecvCompletionInv ==
  ASSUME Inv, NEW s \in Session, RecvCompletion(s)
  PROVE  Inv'
<1> USE DEF Inv, TypeOK
<1>0. /\ life[s] = "live" /\ current = NoSession /\ recvPosted[s] \in Nat \ {0}
      /\ mRefCount[s] \in Nat \ {0}
  BY DEF RecvCompletion, Alertable, HeldOnlyWhileLive, ControlOK, CountType, RefCountExact
<1>1. /\ mConnected' \in [Session -> BOOLEAN] /\ openSockets' \subseteq Socket
      /\ \A c \in Session : mConnected'[c] => mConnected[c]
  BY DisconnectType DEF RecvCompletion, SessionType, osVars
<1>2. ControlType' /\ ControlOK'
  BY <1>0 DEF RecvCompletion, ControlType, ClientPc, ControlOK
<1>3. SessionType' /\ PointersOK'
  BY <1>1 DEF RecvCompletion, SessionType, PointersOK, idVars, gameVars, taskVars
<1>4. CountType'
  BY <1>0 DEF RecvCompletion, CountType, taskVars
<1>5. QueueType'
  BY DEF RecvCompletion, QueueType, dbVars
<1>6. RefCountExact'
  BY <1>0 DEF RecvCompletion, RefCountExact, CountType, taskVars
<1>7. HeldOnlyWhileLive'
  BY <1>0, ConstantsAssumption DEF RecvCompletion, HeldOnlyWhileLive, CountType, idVars, taskVars
<1> QED  BY <1>2, <1>3, <1>4, <1>5, <1>6, <1>7

(* A send completion gives back its reference.                             *)
LEMMA SendCompletionInv ==
  ASSUME Inv, NEW s \in Session, SendCompletion(s)
  PROVE  Inv'
<1> USE DEF Inv, TypeOK
<1>0. /\ current = NoSession /\ sendPosted[s] \in Nat \ {0} /\ mRefCount[s] \in Nat \ {0}
  BY DEF SendCompletion, Alertable, ControlOK, CountType, RefCountExact
<1>1. /\ mConnected' \in [Session -> BOOLEAN] /\ openSockets' \subseteq Socket
      /\ \A c \in Session : mConnected'[c] => mConnected[c]
  BY DisconnectType DEF SendCompletion, SessionType, osVars
<1>2. mSendBuffer' \in [Session -> 0 .. SendCap]
  BY ConstantsAssumption DEF SendCompletion, SessionType
<1>3. ControlType' /\ ControlOK'
  BY <1>0 DEF SendCompletion, ControlType, ClientPc, ControlOK
<1>4. SessionType' /\ PointersOK'
  BY <1>1, <1>2 DEF SendCompletion, SessionType, PointersOK, idVars, taskVars
<1>5. CountType'
  BY <1>0, ConstantsAssumption DEF SendCompletion, CountType, taskVars
<1>6. QueueType'
  BY DEF SendCompletion, QueueType, dbVars
<1>7. RefCountExact'
  BY <1>0 DEF SendCompletion, RefCountExact, CountType, taskVars
<1>8. HeldOnlyWhileLive'
  BY <1>0 DEF SendCompletion, HeldOnlyWhileLive, CountType, idVars, taskVars
<1> QED  BY <1>3, <1>4, <1>5, <1>6, <1>7, <1>8
-----------------------------------------------------------------------------
(* A job carries the handle of a live session, so it is a job.             *)
LEMMA NewJobType ==
  ASSUME Inv, NEW s \in Session, life[s] = "live",
         NEW type \in {"load", "update"}, NEW pid \in Player \cup {NoPlayer}
  PROVE  NewJob(type, s, pid) \in Job
  BY DEF Inv, PointersOK, NewJob, Job

(* The login handler puts a well-typed job in hand.                        *)
LEMMA HandleLoginInv ==
  ASSUME Inv, NEW pid \in Player, HandleLogin(pid)
  PROVE  Inv'
<1> USE DEF Inv, TypeOK, HandleLogin, osVars, idVars, ioVars, taskVars, gameVars, dbVars
<1>1. NewJob("load", current, pid) \in Job
  BY NewJobType DEF At, ControlOK, HeldOnlyWhileLive
<1>2. ControlType' /\ SessionType' /\ CountType' /\ ControlOK'
  BY DEF ControlType, SessionType, CountType, ControlOK
<1>3. QueueType'
  BY <1>1, ConstantsAssumption DEF QueueType
<1>4. RefCountExact' /\ HeldOnlyWhileLive' /\ PointersOK'
  BY DEF RefCountExact, HeldOnlyWhileLive, PointersOK
<1> QED  BY <1>2, <1>3, <1>4

(* What Broadcast does to the state of the sessions: no buffer overflows,  *)
(* because a full one refuses.                                             *)
LEMMA BroadcastType ==
  ASSUME Inv, NEW s \in Session, Broadcast(s)
  PROVE  /\ mSendBuffer' \in [Session -> 0 .. SendCap]
         /\ mConnected' \in [Session -> BOOLEAN] /\ openSockets' \subseteq Socket
         /\ \A c \in Session : mConnected'[c] => mConnected[c]
<1> USE DEF Inv, TypeOK, SessionType
<1>1. CASE ~mConnected[s]
  BY <1>1 DEF Broadcast, osVars
<1>2. CASE mConnected[s] /\ Disconnect({s}) /\ UNCHANGED mSendBuffer
  BY <1>2, DisconnectType
<1>3. CASE /\ {} \in Refusing({s})
           /\ \E refused \in Refusing(Recipients(s)) :
                /\ mSendBuffer' = [c \in Session |->
                     IF c \in {s} \cup (Recipients(s) \ refused)
                     THEN mSendBuffer[c] + 1 ELSE mSendBuffer[c]]
                /\ Disconnect(refused)
  <2>1. PICK refused \in Refusing(Recipients(s)) :
          /\ mSendBuffer' = [c \in Session |->
               IF c \in {s} \cup (Recipients(s) \ refused)
               THEN mSendBuffer[c] + 1 ELSE mSendBuffer[c]]
          /\ Disconnect(refused)
    BY <1>3
  <2>2. Recipients(s) \subseteq Session
    BY DEF Recipients, Listed
  <2>3. mSendBuffer[s] # SendCap
    BY <1>3 DEF Refusing
  <2>4. /\ refused \in SUBSET Session
        /\ \A c \in Recipients(s) \ refused : mSendBuffer[c] # SendCap
    BY <2>1, <2>2 DEF Refusing
  <2>5. mSendBuffer' \in [Session -> 0 .. SendCap]
    BY <2>1, <2>2, <2>3, <2>4, ConstantsAssumption
  <2> QED  BY <2>1, <2>4, <2>5, DisconnectType
<1> QED  BY <1>1, <1>2, <1>3 DEF Broadcast

(* A chat or move packet touches send buffers and connections only.        *)
LEMMA HandleBroadcastInv ==
  ASSUME Inv, NEW pid \in Player \cup {NoPlayer}, HandleBroadcast(pid)
  PROVE  Inv'
<1> USE DEF Inv, TypeOK, HandleBroadcast, idVars, ioVars, taskVars, dbVars, ctlVars
<1>1. current \in Session
  BY DEF At, ControlOK
<1>2. ControlType' /\ CountType' /\ QueueType' /\ ControlOK'
  BY DEF ControlType, CountType, QueueType, ControlOK
<1>3. SessionType' /\ PointersOK'
  BY <1>1, BroadcastType DEF SessionType, PointersOK
<1>4. RefCountExact' /\ HeldOnlyWhileLive'
  BY DEF RefCountExact, HeldOnlyWhileLive
<1> QED  BY <1>2, <1>3, <1>4

(* DefaultHandler stays in OnRead with the same session.                   *)
LEMMA DefaultHandlerInv ==
  ASSUME Inv, DefaultHandler
  PROVE  Inv'
<1> USE DEF Inv, TypeOK, DefaultHandler, idVars, ioVars, taskVars, gameVars, dbVars
<1>1. current \in Session
  BY DEF At, ControlOK
<1>2. /\ mConnected' \in [Session -> BOOLEAN] /\ openSockets' \subseteq Socket
      /\ \A c \in Session : mConnected'[c] => mConnected[c]
  BY <1>1, DisconnectType DEF SessionType
<1>3. ControlType' /\ CountType' /\ QueueType' /\ ControlOK'
  BY <1>1 DEF ControlType, ClientPc, CountType, QueueType, ControlOK
<1>4. SessionType' /\ PointersOK'
  BY <1>2 DEF SessionType, PointersOK
<1>5. RefCountExact' /\ HeldOnlyWhileLive'
  BY DEF RefCountExact, HeldOnlyWhileLive
<1> QED  BY <1>3, <1>4, <1>5

(* A packet that cannot be parsed leaves OnRead where it is.               *)
LEMMA ParseFailureInv ==
  ASSUME Inv, ParseFailure
  PROVE  Inv'
<1> USE DEF Inv, TypeOK, ParseFailure, osVars, idVars, ioVars, taskVars, gameVars, dbVars
<1>1. current \in Session
  BY DEF At, ControlOK
<1>2. ControlType' /\ CountType' /\ QueueType' /\ ControlOK'
  BY <1>1 DEF ControlType, ClientPc, CountType, QueueType, ControlOK
<1>3. SessionType' /\ PointersOK'
  BY DEF SessionType, PointersOK
<1>4. RefCountExact' /\ HeldOnlyWhileLive'
  BY DEF RefCountExact, HeldOnlyWhileLive
<1> QED  BY <1>2, <1>3, <1>4

(* The receive posted after OnRead takes one reference.                    *)
LEMMA OnReadDoneInv ==
  ASSUME Inv, OnReadDone
  PROVE  Inv'
<1> USE DEF Inv, TypeOK
<1>0. current \in Session /\ life[current] = "live"
  BY DEF OnReadDone, At, ControlOK, HeldOnlyWhileLive
<1>1. /\ mConnected' \in [Session -> BOOLEAN] /\ openSockets' \subseteq Socket
      /\ \A c \in Session : mConnected'[c] => mConnected[c]
  BY <1>0, DisconnectType DEF OnReadDone, PostRecv, SessionType, osVars
<1>2. \/ UNCHANGED <<recvPosted, mRefCount>>
      \/ /\ recvPosted' = [recvPosted EXCEPT ![current] = @ + 1]
         /\ mRefCount' = [mRefCount EXCEPT ![current] = @ + 1]
  BY DEF OnReadDone, PostRecv
<1>3. ControlType' /\ ControlOK'
  BY DEF OnReadDone, ControlType, ClientPc, ControlOK
<1>4. SessionType' /\ PointersOK'
  BY <1>1 DEF OnReadDone, SessionType, PointersOK, idVars, gameVars, taskVars
<1>5. CountType'
  BY <1>0, <1>2 DEF OnReadDone, CountType, taskVars
<1>6. QueueType'
  BY DEF OnReadDone, QueueType, dbVars
<1>7. RefCountExact'
  BY <1>0, <1>2 DEF OnReadDone, RefCountExact, CountType, taskVars
<1>8. HeldOnlyWhileLive'
  BY <1>0, <1>2, ConstantsAssumption DEF OnReadDone, HeldOnlyWhileLive, CountType, idVars, taskVars
<1> QED  BY <1>3, <1>4, <1>5, <1>6, <1>7, <1>8
-----------------------------------------------------------------------------
(* The saves DoTasks may run are those in its queue.                       *)
LEMMA TimerProcInv ==
  ASSUME Inv, TimerProc
  PROVE  Inv'
<1> USE DEF Inv, TypeOK, TimerProc, Alertable, osVars, idVars, ioVars, taskVars, gameVars, dbVars
<1>1. ControlType' /\ SessionType' /\ CountType' /\ QueueType' /\ ControlOK'
  BY DEF ControlType, ClientPc, SessionType, CountType, QueueType, ControlOK
<1>2. RefCountExact' /\ HeldOnlyWhileLive' /\ PointersOK'
  BY DEF RefCountExact, HeldOnlyWhileLive, PointersOK, CountType
<1> QED  BY <1>1, <1>2

(* A task that runs gives back its reference and takes a new one when it   *)
(* reschedules itself.                                                     *)
LEMMA OnTickInv ==
  ASSUME Inv, NEW s \in Session, OnTick(s)
  PROVE  Inv'
<1> USE DEF Inv, TypeOK
<1>0. /\ tickTasks[s] \in Nat \ {0} /\ mRefCount[s] \in Nat \ {0} /\ life[s] = "live"
      /\ Rescheduled(s) \in {0, 1}
  BY DEF OnTick, CountType, RefCountExact, HeldOnlyWhileLive, Rescheduled
<1>1. ControlType' /\ SessionType' /\ QueueType' /\ ControlOK'
  BY DEF OnTick, ControlType, SessionType, QueueType, ControlOK,
         osVars, idVars, gameVars, dbVars, ctlVars
<1>2. CountType'
  BY <1>0 DEF OnTick, CountType, ioVars, ctlVars
<1>3. RefCountExact'
  BY <1>0 DEF OnTick, RefCountExact, CountType, ioVars
<1>4. HeldOnlyWhileLive' /\ PointersOK'
  BY <1>0 DEF OnTick, HeldOnlyWhileLive, PointersOK, CountType, osVars, idVars, ioVars, ctlVars
<1> QED  BY <1>1, <1>2, <1>3, <1>4

(* A save gives back its reference and takes one for the next save.        *)
LEMMA OnDbUpdateInv ==
  ASSUME Inv, NEW s \in Session, OnDbUpdate(s)
  PROVE  Inv'
<1> USE DEF Inv, TypeOK
<1>0. /\ dueDb[s] \in Nat \ {0} /\ dbTasks[s] \in Nat \ {0} /\ mRefCount[s] \in Nat \ {0}
      /\ life[s] = "live" /\ Rescheduled(s) \in {0, 1}
  BY DEF OnDbUpdate, CountType, RefCountExact, HeldOnlyWhileLive, PointersOK, Rescheduled
<1>1. NewJob("update", s, mPlayerId[s]) \in Job
  BY <1>0, NewJobType DEF SessionType
<1>2. ControlType' /\ SessionType' /\ ControlOK'
  BY DEF OnDbUpdate, ControlType, SessionType, ControlOK, osVars, idVars, gameVars
<1>3. QueueType'
  BY <1>1 DEF OnDbUpdate, QueueType, dbVars
<1>4. CountType'
  BY <1>0 DEF OnDbUpdate, CountType, ioVars
<1>5. RefCountExact'
  BY <1>0 DEF OnDbUpdate, RefCountExact, CountType, ioVars
<1>6. HeldOnlyWhileLive'
  BY <1>0 DEF OnDbUpdate, HeldOnlyWhileLive, CountType, idVars, ioVars
<1>7. PointersOK'
  <2>1. \A c \in Session : dueDb'[c] <= dbTasks'[c]
    BY <1>0 DEF OnDbUpdate, PointersOK, CountType
  <2> QED  BY <2>1 DEF OnDbUpdate, PointersOK, osVars, idVars
<1> QED  BY <1>2, <1>3, <1>4, <1>5, <1>6, <1>7

(* DoTasks ends with no save left to run.                                  *)
LEMMA DoTasksDoneInv ==
  ASSUME Inv, DoTasksDone
  PROVE  Inv'
<1> USE DEF Inv, TypeOK, DoTasksDone, At, osVars, idVars, ioVars, taskVars, gameVars, dbVars
<1>1. ControlType' /\ SessionType' /\ CountType' /\ QueueType' /\ ControlOK'
  BY DEF ControlType, ClientPc, SessionType, CountType, QueueType, ControlOK
<1>2. RefCountExact' /\ HeldOnlyWhileLive' /\ PointersOK'
  BY DEF RefCountExact, HeldOnlyWhileLive, PointersOK, CountType
<1> QED  BY <1>1, <1>2

(* A session is deleted only with a reference count of zero, so nothing    *)
(* holds it; its entry is erased because it is listed under its handle.    *)
LEMMA CollectGarbageSessionsInv ==
  ASSUME Inv, CollectGarbageSessions
  PROVE  Inv'
<1> USE DEF Inv, TypeOK
<1>0. \A s \in Garbage :
        /\ s \in Session /\ ~mConnected[s]
        /\ recvPosted[s] = 0 /\ sendPosted[s] = 0 /\ tickTasks[s] = 0 /\ dbTasks[s] = 0
  BY DEF Garbage, Listed, SessionType, CountType, RefCountExact
<1>1. ControlType' /\ ControlOK' /\ CountType' /\ QueueType' /\ RefCountExact'
  BY DEF CollectGarbageSessions, At, ControlType, ClientPc, ControlOK, CountType, QueueType,
         RefCountExact, ioVars, taskVars, dbVars
<1>2. SessionType'
  BY DEF CollectGarbageSessions, SessionType, osVars, gameVars
<1>3. HeldOnlyWhileLive'
  BY <1>0, ConstantsAssumption
  DEF CollectGarbageSessions, At, HeldOnlyWhileLive, SessionType, ControlOK, ioVars, taskVars
<1>4. PointersOK'
  <2>1. ASSUME NEW k \in Socket, mClientList'[k] # NoSession
        PROVE  life'[mClientList'[k]] = "live" /\ mSocket'[mClientList'[k]] = k
    <3>1. /\ mClientList'[k] = mClientList[k] /\ k \notin {mSocket[s] : s \in Garbage}
      BY <2>1 DEF CollectGarbageSessions
    <3>2. /\ mClientList[k] \in Session /\ life[mClientList[k]] = "live"
          /\ mSocket[mClientList[k]] = k
      BY <2>1, <3>1 DEF PointersOK, SessionType
    <3>3. mClientList[k] \notin Garbage
      BY <3>1, <3>2
    <3> QED  BY <3>1, <3>2, <3>3 DEF CollectGarbageSessions
  <2>2. \A s \in Session : /\ life'[s] = "live" => mSocket'[s] \in Socket
                           /\ mConnected'[s] => life'[s] = "live"
                           /\ dueDb'[s] <= dbTasks'[s]
    BY <1>0 DEF CollectGarbageSessions, PointersOK, SessionType, osVars, taskVars
  <2> QED  BY <2>1, <2>2 DEF PointersOK
<1> QED  BY <1>1, <1>2, <1>3, <1>4

(* A period without a collection changes no session.                       *)
LEMMA SkipGarbageInv ==
  ASSUME Inv, SkipGarbage
  PROVE  Inv'
<1> USE DEF Inv, TypeOK, SkipGarbage, At, osVars, idVars, ioVars, taskVars, gameVars, dbVars
<1>1. ControlType' /\ SessionType' /\ CountType' /\ QueueType' /\ ControlOK'
  BY DEF ControlType, ClientPc, SessionType, CountType, QueueType, ControlOK
<1>2. RefCountExact' /\ HeldOnlyWhileLive' /\ PointersOK'
  BY DEF RefCountExact, HeldOnlyWhileLive, PointersOK
<1> QED  BY <1>1, <1>2
-----------------------------------------------------------------------------
(* A popped result is a job of the queue.                                  *)
LEMMA PopDatabaseJobResultInv ==
  ASSUME Inv, PopDatabaseJobResult
  PROVE  Inv'
<1> USE DEF Inv, TypeOK, PopDatabaseJobResult, At, osVars, idVars, ioVars, taskVars, gameVars
<1>1. results # <<>> => /\ Head(results) \in Job /\ Tail(results) \in Seq(Job)
                        /\ Len(Tail(results)) <= Len(results)
  BY DEF QueueType
<1>2. QueueType'
  <2>1. CASE results = <<>>
    BY <2>1 DEF QueueType
  <2>2. CASE results # <<>>
    <3>1. results' = Tail(results) /\ dbResult' = Head(results)
      BY <2>2
    <3>2. results' \in Seq(Job) /\ Len(results') <= MAX_DB_JOB
      BY <2>2, <3>1, <1>1, ConstantsAssumption DEF QueueType
    <3> QED  BY <2>2, <3>1, <3>2, <1>1 DEF QueueType
  <2> QED  BY <2>1, <2>2
<1>3. ControlType' /\ SessionType' /\ CountType' /\ ControlOK'
  BY <1>1 DEF ControlType, ClientPc, SessionType, CountType, ControlOK
<1>4. RefCountExact' /\ HeldOnlyWhileLive' /\ PointersOK'
  BY DEF RefCountExact, HeldOnlyWhileLive, PointersOK
<1> QED  BY <1>2, <1>3, <1>4

(* LoginDone takes one reference for each of the two tasks it starts, and  *)
(* only a session found in mClientList, hence live, gets here.             *)
LEMMA LoginDoneInv ==
  ASSUME Inv, At("handle"), Deliverable, LoginDone,
         clientPc' = "dispatch", dbResult' = NoJob,
         UNCHANGED <<idVars, ioVars, dbVars, current, dueDb, acceptList, logins>>
  PROVE  Inv'
<1> USE DEF Inv, TypeOK
<1>0. /\ Target \in Session /\ life[Target] = "live" /\ mConnected[Target]
      /\ dbResult \in Job /\ dbResult.pid \in Player \cup {NoPlayer}
  BY DEF At, ControlOK, Deliverable, Target, SessionType, PointersOK, Job
<1>1. NewJob("update", Target, dbResult.pid) \in Job
  BY <1>0, NewJobType
<1>2. PICK refused \in Refusing({Target}) :
        /\ mSendBuffer' = [s \in Session |-> IF s \in {Target} \ refused
                                             THEN mSendBuffer[s] + 1 ELSE mSendBuffer[s]]
        /\ Disconnect(refused)
  BY DEF LoginDone, SendRequest
<1>3. /\ refused \in SUBSET Session
      /\ Target \notin refused => mSendBuffer[Target] # SendCap
  BY <1>0, <1>2 DEF Refusing
<1>4. mSendBuffer' \in [Session -> 0 .. SendCap]
  BY <1>0, <1>2, <1>3, ConstantsAssumption DEF SessionType
<1>5. /\ mConnected' \in [Session -> BOOLEAN] /\ openSockets' \subseteq Socket
      /\ \A c \in Session : mConnected'[c] => mConnected[c]
  BY <1>2, <1>3, DisconnectType DEF SessionType
<1>6. \/ /\ tickTasks' = [tickTasks EXCEPT ![Target] = @ + 1]
         /\ dbTasks' = [dbTasks EXCEPT ![Target] = @ + 1]
         /\ mRefCount' = [mRefCount EXCEPT ![Target] = @ + 2]
      \/ UNCHANGED <<tickTasks, dbTasks, mRefCount>>
  BY DEF LoginDone, taskVars
<1>7. pushing' \in Job \cup {NoJob}
  BY <1>1 DEF LoginDone, QueueType
<1>8. ControlType' /\ ControlOK' /\ QueueType'
  BY <1>7 DEF At, ControlType, ClientPc, ControlOK, QueueType, dbVars
<1>9. SessionType'
  BY <1>0, <1>4, <1>5 DEF LoginDone, SessionType, idVars
<1>10. CountType'
  BY <1>0, <1>6 DEF CountType, ioVars
<1>11. RefCountExact'
  BY <1>0, <1>6 DEF RefCountExact, CountType, ioVars
<1>12. HeldOnlyWhileLive'
  BY <1>0, <1>6 DEF HeldOnlyWhileLive, CountType, idVars, ioVars
<1>13. PointersOK'
  <2>1. \A c \in Session : dueDb'[c] <= dbTasks'[c]
    BY <1>0, <1>6 DEF PointersOK, CountType
  <2> QED  BY <2>1, <1>5 DEF PointersOK, idVars
<1> QED  BY <1>8, <1>9, <1>10, <1>11, <1>12, <1>13

(* A result is handled by LoginDone or dropped.                            *)
LEMMA DispatchDatabaseJobResultInv ==
  ASSUME Inv, DispatchDatabaseJobResult
  PROVE  Inv'
<1>1. CASE Deliverable /\ LoginDone
  BY <1>1, LoginDoneInv DEF DispatchDatabaseJobResult
<1>2. CASE UNCHANGED <<osVars, gameVars, taskVars, mRefCount, pushing>>
  <2> USE <1>2 DEF Inv, TypeOK, DispatchDatabaseJobResult, At,
          osVars, idVars, ioVars, taskVars, gameVars, dbVars
  <2>1. ControlType' /\ SessionType' /\ CountType' /\ QueueType' /\ ControlOK'
    BY DEF ControlType, ClientPc, SessionType, CountType, QueueType, ControlOK
  <2>2. RefCountExact' /\ HeldOnlyWhileLive' /\ PointersOK'
    BY DEF RefCountExact, HeldOnlyWhileLive, PointersOK
  <2> QED  BY <2>1, <2>2
<1> QED  BY <1>1, <1>2 DEF DispatchDatabaseJobResult

(* The request queue takes the job in hand and no more than it holds.      *)
LEMMA PushDatabaseJobRequestInv ==
  ASSUME Inv, PushDatabaseJobRequest
  PROVE  Inv'
<1> USE DEF Inv, TypeOK, PushDatabaseJobRequest, osVars, idVars, ioVars, taskVars, gameVars
<1>1. ControlType' /\ SessionType' /\ CountType' /\ ControlOK'
  BY DEF ControlType, SessionType, CountType, ControlOK
<1>2. QueueType'
  BY ConstantsAssumption DEF QueueType
<1>3. RefCountExact' /\ HeldOnlyWhileLive' /\ PointersOK'
  BY DEF RefCountExact, HeldOnlyWhileLive, PointersOK
<1> QED  BY <1>1, <1>2, <1>3

(* The database thread only moves jobs between the queues.                 *)
LEMMA DatabaseThreadInv ==
  ASSUME Inv, DatabaseThread
  PROVE  Inv'
<1> USE DEF Inv, TypeOK, osVars, idVars, ioVars, taskVars, gameVars, ctlVars
<1>1. CASE ConsumeDatabaseJob
  <2> USE <1>1 DEF ConsumeDatabaseJob
  <2>1. ControlType' /\ SessionType' /\ CountType' /\ ControlOK'
    BY DEF ControlType, SessionType, CountType, ControlOK
  <2>2. QueueType'
    BY ConstantsAssumption DEF QueueType
  <2>3. RefCountExact' /\ HeldOnlyWhileLive' /\ PointersOK'
    BY DEF RefCountExact, HeldOnlyWhileLive, PointersOK
  <2> QED  BY <2>1, <2>2, <2>3
<1>2. CASE ProduceDatabaseResult
  <2> USE <1>2 DEF ProduceDatabaseResult
  <2>1. ControlType' /\ SessionType' /\ CountType' /\ ControlOK'
    BY DEF ControlType, SessionType, CountType, ControlOK
  <2>2. QueueType'
    <3>1. PICK ok \in BOOLEAN : results' = Append(results, [dbJob EXCEPT !.ok = ok])
      OBVIOUS
    <3>2. [dbJob EXCEPT !.ok = ok] \in Job
      BY DEF QueueType, Job
    <3> QED  BY <3>1, <3>2, ConstantsAssumption DEF QueueType
  <2>3. RefCountExact' /\ HeldOnlyWhileLive' /\ PointersOK'
    BY DEF RefCountExact, HeldOnlyWhileLive, PointersOK
  <2> QED  BY <2>1, <2>2, <2>3
<1> QED  BY <1>1, <1>2 DEF DatabaseThread

(* Every step of every thread keeps the invariant.                         *)
LEMMA NextInv == Inv /\ [Next]_vars => Inv'
<1> SUFFICES ASSUME Inv, [Next]_vars PROVE Inv'
  OBVIOUS
<1>1. CASE UNCHANGED vars
  <2> USE <1>1 DEF Inv, TypeOK, vars, osVars, idVars, ioVars, taskVars, gameVars, dbVars, ctlVars
  <2>1. ControlType' /\ SessionType' /\ CountType' /\ QueueType' /\ ControlOK'
    BY DEF ControlType, SessionType, CountType, QueueType, ControlOK
  <2>2. RefCountExact' /\ HeldOnlyWhileLive' /\ PointersOK'
    BY DEF RefCountExact, HeldOnlyWhileLive, PointersOK
  <2> QED  BY <2>1, <2>2
<1>2. CASE \E k \in Socket : Accept(k)
  BY <1>2, AcceptInv
<1>3. CASE \E s \in Session : CreateClient(s)
  BY <1>3, CreateClientInv
<1>4. CASE FlushClientSend
  BY <1>4, FlushClientSendInv
<1>5. CASE Wake
  BY <1>5, WakeInv
<1>6. CASE Completion
  BY <1>6, RecvCompletionInv, SendCompletionInv, HandleLoginInv, HandleBroadcastInv,
     DefaultHandlerInv, ParseFailureInv, OnReadDoneInv DEF Completion
<1>7. CASE Timer
  BY <1>7, TimerProcInv, OnTickInv, OnDbUpdateInv, DoTasksDoneInv, CollectGarbageSessionsInv,
     SkipGarbageInv, PopDatabaseJobResultInv, DispatchDatabaseJobResultInv DEF Timer
<1>8. CASE PushDatabaseJobRequest
  BY <1>8, PushDatabaseJobRequestInv
<1>9. CASE DatabaseThread
  BY <1>9, DatabaseThreadInv
<1> QED  BY <1>1, <1>2, <1>3, <1>4, <1>5, <1>6, <1>7, <1>8, <1>9 DEF Next, ClientThread

(* Spec keeps the inductive invariant.                                     *)
THEOREM Invariance == Spec => []Inv
  BY InitInv, NextInv, PTL DEF Spec

(* Every reachable state of the server is type correct, whatever the       *)
(* capacities of the queues and of the send buffers.                       *)
THEOREM TypeCorrect == Spec => []TypeOK
<1>1. Inv => TypeOK
  BY DEF Inv
<1> QED  BY <1>1, Invariance, PTL

(* A session's reference count is exactly the number of completions and    *)
(* tasks that will still use it.                                           *)
THEOREM RefCountsAreExact == Spec => []RefCountExact
<1>1. Inv => RefCountExact
  BY DEF Inv
<1> QED  BY <1>1, Invariance, PTL

(* CollectGarbageSessions never deletes a session that a completion        *)
(* routine, a task, the client list or a running OnRead still points at.   *)
THEOREM NoUseAfterDelete == Spec => []NoDanglingPointers
<1>1. Inv => NoDanglingPointers
  <2> SUFFICES ASSUME Inv, NEW s \in Session, life[s] # "live"
               PROVE  /\ recvPosted[s] = 0 /\ sendPosted[s] = 0
                      /\ tickTasks[s] = 0 /\ dbTasks[s] = 0 /\ dueDb[s] = 0
                      /\ s \notin Listed /\ s # current
    BY DEF NoDanglingPointers
  <2>1. /\ recvPosted[s] = 0 /\ sendPosted[s] = 0 /\ tickTasks[s] = 0
        /\ dbTasks[s] = 0 /\ s # current
    BY DEF Inv, HeldOnlyWhileLive
  <2>2. dueDb[s] = 0
    BY <2>1 DEF Inv, PointersOK, TypeOK, CountType
  <2>3. s \notin Listed
    BY DEF Inv, PointersOK, Listed
  <2> QED  BY <2>1, <2>2, <2>3
<1> QED  BY <1>1, Invariance, PTL
=============================================================================
