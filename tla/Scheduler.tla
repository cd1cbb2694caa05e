----------------------------- MODULE Scheduler -----------------------------
(***************************************************************************)
(* Scheduler: the priority queue of delayed tasks of the client thread.    *)
(*                                                                         *)
(* The system's tick has TickMod values (2^32 milliseconds in the code) and *)
(* so has the sum after + mCurrentTick, although mExecutionTick is wider.  *)
(* mCurrentTick is read once per DoTasks: it is stale for whoever pushes   *)
(* between two of them, and does not move while tasks run.  DoTasks pops   *)
(* after the task has run, and a task pushes its successor while it runs.  *)
(*                                                                         *)
(* Nothing keeps a session from logging in again, and each LoginDone starts *)
(* a heartbeat and a save that reschedule themselves: a chain of each.     *)
(* An element carries two fields the code does not have and nothing but    *)
(* the properties looks at: chain, the number of the login that started    *)
(* its chain, and at, the time it should run in time that does not wrap.   *)
(***************************************************************************)
EXTENDS Integers, FiniteSets

CONSTANTS
  Owner,                       \* client sessions
  TickMod,                     \* number of tick values
  PLAYER_HEART_BEAT,
  PLAYER_DB_UPDATE_INTERVAL,
  Epoch,                       \* time the system was up when the server starts
  MaxTime,                     \* bound: end of the modelled time
  MaxLogins,                   \* bound: logins of a session
  NoTask                       \* no task has run yet

\* Both intervals are positive and fit in a tick.
ASSUME IntervalAssumption ==
  /\ TickMod \in Nat /\ Epoch \in Nat /\ MaxTime \in Nat /\ Epoch <= MaxTime
  /\ MaxLogins \in Nat
  /\ PLAYER_HEART_BEAT \in 1 .. TickMod - 1
  /\ PLAYER_DB_UPDATE_INTERVAL \in 1 .. TickMod - 1

VARIABLES
  now,            \* time since the system started, which does not wrap
  readAt,         \* when mCurrentTick was read
  mCurrentTick,
  mTaskQueue,     \* the elements of the priority queue
  phase,          \* "idle", or "loop" or "pop" in DoTasks
  timerJobElem,   \* the copy of top that DoTasks ran last
  mConnected,     \* of each session
  logins          \* how often LoginDone was called for each session

vars == <<now, readAt, mCurrentTick, mTaskQueue, phase, timerJobElem, mConnected, logins>>

Task == {"OnTick", "OnDbUpdate"}

JobElement ==
  [owner : Owner, task : Task, chain : Nat, mExecutionTick : Nat, at : Nat]

\* No element of the queue is NoTask.
ASSUME NoTaskAssumption == NoTask \notin JobElement

GetTickCount == now % TickMod

Interval(task) ==
  IF task = "OnTick" THEN PLAYER_HEART_BEAT ELSE PLAYER_DB_UPDATE_INTERVAL

\* The element PushTask adds.
PushTask(o, task, c) ==
  [owner |-> o, task |-> task, chain |-> c,
   mExecutionTick |-> (Interval(task) + mCurrentTick) % TickMod,
   at |-> readAt + Interval(task)]

\* Mutant: the task does not reschedule itself.
CallFuncAfterNever(o, task, c) == {}

\* CallFuncAfter at the end of OnTick and OnDbUpdate: nothing is pushed for a
\* session that is disconnected.
CallFuncAfter(o, task, c) == IF mConnected[o] THEN {PushTask(o, task, c)} ELSE {}

Init ==
  /\ now = Epoch /\ readAt = Epoch /\ mCurrentTick = GetTickCount
  /\ mTaskQueue = {} /\ phase = "idle" /\ timerJobElem = NoTask
  /\ mConnected = [o \in Owner |-> TRUE] /\ logins = [o \in Owner |-> 0]
-----------------------------------------------------------------------------
\* Time passes, also while tasks run.
Pass ==
  /\ now < MaxTime /\ now' = now + 1
  /\ UNCHANGED <<readAt, mCurrentTick, mTaskQueue, phase, timerJobElem, mConnected, logins>>

\* LoginDone starts a chain of each kind, from an APC and so outside DoTasks.
LoginDone(o) ==
  /\ phase = "idle" /\ logins[o] < MaxLogins
  /\ logins' = [logins EXCEPT ![o] = @ + 1]
  /\ mTaskQueue' =
       mTaskQueue \cup UNION {CallFuncAfter(o, task, logins[o] + 1) : task \in Task}
  /\ UNCHANGED <<now, readAt, mCurrentTick, phase, timerJobElem, mConnected>>

Disconnect(o) ==
  /\ phase = "idle" /\ mConnected[o]
  /\ mConnected' = [mConnected EXCEPT ![o] = FALSE]
  /\ UNCHANGED <<now, readAt, mCurrentTick, mTaskQueue, phase, timerJobElem, logins>>

\* DoTasks up to its loop.
DoTasks ==
  /\ phase = "idle" /\ phase' = "loop"
  /\ mCurrentTick' = GetTickCount /\ readAt' = now
  /\ UNCHANGED <<now, mTaskQueue, timerJobElem, mConnected, logins>>

\* Mutant: the comparator is the wrong way round.
TopLatest(e) ==
  e \in mTaskQueue /\ \A f \in mTaskQueue : f.mExecutionTick <= e.mExecutionTick

\* top may be e: no element is to be executed before it.
Top(e) ==
  e \in mTaskQueue /\ \A f \in mTaskQueue : e.mExecutionTick <= f.mExecutionTick

\* Mutant: a task runs once its tick is near.
DueSoon(e) == mCurrentTick + 1 >= e.mExecutionTick

Due(e) == mCurrentTick >= e.mExecutionTick

\* A task that is due runs; what it pushes is in the queue before pop.
RunTask(e) ==
  /\ phase = "loop" /\ Top(e) /\ Due(e)
  /\ phase' = "pop" /\ timerJobElem' = e
  /\ mTaskQueue' = mTaskQueue \cup CallFuncAfter(e.owner, e.task, e.chain)
  /\ UNCHANGED <<now, readAt, mCurrentTick, mConnected, logins>>

\* Mutant: the element at the back, pushed last, is popped.
PoppedLatest(e) == TopLatest(e)

\* What pop removes: the top, which is still the task that has run unless an
\* element that is to be executed before it has been pushed.
Popped(e) == Top(e) /\ (Top(timerJobElem) => e = timerJobElem)

\* Mutant: a task that has run is popped only if its session is gone.
PopTaskDisconnected(e) ==
  /\ phase = "pop" /\ Popped(e)
  /\ phase' = "loop"
  /\ mTaskQueue' = IF mConnected[e.owner] THEN mTaskQueue ELSE mTaskQueue \ {e}
  /\ UNCHANGED <<now, readAt, mCurrentTick, timerJobElem, mConnected, logins>>

PopTask(e) ==
  /\ phase = "pop" /\ Popped(e)
  /\ phase' = "loop" /\ mTaskQueue' = mTaskQueue \ {e}
  /\ UNCHANGED <<now, readAt, mCurrentTick, timerJobElem, mConnected, logins>>

\* The loop ends: no task is left, or the top one is not due.
DoTasksDone ==
  /\ phase = "loop" /\ phase' = "idle"
  /\ \A e \in mTaskQueue : Top(e) => ~Due(e)
  /\ UNCHANGED <<now, readAt, mCurrentTick, mTaskQueue, timerJobElem, mConnected, logins>>
-----------------------------------------------------------------------------
Loop == (\E e \in mTaskQueue : RunTask(e) \/ PopTask(e)) \/ DoTasksDone

Next ==
  \/ Pass \/ DoTasks \/ Loop
  \/ \E o \in Owner : LoginDone(o) \/ Disconnect(o)

\* The client thread goes on with its loop.
Spec == Init /\ [][Next]_vars /\ WF_vars(Loop)
-----------------------------------------------------------------------------
TypeOK ==
  /\ now \in Epoch .. MaxTime /\ readAt \in Epoch .. MaxTime
  /\ mCurrentTick \in 0 .. TickMod - 1
  /\ mTaskQueue \subseteq JobElement /\ phase \in {"idle", "loop", "pop"}
  /\ timerJobElem \in JobElement \cup {NoTask}
  /\ mConnected \in [Owner -> BOOLEAN] /\ logins \in [Owner -> 0 .. MaxLogins]

(* Pop removes the task that has just run and not another one, although    *)
(* the task has pushed its successor in between (DoTasks).                 *)
ExecutedIsPopped == phase # "pop" => timerJobElem \notin mTaskQueue

(* A task runs when it is due: not before its interval has passed since    *)
(* mCurrentTick was read, which may be before it was pushed, and at the    *)
(* latest in the first DoTasks after that (PushTask, DoTasks).             *)
RunsWhenDue ==
  /\ timerJobElem # NoTask => timerJobElem.at <= readAt
  /\ phase = "idle" => \A e \in mTaskQueue : e.at > readAt

\* The pending tasks of a session and kind that the session's login c started.
Pending(o, task, c) == {e \in mTaskQueue : e.owner = o /\ e.task = task /\ e.chain = c}

(* Every login of a session that is connected has exactly one heartbeat    *)
(* and one save pending, each at most its interval away from the last      *)
(* reading of the clock: no chain breaks or forks, and those of an earlier *)
(* login go on beside those of a later one (OnTick, OnDbUpdate, LoginDone). *)
ChainsKept ==
  phase # "pop" => \A o \in Owner, task \in Task : mConnected[o] =>
    \A c \in 1 .. logins[o] :
      /\ Cardinality(Pending(o, task, c)) = 1
      /\ \A e \in Pending(o, task, c) : e.at <= readAt + Interval(task)

(* DoTasks returns: a task that reschedules itself is not run again in the *)
(* same DoTasks, so the timer's other work is reached.                     *)
DoTasksEnds == phase = "loop" ~> phase = "idle"
=============================================================================
