-------------------------- MODULE SchedulerProofs --------------------------
(* Proofs about Scheduler, for every set of sessions, every pair of        *)
(* intervals and every span of time.                                       *)
EXTENDS Scheduler, FiniteSetTheorems, WellFoundedInduction, TLAPS

(* A tick is a natural number below TickMod, and the time itself as long   *)
(* as the time is below TickMod.                                           *)
LEMMA Ticks ==
  ASSUME NEW t \in Nat
  PROVE  /\ t % TickMod \in 0 .. TickMod - 1
         /\ t < TickMod => t % TickMod = t
BY IntervalAssumption

(* Intervals are positive and below TickMod.                               *)
LEMMA Intervals ==
  ASSUME NEW task \in Task
  PROVE  Interval(task) \in Nat /\ 0 < Interval(task) /\ Interval(task) < TickMod
BY IntervalAssumption DEF Task, Interval

(* PushTask makes an element of the queue.                                 *)
LEMMA Pushes ==
  ASSUME TypeOK, NEW o \in Owner, NEW task \in Task, NEW c \in Nat
  PROVE  /\ PushTask(o, task, c) \in JobElement
         /\ CallFuncAfter(o, task, c) = IF mConnected[o] THEN {PushTask(o, task, c)} ELSE {}
<1>1. /\ Interval(task) + mCurrentTick \in Nat /\ readAt + Interval(task) \in Nat
  BY Intervals, IntervalAssumption DEF TypeOK
<1>2. (Interval(task) + mCurrentTick) % TickMod \in Nat
  BY <1>1, Ticks, IntervalAssumption
<1> QED  BY <1>1, <1>2 DEF PushTask, JobElement, CallFuncAfter

(* The types hold, whether or not the tick wraps.                          *)
THEOREM Types == Spec => []TypeOK
<1>1. Init => TypeOK
  <2>1. Epoch % TickMod \in 0 .. TickMod - 1
    BY Ticks, IntervalAssumption
  <2> QED  BY <2>1, IntervalAssumption DEF Init, TypeOK, GetTickCount
<1>2. TypeOK /\ [Next]_vars => TypeOK'
  <2> SUFFICES ASSUME TypeOK, [Next]_vars PROVE TypeOK'  OBVIOUS
  <2>1. CASE Pass
    BY <2>1, IntervalAssumption DEF TypeOK, Pass
  <2>2. CASE DoTasks
    <3>1. now \in Nat
      BY IntervalAssumption DEF TypeOK
    <3>2. now % TickMod \in 0 .. TickMod - 1
      BY <3>1, Ticks
    <3> QED  BY <2>2, <3>2 DEF TypeOK, DoTasks, GetTickCount
  <2>3. ASSUME NEW e \in mTaskQueue, RunTask(e) PROVE TypeOK'
    <3>1. e \in JobElement /\ e.owner \in Owner /\ e.task \in Task /\ e.chain \in Nat
      BY DEF TypeOK, JobElement
    <3>2. CallFuncAfter(e.owner, e.task, e.chain) \subseteq JobElement
      BY <3>1, Pushes
    <3> QED  BY <2>3, <3>1, <3>2 DEF TypeOK, RunTask
  <2>4. ASSUME NEW e \in mTaskQueue, PopTask(e) PROVE TypeOK'
    BY <2>4 DEF TypeOK, PopTask
  <2>5. CASE DoTasksDone
    BY <2>5 DEF TypeOK, DoTasksDone
  <2>6. ASSUME NEW o \in Owner, LoginDone(o) PROVE TypeOK'
    <3>1. logins[o] \in Nat /\ logins[o] + 1 \in 0 .. MaxLogins
      BY <2>6, IntervalAssumption DEF TypeOK, LoginDone
    <3>2. PICK c \in Nat : c = logins[o] + 1
      BY <3>1
    <3>3. UNION {CallFuncAfter(o, task, c) : task \in Task} \subseteq JobElement
      BY Pushes
    <3> QED  BY <2>6, <3>1, <3>2, <3>3 DEF TypeOK, LoginDone
  <2>7. ASSUME NEW o \in Owner, Disconnect(o) PROVE TypeOK'
    BY <2>7 DEF TypeOK, Disconnect
  <2>8. CASE UNCHANGED vars
    BY <2>8 DEF TypeOK, vars
  <2> QED  BY <2>1, <2>2, <2>3, <2>4, <2>5, <2>6, <2>7, <2>8 DEF Next, Loop
<1> QED  BY <1>1, <1>2, PTL DEF Spec
-----------------------------------------------------------------------------
(* The rest holds as long as no execution tick passes the last tick value: *)
(* for 2^32 milliseconds after the system's start, less the longer         *)
(* interval.  Past that, run MCTickWrap shows what happens.                *)
BeforeWrap == \A task \in Task : MaxTime + Interval(task) < TickMod

\* Ticks are times, of the clock and of every element.
TicksAreTimes ==
  /\ readAt <= now /\ mCurrentTick = readAt
  /\ \A e \in mTaskQueue : e.mExecutionTick = e.at
  /\ timerJobElem # NoTask => timerJobElem.mExecutionTick = timerJobElem.at

\* A task that has run stays the first element until it is popped.
RunIsTop == phase = "pop" => timerJobElem \in JobElement /\ Top(timerJobElem)

\* The pending tasks of a chain, without the one that has run.
Others(o, task, c) == Pending(o, task, c) \ (IF phase = "pop" THEN {timerJobElem} ELSE {})

\* One task of each kind from each login of a session on, and none before it.
OneOfEach ==
  \A o \in Owner, task \in Task, c \in Nat :
    /\ logins[o] < c => Pending(o, task, c) = {}
    /\ mConnected[o] /\ c \in 1 .. logins[o] =>
         \E e \in JobElement : Others(o, task, c) = {e} /\ e.at <= readAt + Interval(task)

IInv == TypeOK /\ TicksAreTimes /\ RunIsTop /\ ExecutedIsPopped /\ RunsWhenDue /\ OneOfEach

(* A queue that is not empty has a first element.                          *)
LEMMA TopExists ==
  ASSUME mTaskQueue \subseteq JobElement, mTaskQueue # {}
  PROVE  \E e \in mTaskQueue : Top(e)
<1> DEFINE T == {e.mExecutionTick : e \in mTaskQueue}
           Less == OpToRel(<, Nat)
<1>1. T \subseteq Nat /\ T # {}
  BY DEF JobElement
<1>2. PICK n \in T : \A m \in T : ~ (<<m, n>> \in Less)
  <2> HIDE DEF T, Less
  <2>1. IsWellFoundedOn(Less, Nat)
    BY NatLessThanWellFounded DEF Less
  <2> QED  BY <1>1, <2>1, WFMin
<1>3. \A m \in T : n <= m
  <2>1. \A m, k \in Nat : m < k => <<m, k>> \in Less
    BY DEF Less, OpToRel
  <2> HIDE DEF T, Less
  <2> SUFFICES ASSUME NEW m \in T, ~(n <= m) PROVE FALSE  OBVIOUS
  <2>2. m \in Nat /\ n \in Nat /\ m < n
    BY <1>1
  <2>3. <<m, n>> \in Less
    BY <2>1, <2>2
  <2> QED  BY <1>2, <2>3
<1>4. PICK e \in mTaskQueue : e.mExecutionTick = n
  BY <1>2
<1> QED  BY <1>3, <1>4 DEF Top

(* A task that is pushed is due one interval after the last reading of the *)
(* clock, in ticks too.                                                    *)
LEMMA PushedLater ==
  ASSUME BeforeWrap, IInv, NEW o \in Owner, NEW task \in Task, NEW c \in Nat
  PROVE  LET f == PushTask(o, task, c)
         IN /\ f \in JobElement /\ f.owner = o /\ f.task = task /\ f.chain = c
            /\ f.mExecutionTick = f.at /\ f.at \in Nat
            /\ f.at = readAt + Interval(task) /\ f.at > readAt
<1>1. /\ Interval(task) + mCurrentTick \in Nat /\ Interval(task) + mCurrentTick < TickMod
      /\ readAt + Interval(task) > readAt /\ mCurrentTick = readAt
  BY Intervals, IntervalAssumption DEF IInv, TypeOK, TicksAreTimes, BeforeWrap
<1>2. (Interval(task) + mCurrentTick) % TickMod = Interval(task) + mCurrentTick
  BY <1>1, Ticks
<1>3. Interval(task) \in Nat /\ readAt \in Nat
  BY Intervals, IntervalAssumption DEF IInv, TypeOK
<1> QED  BY <1>1, <1>2, <1>3, Pushes DEF PushTask, IInv

(* The initial states satisfy the invariant.                               *)
LEMMA InitIInv == BeforeWrap /\ Init => IInv
<1> SUFFICES ASSUME BeforeWrap, Init PROVE IInv  OBVIOUS
<1>1. TypeOK
  <2>1. Epoch % TickMod \in 0 .. TickMod - 1
    BY Ticks, IntervalAssumption
  <2> QED  BY <2>1, IntervalAssumption DEF Init, TypeOK, GetTickCount
<1>2. Epoch < TickMod
  <2>1. "OnTick" \in Task
    BY DEF Task
  <2> QED  BY <2>1, Intervals, IntervalAssumption DEF BeforeWrap
<1>3. mCurrentTick = readAt
  BY <1>2, Ticks, IntervalAssumption DEF Init, GetTickCount
<1>4. TicksAreTimes /\ RunIsTop /\ ExecutedIsPopped /\ RunsWhenDue
  BY <1>3, IntervalAssumption
     DEF Init, TicksAreTimes, RunIsTop, ExecutedIsPopped, RunsWhenDue
<1>5. OneOfEach
  <2>1. \A o \in Owner : 1 .. logins[o] = {}
    BY DEF Init
  <2>2. \A o \in Owner, task \in Task, c \in Nat : Pending(o, task, c) = {}
    BY DEF Init, Pending
  <2> QED  BY <2>1, <2>2 DEF OneOfEach
<1> QED  BY <1>1, <1>4, <1>5 DEF IInv

(* A task that runs stays first: its successor is due later.               *)
LEMMA RunKeepsIInv ==
  ASSUME BeforeWrap, IInv, TypeOK', NEW e \in mTaskQueue, RunTask(e)
  PROVE  IInv'
<1> DEFINE f == PushTask(e.owner, e.task, e.chain)
<1>1. /\ e \in JobElement /\ e.owner \in Owner /\ e.task \in Task /\ e # NoTask
      /\ e.chain \in Nat /\ e.at \in Nat /\ e.mExecutionTick = e.at
  BY NoTaskAssumption DEF IInv, TypeOK, JobElement, TicksAreTimes
<1>2. /\ f \in JobElement /\ f.owner = e.owner /\ f.task = e.task /\ f.chain = e.chain
      /\ f.mExecutionTick = f.at /\ f.at \in Nat
      /\ f.at = readAt + Interval(e.task) /\ f.at > readAt
  BY <1>1, PushedLater
<1>3. /\ mTaskQueue' \subseteq mTaskQueue \cup {f} /\ mTaskQueue \subseteq mTaskQueue'
      /\ mConnected[e.owner] => mTaskQueue' = mTaskQueue \cup {f}
      /\ timerJobElem' = e /\ phase = "loop" /\ phase' = "pop" /\ readAt' = readAt
      /\ mCurrentTick' = mCurrentTick /\ now' = now /\ mConnected' = mConnected
      /\ logins' = logins
  BY <1>1, Pushes DEF RunTask, IInv
<1>4. readAt \in Nat /\ mCurrentTick = readAt /\ e.at <= readAt
  BY <1>1, IntervalAssumption DEF IInv, TypeOK, TicksAreTimes, RunTask, Due
<1> HIDE DEF f
<1>5. TicksAreTimes'
  BY <1>1, <1>2, <1>3 DEF IInv, TicksAreTimes
<1>6. RunIsTop'
  <2>1. \A g \in mTaskQueue : e.mExecutionTick <= g.mExecutionTick
    BY DEF RunTask, Top
  <2>2. e.mExecutionTick <= f.mExecutionTick
    BY <1>1, <1>2, <1>4
  <2>3. Top(e)'
    BY <1>3, <2>1, <2>2 DEF Top
  <2> QED  BY <1>1, <1>3, <2>3 DEF RunIsTop, Top
<1>7. ExecutedIsPopped' /\ RunsWhenDue'
  BY <1>1, <1>3, <1>4 DEF ExecutedIsPopped, RunsWhenDue
<1>8. OneOfEach'
  <2> SUFFICES ASSUME NEW o \in Owner, NEW task \in Task, NEW c \in Nat
               PROVE  /\ logins[o] < c => Pending(o, task, c)' = {}
                      /\ mConnected[o] /\ c \in 1 .. logins[o] =>
                           \E g \in JobElement : /\ Others(o, task, c)' = {g}
                                                 /\ g.at <= readAt + Interval(task)
    BY <1>3 DEF OneOfEach
  <2>1. /\ logins[o] < c => Pending(o, task, c) = {}
        /\ mConnected[o] /\ c \in 1 .. logins[o] =>
             \E g \in JobElement : /\ Pending(o, task, c) = {g}
                                   /\ g.at <= readAt + Interval(task)
    BY <1>3 DEF IInv, OneOfEach, Others
  <2>2. CASE o = e.owner /\ task = e.task /\ c = e.chain
    <3>1. e \in Pending(o, task, c) /\ ~(logins[o] < c)
      BY <2>1, <2>2 DEF Pending
    <3>2. ASSUME mConnected[o], c \in 1 .. logins[o] PROVE Others(o, task, c)' = {f}
      <4>1. Pending(o, task, c) = {e}
        BY <2>1, <3>1, <3>2
      <4>2. Pending(o, task, c)' = {e, f}
        BY <1>2, <1>3, <2>2, <3>2, <4>1 DEF Pending
      <4>3. e # f
        BY <1>1, <1>2, <1>4
      <4> QED  BY <1>3, <4>2, <4>3 DEF Others
    <3>3. f.at <= readAt + Interval(task)
      BY <1>2, <2>2
    <3> QED  BY <1>2, <3>1, <3>2, <3>3
  <2>3. CASE ~(o = e.owner /\ task = e.task /\ c = e.chain)
    <3>1. Pending(o, task, c)' = Pending(o, task, c)
      BY <1>2, <1>3, <2>3 DEF Pending
    <3>2. Others(o, task, c)' = Pending(o, task, c)
      BY <1>3, <2>3, <3>1 DEF Others, Pending
    <3> QED  BY <2>1, <3>1, <3>2
  <2> QED  BY <2>2, <2>3
<1> QED  BY <1>5, <1>6, <1>7, <1>8 DEF IInv

(* Pop removes the task that has run.                                      *)
LEMMA PopKeepsIInv ==
  ASSUME BeforeWrap, IInv, TypeOK', NEW e \in mTaskQueue, PopTask(e)
  PROVE  IInv'
<1>1. /\ e = timerJobElem /\ phase = "pop" /\ phase' = "loop"
      /\ mTaskQueue' = mTaskQueue \ {timerJobElem}
      /\ UNCHANGED <<now, readAt, mCurrentTick, timerJobElem, mConnected, logins>>
  BY DEF PopTask, Popped, IInv, RunIsTop
<1>2. TicksAreTimes' /\ RunIsTop' /\ ExecutedIsPopped' /\ RunsWhenDue'
  BY <1>1 DEF IInv, TicksAreTimes, RunIsTop, ExecutedIsPopped, RunsWhenDue
<1>3. \A o \in Owner, task \in Task, c \in Nat :
        /\ Pending(o, task, c)' \subseteq Pending(o, task, c)
        /\ Others(o, task, c)' = Others(o, task, c)
  BY <1>1 DEF Pending, Others
<1>4. OneOfEach'
  <2> SUFFICES ASSUME NEW o \in Owner, NEW task \in Task, NEW c \in Nat
               PROVE  /\ logins[o] < c => Pending(o, task, c)' = {}
                      /\ mConnected[o] /\ c \in 1 .. logins[o] =>
                           \E g \in JobElement : /\ Others(o, task, c)' = {g}
                                                 /\ g.at <= readAt + Interval(task)
    BY <1>1 DEF OneOfEach
  <2> QED  BY <1>3 DEF IInv, OneOfEach
<1> QED  BY <1>2, <1>4 DEF IInv

(* A login starts a chain of each kind, due after the clock's reading, and *)
(* leaves the chains of earlier logins alone.                              *)
LEMMA LoginKeepsIInv ==
  ASSUME BeforeWrap, IInv, TypeOK', NEW o \in Owner, LoginDone(o)
  PROVE  IInv'
<1>0. PICK n \in Nat : n = logins[o] + 1 /\ logins[o] \in Nat /\ logins[o] < n
  BY IntervalAssumption DEF IInv, TypeOK
<1> DEFINE F(task) == PushTask(o, task, n)
           Started == IF mConnected[o] THEN {F(task) : task \in Task} ELSE {}
<1>1. \A task \in Task :
        /\ F(task) \in JobElement /\ F(task).owner = o /\ F(task).task = task
        /\ F(task).chain = n /\ F(task).mExecutionTick = F(task).at /\ F(task).at \in Nat
        /\ F(task).at = readAt + Interval(task) /\ F(task).at > readAt
  BY PushedLater
<1>2. /\ phase = "idle" /\ phase' = "idle"
      /\ mTaskQueue' = mTaskQueue \cup Started
      /\ logins' = [logins EXCEPT ![o] = n]
      /\ UNCHANGED <<now, readAt, mCurrentTick, timerJobElem, mConnected>>
  <2>1. \A task \in Task :
          CallFuncAfter(o, task, n) = IF mConnected[o] THEN {F(task)} ELSE {}
    BY Pushes DEF IInv
  <2>2. UNION {CallFuncAfter(o, task, n) : task \in Task} = Started
    BY <2>1
  <2> QED  BY <1>0, <2>2 DEF LoginDone
<1>3. readAt \in Nat /\ mCurrentTick = readAt /\ logins \in [Owner -> 0 .. MaxLogins]
  BY IntervalAssumption DEF IInv, TypeOK, TicksAreTimes
<1>4. \A f \in Started : \E task \in Task : f = F(task)
  OBVIOUS
<1>5. mConnected[o] => \A task \in Task : F(task) \in Started
  OBVIOUS
<1> HIDE DEF F, Started
<1>6. TicksAreTimes'
  BY <1>1, <1>2, <1>4 DEF IInv, TicksAreTimes
<1>7. RunIsTop' /\ RunsWhenDue'
  BY <1>1, <1>2, <1>4 DEF IInv, RunIsTop, RunsWhenDue
<1>8. ExecutedIsPopped'
  <2>1. timerJobElem \in JobElement => timerJobElem.at \in Nat /\ timerJobElem.at <= readAt
    BY NoTaskAssumption DEF IInv, RunsWhenDue, JobElement
  <2>2. \A task \in Task : F(task) # timerJobElem
    BY <1>1, <1>3, <2>1, Intervals
  <2> QED  BY <1>2, <1>4, <2>2 DEF IInv, ExecutedIsPopped
<1>9. OneOfEach'
  <2> SUFFICES ASSUME NEW q \in Owner, NEW task \in Task, NEW c \in Nat
               PROVE  /\ logins'[q] < c => Pending(q, task, c)' = {}
                      /\ mConnected[q] /\ c \in 1 .. logins'[q] =>
                           \E g \in JobElement : /\ Others(q, task, c)' = {g}
                                                 /\ g.at <= readAt + Interval(task)
    BY <1>2 DEF OneOfEach
  <2>1. /\ logins[q] < c => Pending(q, task, c) = {}
        /\ mConnected[q] /\ c \in 1 .. logins[q] =>
             \E g \in JobElement : /\ Pending(q, task, c) = {g}
                                   /\ g.at <= readAt + Interval(task)
    BY <1>2 DEF IInv, OneOfEach, Others
  <2>2. Others(q, task, c)' = Pending(q, task, c)'
    BY <1>2 DEF Others
  <2>3. CASE q = o /\ c = n
    <3>1. Pending(q, task, c) = {} /\ logins'[q] = c
      BY <1>0, <1>2, <1>3, <2>1, <2>3
    <3>2. ASSUME mConnected[q] PROVE Pending(q, task, c)' = {F(task)}
      BY <1>1, <1>2, <1>4, <1>5, <2>3, <3>1, <3>2 DEF Pending
    <3>3. F(task) \in JobElement /\ F(task).at <= readAt + Interval(task)
      BY <1>1, <1>3, Intervals
    <3> QED  BY <2>2, <3>1, <3>2, <3>3
  <2>4. CASE ~(q = o /\ c = n)
    <3>1. Pending(q, task, c)' = Pending(q, task, c)
      BY <1>1, <1>2, <1>4, <2>4 DEF Pending
    <3>2. logins'[q] = IF q = o THEN n ELSE logins[q]
      BY <1>2, <1>3
    <3>3. logins[q] \in Nat /\ logins'[q] \in Nat
      BY <1>0, <1>3, <3>2, IntervalAssumption
    <3>4. (logins'[q] < c => logins[q] < c) /\ (c \in 1 .. logins'[q] => c \in 1 .. logins[q])
      BY <1>0, <2>4, <3>2, <3>3
    <3> QED  BY <2>1, <2>2, <3>1, <3>4
  <2> QED  BY <2>3, <2>4
<1> QED  BY <1>6, <1>7, <1>8, <1>9 DEF IInv

(* Where the queue, the phase and the sessions stay as they are, or only   *)
(* the clock is read or a session disconnects, the chains stay.            *)
LEMMA KeepsOneOfEach ==
  ASSUME IInv, TypeOK', mTaskQueue' = mTaskQueue, phase # "pop", phase' # "pop",
         logins' = logins, \A o \in Owner : mConnected'[o] => mConnected[o],
         readAt <= readAt'
  PROVE  OneOfEach'
<1> SUFFICES ASSUME NEW o \in Owner, NEW task \in Task, NEW c \in Nat
             PROVE  /\ logins[o] < c => Pending(o, task, c)' = {}
                    /\ mConnected'[o] /\ c \in 1 .. logins[o] =>
                         \E g \in JobElement : /\ Others(o, task, c)' = {g}
                                               /\ g.at <= readAt' + Interval(task)
  BY DEF OneOfEach
<1>1. /\ Pending(o, task, c)' = Pending(o, task, c)
      /\ Others(o, task, c)' = Others(o, task, c)
  BY DEF Pending, Others
<1>2. /\ logins[o] < c => Pending(o, task, c) = {}
      /\ mConnected[o] /\ c \in 1 .. logins[o] =>
           \E g \in JobElement : /\ Others(o, task, c) = {g}
                                 /\ g.at <= readAt + Interval(task)
  BY DEF IInv, OneOfEach
<1>3. /\ readAt \in Nat /\ readAt' \in Nat /\ Interval(task) \in Nat
      /\ \A g \in JobElement : g.at \in Nat
  BY Intervals, IntervalAssumption DEF IInv, TypeOK, JobElement
<1> QED  BY <1>1, <1>2, <1>3

(* Every step preserves the invariant.                                     *)
LEMMA NextIInv == BeforeWrap /\ IInv /\ TypeOK' /\ [Next]_vars => IInv'
<1> SUFFICES ASSUME BeforeWrap, IInv, TypeOK', [Next]_vars PROVE IInv'  OBVIOUS
<1>0. /\ now \in Nat /\ readAt \in Nat /\ readAt' \in Nat /\ readAt <= now
      /\ mCurrentTick = readAt
  BY IntervalAssumption DEF IInv, TypeOK, TicksAreTimes
<1>1. CASE Pass
  <2>1. TicksAreTimes'
    BY <1>0, <1>1 DEF IInv, TicksAreTimes, Pass
  <2>2. RunIsTop' /\ ExecutedIsPopped' /\ RunsWhenDue' /\ OneOfEach'
    BY <1>1 DEF IInv, RunIsTop, Top, ExecutedIsPopped, RunsWhenDue, OneOfEach, Others,
                Pending, Pass
  <2> QED  BY <2>1, <2>2 DEF IInv
<1>2. CASE DoTasks
  <2>1. now < TickMod
    <3>1. "OnTick" \in Task
      BY DEF Task
    <3> QED  BY <3>1, Intervals, IntervalAssumption DEF BeforeWrap, IInv, TypeOK
  <2>2. readAt' = now /\ mCurrentTick' = now /\ now' = now
    BY <1>0, <1>2, <2>1, Ticks DEF DoTasks, GetTickCount
  <2>3. TicksAreTimes' /\ RunIsTop' /\ ExecutedIsPopped'
    BY <1>0, <1>2, <2>2
       DEF IInv, TicksAreTimes, RunIsTop, ExecutedIsPopped, DoTasks
  <2>4. RunsWhenDue'
    <3>1. timerJobElem # NoTask => timerJobElem.at \in Nat /\ timerJobElem.at <= readAt
      BY DEF IInv, TypeOK, JobElement, RunsWhenDue
    <3> QED  BY <1>0, <1>2, <2>2, <3>1 DEF RunsWhenDue, DoTasks
  <2>5. OneOfEach'
    BY <1>0, <1>2, <2>2, KeepsOneOfEach DEF DoTasks, IInv
  <2> QED  BY <2>3, <2>4, <2>5 DEF IInv
<1>3. ASSUME NEW e \in mTaskQueue, RunTask(e) PROVE IInv'
  BY <1>3, RunKeepsIInv
<1>4. ASSUME NEW e \in mTaskQueue, PopTask(e) PROVE IInv'
  BY <1>4, PopKeepsIInv
<1>5. CASE DoTasksDone
  <2>1. TicksAreTimes' /\ RunIsTop' /\ ExecutedIsPopped'
    BY <1>5 DEF IInv, TicksAreTimes, RunIsTop, ExecutedIsPopped, DoTasksDone
  <2>2. \A e \in mTaskQueue : e.at > readAt
    <3> SUFFICES ASSUME NEW e \in mTaskQueue PROVE e.at > readAt  OBVIOUS
    <3>1. mTaskQueue \subseteq JobElement
      BY DEF IInv, TypeOK
    <3>2. PICK t \in mTaskQueue : Top(t)
      BY <3>1, TopExists
    <3>3. /\ t.mExecutionTick <= e.mExecutionTick /\ ~(mCurrentTick >= t.mExecutionTick)
          /\ e.mExecutionTick = e.at
      BY <1>5, <3>2 DEF Top, DoTasksDone, Due, IInv, TicksAreTimes
    <3>4. t.mExecutionTick \in Nat /\ e.mExecutionTick \in Nat
      BY <3>1 DEF JobElement
    <3> QED  BY <1>0, <3>3, <3>4
  <2>3. RunsWhenDue'
    BY <1>5, <2>2 DEF IInv, RunsWhenDue, DoTasksDone
  <2>4. OneOfEach'
    BY <1>0, <1>5, KeepsOneOfEach DEF DoTasksDone, IInv
  <2> QED  BY <2>1, <2>3, <2>4 DEF IInv
<1>6. ASSUME NEW o \in Owner, LoginDone(o) PROVE IInv'
  BY <1>6, LoginKeepsIInv
<1>7. ASSUME NEW o \in Owner, Disconnect(o) PROVE IInv'
  <2>1. TicksAreTimes' /\ RunIsTop' /\ ExecutedIsPopped' /\ RunsWhenDue'
    BY <1>7 DEF IInv, TicksAreTimes, RunIsTop, ExecutedIsPopped, RunsWhenDue, Disconnect
  <2>2. \A q \in Owner : mConnected'[q] => mConnected[q]
    BY <1>7 DEF IInv, TypeOK, Disconnect
  <2>3. OneOfEach'
    BY <1>0, <1>7, <2>2, KeepsOneOfEach DEF Disconnect, IInv
  <2> QED  BY <2>1, <2>3 DEF IInv
<1>8. CASE UNCHANGED vars
  BY <1>8 DEF IInv, TicksAreTimes, RunIsTop, Top, ExecutedIsPopped, RunsWhenDue, OneOfEach,
              Others, Pending, vars
<1> QED  BY <1>1, <1>2, <1>3, <1>4, <1>5, <1>6, <1>7, <1>8 DEF Next, Loop

(* Before the tick wraps, the invariant holds in every state.              *)
LEMMA Invariant == BeforeWrap => (Spec => []IInv)
<1> SUFFICES ASSUME BeforeWrap PROVE Spec => []IInv  OBVIOUS
<1>1. Init => IInv
  BY InitIInv
<1>2. IInv /\ TypeOK' /\ [Next]_vars => IInv'
  BY NextIInv
<1> QED  BY <1>1, <1>2, Types, PTL DEF Spec

(* Before the tick wraps, pop removes the task that has run and no other,  *)
(* although the task has pushed its successor before pop (DoTasks).        *)
THEOREM RunsArePopped == BeforeWrap => (Spec => []ExecutedIsPopped)
<1> SUFFICES ASSUME BeforeWrap PROVE Spec => []ExecutedIsPopped  OBVIOUS
<1>1. IInv => ExecutedIsPopped
  BY DEF IInv
<1> QED  BY <1>1, Invariant, PTL

(* Before the tick wraps, no task runs early, and a DoTasks that returns   *)
(* has left none behind that was due (DoTasks, PushTask).                  *)
THEOREM TasksRunWhenDue == BeforeWrap => (Spec => []RunsWhenDue)
<1> SUFFICES ASSUME BeforeWrap PROVE Spec => []RunsWhenDue  OBVIOUS
<1>1. IInv => RunsWhenDue
  BY DEF IInv
<1> QED  BY <1>1, Invariant, PTL

(* Before the tick wraps, every login of a session that is connected keeps *)
(* its heartbeat and its save: one of each is pending, neither lost nor    *)
(* doubled, however often the session logs in (OnTick, OnDbUpdate,         *)
(* LoginDone).                                                             *)
THEOREM ChainsAreKept == BeforeWrap => (Spec => []ChainsKept)
<1> SUFFICES ASSUME BeforeWrap PROVE Spec => []ChainsKept  OBVIOUS
<1>1. IInv => ChainsKept
  <2> SUFFICES ASSUME IInv, phase # "pop", NEW o \in Owner, NEW task \in Task,
                      mConnected[o], NEW c \in 1 .. logins[o]
               PROVE  /\ Cardinality(Pending(o, task, c)) = 1
                      /\ \A e \in Pending(o, task, c) : e.at <= readAt + Interval(task)
    BY DEF ChainsKept
  <2>0. c \in Nat
    BY IntervalAssumption DEF IInv, TypeOK
  <2>1. PICK e \in JobElement : Pending(o, task, c) = {e} /\ e.at <= readAt + Interval(task)
    BY <2>0 DEF IInv, OneOfEach, Others
  <2>2. Cardinality({e}) = 1
    BY FS_Singleton
  <2> QED  BY <2>1, <2>2
<1> QED  BY <1>1, Invariant, PTL
=============================================================================
