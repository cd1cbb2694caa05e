----------------------- MODULE ProducerConsumerQueue -----------------------
(***************************************************************************)
(* ProducerConsumerQueue<TElem, QSize>: a ring of QSize slots under an     *)
(* exclusive SRW lock, with a condition variable for "not full" and one    *)
(* for "not empty".  Waking comes after the release of the lock, so other  *)
(* threads may run between the two.  A condition variable may wake a       *)
(* sleeper without being signalled (SleepConditionVariableSRW).            *)
(*                                                                         *)
(* A step is what a thread does between two points where another may       *)
(* interfere: taking the lock, going to sleep, releasing, signalling.      *)
(***************************************************************************)
EXTENDS Integers, Sequences, FiniteSets

CONSTANTS
  Producer, Consumer,   \* the threads
  Item, NoItem,         \* what is queued; the zeroed slot
  QSize,                \* the template parameter
  NoThread              \* the lock is free

Thread == Producer \cup Consumer

ASSUME QueueAssumption ==
  /\ QSize \in Nat \ {0}
  /\ Producer \cap Consumer = {} /\ NoThread \notin Thread

\* A process has finitely many threads.
ASSUME ThreadsAssumption == IsFiniteSet(Producer) /\ IsFiniteSet(Consumer)

VARIABLES
  mQueueArray, mOccupiedSize, mQueueOffset,
  mSRWLock,     \* the thread that holds the lock, or NoThread
  mNotFull,     \* producers asleep on the condition variable
  mNotEmpty,    \* consumers asleep on the condition variable
  pc,           \* where each thread is in Produce or Consume
  item,         \* in a call: the argument of Produce, the result of Consume
  wait          \* waitUntilConsume, waitUntilProduce

ringVars == <<mQueueArray, mOccupiedSize, mQueueOffset>>
vars     == <<ringVars, mSRWLock, mNotFull, mNotEmpty, pc, item, wait>>

Init ==
  /\ mQueueArray = [i \in 0 .. QSize - 1 |-> NoItem]
  /\ mOccupiedSize = 0 /\ mQueueOffset = 0
  /\ mSRWLock = NoThread /\ mNotFull = {} /\ mNotEmpty = {}
  /\ pc = [t \in Thread |-> "idle"]
  /\ item = [t \in Thread |-> NoItem]
  /\ wait = [t \in Thread |-> TRUE]
-----------------------------------------------------------------------------
\* The calls of Produce and Consume.
CallProduce(p, x, w) ==
  /\ pc[p] = "idle" /\ pc' = [pc EXCEPT ![p] = "acquire"]
  /\ item' = [item EXCEPT ![p] = x] /\ wait' = [wait EXCEPT ![p] = w]
  /\ UNCHANGED <<ringVars, mSRWLock, mNotFull, mNotEmpty>>

CallConsume(c, w) ==
  /\ pc[c] = "idle" /\ pc' = [pc EXCEPT ![c] = "acquire"]
  /\ wait' = [wait EXCEPT ![c] = w]
  /\ UNCHANGED <<ringVars, mSRWLock, mNotFull, mNotEmpty, item>>

\* What a call had is gone: its arguments, or its result once it is handed over.
Forget(t) == item' = [item EXCEPT ![t] = NoItem] /\ wait' = [wait EXCEPT ![t] = TRUE]

AcquireSRWLockExclusive(t) ==
  /\ pc[t] = "acquire" /\ mSRWLock = NoThread
  /\ mSRWLock' = t /\ pc' = [pc EXCEPT ![t] = "test"]
  /\ UNCHANGED <<ringVars, mNotFull, mNotEmpty, item, wait>>

\* Mutant: the condition is tested with if instead of while.
ReacquireIf(t) ==
  /\ pc[t] = "reacquire" /\ mSRWLock = NoThread
  /\ mSRWLock' = t /\ pc' = [pc EXCEPT ![t] = "body"]
  /\ UNCHANGED <<ringVars, mNotFull, mNotEmpty, item, wait>>

\* SleepConditionVariableSRW returns with the lock held, and the loop tests
\* its condition again.
Reacquire(t) ==
  /\ pc[t] = "reacquire" /\ mSRWLock = NoThread
  /\ mSRWLock' = t /\ pc' = [pc EXCEPT ![t] = "test"]
  /\ UNCHANGED <<ringVars, mNotFull, mNotEmpty, item, wait>>

(* The condition of the while loop: past the loop with the lock held, or   *)
(* asleep with the lock released, or returning false.                      *)
ProduceTest(p) ==
  /\ pc[p] = "test"
  /\ \/ /\ mOccupiedSize # QSize
        /\ pc' = [pc EXCEPT ![p] = "body"]
        /\ UNCHANGED <<mSRWLock, mNotFull, item, wait>>
     \/ /\ mOccupiedSize = QSize /\ wait[p]
        /\ mNotFull' = mNotFull \cup {p} /\ mSRWLock' = NoThread
        /\ pc' = [pc EXCEPT ![p] = "asleep"] /\ UNCHANGED <<item, wait>>
     \/ /\ mOccupiedSize = QSize /\ ~wait[p]
        /\ mSRWLock' = NoThread /\ UNCHANGED mNotFull
        /\ pc' = [pc EXCEPT ![p] = "idle"] /\ Forget(p)
  /\ UNCHANGED <<ringVars, mNotEmpty>>

ConsumeTest(c) ==
  /\ pc[c] = "test"
  /\ \/ /\ mOccupiedSize # 0
        /\ pc' = [pc EXCEPT ![c] = "body"]
        /\ UNCHANGED <<mSRWLock, mNotEmpty, item, wait>>
     \/ /\ mOccupiedSize = 0 /\ wait[c]
        /\ mNotEmpty' = mNotEmpty \cup {c} /\ mSRWLock' = NoThread
        /\ pc' = [pc EXCEPT ![c] = "asleep"] /\ UNCHANGED <<item, wait>>
     \/ /\ mOccupiedSize = 0 /\ ~wait[c]
        /\ mSRWLock' = NoThread /\ UNCHANGED mNotEmpty
        /\ pc' = [pc EXCEPT ![c] = "idle"] /\ Forget(c)
  /\ UNCHANGED <<ringVars, mNotFull>>

\* The slot i places after the oldest item.
Slot(i) == (mQueueOffset + i) % QSize

\* Store and release.
ProduceBody(p) ==
  /\ pc[p] = "body"
  /\ mQueueArray' = [mQueueArray EXCEPT ![Slot(mOccupiedSize)] = item[p]]
  /\ mOccupiedSize' = mOccupiedSize + 1
  /\ mSRWLock' = NoThread /\ pc' = [pc EXCEPT ![p] = "wake"] /\ Forget(p)
  /\ UNCHANGED <<mQueueOffset, mNotFull, mNotEmpty>>

\* Mutant: the item stored last is taken.
ConsumeBodyNewest(c) ==
  /\ pc[c] = "body"
  /\ item' = [item EXCEPT ![c] = mQueueArray[Slot(mOccupiedSize - 1)]]
  /\ wait' = [wait EXCEPT ![c] = TRUE] /\ mOccupiedSize' = mOccupiedSize - 1
  /\ mSRWLock' = NoThread /\ pc' = [pc EXCEPT ![c] = "wake"]
  /\ UNCHANGED <<mQueueArray, mQueueOffset, mNotFull, mNotEmpty>>

\* Take and release.
ConsumeBody(c) ==
  /\ pc[c] = "body"
  /\ item' = [item EXCEPT ![c] = mQueueArray[mQueueOffset]]
  /\ wait' = [wait EXCEPT ![c] = TRUE] /\ mOccupiedSize' = mOccupiedSize - 1
  /\ mQueueOffset' = IF mQueueOffset + 1 = QSize THEN 0 ELSE mQueueOffset + 1
  /\ mSRWLock' = NoThread /\ pc' = [pc EXCEPT ![c] = "wake"]
  /\ UNCHANGED <<mQueueArray, mNotFull, mNotEmpty>>

\* Mutant: the condition variable is signalled only for the first item.
WakeNotEmptyIfFirst(p) ==
  /\ pc[p] = "wake"
  /\ \/ (mNotEmpty = {} \/ mOccupiedSize # 1) /\ UNCHANGED mNotEmpty
        /\ pc' = [pc EXCEPT ![p] = "idle"]
     \/ \E c \in mNotEmpty :
          /\ mOccupiedSize = 1 /\ mNotEmpty' = mNotEmpty \ {c}
          /\ pc' = [pc EXCEPT ![p] = "idle", ![c] = "reacquire"]
  /\ UNCHANGED <<ringVars, mSRWLock, mNotFull, item, wait>>

\* WakeConditionVariable wakes one sleeper, if there is one.
WakeNotEmpty(p) ==
  /\ pc[p] = "wake"
  /\ \/ mNotEmpty = {} /\ pc' = [pc EXCEPT ![p] = "idle"] /\ UNCHANGED mNotEmpty
     \/ \E c \in mNotEmpty :
          /\ mNotEmpty' = mNotEmpty \ {c}
          /\ pc' = [pc EXCEPT ![p] = "idle", ![c] = "reacquire"]
  /\ UNCHANGED <<ringVars, mSRWLock, mNotFull, item, wait>>

\* Mutant: Consume does not signal.
WakeNobody(c) ==
  /\ pc[c] = "wake" /\ Forget(c) /\ pc' = [pc EXCEPT ![c] = "idle"]
  /\ UNCHANGED <<ringVars, mSRWLock, mNotFull, mNotEmpty>>

WakeNotFull(c) ==
  /\ pc[c] = "wake" /\ Forget(c)
  /\ \/ mNotFull = {} /\ pc' = [pc EXCEPT ![c] = "idle"] /\ UNCHANGED mNotFull
     \/ \E p \in mNotFull :
          /\ mNotFull' = mNotFull \ {p}
          /\ pc' = [pc EXCEPT ![c] = "idle", ![p] = "reacquire"]
  /\ UNCHANGED <<ringVars, mSRWLock, mNotEmpty>>

SpuriousWakeup(t) ==
  /\ pc[t] = "asleep" /\ pc' = [pc EXCEPT ![t] = "reacquire"]
  /\ mNotFull' = mNotFull \ {t} /\ mNotEmpty' = mNotEmpty \ {t}
  /\ UNCHANGED <<ringVars, mSRWLock, item, wait>>
-----------------------------------------------------------------------------
ProducerStep(p) == ProduceTest(p) \/ ProduceBody(p) \/ WakeNotEmpty(p)
ConsumerStep(c) == ConsumeTest(c) \/ ConsumeBody(c) \/ WakeNotFull(c)
Lock(t)         == AcquireSRWLockExclusive(t) \/ Reacquire(t)

Next ==
  \/ \E p \in Producer :
       (\E x \in Item, w \in BOOLEAN : CallProduce(p, x, w)) \/ ProducerStep(p)
  \/ \E c \in Consumer : (\E w \in BOOLEAN : CallConsume(c, w)) \/ ConsumerStep(c)
  \/ \E t \in Thread : Lock(t) \/ SpuriousWakeup(t)

Spec == Init /\ [][Next]_vars

(* A thread that is inside an operation goes on, and one that waits for    *)
(* the lock gets it; nobody has to call, and nobody wakes spuriously.      *)
FairSpec ==
  /\ Spec
  /\ \A p \in Producer : WF_vars(ProducerStep(p))
  /\ \A c \in Consumer : WF_vars(ConsumerStep(c))
  /\ \A t \in Thread : SF_vars(Lock(t))
-----------------------------------------------------------------------------
Pc == {"idle", "acquire", "reacquire", "test", "body", "asleep", "wake"}

(* Every variable has its type: the ring is never over- or underfull and   *)
(* its offset is the index of a slot.                                      *)
TypeOK ==
  /\ mQueueArray \in [0 .. QSize - 1 -> Item \cup {NoItem}]
  /\ mOccupiedSize \in 0 .. QSize /\ mQueueOffset \in 0 .. QSize - 1
  /\ mSRWLock \in Thread \cup {NoThread}
  /\ mNotFull \subseteq Producer /\ mNotEmpty \subseteq Consumer
  /\ pc \in [Thread -> Pc] /\ item \in [Thread -> Item \cup {NoItem}]
  /\ wait \in [Thread -> BOOLEAN]

\* Threads that will look at the queue again without being woken.
Active(T)  == {t \in T : pc[t] \in {"acquire", "reacquire", "test", "body"}}
Waking(T)  == {t \in T : pc[t] = "wake"}

(* No wakeup is lost although the lock is released first: while a consumer *)
(* sleeps, every item in the queue has a producer that is about to signal  *)
(* or a consumer that is about to look; and the same of free slots while a *)
(* producer sleeps (Produce and Consume, their last three lines).          *)
NoLostWakeup ==
  /\ mNotEmpty # {} =>
       mOccupiedSize <= Cardinality(Waking(Producer)) + Cardinality(Active(Consumer))
  /\ mNotFull # {} =>
       QSize - mOccupiedSize <= Cardinality(Waking(Consumer)) + Cardinality(Active(Producer))

\* The items in the ring, oldest first.
Contents == [i \in 1 .. mOccupiedSize |-> mQueueArray[Slot(i - 1)]]

Abstract == INSTANCE BoundedQueue WITH queue <- Contents

(* Produce and Consume are atomic operations of a first-in first-out queue *)
(* of QSize items: none is lost, duplicated, overwritten or reordered,     *)
(* whatever the interleaving.                                              *)
RefinesBoundedQueue == Abstract!Spec

(* A producer asleep on a full queue is woken once a consumer makes room,  *)
(* and a consumer asleep on an empty one once an item arrives: neither     *)
(* stays in SleepConditionVariableSRW beside a queue that would let it     *)
(* proceed.                                                                *)
SleepersWoken ==
  /\ (mNotEmpty # {} /\ mOccupiedSize > 0) ~> (mNotEmpty = {} \/ mOccupiedSize = 0)
  /\ (mNotFull # {} /\ mOccupiedSize < QSize) ~> (mNotFull = {} \/ mOccupiedSize = QSize)
=============================================================================
