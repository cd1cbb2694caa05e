-------------------- MODULE ProducerConsumerQueueProofs --------------------
(* Proofs about ProducerConsumerQueue for any number of threads and slots. *)
EXTENDS ProducerConsumerQueue, FiniteSetTheorems, TLAPS

(* Who holds the lock is where the lock is needed, so at most one thread   *)
(* is there; past its loop a thread finds the room or the item it tested   *)
(* for.  Who is in a condition variable's set is asleep.                   *)
LockInv ==
  /\ \A t \in Thread : pc[t] \in {"test", "body"} <=> mSRWLock = t
  /\ \A p \in Producer : pc[p] = "body" => mOccupiedSize < QSize
  /\ \A c \in Consumer : pc[c] = "body" => mOccupiedSize > 0
  /\ \A t \in mNotFull \cup mNotEmpty : pc[t] = "asleep"

Inv == TypeOK /\ LockInv
-----------------------------------------------------------------------------
(* The constructed queue satisfies the invariant.                          *)
LEMMA InitInv == Init => Inv
<1> SUFFICES ASSUME Init PROVE Inv
  OBVIOUS
<1>1. TypeOK
  BY QueueAssumption DEF Init, TypeOK, Pc
<1>2. LockInv
  BY QueueAssumption DEF Init, LockInv, Thread
<1> QED  BY <1>1, <1>2 DEF Inv

(* Calls and the lock.                                                     *)
LEMMA CallInv ==
  ASSUME Inv,
         \/ \E p \in Producer, x \in Item, w \in BOOLEAN : CallProduce(p, x, w)
         \/ \E c \in Consumer, w \in BOOLEAN : CallConsume(c, w)
  PROVE  Inv'
<1>1. TypeOK'
  BY DEF Inv, TypeOK, Pc, CallProduce, CallConsume, ringVars, Thread
<1>2. LockInv'
  BY DEF Inv, TypeOK, LockInv, CallProduce, CallConsume, ringVars, Thread
<1> QED  BY <1>1, <1>2 DEF Inv

(* Taking the lock, at first or after a wakeup, leads to the test.         *)
LEMMA LockStepInv ==
  ASSUME Inv, NEW t \in Thread, Lock(t) \/ SpuriousWakeup(t)
  PROVE  Inv'
<1> USE DEF Lock, AcquireSRWLockExclusive, Reacquire, SpuriousWakeup, ringVars
<1>1. TypeOK'
  BY DEF Inv, TypeOK, Pc
<1>2. LockInv'
  BY QueueAssumption DEF Inv, TypeOK, LockInv, Thread
<1> QED  BY <1>1, <1>2 DEF Inv

(* The tests, the bodies and the signals of the two operations.            *)
LEMMA ProducerStepInv ==
  ASSUME Inv, NEW p \in Producer, ProducerStep(p)
  PROVE  Inv'
<1>1. CASE ProduceTest(p)
  <2>1. TypeOK'
    BY <1>1 DEF Inv, TypeOK, Pc, ProduceTest, Forget, ringVars, Thread
  <2>2. LockInv'
    BY <1>1, QueueAssumption DEF Inv, TypeOK, LockInv, ProduceTest, ringVars, Thread
  <2> QED  BY <2>1, <2>2 DEF Inv
<1>2. CASE ProduceBody(p)
  <2>1. mOccupiedSize < QSize
    BY <1>2 DEF Inv, LockInv, ProduceBody
  <2>2. TypeOK'
    <3>1. mQueueArray' \in [0 .. QSize - 1 -> Item \cup {NoItem}]
      BY <1>2 DEF Inv, TypeOK, ProduceBody, Thread
    <3> QED  BY <1>2, <2>1, <3>1, QueueAssumption DEF Inv, TypeOK, Pc, ProduceBody, Forget, Thread
  <2>3. LockInv'
    BY <1>2, <2>1, QueueAssumption DEF Inv, TypeOK, LockInv, ProduceBody, Thread
  <2> QED  BY <2>2, <2>3 DEF Inv
<1>3. CASE WakeNotEmpty(p)
  <2>1. TypeOK'
    BY <1>3 DEF Inv, TypeOK, Pc, WakeNotEmpty, Forget, ringVars, Thread
  <2>2. LockInv'
    BY <1>3, QueueAssumption DEF Inv, TypeOK, LockInv, WakeNotEmpty, ringVars, Thread
  <2> QED  BY <2>1, <2>2 DEF Inv
<1> QED  BY <1>1, <1>2, <1>3 DEF ProducerStep

(* The steps of Consume keep the ring and the lock consistent.             *)
LEMMA ConsumerStepInv ==
  ASSUME Inv, NEW c \in Consumer, ConsumerStep(c)
  PROVE  Inv'
<1>1. CASE ConsumeTest(c)
  <2>1. TypeOK'
    BY <1>1 DEF Inv, TypeOK, Pc, ConsumeTest, Forget, ringVars, Thread
  <2>2. LockInv'
    BY <1>1, QueueAssumption DEF Inv, TypeOK, LockInv, ConsumeTest, ringVars, Thread
  <2> QED  BY <2>1, <2>2 DEF Inv
<1>2. CASE ConsumeBody(c)
  <2>1. mOccupiedSize > 0
    BY <1>2 DEF Inv, LockInv, ConsumeBody
  <2>2. TypeOK'
    BY <1>2, <2>1, QueueAssumption DEF Inv, TypeOK, Pc, ConsumeBody, Thread
  <2>3. LockInv'
    BY <1>2, <2>1, QueueAssumption DEF Inv, TypeOK, LockInv, ConsumeBody, Thread
  <2> QED  BY <2>2, <2>3 DEF Inv
<1>3. CASE WakeNotFull(c)
  <2>1. TypeOK'
    BY <1>3 DEF Inv, TypeOK, Pc, WakeNotFull, Forget, ringVars, Thread
  <2>2. LockInv'
    BY <1>3, QueueAssumption DEF Inv, TypeOK, LockInv, WakeNotFull, ringVars, Thread
  <2> QED  BY <2>1, <2>2 DEF Inv
<1> QED  BY <1>1, <1>2, <1>3 DEF ConsumerStep

(* Every step of every thread preserves the invariant.                     *)
LEMMA NextInv == Inv /\ [Next]_vars => Inv'
<1> SUFFICES ASSUME Inv, [Next]_vars PROVE Inv'
  OBVIOUS
<1>1. CASE UNCHANGED vars
  BY <1>1 DEF Inv, TypeOK, LockInv, vars, ringVars
<1>2. CASE Next
  BY <1>2, CallInv, LockStepInv, ProducerStepInv, ConsumerStepInv DEF Next
<1> QED  BY <1>1, <1>2

(* The invariant holds in every reachable state of the queue.              *)
THEOREM Invariance == Spec => []Inv
  BY InitInv, NextInv, PTL DEF Spec

(* The ring is never over- or underfull and its offset is always the index *)
(* of a slot, for any number of producers and consumers.                   *)
THEOREM TypeCorrect == Spec => []TypeOK
<1>1. Inv => TypeOK
  BY DEF Inv
<1> QED  BY <1>1, Invariance, PTL
-----------------------------------------------------------------------------
(* Refinement.  Where the ring wraps, the remainder is one subtraction.    *)
LEMMA SlotValue ==
  ASSUME TypeOK, NEW j \in 0 .. QSize
  PROVE  /\ Slot(j) = IF mQueueOffset + j < QSize THEN mQueueOffset + j
                                                  ELSE mQueueOffset + j - QSize
         /\ Slot(j) \in 0 .. QSize - 1
<1>0. QSize \in Nat \ {0} /\ mQueueOffset \in 0 .. QSize - 1
  BY QueueAssumption DEF TypeOK
<1>1. CASE mQueueOffset + j < QSize
  BY <1>0, <1>1 DEF Slot
<1>2. CASE mQueueOffset + j >= QSize
  BY <1>0, <1>2 DEF Slot
<1> QED  BY <1>0, <1>1, <1>2

(* What the ring holds is a sequence of mOccupiedSize items.               *)
LEMMA ContentsType ==
  ASSUME TypeOK
  PROVE  /\ Contents \in Seq(Item \cup {NoItem})
         /\ Len(Contents) = mOccupiedSize
         /\ \A i \in 1 .. mOccupiedSize : Contents[i] = mQueueArray[Slot(i - 1)]
<1>1. \A i \in 1 .. mOccupiedSize : Slot(i - 1) \in 0 .. QSize - 1
  BY SlotValue, QueueAssumption DEF TypeOK
<1> QED  BY <1>1, QueueAssumption DEF TypeOK, Contents

(* Storing behind the newest item appends it: the slot is none of those in *)
(* use.                                                                    *)
LEMMA ProduceBodyRefines ==
  ASSUME Inv, NEW p \in Producer, ProduceBody(p)
  PROVE  Abstract!Produce(p)
<1> DEFINE n == mOccupiedSize
<1>1. n \in 0 .. QSize - 1 /\ mQueueOffset \in 0 .. QSize - 1 /\ QSize \in Nat \ {0}
  BY QueueAssumption DEF Inv, TypeOK, LockInv, ProduceBody
<1>2. TypeOK /\ item[p] \in Item \cup {NoItem}
  BY DEF Inv, TypeOK, Thread
<1>3. \A j \in 0 .. n : /\ Slot(j) \in 0 .. QSize - 1
                        /\ j # n => Slot(j) # Slot(n)
  BY <1>1, <1>2, SlotValue
<1>4. /\ mQueueArray' = [mQueueArray EXCEPT ![Slot(n)] = item[p]]
      /\ mOccupiedSize' = n + 1 /\ item' = [item EXCEPT ![p] = NoItem]
      /\ \A j \in 0 .. n : Slot(j)' = Slot(j)
  BY DEF ProduceBody, Forget, Slot
<1>5. /\ Contents \in Seq(Item \cup {NoItem}) /\ Len(Contents) = n
      /\ \A i \in 1 .. n : Contents[i] = mQueueArray[Slot(i - 1)]
  BY <1>2, ContentsType
<1>6. Contents' = [i \in 1 .. n + 1 |-> mQueueArray'[Slot(i - 1)]]
  BY <1>1, <1>4 DEF Contents
<1> DEFINE longer == Append(Contents, item[p])
<1>7. /\ longer \in Seq(Item \cup {NoItem}) /\ Len(longer) = n + 1
      /\ longer[n + 1] = item[p] /\ \A i \in 1 .. n : longer[i] = Contents[i]
  BY <1>1, <1>2, <1>5
<1> HIDE DEF longer
<1>8. ASSUME NEW i \in 1 .. n + 1
      PROVE  mQueueArray'[Slot(i - 1)] = longer[i]
  <2>1. CASE i = n + 1
    <3>1. i - 1 = n
      BY <1>1, <2>1
    <3>2. mQueueArray'[Slot(n)] = item[p]
      BY <1>1, <1>2, <1>3, <1>4 DEF TypeOK
    <3> QED  BY <2>1, <3>1, <3>2, <1>7
  <2>2. CASE i # n + 1
    <3>1. i \in 1 .. n /\ i - 1 \in 0 .. n /\ i - 1 # n
      BY <1>1, <2>2
    <3>2. mQueueArray'[Slot(i - 1)] = mQueueArray[Slot(i - 1)]
      BY <3>1, <1>2, <1>3, <1>4 DEF TypeOK
    <3> QED  BY <3>1, <3>2, <1>5, <1>7
  <2> QED  BY <2>1, <2>2
<1>9. Contents' = longer
  BY <1>1, <1>6, <1>7, <1>8
<1> QED  BY <1>1, <1>4, <1>5, <1>9 DEF Abstract!Produce, longer

(* Taking at the offset and advancing it removes the oldest item.          *)
LEMMA ConsumeBodyRefines ==
  ASSUME Inv, NEW c \in Consumer, ConsumeBody(c)
  PROVE  Abstract!Consume(c)
<1> DEFINE n == mOccupiedSize
<1>1. n \in 1 .. QSize /\ mQueueOffset \in 0 .. QSize - 1 /\ QSize \in Nat \ {0}
  BY QueueAssumption DEF Inv, TypeOK, LockInv, ConsumeBody
<1>2. TypeOK /\ TypeOK'
  BY ConsumerStepInv DEF Inv, ConsumerStep
<1>3. /\ mQueueArray' = mQueueArray /\ mOccupiedSize' = n - 1
      /\ item' = [item EXCEPT ![c] = mQueueArray[mQueueOffset]]
  BY DEF ConsumeBody
<1>4. Slot(0) = mQueueOffset
  BY <1>1, <1>2, SlotValue
<1>5. ASSUME NEW j \in 0 .. QSize - 1
      PROVE  Slot(j)' = Slot(j + 1)
  <2>1. Slot(j + 1) = IF mQueueOffset + (j + 1) < QSize THEN mQueueOffset + (j + 1)
                                                        ELSE mQueueOffset + (j + 1) - QSize
    BY <1>1, <1>2, SlotValue
  <2>2. Slot(j)' = (mQueueOffset' + j) % QSize
    BY DEF Slot
  <2>3. mQueueOffset' = IF mQueueOffset + 1 = QSize THEN 0 ELSE mQueueOffset + 1
    BY DEF ConsumeBody
  <2>4. CASE mQueueOffset' + j < QSize
    BY <2>1, <2>2, <2>3, <2>4, <1>1
  <2>5. CASE mQueueOffset' + j >= QSize
    BY <2>1, <2>2, <2>3, <2>5, <1>1
  <2> QED  BY <1>1, <2>3, <2>4, <2>5
<1>6. /\ Contents \in Seq(Item \cup {NoItem}) /\ Len(Contents) = n
      /\ \A i \in 1 .. n : Contents[i] = mQueueArray[Slot(i - 1)]
  BY <1>2, ContentsType
<1>7. Contents # <<>> /\ Head(Contents) = mQueueArray[mQueueOffset]
  BY <1>1, <1>4, <1>6
<1> DEFINE rest == Tail(Contents)
<1>8. /\ rest \in Seq(Item \cup {NoItem}) /\ Len(rest) = n - 1
      /\ \A i \in 1 .. n - 1 : rest[i] = Contents[i + 1]
  BY <1>1, <1>6
<1> HIDE DEF rest
<1>9. Contents' = [i \in 1 .. n - 1 |-> mQueueArray[Slot(i - 1)']]
  BY <1>3 DEF Contents
<1>10. ASSUME NEW i \in 1 .. n - 1
       PROVE  mQueueArray[Slot(i - 1)'] = rest[i]
  <2>1. i - 1 \in 0 .. QSize - 1 /\ (i - 1) + 1 = i /\ i + 1 \in 1 .. n /\ (i + 1) - 1 = i
    BY <1>1
  <2>2. Slot(i - 1)' = Slot(i)
    BY <2>1, <1>5
  <2> QED  BY <2>1, <2>2, <1>6, <1>8
<1>11. Contents' = rest
  BY <1>1, <1>8, <1>9, <1>10
<1> QED  BY <1>3, <1>7, <1>11 DEF Abstract!Consume, rest

(* Produce and Consume are atomic operations of a bounded first-in         *)
(* first-out queue, for any number of threads and of slots: every step is  *)
(* a step of BoundedQueue or leaves its variables alone.                   *)
THEOREM Refinement == Spec => RefinesBoundedQueue
<1>1. Init => Abstract!Init
  <2> SUFFICES ASSUME Init PROVE Abstract!Init
    OBVIOUS
  <2>1. TypeOK /\ mOccupiedSize = 0
    BY InitInv DEF Init, Inv
  <2>2. Contents = <<>>
    BY <2>1, ContentsType
  <2> QED  BY <2>2 DEF Init, Abstract!Init, Thread
<1>2. Inv /\ [Next]_vars => [Abstract!Next]_<<Contents, item>>
  <2> SUFFICES ASSUME Inv, [Next]_vars
               PROVE  Abstract!Next \/ (Contents' = Contents /\ item' = item)
    OBVIOUS
  <2>1. ASSUME UNCHANGED ringVars
        PROVE  Contents' = Contents
    BY <2>1 DEF Contents, Slot, ringVars
  <2>2. CASE UNCHANGED vars
    BY <2>1, <2>2 DEF vars
  <2>3. ASSUME NEW p \in Producer, NEW x \in Item, NEW w \in BOOLEAN, CallProduce(p, x, w)
        PROVE  Abstract!Next
    BY <2>1, <2>3 DEF CallProduce, Abstract!Next, Abstract!Offer
  <2>4. ASSUME NEW c \in Consumer, NEW w \in BOOLEAN, CallConsume(c, w)
        PROVE  Contents' = Contents /\ item' = item
    BY <2>1, <2>4 DEF CallConsume
  <2>5. ASSUME NEW t \in Thread, Lock(t) \/ SpuriousWakeup(t)
        PROVE  Contents' = Contents /\ item' = item
    BY <2>1, <2>5 DEF Lock, AcquireSRWLockExclusive, Reacquire, SpuriousWakeup
  <2>6. ASSUME NEW p \in Producer, ProducerStep(p)
        PROVE  Abstract!Next \/ (Contents' = Contents /\ item' = item)
    <3>1. CASE ProduceBody(p)
      BY <3>1, ProduceBodyRefines DEF Abstract!Next
    <3>2. CASE ProduceTest(p) \/ WakeNotEmpty(p)
      <4>1. Contents' = Contents /\ (item' = item \/ item' = [item EXCEPT ![p] = NoItem])
        BY <2>1, <3>2 DEF ProduceTest, WakeNotEmpty, Forget
      <4> QED  BY <4>1 DEF Abstract!Next, Abstract!Return
    <3> QED  BY <2>6, <3>1, <3>2 DEF ProducerStep
  <2>7. ASSUME NEW c \in Consumer, ConsumerStep(c)
        PROVE  Abstract!Next \/ (Contents' = Contents /\ item' = item)
    <3>1. CASE ConsumeBody(c)
      BY <3>1, ConsumeBodyRefines DEF Abstract!Next
    <3>2. CASE ConsumeTest(c) \/ WakeNotFull(c)
      <4>1. Contents' = Contents /\ (item' = item \/ item' = [item EXCEPT ![c] = NoItem])
        BY <2>1, <3>2 DEF ConsumeTest, WakeNotFull, Forget
      <4> QED  BY <4>1 DEF Abstract!Next, Abstract!Return
    <3> QED  BY <2>7, <3>1, <3>2 DEF ConsumerStep
  <2> QED  BY <2>2, <2>3, <2>4, <2>5, <2>6, <2>7 DEF Next
<1> QED  BY <1>1, <1>2, Invariance, PTL DEF Spec, RefinesBoundedQueue, Abstract!Spec
-----------------------------------------------------------------------------
(* The threads that are about to signal and those that are about to look   *)
(* can be counted.                                                         *)
LEMMA Counts ==
  ASSUME NEW T \in {Producer, Consumer}
  PROVE  /\ IsFiniteSet(Waking(T)) /\ IsFiniteSet(Active(T))
         /\ Cardinality(Waking(T)) \in Nat /\ Cardinality(Active(T)) \in Nat
<1>1. IsFiniteSet(T) /\ Waking(T) \in SUBSET T /\ Active(T) \in SUBSET T
  BY ThreadsAssumption DEF Waking, Active
<1>2. IsFiniteSet(Waking(T)) /\ IsFiniteSet(Active(T))
  BY <1>1, FS_Subset
<1> QED  BY <1>2, FS_CardinalityType

(* A thread t of T that moves to a place where it will look at the queue   *)
(* is counted with the active ones; nobody else of T moved.                *)
LEMMA Joins ==
  ASSUME Inv, NEW T \in {Producer, Consumer}, NEW t \in T,
         \A u \in T \ {t} : pc'[u] = pc[u],
         pc[t] \notin {"acquire", "reacquire", "test", "body", "wake"},
         pc'[t] \in {"acquire", "reacquire"}
  PROVE  /\ Cardinality(Active(T)') = Cardinality(Active(T)) + 1
         /\ Waking(T)' = Waking(T)
<1>1. Active(T)' = Active(T) \cup {t} /\ t \notin Active(T) /\ Waking(T)' = Waking(T)
  BY DEF Active, Waking
<1>2. Cardinality(Active(T) \cup {t}) = Cardinality(Active(T)) + 1
  BY <1>1, Counts, FS_AddElement
<1> QED  BY <1>1, <1>2

(* A thread t of T that leaves its loop's body is counted with those that  *)
(* are about to signal instead.                                            *)
LEMMA Finishes ==
  ASSUME Inv, NEW T \in {Producer, Consumer}, NEW t \in T,
         \A u \in T \ {t} : pc'[u] = pc[u], pc[t] = "body", pc'[t] = "wake"
  PROVE  /\ Cardinality(Active(T)') = Cardinality(Active(T)) - 1
         /\ Cardinality(Waking(T)') = Cardinality(Waking(T)) + 1
<1>1. /\ Active(T)' = Active(T) \ {t} /\ t \in Active(T)
      /\ Waking(T)' = Waking(T) \cup {t} /\ t \notin Waking(T)
  BY DEF Active, Waking
<1>2. Cardinality(Waking(T) \cup {t}) = Cardinality(Waking(T)) + 1
  BY <1>1, Counts, FS_AddElement
<1>3. Cardinality(Active(T) \ {t}) = Cardinality(Active(T)) - 1
  BY <1>1, Counts, FS_RemoveElement
<1> QED  BY <1>1, <1>2, <1>3

(* A thread t of T that has signalled is counted no more.                  *)
LEMMA Signals ==
  ASSUME Inv, NEW T \in {Producer, Consumer}, NEW t \in T,
         \A u \in T \ {t} : pc'[u] = pc[u], pc[t] = "wake", pc'[t] = "idle"
  PROVE  /\ Active(T)' = Active(T)
         /\ Cardinality(Waking(T)') = Cardinality(Waking(T)) - 1
<1>1. Active(T)' = Active(T) /\ Waking(T)' = Waking(T) \ {t} /\ t \in Waking(T)
  BY DEF Active, Waking
<1> QED  BY <1>1, Counts, FS_RemoveElement

(* Nobody of T moved between the two groups.                               *)
LEMMA Stays ==
  ASSUME NEW T \in {Producer, Consumer},
         \A u \in T : \/ pc'[u] = pc[u]
                      \/ /\ pc[u] \in {"acquire", "reacquire", "test"}
                         /\ pc'[u] \in {"test", "body"}
  PROVE  Active(T)' = Active(T) /\ Waking(T)' = Waking(T)
  BY DEF Active, Waking
-----------------------------------------------------------------------------
(* The steps of a producer.  Storing an item adds one to what consumers    *)
(* have to be told of and one producer that will; going to sleep happens   *)
(* only beside a full queue, of which no producer has to be told.          *)
LEMMA ProducerKeepsWakeups ==
  ASSUME Inv, NoLostWakeup, NEW p \in Producer,
         ProducerStep(p) \/ \E x \in Item, w \in BOOLEAN : CallProduce(p, x, w)
  PROVE  NoLostWakeup'
<1>0. /\ pc \in [Thread -> Pc] /\ Producer \subseteq Thread /\ Consumer \subseteq Thread
      /\ Producer \cap Consumer = {} /\ p \notin Consumer
      /\ QSize \in Nat \ {0} /\ mOccupiedSize \in 0 .. QSize
      /\ mNotEmpty \subseteq Consumer
  BY QueueAssumption DEF Inv, TypeOK, Thread
<1>c. /\ Cardinality(Waking(Producer)) \in Nat /\ Cardinality(Active(Producer)) \in Nat
      /\ Cardinality(Waking(Consumer)) \in Nat /\ Cardinality(Active(Consumer)) \in Nat
  BY Counts
<1>1. CASE \E x \in Item, w \in BOOLEAN : CallProduce(p, x, w)
  <2>1. /\ pc[p] = "idle" /\ pc' = [pc EXCEPT ![p] = "acquire"]
        /\ UNCHANGED <<mOccupiedSize, mNotFull, mNotEmpty>>
    BY <1>1 DEF CallProduce, ringVars
  <2>2. /\ Cardinality(Active(Producer)') = Cardinality(Active(Producer)) + 1
        /\ Waking(Producer)' = Waking(Producer)
    BY <1>0, <2>1, Joins
  <2>3. Active(Consumer)' = Active(Consumer) /\ Waking(Consumer)' = Waking(Consumer)
    BY <1>0, <2>1, Stays
  <2> QED  BY <1>0, <1>c, <2>1, <2>2, <2>3 DEF NoLostWakeup
<1>2. CASE ProduceTest(p)
  <2>0. pc[p] = "test" /\ UNCHANGED <<mOccupiedSize, mNotEmpty>>
    BY <1>2 DEF ProduceTest, ringVars
  <2>1. CASE mOccupiedSize # QSize /\ pc' = [pc EXCEPT ![p] = "body"] /\ UNCHANGED mNotFull
    <3>1. /\ Active(Producer)' = Active(Producer) /\ Waking(Producer)' = Waking(Producer)
          /\ Active(Consumer)' = Active(Consumer) /\ Waking(Consumer)' = Waking(Consumer)
      BY <1>0, <2>0, <2>1, Stays
    <3> QED  BY <2>0, <2>1, <3>1 DEF NoLostWakeup
  <2>2. CASE mOccupiedSize = QSize /\ \E q \in {"asleep", "idle"} : pc' = [pc EXCEPT ![p] = q]
    <3>1. Waking(Producer)' = Waking(Producer)
      BY <1>0, <2>0, <2>2 DEF Waking
    <3>2. Active(Consumer)' = Active(Consumer)
      BY <1>0, <2>2, Stays
    <3>3. QSize - mOccupiedSize' = 0
      BY <1>0, <2>0, <2>2
    <3>4. Cardinality(Waking(Consumer)') \in Nat /\ Cardinality(Active(Producer)') \in Nat
      <4>1. /\ Waking(Consumer)' \in SUBSET Consumer /\ IsFiniteSet(Consumer)
            /\ Active(Producer)' \in SUBSET Producer /\ IsFiniteSet(Producer)
        BY ThreadsAssumption DEF Waking, Active
      <4> QED  BY <4>1, FS_Subset, FS_CardinalityType
    <3> QED  BY <2>0, <3>1, <3>2, <3>3, <3>4 DEF NoLostWakeup
  <2> QED  BY <1>2, <2>1, <2>2 DEF ProduceTest
<1>3. CASE ProduceBody(p)
  <2>1. /\ pc[p] = "body" /\ pc' = [pc EXCEPT ![p] = "wake"]
        /\ mOccupiedSize' = mOccupiedSize + 1 /\ UNCHANGED <<mNotFull, mNotEmpty>>
    BY <1>3 DEF ProduceBody
  <2>2. /\ Cardinality(Active(Producer)') = Cardinality(Active(Producer)) - 1
        /\ Cardinality(Waking(Producer)') = Cardinality(Waking(Producer)) + 1
    BY <1>0, <2>1, Finishes
  <2>3. Active(Consumer)' = Active(Consumer) /\ Waking(Consumer)' = Waking(Consumer)
    BY <1>0, <2>1, Stays
  <2> QED  BY <1>0, <1>c, <2>1, <2>2, <2>3 DEF NoLostWakeup
<1>4. CASE WakeNotEmpty(p)
  <2>0. pc[p] = "wake" /\ UNCHANGED <<mOccupiedSize, mNotFull>>
    BY <1>4 DEF WakeNotEmpty, ringVars
  <2>1. CASE mNotEmpty = {} /\ pc' = [pc EXCEPT ![p] = "idle"] /\ UNCHANGED mNotEmpty
    <3>1. /\ Active(Producer)' = Active(Producer)
          /\ Waking(Consumer)' = Waking(Consumer)
      BY <1>0, <2>0, <2>1, Signals, Stays
    <3> QED  BY <2>0, <2>1, <3>1 DEF NoLostWakeup
  <2>2. ASSUME NEW c \in mNotEmpty, mNotEmpty' = mNotEmpty \ {c},
               pc' = [pc EXCEPT ![p] = "idle", ![c] = "reacquire"]
        PROVE  NoLostWakeup'
    <3>0. c \in Consumer /\ c # p /\ pc[c] = "asleep"
      BY <1>0 DEF Inv, LockInv
    <3>1. /\ Active(Producer)' = Active(Producer)
          /\ Cardinality(Waking(Producer)') = Cardinality(Waking(Producer)) - 1
      <4>1. \A u \in Producer \ {p} : pc'[u] = pc[u]
        BY <1>0, <2>2, <3>0
      <4>2. pc'[p] = "idle"
        BY <1>0, <2>2, <3>0
      <4> QED  BY <2>0, <4>1, <4>2, Signals
    <3>2. /\ Cardinality(Active(Consumer)') = Cardinality(Active(Consumer)) + 1
          /\ Waking(Consumer)' = Waking(Consumer)
      <4>1. \A u \in Consumer \ {c} : pc'[u] = pc[u]
        BY <1>0, <2>2, <3>0
      <4>2. pc'[c] = "reacquire"
        BY <1>0, <2>2, <3>0
      <4> QED  BY <3>0, <4>1, <4>2, Joins
    <3>3. mNotEmpty # {}
      BY <2>2
    <3> QED  BY <1>0, <1>c, <2>0, <3>1, <3>2, <3>3 DEF NoLostWakeup
  <2> QED  BY <1>4, <2>1, <2>2 DEF WakeNotEmpty
<1> QED  BY <1>1, <1>2, <1>3, <1>4 DEF ProducerStep

(* The steps of a consumer, the same with free slots for items: going to   *)
(* sleep happens only beside an empty queue.                               *)
LEMMA ConsumerKeepsWakeups ==
  ASSUME Inv, NoLostWakeup, NEW c \in Consumer,
         ConsumerStep(c) \/ \E w \in BOOLEAN : CallConsume(c, w)
  PROVE  NoLostWakeup'
<1>0. /\ pc \in [Thread -> Pc] /\ Consumer \subseteq Thread /\ Producer \subseteq Thread
      /\ Consumer \cap Producer = {} /\ c \notin Producer
      /\ QSize \in Nat \ {0} /\ mOccupiedSize \in 0 .. QSize
      /\ mNotFull \subseteq Producer
  BY QueueAssumption DEF Inv, TypeOK, Thread
<1>c. /\ Cardinality(Waking(Consumer)) \in Nat /\ Cardinality(Active(Consumer)) \in Nat
      /\ Cardinality(Waking(Producer)) \in Nat /\ Cardinality(Active(Producer)) \in Nat
  BY Counts
<1>1. CASE \E w \in BOOLEAN : CallConsume(c, w)
  <2>1. /\ pc[c] = "idle" /\ pc' = [pc EXCEPT ![c] = "acquire"]
        /\ UNCHANGED <<mOccupiedSize, mNotEmpty, mNotFull>>
    BY <1>1 DEF CallConsume, ringVars
  <2>2. /\ Cardinality(Active(Consumer)') = Cardinality(Active(Consumer)) + 1
        /\ Waking(Consumer)' = Waking(Consumer)
    BY <1>0, <2>1, Joins
  <2>3. Active(Producer)' = Active(Producer) /\ Waking(Producer)' = Waking(Producer)
    BY <1>0, <2>1, Stays
  <2> QED  BY <1>0, <1>c, <2>1, <2>2, <2>3 DEF NoLostWakeup
<1>2. CASE ConsumeTest(c)
  <2>0. pc[c] = "test" /\ UNCHANGED <<mOccupiedSize, mNotFull>>
    BY <1>2 DEF ConsumeTest, ringVars
  <2>1. CASE mOccupiedSize # 0 /\ pc' = [pc EXCEPT ![c] = "body"] /\ UNCHANGED mNotEmpty
    <3>1. /\ Active(Consumer)' = Active(Consumer) /\ Waking(Consumer)' = Waking(Consumer)
          /\ Active(Producer)' = Active(Producer) /\ Waking(Producer)' = Waking(Producer)
      BY <1>0, <2>0, <2>1, Stays
    <3> QED  BY <2>0, <2>1, <3>1 DEF NoLostWakeup
  <2>2. CASE mOccupiedSize = 0 /\ \E q \in {"asleep", "idle"} : pc' = [pc EXCEPT ![c] = q]
    <3>1. Waking(Consumer)' = Waking(Consumer)
      BY <1>0, <2>0, <2>2 DEF Waking
    <3>2. Active(Producer)' = Active(Producer)
      BY <1>0, <2>2, Stays
    <3>3. mOccupiedSize' = 0
      BY <1>0, <2>0, <2>2
    <3>4. Cardinality(Waking(Producer)') \in Nat /\ Cardinality(Active(Consumer)') \in Nat
      <4>1. /\ Waking(Producer)' \in SUBSET Producer /\ IsFiniteSet(Producer)
            /\ Active(Consumer)' \in SUBSET Consumer /\ IsFiniteSet(Consumer)
        BY ThreadsAssumption DEF Waking, Active
      <4> QED  BY <4>1, FS_Subset, FS_CardinalityType
    <3> QED  BY <2>0, <3>1, <3>2, <3>3, <3>4 DEF NoLostWakeup
  <2> QED  BY <1>2, <2>1, <2>2 DEF ConsumeTest
<1>3. CASE ConsumeBody(c)
  <2>1. /\ pc[c] = "body" /\ pc' = [pc EXCEPT ![c] = "wake"]
        /\ mOccupiedSize' = mOccupiedSize - 1 /\ UNCHANGED <<mNotEmpty, mNotFull>>
    BY <1>3 DEF ConsumeBody
  <2>2. /\ Cardinality(Active(Consumer)') = Cardinality(Active(Consumer)) - 1
        /\ Cardinality(Waking(Consumer)') = Cardinality(Waking(Consumer)) + 1
    BY <1>0, <2>1, Finishes
  <2>3. Active(Producer)' = Active(Producer) /\ Waking(Producer)' = Waking(Producer)
    BY <1>0, <2>1, Stays
  <2> QED  BY <1>0, <1>c, <2>1, <2>2, <2>3 DEF NoLostWakeup
<1>4. CASE WakeNotFull(c)
  <2>0. pc[c] = "wake" /\ UNCHANGED <<mOccupiedSize, mNotEmpty>>
    BY <1>4 DEF WakeNotFull, ringVars
  <2>1. CASE mNotFull = {} /\ pc' = [pc EXCEPT ![c] = "idle"] /\ UNCHANGED mNotFull
    <3>1. /\ Active(Consumer)' = Active(Consumer)
          /\ Waking(Producer)' = Waking(Producer)
      BY <1>0, <2>0, <2>1, Signals, Stays
    <3> QED  BY <2>0, <2>1, <3>1 DEF NoLostWakeup
  <2>2. ASSUME NEW p \in mNotFull, mNotFull' = mNotFull \ {p},
               pc' = [pc EXCEPT ![c] = "idle", ![p] = "reacquire"]
        PROVE  NoLostWakeup'
    <3>0. p \in Producer /\ p # c /\ pc[p] = "asleep"
      BY <1>0 DEF Inv, LockInv
    <3>1. /\ Active(Consumer)' = Active(Consumer)
          /\ Cardinality(Waking(Consumer)') = Cardinality(Waking(Consumer)) - 1
      <4>1. \A u \in Consumer \ {c} : pc'[u] = pc[u]
        BY <1>0, <2>2, <3>0
      <4>2. pc'[c] = "idle"
        BY <1>0, <2>2, <3>0
      <4> QED  BY <2>0, <4>1, <4>2, Signals
    <3>2. /\ Cardinality(Active(Producer)') = Cardinality(Active(Producer)) + 1
          /\ Waking(Producer)' = Waking(Producer)
      <4>1. \A u \in Producer \ {p} : pc'[u] = pc[u]
        BY <1>0, <2>2, <3>0
      <4>2. pc'[p] = "reacquire"
        BY <1>0, <2>2, <3>0
      <4> QED  BY <3>0, <4>1, <4>2, Joins
    <3>3. mNotFull # {}
      BY <2>2
    <3> QED  BY <1>0, <1>c, <2>0, <3>1, <3>2, <3>3 DEF NoLostWakeup
  <2> QED  BY <1>4, <2>1, <2>2 DEF WakeNotFull
<1> QED  BY <1>1, <1>2, <1>3, <1>4 DEF ConsumerStep

(* Taking the lock moves nobody between the groups; a spurious wakeup only *)
(* adds a thread that will look.                                           *)
LEMMA LockKeepsWakeups ==
  ASSUME Inv, NoLostWakeup, NEW t \in Thread, Lock(t) \/ SpuriousWakeup(t)
  PROVE  NoLostWakeup'
<1>0. /\ pc \in [Thread -> Pc] /\ Thread = Producer \cup Consumer
      /\ Producer \cap Consumer = {} /\ QSize \in Nat \ {0} /\ mOccupiedSize \in 0 .. QSize
  BY QueueAssumption DEF Inv, TypeOK, Thread
<1>c. /\ Cardinality(Waking(Producer)) \in Nat /\ Cardinality(Active(Producer)) \in Nat
      /\ Cardinality(Waking(Consumer)) \in Nat /\ Cardinality(Active(Consumer)) \in Nat
  BY Counts
<1>1. CASE Lock(t)
  <2>1. /\ pc[t] \in {"acquire", "reacquire"} /\ pc' = [pc EXCEPT ![t] = "test"]
        /\ UNCHANGED <<mOccupiedSize, mNotFull, mNotEmpty>>
    BY <1>1 DEF Lock, AcquireSRWLockExclusive, Reacquire, ringVars
  <2>2. /\ Active(Producer)' = Active(Producer) /\ Waking(Producer)' = Waking(Producer)
        /\ Active(Consumer)' = Active(Consumer) /\ Waking(Consumer)' = Waking(Consumer)
    BY <1>0, <2>1, Stays
  <2> QED  BY <2>1, <2>2 DEF NoLostWakeup
<1>2. CASE SpuriousWakeup(t)
  <2>1. /\ pc[t] = "asleep" /\ pc' = [pc EXCEPT ![t] = "reacquire"]
        /\ mNotFull' \subseteq mNotFull /\ mNotEmpty' \subseteq mNotEmpty
        /\ mOccupiedSize' = mOccupiedSize
    BY <1>2 DEF SpuriousWakeup, ringVars
  <2>2. CASE t \in Producer
    <3>1. /\ Cardinality(Active(Producer)') = Cardinality(Active(Producer)) + 1
          /\ Waking(Producer)' = Waking(Producer)
      BY <1>0, <2>1, <2>2, Joins
    <3>2. Active(Consumer)' = Active(Consumer) /\ Waking(Consumer)' = Waking(Consumer)
      BY <1>0, <2>1, <2>2, Stays
    <3> QED  BY <1>0, <1>c, <2>1, <3>1, <3>2 DEF NoLostWakeup
  <2>3. CASE t \in Consumer
    <3>1. /\ Cardinality(Active(Consumer)') = Cardinality(Active(Consumer)) + 1
          /\ Waking(Consumer)' = Waking(Consumer)
      BY <1>0, <2>1, <2>3, Joins
    <3>2. Active(Producer)' = Active(Producer) /\ Waking(Producer)' = Waking(Producer)
      BY <1>0, <2>1, <2>3, Stays
    <3> QED  BY <1>0, <1>c, <2>1, <3>1, <3>2 DEF NoLostWakeup
  <2> QED  BY <1>0, <2>2, <2>3
<1> QED  BY <1>1, <1>2

(* No wakeup is lost although both operations signal after releasing the   *)
(* lock (NoLostWakeup), for any number of threads and slots and with       *)
(* spurious wakeups.                                                       *)
THEOREM WakeupsAreNotLost == Spec => []NoLostWakeup
<1>1. Init => NoLostWakeup
  BY DEF Init, NoLostWakeup
<1>2. Inv /\ NoLostWakeup /\ [Next]_vars => NoLostWakeup'
  <2> SUFFICES ASSUME Inv, NoLostWakeup, [Next]_vars PROVE NoLostWakeup'
    OBVIOUS
  <2>1. CASE UNCHANGED vars
    BY <2>1 DEF vars, ringVars, NoLostWakeup, Active, Waking
  <2> QED  BY <2>1, ProducerKeepsWakeups, ConsumerKeepsWakeups, LockKeepsWakeups DEF Next
<1> QED  BY <1>1, <1>2, Invariance, PTL DEF Spec
=============================================================================
