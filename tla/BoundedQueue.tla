---------------------------- MODULE BoundedQueue ----------------------------
(* What ProducerConsumerQueue promises its callers: a first-in first-out   *)
(* queue of at most QSize items on which Produce and Consume are atomic.   *)
EXTENDS Naturals, Sequences

CONSTANTS Producer, Consumer, Item, NoItem, QSize

VARIABLES
  queue,      \* the items in the queue, oldest first
  item        \* the item each thread is producing or has consumed

Init ==
  /\ queue = <<>>
  /\ item = [t \in Producer \cup Consumer |-> NoItem]

\* A producer is handed an item it will produce.
Offer(p, x) ==
  /\ item' = [item EXCEPT ![p] = x]
  /\ UNCHANGED queue

Produce(p) ==
  /\ Len(queue) < QSize
  /\ queue' = Append(queue, item[p])
  /\ item' = [item EXCEPT ![p] = NoItem]

Consume(c) ==
  /\ queue # <<>>
  /\ item' = [item EXCEPT ![c] = Head(queue)]
  /\ queue' = Tail(queue)

\* A producer is refused, or a consumer has handed its item over.
Return(t) ==
  /\ item' = [item EXCEPT ![t] = NoItem]
  /\ UNCHANGED queue

Next ==
  \/ \E p \in Producer, x \in Item : Offer(p, x)
  \/ \E p \in Producer : Produce(p)
  \/ \E c \in Consumer : Consume(c)
  \/ \E t \in Producer \cup Consumer : Return(t)

Spec == Init /\ [][Next]_<<queue, item>>
=============================================================================
