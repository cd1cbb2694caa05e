------------------------------ MODULE ByteFifo ------------------------------
(* What CircularBuffer promises a session: the bytes that were written and *)
(* not yet removed, in order, at most Capacity of them.  A write may be    *)
(* refused, which leaves the bytes alone.                                  *)
EXTENDS Naturals, Sequences

CONSTANTS Capacity, Byte

VARIABLES
  fifo,     \* the stored bytes, oldest first
  out       \* the bytes the last Read or Peek copied

Init == fifo = <<>> /\ out = <<>>

Put ==
  \E n \in 1 .. Capacity : \E data \in [1 .. n -> Byte] :
    /\ Len(fifo) + n <= Capacity
    /\ fifo' = fifo \o data /\ UNCHANGED out

Peek(n) ==
  /\ n <= Len(fifo)
  /\ out' = SubSeq(fifo, 1, n) /\ UNCHANGED fifo

Read(n) ==
  /\ n <= Len(fifo)
  /\ out' = SubSeq(fifo, 1, n) /\ fifo' = SubSeq(fifo, n + 1, Len(fifo))

\* Removing more than there is empties the buffer.
Remove(n) == fifo' = SubSeq(fifo, n + 1, Len(fifo)) /\ UNCHANGED out

Next == Put \/ \E n \in 1 .. Capacity : Peek(n) \/ Read(n) \/ Remove(n)

Spec == Init /\ [][Next]_<<fifo, out>>
=============================================================================
