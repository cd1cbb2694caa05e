--------------------------- MODULE CircularBuffer ---------------------------
(***************************************************************************)
(* CircularBuffer, the send and the receive buffer of a session: a buffer  *)
(* of two regions.  Region A holds the older bytes; B, at the start of the *)
(* memory, is opened when there is more room before A than behind it, and  *)
(* becomes A when A is empty.  Pointers are offsets into mBuffer.          *)
(*                                                                         *)
(* The send buffer is used with Write, GetContiguiousBytes and Remove, the *)
(* receive buffer with PostRecv's GetFreeSpaceSize and GetBuffer, later    *)
(* Commit, and Peek and Read.  While a receive is outstanding nothing else *)
(* is done to the buffer (EasyServer's ReceiveExclusive).                  *)
(***************************************************************************)
EXTENDS Integers, Sequences

CONSTANTS
  Capacity,     \* bytes of the buffer
  Byte          \* values of a byte

ASSUME CapacityAssumption == Capacity \in Nat \ {0}

NULL == -1      \* nullptr

VARIABLES
  mBuffer, mARegionPointer, mARegionSize, mBRegionPointer, mBRegionSize,
  posted,       \* the space an outstanding receive may fill: [at, len]
  out           \* the bytes the last Read or Peek copied

regionVars == <<mARegionPointer, mARegionSize, mBRegionPointer, mBRegionSize>>
vars       == <<mBuffer, regionVars, posted, out>>

Address   == 0 .. Capacity - 1
NotPosted == [at |-> 0, len |-> 0]
Idle      == posted = NotPosted

Init ==
  /\ mBuffer \in [Address -> Byte]      \* new char[capacity]: any bytes
  /\ mARegionPointer = 0 /\ mARegionSize = 0
  /\ mBRegionPointer = NULL /\ mBRegionSize = 0
  /\ posted = NotPosted /\ out = <<>>
-----------------------------------------------------------------------------
GetStoredSize   == mARegionSize + mBRegionSize
GetAFreeSpace   == Capacity - mARegionPointer - mARegionSize
GetSpaceBeforeA == mARegionPointer

\* The first bytes: where they are, and how many lie together.
GetBufferStart      == IF mARegionSize > 0 THEN mARegionPointer ELSE mBRegionPointer
GetContiguiousBytes == IF mARegionSize > 0 THEN mARegionSize ELSE mBRegionSize

Min2(m, n) == IF m < n THEN m ELSE n

\* Whether the next bytes go to B, which AllocateB opens if it is not open.
UsesB == mBRegionPointer # NULL \/ GetAFreeSpace < GetSpaceBeforeA

\* mBRegionPointer after AllocateB.
Allocated == IF mBRegionPointer = NULL THEN 0 ELSE mBRegionPointer

\* Mutant: the bytes B already holds are not counted.
RoomAboveB == IF UsesB THEN mARegionPointer - Allocated ELSE GetAFreeSpace

\* Mutant: GetBuffer forgets B.
BehindA == mARegionPointer + mARegionSize

\* The room at the place of the next byte (GetFreeSpaceSize), and that place
\* (GetBuffer), once B is opened if it is to be.
Room == IF UsesB THEN mARegionPointer - Allocated - mBRegionSize ELSE GetAFreeSpace
Target == IF UsesB THEN Allocated + mBRegionSize ELSE mARegionPointer + mARegionSize

\* memcpy of data to offset at.
Stored(at, data) ==
  [i \in Address |-> IF i \in at .. at + Len(data) - 1 THEN data[i - at + 1] ELSE mBuffer[i]]

\* AllocateB, if the next bytes go to B.
OpenB == mBRegionPointer' = IF UsesB THEN Allocated ELSE mBRegionPointer

(* What Write does to the buffer; B stays open even if the bytes are       *)
(* refused.                                                                *)
Put(data) ==
  /\ OpenB
  /\ \/ /\ Len(data) > Room
        /\ UNCHANGED <<mBuffer, mARegionSize, mBRegionSize>>
     \/ /\ Len(data) <= Room
        /\ mBuffer' = Stored(Target, data)
        /\ mARegionSize' = mARegionSize + IF UsesB THEN 0 ELSE Len(data)
        /\ mBRegionSize' = mBRegionSize + IF UsesB THEN Len(data) ELSE 0
  /\ UNCHANGED mARegionPointer

Write(data) == Idle /\ Put(data) /\ UNCHANGED <<posted, out>>

(* PostRecv: the receive may fill the free space the buffer offers.  With  *)
(* no free space a receive of no bytes is posted; its completion ends the  *)
(* session, so the buffer is not used again.                               *)
PostRecv ==
  /\ Idle /\ Room > 0
  /\ OpenB
  /\ posted' = [at |-> Target, len |-> Room]
  /\ UNCHANGED <<mBuffer, mARegionPointer, mARegionSize, mBRegionSize, out>>

(* What a receive does to the buffer: it stores data where it was posted,  *)
(* and its completion commits.                                             *)
Fill(at, data) ==
  /\ mBuffer' = Stored(at, data)
  /\ IF mBRegionPointer # NULL
     THEN mBRegionSize' = mBRegionSize + Len(data) /\ UNCHANGED mARegionSize
     ELSE mARegionSize' = mARegionSize + Len(data) /\ UNCHANGED mBRegionSize
  /\ UNCHANGED <<mARegionPointer, mBRegionPointer>>

Commit(data) ==
  /\ ~Idle /\ Len(data) <= posted.len
  /\ Fill(posted.at, data)
  /\ posted' = NotPosted
  /\ UNCHANGED out
-----------------------------------------------------------------------------
\* memcpy of the first n bytes, from A and then from B.
Front(n) ==
  [i \in 1 .. n |-> IF i <= mARegionSize THEN mBuffer[mARegionPointer + i - 1]
                    ELSE mBuffer[mBRegionPointer + i - 1 - mARegionSize]]

\* Mutant: B is not moved to the start of the memory when it becomes A.
DropUnmoved(n) ==
  LET a == Min2(n, mARegionSize)
      b == Min2(n - a, mBRegionSize)
  IN IF mARegionSize > a
     THEN /\ mARegionPointer' = mARegionPointer + a /\ mARegionSize' = mARegionSize - a
          /\ UNCHANGED <<mBuffer, mBRegionPointer, mBRegionSize>>
     ELSE /\ mARegionPointer' = 0 /\ mARegionSize' = mBRegionSize - b
          /\ mBRegionPointer' = NULL /\ mBRegionSize' = 0
          /\ UNCHANGED mBuffer

\* Mutant: an empty A stays where it is.
DropInPlace(n) ==
  LET a == Min2(n, mARegionSize)
      b == Min2(n - a, mBRegionSize)
  IN IF mARegionSize > a \/ mBRegionSize = 0
     THEN /\ mARegionPointer' = mARegionPointer + a /\ mARegionSize' = mARegionSize - a
          /\ UNCHANGED <<mBuffer, mBRegionPointer, mBRegionSize>>
     ELSE /\ mARegionPointer' = 0 /\ mARegionSize' = mBRegionSize - b
          /\ mBRegionPointer' = NULL /\ mBRegionSize' = 0
          /\ mBuffer' = [i \in Address |-> IF i < mBRegionSize - b
                                           THEN mBuffer[mBRegionPointer + b + i]
                                           ELSE mBuffer[i]]

(* Removing n bytes, or all there are, from A and then from B.  When A is  *)
(* empty B is moved to the start of the memory and becomes A; if both are  *)
(* empty A starts over.                                                    *)
Drop(n) ==
  LET a == Min2(n, mARegionSize)
      b == Min2(n - a, mBRegionSize)
  IN IF mARegionSize > a
     THEN /\ mARegionPointer' = mARegionPointer + a /\ mARegionSize' = mARegionSize - a
          /\ UNCHANGED <<mBuffer, mBRegionPointer, mBRegionSize>>
     ELSE /\ mARegionPointer' = 0 /\ mARegionSize' = mBRegionSize - b
          /\ mBRegionPointer' = NULL /\ mBRegionSize' = 0
          /\ mBuffer' = [i \in Address |-> IF i < mBRegionSize - b
                                           THEN mBuffer[mBRegionPointer + b + i]
                                           ELSE mBuffer[i]]

Peek(n) ==
  /\ Idle /\ n <= GetStoredSize
  /\ out' = Front(n)
  /\ UNCHANGED <<mBuffer, regionVars, posted>>

Read(n) ==
  /\ Idle /\ n <= GetStoredSize
  /\ out' = Front(n) /\ Drop(n)
  /\ UNCHANGED posted

Remove(n) == Idle /\ Drop(n) /\ UNCHANGED <<posted, out>>
-----------------------------------------------------------------------------
Data == UNION {[1 .. n -> Byte] : n \in 1 .. Capacity}

Next ==
  \/ PostRecv
  \/ \E data \in Data : Write(data) \/ Commit(data)
  \/ \E n \in 1 .. Capacity : Peek(n) \/ Read(n) \/ Remove(n)

Spec == Init /\ [][Next]_vars
-----------------------------------------------------------------------------
(* Every variable has its type; no size is ever negative, which for size_t *)
(* would be a huge number.                                                 *)
TypeOK ==
  /\ mBuffer \in [Address -> Byte]
  /\ mARegionPointer \in Address /\ mARegionSize \in 0 .. Capacity
  /\ mBRegionPointer \in {NULL, 0} /\ mBRegionSize \in 0 .. Capacity
  /\ posted \in [at : 0 .. Capacity, len : 0 .. Capacity]
  /\ out \in Seq(Byte)

(* The regions stay inside the memory and apart, B below A, also while A   *)
(* shrinks, B opens without taking a byte or becomes A; when any byte is   *)
(* stored A holds one, so GetContiguiousBytes, which SendFlush sends, is   *)
(* not zero (AllocateB, Write, Read, Remove).                              *)
LayoutOK ==
  /\ mARegionPointer + mARegionSize <= Capacity
  /\ mBRegionPointer = NULL => mBRegionSize = 0
  /\ mBRegionPointer # NULL =>
       mBRegionPointer + mBRegionSize <= mARegionPointer /\ mARegionSize > 0

(* The space handed to an outstanding receive is inside the memory, holds  *)
(* no stored byte, and is where Commit will look for the bytes (PostRecv,  *)
(* GetFreeSpaceSize, GetBuffer, Commit).                                   *)
PostedSpaceFree ==
  posted.len > 0 =>
    /\ posted.at + posted.len <= Capacity
    /\ posted.at = IF mBRegionPointer # NULL THEN mBRegionPointer + mBRegionSize
                                             ELSE mARegionPointer + mARegionSize
    /\ mBRegionPointer # NULL => posted.at + posted.len <= mARegionPointer

(* An empty buffer takes a packet of any size up to its capacity: its      *)
(* space is whole again, so SendRequest never drops a session that has     *)
(* nothing to send (Write, Read, Remove).                                  *)
EmptyTakesAll == GetStoredSize = 0 => Room = Capacity

Abstract == INSTANCE ByteFifo WITH fifo <- Front(GetStoredSize)

(* The buffer is a first-in first-out sequence of bytes: whatever the      *)
(* regions do, Read and Peek copy the oldest bytes in the order they were  *)
(* written or received, and none is lost, repeated or overwritten.         *)
RefinesByteFifo == Abstract!Spec
=============================================================================
