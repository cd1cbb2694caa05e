------------------------ MODULE CircularBufferProofs ------------------------
(* Proofs about CircularBuffer for every capacity.                         *)
EXTENDS CircularBuffer, SequenceTheorems, TLAPS

(* An empty A is at the start of the memory with B closed, and a receive   *)
(* that is outstanding has room.                                           *)
EmptyAtStart == mARegionSize = 0 => mARegionPointer = 0 /\ mBRegionPointer = NULL
PostedRoom   == posted # NotPosted => posted.len > 0

Inv == TypeOK /\ LayoutOK /\ PostedSpaceFree /\ EmptyAtStart /\ PostedRoom

(* The facts about sizes and places that are about numbers only.           *)
SizesOK ==
  /\ mARegionPointer \in Address /\ mARegionSize \in 0 .. Capacity
  /\ mBRegionPointer \in {NULL, 0} /\ mBRegionSize \in 0 .. Capacity
-----------------------------------------------------------------------------
(* An empty buffer, as the constructor leaves it, satisfies the invariant. *)
LEMMA InitInv == Init => Inv
  BY CapacityAssumption
  DEF Init, Inv, TypeOK, LayoutOK, PostedSpaceFree, EmptyAtStart, PostedRoom, Address, NULL,
      NotPosted

(* Where the next bytes go there is only free memory.                      *)
LEMMA RoomFacts ==
  ASSUME Inv
  PROVE  /\ Room \in 0 .. Capacity /\ Target \in 0 .. Capacity /\ Target + Room <= Capacity
         /\ UsesB => mARegionSize > 0 /\ Allocated = 0 /\ Target = mBRegionSize
                     /\ Room = mARegionPointer - mBRegionSize
         /\ ~UsesB => mBRegionPointer = NULL /\ Target = mARegionPointer + mARegionSize
                      /\ Room = Capacity - mARegionPointer - mARegionSize
  BY CapacityAssumption
  DEF Inv, TypeOK, LayoutOK, EmptyAtStart, Room, Target, UsesB, Allocated, GetAFreeSpace,
      GetSpaceBeforeA, Address, NULL

(* Storing bytes in the memory leaves it an array of bytes.                *)
LEMMA StoredType ==
  ASSUME mBuffer \in [Address -> Byte], NEW data \in Data, NEW at \in 0 .. Capacity
  PROVE  Stored(at, data) \in [Address -> Byte] /\ Len(data) \in 1 .. Capacity
<1>1. PICK n \in 1 .. Capacity : data \in [1 .. n -> Byte]
  BY DEF Data
<1>2. Len(data) = n
  BY <1>1, CapacityAssumption
<1>3. ASSUME NEW i \in Address, i \in at .. at + Len(data) - 1
      PROVE  data[i - at + 1] \in Byte
  BY <1>1, <1>2, <1>3, CapacityAssumption DEF Address
<1> QED  BY <1>1, <1>2, <1>3 DEF Stored

(* Write keeps the regions apart, whether it stores or refuses the bytes.  *)
LEMMA WriteInv ==
  ASSUME Inv, NEW data \in Data, Write(data)
  PROVE  Inv'
<1>1. /\ Len(data) \in 1 .. Capacity
      /\ mBuffer' \in [Address -> Byte]
  BY RoomFacts, StoredType DEF Write, Put, OpenB, Inv, TypeOK
<1>2. posted = NotPosted /\ posted' = NotPosted /\ out' = out
  BY DEF Write, Put, OpenB, Idle
<1>3. SizesOK' /\ LayoutOK' /\ EmptyAtStart'
  <2>0. /\ mARegionPointer \in 0 .. Capacity - 1 /\ mARegionSize \in 0 .. Capacity
        /\ mBRegionSize \in 0 .. Capacity /\ mARegionPointer + mARegionSize <= Capacity
        /\ mBRegionPointer = -1 => mBRegionSize = 0
        /\ mBRegionPointer # -1 => mBRegionSize <= mARegionPointer
        /\ mARegionPointer' = mARegionPointer
    BY CapacityAssumption DEF Write, Put, OpenB, Inv, TypeOK, LayoutOK, Address, NULL
  <2>1. CASE UsesB
    <3>1. /\ mBRegionPointer' = 0 /\ mARegionSize' = mARegionSize /\ mARegionSize > 0
          /\ mBRegionSize' \in 0 .. Capacity /\ mBRegionSize' <= mARegionPointer
      BY <2>0, <1>1, <2>1, RoomFacts, CapacityAssumption DEF Write, Put, OpenB
    <3>2. SizesOK'
      BY <2>0, <3>1, CapacityAssumption DEF SizesOK, Address, NULL
    <3>3. LayoutOK'
      <4>1. mARegionPointer' + mARegionSize' <= Capacity
        BY <2>0, <3>1
      <4>2. mBRegionPointer' # -1 /\ mARegionSize' > 0
        BY <3>1
      <4>3. mBRegionPointer' + mBRegionSize' <= mARegionPointer'
        <5>1. mARegionPointer' = mARegionPointer
          BY <2>0
        <5>2. mBRegionSize' \in Int /\ mBRegionSize' <= mARegionPointer'
          BY <3>1, <5>1, CapacityAssumption
        <5> QED  BY <3>1, <5>2
      <4> QED  BY <4>1, <4>2, <4>3 DEF LayoutOK, NULL
    <3>4. EmptyAtStart'
      BY <2>0, <3>1 DEF EmptyAtStart
    <3> QED  BY <3>2, <3>3, <3>4
  <2>2. CASE ~UsesB
    <3>1. /\ mBRegionPointer = -1 /\ mBRegionPointer' = -1 /\ mBRegionSize' = mBRegionSize
          /\ mARegionSize' \in 0 .. Capacity /\ mARegionSize' >= mARegionSize
          /\ mARegionPointer + mARegionSize' <= Capacity
      BY <2>0, <1>1, <2>2, RoomFacts, CapacityAssumption DEF Write, Put, OpenB, NULL
    <3>2. mARegionSize' = 0 => mARegionSize = 0
      BY <2>0, <3>1, CapacityAssumption
    <3> QED  BY <2>0, <3>1, <3>2, CapacityAssumption
             DEF Inv, SizesOK, LayoutOK, EmptyAtStart, Address, NULL
  <2> QED  BY <2>1, <2>2
<1>4. TypeOK' /\ PostedSpaceFree' /\ PostedRoom'
  BY <1>1, <1>2, <1>3, CapacityAssumption
  DEF Inv, TypeOK, SizesOK, PostedSpaceFree, PostedRoom, NotPosted
<1> QED  BY <1>3, <1>4 DEF Inv

(* PostRecv hands out free memory only, and may open B.                    *)
LEMMA PostRecvInv ==
  ASSUME Inv, PostRecv
  PROVE  Inv'
<1>1. posted' = [at |-> Target, len |-> Room] /\ Room > 0
  BY DEF PostRecv, OpenB
<1>2. SizesOK' /\ LayoutOK' /\ EmptyAtStart'
  BY RoomFacts, CapacityAssumption, SMTT(30)
  DEF PostRecv, OpenB, Inv, TypeOK, SizesOK, LayoutOK, EmptyAtStart, Address, NULL
<1>3. TypeOK'
  BY <1>1, <1>2, RoomFacts, CapacityAssumption DEF PostRecv, OpenB, Inv, TypeOK, SizesOK
<1>4. PostedSpaceFree' /\ PostedRoom'
  BY <1>1, RoomFacts, CapacityAssumption
  DEF PostRecv, OpenB, Inv, TypeOK, LayoutOK, PostedSpaceFree, PostedRoom, Address, NULL
<1> QED  BY <1>2, <1>3, <1>4 DEF Inv

(* Commit extends the region whose end the receive has filled.             *)
LEMMA CommitInv ==
  ASSUME Inv, NEW data \in Data, Commit(data)
  PROVE  Inv'
<1>1. /\ posted.at \in 0 .. Capacity /\ posted.len \in 1 .. Capacity
      /\ posted.at + posted.len <= Capacity
  BY CapacityAssumption DEF Commit, Fill, Idle, Inv, TypeOK, PostedRoom, PostedSpaceFree
<1>2. Len(data) \in 1 .. Capacity /\ mBuffer' \in [Address -> Byte]
  BY <1>1, StoredType DEF Commit, Fill, Inv, TypeOK
<1>3. SizesOK' /\ LayoutOK' /\ EmptyAtStart'
  BY <1>1, <1>2, CapacityAssumption, SMTT(30)
  DEF Commit, Fill, Inv, TypeOK, SizesOK, LayoutOK, EmptyAtStart, PostedSpaceFree, Address, NULL
<1>4. TypeOK' /\ PostedSpaceFree' /\ PostedRoom'
  BY <1>2, <1>3, CapacityAssumption
  DEF Commit, Fill, Inv, TypeOK, SizesOK, PostedSpaceFree, PostedRoom, NotPosted
<1> QED  BY <1>3, <1>4 DEF Inv

(* Removing from the front, whether A keeps bytes or B becomes A.          *)
LEMMA DropInv ==
  ASSUME Inv, NEW n \in 1 .. Capacity, Drop(n), posted = NotPosted, posted' = posted,
         out' \in Seq(Byte)
  PROVE  Inv'
<1> DEFINE a == Min2(n, mARegionSize)
           b == Min2(n - a, mBRegionSize)
<1>0. /\ a \in 0 .. mARegionSize /\ b \in 0 .. mBRegionSize
      /\ mARegionPointer \in 0 .. Capacity - 1 /\ mARegionSize \in 0 .. Capacity
      /\ mBRegionSize \in 0 .. Capacity /\ mARegionPointer + mARegionSize <= Capacity
      /\ mBRegionPointer \in {NULL, 0}
      /\ mBRegionPointer = NULL => mBRegionSize = 0
      /\ mBRegionPointer # NULL => mBRegionSize <= mARegionPointer
  BY CapacityAssumption DEF Inv, TypeOK, LayoutOK, Address, Min2, NULL
<1>1. CASE mARegionSize > a
  <2>1. /\ mARegionPointer' = mARegionPointer + a /\ mARegionSize' = mARegionSize - a
        /\ UNCHANGED <<mBuffer, mBRegionPointer, mBRegionSize>>
    BY <1>1 DEF Drop
  <2> HIDE DEF a, b
  <2>2. SizesOK' /\ LayoutOK' /\ EmptyAtStart'
    BY <1>0, <1>1, <2>1, CapacityAssumption DEF SizesOK, LayoutOK, EmptyAtStart, Address, NULL
  <2> QED  BY <2>1, <2>2, CapacityAssumption
           DEF Inv, TypeOK, SizesOK, PostedSpaceFree, PostedRoom, NotPosted
<1>2. CASE ~(mARegionSize > a)
  <2>1. /\ mARegionPointer' = 0 /\ mARegionSize' = mBRegionSize - b
        /\ mBRegionPointer' = NULL /\ mBRegionSize' = 0
        /\ mBuffer' = [i \in Address |-> IF i < mBRegionSize - b
                                         THEN mBuffer[mBRegionPointer + b + i]
                                         ELSE mBuffer[i]]
    BY <1>2 DEF Drop
  <2> HIDE DEF a, b
  <2>2. SizesOK' /\ LayoutOK' /\ EmptyAtStart'
    BY <1>0, <2>1, CapacityAssumption DEF SizesOK, LayoutOK, EmptyAtStart, Address, NULL
  <2>3. ASSUME NEW i \in Address, i < mBRegionSize - b
        PROVE  mBRegionPointer + b + i \in Address
    BY <1>0, <2>3, CapacityAssumption DEF Address, NULL
  <2>4. mBuffer' \in [Address -> Byte]
    BY <2>1, <2>3 DEF Inv, TypeOK
  <2> QED  BY <2>2, <2>4, CapacityAssumption
           DEF Inv, TypeOK, SizesOK, PostedSpaceFree, PostedRoom, NotPosted
<1> QED  BY <1>1, <1>2

(* The bytes that Read and Peek copy are bytes of the two regions.         *)
LEMMA FrontType ==
  ASSUME Inv, NEW n \in 1 .. Capacity, n <= GetStoredSize
  PROVE  Front(n) \in Seq(Byte)
<1>1. ASSUME NEW i \in 1 .. n, i <= mARegionSize
      PROVE  mARegionPointer + i - 1 \in Address
  BY <1>1, CapacityAssumption DEF Inv, TypeOK, LayoutOK, Address
<1>2. ASSUME NEW i \in 1 .. n, ~(i <= mARegionSize)
      PROVE  mBRegionPointer + i - 1 - mARegionSize \in Address
  BY <1>2, CapacityAssumption DEF Inv, TypeOK, LayoutOK, Address, GetStoredSize, NULL
<1>3. \A i \in 1 .. n : Front(n)[i] \in Byte
  BY <1>1, <1>2 DEF Front, Inv, TypeOK
<1> QED  BY <1>3, CapacityAssumption DEF Front

(* Every operation of the buffer preserves the invariant.                  *)
LEMMA NextInv == Inv /\ [Next]_vars => Inv'
<1> SUFFICES ASSUME Inv, [Next]_vars PROVE Inv'
  OBVIOUS
<1>1. CASE PostRecv
  BY <1>1, PostRecvInv
<1>2. ASSUME NEW data \in Data, Write(data) \/ Commit(data)
      PROVE  Inv'
  BY <1>2, WriteInv, CommitInv
<1>3. ASSUME NEW n \in 1 .. Capacity, Peek(n)
      PROVE  Inv'
  <2>1. out' \in Seq(Byte)
    BY <1>3, FrontType DEF Peek
  <2> QED  BY <1>3, <2>1
           DEF Peek, regionVars, Inv, TypeOK, LayoutOK, PostedSpaceFree, EmptyAtStart, PostedRoom
<1>4. ASSUME NEW n \in 1 .. Capacity, Read(n)
      PROVE  Inv'
  BY <1>4, FrontType, DropInv DEF Read, Idle
<1>5. ASSUME NEW n \in 1 .. Capacity, Remove(n)
      PROVE  Inv'
  BY <1>5, DropInv DEF Remove, Idle, Inv, TypeOK
<1>6. CASE UNCHANGED vars
  BY <1>6 DEF vars, regionVars, Inv, TypeOK, LayoutOK, PostedSpaceFree, EmptyAtStart, PostedRoom
<1> QED  BY <1>1, <1>2, <1>3, <1>4, <1>5, <1>6 DEF Next

(* The invariant holds in every reachable state of the buffer.             *)
THEOREM Invariance == Spec => []Inv
  BY InitInv, NextInv, PTL DEF Spec

(* The variables of the buffer keep their types for every capacity: no     *)
(* size underflows and B, when open, starts the memory.                    *)
THEOREM TypeCorrect == Spec => []TypeOK
<1>1. Inv => TypeOK
  BY DEF Inv
<1> QED  BY <1>1, Invariance, PTL

(* For every capacity and every sequence of operations the two regions     *)
(* stay inside the memory and do not overlap.                              *)
THEOREM RegionsApart == Spec => []LayoutOK
<1>1. Inv => LayoutOK
  BY DEF Inv
<1> QED  BY <1>1, Invariance, PTL

(* A receive never writes outside the memory or over bytes that are not    *)
(* read yet.                                                               *)
THEOREM ReceiveIntoFreeSpace == Spec => []PostedSpaceFree
<1>1. Inv => PostedSpaceFree
  BY DEF Inv
<1> QED  BY <1>1, Invariance, PTL

(* An empty buffer has its whole capacity in one piece.                    *)
THEOREM EmptyIsWhole == Spec => []EmptyTakesAll
<1>1. Inv => EmptyTakesAll
  <2> SUFFICES ASSUME Inv, GetStoredSize = 0 PROVE Room = Capacity
    BY DEF EmptyTakesAll
  <2>1. /\ mARegionSize = 0 /\ mBRegionSize = 0 /\ mARegionPointer = 0
        /\ mBRegionPointer = NULL
    BY CapacityAssumption DEF GetStoredSize, Inv, TypeOK, EmptyAtStart
  <2> QED  BY <2>1, CapacityAssumption
           DEF Room, UsesB, GetAFreeSpace, GetSpaceBeforeA
<1> QED  BY <1>1, Invariance, PTL
-----------------------------------------------------------------------------
(* Refinement.  The byte at place i of the queue, counted from the oldest: *)
(* in A, or in B behind it.                                                *)
ByteAt(i) == IF i <= mARegionSize THEN mBuffer[mARegionPointer + i - 1]
             ELSE mBuffer[mBRegionPointer + i - 1 - mARegionSize]

Fifo == Front(GetStoredSize)

(* The first n bytes are a sequence of n bytes.                            *)
LEMMA FrontFacts ==
  ASSUME Inv, NEW n \in 0 .. GetStoredSize
  PROVE  /\ Front(n) \in Seq(Byte) /\ Len(Front(n)) = n
         /\ \A i \in 1 .. n : Front(n)[i] = ByteAt(i) /\ ByteAt(i) \in Byte
<1>0. n \in Nat
  BY CapacityAssumption DEF Inv, TypeOK, GetStoredSize
<1>1. ASSUME NEW i \in 1 .. n, i <= mARegionSize
      PROVE  mARegionPointer + i - 1 \in Address
  BY <1>0, <1>1, CapacityAssumption DEF Inv, TypeOK, LayoutOK, Address
<1>2. ASSUME NEW i \in 1 .. n, ~(i <= mARegionSize)
      PROVE  mBRegionPointer + i - 1 - mARegionSize \in Address
  BY <1>0, <1>2, CapacityAssumption DEF Inv, TypeOK, LayoutOK, Address, GetStoredSize, NULL
<1>3. \A i \in 1 .. n : Front(n)[i] = ByteAt(i) /\ ByteAt(i) \in Byte
  BY <1>1, <1>2 DEF Front, ByteAt, Inv, TypeOK
<1>4. Front(n) = [i \in 1 .. n |-> ByteAt(i)]
  BY DEF Front, ByteAt
<1> QED  BY <1>0, <1>3, <1>4

(* The queue as a whole is a sequence of the stored bytes.                 *)
FifoOK ==
  /\ GetStoredSize \in 0 .. Capacity /\ Fifo \in Seq(Byte) /\ Len(Fifo) = GetStoredSize
  /\ \A i \in 1 .. GetStoredSize : Fifo[i] = ByteAt(i) /\ Fifo[i] \in Byte

(* In every state of the invariant.                                        *)
LEMMA FifoFacts == Inv => FifoOK
<1> SUFFICES ASSUME Inv PROVE FifoOK
  OBVIOUS
<1>1. GetStoredSize \in 0 .. Capacity
  BY CapacityAssumption DEF Inv, TypeOK, LayoutOK, GetStoredSize, NULL, Address
<1>2. GetStoredSize \in 0 .. GetStoredSize
  BY <1>1, CapacityAssumption
<1>3. /\ Fifo \in Seq(Byte) /\ Len(Fifo) = GetStoredSize
      /\ \A i \in 1 .. GetStoredSize : Fifo[i] = ByteAt(i) /\ ByteAt(i) \in Byte
  BY <1>2, FrontFacts DEF Fifo
<1> QED  BY <1>1, <1>3 DEF FifoOK

(* What Read and Peek copy is the front of the queue.                      *)
LEMMA FrontIsPrefix ==
  ASSUME Inv, NEW n \in 1 .. Capacity, n <= GetStoredSize
  PROVE  n <= Len(Fifo) /\ Front(n) = SubSeq(Fifo, 1, n)
<1>1. GetStoredSize \in 0 .. Capacity /\ Capacity \in Nat /\ n \in 0 .. GetStoredSize
  BY FifoFacts, CapacityAssumption DEF FifoOK
<1>2. \A i \in 1 .. n : Fifo[i] = ByteAt(i) /\ Fifo[i] \in Byte
  BY <1>1, FifoFacts DEF FifoOK
<1>3. /\ SubSeq(Fifo, 1, n) \in Seq(Byte) /\ Len(SubSeq(Fifo, 1, n)) = n
      /\ \A i \in 1 .. n : SubSeq(Fifo, 1, n)[i] = Fifo[i]
  <2>1. 1 \in Int /\ n \in Int /\ n - 1 + 1 = n /\ \A i \in 1 .. n : 1 + i - 1 = i
    BY <1>1
  <2> QED  BY <1>1, <1>2, <2>1, SubSeqProperties
<1>4. /\ Front(n) \in Seq(Byte) /\ Len(Front(n)) = n
      /\ \A i \in 1 .. n : Front(n)[i] = ByteAt(i)
  BY <1>1, FrontFacts
<1>5. Front(n) = SubSeq(Fifo, 1, n)
  BY <1>2, <1>3, <1>4, SeqEqual
<1> QED  BY <1>5, FifoFacts DEF FifoOK

(* Removing from the front removes the oldest bytes and keeps the others   *)
(* in order, also where B is moved and becomes A.                          *)
LEMMA DropRefines ==
  ASSUME Inv, Inv', NEW n \in 1 .. Capacity, Drop(n)
  PROVE  Fifo' = SubSeq(Fifo, n + 1, Len(Fifo))
<1> DEFINE N == GetStoredSize
           rest == SubSeq(Fifo, n + 1, N)
<1>0. /\ N \in 0 .. Capacity /\ Capacity \in Nat /\ Len(Fifo) = N
      /\ N = mARegionSize + mBRegionSize
      /\ \A i \in 1 .. N : Fifo[i] = ByteAt(i) /\ Fifo[i] \in Byte
  BY FifoFacts, CapacityAssumption DEF GetStoredSize, FifoOK
<1>1. /\ N' \in Nat /\ N' = mARegionSize' + mBRegionSize'
      /\ Fifo' \in Seq(Byte) /\ Len(Fifo') = N'
      /\ \A i \in 1 .. N' : Fifo'[i] = ByteAt(i)'
  <2>1. FifoOK'
    BY FifoFacts, PTL
  <2> QED  BY <2>1, CapacityAssumption DEF GetStoredSize, FifoOK
<1>2. /\ mARegionSize \in 0 .. Capacity /\ mBRegionSize \in 0 .. Capacity
      /\ mARegionPointer \in Address /\ mBRegionPointer \in {NULL, 0}
      /\ mBRegionPointer = NULL => mBRegionSize = 0
      /\ mBRegionPointer # NULL => mBRegionSize <= mARegionPointer
      /\ mARegionPointer + mARegionSize <= Capacity
  BY CapacityAssumption DEF Inv, TypeOK, LayoutOK, NULL
<1>3. /\ rest \in Seq(Byte) /\ Len(rest) = IF n < N THEN N - n ELSE 0
      /\ \A i \in 1 .. N - n : rest[i] = Fifo[n + i]
  <2>1. \A i \in n + 1 .. N : Fifo[i] \in Byte
    BY <1>0
  <2>2. /\ rest \in Seq(Byte) /\ Len(rest) = IF n + 1 <= N THEN N - (n + 1) + 1 ELSE 0
        /\ \A i \in 1 .. N - (n + 1) + 1 : rest[i] = Fifo[n + 1 + i - 1]
    <3>1. n + 1 \in Int /\ N \in Int
      BY <1>0
    <3> QED  BY <2>1, <3>1, SubSeqProperties
  <2> QED  BY <1>0, <2>2
<1>4. /\ N' = IF n < N THEN N - n ELSE 0
      /\ \A i \in 1 .. N' : ByteAt(i)' = ByteAt(n + i)
  <2>1. CASE mARegionSize > n
    <3>1. /\ mARegionPointer' = mARegionPointer + n /\ mARegionSize' = mARegionSize - n
          /\ UNCHANGED <<mBuffer, mBRegionPointer, mBRegionSize>>
      BY <1>0, <1>2, <2>1 DEF Drop, Min2
    <3>2. N' = N - n /\ n < N
      BY <1>0, <1>1, <1>2, <2>1, <3>1
    <3>3. ASSUME NEW i \in 1 .. N' PROVE ByteAt(i)' = ByteAt(n + i)
      <4>1. /\ i <= mARegionSize' <=> n + i <= mARegionSize
            /\ mARegionPointer' + i - 1 = mARegionPointer + (n + i) - 1
            /\ mBRegionPointer + i - 1 - mARegionSize' = mBRegionPointer + (n + i) - 1 - mARegionSize
        BY <1>0, <1>1, <1>2, <3>1 DEF Address, NULL
      <4> QED  BY <3>1, <4>1 DEF ByteAt
    <3> QED  BY <3>2, <3>3
  <2>2. CASE mARegionSize <= n
    <3> DEFINE b == Min2(n - mARegionSize, mBRegionSize)
    <3>1. /\ mARegionPointer' = 0 /\ mARegionSize' = mBRegionSize - b
          /\ mBRegionPointer' = NULL /\ mBRegionSize' = 0
          /\ mBuffer' = [i \in Address |-> IF i < mBRegionSize - b
                                           THEN mBuffer[mBRegionPointer + b + i]
                                           ELSE mBuffer[i]]
      BY <1>0, <1>2, <2>2 DEF Drop, Min2
    <3>2. /\ b \in 0 .. mBRegionSize
          /\ n < N => b = n - mARegionSize
          /\ ~(n < N) => b = mBRegionSize
      BY <1>0, <1>2, <2>2 DEF Min2
    <3> HIDE DEF b
    <3>3. N' = IF n < N THEN N - n ELSE 0
      BY <1>0, <1>1, <1>2, <3>1, <3>2
    <3>4. ASSUME NEW i \in 1 .. N' PROVE ByteAt(i)' = ByteAt(n + i)
      <4>1. /\ n < N /\ b = n - mARegionSize /\ i <= mARegionSize' /\ i - 1 \in Address
            /\ i - 1 < mBRegionSize - b
        BY <1>0, <1>1, <1>2, <3>1, <3>2, <3>3 DEF Address
      <4>2. ByteAt(i)' = mBuffer'[i - 1]
        BY <3>1, <4>1 DEF ByteAt
      <4>3. mBuffer'[i - 1] = mBuffer[mBRegionPointer + b + (i - 1)]
        BY <3>1, <4>1
      <4>4. ~(n + i <= mARegionSize)
            /\ mBRegionPointer + b + (i - 1) = mBRegionPointer + (n + i) - 1 - mARegionSize
        BY <1>0, <1>1, <1>2, <2>2, <4>1 DEF NULL
      <4> QED  BY <4>2, <4>3, <4>4 DEF ByteAt
    <3> QED  BY <3>3, <3>4
  <2> QED  BY <1>0, <1>2, <2>1, <2>2
<1> HIDE DEF N, rest
<1>5. ASSUME NEW i \in 1 .. N' PROVE Fifo'[i] = rest[i]
  <2>1. i \in 1 .. N - n /\ n + i \in 1 .. N
    BY <1>0, <1>1, <1>4
  <2> QED  BY <2>1, <1>0, <1>1, <1>3, <1>4
<1>6. Len(rest) = N'
  BY <1>3, <1>4
<1>7. Fifo' = rest
  BY <1>1, <1>3, <1>5, <1>6, SeqEqual
<1> QED  BY <1>0, <1>7 DEF rest

(* Bytes that are stored where the region that takes them ends are         *)
(* appended, and no stored byte is overwritten: in B, below A, or behind A *)
(* while B is closed.                                                      *)
LEMMA StoreAppends ==
  ASSUME Inv, Inv', NEW data \in Data, NEW at \in 0 .. Capacity,
         mBuffer' = Stored(at, data), mARegionPointer' = mARegionPointer, out' = out,
         \/ /\ at = mBRegionSize /\ mBRegionSize + Len(data) <= mARegionPointer
            /\ mARegionSize' = mARegionSize /\ mBRegionSize' = mBRegionSize + Len(data)
            /\ mBRegionPointer' = 0
         \/ /\ at = mARegionPointer + mARegionSize /\ mBRegionPointer = NULL
            /\ mARegionSize' = mARegionSize + Len(data) /\ mBRegionSize' = mBRegionSize
            /\ mBRegionPointer' = NULL
  PROVE  Fifo' = Fifo \o data
<1> DEFINE N == GetStoredSize
           L == Len(data)
           more == Fifo \o data
<1>0. PICK n \in 1 .. Capacity : data \in [1 .. n -> Byte]
  BY DEF Data
<1>1. /\ L = n /\ data \in Seq(Byte) /\ Capacity \in Nat /\ L \in 1 .. Capacity
  BY <1>0, CapacityAssumption
<1>2. /\ N \in 0 .. Capacity /\ Fifo \in Seq(Byte) /\ Len(Fifo) = N
      /\ N = mARegionSize + mBRegionSize
      /\ \A i \in 1 .. N : Fifo[i] = ByteAt(i)
  BY FifoFacts DEF GetStoredSize, FifoOK
<1>3. /\ N' \in 0 .. Capacity /\ Fifo' \in Seq(Byte) /\ Len(Fifo') = N'
      /\ N' = mARegionSize' + mBRegionSize'
      /\ \A i \in 1 .. N' : Fifo'[i] = ByteAt(i)'
  <2>1. FifoOK'
    BY FifoFacts, PTL
  <2> QED  BY <2>1 DEF GetStoredSize, FifoOK
<1>4. /\ mARegionSize \in 0 .. Capacity /\ mBRegionSize \in 0 .. Capacity
      /\ mARegionPointer \in 0 .. Capacity - 1 /\ mBRegionPointer \in {NULL, 0}
      /\ mBRegionPointer = NULL => mBRegionSize = 0
      /\ mBRegionPointer # NULL => mBRegionSize <= mARegionPointer
      /\ mARegionPointer + mARegionSize <= Capacity
  BY CapacityAssumption DEF Inv, TypeOK, LayoutOK, Address, NULL
<1>5. /\ more \in Seq(Byte) /\ Len(more) = N + L
      /\ \A i \in 1 .. N + L : more[i] = IF i <= N THEN Fifo[i] ELSE data[i - N]
  <2>1. Fifo \in Seq(Byte) /\ data \in Seq(Byte) /\ Len(Fifo) = N /\ Len(data) = L
    BY <1>1, <1>2
  <2>2. /\ more \in Seq(Byte) /\ Len(more) = Len(Fifo) + Len(data)
        /\ \A i \in 1 .. Len(Fifo) + Len(data) :
             more[i] = IF i <= Len(Fifo) THEN Fifo[i] ELSE data[i - Len(Fifo)]
    BY <2>1, ConcatProperties, Zenon
  <2> HIDE DEF N, L, more
  <2> QED  BY <2>1, <2>2, Zenon
<1>6. /\ \A j \in 0 .. Capacity - 1 : j \in at .. at + L - 1 => mBuffer'[j] = data[j - at + 1]
      /\ \A j \in 0 .. Capacity - 1 : j \notin at .. at + L - 1 => mBuffer'[j] = mBuffer[j]
  BY DEF Stored, Address
<1> HIDE DEF L, more
<1>7. N' = N + L
  <2>1. mARegionSize' + mBRegionSize' = mARegionSize + mBRegionSize + L
    BY <1>1, <1>4 DEF L
  <2> QED  BY <1>2, <1>3, <2>1
<1>8. ASSUME NEW i \in 1 .. N + L PROVE ByteAt(i)' = more[i]
  <2>0. i \in Int /\ 1 <= i /\ i <= N + L /\ N + L <= Capacity
    BY <1>1, <1>2, <1>3, <1>7
  <2>1. CASE i <= mARegionSize
    <3>1. /\ mARegionPointer + i - 1 \in 0 .. Capacity - 1
          /\ mARegionPointer + i - 1 \notin at .. at + L - 1
          /\ i <= mARegionSize' /\ i <= N
      BY <1>1, <1>2, <1>4, <2>0, <2>1 DEF L
    <3>2. ByteAt(i)' = mBuffer[mARegionPointer + i - 1]
      BY <1>6, <3>1 DEF ByteAt
    <3> QED  BY <1>2, <1>5, <2>0, <2>1, <3>1, <3>2 DEF ByteAt
  <2>2. CASE mARegionSize < i /\ i <= N
    <3>1. /\ mBRegionPointer = 0 /\ mBRegionPointer' = 0 /\ mARegionSize' = mARegionSize
          /\ at = mBRegionSize
      BY <1>2, <1>4, <2>0, <2>2 DEF NULL
    <3>2. /\ 0 + i - 1 - mARegionSize \in 0 .. Capacity - 1
          /\ 0 + i - 1 - mARegionSize \notin at .. at + L - 1
      BY <1>1, <1>2, <1>4, <2>0, <2>2, <3>1
    <3>3. ~(i <= mARegionSize)
      BY <1>4, <2>2
    <3>4. ByteAt(i)' = mBuffer[0 + i - 1 - mARegionSize]
      BY <1>6, <3>1, <3>2, <3>3 DEF ByteAt
    <3> QED  BY <1>2, <1>5, <2>0, <2>2, <3>1, <3>3, <3>4 DEF ByteAt
  <2>3. CASE N < i
    <3>1. more[i] = data[i - N]
      BY <1>2, <1>5, <2>0, <2>3
    <3>2. CASE /\ at = mBRegionSize /\ mBRegionSize + Len(data) <= mARegionPointer
               /\ mARegionSize' = mARegionSize /\ mBRegionPointer' = 0
      <4>1. /\ ~(i <= mARegionSize')
            /\ 0 + i - 1 - mARegionSize \in at .. at + L - 1
            /\ 0 + i - 1 - mARegionSize \in 0 .. Capacity - 1
            /\ (0 + i - 1 - mARegionSize) - at + 1 = i - N
        BY <1>1, <1>2, <1>4, <2>0, <2>3, <3>2
      <4>2. ByteAt(i)' = mBuffer'[0 + i - 1 - mARegionSize]
        BY <3>2, <4>1 DEF ByteAt
      <4>3. mBuffer'[0 + i - 1 - mARegionSize] = data[(0 + i - 1 - mARegionSize) - at + 1]
        BY <1>6, <4>1
      <4> QED  BY <3>1, <4>1, <4>2, <4>3
    <3>3. CASE /\ at = mARegionPointer + mARegionSize /\ mBRegionPointer = NULL
               /\ mARegionSize' = mARegionSize + Len(data)
      <4>1. /\ i <= mARegionSize'
            /\ mARegionPointer + i - 1 \in at .. at + L - 1
            /\ mARegionPointer' + mARegionSize' <= Capacity
        BY <1>1, <1>2, <1>4, <2>0, <2>3, <3>3 DEF L, Inv, LayoutOK
      <4>2. /\ mARegionPointer + i - 1 \in 0 .. Capacity - 1
            /\ (mARegionPointer + i - 1) - at + 1 = i - N
        BY <1>1, <1>2, <1>4, <2>0, <2>3, <3>3, <4>1 DEF L
      <4>3. ByteAt(i)' = mBuffer'[mARegionPointer + i - 1]
        BY <4>1 DEF ByteAt
      <4>4. mBuffer'[mARegionPointer + i - 1] = data[(mARegionPointer + i - 1) - at + 1]
        BY <1>6, <4>1, <4>2
      <4> QED  BY <3>1, <4>2, <4>3, <4>4
    <3> QED  BY <3>2, <3>3
  <2> QED  BY <1>2, <1>4, <2>0, <2>1, <2>2, <2>3
<1> HIDE DEF N
<1>9. Fifo' = more
  <2>1. Len(Fifo') = Len(more) /\ \A i \in 1 .. Len(Fifo') : Fifo'[i] = more[i]
    BY <1>3, <1>5, <1>7, <1>8
  <2> QED  BY <1>3, <1>5, <2>1, SeqEqual
<1> QED  BY <1>9 DEF more

(* Appending bytes is what ByteFifo allows.                                *)
LEMMA AppendRefines ==
  ASSUME Inv, Inv', NEW data \in Data, Fifo' = Fifo \o data, out' = out
  PROVE  Abstract!Put
<1>1. PICK n \in 1 .. Capacity : data \in [1 .. n -> Byte]
  BY DEF Data
<1>2. data \in Seq(Byte) /\ Len(data) = n /\ Capacity \in Nat
  BY <1>1, CapacityAssumption
<1>3. Fifo \in Seq(Byte) /\ Len(Fifo) \in 0 .. Capacity
  BY FifoFacts DEF FifoOK
<1>4. Len(Fifo') \in 0 .. Capacity
  <2>1. FifoOK'
    BY FifoFacts, PTL
  <2> QED  BY <2>1 DEF FifoOK
<1>5. Len(Fifo \o data) = Len(Fifo) + Len(data)
  BY <1>2, <1>3, ConcatProperties, Zenon
<1>6. Len(Fifo) + n <= Capacity
  BY <1>2, <1>3, <1>4, <1>5
<1> QED  BY <1>1, <1>6 DEF Abstract!Put, Fifo

(* Write refuses the bytes, which leaves the queue alone even if B is      *)
(* opened for them, or appends them.                                       *)
LEMMA WriteAppends ==
  ASSUME Inv, Inv', NEW data \in Data, Write(data)
  PROVE  /\ out' = out
         /\ \/ Len(data) <= Room /\ Fifo' = Fifo \o data
            \/ Len(data) > Room /\ Fifo' = Fifo
<1>0. mARegionPointer' = mARegionPointer /\ out' = out /\ OpenB
  BY DEF Write, Put
<1>1. CASE Len(data) > Room /\ UNCHANGED <<mBuffer, mARegionSize, mBRegionSize>>
  <2>1. \/ mBRegionPointer' = mBRegionPointer
        \/ mBRegionPointer = NULL /\ mBRegionSize = 0
    BY <1>0 DEF OpenB, Allocated, UsesB, Inv, LayoutOK
  <2>2. GetStoredSize' = GetStoredSize
    BY <1>1 DEF GetStoredSize
  <2>3. ASSUME NEW i \in 1 .. GetStoredSize
        PROVE  mBRegionPointer' = mBRegionPointer \/ i <= mARegionSize
    BY <2>1, CapacityAssumption DEF GetStoredSize, Inv, TypeOK
  <2>4. Fifo' = Fifo
    BY <1>0, <1>1, <2>2, <2>3 DEF Fifo, Front
  <2> QED  BY <1>0, <1>1, <2>4
<1>2. CASE /\ Len(data) <= Room /\ mBuffer' = Stored(Target, data)
           /\ mARegionSize' = mARegionSize + IF UsesB THEN 0 ELSE Len(data)
           /\ mBRegionSize' = mBRegionSize + IF UsesB THEN Len(data) ELSE 0
  <2>1. Len(data) \in 1 .. Capacity /\ Target \in 0 .. Capacity
    BY RoomFacts, StoredType, CapacityAssumption DEF Inv, TypeOK
  <2>2. CASE UsesB
    <3>1. /\ Target = mBRegionSize /\ mBRegionSize + Len(data) <= mARegionPointer
          /\ mARegionSize' = mARegionSize /\ mBRegionSize' = mBRegionSize + Len(data)
          /\ mBRegionPointer' = 0
      BY <1>0, <1>2, <2>1, <2>2, RoomFacts, CapacityAssumption
      DEF OpenB, Inv, TypeOK, Address
    <3>2. Fifo' = Fifo \o data
      BY <1>0, <1>2, <2>1, <3>1, StoreAppends
    <3> QED  BY <1>0, <1>2, <3>2
  <2>3. CASE ~UsesB
    <3>1. /\ Target = mARegionPointer + mARegionSize /\ mBRegionPointer = NULL
          /\ mARegionSize' = mARegionSize + Len(data) /\ mBRegionSize' = mBRegionSize
          /\ mBRegionPointer' = NULL
      BY <1>0, <1>2, <2>1, <2>3, RoomFacts, CapacityAssumption DEF OpenB, Inv, TypeOK
    <3>2. Fifo' = Fifo \o data
      BY <1>0, <1>2, <2>1, <3>1, StoreAppends
    <3> QED  BY <1>0, <1>2, <3>2
  <2> QED  BY <2>2, <2>3
<1> QED  BY <1>1, <1>2 DEF Write, Put

(* Commit appends what the receive stored where it was posted.             *)
LEMMA CommitAppends ==
  ASSUME Inv, Inv', NEW data \in Data, Commit(data)
  PROVE  Fifo' = Fifo \o data /\ out' = out
<1>0. /\ out' = out /\ mBuffer' = Stored(posted.at, data) /\ Len(data) <= posted.len
      /\ mARegionPointer' = mARegionPointer /\ mBRegionPointer' = mBRegionPointer
  BY DEF Commit, Fill
<1>1. /\ posted.len > 0 /\ posted.at \in 0 .. Capacity /\ posted.len \in 0 .. Capacity
  BY DEF Commit, Idle, Inv, PostedRoom, TypeOK
<1>2. Len(data) \in 1 .. Capacity
  BY <1>1, StoredType DEF Inv, TypeOK
<1>3. CASE mBRegionPointer # NULL
  <2>1. /\ posted.at = mBRegionSize /\ mBRegionSize + Len(data) <= mARegionPointer
        /\ mARegionSize' = mARegionSize /\ mBRegionSize' = mBRegionSize + Len(data)
        /\ mBRegionPointer' = 0
    BY <1>0, <1>1, <1>2, <1>3, CapacityAssumption
    DEF Commit, Fill, Inv, TypeOK, PostedSpaceFree, Address
  <2>2. Fifo' = Fifo \o data
    BY <1>0, <1>1, <2>1, StoreAppends
  <2> QED  BY <1>0, <2>2
<1>4. CASE mBRegionPointer = NULL
  <2>1. /\ posted.at = mARegionPointer + mARegionSize
        /\ mARegionSize' = mARegionSize + Len(data) /\ mBRegionSize' = mBRegionSize
        /\ mBRegionPointer' = NULL
    BY <1>0, <1>1, <1>4 DEF Commit, Fill, Inv, PostedSpaceFree
  <2>2. Fifo' = Fifo \o data
    BY <1>0, <1>1, <1>4, <2>1, StoreAppends
  <2> QED  BY <1>0, <2>2
<1> QED  BY <1>3, <1>4

(* PostRecv leaves the queue alone, although it may open B.                *)
LEMMA PostRecvKeeps ==
  ASSUME Inv, PostRecv
  PROVE  Fifo' = Fifo /\ out' = out
<1>1. UNCHANGED <<mBuffer, mARegionPointer, mARegionSize, mBRegionSize, out>> /\ OpenB
  BY DEF PostRecv
<1>2. mBRegionPointer' = mBRegionPointer \/ mBRegionSize = 0
  BY <1>1 DEF OpenB, Allocated, UsesB, Inv, LayoutOK
<1>3. ASSUME NEW i \in 1 .. GetStoredSize
      PROVE  mBRegionPointer' = mBRegionPointer \/ i <= mARegionSize
  BY <1>2, CapacityAssumption DEF GetStoredSize, Inv, TypeOK
<1>4. GetStoredSize' = GetStoredSize
  BY <1>1 DEF GetStoredSize
<1>5. Fifo' = Fifo
  BY <1>1, <1>3, <1>4 DEF Fifo, Front
<1> QED  BY <1>1, <1>5

(* For every capacity and every sequence of operations the buffer is a     *)
(* first-in first-out queue of bytes (RefinesByteFifo): every step is a    *)
(* step of ByteFifo or leaves its variables alone.                         *)
THEOREM Refinement == Spec => RefinesByteFifo
<1>1. Init => Abstract!Init
  <2> SUFFICES ASSUME Init PROVE Front(GetStoredSize) = <<>> /\ out = <<>>
    BY DEF Abstract!Init
  <2>1. GetStoredSize = 0 /\ out = <<>>
    BY DEF Init, GetStoredSize
  <2>2. Fifo \in Seq(Byte) /\ Len(Fifo) = 0
    BY <2>1, InitInv, FifoFacts DEF FifoOK
  <2> QED  BY <2>1, <2>2, EmptySeq DEF Fifo
<1>2. Inv /\ Inv' /\ [Next]_vars => [Abstract!Next]_<<Fifo, out>>
  <2> SUFFICES ASSUME Inv, Inv', [Next]_vars
               PROVE  Abstract!Next \/ (Fifo' = Fifo /\ out' = out)
    OBVIOUS
  <2>1. CASE PostRecv
    BY <2>1, PostRecvKeeps
  <2>2. ASSUME NEW data \in Data, Write(data) \/ Commit(data)
        PROVE  Abstract!Next \/ (Fifo' = Fifo /\ out' = out)
    BY <2>2, WriteAppends, CommitAppends, AppendRefines DEF Abstract!Next
  <2>3. ASSUME NEW n \in 1 .. Capacity, Peek(n) PROVE Abstract!Next
    <3>1. n <= Len(Fifo) /\ out' = SubSeq(Fifo, 1, n)
      BY <2>3, FrontIsPrefix DEF Peek
    <3>2. Fifo' = Fifo
      BY <2>3 DEF Peek, regionVars, Fifo, Front, GetStoredSize
    <3> QED  BY <3>1, <3>2 DEF Abstract!Next, Abstract!Peek, Fifo
  <2>4. ASSUME NEW n \in 1 .. Capacity, Read(n) PROVE Abstract!Next
    <3>1. n <= Len(Fifo) /\ out' = SubSeq(Fifo, 1, n)
      BY <2>4, FrontIsPrefix DEF Read
    <3>2. Fifo' = SubSeq(Fifo, n + 1, Len(Fifo))
      BY <2>4, DropRefines DEF Read
    <3> QED  BY <3>1, <3>2 DEF Abstract!Next, Abstract!Read, Fifo
  <2>5. ASSUME NEW n \in 1 .. Capacity, Remove(n) PROVE Abstract!Next
    <3>1. Fifo' = SubSeq(Fifo, n + 1, Len(Fifo)) /\ out' = out
      BY <2>5, DropRefines DEF Remove
    <3> QED  BY <3>1 DEF Abstract!Next, Abstract!Remove, Fifo
  <2>6. CASE UNCHANGED vars
    BY <2>6 DEF vars, regionVars, Fifo, Front, GetStoredSize
  <2> QED  BY <2>1, <2>2, <2>3, <2>4, <2>5, <2>6 DEF Next
<1> QED  BY <1>1, <1>2, Invariance, PTL DEF Spec, RefinesByteFifo, Abstract!Spec, Fifo
-----------------------------------------------------------------------------
(* How much room there is.  B is opened when there is less space behind A  *)
(* than before it, so A then ends in the second half of the memory; its    *)
(* end does not move while B is open.                                      *)
OpenedLate == mBRegionPointer # NULL => 2 * (mARegionPointer + mARegionSize) >= Capacity + 2

(* Opening B, where nothing else changes or only B grows.                  *)
LEMMA OpenLate ==
  ASSUME Inv, OpenedLate, OpenB, mARegionPointer' = mARegionPointer,
         ~UsesB \/ mARegionSize' = mARegionSize
  PROVE  OpenedLate'
<1>1. CASE ~UsesB
  <2>1. mBRegionPointer' = NULL
    BY <1>1 DEF OpenB, UsesB
  <2> QED  BY <2>1 DEF OpenedLate
<1>2. CASE mBRegionPointer # NULL
  <2>1. UsesB
    BY <1>2 DEF UsesB
  <2> QED  BY <1>2, <2>1 DEF OpenedLate
<1>3. CASE UsesB /\ mBRegionPointer = NULL
  <2>1. /\ Capacity - mARegionPointer - mARegionSize < mARegionPointer
        /\ mARegionSize > 0 /\ mARegionSize' = mARegionSize
    BY <1>3, RoomFacts DEF UsesB, GetAFreeSpace, GetSpaceBeforeA
  <2>2. mARegionPointer \in Int /\ mARegionSize \in Int /\ Capacity \in Int
    BY CapacityAssumption DEF Inv, TypeOK, Address
  <2>3. 2 * (mARegionPointer + mARegionSize) >= Capacity + 2
    BY <2>1, <2>2
  <2> QED  BY <2>1, <2>3 DEF OpenedLate
<1> QED  BY <1>1, <1>2, <1>3

(* Write and PostRecv open B, if they do, late enough.                     *)
LEMMA WriteLate ==
  ASSUME Inv, OpenedLate, NEW data \in Data, Write(data) \/ PostRecv
  PROVE  OpenedLate'
<1>1. /\ OpenB /\ mARegionPointer' = mARegionPointer
      /\ mARegionSize' = mARegionSize + (IF UsesB THEN 0 ELSE Len(data)) \/ mARegionSize' = mARegionSize
  BY DEF Write, Put, PostRecv
<1>2. mARegionSize \in Int
  BY CapacityAssumption DEF Inv, TypeOK
<1>3. ~UsesB \/ mARegionSize' = mARegionSize
  BY <1>1, <1>2
<1> QED  BY <1>1, <1>3, OpenLate

(* Commit leaves A alone while B is open, and Drop leaves A's end where it *)
(* is or closes B.                                                         *)
LEMMA CommitLate ==
  ASSUME Inv, OpenedLate, NEW data \in Data, Commit(data)
  PROVE  OpenedLate'
BY DEF Commit, Fill, OpenedLate

(* Likewise.                                                               *)
LEMMA DropLate ==
  ASSUME Inv, OpenedLate, NEW n \in 1 .. Capacity, Drop(n)
  PROVE  OpenedLate'
<1> DEFINE a == Min2(n, mARegionSize)
<1>1. CASE mARegionSize > a
  <2>1. /\ mARegionPointer' = mARegionPointer + a /\ mARegionSize' = mARegionSize - a
        /\ mBRegionPointer' = mBRegionPointer
    BY <1>1 DEF Drop
  <2>2. a \in Int /\ mARegionPointer \in Int /\ mARegionSize \in Int
    BY CapacityAssumption DEF Inv, TypeOK, Address, Min2
  <2> HIDE DEF a
  <2>3. mARegionPointer' + mARegionSize' = mARegionPointer + mARegionSize
    BY <2>1, <2>2
  <2> QED  BY <2>1, <2>3 DEF OpenedLate
<1>2. CASE ~(mARegionSize > a)
  BY <1>2 DEF Drop, OpenedLate
<1> QED  BY <1>1, <1>2

(* A buffer that holds fewer than k bytes has room for n more: half of it, *)
(* less what it holds.                                                     *)
LEMMA RoomLate ==
  ASSUME Inv, OpenedLate, NEW k \in Nat, NEW n \in Nat, k >= 2, GetStoredSize < k,
         2 * (n + k) <= Capacity + 4
  PROVE  Room >= n
<1>1. /\ mARegionPointer \in Nat /\ mARegionSize \in Nat /\ mBRegionSize \in Nat
      /\ Capacity \in Nat /\ mARegionSize + mBRegionSize < k
      /\ mBRegionPointer \in {NULL, 0} /\ (mBRegionPointer = NULL => mBRegionSize = 0)
  BY CapacityAssumption DEF Inv, TypeOK, LayoutOK, Address, GetStoredSize, NULL
<1>2. CASE mBRegionPointer # NULL
  <2>1. UsesB
    BY <1>2 DEF UsesB
  <2>2. Room = mARegionPointer - mBRegionSize
    BY <2>1, RoomFacts
  <2> QED  BY <1>1, <1>2, <2>2 DEF OpenedLate
<1>3. CASE mBRegionPointer = NULL
  <2>1. /\ UsesB => Room = mARegionPointer
        /\ ~UsesB => Room = Capacity - mARegionPointer - mARegionSize
        /\ UsesB <=> Capacity - mARegionPointer - mARegionSize < mARegionPointer
    BY <1>1, <1>3, RoomFacts DEF UsesB, GetAFreeSpace, GetSpaceBeforeA
  <2>2. mBRegionSize = 0
    BY <1>1, <1>3
  <2>3. CASE UsesB
    BY <1>1, <2>1, <2>2, <2>3
  <2>4. CASE ~UsesB
    BY <1>1, <2>1, <2>2, <2>4
  <2> QED  BY <2>3, <2>4
<1> QED  BY <1>2, <1>3
=============================================================================
