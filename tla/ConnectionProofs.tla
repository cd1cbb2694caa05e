-------------------------- MODULE ConnectionProofs --------------------------
(* Proofs about Connection, for every size of the buffers and packets: the *)
(* buffers keep their shape, receives have room, and sends stay where they *)
(* were posted.  What holds of one CircularBuffer is taken over from       *)
(* CircularBufferProofs for each of the three.                             *)
EXTENDS Connection, SequenceTheorems, TLAPS

\* The bytes there are: of a packet, of an answer to what did not parse, or
\* blank.
Number == 0 .. MaxPackets \cup {Garbage}
Bytes  == [packet : Number, at : 0 .. BUFSIZE, size : Sizes]

\* The outstanding receive as the receive buffer's posted.
Posted == IF recv = NoRecv THEN Idle ELSE recv

RecvB == INSTANCE CircularBufferProofs WITH
  Capacity <- BUFSIZE, Byte <- Bytes, mBuffer <- rBuffer,
  mARegionPointer <- rAPointer, mARegionSize <- rASize,
  mBRegionPointer <- rBPointer, mBRegionSize <- rBSize, posted <- Posted, out <- <<>>

SendB == INSTANCE CircularBufferProofs WITH
  Capacity <- BUFSIZE, Byte <- Bytes, mBuffer <- sBuffer,
  mARegionPointer <- sAPointer, mARegionSize <- sASize,
  mBRegionPointer <- sBPointer, mBRegionSize <- sBSize, posted <- Idle, out <- <<>>

InB == INSTANCE CircularBufferProofs WITH
  Capacity <- BUF_SIZE, Byte <- Bytes, mBuffer <- cBuffer,
  mARegionPointer <- cAPointer, mARegionSize <- cASize,
  mBRegionPointer <- cBPointer, mBRegionSize <- cBSize, posted <- Idle, out <- <<>>

(* The capacities are what CircularBuffer assumes.                         *)
LEMMA Capacities ==
  /\ RecvB!CapacityAssumption /\ SendB!CapacityAssumption /\ InB!CapacityAssumption
  /\ BUFSIZE \in Nat \ {0} /\ BUF_SIZE \in Nat \ {0}
<1>1. BUFSIZE \in Nat \ {0} /\ BUF_SIZE \in Nat \ {0}
  BY ConnectionAssumption
<1> QED  BY <1>1 DEF RecvB!CapacityAssumption, SendB!CapacityAssumption, InB!CapacityAssumption

(* The operators of the model's three buffers are those of the buffers the *)
(* lemmas are about.                                                       *)
LEMMA SameRecv ==
  /\ RecvBuffer!GetStoredSize = RecvB!GetStoredSize
  /\ RecvBuffer!Room = RecvB!Room /\ RecvBuffer!Target = RecvB!Target
  /\ RecvBuffer!OpenB <=> RecvB!OpenB
  /\ \A n : RecvBuffer!Front(n) = RecvB!Front(n) /\ (RecvBuffer!Drop(n) <=> RecvB!Drop(n))
  /\ \A at, data : RecvBuffer!Fill(at, data) <=> RecvB!Fill(at, data)
  /\ RecvBuffer!NULL = RecvB!NULL
<1>1. RecvBuffer!NULL = RecvB!NULL /\ RecvBuffer!Address = RecvB!Address
  BY DEF RecvBuffer!NULL, RecvB!NULL, RecvBuffer!Address, RecvB!Address
<1>2. /\ RecvBuffer!UsesB <=> RecvB!UsesB
      /\ RecvBuffer!Allocated = RecvB!Allocated /\ RecvBuffer!GetAFreeSpace = RecvB!GetAFreeSpace
  BY <1>1 DEF RecvBuffer!UsesB, RecvB!UsesB, RecvBuffer!Allocated, RecvB!Allocated,
     RecvBuffer!GetAFreeSpace, RecvB!GetAFreeSpace, RecvBuffer!GetSpaceBeforeA,
     RecvB!GetSpaceBeforeA
<1>3. /\ RecvBuffer!GetStoredSize = RecvB!GetStoredSize
      /\ RecvBuffer!Room = RecvB!Room /\ RecvBuffer!Target = RecvB!Target
      /\ RecvBuffer!OpenB <=> RecvB!OpenB
  BY <1>2 DEF RecvBuffer!GetStoredSize, RecvB!GetStoredSize, RecvBuffer!Room, RecvB!Room,
     RecvBuffer!Target, RecvB!Target, RecvBuffer!OpenB, RecvB!OpenB
<1>4. ASSUME NEW n
      PROVE  RecvBuffer!Front(n) = RecvB!Front(n) /\ (RecvBuffer!Drop(n) <=> RecvB!Drop(n))
  BY <1>1 DEF RecvBuffer!Front, RecvB!Front, RecvBuffer!Drop, RecvB!Drop, RecvBuffer!Min2,
     RecvB!Min2
<1>5. ASSUME NEW at, NEW data PROVE RecvBuffer!Fill(at, data) <=> RecvB!Fill(at, data)
  BY <1>1 DEF RecvBuffer!Fill, RecvB!Fill, RecvBuffer!Stored, RecvB!Stored
<1> QED  BY <1>1, <1>3, <1>4, <1>5

(* Likewise.                                                               *)
LEMMA SameSend ==
  /\ SendBuffer!GetStoredSize = SendB!GetStoredSize
  /\ SendBuffer!GetBufferStart = SendB!GetBufferStart
  /\ SendBuffer!GetContiguiousBytes = SendB!GetContiguiousBytes
  /\ SendBuffer!Room = SendB!Room
  /\ \A n : SendBuffer!Drop(n) <=> SendB!Drop(n)
  /\ \A data : SendBuffer!Put(data) <=> SendB!Write(data)
  /\ SendBuffer!NULL = SendB!NULL
<1>1. SendBuffer!NULL = SendB!NULL /\ SendBuffer!Address = SendB!Address
  BY DEF SendBuffer!NULL, SendB!NULL, SendBuffer!Address, SendB!Address
<1>2. /\ SendBuffer!UsesB <=> SendB!UsesB
      /\ SendBuffer!Allocated = SendB!Allocated /\ SendBuffer!GetAFreeSpace = SendB!GetAFreeSpace
  BY <1>1 DEF SendBuffer!UsesB, SendB!UsesB, SendBuffer!Allocated, SendB!Allocated,
     SendBuffer!GetAFreeSpace, SendB!GetAFreeSpace, SendBuffer!GetSpaceBeforeA,
     SendB!GetSpaceBeforeA
<1>3. /\ SendBuffer!GetStoredSize = SendB!GetStoredSize
      /\ SendBuffer!GetBufferStart = SendB!GetBufferStart
      /\ SendBuffer!GetContiguiousBytes = SendB!GetContiguiousBytes
      /\ SendBuffer!Room = SendB!Room /\ SendBuffer!Target = SendB!Target
      /\ SendBuffer!OpenB <=> SendB!OpenB
  BY <1>2 DEF SendBuffer!GetStoredSize, SendB!GetStoredSize, SendBuffer!GetBufferStart,
     SendB!GetBufferStart, SendBuffer!GetContiguiousBytes, SendB!GetContiguiousBytes,
     SendBuffer!Room, SendB!Room, SendBuffer!Target, SendB!Target, SendBuffer!OpenB, SendB!OpenB
<1>4. ASSUME NEW n PROVE SendBuffer!Drop(n) <=> SendB!Drop(n)
  BY <1>1 DEF SendBuffer!Drop, SendB!Drop, SendBuffer!Min2, SendB!Min2
<1>5. ASSUME NEW data PROVE SendBuffer!Put(data) <=> SendB!Write(data)
  BY <1>1, <1>2, <1>3 DEF SendBuffer!Put, SendB!Put, SendBuffer!Stored, SendB!Stored, SendB!Write,
     SendB!Idle, SendB!NotPosted, Idle
<1> QED  BY <1>1, <1>3, <1>4, <1>5

(* Likewise.                                                               *)
LEMMA SameInbox ==
  /\ Inbox!GetStoredSize = InB!GetStoredSize /\ Inbox!Room = InB!Room
  /\ \A n : Inbox!Front(n) = InB!Front(n) /\ (Inbox!Drop(n) <=> InB!Drop(n))
  /\ \A data : Inbox!Put(data) <=> InB!Write(data)
  /\ Inbox!NULL = InB!NULL
<1>1. Inbox!NULL = InB!NULL /\ Inbox!Address = InB!Address
  BY DEF Inbox!NULL, InB!NULL, Inbox!Address, InB!Address
<1>2. /\ Inbox!UsesB <=> InB!UsesB
      /\ Inbox!Allocated = InB!Allocated /\ Inbox!GetAFreeSpace = InB!GetAFreeSpace
  BY <1>1 DEF Inbox!UsesB, InB!UsesB, Inbox!Allocated, InB!Allocated,
     Inbox!GetAFreeSpace, InB!GetAFreeSpace, Inbox!GetSpaceBeforeA, InB!GetSpaceBeforeA
<1>3. /\ Inbox!GetStoredSize = InB!GetStoredSize
      /\ Inbox!Room = InB!Room /\ Inbox!Target = InB!Target
      /\ Inbox!OpenB <=> InB!OpenB
  BY <1>2 DEF Inbox!GetStoredSize, InB!GetStoredSize, Inbox!Room, InB!Room, Inbox!Target,
     InB!Target, Inbox!OpenB, InB!OpenB
<1>4. ASSUME NEW n PROVE Inbox!Front(n) = InB!Front(n) /\ (Inbox!Drop(n) <=> InB!Drop(n))
  BY <1>1 DEF Inbox!Front, InB!Front, Inbox!Drop, InB!Drop, Inbox!Min2, InB!Min2
<1>5. ASSUME NEW data PROVE Inbox!Put(data) <=> InB!Write(data)
  BY <1>1, <1>2, <1>3 DEF Inbox!Put, InB!Put, Inbox!Stored, InB!Stored, InB!Write, InB!Idle,
     InB!NotPosted, Idle
<1> QED  BY <1>1, <1>3, <1>4, <1>5
-----------------------------------------------------------------------------
(* Packets and pieces of the stream are bytes that a buffer takes.         *)
LEMMA PacketBytes ==
  ASSUME NEW k \in Number, NEW size \in Sizes
  PROVE  /\ Packet(k, size) \in Seq(Bytes) /\ Len(Packet(k, size)) = size
         /\ size \in 2 .. BUFSIZE /\ HeaderSize < size
         /\ \A i \in 1 .. size : Packet(k, size)[i] = [packet |-> k, at |-> i, size |-> size]
         /\ Packet(k, size) \in SendB!Data
<1>1. size \in 2 .. BUFSIZE /\ HeaderSize < size
  BY ConnectionAssumption
<1>2. Packet(k, size) \in [1 .. size -> Bytes]
  BY <1>1, ConnectionAssumption DEF Packet, Bytes
<1>3. Packet(k, size) \in Seq(Bytes) /\ Len(Packet(k, size)) = size
  BY <1>1, <1>2
<1> QED  BY <1>1, <1>2, <1>3 DEF Packet, SendB!Data

(* A piece of the stream, and what is left.                                *)
LEMMA Pieces ==
  ASSUME NEW s \in Seq(Bytes), NEW n \in 1 .. Len(s)
  PROVE  /\ SubSeq(s, 1, n) \in Seq(Bytes) /\ Len(SubSeq(s, 1, n)) = n
         /\ \A i \in 1 .. n : SubSeq(s, 1, n)[i] = s[i]
         /\ SubSeq(s, 1, n) \in [1 .. n -> Bytes]
         /\ SubSeq(s, n + 1, Len(s)) \in Seq(Bytes)
         /\ Len(SubSeq(s, n + 1, Len(s))) = Len(s) - n
         /\ \A i \in 1 .. Len(s) - n : SubSeq(s, n + 1, Len(s))[i] = s[n + i]
<1>1. Len(s) \in Nat /\ n \in Nat /\ \A i \in 1 .. Len(s) : s[i] \in Bytes
  OBVIOUS
<1>2. /\ SubSeq(s, 1, n) \in Seq(Bytes) /\ Len(SubSeq(s, 1, n)) = n
      /\ \A i \in 1 .. n : SubSeq(s, 1, n)[i] = s[i]
  <2>1. /\ 1 \in Int /\ n \in Int /\ n - 1 + 1 = n /\ \A i \in 1 .. n : 1 + i - 1 = i
        /\ \A i \in 1 .. n : s[i] \in Bytes /\ 1 <= n
    BY <1>1
  <2> QED  BY <2>1, SubSeqProperties
<1>3. SubSeq(s, 1, n) \in [1 .. n -> Bytes]
  BY <1>2, LenProperties
<1>4. /\ SubSeq(s, n + 1, Len(s)) \in Seq(Bytes)
      /\ Len(SubSeq(s, n + 1, Len(s))) = Len(s) - n
      /\ \A i \in 1 .. Len(s) - n : SubSeq(s, n + 1, Len(s))[i] = s[n + i]
  <2>1. \A i \in n + 1 .. Len(s) : s[i] \in Bytes
    BY <1>1
  <2>2. n + 1 \in Int /\ Len(s) \in Int
    BY <1>1
  <2>3. /\ SubSeq(s, n + 1, Len(s)) \in Seq(Bytes)
        /\ Len(SubSeq(s, n + 1, Len(s))) =
             IF n + 1 <= Len(s) THEN Len(s) - (n + 1) + 1 ELSE 0
        /\ \A i \in 1 .. Len(s) - (n + 1) + 1 : SubSeq(s, n + 1, Len(s))[i] = s[n + 1 + i - 1]
    BY <2>1, <2>2, SubSeqProperties
  <2> QED  BY <1>1, <2>3
<1> QED  BY <1>2, <1>3, <1>4

(* A header is that of a packet of some size, and what parses has a number *)
(* of a packet.                                                            *)
LEMMA Headers ==
  ASSUME NEW bytes \in Seq(Bytes), Len(bytes) >= 1
  PROVE  HeaderSizes(bytes) \subseteq Sizes /\ Parsed(bytes) \in Number
<1>1. bytes[1] \in Bytes
  OBVIOUS
<1> QED  BY <1>1 DEF HeaderSizes, Parsed, Bytes, Number

\* An overlapped send lies in the send buffer.
SendRecord == [at : 0 .. BUFSIZE, len : 1 .. BUFSIZE, gone : BOOLEAN]

Types ==
  /\ sent \in 0 .. MaxPackets /\ mConnected \in BOOLEAN
  /\ up \in Seq(Bytes) /\ down \in Seq(Bytes)
  /\ sends \in Seq(SendRecord) /\ \A k \in DOMAIN sends : sends[k].at + sends[k].len <= BUFSIZE

RecvInv ==
  RecvB!Inv /\ RecvB!OpenedLate /\ RecvHasRoom /\ (pc = "read" => recv = NoRecv)

InboxInv == InB!Inv /\ InB!OpenedLate

Base == Types /\ RecvInv /\ SendB!Inv /\ InboxInv

(* The initial states satisfy the invariant.                               *)
LEMMA InitBase == Init => Base
<1> SUFFICES ASSUME Init PROVE Base  OBVIOUS
<1>0. Blank \in Bytes /\ BUFSIZE \in Nat /\ BUF_SIZE \in Nat
  <2>1. (CHOOSE n \in Sizes : TRUE) \in Sizes
    BY ConnectionAssumption
  <2> QED  BY <2>1, ConnectionAssumption DEF Blank, Bytes, Number
<1>1. Types
  BY ConnectionAssumption DEF Init, Types
<1>2. SendB!Inv
  <2>1. SendB!Init
    BY <1>0 DEF Init, SendB!Init, SendB!Address, SendB!NULL, SendBuffer!NULL, SendB!NotPosted, Idle
  <2> QED  BY <2>1, SendB!InitInv, Capacities
<1>3. InboxInv
  <2>1. InB!Init
    BY <1>0 DEF Init, InB!Init, InB!Address, InB!NULL, Inbox!NULL, InB!NotPosted, Idle
  <2> QED  BY <2>1, InB!InitInv, Capacities DEF InboxInv, InB!OpenedLate, InB!Init
<1>4. RecvInv
  <2>1. /\ rBuffer \in [0 .. BUFSIZE - 1 -> Bytes] /\ rAPointer = 0 /\ rASize = 0
        /\ rBPointer = -1 /\ rBSize = 0
        /\ recv = [at |-> 0, len |-> BUFSIZE] /\ recv # NoRecv /\ Posted = recv
        /\ pc = "alertable"
    BY <1>0 DEF Init, RecvBuffer!NULL, NoRecv, Posted
  <2>2. RecvB!Inv
    BY <2>1, Capacities
    DEF RecvB!Inv, RecvB!TypeOK, RecvB!LayoutOK, RecvB!PostedSpaceFree, RecvB!EmptyAtStart,
        RecvB!PostedRoom, RecvB!Address, RecvB!NULL, RecvB!NotPosted
  <2>3. RecvHasRoom /\ RecvB!OpenedLate
    BY <2>1, Capacities DEF RecvHasRoom, RecvB!OpenedLate, RecvB!NULL
  <2> QED  BY <2>1, <2>2, <2>3 DEF RecvInv
<1> QED  BY <1>1, <1>2, <1>3, <1>4 DEF Base
-----------------------------------------------------------------------------
(* Twice the largest packet but for two bytes fits in a buffer of the      *)
(* session: BUFSIZE is 10240, and no packet of PacketType.h is near half.  *)
ReceiveFits == \A n \in Sizes : 2 * (n - 1) <= BUFSIZE

(* The packet at the front of the receive buffer.                          *)
LEMMA RecvPacket ==
  ASSUME RecvB!Inv, RecvBuffer!GetStoredSize >= HeaderSize,
         NEW size \in HeaderSizes(RecvBuffer!Front(HeaderSize))
  PROVE  /\ size \in Sizes /\ size \in 2 .. BUFSIZE
         /\ size <= RecvBuffer!GetStoredSize => Parsed(RecvBuffer!Front(size)) \in Number
<1>1. RecvB!GetStoredSize \in 0 .. BUFSIZE /\ RecvBuffer!GetStoredSize = RecvB!GetStoredSize
  BY RecvB!FifoFacts, Capacities, SameRecv DEF RecvB!FifoOK
<1>2. HeaderSize \in Nat \ {0} /\ BUFSIZE \in Nat
  BY ConnectionAssumption
<1>3. \A n \in 0 .. RecvB!GetStoredSize :
        RecvBuffer!Front(n) \in Seq(Bytes) /\ Len(RecvBuffer!Front(n)) = n
  BY RecvB!FrontFacts, Capacities, SameRecv
<1>4. HeaderSizes(RecvBuffer!Front(HeaderSize)) \subseteq Sizes
  BY <1>1, <1>2, <1>3, Headers
<1>5. size \in Sizes /\ size \in 2 .. BUFSIZE
  BY <1>4, ConnectionAssumption
<1>6. ASSUME size <= RecvBuffer!GetStoredSize PROVE Parsed(RecvBuffer!Front(size)) \in Number
  BY <1>1, <1>2, <1>3, <1>5, <1>6, Headers
<1> QED  BY <1>5, <1>6

(* The packet at the front of the client's buffer.                         *)
LEMMA InboxPacket ==
  ASSUME InB!Inv, Inbox!GetStoredSize >= HeaderSize,
         NEW size \in HeaderSizes(Inbox!Front(HeaderSize))
  PROVE  size \in Sizes /\ size \in 2 .. BUFSIZE /\ Inbox!GetStoredSize \in 0 .. BUF_SIZE
<1>1. InB!GetStoredSize \in 0 .. BUF_SIZE /\ Inbox!GetStoredSize = InB!GetStoredSize
  BY InB!FifoFacts, Capacities, SameInbox DEF InB!FifoOK
<1>2. HeaderSize \in Nat \ {0} /\ BUF_SIZE \in Nat
  BY ConnectionAssumption
<1>3. \A n \in 0 .. InB!GetStoredSize :
        Inbox!Front(n) \in Seq(Bytes) /\ Len(Inbox!Front(n)) = n
  BY InB!FrontFacts, Capacities, SameInbox
<1>4. HeaderSizes(Inbox!Front(HeaderSize)) \subseteq Sizes
  BY <1>1, <1>2, <1>3, Headers
<1> QED  BY <1>1, <1>4, ConnectionAssumption

(* The receive buffer stays as it was where its variables do.              *)
LEMMA RecvFrame ==
  ASSUME RecvInv, UNCHANGED <<recvVars, recv>>, pc' = "read" => pc = "read"
  PROVE  RecvInv'
<1>1. UNCHANGED RecvB!vars
  BY DEF RecvB!vars, RecvB!regionVars, recvVars, Posted
<1>2. RecvB!Inv'
  BY <1>1, RecvB!NextInv, Capacities DEF RecvInv
<1> QED  BY <1>2 DEF RecvInv, RecvB!OpenedLate, recvVars, RecvHasRoom

(* A receive that completes is a Commit of what has arrived.               *)
LEMMA CompletionCommits ==
  ASSUME Types, RecvInv, NEW n \in 1 .. BUFSIZE, RecvCompletion(n)
  PROVE  /\ n \in 1 .. Len(up) /\ SubSeq(up, 1, n) \in RecvB!Data
         /\ RecvB!Commit(SubSeq(up, 1, n)) /\ RecvInv'
<1> DEFINE data == SubSeq(up, 1, n)
<1>1. n \in 1 .. Len(up) /\ up \in Seq(Bytes)
  BY Capacities DEF RecvCompletion, Types
<1>2. data \in [1 .. n -> Bytes] /\ Len(data) = n
  BY <1>1, Pieces
<1>3. data \in RecvB!Data
  BY <1>2 DEF RecvB!Data
<1> HIDE DEF data
<1>4. Posted = recv /\ recv.len > 0 /\ Posted' = Idle /\ recv' = NoRecv /\ pc' = "read"
  BY DEF RecvCompletion, Posted, RecvInv, RecvHasRoom
<1>5. RecvB!Commit(data)
  <2>1. RecvB!Fill(Posted.at, data) /\ n <= Posted.len
    BY <1>4, SameRecv DEF RecvCompletion, data
  <2>2. ~RecvB!Idle
    BY <1>4 DEF RecvB!Idle, RecvB!NotPosted
  <2>3. Posted' = RecvB!NotPosted
    BY <1>4 DEF RecvB!NotPosted, Idle
  <2> QED  BY <1>2, <2>1, <2>2, <2>3 DEF RecvB!Commit
<1>6. RecvB!Inv' /\ RecvB!OpenedLate'
  BY <1>3, <1>5, RecvB!CommitInv, RecvB!CommitLate, Capacities DEF RecvInv
<1>7. RecvInv'
  BY <1>4, <1>6 DEF RecvInv, RecvHasRoom
<1> QED  BY <1>1, <1>3, <1>5, <1>7 DEF data

(* OnRead takes a packet out of the receive buffer.                        *)
LEMMA OnReadDrops ==
  ASSUME RecvInv, NEW size \in 2 .. BUFSIZE, RecvBuffer!Drop(size), pc = "read", pc' = pc,
         recv' = recv
  PROVE  RecvB!Drop(size) /\ RecvInv'
<1>1. RecvB!Drop(size)
  BY SameRecv
<1>2. Posted = RecvB!NotPosted /\ Posted' = Posted
  BY DEF RecvInv, Posted, RecvB!NotPosted, Idle
<1>3. size \in 1 .. BUFSIZE /\ <<>> \in Seq(Bytes)
  BY Capacities
<1>4. RecvB!Inv' /\ RecvB!OpenedLate'
  BY <1>1, <1>2, <1>3, RecvB!DropInv, RecvB!DropLate, Capacities DEF RecvInv
<1> QED  BY <1>1, <1>4 DEF RecvInv, RecvHasRoom

(* A receive is posted with room for a byte at least: what is left in the  *)
(* buffer is less than a packet.                                           *)
LEMMA PostRecvHasRoom ==
  ASSUME ReceiveFits, RecvInv, PostRecv
  PROVE  RecvInv' /\ (mConnected => RecvB!PostRecv)
<1>1. CASE ~mConnected
  BY <1>1, RecvFrame DEF PostRecv, recvVars
<1>2. CASE mConnected
  <2>1. PICK k \in Sizes : RecvB!GetStoredSize < k
    <3>1. CASE RecvBuffer!GetStoredSize < HeaderSize
      <4>1. PICK k \in Sizes : TRUE
        BY ConnectionAssumption
      <4>2. HeaderSize < k /\ HeaderSize \in Nat /\ k \in Nat
        BY ConnectionAssumption
      <4>3. RecvB!GetStoredSize \in 0 .. BUFSIZE
        BY RecvB!FifoFacts, Capacities DEF RecvInv, RecvB!FifoOK
      <4> QED  BY <3>1, <4>2, <4>3, SameRecv, Capacities
    <3>2. CASE /\ RecvBuffer!GetStoredSize >= HeaderSize
               /\ \E size \in HeaderSizes(RecvBuffer!Front(HeaderSize)) :
                    size > RecvBuffer!GetStoredSize
      <4>1. PICK size \in HeaderSizes(RecvBuffer!Front(HeaderSize)) :
              size > RecvBuffer!GetStoredSize
        BY <3>2
      <4>2. size \in Sizes /\ size \in Nat
        BY <3>2, RecvPacket, Capacities DEF RecvInv
      <4>3. RecvB!GetStoredSize \in 0 .. BUFSIZE
        BY RecvB!FifoFacts, Capacities DEF RecvInv, RecvB!FifoOK
      <4> QED  BY <4>1, <4>2, <4>3, SameRecv, Capacities
    <3> QED  BY <3>1, <3>2 DEF PostRecv
  <2>2. k \in Nat /\ k >= 2 /\ 2 * (1 + k) <= BUFSIZE + 4
    BY ConnectionAssumption DEF ReceiveFits
  <2>3. RecvB!Room >= 1
    BY <2>1, <2>2, RecvB!RoomLate, Capacities DEF RecvInv
  <2>4. RecvB!Room \in 1 .. BUFSIZE /\ RecvB!Target \in 0 .. BUFSIZE
    BY <2>3, RecvB!RoomFacts, Capacities DEF RecvInv
  <2>5. /\ recv' = [at |-> RecvB!Target, len |-> RecvB!Room] /\ recv' # NoRecv
        /\ recv = NoRecv /\ pc' = "alertable"
    BY <1>2, <2>4, SameRecv, Capacities DEF PostRecv, NoRecv, RecvInv
  <2>6. RecvB!PostRecv
    <3>1. RecvB!Idle /\ Posted' = [at |-> RecvB!Target, len |-> RecvB!Room]
      BY <2>5 DEF RecvB!Idle, RecvB!NotPosted, Posted, Idle
    <3>2. RecvB!Room > 0
      BY <2>4
    <3> QED  BY <1>2, <3>1, <3>2, SameRecv DEF PostRecv, RecvB!PostRecv
  <2>7. RecvB!Inv' /\ RecvB!OpenedLate'
    <3>1. RecvB!OpenB /\ UNCHANGED <<rAPointer, rASize>>
      BY <2>6 DEF RecvB!PostRecv
    <3> QED  BY <2>6, <3>1, RecvB!PostRecvInv, RecvB!OpenLate, Capacities DEF RecvInv
  <2>8. RecvHasRoom'
    BY <2>4, <2>5 DEF RecvHasRoom
  <2> QED  BY <2>5, <2>6, <2>7, <2>8 DEF RecvInv
<1> QED  BY <1>1, <1>2 DEF PostRecv

(* Without its receive the buffer is as it was.                            *)
LEMMA DisconnectKeeps ==
  ASSUME RecvInv, Disconnect
  PROVE  RecvInv'
<1>1. UNCHANGED recvVars /\ recv' = NoRecv /\ Posted' = RecvB!NotPosted /\ pc' = "alertable"
  BY DEF Disconnect, Posted, RecvB!NotPosted, Idle
<1>2. RecvB!TypeOK'
  BY <1>1, Capacities DEF recvVars, RecvInv, RecvB!Inv, RecvB!TypeOK, RecvB!NotPosted
<1>3. RecvB!LayoutOK' /\ RecvB!EmptyAtStart' /\ RecvB!OpenedLate'
  BY <1>1 DEF recvVars, RecvInv, RecvB!Inv, RecvB!LayoutOK, RecvB!EmptyAtStart, RecvB!OpenedLate
<1>4. RecvB!PostedSpaceFree' /\ RecvB!PostedRoom' /\ RecvHasRoom'
  BY <1>1 DEF RecvB!PostedSpaceFree, RecvB!PostedRoom, RecvB!NotPosted, RecvHasRoom
<1> QED  BY <1>1, <1>2, <1>3, <1>4 DEF RecvInv, RecvB!Inv
-----------------------------------------------------------------------------
(* The send buffer stays as it was where its variables do.                 *)
LEMMA SendFrame ==
  ASSUME SendB!Inv, UNCHANGED sendVars
  PROVE  SendB!Inv'
<1>1. UNCHANGED SendB!vars
  BY DEF SendB!vars, SendB!regionVars, sendVars
<1> QED  BY <1>1, SendB!NextInv, Capacities

(* So does the client's buffer.                                            *)
LEMMA InboxFrame ==
  ASSUME InboxInv, UNCHANGED inboxVars
  PROVE  InboxInv'
<1>1. UNCHANGED InB!vars
  BY DEF InB!vars, InB!regionVars, inboxVars
<1>2. InB!Inv'
  BY <1>1, InB!NextInv, Capacities DEF InboxInv
<1> QED  BY <1>2 DEF InboxInv, InB!OpenedLate, inboxVars

(* What the network thread takes from the socket is bytes for its buffer.  *)
LEMMA NetworkRecvWrites ==
  ASSUME Types, InboxInv, NEW n \in 1 .. RecvChunk, NetworkRecv(n)
  PROVE  /\ n \in 1 .. Len(down) /\ SubSeq(down, 1, n) \in InB!Data
         /\ InB!Write(SubSeq(down, 1, n)) /\ InboxInv'
<1>1. n \in 1 .. Len(down) /\ n \in 1 .. BUF_SIZE /\ down \in Seq(Bytes)
  BY ConnectionAssumption DEF NetworkRecv, Types
<1>2. SubSeq(down, 1, n) \in [1 .. n -> Bytes]
  BY <1>1, Pieces
<1>3. SubSeq(down, 1, n) \in InB!Data
  BY <1>1, <1>2 DEF InB!Data
<1>4. InB!Write(SubSeq(down, 1, n))
  BY SameInbox DEF NetworkRecv
<1> QED  BY <1>1, <1>3, <1>4, InB!WriteInv, InB!WriteLate, Capacities DEF InboxInv

(* ProcessPacket takes a packet out of the client's buffer.                *)
LEMMA ProcessPacketDrops ==
  ASSUME InboxInv, NEW size \in 2 .. BUFSIZE, size <= Inbox!GetStoredSize, Inbox!Drop(size)
  PROVE  size \in 1 .. BUF_SIZE /\ InB!Drop(size) /\ InboxInv'
<1>1. InB!Drop(size) /\ size <= InB!GetStoredSize
  BY SameInbox
<1>2. InB!GetStoredSize \in 0 .. BUF_SIZE
  BY InB!FifoFacts, Capacities DEF InboxInv, InB!FifoOK
<1>3. size \in 1 .. BUF_SIZE
  BY <1>1, <1>2, Capacities
<1>4. Idle = InB!NotPosted /\ <<>> \in Seq(Bytes)
  BY DEF InB!NotPosted, Idle
<1>5. InB!Inv' /\ InB!OpenedLate'
  BY <1>1, <1>3, <1>4, InB!DropInv, InB!DropLate, Capacities DEF InboxInv
<1> QED  BY <1>1, <1>3, <1>5 DEF InboxInv

(* SendRequest writes the answer, or leaves the send buffer alone.         *)
LEMMA SendRequestWrites ==
  ASSUME SendB!Inv, mConnected \in BOOLEAN, NEW k \in Number, NEW size \in Sizes,
         SendRequest(Packet(k, size))
  PROVE  /\ SendB!Inv' /\ mConnected' \in BOOLEAN
         /\ mConnected => SendB!Write(Packet(k, size)) /\ (mConnected' <=> size <= SendB!Room)
         /\ ~mConnected => UNCHANGED <<sendVars, mConnected>>
<1>1. Packet(k, size) \in SendB!Data /\ Len(Packet(k, size)) = size
  BY PacketBytes
<1>2. CASE mConnected
  <2>1. SendB!Write(Packet(k, size)) /\ mConnected' = (size <= SendB!Room)
    BY <1>1, <1>2, SameSend DEF SendRequest
  <2>2. SendB!Inv'
    BY <1>1, <2>1, SendB!WriteInv, Capacities
  <2>3. mConnected' \in BOOLEAN /\ (mConnected' <=> size <= SendB!Room)
    <3>1. CASE size <= SendB!Room
      BY <2>1, <3>1
    <3>2. CASE ~(size <= SendB!Room)
      <4>1. (size <= SendB!Room) = FALSE
        BY <3>2, SMT
      <4>2. mConnected' = FALSE
        BY <2>1, <4>1, Zenon
      <4> QED  BY <3>2, <4>2
    <3> QED  BY <3>1, <3>2
  <2> QED  BY <1>2, <2>1, <2>2, <2>3, Zenon
<1>3. CASE ~mConnected
  <2>1. UNCHANGED <<sendVars, mConnected>>
    BY <1>3 DEF SendRequest
  <2> QED  BY <1>3, <2>1, SendFrame
<1> QED  BY <1>2, <1>3

(* A completion removes bytes from the send buffer.                        *)
LEMMA SendCompletionDrops ==
  ASSUME SendB!Inv, NEW n \in 1 .. BUFSIZE, SendBuffer!Drop(n)
  PROVE  SendB!Drop(n) /\ SendB!Inv'
<1>1. SendB!Drop(n)
  BY SameSend
<1>2. Idle = SendB!NotPosted /\ <<>> \in Seq(Bytes)
  BY DEF SendB!NotPosted, Idle
<1> QED  BY <1>1, <1>2, SendB!DropInv, Capacities

(* What SendFlush posts lies in A, which holds a byte if any is stored.    *)
LEMMA PostedSendLies ==
  ASSUME SendB!Inv, SendBuffer!GetContiguiousBytes > 0
  PROVE  /\ PostedSend \in SendRecord /\ PostedSend.at + PostedSend.len <= BUFSIZE
         /\ sASize > 0 /\ PostedSend.at = sAPointer /\ PostedSend.len = sASize
         /\ PostedSend.gone = FALSE
<1>1. sASize \in 0 .. BUFSIZE /\ sAPointer \in 0 .. BUFSIZE - 1 /\ sAPointer + sASize <= BUFSIZE
      /\ BUFSIZE \in Nat /\ (sASize = 0 => sBSize = 0)
  BY Capacities DEF SendB!Inv, SendB!TypeOK, SendB!LayoutOK, SendB!EmptyAtStart, SendB!Address,
     SendB!NULL
<1>2. sASize > 0
  BY <1>1 DEF SendBuffer!GetContiguiousBytes
<1>3. PostedSend = [at |-> sAPointer, len |-> sASize, gone |-> FALSE]
  BY <1>2 DEF PostedSend, SendBuffer!GetContiguiousBytes, SendBuffer!GetBufferStart
<1> QED  BY <1>1, <1>2, <1>3 DEF SendRecord

(* Every step preserves the invariant.                                     *)
LEMMA NextBase == ReceiveFits /\ Base /\ [Next]_vars => Base'
<1> SUFFICES ASSUME ReceiveFits, Base, [Next]_vars PROVE Base'  OBVIOUS
<1>0. Types /\ RecvInv /\ SendB!Inv /\ InboxInv
  BY DEF Base
<1>1. ASSUME NEW size \in Sizes, Send(size) PROVE Base'
  <2>1. PICK n \in SendLoop(size) : up' = up \o SubSeq(Packet(sent + 1, size), 1, n)
    BY <1>1 DEF Send
  <2>2. sent + 1 \in 0 .. MaxPackets /\ sent' = sent + 1 /\ sent + 1 \in Number
    BY <1>0, <1>1, ConnectionAssumption DEF Send, Types, Number
  <2>3. n \in 1 .. size /\ size \in Nat
    BY ConnectionAssumption DEF SendLoop
  <2>4. SubSeq(Packet(sent + 1, size), 1, n) \in Seq(Bytes)
    <3>1. Packet(sent + 1, size) \in Seq(Bytes) /\ Len(Packet(sent + 1, size)) = size
      BY <2>2, PacketBytes
    <3> QED  BY <2>3, <3>1, Pieces
  <2>5. up' \in Seq(Bytes)
    BY <1>0, <2>1, <2>4, ConcatProperties DEF Types
  <2>6. UNCHANGED <<down, mConnected, sends>>
    BY <1>1 DEF Send
  <2>7. Types'
    BY <1>0, <2>2, <2>5, <2>6 DEF Types
  <2> QED  BY <1>0, <1>1, <2>7, RecvFrame, SendFrame, InboxFrame DEF Base, Send
<1>2. ASSUME NEW n \in 1 .. RecvChunk, NetworkRecv(n) PROVE Base'
  <2>1. n \in 1 .. Len(down) /\ InboxInv'
    BY <1>0, <1>2, NetworkRecvWrites
  <2>2. down' \in Seq(Bytes)
    BY <1>0, <1>2, <2>1, Pieces DEF Types, NetworkRecv
  <2>3. Types'
    BY <1>0, <1>2, <2>2 DEF Types, NetworkRecv
  <2> QED  BY <1>0, <1>2, <2>1, <2>3, RecvFrame, SendFrame DEF Base, NetworkRecv
<1>3. CASE ProcessPacket
  <2>1. PICK size \in HeaderSizes(Inbox!Front(HeaderSize)) :
          size <= Inbox!GetStoredSize /\ Inbox!Drop(size)
    BY <1>3 DEF ProcessPacket
  <2>2. size \in 2 .. BUFSIZE
    BY <1>0, <1>3, InboxPacket DEF ProcessPacket, InboxInv
  <2>3. InboxInv'
    BY <1>0, <2>1, <2>2, ProcessPacketDrops
  <2>4. Types'
    BY <1>0, <1>3 DEF Types, ProcessPacket
  <2> QED  BY <1>0, <1>3, <2>3, <2>4, RecvFrame, SendFrame DEF Base, ProcessPacket
<1>4. CASE ProcessPacketDone
  <2>1. Types'
    BY <1>0, <1>4 DEF Types, ProcessPacketDone
  <2> QED  BY <1>0, <1>4, <2>1, RecvFrame, SendFrame, InboxFrame DEF Base, ProcessPacketDone
<1>5. ASSUME NEW n \in 1 .. BUFSIZE, RecvCompletion(n) PROVE Base'
  <2>1. n \in 1 .. Len(up) /\ RecvInv'
    BY <1>0, <1>5, CompletionCommits
  <2>2. up' \in Seq(Bytes)
    BY <1>0, <1>5, <2>1, Pieces DEF Types, RecvCompletion
  <2>3. Types'
    BY <1>0, <1>5, <2>2 DEF Types, RecvCompletion, clientVars
  <2> QED  BY <1>0, <1>5, <2>1, <2>3, SendFrame, InboxFrame DEF Base, RecvCompletion, clientVars
<1>6. CASE OnRead
  <2>1. PICK size \in HeaderSizes(RecvBuffer!Front(HeaderSize)) :
          /\ size <= RecvBuffer!GetStoredSize /\ RecvBuffer!Drop(size)
          /\ SendRequest(Packet(Parsed(RecvBuffer!Front(size)), size))
    BY <1>6 DEF OnRead
  <2>2. /\ size \in Sizes /\ size \in 2 .. BUFSIZE
        /\ Parsed(RecvBuffer!Front(size)) \in Number
    BY <1>0, <1>6, <2>1, RecvPacket DEF OnRead, RecvInv
  <2>3. RecvInv'
    BY <1>0, <1>6, <2>1, <2>2, OnReadDrops DEF OnRead
  <2>4. SendB!Inv' /\ mConnected' \in BOOLEAN
    BY <1>0, <2>1, <2>2, SendRequestWrites DEF Types
  <2>5. Types'
    BY <1>0, <1>6, <2>4 DEF Types, OnRead, clientVars
  <2> QED  BY <1>0, <1>6, <2>3, <2>4, <2>5, InboxFrame DEF Base, OnRead, clientVars
<1>7. CASE PostRecv
  <2>1. RecvInv'
    BY <1>0, <1>7, PostRecvHasRoom
  <2>2. Types'
    BY <1>0, <1>7 DEF Types, PostRecv, clientVars
  <2> QED  BY <1>0, <1>7, <2>1, <2>2, SendFrame, InboxFrame DEF Base, PostRecv, clientVars
<1>8. CASE SendFlush
  <2>1. PostedSend \in SendRecord /\ PostedSend.at + PostedSend.len <= BUFSIZE
    BY <1>0, <1>8, PostedSendLies DEF SendFlush
  <2>2. /\ sends \in Seq(SendRecord) /\ sends' = Append(sends, PostedSend)
        /\ \A k \in DOMAIN sends : sends[k].at + sends[k].len <= BUFSIZE
    BY <1>0, <1>8 DEF Types, SendFlush
  <2>3. /\ sends' \in Seq(SendRecord)
        /\ \A k \in DOMAIN sends' : sends'[k].at + sends'[k].len <= BUFSIZE
    BY <2>1, <2>2, AppendProperties
  <2>4. Types'
    BY <1>0, <1>8, <2>3 DEF Types, SendFlush, clientVars
  <2> QED  BY <1>0, <1>8, <2>4, RecvFrame, SendFrame, InboxFrame DEF Base, SendFlush, clientVars
<1>9. ASSUME NEW k \in DOMAIN sends, Transmit(k) PROVE Base'
  <2> DEFINE bytes == [i \in 1 .. sends[k].len |-> sBuffer[sends[k].at + i - 1]]
  <2>1. /\ sends \in Seq(SendRecord) /\ sends[k] \in SendRecord
        /\ sends[k].at + sends[k].len <= BUFSIZE
    BY <1>0 DEF Types
  <2>2. bytes \in Seq(Bytes)
    <3>1. \A i \in 1 .. sends[k].len : sends[k].at + i - 1 \in 0 .. BUFSIZE - 1
      BY <2>1, Capacities, SMTT(30) DEF SendRecord
    <3>2. sBuffer \in [0 .. BUFSIZE - 1 -> Bytes]
      BY <1>0 DEF SendB!Inv, SendB!TypeOK, SendB!Address
    <3>3. sends[k].len \in Nat
      BY <2>1, Capacities DEF SendRecord
    <3> QED  BY <3>1, <3>2, <3>3
  <2>3. down' \in Seq(Bytes)
    <3>1. down' = down \o bytes /\ down \in Seq(Bytes)
      BY <1>0, <1>9 DEF Transmit, Types
    <3> HIDE DEF bytes
    <3> QED  BY <2>2, <3>1, ConcatProperties
  <2>4. /\ sends' \in Seq(SendRecord)
        /\ \A j \in DOMAIN sends' : sends'[j].at + sends'[j].len <= BUFSIZE
    <3>1. sends' = [sends EXCEPT ![k].gone = TRUE]
      BY <1>9 DEF Transmit
    <3>2. \A j \in DOMAIN sends : /\ sends'[j] \in SendRecord
                                  /\ sends'[j].at = sends[j].at /\ sends'[j].len = sends[j].len
      <4>1. ASSUME NEW j \in DOMAIN sends
            PROVE  /\ sends[j] \in SendRecord
                   /\ sends'[j] = IF j = k THEN [sends[j] EXCEPT !.gone = TRUE] ELSE sends[j]
        <5>1. sends \in [1 .. Len(sends) -> SendRecord] /\ j \in 1 .. Len(sends)
          BY <2>1, LenProperties
        <5>2. sends' = [sends EXCEPT ![k] = [sends[k] EXCEPT !.gone = TRUE]]
          BY <3>1
        <5> QED  BY <5>1, <5>2
      <4> QED  BY <4>1 DEF SendRecord
    <3>3. DOMAIN sends' = DOMAIN sends /\ DOMAIN sends = 1 .. Len(sends) /\ Len(sends) \in Nat
      BY <2>1, <3>1
    <3>4. sends' \in [1 .. Len(sends) -> SendRecord]
      BY <3>1, <3>2, <3>3
    <3>5. sends' \in Seq(SendRecord)
      BY <3>3, <3>4
    <3> QED  BY <1>0, <3>2, <3>3, <3>5 DEF Types
  <2>5. Types'
    BY <1>0, <1>9, <2>3, <2>4 DEF Types, Transmit, clientVars
  <2> QED  BY <1>0, <1>9, <2>5, RecvFrame, SendFrame, InboxFrame DEF Base, Transmit, clientVars
<1>10. ASSUME NEW k \in DOMAIN sends, SendCompletion(k) PROVE Base'
  <2>1. /\ sends \in Seq(SendRecord) /\ sends[k] \in SendRecord /\ sends # <<>>
        /\ sends' = Tail(sends)
    BY <1>0, <1>10 DEF Types, SendCompletion
  <2>2. SendB!Inv'
    BY <1>0, <1>10, <2>1, SendCompletionDrops DEF SendCompletion, SendRecord
  <2>3. /\ sends' \in Seq(SendRecord)
        /\ \A j \in DOMAIN sends' : sends'[j].at + sends'[j].len <= BUFSIZE
    <3>1. sends' \in Seq(SendRecord) /\ Len(sends') = Len(sends) - 1
          /\ \A j \in 1 .. Len(sends') : sends'[j] = sends[j + 1]
      BY <2>1, HeadTailProperties
    <3>2. \A j \in 1 .. Len(sends') : j + 1 \in 1 .. Len(sends)
      BY <2>1, <3>1
    <3> QED  BY <1>0, <2>1, <3>1, <3>2 DEF Types
  <2>4. Types'
    BY <1>0, <1>10, <2>3 DEF Types, SendCompletion, clientVars
  <2> QED  BY <1>0, <1>10, <2>2, <2>4, RecvFrame, InboxFrame DEF Base, SendCompletion, clientVars
<1>11. CASE Disconnect
  <2>1. Types'
    <3>1. sends' = <<>> /\ mConnected' = FALSE /\ UNCHANGED <<sent, up, down>>
      BY <1>11 DEF Disconnect, clientVars
    <3>2. sends' \in Seq(SendRecord) /\ DOMAIN sends' = {}
      BY <3>1
    <3> QED  BY <1>0, <3>1, <3>2 DEF Types
  <2> QED  BY <1>0, <1>11, <2>1, DisconnectKeeps, SendFrame, InboxFrame
           DEF Base, Disconnect, clientVars
<1>12. CASE UNCHANGED vars
  <2>1. Types'
    BY <1>0, <1>12 DEF Types, vars, clientVars
  <2> QED  BY <1>0, <1>12, <2>1, RecvFrame, SendFrame, InboxFrame DEF Base, vars, clientVars
<1> QED  BY <1>1, <1>2, <1>3, <1>4, <1>5, <1>6, <1>7, <1>8, <1>9, <1>10, <1>11, <1>12
         DEF Next, Client, Receiving, Sending

(* The buffers keep their shape in every state.                            *)
LEMMA BaseHolds == ReceiveFits => (Spec => []Base)
<1> SUFFICES ASSUME ReceiveFits PROVE Spec => []Base  OBVIOUS
<1>1. Base /\ [Next]_vars => Base'
  BY NextBase
<1> QED  BY <1>1, InitBase, PTL DEF Spec

(* A receive always has room, whatever the sizes of packets and however    *)
(* the stream cuts them up, if packets are no longer than half the buffer  *)
(* (PostRecv, RecvCompletion).                                             *)
THEOREM ReceivesHaveRoom == ReceiveFits => (Spec => []RecvHasRoom)
<1> SUFFICES ASSUME ReceiveFits PROVE Spec => []RecvHasRoom  OBVIOUS
<1>1. Base => RecvHasRoom
  BY DEF Base, RecvInv
<1> QED  BY <1>1, BaseHolds, PTL
-----------------------------------------------------------------------------
(* A packet and what one recv takes fit in half the client's buffer, but   *)
(* for two bytes: BUF_SIZE is 32768 and a recv takes 4096 bytes.           *)
InboxFits == \A n \in Sizes : 2 * (RecvChunk + n) <= BUF_SIZE + 4

\* Between two recvs the client holds less than a packet.
InboxRest == networkPc = "recv" => \E k \in Sizes : InB!GetStoredSize < k

(* Every step preserves it.                                                *)
LEMMA NextRest == Base /\ InboxRest /\ [Next]_vars => InboxRest'
<1> SUFFICES ASSUME Base, InboxRest, [Next]_vars, networkPc' = "recv"
             PROVE  \E k \in Sizes : InB!GetStoredSize' < k
  BY DEF InboxRest
<1>1. CASE ProcessPacketDone
  <2>0. InB!GetStoredSize' = InB!GetStoredSize /\ InB!GetStoredSize \in 0 .. BUF_SIZE
        /\ Inbox!GetStoredSize = InB!GetStoredSize /\ BUF_SIZE \in Nat
    BY <1>1, InB!FifoFacts, SameInbox, Capacities
    DEF ProcessPacketDone, inboxVars, InB!GetStoredSize, Base, InboxInv, InB!FifoOK
  <2>1. CASE Inbox!GetStoredSize < HeaderSize
    <3>1. PICK k \in Sizes : HeaderSize < k /\ k \in Nat /\ HeaderSize \in Nat
      BY ConnectionAssumption
    <3> QED  BY <2>0, <2>1, <3>1
  <2>2. CASE /\ Inbox!GetStoredSize >= HeaderSize
             /\ \E size \in HeaderSizes(Inbox!Front(HeaderSize)) : size > Inbox!GetStoredSize
    <3>1. PICK size \in HeaderSizes(Inbox!Front(HeaderSize)) : size > Inbox!GetStoredSize
      BY <2>2
    <3>2. size \in Sizes /\ size \in Nat
      BY <2>2, InboxPacket, Capacities DEF Base, InboxInv
    <3> QED  BY <2>0, <3>1, <3>2
  <2> QED  BY <1>1, <2>1, <2>2 DEF ProcessPacketDone
<1>2. CASE networkPc = "recv" /\ UNCHANGED inboxVars
  BY <1>2 DEF InboxRest, inboxVars, InB!GetStoredSize
<1>3. (networkPc = "recv" /\ UNCHANGED inboxVars) \/ ProcessPacketDone
  BY DEF Next, Client, Receiving, Sending, vars, clientVars, Send, NetworkRecv, ProcessPacket,
         RecvCompletion, OnRead, PostRecv, SendFlush, Transmit, SendCompletion, Disconnect
<1> QED  BY <1>1, <1>2, <1>3

(* What is left between two recvs leaves room for the next one.            *)
LEMMA RestTakes == InboxFits /\ Base /\ InboxRest => InboxTakes
<1> SUFFICES ASSUME InboxFits, Base, InboxRest, networkPc = "recv"
             PROVE  Inbox!Room >= RecvChunk
  BY DEF InboxTakes
<1>1. PICK k \in Sizes : InB!GetStoredSize < k
  BY DEF InboxRest
<1>2. k \in Nat /\ k >= 2 /\ RecvChunk \in Nat /\ 2 * (RecvChunk + k) <= BUF_SIZE + 4
  BY ConnectionAssumption DEF InboxFits
<1>3. InB!Room >= RecvChunk
  BY <1>1, <1>2, InB!RoomLate, Capacities DEF Base, InboxInv
<1> QED  BY <1>3, SameInbox

(* In every state.                                                         *)
LEMMA RestHolds == ReceiveFits => (Spec => []InboxRest)
<1> SUFFICES ASSUME ReceiveFits PROVE Spec => []InboxRest  OBVIOUS
<1>1. Init => InboxRest
  <2> SUFFICES ASSUME Init PROVE InboxRest  OBVIOUS
  <2>1. InB!GetStoredSize = 0
    BY DEF Init, InB!GetStoredSize
  <2>2. PICK k \in Sizes : k \in Nat /\ k > 0
    BY ConnectionAssumption
  <2> QED  BY <2>1, <2>2 DEF InboxRest
<1> QED  BY <1>1, NextRest, BaseHolds, PTL DEF Spec

(* The network thread's Write is never refused, which the code asserts, if *)
(* its buffer is as much larger than a packet and a recv as it is          *)
(* (networkThread).                                                        *)
THEOREM InboxAlwaysTakes == ReceiveFits /\ InboxFits => (Spec => []InboxTakes)
<1> SUFFICES ASSUME ReceiveFits, InboxFits PROVE Spec => []InboxTakes  OBVIOUS
<1>1. Base /\ InboxRest => InboxTakes
  BY RestTakes
<1> QED  BY <1>1, BaseHolds, RestHolds, PTL
-----------------------------------------------------------------------------
\* At most one send is outstanding, of the first bytes of A.
OneSend ==
  mConnected => \/ sends = <<>>
                \/ /\ Len(sends) = 1
                   /\ sends[1].at = sAPointer /\ sends[1].len <= sASize

(* Without a second flush, a send stays where it was posted.               *)
LEMMA NextOneSend == ~Overlap /\ Base /\ OneSend /\ [Next]_vars => OneSend'
<1> SUFFICES ASSUME ~Overlap, Base, OneSend, [Next]_vars, mConnected'
             PROVE  \/ sends' = <<>>
                    \/ /\ Len(sends') = 1
                       /\ sends'[1].at = sAPointer' /\ sends'[1].len <= sASize'
  BY DEF OneSend
<1>0. Types /\ SendB!Inv /\ sends \in Seq(SendRecord)
  BY DEF Base, Types
<1>1. CASE SendFlush
  <2>1. /\ PostedSend \in SendRecord /\ PostedSend.at = sAPointer /\ PostedSend.len = sASize
    BY <1>0, <1>1, PostedSendLies DEF SendFlush
  <2>2. sends' = Append(<<>>, PostedSend) /\ UNCHANGED sendVars
    BY <1>1 DEF SendFlush
  <2>3. Len(sends') = 1 /\ sends'[1] = PostedSend
    BY <2>2
  <2>4. sASize \in Nat
    BY <1>0, Capacities DEF SendB!Inv, SendB!TypeOK
  <2> QED  BY <2>1, <2>2, <2>3, <2>4 DEF sendVars
<1>2. ASSUME NEW k \in DOMAIN sends, Transmit(k) PROVE OneSend'
  <2>1. /\ Len(sends) = 1 /\ k = 1 /\ sends[1].at = sAPointer /\ sends[1].len <= sASize
        /\ sends[1] \in SendRecord
    BY <1>0, <1>2 DEF OneSend, Transmit
  <2>2. sends' = [sends EXCEPT ![1].gone = TRUE] /\ UNCHANGED sendVars
    BY <1>2, <2>1 DEF Transmit
  <2>3. Len(sends') = 1 /\ sends'[1].at = sends[1].at /\ sends'[1].len = sends[1].len
    <3>1. sends \in [1 .. 1 -> SendRecord]
      BY <1>0, <2>1, LenProperties
    <3>2. sends'[1] = [sends[1] EXCEPT !.gone = TRUE] /\ DOMAIN sends' = 1 .. 1
          /\ sends' \in [1 .. 1 -> SendRecord]
      <4>1. sends' = [sends EXCEPT ![1] = [sends[1] EXCEPT !.gone = TRUE]]
        BY <2>2
      <4>2. [sends[1] EXCEPT !.gone = TRUE] \in SendRecord
        BY <2>1 DEF SendRecord
      <4> QED  BY <3>1, <4>1, <4>2
    <3>3. Len(sends') = 1
      BY <3>2
    <3> QED  BY <2>1, <3>2, <3>3 DEF SendRecord
  <2> QED  BY <2>1, <2>2, <2>3 DEF OneSend, sendVars
<1>3. ASSUME NEW k \in DOMAIN sends, SendCompletion(k) PROVE OneSend'
  <2>1. Len(sends) = 1 /\ sends' = Tail(sends)
    BY <1>0, <1>3 DEF OneSend, SendCompletion
  <2>2. sends' = <<>>
    <3>1. sends' \in Seq(SendRecord) /\ Len(sends') = Len(sends) - 1
      <4>1. sends # <<>>
        BY <2>1
      <4> QED  BY <1>0, <2>1, <4>1, HeadTailProperties
    <3> QED  BY <2>1, <3>1, EmptySeq
  <2> QED  BY <2>2 DEF OneSend
<1>4. CASE Disconnect
  BY <1>4 DEF Disconnect
<1>5. CASE OnRead
  <2>1. PICK size \in HeaderSizes(RecvBuffer!Front(HeaderSize)) :
          /\ size <= RecvBuffer!GetStoredSize
          /\ SendRequest(Packet(Parsed(RecvBuffer!Front(size)), size))
    BY <1>5 DEF OnRead
  <2>2. size \in Sizes /\ Parsed(RecvBuffer!Front(size)) \in Number
    BY <1>5, <2>1, RecvPacket DEF OnRead, Base, RecvInv
  <2> DEFINE data == Packet(Parsed(RecvBuffer!Front(size)), size)
  <2>3. mConnected /\ SendB!Write(data) /\ Len(data) \in Nat
    <3>1. Len(data) \in Nat
      BY <2>2, PacketBytes, Capacities
    <3>2. /\ mConnected => SendB!Write(data)
          /\ ~mConnected => UNCHANGED <<sendVars, mConnected>>
      BY <1>0, <2>1, <2>2, SendRequestWrites DEF Types
    <3> QED  BY <3>1, <3>2
  <2> HIDE DEF data
  <2>4. sAPointer' = sAPointer /\ (sASize' = sASize \/ sASize' = sASize + IF SendB!UsesB THEN 0 ELSE Len(data))
    BY <2>3 DEF SendB!Write, SendB!Put
  <2>5. sASize \in Nat
    BY <1>0, Capacities DEF SendB!Inv, SendB!TypeOK
  <2>6. sASize' \in Nat /\ sASize' >= sASize
    BY <2>3, <2>4, <2>5
  <2>7. sends # <<>> => sends[1] \in SendRecord
    BY <1>0
  <2>8. sends' = sends
    BY <1>5 DEF OnRead
  <2>9. ASSUME sends # <<>>
        PROVE  Len(sends') = 1 /\ sends'[1].at = sAPointer' /\ sends'[1].len <= sASize'
    <3>1. Len(sends) = 1 /\ sends[1].at = sAPointer /\ sends[1].len <= sASize
      BY <2>3, <2>9 DEF OneSend
    <3>2. sends[1].len \in Int
      BY <2>7, <2>9, Capacities DEF SendRecord
    <3> QED  BY <2>4, <2>5, <2>6, <2>8, <3>1, <3>2
  <2> QED  BY <2>8, <2>9
<1>6. CASE UNCHANGED <<sends, sendVars, mConnected>>
  BY <1>6 DEF OneSend, sendVars
<1>7. \/ SendFlush \/ Disconnect \/ OnRead \/ UNCHANGED <<sends, sendVars, mConnected>>
      \/ \E k \in DOMAIN sends : Transmit(k) \/ SendCompletion(k)
  BY DEF Next, Client, Receiving, Sending, vars, clientVars, Send, NetworkRecv, ProcessPacket,
         ProcessPacketDone, RecvCompletion, PostRecv
<1> QED  BY <1>1, <1>2, <1>3, <1>4, <1>5, <1>6, <1>7 DEF OneSend

(* In every state.                                                         *)
LEMMA OneSendHolds == ReceiveFits /\ ~Overlap => (Spec => []OneSend)
<1> SUFFICES ASSUME ReceiveFits, ~Overlap PROVE Spec => []OneSend  OBVIOUS
<1>1. Init => OneSend
  BY DEF Init, OneSend
<1>2. Base /\ OneSend /\ [Next]_vars => OneSend'
  BY NextOneSend
<1> QED  BY <1>1, <1>2, BaseHolds, PTL DEF Spec

(* If no send is posted while one is outstanding, the bytes that a send    *)
(* reads stay the first bytes of the buffer until its completion, although *)
(* answers are written behind them meanwhile (SendFlush, SendRequest,      *)
(* OnWriteComplete).                                                       *)
THEOREM SendsArePinned == ReceiveFits /\ ~Overlap => (Spec => []SendPinned)
<1> SUFFICES ASSUME ReceiveFits, ~Overlap PROVE Spec => []SendPinned  OBVIOUS
<1>1. Base /\ OneSend => SendPinned
  <2> SUFFICES ASSUME Base, OneSend, NEW k \in DOMAIN sends, mConnected
               PROVE  /\ sends[k].at = SendBuffer!GetBufferStart
                      /\ sends[k].len <= SendBuffer!GetContiguiousBytes
    BY DEF SendPinned
  <2>1. sends \in Seq(SendRecord) /\ sends # <<>> /\ sASize \in Nat
    BY Capacities DEF Base, Types, SendB!Inv, SendB!TypeOK
  <2>2. k = 1 /\ sends[k] \in SendRecord /\ sends[1].at = sAPointer /\ sends[1].len <= sASize
    BY <2>1 DEF OneSend
  <2>3. sASize > 0
    BY <2>1, <2>2, Capacities DEF SendRecord
  <2> QED  BY <2>2, <2>3 DEF SendBuffer!GetBufferStart, SendBuffer!GetContiguiousBytes
<1> QED  BY <1>1, BaseHolds, OneSendHolds, PTL
=============================================================================
