----------------------------- MODULE Connection -----------------------------
(***************************************************************************)
(* One connection, byte by byte: a game client (TcpClient), the two        *)
(* directions of its TCP stream and its session in the server, with the    *)
(* server's receive and send buffer and the client's receive buffer, each  *)
(* a CircularBuffer.                                                       *)
(*                                                                         *)
(* The client sends packets; the stream hands them over in pieces of any   *)
(* size; OnRead takes whole packets out of the receive buffer and each one *)
(* is answered by a packet to the same client (chat and move are broadcast *)
(* to the sender too).  SendRequest buffers the answer, SendFlush posts an *)
(* overlapped send of the bytes in place, the system reads them from the   *)
(* buffer some time later, and the completion removes them.                *)
(*                                                                         *)
(* A cell of the stream is a byte of a packet: its packet, its place in it *)
(* and the packet's size, which the header holds.                          *)
(***************************************************************************)
EXTENDS Integers, Sequences

CONSTANTS
  BUFSIZE,       \* capacity of the server's two buffers
  BUF_SIZE,      \* capacity of the client's buffer
  RecvChunk,     \* bytes the network thread takes from the socket at once
  HeaderSize,    \* sizeof(PacketHeader)
  Sizes,         \* sizes of packets
  MaxPackets,    \* bound: packets the client sends
  MaxSends,      \* bound: overlapped sends outstanding
  Overlap,       \* whether a send may be posted while one is outstanding
  PartialSend,   \* whether ::send may take a part of what it is given
  Garbage        \* what does not parse as the packet it was

\* A packet is longer than its header and fits in an empty buffer, and so
\* does what the network thread takes at once.
ASSUME ConnectionAssumption ==
  /\ HeaderSize \in Nat \ {0} /\ MaxPackets \in Nat /\ MaxSends \in Nat \ {0}
  /\ Sizes # {} /\ \A n \in Sizes : n \in Nat /\ n > HeaderSize /\ n <= BUFSIZE
  /\ BUFSIZE \in Nat /\ BUF_SIZE \in Nat /\ RecvChunk \in 1 .. BUF_SIZE
  /\ Overlap \in BOOLEAN /\ PartialSend \in BOOLEAN

VARIABLES
  sent,          \* packets the client has sent
  up, down,      \* bytes on their way to the server and to the client
  mConnected,
  pc,            \* the client thread: "alertable", or "read" in OnRead
  rBuffer, rAPointer, rASize, rBPointer, rBSize,     \* mRecvBuffer
  recv,          \* the outstanding receive: its space, or none
  handled,       \* the packets OnRead has handed to a handler
  sBuffer, sAPointer, sASize, sBPointer, sBSize,     \* mSendBuffer
  sends,         \* the outstanding sends, oldest first
  cBuffer, cAPointer, cASize, cBPointer, cBSize,     \* m_recvBuffer
  networkPc,     \* the network thread: "recv" or "process"
  received       \* the packets processPacket has taken out

recvVars  == <<rBuffer, rAPointer, rASize, rBPointer, rBSize>>
sendVars  == <<sBuffer, sAPointer, sASize, sBPointer, sBSize>>
inboxVars == <<cBuffer, cAPointer, cASize, cBPointer, cBSize>>
clientVars == <<sent, inboxVars, networkPc, received>>
vars == <<clientVars, up, down, mConnected, pc, recvVars, recv, handled, sendVars, sends>>

Cell  == [packet : 1 .. MaxPackets, at : 1 .. BUFSIZE, size : Sizes]
\* What memory holds before it is written to: no byte of a packet.
Blank == [packet |-> 0, at |-> 0, size |-> CHOOSE n \in Sizes : TRUE]
Idle  == [at |-> 0, len |-> 0]

RecvBuffer == INSTANCE CircularBuffer WITH
  Capacity <- BUFSIZE, Byte <- Cell, mBuffer <- rBuffer,
  mARegionPointer <- rAPointer, mARegionSize <- rASize,
  mBRegionPointer <- rBPointer, mBRegionSize <- rBSize, posted <- Idle, out <- <<>>

SendBuffer == INSTANCE CircularBuffer WITH
  Capacity <- BUFSIZE, Byte <- Cell, mBuffer <- sBuffer,
  mARegionPointer <- sAPointer, mARegionSize <- sASize,
  mBRegionPointer <- sBPointer, mBRegionSize <- sBSize, posted <- Idle, out <- <<>>

\* The client's copy of the class.
Inbox == INSTANCE CircularBuffer WITH
  Capacity <- BUF_SIZE, Byte <- Cell, mBuffer <- cBuffer,
  mARegionPointer <- cAPointer, mARegionSize <- cASize,
  mBRegionPointer <- cBPointer, mBRegionSize <- cBSize, posted <- Idle, out <- <<>>

NoRecv == [at |-> -1, len |-> 0]

\* The bytes of packet k, and what a handler makes of bytes it has read.
Packet(k, size) == [i \in 1 .. size |-> [packet |-> k, at |-> i, size |-> size]]
Parsed(bytes) ==
  IF bytes = Packet(bytes[1].packet, bytes[1].size) THEN bytes[1].packet ELSE Garbage

\* What mSize may be when the header is read from these bytes: the size of
\* the packet whose header they are, or anything.
HeaderSizes(bytes) ==
  IF bytes = SubSeq(Packet(bytes[1].packet, bytes[1].size), 1, HeaderSize)
  THEN {bytes[1].size} ELSE Sizes

Init ==
  /\ sent = 0 /\ up = <<>> /\ down = <<>> /\ mConnected = TRUE /\ pc = "alertable"
  /\ rBuffer = [i \in 0 .. BUFSIZE - 1 |-> Blank] /\ rAPointer = 0 /\ rASize = 0
  /\ rBPointer = RecvBuffer!NULL /\ rBSize = 0
  /\ recv = [at |-> 0, len |-> BUFSIZE] /\ handled = <<>>     \* after OnConnect
  /\ sBuffer = [i \in 0 .. BUFSIZE - 1 |-> Blank] /\ sAPointer = 0 /\ sASize = 0
  /\ sBPointer = SendBuffer!NULL /\ sBSize = 0 /\ sends = <<>>
  /\ cBuffer = [i \in 0 .. BUF_SIZE - 1 |-> Blank] /\ cAPointer = 0 /\ cASize = 0
  /\ cBPointer = Inbox!NULL /\ cBSize = 0 /\ networkPc = "recv" /\ received = <<>>
-----------------------------------------------------------------------------
(* The client.                                                             *)

(* How much of a packet TcpClient::send has sent when it returns true: its *)
(* loop both advances count and shrinks length, so half may be enough.     *)
SendLoop(size) == IF PartialSend THEN {n \in 1 .. size : 2 * n >= size} ELSE {size}

\* loginRequest, chatRequest and moveRequest.
Send(size) ==
  /\ mConnected /\ sent < MaxPackets /\ sent' = sent + 1
  /\ \E n \in SendLoop(size) : up' = up \o SubSeq(Packet(sent + 1, size), 1, n)
  /\ UNCHANGED <<inboxVars, networkPc, received, down, mConnected, pc, recvVars,
                 recv, handled, sendVars, sends>>

\* One recv of the network thread; bytes the buffer refuses are lost.
NetworkRecv(n) ==
  /\ networkPc = "recv" /\ n <= Len(down)
  /\ Inbox!Put(SubSeq(down, 1, n))
  /\ down' = SubSeq(down, n + 1, Len(down))
  /\ networkPc' = "process"
  /\ UNCHANGED <<sent, received, up, mConnected, pc, recvVars, recv, handled,
                 sendVars, sends>>

\* One round of processPacket's loop.
ProcessPacket ==
  /\ networkPc = "process"
  /\ Inbox!GetStoredSize >= HeaderSize
  /\ \E size \in HeaderSizes(Inbox!Front(HeaderSize)) :
       /\ size <= Inbox!GetStoredSize
       /\ received' = Append(received, Parsed(Inbox!Front(size)))
       /\ Inbox!Drop(size)
  /\ UNCHANGED <<sent, networkPc, up, down, mConnected, pc, recvVars, recv, handled,
                 sendVars, sends>>

\* Mutant: one packet is processed per recv, an if in place of the while.
ProcessPacketOnce ==
  /\ networkPc = "process" /\ networkPc' = "recv"
  /\ UNCHANGED <<sent, inboxVars, received, up, down, mConnected, pc, recvVars, recv,
                 handled, sendVars, sends>>

\* The loop ends: the rest is less than a header, or than the packet.
ProcessPacketDone ==
  /\ networkPc = "process"
  /\ \/ Inbox!GetStoredSize < HeaderSize
     \/ /\ Inbox!GetStoredSize >= HeaderSize
        /\ \E size \in HeaderSizes(Inbox!Front(HeaderSize)) : size > Inbox!GetStoredSize
  /\ networkPc' = "recv"
  /\ UNCHANGED <<sent, inboxVars, received, up, down, mConnected, pc, recvVars, recv,
                 handled, sendVars, sends>>
-----------------------------------------------------------------------------
(* The session: receiving.                                                 *)

(* RecvCompletion with n bytes, up to the loop of OnRead.                  *)
RecvCompletion(n) ==
  /\ pc = "alertable" /\ mConnected /\ recv # NoRecv
  /\ n <= Len(up) /\ n <= recv.len
  /\ RecvBuffer!Fill(recv.at, SubSeq(up, 1, n))
  /\ up' = SubSeq(up, n + 1, Len(up))
  /\ recv' = NoRecv /\ pc' = "read"
  /\ UNCHANGED <<clientVars, down, mConnected, handled, sendVars, sends>>

(* The connection breaks: a completion routine finds an error and calls    *)
(* Disconnect, which discards what was not delivered.                      *)
Disconnect ==
  /\ pc = "alertable" /\ mConnected
  /\ recv # NoRecv \/ sends # <<>>
  /\ mConnected' = FALSE /\ recv' = NoRecv /\ sends' = <<>>
  /\ UNCHANGED <<clientVars, up, down, pc, recvVars, handled, sendVars>>

\* SendRequest of the answer: buffered, or the session is disconnected, and
\* nothing at all if it already is.
SendRequest(data) ==
  \/ mConnected /\ SendBuffer!Put(data)
     /\ mConnected' = (Len(data) <= SendBuffer!Room)
  \/ ~mConnected /\ UNCHANGED <<sendVars, mConnected>>

\* Mutant: the loop waits for the header and not for the packet.
OnReadHeader ==
  /\ pc = "read" /\ RecvBuffer!GetStoredSize >= HeaderSize
  /\ \E size \in HeaderSizes(RecvBuffer!Front(HeaderSize)) :
       LET there  == RecvBuffer!Min2(size, RecvBuffer!GetStoredSize)
           packet == Parsed(RecvBuffer!Front(there))
       IN /\ RecvBuffer!Drop(there)
          /\ handled' = Append(handled, packet)
          /\ SendRequest(Packet(packet, size))
  /\ UNCHANGED <<clientVars, up, down, pc, recv, sends>>

(* One round of OnRead's loop: a whole packet is there, and its handler    *)
(* reads it and answers with a packet of the same size.                    *)
OnRead ==
  /\ pc = "read" /\ RecvBuffer!GetStoredSize >= HeaderSize
  /\ \E size \in HeaderSizes(RecvBuffer!Front(HeaderSize)) :
       /\ size <= RecvBuffer!GetStoredSize
       /\ RecvBuffer!Drop(size)
       /\ LET packet == Parsed(RecvBuffer!Front(size)) IN
            /\ handled' = Append(handled, packet)
            /\ SendRequest(Packet(packet, size))
  /\ UNCHANGED <<clientVars, up, down, pc, recv, sends>>

\* Mutant: the next receive is posted with packets left to handle.
PostRecvOnce ==
  /\ pc = "read" /\ pc' = "alertable"
  /\ IF mConnected
     THEN recv' = [at |-> RecvBuffer!Target, len |-> RecvBuffer!Room] /\ RecvBuffer!OpenB
     ELSE UNCHANGED <<recv, rBPointer>>
  /\ UNCHANGED <<clientVars, up, down, mConnected, rBuffer, rAPointer, rASize, rBSize,
                 handled, sendVars, sends>>

\* Mutant: an incomplete packet does not end OnRead's loop.
OnReadSpins == pc = "read" /\ UNCHANGED vars

(* OnRead returns and PostRecv follows, into whatever space the receive    *)
(* buffer offers.                                                          *)
PostRecv ==
  /\ pc = "read" /\ pc' = "alertable"
  /\ \/ RecvBuffer!GetStoredSize < HeaderSize
     \/ /\ RecvBuffer!GetStoredSize >= HeaderSize
        /\ \E size \in HeaderSizes(RecvBuffer!Front(HeaderSize)) :
             size > RecvBuffer!GetStoredSize
  /\ IF mConnected
     THEN recv' = [at |-> RecvBuffer!Target, len |-> RecvBuffer!Room] /\ RecvBuffer!OpenB
     ELSE UNCHANGED <<recv, rBPointer>>
  /\ UNCHANGED <<clientVars, up, down, mConnected, rBuffer, rAPointer, rASize, rBSize,
                 handled, sendVars, sends>>
-----------------------------------------------------------------------------
(* The session: sending.                                                   *)

\* A send of the bytes that lie together at the start of the send buffer.
PostedSend ==
  [at |-> SendBuffer!GetBufferStart, len |-> SendBuffer!GetContiguiousBytes, gone |-> FALSE]

\* Mutant: the bytes are removed when they are posted.
SendFlushRemove ==
  /\ pc = "alertable" /\ mConnected /\ SendBuffer!GetContiguiousBytes > 0
  /\ Len(sends) < MaxSends /\ (Overlap \/ sends = <<>>)
  /\ sends' = Append(sends, PostedSend)
  /\ SendBuffer!Drop(PostedSend.len)
  /\ UNCHANGED <<clientVars, up, down, mConnected, pc, recvVars, recv, handled>>

(* SendFlush: the contiguous bytes at the start of the buffer are posted   *)
(* as they lie, whether or not they have been posted before.               *)
SendFlush ==
  /\ pc = "alertable" /\ mConnected /\ SendBuffer!GetContiguiousBytes > 0
  /\ Len(sends) < MaxSends /\ (Overlap \/ sends = <<>>)
  /\ sends' = Append(sends, PostedSend)
  /\ UNCHANGED <<clientVars, up, down, mConnected, pc, recvVars, recv, handled, sendVars>>

\* The system reads the bytes of the oldest send that is not on its way yet.
Transmit(k) ==
  /\ mConnected /\ ~sends[k].gone /\ \A j \in 1 .. k - 1 : sends[j].gone
  /\ down' = down \o [i \in 1 .. sends[k].len |-> sBuffer[sends[k].at + i - 1]]
  /\ sends' = [sends EXCEPT ![k].gone = TRUE]
  /\ UNCHANGED <<clientVars, up, mConnected, pc, recvVars, recv, handled, sendVars>>

\* Mutant: a completion leaves the bytes in the buffer.
SendCompletionKeep(k) ==
  /\ pc = "alertable" /\ mConnected /\ sends[k].gone /\ sends[1].gone
  /\ sends' = Tail(sends)
  /\ UNCHANGED <<clientVars, up, down, mConnected, pc, recvVars, recv, handled, sendVars>>

(* SendCompletion removes cbTransferred bytes.  All sends share one        *)
(* OVERLAPPED, so it may be the count of any that is done.                 *)
SendCompletion(k) ==
  /\ pc = "alertable" /\ mConnected /\ sends[k].gone /\ sends[1].gone
  /\ SendBuffer!Drop(sends[k].len)
  /\ sends' = Tail(sends)
  /\ UNCHANGED <<clientVars, up, down, mConnected, pc, recvVars, recv, handled>>
-----------------------------------------------------------------------------
Client ==
  \/ \E n \in 1 .. RecvChunk : NetworkRecv(n)
  \/ ProcessPacket \/ ProcessPacketDone

Receiving == (\E n \in 1 .. BUFSIZE : RecvCompletion(n)) \/ OnRead \/ PostRecv

Sending == SendFlush \/ \E k \in DOMAIN sends : Transmit(k) \/ SendCompletion(k)

\* All is answered, or the connection is gone.
Finished == (sent = MaxPackets /\ Len(received) = sent) \/ ~mConnected

Next ==
  \/ \E size \in Sizes : Send(size)
  \/ Client \/ Receiving \/ Sending \/ Disconnect
  \/ Finished /\ UNCHANGED vars

(* The two threads and the network do not all stop while one of them can   *)
(* go on: every step of theirs moves bytes forward, so no more is needed.  *)
Spec == Init /\ [][Next]_vars /\ WF_vars(Client \/ Receiving \/ Sending)
-----------------------------------------------------------------------------
InOrder(packets) == \A i \in DOMAIN packets : packets[i] = i

(* The handlers get the packets the client sent, whole, once each and in   *)
(* order, however the stream cuts them up and wherever the header falls    *)
(* (RecvCompletion, OnRead, ParsePacket, Commit).                          *)
HandledInOrder == InOrder(handled) /\ Len(handled) <= sent

(* The client gets the answers, whole, once each and in order, although    *)
(* the system reads them from the send buffer while more are written to it *)
(* (SendRequest, SendFlush, OnWriteComplete, networkThread).               *)
ReceivedOnce == InOrder(received) /\ Len(received) <= Len(handled)

(* A receive always has room: an incomplete packet never fills the part of *)
(* mRecvBuffer that is in use, or the receive of no bytes would be taken   *)
(* for the end of the connection (PostRecv, RecvCompletion).               *)
RecvHasRoom == recv # NoRecv => recv.len > 0

(* The network thread's Write is never refused, which the code asserts.    *)
InboxTakes ==
  networkPc = "recv" => Inbox!Room >= RecvChunk

(* The bytes an outstanding send reads are still the bytes it was posted   *)
(* for: they are the first ones of the send buffer until its completion.   *)
SendPinned ==
  \A k \in DOMAIN sends : mConnected =>
    /\ sends[k].at = SendBuffer!GetBufferStart
    /\ sends[k].len <= SendBuffer!GetContiguiousBytes

(* Every packet the client sends is answered, unless the connection ends.  *)
Answered ==
  \A k \in 1 .. MaxPackets : sent >= k ~> (Len(received) >= k \/ ~mConnected)
=============================================================================
