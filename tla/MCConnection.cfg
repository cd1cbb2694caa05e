CONSTANTS
  BUFSIZE = 8
  BUF_SIZE = 8
  RecvChunk = 2
  HeaderSize = 2
  Sizes = {3, 4}
  MaxPackets = 3
  MaxSends = 2
  Overlap = FALSE
  PartialSend = FALSE
  Garbage = Garbage
SPECIFICATION Spec
INVARIANTS HandledInOrder ReceivedOnce RecvHasRoom InboxTakes SendPinned
PROPERTY Answered
