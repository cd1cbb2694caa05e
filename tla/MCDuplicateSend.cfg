CONSTANTS
  BUFSIZE = 8
  BUF_SIZE = 8
  RecvChunk = 2
  HeaderSize = 2
  Sizes = {3}
  MaxPackets = 2
  MaxSends = 2
  Overlap = TRUE
  PartialSend = FALSE
  Garbage = Garbage
SPECIFICATION Spec
INVARIANT ReceivedOnce
