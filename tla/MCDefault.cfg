CONSTANTS
  Session = {s1}
  NoSession = NoSession
  Socket = {k1}
  NoSocket = NoSocket
  Player = {p1}
  NoPlayer = NoPlayer
  NoJob = NoJob
  AcceptQSize = 1
  MAX_DB_JOB = 1
  SendCap = 1
  MaxSends = 1
  MaxLogins = 1
  HandlePolicy = "fresh"
  LingerMayFail = FALSE
  Unregistered = TRUE
  ShortPackets = FALSE
SPECIFICATION FairSpec
PROPERTY FlushesForever
