CONSTANTS
  Session = {s1, s2}
  NoSession = NoSession
  Socket = {k1}
  NoSocket = NoSocket
  Player = {p1}
  NoPlayer = NoPlayer
  NoJob = NoJob
  AcceptQSize = 1
  MAX_DB_JOB = 1
  SendCap = 1
  MaxSends = 1
  MaxLogins = 1
  HandlePolicy = "unlisted"
  LingerMayFail = FALSE
  Unregistered = FALSE
  ShortPackets = FALSE
SPECIFICATION Spec
INVARIANT ResultToRequester
