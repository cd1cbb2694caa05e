CONSTANTS
  Session = {s1, s2, s3}
  NoSession = NoSession
  Socket = {k1, k2}
  NoSocket = NoSocket
  Player = {p1}
  NoPlayer = NoPlayer
  NoJob = NoJob
  AcceptQSize = 2
  MAX_DB_JOB = 1
  SendCap = 1
  MaxSends = 2
  MaxLogins = 1
  HandlePolicy = "unlisted"
  LingerMayFail = TRUE
  Unregistered = TRUE
  ShortPackets = TRUE
SPECIFICATION Spec
SYMMETRY Symmetry
INVARIANTS
  TypeOK RefCountExact NoDanglingPointers HandleOwnership ReceiveExclusive
  HeartbeatAlive LiveListed
PROPERTY DisconnectedDrains
