CONSTANTS
  Owner = {o1}
  TickMod = 8
  PLAYER_HEART_BEAT = 2
  PLAYER_DB_UPDATE_INTERVAL = 5
  Epoch = 0
  MaxTime = 12
  MaxLogins = 1
  NoTask = NoTask
SPECIFICATION Spec
PROPERTY DoTasksEnds
