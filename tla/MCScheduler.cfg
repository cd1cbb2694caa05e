CONSTANTS
  Owner = {o1, o2}
  TickMod = 32
  PLAYER_HEART_BEAT = 2
  PLAYER_DB_UPDATE_INTERVAL = 3
  Epoch = 0
  MaxTime = 5
  MaxLogins = 2
  NoTask = NoTask
SPECIFICATION Spec
INVARIANTS ExecutedIsPopped RunsWhenDue ChainsKept
PROPERTY DoTasksEnds
