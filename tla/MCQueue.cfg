CONSTANTS
  Producer = {p1, p2}
  Consumer = {c1, c2}
  Item = {x, y}
  NoItem = NoItem
  NoThread = NoThread
  QSize = 2
SPECIFICATION FairSpec
INVARIANTS TypeOK NoLostWakeup
PROPERTIES RefinesBoundedQueue SleepersWoken
