CONSTANTS
  Client = {c1, c2}
  Dummy = {c2}
  Player = {p1, p2}
  NoPlayer = NoPlayer
  ALLOC_COUNT = 2
  Start = 0
  Steps = {2}
  Stored = 5
  DummyStored = 9
  MaxLogins = 2
  MaxMoves = 1
  MaxEvents = 1
SPECIFICATION Spec
SYMMETRY Symmetry
INVARIANTS PacketsOfPlayers LoginsSeeSaves OwnPositions JobsOwned ViewsAgree
CHECK_DEADLOCK FALSE
