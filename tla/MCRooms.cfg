SPECIFICATION Spec
CONSTANTS
  Conns = {c1, c2, c3}
  Rooms = {lobby}
  Echo = Echo
  NoConn = NoConn
  MAX_CONCURRENT_CONNECTIONS = 3
  MAX_ROOM_SIZE = 2
  MAX_MESSAGES_PER_CONNECTION = 1
CHECK_DEADLOCK FALSE
SYMMETRY Symmetry
INVARIANTS RoomsExact NumberedOnce
