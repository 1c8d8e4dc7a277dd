SPECIFICATION Spec
CONSTANTS
  a1 = a1  a2 = a2  a3 = a3  direct = direct  room = room
  up = up  down = down  again = again
  NoAgent = NoAgent  Public = Public
  Origins = {1, 2, 3}
  Agents = {a1, a2}
  Managed = {a2}
  Threads = {direct}
  Rooms = {}
  Home <- Homes
  Audience <- Everywhere
  Members <- Everyone
  Sessions = {up}
  Links <- TurnLinks
  Operations <- TurnOperations
  MaxAuthored <- TurnBound
  MaxBatch = 2
  OrdinaryLimit = 100
  EndingLimit = 100
  ReceivedLimit = 100
INVARIANTS
  FaithfulCopy
CHECK_DEADLOCK FALSE
