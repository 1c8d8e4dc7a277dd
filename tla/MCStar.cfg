SPECIFICATION FairSpec
CONSTANTS
  a1 = a1  a2 = a2  a3 = a3  direct = direct  room = room
  up = up  down = down  again = again
  NoAgent = NoAgent  Public = Public
  Origins = {1, 2, 3}
  Agents = {a1, a2, a3}
  Managed = {a1, a2, a3}
  Threads = {room}
  Rooms = {room}
  Home <- Homes
  Audience <- Everywhere
  Members <- Everyone
  Sessions = {up, down}
  Links <- StarLinks
  Operations <- StarOperations
  MaxAuthored <- StarBound
  MaxBatch = 2
  OrdinaryLimit = 100
  EndingLimit = 100
  ReceivedLimit = 100
PROPERTIES
  Delivery
