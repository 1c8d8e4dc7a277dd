SPECIFICATION PartsSpec
CONSTANTS
  a1 = a1  a2 = a2  a3 = a3  direct = direct  room = room
  up = up  down = down  again = again
  NoAgent = NoAgent  Public = Public
  Origins = {1, 2}
  Agents = {a1, a2}
  Managed = {a1, a2}
  Threads = {direct}
  Rooms = {}
  Home <- Homes
  Audience <- Everywhere
  Members <- Everyone
  Sessions = {up, down}
  Links <- PairLinks
  Operations <- CleanOperations
  MaxAuthored <- CleanBound
  MaxBatch = 2
  OrdinaryLimit = 100
  EndingLimit = 100
  ReceivedLimit = 100

  x = x  y = y
  Names = {x, y}
  Users = {u}
  Runners = {n1, n2}
  Places = {d}
  NoPlace = NoPlace
  Nobody = Nobody
  MaxChain = 2
  MaxAsks = 2
  MaxPulses = 1
  MaxTurmoil = 1

  w1 = w1  w2 = w2  w3 = w3  s1 = s1  s2 = s2
  Minders = {w1, w2, w3}
  Scopes = {s1, s2}
  Job <- SharedJob
  Slots = {1}
  NoScope = NoScope
  NoMinder = NoMinder

  Calls = {c1, c2}
  RequestIds = {1, 2}
  Joiners = {i1, i2}
  Nameless = Nameless
  MaxActive = 2
INVARIANTS
  AckSound
  EarliestEnding
  CleanedSound
  TurnsSound
  SlotsSound
  NotedWasPresented
PROPERTIES
  NeverTakenBack
  Undisturbed
  NothingNotedAfterCancel
CHECK_DEADLOCK FALSE
