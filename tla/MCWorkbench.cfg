SPECIFICATION BenchSpec
CONSTANTS
  o1 = o1  p1 = p1  p2 = p2  u1 = u1
  Operators = {o1, o2}
  Tasks = {"setup", "install", "uninstall", "reset", "doctor"}
  Program <- ProgramOf
  Managers = {"systemd", "launchd", "task"}
  Present = {"codex"}
  NoProgram = NoProgram
  NoOperator = NoOperator
  UserEntries <- OwnEntries
  MaxStarts = 2
  MaxEdits = 1
  MaxFailures = 1

  Path <- ServerPath
  OtherKey = "x"
  Values = {"one", "two"}
  MaxSplices = 2

  Alphabet <- Characters
  MaxWord = 4
  Quotings = {"systemd", "launchd", "windows", "security", "posix", "powershell"}

  Watchers = {w1, w2}
  Starters = {w1}
  EvidenceIds = {i1, i2}
  NoId = NoId
  OutLimit = 1
  ErrLimit = 1
  TimeLimit = 2
  MaxHitches = 1

  s1 = s1  s2 = s2  s3 = s3  s4 = s4  h1 = h1  h2 = h2  n1 = n1
  Sources = {s1, s2, s3, s4}
  Declared <- HarnessesOf
  Registered <- RegisteredIn
  Negatives = {n1}
  Holds <- HoldIn
  Sane <- SaneIn
  GroupOf <- CrateOf
  FamilyOf <- FamilyNamed
  Selectors = {"all", "native-default"}
  Tempers = {"honest", "yes", "no", "repeats"}
  MaxMeddling = 1

  Workflows = {"ci", "codeql", "dependency-review", "scorecard"}
  Hosts = {"windows"}
  DeskKinds = {"product", "unreadable"}
  MaxPaths = 2
  MaxRefs = 2
  MaxReruns = 1
  MaxEditing = 1

  HeavyChecks = {"verify", "miri"}
  MaxNesting = 4
  MaxSwitches = 1

  Writers = {"wa", "wb"}
  Readers = {"ra"}
  Emptiers = {"ea", "eb"}
  Discarded = {"da", "db"}
  Ownerships = {"private", "exposed", "foreign", "absent"}
  Retries = 1
  EmptyLimit = 1
  MaxPowerLosses = 1
  MaxStops = 2

  SourceFiles <- SourceNames
  StatusOf <- SourceStatus
  FoldsTo <- LowerCase
  OddName = "a"
  OddKinds = {"file", "link", "inside", "directory"}
  SourceLimit = 3
  Repositories = {"git", "none", "broken"}
  NoNode = NoNode
  Nodes = {k1, k2}
  MaxSourceEdits = 1
  MaxLineFaults = 2

  RoomCommands = {"c1", "c2"}
  ActorOf <- BoundAs
  Origins = {"h", "t"}
  ThisOrigin = "h"
  ShortOf <- ShortNames
  AgentNames = {"x", "y"}
  Guests <- OneGuest
  RoomNames = {"y"}
  TypedNames = {"y"}
  MachineWords = {"local", "m"}
  Labels = {"local", "M"}
  Aliases = {"m"}
  SameWord <- SameLetters
  NoWord = NoWord
  Topics = {"q"}
  NoTopic = NoTopic
  NoRoom = NoRoom
  MaxMembers = 2
  PageLimit = 1
  MaxDone = 2
  MaxNews = 1
  MaxStamps = 2
INVARIANTS
  RegisteredSound
  TextSound
  CheckedSound
  ToolRunSound
  StateFilesSound
  SnapshotSound
  RoomsSound
CHECK_DEADLOCK FALSE
