SPECIFICATION ToolsSpec
CONSTANTS
  Jobs = {j1, j2, j3}
  Clients = {c1}
  Workers = {w1}
  Requests = {r1}
  Operations = {"run"}
  Limits = {FALSE}
  Resubmitted = FALSE
  KeepFinished = 1
  KeepWorkspaces = 0
  MaxRecords = 3
  MaxSequence = 2
  NoJob = NoJob
  NoRequest = NoRequest
  NoClient = NoClient
  NoWorker = NoWorker

  e1 = e1  e2 = e2  e3 = e3  t1 = t1  t3 = t3  NoTag = NoTag
  Entries = {e1, e2, e3}
  TagOf <- Tagged
  Modern = {e1, e2}
  FinalRuns = {1, 2}
  Assets = {"archive", "package"}
  Stapled = {"package"}
  MaxPending = 1
  MaxMishaps = 1

  MaxSlips = 2
  QueryTimes = {0, 2}

  l1 = l1  l2 = l2  g1 = g1  g2 = g2  NoOne = NoOne  NoChat = NoChat  NoRow = NoRow
  Locals <- LocalRows
  Chats <- ChatRows
  Alike <- Likeness
  Stores = {"absent", "full", "less"}
  ChatStore <- StoreOf
  Starts = {l1}
  Keyboard = {"q", "j", "enter", "esc", "a", "/", "?"}
  MaxQuery = 1
  MaxRows = 2
  MaxKeys = 4
  MaxChanges = 1
  MaxBreaks = 1

  Sends <- Board
  Typeable = {"ctrl-c", "esc", "alt-e", "crab", "ctrl-up", "page-up", "mouse", "long"}
  MaxTyped = 2
  MaxControl = 5
  FieldLimit = 100000
  InputBatch = 3

  Sizes <- FrameSizes
  Painted <- PaintedSizes
  MaxItems = 4
  MaxFrames = 2

  d1 = d1  d2 = d2  d3 = d3  b1 = b1  b2 = b2
  Dialers = {d1, d2, d3}
  Builds = {b1, b2}
  BuildOf <- BuiltFrom
  FormatOf <- OwnFormat
  Runs = {d3}
  Timed = {d1, d2}
  NoDialer = NoDialer
  NoBuild = NoBuild
  KeepIdle = 0
  KeepFormats = 0
  MaxWoes = 1

  q1 = q1  q2 = q2  y1 = y1  y2 = y2
  Callers = {q1, q2}
  JobOf <- SameJob
  HandoffKinds = {"good", "large", "unlisted"}
  Services = {y1, y2}
  SessionKinds = {"Aqua", "Background"}
  NoService = NoService
  NoCaller = NoCaller
  MaxDeaths = 2

  ChildKinds = {"tool", "complete", "provider"}
  CliTools = {"claude", "codex"}
  SessionIds = {"none", "uuid", "word", "invalid"}
  StreamLimit = 2
  PipeRoom = 1
  MaxWritten = 4
  MaxReadFaults = 2

  AnswerTools = {"claude", "codex", "opencode"}
  AnswerSessions = {"s", "r", "-odd"}
  AnswerTexts = {"a", "b", ""}
  MaxEvents <- OutputLengths

  Readers = {r1}
  Posts = {1, 2, 3}
  To <- ToEach
  UrgentPosts = {3}
  EndingPosts = {2}
  Questions = {1}
  FallbackOf <- ThirdFalls
  Hooks = {k1}
  Viewers = {v1}
  NoReader = NoReader
  MaxContext = 1
  MaxShown = 1
INVARIANTS
  ReleaseSound
  SigningSound
  InstallSound
  LoginSound
  ChildrenSound
  InterfaceSound
  InboxSound
PROPERTIES
  NewestKept
  InboxKept
CHECK_DEADLOCK FALSE
