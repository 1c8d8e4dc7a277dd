SPECIFICATION ProgressSpec
CONSTANTS
  Jobs = {j1}
  Clients = {c1, c2}
  Workers = {w1}
  Requests = {r1}
  Operations = {"run", "kill"}
  Limits = {TRUE}
  Resubmitted = FALSE
  KeepFinished = 0
  KeepWorkspaces = 0
  MaxRecords = 1
  MaxSequence = 1
  NoJob = NoJob
  NoRequest = NoRequest
  NoClient = NoClient
  NoWorker = NoWorker

  Names = {x, y}
  Users = {u}
  Runners = {n1, n2}
  Places = {d}
  NoPlace = NoPlace
  Nobody = Nobody
  MaxChain = 2
  MaxAsks = 2
  MaxPulses = 1
  MaxTurmoil = 0

  Calls = {q1, q2}
  RequestIds = {1}
  Joiners = {i1}
  Nameless = Nameless
  MaxActive = 1

  Aliases = {m}
  Identities = {o1, o2}
  Unpinned = Unpinned
  SignalRoom = 2
  MaxNear = 1
  MaxFar = 1
  MaxTroubles = 1

  h1 = h1  h2 = h2  h3 = h3  NoActor = NoActor
  Hosts = {1, 2, 3}
  Actors = {h1, h2, h3}
  HostOf <- Hosted
  Contexts = {1, 2}
  Drafts <- OneDraft
  Desks = {p1, p2}
  MaxBody = 2
  MaxListed = 1
  MaxSaid <- SaidBound
INVARIANTS
  ObservationSound
PROPERTIES
  KillReturns
  CallReturns
  IdsFreed
  CommitReaches
  StopReturns
CHECK_DEADLOCK FALSE
