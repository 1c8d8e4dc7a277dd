SPECIFICATION Spec
CONSTANTS
  Jobs = {j1}
  Clients = {c1, c2}
  Workers = {w1, w2}
  Requests = {r1, r2}
  Operations = {"run", "status", "wait", "kill", "clean", "sweep"}
  Limits = {TRUE, FALSE}
  Resubmitted = FALSE
  KeepFinished = 0
  KeepWorkspaces = 0
  MaxRecords = 1
  MaxSequence = 1
  NoJob = NoJob
  NoRequest = NoRequest
  NoClient = NoClient
  NoWorker = NoWorker
INVARIANTS
  TypeOK
  LiveIsKept
  WaitHarmless
  OncePerRecord
PROPERTIES
  LifeSpec
  RemovalIsSafe
SYMMETRY Processes
