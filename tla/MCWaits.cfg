SPECIFICATION Spec
CONSTANTS
  Jobs = {j1}
  Clients = {c1, c2}
  Workers = {w1}
  Requests = {r1}
  Operations = {"run", "wait"}
  Limits = {FALSE}
  Resubmitted = FALSE
  KeepFinished = 0
  KeepWorkspaces = 0
  MaxRecords = 1
  MaxSequence = 1
  NoJob = NoJob
  NoRequest = NoRequest
  NoClient = NoClient
  NoWorker = NoWorker
PROPERTIES
  WaitAnswered
