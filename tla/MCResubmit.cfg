SPECIFICATION Spec
CONSTANTS
  Jobs = {j1}
  Clients = {c1, c2}
  Workers = {w1, w2}
  Requests = {r1}
  Operations = {"run", "wait", "clean"}
  Limits = {FALSE}
  Resubmitted = TRUE
  KeepFinished = 0
  KeepWorkspaces = 0
  MaxRecords = 1
  MaxSequence = 3
  NoJob = NoJob
  NoRequest = NoRequest
  NoClient = NoClient
  NoWorker = NoWorker
PROPERTIES
  RemovalIsSafe
SYMMETRY Processes
