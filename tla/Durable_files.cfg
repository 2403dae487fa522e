SPECIFICATION DurableSpec
CONSTANTS
  c1 = c1
  c2 = c2
  go1 = go1
  fe1 = fe1
  None = None
  Clients <- MCClients
  Revs <- MCRevs
  FrontendRevs <- MCFrontendRevs
  Handlers <- FileHandlers
  Faults <- FileFaults
  MaxLocal = 2
  MaxWrites = 3
  r1 = r1
  r2 = r2
  o1 = o1
  Observed <- MCObserved
  Operators <- MCOperators
  Autosave = autosave
  Worker = worker
  Nobody = nobody
  QueueSize = 1
  MaxFailures = 1
CHECK_DEADLOCK FALSE
INVARIANTS NoResurrectedDraft DrainedIsFlushed
PROPERTIES SerialConfig LearningIsKept
