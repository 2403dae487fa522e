SPECIFICATION Spec
CONSTANTS
  c1 = c1
  c2 = c2
  go1 = go1
  fe1 = fe1
  None = None
  Clients <- MCClients
  Revs <- MCRevs
  FrontendRevs <- MCFrontendRevs
  Handlers <- DraftHandlers
  Faults <- NoFaults
  MaxLocal = 1
  MaxWrites = 3
CHECK_DEADLOCK FALSE
INVARIANT SavedDraftKept
