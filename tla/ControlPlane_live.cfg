SPECIFICATION FairSpec
CONSTANTS
  c1 = c1
  c2 = c2
  go1 = go1
  fe1 = fe1
  None = None
  Clients <- MCClients
  Revs <- MCRevs
  FrontendRevs <- MCFrontendRevs
  Handlers <- LiveHandlers
  Faults <- LiveFaults
  MaxLocal = 1
  MaxWrites = 2
CHECK_DEADLOCK FALSE
INVARIANTS NetworkFollowsLive PublicPortSingleOwner LiveIsDurable
PROPERTY TransactionsEnd
