SPECIFICATION PathSpec
CONSTANTS
  r1 = r1
  r2 = r2
  k1 = k1
  k2 = k2
  k3 = k3
  t1 = t1
  t2 = t2
  Parts <- AllParts
  N = 2
  Weight <- MCWeight
  Methods <- AllMethods
  Rise = 2
  Fall = 2
  Requests <- MCRequests
  Hashes <- MCHashes
  MaxGens = 2
  MaxPicks = 3
  MaxProbes = 5
  Clients <- MCClients
  MaxEntries = 2
  Capacity = 2
  Window = 1
  TTL = 2
  MaxConcurrent = 1
  MaxTime = 3
  MaxArrivals = 4
  TLSConfigs <- MCConfigs
  MaxEpoch = 4
SYMMETRY Interchangeable
CHECK_DEADLOCK FALSE
INVARIANTS InFlightExact FailsOpen LimitsHold RingsFollowEpoch
PROPERTY MembersFollowHealth
