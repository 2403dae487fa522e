SPECIFICATION ApiSpec
CONSTANTS
  f1 = f1
  f2 = f2
  u1 = u1
  u2 = u2
  k1 = k1
  s1 = s1
  s2 = s2
  w1 = w1
  w2 = w2
  op1 = op1
  op2 = op2
  Fields <- MCFields
  Types = {1, 2}
  MinSamples = 2
  MaxFields = 1
  Handlers <- MCHandlers
  MaxRequests = 3
  MaxEdits = 3
  Kinds <- MCKinds
  MaxHistory = 2
  MaxExceptions = 1
  MaxProfiles = 2
  MaxSaves = 2
  MaxOps = 5
  Keys <- MCKeys
  Workflows <- MCWorkflows
  Ops <- MCOps
  MaxSessions = 1
  MaxTransitions = 2
  MaxWorkflows = 1
  MaxSeen = 2
  SessionTTL = 2
  AbsoluteTTL = 2
  TransitionTTL = 2
  WorkflowTTL = 2
  StaleAfter = 1
  MinObservations = 1
  MinSessions = 1
  MinLearning = 1
  Confidence = 5
  EntryConfidence = 60
  DivergenceMin = 60
  DivergenceMax = 40
  Rare = 10
  MinRun = 2
  MaxEvents = 4
  MaxTime = 2
  Identities <- MCIdentities
  Objects = {"o"}
  TenantOf <- MCTenantOf
  NoTenant = "-"
  MaxRelations = 4
  MaxPerIdentity = 4
  MaxPerObject = 1
  MaxEvidence = 2
  MaxReviews = 1
  LocatorTTL = 1
  RelationTTL = 2
  EvidenceTTL = 2
  ReviewTTL = 2
  PolicyTTL = 1
  MinBaseline = 1
  HighBaseline = 2
  EnumWindow = 2
  EnumMin = 2
  Scopes <- MCScopes
  MaxAccesses = 3
  MaxActions = 2
  MaxNow = 2
CHECK_DEADLOCK FALSE
INVARIANTS ProfilesAreApproved EnforceAfterDetect EvidenceSurfaces
PROPERTY SequencesSound
