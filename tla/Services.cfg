SPECIFICATION ServicesSpec
CONSTANTS
  i1 = i1
  i2 = i2
  d1 = d1
  m1 = m1
  m2 = m2
  s1 = s1
  k1 = k1
  k2 = k2
  r1 = r1
  r2 = r2
  w1 = w1
  l1 = l1
  l2 = l2
  a1 = a1
  a2 = a2
  o1 = o1
  o2 = o2
  Items <- MCItems
  Contents = {"c"}
  Absent = absent
  Readers <- MCReaders
  Noted <- MCNoted
  PageSize = 1
  SnapshotMax = 1
  DetectionMaxRows = 1
  ExportQueue = 1
  MaxSeq = 3
  MaxFails = 1
  Sites <- MCSites
  Clients <- MCClients
  Requests <- MCRequests
  Workers <- MCWorkers
  URIs = {"u"}
  Path = "p"
  QueueSize = 1
  MaxBlocks = 2
  MaxChanges = 1
  Operations = {"op"}
  Issuers = {"idp"}
  Trusts = {"t1", "t2"}
  Requirements = {"a", "b"}
  Tokens = {"q"}
  MaxEdits = 4
  MaxWriting = 1
  MaxRotations = 1
  MaxFetches = 2
  Names = {"", "op"}
  Broad = ""
  Schemas = {"c"}
  Sdl = {"x", "y"}
  Limits = {"l", "m"}
  Hashes = {"h"}
  Queue8 = 1
  MaxEdits8 = 6
  MaxWriting8 = 1
  Documents <- MCDocuments
  DocumentPolicies <- MCPolicies
  AbsoluteDepth = 3
  AbsoluteComplexity = 6
  MaxFields = 4
  Accounts = {"u", "v"}
  Hosts = {"h"}
  Roles = {"viewer", "admin"}
  Logins <- MCLogins
  Admins <- MCAdmins
  Nil = none
  LoginLimit = 2
  MaxKeys = 2
  MaxSessions = 2
  MaxUserEdits = 2
  Ips = {"x", "y"}
  Ifaces = {"e0", "e1"}
  PrefixLens = {"24"}
  Automatic = "auto"
  SubnetOf <- MCSubnets
  Management = "e1"
  DefaultPrefix = "24"
  MaxReconciles = 2
  MaxOperator = 2
  Bodies = {"a", "b"}
  QatBodies = {"b"}
  NoBody = "none"
  MaxPublish = 3
  MaxDeaths = 2
  Drafts <- MCDrafts
  DefaultPolicy <- TheDefault
  DefaultListen = "x"
  SiteConfigs <- MCSiteConfigs
  HostNames <- MCHosts
  NameRank <- MCRank
  NoConfig = NoConfig
  UpdateFiles = {"conf", "bin"}
  Program = "bin"
  Packages <- MCPackages
  UpdateCalls <- MCCalls
  FirstContent <- OldFiles
  Torn = "torn"
  Missing = missing
  MaxUpdateFaults = 1
  MaxUpdates = 3
  Collectors = {"c", "d"}
  Webhooks = {"h"}
  EventKeys = {"k", "j"}
  Pushers <- MCCalls
  HookWorkers = {"w"}
  Unset = none
  LineQueue = 2
  HookQueue = 1
  ItemCap = 2
  DedupeMax = 1
  MaxRaised = 2
  MaxReconfigured = 3
  ContractDocs <- MCContractDocs
  ClientRequests <- MCClientRequests
  SchemaDepth = 4
  Json = "json"
  MediaRank <- MCMediaRank
  Placeholders <- MCPlaceholders
  Observations <- MCObservations
  LearnedHeaders = {}
  CRLURLs <- MCCalls
  CRLFile = "file"
  PoolTLS <- MCPoolTLS
  Stopped = Stopped
  MaxList = 2
SYMMETRY Interchangeable
CHECK_DEADLOCK FALSE
INVARIANTS MirrorIsExact LossIsMarked BlocklistSound EnforceIsPromoted
  VerifiedByTrusted EnforceIsReviewed JudgedByWhatItSelects AccessGuarded
  AddressesRight AckedIsServed AcceptedBuilds RoutedToOwner UndoAvailable
  ForwardingSound ContractsSound RevocationStands
