SPECIFICATION AuthoritySpec
CONSTANTS
  Names = {"", "default", "t1", "t2", "a1", "a2", "z1", "j1", "j2", "pay", "read", "r*", "sap", "x"}
  Tenants = {"t1", "t2"}
  Agents = {"a1", "a2"}
  Zones = {"default", "z1"}
  Jtis = {"j1", "j2"}
  Tools = {"pay", "read"}
  Glob <- MCGlob
  ServerOf <- MCServerOf
  MintBodies <- MCMintBodies
  ExceptionBodies <- MCExceptionBodies
  IgctlFlags <- MCIgctlFlags
  HolderCaveats <- MCHolderCaveats
  MaxTTL = 2
  MaxChain = 5
  MaxKnown = 3
  MaxRevocations = 1
  MaxNow = 2
  AdminToken = "root"
  TenantAdmins <- MCTenantAdmins
  PageSize = 1
  ExportMaxRows = 2
  AgentsMaxEvents = 2
  DryRunLimits = {2}
  MemoryCapacity = 2
  LexRank <- MCLexRank
  PayloadTTL = 1
  PayloadIds = {1}
  WindowStarts = {0, 2}
  MaxEvents = 3
  MaxReaderTime = 2
  Callers = {"p1", "f1"}
  Plain = {"read"}
  AnyAgent <- MCAnyAgent
  Padded <- MCPadded
  EnvPrefix = "agent:"
  DefaultPrefix = "agent:"
  FirstFile <- MCFirstFile
  FirstScopes <- MCFirstScopes
  SaveBodies <- MCSaveBodies
  Savers = {w1, w2}
  MaxSegTime = 3
  MaxSaves = 2
  ObservedCalls <- MCObservedCalls
  StageOrder <- MCStageOrder
  Lower <- MCLower
  DraftTexts <- MCDraftTexts
  MaxFlow = 3
  Workers = {w1, w2}
  Events = {e1, e2, e3}
  EventTenants = {"", "default", "acme"}
  Times = {1, 2}
  Bundles = {""}
  Requests = {q1, q2, q3}
  EmitOrder <- MCEmitOrder
  StopOrder <- MCStopOrder
  BufferSize <- MCBufferSize
  BatchSize <- MCBatchSize
  Clients = {c1, c2}
  RingSize = 2
  Buffer = 1
  MaxSeq = 4
INVARIANTS DelegationOnlyNarrows RevocationReachesDelegates AnswersWithinTenant ExportMissesNothing SavedRulesStick RecommendationReproduces UntouchedLogVerifies EditedLogFails EventsAccountedFor StopLosesNothing StreamResumesInOrder
PROPERTY ShutdownEnds
CHECK_DEADLOCK FALSE
