SPECIFICATION Spec
CONSTANTS
  Window = 7
  Chunk = 4
  Stable = 3
  Retries = 1
  CliTime = 4
  CallTime = 1
  Items = 2
  CaseOf <- MCCaseOf
  Role <- MCRole
  MaxCallbacks = 2
  OntSelections <- MCOnt
  OntPosts = 2
  InvalidCases = 1
  Others = 1
  GeSelections <- MCGe
  Attempts = 2
  Order <- MCOrder
  Below <- MCBelow
  WspSelections <- MCWsp
  WspExisting <- MCWspExisting
  NeoProfiles <- MCProfiles
  Direct <- MCDirect
  NeoSelections <- MCNeo
  NeoExisting <- MCNeoExisting
  NeoDepth = 1
  Roles = {"readwrite", "readonly", "noaccess"}
  HasGe = TRUE
  Remote = TRUE
  Minute = 3
  LastGood = 9
  SesCount = 10
  Delay = 1
  Lives <- MCLives
  SesCases <- MCCases
  Alarms = {"a1", "a2"}
  AlmSelections <- MCAlm
  AlmRivals = 1
  Seeds = TRUE
  Polls = 1
  InvReads <- MCReads
  Pages <- MCPages
  Slot = "1"
  Cards = {"1", "2"}
  InvPolls = 1
  Builds <- MCBuilds
  NodeIds = {"NODE1", "NODE2"}
  IpOf <- MCIpOf
  Sources <- MCSources
  Verdicts <- MCVerdicts
  MaxReports = 3
  MaxMarks = 1
  Entries = {"a", "b", "k"}
  ActionOf <- MCActionOf
  MaxSize = 1
  MaxRuns = 2
  Endpoints <- MCEndpoints
  Records <- MCRecords
  Catalog <- MCCatalog
  Neox <- MCNeox
  Filter = {"e", "n", "c"}
  DocFirst <- MCFirst
  Operations <- MCOperations
  Schemas <- MCSchemas
  OpNames = {"post"}
  ComponentNames = {"A", "B"}
  Nesting <- MCNesting
  Height = 2
  MaxEdits = 2
INVARIANTS
  TypeOK
  ForeignSpared
  LeftIsReported
  RestoredOrFailed
  EvidenceIsReal
  NoFalseAlarm
  ReportTellsTruth
  ToolsTellTruth
PROPERTIES
  StepsAllowed
  FlowsEnd
CHECK_DEADLOCK FALSE
