SPECIFICATION Spec
CONSTANTS
  GatewayCalls = {"g1", "g2"}
  Artifacts = {"a", "b"}
  Declared <- DeclaredV
  Expected <- ExpectedV
  Totals = {7, 10}
  Modes = {"none", "self_hosted"}
  SelfHosted = TRUE
  Pin <- PinV
  Versions <- VersionsV
  MaxActions = 2
  MaxDecisions = 2
  MaxModeChanges = 1
  MaxActionCrashes = 1
  Approvers = {"p", "q"}
  Risks = {20, 50, 90}
  RiskThresholds = {60}
  AskedApprovers <- AskedV
  MaxApprovals = 1
  MaxApprovalCrashes = 1
  ObservedRuns <- ObservedV
  RequestStatuses = {"blocked", "completed"}
  KeepDemoBriefs = 1
  MaxObserved = 2
  TreasuryMembers = {"s", "c", "m", "o"}
  RoleOf <- RoleOfV
  CentAmounts = {338}
  ReserveRates = {1000}
  RevenueEvents = {"payment_received", "refund_issued"}
  CustomerStatuses = {"active", "churned"}
  MaxBookings = 1
  MaxDistributions = 2
  MaxTreasuryCrashes = 1
  Setups <- SetupsV
  ChildIds = {"k"}
  ChildWorkspaces = {"w", "x"}
  MaxRuns = 1
  MaxChildEvents = 1
  MaxEngineCrashes = 1
  OrgDomains = {"ops", "legal"}
  OB_REQUIRED_DOMAINS = {"legal"}
  StoredChairs <- StoredV
  UnitIds = {"u"}
  KeepVersions = 2
  MaxOrgChanges = 4
  MaxOrgCrashes = 1
  Specialists = {"a", "b"}
  BaseScore <- ScoreV
  SpecialistsOf <- OfV
  SeatedChairs <- SeatedV
  WrittenBlueprints <- BlueprintsV
  GapDomains = {"none", "legal", "security"}
  CorrectionsMade = {"c"}
  MaxSpecVersion = 2
  MaxCatalogSteps = 3
  MaxCatalogCrashes = 1
  CB_KILL_SWITCH = FALSE
  BOARD_NETWORK_MODE = "restricted"
  BOARD_OUTBOUND_ALLOWLIST = {"publish", "deploy", "email"}
  EnabledAdapters = {{"publish", "email"}, {"publish", "deploy"}}
  ConnectorNames = {"slack", "fax"}
  KNOWN_CONNECTORS = {"slack"}
  MaxOpsChanges = 1
  Runners = {"c", "d"}
  Verdicts <- VerdictsV
  ModelDecisions = {0, 2}
  KeepRuns = 2
  KeepBriefs = 1
  Elapses = {10}
  MaxHours = 20
  MaxCadenceRuns = 3
  MaxCadenceCrashes = 1
  VentureDomains = {"v"}
  ApproveKeys = {"none", "k"}
  MaxLaunches = 1
  MaxApproveRequests = 3
  MaxProvisioningCrashes = 1
  Emails = {"a", "b"}
  Uploads <- UploadsV
  DailyCaps = {1, 50}
  PausePerCent = 50
  MaxProspects = 2
  MaxCampaigns = 1
  MaxSends = 2
  MaxReplies = 2
  MaxOutreachCrashes = 1
  Outcomes <- OutcomesV
  Metrics <- MetricsV
  Today = 1
  AskedStatuses = {"approved", "executing", "empty"}
  KeepCycles = 1
  MaxExperiments = 1
  MaxSignals = 1
  MaxHandoffs = 1
  MaxRewrites = 1
  MaxCompanyRuns = 2
  MaxCompanyCrashes = 1
CHECK_DEADLOCK FALSE
INVARIANTS
  WorkTypeOK
  CapacityHolds
  DecisionsHold
  DistributionsHold
  RunsObeyTheirLimits
  UnitsHaveChairs
  RunsKeepTheirEnd
  OperationsAreOnFile
