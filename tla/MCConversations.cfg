SPECIFICATION Spec
CONSTANTS
  BoardDomains = {"ops", "legal", "sales"}
  MeetingIds = {"m", "x"}
  MeetingKinds <- KindsV
  MeetingTexts <- MeetingTextsV
  Answers = {"a1", "a2"}
  MaxMessages = 3
  MaxAnswers = 2
  MaxMeetingCrashes = 1
  BlueprintChairs <- ChairsV
  Threads = {"t"}
  ChatTexts <- ChatTextsV
  Forced <- ForcedV
  AskedModes = {"none", "chair"}
  maxParallel = 1
  MaxChatJobs = 2
  MaxClears = 1
  MaxChatCrashes = 1
  Turns = {"u", "v"}
  ChatModels = {"o", "x"}
  MaxAiSessions = 2
  MaxTurns = 2
  MaxAiCrashes = 1
  Subscriptions = {"s"}
  Dispatches = {"d1", "d2"}
  Crews = {"w"}
  CrewKeys = {"k1", "k2"}
  SetKeys = {"k1"}
  Links = {"l"}
  KeepDeliveries = 2
  MaxPings = 3
  MaxActivities = 1
  MaxBridgeEvents = 1
  MaxBridgeCrashes = 1
  Callers = {"c", "d"}
  Keys = {"k"}
  Paths = {"p"}
  maxRequests = 1
  windowMs = 1
  MaxRequests = 4
  MaxTime = 3
  MaxRestarts = 1
  Corrections = {"a", "b"}
  InterviewCalls = {"c1", "c2"}
  Patches <- PatchesV
  SeatReplies <- SeatRepliesV
  Rosters = {"selected"}
  Refusals = {{}, {"objective_config"}}
  MaxRegenerations = 1
  MaxGenerations = 1
  MaxInterviewCrashes = 1
  Packs = {"p", "q"}
  SchemaTypes = {"venture_profile", "launch_plan", "tooling_plan", "financial_policy"}
  PackTypes <- PackTypesV
  PackPages = {"q"}
  Installers = {"i", "j"}
  MaxInstalls = 2
  MaxMissing = 1
  MaxAddinCrashes = 1
  FoundTypes <- FoundTypesV
  PostedTypes = {"venture_profile"}
  MaxPosts = 1
  Tabs = {1}
  ProviderIds = {"f", "o", "x"}
  KindOf <- ProviderKindsV
  registeredKinds = {"hosted_api", "olf_managed"}
  SentProviders <- SentProvidersV
  EnvKeys = {"f"}
  OrgNames = {"none", "co"}
  ApiKeys = {"none", "s"}
  Devices = {"d"}
  MaxSaves = 2
  MaxBrokered = 1
  MaxRegistrations = 1
  MaxBrokerCrashes = 1
CHECK_DEADLOCK FALSE
INVARIANTS
  TalkTypeOK
  LostToOverlapOnly
  RequestsAreHeld
  BoardIsWhole
  InstalledMeansUsable
  DoneMeansDeliberated
