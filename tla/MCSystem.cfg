SPECIFICATION SystemSpec
CONSTANTS
  Part = {"findings", "remediation", "identity", "outbox", "handoff", "beat", "incremental", "accounts", "redaction", "http", "share", "engine"}
  Finding = {f1}
  Rule = {r1, r2}
  NoRule = NoRule
  Glob = {r2}
  Covers <- AllCovered
  Group = {g1}
  NoGroup = NoGroup
  RouteOf <- FirstGroup
  Replica = {p1, p2}
  MaxScan = 2
  MaxTx = 3
  Action = {a1, a2}
  Worker = {w1, w2}
  MaxReopen = 1
  MaxRequest = 3
  Secret = {s1}
  MaxRow = 2
  MaxPepper = 2
  MaxKey = 2
  MaxSubmit = 3
  Channel = {c1}
  Team = {t1}
  NoTeam = NoTeam
  TeamOf <- OneOwned
  TeamChannels <- NoTeamChannel
  NAlert = 2
  Wants <- WantsLast
  PageLimit = 1
  MaxSends = 2
  MaxOpening = 1
  MaxCrash = 1
  Handler = {h1, h2}
  ItemStates <- ProgressThenDone
  MaxTries = 2
  MaxHandled = 3
  MaxDeaths = 1
  Cadence = {q1, q2}
  Beater = {b1, b2}
  Nobody = Nobody
  Probe = {e1}
  MaxMishap = 1
  MaxArrival = 2
  NThing = 2
  MaxMinute = 2
  MaxEdit = 2
  MaxSetback = 1
  MaxLaunch = 2
  BucketLadder = {1, 2}
  MaxWindows = 2
  MaxMinuteIds = 1
  Subject = {u1, u2}
  Seeds = {u1}
  Tab = {b3, b4}
  MaxSigningKey = 2
  MaxLogin = 3
  MaxPatch = 1
  Letter = {x, y}
  TextLength = 4
  MaxMatch = 2
  MaxStrength = 1
  ReportCap = 1
  ContextChars = 1
  Keep = 1
  MinReveal = 3
  Home = Home
  Away = {o1, o2}
  Token = {k1, k2}
  SourceTries = 3
  ApiTries = 2
  RetryAfter = {0, 1, 9}
  BaseDelay = 1
  MaxDelay = 2
  MaxWait = 4
  RedirectLimit = 2
  PageCap = 3
  Spot <- Tree
  LinkTarget <- FirstOrOut
  Depths = 1
  DirectoryCap = 2
  FileCap = 3
  MaxShareFault = 1
  Thread = {w3, w4}
  NoThread = NoThread
  FetchTask = {j1}
  Credential = {k3}
  Detector = {d1}
  RuleFor <- OneRule
  Ceiling = {1}
  TaskBudget = 1
  MaxChange = 2
  MaxUpset = 1
INVARIANTS
  SystemTypeOK
  AutoResolvedUnseen
  CorrelationFollowsHash
  
  AnnouncedOnce
  RequestRaceAnswered
  OneWorkItem
  
  HeartbeatWins
  FiresOnce
  
  LoginNotLost
  DemotionSticks
  KeyMaterialHidden
  
  CredentialStaysHome
  
  LiveAttemptsBeaten
  
PROPERTIES
  ScansRespectDecisions
  ResolvedOnEvidence
  RetentionSparesLive
VIEW Moving
SYMMETRY ReplicaSymmetry
CHECK_DEADLOCK FALSE
