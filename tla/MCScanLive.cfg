SPECIFICATION LiveSpec
CONSTANTS
  src = src
  Source = {src}
  Scan = {s1}
  SourceOf <- MCSourceOf
  FetchSpec = {p1}
  Disc = Disc
  EngineId = {e1}
  NoEngine = NoEngine
  Reports <- FewReports
  MaxAttempts = 2
  OneAttemptPerEngine = TRUE
  Finding = {f1}
  Rule = {r1}
  NoRule = NoRule
  Glob = {}
  Covers <- AllCovered
  Group = {}
  NoGroup = NoGroup
  RouteOf <- FirstGroup
  Replica = {b1, b2}
  MaxScan = 1
  MaxTx = 3
  Channel = {c1}
  Team = {t1}
  NoTeam = NoTeam
  TeamOf <- OneOwned
  TeamChannels <- NoTeamChannel
  NAlert = 2
  Wants <- WantsLast
  PageLimit = 1
  MaxSends = 2
  MaxOpening = 1
  MaxCrash = 1
  Cadence = {q1}
  Beater = {b1, b2}
  Nobody = Nobody
  Probe = {}
  MaxMishap = 1
  MaxArrival = 1
  Home = Home
  Away = {o1, o2}
  Token = {k1, k2}
  SourceTries = 3
  ApiTries = 2
  RetryAfter = {0, 1, 9}
  BaseDelay = 1
  MaxDelay = 2
  MaxWait = 4
  RedirectLimit = 2
  PageCap = 3
PROPERTIES
  ScanSettles
  HiddenIsExplained
  DeliverySettles
  EscalationNotStarved
  DueScheduleAdvances
  
CHECK_DEADLOCK FALSE
