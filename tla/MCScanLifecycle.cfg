SPECIFICATION Spec
CONSTANTS
  Reports <- AllReports
  src = src
  Source = {src}
  Scan = {s1}
  SourceOf <- MCSourceOf
  FetchSpec = {p1}
  Disc = Disc
  EngineId = {e1, e2}
  NoEngine = NoEngine
  MaxAttempts = 2
  OneAttemptPerEngine = TRUE
INVARIANTS
  SettledHasNoLiveTask
  CompletedScanIsSound
  EffectsNeedEvidence
  FinalReadStillTrue
  
PROPERTIES
  ResultsStand
CHECK_DEADLOCK FALSE
