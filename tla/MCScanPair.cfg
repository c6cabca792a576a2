SPECIFICATION PairSpec
CONSTANTS
  src = src
  row1 = row1
  disc1 = disc1
  fetch1 = fetch1
  fetch2 = fetch2
  Source = {src}
  Scan = {s1, s2}
  SourceOf <- MCSourceOf
  FetchSpec = {}
  Disc = Disc
  EngineId = {e1}
  NoEngine = NoEngine
  Reports <- FewReports
  MaxAttempts = 1
  OneAttemptPerEngine = TRUE
  Tx = {x1, x2, x3}
  NoTx = NoTx
  ScanKey = {row1}
  TaskKey = {disc1, fetch1, fetch2}
  ScanOf <- ScanOfTask
  DiscoveryOf <- DiscoveryTask
SYMMETRY Alike
INVARIANTS
  DeadlockNeedsCancel
PROPERTIES
  ImplementsContract
  CommitsAreAtomic
CHECK_DEADLOCK FALSE
