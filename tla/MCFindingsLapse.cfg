SPECIFICATION FindingsSpec
CONSTANTS
  Finding = {f1}
  Rule = {r1}
  NoRule = NoRule
  Glob = {}
  Covers <- AllCovered
  Group = {}
  NoGroup = NoGroup
  RouteOf <- Unrouted
  Replica = {p1}
  MaxScan = 2
  MaxTx = 5
INVARIANTS
  ResolvedIsGone
CHECK_DEADLOCK FALSE
