SPECIFICATION AccountsSpec
CONSTANTS
  Subject = {u1, u2}
  Seeds = {u1, u2}
  Tab = {t1, t2}
  MaxSigningKey = 1
  MaxLogin = 2
  MaxPatch = 2
INVARIANTS
  AnEnabledAdminRemains
CHECK_DEADLOCK FALSE
