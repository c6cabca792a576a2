SPECIFICATION IncrementalSpec
CONSTANTS
  NThing = 1
  MaxMinute = 2
  MaxEdit = 2
  MaxSetback = 0
  MaxLaunch = 2
  BucketLadder = {1, 2}
  MaxWindows = 2
  MaxMinuteIds = 2
INVARIANTS
  CompleteIncrementalReadsEdits
CHECK_DEADLOCK FALSE
