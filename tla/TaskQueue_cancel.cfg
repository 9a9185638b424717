SPECIFICATION CancelSpec
CONSTANTS
  k1 = k1
  none = none
  Keys <- MCKeys
  NoKey <- MCNoKey
  Kinds = {"xhr", "browser"}
  MaxTasks = 3
  MaxReloads = 1
  MaxMishaps = 0
  Worlds <- MCFresh
  MaxConcurrent = 2
  MaxStored = 2
INVARIANTS
  CancelStopsWatch
CHECK_DEADLOCK FALSE
