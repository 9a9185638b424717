SPECIFICATION FairSpec
CONSTANTS
  k1 = k1
  none = none
  Keys <- MCKeys
  NoKey <- MCNoKey
  Kinds = {"xhr", "browser"}
  MaxTasks = 3
  MaxReloads = 1
  MaxMishaps = 2
  Worlds <- MCWorlds
  MaxConcurrent = 2
  MaxStored = 2
INVARIANTS
  Sound
  HistoryCurrent
PROPERTIES
  NoOldWork
  Keyed
  QueuedMovesOn
CHECK_DEADLOCK FALSE
