SPECIFICATION FairSpec
CONSTANTS
  Target = {"a", "b"}
  Settings <- MCSettings
  MaxPolicies = 2
  MaxRuntimes = 2
  MaxTime = 4
  MaxSleep = 2
  Retry = 1
  Scopes <- MCAll
INVARIANTS
  Sound
  SleepsUntilDue
PROPERTIES
  DueIsRun
  OncePerTrigger
CHECK_DEADLOCK FALSE
