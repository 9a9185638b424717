SPECIFICATION Spec
CONSTANTS
  Target = {"a", "b"}
  Settings <- MCSettings
  MaxPolicies = 2
  MaxRuntimes = 1
  MaxTime = 4
  MaxSleep = 2
  Retry = 1
  Scopes <- MCTwo
INVARIANTS
  OnePolicyPerTarget
CHECK_DEADLOCK FALSE
