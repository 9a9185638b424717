CONSTANTS
  n1 = n1
  n2 = n2
  Extra <- MCExtra
  Addressed <- MCAddressed
SPECIFICATION ReplaceSpec
INVARIANTS
  NeverLost
  OneWorkload
  FailureRestores
PROPERTIES
  Atomic
CHECK_DEADLOCK FALSE
