CONSTANTS
  n1 = n1
  n2 = n2
  Extra <- MCExtra
  Addressed <- MCAddressed
CHECK_DEADLOCK FALSE
SPECIFICATION ReplaceSpec
INVARIANTS
  FailureKeepsOriginal
