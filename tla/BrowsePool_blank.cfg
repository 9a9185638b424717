SPECIFICATION Spec
CONSTANTS
  i = i
  j = j
  a = a
  w = w
  d = d
  Keys = {i, j}
  Requests = {a, w, d}
  Writes = {w}
  Releases = {d}
  BoxLife = 2
  OpTimeout = 1
  WriteTimeout = 2
  MaxBoxes = 3
  MaxTime = 3
  Scopes <- MCVolume
CHECK_DEADLOCK FALSE
INVARIANTS RetryCoversBlank
