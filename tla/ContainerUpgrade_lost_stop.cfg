SPECIFICATION Spec
CONSTANTS
  Main = m
  Deps = {d, e}
  ByName = {e}
  Selves = {{}}
  Tasks = {t}
  MaxImage = 1
  MaxGen = 4
  MaxEnding = 1
SYMMETRY Symmetry
CHECK_DEADLOCK FALSE
INVARIANTS StopsReported
