SPECIFICATION FairSpec
CONSTANTS
  Main = m
  Deps = {d, e}
  ByName = {e}
  Selves = {{}, {m}}
  Tasks = {t, u}
  MaxImage = 1
  MaxGen = 4
  MaxEnding = 1
INVARIANTS
  Sound
  NeverUnderneath
  DependentsServed
PROPERTIES
  LocksComeBack
CHECK_DEADLOCK FALSE
