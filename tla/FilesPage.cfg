SPECIFICATION FilesSpec
CONSTANTS
  Kinds = {"compose", "config", "source"}
  Insts = {"a", "b"}
  Dirs <- MCDirs
  Files <- MCFiles
  ComposeFile <- MCComposeFile
  MaxEvents = 3
INVARIANTS
  FilesSound
  RowsMatch
  SavesWhatItLoaded
CHECK_DEADLOCK FALSE
