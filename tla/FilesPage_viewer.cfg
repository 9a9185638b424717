SPECIFICATION FilesSpec
CONSTANTS
  Kinds = {"compose", "config", "source"}
  Insts = {"a", "b"}
  Dirs <- MCDirs
  Files <- MCFiles
  ComposeFile <- MCComposeFile
  MaxEvents = 4
INVARIANT ViewerShowsItsFile
CHECK_DEADLOCK FALSE
