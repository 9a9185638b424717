SPECIFICATION FairStoreSpec
CONSTANTS
  MaxVersion = 3
  MaxEvents = 3
  LooseRefresh = FALSE
INVARIANTS
  ShowsSettled
PROPERTIES
  SettledIsShown
