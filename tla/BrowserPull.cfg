CONSTANTS
  Refs <- MCRefs
  Multi <- MCMulti
  Layers <- MCLayers
  Tasks <- MCTasks
  Plans <- MCPlans
  LayerSize = 2
  Threshold = 1
  MaxTagVersion = 2
SPECIFICATION PullSpec
INVARIANTS
  PullSound
PROPERTIES
  WholeImages
  NothingAfterCancel
  Ends
CHECK_DEADLOCK FALSE
