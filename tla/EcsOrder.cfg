SPECIFICATION Spec
CONSTANTS
  heading = heading
  vector = vector
  tree = tree
  Groups = 1
  Resources <- MCResources
  Shapes <- BoidsShapes
  MinParallelTask = 0
  Switches <- NoFibers
  MaxPasses = 3
INVARIANTS
  ProgramOrder
  ExpiredMeansDone
  SyncedAlone
CHECK_DEADLOCK FALSE
