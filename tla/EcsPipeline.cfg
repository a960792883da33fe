SPECIFICATION Spec
CONSTANTS
  heading = heading
  vector = vector
  tree = tree
  Groups = 2
  Resources <- MCResources
  Shapes <- BoidsShapes
  MinParallelTask = 1
  Switches <- AllSwitches
  MaxPasses = 2
INVARIANTS
  TypeOK
  EventMeansDone
PROPERTIES
  PassesEnd
  SyncsReturn
  ImplementsSchedule
CHECK_DEADLOCK FALSE
