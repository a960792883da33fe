SPECIFICATION Spec
CONSTANTS
  Frame <- BoidsFrame
  Layout <- BoidsLayout
  Fixed <- Resources
  SceneLists <- BoidsLists
  UiSetup <- ImGuiSetup
  Handles = {"h1", "h2", "h3", "h4"}
  MaxUiDraws = 2
  Capacity = 14
  Null = Null
INVARIANTS
  TypeOK
  HandlesResolve
  RoomForCommands
  EncoderEndedOnce
  NothingPilesUp
PROPERTY ExecutesList
