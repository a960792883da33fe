SPECIFICATION Spec
CONSTANTS
  Frame <- BoidsFrame
  Layout <- BoidsLayout
  Fixed <- Resources
  SceneLists <- CopyLists
  UiSetup <- ImGuiSetup
  Handles = {"h1", "h2", "h3", "h4"}
  MaxUiDraws = 2
  Capacity = 14
  Null = Null
PROPERTY ExecutesList
