SPECIFICATION Spec
CONSTANTS
  Shape = Shape
  Circle = Circle
  Square = Square
  Helper = Helper
  Out = Out
  None = None
  Classes <- MCClasses
  Paths <- MCPaths
  NoPath = None
  Projects <- MCProjects
  FileName <- MCFileName
  OutputName <- MCOutputName
  Sorted <- MCSorted
  OutputDir = Out
  PercentS = PercentS
INVARIANTS
  FilePerSource
