SPECIFICATION Spec
CONSTANTS
  IntT = IntT
  Pinned = Pinned
  Null = Null
  Classes <- MCClasses
  Copyable <- MCCopyable
  Movable <- MCCopyable
  Exprs <- MCValueExprs
  Cells = {c1, c2}
  Values = {0, 1}
  Handles = {h1, h2}
PROPERTIES
  WriteReachesOriginal
