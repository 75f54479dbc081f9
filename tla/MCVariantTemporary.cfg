SPECIFICATION Spec
CONSTANTS
  IntT = IntT
  Pinned = Pinned
  Null = Null
  Classes <- MCClasses
  Copyable <- MCCopyable
  Movable <- MCCopyable
  Exprs <- MCRefExprs
  Cells = {c1}
  Values = {0}
  Handles = {h1, h2}
PROPERTIES
  RValueAlive
