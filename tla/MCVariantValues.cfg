SPECIFICATION Spec
CONSTANTS
  IntT = IntT
  Pinned = Pinned
  Null = Null
  Classes <- MCCopyable
  Copyable <- MCCopyable
  Movable <- MCCopyable
  Exprs <- MCValueExprs
  Cells = {c1, c2, c3}
  Values = {0, 1}
  Handles = {h1, h2}
SYMMETRY MCSymmetry
INVARIANTS
  TypeOK
  OwnedStorage
PROPERTIES
  ConstKept
  ImplementsSharedValues
