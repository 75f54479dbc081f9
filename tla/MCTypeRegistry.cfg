SPECIFICATION FairSpec
CONSTANTS
  IntT = IntT
  Derived = Derived
  VoidPtr = VoidPtr
  Node = Node
  NodePtr = NodePtr
  Void = Void
  Types <- MCTypes
  Deps <- MCDeps
  IdModulus = 8
  SizeMax = 4
  Garbage <- MCGarbage
INVARIANTS
  TypeOK
  IdsMatchEntries
  InnersPrecede
  HangNeedsCycle
PROPERTIES
  NeverRevoked
  ImplementsCatalog
  CallReturns
