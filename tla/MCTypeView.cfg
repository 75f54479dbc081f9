SPECIFICATION FairViewSpec
CONSTANTS
  IntT = IntT
  ConstInt = ConstInt
  Ptr = Ptr
  VolatilePtr = VolatilePtr
  VoidPtr = VoidPtr
  Void = Void
  NoType = NoType
  DeclaredGet = DeclaredGet
  DeclaredGetAgain = DeclaredGetAgain
  AskedGet = AskedGet
  AskedOther = AskedOther
  Types <- MCTypes
  Deps <- MCDeps
  Form <- MCForm
  Members <- MCMembers
  Literals <- MCLiterals
  Text <- MCText
  Layouts <- MCLayouts
  IdModulus = 8
  SizeMax = 4
  StackLimit = 5
  Garbage <- MCGarbage
INVARIANTS
  ViewTypeOK
  ViewResolves
  WalkDescends
  InnerExists
  PrintsTheType
  FailsOnlyUponVoid
  FindsByName
PROPERTIES
  PrintEnds
