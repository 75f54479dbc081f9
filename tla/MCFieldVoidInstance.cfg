SPECIFICATION Spec
CONSTANTS
  ClassT = ClassT
  IntT = IntT
  Frozen = Frozen
  publicValue = publicValue
  constValue = constValue
  staticValue = staticValue
  staticFrozen = staticFrozen
  Whole = Whole
  Null = Null
  Classes <- MCClasses
  Copyable <- MCClasses
  Movable <- MCClasses
  Struct = ClassT
  Fields <- MCFields
  Statics <- MCStatics
  ConstFields = {constValue}
  FieldClass <- MCFieldClass
  Assignable = {IntT}
  Exprs <- MCExprs
  Roots = {r1, r2}
  Handles = {h1, h2}
  Values = {0, 1}
PROPERTIES
  VoidInstanceReported
