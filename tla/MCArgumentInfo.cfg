SPECIFICATION Spec
CONSTANTS
  setA = setA
  setB = setB
  name = name
  get = get
  twoParams = twoParams
  oneParam = oneParam
  noParams = noParams
  IntT = IntT
  StringT = StringT
  Functions <- MCFunctions
  Signatures <- MCSignatures
  Signature <- MCSignature
  Types = {IntT, StringT}
  Params <- MCParams
  Names <- MCNames
INVARIANTS
  TypeOK
  ListsAgree
  ShortOnlyAfterFailure
PROPERTIES
  HandedOutStays
  NamesReadInRange
