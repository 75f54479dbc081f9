SPECIFICATION FairSpec
CONSTANTS
  ClassT = ClassT
  IntT = IntT
  StringT = StringT
  Class = ClassT
  Classes <- MCClasses
  Copyable <- MCCopyable
  Movable <- MCCopyable
  Methods <- MCMethods
  Arguments <- MCArguments
  Instances <- MCInstances
  MaxArgs = 2
INVARIANTS
  TypeOK
  NeverAborts
  RunsWhatFits
  FindsWhatFits
PROPERTIES
  InvokeReturns
  AnswersByFirstFit
