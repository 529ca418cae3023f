SPECIFICATION Spec
CONSTANTS
  Upper <- MCUpper
  Lower <- MCLower
  Modulus = 251
  Alphabet <- MCAlphabet
  Atcoder <- MCAtcoder
  Target <- MCTarget
  SolutionInputs <- MCSolutionInputs
  ModuleCommands <- MCModuleCommands
  MaxConflicts = 1
  BankUsers <- MCBankUsers
  LayoutInputs <- MCLayoutInputs
INVARIANTS
  AnswersRight
  LayoutSound
  NothingTwice
  BooksBalance
PROPERTIES
  PathsAreDrawn
  LayoutEnds
CHECK_DEADLOCK FALSE
