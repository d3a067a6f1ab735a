SPECIFICATION Spec
CONSTANTS
  P = P
  Q = Q
  Notes = {1, 2, 3}
  Project <- MCProject
  Category <- MCCategory
  Texts <- MCTexts
  Chunks <- MCChunks
  Whole <- MCWhole
  Refs <- MCRefs
  TextsOf <- MCTextsOf
  Heads <- MCHeads
  Providers = 2
  Pool = 3
  Scale <- MCScale
  Asks <- MCAsks
  Starts <- MCStarts
  None = None
  Scenarios <- MCScenarios
INVARIANTS TypeOK HitsWereOffered AsOfAsBelieved FallbackKeeps AnswerFromContent StaleComesLast
CHECK_DEADLOCK FALSE
