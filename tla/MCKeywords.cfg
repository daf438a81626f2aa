CONSTANTS
  Letters = {"i", "n", "d", "e", "x", "t", "g", "r", "b", "c", "h", "a"}
  Digits = {"4", "8"}
  Texts <- MCTexts
  ValidSets <- KeywordStates
SPECIFICATION Spec
INVARIANTS TypeOK LexedAsReference
