SPECIFICATION Spec
CONSTANTS
  Identifiers <- MCIdentifiers
  Integers = {"1"}
  Literals = {}
  Vocabulary <- MCVocabulary
  Seeds <- MCSeeds
  Alphabet <- MCAlphabet
  Keywords <- MCKeywords
  MaxText = 4
INVARIANTS    RelexSame
CHECK_DEADLOCK FALSE
