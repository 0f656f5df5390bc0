SPECIFICATION ParseSpec
CONSTANTS
  Vocabulary <- MCVocabulary
  Wrappings <- MCWrappings
  Lines = {}
  MaxMultipartDepth = 1
  MaxTextBodyChars = 20
  WindowRunes = 9
  MaxParts = 1
  MaxWords = 3
  MaxLines = 0
INVARIANT CodeIsWhole
