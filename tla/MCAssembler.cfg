\* Every source of at most MaxTurns lines over the vocabulary.
SPECIFICATION Spec
CONSTANTS
  ByteSize = 3
  EntrySize = 5
  Vocabulary <- MCVocabulary
  Texts <- MCTexts
  Alphabet <- MCAlphabet
  Truncated <- MCTruncated
  ExecutableName <- MCExecutable
  MaxSectionSize = 8
  MaxTurns = 4
INVARIANTS
  AcceptedIsExact
  UsesResolve
  OneSectionPerName
  FitForLinker
  ReadBack
