CONSTANTS
    MaxText = 12
    MaxMixed = 9
    Texts <- ShortTexts
    MaxCharacters = 7
    Overlap = 2
SPECIFICATION FairSpec
INVARIANTS
    ChunksFit ChunksContiguous
PROPERTY EndsOnShortWords
CHECK_DEADLOCK FALSE
