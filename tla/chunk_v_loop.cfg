CONSTANTS
    MaxText = 12
    MaxMixed = 9
    Texts <- ShortTexts
    MaxCharacters = 7
    Overlap = 2
SPECIFICATION FairSpec
PROPERTY ChunkingEnds
CHECK_DEADLOCK FALSE
