\* Every text of up to three characters, and longer ones.
SPECIFICATION Spec
CONSTANTS
    Texts <- AllTexts
    Prompts <- AllPrompts
    Before <- Start
    After <- End
    SpecialId <- SpecialIds
    Tokens <- Vocabulary
    MergeLines <- Rules
INVARIANTS TextPreserved MergesInRankOrder PiecesAreWellFormed RoundTrip
PROPERTY Terminates
CHECK_DEADLOCK FALSE
