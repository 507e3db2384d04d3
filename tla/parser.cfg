SPECIFICATION WrittenSpec
CONSTANTS
    Sources <- NoSources
    Scripts <- Families
    OtherTexts <- Sentences
INVARIANTS
    ReadsAsWritten
    NothingLost
CHECK_DEADLOCK FALSE
