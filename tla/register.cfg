SPECIFICATION Spec
CONSTANTS
    Scripts <- Families
    Code <- Annotated
INVARIANTS
    StartsWithSoundCode
    StaysInCode
    StaysInWindow
    RunsAsWritten
    ValueAsWritten
PROPERTY Terminates
CHECK_DEADLOCK FALSE
