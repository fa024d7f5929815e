SPECIFICATION Spec
CONSTANTS
    a = a
    b = b
    NoFile = NoFile
    Names <- MCNames
    Words <- MCWords
    Texts <- MCTexts
    Inputs <- MCInputs
    Missing <- NoFile
INVARIANT CommentsSkipped
CHECK_DEADLOCK FALSE
