SPECIFICATION MCSpec
CONSTANTS
    a = a
    b = b
    NoFile = NoFile
    Names <- MCNames
    Words <- MCWords
    Texts <- MCTexts
    Inputs <- MCInputs
    Missing <- NoFile
    Records <- MCRecords
    Size <- MCSize
    MaxDevices = 2
INVARIANTS TypesOK AnswerRight AllPrinted
PROPERTY OdmEnds
\* The program has ended.
CHECK_DEADLOCK FALSE
