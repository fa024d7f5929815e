SPECIFICATION FairSpec
CONSTANTS
    Paths = {"x", "y"}
    MaxLines = 4
    MaxLevel = 3
    Texts <- MCTexts
    PipeSize = 2
INVARIANT FirstLevelFound
PROPERTY CompileEnds
\* The tool is done.
CHECK_DEADLOCK FALSE
