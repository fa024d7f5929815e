SPECIFICATION MCSpec
CONSTANTS
    r1 = r1
    r2 = r2
    Runs <- MCRuns
    Programs <- MCPrograms
    UserRows = {0, 1}
    Variants = {"exec", "tunnel"}
    ReqLen = 3
    AnsLen = 3
    WBuffer = 3
    MaxReads = 5
    PamPrograms = {"linux", "hp"}
    IntMax = 3
    Default = 2
    Rounds = 2
    Times <- MCTimes
    Messages <- MCMessages
INVARIANTS TypesOK RequestIntact CallsValid InSync FailsOnlyIfDisturbed
           HandlesEnded RoundsCounted PromptsAnswered
PROPERTIES AnswerPrinted RequestEnds
\* The client, or both runs, have ended, or crashed.
CHECK_DEADLOCK FALSE
