SPECIFICATION FairSpec
CONSTANTS
    src = src
    a = a
    b = b
    sys = sys
    Files <- MCFiles
    Source = src
    System = {sys}
    Graphs <- MCGraphs
INVARIANTS OnlyReachable AllReachable CompiledOnce
PROPERTY WalkEnds
\* The walk is over.
CHECK_DEADLOCK FALSE
