SPECIFICATION FairSpec
CONSTANTS
    MaxFd = 6
    Inherited = {0, 1}
    StopSignals = {"TSTP", "TTIN"}
    MaxSignals = 2
INVARIANTS ChildWired ParentWired
PROPERTIES NoOrphan StopsTogether HandlersEnd
\* The pair of processes ends, or waits for ssh.
CHECK_DEADLOCK FALSE
