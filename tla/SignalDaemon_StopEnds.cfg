SPECIFICATION FairSpec
CONSTANTS
    s1 = s1
    s2 = s2
    Senders = {s1, s2}
    Jobs <- MCStopJobs
    MaxQueued = 2
PROPERTY StopEnds
CHECK_DEADLOCK FALSE
