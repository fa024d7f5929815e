SPECIFICATION FairSpec
CONSTANTS
    s1 = s1
    s2 = s2
    Senders = {s1, s2}
    Jobs <- MCJobs
    MaxQueued = 2
INVARIANTS CountExact ExitZeroMeansAllSent
PROPERTIES DiesOnlyByUser SignalsHandled NextSignalStops
\* The daemon waits for signals for ever when no sender is left.
CHECK_DEADLOCK FALSE
