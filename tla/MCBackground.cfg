SPECIFICATION MCSpec
CONSTANTS
    MaxFd = 4
    Generators <- MCGenerators
    Target = 6
    Counts = {1, 2, 3, 6}
    MaxLate = 1
INVARIANTS StdioTied JobsGone
PROPERTIES DaemonServes WorkersEnd
\* The launch is over when the daemon serves or a fork has failed; the script ends.
CHECK_DEADLOCK FALSE
