--------------------------- MODULE MCSignalDaemon ---------------------------
(* Instances of SignalDaemon for TLC. *)
EXTENDS SignalDaemon

CONSTANTS s1, s2

\* A batch that counts and then stops, a lone stop, a lone count, the signal main()
\* blocks for good, the user's signal.
MCJobs == { [sig |-> "RTMIN",  data |-> 0, num |-> 2],
            [sig |-> "RTMIN",  data |-> 1, num |-> 1],
            [sig |-> "RTMIN",  data |-> 5, num |-> 2],
            [sig |-> "RTMIN1", data |-> 0, num |-> 1],
            [sig |-> "TERM",   data |-> 0, num |-> 1] }

\* Stops only: the jobs that tell whether the daemon obeys them.
MCStopJobs == { [sig |-> "RTMIN", data |-> 1, num |-> 1],
                [sig |-> "RTMIN", data |-> 5, num |-> 1] }

=============================================================================
