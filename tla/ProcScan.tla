------------------------------ MODULE ProcScan ------------------------------
(***************************************************************************)
(* What a listing of the process table promises while processes come and   *)
(* go: each process is reported at most once, only processes that existed  *)
(* during the scan are reported, and at the end no process that lived      *)
(* through the whole scan has been left out.                               *)
(***************************************************************************)
EXTENDS Naturals

CONSTANTS
    Pids        \* the processes that may ever exist

VARIABLES
    seen,       \* the processes that existed at some time of the scan
    steady,     \* the processes alive from the start of the scan until now
    listed,     \* the processes reported so far
    scan        \* "on", "over" or "failed"

vars == <<seen, steady, listed, scan>>

Init ==
    /\ seen \in SUBSET Pids /\ steady = seen
    /\ listed = {}
    /\ scan = "on"

\* Processes are born and die all the time; a dead one is no longer steady.
Churn ==
    /\ \E born \in SUBSET (Pids \ seen) : seen' = seen \cup born
    /\ steady' \in SUBSET steady
    /\ UNCHANGED <<listed, scan>>

Report ==
    /\ scan = "on"
    /\ \E p \in seen \ listed : listed' = listed \cup {p}
    /\ UNCHANGED <<seen, steady, scan>>

Finish ==
    /\ scan = "on"
    /\ steady \subseteq listed
    /\ scan' = "over"
    /\ UNCHANGED <<seen, steady, listed>>

\* The kernel call failed: the scan is abandoned.
Fail ==
    /\ scan = "on"
    /\ scan' = "failed"
    /\ UNCHANGED <<seen, steady, listed>>

Next == Churn \/ Report \/ Finish \/ Fail

Spec == Init /\ [][Next]_vars
=============================================================================
