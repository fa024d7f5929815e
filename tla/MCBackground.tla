---------------------------- MODULE MCBackground ----------------------------
(* Small instances of Daemonize and of ProcessGen, with the sleeps of the    *)
(* scripts in seconds for process_gen.sh and in units of 5 seconds for       *)
(* process_gen2.sh.  One of the two components runs, the other rests.        *)
EXTENDS Background

VARIABLE launcher

allVars == <<launcher, vars, genVars>>

MCGenerators == {
    [lines |-> 1, sleep |-> 1,  poll |-> 1, wait |-> 4],
    [lines |-> 3, sleep |-> 30, poll |-> 1, wait |-> 32]}

MCInit ==
    /\ Init /\ Gen!Init
    /\ \/ launcher = "signalh" /\ current = Target /\ generator.lines = 1
       \/ launcher = "process_gen" /\ fds["parent"] = [fd \in Fd |-> Free]

DaemonNext == launcher = "signalh" /\ Next /\ UNCHANGED <<launcher, genVars>>

Generates(A) == launcher = "process_gen" /\ A /\ UNCHANGED <<launcher, vars>>
GenNext == Generates(Gen!Next)

\* Daemonize!FairSpec and ProcessGen!FairSpec, each for the component that runs.
MCSpec ==
    /\ MCInit /\ [][DaemonNext \/ GenNext]_allVars
    /\ WF_allVars(DaemonNext)
    /\ WF_allVars(Generates(Gen!Tick)) /\ WF_allVars(Generates(Gen!ScriptRuns))
    /\ \A w \in Gen!Workers : WF_allVars(Generates(Gen!WorkerRuns(w)))
=============================================================================
