------------------------------ MODULE Background ------------------------------
(* The two components that put processes into the background and leave them  *)
(* there: Daemonize, and beside it, with variables of its own, ProcessGen.   *)
EXTENDS Daemonize

CONSTANTS Generators, Target, Counts, MaxLate

VARIABLES generator, current, genPc, written, started, marker, worker, timer

genVars == <<generator, current, genPc, written, started, marker, worker, timer>>

Gen == INSTANCE ProcessGen WITH pc <- genPc

\* The generators are scripts, and their last wait is longer than a worker's sleep and
\* delay: of process_gen.sh if it delays less than 3 seconds, of process_gen2.sh if less
\* than 10.
ASSUME GeneratorsAssumption == Gen!Sensible /\ Gen!TimeEnough

\* ProcessGen!JobsGone: none is left when the script ends.
JobsGone == Gen!JobsGone

\* ProcessGen!WorkersEnd: removing the file ends all workers.
WorkersEnd == Gen!WorkersEnd
=============================================================================
