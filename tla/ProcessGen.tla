------------------------------ MODULE ProcessGen ------------------------------
(***************************************************************************)
(* The load generators src/ostc/process_gen.sh, process_gen2.sh and        *)
(* os/hp/process_gen.sh: a script writes a file, starts it a number of     *)
(* times in the background, and waits until a user removes it.  The file   *)
(* is both the program of the workers and the marker that keeps them       *)
(* running.  Nobody tells a worker to end: the script only gives them time *)
(* to notice, so that this module has a clock.                             *)
(***************************************************************************)
EXTENDS Integers

CONSTANTS
    Generators,     \* the scripts: [lines, sleep, poll, wait], see MCBackground
    Target,         \* TOTAL_PROCESS_COUNT
    Counts,         \* what `ps -ef | wc -l` may say at the start
    MaxLate         \* bound: ticks by which the scheduler may delay a process

\* What the scripts are like; and, for JobsGone, that a delayed worker is through its
\* sleep before the script's last one is over: with "sleep 1" and "sleep 4" it may be late
\* by less than 3 seconds, with "sleep 150" and "sleep 160" by less than 10.
Sensible ==
    /\ Generators \subseteq [lines : Nat, sleep : Nat, poll : Nat, wait : Nat]
    /\ Target \in Nat /\ Counts \subseteq Nat /\ MaxLate \in Nat

TimeEnough == \A g \in Generators : g.sleep + MaxLate < g.wait

Script == 0
Workers == 1 .. Target \div 2
Jobs == {Script} \cup Workers

VARIABLES
    generator,  \* the script that runs; it never changes
    current,    \* CURRENT_PROC_COUNT
    pc,         \* where the script is
    written,    \* lines written to the file so far
    started,    \* i, the workers started so far
    marker,     \* the file exists
    worker,     \* worker[w]: "unborn", "forked", "looping" or "gone"
    timer       \* timer[p]: ticks left before p must run

vars == <<generator, current, pc, written, started, marker, worker, timer>>

Over == {"refused", "died", "done"}

\* Types; no timer is overdue.
TypeOK ==
    /\ generator \in Generators /\ current \in Counts
    /\ pc \in {"count", "write", "start", "poll", "wait"} \cup Over
    /\ written \in 0 .. generator.lines
    /\ started \in 0 .. Target \div 2
    /\ marker \in BOOLEAN
    /\ worker \in [Workers -> {"unborn", "forked", "looping", "gone"}]
    /\ timer \in [Jobs -> Nat]

Init ==
    /\ generator \in Generators /\ current \in Counts
    /\ pc = "count" /\ written = 0 /\ started = 0
    /\ marker = FALSE
    /\ worker = [w \in Workers |-> "unborn"]
    /\ timer = [p \in Jobs |-> MaxLate]

-----------------------------------------------------------------------------
(* Time: a process that is through its sleep may run at once or a little late. *)

Running == {w \in Workers : worker[w] \in {"forked", "looping"}}
Active == Running \cup (IF pc \in Over THEN {} ELSE {Script})

Due(p) == timer[p] <= MaxLate
Sleeps(p, ticks) == timer' = [timer EXCEPT ![p] = ticks + MaxLate]

Tick ==
    /\ Active # {}
    /\ \A p \in Active : timer[p] > 0
    /\ timer' = [p \in Jobs |-> IF p \in Active THEN timer[p] - 1 ELSE timer[p]]
    /\ UNCHANGED <<generator, current, pc, written, started, marker, worker>>

-----------------------------------------------------------------------------
(* The script *)

At(step) == pc = step /\ Due(Script)

\* "Already at target process count": exit 1.
Count ==
    /\ At("count")
    /\ pc' = IF current >= Target THEN "refused" ELSE "write"
    /\ Sleeps(Script, 0)
    /\ UNCHANGED <<generator, current, written, started, marker, worker>>

\* One echo into the file: the first creates it, the others would create it again.
Write ==
    /\ At("write") /\ written < generator.lines
    /\ written' = written + 1
    /\ marker' = TRUE
    /\ Sleeps(Script, 0)
    /\ UNCHANGED <<generator, current, pc, started, worker>>

\* chmod, which changes nothing if the file is gone.
Chmod ==
    /\ At("write") /\ written = generator.lines
    /\ pc' = "start"
    /\ Sleeps(Script, 0)
    /\ UNCHANGED <<generator, current, written, started, marker, worker>>

\* PROCS_TO_GENERATE
ToGenerate == (Target - current) \div 2

\* $FILENAME &
Start ==
    /\ At("start") /\ started < ToGenerate
    /\ started' = started + 1
    /\ worker' = [worker EXCEPT ![started'] = "forked"]
    /\ timer' = [timer EXCEPT ![started'] = MaxLate, ![Script] = MaxLate]
    /\ UNCHANGED <<generator, current, pc, written, marker>>

\* "To terminate program, remove file: ..."
AllStarted ==
    /\ At("start") /\ started >= ToGenerate
    /\ pc' = "poll"
    /\ Sleeps(Script, 0)
    /\ UNCHANGED <<generator, current, written, started, marker, worker>>

\* Mutant of Poll: no time for the workers beyond one more round of the loop.
PollAndLeave ==
    /\ At("poll")
    /\ pc' = IF marker THEN "poll" ELSE "wait"
    /\ Sleeps(Script, generator.poll)
    /\ UNCHANGED <<generator, current, written, started, marker, worker>>

\* while (true): the file is looked for, and then "Shutting down ...".
Poll ==
    /\ At("poll")
    /\ \/ marker /\ Sleeps(Script, generator.poll) /\ UNCHANGED pc
       \/ ~ marker /\ Sleeps(Script, generator.wait) /\ pc' = "wait"
    /\ UNCHANGED <<generator, current, written, started, marker, worker>>

\* jobs; exit 0
Leave ==
    /\ At("wait")
    /\ pc' = "done"
    /\ UNCHANGED <<generator, current, written, started, marker, worker, timer>>

\* The script is interrupted, or the shell cannot fork and gives up.  Its background
\* jobs ignore the terminal's signals and stay.
Die ==
    /\ pc \notin Over
    /\ pc' = "died"
    /\ UNCHANGED <<generator, current, written, started, marker, worker, timer>>

ScriptRuns == Count \/ Write \/ Chmod \/ Start \/ AllStarted \/ Poll \/ Leave

-----------------------------------------------------------------------------
(* A worker *)

\* The new process opens its program, or ends as there is none.
Open(w) ==
    /\ worker[w] = "forked" /\ Due(w)
    /\ worker' = [worker EXCEPT ![w] = IF marker THEN "looping" ELSE "gone"]
    /\ Sleeps(w, 0)
    /\ UNCHANGED <<generator, current, pc, written, started, marker>>

\* Mutant of Test: the marker is looked for in the place of the program it was, once.
TestNever(w) ==
    /\ worker[w] = "looping" /\ Due(w)
    /\ Sleeps(w, generator.sleep)
    /\ UNCHANGED <<generator, current, pc, written, started, marker, worker>>

\* if [ ! -f $FILENAME ]; then break; fi; sleep
Test(w) ==
    /\ worker[w] = "looping" /\ Due(w)
    /\ \/ marker /\ Sleeps(w, generator.sleep) /\ UNCHANGED worker
       \/ ~ marker /\ worker' = [worker EXCEPT ![w] = "gone"] /\ UNCHANGED timer
    /\ UNCHANGED <<generator, current, pc, written, started, marker>>

WorkerRuns(w) == Open(w) \/ Test(w)

\* The user may remove the file as soon as it is there.
Remove ==
    /\ marker
    /\ marker' = FALSE
    /\ UNCHANGED <<generator, current, pc, written, started, worker, timer>>

Next == Tick \/ ScriptRuns \/ Die \/ Remove \/ \E w \in Workers : WorkerRuns(w)

Spec == Init /\ [][Next]_vars

\* Processes are scheduled and time goes on; nobody need remove the file.
FairSpec ==
    /\ Spec /\ WF_vars(Tick) /\ WF_vars(ScriptRuns)
    /\ \A w \in Workers : WF_vars(WorkerRuns(w))

-----------------------------------------------------------------------------

\* "processes that may be shut down easily by deleting a marker file"
\* (process_gen.sh:1-2): once the file is removed after its last line was written, all
\* workers end and no other appears, whether the script was still starting some, has
\* been interrupted, or waits.
WorkersEnd == (~ marker /\ pc \notin {"count", "write"}) ~> [](Running = {})

\* "Give a few seconds for all jobs to finish, ... then verify jobs are gone"
\* (process_gen.sh:47): a worker may have begun a sleep just before the file was removed,
\* and the script has seen that at once; none is left when the script ends.
JobsGone == pc = "done" => Running = {}
=============================================================================
