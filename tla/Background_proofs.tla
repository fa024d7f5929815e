-------------------------- MODULE Background_proofs --------------------------
(***************************************************************************)
(* Of the load generators: no worker is left when a script ends, for       *)
(* every number of workers, every sleep and every delay that leaves them   *)
(* time.  The argument: a worker that runs has at most its sleep and a     *)
(* delay left on its timer; so when the script finds the file gone and     *)
(* begins its last sleep, the worker is ahead of it by the difference of   *)
(* the two sleeps.  Time keeps the distance, and the script cannot end     *)
(* before the worker's timer would be overdue.                             *)
(*                                                                         *)
(* Of the daemon: its standard descriptors are on the null device for      *)
(* every table of inherited descriptors.  The argument: after the three    *)
(* close() calls 0, 1 and 2 are free, so the lowest-free rule leaves       *)
(* open() no choice.                                                       *)
(***************************************************************************)
EXTENDS Background, TLAPS


LEMMA JobsFacts ==
    /\ Gen!Script \in Gen!Jobs /\ Gen!Script \notin Gen!Workers
    /\ \A w \in Gen!Workers : w \in Gen!Jobs /\ w # Gen!Script
BY DEF Gen!Script, Gen!Workers, Gen!Jobs

LEMMA ToGenerateBound ==
    ASSUME Gen!Sensible, Gen!TypeOK
    PROVE  Gen!ToGenerate \in Int /\ Gen!ToGenerate <= Target \div 2
<1>1. current \in Nat /\ Target \in Nat
  BY DEF Gen!Sensible, Gen!TypeOK
<1>2. QED
  BY <1>1 DEF Gen!ToGenerate

LEMMA SleepsType ==
    ASSUME NEW p \in Gen!Jobs, NEW ticks \in Nat, Gen!Sensible, timer \in [Gen!Jobs -> Nat],
           Gen!Sleeps(p, ticks)
    PROVE  /\ timer' \in [Gen!Jobs -> Nat]
           /\ timer'[p] = ticks + MaxLate
           /\ \A q \in Gen!Jobs : q # p => timer'[q] = timer[q]
<1>1. MaxLate \in Nat /\ ticks + MaxLate \in Nat
  BY DEF Gen!Sensible
<1>2. QED
  BY <1>1 DEF Gen!Sleeps

\* The parts of a generator that its timers are set to.
LEMMA SleepsAreNat ==
    ASSUME Gen!Sensible, Gen!TypeOK
    PROVE  /\ generator.lines \in Nat /\ generator.sleep \in Nat
           /\ generator.poll \in Nat /\ generator.wait \in Nat /\ MaxLate \in Nat
BY DEF Gen!Sensible, Gen!TypeOK

LEMMA GenTypeInit == ASSUME Gen!Sensible, Gen!Init PROVE Gen!TypeOK
<1>1. 0 \in 0 .. generator.lines /\ 0 \in 0 .. Target \div 2 /\ MaxLate \in Nat
  <2>1. generator \in [lines : Nat, sleep : Nat, poll : Nat, wait : Nat]
    BY DEF Gen!Init, Gen!Sensible
  <2>2. Target \in Nat /\ MaxLate \in Nat
    BY DEF Gen!Sensible
  <2>3. QED
    BY <2>1, <2>2
<1>2. QED
  BY <1>1 DEF Gen!Init, Gen!TypeOK

LEMMA GenTypeStep == ASSUME Gen!Sensible, Gen!TypeOK, [Gen!Next]_(Gen!vars) PROVE Gen!TypeOK'
<1> USE JobsFacts, SleepsAreNat
<1>1. CASE Gen!Tick
  <2>1. timer' \in [Gen!Jobs -> Nat]
    BY <1>1 DEF Gen!Tick, Gen!TypeOK
  <2>2. QED
    BY <1>1, <2>1 DEF Gen!Tick, Gen!TypeOK
<1>2. CASE Gen!Count \/ Gen!Write \/ Gen!Chmod \/ Gen!AllStarted
  <2>1. Gen!Sleeps(Gen!Script, 0)
    BY <1>2 DEF Gen!Count, Gen!Write, Gen!Chmod, Gen!AllStarted
  <2>2. timer' \in [Gen!Jobs -> Nat]
    BY <2>1, SleepsType DEF Gen!TypeOK
  <2>3. UNCHANGED <<generator, current, started, worker>>
    BY <1>2 DEF Gen!Count, Gen!Write, Gen!Chmod, Gen!AllStarted
  <2>4. genPc' \in {"write", "refused", "start", "poll"} /\ marker' \in BOOLEAN
    BY <1>2 DEF Gen!Count, Gen!Write, Gen!Chmod, Gen!AllStarted, Gen!At, Gen!TypeOK
  <2>5. written' \in 0 .. generator.lines
    BY <1>2 DEF Gen!Count, Gen!Write, Gen!Chmod, Gen!AllStarted, Gen!TypeOK
  <2>6. QED
    BY <2>2, <2>3, <2>4, <2>5 DEF Gen!TypeOK, Gen!Over
<1>3. CASE Gen!Start
  <2>1. started \in 0 .. Target \div 2 /\ started < Gen!ToGenerate
    BY <1>3 DEF Gen!Start, Gen!TypeOK
  <2>2. started' = started + 1 /\ started' \in Gen!Workers
    <3>1. started' = started + 1 /\ Target \in Nat
      BY <1>3 DEF Gen!Start, Gen!Sensible
    <3>2. QED
      BY <2>1, <3>1, ToGenerateBound DEF Gen!Workers
  <2>3. started' \in 0 .. Target \div 2
    BY <2>2 DEF Gen!Workers
  <2>4. timer' \in [Gen!Jobs -> Nat]
    BY <1>3, <2>2 DEF Gen!Start, Gen!TypeOK
  <2>5. worker' \in [Gen!Workers -> {"unborn", "forked", "looping", "gone"}]
    BY <1>3, <2>2 DEF Gen!Start, Gen!TypeOK
  <2>6. QED
    BY <1>3, <2>3, <2>4, <2>5 DEF Gen!Start, Gen!TypeOK
<1>4. CASE Gen!Poll
  <2>1. Gen!Sleeps(Gen!Script, generator.poll) \/ Gen!Sleeps(Gen!Script, generator.wait)
    BY <1>4 DEF Gen!Poll
  <2>2. timer' \in [Gen!Jobs -> Nat]
    BY <2>1, SleepsType DEF Gen!TypeOK
  <2>3. QED
    BY <1>4, <2>2 DEF Gen!Poll, Gen!TypeOK
<1>5. CASE Gen!Leave \/ Gen!Die \/ Gen!Remove
  BY <1>5 DEF Gen!Leave, Gen!Die, Gen!Remove, Gen!Over, Gen!TypeOK
<1>6. ASSUME NEW w \in Gen!Workers, Gen!WorkerRuns(w) PROVE Gen!TypeOK'
  <2>1. Gen!Sleeps(w, 0) \/ Gen!Sleeps(w, generator.sleep) \/ UNCHANGED timer
    BY <1>6 DEF Gen!WorkerRuns, Gen!Open, Gen!Test
  <2>2. timer' \in [Gen!Jobs -> Nat]
    BY <2>1, SleepsType DEF Gen!TypeOK
  <2>3. worker' \in [Gen!Workers -> {"unborn", "forked", "looping", "gone"}]
    BY <1>6 DEF Gen!WorkerRuns, Gen!Open, Gen!Test, Gen!TypeOK
  <2>4. QED
    BY <1>6, <2>2, <2>3 DEF Gen!WorkerRuns, Gen!Open, Gen!Test, Gen!TypeOK
<1>7. CASE UNCHANGED Gen!vars
  BY <1>7 DEF Gen!vars, Gen!TypeOK
<1>8. QED
  BY <1>1, <1>2, <1>3, <1>4, <1>5, <1>6, <1>7 DEF Gen!Next, Gen!ScriptRuns

-----------------------------------------------------------------------------

\* A worker sleeps at most its sleep and a delay.  When the script has begun its last
\* sleep the file is gone, and each worker that still runs is ahead of it by the
\* difference of their sleeps.
Ahead ==
    /\ \A w \in Gen!Running : timer[w] <= generator.sleep + MaxLate
    /\ genPc = "wait" =>
           /\ ~ marker
           /\ \A w \in Gen!Running : timer[w] + generator.wait <= timer[Gen!Script] + generator.sleep
    /\ Gen!JobsGone

LEMMA AheadInit == ASSUME Gen!Init PROVE Ahead
BY DEF Gen!Init, Ahead, Gen!JobsGone, Gen!Running

\* Steps that start no worker and move no timer but the script's, outside its last sleep.
LEMMA AheadScript ==
    ASSUME Gen!TypeOK, Ahead, Gen!Running' \subseteq Gen!Running, UNCHANGED generator,
           \A w \in Gen!Workers : timer'[w] = timer[w],
           genPc' \notin {"wait", "done"}
    PROVE  Ahead'
<1>1. \A w \in Gen!Running' : w \in Gen!Running /\ timer'[w] = timer[w]
  BY DEF Gen!Running
<1>2. QED
  BY <1>1 DEF Ahead, Gen!JobsGone

LEMMA AheadStep ==
    ASSUME Gen!Sensible, Gen!TimeEnough, Gen!TypeOK, Ahead, [Gen!Next]_(Gen!vars)
    PROVE  Ahead'
<1> USE JobsFacts, SleepsAreNat
<1>1. CASE Gen!Tick
  <2>1. UNCHANGED <<generator, genPc, marker, worker>> /\ UNCHANGED Gen!Running
    BY <1>1 DEF Gen!Tick, Gen!Running
  <2>2. \A w \in Gen!Running : timer[w] \in Nat /\ timer'[w] = timer[w] - 1
    BY <1>1 DEF Gen!Tick, Gen!Active, Gen!Running, Gen!TypeOK
  <2>3. genPc = "wait" => timer[Gen!Script] \in Nat /\ timer'[Gen!Script] = timer[Gen!Script] - 1
    BY <1>1 DEF Gen!Tick, Gen!Active, Gen!Over, Gen!TypeOK
  <2>4. \A w \in Gen!Running' : timer'[w] <= generator'.sleep + MaxLate
    BY <2>1, <2>2 DEF Ahead
  <2>5. genPc = "wait" => \A w \in Gen!Running' :
            timer'[w] + generator'.wait <= timer'[Gen!Script] + generator'.sleep
    BY <2>1, <2>2, <2>3 DEF Ahead
  <2>6. QED
    BY <2>1, <2>4, <2>5 DEF Ahead, Gen!JobsGone
<1>2. CASE Gen!Count \/ Gen!Write \/ Gen!Chmod \/ Gen!AllStarted
  <2>1. /\ Gen!Sleeps(Gen!Script, 0) /\ UNCHANGED <<generator, worker>>
        /\ genPc' \notin {"wait", "done"}
    BY <1>2 DEF Gen!Count, Gen!Write, Gen!Chmod, Gen!AllStarted, Gen!At
  <2>2. Gen!Running' = Gen!Running
    BY <2>1 DEF Gen!Running
  <2>3. \A w \in Gen!Workers : timer'[w] = timer[w]
    BY <2>1, SleepsType DEF Gen!TypeOK
  <2>4. QED
    BY <2>1, <2>2, <2>3, AheadScript
<1>3. CASE Gen!Start
  <2>1. genPc' = "start" /\ UNCHANGED generator
    BY <1>3 DEF Gen!Start, Gen!At
  <2>2. ASSUME NEW w \in Gen!Running' PROVE timer'[w] <= generator'.sleep + MaxLate
    <3>1. w \in Gen!Workers
      BY <2>2 DEF Gen!Running
    <3>2. CASE w = started'
      BY <1>3, <2>1, <3>1, <3>2 DEF Gen!Start, Gen!TypeOK
    <3>3. CASE w # started'
      <4>1. timer'[w] = timer[w] /\ worker'[w] = worker[w]
        BY <1>3, <3>1, <3>3 DEF Gen!Start, Gen!TypeOK
      <4>2. w \in Gen!Running
        BY <2>2, <4>1 DEF Gen!Running
      <4>3. QED
        BY <2>1, <4>1, <4>2 DEF Ahead
    <3>4. QED
      BY <3>2, <3>3
  <2>3. QED
    BY <2>1, <2>2 DEF Ahead, Gen!JobsGone
<1>4. CASE Gen!Poll /\ marker
  <2>1. /\ Gen!Sleeps(Gen!Script, generator.poll) /\ UNCHANGED <<generator, worker>>
        /\ genPc' = "poll"
    BY <1>4 DEF Gen!Poll, Gen!At
  <2>2. \A w \in Gen!Workers : timer'[w] = timer[w]
    BY <2>1, SleepsType DEF Gen!TypeOK
  <2>3. QED
    BY <2>1, <2>2, AheadScript DEF Gen!Running
<1>5. CASE Gen!Poll /\ ~ marker
  <2>1. /\ Gen!Sleeps(Gen!Script, generator.wait) /\ UNCHANGED <<generator, worker, marker>>
        /\ genPc' = "wait"
    BY <1>5 DEF Gen!Poll
  <2>2. /\ timer'[Gen!Script] = generator.wait + MaxLate
        /\ \A w \in Gen!Workers : timer'[w] = timer[w]
    BY <2>1, SleepsType DEF Gen!TypeOK
  <2>3. Gen!Running' = Gen!Running /\ Gen!Running \subseteq Gen!Workers
    BY <2>1 DEF Gen!Running
  <2>4. \A w \in Gen!Running : timer[w] \in Nat /\ timer'[w] = timer[w]
                             /\ timer[w] <= generator.sleep + MaxLate
    BY <2>2, <2>3 DEF Gen!TypeOK, Ahead
  <2>5. \A w \in Gen!Running' : timer'[w] <= generator'.sleep + MaxLate
    BY <2>1, <2>3, <2>4
  <2>6. \A w \in Gen!Running' : timer'[w] + generator'.wait <= timer'[Gen!Script] + generator'.sleep
    BY <2>1, <2>2, <2>3, <2>4
  <2>7. QED
    BY <1>5, <2>1, <2>5, <2>6 DEF Ahead, Gen!JobsGone
<1>6. CASE Gen!Leave
  <2>1. /\ genPc = "wait" /\ genPc' = "done" /\ timer[Gen!Script] <= MaxLate
        /\ UNCHANGED <<generator, worker, timer>> /\ Gen!Running' = Gen!Running
    BY <1>6 DEF Gen!Leave, Gen!At, Gen!Due, Gen!Running
  <2>2. ASSUME NEW w \in Gen!Running PROVE FALSE
    <3>1. timer[w] \in Nat /\ timer[Gen!Script] \in Nat
      BY DEF Gen!Running, Gen!TypeOK
    <3>2. timer[w] + generator.wait <= timer[Gen!Script] + generator.sleep
      BY <2>1 DEF Ahead
    <3>3. generator.sleep + MaxLate < generator.wait
      BY DEF Gen!TimeEnough, Gen!TypeOK
    <3>4. QED
      BY <2>1, <3>1, <3>2, <3>3
  <2>3. QED
    BY <2>1, <2>2 DEF Ahead, Gen!JobsGone
<1>7. CASE Gen!Die
  BY <1>7, AheadScript DEF Gen!Die, Gen!Running
<1>8. CASE Gen!Remove
  BY <1>8 DEF Gen!Remove, Ahead, Gen!JobsGone, Gen!Running
<1>9. ASSUME NEW w \in Gen!Workers, Gen!WorkerRuns(w) PROVE Ahead'
  <2>1. UNCHANGED <<generator, genPc, marker>>
    BY <1>9 DEF Gen!WorkerRuns, Gen!Open, Gen!Test
  <2>2. Gen!Running' \subseteq Gen!Running
    BY <1>9 DEF Gen!WorkerRuns, Gen!Open, Gen!Test, Gen!Running, Gen!TypeOK
  <2>3. /\ timer'[Gen!Script] = timer[Gen!Script]
        /\ \A v \in Gen!Workers \ {w} : timer'[v] = timer[v]
    BY <1>9, SleepsType DEF Gen!WorkerRuns, Gen!Open, Gen!Test, Gen!TypeOK
  <2>4. w \in Gen!Running' => marker /\ timer'[w] <= generator.sleep + MaxLate
    <3>1. CASE Gen!Open(w)
      BY <3>1, SleepsType DEF Gen!Open, Gen!Running, Gen!TypeOK
    <3>2. CASE Gen!Test(w)
      BY <3>2, SleepsType DEF Gen!Test, Gen!Running, Gen!TypeOK
    <3>3. QED
      BY <1>9, <3>1, <3>2 DEF Gen!WorkerRuns
  <2>5. Gen!Running' \subseteq Gen!Workers
    BY DEF Gen!Running
  <2>6. QED
    BY <2>1, <2>2, <2>3, <2>4, <2>5 DEF Ahead, Gen!JobsGone
<1>10. CASE UNCHANGED Gen!vars
  BY <1>10 DEF Gen!vars, Ahead, Gen!JobsGone, Gen!Running
<1>11. QED
  BY <1>1, <1>2, <1>3, <1>4, <1>5, <1>6, <1>7, <1>8, <1>9, <1>10 DEF Gen!Next, Gen!ScriptRuns

-----------------------------------------------------------------------------

\* The load generators are type correct, for all scripts, targets and delays.
THEOREM GenTypeCorrect == Gen!Spec => []Gen!TypeOK
BY GenTypeInit, GenTypeStep, GeneratorsAssumption, PTL DEF Gen!Spec

\* No worker is left when the script ends, however many there are, wherever the file is
\* removed and whoever is delayed, if the last sleep is long enough for that.
THEOREM JobsAreGone == Gen!Spec => []JobsGone
<1>1. Gen!TypeOK /\ Ahead /\ [Gen!Next]_(Gen!vars) => Ahead'
  BY AheadStep, GeneratorsAssumption
<1>2. Ahead => JobsGone
  BY DEF Ahead, JobsGone
<1>3. QED
  BY AheadInit, GenTypeCorrect, <1>1, <1>2, PTL DEF Gen!Spec

-----------------------------------------------------------------------------


\* The progress of close() and open() over descriptors 0, 1 and 2.
StdioInv ==
    LET t == fds["daemon"]
        at == pc["daemon"]
    IN  /\ at \in {"close1", "close2", "open0"} => t[0] = Free
        /\ at \in {"close2", "open0", "open1"} => t[1] = Free
        /\ at \in {"open0", "open1", "open2"} => t[2] = Free
        /\ at \in {"open1", "open2", "serving"} => t[0] = "nullR"
        /\ at \in {"open2", "serving"} => t[1] = "nullRW"
        /\ at = "serving" => t[2] = "nullRW"

\* The child leads the new session from setsid() on, and hands it to the daemon.
SessionInv ==
    /\ pc["child"] = "fork2" => session["child"] = "child"
    /\ pc["daemon"] # "unborn" => session["daemon"] = "child"

IInv == TypeOK /\ StdioInv /\ SessionInv

USE MaxFdAssumption, RoomForStdio DEF Fd, Procs, Steps, Files, Sessions, Free

LEMMA InitInv == Init => IInv
<1> SUFFICES ASSUME Init PROVE IInv
  OBVIOUS
<1>1. PICK t \in [Fd -> {Free, "inherited"}] : fds = [p \in Procs |-> t]
  BY DEF Init
<1>2. t \in [Fd -> Files]
  BY <1>1
<1>3. TypeOK
  BY <1>1, <1>2 DEF Init, TypeOK
<1>4. StdioInv /\ SessionInv
  BY DEF Init, StdioInv, SessionInv
<1>5. QED
  BY <1>3, <1>4 DEF IInv

LEMMA ForkInv == IInv /\ (Fork1 \/ Fork2) => IInv'
<1> SUFFICES ASSUME IInv, Fork1 \/ Fork2 PROVE IInv'
  OBVIOUS
<1> USE DEF IInv, TypeOK, StdioInv, SessionInv
<1>1. CASE ForkOk("parent", "child", "fork1", "setsid")
  BY <1>1 DEF ForkOk
<1>2. CASE ForkOk("child", "daemon", "fork2", "close0")
  BY <1>2 DEF ForkOk
<1>3. CASE ForkFails("parent", "fork1")
  BY <1>3 DEF ForkFails
<1>4. CASE ForkFails("child", "fork2")
  BY <1>4 DEF ForkFails
<1>5. QED
  BY <1>1, <1>2, <1>3, <1>4 DEF Fork1, Fork2

LEMMA SetsidInv == IInv /\ Setsid => IInv'
BY DEF IInv, TypeOK, StdioInv, SessionInv, Setsid

\* A step of the daemon on its own table.
LEMMA DaemonStep ==
    ASSUME IInv, NEW from \in Steps \ {"unborn"}, NEW to \in Steps \ {"unborn"},
           NEW t \in [Fd -> Files],
           pc["daemon"] = from, pc' = [pc EXCEPT !["daemon"] = to],
           fds' = [fds EXCEPT !["daemon"] = t], UNCHANGED <<session, status>>
    PROVE  TypeOK' /\ SessionInv' /\ pc'["daemon"] = to /\ fds'["daemon"] = t
BY DEF IInv, TypeOK, SessionInv

LEMMA CloseInv == IInv /\ CloseAll => IInv'
<1> SUFFICES ASSUME IInv, CloseAll PROVE IInv'
  OBVIOUS
<1> DEFINE t == fds["daemon"]
<1>0. 0 \in Fd /\ 1 \in Fd /\ 2 \in Fd /\ t \in [Fd -> Files]
  BY DEF IInv, TypeOK
<1>1. CASE CloseStd(0, "close0", "close1")
  <2>1. [t EXCEPT ![0] = Free] \in [Fd -> Files]
    BY <1>0
  <2>2. /\ pc["daemon"] = "close0" /\ pc' = [pc EXCEPT !["daemon"] = "close1"]
        /\ fds' = [fds EXCEPT !["daemon"] = [t EXCEPT ![0] = Free]]
        /\ UNCHANGED <<session, status>>
    BY <1>1 DEF CloseStd, Close
  <2>3. /\ TypeOK' /\ SessionInv' /\ pc'["daemon"] = "close1"
        /\ fds'["daemon"] = [t EXCEPT ![0] = Free]
    BY <2>1, <2>2, DaemonStep
  <2>4. QED
    BY <1>0, <2>2, <2>3 DEF IInv, StdioInv
<1>2. CASE CloseStd(1, "close1", "close2")
  <2>1. [t EXCEPT ![1] = Free] \in [Fd -> Files]
    BY <1>0
  <2>2. /\ pc["daemon"] = "close1" /\ pc' = [pc EXCEPT !["daemon"] = "close2"]
        /\ fds' = [fds EXCEPT !["daemon"] = [t EXCEPT ![1] = Free]]
        /\ UNCHANGED <<session, status>>
    BY <1>2 DEF CloseStd, Close
  <2>3. /\ TypeOK' /\ SessionInv' /\ pc'["daemon"] = "close2"
        /\ fds'["daemon"] = [t EXCEPT ![1] = Free]
    BY <2>1, <2>2, DaemonStep
  <2>4. QED
    BY <1>0, <2>2, <2>3 DEF IInv, StdioInv
<1>3. CASE CloseStd(2, "close2", "open0")
  <2>1. [t EXCEPT ![2] = Free] \in [Fd -> Files]
    BY <1>0
  <2>2. /\ pc["daemon"] = "close2" /\ pc' = [pc EXCEPT !["daemon"] = "open0"]
        /\ fds' = [fds EXCEPT !["daemon"] = [t EXCEPT ![2] = Free]]
        /\ UNCHANGED <<session, status>>
    BY <1>3 DEF CloseStd, Close
  <2>3. /\ TypeOK' /\ SessionInv' /\ pc'["daemon"] = "open0"
        /\ fds'["daemon"] = [t EXCEPT ![2] = Free]
    BY <2>1, <2>2, DaemonStep
  <2>4. QED
    BY <1>0, <2>2, <2>3 DEF IInv, StdioInv
<1>4. QED
  BY <1>1, <1>2, <1>3 DEF CloseAll

LEMMA OpenInv == IInv /\ OpenAll => IInv'
<1> SUFFICES ASSUME IInv, OpenAll PROVE IInv'
  OBVIOUS
<1> DEFINE t == fds["daemon"]
<1>0. 0 \in Fd /\ 1 \in Fd /\ 2 \in Fd /\ t \in [Fd -> Files]
  BY DEF IInv, TypeOK
<1>1. CASE OpenNull("nullR", "open0", "open1")
  <2>1. PICK fd \in Fd : /\ IsLowestFree(t, fd)
                         /\ fds' = [fds EXCEPT !["daemon"] = Opened(t, fd, "nullR")]
    BY <1>1 DEF OpenNull
  <2>2. pc["daemon"] = "open0"
    BY <1>1 DEF OpenNull
  <2>3. fd = 0
    BY <1>0, <2>1, <2>2 DEF IsLowestFree, IInv, StdioInv
  <2>4. [t EXCEPT ![0] = "nullR"] \in [Fd -> Files]
    BY <1>0
  <2>5. /\ TypeOK' /\ SessionInv' /\ pc'["daemon"] = "open1"
        /\ fds'["daemon"] = [t EXCEPT ![0] = "nullR"]
    BY <1>1, <2>1, <2>3, <2>4, DaemonStep DEF OpenNull, Opened, IInv
  <2>6. QED
    BY <1>0, <2>2, <2>5 DEF IInv, StdioInv
<1>2. CASE OpenNull("nullRW", "open1", "open2")
  <2>1. PICK fd \in Fd : /\ IsLowestFree(t, fd)
                         /\ fds' = [fds EXCEPT !["daemon"] = Opened(t, fd, "nullRW")]
    BY <1>2 DEF OpenNull
  <2>2. pc["daemon"] = "open1"
    BY <1>2 DEF OpenNull
  <2>3. fd = 1
    BY <1>0, <2>1, <2>2 DEF IsLowestFree, IInv, StdioInv
  <2>4. [t EXCEPT ![1] = "nullRW"] \in [Fd -> Files]
    BY <1>0
  <2>5. /\ TypeOK' /\ SessionInv' /\ pc'["daemon"] = "open2"
        /\ fds'["daemon"] = [t EXCEPT ![1] = "nullRW"]
    BY <1>2, <2>1, <2>3, <2>4, DaemonStep DEF OpenNull, Opened, IInv
  <2>6. QED
    BY <1>0, <2>2, <2>5 DEF IInv, StdioInv
<1>3. CASE OpenNull("nullRW", "open2", "serving")
  <2>1. PICK fd \in Fd : /\ IsLowestFree(t, fd)
                         /\ fds' = [fds EXCEPT !["daemon"] = Opened(t, fd, "nullRW")]
    BY <1>3 DEF OpenNull
  <2>2. pc["daemon"] = "open2"
    BY <1>3 DEF OpenNull
  <2>3. fd = 2
    BY <1>0, <2>1, <2>2 DEF IsLowestFree, IInv, StdioInv
  <2>4. [t EXCEPT ![2] = "nullRW"] \in [Fd -> Files]
    BY <1>0
  <2>5. /\ TypeOK' /\ SessionInv' /\ pc'["daemon"] = "serving"
        /\ fds'["daemon"] = [t EXCEPT ![2] = "nullRW"]
    BY <1>3, <2>1, <2>3, <2>4, DaemonStep DEF OpenNull, Opened, IInv
  <2>6. QED
    BY <1>0, <2>2, <2>5 DEF IInv, StdioInv
<1>4. QED
  BY <1>1, <1>2, <1>3 DEF OpenAll

LEMMA Invariance == Spec => []IInv
<1>1. IInv /\ [Next]_vars => IInv'
  <2>1. IInv /\ UNCHANGED vars => IInv'
    BY DEF vars, IInv, TypeOK, StdioInv, SessionInv
  <2>2. QED
    BY <2>1, ForkInv, SetsidInv, CloseInv, OpenInv DEF Next
<1>2. QED
  BY InitInv, <1>1, PTL DEF Spec

\* Type correctness of the three processes.
THEOREM TypeCorrect == Spec => []TypeOK
<1>1. IInv => TypeOK
  BY DEF IInv
<1>2. QED
  BY <1>1, Invariance, PTL

\* stdin, stdout and stderr of the daemon are on the null device, whatever it inherited.
THEOREM StdioIsTied == Spec => []StdioTied
<1>1. IInv => StdioTied
  BY DEF IInv, StdioInv, StdioTied, Serving
<1>2. QED
  BY <1>1, Invariance, PTL

\* The daemon is outside the user's session and does not lead its own.
THEOREM DaemonIsDetached == Spec => []Detached
<1>1. IInv => Detached
  BY DEF IInv, SessionInv, Detached, Serving
<1>2. QED
  BY <1>1, Invariance, PTL
=============================================================================
