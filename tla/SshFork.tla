------------------------------- MODULE SshFork -------------------------------
(***************************************************************************)
(* do_cmd, suspchild and killchild of src/ostc/ssh/ssh-fork.c: two         *)
(* processes that share a pair of pipes, the signals a terminal and a user *)
(* send them, and the handlers that keep the two in step.  fatal() is not  *)
(* defined in src/; it reports and ends the process.                       *)
(***************************************************************************)
EXTENDS FdTable, Sequences

CONSTANTS
    Inherited,      \* the descriptors that may be open when do_cmd is called
    StopSignals,    \* of SIGTSTP, SIGTTIN, SIGTTOU, the ones a terminal sends
    MaxSignals      \* bound: signals sent by the environment

ASSUME InheritedAssumption == Inherited \subseteq Fd
ASSUME StopAssumption == StopSignals \subseteq {"TSTP", "TTIN", "TTOU"}

KillSignals == {"TERM", "INT", "HUP"}
Signals == StopSignals \cup KillSignals

VARIABLES
    pc, cpc,        \* where do_cmd is, in the parent and in the child
    ptab, ctab,     \* the descriptor tables of the two processes
    fd,             \* reserved, pin and pout: fd.r0, fd.r1, fd.in0, ... ; -1 if not set
    stopsSet,       \* suspchild is installed for the three stop signals
    killsSet,       \* the signals killchild is installed for
    doCmdPid,       \* the parent's do_cmd_pid > 1
    frames,         \* the parent's handler activations, the running one last
    pstate, cstate, \* what the kernel says of the two processes
    reported,       \* the child's current stop has been collected by a waitpid()
    ppend, cpend,   \* their pending signals
    sent            \* signals sent so far

fdVars   == <<ptab, ctab, fd>>
sigVars  == <<stopsSet, killsSet, doCmdPid, frames>>
procVars == <<pstate, cstate, reported, ppend, cpend, sent>>
vars     == <<pc, cpc, fdVars, sigVars, procVars>>

PipeEnds == {"resR", "resW", "pinR", "pinW", "poutR", "poutW"}
Files    == {Free, "inherited"} \cup PipeEnds
FdNames  == {"r0", "r1", "in0", "in1", "out0", "out1"}

ParentSteps == {"pipeReserved", "pipePin", "pipePout", "closeRes0", "closeRes1", "setStops",
                "fork", "assign", "closePin0", "closePout1", "setKills", "returned", "fatal"}
ChildSteps == {"none", "closePin1", "closePout0", "dupIn", "dupOut", "closePin0",
               "closePout1", "exec", "ssh"}

\* Types of both processes, their descriptors and the pending signals.
TypeOK ==
    /\ pc \in ParentSteps /\ cpc \in ChildSteps
    /\ ptab \in [Fd -> Files] /\ ctab \in [Fd -> Files]
    /\ fd \in [FdNames -> Fd \cup {-1}]
    /\ stopsSet \in BOOLEAN /\ killsSet \subseteq KillSignals /\ doCmdPid \in BOOLEAN
    /\ frames \in Seq([sig : Signals, at : {"test", "wait", "finish"}])
    /\ pstate \in {"running", "stopped", "dead"}
    /\ cstate \in {"none", "running", "stopped", "zombie", "reaped"}
    /\ reported \in BOOLEAN
    /\ ppend \subseteq Signals /\ cpend \subseteq Signals
    /\ sent \in Nat

Init ==
    /\ pc = "pipeReserved" /\ cpc = "none"
    /\ \E open \in SUBSET Inherited :
          ptab = [f \in Fd |-> IF f \in open THEN "inherited" ELSE Free]
    /\ ctab = [f \in Fd |-> Free]
    /\ fd = [n \in FdNames |-> -1]
    /\ stopsSet = FALSE /\ killsSet = {} /\ doCmdPid = FALSE /\ frames = << >>
    /\ pstate = "running" /\ cstate = "none" /\ reported = FALSE
    /\ ppend = {} /\ cpend = {} /\ sent = 0

-----------------------------------------------------------------------------
(* do_cmd in the parent.  It moves while no handler runs on top of it. *)

ParentRuns(from) == pc = from /\ pstate = "running" /\ frames = << >>

Pipe(from, to, rn, wn, rf, wf) ==
    /\ ParentRuns(from)
    /\ \E r, w \in Fd :
          /\ IsPipePair(ptab, r, w)
          /\ ptab' = [ptab EXCEPT ![r] = rf, ![w] = wf]
          /\ fd' = [fd EXCEPT ![rn] = r, ![wn] = w]
    /\ pc' = to
    /\ UNCHANGED <<cpc, ctab, sigVars, procVars>>

\* Mutant of PipeReserved: no descriptors are reserved.
ReserveNothing ==
    /\ ParentRuns("pipeReserved")
    /\ pc' = "pipePin"
    /\ UNCHANGED <<cpc, fdVars, sigVars, procVars>>

PipeReserved == Pipe("pipeReserved", "pipePin", "r0", "r1", "resR", "resW")
PipePin      == Pipe("pipePin", "pipePout", "in0", "in1", "pinR", "pinW")
PipePout     == Pipe("pipePout", "closeRes0", "out0", "out1", "poutR", "poutW")

\* pipe() or fork() fails: fatal().
Fatal ==
    /\ \/ \E step \in {"pipeReserved", "pipePin", "pipePout"} : ParentRuns(step) /\ NoRoomForPipe(ptab)
       \/ ParentRuns("fork")
    /\ pc' = "fatal" /\ pstate' = "dead"
    /\ UNCHANGED <<cpc, fdVars, sigVars, cstate, reported, ppend, cpend, sent>>

ParentClose(from, to, n) ==
    /\ ParentRuns(from)
    /\ ptab' = Close(ptab, fd[n])
    /\ pc' = to
    /\ UNCHANGED <<cpc, ctab, fd, sigVars, procVars>>

FreeReserved ==
    \/ ParentClose("closeRes0", "closeRes1", "r0")
    \/ ParentClose("closeRes1", "setStops", "r1")

SetStops ==
    /\ ParentRuns("setStops")
    /\ stopsSet' = TRUE
    /\ pc' = "fork"
    /\ UNCHANGED <<cpc, fdVars, killsSet, doCmdPid, frames, procVars>>

\* fork() returns in the parent before its result reaches do_cmd_pid.
Fork ==
    /\ ParentRuns("fork")
    /\ pc' = "assign" /\ cpc' = "closePin1"
    /\ ctab' = ptab
    /\ cstate' = "running"
    /\ UNCHANGED <<ptab, fd, sigVars, pstate, reported, ppend, cpend, sent>>

AssignPid ==
    /\ ParentRuns("assign")
    /\ doCmdPid' = TRUE
    /\ pc' = "closePin0"
    /\ UNCHANGED <<cpc, fdVars, stopsSet, killsSet, frames, procVars>>

\* Mutant of CloseFarEnds: the parent closes its own end of pin.
CloseWrongEnd ==
    \/ ParentClose("closePin0", "closePout1", "in1")
    \/ ParentClose("closePout1", "setKills", "out1")

CloseFarEnds ==
    \/ ParentClose("closePin0", "closePout1", "in0")
    \/ ParentClose("closePout1", "setKills", "out1")

\* signal(SIGTERM), signal(SIGINT), signal(SIGHUP), then return 0.
SetKills ==
    /\ ParentRuns("setKills")
    /\ LET next == CASE killsSet = {}              -> "TERM"
                     [] killsSet = {"TERM"}        -> "INT"
                     [] killsSet = {"TERM", "INT"} -> "HUP"
       IN  /\ killsSet' = killsSet \cup {next}
           /\ pc' = IF next = "HUP" THEN "returned" ELSE "setKills"
    /\ UNCHANGED <<cpc, fdVars, stopsSet, doCmdPid, frames, procVars>>

Parent == PipeReserved \/ PipePin \/ PipePout \/ Fatal \/ FreeReserved \/ SetStops \/ Fork
          \/ AssignPid \/ CloseFarEnds \/ SetKills

-----------------------------------------------------------------------------
(* do_cmd in the child, up to the exec of ssh and its end. *)

ChildStep(from, to, tab) ==
    /\ cpc = from /\ cstate = "running"
    /\ cpc' = to
    /\ ctab' = tab
    /\ UNCHANGED <<pc, ptab, fd, sigVars, procVars>>

ChildWires ==
    \/ ChildStep("closePin1", "closePout0", Close(ctab, fd["in1"]))
    \/ ChildStep("closePout0", "dupIn", Close(ctab, fd["out0"]))
    \/ ChildStep("dupIn", "dupOut", Dup2(ctab, fd["in0"], 0))
    \/ ChildStep("dupOut", "closePin0", Dup2(ctab, fd["out1"], 1))
    \/ ChildStep("closePin0", "closePout1", Close(ctab, fd["in0"]))
    \/ ChildStep("closePout1", "exec", Close(ctab, fd["out1"]))

Exec == ChildStep("exec", "ssh", ctab)

\* execvp() fails and the child calls exit(1), or ssh ends by itself.
ChildEnds ==
    /\ cpc \in {"exec", "ssh"} /\ cstate = "running"
    /\ cstate' = "zombie"
    /\ UNCHANGED <<pc, cpc, fdVars, sigVars, pstate, reported, ppend, cpend, sent>>

\* Before the exec the child has the parent's suspchild, which does nothing there as
\* its do_cmd_pid is not above 1; afterwards, and for the other signals, the default.
ChildDelivers(sig) ==
    /\ sig \in cpend /\ cstate = "running"
    /\ cpend' = cpend \ {sig}
    /\ cstate' = IF sig \in KillSignals THEN "zombie"
                 ELSE IF cpc = "ssh" THEN "stopped" ELSE cstate
    /\ reported' = FALSE
    /\ UNCHANGED <<pc, cpc, fdVars, sigVars, pstate, ppend, sent>>

Child == ChildWires \/ Exec \/ \E sig \in Signals : ChildDelivers(sig)

-----------------------------------------------------------------------------
(* The parent's handlers.  signal() masks the signal itself while they run. *)

Top == frames[Len(frames)]
Masked == {frames[i].sig : i \in 1 .. Len(frames)}
Popped == SubSeq(frames, 1, Len(frames) - 1)
TopAt(step) == [frames EXCEPT ![Len(frames)].at = step]

Handled(sig) == sig \in killsSet \/ (sig \in StopSignals /\ stopsSet)

ParentDelivers(sig) ==
    /\ sig \in ppend \ Masked /\ pstate = "running"
    /\ ppend' = ppend \ {sig}
    /\ IF Handled(sig)
       THEN /\ frames' = Append(frames, [sig |-> sig, at |-> "test"])
            /\ UNCHANGED pstate
       ELSE /\ pstate' = IF sig \in KillSignals THEN "dead" ELSE "stopped"
            /\ UNCHANGED frames
    /\ UNCHANGED <<pc, cpc, fdVars, stopsSet, killsSet, doCmdPid, cstate, reported, cpend, sent>>

HandlerRuns(step) == pstate = "running" /\ frames # << >> /\ Top.at = step

\* Mutants of HandlerKill: no waitpid() after the kill(); suspchild's
\* kill(getpid(), SIGSTOP) outside the test of do_cmd_pid.
KillWithoutWait ==
    /\ HandlerRuns("test")
    /\ IF doCmdPid
       THEN /\ cpend' = IF cstate \in {"running", "stopped"} THEN cpend \cup {Top.sig} ELSE cpend
            /\ frames' = TopAt("finish")
       ELSE /\ frames' = IF Top.sig \in KillSignals THEN TopAt("finish") ELSE Popped
            /\ UNCHANGED cpend
    /\ UNCHANGED <<pc, cpc, fdVars, stopsSet, killsSet, doCmdPid, pstate, cstate, reported, ppend, sent>>

StopInAnyCase ==
    /\ HandlerRuns("test")
    /\ IF doCmdPid
       THEN /\ cpend' = IF cstate \in {"running", "stopped"} THEN cpend \cup {Top.sig} ELSE cpend
            /\ frames' = TopAt("wait")
       ELSE /\ frames' = TopAt("finish")
            /\ UNCHANGED cpend
    /\ UNCHANGED <<pc, cpc, fdVars, stopsSet, killsSet, doCmdPid, pstate, cstate, reported, ppend, sent>>

\* do_cmd_pid > 1: kill(do_cmd_pid, signo); suspchild does nothing otherwise.
HandlerKill ==
    /\ HandlerRuns("test")
    /\ IF doCmdPid
       THEN /\ cpend' = IF cstate \in {"running", "stopped"} THEN cpend \cup {Top.sig} ELSE cpend
            /\ frames' = TopAt("wait")
       ELSE /\ frames' = IF Top.sig \in KillSignals THEN TopAt("finish") ELSE Popped
            /\ UNCHANGED cpend
    /\ UNCHANGED <<pc, cpc, fdVars, stopsSet, killsSet, doCmdPid, pstate, cstate, reported, ppend, sent>>

\* Mutant of HandlerWait: suspchild calls waitpid() without WUNTRACED.
WaitNotUntraced ==
    /\ HandlerRuns("wait")
    /\ cstate \in {"zombie", "reaped"}
    /\ cstate' = "reaped"
    /\ frames' = TopAt("finish")
    /\ UNCHANGED <<pc, cpc, fdVars, stopsSet, killsSet, doCmdPid, pstate, reported, ppend, cpend, sent>>

\* waitpid() collects the dead child, and with WUNTRACED a child newly stopped; it
\* fails when the child has been collected before.
HandlerWait ==
    /\ HandlerRuns("wait")
    /\ \/ /\ cstate \in {"zombie", "reaped"}
          /\ cstate' = "reaped"
          /\ UNCHANGED reported
       \/ /\ Top.sig \in StopSignals
          /\ cstate = "stopped" /\ ~ reported
          /\ reported' = TRUE
          /\ UNCHANGED cstate
    /\ frames' = TopAt("finish")
    /\ UNCHANGED <<pc, cpc, fdVars, stopsSet, killsSet, doCmdPid, pstate, ppend, cpend, sent>>

\* killchild: _exit(1).  suspchild: kill(getpid(), SIGSTOP), and return when continued.
HandlerFinish ==
    /\ HandlerRuns("finish")
    /\ IF Top.sig \in KillSignals
       THEN pstate' = "dead" /\ UNCHANGED frames
       ELSE pstate' = "stopped" /\ frames' = Popped
    /\ UNCHANGED <<pc, cpc, fdVars, stopsSet, killsSet, doCmdPid, cstate, reported, ppend, cpend, sent>>

Handlers == HandlerKill \/ HandlerWait \/ HandlerFinish \/ \E sig \in Signals : ParentDelivers(sig)

-----------------------------------------------------------------------------
(* The environment *)

Alive(state) == state \in {"running", "stopped"}

\* A signal for the parent alone (kill) or for the whole job (the terminal).
Send(sig) ==
    /\ sent < MaxSignals /\ Alive(pstate)
    /\ sent' = sent + 1
    /\ ppend' = ppend \cup {sig}
    /\ cpend' \in {cpend, IF Alive(cstate) THEN cpend \cup {sig} ELSE cpend}
    /\ UNCHANGED <<pc, cpc, fdVars, sigVars, pstate, cstate, reported>>

\* The shell resumes a job whose leader it sees stopped: SIGCONT goes to the whole
\* job and discards its pending stop signals.
Resume ==
    /\ pstate = "stopped"
    /\ pstate' = "running"
    /\ cstate' = IF cstate = "stopped" THEN "running" ELSE cstate
    /\ ppend' = ppend \ StopSignals /\ cpend' = cpend \ StopSignals
    /\ UNCHANGED <<pc, cpc, fdVars, sigVars, reported, sent>>

Next == Parent \/ Child \/ Handlers \/ ChildEnds \/ Resume \/ \E sig \in Signals : Send(sig)

Spec == Init /\ [][Next]_vars

\* The processes are scheduled; ssh need not end and nobody need send or resume.
FairSpec == Spec /\ WF_vars(Parent) /\ WF_vars(Handlers)
                 /\ WF_vars(ChildWires) /\ WF_vars(Exec)
                 /\ \A sig \in Signals : WF_vars(ChildDelivers(sig))

-----------------------------------------------------------------------------

\* ssh starts with its stdin and stdout on the two pipes and no other descriptor of
\* either pipe, whatever was open before: "Reserve two descriptors so that the real
\* pipes won't get descriptors 0 and 1 because that will screw up dup2 below"
\* (ssh-fork.c:62-65).  A leftover write end would keep ssh from ever reading EOF.
ChildWired ==
    cpc = "ssh" => /\ ctab[0] = "pinR" /\ ctab[1] = "poutW"
                   /\ \A f \in Fd \ {0, 1} : ctab[f] \notin PipeEnds

\* do_cmd hands its caller the write end of ssh's stdin and the read end of its stdout,
\* and the parent keeps no other end (ssh-fork.c:110-113).
ParentWired ==
    pc = "returned" =>
        /\ ptab[fd["in1"]] = "pinW" /\ ptab[fd["out0"]] = "poutR"
        /\ \A f \in Fd \ {fd["in1"], fd["out0"]} : ptab[f] \notin PipeEnds

\* Once do_cmd has returned, no signal the user sends ends the parent without ssh being
\* dead and collected first (killchild, ssh-fork.c:19-30), even when handlers nest.
NoOrphan ==
    [][pstate # "dead" /\ pstate' = "dead" /\ pc = "returned" => cstate' = "reaped"]_vars

\* The parent never stops while ssh runs on: suspchild stops itself only after waitpid()
\* has seen the child stopped or dead (ssh-fork.c:37-43).
StopsTogether ==
    [][pstate = "running" /\ pstate' = "stopped" => cstate # "running"]_vars

\* Nothing but ssh itself, or somebody outside, gets the handler on top out of its
\* waitpid(): ssh runs and no signal is under way to it, or ssh is stopped and waitpid()
\* does not ask for stops, or this stop has been collected before.
Stranded ==
    /\ HandlerRuns("wait")
    /\ \/ cstate = "running" /\ cpend = {}
       \/ cstate = "stopped" /\ (Top.sig \in KillSignals \/ reported)

\* A handler is stranded by nothing but the following: the child took the signal before
\* it was ssh, where the suspchild it inherited does nothing (ssh-fork.c:79-84); the parent
\* was resumed while a second suspchild had interrupted the first, which discards the
\* signal the first had sent (lines 37-42); killchild waits for a suspended ssh (lines
\* 23-24); or two activations of suspchild wait for one stop.
StrandedOnlyBy ==
    [][~ Stranded /\ Stranded' =>
          \/ cpc # "ssh"
          \/ pstate = "stopped"
          \/ cstate' = "stopped" /\ (Top'.sig \in KillSignals \/ Len(frames') > 1)]_vars

\* A handler in waitpid() comes back, and then stops or ends the parent, unless it is
\* stranded; and it is stranded in no other ways than those four.  So one stop or one kill
\* that reaches a running ssh never leaves the parent hanging (ssh-fork.c:19-44).
HandlersEnd ==
    /\ (frames # << >> /\ Top.at = "wait") ~> (pstate # "running" \/ Stranded)
    /\ StrandedOnlyBy
=============================================================================
