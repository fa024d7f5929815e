---------------------------- MODULE SignalDaemon ----------------------------
(***************************************************************************)
(* The signal daemon (src/ostc/signals/signalh.cpp, main() from the point  *)
(* where Process_Daemonize has returned 0, and its handler), the programs  *)
(* that send it queued signals (src/ostc/signals/signal.cpp) and what the  *)
(* kernel does between them: queues per real-time signal, masks, delivery  *)
(* on the stack of the interrupted code, the default action that kills.    *)
(*                                                                         *)
(* The daemon's own code and a handler frame are one thread: while a frame *)
(* is on the stack main() does not move.                                   *)
(***************************************************************************)
EXTENDS Integers, Sequences, FiniteSets

CONSTANTS
    Senders,    \* the running instances of signal.cpp
    Jobs,       \* their possible arguments: records [sig, data, num]
    MaxQueued   \* RLIMIT_SIGPENDING: how many real-time signals the kernel queues

Std      == {"INT", "TERM"}          \* what a user may send to stop a process
RealTime == {"RTMIN", "RTMIN1"}      \* SIGRTMIN and SIGRTMIN+1
Signals  == Std \cup RealTime
StopValue == 1                       \* sival_int == 1 on SIGRTMIN ends the program

ASSUME JobsAssumption ==
    Jobs \subseteq [sig : Signals, data : Int, num : Nat]
ASSUME MaxQueuedAssumption == MaxQueued \in Nat

VARIABLES
    pc,         \* where main() is
    installed,  \* sigaction(SIGRTMIN) has been called
    blocked,    \* the daemon's signal mask
    prevMask,   \* main's prevMask
    frames,     \* the handler activations on the stack, the running one last
    sigCnt, allDone,        \* the program's globals
    pendStd,    \* pending standard signals (at most one of each)
    queue,      \* queue[s]: pending real-time signals s, in the order they were sent
    posted,     \* every SIGRTMIN the kernel accepted, as <<sender, value>>
    args,       \* args[s]: the arguments of sender s
    sent,       \* sent[s]: its loop variable j
    status      \* status[s]: "running", or its exit status

daemonVars == <<pc, installed, blocked, prevMask, frames, sigCnt, allDone>>
kernelVars == <<pendStd, queue, posted>>
senderVars == <<args, sent, status>>
vars == <<daemonVars, kernelVars, senderVars>>

MainSteps == {"install", "block", "hold", "sleep", "restore", "test", "pause",
              "paused", "exited", "killed"}
HandlerSteps == {"check", "load", "store", "sleep"}
Frame == [val : Int, at : HandlerSteps, tmp : Nat, mask : SUBSET Signals]

Gone == pc \in {"exited", "killed"}

\* Types of the daemon, the kernel and the senders.
TypeOK ==
    /\ pc \in MainSteps
    /\ installed \in BOOLEAN
    /\ blocked \in SUBSET Signals
    /\ prevMask \in SUBSET Signals
    /\ frames \in Seq(Frame)
    /\ sigCnt \in Nat
    /\ allDone \in BOOLEAN
    /\ pendStd \in SUBSET Std
    /\ queue \in [RealTime -> Seq(Int)]
    /\ posted \in Seq(Senders \X Int)
    /\ args \in [Senders -> Jobs]
    /\ sent \in [Senders -> Nat]
    /\ status \in [Senders -> {"running", "exit0", "exit2"}]

Init ==
    /\ pc = "install"
    /\ installed = FALSE
    /\ blocked = {}
    /\ prevMask = {}
    /\ frames = << >>
    /\ sigCnt = 0
    /\ allDone = FALSE
    /\ pendStd = {}
    /\ queue = [s \in RealTime |-> << >>]
    /\ posted = << >>
    /\ args \in [Senders -> Jobs]
    /\ sent = [s \in Senders |-> 0]
    /\ status = [s \in Senders |-> "running"]

-----------------------------------------------------------------------------
(* signal.cpp *)

Queued == Len(queue["RTMIN"]) + Len(queue["RTMIN1"])

\* sigqueue() succeeds: the kernel keeps the signal (a standard one at most once).
SendOk(s) ==
    LET sig == args[s].sig
        val == args[s].data + sent[s]
    IN  /\ status[s] = "running" /\ sent[s] < args[s].num
        /\ ~ Gone
        /\ \/ /\ sig \in Std
              /\ pendStd' = pendStd \cup {sig}
              /\ UNCHANGED <<queue, posted>>
           \/ /\ sig \in RealTime
              /\ Queued < MaxQueued
              /\ queue' = [queue EXCEPT ![sig] = Append(@, val)]
              /\ posted' = IF sig = "RTMIN" THEN Append(posted, <<s, val>>) ELSE posted
              /\ UNCHANGED pendStd
        /\ sent' = [sent EXCEPT ![s] = @ + 1]
        /\ UNCHANGED <<daemonVars, args, status>>

\* Mutant of SendFails: the sender goes on with the next signal.
SendFailsGoesOn(s) ==
    /\ status[s] = "running" /\ sent[s] < args[s].num
    /\ Gone \/ (args[s].sig \in RealTime /\ Queued >= MaxQueued)
    /\ sent' = [sent EXCEPT ![s] = @ + 1]
    /\ UNCHANGED <<daemonVars, kernelVars, args, status>>

\* sigqueue() fails (ESRCH: the daemon is gone; EAGAIN: the queue is full): the
\* sender gives up, the signals it has already sent stay sent.
SendFails(s) ==
    /\ status[s] = "running" /\ sent[s] < args[s].num
    /\ Gone \/ (args[s].sig \in RealTime /\ Queued >= MaxQueued)
    /\ status' = [status EXCEPT ![s] = "exit2"]
    /\ UNCHANGED <<daemonVars, kernelVars, args, sent>>

SenderEnds(s) ==
    /\ status[s] = "running" /\ sent[s] >= args[s].num
    /\ status' = [status EXCEPT ![s] = "exit0"]
    /\ UNCHANGED <<daemonVars, kernelVars, args, sent>>

Sender(s) == SendOk(s) \/ SendFails(s) \/ SenderEnds(s)

-----------------------------------------------------------------------------
(* The kernel's delivery to the daemon *)

\* Mutant of HandlerMask: SA_NODEFER is set.
HandlerMaskNoDefer == {}

\* What sigaction() has the kernel add to the mask while the handler runs: its own signal
\* only, for sa_mask is empty.
HandlerMask == {"RTMIN"}

\* A handler activation starts, with HandlerMask masked until it returns; if main() sleeps
\* in pause(), pause() will return.
DeliverHandled ==
    /\ ~ Gone /\ installed
    /\ "RTMIN" \notin blocked
    /\ queue["RTMIN"] # << >>
    /\ queue' = [queue EXCEPT !["RTMIN"] = Tail(@)]
    /\ frames' = Append(frames, [val |-> Head(queue["RTMIN"]), at |-> "check",
                                 tmp |-> 0, mask |-> blocked])
    /\ blocked' = blocked \cup HandlerMask
    /\ pc' = IF pc = "paused" THEN "test" ELSE pc
    /\ UNCHANGED <<installed, prevMask, sigCnt, allDone, pendStd, posted, senderVars>>

\* A signal without a handler has its default action, wherever the daemon is.
DeliverFatal ==
    /\ ~ Gone
    /\ \/ pendStd \ blocked # {}
       \/ /\ "RTMIN1" \notin blocked /\ queue["RTMIN1"] # << >>
       \/ /\ ~ installed /\ "RTMIN" \notin blocked /\ queue["RTMIN"] # << >>
    /\ pc' = "killed"
    /\ UNCHANGED <<installed, blocked, prevMask, frames, sigCnt, allDone,
                   kernelVars, senderVars>>

-----------------------------------------------------------------------------
(* siginfoHandler *)

Top == frames[Len(frames)]

\* The running handler activation moves from one step to the next.
Goto(from, to) ==
    /\ ~ Gone
    /\ frames # << >> /\ Top.at = from
    /\ frames' = [frames EXCEPT ![Len(frames)].at = to]
    /\ UNCHANGED <<pc, installed, blocked, prevMask, kernelVars, senderVars>>

\* sigreturn: the activation ends and the mask it interrupted comes back.
Return(from) ==
    /\ ~ Gone
    /\ frames # << >> /\ Top.at = from
    /\ frames' = SubSeq(frames, 1, Len(frames) - 1)
    /\ blocked' = Top.mask
    /\ UNCHANGED <<pc, installed, prevMask, sigCnt, kernelVars, senderVars>>

HandlerStop  == Return("check") /\ Top.val = StopValue /\ allDone' = TRUE

HandlerCount == Goto("check", "load") /\ Top.val # StopValue /\ UNCHANGED <<sigCnt, allDone>>

\* sigCnt++ on a volatile int is a load, an addition and a store.
HandlerLoad ==
    /\ ~ Gone
    /\ frames # << >> /\ Top.at = "load"
    /\ frames' = [frames EXCEPT ![Len(frames)].at = "store",
                                ![Len(frames)].tmp = sigCnt]
    /\ UNCHANGED <<pc, installed, blocked, prevMask, sigCnt, allDone, kernelVars, senderVars>>

HandlerStore == Goto("store", "sleep") /\ sigCnt' = Top.tmp + 1 /\ UNCHANGED allDone
HandlerSleep == Return("sleep") /\ UNCHANGED allDone

Handler == HandlerStop \/ HandlerCount \/ HandlerLoad \/ HandlerStore \/ HandlerSleep

-----------------------------------------------------------------------------
(* main() *)

MainStep(from, to) ==
    /\ pc = from /\ frames = << >>
    /\ pc' = to
    /\ UNCHANGED <<frames, sigCnt, allDone, kernelVars, senderVars>>

Install ==
    /\ MainStep("install", "block")
    /\ installed' = TRUE
    /\ UNCHANGED <<blocked, prevMask>>

\* pthread_sigmask(SIG_BLOCK, {SIGRTMIN+1}); argc tells whether the hold phase follows.
BlockRtmin1 ==
    /\ \E next \in {"hold", "test"} : MainStep("block", next)
    /\ blocked' = blocked \cup {"RTMIN1"}
    /\ UNCHANGED <<installed, prevMask>>

HoldSignals ==
    /\ MainStep("hold", "sleep")
    /\ prevMask' = blocked
    /\ blocked' = Signals \ Std
    /\ UNCHANGED installed

SleepOver == MainStep("sleep", "restore") /\ UNCHANGED <<installed, blocked, prevMask>>

\* Mutants of RestoreMask: an empty mask is set; the call is missing.
RestoreEmptyMask ==
    /\ MainStep("restore", "test")
    /\ blocked' = {}
    /\ UNCHANGED <<installed, prevMask>>

RestoreMissing == MainStep("restore", "test") /\ UNCHANGED <<installed, blocked, prevMask>>

RestoreMask ==
    /\ MainStep("restore", "test")
    /\ blocked' = prevMask
    /\ UNCHANGED <<installed, prevMask>>

\* Mutant of TestAllDone: the loop never looks at allDone.
TestNothing == MainStep("test", "pause") /\ UNCHANGED <<installed, blocked, prevMask>>

TestAllDone ==
    /\ MainStep("test", IF allDone THEN "exited" ELSE "pause")
    /\ UNCHANGED <<installed, blocked, prevMask>>

\* pause() puts the process to sleep, whatever the handler did since the test.
Pause == MainStep("pause", "paused") /\ UNCHANGED <<installed, blocked, prevMask>>

Main == Install \/ BlockRtmin1 \/ HoldSignals \/ SleepOver \/ RestoreMask
        \/ TestAllDone \/ Pause

Daemon == Main \/ Handler \/ DeliverHandled \/ DeliverFatal

Next == Daemon \/ \E s \in Senders : Sender(s)

Spec == Init /\ [][Next]_vars

\* A runnable process is scheduled and a deliverable signal is delivered.
FairSpec == Spec /\ WF_vars(Main) /\ WF_vars(Handler)
                 /\ WF_vars(DeliverHandled) /\ WF_vars(DeliverFatal)
                 /\ \A s \in Senders : WF_vars(Sender(s))

-----------------------------------------------------------------------------

\* How many of the accepted SIGRTMIN signals have started a handler activation.
Delivered == Len(posted) - Len(queue["RTMIN"])

DeliveredStops  == {i \in 1 .. Delivered : posted[i][2] = StopValue}
DeliveredCounts == {i \in 1 .. Delivered : posted[i][2] # StopValue}

\* Two activations of siginfoHandler never overlap, so that the unprotected sigCnt++
\* (signalh.cpp:94) has one writer: SIGRTMIN is masked while its handler runs.
OneActivation == Len(frames) <= 1

\* Whenever main() can look, sigCnt is the number of SIGRTMIN signals delivered so far
\* that do not carry the stop value, and allDone says whether one did: no increment is
\* lost and none is counted twice, whatever was interrupted.
CountExact ==
    frames = << >> => /\ sigCnt = Cardinality(DeliveredCounts)
                      /\ allDone <=> DeliveredStops # {}

\* The first n signals of the batch of s are what s has in posted, in order.
BatchPosted(s, n) ==
    \E place \in [1 .. n -> DOMAIN posted] :
        /\ \A j \in 1 .. n : posted[place[j]] = <<s, args[s].data + j - 1>>
        /\ \A j, k \in 1 .. n : j < k => place[j] < place[k]
        /\ \A i \in DOMAIN posted : posted[i][1] = s => \E j \in 1 .. n : place[j] = i

\* A sender that exits with 0 got its whole batch into the queue, in order and without
\* gaps, however it interleaved with other senders (signal.cpp:34-40).
ExitZeroMeansAllSent ==
    \A s \in Senders :
        status[s] = "exit0" /\ args[s].sig = "RTMIN" => BatchPosted(s, args[s].num)

\* After main() has set up its handler and blocked SIGRTMIN+1 (signalh.cpp:145-150),
\* only the user's SIGINT or SIGTERM kills it: the mask restored after the hold phase
\* still blocks SIGRTMIN+1.
DiesOnlyByUser ==
    [][pc' = "killed" /\ pc # "killed" =>
           pc \in {"install", "block"} \/ pendStd # {}]_vars

\* No handler activation starts while main() sleeps with signals blocked
\* (signalh.cpp:152-173): they are handled after the mask is restored.
HeldSignalsWait == [][(pc \in {"sleep", "restore"}) => frames' = frames]_vars

\* Every SIGRTMIN the kernel accepted is handled, unless the daemon ends first.
SignalsHandled ==
    \A n \in 1 .. Cardinality(Senders) * 2 :
        Len(posted) >= n ~> (Delivered >= n \/ Gone)

\* A stop that was missed is not lost for ever: once allDone is set, one more SIGRTMIN
\* that finds the daemon asleep ends it.
NextSignalStops == (allDone /\ pc = "paused" /\ queue["RTMIN"] # << >>) ~> Gone

\* What the loop "while (!allDone) /* Wait for incoming signals */ pause();"
\* (signalh.cpp:175-176) is written to do: the program ends when allDone is set.
StopEnds == allDone ~> Gone
=============================================================================
