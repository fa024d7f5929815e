------------------------ MODULE SignalDaemon_proofs ------------------------
(***************************************************************************)
(* The counter and the masks of the signal daemon are right for any number *)
(* of senders, any jobs and any length of the kernel's queue.  The         *)
(* argument: SIGRTMIN is masked exactly while its handler runs or main()   *)
(* holds signals, so there is at most one activation, it belongs to the    *)
(* last signal delivered, and sigCnt is exact up to that signal.  What a   *)
(* sender has sent is posted in order, whoever else sends in between.      *)
(***************************************************************************)
EXTENDS SignalDaemon, FiniteSetTheorems, TLAPS

\* The delivered signals up to the n-th that count, and those that stop.
CountsTo(n) == {i \in 1 .. n : posted[i][2] # StopValue}
StopsTo(n)  == {i \in 1 .. n : posted[i][2] = StopValue}

\* The globals are what the first n signals delivered have made of them.
GlobalsAt(n) == sigCnt = Cardinality(CountsTo(n)) /\ (allDone <=> StopsTo(n) # {})

\* One activation at most, and only while SIGRTMIN is masked.
FrameInv ==
    /\ Len(frames) <= 1
    /\ frames # << >> /\ ~ Gone =>
          /\ "RTMIN" \in blocked /\ "RTMIN" \notin Top.mask
          /\ installed

\* The masks main() sets: SIGRTMIN+1 stays blocked from its first call on, and nothing
\* interrupts the hold phase.
MaskInv ==
    /\ pc = "install" => ~ installed
    /\ pc \notin {"install", "killed"} => installed
    /\ pc \notin {"install", "block", "killed"} =>
          /\ "RTMIN1" \in blocked
          /\ frames # << >> => "RTMIN1" \in Top.mask
    /\ pc \in {"sleep", "restore"} =>
          frames = << >> /\ "RTMIN" \in blocked /\ "RTMIN1" \in prevMask

\* The queue is the part of posted that has not been delivered.
QueueInv ==
    /\ Len(queue["RTMIN"]) <= Len(posted)
    /\ \A k \in 1 .. Len(queue["RTMIN"]) : queue["RTMIN"][k] = posted[Delivered + k][2]

\* The globals and the activation that is about to change them.
CountInv ==
    /\ frames = << >> => GlobalsAt(Delivered)
    /\ frames # << >> =>
          /\ Delivered >= 1 /\ Top.val = posted[Delivered][2]
          /\ Top.at = "check" => GlobalsAt(Delivered - 1)
          /\ Top.at \in {"load", "store"} => Top.val # StopValue /\ GlobalsAt(Delivered - 1)
          /\ Top.at = "store" => Top.tmp = sigCnt
          /\ Top.at = "sleep" => GlobalsAt(Delivered)

IInv ==
    /\ TypeOK
    /\ FrameInv
    /\ MaskInv
    /\ QueueInv
    /\ CountInv

-----------------------------------------------------------------------------

USE JobsAssumption, MaxQueuedAssumption
USE DEF Signals, Std, RealTime, StopValue

\* The stack is one frame deep.
LEMMA OneFrame ==
    ASSUME TypeOK, FrameInv, frames # << >>
    PROVE  Len(frames) = 1 /\ Top = frames[1] /\ Top \in Frame /\ SubSeq(frames, 1, 0) = << >>
<1>1. frames \in Seq(Frame)
  BY DEF TypeOK
<1>2. Len(frames) = 1
  <2>1. Len(frames) <= 1
    BY DEF FrameInv
  <2>2. Len(frames) \in Nat /\ Len(frames) # 0
    BY <1>1
  <2>3. \A n \in Nat : n <= 1 /\ n # 0 => n = 1
    OBVIOUS
  <2>4. QED
    BY <2>1, <2>2, <2>3
<1>3. frames[1] \in Frame
  BY <1>1, <1>2
<1>4. QED
  BY <1>2, <1>3 DEF Top

\* A set of delivered signals is finite, and the next signal adds at most itself.
LEMMA CountsStep ==
    ASSUME NEW n \in Nat \ {0}, posted \in Seq(Senders \X Int), n <= Len(posted)
    PROVE  /\ Cardinality(CountsTo(n - 1)) \in Nat
           /\ posted[n][2] = StopValue => /\ CountsTo(n) = CountsTo(n - 1)
                                         /\ StopsTo(n) # {}
           /\ posted[n][2] # StopValue => /\ Cardinality(CountsTo(n)) = Cardinality(CountsTo(n - 1)) + 1
                                         /\ StopsTo(n) = StopsTo(n - 1)
<1>1. IsFiniteSet(CountsTo(n - 1))
  <2>1. CountsTo(n - 1) \subseteq 1 .. (n - 1)
    BY DEF CountsTo
  <2>2. 1 \in Int /\ n - 1 \in Int
    OBVIOUS
  <2>3. IsFiniteSet(1 .. (n - 1))
    BY <2>2, FS_Interval
  <2>4. QED
    BY <2>1, <2>3, FS_Subset
<1>2. Cardinality(CountsTo(n - 1)) \in Nat
  BY <1>1, FS_CardinalityType
<1>3. 1 .. n = (1 .. (n - 1)) \cup {n} /\ n \notin 1 .. (n - 1)
  OBVIOUS
<1>4. ASSUME posted[n][2] = StopValue
      PROVE  CountsTo(n) = CountsTo(n - 1) /\ StopsTo(n) # {}
  <2>1. CountsTo(n) = CountsTo(n - 1)
    BY <1>3, <1>4 DEF CountsTo
  <2>2. n \in StopsTo(n)
    BY <1>4 DEF StopsTo
  <2>3. QED
    BY <2>1, <2>2
<1>5. ASSUME posted[n][2] # StopValue
      PROVE  /\ Cardinality(CountsTo(n)) = Cardinality(CountsTo(n - 1)) + 1
             /\ StopsTo(n) = StopsTo(n - 1)
  <2>1. CountsTo(n) = CountsTo(n - 1) \cup {n} /\ n \notin CountsTo(n - 1)
    BY <1>3, <1>5 DEF CountsTo
  <2>2. Cardinality(CountsTo(n)) = Cardinality(CountsTo(n - 1)) + 1
    BY <1>1, <2>1, FS_AddElement
  <2>3. StopsTo(n) = StopsTo(n - 1)
    BY <1>3, <1>5 DEF StopsTo
  <2>4. QED
    BY <2>2, <2>3
<1>6. QED
  BY <1>2, <1>4, <1>5

LEMMA InitInv == Init => IInv
<1> SUFFICES ASSUME Init PROVE IInv
  OBVIOUS
<1> USE DEF Init
<1>1. TypeOK
  <2>1. /\ frames \in Seq(Frame) /\ queue \in [RealTime -> Seq(Int)]
        /\ posted \in Seq(Senders \X Int)
    OBVIOUS
  <2>2. sent \in [Senders -> Nat] /\ status \in [Senders -> {"running", "exit0", "exit2"}]
    OBVIOUS
  <2>3. QED
    BY <2>1, <2>2 DEF TypeOK, MainSteps
<1>2. FrameInv /\ MaskInv /\ QueueInv
  BY DEF FrameInv, MaskInv, QueueInv
<1>3. CountInv
  <2>1. Delivered = 0
    BY DEF Delivered
  <2>2. CountsTo(0) = {} /\ StopsTo(0) = {}
    BY DEF CountsTo, StopsTo
  <2>3. QED
    BY <2>1, <2>2, FS_EmptySet DEF CountInv, GlobalsAt
<1>4. QED
  BY <1>1, <1>2, <1>3 DEF IInv

-----------------------------------------------------------------------------
(* main() *)

\* A step of main() that changes neither the globals nor the kernel's side keeps the
\* part of the invariant that is about them.
LEMMA MainStepInv ==
    ASSUME IInv, NEW from \in MainSteps \ {"paused", "exited", "killed"}, NEW to \in MainSteps,
           MainStep(from, to)
    PROVE  /\ pc = from /\ pc' = to /\ frames = << >> /\ ~ Gone
           /\ UNCHANGED <<frames, sigCnt, allDone, pendStd, queue, posted, args, sent, status>>
           /\ FrameInv' /\ QueueInv' /\ CountInv'
           /\ installed' \in BOOLEAN /\ blocked' \in SUBSET Signals /\ prevMask' \in SUBSET Signals
                  => TypeOK'
<1>1. /\ pc = from /\ pc' = to /\ frames = << >> /\ ~ Gone
      /\ UNCHANGED <<frames, sigCnt, allDone, pendStd, queue, posted, args, sent, status>>
  BY DEF MainStep, kernelVars, senderVars, Gone
<1>2. FrameInv' /\ QueueInv'
  BY <1>1 DEF IInv, FrameInv, QueueInv, Delivered
<1>3. CountInv'
  BY <1>1 DEF IInv, CountInv, Delivered, GlobalsAt, CountsTo, StopsTo
<1>4. installed' \in BOOLEAN /\ blocked' \in SUBSET Signals /\ prevMask' \in SUBSET Signals => TypeOK'
  BY <1>1 DEF IInv, TypeOK
<1>5. QED
  BY <1>1, <1>2, <1>3, <1>4

LEMMA MainInv == IInv /\ Main => IInv'
<1> SUFFICES ASSUME IInv, Main PROVE IInv'
  OBVIOUS
<1> USE DEF MainSteps
<1>0. blocked \in SUBSET Signals /\ prevMask \in SUBSET Signals /\ installed \in BOOLEAN /\ MaskInv
  BY DEF IInv, TypeOK
<1>1. CASE Install
  <2>1. MainStep("install", "block") /\ installed' = TRUE /\ UNCHANGED <<blocked, prevMask>>
    BY <1>1 DEF Install
  <2>2. MaskInv'
    BY <1>0, <2>1, MainStepInv DEF MaskInv
  <2>3. QED
    BY <1>0, <2>1, <2>2, MainStepInv DEF IInv
<1>2. CASE BlockRtmin1
  <2>1. PICK next \in {"hold", "test"} : MainStep("block", next)
    BY <1>2 DEF BlockRtmin1
  <2>2. blocked' = blocked \cup {"RTMIN1"} /\ UNCHANGED <<installed, prevMask>>
    BY <1>2 DEF BlockRtmin1
  <2>3. MaskInv'
    BY <1>0, <2>1, <2>2, MainStepInv DEF MaskInv
  <2>4. QED
    BY <1>0, <2>1, <2>2, <2>3, MainStepInv DEF IInv
<1>3. CASE HoldSignals
  <2>1. /\ MainStep("hold", "sleep") /\ prevMask' = blocked /\ blocked' = Signals \ Std
        /\ UNCHANGED installed
    BY <1>3 DEF HoldSignals
  <2>2. MaskInv'
    BY <1>0, <2>1, MainStepInv DEF MaskInv
  <2>3. QED
    BY <1>0, <2>1, <2>2, MainStepInv DEF IInv
<1>4. CASE SleepOver
  <2>1. MainStep("sleep", "restore") /\ UNCHANGED <<installed, blocked, prevMask>>
    BY <1>4 DEF SleepOver
  <2>2. MaskInv'
    BY <1>0, <2>1, MainStepInv DEF MaskInv
  <2>3. QED
    BY <1>0, <2>1, <2>2, MainStepInv DEF IInv
<1>5. CASE RestoreMask
  <2>1. MainStep("restore", "test") /\ blocked' = prevMask /\ UNCHANGED <<installed, prevMask>>
    BY <1>5 DEF RestoreMask
  <2>2. MaskInv'
    BY <1>0, <2>1, MainStepInv DEF MaskInv
  <2>3. QED
    BY <1>0, <2>1, <2>2, MainStepInv DEF IInv
<1>6. CASE TestAllDone
  <2>1. PICK to \in {"exited", "pause"} : MainStep("test", to)
    BY <1>6 DEF TestAllDone
  <2>2. UNCHANGED <<installed, blocked, prevMask>>
    BY <1>6 DEF TestAllDone
  <2>3. MaskInv'
    BY <1>0, <2>1, <2>2, MainStepInv DEF MaskInv
  <2>4. QED
    BY <1>0, <2>1, <2>2, <2>3, MainStepInv DEF IInv
<1>7. CASE Pause
  <2>1. MainStep("pause", "paused") /\ UNCHANGED <<installed, blocked, prevMask>>
    BY <1>7 DEF Pause
  <2>2. MaskInv'
    BY <1>0, <2>1, MainStepInv DEF MaskInv
  <2>3. QED
    BY <1>0, <2>1, <2>2, MainStepInv DEF IInv
<1>8. QED
  BY <1>1, <1>2, <1>3, <1>4, <1>5, <1>6, <1>7 DEF Main

-----------------------------------------------------------------------------
(* siginfoHandler *)

\* An activation that moves on is still the only one, with the signal and mask it had.
LEMMA FrameStep ==
    ASSUME TypeOK, FrameInv, frames # << >>, NEW f \in Frame, frames' = [frames EXCEPT ![Len(frames)] = f]
    PROVE  /\ frames' \in Seq(Frame) /\ frames' # << >> /\ Len(frames') = 1
           /\ Top' = f
<1>1. frames \in Seq(Frame) /\ Len(frames) = 1
  BY OneFrame DEF TypeOK
<1>2. frames' \in Seq(Frame) /\ Len(frames') = Len(frames) /\ frames'[1] = f
  BY <1>1
<1>3. QED
  BY <1>1, <1>2 DEF Top

\* A handler step that keeps main()'s side, the masks and the kernel's side.
LEMMA InnerStepInv ==
    ASSUME IInv, ~ Gone, frames # << >>, NEW at \in HandlerSteps, NEW tmp \in Nat,
           frames' = [frames EXCEPT ![Len(frames)] = [Top EXCEPT !.at = at, !.tmp = tmp]],
           sigCnt' \in Nat, allDone' \in BOOLEAN,
           UNCHANGED <<pc, installed, blocked, prevMask, kernelVars, senderVars>>
    PROVE  /\ TypeOK' /\ FrameInv' /\ MaskInv' /\ QueueInv'
           /\ frames' # << >> /\ Top' = [Top EXCEPT !.at = at, !.tmp = tmp]
           /\ Delivered' = Delivered
<1>1. UNCHANGED <<pc, installed, blocked, prevMask, pendStd, queue, posted, args, sent, status>>
  BY DEF kernelVars, senderVars
<1>2. Top \in Frame
  BY OneFrame DEF IInv
<1> DEFINE f == [Top EXCEPT !.at = at, !.tmp = tmp]
<1>3. f \in Frame /\ f.mask = Top.mask
  BY <1>2 DEF Frame
<1>4. frames' = [frames EXCEPT ![Len(frames)] = f]
  OBVIOUS
<1> HIDE DEF f
<1>5. frames' \in Seq(Frame) /\ frames' # << >> /\ Len(frames') = 1 /\ Top' = f
  BY <1>3, <1>4, FrameStep DEF IInv
<1>6. TypeOK'
  BY <1>1, <1>5 DEF IInv, TypeOK
<1>7. FrameInv' /\ MaskInv'
  BY <1>1, <1>3, <1>5 DEF IInv, FrameInv, MaskInv, Gone
<1>8. QueueInv' /\ Delivered' = Delivered
  BY <1>1 DEF IInv, QueueInv, Delivered
<1>9. QED
  BY <1>5, <1>6, <1>7, <1>8 DEF f

\* What the invariant says of a running activation.
LEMMA RunningFacts ==
    ASSUME IInv, frames # << >>
    PROVE  /\ Delivered \in Nat \ {0} /\ Delivered <= Len(posted)
           /\ posted \in Seq(Senders \X Int)
           /\ Top.val = posted[Delivered][2]
<1>1. posted \in Seq(Senders \X Int) /\ queue["RTMIN"] \in Seq(Int)
  BY DEF IInv, TypeOK
<1>2. Len(posted) \in Nat /\ Len(queue["RTMIN"]) \in Nat
  BY <1>1
<1>3. Delivered >= 1 /\ Top.val = posted[Delivered][2]
  BY DEF IInv, CountInv
<1>4. QED
  BY <1>1, <1>2, <1>3 DEF Delivered

LEMMA GotoInv ==
    ASSUME IInv, NEW from \in HandlerSteps, NEW to \in HandlerSteps, Goto(from, to),
           sigCnt' \in Nat, UNCHANGED allDone
    PROVE  /\ TypeOK' /\ FrameInv' /\ MaskInv' /\ QueueInv'
           /\ frames # << >> /\ Top.at = from /\ UNCHANGED posted
           /\ frames' # << >> /\ Top' = [Top EXCEPT !.at = to] /\ Top \in Frame
           /\ Delivered' = Delivered
<1>1. /\ ~ Gone /\ frames # << >> /\ Top.at = from
      /\ UNCHANGED <<pc, installed, blocked, prevMask, kernelVars, senderVars>>
  BY DEF Goto
<1>2. Len(frames) = 1 /\ Top = frames[1] /\ Top \in Frame /\ frames \in Seq(Frame)
  BY <1>1, OneFrame DEF IInv, TypeOK
<1>3. [Top EXCEPT !.at = to] = [Top EXCEPT !.at = to, !.tmp = Top.tmp] /\ Top.tmp \in Nat
  BY <1>2 DEF Frame
<1>4. frames' = [frames EXCEPT ![Len(frames)] = [Top EXCEPT !.at = to]]
  BY <1>2 DEF Goto
<1>5. allDone' \in BOOLEAN /\ posted' = posted
  BY <1>1 DEF IInv, TypeOK, kernelVars
<1>6. QED
  BY <1>1, <1>2, <1>3, <1>4, <1>5, InnerStepInv

\* An activation that ends leaves an empty stack and the mask it interrupted.
LEMMA ReturnInv ==
    ASSUME IInv, NEW from \in HandlerSteps, Return(from), allDone' \in BOOLEAN
    PROVE  /\ TypeOK' /\ FrameInv' /\ MaskInv' /\ QueueInv'
           /\ frames # << >> /\ Top.at = from /\ UNCHANGED <<posted, sigCnt>>
           /\ frames' = << >> /\ Delivered' = Delivered
<1>1. /\ ~ Gone /\ frames # << >> /\ Top.at = from /\ blocked' = Top.mask
      /\ frames' = SubSeq(frames, 1, Len(frames) - 1)
      /\ UNCHANGED <<pc, installed, prevMask, sigCnt, pendStd, queue, posted, args, sent, status>>
  BY DEF Return, kernelVars, senderVars
<1>2. Len(frames) = 1 /\ Top \in Frame /\ SubSeq(frames, 1, 0) = << >>
  BY <1>1, OneFrame DEF IInv
<1>3. frames' = << >>
  BY <1>1, <1>2
<1>4. blocked' \in SUBSET Signals
  BY <1>1, <1>2 DEF Frame
<1>5. TypeOK'
  BY <1>1, <1>3, <1>4 DEF IInv, TypeOK
<1>6. FrameInv' /\ QueueInv' /\ Delivered' = Delivered
  <2>1. Len(frames') = 0
    BY <1>3
  <2>2. FrameInv'
    BY <1>3, <2>1 DEF FrameInv
  <2>3. QueueInv' /\ Delivered' = Delivered
    BY <1>1 DEF IInv, QueueInv, Delivered
  <2>4. QED
    BY <2>2, <2>3
<1>7. MaskInv'
  BY <1>1, <1>3 DEF IInv, MaskInv, Gone
<1>8. QED
  BY <1>1, <1>3, <1>5, <1>6, <1>7

LEMMA HandlerInv == IInv /\ Handler => IInv'
<1> SUFFICES ASSUME IInv, Handler PROVE IInv'
  OBVIOUS
<1> USE DEF HandlerSteps
<1>0. sigCnt \in Nat /\ CountInv
  BY DEF IInv, TypeOK
<1>1. CASE HandlerStop
  <2>1. Return("check") /\ Top.val = StopValue /\ allDone' = TRUE
    BY <1>1 DEF HandlerStop
  <2>2. /\ TypeOK' /\ FrameInv' /\ MaskInv' /\ QueueInv'
        /\ frames # << >> /\ Top.at = "check" /\ UNCHANGED <<posted, sigCnt>>
        /\ frames' = << >> /\ Delivered' = Delivered
    BY <2>1, ReturnInv
  <2>3. GlobalsAt(Delivered - 1) /\ posted[Delivered][2] = StopValue
    BY <1>0, <2>1, <2>2, RunningFacts DEF CountInv
  <2>4. CountsTo(Delivered) = CountsTo(Delivered - 1) /\ StopsTo(Delivered) # {}
    BY <2>2, <2>3, RunningFacts, CountsStep
  <2>5. GlobalsAt(Delivered)'
    BY <2>1, <2>2, <2>3, <2>4 DEF GlobalsAt, CountsTo, StopsTo
  <2>6. QED
    BY <2>2, <2>5 DEF IInv, CountInv
<1>2. CASE HandlerCount
  <2>1. Goto("check", "load") /\ Top.val # StopValue /\ UNCHANGED <<sigCnt, allDone>>
    BY <1>2 DEF HandlerCount
  <2>2. /\ TypeOK' /\ FrameInv' /\ MaskInv' /\ QueueInv'
        /\ frames # << >> /\ Top.at = "check" /\ UNCHANGED posted
        /\ frames' # << >> /\ Top' = [Top EXCEPT !.at = "load"] /\ Top \in Frame
        /\ Delivered' = Delivered
    BY <1>0, <2>1, GotoInv
  <2>3. GlobalsAt(Delivered - 1)'
    BY <1>0, <2>1, <2>2 DEF CountInv, GlobalsAt, CountsTo, StopsTo
  <2>4. Top'.at = "load" /\ Top'.val = Top.val
    BY <2>2 DEF Frame
  <2>5. QED
    BY <1>0, <2>1, <2>2, <2>3, <2>4 DEF IInv, CountInv
<1>3. CASE HandlerLoad
  <2>1. /\ ~ Gone /\ frames # << >> /\ Top.at = "load"
        /\ frames' = [frames EXCEPT ![Len(frames)].at = "store", ![Len(frames)].tmp = sigCnt]
        /\ UNCHANGED <<pc, installed, blocked, prevMask, kernelVars, senderVars>>
        /\ UNCHANGED <<sigCnt, allDone, posted>>
    BY <1>3 DEF HandlerLoad, kernelVars
  <2>2. Len(frames) = 1 /\ Top = frames[1] /\ Top \in Frame /\ frames \in Seq(Frame)
    BY <2>1, OneFrame DEF IInv, TypeOK
  <2>3. frames' = [frames EXCEPT ![Len(frames)] = [Top EXCEPT !.at = "store", !.tmp = sigCnt]]
    BY <2>1, <2>2
  <2>4. allDone' \in BOOLEAN /\ sigCnt' \in Nat
    BY <2>1 DEF IInv, TypeOK
  <2>5. /\ TypeOK' /\ FrameInv' /\ MaskInv' /\ QueueInv'
        /\ frames' # << >> /\ Top' = [Top EXCEPT !.at = "store", !.tmp = sigCnt]
        /\ Delivered' = Delivered
    BY <1>0, <2>1, <2>3, <2>4, InnerStepInv
  <2>6. GlobalsAt(Delivered - 1)'
    BY <1>0, <2>1, <2>5 DEF CountInv, GlobalsAt, CountsTo, StopsTo
  <2>7. Top'.at = "store" /\ Top'.val = Top.val /\ Top'.tmp = sigCnt
    BY <2>2, <2>5 DEF Frame
  <2>8. QED
    BY <1>0, <2>1, <2>5, <2>6, <2>7 DEF IInv, CountInv
<1>4. CASE HandlerStore
  <2>1. Goto("store", "sleep") /\ sigCnt' = Top.tmp + 1 /\ UNCHANGED allDone
    BY <1>4 DEF HandlerStore
  <2>2. frames # << >> /\ Top.at = "store"
    BY <2>1 DEF Goto
  <2>3. Top.tmp = sigCnt /\ posted[Delivered][2] # StopValue /\ GlobalsAt(Delivered - 1)
    BY <1>0, <2>2, RunningFacts DEF CountInv
  <2>4. sigCnt' \in Nat
    BY <1>0, <2>1, <2>3
  <2>5. /\ TypeOK' /\ FrameInv' /\ MaskInv' /\ QueueInv'
        /\ UNCHANGED posted
        /\ frames' # << >> /\ Top' = [Top EXCEPT !.at = "sleep"] /\ Top \in Frame
        /\ Delivered' = Delivered
    BY <2>1, <2>4, GotoInv
  <2>6. /\ Cardinality(CountsTo(Delivered)) = Cardinality(CountsTo(Delivered - 1)) + 1
        /\ StopsTo(Delivered) = StopsTo(Delivered - 1)
    BY <2>2, <2>3, RunningFacts, CountsStep
  <2>7. GlobalsAt(Delivered)'
    BY <2>1, <2>3, <2>5, <2>6 DEF GlobalsAt, CountsTo, StopsTo
  <2>8. Top'.at = "sleep" /\ Top'.val = Top.val
    BY <2>5 DEF Frame
  <2>9. QED
    BY <1>0, <2>2, <2>5, <2>7, <2>8 DEF IInv, CountInv
<1>5. CASE HandlerSleep
  <2>1. Return("sleep") /\ UNCHANGED allDone
    BY <1>5 DEF HandlerSleep
  <2>2. allDone' \in BOOLEAN
    BY <2>1 DEF IInv, TypeOK
  <2>3. /\ TypeOK' /\ FrameInv' /\ MaskInv' /\ QueueInv'
        /\ frames # << >> /\ Top.at = "sleep" /\ UNCHANGED <<posted, sigCnt>>
        /\ frames' = << >> /\ Delivered' = Delivered
    BY <2>1, <2>2, ReturnInv
  <2>4. GlobalsAt(Delivered)'
    BY <1>0, <2>1, <2>3 DEF CountInv, GlobalsAt, CountsTo, StopsTo
  <2>5. QED
    BY <2>3, <2>4 DEF IInv, CountInv
<1>6. QED
  BY <1>1, <1>2, <1>3, <1>4, <1>5 DEF Handler

-----------------------------------------------------------------------------
(* The kernel and the senders *)

\* A new activation takes the oldest queued signal; the stack was empty, as SIGRTMIN
\* was not masked.
LEMMA DeliverHandledInv == IInv /\ DeliverHandled => IInv'
<1> SUFFICES ASSUME IInv, DeliverHandled PROVE IInv'
  OBVIOUS
<1>1. /\ ~ Gone /\ installed /\ "RTMIN" \notin blocked /\ queue["RTMIN"] # << >>
      /\ queue' = [queue EXCEPT !["RTMIN"] = Tail(@)]
      /\ frames' = Append(frames, [val |-> Head(queue["RTMIN"]), at |-> "check",
                                  tmp |-> 0, mask |-> blocked])
      /\ blocked' = blocked \cup {"RTMIN"}
      /\ pc' = IF pc = "paused" THEN "test" ELSE pc
      /\ UNCHANGED <<installed, prevMask, sigCnt, allDone, pendStd, posted, args, sent, status>>
  BY DEF DeliverHandled, HandlerMask, senderVars
<1> DEFINE q == queue["RTMIN"]
           f == [val |-> Head(q), at |-> "check", tmp |-> 0, mask |-> blocked]
<1>2. /\ q \in Seq(Int) /\ Len(q) \in Nat \ {0} /\ Head(q) = q[1] /\ q[1] \in Int
      /\ posted \in Seq(Senders \X Int) /\ Len(posted) \in Nat /\ Len(q) <= Len(posted)
  <2>1. q \in Seq(Int) /\ q # << >> /\ posted \in Seq(Senders \X Int)
    BY <1>1 DEF IInv, TypeOK
  <2>2. Len(q) \in Nat /\ Len(q) # 0 /\ Len(posted) \in Nat
    BY <2>1
  <2>3. Head(q) = q[1] /\ q[1] \in Int
    BY <2>1
  <2>4. QED
    BY <2>1, <2>2, <2>3 DEF IInv, QueueInv
<1>3. queue'["RTMIN"] = Tail(q) /\ queue' \in [RealTime -> Seq(Int)]
  <2>1. Tail(q) \in Seq(Int)
    BY <1>1, <1>2
  <2>2. QED
    BY <1>1, <2>1 DEF IInv, TypeOK
<1>4. /\ Len(Tail(q)) = Len(q) - 1
      /\ \A k \in 1 .. Len(q) - 1 : Tail(q)[k] = q[k + 1]
  BY <1>1, <1>2
<1>5. Delivered' = Delivered + 1 /\ Delivered \in Nat
  BY <1>1, <1>2, <1>3, <1>4 DEF Delivered
<1>6. frames = << >>
  BY <1>1 DEF IInv, FrameInv
<1>7. f \in Frame
  BY <1>2 DEF Frame, HandlerSteps, IInv, TypeOK
<1> HIDE DEF f
<1>8. frames' = << f >> /\ frames' # << >> /\ Len(frames') = 1 /\ frames' \in Seq(Frame) /\ Top' = f
  <2>1. frames' = << f >>
    BY <1>1, <1>6 DEF f
  <2>2. QED
    BY <1>7, <2>1 DEF Top
<1>9. TypeOK'
  BY <1>1, <1>3, <1>8 DEF IInv, TypeOK, MainSteps
<1>10. FrameInv' /\ MaskInv'
  BY <1>1, <1>6, <1>8 DEF IInv, FrameInv, MaskInv, f
<1>11. QueueInv'
  <2>1. Len(queue'["RTMIN"]) <= Len(posted')
    BY <1>1, <1>2, <1>3, <1>4
  <2>2. ASSUME NEW k \in 1 .. Len(queue'["RTMIN"])
        PROVE  queue'["RTMIN"][k] = posted'[Delivered' + k][2]
    <3>1. k \in 1 .. Len(q) - 1 /\ k + 1 \in 1 .. Len(q) /\ Delivered' + k = Delivered + (k + 1)
      BY <1>2, <1>3, <1>4, <1>5
    <3>2. q[k + 1] = posted[Delivered + (k + 1)][2]
      BY <3>1 DEF IInv, QueueInv
    <3>3. QED
      BY <1>1, <1>3, <1>4, <3>1, <3>2
  <2>3. QED
    BY <2>1, <2>2 DEF QueueInv
<1>12. CountInv'
  <2>1. GlobalsAt(Delivered)
    BY <1>6 DEF IInv, CountInv
  <2>2. Delivered' >= 1 /\ Delivered' - 1 = Delivered
    BY <1>5
  <2>3. q[1] = posted[Delivered + 1][2]
    BY <1>2 DEF IInv, QueueInv
  <2>4. Top'.val = posted'[Delivered'][2] /\ Top'.at = "check"
    BY <1>1, <1>2, <1>5, <1>8, <2>3 DEF f
  <2>5. GlobalsAt(Delivered - 1)'
    BY <1>1, <2>1, <2>2 DEF GlobalsAt, CountsTo, StopsTo
  <2>6. QED
    BY <1>8, <2>2, <2>4, <2>5 DEF CountInv
<1>13. QED
  BY <1>9, <1>10, <1>11, <1>12 DEF IInv

LEMMA DeliverFatalInv == IInv /\ DeliverFatal => IInv'
<1> SUFFICES ASSUME IInv, DeliverFatal PROVE IInv'
  OBVIOUS
<1>1. /\ pc' = "killed"
      /\ UNCHANGED <<installed, blocked, prevMask, frames, sigCnt, allDone,
                     pendStd, queue, posted, args, sent, status>>
  BY DEF DeliverFatal, kernelVars, senderVars
<1>2. TypeOK'
  BY <1>1 DEF IInv, TypeOK, MainSteps
<1>3. FrameInv' /\ MaskInv' /\ QueueInv'
  BY <1>1 DEF IInv, FrameInv, MaskInv, QueueInv, Delivered, Gone
<1>4. CountInv'
  BY <1>1 DEF IInv, CountInv, Delivered, GlobalsAt, CountsTo, StopsTo, Top
<1>5. QED
  BY <1>2, <1>3, <1>4 DEF IInv

\* A longer posted leaves what was delivered from it alone.
LEMMA PostedGrows ==
    ASSUME posted \in Seq(Senders \X Int), NEW e \in Senders \X Int, posted' = Append(posted, e)
    PROVE  /\ posted' \in Seq(Senders \X Int) /\ Len(posted') = Len(posted) + 1
           /\ posted'[Len(posted) + 1] = e
           /\ \A i \in 1 .. Len(posted) : posted'[i] = posted[i]
OBVIOUS

LEMMA NextPlace ==
    ASSUME NEW d \in Nat, NEW n \in Nat, NEW p \in Nat, d + n = p
    PROVE  d + (n + 1) = p + 1
OBVIOUS

LEMMA SendInv == ASSUME IInv, NEW s \in Senders, SendOk(s) PROVE IInv'
<1> DEFINE sig == args[s].sig
           val == args[s].data + sent[s]
           q == queue["RTMIN"]
<1>1. /\ ~ Gone
      /\ sent' = [sent EXCEPT ![s] = @ + 1]
      /\ UNCHANGED <<pc, installed, blocked, prevMask, frames, sigCnt, allDone, args, status>>
      /\ \/ sig \in Std /\ pendStd' = pendStd \cup {sig} /\ UNCHANGED <<queue, posted>>
         \/ /\ sig \in RealTime
            /\ queue' = [queue EXCEPT ![sig] = Append(@, val)]
            /\ posted' = IF sig = "RTMIN" THEN Append(posted, <<s, val>>) ELSE posted
            /\ UNCHANGED pendStd
  BY DEF SendOk, daemonVars
<1>2. /\ args[s] \in [sig : Signals, data : Int, num : Nat] /\ sent[s] \in Nat /\ val \in Int
      /\ posted \in Seq(Senders \X Int) /\ q \in Seq(Int) /\ Len(posted) \in Nat /\ Len(q) \in Nat
      /\ queue \in [RealTime -> Seq(Int)]
  <2>1. args[s] \in Jobs /\ sent[s] \in Nat /\ posted \in Seq(Senders \X Int)
        /\ queue \in [RealTime -> Seq(Int)]
    BY DEF IInv, TypeOK
  <2>2. args[s] \in [sig : Signals, data : Int, num : Nat]
    BY <2>1
  <2>3. q \in Seq(Int) /\ val \in Int
    BY <2>1, <2>2
  <2>4. QED
    BY <2>1, <2>2, <2>3
<1> HIDE DEF val
<1>3. FrameInv' /\ MaskInv'
  BY <1>1 DEF IInv, FrameInv, MaskInv, Gone, Top
<1>4. sent' \in [Senders -> Nat]
  BY <1>1 DEF IInv, TypeOK
<1>5. CASE sig # "RTMIN"
  <2>1. queue'["RTMIN"] = q /\ queue' \in [RealTime -> Seq(Int)] /\ posted' = posted
        /\ pendStd' \in SUBSET Std
    <3>1. CASE sig \in Std
      BY <1>1, <1>2, <3>1 DEF IInv, TypeOK
    <3>2. CASE sig \in RealTime
      <4>1. Append(queue[sig], val) \in Seq(Int)
        BY <1>2, <3>2
      <4>2. /\ queue' = [queue EXCEPT ![sig] = Append(@, val)] /\ posted' = posted
            /\ pendStd' = pendStd
        BY <1>1, <1>5, <3>2
      <4>3. queue' \in [RealTime -> Seq(Int)] /\ queue'["RTMIN"] = q
        BY <1>2, <1>5, <3>2, <4>1, <4>2
      <4>4. QED
        BY <4>2, <4>3 DEF IInv, TypeOK
    <3>3. QED
      BY <1>2, <3>1, <3>2
  <2>2. TypeOK'
    BY <1>1, <1>4, <2>1 DEF IInv, TypeOK
  <2>3. Delivered' = Delivered /\ QueueInv'
    BY <2>1 DEF IInv, QueueInv, Delivered
  <2>4. CountInv'
    BY <1>1, <2>1, <2>3 DEF IInv, CountInv, GlobalsAt, CountsTo, StopsTo, Top
  <2>5. QED
    BY <1>3, <2>2, <2>3, <2>4 DEF IInv
<1>6. CASE sig = "RTMIN"
  <2>1. /\ queue' = [queue EXCEPT !["RTMIN"] = Append(@, val)]
        /\ posted' = Append(posted, <<s, val>>) /\ pendStd' = pendStd
    BY <1>1, <1>6
  <2>2. queue'["RTMIN"] = Append(q, val) /\ queue' \in [RealTime -> Seq(Int)]
    <3>1. Append(q, val) \in Seq(Int)
      BY <1>2
    <3>2. QED
      BY <1>2, <2>1, <3>1
  <2>3. Len(Append(q, val)) = Len(q) + 1
    BY <1>2
  <2>4. /\ posted' \in Seq(Senders \X Int) /\ Len(posted') = Len(posted) + 1
        /\ posted'[Len(posted) + 1] = <<s, val>>
        /\ \A i \in 1 .. Len(posted) : posted'[i] = posted[i]
    BY <1>2, <2>1, PostedGrows
  <2>5. Delivered' = Delivered /\ Delivered \in Nat /\ Delivered <= Len(posted)
        /\ Delivered + Len(q) = Len(posted)
    BY <1>2, <2>2, <2>3, <2>4 DEF Delivered, IInv, QueueInv
  <2>6. TypeOK'
    BY <1>1, <1>4, <2>1, <2>2, <2>4 DEF IInv, TypeOK
  <2>7. QueueInv'
    <3>1. Len(queue'["RTMIN"]) <= Len(posted')
      BY <1>2, <2>2, <2>3, <2>4 DEF IInv, QueueInv
    <3>2. ASSUME NEW k \in 1 .. Len(queue'["RTMIN"])
          PROVE  queue'["RTMIN"][k] = posted'[Delivered' + k][2]
      <4>1. k \in 1 .. Len(q) + 1
        BY <2>2, <2>3
      <4>2. CASE k = Len(q) + 1
        <5>1. Append(q, val)[k] = val
          BY <1>2, <4>2
        <5>2. Delivered + k = Len(posted) + 1
          <6>1. Delivered \in Nat /\ Len(q) \in Nat /\ Len(posted) \in Nat
                /\ Delivered + Len(q) = Len(posted)
            BY <1>2, <2>5
          <6>2. Delivered + (Len(q) + 1) = Len(posted) + 1
            BY <6>1, NextPlace
          <6>3. QED
            BY <4>2, <6>2, Zenon
        <5>3. posted'[Delivered' + k] = <<s, val>>
          BY <2>4, <2>5, <5>2
        <5>4. QED
          BY <2>2, <5>1, <5>3
      <4>3. CASE k \in 1 .. Len(q)
        <5>1. Append(q, val)[k] = q[k]
          BY <1>2, <4>3
        <5>2. q[k] = posted[Delivered + k][2]
          BY <4>3 DEF IInv, QueueInv
        <5>3. Delivered + k \in 1 .. Len(posted)
          BY <1>2, <2>5, <4>3
        <5>4. posted'[Delivered' + k] = posted[Delivered + k]
          BY <2>4, <2>5, <5>3
        <5>5. QED
          BY <2>2, <5>1, <5>2, <5>4
      <4>4. QED
        BY <1>2, <4>1, <4>2, <4>3
    <3>3. QED
      BY <3>1, <3>2 DEF QueueInv
  <2>8. \A n \in Nat : n <= Delivered => CountsTo(n)' = CountsTo(n) /\ StopsTo(n)' = StopsTo(n)
    <3>1. \A n \in Nat : n <= Delivered => \A i \in 1 .. n : posted'[i] = posted[i]
      BY <1>2, <2>4, <2>5
    <3>2. QED
      BY <3>1 DEF CountsTo, StopsTo
  <2>9. CountInv'
    <3>1. frames = << >> => GlobalsAt(Delivered)'
      BY <1>1, <2>5, <2>8 DEF IInv, CountInv, GlobalsAt
    <3>2. CASE frames # << >>
      <4>1. Delivered >= 1 /\ Delivered \in 1 .. Len(posted) /\ Delivered - 1 \in Nat
            /\ Delivered - 1 <= Delivered
        BY <1>2, <2>5, <3>2 DEF IInv, CountInv
      <4>2. posted'[Delivered'] = posted[Delivered] /\ Top' = Top /\ sigCnt' = sigCnt
        BY <1>1, <2>4, <2>5, <4>1 DEF Top
      <4>3. (GlobalsAt(Delivered - 1) => GlobalsAt(Delivered - 1)') /\ (GlobalsAt(Delivered) => GlobalsAt(Delivered)')
        BY <1>1, <2>5, <2>8, <4>1 DEF GlobalsAt
      <4>4. QED
        BY <1>1, <2>5, <3>2, <4>1, <4>2, <4>3 DEF IInv, CountInv
    <3>3. QED
      BY <1>1, <3>1, <3>2 DEF CountInv
  <2>10. QED
    BY <1>3, <2>6, <2>7, <2>9 DEF IInv
<1>7. QED
  BY <1>5, <1>6

LEMMA SenderInv == ASSUME IInv, NEW s \in Senders, Sender(s) PROVE IInv'
<1>1. CASE SendOk(s)
  BY <1>1, SendInv
<1>2. CASE SendFails(s) \/ SenderEnds(s)
  <2>1. /\ \E x \in {"exit0", "exit2"} : status' = [status EXCEPT ![s] = x]
        /\ UNCHANGED <<pc, installed, blocked, prevMask, frames, sigCnt, allDone,
                       pendStd, queue, posted, args, sent>>
    BY <1>2 DEF SendFails, SenderEnds, daemonVars, kernelVars
  <2>2. TypeOK'
    BY <2>1 DEF IInv, TypeOK
  <2>3. FrameInv' /\ MaskInv' /\ QueueInv'
    BY <2>1 DEF IInv, FrameInv, MaskInv, QueueInv, Delivered, Gone, Top
  <2>4. CountInv'
    BY <2>1 DEF IInv, CountInv, Delivered, GlobalsAt, CountsTo, StopsTo, Top
  <2>5. QED
    BY <2>2, <2>3, <2>4 DEF IInv
<1>3. QED
  BY <1>1, <1>2 DEF Sender

-----------------------------------------------------------------------------

LEMMA StepInv == IInv /\ [Next]_vars => IInv'
<1> SUFFICES ASSUME IInv, [Next]_vars PROVE IInv'
  OBVIOUS
<1>1. CASE Next
  BY <1>1, MainInv, HandlerInv, DeliverHandledInv, DeliverFatalInv, SenderInv DEF Next, Daemon
<1>2. CASE UNCHANGED vars
  <2>1. UNCHANGED <<pc, installed, blocked, prevMask, frames, sigCnt, allDone,
                    pendStd, queue, posted, args, sent, status>>
    BY <1>2 DEF vars, daemonVars, kernelVars, senderVars
  <2>2. TypeOK' /\ FrameInv' /\ MaskInv' /\ QueueInv'
    BY <2>1 DEF IInv, TypeOK, FrameInv, MaskInv, QueueInv, Delivered, Gone, Top
  <2>3. CountInv'
    BY <2>1 DEF IInv, CountInv, Delivered, GlobalsAt, CountsTo, StopsTo, Top
  <2>4. QED
    BY <2>2, <2>3 DEF IInv
<1>3. QED
  BY <1>1, <1>2

LEMMA Invariance == Spec => []IInv
BY InitInv, StepInv, PTL DEF Spec

-----------------------------------------------------------------------------
(* The senders' batches *)

\* What a sender of SIGRTMIN has sent is posted, and no more than its batch.
SentInv ==
    \A s \in Senders :
        /\ sent[s] <= args[s].num
        /\ status[s] = "exit0" => sent[s] = args[s].num
        /\ args[s].sig = "RTMIN" => BatchPosted(s, sent[s])

LEMMA UpToNext ==
    ASSUME NEW p \in Nat, NEW i \in 1 .. p + 1
    PROVE  i = p + 1 \/ i \in 1 .. p
OBVIOUS

\* One more signal continues the batch of its sender.
LEMMA BatchGrows ==
    ASSUME IInv, NEW s \in Senders, NEW n \in Nat, NEW m \in Nat, m = n + 1, BatchPosted(s, n), args' = args,
           posted' = Append(posted, <<s, args[s].data + n>>)
    PROVE  BatchPosted(s, m)'
<1> DEFINE e == <<s, args[s].data + n>>
<1>1. n \in Nat /\ args[s].data \in Int /\ posted \in Seq(Senders \X Int)
  <2>1. args[s] \in [sig : Signals, data : Int, num : Nat]
    BY DEF IInv, TypeOK
  <2>2. QED
    BY <2>1 DEF IInv, TypeOK
<1>2. e \in Senders \X Int
  BY <1>1
<1>3. /\ Len(posted) \in Nat /\ DOMAIN posted = 1 .. Len(posted)
      /\ posted' \in Seq(Senders \X Int) /\ Len(posted') = Len(posted) + 1
      /\ posted'[Len(posted) + 1] = e
      /\ \A i \in 1 .. Len(posted) : posted'[i] = posted[i]
  BY <1>1, <1>2, PostedGrows
<1>4. DOMAIN posted' = 1 .. Len(posted) + 1
  BY <1>3
<1>5. PICK place \in [1 .. n -> DOMAIN posted] :
          /\ \A j \in 1 .. n : posted[place[j]] = <<s, args[s].data + j - 1>>
          /\ \A j, k \in 1 .. n : j < k => place[j] < place[k]
          /\ \A i \in DOMAIN posted : posted[i][1] = s => \E j \in 1 .. n : place[j] = i
  BY DEF BatchPosted
<1> DEFINE next == [j \in 1 .. m |-> IF j = m THEN Len(posted) + 1 ELSE place[j]]
<1> HIDE DEF e
<1>6. next[m] = Len(posted) + 1
  BY <1>1
<1>7. \A j \in 1 .. n : j \in 1 .. m /\ j # m /\ next[j] = place[j] /\ place[j] \in 1 .. Len(posted)
  BY <1>1, <1>3, <1>5
<1>8. \A j \in 1 .. m : j = m \/ j \in 1 .. n
  BY <1>1
<1>9. next \in [1 .. m -> DOMAIN posted']
  <2>1. \A j \in 1 .. m : next[j] \in 1 .. Len(posted) + 1
    BY <1>3, <1>6, <1>7, <1>8
  <2>2. QED
    BY <1>4, <2>1
<1> HIDE DEF next
<1>10. \A j \in 1 .. m : posted'[next[j]] = <<s, args'[s].data + j - 1>>
  <2>1. posted'[next[m]] = <<s, args'[s].data + m - 1>>
    <3>1. args'[s].data + m - 1 = args[s].data + n
      BY <1>1
    <3>2. QED
      BY <1>3, <1>6, <3>1 DEF e
  <2>2. \A j \in 1 .. n : posted'[next[j]] = <<s, args'[s].data + j - 1>>
    BY <1>3, <1>5, <1>7
  <2>3. QED
    BY <1>8, <2>1, <2>2
<1>11. \A j, k \in 1 .. m : j < k => next[j] < next[k]
  <2>1. SUFFICES ASSUME NEW j \in 1 .. m, NEW k \in 1 .. m, j < k
                 PROVE  next[j] < next[k]
    OBVIOUS
  <2>2. j \in 1 .. n
    BY <1>1, <2>1
  <2>3. CASE k = m
    BY <1>3, <1>6, <1>7, <2>2, <2>3
  <2>4. CASE k \in 1 .. n
    BY <1>5, <1>7, <2>1, <2>2, <2>4
  <2>5. QED
    BY <1>8, <2>3, <2>4
<1>12. ASSUME NEW i \in DOMAIN posted', posted'[i][1] = s
       PROVE  \E j \in 1 .. m : next[j] = i
  <2>1. CASE i = Len(posted) + 1
    <3>1. m \in 1 .. m
      BY <1>1
    <3>2. QED
      BY <1>6, <2>1, <3>1
  <2>2. CASE i \in 1 .. Len(posted)
    <3>1. PICK j \in 1 .. n : place[j] = i
      BY <1>3, <1>5, <1>12, <2>2
    <3>2. QED
      BY <1>7, <3>1
  <2>3. i \in 1 .. Len(posted) + 1
    BY <1>4, <1>12
  <2>4. i = Len(posted) + 1 \/ i \in 1 .. Len(posted)
    BY <1>3, <2>3, UpToNext
  <2>5. QED
    BY <2>1, <2>2, <2>4
<1>13. QED
  BY <1>9, <1>10, <1>11, <1>12 DEF BatchPosted

\* A signal of another sender leaves the batch as it is.
LEMMA BatchStays ==
    ASSUME IInv, NEW r \in Senders, NEW n \in Nat, BatchPosted(r, n), args' = args,
           NEW e \in Senders \X Int, e[1] # r, posted' = Append(posted, e)
    PROVE  BatchPosted(r, n)'
<1>1. posted \in Seq(Senders \X Int)
  BY DEF IInv, TypeOK
<1>2. /\ Len(posted) \in Nat /\ DOMAIN posted = 1 .. Len(posted)
      /\ posted' \in Seq(Senders \X Int) /\ Len(posted') = Len(posted) + 1
      /\ posted'[Len(posted) + 1] = e
      /\ \A i \in 1 .. Len(posted) : posted'[i] = posted[i]
  BY <1>1, PostedGrows
<1>3. DOMAIN posted' = 1 .. Len(posted) + 1
  BY <1>2
<1>4. PICK place \in [1 .. n -> DOMAIN posted] :
          /\ \A j \in 1 .. n : posted[place[j]] = <<r, args[r].data + j - 1>>
          /\ \A j, k \in 1 .. n : j < k => place[j] < place[k]
          /\ \A i \in DOMAIN posted : posted[i][1] = r => \E j \in 1 .. n : place[j] = i
  BY DEF BatchPosted
<1>5. place \in [1 .. n -> DOMAIN posted']
  BY <1>2, <1>3, <1>4
<1>6. \A j \in 1 .. n : place[j] \in 1 .. Len(posted)
  BY <1>2, <1>4
<1>7. \A j \in 1 .. n : posted'[place[j]] = <<r, args'[r].data + j - 1>>
  BY <1>2, <1>4, <1>6
<1>8. \A i \in DOMAIN posted' : posted'[i][1] = r => \E j \in 1 .. n : place[j] = i
  <2>1. \A i \in DOMAIN posted' : i = Len(posted) + 1 \/ i \in DOMAIN posted
    BY <1>2, <1>3
  <2>2. QED
    BY <1>2, <1>4, <2>1
<1>9. QED
  BY <1>4, <1>5, <1>7, <1>8 DEF BatchPosted

LEMMA SentInit == Init => SentInv
<1>1. SUFFICES ASSUME Init, NEW s \in Senders PROVE BatchPosted(s, 0) /\ 0 <= args[s].num
  BY DEF Init, SentInv
<1>2. args[s] \in [sig : Signals, data : Int, num : Nat]
  BY <1>1 DEF Init
<1>3. posted = << >> /\ DOMAIN posted = {} /\ 1 .. 0 = {}
  BY <1>1 DEF Init
<1>4. PICK place : place = [j \in {} |-> 0]
  OBVIOUS
<1>5. place \in [1 .. 0 -> DOMAIN posted]
  BY <1>3, <1>4
<1>6. /\ \A j \in 1 .. 0 : posted[place[j]] = <<s, args[s].data + j - 1>>
      /\ \A j, k \in 1 .. 0 : j < k => place[j] < place[k]
      /\ \A i \in DOMAIN posted : posted[i][1] = s => \E j \in 1 .. 0 : place[j] = i
  BY <1>3
<1>7. QED
  <2>1. BatchPosted(s, 0)
    BY <1>5, <1>6 DEF BatchPosted
  <2>2. QED
    BY <1>2, <2>1

LEMMA SentStep == IInv /\ SentInv /\ [Next]_vars => SentInv'
<1> SUFFICES ASSUME IInv, SentInv, [Next]_vars PROVE SentInv'
  OBVIOUS
<1>t. /\ sent \in [Senders -> Nat] /\ posted \in Seq(Senders \X Int)
      /\ \A s \in Senders : args[s] \in [sig : Signals, data : Int, num : Nat]
      /\ status \in [Senders -> {"running", "exit0", "exit2"}]
  BY DEF IInv, TypeOK
<1>0. SentInv' = \A r \in Senders :
          /\ sent'[r] <= args'[r].num
          /\ status'[r] = "exit0" => sent'[r] = args'[r].num
          /\ args'[r].sig = "RTMIN" => BatchPosted(r, sent[r])'
  BY DEF SentInv
<1>1. ASSUME NEW s \in Senders, SendOk(s) PROVE SentInv'
  <2>1. /\ args' = args /\ status' = status /\ sent' = [sent EXCEPT ![s] = sent[s] + 1]
        /\ status[s] = "running" /\ sent[s] < args[s].num
        /\ args[s].sig = "RTMIN" => posted' = Append(posted, <<s, args[s].data + sent[s]>>)
        /\ args[s].sig # "RTMIN" => posted' = posted
    BY <1>1 DEF SendOk, daemonVars
  <2>2. <<s, args[s].data + sent[s]>> \in Senders \X Int
    BY <1>t
  <2>3. ASSUME NEW r \in Senders
        PROVE  /\ sent'[r] <= args'[r].num
               /\ status'[r] = "exit0" => sent'[r] = args'[r].num
    BY <1>t, <2>1 DEF SentInv
  <2>4. ASSUME NEW r \in Senders, args'[r].sig = "RTMIN" PROVE BatchPosted(r, sent[r])'
    <3>1. PICK n \in Nat : n = sent[r]
      BY <1>t
    <3>2. BatchPosted(r, n)
      BY <2>1, <2>4, <3>1 DEF SentInv
    <3>3. CASE r = s
      <4>1. posted' = Append(posted, <<r, args[r].data + n>>) /\ sent'[r] = n + 1
        BY <1>t, <2>1, <2>4, <3>1, <3>3
      <4>2. PICK m \in Nat : m = n + 1
        OBVIOUS
      <4>3. BatchPosted(r, m)'
        BY <2>1, <3>2, <4>1, <4>2, BatchGrows
      <4>4. sent'[r] = m
        BY <4>1, <4>2
      <4>5. QED
        BY <4>3, <4>4 DEF BatchPosted
    <3>4. CASE r # s
      <4>1. sent'[r] = n
        BY <1>t, <2>1, <3>1, <3>4
      <4>2. BatchPosted(r, n)'
        <5>1. CASE args[s].sig = "RTMIN"
          <6>1. <<s, args[s].data + sent[s]>>[1] # r
            BY <3>4
          <6>2. QED
            BY <2>1, <2>2, <3>2, <5>1, <6>1, BatchStays
        <5>2. CASE args[s].sig # "RTMIN"
          BY <2>1, <3>2, <5>2 DEF BatchPosted
        <5>3. QED
          BY <5>1, <5>2
      <4>3. QED
        BY <4>1, <4>2 DEF BatchPosted
    <3>5. QED
      BY <3>3, <3>4
  <2>5. QED
    BY <1>0, <2>3, <2>4
<1>2. ASSUME posted' = posted, args' = args, sent' = sent,
             \A r \in Senders : status'[r] = "exit0" => sent[r] = args[r].num
      PROVE  SentInv'
  <2>1. ASSUME NEW r \in Senders, args'[r].sig = "RTMIN" PROVE BatchPosted(r, sent[r])'
    <3>1. BatchPosted(r, sent[r])
      BY <1>2, <2>1 DEF SentInv
    <3>2. QED
      BY <1>2, <3>1 DEF BatchPosted
  <2>2. ASSUME NEW r \in Senders
        PROVE  sent'[r] <= args'[r].num /\ (status'[r] = "exit0" => sent'[r] = args'[r].num)
    BY <1>2 DEF SentInv
  <2>3. QED
    BY <1>0, <2>1, <2>2
<1>3. ASSUME NEW s \in Senders, SendFails(s) \/ SenderEnds(s) PROVE SentInv'
  <2>1. posted' = posted /\ args' = args /\ sent' = sent
    BY <1>3 DEF SendFails, SenderEnds, kernelVars
  <2>2. sent[s] >= args[s].num => sent[s] = args[s].num
    BY <1>t DEF SentInv
  <2>3. ASSUME NEW r \in Senders, status'[r] = "exit0" PROVE sent[r] = args[r].num
    <3>1. CASE r = s
      BY <1>t, <1>3, <2>2, <2>3, <3>1 DEF SendFails, SenderEnds
    <3>2. CASE r # s
      <4>1. status'[r] = status[r]
        BY <1>t, <1>3, <3>2 DEF SendFails, SenderEnds
      <4>2. QED
        BY <2>3, <4>1 DEF SentInv
    <3>3. QED
      BY <3>1, <3>2
  <2>4. QED
    BY <1>2, <2>1, <2>3
<1>4. CASE Daemon \/ UNCHANGED vars
  <2>1. posted' = posted /\ args' = args /\ sent' = sent /\ status' = status
    BY <1>4 DEF Daemon, Main, MainStep, Install, BlockRtmin1, HoldSignals, SleepOver, RestoreMask,
         TestAllDone, Pause, Handler, HandlerStop, HandlerCount, HandlerLoad, HandlerStore,
         HandlerSleep, Goto, Return, DeliverHandled, DeliverFatal, vars, kernelVars, senderVars
  <2>2. \A r \in Senders : status'[r] = "exit0" => sent[r] = args[r].num
    BY <2>1 DEF SentInv
  <2>3. QED
    BY <1>2, <2>1, <2>2
<1>5. QED
  BY <1>1, <1>3, <1>4 DEF Next, Sender

\* A sender that exits with 0 got its whole batch into the queue, in order and without
\* gaps, for any number of senders and any batches (signal.cpp:34-40).
THEOREM BatchesComplete == Spec => []ExitZeroMeansAllSent
<1>1. SentInv => ExitZeroMeansAllSent
  <2>1. SUFFICES ASSUME SentInv, NEW s \in Senders, status[s] = "exit0", args[s].sig = "RTMIN"
                 PROVE  BatchPosted(s, args[s].num)
    BY DEF ExitZeroMeansAllSent
  <2>2. BatchPosted(s, sent[s]) /\ sent[s] = args[s].num
    BY <2>1 DEF SentInv
  <2>3. QED
    BY <2>2
<1>2. Spec => []SentInv
  BY SentInit, SentStep, Invariance, PTL DEF Spec
<1>3. QED
  BY <1>1, <1>2, PTL

\* Type correctness of the daemon, its senders and the kernel's queues.
THEOREM TypeCorrect == Spec => []TypeOK
<1>1. IInv => TypeOK
  BY DEF IInv
<1>2. QED
  BY <1>1, Invariance, PTL

\* siginfoHandler is never re-entered.
THEOREM NoReentry == Spec => []OneActivation
<1>1. IInv => OneActivation
  BY DEF IInv, FrameInv, OneActivation
<1>2. QED
  BY <1>1, Invariance, PTL

\* sigCnt and allDone are exact whenever main() can look at them, for any senders.
THEOREM CounterExact == Spec => []CountExact
<1>1. IInv => CountExact
  BY DEF IInv, CountInv, GlobalsAt, CountsTo, StopsTo, CountExact, DeliveredCounts, DeliveredStops
<1>2. QED
  BY <1>1, Invariance, PTL

\* A daemon that is set up is killed by SIGINT or SIGTERM only.
THEOREM OnlyUserKills == Spec => DiesOnlyByUser
<1>1. IInv /\ [Next]_vars =>
          [pc' = "killed" /\ pc # "killed" => pc \in {"install", "block"} \/ pendStd # {}]_vars
  <2>1. SUFFICES ASSUME IInv, Next, pc' = "killed", pc # "killed", pc \notin {"install", "block"}
                 PROVE  pendStd # {}
    BY DEF vars
  <2>2. installed /\ "RTMIN1" \in blocked
    BY <2>1 DEF IInv, MaskInv
  <2>3. CASE DeliverFatal
    BY <2>2, <2>3 DEF DeliverFatal
  <2>4. CASE ~ DeliverFatal
    <3>1. pc' # "killed"
      BY <2>1, <2>4 DEF Next, Daemon, Main, MainStep, Install, BlockRtmin1, HoldSignals, SleepOver,
           RestoreMask, TestAllDone, Pause, Handler, HandlerStop, HandlerCount, HandlerLoad,
           HandlerStore, HandlerSleep, Goto, Return, DeliverHandled, Sender, SendOk, SendFails,
           SenderEnds, daemonVars
    <3>2. QED
      BY <2>1, <3>1
  <2>5. QED
    BY <2>3, <2>4
<1>2. QED
  BY <1>1, Invariance, PTL DEF Spec, DiesOnlyByUser

\* The hold phase of main() is not interrupted by a handler.
THEOREM HoldPhaseQuiet == Spec => HeldSignalsWait
<1>1. IInv /\ [Next]_vars => [(pc \in {"sleep", "restore"}) => frames' = frames]_vars
  <2>1. SUFFICES ASSUME IInv, Next, pc \in {"sleep", "restore"} PROVE frames' = frames
    BY DEF vars
  <2>2. frames = << >> /\ "RTMIN" \in blocked
    BY <2>1 DEF IInv, MaskInv
  <2>3. QED
    BY <2>1, <2>2 DEF Next, Daemon, Main, MainStep, Install, BlockRtmin1, HoldSignals, SleepOver,
           RestoreMask, TestAllDone, Pause, Handler, HandlerStop, HandlerCount, HandlerLoad,
           HandlerStore, HandlerSleep, Goto, Return, DeliverHandled, DeliverFatal, Sender, SendOk,
           SendFails, SenderEnds, daemonVars
<1>2. QED
  BY <1>1, Invariance, PTL DEF Spec, HeldSignalsWait
=============================================================================
