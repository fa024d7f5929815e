--------------------------- MODULE SshFork_proofs ---------------------------
(***************************************************************************)
(* do_cmd wires the two processes correctly whatever descriptors were open *)
(* before, and its handlers keep them together, however many signals       *)
(* arrive and however the handlers nest: the parent never stops while the  *)
(* child runs, and once do_cmd has returned no signal ends it before the   *)
(* child is dead and collected.                                            *)
(* The argument for the wiring: the reserved pipe takes 0 and 1 if they    *)
(* are free, so the ends of the real pipes are all above 1 and dup2()      *)
(* never hits one of them.  For the handlers: one gets past its waitpid()  *)
(* only when the child is dead, or stopped and not yet reported to another *)
(* one, and a stopped child runs again only after the parent has stopped.  *)
(***************************************************************************)
EXTENDS SshFork, SequenceTheorems, TLAPS

-----------------------------------------------------------------------------
(* The wiring *)

\* The descriptors of t on which the file e is open are those in S.
OpenOn(t, e, S) == \A f \in Fd : t[f] = e <=> f \in S

\* { fd[n] } when c holds, no descriptor otherwise.
When(c, n) == IF c THEN {fd[n]} ELSE {}

EarlySteps  == {"pipeReserved", "pipePin", "pipePout", "closeRes0", "closeRes1", "setStops", "fork"}
ForkedSteps == {"assign", "closePin0", "closePout1", "setKills", "returned"}
PinMade     == ParentSteps \ {"pipeReserved", "pipePin", "fatal"}
PoutMade    == PinMade \ {"pipePout"}

WireTypeOK ==
    /\ pc \in ParentSteps /\ cpc \in ChildSteps
    /\ ptab \in [Fd -> Files] /\ ctab \in [Fd -> Files]
    /\ fd \in [FdNames -> Fd \cup {-1}]

\* Where each end of each pipe is open in the parent.
ParentEnds ==
    pc # "fatal" =>
        /\ OpenOn(ptab, "resR", When(pc \in {"pipePin", "pipePout", "closeRes0"}, "r0"))
        /\ OpenOn(ptab, "resW", When(pc \in {"pipePin", "pipePout", "closeRes0", "closeRes1"}, "r1"))
        /\ OpenOn(ptab, "pinR", When(pc \in PinMade \ {"closePout1", "setKills", "returned"}, "in0"))
        /\ OpenOn(ptab, "pinW", When(pc \in PinMade, "in1"))
        /\ OpenOn(ptab, "poutR", When(pc \in PoutMade, "out0"))
        /\ OpenOn(ptab, "poutW", When(pc \in PoutMade \ {"setKills", "returned"}, "out1"))

\* 0 and 1 are taken while the real pipes are made, so these are above 1.
PipesAboveStdio ==
    /\ pc \in {"pipePin", "pipePout"} => \A f \in Fd : f < 2 => ptab[f] # Free
    /\ pc \in {"pipePin", "pipePout", "closeRes0", "closeRes1"} => fd["r0"] \in Fd /\ fd["r1"] \in Fd
    /\ pc \in PinMade =>
          fd["in0"] \in Fd /\ fd["in1"] \in Fd /\ fd["in0"] > 1 /\ fd["in1"] > 1
    /\ pc \in PoutMade =>
          fd["out0"] \in Fd /\ fd["out1"] \in Fd /\ fd["out0"] > 1 /\ fd["out1"] > 1

\* Where each end is open in the child.
ChildPipeEnds ==
    cpc # "none" =>
        /\ OpenOn(ctab, "resR", {}) /\ OpenOn(ctab, "resW", {})
        /\ OpenOn(ctab, "pinW", When(cpc = "closePin1", "in1"))
        /\ OpenOn(ctab, "poutR", When(cpc \in {"closePin1", "closePout0"}, "out0"))
        /\ OpenOn(ctab, "pinR",
                  When(cpc \notin {"closePout1", "exec", "ssh"}, "in0")
                      \cup (IF cpc \in {"closePin1", "closePout0", "dupIn"} THEN {} ELSE {0}))
        /\ OpenOn(ctab, "poutW",
                  When(cpc \notin {"exec", "ssh"}, "out1")
                      \cup (IF cpc \in {"closePin1", "closePout0", "dupIn", "dupOut"} THEN {} ELSE {1}))

WireInv ==
    /\ WireTypeOK
    /\ cpc # "none" <=> pc \in ForkedSteps
    /\ ParentEnds
    /\ PipesAboveStdio
    /\ ChildPipeEnds

-----------------------------------------------------------------------------

USE MaxFdAssumption, InheritedAssumption DEF Fd, Files, PipeEnds, Free, FdNames, ParentSteps, ChildSteps
USE DEF ForkedSteps, PinMade, PoutMade, When, OpenOn

LEMMA WireInit == Init => WireInv
BY DEF Init, WireInv, WireTypeOK, ParentEnds, PipesAboveStdio, ChildPipeEnds

LEMMA WirePipeReserved == WireInv /\ PipeReserved => WireInv'
<1> SUFFICES ASSUME WireInv, PipeReserved PROVE WireInv'
  OBVIOUS
<1>1. PICK r, w \in Fd :
          /\ IsPipePair(ptab, r, w)
          /\ ptab' = [ptab EXCEPT ![r] = "resR", ![w] = "resW"]
          /\ fd' = [fd EXCEPT !["r0"] = r, !["r1"] = w]
  BY DEF PipeReserved, Pipe
<1>2. pc = "pipeReserved" /\ pc' = "pipePin" /\ cpc' = cpc /\ ctab' = ctab
  BY DEF PipeReserved, Pipe, ParentRuns
<1>3. r < w /\ ptab[r] = Free /\ ptab[w] = Free /\ \A g \in Fd : g < w /\ g # r => ptab[g] # Free
  BY <1>1 DEF IsPipePair
<1>4. WireTypeOK' /\ cpc = "none"
  BY <1>1, <1>2 DEF WireInv, WireTypeOK
<1>5. ParentEnds'
  BY <1>1, <1>2, <1>3 DEF WireInv, WireTypeOK, ParentEnds
<1>6. PipesAboveStdio'
  <2>1. \A f \in Fd : f < 2 => ptab'[f] # Free
    BY <1>1, <1>3 DEF WireInv, WireTypeOK
  <2>2. fd'["r0"] = r /\ fd'["r1"] = w
    BY <1>1 DEF WireInv, WireTypeOK
  <2>3. QED
    BY <1>2, <2>1, <2>2 DEF PipesAboveStdio
<1>7. QED
  BY <1>2, <1>4, <1>5, <1>6 DEF WireInv, ChildPipeEnds

LEMMA WirePipePin == WireInv /\ PipePin => WireInv'
<1> SUFFICES ASSUME WireInv, PipePin PROVE WireInv'
  OBVIOUS
<1>1. PICK r, w \in Fd :
          /\ IsPipePair(ptab, r, w)
          /\ ptab' = [ptab EXCEPT ![r] = "pinR", ![w] = "pinW"]
          /\ fd' = [fd EXCEPT !["in0"] = r, !["in1"] = w]
  BY DEF PipePin, Pipe
<1>2. pc = "pipePin" /\ pc' = "pipePout" /\ cpc' = cpc /\ ctab' = ctab
  BY DEF PipePin, Pipe, ParentRuns
<1>3. r < w /\ ptab[r] = Free /\ ptab[w] = Free
  BY <1>1 DEF IsPipePair
<1>4. r > 1 /\ w > 1
  BY <1>2, <1>3 DEF WireInv, PipesAboveStdio
<1>5. WireTypeOK' /\ cpc = "none"
  BY <1>1, <1>2 DEF WireInv, WireTypeOK
<1>6. fd'["in0"] = r /\ fd'["in1"] = w /\ \A n \in FdNames \ {"in0", "in1"} : fd'[n] = fd[n]
  BY <1>1 DEF WireInv, WireTypeOK
<1>7. /\ ptab'[r] = "pinR" /\ ptab'[w] = "pinW"
      /\ \A f \in Fd \ {r, w} : ptab'[f] = ptab[f]
  BY <1>1, <1>3 DEF WireInv, WireTypeOK
<1>8. ParentEnds'
  BY <1>2, <1>3, <1>6, <1>7 DEF WireInv, ParentEnds
<1>9. PipesAboveStdio'
  BY <1>2, <1>4, <1>6, <1>7 DEF WireInv, PipesAboveStdio
<1>10. QED
  BY <1>2, <1>5, <1>8, <1>9 DEF WireInv, ChildPipeEnds

LEMMA WirePipePout == WireInv /\ PipePout => WireInv'
<1> SUFFICES ASSUME WireInv, PipePout PROVE WireInv'
  OBVIOUS
<1>1. PICK r, w \in Fd :
          /\ IsPipePair(ptab, r, w)
          /\ ptab' = [ptab EXCEPT ![r] = "poutR", ![w] = "poutW"]
          /\ fd' = [fd EXCEPT !["out0"] = r, !["out1"] = w]
  BY DEF PipePout, Pipe
<1>2. pc = "pipePout" /\ pc' = "closeRes0" /\ cpc' = cpc /\ ctab' = ctab
  BY DEF PipePout, Pipe, ParentRuns
<1>3. r < w /\ ptab[r] = Free /\ ptab[w] = Free
  BY <1>1 DEF IsPipePair
<1>4. r > 1 /\ w > 1
  BY <1>2, <1>3 DEF WireInv, PipesAboveStdio
<1>5. WireTypeOK' /\ cpc = "none"
  BY <1>1, <1>2 DEF WireInv, WireTypeOK
<1>6. fd'["out0"] = r /\ fd'["out1"] = w /\ \A n \in FdNames \ {"out0", "out1"} : fd'[n] = fd[n]
  BY <1>1 DEF WireInv, WireTypeOK
<1>7. /\ ptab'[r] = "poutR" /\ ptab'[w] = "poutW"
      /\ \A f \in Fd \ {r, w} : ptab'[f] = ptab[f]
  BY <1>1, <1>3 DEF WireInv, WireTypeOK
<1>8. ParentEnds'
  BY <1>2, <1>3, <1>6, <1>7 DEF WireInv, ParentEnds
<1>9. PipesAboveStdio'
  BY <1>2, <1>4, <1>6, <1>7 DEF WireInv, PipesAboveStdio
<1>10. QED
  BY <1>2, <1>5, <1>8, <1>9 DEF WireInv, ChildPipeEnds

\* The parent closes a descriptor of a pipe: the four calls of do_cmd.
LEMMA WireParentClose ==
    WireInv /\ (FreeReserved \/ CloseFarEnds) => WireInv'
<1> SUFFICES ASSUME WireInv, FreeReserved \/ CloseFarEnds PROVE WireInv'
  OBVIOUS
<1> USE DEF ParentClose, ParentRuns, Close
<1>1. CASE ParentClose("closeRes0", "closeRes1", "r0")
  <2>1. /\ pc = "closeRes0" /\ pc' = "closeRes1" /\ UNCHANGED <<cpc, ctab, fd>>
        /\ ptab' = [ptab EXCEPT ![fd["r0"]] = Free]
    BY <1>1
  <2>2. fd["r0"] \in Fd
    BY <2>1 DEF WireInv, PipesAboveStdio
  <2>3. ptab' \in [Fd -> Files] /\ ptab'[fd["r0"]] = Free
        /\ \A f \in Fd \ {fd["r0"]} : ptab'[f] = ptab[f]
    BY <2>1, <2>2 DEF WireInv, WireTypeOK
  <2>4. ParentEnds'
    BY <2>1, <2>2, <2>3 DEF WireInv, ParentEnds
  <2>5. WireTypeOK' /\ PipesAboveStdio' /\ ChildPipeEnds' /\ (cpc' # "none" <=> pc' \in ForkedSteps)
    BY <2>1, <2>3 DEF WireInv, WireTypeOK, PipesAboveStdio, ChildPipeEnds
  <2>6. QED
    BY <2>4, <2>5 DEF WireInv
<1>2. CASE ParentClose("closeRes1", "setStops", "r1")
  <2>1. /\ pc = "closeRes1" /\ pc' = "setStops" /\ UNCHANGED <<cpc, ctab, fd>>
        /\ ptab' = [ptab EXCEPT ![fd["r1"]] = Free]
    BY <1>2
  <2>2. fd["r1"] \in Fd
    BY <2>1 DEF WireInv, PipesAboveStdio
  <2>3. ptab' \in [Fd -> Files] /\ ptab'[fd["r1"]] = Free
        /\ \A f \in Fd \ {fd["r1"]} : ptab'[f] = ptab[f]
    BY <2>1, <2>2 DEF WireInv, WireTypeOK
  <2>4. ParentEnds'
    BY <2>1, <2>2, <2>3 DEF WireInv, ParentEnds
  <2>5. WireTypeOK' /\ PipesAboveStdio' /\ ChildPipeEnds' /\ (cpc' # "none" <=> pc' \in ForkedSteps)
    BY <2>1, <2>3 DEF WireInv, WireTypeOK, PipesAboveStdio, ChildPipeEnds
  <2>6. QED
    BY <2>4, <2>5 DEF WireInv
<1>3. CASE ParentClose("closePin0", "closePout1", "in0")
  <2>1. /\ pc = "closePin0" /\ pc' = "closePout1" /\ UNCHANGED <<cpc, ctab, fd>>
        /\ ptab' = [ptab EXCEPT ![fd["in0"]] = Free]
    BY <1>3
  <2>2. fd["in0"] \in Fd
    BY <2>1 DEF WireInv, PipesAboveStdio
  <2>3. ptab' \in [Fd -> Files] /\ ptab'[fd["in0"]] = Free
        /\ \A f \in Fd \ {fd["in0"]} : ptab'[f] = ptab[f]
    BY <2>1, <2>2 DEF WireInv, WireTypeOK
  <2>4. ParentEnds'
    BY <2>1, <2>2, <2>3 DEF WireInv, ParentEnds
  <2>5. WireTypeOK' /\ PipesAboveStdio' /\ ChildPipeEnds' /\ (cpc' # "none" <=> pc' \in ForkedSteps)
    BY <2>1, <2>3 DEF WireInv, WireTypeOK, PipesAboveStdio, ChildPipeEnds
  <2>6. QED
    BY <2>4, <2>5 DEF WireInv
<1>4. CASE ParentClose("closePout1", "setKills", "out1")
  <2>1. /\ pc = "closePout1" /\ pc' = "setKills" /\ UNCHANGED <<cpc, ctab, fd>>
        /\ ptab' = [ptab EXCEPT ![fd["out1"]] = Free]
    BY <1>4
  <2>2. fd["out1"] \in Fd
    BY <2>1 DEF WireInv, PipesAboveStdio
  <2>3. ptab' \in [Fd -> Files] /\ ptab'[fd["out1"]] = Free
        /\ \A f \in Fd \ {fd["out1"]} : ptab'[f] = ptab[f]
    BY <2>1, <2>2 DEF WireInv, WireTypeOK
  <2>4. ParentEnds'
    BY <2>1, <2>2, <2>3 DEF WireInv, ParentEnds
  <2>5. WireTypeOK' /\ PipesAboveStdio' /\ ChildPipeEnds' /\ (cpc' # "none" <=> pc' \in ForkedSteps)
    BY <2>1, <2>3 DEF WireInv, WireTypeOK, PipesAboveStdio, ChildPipeEnds
  <2>6. QED
    BY <2>4, <2>5 DEF WireInv
<1>5. QED
  BY <1>1, <1>2, <1>3, <1>4 DEF FreeReserved, CloseFarEnds

\* The child starts with the parent's table, in which nothing of the reserved pipe is left.
LEMMA WireFork == WireInv /\ Fork => WireInv'
<1> SUFFICES ASSUME WireInv, Fork PROVE WireInv'
  OBVIOUS
<1>1. pc = "fork" /\ pc' = "assign" /\ cpc' = "closePin1" /\ ctab' = ptab /\ UNCHANGED <<ptab, fd>>
  BY DEF Fork, ParentRuns
<1>2. WireTypeOK' /\ ParentEnds' /\ PipesAboveStdio'
  BY <1>1 DEF WireInv, WireTypeOK, ParentEnds, PipesAboveStdio
<1>3. ChildPipeEnds'
  BY <1>1 DEF WireInv, ParentEnds, ChildPipeEnds
<1>4. QED
  BY <1>1, <1>2, <1>3 DEF WireInv

\* A step of the child that leaves its table with the ends where the invariant wants them.
LEMMA WireChildStep ==
    ASSUME WireInv, NEW from \in ChildSteps \ {"none"}, NEW to \in ChildSteps \ {"none"},
           NEW t \in [Fd -> Files], ChildStep(from, to, t)
    PROVE  /\ WireTypeOK' /\ ParentEnds' /\ PipesAboveStdio' /\ (cpc' # "none" <=> pc' \in ForkedSteps)
           /\ cpc = from /\ cpc' = to /\ ctab' = t /\ fd' = fd
           /\ fd["in0"] \in Fd /\ fd["in1"] \in Fd /\ fd["out0"] \in Fd /\ fd["out1"] \in Fd
           /\ fd["in0"] > 1 /\ fd["in1"] > 1 /\ fd["out0"] > 1 /\ fd["out1"] > 1
           /\ 0 \in Fd /\ 1 \in Fd /\ ctab \in [Fd -> Files]
<1>1. cpc = from /\ cpc' = to /\ ctab' = t /\ UNCHANGED <<pc, ptab, fd>>
  BY DEF ChildStep
<1>2. WireTypeOK' /\ ParentEnds' /\ PipesAboveStdio' /\ (cpc' # "none" <=> pc' \in ForkedSteps)
  BY <1>1 DEF WireInv, WireTypeOK, ParentEnds, PipesAboveStdio
<1>3. /\ fd["in0"] \in Fd /\ fd["in1"] \in Fd /\ fd["out0"] \in Fd /\ fd["out1"] \in Fd
      /\ fd["in0"] > 1 /\ fd["in1"] > 1 /\ fd["out0"] > 1 /\ fd["out1"] > 1
  BY <1>1 DEF WireInv, PipesAboveStdio
<1>4. 0 \in Fd /\ 1 \in Fd /\ ctab \in [Fd -> Files]
  BY <1>3 DEF WireInv, WireTypeOK
<1>5. QED
  BY <1>1, <1>2, <1>3, <1>4

LEMMA WireChildWires == WireInv /\ ChildWires => WireInv'
<1> SUFFICES ASSUME WireInv, ChildWires PROVE WireInv'
  OBVIOUS
<1>0. cpc # "none" => /\ fd["in0"] \in Fd /\ fd["in1"] \in Fd /\ fd["out0"] \in Fd /\ fd["out1"] \in Fd
                      /\ 0 \in Fd /\ 1 \in Fd /\ ctab \in [Fd -> Files]
  BY DEF WireInv, WireTypeOK, PipesAboveStdio
<1>1. CASE ChildStep("closePin1", "closePout0", Close(ctab, fd["in1"]))
  <2>1. cpc = "closePin1" /\ Close(ctab, fd["in1"]) = [ctab EXCEPT ![fd["in1"]] = Free]
    BY <1>1 DEF ChildStep, Close, Dup2
  <2>2. Close(ctab, fd["in1"]) \in [Fd -> Files]
    BY <1>0, <2>1
  <2>3. /\ WireTypeOK' /\ ParentEnds' /\ PipesAboveStdio' /\ (cpc' # "none" <=> pc' \in ForkedSteps)
        /\ cpc' = "closePout0" /\ ctab' = Close(ctab, fd["in1"]) /\ fd' = fd
        /\ fd["in0"] > 1 /\ fd["in1"] > 1 /\ fd["out0"] > 1 /\ fd["out1"] > 1
    BY <1>1, <2>2, WireChildStep
  <2>4. ChildPipeEnds'
    BY <1>0, <2>1, <2>3 DEF WireInv, ChildPipeEnds
  <2>5. QED
    BY <2>3, <2>4 DEF WireInv
<1>2. CASE ChildStep("closePout0", "dupIn", Close(ctab, fd["out0"]))
  <2>1. cpc = "closePout0" /\ Close(ctab, fd["out0"]) = [ctab EXCEPT ![fd["out0"]] = Free]
    BY <1>2 DEF ChildStep, Close, Dup2
  <2>2. Close(ctab, fd["out0"]) \in [Fd -> Files]
    BY <1>0, <2>1
  <2>3. /\ WireTypeOK' /\ ParentEnds' /\ PipesAboveStdio' /\ (cpc' # "none" <=> pc' \in ForkedSteps)
        /\ cpc' = "dupIn" /\ ctab' = Close(ctab, fd["out0"]) /\ fd' = fd
        /\ fd["in0"] > 1 /\ fd["in1"] > 1 /\ fd["out0"] > 1 /\ fd["out1"] > 1
    BY <1>2, <2>2, WireChildStep
  <2>4. ChildPipeEnds'
    BY <1>0, <2>1, <2>3 DEF WireInv, ChildPipeEnds
  <2>5. QED
    BY <2>3, <2>4 DEF WireInv
<1>3. CASE ChildStep("dupIn", "dupOut", Dup2(ctab, fd["in0"], 0))
  <2>1. cpc = "dupIn" /\ Dup2(ctab, fd["in0"], 0) = [ctab EXCEPT ![0] = ctab[fd["in0"]]]
    BY <1>3 DEF ChildStep, Close, Dup2
  <2>2. Dup2(ctab, fd["in0"], 0) \in [Fd -> Files]
    BY <1>0, <2>1
  <2>3. /\ WireTypeOK' /\ ParentEnds' /\ PipesAboveStdio' /\ (cpc' # "none" <=> pc' \in ForkedSteps)
        /\ cpc' = "dupOut" /\ ctab' = Dup2(ctab, fd["in0"], 0) /\ fd' = fd
        /\ fd["in0"] > 1 /\ fd["in1"] > 1 /\ fd["out0"] > 1 /\ fd["out1"] > 1
    BY <1>3, <2>2, WireChildStep
  <2>4. ChildPipeEnds'
    <3>1. \A f \in Fd : /\ ctab[f] = "pinR" <=> f = fd["in0"]
                        /\ ctab[f] = "poutW" <=> f = fd["out1"]
                        /\ ctab[f] \notin {"resR", "resW", "pinW", "poutR"}
      BY <2>1 DEF WireInv, ChildPipeEnds
    <3>2. ctab'[0] = "pinR" /\ \A f \in Fd \ {0} : ctab'[f] = ctab[f]
      BY <1>0, <2>1, <2>3, <3>1
    <3>3. \A f \in Fd : /\ ctab'[f] = "pinR" <=> f \in {fd["in0"], 0}
                        /\ ctab'[f] = "poutW" <=> f = fd["out1"]
                        /\ ctab'[f] \notin {"resR", "resW", "pinW", "poutR"}
      BY <1>0, <2>1, <2>3, <3>1, <3>2
    <3>4. QED
      BY <2>3, <3>3 DEF ChildPipeEnds
  <2>5. QED
    BY <2>3, <2>4 DEF WireInv
<1>4. CASE ChildStep("dupOut", "closePin0", Dup2(ctab, fd["out1"], 1))
  <2>1. cpc = "dupOut" /\ Dup2(ctab, fd["out1"], 1) = [ctab EXCEPT ![1] = ctab[fd["out1"]]]
    BY <1>4 DEF ChildStep, Close, Dup2
  <2>2. Dup2(ctab, fd["out1"], 1) \in [Fd -> Files]
    BY <1>0, <2>1
  <2>3. /\ WireTypeOK' /\ ParentEnds' /\ PipesAboveStdio' /\ (cpc' # "none" <=> pc' \in ForkedSteps)
        /\ cpc' = "closePin0" /\ ctab' = Dup2(ctab, fd["out1"], 1) /\ fd' = fd
        /\ fd["in0"] > 1 /\ fd["in1"] > 1 /\ fd["out0"] > 1 /\ fd["out1"] > 1
    BY <1>4, <2>2, WireChildStep
  <2>4. ChildPipeEnds'
    <3>1. \A f \in Fd : /\ ctab[f] = "pinR" <=> f \in {fd["in0"], 0}
                        /\ ctab[f] = "poutW" <=> f = fd["out1"]
                        /\ ctab[f] \notin {"resR", "resW", "pinW", "poutR"}
      BY <2>1 DEF WireInv, ChildPipeEnds
    <3>2. ctab'[1] = "poutW" /\ \A f \in Fd \ {1} : ctab'[f] = ctab[f]
      BY <1>0, <2>1, <2>3, <3>1
    <3>3. \A f \in Fd : /\ ctab'[f] = "pinR" <=> f \in {fd["in0"], 0}
                        /\ ctab'[f] = "poutW" <=> f \in {fd["out1"], 1}
                        /\ ctab'[f] \notin {"resR", "resW", "pinW", "poutR"}
      BY <1>0, <2>1, <2>3, <3>1, <3>2
    <3>4. QED
      BY <2>3, <3>3 DEF ChildPipeEnds
  <2>5. QED
    BY <2>3, <2>4 DEF WireInv
<1>5. CASE ChildStep("closePin0", "closePout1", Close(ctab, fd["in0"]))
  <2>1. cpc = "closePin0" /\ Close(ctab, fd["in0"]) = [ctab EXCEPT ![fd["in0"]] = Free]
    BY <1>5 DEF ChildStep, Close, Dup2
  <2>2. Close(ctab, fd["in0"]) \in [Fd -> Files]
    BY <1>0, <2>1
  <2>3. /\ WireTypeOK' /\ ParentEnds' /\ PipesAboveStdio' /\ (cpc' # "none" <=> pc' \in ForkedSteps)
        /\ cpc' = "closePout1" /\ ctab' = Close(ctab, fd["in0"]) /\ fd' = fd
        /\ fd["in0"] > 1 /\ fd["in1"] > 1 /\ fd["out0"] > 1 /\ fd["out1"] > 1
    BY <1>5, <2>2, WireChildStep
  <2>4. ChildPipeEnds'
    BY <1>0, <2>1, <2>3 DEF WireInv, ChildPipeEnds
  <2>5. QED
    BY <2>3, <2>4 DEF WireInv
<1>6. CASE ChildStep("closePout1", "exec", Close(ctab, fd["out1"]))
  <2>1. cpc = "closePout1" /\ Close(ctab, fd["out1"]) = [ctab EXCEPT ![fd["out1"]] = Free]
    BY <1>6 DEF ChildStep, Close, Dup2
  <2>2. Close(ctab, fd["out1"]) \in [Fd -> Files]
    BY <1>0, <2>1
  <2>3. /\ WireTypeOK' /\ ParentEnds' /\ PipesAboveStdio' /\ (cpc' # "none" <=> pc' \in ForkedSteps)
        /\ cpc' = "exec" /\ ctab' = Close(ctab, fd["out1"]) /\ fd' = fd
        /\ fd["in0"] > 1 /\ fd["in1"] > 1 /\ fd["out0"] > 1 /\ fd["out1"] > 1
    BY <1>6, <2>2, WireChildStep
  <2>4. ChildPipeEnds'
    BY <1>0, <2>1, <2>3 DEF WireInv, ChildPipeEnds
  <2>5. QED
    BY <2>3, <2>4 DEF WireInv
<1>7. QED
  BY <1>1, <1>2, <1>3, <1>4, <1>5, <1>6 DEF ChildWires

\* Every other step leaves the tables alone.
LEMMA WireRest ==
    ASSUME WireInv, UNCHANGED <<ptab, ctab, fd>>,
           \/ UNCHANGED <<pc, cpc>>
           \/ cpc = "exec" /\ cpc' = "ssh" /\ pc' = pc
           \/ cpc' = cpc /\ pc' = "fatal" /\ pc \notin ForkedSteps
           \/ cpc' = cpc /\ <<pc, pc'>> \in {<<"setStops", "fork">>, <<"assign", "closePin0">>,
                                            <<"setKills", "setKills">>, <<"setKills", "returned">>}
    PROVE  WireInv'
<1>1. WireTypeOK' /\ (cpc' # "none" <=> pc' \in ForkedSteps)
  BY DEF WireInv, WireTypeOK
<1>2. ParentEnds' /\ PipesAboveStdio'
  BY DEF WireInv, ParentEnds, PipesAboveStdio
<1>3. ChildPipeEnds'
  BY DEF WireInv, ChildPipeEnds
<1>4. QED
  BY <1>1, <1>2, <1>3 DEF WireInv

LEMMA WireStep == WireInv /\ [Next]_vars => WireInv'
<1> SUFFICES ASSUME WireInv, [Next]_vars PROVE WireInv'
  OBVIOUS
<1>1. CASE Parent
  <2>1. CASE SetStops
    BY <2>1, WireRest DEF SetStops, ParentRuns, fdVars
  <2>2. CASE AssignPid
    BY <2>2, WireRest DEF AssignPid, ParentRuns, fdVars
  <2>3. CASE SetKills
    <3>1. pc = "setKills" /\ pc' \in {"returned", "setKills"} /\ UNCHANGED <<cpc, ptab, ctab, fd>>
      BY <2>3 DEF SetKills, ParentRuns, fdVars
    <3>2. QED
      BY <3>1, WireRest
  <2>4. CASE Fatal
    <3>1. pc' = "fatal" /\ pc \notin ForkedSteps /\ UNCHANGED <<cpc, ptab, ctab, fd>>
      BY <2>4 DEF Fatal, ParentRuns, fdVars
    <3>2. QED
      BY <3>1, WireRest
  <2>5. QED
    BY <1>1, <2>1, <2>2, <2>3, <2>4, WirePipeReserved, WirePipePin, WirePipePout, WireParentClose,
       WireFork DEF Parent
<1>2. CASE ChildWires
  BY <1>2, WireChildWires
<1>3. CASE Exec
  <2>1. cpc = "exec" /\ cpc' = "ssh" /\ UNCHANGED <<pc, ptab, ctab, fd>>
    BY <1>3 DEF Exec, ChildStep
  <2>2. QED
    BY <2>1, WireRest
<1>4. CASE \/ ChildEnds \/ Resume \/ Handlers
           \/ \E sig \in Signals : ChildDelivers(sig) \/ Send(sig)
  <2>1. UNCHANGED <<pc, cpc, ptab, ctab, fd>>
    BY <1>4 DEF ChildEnds, Resume, Handlers, HandlerKill, HandlerWait, HandlerFinish, ParentDelivers,
                ChildDelivers, Send, fdVars
  <2>2. QED
    BY <2>1, WireRest
<1>5. CASE UNCHANGED vars
  <2>1. UNCHANGED <<pc, cpc, ptab, ctab, fd>>
    BY <1>5 DEF vars, fdVars
  <2>2. QED
    BY <2>1, WireRest
<1>6. QED
  BY <1>1, <1>2, <1>3, <1>4, <1>5 DEF Next, Child

LEMMA WireInvariance == Spec => []WireInv
BY WireInit, WireStep, PTL DEF Spec

\* ssh has the two pipes on 0 and 1 and no other end of them, whatever was open before.
THEOREM ChildIsWired == Spec => []ChildWired
<1>1. WireInv => ChildWired
  BY DEF WireInv, WireTypeOK, PipesAboveStdio, ChildPipeEnds, ChildWired
<1>2. QED
  BY <1>1, WireInvariance, PTL

\* do_cmd returns the two near ends and keeps no other.
THEOREM ParentIsWired == Spec => []ParentWired
<1>1. WireInv => ParentWired
  BY DEF WireInv, WireTypeOK, PipesAboveStdio, ParentEnds, ParentWired
<1>2. QED
  BY <1>1, WireInvariance, PTL

-----------------------------------------------------------------------------
(* The handlers *)

Frame == [sig : Signals, at : {"test", "wait", "finish"}]

FramesTypeOK ==
    /\ frames \in Seq(Frame)
    /\ stopsSet \in BOOLEAN /\ doCmdPid \in BOOLEAN
    /\ killsSet \subseteq KillSignals

\* What do_cmd has done by each of its steps.
Installed ==
    /\ ~ stopsSet => cstate = "none" /\ frames = << >> /\ killsSet = {}
    /\ killsSet # {} => doCmdPid
    /\ pc \in {"fork", "assign", "closePin0", "closePout1", "setKills"} => stopsSet
    /\ pc \in {"closePin0", "closePout1", "setKills"} => doCmdPid
    /\ pc \in {"pipeReserved", "pipePin", "pipePout", "closeRes0", "closeRes1", "setStops", "fork"}
          => cstate = "none"
    /\ pc \notin {"setKills", "returned", "fatal"} => killsSet = {}
    /\ pc = "setKills" => killsSet \in {{}, {"TERM"}, {"TERM", "INT"}}
    /\ pc = "returned" => killsSet = KillSignals

\* A handler is past its waitpid() for one of two reasons.
Waited ==
    \A i \in 1 .. Len(frames) :
        /\ frames[i].sig \in KillSignals => killsSet # {}
        /\ frames[i].at = "finish" =>
              \/ cstate = "reaped"
              \/ /\ cstate = "stopped" /\ reported /\ pstate # "stopped"
                 /\ frames[i].sig \in StopSignals

\* Each stop of the child is reported to one handler.
OneReport ==
    cstate = "stopped" =>
        \A i, j \in 1 .. Len(frames) :
            frames[i].at = "finish" /\ frames[j].at = "finish" => i = j

HInv == FramesTypeOK /\ Installed /\ Waited /\ OneReport

-----------------------------------------------------------------------------
(* What the three changes of the stack of handlers do to its frames. *)

LEMMA StopOrKill == /\ StopSignals \cap KillSignals = {}
                    /\ KillSignals # {} /\ Signals = StopSignals \cup KillSignals
BY StopAssumption DEF KillSignals, Signals

LEMMA PushedFrames ==
    ASSUME NEW q \in Seq(Frame), NEW e \in Frame
    PROVE  /\ Append(q, e) \in Seq(Frame) /\ Len(Append(q, e)) = Len(q) + 1
           /\ \A i \in 1 .. Len(q) + 1 : Append(q, e)[i] = IF i = Len(q) + 1 THEN e ELSE q[i]
OBVIOUS

LEMMA PoppedFrames ==
    ASSUME NEW q \in Seq(Frame), q # << >>
    PROVE  /\ SubSeq(q, 1, Len(q) - 1) \in Seq(Frame) /\ Len(SubSeq(q, 1, Len(q) - 1)) = Len(q) - 1
           /\ \A i \in 1 .. Len(q) - 1 : SubSeq(q, 1, Len(q) - 1)[i] = q[i]
<1> DEFINE p == SubSeq(q, 1, Len(q) - 1)
<1>1. Len(q) \in Nat /\ Len(q) >= 1
  OBVIOUS
<1>2. \A i \in 1 .. Len(q) - 1 : q[i] \in Frame
  BY <1>1
<1>3. /\ p \in Seq(Frame)
      /\ Len(p) = IF 1 <= Len(q) - 1 THEN Len(q) - 1 - 1 + 1 ELSE 0
      /\ \A i \in 1 .. Len(q) - 1 - 1 + 1 : p[i] = q[1 + i - 1]
  BY <1>1, <1>2, SubSeqProperties
<1> HIDE DEF p
<1>4. Len(p) = Len(q) - 1
  <2>1. \A n, k \in Nat : n >= 1 /\ k = (IF 1 <= n - 1 THEN n - 1 - 1 + 1 ELSE 0) => k = n - 1
    OBVIOUS
  <2>2. Len(p) \in Nat
    BY <1>3
  <2>3. QED
    BY <1>1, <1>3, <2>1, <2>2
<1>5. \A i \in 1 .. Len(q) - 1 : p[i] = q[i]
  BY <1>1, <1>3
<1>6. QED
  BY <1>3, <1>4, <1>5 DEF p

LEMMA MovedFrames ==
    ASSUME NEW q \in Seq(Frame), q # << >>, NEW step \in {"test", "wait", "finish"},
           NEW m, m = [q EXCEPT ![Len(q)].at = step]
    PROVE  /\ m \in Seq(Frame) /\ Len(m) = Len(q)
           /\ \A i \in 1 .. Len(q) - 1 : m[i] = q[i]
           /\ m[Len(q)].sig = q[Len(q)].sig /\ m[Len(q)].at = step
<1>1. Len(q) \in 1 .. Len(q) /\ q[Len(q)] \in Frame
  OBVIOUS
<1>2. [q[Len(q)] EXCEPT !.at = step] \in Frame
  BY <1>1 DEF Frame
<1>3. [q EXCEPT ![Len(q)] = [q[Len(q)] EXCEPT !.at = step]] = [q EXCEPT ![Len(q)].at = step]
  OBVIOUS
<1>4. QED
  BY <1>1, <1>2, <1>3 DEF Frame

-----------------------------------------------------------------------------

LEMMA HInit == Init => HInv
<1> SUFFICES ASSUME Init PROVE HInv
  OBVIOUS
<1>1. Len(frames) = 0 /\ frames \in Seq(Frame)
  BY DEF Init
<1>2. FramesTypeOK /\ Installed
  BY <1>1 DEF Init, FramesTypeOK, Installed
<1>3. QED
  BY <1>1, <1>2 DEF HInv, Waited, OneReport

\* The steps of do_cmd run on top of no handler, those of the child under any.
LEMMA HParent == ASSUME HInv, Parent PROVE HInv'
<1>1. frames = << >> /\ UNCHANGED frames
  BY DEF Parent, PipeReserved, PipePin, PipePout, Pipe, Fatal, FreeReserved, ParentClose, CloseFarEnds,
         SetStops, Fork, AssignPid, SetKills, ParentRuns, sigVars
<1>2. Len(frames) = 0
  BY <1>1
<1>3. Waited' /\ OneReport'
  BY <1>1, <1>2 DEF Waited, OneReport
<1>4. CASE PipeReserved \/ PipePin \/ PipePout \/ FreeReserved \/ CloseFarEnds
  <2>1. UNCHANGED <<stopsSet, killsSet, doCmdPid, cstate>>
    BY <1>4 DEF PipeReserved, PipePin, PipePout, Pipe, FreeReserved, ParentClose, CloseFarEnds,
                sigVars, procVars
  <2>2. <<pc, pc'>> \in {<<"pipeReserved", "pipePin">>, <<"pipePin", "pipePout">>, <<"pipePout", "closeRes0">>,
                        <<"closeRes0", "closeRes1">>, <<"closeRes1", "setStops">>,
                        <<"closePin0", "closePout1">>, <<"closePout1", "setKills">>}
    BY <1>4 DEF PipeReserved, PipePin, PipePout, Pipe, FreeReserved, ParentClose, CloseFarEnds, ParentRuns
  <2>3. FramesTypeOK'
    BY <1>1, <2>1 DEF HInv, FramesTypeOK
  <2>4. QED
    BY <1>1, <1>3, <2>1, <2>2, <2>3 DEF HInv, Installed
<1>5. CASE Fatal
  BY <1>1, <1>3, <1>5 DEF HInv, FramesTypeOK, Installed, Fatal, sigVars
<1>6. CASE SetStops
  BY <1>1, <1>3, <1>6 DEF HInv, FramesTypeOK, Installed, SetStops, ParentRuns, procVars
<1>7. CASE Fork
  BY <1>1, <1>3, <1>7 DEF HInv, FramesTypeOK, Installed, Fork, ParentRuns, sigVars
<1>8. CASE AssignPid
  BY <1>1, <1>3, <1>8 DEF HInv, FramesTypeOK, Installed, AssignPid, ParentRuns, procVars
<1>9. CASE SetKills
  <2>1. pc = "setKills" /\ UNCHANGED <<stopsSet, doCmdPid, cstate>> /\ stopsSet /\ doCmdPid
    BY <1>9 DEF SetKills, ParentRuns, procVars, HInv, Installed
  <2>2. \/ killsSet' = {"TERM"} /\ pc' = "setKills"
        \/ killsSet' = {"TERM", "INT"} /\ pc' = "setKills"
        \/ killsSet' = {"TERM", "INT", "HUP"} /\ pc' = "returned"
    BY <1>9, <2>1 DEF SetKills, HInv, Installed
  <2>3. QED
    BY <1>1, <1>3, <2>1, <2>2 DEF HInv, FramesTypeOK, Installed, KillSignals
<1>10. QED
  BY <1>4, <1>5, <1>6, <1>7, <1>8, <1>9 DEF Parent

\* The child stops running, but a child that is not running does nothing.
LEMMA HChild ==
    ASSUME HInv, Child \/ ChildEnds PROVE HInv'
<1>1. /\ UNCHANGED <<pc, stopsSet, killsSet, doCmdPid, frames, pstate>>
      /\ cstate = "running" /\ cstate' # "none"
  BY DEF Child, ChildWires, ChildStep, Exec, ChildDelivers, ChildEnds, sigVars, procVars
<1>2. cstate' \in {"running", "stopped", "zombie"}
  BY <1>1 DEF Child, ChildWires, ChildStep, Exec, ChildDelivers, ChildEnds, procVars
<1>3. \A i \in 1 .. Len(frames) : frames[i].at # "finish"
  BY <1>1 DEF HInv, Waited
<1>4. FramesTypeOK' /\ Installed'
  <2>1. stopsSet /\ pc \notin {"pipeReserved", "pipePin", "pipePout", "closeRes0", "closeRes1", "setStops", "fork"}
    BY <1>1 DEF HInv, Installed, FramesTypeOK
  <2>2. QED
    BY <1>1, <2>1 DEF HInv, Installed, FramesTypeOK
<1>5. Waited' /\ OneReport'
  BY <1>1, <1>3 DEF HInv, Waited, OneReport
<1>6. QED
  BY <1>4, <1>5 DEF HInv

LEMMA HParentDelivers == ASSUME HInv, NEW sig \in Signals, ParentDelivers(sig) PROVE HInv'
<1>1. UNCHANGED <<pc, stopsSet, killsSet, doCmdPid, cstate, reported>> /\ pstate = "running"
  BY DEF ParentDelivers
<1>2. CASE Handled(sig)
  <2>1. frames' = Append(frames, [sig |-> sig, at |-> "test"]) /\ pstate' = pstate
    BY <1>2 DEF ParentDelivers
  <2>2. [sig |-> sig, at |-> "test"] \in Frame /\ frames \in Seq(Frame)
    BY DEF Frame, HInv, FramesTypeOK
  <2>3. /\ frames' \in Seq(Frame) /\ Len(frames') = Len(frames) + 1
        /\ \A i \in 1 .. Len(frames) + 1 :
              frames'[i] = IF i = Len(frames) + 1 THEN [sig |-> sig, at |-> "test"] ELSE frames[i]
    BY <2>1, <2>2, PushedFrames
  <2>4. stopsSet
    BY <1>2 DEF Handled, HInv, Installed
  <2>5. FramesTypeOK' /\ Installed'
    BY <1>1, <2>3, <2>4 DEF HInv, FramesTypeOK, Installed
  <2>6. sig \in KillSignals => killsSet # {}
    BY <1>2, StopOrKill DEF Handled
  <2>7. Len(frames) \in Nat
    BY <2>2
  <2>8. \A i \in 1 .. Len(frames') : \/ i \in 1 .. Len(frames) /\ frames'[i] = frames[i]
                                     \/ frames'[i].sig = sig /\ frames'[i].at = "test"
    BY <2>3, <2>7
  <2>9. Waited'
    BY <1>1, <2>1, <2>6, <2>8 DEF HInv, Waited
  <2>10. OneReport'
    BY <1>1, <2>8 DEF HInv, OneReport
  <2>11. QED
    BY <2>5, <2>9, <2>10 DEF HInv
<1>3. CASE ~ Handled(sig)
  <2>1. frames' = frames /\ pstate' \in {"dead", "stopped"} /\ (pstate' = "stopped" => sig \in StopSignals)
    BY <1>3, StopOrKill DEF ParentDelivers
  <2>2. CASE pstate' = "dead"
    BY <1>1, <2>1, <2>2 DEF HInv, FramesTypeOK, Installed, Waited, OneReport
  <2>3. CASE pstate' = "stopped"
    <3>1. frames = << >>
      BY <1>3, <2>1, <2>3 DEF Handled, HInv, Installed
    <3>2. Len(frames) = 0
      BY <3>1
    <3>3. QED
      BY <1>1, <2>1, <3>1, <3>2 DEF HInv, FramesTypeOK, Installed, Waited, OneReport
  <2>4. QED
    BY <2>1, <2>2, <2>3
<1>4. QED
  BY <1>2, <1>3

\* The running handler moves on to its waitpid() or past it.
LEMMA HMoves ==
    ASSUME HInv, frames # << >>, NEW step \in {"wait", "finish"}, frames' = TopAt(step),
           UNCHANGED <<pc, stopsSet, killsSet, doCmdPid, pstate>>, pstate = "running",
           \/ step = "wait" /\ UNCHANGED <<cstate, reported>>
           \/ step = "finish" /\ cstate \in {"zombie", "reaped"} /\ cstate' = "reaped"
           \/ /\ step = "finish" /\ cstate = "stopped" /\ ~ reported
              /\ cstate' = cstate /\ reported' /\ Top.sig \in StopSignals
    PROVE  HInv'
<1>1. /\ frames' \in Seq(Frame) /\ Len(frames') = Len(frames)
      /\ \A i \in 1 .. Len(frames) - 1 : frames'[i] = frames[i]
      /\ frames'[Len(frames)].sig = frames[Len(frames)].sig /\ frames'[Len(frames)].at = step
  <2>1. frames \in Seq(Frame) /\ frames' = [frames EXCEPT ![Len(frames)].at = step]
    BY DEF TopAt, HInv, FramesTypeOK
  <2>2. QED
    BY <2>1, MovedFrames
<1>2. Len(frames) \in Nat /\ Len(frames) # 0
  BY DEF HInv, FramesTypeOK
<1>3. stopsSet /\ cstate' = "none" <=> stopsSet /\ cstate = "none"
  OBVIOUS
<1>4. stopsSet
  BY DEF HInv, Installed
<1>5. FramesTypeOK' /\ Installed'
  BY <1>1, <1>3, <1>4 DEF HInv, FramesTypeOK, Installed
<1>6. \A i \in 1 .. Len(frames) : \/ i # Len(frames) /\ frames'[i] = frames[i]
                                  \/ i = Len(frames) /\ frames'[i].sig = frames[i].sig /\ frames'[i].at = step
  BY <1>1, <1>2
<1>7. CASE step = "wait"
  BY <1>1, <1>5, <1>6, <1>7 DEF HInv, Waited, OneReport
<1>8. CASE step = "finish" /\ cstate' = "reaped"
  BY <1>1, <1>5, <1>6, <1>8 DEF HInv, Waited, OneReport
<1>9. CASE /\ step = "finish" /\ cstate = "stopped" /\ ~ reported
           /\ cstate' = cstate /\ reported' /\ Top.sig \in StopSignals
  <2>1. \A i \in 1 .. Len(frames) : frames[i].at # "finish"
    BY <1>9 DEF HInv, Waited
  <2>2. Waited'
    BY <1>1, <1>6, <1>9, <2>1 DEF HInv, Waited, Top
  <2>3. OneReport'
    BY <1>1, <1>6, <2>1 DEF OneReport
  <2>4. QED
    BY <1>5, <2>2, <2>3 DEF HInv
<1>10. QED
  BY <1>7, <1>8, <1>9

LEMMA HHandlerKill == ASSUME HInv, HandlerKill PROVE HInv'
<1>1. /\ frames # << >> /\ pstate = "running" /\ Top.at = "test"
      /\ UNCHANGED <<pc, stopsSet, killsSet, doCmdPid, pstate, cstate, reported>>
  BY DEF HandlerKill, HandlerRuns
<1>2. CASE doCmdPid
  <2>1. frames' = TopAt("wait")
    BY <1>2 DEF HandlerKill
  <2>2. QED
    BY <1>1, <2>1, HMoves
<1>3. CASE ~ doCmdPid
  <2>1. Len(frames) \in 1 .. Len(frames) /\ Top = frames[Len(frames)]
    BY <1>1 DEF HInv, FramesTypeOK, Top
  <2>2. Top.sig \notin KillSignals
    BY <1>3, <2>1 DEF HInv, Waited, Installed
  <2>3. frames' = Popped
    BY <1>3, <2>2 DEF HandlerKill
  <2>4. /\ frames' \in Seq(Frame) /\ Len(frames') = Len(frames) - 1
        /\ \A i \in 1 .. Len(frames) - 1 : frames'[i] = frames[i]
    BY <1>1, <2>3, PoppedFrames DEF Popped, HInv, FramesTypeOK
  <2>5. \A i \in 1 .. Len(frames') : i \in 1 .. Len(frames) /\ frames'[i] = frames[i]
    BY <2>1, <2>4
  <2>6. stopsSet
    BY <1>1 DEF HInv, Installed
  <2>7. QED
    BY <1>1, <2>4, <2>5, <2>6 DEF HInv, FramesTypeOK, Installed, Waited, OneReport
<1>4. QED
  BY <1>2, <1>3

LEMMA HHandlerWait == ASSUME HInv, HandlerWait PROVE HInv'
<1>1. /\ frames # << >> /\ pstate = "running" /\ frames' = TopAt("finish")
      /\ UNCHANGED <<pc, stopsSet, killsSet, doCmdPid, pstate>>
  BY DEF HandlerWait, HandlerRuns
<1>2. \/ cstate \in {"zombie", "reaped"} /\ cstate' = "reaped"
      \/ cstate = "stopped" /\ ~ reported /\ cstate' = cstate /\ reported' /\ Top.sig \in StopSignals
  BY DEF HandlerWait
<1>3. QED
  BY <1>1, <1>2, HMoves

LEMMA HHandlerFinish == ASSUME HInv, HandlerFinish PROVE HInv'
<1>1. /\ frames # << >> /\ pstate = "running" /\ Top.at = "finish"
      /\ UNCHANGED <<pc, stopsSet, killsSet, doCmdPid, cstate, reported>>
  BY DEF HandlerFinish, HandlerRuns
<1>2. CASE Top.sig \in KillSignals
  <2>1. pstate' = "dead" /\ frames' = frames
    BY <1>2 DEF HandlerFinish
  <2>2. QED
    BY <1>1, <2>1 DEF HInv, FramesTypeOK, Installed, Waited, OneReport
<1>3. CASE Top.sig \notin KillSignals
  <2>1. pstate' = "stopped" /\ frames' = Popped
    BY <1>3 DEF HandlerFinish
  <2>2. /\ frames' \in Seq(Frame) /\ Len(frames') = Len(frames) - 1
        /\ \A i \in 1 .. Len(frames) - 1 : frames'[i] = frames[i]
    BY <1>1, <2>1, PoppedFrames DEF Popped, HInv, FramesTypeOK
  <2>3. Len(frames) \in 1 .. Len(frames) /\ frames[Len(frames)].at = "finish"
    BY <1>1 DEF HInv, FramesTypeOK, Top
  <2>4. \A i \in 1 .. Len(frames') : i \in 1 .. Len(frames) /\ i # Len(frames) /\ frames'[i] = frames[i]
    BY <2>2, <2>3
  <2>5. cstate = "reaped" \/ \A i \in 1 .. Len(frames') : frames'[i].at # "finish"
    <3>1. cstate \in {"reaped", "stopped"}
      BY <2>3 DEF HInv, Waited
    <3>2. QED
      BY <2>3, <2>4, <3>1 DEF HInv, OneReport
  <2>6. Waited' /\ OneReport'
    BY <1>1, <2>4, <2>5 DEF HInv, Waited, OneReport
  <2>7. stopsSet
    BY <1>1 DEF HInv, Installed
  <2>8. QED
    BY <1>1, <2>2, <2>6, <2>7 DEF HInv, FramesTypeOK, Installed
<1>4. QED
  BY <1>2, <1>3

\* A stopped child runs again only when its parent was stopped too.
LEMMA HResume == ASSUME HInv, Resume PROVE HInv'
<1>1. /\ UNCHANGED <<pc, stopsSet, killsSet, doCmdPid, frames, reported>>
      /\ pstate = "stopped"
      /\ cstate' = IF cstate = "stopped" THEN "running" ELSE cstate
  BY DEF Resume, sigVars
<1>2. FramesTypeOK' /\ Installed'
  BY <1>1 DEF HInv, FramesTypeOK, Installed
<1>3. Waited'
  BY <1>1 DEF HInv, Waited
<1>4. OneReport'
  BY <1>1 DEF HInv, OneReport
<1>5. QED
  BY <1>2, <1>3, <1>4 DEF HInv

LEMMA HStep == HInv /\ [Next]_vars => HInv'
<1> SUFFICES ASSUME HInv, [Next]_vars PROVE HInv'
  OBVIOUS
<1>1. CASE UNCHANGED vars \/ \E sig \in Signals : Send(sig)
  <2>1. UNCHANGED <<pc, stopsSet, killsSet, doCmdPid, frames, pstate, cstate, reported>>
    BY <1>1 DEF Send, vars, sigVars, procVars
  <2>2. QED
    BY <2>1 DEF HInv, FramesTypeOK, Installed, Waited, OneReport
<1>2. QED
  BY <1>1, HParent, HChild, HParentDelivers, HHandlerKill, HHandlerWait, HHandlerFinish, HResume
     DEF Next, Handlers

LEMMA HInvariance == Spec => []HInv
BY HInit, HStep, PTL DEF Spec

-----------------------------------------------------------------------------

\* The parent never stops while its child runs (suspchild, ssh-fork.c:37-43).
THEOREM ParentStopsWithChild == Spec => StopsTogether
<1>1. HInv /\ [Next]_vars => [pstate = "running" /\ pstate' = "stopped" => cstate # "running"]_vars
  <2> SUFFICES ASSUME HInv, Next, pstate = "running", pstate' = "stopped" PROVE cstate # "running"
    OBVIOUS
  <2>1. CASE HandlerFinish
    <3>1. Len(frames) \in 1 .. Len(frames) /\ frames[Len(frames)].at = "finish"
      BY <2>1 DEF HandlerFinish, HandlerRuns, HInv, FramesTypeOK, Top
    <3>2. QED
      BY <3>1 DEF HInv, Waited
  <2>2. CASE \E sig \in Signals : ParentDelivers(sig)
    <3>1. PICK sig \in Signals : ParentDelivers(sig)
      BY <2>2
    <3>2. ~ Handled(sig) /\ sig \in StopSignals
      BY <3>1, StopOrKill DEF ParentDelivers
    <3>3. QED
      BY <3>2 DEF Handled, HInv, Installed
  <2>3. ~ (Parent \/ Child \/ ChildEnds \/ Resume \/ HandlerKill \/ HandlerWait \/ \E sig \in Signals : Send(sig))
    BY DEF Parent, PipeReserved, PipePin, PipePout, Pipe, Fatal, FreeReserved, ParentClose, CloseFarEnds,
           SetStops, Fork, AssignPid, SetKills, Child, ChildWires, ChildStep, Exec, ChildDelivers,
           ChildEnds, Resume, HandlerKill, HandlerWait, Send, procVars
  <2>4. QED
    BY <2>1, <2>2, <2>3 DEF Next, Handlers
<1>2. QED
  BY <1>1, HInvariance, PTL DEF Spec, StopsTogether

\* Once do_cmd has returned, the parent does not die before its child is collected
\* (killchild, ssh-fork.c:19-30).
THEOREM ChildIsCollected == Spec => NoOrphan
<1>1. HInv /\ [Next]_vars
        => [pstate # "dead" /\ pstate' = "dead" /\ pc = "returned" => cstate' = "reaped"]_vars
  <2> SUFFICES ASSUME HInv, Next, pstate # "dead", pstate' = "dead", pc = "returned"
               PROVE  cstate' = "reaped"
    OBVIOUS
  <2>1. CASE HandlerFinish
    <3>1. Len(frames) \in 1 .. Len(frames) /\ frames[Len(frames)].at = "finish" /\ Top = frames[Len(frames)]
      BY <2>1 DEF HandlerFinish, HandlerRuns, HInv, FramesTypeOK, Top
    <3>2. Top.sig \in KillSignals /\ cstate' = cstate
      BY <2>1 DEF HandlerFinish
    <3>3. QED
      BY <3>1, <3>2, StopOrKill DEF HInv, Waited
  <2>2. CASE \E sig \in Signals : ParentDelivers(sig)
    <3>1. PICK sig \in Signals : ParentDelivers(sig)
      BY <2>2
    <3>2. ~ Handled(sig) /\ sig \in KillSignals
      BY <3>1 DEF ParentDelivers
    <3>3. QED
      BY <3>2 DEF Handled, HInv, Installed
  <2>3. ~ (Parent \/ Child \/ ChildEnds \/ Resume \/ HandlerKill \/ HandlerWait \/ \E sig \in Signals : Send(sig))
    BY DEF Parent, PipeReserved, PipePin, PipePout, Pipe, Fatal, FreeReserved, ParentClose, CloseFarEnds,
           SetStops, Fork, AssignPid, SetKills, Child, ChildWires, ChildStep, Exec, ChildDelivers,
           ChildEnds, Resume, HandlerKill, HandlerWait, Send, ParentRuns, procVars
  <2>4. QED
    BY <2>1, <2>2, <2>3 DEF Next, Handlers
<1>2. QED
  BY <1>1, HInvariance, PTL DEF Spec, NoOrphan

-----------------------------------------------------------------------------

\* What the two invariants leave open of the types.
ProcTypeOK ==
    /\ pstate \in {"running", "stopped", "dead"}
    /\ cstate \in {"none", "running", "stopped", "zombie", "reaped"}
    /\ reported \in BOOLEAN
    /\ ppend \subseteq Signals /\ cpend \subseteq Signals
    /\ sent \in Nat

LEMMA ProcStep == ASSUME ProcTypeOK, HInv, [Next]_vars PROVE ProcTypeOK'
<1>1. CASE UNCHANGED procVars
  BY <1>1 DEF ProcTypeOK, procVars
<1>2. CASE Fatal \/ Fork \/ ChildEnds
  BY <1>2 DEF ProcTypeOK, Fatal, Fork, ChildEnds
<1>3. ASSUME NEW sig \in Signals, ChildDelivers(sig) \/ ParentDelivers(sig) PROVE ProcTypeOK'
  BY <1>3 DEF ProcTypeOK, ChildDelivers, ParentDelivers
<1>4. CASE HandlerKill
  <2>1. frames # << >> /\ frames \in Seq(Frame)
    BY <1>4, HInv DEF HandlerKill, HandlerRuns, HInv, FramesTypeOK
  <2>2. Top.sig \in Signals
    <3>1. Len(frames) \in 1 .. Len(frames)
      BY <2>1
    <3>2. frames[Len(frames)] \in Frame
      BY <2>1, <3>1
    <3>3. QED
      BY <3>2 DEF Top, Frame
  <2>3. cpend' \in {cpend, cpend \cup {Top.sig}} /\ UNCHANGED <<pstate, cstate, reported, ppend, sent>>
    BY <1>4 DEF HandlerKill
  <2>4. QED
    BY <2>2, <2>3 DEF ProcTypeOK
<1>5. CASE HandlerWait \/ HandlerFinish
  BY <1>5 DEF ProcTypeOK, HandlerWait, HandlerFinish
<1>6. CASE Resume
  BY <1>6 DEF ProcTypeOK, Resume
<1>7. ASSUME NEW sig \in Signals, Send(sig) PROVE ProcTypeOK'
  BY <1>7 DEF ProcTypeOK, Send
<1>8. CASE \/ UNCHANGED vars \/ ChildWires \/ Exec
           \/ Parent /\ ~ Fatal /\ ~ Fork
  <2>1. UNCHANGED procVars
    BY <1>8 DEF vars, ChildWires, Exec, ChildStep, Parent, PipeReserved, PipePin, PipePout, Pipe,
                FreeReserved, CloseFarEnds, ParentClose, SetStops, AssignPid, SetKills
  <2>2. QED
    BY <1>1, <2>1
<1>9. QED
  BY <1>2, <1>3, <1>4, <1>5, <1>6, <1>7, <1>8 DEF Next, Parent, Child, Handlers

LEMMA ProcInvariance == Spec => []ProcTypeOK
<1>1. Init => ProcTypeOK
  <2>1. 0 \in Nat /\ {} \subseteq Signals
    OBVIOUS
  <2>2. QED
    BY <2>1, Zenon DEF Init, ProcTypeOK
<1>2. HInv /\ ProcTypeOK /\ [Next]_vars => ProcTypeOK'
  BY ProcStep
<1>3. QED
  BY <1>1, <1>2, HInvariance, PTL DEF Spec

\* SshFork is type correct for all descriptors, signals and nestings of handlers.
THEOREM TypeCorrect == Spec => []TypeOK
<1>1. WireInv /\ HInv /\ ProcTypeOK => TypeOK
  BY DEF WireInv, WireTypeOK, HInv, FramesTypeOK, Frame, ProcTypeOK, TypeOK
<1>2. QED
  BY <1>1, WireInvariance, HInvariance, ProcInvariance, PTL

-----------------------------------------------------------------------------
(* When the parent's handlers may wait *)

\* fork() has returned before do_cmd_pid is set.
PidIsChild == pc = "assign" \/ doCmdPid => cstate # "none"

\* killchild waits for no ssh that has not been told to die: in its waitpid(), ssh is dead,
\* or killchild's signal is still on its way to it.  With ssh running, the wait can end.
KillSent ==
    \A k \in 1 .. Len(frames) :
        frames[k].sig \in KillSignals /\ frames[k].at = "wait" =>
            frames[k].sig \in cpend \/ cstate \in {"zombie", "reaped"}

LEMMA PidStep == ASSUME HInv, PidIsChild, [Next]_vars PROVE PidIsChild'
<1>1. CASE UNCHANGED vars
  BY <1>1 DEF PidIsChild, vars, sigVars, procVars
<1>2. CASE Parent
  BY <1>2 DEF PidIsChild, Parent, PipeReserved, PipePin, PipePout, Pipe, Fatal, FreeReserved, ParentClose,
              CloseFarEnds, SetStops, Fork, AssignPid, SetKills, ParentRuns, sigVars, procVars
<1>3. CASE Child \/ ChildEnds
  BY <1>3 DEF PidIsChild, Child, ChildWires, ChildStep, Exec, ChildDelivers, ChildEnds, sigVars, procVars
<1>4. CASE Handlers
  BY <1>4 DEF PidIsChild, Handlers, HandlerKill, HandlerWait, HandlerFinish, ParentDelivers
<1>5. CASE Resume \/ \E sig \in Signals : Send(sig)
  BY <1>5 DEF PidIsChild, Resume, Send, sigVars
<1>6. QED
  BY <1>1, <1>2, <1>3, <1>4, <1>5 DEF Next

\* What leaves the handlers alone leaves their signals on the way, or ssh dead.
LEMMA KillSentStays ==
    ASSUME KillSent, UNCHANGED frames, cpend \cap KillSignals \subseteq cpend',
           cstate \in {"zombie", "reaped"} => cstate' \in {"zombie", "reaped"}
    PROVE  KillSent'
BY DEF KillSent

\* So does a change of the handlers by which none of killchild begins to wait.
LEMMA KillSentBelow ==
    ASSUME KillSent, cpend \subseteq cpend', cstate \in {"zombie", "reaped"} => cstate' \in {"zombie", "reaped"},
           \A i \in 1 .. Len(frames') : \/ i \in 1 .. Len(frames) /\ frames'[i] = frames[i]
                                        \/ frames'[i].at # "wait"
    PROVE  KillSent'
BY DEF KillSent

LEMMA KillSentKill == ASSUME HInv, ProcTypeOK, PidIsChild, KillSent, HandlerKill PROVE KillSent'
<1>1. /\ frames \in Seq(Frame) /\ frames # << >> /\ Top = frames[Len(frames)]
      /\ cpend \subseteq cpend' /\ UNCHANGED <<cstate, doCmdPid>>
  BY DEF HandlerKill, HandlerRuns, HInv, FramesTypeOK, Top
<1>2. Len(frames) \in 1 .. Len(frames)
  BY <1>1
<1>3. CASE doCmdPid
  <2>1. frames' = [frames EXCEPT ![Len(frames)].at = "wait"]
    BY <1>3 DEF HandlerKill, TopAt
  <2>2. /\ Len(frames') = Len(frames)
        /\ \A i \in 1 .. Len(frames) - 1 : frames'[i] = frames[i]
        /\ frames'[Len(frames)].sig = Top.sig
    BY <1>1, <2>1, MovedFrames
  <2>3. Top.sig \in cpend' \/ cstate' \in {"zombie", "reaped"}
    BY <1>1, <1>3 DEF HandlerKill, PidIsChild, ProcTypeOK
  <2>4. \A i \in 1 .. Len(frames) : frames'[i] = frames[i] \/ frames'[i].sig = Top.sig
    BY <1>2, <2>2
  <2>5. QED
    BY <1>1, <2>2, <2>3, <2>4 DEF KillSent
<1>4. CASE ~ doCmdPid
  <2>1. Top.sig \notin KillSignals
    BY <1>1, <1>2, <1>4 DEF HInv, Waited, Installed
  <2>2. frames' = Popped
    BY <1>4, <2>1 DEF HandlerKill
  <2>3. Len(frames') = Len(frames) - 1 /\ \A i \in 1 .. Len(frames) - 1 : frames'[i] = frames[i]
    BY <1>1, <2>2, PoppedFrames DEF Popped
  <2>4. \A i \in 1 .. Len(frames') : i \in 1 .. Len(frames) /\ frames'[i] = frames[i]
    BY <1>2, <2>3
  <2>5. QED
    BY <1>1, <2>4, KillSentBelow
<1>5. QED
  BY <1>3, <1>4

LEMMA KillSentHandlers ==
    ASSUME HInv, KillSent, HandlerWait \/ HandlerFinish \/ \E sig \in Signals : ParentDelivers(sig)
    PROVE  KillSent'
<1>1. frames \in Seq(Frame)
  BY DEF HInv, FramesTypeOK
<1>2. CASE HandlerWait
  <2>1. frames # << >> /\ frames' = [frames EXCEPT ![Len(frames)].at = "finish"] /\ UNCHANGED cpend
    BY <1>2 DEF HandlerWait, HandlerRuns, TopAt
  <2>2. /\ Len(frames') = Len(frames)
        /\ \A i \in 1 .. Len(frames) - 1 : frames'[i] = frames[i]
        /\ frames'[Len(frames)].at = "finish"
    BY <1>1, <2>1, MovedFrames
  <2>3. Len(frames) \in 1 .. Len(frames)
    BY <1>1, <2>1
  <2>4. \A i \in 1 .. Len(frames') : (i \in 1 .. Len(frames) /\ frames'[i] = frames[i]) \/ frames'[i].at # "wait"
    BY <2>2, <2>3
  <2>5. cstate \in {"zombie", "reaped"} => cstate' \in {"zombie", "reaped"}
    BY <1>2 DEF HandlerWait
  <2>6. QED
    BY <2>1, <2>4, <2>5, KillSentBelow
<1>3. CASE HandlerFinish
  <2>1. frames # << >> /\ UNCHANGED <<cpend, cstate>> /\ (frames' = frames \/ frames' = Popped)
    BY <1>3 DEF HandlerFinish, HandlerRuns
  <2>2. CASE frames' = frames
    BY <2>1, <2>2, KillSentStays
  <2>3. CASE frames' = Popped
    <3>1. Len(frames') = Len(frames) - 1 /\ \A i \in 1 .. Len(frames) - 1 : frames'[i] = frames[i]
      BY <1>1, <2>1, <2>3, PoppedFrames DEF Popped
    <3>2. Len(frames) \in 1 .. Len(frames)
      BY <1>1, <2>1
    <3>3. \A i \in 1 .. Len(frames') : i \in 1 .. Len(frames) /\ frames'[i] = frames[i]
      BY <3>1, <3>2
    <3>4. QED
      BY <2>1, <3>3, KillSentBelow
  <2>4. QED
    BY <2>1, <2>2, <2>3
<1>4. ASSUME NEW sig \in Signals, ParentDelivers(sig) PROVE KillSent'
  <2>1. UNCHANGED <<cpend, cstate>>
    BY <1>4 DEF ParentDelivers
  <2>2. CASE frames' = frames
    BY <2>1, <2>2, KillSentStays
  <2>3. CASE frames' = Append(frames, [sig |-> sig, at |-> "test"])
    <3>1. [sig |-> sig, at |-> "test"] \in Frame
      BY DEF Frame
    <3>2. /\ Len(frames') = Len(frames) + 1
          /\ \A i \in 1 .. Len(frames) + 1 :
                frames'[i] = IF i = Len(frames) + 1 THEN [sig |-> sig, at |-> "test"] ELSE frames[i]
      BY <1>1, <2>3, <3>1, PushedFrames
    <3>3. Len(frames) \in Nat
      BY <1>1
    <3>4. \A i \in 1 .. Len(frames') : (i \in 1 .. Len(frames) /\ frames'[i] = frames[i]) \/ frames'[i].at # "wait"
      BY <3>2, <3>3
    <3>5. QED
      BY <2>1, <3>4, KillSentBelow
  <2>4. QED
    BY <1>4, <2>2, <2>3 DEF ParentDelivers
<1>5. QED
  BY <1>2, <1>3, <1>4

LEMMA KillSentStep ==
    ASSUME HInv, ProcTypeOK, PidIsChild, KillSent, [Next]_vars PROVE KillSent'
<1>1. CASE Parent
  <2>1. frames = << >> /\ UNCHANGED frames
    BY <1>1 DEF Parent, PipeReserved, PipePin, PipePout, Pipe, Fatal, FreeReserved, ParentClose, CloseFarEnds,
                SetStops, Fork, AssignPid, SetKills, ParentRuns, sigVars
  <2>2. Len(frames') = 0
    BY <2>1
  <2>3. QED
    BY <2>2 DEF KillSent
<1>2. CASE ChildWires \/ Exec \/ ChildEnds \/ UNCHANGED vars
  <2>1. /\ UNCHANGED <<frames, cpend>>
        /\ cstate' = cstate \/ cstate' = "zombie"
    BY <1>2 DEF ChildWires, ChildStep, Exec, ChildEnds, vars, sigVars, procVars
  <2>2. QED
    BY <2>1, KillSentStays
<1>3. ASSUME NEW sig \in Signals, ChildDelivers(sig) PROVE KillSent'
  <2>1. /\ cpend' = cpend \ {sig} /\ cstate = "running" /\ UNCHANGED frames
        /\ sig \in KillSignals => cstate' = "zombie"
    BY <1>3 DEF ChildDelivers, sigVars
  <2>2. CASE sig \in KillSignals
    BY <2>1, <2>2 DEF KillSent
  <2>3. CASE sig \notin KillSignals
    BY <2>1, <2>3, KillSentStays
  <2>4. QED
    BY <2>2, <2>3
<1>4. CASE Resume \/ \E sig \in Signals : Send(sig)
  <2>1. UNCHANGED frames /\ cpend \cap KillSignals \subseteq cpend'
    BY <1>4, StopOrKill DEF Resume, Send, sigVars
  <2>2. cstate \in {"zombie", "reaped"} => cstate' \in {"zombie", "reaped"}
    BY <1>4 DEF Resume, Send
  <2>3. QED
    BY <2>1, <2>2, KillSentStays
<1>5. QED
  BY <1>1, <1>2, <1>3, <1>4, KillSentKill, KillSentHandlers DEF Next, Child, Handlers

\* However many handlers nest and whoever else signals or resumes the two, killchild does not
\* wait in vain (ssh-fork.c:22-26): the signal is on its way, or was taken.
THEOREM KillIsSent == Spec => []KillSent
<1>1. Init => PidIsChild /\ KillSent
  <2>1. Init => PidIsChild
    BY DEF Init, PidIsChild
  <2>2. ASSUME Init PROVE KillSent
    <3>1. Len(frames) = 0
      BY <2>2 DEF Init
    <3>2. QED
      BY <3>1 DEF KillSent
  <2>3. QED
    BY <2>1, <2>2
<1>2. HInv /\ PidIsChild /\ [Next]_vars => PidIsChild'
  BY PidStep
<1>3. HInv /\ ProcTypeOK /\ PidIsChild /\ KillSent /\ [Next]_vars => KillSent'
  BY KillSentStep
<1>4. QED
  BY <1>1, <1>2, <1>3, ProcInvariance, HInvariance, PTL DEF Spec

-----------------------------------------------------------------------------
(* How a handler gets stranded *)

\* No handler gets to its waitpid() before do_cmd knows its child.
WaitHasPid == ~ doCmdPid => \A k \in 1 .. Len(frames) : frames[k].at # "wait"

\* While the parent runs, a stop that has been collected belongs to a handler that is
\* about to stop the parent.
ReportHeld ==
    pstate = "running" /\ cstate = "stopped" /\ reported =>
        \E i \in 1 .. Len(frames) : frames[i].at = "finish"

StrandInv == WaitHasPid /\ ReportHeld

\* A step that leaves the handlers and the collected stops alone.
LEMMA StrandSame ==
    ASSUME StrandInv, UNCHANGED frames, doCmdPid => doCmdPid',
           pstate' = "running" => pstate = "running",
           cstate' = "stopped" /\ reported' => cstate = "stopped" /\ reported
    PROVE  StrandInv'
BY DEF StrandInv, WaitHasPid, ReportHeld

\* MovedFrames of the handler on top.
LEMMA MovedTop ==
    ASSUME frames \in Seq(Frame), frames # << >>, NEW step \in {"wait", "finish"},
           frames' = TopAt(step)
    PROVE  /\ Len(frames') = Len(frames)
           /\ \A i \in 1 .. Len(frames) - 1 : frames'[i] = frames[i]
           /\ frames'[Len(frames)].at = step
<1>1. frames' = [frames EXCEPT ![Len(frames)].at = step]
  BY DEF TopAt
<1>2. QED
  BY <1>1, MovedFrames

\* What the handlers' four steps do to the stack: the frames below the top stay, and the
\* top is pushed, popped or moved.
LEMMA HandlerMoves ==
    ASSUME HInv, Handlers
    PROVE  /\ frames \in Seq(Frame) /\ frames' \in Seq(Frame) /\ UNCHANGED doCmdPid
           /\ \/ /\ frames' = frames /\ pstate' # "running"
              \/ /\ Len(frames') = Len(frames) + 1 /\ UNCHANGED <<pstate, cstate, reported, cpend>>
                 /\ \A i \in 1 .. Len(frames) : frames'[i] = frames[i]
                 /\ frames'[Len(frames')].at = "test"
              \/ /\ Len(frames) >= 1 /\ Len(frames') = Len(frames) - 1
                 /\ \A i \in 1 .. Len(frames') : frames'[i] = frames[i]
                 /\ \/ pstate' # "running"
                    \/ frames[Len(frames)].at = "test" /\ ~ doCmdPid /\ UNCHANGED <<pstate, cstate, reported>>
              \/ /\ Len(frames) >= 1 /\ Len(frames') = Len(frames) /\ UNCHANGED pstate
                 /\ \A i \in 1 .. Len(frames) - 1 : frames'[i] = frames[i]
                 /\ \/ frames'[Len(frames)].at = "finish"
                    \/ /\ frames'[Len(frames)].at = "wait" /\ frames[Len(frames)].at = "test"
                       /\ doCmdPid /\ UNCHANGED <<cstate, reported>>
                       /\ cstate = "running" => cpend' # {}
<1>1. frames \in Seq(Frame) /\ frames' \in Seq(Frame)
  BY HHandlerKill, HHandlerWait, HHandlerFinish, HParentDelivers DEF Handlers, HInv, FramesTypeOK
<1>2. CASE HandlerKill
  <2>1. frames # << >> /\ Top.at = "test" /\ UNCHANGED <<doCmdPid, pstate, cstate, reported>>
    BY <1>2 DEF HandlerKill, HandlerRuns
  <2>2. Len(frames) >= 1 /\ Len(frames) \in 1 .. Len(frames) /\ frames[Len(frames)].at = "test"
    BY <1>1, <2>1 DEF Top
  <2>3. CASE doCmdPid
    <3>1. frames' = TopAt("wait") /\ (cstate = "running" => cpend' # {})
      BY <1>2, <2>3 DEF HandlerKill
    <3>2. /\ Len(frames') = Len(frames)
          /\ \A i \in 1 .. Len(frames) - 1 : frames'[i] = frames[i]
          /\ frames'[Len(frames)].at = "wait"
      BY <1>1, <2>1, <3>1, MovedTop
    <3>3. QED
      BY <1>1, <2>1, <2>2, <2>3, <3>1, <3>2
  <2>4. CASE ~ doCmdPid
    <3>1. Top.sig \notin KillSignals
      BY <2>2, <2>4 DEF HInv, Waited, Installed, Top
    <3>2. frames' = Popped
      BY <1>2, <2>4, <3>1 DEF HandlerKill
    <3>3. /\ frames' \in Seq(Frame) /\ Len(frames') = Len(frames) - 1
          /\ \A i \in 1 .. Len(frames) - 1 : frames'[i] = frames[i]
      BY <1>1, <2>1, <3>2, PoppedFrames DEF Popped
    <3>4. QED
      BY <1>1, <2>1, <2>2, <2>4, <3>3
  <2>5. QED
    BY <2>3, <2>4
<1>3. CASE HandlerWait
  <2>1. frames # << >> /\ frames' = TopAt("finish") /\ UNCHANGED <<doCmdPid, pstate>>
    BY <1>3 DEF HandlerWait, HandlerRuns
  <2>2. /\ Len(frames') = Len(frames)
        /\ \A i \in 1 .. Len(frames) - 1 : frames'[i] = frames[i]
        /\ frames'[Len(frames)].at = "finish"
    BY <1>1, <2>1, MovedTop
  <2>3. Len(frames) >= 1
    BY <1>1, <2>1
  <2>4. QED
    BY <1>1, <2>1, <2>2, <2>3
<1>4. CASE HandlerFinish
  <2>1. /\ frames # << >> /\ UNCHANGED doCmdPid /\ pstate' # "running"
        /\ frames' = frames \/ frames' = Popped
    BY <1>4 DEF HandlerFinish, HandlerRuns
  <2>2. CASE frames' = Popped
    <3>1. /\ frames' \in Seq(Frame) /\ Len(frames') = Len(frames) - 1
          /\ \A i \in 1 .. Len(frames) - 1 : frames'[i] = frames[i]
      BY <1>1, <2>1, <2>2, PoppedFrames DEF Popped
    <3>2. Len(frames) >= 1
      BY <1>1, <2>1
    <3>3. QED
      BY <1>1, <2>1, <3>1, <3>2
  <2>3. QED
    BY <1>1, <2>1, <2>2
<1>5. ASSUME NEW sig \in Signals, ParentDelivers(sig)
      PROVE  /\ frames' \in Seq(Frame) /\ UNCHANGED doCmdPid
             /\ \/ frames' = frames /\ pstate' # "running"
                \/ /\ Len(frames') = Len(frames) + 1 /\ UNCHANGED <<pstate, cstate, reported, cpend>>
                   /\ \A i \in 1 .. Len(frames) : frames'[i] = frames[i]
                   /\ frames'[Len(frames')].at = "test"
  <2>1. CASE Handled(sig)
    <3>1. /\ frames' = Append(frames, [sig |-> sig, at |-> "test"])
          /\ UNCHANGED <<doCmdPid, pstate, cstate, reported, cpend>>
      BY <1>5, <2>1 DEF ParentDelivers
    <3>2. [sig |-> sig, at |-> "test"] \in Frame
      BY DEF Frame
    <3>3. /\ frames' \in Seq(Frame) /\ Len(frames') = Len(frames) + 1
          /\ \A i \in 1 .. Len(frames) + 1 :
                frames'[i] = IF i = Len(frames) + 1 THEN [sig |-> sig, at |-> "test"] ELSE frames[i]
      BY <1>1, <3>1, <3>2, PushedFrames
    <3>4. Len(frames) \in Nat
      BY <1>1
    <3>5. (\A i \in 1 .. Len(frames) : frames'[i] = frames[i]) /\ frames'[Len(frames')].at = "test"
      BY <3>3, <3>4
    <3>6. QED
      BY <3>1, <3>3, <3>5
  <2>2. CASE ~ Handled(sig)
    BY <1>1, <1>5, <2>2 DEF ParentDelivers
  <2>3. QED
    BY <2>1, <2>2
<1>6. CASE \E sig \in Signals : ParentDelivers(sig)
  BY <1>1, <1>5, <1>6
<1>7. QED
  BY <1>2, <1>3, <1>4, <1>6 DEF Handlers


LEMMA StrandHandlers == ASSUME HInv, StrandInv, Handlers PROVE StrandInv'
<1>1. frames \in Seq(Frame) /\ frames' \in Seq(Frame) /\ UNCHANGED doCmdPid
  BY HandlerMoves
<1>2. PICK n \in Nat : n = Len(frames)
  BY <1>1
<1>3. PICK m \in Nat : m = Len(frames')
  BY <1>1
<1>4. CASE frames' = frames /\ pstate' # "running"
  BY <1>1, <1>4 DEF StrandInv, WaitHasPid, ReportHeld
<1>5. CASE /\ m = n + 1 /\ UNCHANGED <<pstate, cstate, reported>>
           /\ \A i \in 1 .. n : frames'[i] = frames[i]
           /\ frames'[m].at = "test"
  <2>1. \A i \in 1 .. m : i = m \/ i \in 1 .. n
    BY <1>5
  <2>2. 1 .. n \subseteq 1 .. m
    BY <1>5
  <2>3. WaitHasPid'
    BY <1>1, <1>2, <1>3, <1>5, <2>1 DEF StrandInv, WaitHasPid
  <2>4. ReportHeld'
    BY <1>2, <1>3, <1>5, <2>2 DEF StrandInv, ReportHeld
  <2>5. QED
    BY <2>3, <2>4 DEF StrandInv
<1>6. CASE /\ n >= 1 /\ m = n - 1
           /\ \A i \in 1 .. m : frames'[i] = frames[i]
           /\ \/ pstate' # "running"
              \/ frames[n].at = "test" /\ UNCHANGED <<pstate, cstate, reported>>
  <2>1. 1 .. m \subseteq 1 .. n /\ \A i \in 1 .. n : i = n \/ i \in 1 .. m
    BY <1>6
  <2>2. WaitHasPid'
    BY <1>1, <1>2, <1>3, <1>6, <2>1 DEF StrandInv, WaitHasPid
  <2>3. ReportHeld'
    BY <1>2, <1>3, <1>6, <2>1 DEF StrandInv, ReportHeld
  <2>4. QED
    BY <2>2, <2>3 DEF StrandInv
<1>7. CASE /\ n >= 1 /\ m = n /\ UNCHANGED pstate
           /\ \A i \in 1 .. n - 1 : frames'[i] = frames[i]
           /\ \/ frames'[n].at = "finish"
              \/ /\ frames'[n].at = "wait" /\ frames[n].at = "test"
                 /\ doCmdPid /\ UNCHANGED <<cstate, reported>>
  <2>1. n \in 1 .. m /\ \A i \in 1 .. n : i = n \/ i \in 1 .. n - 1
    BY <1>7
  <2>2. WaitHasPid'
    BY <1>1, <1>2, <1>3, <1>7, <2>1 DEF StrandInv, WaitHasPid
  <2>3. ReportHeld'
    <3>1. CASE frames'[n].at = "finish"
      BY <1>3, <2>1, <3>1 DEF ReportHeld
    <3>2. CASE frames'[n].at # "finish"
      BY <1>2, <1>3, <1>7, <2>1, <3>2 DEF StrandInv, ReportHeld
    <3>3. QED
      BY <3>1, <3>2
  <2>4. QED
    BY <2>2, <2>3 DEF StrandInv
<1>8. QED
  BY <1>2, <1>3, <1>4, <1>5, <1>6, <1>7, HandlerMoves

LEMMA StrandStep == ASSUME HInv, StrandInv, [Next]_vars PROVE StrandInv'
<1>1. CASE Parent
  <2>1. /\ UNCHANGED <<frames, reported>> /\ pstate = "running" /\ (doCmdPid => doCmdPid')
        /\ cstate' = cstate \/ cstate' = "running"
    BY <1>1 DEF Parent, PipeReserved, PipePin, PipePout, Pipe, Fatal, FreeReserved, ParentClose, CloseFarEnds,
                SetStops, Fork, AssignPid, SetKills, ParentRuns, sigVars, procVars
  <2>2. QED
    BY <2>1, StrandSame
<1>2. CASE \/ UNCHANGED vars \/ Child \/ ChildEnds \/ Resume \/ \E sig \in Signals : Send(sig)
  <2>1. UNCHANGED <<frames, doCmdPid>>
    BY <1>2 DEF vars, Child, ChildWires, ChildStep, Exec, ChildDelivers, ChildEnds, Resume, Send, sigVars
  <2>2. \/ UNCHANGED <<pstate, cstate, reported>>
        \/ UNCHANGED pstate /\ (cstate' # "stopped" \/ ~ reported')
        \/ cstate' # "stopped"
    BY <1>2 DEF vars, procVars, Child, ChildWires, ChildStep, Exec, ChildDelivers, ChildEnds, Resume, Send
  <2>3. pstate' = "running" => pstate = "running" \/ cstate' # "stopped"
    BY <1>2 DEF vars, procVars, Child, ChildWires, ChildStep, Exec, ChildDelivers, ChildEnds, Resume, Send
  <2>4. QED
    BY <2>1, <2>2, <2>3 DEF StrandInv, WaitHasPid, ReportHeld
<1>3. QED
  BY <1>1, <1>2, StrandHandlers DEF Next

\* The handler on top waits for a running child only if its signal is on the way there.
LEMMA StrandedRunning ==
    ASSUME HInv, StrandInv, Next, ~ Stranded, Stranded', cpc = "ssh", pstate # "stopped"
    PROVE  cstate' = "stopped"
<1> SUFFICES ASSUME cstate' = "running", cpend' = {} PROVE FALSE
  BY DEF Stranded
<1>1. frames \in Seq(Frame) /\ Len(frames) \in Nat
  BY DEF HInv, FramesTypeOK
<1>2. pstate' = "running" /\ frames' # << >> /\ frames'[Len(frames')].at = "wait"
  BY DEF Stranded, HandlerRuns, Top
<1>3. ~ Parent
  BY <1>2 DEF Parent, PipeReserved, PipePin, PipePout, Pipe, Fatal, FreeReserved, ParentClose, CloseFarEnds,
              SetStops, Fork, AssignPid, SetKills, ParentRuns, sigVars
<1>4. ~ (Child \/ ChildEnds \/ Resume)
  BY DEF Child, ChildWires, ChildStep, Exec, ChildDelivers, ChildEnds, Resume
<1>5. ASSUME NEW sig \in Signals, Send(sig) PROVE FALSE
  <2>1. UNCHANGED <<frames, pstate, cstate>> /\ cpend \subseteq cpend'
    BY <1>5 DEF Send, sigVars
  <2>2. Stranded
    BY <1>2, <2>1 DEF Stranded, HandlerRuns, Top
  <2>3. QED
    BY <2>2
<1>6. ASSUME Handlers PROVE FALSE
  <2>1. frames' \in Seq(Frame) /\ Len(frames') \in 1 .. Len(frames')
    BY <1>2, <1>6, HandlerMoves
  <2>2. /\ Len(frames') = Len(frames) - 1
        /\ frames'[Len(frames')] = frames[Len(frames')] /\ ~ doCmdPid
    BY <1>1, <1>2, <1>6, <2>1, HandlerMoves
  <2>3. Len(frames') \in 1 .. Len(frames)
    BY <1>1, <2>1, <2>2
  <2>4. QED
    BY <1>2, <2>2, <2>3 DEF StrandInv, WaitHasPid
<1>7. QED
  BY <1>3, <1>4, <1>5, <1>6 DEF Next

\* However many signals arrive and handlers nest, a handler is left waiting for good in four
\* ways only (killchild and suspchild, ssh-fork.c:19-44).
THEOREM StrandedOnly == Spec => StrandedOnlyBy
<1>1. Init => StrandInv
  <2>1. Init => Len(frames) = 0 /\ cstate = "none"
    BY DEF Init
  <2>2. QED
    BY <2>1 DEF StrandInv, WaitHasPid, ReportHeld
<1>2. HInv /\ StrandInv /\ [Next]_vars => StrandInv'
  BY StrandStep
<1>3. HInv /\ HInv' /\ StrandInv /\ StrandInv' /\ [Next]_vars
        => [~ Stranded /\ Stranded' =>
               \/ cpc # "ssh"
               \/ pstate = "stopped"
               \/ cstate' = "stopped" /\ (Top'.sig \in KillSignals \/ Len(frames') > 1)]_vars
  <2> SUFFICES ASSUME HInv, HInv', StrandInv, StrandInv', Next, ~ Stranded, Stranded',
                      cpc = "ssh", pstate # "stopped"
               PROVE  cstate' = "stopped" /\ (Top'.sig \in KillSignals \/ Len(frames') > 1)
    OBVIOUS
  <2>1. cstate' = "stopped"
    BY StrandedRunning
  <2>2. ASSUME Top'.sig \notin KillSignals PROVE Len(frames') > 1
    <3>1. /\ reported' /\ pstate' = "running"
          /\ frames' # << >> /\ frames'[Len(frames')].at = "wait"
      BY <2>1, <2>2 DEF Stranded, HandlerRuns, Top
    <3>2. PICK i \in 1 .. Len(frames') : frames'[i].at = "finish"
      BY <2>1, <3>1 DEF StrandInv, ReportHeld
    <3>3. Len(frames') \in Nat
      BY DEF HInv, FramesTypeOK
    <3>4. i # Len(frames')
      BY <3>1, <3>2
    <3>5. QED
      BY <3>2, <3>3, <3>4
  <2>3. QED
    BY <2>1, <2>2
<1>4. QED
  BY <1>1, <1>2, <1>3, HInvariance, PTL DEF Spec, StrandedOnlyBy
=============================================================================
