-------------------------- MODULE HeaderWalk_proofs --------------------------
(***************************************************************************)
(* The walk of HeaderWalk is right for every include graph.  The argument: *)
(* the activations are a path of the graph through files entered before,   *)
(* each file once; what an activation's index has passed is entered, the   *)
(* system's or broken; and every file was entered from one entered before  *)
(* it, so that a file nothing reaches would need an earlier one.           *)
(***************************************************************************)
EXTENDS HeaderWalk, FiniteSetTheorems, FunctionTheorems, SequenceTheorems, WellFoundedInduction, TLAPS

Over == {"exit0", "exit1"}

\* What an include can be when the loop is past it.
Settled == Entered \cup System \cup broken

\* Each activation but the last is at the header the next one walks.
Calls ==
    /\ \A k \in 1 .. Len(frames) : frames[k].file \in Entered \ mute
    /\ \A j, k \in 1 .. Len(frames) : frames[j].file = frames[k].file => j = k
    /\ \A k \in 1 .. Len(frames) : k < Len(frames) => frames[k].i <= Len(incs[frames[k].file])
    /\ \A k \in 1 .. Len(frames) : k < Len(frames) =>
          incs[frames[k].file][frames[k].i] = frames[k + 1].file

\* What the index of an activation has passed is settled, and so are the includes of a
\* file whose activation has returned.
Progress ==
    /\ \A k \in 1 .. Len(frames) : \A m \in 1 .. Len(incs[frames[k].file]) :
          m < frames[k].i => incs[frames[k].file][m] \in Settled
    /\ \A f \in Entered \ mute :
          \/ \E k \in 1 .. Len(frames) : frames[k].file = f
          \/ \A m \in 1 .. Len(incs[f]) : incs[f][m] \in Settled

\* Every file but the first was entered once, from a file entered before it.
Origins ==
    /\ Len(stack) >= 1 /\ stack[1] = Source
    /\ \A j, k \in 1 .. Len(stack) : stack[j] = stack[k] => j = k
    /\ \A n \in 1 .. Len(stack) : n > 1 =>
          \E m \in 1 .. Len(stack) : \E k \in 1 .. Len(incs[stack[m]]) :
             /\ m < n /\ stack[m] \notin mute
             /\ stack[n] = incs[stack[m]][k] /\ stack[n] \notin System
    /\ mute \subseteq Entered /\ broken \cap Entered = {}
    /\ pc = "list" => Top.file = stack[Len(stack)]

\* The files whose loop is past their include of f.
Passed(f) ==
    {g \in Entered : \E k \in 1 .. Len(incs[g]) :
        incs[g][k] = f /\ \A j \in 1 .. Len(frames) : frames[j].file = g => k < frames[j].i}

\* No index moves back, and no file entered before gets a new activation in a step.
Onward ==
    \A j \in 1 .. Len(frames') : frames'[j].file \in Entered =>
        \E m \in 1 .. Len(frames) :
           frames[m].file = frames'[j].file /\ frames[m].i <= frames'[j].i

\* A header found broken was compiled once at most for each file that is past it.
Counts ==
    \A f \in Files :
        compiles[f] <= IF f \in broken THEN Cardinality(Passed(f)) ELSE IF f \in Entered THEN 1 ELSE 0

IInv == TypeOK /\ Calls /\ Progress /\ Origins

-----------------------------------------------------------------------------

USE FilesAssumption

\* The include lists are sequences of files.
LEMMA Lists == ASSUME incs \in Graphs, NEW f \in Files
               PROVE  /\ incs[f] \in Seq(Files) /\ Len(incs[f]) \in Nat
                      /\ \A k \in 1 .. Len(incs[f]) : incs[f][k] \in Files
BY GraphsAssumption

\* A sequence of frames, with its length as a number the provers can reckon with.
LEMMA FrameSeq == ASSUME NEW s \in Seq(Frame), s # << >>
                  PROVE  \E n \in Nat : n >= 1 /\ n = Len(s) /\ \A k \in 1 .. n : s[k] \in Frame
<1>1. Len(s) \in Nat /\ \A k \in 1 .. Len(s) : s[k] \in Frame
  BY LenProperties, ElementOfSeq
<1>2. Len(s) # 0
  BY EmptySeq
<1>3. \A n \in Nat : n # 0 => n >= 1
  OBVIOUS
<1>4. QED
  BY <1>1, <1>2, <1>3

\* The frames s with the index of the n-th activation advanced.
Advanced(s, n) == [s EXCEPT ![n].i = @ + 1]

\* The frames after an advance of the loop, field by field.
LEMMA AdvanceSeq ==
    \A s \in Seq(Frame) : \A n \in Nat : \A t :
        n >= 1 /\ n = Len(s) /\ t = Advanced(s, n) =>
           /\ t \in Seq(Frame) /\ Len(t) = n
           /\ \A k \in 1 .. n : t[k].file = s[k].file
           /\ \A k \in 1 .. n : t[k].i = IF k = n THEN s[k].i + 1 ELSE s[k].i
<1> TAKE s \in Seq(Frame)
<1> TAKE n \in Nat
<1>1. ASSUME n >= 1, n = Len(s)
      PROVE  /\ [s EXCEPT ![n].i = @ + 1] \in Seq(Frame) /\ Len([s EXCEPT ![n].i = @ + 1]) = n
             /\ \A k \in 1 .. n :
                   /\ [s EXCEPT ![n].i = @ + 1][k].file = s[k].file
                   /\ [s EXCEPT ![n].i = @ + 1][k].i = IF k = n THEN s[k].i + 1 ELSE s[k].i
  <2>1. n \in 1 .. n
    BY <1>1
  <2>2. \A k \in 1 .. Len(s) : s[k] \in Frame
    BY ElementOfSeq
  <2>3. s[n] \in Frame
    BY <1>1, <2>1, <2>2
  <2> DEFINE e == [s[n] EXCEPT !.i = @ + 1]
  <2>4. e \in Frame /\ e.file = s[n].file /\ e.i = s[n].i + 1
    BY <2>3 DEF Frame
  <2>5. [s EXCEPT ![n].i = @ + 1] = [s EXCEPT ![n] = e]
    OBVIOUS
  <2> HIDE DEF e
  <2>6. /\ [s EXCEPT ![n] = e] \in Seq(Frame) /\ Len([s EXCEPT ![n] = e]) = Len(s)
        /\ \A k \in 1 .. Len(s) : [s EXCEPT ![n] = e][k] = IF k = n THEN e ELSE s[k]
    BY <1>1, <2>1, <2>4, ExceptSeq
  <2>7. QED
    BY <1>1, <2>4, <2>5, <2>6
<1>2. QED
  BY <1>1 DEF Advanced

\* The frames after a return to the caller, field by field.
LEMMA PopSeq ==
    \A s \in Seq(Frame) : \A n \in Nat : \A t :
        n > 1 /\ n = Len(s) /\ t = Advanced(SubSeq(s, 1, n - 1), n - 1) =>
           /\ t \in Seq(Frame) /\ Len(t) = n - 1
           /\ \A k \in 1 .. n - 1 : t[k].file = s[k].file
           /\ \A k \in 1 .. n - 1 : t[k].i = IF k = n - 1 THEN s[k].i + 1 ELSE s[k].i
<1> TAKE s \in Seq(Frame)
<1> TAKE n \in Nat
<1> DEFINE u == SubSeq(s, 1, n - 1)
<1>1. ASSUME n > 1, n = Len(s)
      PROVE  u \in Seq(Frame) /\ Len(u) = n - 1 /\ \A k \in 1 .. n - 1 : u[k] = s[k]
  <2>1. \A k \in 1 .. Len(s) : s[k] \in Frame
    BY ElementOfSeq
  <2>2. \A k \in 1 .. n - 1 : s[k] \in Frame
    BY <1>1, <2>1
  <2>3. /\ u \in Seq(Frame) /\ Len(u) = IF 1 <= n - 1 THEN (n - 1) - 1 + 1 ELSE 0
        /\ \A k \in 1 .. (n - 1) - 1 + 1 : u[k] = s[1 + k - 1]
    BY <2>2, SubSeqProperties
  <2>4. QED
    BY <1>1, <2>3
<1> HIDE DEF u
<1>2. ASSUME n > 1, n = Len(s), NEW t, t = Advanced(u, n - 1)
      PROVE  /\ t \in Seq(Frame) /\ Len(t) = n - 1
             /\ \A k \in 1 .. n - 1 : t[k].file = s[k].file
             /\ \A k \in 1 .. n - 1 : t[k].i = IF k = n - 1 THEN s[k].i + 1 ELSE s[k].i
  <2>1. n - 1 \in Nat /\ n - 1 >= 1
    BY <1>2
  <2>2. /\ t \in Seq(Frame) /\ Len(t) = n - 1
        /\ \A k \in 1 .. n - 1 : t[k].file = u[k].file
        /\ \A k \in 1 .. n - 1 : t[k].i = IF k = n - 1 THEN u[k].i + 1 ELSE u[k].i
    BY <1>1, <1>2, <2>1, AdvanceSeq
  <2>3. QED
    BY <1>1, <1>2, <2>2
<1>3. QED
  BY <1>2 DEF u

\* The frames after a call, field by field.
LEMMA PushSeq ==
    \A s \in Seq(Frame) : \A n \in Nat : \A f \in Files : \A t :
        n = Len(s) /\ t = Append(s, [file |-> f, i |-> 1]) =>
           /\ t \in Seq(Frame) /\ Len(t) = n + 1
           /\ \A k \in 1 .. n : t[k] = s[k]
           /\ t[n + 1] = [file |-> f, i |-> 1]
<1>1. \A f \in Files : [file |-> f, i |-> 1] \in Frame
  BY DEF Frame
<1>2. QED
  BY <1>1, AppendProperties

\* A file appended to a sequence of files.
LEMMA AppendFile ==
    \A s \in Seq(Files) : \A n \in Nat : \A f \in Files : \A t :
        n = Len(s) /\ t = Append(s, f) =>
           /\ t \in Seq(Files) /\ Len(t) = n + 1
           /\ \A k \in 1 .. n : t[k] = s[k]
           /\ t[n + 1] = f
BY AppendProperties

-----------------------------------------------------------------------------

\* Where a walk that is not over stands: n activations, l files entered.
LEMMA Standing ==
    ASSUME TypeOK, pc \in {"list", "loop"}
    PROVE  \E n, l \in Nat :
              /\ n >= 1 /\ n = Len(frames) /\ frames \in Seq(Frame)
              /\ \A k \in 1 .. n : frames[k] \in Frame
              /\ l = Len(stack) /\ stack \in Seq(Files) /\ \A k \in 1 .. l : stack[k] \in Files
              /\ Top = frames[n] /\ Top \in Frame
<1>1. frames # << >> /\ frames \in Seq(Frame) /\ stack \in Seq(Files)
  BY DEF TypeOK
<1>2. PICK n \in Nat : n >= 1 /\ n = Len(frames) /\ \A k \in 1 .. n : frames[k] \in Frame
  BY <1>1, FrameSeq
<1>3. Len(stack) \in Nat /\ \A k \in 1 .. Len(stack) : stack[k] \in Files
  BY <1>1, LenProperties, ElementOfSeq
<1>4. n \in 1 .. n
  BY <1>2
<1>5. Top = frames[n] /\ Top \in Frame
  BY <1>2, <1>4 DEF Top
<1>6. QED
  BY <1>1, <1>2, <1>3, <1>5

\* The header a loop is at is a file.
LEMMA PathFile == ASSUME IInv, InLoop PROVE Path \in Files
<1>1. PICK n, l \in Nat : Top \in Frame
  BY Standing DEF IInv, InLoop
<1>2. Top.file \in Files /\ Top.i \in Nat \ {0}
  BY <1>1 DEF Frame
<1>3. Len(incs[Top.file]) \in Nat /\ Top.i <= Len(incs[Top.file])
  BY <1>2, Lists DEF InLoop, IInv, TypeOK
<1>4. Top.i \in 1 .. Len(incs[Top.file])
  BY <1>2, <1>3
<1>5. QED
  BY <1>2, <1>4, Lists DEF Path, IInv, TypeOK

\* The initial states satisfy the invariant.
LEMMA InitInv == Init => IInv
<1> SUFFICES ASSUME Init PROVE IInv
  OBVIOUS
<1>1. /\ incs \in Graphs /\ broken = {} /\ mute = {} /\ pc = "list" /\ stack = <<Source>>
      /\ frames = <<[file |-> Source, i |-> 1]>> /\ compiles = [f \in Files |-> 0]
  BY DEF Init
<1>2. /\ Len(frames) = 1 /\ frames[1] = [file |-> Source, i |-> 1]
      /\ Len(stack) = 1 /\ stack[1] = Source /\ frames # << >>
      /\ frames \in Seq(Frame) /\ stack \in Seq(Files)
  BY <1>1 DEF Frame
<1>3. Len(incs[Source]) \in Nat
  BY <1>1, Lists
<1>4. TypeOK
  BY <1>1, <1>2, <1>3 DEF TypeOK
<1>5. Entered = {Source}
  BY <1>2 DEF Entered
<1>6. Calls
  BY <1>1, <1>2, <1>5 DEF Calls
<1>7. Progress
  BY <1>1, <1>2, <1>3, <1>5 DEF Progress
<1>8. Origins
  BY <1>1, <1>2, <1>5 DEF Origins, Top
<1>9. QED
  BY <1>4, <1>6, <1>7, <1>8 DEF IInv

\* The loop goes on past a header that is settled by now.
LEMMA AdvanceInv ==
    ASSUME IInv, InLoop, NextHeader, UNCHANGED <<incs, mute, pc, stack>>,
           broken \subseteq broken', broken' \subseteq Files, broken' \cap Entered = {},
           Path \in Entered \cup System \cup broken', compiles' \in [Files -> Nat]
    PROVE  IInv' /\ Onward
<1>1. PICK n, l \in Nat :
              /\ n >= 1 /\ n = Len(frames) /\ frames \in Seq(Frame)
              /\ \A k \in 1 .. n : frames[k] \in Frame
              /\ l = Len(stack) /\ stack \in Seq(Files) /\ \A k \in 1 .. l : stack[k] \in Files
              /\ Top = frames[n] /\ Top \in Frame
  BY Standing DEF IInv, InLoop
<1>2. /\ frames' \in Seq(Frame) /\ Len(frames') = n
      /\ \A k \in 1 .. n : frames'[k].file = frames[k].file
      /\ \A k \in 1 .. n : frames'[k].i = IF k = n THEN frames[k].i + 1 ELSE frames[k].i
  <2>1. frames' = Advanced(frames, n)
    BY <1>1 DEF NextHeader, Advanced
  <2>2. QED
    BY <1>1, <2>1, AdvanceSeq
<1>3. Entered' = Entered /\ Settled \subseteq Settled'
  BY DEF Entered, Settled
<1>4. pc = "loop" /\ frames[n].i <= Len(incs[frames[n].file]) /\ Path = incs[frames[n].file][frames[n].i]
  BY <1>1 DEF InLoop, Path
<1>5. incs \in Graphs /\ \A f \in Files : Len(incs[f]) \in Nat
  BY Lists DEF IInv, TypeOK
<1>6. TypeOK'
  <2>1. \A k \in 1 .. n : frames'[k].i <= Len(incs[frames'[k].file]) + 1
    <3>1. SUFFICES ASSUME NEW k \in 1 .. n PROVE frames'[k].i <= Len(incs[frames[k].file]) + 1
      BY <1>2
    <3>2. frames[k].i \in Nat /\ frames[k].file \in Files /\ Len(incs[frames[k].file]) \in Nat
      BY <1>1, <1>5 DEF Frame
    <3>3. CASE k = n
      BY <1>2, <1>4, <3>2, <3>3
    <3>4. CASE k # n
      BY <1>1, <1>2, <3>2, <3>4 DEF IInv, TypeOK
    <3>5. QED
      BY <3>3, <3>4
  <2>2. frames' # << >>
    BY <1>1, <1>2, EmptySeq
  <2>3. QED
    BY <1>1, <1>2, <1>4, <2>1, <2>2 DEF IInv, TypeOK
<1>7. Calls'
  <2>1. \A k \in 1 .. n : k < n => frames'[k].i = frames[k].i
    BY <1>2
  <2>2. \A k \in 1 .. n : k < n => k + 1 \in 1 .. n
    BY <1>1
  <2>3. QED
    BY <1>1, <1>2, <1>3, <2>1, <2>2 DEF IInv, Calls
<1>8. Progress'
  <2>1. \A k \in 1 .. n : \A m \in 1 .. Len(incs[frames[k].file]) :
            m < frames'[k].i => incs[frames[k].file][m] \in Settled'
    <3>1. SUFFICES ASSUME NEW k \in 1 .. n, NEW m \in 1 .. Len(incs[frames[k].file]), m < frames'[k].i
                   PROVE  incs[frames[k].file][m] \in Settled'
      OBVIOUS
    <3>2. CASE m < frames[k].i
      BY <1>1, <1>3, <3>2 DEF IInv, Progress
    <3>3. CASE ~ (m < frames[k].i)
      <4>1. k = n /\ m = frames[k].i
        <5>1. frames[k].i \in Nat /\ frames[k].file \in Files
          BY <1>1 DEF Frame
        <5>2. Len(incs[frames[k].file]) \in Nat
          BY <1>5, <5>1
        <5>3. frames'[k].i = IF k = n THEN frames[k].i + 1 ELSE frames[k].i
          BY <1>2
        <5>4. QED
          BY <3>1, <3>3, <5>1, <5>2, <5>3
      <4>2. Path \in Settled'
        BY <1>3 DEF Settled
      <4>3. QED
        BY <1>4, <4>1, <4>2
    <3>4. QED
      BY <3>2, <3>3
  <2>2. \A f \in Entered \ mute : \/ \E k \in 1 .. n : frames'[k].file = f
                                  \/ \A m \in 1 .. Len(incs[f]) : incs[f][m] \in Settled'
    BY <1>1, <1>2, <1>3 DEF IInv, Progress
  <2>3. QED
    BY <1>2, <1>3, <2>1, <2>2 DEF Progress
<1>9. Origins'
  BY <1>3, <1>4 DEF IInv, Origins
<1>10. Onward
  <2>1. \A k \in 1 .. n : frames[k].i \in Nat
    BY <1>1 DEF Frame
  <2>2. \A k \in 1 .. n : frames[k].file = frames'[k].file /\ frames[k].i <= frames'[k].i
    BY <1>2, <2>1
  <2>3. QED
    BY <1>1, <1>2, <2>2 DEF Onward
<1>11. QED
  BY <1>6, <1>7, <1>8, <1>9, <1>10 DEF IInv

\* An activation returns: its file cannot be listed, or its includes are settled.
LEMMA ReturnInv ==
    ASSUME IInv, pc \in {"list", "loop"}, NEW code \in Over, Return(code),
           UNCHANGED <<incs, broken, stack, compiles>>,
           \/ pc = "list" /\ mute' = mute \cup {Top.file}
           \/ mute' = mute /\ \A m \in 1 .. Len(incs[Top.file]) : incs[Top.file][m] \in Settled
    PROVE  IInv' /\ Onward
<1>1. PICK n, l \in Nat :
              /\ n >= 1 /\ n = Len(frames) /\ frames \in Seq(Frame)
              /\ \A k \in 1 .. n : frames[k] \in Frame
              /\ l = Len(stack) /\ stack \in Seq(Files) /\ \A k \in 1 .. l : stack[k] \in Files
              /\ Top = frames[n] /\ Top \in Frame
  BY Standing DEF IInv
<1>2. /\ frames' \in Seq(Frame) /\ Len(frames') = n - 1
      /\ \A k \in 1 .. n - 1 : frames'[k].file = frames[k].file
      /\ \A k \in 1 .. n - 1 : frames'[k].i = IF k = n - 1 THEN frames[k].i + 1 ELSE frames[k].i
      /\ pc' = IF n = 1 THEN code ELSE "loop"
  <2>1. CASE n = 1
    BY <1>1, <2>1, EmptySeq DEF Return
  <2>2. CASE n # 1
    <3>1. pc' = "loop" /\ frames' = Advanced(SubSeq(frames, 1, n - 1), n - 1) /\ n > 1
      BY <1>1, <2>2 DEF Return, Popped, Advanced
    <3>2. \A t : n > 1 /\ n = Len(frames) /\ t = Advanced(SubSeq(frames, 1, n - 1), n - 1) =>
             /\ t \in Seq(Frame) /\ Len(t) = n - 1
             /\ \A k \in 1 .. n - 1 : t[k].file = frames[k].file
             /\ \A k \in 1 .. n - 1 : t[k].i = IF k = n - 1 THEN frames[k].i + 1 ELSE frames[k].i
      <4>1. frames \in Seq(Frame) /\ n \in Nat
        BY <1>1
      <4>2. QED
        BY <4>1, PopSeq, Zenon
    <3>3. QED
      BY <1>1, <2>2, <3>1, <3>2
  <2>3. QED
    BY <2>1, <2>2
<1>3. Entered' = Entered /\ Settled' = Settled
  BY DEF Entered, Settled
<1>4. incs \in Graphs /\ \A f \in Files : Len(incs[f]) \in Nat
  BY Lists DEF IInv, TypeOK
<1>5. /\ \A k \in 1 .. n - 1 : k \in 1 .. n /\ k < n /\ k + 1 \in 1 .. n
      /\ \A k \in 1 .. n : k # n => k \in 1 .. n - 1
      /\ n \in 1 .. n
  BY <1>1
<1>6. /\ mute \subseteq mute' /\ mute' \subseteq mute \cup {Top.file}
      /\ Top.file \in Entered /\ Top.file = frames[n].file
  BY <1>1, <1>5 DEF IInv, Calls
<1>7. TypeOK'
  <2>1. \A k \in 1 .. n - 1 : frames'[k].i <= Len(incs[frames'[k].file]) + 1
    <3>1. SUFFICES ASSUME NEW k \in 1 .. n - 1 PROVE frames'[k].i <= Len(incs[frames[k].file]) + 1
      BY <1>2
    <3>2. frames[k].i \in Nat /\ frames[k].file \in Files /\ Len(incs[frames[k].file]) \in Nat
      BY <1>1, <1>4, <1>5 DEF Frame
    <3>3. frames[k].i <= Len(incs[frames[k].file])
      BY <1>1, <1>5 DEF IInv, Calls
    <3>4. QED
      BY <1>2, <3>2, <3>3
  <2>2. frames' = << >> <=> n = 1
    BY <1>1, <1>2, EmptySeq
  <2>3. frames' = << >> <=> pc' \in {"exit0", "exit1"}
    BY <1>2, <2>2 DEF Over
  <2>4. pc' \in {"list", "loop", "exit0", "exit1"} /\ mute' \subseteq Files
    BY <1>1, <1>2, <1>6 DEF Over, IInv, TypeOK, Frame
  <2>5. QED
    BY <1>2, <2>1, <2>3, <2>4 DEF IInv, TypeOK
<1>8. Calls'
  <2>1. \A k \in 1 .. n - 1 : frames[k].file # Top.file
    BY <1>1, <1>5, <1>6 DEF IInv, Calls
  <2>2. \A k \in 1 .. n - 1 : frames'[k].file \in Entered' \ mute'
    BY <1>1, <1>2, <1>3, <1>5, <1>6, <2>1 DEF IInv, Calls
  <2>3. \A j, k \in 1 .. n - 1 : frames'[j].file = frames'[k].file => j = k
    BY <1>1, <1>2, <1>5 DEF IInv, Calls
  <2>4. \A k \in 1 .. n - 1 : k < n - 1 =>
            /\ frames'[k].i <= Len(incs[frames'[k].file])
            /\ incs[frames'[k].file][frames'[k].i] = frames'[k + 1].file
    <3>1. SUFFICES ASSUME NEW k \in 1 .. n - 1, k < n - 1
                   PROVE  /\ frames'[k].i <= Len(incs[frames'[k].file])
                          /\ incs[frames'[k].file][frames'[k].i] = frames'[k + 1].file
      OBVIOUS
    <3>2. k + 1 \in 1 .. n - 1 /\ k # n - 1
      BY <1>1, <3>1
    <3>3. /\ frames'[k].file = frames[k].file /\ frames'[k].i = frames[k].i
          /\ frames'[k + 1].file = frames[k + 1].file
      BY <1>2, <3>2
    <3>4. /\ frames[k].i <= Len(incs[frames[k].file])
          /\ incs[frames[k].file][frames[k].i] = frames[k + 1].file
      BY <1>1, <1>5 DEF IInv, Calls
    <3>5. QED
      BY <3>3, <3>4
  <2>5. QED
    BY <1>2, <2>2, <2>3, <2>4 DEF Calls
<1>9. Progress'
  <2>1. \A k \in 1 .. n - 1 : \A m \in 1 .. Len(incs[frames[k].file]) :
            m < frames'[k].i => incs[frames[k].file][m] \in Settled
    <3>1. SUFFICES ASSUME NEW k \in 1 .. n - 1, NEW m \in 1 .. Len(incs[frames[k].file]), m < frames'[k].i
                   PROVE  incs[frames[k].file][m] \in Settled
      OBVIOUS
    <3>2. CASE m < frames[k].i
      BY <1>1, <1>5, <3>2 DEF IInv, Progress
    <3>3. CASE ~ (m < frames[k].i)
      <4>1. k = n - 1 /\ m = frames[k].i
        <5>1. frames[k].i \in Nat /\ frames[k].file \in Files /\ Len(incs[frames[k].file]) \in Nat
          BY <1>1, <1>4, <1>5 DEF Frame
        <5>2. QED
          BY <1>2, <3>1, <3>3, <5>1
      <4>2. incs[frames[k].file][m] = frames[n].file
        <5>1. incs[frames[k].file][frames[k].i] = frames[k + 1].file /\ k + 1 = n
          BY <1>1, <1>5, <4>1 DEF IInv, Calls
        <5>2. QED
          BY <4>1, <5>1
      <4>3. QED
        BY <1>6, <4>2 DEF Settled
    <3>4. QED
      BY <3>2, <3>3
  <2>2. \A f \in Entered \ mute' :
            \/ \E k \in 1 .. n - 1 : frames'[k].file = f
            \/ \A m \in 1 .. Len(incs[f]) : incs[f][m] \in Settled
    <3>1. SUFFICES ASSUME NEW f \in Entered \ mute'
                   PROVE  \/ \E k \in 1 .. n - 1 : frames'[k].file = f
                          \/ \A m \in 1 .. Len(incs[f]) : incs[f][m] \in Settled
      OBVIOUS
    <3>2. CASE f = Top.file
      BY <3>1, <3>2
    <3>3. CASE f # Top.file
      <4>1. \/ \E k \in 1 .. n : frames[k].file = f
            \/ \A m \in 1 .. Len(incs[f]) : incs[f][m] \in Settled
        BY <1>1, <1>6, <3>1 DEF IInv, Progress
      <4>2. ASSUME NEW k \in 1 .. n, frames[k].file = f PROVE \E j \in 1 .. n - 1 : frames'[j].file = f
        <5>1. k \in 1 .. n - 1
          BY <1>1, <1>5, <3>3, <4>2
        <5>2. QED
          BY <1>2, <4>2, <5>1
      <4>3. QED
        BY <4>1, <4>2
    <3>4. QED
      BY <3>2, <3>3
  <2>3. QED
    BY <1>2, <1>3, <2>1, <2>2 DEF Progress
<1>10. Origins'
  <2>1. CASE mute' = mute
    BY <1>2, <1>3, <2>1 DEF IInv, Origins, Over
  <2>2. CASE pc = "list" /\ mute' = mute \cup {Top.file}
    <3>1. \A m, k \in 1 .. l : m < k => stack[m] # Top.file
      <4>1. Top.file = stack[l] /\ l \in 1 .. l
        BY <1>1, <2>2 DEF IInv, Origins
      <4>2. QED
        BY <1>1, <4>1 DEF IInv, Origins
    <3>2. mute' \subseteq Entered'
      BY <1>3, <1>6, <2>2 DEF IInv, Origins
    <3>3. QED
      BY <1>1, <1>2, <1>3, <2>2, <3>1, <3>2 DEF IInv, Origins, Over
  <2>3. QED
    BY <2>1, <2>2
<1>11. Onward
  <2>1. \A k \in 1 .. n : frames[k].i \in Nat
    BY <1>1 DEF Frame
  <2>2. \A k \in 1 .. n - 1 : frames[k].file = frames'[k].file /\ frames[k].i <= frames'[k].i
    BY <1>2, <1>5, <2>1
  <2>3. QED
    BY <1>1, <1>2, <1>5, <2>2 DEF Onward
<1>12. QED
  BY <1>7, <1>8, <1>9, <1>10, <1>11 DEF IInv

\* The walk enters a header that compiles.
LEMMA EnterInv == IInv /\ Enter => IInv' /\ Onward
<1> SUFFICES ASSUME IInv, Enter PROVE IInv' /\ Onward
  OBVIOUS
<1>0. /\ pc = "loop" /\ Top.i <= Len(incs[Top.file]) /\ Path \notin Entered \cup System
      /\ Path \notin broken /\ pc' = "list" /\ stack' = Append(stack, Path)
      /\ frames' = Append(frames, [file |-> Path, i |-> 1])
      /\ compiles' = [compiles EXCEPT ![Path] = @ + 1]
      /\ incs' = incs /\ broken' = broken /\ mute' = mute
  BY DEF Enter, Fresh, InLoop, CompilePath
<1>1. PICK n, l \in Nat :
              /\ n >= 1 /\ n = Len(frames) /\ frames \in Seq(Frame)
              /\ \A k \in 1 .. n : frames[k] \in Frame
              /\ l = Len(stack) /\ stack \in Seq(Files) /\ \A k \in 1 .. l : stack[k] \in Files
              /\ Top = frames[n] /\ Top \in Frame
  BY <1>0, Standing DEF IInv
<1>2. /\ incs \in Graphs /\ \A f \in Files : Len(incs[f]) \in Nat
      /\ \A f \in Files : \A k \in 1 .. Len(incs[f]) : incs[f][k] \in Files
  BY Lists DEF IInv, TypeOK
<1>3. Top.i \in 1 .. Len(incs[Top.file]) /\ Top.file \in Files /\ Path = incs[Top.file][Top.i] /\ Path \in Files
  BY <1>0, <1>1, <1>2 DEF Frame, Path
<1>4. /\ frames' \in Seq(Frame) /\ Len(frames') = n + 1
      /\ \A k \in 1 .. n : frames'[k] = frames[k]
      /\ frames'[n + 1] = [file |-> Path, i |-> 1]
  <2>1. frames \in Seq(Frame) /\ n \in Nat /\ Path \in Files
    BY <1>1, <1>3
  <2>2. \A t : n = Len(frames) /\ t = Append(frames, [file |-> Path, i |-> 1]) =>
           /\ t \in Seq(Frame) /\ Len(t) = n + 1
           /\ \A k \in 1 .. n : t[k] = frames[k]
           /\ t[n + 1] = [file |-> Path, i |-> 1]
    BY <2>1, PushSeq, Zenon
  <2>3. QED
    BY <1>0, <1>1, <2>2
<1>5. /\ stack' \in Seq(Files) /\ Len(stack') = l + 1
      /\ \A k \in 1 .. l : stack'[k] = stack[k]
      /\ stack'[l + 1] = Path
  BY <1>0, <1>1, <1>3, AppendFile
<1>6. Entered' = Entered \cup {Path} /\ Settled \subseteq Settled' /\ Path \in Settled'
  <2>1. Entered' = {stack'[k] : k \in 1 .. l + 1} /\ Entered = {stack[k] : k \in 1 .. l}
    BY <1>1, <1>5 DEF Entered
  <2>2. Entered' = Entered \cup {Path}
    BY <1>5, <2>1
  <2>3. QED
    BY <1>0, <2>2 DEF Settled
<1>7. /\ \A k \in 1 .. n : frames[k].file \in Entered \ mute /\ frames[k].file # Path
      /\ \A k \in 1 .. l : stack[k] # Path
      /\ n \in 1 .. n /\ Top.file \in Entered /\ Top.file \notin mute
  BY <1>0, <1>1 DEF IInv, Calls, Entered
<1>8. TypeOK'
  <2>1. \A k \in 1 .. n + 1 : frames'[k].i <= Len(incs[frames'[k].file]) + 1
    <3>1. \A k \in 1 .. n : frames'[k].i <= Len(incs[frames'[k].file]) + 1
      BY <1>1, <1>4 DEF IInv, TypeOK
    <3>2. frames'[n + 1].i <= Len(incs[frames'[n + 1].file]) + 1
      BY <1>2, <1>3, <1>4
    <3>3. \A k \in 1 .. n + 1 : k \in 1 .. n \/ k = n + 1
      OBVIOUS
    <3>4. QED
      BY <3>1, <3>2, <3>3
  <2>2. frames' # << >>
    BY <1>4, EmptySeq
  <2>3. compiles' \in [Files -> Nat]
    <3>1. compiles \in [Files -> Nat] /\ compiles[Path] + 1 \in Nat
      BY <1>3 DEF IInv, TypeOK
    <3>2. QED
      BY <1>0, <3>1
  <2>4. QED
    BY <1>0, <1>4, <1>5, <2>1, <2>2, <2>3 DEF IInv, TypeOK
<1>9. Calls'
  <2>1. \A k \in 1 .. n + 1 : k \in 1 .. n \/ k = n + 1
    OBVIOUS
  <2>2. Path \notin mute
    BY <1>0 DEF IInv, Origins
  <2>3. \A k \in 1 .. n + 1 : frames'[k].file \in Entered' \ mute
    BY <1>4, <1>6, <1>7, <2>1, <2>2
  <2>4. \A j, k \in 1 .. n + 1 : frames'[j].file = frames'[k].file => j = k
    <3>1. \A j, k \in 1 .. n : frames'[j].file = frames'[k].file => j = k
      BY <1>1, <1>4 DEF IInv, Calls
    <3>2. \A k \in 1 .. n : frames'[k].file # frames'[n + 1].file
      BY <1>4, <1>7
    <3>3. QED
      BY <2>1, <3>1, <3>2
  <2>5. \A k \in 1 .. n + 1 : k < n + 1 =>
            /\ frames'[k].i <= Len(incs[frames'[k].file])
            /\ incs[frames'[k].file][frames'[k].i] = frames'[k + 1].file
    <3>1. SUFFICES ASSUME NEW k \in 1 .. n
                   PROVE  /\ frames[k].i <= Len(incs[frames[k].file])
                          /\ incs[frames[k].file][frames[k].i] = frames'[k + 1].file
      BY <1>4
    <3>2. CASE k = n
      BY <1>1, <1>3, <1>4, <3>2
    <3>3. CASE k # n
      <4>1. k < n /\ k + 1 \in 1 .. n
        BY <1>1, <3>3
      <4>2. QED
        BY <1>1, <1>4, <4>1 DEF IInv, Calls
    <3>4. QED
      BY <3>2, <3>3
  <2>6. QED
    BY <1>0, <1>4, <2>3, <2>4, <2>5 DEF Calls
<1>10. Progress'
  <2>1. \A k \in 1 .. n + 1 : \A m \in 1 .. Len(incs[frames'[k].file]) :
            m < frames'[k].i => incs[frames'[k].file][m] \in Settled'
    <3>1. \A k \in 1 .. n : \A m \in 1 .. Len(incs[frames'[k].file]) :
              m < frames'[k].i => incs[frames'[k].file][m] \in Settled'
      BY <1>1, <1>4, <1>6 DEF IInv, Progress
    <3>2. \A m \in 1 .. Len(incs[Path]) : ~ (m < frames'[n + 1].i)
      BY <1>4
    <3>3. \A k \in 1 .. n + 1 : k \in 1 .. n \/ k = n + 1
      OBVIOUS
    <3>4. QED
      BY <1>4, <3>1, <3>2, <3>3
  <2>2. \A f \in Entered' \ mute : \/ \E k \in 1 .. n + 1 : frames'[k].file = f
                                   \/ \A m \in 1 .. Len(incs[f]) : incs[f][m] \in Settled'
    <3>1. SUFFICES ASSUME NEW f \in Entered' \ mute
                   PROVE  \/ \E k \in 1 .. n + 1 : frames'[k].file = f
                          \/ \A m \in 1 .. Len(incs[f]) : incs[f][m] \in Settled'
      OBVIOUS
    <3>2. CASE f = Path
      <4>1. n + 1 \in 1 .. n + 1 /\ frames'[n + 1].file = f
        BY <1>4, <3>2
      <4>2. QED
        BY <4>1
    <3>3. CASE f # Path
      <4>1. \/ \E k \in 1 .. n : frames[k].file = f
            \/ \A m \in 1 .. Len(incs[f]) : incs[f][m] \in Settled
        BY <1>1, <1>6, <3>1, <3>3 DEF IInv, Progress
      <4>2. \A k \in 1 .. n : k \in 1 .. n + 1
        OBVIOUS
      <4>3. QED
        BY <1>4, <1>6, <4>1, <4>2
    <3>4. QED
      BY <3>2, <3>3
  <2>3. QED
    BY <1>0, <1>4, <2>1, <2>2 DEF Progress
<1>11. Origins'
  <2>1. Len(stack') >= 1 /\ stack'[1] = Source
    BY <1>1, <1>5 DEF IInv, Origins
  <2>2. \A k \in 1 .. l + 1 : k \in 1 .. l \/ k = l + 1
    OBVIOUS
  <2>3. \A j, k \in 1 .. l + 1 : stack'[j] = stack'[k] => j = k
    <3>1. \A j, k \in 1 .. l : stack'[j] = stack'[k] => j = k
      BY <1>1, <1>5 DEF IInv, Origins
    <3>2. \A k \in 1 .. l : stack'[k] # stack'[l + 1]
      BY <1>5, <1>7
    <3>3. QED
      BY <2>2, <3>1, <3>2
  <2>4. \A x \in 1 .. l + 1 : x > 1 =>
          \E m \in 1 .. l + 1 : \E k \in 1 .. Len(incs[stack'[m]]) :
             /\ m < x /\ stack'[m] \notin mute
             /\ stack'[x] = incs[stack'[m]][k] /\ stack'[x] \notin System
    <3>1. SUFFICES ASSUME NEW x \in 1 .. l + 1, x > 1
                   PROVE  \E m \in 1 .. l + 1 : \E k \in 1 .. Len(incs[stack'[m]]) :
                             /\ m < x /\ stack'[m] \notin mute
                             /\ stack'[x] = incs[stack'[m]][k] /\ stack'[x] \notin System
      OBVIOUS
    <3>2. CASE x \in 1 .. l
      <4>1. PICK m \in 1 .. l : \E k \in 1 .. Len(incs[stack[m]]) :
               /\ m < x /\ stack[m] \notin mute
               /\ stack[x] = incs[stack[m]][k] /\ stack[x] \notin System
        BY <1>1, <3>1, <3>2 DEF IInv, Origins
      <4>2. m \in 1 .. l + 1 /\ stack'[m] = stack[m] /\ stack'[x] = stack[x]
        BY <1>5, <3>2
      <4>3. QED
        BY <4>1, <4>2
    <3>3. CASE x = l + 1
      <4>1. PICK m \in 1 .. l : stack[m] = Top.file
        BY <1>1, <1>7 DEF Entered
      <4>2. m \in 1 .. l + 1 /\ m < x /\ stack'[m] = Top.file /\ stack'[x] = Path
        BY <1>5, <3>3, <4>1
      <4>3. QED
        BY <1>0, <1>3, <1>7, <4>2
    <3>4. QED
      BY <2>2, <3>2, <3>3
  <2>5. Top' = [file |-> Path, i |-> 1]
    BY <1>4 DEF Top
  <2>6. Top'.file = stack'[Len(stack')]
    BY <1>5, <2>5
  <2>7. mute' \subseteq Entered' /\ broken' \cap Entered' = {}
    BY <1>0, <1>6 DEF IInv, Origins
  <2>8. QED
    BY <1>0, <1>5, <2>1, <2>3, <2>4, <2>6, <2>7 DEF Origins
<1>12. Onward
  <2>1. \A k \in 1 .. n : frames[k].i \in Nat
    BY <1>1 DEF Frame
  <2>2. \A k \in 1 .. n + 1 : k \in 1 .. n \/ k = n + 1
    OBVIOUS
  <2>3. \A k \in 1 .. n : frames[k].file = frames'[k].file /\ frames[k].i <= frames'[k].i
    BY <1>4, <2>1
  <2>4. frames'[n + 1].file \notin Entered
    BY <1>0, <1>4
  <2>5. QED
    BY <1>1, <1>4, <2>2, <2>3, <2>4 DEF Onward
<1>13. QED
  BY <1>8, <1>9, <1>10, <1>11, <1>12 DEF IInv

LEMMA OnwardSame == ASSUME IInv, frames' = frames PROVE Onward
<1>1. frames \in Seq(Frame)
  BY DEF IInv, TypeOK
<1>2. \A k \in 1 .. Len(frames) : frames[k] \in Frame
  BY <1>1, ElementOfSeq
<1>3. \A k \in 1 .. Len(frames) : frames[k].i <= frames[k].i
  BY <1>2 DEF Frame
<1>4. QED
  BY <1>3 DEF Onward

\* Every step preserves the invariant.
LEMMA StepInv == IInv /\ [Next]_vars => IInv' /\ Onward
<1> SUFFICES ASSUME IInv, [Next]_vars PROVE IInv' /\ Onward
  OBVIOUS
<1>1. CASE ListIncludes
  <2>1. pc = "list" /\ pc' = "loop" /\ UNCHANGED <<incs, broken, mute, stack, frames, compiles>>
    BY <1>1 DEF ListIncludes
  <2>2. Entered' = Entered /\ Settled' = Settled
    BY <2>1 DEF Entered, Settled
  <2>3. TypeOK'
    BY <2>1 DEF IInv, TypeOK
  <2>4. Calls'
    BY <2>1, <2>2 DEF IInv, Calls
  <2>5. Progress'
    BY <2>1, <2>2 DEF IInv, Progress
  <2>6. Origins'
    BY <2>1, <2>2 DEF IInv, Origins
  <2>7. Onward
    BY <2>1, OnwardSame
  <2>8. QED
    BY <2>3, <2>4, <2>5, <2>6, <2>7 DEF IInv
<1>2. CASE ListFails
  BY <1>2, ReturnInv DEF ListFails, Over
<1>3. CASE Skip
  <2>1. broken' = broken /\ compiles' = compiles /\ Path \in Entered \cup System \cup broken'
    BY <1>3 DEF Skip
  <2>2. broken' \subseteq Files /\ broken' \cap Entered = {} /\ compiles' \in [Files -> Nat]
    BY <2>1 DEF IInv, TypeOK, Origins
  <2>3. QED
    BY <1>3, <2>1, <2>2, AdvanceInv DEF Skip
<1>4. CASE CompileFails
  <2>1. /\ InLoop /\ Path \notin Entered /\ broken' = broken \cup {Path}
        /\ compiles' = [compiles EXCEPT ![Path] = @ + 1]
    BY <1>4 DEF CompileFails, Fresh, CompilePath
  <2>2. Path \in Files
    BY <2>1, PathFile
  <2>3. broken' \subseteq Files /\ broken' \cap Entered = {}
    BY <2>1, <2>2 DEF IInv, TypeOK, Origins
  <2>4. compiles' \in [Files -> Nat]
    <3>1. compiles \in [Files -> Nat] /\ compiles[Path] + 1 \in Nat
      BY <2>2 DEF IInv, TypeOK
    <3>2. QED
      BY <2>1, <3>1
  <2>5. QED
    BY <1>4, <2>1, <2>3, <2>4, AdvanceInv DEF CompileFails
<1>5. CASE Enter
  BY <1>5, EnterInv
<1>6. CASE Leave
  <2>1. /\ pc = "loop" /\ Top.i > Len(incs[Top.file]) /\ Return("exit0")
        /\ UNCHANGED <<incs, broken, mute, stack, compiles>>
    BY <1>6 DEF Leave
  <2>2. PICK n, l \in Nat : n >= 1 /\ n = Len(frames) /\ Top = frames[n] /\ Top \in Frame
    BY <2>1, Standing DEF IInv
  <2>3. n \in 1 .. n
    BY <2>2
  <2>4. Top.i \in Nat /\ Top.file \in Files /\ Len(incs[Top.file]) \in Nat
    BY <2>2, Lists DEF Frame, IInv, TypeOK
  <2>5. \A m \in 1 .. Len(incs[Top.file]) : m < Top.i
    BY <2>1, <2>4
  <2>6. \A m \in 1 .. Len(incs[Top.file]) : incs[Top.file][m] \in Settled
    BY <2>2, <2>3, <2>5 DEF IInv, Progress
  <2>7. QED
    BY <2>1, <2>6, ReturnInv DEF Over
<1>7. CASE UNCHANGED vars
  <2>1. UNCHANGED <<incs, broken, mute, pc, stack, frames, compiles>>
    BY <1>7 DEF vars
  <2>2. Entered' = Entered /\ Settled' = Settled /\ Top' = Top
    BY <2>1 DEF Entered, Settled, Top
  <2>3. Onward
    BY <2>1, OnwardSame
  <2>4. QED
    BY <2>1, <2>2, <2>3 DEF IInv, TypeOK, Calls, Progress, Origins
<1>8. QED
  BY <1>1, <1>2, <1>3, <1>4, <1>5, <1>6, <1>7 DEF Next

\* No file's loop comes back before an include it has passed.
LEMMA PassedGrows ==
    ASSUME IInv, IInv', incs' = incs, Onward, Entered \subseteq Entered', NEW f
    PROVE  /\ Passed(f) \subseteq Passed(f)'
           /\ IsFiniteSet(Passed(f)) /\ IsFiniteSet(Passed(f)')
           /\ Cardinality(Passed(f)) \in Nat /\ Cardinality(Passed(f)') \in Nat
           /\ Cardinality(Passed(f)) <= Cardinality(Passed(f)')
<1>1. /\ \A m \in 1 .. Len(frames) : frames[m].i \in Nat
      /\ \A j \in 1 .. Len(frames') : frames'[j].i \in Nat
  <2>1. frames \in Seq(Frame) /\ frames' \in Seq(Frame)
    BY DEF IInv, TypeOK
  <2>2. \A m \in 1 .. Len(frames) : frames[m] \in Frame
    BY <2>1, ElementOfSeq
  <2>3. \A j \in 1 .. Len(frames') : frames'[j] \in Frame
    BY <2>1, ElementOfSeq
  <2>4. QED
    BY <2>2, <2>3 DEF Frame
<1>2. \A g \in Files : Len(incs[g]) \in Nat
  BY Lists DEF IInv, TypeOK
<1>3. Entered \subseteq Files /\ Entered' \subseteq Files
  <2>1. stack \in Seq(Files) /\ stack' \in Seq(Files)
    BY DEF IInv, TypeOK
  <2>2. QED
    BY <2>1, ElementOfSeq DEF Entered
<1>4. ASSUME NEW g \in Passed(f) PROVE g \in Passed(f)'
  <2>1. PICK k \in 1 .. Len(incs[g]) :
           incs[g][k] = f /\ \A j \in 1 .. Len(frames) : frames[j].file = g => k < frames[j].i
    BY <1>4 DEF Passed
  <2>2. g \in Entered /\ k \in Nat
    BY <1>2, <1>3, <1>4 DEF Passed
  <2>3. ASSUME NEW j \in 1 .. Len(frames'), frames'[j].file = g PROVE k < frames'[j].i
    <3>1. PICK m \in 1 .. Len(frames) :
             frames[m].file = frames'[j].file /\ frames[m].i <= frames'[j].i
      BY <2>2, <2>3 DEF Onward
    <3>2. k < frames[m].i
      BY <2>1, <2>3, <3>1
    <3>3. QED
      BY <1>1, <2>2, <3>1, <3>2
  <2>4. QED
    BY <2>1, <2>2, <2>3 DEF Passed
<1>5. Passed(f) \subseteq Passed(f)' /\ Passed(f)' \subseteq Files
  BY <1>3, <1>4 DEF Passed
<1>6. IsFiniteSet(Passed(f)')
  BY <1>5, FS_Subset
<1>7. IsFiniteSet(Passed(f)) /\ Cardinality(Passed(f)) <= Cardinality(Passed(f)')
  BY <1>5, <1>6, FS_Subset
<1>8. QED
  BY <1>5, <1>6, <1>7, FS_CardinalityType

\* A file whose loop goes on past the header f it found broken had not passed it before.
LEMMA PassesPath ==
    ASSUME IInv, CompileFails, NEW f, f = Path
    PROVE  f \in Files /\ Top.file \in Passed(f)' /\ Top.file \notin Passed(f)
<1>1. InLoop /\ NextHeader /\ incs' = incs /\ stack' = stack
  BY DEF CompileFails, Fresh
<1>2. PICK n, l \in Nat :
              /\ n >= 1 /\ n = Len(frames) /\ frames \in Seq(Frame)
              /\ \A k \in 1 .. n : frames[k] \in Frame
              /\ l = Len(stack) /\ stack \in Seq(Files) /\ \A k \in 1 .. l : stack[k] \in Files
              /\ Top = frames[n] /\ Top \in Frame
  BY <1>1, Standing DEF IInv, InLoop
<1>3. /\ Len(frames') = n
      /\ \A k \in 1 .. n : frames'[k].file = frames[k].file
      /\ \A k \in 1 .. n : frames'[k].i = IF k = n THEN frames[k].i + 1 ELSE frames[k].i
  <2>1. frames' = Advanced(frames, n)
    BY <1>1, <1>2 DEF NextHeader, Advanced
  <2>2. frames \in Seq(Frame) /\ n \in Nat
    BY <1>2
  <2>3. \A t : n >= 1 /\ n = Len(frames) /\ t = Advanced(frames, n) =>
           /\ t \in Seq(Frame) /\ Len(t) = n
           /\ \A k \in 1 .. n : t[k].file = frames[k].file
           /\ \A k \in 1 .. n : t[k].i = IF k = n THEN frames[k].i + 1 ELSE frames[k].i
    BY <2>2, AdvanceSeq, Zenon
  <2>4. QED
    BY <1>2, <2>1, <2>3
<1> DEFINE g == Top.file
<1> DEFINE i == Top.i
<1>4. n \in 1 .. n /\ i \in Nat /\ i >= 1 /\ g \in Files /\ frames[n].file = g /\ frames[n].i = i
  BY <1>2 DEF Frame
<1>5. Len(incs[g]) \in Nat /\ \A k \in 1 .. Len(incs[g]) : incs[g][k] \in Files
  BY <1>4, Lists DEF IInv, TypeOK
<1>6. i \in 1 .. Len(incs[g]) /\ f = incs[g][i]
  BY <1>1, <1>4, <1>5 DEF InLoop, Path
<1>7. g \in Entered /\ \A j \in 1 .. n : frames[j].file = g => j = n
  BY <1>2, <1>4 DEF IInv, Calls
<1> HIDE DEF g, i
<1>8. \A j \in 1 .. Len(frames') : frames'[j].file = g => i < frames'[j].i
  BY <1>3, <1>4, <1>7
<1>9. g \in Passed(f)'
  <2>1. \E k \in 1 .. Len(incs'[g]) :
           incs'[g][k] = f /\ \A j \in 1 .. Len(frames') : frames'[j].file = g => k < frames'[j].i
    BY <1>1, <1>6, <1>8
  <2>2. g \in Entered'
    BY <1>1, <1>7 DEF Entered
  <2>3. QED
    BY <2>1, <2>2 DEF Passed
<1>10. g \notin Passed(f)
  <2>1. SUFFICES ASSUME NEW k \in 1 .. Len(incs[g]), incs[g][k] = f,
                        \A j \in 1 .. Len(frames) : frames[j].file = g => k < frames[j].i
                 PROVE  FALSE
    BY DEF Passed
  <2>2. k < i
    BY <1>2, <1>4, <2>1
  <2>3. k = i
    BY <1>4, <1>6, <2>1, GraphsAssumption DEF IInv, TypeOK
  <2>4. QED
    BY <1>4, <2>2, <2>3
<1>11. QED
  BY <1>5, <1>6, <1>9, <1>10 DEF g

\* A header is compiled in CompileFails and Enter only.
LEMMA CountsInv == IInv /\ Counts /\ [Next]_vars => Counts'
<1> SUFFICES ASSUME IInv, Counts, [Next]_vars PROVE Counts'
  OBVIOUS
<1>1. IInv' /\ Onward
  BY StepInv
<1>2. /\ compiles \in [Files -> Nat] /\ compiles' \in [Files -> Nat]
      /\ \A f \in Files : compiles[f] \in Nat /\ compiles'[f] \in Nat
  BY <1>1 DEF IInv, TypeOK
<1>3. ASSUME incs' = incs, Entered \subseteq Entered'
      PROVE  \A f : /\ Passed(f) \subseteq Passed(f)' /\ IsFiniteSet(Passed(f)')
                    /\ IsFiniteSet(Passed(f))
                    /\ Cardinality(Passed(f)) \in Nat /\ Cardinality(Passed(f)') \in Nat
                    /\ Cardinality(Passed(f)) <= Cardinality(Passed(f)')
  BY <1>1, <1>3, PassedGrows
<1>4. \A f \in Files :
         compiles[f] <= IF f \in broken THEN Cardinality(Passed(f)) ELSE IF f \in Entered THEN 1 ELSE 0
  BY DEF Counts
<1>5. ASSUME UNCHANGED <<incs, broken, stack, compiles>> PROVE Counts'
  <2>1. Entered' = Entered
    BY <1>5 DEF Entered
  <2>2. SUFFICES ASSUME NEW f \in Files
                 PROVE  compiles[f] <= IF f \in broken THEN Cardinality(Passed(f)')
                                       ELSE IF f \in Entered THEN 1 ELSE 0
    BY <1>5, <2>1 DEF Counts
  <2>3. /\ Cardinality(Passed(f)) \in Nat /\ Cardinality(Passed(f)') \in Nat
        /\ Cardinality(Passed(f)) <= Cardinality(Passed(f)')
    BY <1>3, <1>5, <2>1
  <2>4. QED
    BY <1>2, <1>4, <2>3
<1>6. CASE CompileFails
  <2>1. /\ Path \notin Entered /\ incs' = incs /\ stack' = stack
        /\ compiles' = [compiles EXCEPT ![Path] = @ + 1] /\ broken' = broken \cup {Path}
    BY <1>6 DEF CompileFails, Fresh, CompilePath
  <2>2. Entered' = Entered
    BY <2>1 DEF Entered
  <2>3. SUFFICES ASSUME NEW f \in Files
                 PROVE  compiles'[f] <= IF f \in broken' THEN Cardinality(Passed(f)')
                                        ELSE IF f \in Entered' THEN 1 ELSE 0
    BY DEF Counts
  <2>4. /\ Passed(f) \subseteq Passed(f)' /\ IsFiniteSet(Passed(f)) /\ IsFiniteSet(Passed(f)')
        /\ Cardinality(Passed(f)) \in Nat /\ Cardinality(Passed(f)') \in Nat
        /\ Cardinality(Passed(f)) <= Cardinality(Passed(f)')
    BY <1>3, <2>1, <2>2
  <2>5. CASE f = Path
    <3>1. Top.file \in Passed(f)' /\ Top.file \notin Passed(f)
      BY <1>6, <2>5, PassesPath
    <3>2. Passed(f) \cup {Top.file} \subseteq Passed(f)'
      BY <2>4, <3>1
    <3>3. Cardinality(Passed(f) \cup {Top.file}) = Cardinality(Passed(f)) + 1
      BY <2>4, <3>1, FS_AddElement
    <3>4. Cardinality(Passed(f) \cup {Top.file}) <= Cardinality(Passed(f)')
      BY <2>4, <3>2, FS_Subset
    <3>5. compiles[f] <= Cardinality(Passed(f))
      BY <1>2, <1>4, <2>1, <2>4, <2>5
    <3>6. compiles'[f] = compiles[f] + 1 /\ f \in broken'
      BY <1>2, <2>1, <2>5
    <3>7. compiles'[f] <= Cardinality(Passed(f)')
      BY <1>2, <2>4, <3>3, <3>4, <3>5, <3>6
    <3>8. QED
      BY <3>6, <3>7
  <2>6. CASE f # Path
    <3>1. compiles'[f] = compiles[f] /\ (f \in broken' <=> f \in broken)
      BY <1>2, <2>1, <2>6
    <3>2. QED
      BY <1>2, <1>4, <2>2, <2>4, <3>1
  <2>7. QED
    BY <2>5, <2>6
<1>7. CASE Enter
  <2>1. /\ InLoop /\ Path \notin Entered /\ Path \notin broken /\ incs' = incs /\ broken' = broken
        /\ stack' = Append(stack, Path) /\ compiles' = [compiles EXCEPT ![Path] = @ + 1]
    BY <1>7 DEF Enter, Fresh, CompilePath
  <2>2. PICK n, l \in Nat : /\ l = Len(stack) /\ stack \in Seq(Files)
                            /\ \A k \in 1 .. l : stack[k] \in Files
    BY <2>1, Standing DEF IInv, InLoop
  <2>3. Path \in Files
    BY <1>1, <2>1, PathFile DEF IInv
  <2>4. /\ Len(stack') = l + 1 /\ stack'[l + 1] = Path
        /\ \A k \in 1 .. l : stack'[k] = stack[k]
    BY <2>1, <2>2, <2>3, AppendFile
  <2>5. Entered \subseteq Entered' /\ Path \in Entered'
    <3>1. Entered' = {stack'[k] : k \in 1 .. l + 1} /\ Entered = {stack[k] : k \in 1 .. l}
      BY <2>2, <2>4 DEF Entered
    <3>2. l + 1 \in 1 .. l + 1 /\ \A k \in 1 .. l : k \in 1 .. l + 1
      BY <2>2
    <3>3. Path \in Entered'
      BY <2>4, <3>1, <3>2
    <3>4. ASSUME NEW g \in Entered PROVE g \in Entered'
      <4>1. PICK k \in 1 .. l : g = stack[k]
        BY <3>1, <3>4
      <4>2. g = stack'[k] /\ k \in 1 .. l + 1
        BY <2>4, <3>2, <4>1
      <4>3. QED
        BY <3>1, <4>2
    <3>5. QED
      BY <3>3, <3>4
  <2>6. SUFFICES ASSUME NEW f \in Files
                 PROVE  compiles'[f] <= IF f \in broken THEN Cardinality(Passed(f)')
                                        ELSE IF f \in Entered' THEN 1 ELSE 0
    BY <2>1 DEF Counts
  <2>7. /\ Cardinality(Passed(f)) \in Nat /\ Cardinality(Passed(f)') \in Nat
        /\ Cardinality(Passed(f)) <= Cardinality(Passed(f)')
    BY <1>3, <2>1, <2>5
  <2>8. CASE f = Path
    <3>1. compiles[f] <= 0 /\ compiles'[f] = compiles[f] + 1
      BY <1>2, <1>4, <2>1, <2>8
    <3>2. compiles'[f] <= 1 /\ f \in Entered' /\ f \notin broken
      BY <1>2, <2>1, <2>5, <2>8, <3>1
    <3>3. QED
      BY <3>2
  <2>9. CASE f # Path
    <3>1. compiles'[f] = compiles[f]
      BY <1>2, <2>1, <2>9
    <3>2. QED
      BY <1>2, <1>4, <2>5, <2>7, <3>1
  <2>10. QED
    BY <2>8, <2>9
<1>8. CASE ListIncludes
  BY <1>5, <1>8 DEF ListIncludes
<1>9. CASE ListFails
  BY <1>5, <1>9 DEF ListFails
<1>10. CASE Skip
  BY <1>5, <1>10 DEF Skip
<1>11. CASE Leave
  BY <1>5, <1>11 DEF Leave
<1>12. CASE UNCHANGED vars
  BY <1>5, <1>12 DEF vars
<1>13. QED
  BY <1>6, <1>7, <1>8, <1>9, <1>10, <1>11, <1>12 DEF Next

LEMMA Invariance == Spec => [](IInv /\ Counts)
<1>1. Init => IInv /\ Counts
  <2>1. ASSUME Init PROVE Counts
    BY <2>1 DEF Init, Counts
  <2>2. QED
    BY <2>1, InitInv
<1>2. IInv /\ Counts /\ [Next]_vars => IInv' /\ Counts'
  BY StepInv, CountsInv
<1>3. QED
  BY <1>1, <1>2, PTL DEF Spec

-----------------------------------------------------------------------------

\* The walk is type correct for every include graph: no index leaves its list.
THEOREM TypeCorrect == Spec => []TypeOK
<1>1. IInv => TypeOK
  BY DEF IInv
<1>2. QED
  BY <1>1, Invariance, PTL

\* At the end everything the source file reaches has been walked (main.cpp:331-363),
\* whatever the graph and whichever headers fail.
THEOREM Completeness == Spec => []AllReachable
<1>1. ASSUME IInv PROVE AllReachable
  <2>1. SUFFICES ASSUME pc \in {"exit0", "exit1"} PROVE Closed(Entered)
    BY DEF AllReachable
  <2>2. Len(frames) = 0
    BY <1>1, <2>1, EmptySeq DEF IInv, TypeOK
  <2>3. Source \in Entered
    BY <1>1 DEF IInv, Origins, Entered
  <2>4. \A f \in Entered \ mute : \A m \in 1 .. Len(incs[f]) : incs[f][m] \in Settled
    BY <1>1, <2>2 DEF IInv, Progress
  <2>5. QED
    BY <2>3, <2>4 DEF Closed, Settled
<1>2. QED
  BY <1>1, Invariance, PTL

\* Nothing is walked that the source file does not reach.  Of the files walked but not
\* reached, the one entered first was entered from a reached one.
THEOREM Soundness == Spec => []OnlyReachable
<1>1. ASSUME IInv PROVE OnlyReachable
  <2>1. SUFFICES ASSUME NEW S \in SUBSET Files, Closed(S), ~ (Entered \subseteq S) PROVE FALSE
    BY DEF OnlyReachable
  <2>2. Len(stack) \in Nat /\ \A n \in 1 .. Len(stack) : stack[n] \in Files
    BY <1>1, LenProperties, ElementOfSeq DEF IInv, TypeOK
  <2> DEFINE T == {n \in 1 .. Len(stack) : stack[n] \notin S}
  <2>3. T \subseteq Nat /\ T # {}
    BY <2>1, <2>2 DEF Entered
  <2>4. \E x \in T : \A y \in T : ~ (<<y, x>> \in OpToRel(<, Nat))
    BY <2>3, NatLessThanWellFounded, WFMin
  <2>5. \E x \in T : \A y \in T : ~ (y < x)
    BY <2>3, <2>4 DEF OpToRel
  <2>6. PICK x \in 1 .. Len(stack) :
           stack[x] \notin S /\ \A y \in 1 .. Len(stack) : stack[y] \notin S => ~ (y < x)
    BY <2>5
  <2> HIDE DEF T
  <2>7. x # 1
    BY <1>1, <2>1, <2>6 DEF IInv, Origins, Closed
  <2>8. x > 1
    BY <2>2, <2>6, <2>7
  <2>9. PICK m \in 1 .. Len(stack) : \E k \in 1 .. Len(incs[stack[m]]) :
            /\ m < x /\ stack[m] \notin mute
            /\ stack[x] = incs[stack[m]][k] /\ stack[x] \notin System
    BY <1>1, <2>8 DEF IInv, Origins
  <2>10. stack[m] \in S
    BY <2>6, <2>9
  <2>11. stack[x] \in S \cup System \cup broken
    BY <2>1, <2>9, <2>10 DEF Closed
  <2>12. stack[x] \in Entered /\ stack[x] \notin broken
    BY <1>1, <2>6 DEF IInv, Origins, Entered
  <2>13. QED
    BY <2>6, <2>9, <2>11, <2>12
<1>2. QED
  BY <1>1, Invariance, PTL

\* No header that compiles is compiled twice, and one that does not is compiled once at
\* most for each file that includes it (main.cpp:308-323), whatever the graph.
THEOREM OnceEach == Spec => []CompiledOnce
<1>1. ASSUME IInv, Counts PROVE CompiledOnce
  <2>1. SUFFICES ASSUME NEW f \in Files
                 PROVE  compiles[f] <= IF f \notin broken THEN 1
                          ELSE Cardinality({g \in Entered : \E k \in 1 .. Len(incs[g]) : incs[g][k] = f})
    BY DEF CompiledOnce
  <2> DEFINE I == {g \in Entered : \E k \in 1 .. Len(incs[g]) : incs[g][k] = f}
  <2>2. compiles[f] \in Nat
    BY <1>1 DEF IInv, TypeOK
  <2>3. compiles[f] <= IF f \in broken THEN Cardinality(Passed(f)) ELSE IF f \in Entered THEN 1 ELSE 0
    BY <1>1 DEF Counts
  <2>4. Passed(f) \subseteq I /\ I \subseteq Files
    <3>1. stack \in Seq(Files)
      BY <1>1 DEF IInv, TypeOK
    <3>2. Entered \subseteq Files
      BY <3>1, ElementOfSeq DEF Entered
    <3>3. QED
      BY <3>2 DEF Passed
  <2>5. IsFiniteSet(I)
    BY <2>4, FS_Subset
  <2>6. IsFiniteSet(Passed(f)) /\ Cardinality(Passed(f)) <= Cardinality(I)
    BY <2>4, <2>5, FS_Subset
  <2>7. Cardinality(Passed(f)) \in Nat /\ Cardinality(I) \in Nat
    BY <2>5, <2>6, FS_CardinalityType
  <2> HIDE DEF I
  <2>8. compiles[f] <= IF f \notin broken THEN 1 ELSE Cardinality(I)
    BY <2>2, <2>3, <2>6, <2>7
  <2>9. QED
    BY <2>8 DEF I
<1>2. QED
  BY <1>1, Invariance, PTL

-----------------------------------------------------------------------------
(* The recursion is bounded, and each step brings the walk nearer to its end. *)

\* The files not entered yet, and what the running activation has still to look at.
Unentered == Cardinality(Files \ Entered)
Ahead     == Len(incs[Top.file]) + 1 - Top.i

\* In this order: fewer files are left, or fewer activations, or fewer headers of the
\* running one, or its list has been made.
Nearer ==
    \/ Unentered' < Unentered
    \/ /\ Unentered' = Unentered
       /\ \/ Len(frames') < Len(frames)
          \/ Len(frames') = Len(frames) /\ Ahead' < Ahead
          \/ Len(frames') = Len(frames) /\ Ahead' = Ahead /\ pc = "list" /\ pc' = "loop"

\* The measure is of natural numbers.
Measured == Unentered \in Nat /\ Len(frames) \in Nat /\ (frames # << >> => Ahead \in Nat)

\* No more activations than there are files: each is of another one.
DepthBounded == Len(frames) <= Cardinality(Files)

\* CompileRecursive never nests deeper than there are files (main.cpp:335-349), whatever
\* cycles the graph has: what is on the stack is not entered again.
THEOREM RecursionIsBounded == Spec => []DepthBounded
<1>1. ASSUME IInv PROVE DepthBounded
  <2>1. frames \in Seq(Frame)
    BY <1>1 DEF IInv, TypeOK
  <2>2. PICK n \in Nat : n = Len(frames)
    BY <2>1, LenProperties
  <2>3. \A k \in 1 .. n : frames[k].file \in Files
    <3>1. \A k \in 1 .. n : frames[k] \in Frame
      BY <2>1, <2>2, ElementOfSeq
    <3>2. QED
      BY <3>1 DEF Frame
  <2>4. \A j, k \in 1 .. n : frames[j].file = frames[k].file => j = k
    BY <1>1, <2>2 DEF IInv, Calls
  <2> DEFINE F == [k \in 1 .. n |-> frames[k].file]
  <2>5. F \in Injection(1 .. n, Files)
    <3>1. F \in [1 .. n -> Files]
      BY <2>3
    <3>2. \A j, k \in 1 .. n : F[j] = F[k] => j = k
      BY <2>4
    <3> HIDE DEF F
    <3>3. QED
      BY <3>1, <3>2, Fun_IsInj
  <2> HIDE DEF F
  <2>6. Cardinality(1 .. n) <= Cardinality(Files)
    BY <2>5, FS_Injection
  <2>7. Cardinality(1 .. n) = n
    <3>1. 1 \in Int /\ n \in Int
      BY <2>2
    <3>2. Cardinality(1 .. n) = IF 1 > n THEN 0 ELSE n - 1 + 1
      BY <3>1, FS_Interval
    <3>3. QED
      BY <2>2, <3>2
  <2>8. QED
    BY <2>2, <2>6, <2>7 DEF DepthBounded
<1>2. QED
  BY <1>1, Invariance, PTL

LEMMA UnenteredIsNat == Unentered \in Nat /\ IsFiniteSet(Files \ Entered)
<1>1. IsFiniteSet(Files \ Entered)
  BY FS_Difference
<1>2. QED
  BY <1>1, FS_CardinalityType DEF Unentered

LEMMA MeasuredHolds == IInv => Measured
<1> SUFFICES ASSUME IInv PROVE Measured
  OBVIOUS
<1>1. frames \in Seq(Frame) /\ Len(frames) \in Nat
  BY LenProperties DEF IInv, TypeOK
<1>2. ASSUME frames # << >> PROVE Ahead \in Nat
  <2>1. PICK n \in Nat : n >= 1 /\ n = Len(frames) /\ \A k \in 1 .. n : frames[k] \in Frame
    BY <1>1, <1>2, FrameSeq
  <2>2. n \in 1 .. n /\ Top = frames[n]
    BY <2>1 DEF Top
  <2>3. Top.file \in Files /\ Top.i \in Nat \ {0} /\ Top.i <= Len(incs[Top.file]) + 1
    BY <2>1, <2>2 DEF IInv, TypeOK, Frame
  <2>4. Len(incs[Top.file]) \in Nat
    BY <2>3, Lists DEF IInv, TypeOK
  <2>5. QED
    BY <2>3, <2>4 DEF Ahead
<1>3. QED
  BY <1>1, <1>2, UnenteredIsNat DEF Measured

\* The loop goes on in the running activation.
LEMMA AdvanceNearer ==
    ASSUME IInv, InLoop, NextHeader, UNCHANGED <<incs, stack>>
    PROVE  Nearer
<1>1. PICK n \in Nat : n >= 1 /\ n = Len(frames) /\ frames \in Seq(Frame) /\ Top = frames[n] /\ Top \in Frame
  BY Standing DEF IInv, InLoop
<1>2. frames' = Advanced(frames, n)
  BY <1>1 DEF NextHeader, Advanced
<1>3. /\ Len(frames') = n /\ frames'[n].file = frames[n].file
      /\ frames'[n].i = frames[n].i + 1
  <2>1. /\ Len(frames') = n /\ \A k \in 1 .. n : frames'[k].file = frames[k].file
        /\ \A k \in 1 .. n : frames'[k].i = IF k = n THEN frames[k].i + 1 ELSE frames[k].i
    BY <1>1, <1>2, AdvanceSeq
  <2>2. n \in 1 .. n
    BY <1>1
  <2>3. QED
    BY <2>1, <2>2
<1>4. Top.file \in Files /\ Top.i \in Nat
  BY <1>1 DEF Frame
<1>5. PICK m \in Nat : m = Len(incs[Top.file])
  BY <1>4, Lists DEF IInv, TypeOK
<1>6. Ahead = m + 1 - Top.i /\ Ahead' = m + 1 - (Top.i + 1)
  <2>1. Top' = frames'[n]
    BY <1>3 DEF Top
  <2>2. Top'.file = Top.file /\ Top'.i = Top.i + 1
    BY <1>1, <1>3, <2>1
  <2>3. Ahead' = Len(incs'[Top'.file]) + 1 - Top'.i
    BY DEF Ahead
  <2>4. incs' = incs
    OBVIOUS
  <2>5. QED
    BY <1>5, <2>2, <2>3, <2>4 DEF Ahead
<1>7. Ahead' < Ahead
  BY <1>4, <1>6
<1>8. Unentered' = Unentered
  BY DEF Unentered, Entered
<1>9. QED
  BY <1>1, <1>3, <1>7, <1>8 DEF Nearer

\* The running activation returns.
LEMMA ReturnNearer ==
    ASSUME IInv, pc \in {"list", "loop"}, NEW code, Return(code), UNCHANGED <<incs, stack>>
    PROVE  Nearer
<1>1. PICK n \in Nat : n >= 1 /\ n = Len(frames) /\ frames \in Seq(Frame)
  BY Standing DEF IInv
<1>2. Len(frames') = n - 1
  <2>1. CASE n = 1
    BY <1>1, <2>1, EmptySeq DEF Return
  <2>2. CASE n # 1
    <3>1. frames' = Advanced(SubSeq(frames, 1, n - 1), n - 1) /\ n > 1
      BY <1>1, <2>2 DEF Return, Popped, Advanced
    <3>2. \A t : n > 1 /\ n = Len(frames) /\ t = Advanced(SubSeq(frames, 1, n - 1), n - 1) =>
             Len(t) = n - 1
      BY <1>1, PopSeq, Zenon
    <3>3. QED
      BY <1>1, <3>1, <3>2
  <2>3. QED
    BY <2>1, <2>2
<1>3. Unentered' = Unentered
  BY DEF Unentered, Entered
<1>4. QED
  BY <1>1, <1>2, <1>3 DEF Nearer

\* A file is entered that was not.
LEMMA EnterNearer == ASSUME IInv, Enter PROVE Nearer
<1>1. InLoop /\ Path \notin Entered /\ stack' = Append(stack, Path)
  BY DEF Enter, Fresh
<1>2. Path \in Files
  BY <1>1, PathFile
<1>3. PICK l \in Nat : l = Len(stack) /\ stack \in Seq(Files)
  BY LenProperties DEF IInv, TypeOK
<1>4. /\ Len(stack') = l + 1 /\ \A k \in 1 .. l : stack'[k] = stack[k]
      /\ stack'[l + 1] = Path
  BY <1>1, <1>2, <1>3, AppendFile
<1>5. Entered' = Entered \cup {Path}
  <2>1. Entered' = {stack'[k] : k \in 1 .. l + 1} /\ Entered = {stack[k] : k \in 1 .. l}
    BY <1>3, <1>4 DEF Entered
  <2>2. 1 .. l + 1 = 1 .. l \cup {l + 1}
    BY <1>3
  <2>3. QED
    BY <1>4, <2>1, <2>2
<1>6. Files \ (Entered') = (Files \ Entered) \ {Path} /\ Path \in Files \ Entered
  BY <1>1, <1>2, <1>5
<1>7. Cardinality((Files \ Entered) \ {Path}) = Cardinality(Files \ Entered) - 1
  BY <1>6, UnenteredIsNat, FS_RemoveElement
<1>8. Unentered' = Unentered - 1 /\ Unentered \in Nat
  BY <1>6, <1>7, UnenteredIsNat DEF Unentered
<1>9. Unentered' < Unentered
  BY <1>8
<1>10. QED
  BY <1>9 DEF Nearer

\* The walk comes nearer to its end with each step, on every graph, cycles included: a
\* measure in the natural numbers decreases, in the lexicographic order.  With that no walk
\* goes on for ever; WalkEnds says the same of the runs TLC knows.
THEOREM WalkComesNearer == Spec => []Measured /\ [][Nearer]_vars
<1>1. ASSUME IInv, Next PROVE Nearer
  <2>1. CASE ListIncludes
    <3>1. pc = "list" /\ pc' = "loop" /\ UNCHANGED <<incs, stack, frames>>
      BY <2>1 DEF ListIncludes
    <3>2. Unentered' = Unentered /\ Ahead' = Ahead
      BY <3>1 DEF Unentered, Entered, Ahead, Top
    <3>3. QED
      BY <3>1, <3>2 DEF Nearer
  <2>2. CASE ListFails
    BY <1>1, <2>2, ReturnNearer DEF ListFails
  <2>3. CASE Skip
    BY <1>1, <2>3, AdvanceNearer DEF Skip
  <2>4. CASE CompileFails
    BY <1>1, <2>4, AdvanceNearer DEF CompileFails, Fresh
  <2>5. CASE Enter
    BY <1>1, <2>5, EnterNearer
  <2>6. CASE Leave
    BY <1>1, <2>6, ReturnNearer DEF Leave
  <2>7. QED
    BY <1>1, <2>1, <2>2, <2>3, <2>4, <2>5, <2>6 DEF Next
<1>2. IInv /\ [Next]_vars => [Nearer]_vars
  BY <1>1
<1>3. QED
  BY <1>2, MeasuredHolds, Invariance, PTL DEF Spec
=============================================================================
