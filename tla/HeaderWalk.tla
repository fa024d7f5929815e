----------------------------- MODULE HeaderWalk -----------------------------
(***************************************************************************)
(* CompileRecursive and main() of src/ostc/measure-headers/cch/main.cpp:   *)
(* compile a source file, then every header it includes, then theirs, and  *)
(* no header twice.  The compiler is not part of src/: whether a header    *)
(* compiles on its own is decided the first time it is compiled, and       *)
(* whether a file's includes can be listed when they are.                  *)
(***************************************************************************)
EXTENDS Integers, Sequences, FiniteSets

CONSTANTS
    Files,      \* the source file and all headers
    Source,     \* the file named by the arguments
    System,     \* the headers under /usr/ but not under /usr/include/c++
    Graphs      \* the include graphs considered: Graphs[f] lists f's first-level includes

ASSUME FilesAssumption == IsFiniteSet(Files) /\ Source \in Files /\ System \subseteq Files
\* FindIncludes lists no header twice.
ASSUME GraphsAssumption ==
    /\ Graphs \subseteq [Files -> Seq(Files)]
    /\ \A g \in Graphs : \A f \in Files : \A j, k \in 1 .. Len(g[f]) : g[f][j] = g[f][k] => j = k

VARIABLES
    incs,       \* the include graph, as FindIncludes reports it
    broken,     \* the headers found not to compile
    mute,       \* the files whose includes could not be listed
    pc,         \* what the running activation does next
    stack,      \* the files entered so far (it is never popped)
    frames,     \* the activations of CompileRecursive: a file and the loop index i
    compiles    \* history: how often Compile() was called for a file

vars == <<incs, broken, mute, pc, stack, frames, compiles>>

Frame == [file : Files, i : Nat \ {0}]

\* Besides the types: no activation's index leaves its list by more than the end of the
\* loop, and the walk is over exactly when main()'s activation has returned.
TypeOK ==
    /\ incs \in Graphs /\ broken \subseteq Files /\ mute \subseteq Files
    /\ pc \in {"list", "loop", "exit0", "exit1"}
    /\ stack \in Seq(Files)
    /\ frames \in Seq(Frame)
    /\ \A k \in 1 .. Len(frames) : frames[k].i <= Len(incs[frames[k].file]) + 1
    /\ frames = << >> <=> pc \in {"exit0", "exit1"}
    /\ compiles \in [Files -> Nat]

\* main() calls CompileRecursive for the source file, which it has not compiled.
Init ==
    /\ incs \in Graphs /\ broken = {} /\ mute = {}
    /\ pc = "list"
    /\ stack = <<Source>>
    /\ frames = <<[file |-> Source, i |-> 1]>>
    /\ compiles = [f \in Files |-> 0]

-----------------------------------------------------------------------------

Top == frames[Len(frames)]
Popped == SubSeq(frames, 1, Len(frames) - 1)

Entered == {stack[k] : k \in 1 .. Len(stack)}

\* The header the loop of the running activation is at.
Path == incs[Top.file][Top.i]
InLoop == pc = "loop" /\ Top.i <= Len(incs[Top.file])

\* The loop of the running activation goes on with the next header.
NextHeader == frames' = [frames EXCEPT ![Len(frames)].i = @ + 1]

\* The caller's loop goes on with the next header; main() ends.
Return(code) ==
    IF Len(frames) = 1
    THEN pc' = code /\ frames' = << >>
    ELSE /\ pc' = "loop"
         /\ frames' = [Popped EXCEPT ![Len(frames) - 1].i = @ + 1]

\* CompileForIncludes() succeeds.
ListIncludes ==
    /\ pc = "list"
    /\ pc' = "loop"
    /\ UNCHANGED <<incs, broken, mute, stack, frames, compiles>>

\* CompileForIncludes() fails: the activation returns false; its caller prints error:1
\* and goes on, main() exits with 1.
ListFails ==
    /\ pc = "list"
    /\ mute' = mute \cup {Top.file}
    /\ Return("exit1")
    /\ UNCHANGED <<incs, broken, stack, compiles>>

\* Mutant of Skip: the index is not advanced.
SkipStays ==
    /\ InLoop /\ Path \in Entered \cup System
    /\ UNCHANGED vars

\* The header has been entered before, or is the system's.
Skip ==
    /\ InLoop /\ Path \in Entered \cup System
    /\ NextHeader
    /\ UNCHANGED <<incs, broken, mute, pc, stack, compiles>>

Fresh == InLoop /\ Path \notin Entered \cup System

CompilePath == compiles' = [compiles EXCEPT ![Path] = @ + 1]

\* Mutants of CompileFails: the loop ends; the header is walked as if it had compiled.
CompileFailsBreaks ==
    /\ Fresh
    /\ CompilePath
    /\ broken' = broken \cup {Path}
    /\ frames' = [frames EXCEPT ![Len(frames)].i = Len(incs[Top.file]) + 1]
    /\ UNCHANGED <<incs, mute, pc, stack>>

CompileFailsEnters ==
    /\ Fresh
    /\ CompilePath
    /\ broken' = broken \cup {Path}
    /\ stack' = Append(stack, Path)
    /\ frames' = Append(frames, [file |-> Path, i |-> 1])
    /\ pc' = "list"
    /\ UNCHANGED <<incs, mute>>

\* Compile() fails: error:2 is printed and the loop goes on.
CompileFails ==
    /\ Fresh
    /\ CompilePath
    /\ broken' = broken \cup {Path}
    /\ NextHeader
    /\ UNCHANGED <<incs, mute, pc, stack>>

\* Mutant of Enter: the header is not saved.
EnterUnsaved ==
    /\ Fresh /\ Path \notin broken
    /\ CompilePath
    /\ frames' = Append(frames, [file |-> Path, i |-> 1])
    /\ pc' = "list"
    /\ UNCHANGED <<incs, broken, mute, stack>>

\* Compile() succeeds: the header is saved and its own includes come next.
Enter ==
    /\ Fresh /\ Path \notin broken
    /\ CompilePath
    /\ stack' = Append(stack, Path)
    /\ frames' = Append(frames, [file |-> Path, i |-> 1])
    /\ pc' = "list"
    /\ UNCHANGED <<incs, broken, mute>>

\* All includes of the file are done.
Leave ==
    /\ pc = "loop" /\ Top.i > Len(incs[Top.file])
    /\ Return("exit0")
    /\ UNCHANGED <<incs, broken, mute, stack, compiles>>

Next == ListIncludes \/ ListFails \/ Skip \/ CompileFails \/ Enter \/ Leave

Spec == Init /\ [][Next]_vars

FairSpec == Spec /\ WF_vars(Next)

-----------------------------------------------------------------------------

\* S contains the source file and, with a file whose includes could be listed, those of
\* its includes that are neither the system's nor broken.
Closed(S) ==
    /\ Source \in S
    /\ \A f \in S \ mute : \A k \in 1 .. Len(incs[f]) :
          incs[f][k] \in S \cup System \cup broken

\* Nothing is measured that the source file does not reach over headers that compile, on
\* any include graph, cycles included.
OnlyReachable == \A S \in SUBSET Files : Closed(S) => Entered \subseteq S

\* At the end everything it reaches has been measured, although the stack of files is
\* never popped and a file may be skipped because an unfinished activation, or an
\* unrelated branch, has it ("Save so we don't compile this again", main.cpp:318).
AllReachable == pc \in {"exit0", "exit1"} => Closed(Entered)

\* A header that compiles is compiled once, on whatever number of ways the source file
\* includes it; one that does not, once at most for each file that includes it.
CompiledOnce ==
    \A f \in Files :
        compiles[f] <= IF f \notin broken THEN 1
                       ELSE Cardinality({g \in Entered : \E k \in 1 .. Len(incs[g]) : incs[g][k] = f})

\* The recursion ends on cyclic graphs too.
WalkEnds == <>(pc \in {"exit0", "exit1"})
=============================================================================
