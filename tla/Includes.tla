------------------------------ MODULE Includes ------------------------------
(***************************************************************************)
(* Finding the includes of a file in what "gcc -H" prints: the two tools   *)
(* of src/ostc/measure-headers that do it.  cch runs the compiler over a   *)
(* pipe (Exec, CompileForIncludes) and wants every first-level include     *)
(* (FindIncludes); mkpch reads the text from a file and wants the topmost  *)
(* ones whose path begins with one of its arguments.                       *)
(***************************************************************************)
EXTENDS Integers, Sequences

CONSTANTS
    Paths,      \* the paths of headers
    Texts,      \* the texts considered, as sequences of Line
    PipeSize    \* how many lines the kernel's pipe holds

\* A line ". path", ".. path", ...: its number of dots and its path.  The lines that do not
\* begin with dots and a blank have level 0.
Line == [level : Nat, path : Paths]

ASSUME TextsAssumption == Texts \subseteq Seq(Line)
ASSUME PipeSizeAssumption == PipeSize \in Nat \ {0}

VARIABLES
    tool,       \* "cch" or "mkpch"
    text,       \* what the compiler prints if nothing goes wrong
    wanted,     \* the paths asked for
    pc,         \* the tool's next step
    child,      \* the compiler's process
    writers,    \* the processes that hold the write end of the pipe
    sent,       \* how many lines of the text were written to the pipe
    got,        \* how many of them were read from it
    line,       \* the line the parser is at
    pairs,      \* the include lines found, by their number in the text
    i,          \* the index into pairs
    level,      \* the level of the include whose own includes are skipped
    includes    \* the result

vars == <<tool, text, wanted, pc, child, writers, sent, got, line, pairs, i, level, includes>>

execVars == <<child, writers, sent, got>>
scanVars == <<line, pairs, i, level, includes>>

\* Besides the types: the pipe never holds more than its size, no line is parsed that was
\* not read, and the scan's index leaves pairs by one at most.
TypeOK ==
    /\ tool \in {"cch", "mkpch"} /\ text \in Seq(Line) /\ wanted \subseteq Paths
    /\ pc \in {"exec", "close", "read", "wait", "parse", "scan", "skip", "true", "false"}
    /\ child \in {"none", "running", "exit0", "exit1", "killed"}
    /\ writers \subseteq {"parent", "child"}
    /\ sent \in Nat /\ got \in Nat /\ got <= sent /\ sent <= Len(text)
    /\ tool = "cch" => sent <= got + PipeSize
    /\ line \in Nat \ {0} /\ line <= got + 1
    /\ pairs \in Seq(1 .. Len(text))
    /\ i \in Nat \ {0} /\ i <= Len(pairs) + 1
    /\ level \in Nat
    /\ includes \in Seq(Paths)

\* mkpch has its text in a file and only parses it.
Init ==
    /\ text \in Texts
    /\ \/ tool = "cch" /\ wanted = Paths /\ pc = "exec" /\ sent = 0 /\ got = 0
       \/ tool = "mkpch" /\ wanted \in SUBSET Paths /\ pc = "parse"
          /\ sent = Len(text) /\ got = Len(text)
    /\ child = "none" /\ writers = {}
    /\ line = 1 /\ pairs = << >> /\ i = 1 /\ level = 0 /\ includes = << >>

-----------------------------------------------------------------------------
(* Exec(): the compiler's process. *)

\* The compiler prints a line; a full pipe blocks it.
Write ==
    /\ child = "running" /\ sent < Len(text) /\ sent < got + PipeSize
    /\ sent' = sent + 1
    /\ UNCHANGED <<child, writers, got>>

\* It ends, successfully only with the whole text printed: by exit(0), by another exit
\* (of execv()'s caller too), or by a signal.
ChildEnds ==
    /\ child = "running"
    /\ child' \in IF sent = Len(text) THEN {"exit0", "exit1", "killed"} ELSE {"exit1", "killed"}
    /\ writers' = writers \ {"child"}
    /\ UNCHANGED <<sent, got>>

Child == (Write \/ ChildEnds) /\ UNCHANGED <<tool, text, wanted, pc, scanVars>>

(* Exec(): the parent. *)

\* pipe() or fork() fails.
ExecFails ==
    /\ pc = "exec" /\ pc' = "false"
    /\ UNCHANGED execVars

Fork ==
    /\ pc = "exec" /\ pc' = "close"
    /\ child' = "running" /\ writers' = {"parent", "child"}
    /\ UNCHANGED <<sent, got>>

\* Mutant of CloseWriteEnd: the parent keeps the write end.
CloseNothing ==
    /\ pc = "close" /\ pc' = "read"
    /\ UNCHANGED execVars

CloseWriteEnd ==
    /\ pc = "close" /\ pc' = "read"
    /\ writers' = writers \ {"parent"}
    /\ UNCHANGED <<child, sent, got>>

ReadSome ==
    /\ pc = "read" /\ got < sent
    /\ got' \in got + 1 .. sent
    /\ UNCHANGED <<pc, child, writers, sent>>

\* read() returns 0 when the pipe is empty and nobody can write to it.
ReadEof ==
    /\ pc = "read" /\ got = sent /\ writers = {}
    /\ pc' = "wait"
    /\ UNCHANGED execVars

\* WEXITSTATUS() of a process that died from a signal is 0, as that of exit(0).
Wait ==
    /\ pc = "wait" /\ child \in {"exit0", "exit1", "killed"}
    /\ pc' = IF child = "exit1" THEN "false" ELSE "parse"
    /\ UNCHANGED execVars

Exec ==
    /\ ExecFails \/ Fork \/ CloseWriteEnd \/ ReadSome \/ ReadEof \/ Wait
    /\ UNCHANGED <<tool, text, wanted, scanVars>>

-----------------------------------------------------------------------------
(* FindIncludes() and the loops of mkpch. *)

\* A line with dots and a blank is pushed to pairs; the rest is passed over.
ParseLine ==
    /\ pc = "parse" /\ line <= got
    /\ pairs' = IF text[line].level = 0 THEN pairs ELSE Append(pairs, line)
    /\ line' = line + 1
    /\ UNCHANGED <<pc, i, level, includes>>

ParseEnds ==
    /\ pc = "parse" /\ line > got
    /\ pc' = "scan"
    /\ UNCHANGED scanVars

Known(p) == \E k \in 1 .. Len(includes) : includes[k] = p

\* Mutant of Take: the level is read after the index was advanced.
TakeLevelLate ==
    /\ pc = "scan" /\ i <= Len(pairs)
    /\ LET l == text[pairs[i]] IN
          /\ l.path \in wanted
          /\ includes' = IF Known(l.path) THEN includes ELSE Append(includes, l.path)
          /\ level' = IF i < Len(pairs) THEN text[pairs[i + 1]].level ELSE 0
    /\ pc' = "skip"
    /\ i' = i + 1
    /\ UNCHANGED <<line, pairs>>

\* A path asked for is noted, once, and its own includes are skipped.
Take ==
    /\ pc = "scan" /\ i <= Len(pairs)
    /\ LET l == text[pairs[i]] IN
          /\ l.path \in wanted
          /\ includes' = IF Known(l.path) THEN includes ELSE Append(includes, l.path)
          /\ level' = l.level
    /\ pc' = "skip"
    /\ i' = i + 1
    /\ UNCHANGED <<line, pairs>>

\* mkpch only: the include is passed over, its own includes are looked at.
Pass ==
    /\ pc = "scan" /\ i <= Len(pairs) /\ text[pairs[i]].path \notin wanted
    /\ i' = i + 1
    /\ UNCHANGED <<pc, line, pairs, level, includes>>

SkipInner ==
    /\ pc = "skip" /\ i <= Len(pairs) /\ text[pairs[i]].level > level
    /\ i' = i + 1
    /\ UNCHANGED <<pc, line, pairs, level, includes>>

SkipEnds ==
    /\ pc = "skip" /\ (i <= Len(pairs) => text[pairs[i]].level <= level)
    /\ pc' = "scan"
    /\ UNCHANGED scanVars

ScanEnds ==
    /\ pc = "scan" /\ i > Len(pairs)
    /\ pc' = "true"
    /\ UNCHANGED scanVars

FindIncludes ==
    /\ ParseLine \/ ParseEnds \/ Take \/ Pass \/ SkipInner \/ SkipEnds \/ ScanEnds
    /\ UNCHANGED <<tool, text, wanted, execVars>>

Next == Child \/ Exec \/ FindIncludes

Spec == Init /\ [][Next]_vars

\* The scheduler runs both processes, and the compiler ends.
FairSpec == Spec /\ WF_vars(Child) /\ WF_vars(Exec) /\ WF_vars(FindIncludes)

-----------------------------------------------------------------------------

\* Line k tells of a header that line j's header includes, on whatever number of levels.
Under(k, j) ==
    /\ j < k
    /\ \A m \in j + 1 .. k : text[m].level = 0 \/ text[m].level > text[j].level

\* Line k tells of a wanted header that no wanted header before it includes.
Topmost(k) ==
    /\ text[k].level > 0 /\ text[k].path \in wanted
    /\ \A j \in 1 .. k - 1 : text[j].level > 0 /\ text[j].path \in wanted => ~ Under(k, j)

\* "Find the first level includes" (cch/main.cpp:222): the result is the topmost wanted
\* headers of the text, each once; of the whole text, unless a signal ended the compiler.
FirstLevelFound ==
    pc = "true" =>
        /\ {includes[k] : k \in 1 .. Len(includes)} = {text[k].path : k \in {n \in 1 .. got : Topmost(n)}}
        /\ \A j, k \in 1 .. Len(includes) : includes[j] = includes[k] => j = k
        /\ child # "killed" => got = Len(text)

\* However long the text and however small the pipe, the two processes do not wait for one
\* another, and the scan ends.
CompileEnds == <>(pc \in {"true", "false"})
=============================================================================
