------------------------------ MODULE DepStats ------------------------------
(***************************************************************************)
(* src/ostc/measure-headers/depstats/main.cpp: count how often each file   *)
(* is named as a dependency in the depend files given as arguments.  A     *)
(* text is a sequence of names and of the marks the two parsers look for:  *)
(* "sp" (blanks), "nl", "cont" (a backslash before a newline), "hash" and  *)
(* "colon".  What stands together without a blank is one word, colons and  *)
(* hashes included, also over a continuation.                              *)
(*                                                                         *)
(* A text is what the program sees of a file: what fread() delivers, up to *)
(* the first NUL.  An error of fread() is taken for the end of the file    *)
(* (main.cpp:37-40), so that a text may be the first part of a file.       *)
(***************************************************************************)
EXTENDS Cursor, FiniteSets

CONSTANTS
    Names,      \* the names in the files
    Words,      \* the dependencies whose counts are looked at
    Texts,      \* the files there may be
    Inputs,     \* the sequences of arguments: texts, and Missing
    Missing     \* a file that cannot be opened

Marks == {"sp", "nl", "cont", "hash", "colon"}

ASSUME TextsAssumption ==
    /\ Texts \subseteq Seq(Names \cup Marks) /\ Names \cap Marks = {}
    /\ Words \subseteq Seq(Names \cup {"hash", "colon"}) /\ << >> \notin Words
    /\ Missing \notin Texts /\ Inputs \subseteq Seq(Texts \cup {Missing})

\* What is counted; << >> is the empty dependency.
Keys == Words \cup {<< >>}

VARIABLES
    files,      \* the arguments
    file,       \* the one that is processed
    pos,        \* where p is in its text
    line,       \* the positions of the text that make up the line that is parsed
    pc,
    count       \* _map: how often each of them was counted

vars == <<files, file, pos, line, pc, count>>

Text == files[file]

\* Types; p never runs past the end of the text, and a line is a part of its text.
TypeOK ==
    /\ file \in 1 .. Len(files) + 1
    /\ pc \in {"load", "getLine", "parse", "printed", "failed"}
    /\ pc \in {"getLine", "parse"} =>
          /\ file <= Len(files) /\ Text \in Seq(Names \cup Marks)
          /\ pos \in 1 .. Len(Text) + 1
          /\ line \subseteq 1 .. pos - 1 /\ \A n \in line : Text[n] \notin {"nl", "cont"}
    /\ count \in [Keys -> Nat]

Init ==
    /\ files \in Inputs /\ file = 1 /\ pos = 1 /\ line = {}
    /\ pc = "load"
    /\ count = [d \in Keys |-> 0]

-----------------------------------------------------------------------------

White == {"sp", "nl"}

\* Where the next line begins, past blanks and one comment.
LineStart(k) ==
    LET s == Past(Text, k, White)
        e == To(Text, s, {"nl", "cont"})
    IN  IF s <= Len(Text) /\ Text[s] = "hash"
        THEN IF e <= Len(Text) THEN Past(Text, e + 1, White) ELSE e
        ELSE s

\* Mutants of GetNextLine: a continuation ends the line; the newline is taken too.
GetLineStopsAtCont ==
    LET s == LineStart(pos)
        e == To(Text, s, {"nl", "cont"})
    IN  /\ pc = "getLine" /\ Past(Text, pos, White) <= Len(Text)
        /\ line' = s .. e - 1
        /\ pos' = IF e <= Len(Text) /\ Text[e] = "cont" THEN e + 1 ELSE e
        /\ pc' = IF line' = {} THEN "getLine" ELSE "parse"
        /\ UNCHANGED <<files, file, count>>

GetLineTakesNewline ==
    LET s == LineStart(pos)
        e == To(Text, s, {"nl"})
    IN  /\ pc = "getLine" /\ Past(Text, pos, White) <= Len(Text)
        /\ line' = {n \in s .. e - 1 : Text[n] # "cont"}
        /\ pos' = e + 1
        /\ pc' = IF line' = {} THEN "getLine" ELSE "parse"
        /\ UNCHANGED <<files, file, count>>

\* _GetNextLine() returns true: the line is joined over its continuations.  An empty one
\* is passed over.
GetNextLine ==
    LET s == LineStart(pos)
        e == To(Text, s, {"nl"})
    IN  /\ pc = "getLine" /\ Past(Text, pos, White) <= Len(Text)
        /\ line' = {n \in s .. e - 1 : Text[n] # "cont"}
        /\ pos' = e
        /\ pc' = IF line' = {} THEN "getLine" ELSE "parse"
        /\ UNCHANGED <<files, file, count>>

\* _GetNextLine() returns false.
NoMoreLines ==
    /\ pc = "getLine" /\ Past(Text, pos, White) > Len(Text)
    /\ file' = file + 1
    /\ line' = {}
    /\ pc' = "load"
    /\ UNCHANGED <<files, pos, count>>

-----------------------------------------------------------------------------

\* _ParseNextLine(): where the line has a blank or a colon, the blanks before the target apart.
Ends ==
    {n \in line : Text[n] \in {"sp", "colon"} /\ \E m \in line : m <= n /\ Text[m] # "sp"}

\* The target ends at the first of them, with its colon.
Colon(c) == c \in Ends /\ Text[c] = "colon" /\ \A n \in Ends : c <= n

\* In the part S of text t a word begins at n and is d: nothing but a blank is before it,
\* and up to the next blank there is one piece after the other of d.
Spells(t, S, n, d) ==
    LET word == {m \in S : n <= m /\ \A i \in S : n <= i /\ i <= m => t[i] # "sp"}
    IN  /\ n \in S /\ t[n] # "sp"
        /\ \A m \in S : m < n /\ t[m] # "sp" => \E i \in S : m < i /\ i < n /\ t[i] = "sp"
        /\ Cardinality(word) = Len(d)
        /\ \A m \in word : t[m] = d[Cardinality({i \in word : i <= m})]

\* How often d follows the colon; blanks alone give one empty dependency.
Given(d, c) ==
    LET rest == {n \in line : n > c}
    IN  IF d # << >> THEN Cardinality({n \in rest : Spells(Text, rest, n, d)})
        ELSE IF rest # {} /\ \A n \in rest : Text[n] = "sp" THEN 1 ELSE 0

CountLine ==
    /\ pc = "parse"
    /\ \E c \in line : Colon(c) /\ count' = [d \in DOMAIN count |-> count[d] + Given(d, c)]
    /\ pc' = "getLine"
    /\ UNCHANGED <<files, file, pos, line>>

\* A line without a target and its colon ends the program.
BadLine ==
    /\ pc = "parse" /\ ~ \E c \in line : Colon(c)
    /\ pc' = "failed"
    /\ UNCHANGED <<files, file, pos, line, count>>

-----------------------------------------------------------------------------

LoadFile ==
    /\ pc = "load" /\ file <= Len(files) /\ Text # Missing
    /\ pos' = 1
    /\ pc' = "getLine"
    /\ UNCHANGED <<files, file, line, count>>

LoadFails ==
    /\ pc = "load" /\ file <= Len(files) /\ Text = Missing
    /\ pc' = "failed"
    /\ UNCHANGED <<files, file, pos, line, count>>

\* The counts are sorted and printed.
Report ==
    /\ pc = "load" /\ file > Len(files)
    /\ pc' = "printed"
    /\ UNCHANGED <<files, file, pos, line, count>>

Next == LoadFile \/ LoadFails \/ GetNextLine \/ NoMoreLines \/ CountLine \/ BadLine \/ Report

Spec == Init /\ [][Next]_vars

-----------------------------------------------------------------------------
(* What the files say, line by line *)

\* Where the lines of text t begin, and the positions of the line that begins at k; a
\* continued line is one.
Starts(t) == {1} \cup {n + 1 : n \in {m \in DOMAIN t : t[m] = "nl"}}
End(t, k) == To(t, k, {"nl"})
On(t, k)  == k .. End(t, k) - 1

Blank(t, k)   == \A n \in On(t, k) : t[n] \in {"sp", "cont"}
Comment(t, k) == \E h \in On(t, k) : t[h] = "hash" /\ \A n \in k .. h - 1 : t[n] = "sp"

\* A target, at once a colon, and then anything.
Rule(t, k) ==
    \E c \in On(t, k) :
        /\ t[c] = "colon"
        /\ \A n \in k .. c - 1 :
              /\ t[n] # "colon"
              /\ t[n] = "sp" => \A m \in k .. n : t[m] \in {"sp", "cont"}

\* What is behind the first colon of the line of t at k.
Behind(t, k) == {n \in On(t, k) : t[n] # "cont" /\ \E c \in k .. n - 1 : t[c] = "colon"}

\* Where text t names d as a dependency, and how often all files do.
NamedAt(t, k, d) == {n \in Behind(t, k) : ~ Comment(t, k) /\ Spells(t, Behind(t, k), n, d)}

Named(t, d) == UNION {NamedAt(t, k, d) : k \in Starts(t)}

Expected(d) == Cardinality(UNION {{f} \X Named(files[f], d) : f \in DOMAIN files})

\* Every file can be opened, and every line of it is blank, a comment or a rule.
Understood(t, k) == Blank(t, k) \/ Comment(t, k) \/ Rule(t, k)

Good ==
    \A f \in DOMAIN files :
        files[f] # Missing /\ \A k \in Starts(files[f]) : Understood(files[f], k)

\* What _GetNextLine() takes for granted: no comment follows another with nothing but blank
\* lines between them, and neither comments nor blank lines are continued.
Plain(t) ==
    /\ \A j, k \in Starts(t) :
          j < k /\ Comment(t, j) /\ Comment(t, k) =>
              \E u \in Starts(t) : j < u /\ u < k /\ ~ Blank(t, u) /\ ~ Comment(t, u)
    /\ \A k \in Starts(t) :
          Blank(t, k) \/ Comment(t, k) => \A n \in On(t, k) : t[n] # "cont"

AllPlain == \A f \in DOMAIN files : files[f] # Missing => Plain(files[f])

\* The program prints counts exactly when it could make sense of all files, and the counts
\* are those of the rules, whatever blanks, continuations and empty lines are between them:
\* the two parsers hand over the text without losing or repeating any of it, and without
\* cutting or joining words.
AnswerRight ==
    /\ pc = "printed" /\ AllPlain => Good /\ \A d \in Words : count[d] = Expected(d)
    /\ pc = "failed" /\ AllPlain => ~ Good

\* "Skip comment lines" (main.cpp:66): what a comment names is never counted.
CommentsSkipped == pc = "printed" => \A d \in Words : count[d] = Expected(d)
=============================================================================
