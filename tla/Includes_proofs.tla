--------------------------- MODULE Includes_proofs ---------------------------
(***************************************************************************)
(* FindIncludes is right for every text, whatever its levels, and for any  *)
(* size of the pipe.  The argument is about indices into pairs: an entry   *)
(* is under another one when all levels from there on are greater, and     *)
(* between two rounds of the outer loop no wanted entry before the index   *)
(* is still open there.                                                    *)
(***************************************************************************)
EXTENDS Includes, SequenceTheorems, TLAPS

Lev(a)   == text[pairs[a]].level
Name(a)  == text[pairs[a]].path
Asked(a) == Name(a) \in wanted

\* The level falls back to that of entry a, or below, after a and not after b.
Closes(a, b) == \E x \in a + 1 .. b : Lev(x) <= Lev(a)

\* Topmost, said of indices.
Top(b) == Asked(b) /\ \A a \in 1 .. b - 1 : Asked(a) => Closes(a, b)

Scanning == {"parse", "scan", "skip", "true"}

\* Exec(): what the pipe and the process have to do with one another.
Piped ==
    /\ child = "exit0" => sent = Len(text)
    /\ child = "running" => "child" \in writers
    /\ pc = "exec" => child = "none"
    /\ pc \in {"close", "read", "wait"} => child # "none"
    /\ pc = "wait" => got = sent /\ child # "running"
    /\ pc \in Scanning => child # "running" /\ (child # "killed" => got = Len(text))

\* pairs holds the include lines before the parser's, in their order.
Parsed ==
    /\ \A a, b \in 1 .. Len(pairs) : a < b => pairs[a] < pairs[b]
    /\ \A a \in 1 .. Len(pairs) : pairs[a] < line /\ Lev(a) > 0
    /\ \A k \in 1 .. line - 1 : text[k].level > 0 => \E a \in 1 .. Len(pairs) : pairs[a] = k
    /\ pc \in {"scan", "skip", "true"} => line = got + 1
    /\ pc \notin {"scan", "skip", "true"} => i = 1

\* The result so far.
Found ==
    /\ \A j, k \in 1 .. Len(includes) : includes[j] = includes[k] => j = k
    /\ \A k \in 1 .. Len(includes) : \E a \in 1 .. i - 1 : Top(a) /\ includes[k] = Name(a)
    /\ \A a \in 1 .. i - 1 : Top(a) => \E k \in 1 .. Len(includes) : includes[k] = Name(a)

\* All wanted entries before b are closed there.
ClosedAt(b) == \A a \in 1 .. b - 1 : Asked(a) => Closes(a, b)

\* Where the loops stand: between two rounds, and in the inner loop after entry c.
Standing ==
    /\ pc # "skip" /\ i <= Len(pairs) => ClosedAt(i)
    /\ pc = "skip" =>
          \E c \in 1 .. i - 1 :
             /\ Asked(c) /\ Lev(c) = level /\ ClosedAt(c)
             /\ \A x \in c + 1 .. i - 1 : Lev(x) > level
    /\ pc = "true" => i > Len(pairs)

IInv == TypeOK /\ Piped /\ Parsed /\ Found /\ Standing

-----------------------------------------------------------------------------

USE TextsAssumption, PipeSizeAssumption

\* Lengths are numbers, lines are records, entries are numbers of lines.
LEMMA Sizes ==
    ASSUME TypeOK
    PROVE  /\ Len(text) \in Nat /\ Len(pairs) \in Nat /\ Len(includes) \in Nat
           /\ line \in Nat /\ line >= 1 /\ i \in Nat /\ i >= 1 /\ got \in Nat
           /\ \A k \in 1 .. Len(text) : text[k].level \in Nat /\ text[k].path \in Paths
           /\ \A a \in 1 .. Len(pairs) :
                 pairs[a] \in 1 .. Len(text) /\ Lev(a) \in Nat /\ Name(a) \in Paths
<1>1. Len(text) \in Nat /\ \A k \in 1 .. Len(text) : text[k] \in Line
  BY LenProperties, ElementOfSeq DEF TypeOK
<1>2. Len(pairs) \in Nat /\ \A a \in 1 .. Len(pairs) : pairs[a] \in 1 .. Len(text)
  BY LenProperties, ElementOfSeq DEF TypeOK
<1>3. Len(includes) \in Nat
  BY LenProperties DEF TypeOK
<1>4. line \in Nat /\ line >= 1 /\ i \in Nat /\ i >= 1 /\ got \in Nat
  BY DEF TypeOK
<1>5. QED
  BY <1>1, <1>2, <1>3, <1>4 DEF Line, Lev, Name

\* A sequence with its length as a number, and one element more.
LEMMA AppendOne ==
    ASSUME NEW S, NEW s \in Seq(S), NEW e \in S
    PROVE  /\ Append(s, e) \in Seq(S) /\ Len(Append(s, e)) = Len(s) + 1 /\ Len(s) \in Nat
           /\ \A k \in 1 .. Len(s) : Append(s, e)[k] = s[k]
           /\ Append(s, e)[Len(s) + 1] = e
BY AppendProperties, LenProperties

\* Line pairs[b] is under line pairs[c] when no level from c to b closes c.
LEMMA UnderIndex ==
    ASSUME TypeOK, Parsed, line <= Len(text) + 1,
           NEW b \in 1 .. Len(pairs), NEW c \in 1 .. Len(pairs), c < b
    PROVE  Under(pairs[b], pairs[c]) <=> ~ Closes(c, b)
<1>0. /\ Len(pairs) \in Nat /\ line \in Nat /\ b \in Nat /\ c \in Nat
      /\ \A a \in 1 .. Len(pairs) : pairs[a] \in Nat /\ pairs[a] >= 1 /\ Lev(a) \in Nat
  BY Sizes
<1>1. /\ \A x, y \in 1 .. Len(pairs) : x < y => pairs[x] < pairs[y]
      /\ \A x \in 1 .. Len(pairs) : pairs[x] < line /\ text[pairs[x]].level > 0
      /\ \A k \in 1 .. line - 1 : text[k].level > 0 => \E a \in 1 .. Len(pairs) : pairs[a] = k
  BY DEF Parsed, Lev
<1>2. ASSUME Under(pairs[b], pairs[c]), NEW x \in c + 1 .. b
      PROVE  ~ (Lev(x) <= Lev(c))
  <2>1. x \in 1 .. Len(pairs) /\ c < x /\ (x < b \/ x = b)
    BY <1>0
  <2>2. pairs[x] \in pairs[c] + 1 .. pairs[b]
    BY <1>0, <1>1, <2>1
  <2>3. text[pairs[x]].level = 0 \/ text[pairs[x]].level > text[pairs[c]].level
    BY <1>2, <2>2 DEF Under
  <2>4. Lev(x) > Lev(c)
    BY <1>0, <1>1, <2>1, <2>3 DEF Lev
  <2>5. QED
    BY <1>0, <2>1, <2>4
<1>3. ASSUME ~ Closes(c, b) PROVE Under(pairs[b], pairs[c])
  <2>1. pairs[c] < pairs[b]
    BY <1>1
  <2>2. ASSUME NEW m \in pairs[c] + 1 .. pairs[b], text[m].level # 0
        PROVE  text[m].level > text[pairs[c]].level
    <3>1. m \in 1 .. line - 1 /\ m \in 1 .. Len(text)
      <4>1. pairs[b] < line /\ pairs[b] \in Nat /\ pairs[c] \in Nat /\ Len(text) \in Nat
        BY <1>0, <1>1, Sizes
      <4>2. QED
        BY <1>0, <4>1
    <3>2. text[m].level > 0
      <4>1. text[m].level \in Nat
        BY <3>1, Sizes
      <4>2. QED
        BY <2>2, <4>1
    <3>3. PICK x \in 1 .. Len(pairs) : pairs[x] = m
      BY <1>1, <3>1, <3>2
    <3>4. ~ (x < c) /\ x # c /\ ~ (b < x)
      <4>1. ~ (m < pairs[c]) /\ m # pairs[c] /\ ~ (pairs[b] < m)
        BY <1>0
      <4>2. QED
        BY <1>1, <3>3, <4>1
    <3>5. x \in c + 1 .. b
      BY <1>0, <3>4
    <3>6. ~ (Lev(x) <= Lev(c))
      BY <1>3, <3>5 DEF Closes
    <3>7. Lev(x) > Lev(c)
      BY <1>0, <3>6
    <3>8. QED
      BY <3>3, <3>7 DEF Lev
  <2>3. QED
    BY <2>1, <2>2 DEF Under
<1>4. QED
  BY <1>2, <1>3 DEF Closes

\* The two ways to say topmost agree.
LEMMA TopmostIndex ==
    ASSUME TypeOK, Parsed, line <= Len(text) + 1, NEW b \in 1 .. Len(pairs)
    PROVE  Topmost(pairs[b]) <=> Top(b)
<1>0. /\ Len(pairs) \in Nat /\ line \in Nat /\ b \in Nat
      /\ \A a \in 1 .. Len(pairs) : pairs[a] \in Nat /\ pairs[a] >= 1 /\ Lev(a) \in Nat
  BY Sizes
<1>1. /\ \A x, y \in 1 .. Len(pairs) : x < y => pairs[x] < pairs[y]
      /\ \A x \in 1 .. Len(pairs) : pairs[x] < line /\ text[pairs[x]].level > 0
      /\ \A k \in 1 .. line - 1 : text[k].level > 0 => \E a \in 1 .. Len(pairs) : pairs[a] = k
  BY DEF Parsed, Lev
<1>2. ASSUME Topmost(pairs[b]), NEW a \in 1 .. b - 1, Asked(a) PROVE Closes(a, b)
  <2>1. a \in 1 .. Len(pairs) /\ a < b
    BY <1>0
  <2>2. pairs[a] \in 1 .. pairs[b] - 1
    BY <1>0, <1>1, <2>1
  <2>3. ~ Under(pairs[b], pairs[a])
    BY <1>1, <1>2, <2>1, <2>2 DEF Topmost, Asked, Name
  <2>4. QED
    BY <2>1, <2>3, UnderIndex
<1>3. ASSUME Top(b), NEW j \in 1 .. pairs[b] - 1, text[j].level > 0, text[j].path \in wanted
      PROVE  ~ Under(pairs[b], j)
  <2>1. j \in 1 .. line - 1
    BY <1>0, <1>1
  <2>2. PICK a \in 1 .. Len(pairs) : pairs[a] = j
    BY <1>1, <1>3, <2>1
  <2>3. ~ (b < a) /\ a # b
    <3>1. ~ (pairs[b] < j) /\ j # pairs[b]
      BY <1>0
    <3>2. QED
      BY <1>1, <2>2, <3>1
  <2>4. a < b /\ a \in 1 .. b - 1
    BY <1>0, <2>3
  <2>5. Closes(a, b)
    BY <1>3, <2>2, <2>4 DEF Top, Asked, Name
  <2>6. QED
    BY <2>2, <2>4, <2>5, UnderIndex
<1>4. Topmost(pairs[b]) => Asked(b)
  BY DEF Topmost, Asked, Name
<1>5. Top(b) => text[pairs[b]].level > 0 /\ text[pairs[b]].path \in wanted
  BY <1>1 DEF Top, Asked, Name
<1>6. QED
  BY <1>2, <1>3, <1>4, <1>5 DEF Top, Topmost

\* What is said of the entries changes with text, wanted and pairs only.
LEMMA Same ==
    ASSUME UNCHANGED <<text, wanted, pairs>>
    PROVE  /\ \A a : Lev(a)' = Lev(a) /\ Name(a)' = Name(a) /\ (Asked(a)' <=> Asked(a))
           /\ \A a : (Top(a)' <=> Top(a)) /\ (ClosedAt(a)' <=> ClosedAt(a))
BY DEF Lev, Name, Asked, Top, Closes, ClosedAt

LEMMA FoundSame ==
    ASSUME Found, UNCHANGED <<text, wanted, pairs, i, includes>>
    PROVE  Found'
<1>1. /\ \A a : (Top(a)' <=> Top(a)) /\ Name(a)' = Name(a)
      /\ i' = i /\ includes' = includes
  BY Same
<1>2. 1 .. i' - 1 = 1 .. i - 1
  BY <1>1
<1>3. /\ \A j, k \in 1 .. Len(includes) : includes[j] = includes[k] => j = k
      /\ \A k \in 1 .. Len(includes) : \E a \in 1 .. i - 1 : Top(a) /\ includes[k] = Name(a)
      /\ \A a \in 1 .. i - 1 : Top(a) => \E k \in 1 .. Len(includes) : includes[k] = Name(a)
  BY DEF Found
<1>4. QED
  BY <1>1, <1>2, <1>3, Zenon DEF Found

LEMMA InitInv == Init => IInv
<1> SUFFICES ASSUME Init PROVE IInv
  OBVIOUS
<1>1. text \in Seq(Line) /\ Len(text) \in Nat
  BY LenProperties DEF Init
<1>2. TypeOK
  BY <1>1 DEF Init, TypeOK
<1>3. Piped
  BY <1>1 DEF Init, Piped, Scanning
<1>4. Len(pairs) = 0 /\ Len(includes) = 0 /\ i = 1 /\ line = 1 /\ pc \in {"exec", "parse"}
  BY DEF Init
<1>5. Parsed
  BY <1>4 DEF Parsed
<1>6. Found
  BY <1>4 DEF Found
<1>7. Standing
  BY <1>4 DEF Standing
<1>8. QED
  BY <1>2, <1>3, <1>5, <1>6, <1>7 DEF IInv

\* The steps of both processes in Exec() leave the scan alone.
LEMMA ProcessInv == IInv /\ (Child \/ Exec) => IInv'
<1> SUFFICES ASSUME IInv, Child \/ Exec PROVE IInv'
  OBVIOUS
<1>1. UNCHANGED <<tool, text, wanted, line, pairs, i, level, includes>>
  BY DEF Child, Exec, scanVars
<1>2. Len(text) \in Nat /\ sent \in Nat /\ got \in Nat /\ line \in Nat
  BY Sizes DEF IInv, TypeOK
<1>3. /\ pc' \in {"exec", "close", "read", "wait", "parse", "scan", "skip", "true", "false"}
      /\ child' \in {"none", "running", "exit0", "exit1", "killed"}
      /\ writers' \subseteq {"parent", "child"}
      /\ sent' \in Nat /\ got' \in Nat /\ got' <= sent' /\ sent' <= Len(text)
      /\ tool = "cch" => sent' <= got' + PipeSize
      /\ line <= got' + 1
      /\ Piped'
  <2>1. CASE Child
    <3>1. CASE Write
      BY <1>1, <1>2, <2>1, <3>1 DEF Write, Child, IInv, TypeOK, Piped, Scanning
    <3>2. CASE ChildEnds
      BY <1>1, <1>2, <2>1, <3>2 DEF ChildEnds, Child, IInv, TypeOK, Piped, Scanning
    <3>3. QED
      BY <2>1, <3>1, <3>2 DEF Child
  <2>2. CASE ExecFails
    BY <1>1, <1>2, <2>2 DEF ExecFails, execVars, IInv, TypeOK, Piped, Scanning
  <2>3. CASE Fork
    BY <1>1, <1>2, <2>3 DEF Fork, IInv, TypeOK, Piped, Scanning
  <2>4. CASE CloseWriteEnd
    BY <1>1, <1>2, <2>4 DEF CloseWriteEnd, IInv, TypeOK, Piped, Scanning
  <2>5. CASE ReadSome
    <3>1. /\ pc = "read" /\ pc' = "read" /\ child' = child /\ writers' = writers /\ sent' = sent
          /\ got' \in Nat /\ got < got' /\ got' <= sent
      BY <1>2, <2>5 DEF ReadSome
    <3>2. /\ tool = "cch" => sent <= got' + PipeSize
          /\ line <= got' + 1
      <4>1. (tool = "cch" => sent <= got + PipeSize) /\ line <= got + 1
        BY DEF IInv, TypeOK
      <4>2. PipeSize \in Nat
        OBVIOUS
      <4>3. got + PipeSize <= got' + PipeSize /\ got + 1 <= got' + 1
        <5>1. \A x, y, z \in Nat : x < y => x + z <= y + z /\ x + 1 <= y + 1
          OBVIOUS
        <5>2. got \in Nat /\ got' \in Nat /\ got < got'
          BY <1>2, <3>1
        <5>3. QED
          BY <4>2, <5>1, <5>2, Zenon
      <4>4. got + PipeSize \in Int /\ got' + PipeSize \in Int /\ got + 1 \in Int /\ got' + 1 \in Int
        BY <1>2, <3>1, <4>2
      <4>5. \A x, y, z \in Int : x <= y /\ y <= z => x <= z
        OBVIOUS
      <4>6. sent \in Int /\ line \in Int
        BY <1>2
      <4>7. QED
        BY <4>1, <4>3, <4>4, <4>5, <4>6, Zenon
    <3>4. Piped'
      BY <1>1, <3>1 DEF IInv, Piped, Scanning
    <3>5. QED
      BY <3>1, <3>2, <3>4 DEF IInv, TypeOK
  <2>6. CASE ReadEof
    BY <1>1, <1>2, <2>6 DEF ReadEof, execVars, IInv, TypeOK, Piped, Scanning
  <2>7. CASE Wait
    BY <1>1, <1>2, <2>7 DEF Wait, execVars, IInv, TypeOK, Piped, Scanning
  <2>8. QED
    BY <2>1, <2>2, <2>3, <2>4, <2>5, <2>6, <2>7 DEF Exec
<1>4. /\ pc' # pc => pc' \notin {"scan", "skip", "true"} /\ pc \notin {"scan", "skip", "true"}
      /\ got' # got => pc' = pc /\ pc = "read"
  BY DEF Child, Write, ChildEnds, Exec, ExecFails, Fork, CloseWriteEnd, ReadSome, ReadEof,
         Wait, execVars
<1>5. TypeOK'
  BY <1>1, <1>3 DEF IInv, TypeOK
<1>6. Parsed'
  BY <1>1, <1>4, Same DEF IInv, Parsed
<1>7. Found'
  BY <1>1, FoundSame DEF IInv
<1>8. Standing'
  BY <1>1, <1>4, Same DEF IInv, Standing
<1>9. QED
  BY <1>3, <1>5, <1>6, <1>7, <1>8 DEF IInv

\* A line is parsed: only an include line makes an entry, the last.
LEMMA ParseInv == IInv /\ ParseLine /\ UNCHANGED <<tool, text, wanted, execVars>> => IInv'
<1> SUFFICES ASSUME IInv, ParseLine, UNCHANGED <<tool, text, wanted, execVars>> PROVE IInv'
  OBVIOUS
<1>1. /\ pc = "parse" /\ pc' = "parse" /\ line <= got /\ line' = line + 1
      /\ UNCHANGED <<tool, text, wanted, child, writers, sent, got, i, level, includes>>
      /\ pairs' = IF text[line].level = 0 THEN pairs ELSE Append(pairs, line)
  BY DEF ParseLine, execVars
<1>2. /\ Len(pairs) \in Nat /\ Len(text) \in Nat /\ line \in Nat /\ line >= 1 /\ got \in Nat
      /\ \A a \in 1 .. Len(pairs) : pairs[a] \in Nat
      /\ i = 1
  BY <1>1, Sizes DEF IInv, Parsed
<1>3. line \in 1 .. Len(text) /\ line + 1 <= got + 1
  <2>1. got <= Len(text)
    <3>1. got <= sent /\ sent <= Len(text) /\ sent \in Nat
      BY DEF IInv, TypeOK
    <3>2. QED
      BY <1>2, <3>1
  <2>2. QED
    BY <1>1, <1>2, <2>1
<1>4. pairs \in Seq(1 .. Len(text))
  BY DEF IInv, TypeOK
<1>5. CASE text[line].level = 0
  <2>1. pairs' = pairs
    BY <1>1, <1>5
  <2>2. TypeOK'
    BY <1>1, <1>2, <1>3, <2>1 DEF IInv, TypeOK
  <2>3. Parsed'
    <3>1. \A a \in 1 .. Len(pairs) : pairs[a] < line + 1
      BY <1>2 DEF IInv, Parsed
    <3>2. \A k \in 1 .. line : k \in 1 .. line - 1 \/ k = line
      BY <1>2
    <3>3. \A k \in 1 .. line : text[k].level > 0 => \E a \in 1 .. Len(pairs) : pairs[a] = k
      BY <1>5, <3>2 DEF IInv, Parsed
    <3>4. (line + 1) - 1 = line
      BY <1>2
    <3>5. QED
      BY <1>1, <1>2, <2>1, <3>1, <3>3, <3>4, Same DEF IInv, Parsed
  <2>4. 1 .. i' - 1 = {}
    BY <1>1, <1>2
  <2>5. Found'
    BY <1>1, <2>1, FoundSame DEF IInv
  <2>6. Standing'
    BY <1>1, <2>4 DEF Standing, ClosedAt
  <2>7. Piped'
    BY <1>1 DEF IInv, Piped, Scanning
  <2>8. QED
    BY <2>2, <2>3, <2>5, <2>6, <2>7 DEF IInv
<1>6. CASE text[line].level # 0
  <2>1. /\ pairs' \in Seq(1 .. Len(text)) /\ Len(pairs') = Len(pairs) + 1
        /\ \A a \in 1 .. Len(pairs) : pairs'[a] = pairs[a]
        /\ pairs'[Len(pairs) + 1] = line
    BY <1>1, <1>3, <1>4, <1>6, AppendOne
  <2>2. TypeOK'
    BY <1>1, <1>2, <1>3, <2>1 DEF IInv, TypeOK
  <2>3. \A a \in 1 .. Len(pairs) + 1 : a \in 1 .. Len(pairs) \/ a = Len(pairs) + 1
    BY <1>2
  <2>4. Parsed'
    <3>1. \A a, b \in 1 .. Len(pairs') : a < b => pairs'[a] < pairs'[b]
      <4>1. SUFFICES ASSUME NEW a \in 1 .. Len(pairs) + 1, NEW b \in 1 .. Len(pairs) + 1, a < b
                     PROVE  pairs'[a] < pairs'[b]
        BY <2>1
      <4>2. a \in 1 .. Len(pairs)
        BY <1>2, <4>1
      <4>3. CASE b \in 1 .. Len(pairs)
        BY <2>1, <4>1, <4>2, <4>3 DEF IInv, Parsed
      <4>4. CASE b = Len(pairs) + 1
        BY <2>1, <4>2, <4>4 DEF IInv, Parsed
      <4>5. QED
        BY <2>3, <4>3, <4>4
    <3>2. \A a \in 1 .. Len(pairs') : pairs'[a] < line' /\ text'[pairs'[a]].level > 0
      <4>1. \A a \in 1 .. Len(pairs) : pairs[a] < line /\ text[pairs[a]].level > 0
        BY DEF IInv, Parsed, Lev
      <4>2. text[line].level > 0
        BY <1>3, <1>6, Sizes DEF IInv
      <4>3. QED
        BY <1>1, <1>2, <2>1, <2>3, <4>1, <4>2
    <3>3. \A k \in 1 .. line : text[k].level > 0 => \E a \in 1 .. Len(pairs') : pairs'[a] = k
      <4>1. \A k \in 1 .. line : k \in 1 .. line - 1 \/ k = line
        BY <1>2
      <4>2. Len(pairs) + 1 \in 1 .. Len(pairs')
        BY <1>2, <2>1
      <4>3. \A a \in 1 .. Len(pairs) : a \in 1 .. Len(pairs')
        BY <1>2, <2>1
      <4>4. \A k \in 1 .. line - 1 : text[k].level > 0 => \E a \in 1 .. Len(pairs) : pairs[a] = k
        BY DEF IInv, Parsed
      <4>5. QED
        BY <2>1, <4>1, <4>2, <4>3, <4>4
    <3>4. line' - 1 = line
      BY <1>1, <1>2
    <3>5. QED
      BY <1>1, <1>2, <3>1, <3>2, <3>3, <3>4 DEF Parsed, Lev
  <2>5. 1 .. i - 1 = {} /\ 1 .. i' - 1 = {} /\ 1 .. 0 = {}
    BY <1>1, <1>2
  <2>6. Found'
    BY <1>1, <2>5 DEF IInv, Found
  <2>7. Standing'
    BY <1>1, <2>5 DEF Standing, ClosedAt
  <2>8. Piped'
    BY <1>1 DEF IInv, Piped
  <2>9. QED
    BY <2>2, <2>4, <2>6, <2>7, <2>8 DEF IInv
<1>7. QED
  BY <1>5, <1>6

\* An entry that is asked for and found closed: it is topmost, and the inner loop starts.
LEMMA TakeInv == IInv /\ Take /\ UNCHANGED <<tool, text, wanted, execVars>> => IInv'
<1> SUFFICES ASSUME IInv, Take, UNCHANGED <<tool, text, wanted, execVars>> PROVE IInv'
  OBVIOUS
<1>1. /\ pc = "scan" /\ pc' = "skip" /\ i <= Len(pairs) /\ i' = i + 1 /\ Asked(i)
      /\ UNCHANGED <<tool, text, wanted, child, writers, sent, got, line, pairs>>
      /\ includes' = IF Known(Name(i)) THEN includes ELSE Append(includes, Name(i))
      /\ level' = Lev(i)
  BY DEF Take, execVars, Asked, Name, Lev
<1>0. /\ \A a : (Top(a)' <=> Top(a)) /\ Name(a)' = Name(a)
  BY <1>1, Same
<1>2. /\ Len(pairs) \in Nat /\ i \in Nat /\ i >= 1 /\ i \in 1 .. Len(pairs)
      /\ Lev(i) \in Nat /\ Name(i) \in Paths /\ includes \in Seq(Paths) /\ Len(includes) \in Nat
  <2>1. Len(pairs) \in Nat /\ i \in Nat /\ i >= 1 /\ i \in 1 .. Len(pairs)
    BY <1>1, Sizes DEF IInv
  <2>2. QED
    BY <2>1, Sizes DEF IInv, TypeOK
<1>3. Top(i) /\ ClosedAt(i)
  BY <1>1 DEF IInv, Standing, Top, ClosedAt
<1>4. \A a \in 1 .. i : a \in 1 .. i - 1 \/ a = i
  BY <1>2
<1>5. 1 .. i' - 1 = 1 .. i /\ i' - 1 = i /\ i \in 1 .. i /\ i + 1 .. i = {}
  BY <1>1, <1>2
<1>6. includes' \in Seq(Paths) /\ Found'
  <2>1. CASE Known(Name(i))
    <3>1. includes' = includes
      BY <1>1, <2>1
    <3>2. \A a \in 1 .. i : Top(a) => \E k \in 1 .. Len(includes) : includes[k] = Name(a)
      BY <1>4, <2>1 DEF IInv, Found, Known
    <3>3. \A k \in 1 .. Len(includes) : \E a \in 1 .. i : Top(a) /\ includes[k] = Name(a)
      <4>1. \A a \in 1 .. i - 1 : a \in 1 .. i
        BY <1>2
      <4>2. QED
        BY <4>1 DEF IInv, Found
    <3>4. \A j, k \in 1 .. Len(includes) : includes[j] = includes[k] => j = k
      BY DEF IInv, Found
    <3>5. Found'
      BY <1>1, <1>5, <3>1, <3>2, <3>3, <3>4, <1>0, Zenon DEF Found
    <3>6. QED
      BY <1>2, <3>1, <3>5
  <2>2. CASE ~ Known(Name(i))
    <3>1. /\ includes' \in Seq(Paths) /\ Len(includes') = Len(includes) + 1
          /\ \A k \in 1 .. Len(includes) : includes'[k] = includes[k]
          /\ includes'[Len(includes) + 1] = Name(i)
      BY <1>1, <1>2, <2>2, AppendOne
    <3>2. /\ \A k \in 1 .. Len(includes) + 1 : k \in 1 .. Len(includes) \/ k = Len(includes) + 1
          /\ \A k \in 1 .. Len(includes) : k \in 1 .. Len(includes) + 1
          /\ Len(includes) + 1 \in 1 .. Len(includes) + 1
          /\ \A a \in 1 .. i - 1 : a \in 1 .. i
      BY <1>2
    <3>3. \A k \in 1 .. Len(includes) : includes[k] # Name(i)
      BY <2>2 DEF Known
    <3>4. \A j, k \in 1 .. Len(includes) + 1 : includes'[j] = includes'[k] => j = k
      <4>1. \A j, k \in 1 .. Len(includes) : includes[j] = includes[k] => j = k
        BY DEF IInv, Found
      <4>2. QED
        BY <3>1, <3>2, <3>3, <4>1
    <3>5. \A k \in 1 .. Len(includes) + 1 : \E a \in 1 .. i : Top(a) /\ includes'[k] = Name(a)
      <4>1. \A k \in 1 .. Len(includes) : \E a \in 1 .. i - 1 : Top(a) /\ includes[k] = Name(a)
        BY DEF IInv, Found
      <4>2. QED
        BY <1>3, <1>5, <3>1, <3>2, <4>1
    <3>6. \A a \in 1 .. i : Top(a) => \E k \in 1 .. Len(includes) + 1 : includes'[k] = Name(a)
      <4>1. \A a \in 1 .. i - 1 : Top(a) => \E k \in 1 .. Len(includes) : includes[k] = Name(a)
        BY DEF IInv, Found
      <4>2. QED
        BY <1>4, <3>1, <3>2, <4>1
    <3>7. Found'
      BY <1>1, <1>5, <3>1, <3>4, <3>5, <3>6, <1>0, Zenon DEF Found
    <3>8. QED
      BY <3>1, <3>7
  <2>3. QED
    BY <2>1, <2>2
<1>7. TypeOK'
  <2>1. i' \in Nat \ {0} /\ i' <= Len(pairs) + 1
    BY <1>1, <1>2
  <2>2. QED
    BY <1>1, <1>2, <1>6, <2>1 DEF IInv, TypeOK
<1>8. Piped' /\ Parsed'
  BY <1>1, Same DEF IInv, Piped, Parsed, Scanning
<1>9. Standing'
  BY <1>1, <1>3, <1>5, Same DEF Standing
<1>10. QED
  BY <1>6, <1>7, <1>8, <1>9 DEF IInv

\* An entry that is not asked for is not topmost.
LEMMA PassInv == IInv /\ Pass /\ UNCHANGED <<tool, text, wanted, execVars>> => IInv'
<1> SUFFICES ASSUME IInv, Pass, UNCHANGED <<tool, text, wanted, execVars>> PROVE IInv'
  OBVIOUS
<1>1. /\ pc = "scan" /\ pc' = "scan" /\ i <= Len(pairs) /\ i' = i + 1 /\ ~ Asked(i)
      /\ UNCHANGED <<tool, text, wanted, child, writers, sent, got, line, pairs, level, includes>>
  BY DEF Pass, execVars, Asked, Name
<1>0. /\ \A a : (Top(a)' <=> Top(a)) /\ Name(a)' = Name(a)
      /\ pairs' = pairs /\ includes' = includes
  BY <1>1, Same
<1>2. Len(pairs) \in Nat /\ i \in Nat /\ i >= 1 /\ i \in 1 .. Len(pairs)
  BY <1>1, Sizes DEF IInv
<1>3. ~ Top(i) /\ ClosedAt(i)
  BY <1>1 DEF IInv, Standing, Top
<1>4. /\ \A a \in 1 .. i : a \in 1 .. i - 1 \/ a = i
      /\ \A a \in 1 .. i - 1 : a \in 1 .. i
      /\ 1 .. i' - 1 = 1 .. i
  BY <1>1, <1>2
<1>5. TypeOK'
  <2>1. i' \in Nat \ {0} /\ i' <= Len(pairs) + 1
    BY <1>1, <1>2
  <2>2. QED
    BY <1>1, <2>1 DEF IInv, TypeOK
<1>6. Found'
  <2>1. \A k \in 1 .. Len(includes) : \E a \in 1 .. i : Top(a) /\ includes[k] = Name(a)
    BY <1>4 DEF IInv, Found
  <2>2. \A a \in 1 .. i : Top(a) => \E k \in 1 .. Len(includes) : includes[k] = Name(a)
    BY <1>3, <1>4 DEF IInv, Found
  <2>3. \A j, k \in 1 .. Len(includes) : includes[j] = includes[k] => j = k
    BY DEF IInv, Found
  <2>4. QED
    BY <1>1, <1>4, <2>1, <2>2, <2>3, <1>0, Zenon DEF Found
<1>7. ClosedAt(i + 1)
  <2>1. SUFFICES ASSUME NEW a \in 1 .. i, Asked(a) PROVE Closes(a, i + 1)
    BY <1>2 DEF ClosedAt
  <2>2. a \in 1 .. i - 1
    BY <1>1, <1>4, <2>1
  <2>3. PICK x \in a + 1 .. i : Lev(x) <= Lev(a)
    BY <1>3, <2>1, <2>2 DEF ClosedAt, Closes
  <2>4. x \in a + 1 .. i + 1
    BY <1>2, <2>2
  <2>5. QED
    BY <2>3, <2>4 DEF Closes
<1>8. Standing'
  BY <1>1, <1>7, Same DEF Standing
<1>9. Piped' /\ Parsed'
  BY <1>1, Same DEF IInv, Piped, Parsed, Scanning
<1>10. QED
  BY <1>5, <1>6, <1>8, <1>9 DEF IInv

\* An entry the inner loop passes is under the one taken last: it is not topmost.
LEMMA SkipInnerInv == IInv /\ SkipInner /\ UNCHANGED <<tool, text, wanted, execVars>> => IInv'
<1> SUFFICES ASSUME IInv, SkipInner, UNCHANGED <<tool, text, wanted, execVars>> PROVE IInv'
  OBVIOUS
<1>1. /\ pc = "skip" /\ pc' = "skip" /\ i <= Len(pairs) /\ i' = i + 1 /\ Lev(i) > level
      /\ UNCHANGED <<tool, text, wanted, child, writers, sent, got, line, pairs, level, includes>>
  BY DEF SkipInner, execVars, Lev
<1>0. /\ \A a : (Top(a)' <=> Top(a)) /\ Name(a)' = Name(a)
      /\ pairs' = pairs /\ includes' = includes
  BY <1>1, Same
<1>2. /\ Len(pairs) \in Nat /\ i \in Nat /\ i >= 1 /\ i \in 1 .. Len(pairs)
      /\ \A a \in 1 .. Len(pairs) : Lev(a) \in Nat
  BY <1>1, Sizes DEF IInv
<1>3. PICK c \in 1 .. i - 1 :
         /\ Asked(c) /\ Lev(c) = level /\ ClosedAt(c)
         /\ \A x \in c + 1 .. i - 1 : Lev(x) > level
  BY <1>1 DEF IInv, Standing
<1>4. \A x \in c + 1 .. i : Lev(x) > level
  <2>1. \A x \in c + 1 .. i : x \in c + 1 .. i - 1 \/ x = i
    BY <1>2, <1>3
  <2>2. QED
    BY <1>1, <1>3, <2>1
<1>5. ~ Top(i)
  <2>1. \A x \in c + 1 .. i : ~ (Lev(x) <= Lev(c))
    <3>1. SUFFICES ASSUME NEW x \in c + 1 .. i PROVE ~ (Lev(x) <= Lev(c))
      OBVIOUS
    <3>2. Lev(x) > level /\ Lev(c) = level
      BY <1>3, <1>4
    <3>3. x \in 1 .. Len(pairs) /\ c \in 1 .. Len(pairs)
      BY <1>2, <1>3
    <3>4. QED
      BY <1>2, <3>2, <3>3
  <2>2. ~ Closes(c, i)
    BY <2>1 DEF Closes
  <2>3. QED
    BY <1>3, <2>2 DEF Top
<1>6. /\ \A a \in 1 .. i : a \in 1 .. i - 1 \/ a = i
      /\ \A a \in 1 .. i - 1 : a \in 1 .. i
      /\ 1 .. i' - 1 = 1 .. i /\ i' - 1 = i
  BY <1>1, <1>2
<1>7. TypeOK'
  <2>1. i' \in Nat \ {0} /\ i' <= Len(pairs) + 1
    BY <1>1, <1>2
  <2>2. QED
    BY <1>1, <2>1 DEF IInv, TypeOK
<1>8. Found'
  <2>1. \A k \in 1 .. Len(includes) : \E a \in 1 .. i : Top(a) /\ includes[k] = Name(a)
    BY <1>6 DEF IInv, Found
  <2>2. \A a \in 1 .. i : Top(a) => \E k \in 1 .. Len(includes) : includes[k] = Name(a)
    BY <1>5, <1>6 DEF IInv, Found
  <2>3. \A j, k \in 1 .. Len(includes) : includes[j] = includes[k] => j = k
    BY DEF IInv, Found
  <2>4. QED
    BY <1>0, <1>6, <2>1, <2>2, <2>3, Zenon DEF Found
<1>9. Standing'
  <2>1. \E b \in 1 .. i : /\ Asked(b) /\ Lev(b) = level /\ ClosedAt(b)
                          /\ \A x \in b + 1 .. i : Lev(x) > level
    BY <1>3, <1>4, <1>6
  <2>2. QED
    BY <1>1, <1>6, <2>1, Same DEF Standing
<1>10. Piped' /\ Parsed'
  BY <1>1, Same DEF IInv, Piped, Parsed, Scanning
<1>11. QED
  BY <1>7, <1>8, <1>9, <1>10 DEF IInv

\* The inner loop ends at an entry that closes the one taken last, and all it passed.
LEMMA SkipEndsInv == IInv /\ SkipEnds /\ UNCHANGED <<tool, text, wanted, execVars>> => IInv'
<1> SUFFICES ASSUME IInv, SkipEnds, UNCHANGED <<tool, text, wanted, execVars>> PROVE IInv'
  OBVIOUS
<1>1. /\ pc = "skip" /\ pc' = "scan" /\ (i <= Len(pairs) => Lev(i) <= level)
      /\ UNCHANGED <<tool, text, wanted, child, writers, sent, got, line, pairs, i, level, includes>>
  BY DEF SkipEnds, execVars, scanVars, Lev
<1>2. /\ Len(pairs) \in Nat /\ i \in Nat /\ i >= 1
      /\ \A a \in 1 .. Len(pairs) : Lev(a) \in Nat
  BY Sizes DEF IInv
<1>3. PICK c \in 1 .. i - 1 :
         /\ Asked(c) /\ Lev(c) = level /\ ClosedAt(c)
         /\ \A x \in c + 1 .. i - 1 : Lev(x) > level
  BY <1>1 DEF IInv, Standing
<1>4. ASSUME i <= Len(pairs), NEW a \in 1 .. i - 1, Asked(a) PROVE Closes(a, i)
  <2>0. /\ a \in 1 .. Len(pairs) /\ c \in 1 .. Len(pairs) /\ i \in 1 .. Len(pairs)
        /\ Lev(i) <= level /\ i \in a + 1 .. i
    BY <1>1, <1>2, <1>3, <1>4
  <2>1. CASE a < c
    <3>1. a \in 1 .. c - 1
      BY <2>0, <2>1
    <3>2. PICK x \in a + 1 .. c : Lev(x) <= Lev(a)
      BY <1>3, <1>4, <3>1 DEF ClosedAt, Closes
    <3>3. x \in a + 1 .. i
      BY <1>2, <1>3, <2>0
    <3>4. QED
      BY <3>2, <3>3 DEF Closes
  <2>2. CASE a = c
    BY <1>3, <2>0, <2>2 DEF Closes
  <2>3. CASE c < a
    <3>1. a \in c + 1 .. i - 1
      BY <1>2, <2>0, <2>3
    <3>2. Lev(a) > level
      BY <1>3, <3>1
    <3>3. Lev(i) \in Nat /\ Lev(a) \in Nat /\ level \in Nat
      BY <1>2, <1>3, <2>0
    <3>4. Lev(i) <= Lev(a)
      BY <2>0, <3>2, <3>3
    <3>5. QED
      BY <2>0, <3>4 DEF Closes
  <2>4. QED
    BY <2>0, <2>1, <2>2, <2>3
<1>5. i <= Len(pairs) => ClosedAt(i)
  BY <1>4 DEF ClosedAt
<1>6. Standing'
  BY <1>1, <1>5, Same DEF Standing
<1>7. Piped' /\ Parsed' /\ TypeOK'
  BY <1>1, Same DEF IInv, Piped, Parsed, TypeOK, Scanning
<1>8. Found'
  BY <1>1, FoundSame DEF IInv
<1>9. QED
  BY <1>6, <1>7, <1>8 DEF IInv

\* The outer loops end.
LEMMA LoopEndsInv ==
    IInv /\ (ParseEnds \/ ScanEnds) /\ UNCHANGED <<tool, text, wanted, execVars>> => IInv'
<1> SUFFICES ASSUME IInv, ParseEnds \/ ScanEnds, UNCHANGED <<tool, text, wanted, execVars>>
             PROVE  IInv'
  OBVIOUS
<1>1. /\ \/ pc = "parse" /\ pc' = "scan" /\ line > got
         \/ pc = "scan" /\ pc' = "true" /\ i > Len(pairs)
      /\ UNCHANGED <<tool, text, wanted, child, writers, sent, got, line, pairs, i, level, includes>>
  BY DEF ParseEnds, ScanEnds, execVars, scanVars
<1>2. line \in Nat /\ got \in Nat /\ line <= got + 1
  BY DEF IInv, TypeOK
<1>3. TypeOK' /\ Piped'
  BY <1>1 DEF IInv, Piped, TypeOK, Scanning
<1>4. Parsed'
  <2>1. line = got + 1
    BY <1>1, <1>2 DEF IInv, Parsed
  <2>2. QED
    BY <1>1, <2>1, Same DEF IInv, Parsed
<1>5. Found'
  BY <1>1, FoundSame DEF IInv
<1>6. Standing'
  BY <1>1, Same DEF IInv, Standing
<1>7. QED
  BY <1>3, <1>4, <1>5, <1>6 DEF IInv

\* Every step preserves the invariant.
LEMMA StepInv == IInv /\ [Next]_vars => IInv'
<1> SUFFICES ASSUME IInv, [Next]_vars PROVE IInv'
  OBVIOUS
<1>1. CASE Child \/ Exec
  BY <1>1, ProcessInv
<1>2. CASE FindIncludes
  BY <1>2, ParseInv, TakeInv, PassInv, SkipInnerInv, SkipEndsInv, LoopEndsInv DEF FindIncludes
<1>3. CASE UNCHANGED vars
  <2>1. UNCHANGED <<tool, text, wanted, pc, child, writers, sent, got, line, pairs, i, level, includes>>
    BY <1>3 DEF vars
  <2>2. TypeOK' /\ Piped'
    BY <2>1 DEF IInv, Piped, TypeOK, Scanning
  <2>3. Parsed'
    BY <2>1, Same DEF IInv, Parsed
  <2>4. Found'
    BY <2>1, FoundSame DEF IInv
  <2>5. Standing'
    BY <2>1, Same DEF IInv, Standing
  <2>6. QED
    BY <2>2, <2>3, <2>4, <2>5 DEF IInv
<1>4. QED
  BY <1>1, <1>2, <1>3 DEF Next

LEMMA Invariance == Spec => []IInv
<1>1. QED
  BY InitInv, StepInv, PTL DEF Spec

-----------------------------------------------------------------------------

\* The tools are type correct for every text and pipe: no index leaves its vector, and the
\* pipe is never overfull.
THEOREM TypeCorrect == Spec => []TypeOK
<1>1. IInv => TypeOK
  BY DEF IInv
<1>2. QED
  BY <1>1, Invariance, PTL

\* For every text, also where levels jump, the result is the topmost wanted headers, each
\* once (cch/main.cpp:159-198, mkpch/main.cpp:86-125).
THEOREM Correctness == Spec => []FirstLevelFound
<1>1. ASSUME IInv PROVE FirstLevelFound
  <2>1. SUFFICES ASSUME pc = "true"
        PROVE  /\ {includes[k] : k \in 1 .. Len(includes)}
                     = {text[k].path : k \in {n \in 1 .. got : Topmost(n)}}
               /\ \A j, k \in 1 .. Len(includes) : includes[j] = includes[k] => j = k
               /\ child # "killed" => got = Len(text)
    BY DEF FirstLevelFound
  <2>2. TypeOK /\ Parsed /\ Found /\ line = got + 1 /\ i > Len(pairs)
    BY <1>1, <2>1 DEF IInv, Parsed, Standing
  <2>3. /\ Len(pairs) \in Nat /\ Len(text) \in Nat /\ got \in Nat /\ i \in Nat
        /\ i <= Len(pairs) + 1 /\ got <= Len(text)
    <3>1. got \in Nat /\ sent \in Nat /\ got <= sent /\ sent <= Len(text)
          /\ i \in Nat /\ i <= Len(pairs) + 1
      BY <2>2 DEF TypeOK
    <3>2. Len(pairs) \in Nat /\ Len(text) \in Nat
      BY <2>2, Sizes
    <3>3. QED
      BY <3>1, <3>2
  <2>4. 1 .. i - 1 = 1 .. Len(pairs) /\ line <= Len(text) + 1 /\ 1 .. line - 1 = 1 .. got
    BY <2>2, <2>3
  <2>5. \A a \in 1 .. Len(pairs) : Topmost(pairs[a]) <=> Top(a)
    BY <2>2, <2>4, TopmostIndex
  <2>6. ASSUME NEW k \in 1 .. Len(includes)
        PROVE  \E n \in 1 .. got : Topmost(n) /\ includes[k] = text[n].path
    <3>1. PICK a \in 1 .. Len(pairs) : Top(a) /\ includes[k] = Name(a)
      BY <2>2, <2>4 DEF Found
    <3>2. pairs[a] \in 1 .. got
      <4>1. pairs[a] \in Nat /\ pairs[a] >= 1
        BY <2>2, Sizes
      <4>2. pairs[a] < got + 1
        BY <2>2 DEF Parsed
      <4>3. QED
        BY <2>3, <4>1, <4>2
    <3>3. QED
      BY <2>5, <3>1, <3>2 DEF Name
  <2>7. ASSUME NEW n \in 1 .. got, Topmost(n)
        PROVE  \E k \in 1 .. Len(includes) : includes[k] = text[n].path
    <3>1. PICK a \in 1 .. Len(pairs) : pairs[a] = n
      BY <2>2, <2>4, <2>7 DEF Parsed, Topmost
    <3>2. Top(a)
      BY <2>5, <2>7, <3>1
    <3>3. \E k \in 1 .. Len(includes) : includes[k] = Name(a)
      BY <2>2, <2>4, <3>2 DEF Found
    <3>4. QED
      BY <3>1, <3>3 DEF Name
  <2>8. {includes[k] : k \in 1 .. Len(includes)} = {text[k].path : k \in {n \in 1 .. got : Topmost(n)}}
    <3> DEFINE L == {includes[k] : k \in 1 .. Len(includes)}
               R == {text[n].path : n \in {m \in 1 .. got : Topmost(m)}}
    <3>1. ASSUME NEW p \in L PROVE p \in R
      <4>1. PICK k \in 1 .. Len(includes) : p = includes[k]
        BY <3>1
      <4>2. PICK n \in 1 .. got : Topmost(n) /\ includes[k] = text[n].path
        BY <2>6
      <4>3. QED
        BY <4>1, <4>2, Zenon
    <3>2. ASSUME NEW p \in R PROVE p \in L
      <4>1. PICK n \in 1 .. got : Topmost(n) /\ p = text[n].path
        BY <3>2, Zenon
      <4>2. PICK k \in 1 .. Len(includes) : includes[k] = text[n].path
        BY <2>7, <4>1
      <4>3. QED
        BY <4>1, <4>2
    <3>3. L = R
      BY <3>1, <3>2, Zenon
    <3>4. QED
      BY <3>3
  <2>9. child # "killed" => got = Len(text)
    BY <1>1, <2>1 DEF IInv, Piped, Scanning
  <2>10. QED
    BY <2>2, <2>8, <2>9 DEF Found
<1>2. QED
  BY <1>1, Invariance, PTL

-----------------------------------------------------------------------------
(* The two processes never wait for one another, and each step is one of finitely many. *)

\* Who holds the write end: the parent until it closes it, the compiler while it runs.  No
\* compiler is left behind, and each entry of pairs is a line the parser has passed.
Writers ==
    /\ "parent" \in writers => pc = "close"
    /\ pc = "false" => child # "running"
    /\ "child" \in writers => child = "running"
    /\ writers \subseteq {"parent", "child"}
    /\ Len(pairs) < line

\* What each of the two can do next: the tool goes on when read() has something to return
\* and waitpid() somebody to collect; the compiler prints when there is room.
ToolGoesOn ==
    \/ pc \in {"exec", "close", "parse", "scan", "skip"}
    \/ pc = "read" /\ (got < sent \/ writers = {})
    \/ pc = "wait" /\ child \in {"exit0", "exit1", "killed"}

CompilerGoesOn == child = "running" /\ (sent = Len(text) \/ sent < got + PipeSize)

\* A tool that is not done waits only for a compiler that can print or has printed all, and
\* a compiler that a full pipe holds up only for a tool that is about to read.
NoDeadlock ==
    /\ pc \notin {"true", "false"} => ToolGoesOn \/ CompilerGoesOn
    /\ child = "running" => CompilerGoesOn \/ (ToolGoesOn /\ pc \in {"close", "read"})

\* The steps left: a number for each place in the tool and for the compiler's life, and
\* what is to be printed, read, parsed and scanned.
Place(s) ==
    IF s = "exec" THEN 8 ELSE IF s = "close" THEN 7 ELSE IF s = "read" THEN 6
    ELSE IF s = "wait" THEN 5 ELSE IF s = "parse" THEN 4 ELSE IF s = "skip" THEN 3
    ELSE IF s = "scan" THEN 2 ELSE 0

Life(c) == IF c = "none" THEN 2 ELSE IF c = "running" THEN 1 ELSE 0

Left ==
    Place(pc) + Life(child) + (Len(text) - sent) + (Len(text) - got)
       + (Len(text) + 1 - line) + 2 * (Len(text) + 1 - i)

LEMMA WritersInit == Init => Writers
BY EmptySeq DEF Init, Writers

LEMMA WritersStep == IInv /\ Writers /\ [Next]_vars => Writers'
<1> SUFFICES ASSUME IInv, Writers, [Next]_vars PROVE Writers'
  OBVIOUS
<1>1. PICK n \in Nat : n = Len(pairs) /\ pairs \in Seq(1 .. Len(text))
  BY Sizes DEF IInv, TypeOK
<1>2. line \in Nat /\ n < line
  BY <1>1, Sizes DEF IInv, Writers
<1>3. CASE Child
  <2>1. UNCHANGED <<pc, line, pairs>>
    BY <1>3 DEF Child, scanVars
  <2>2. \/ child' = child /\ writers' = writers
        \/ child' # "running" /\ writers' = writers \ {"child"}
    BY <1>3 DEF Child, Write, ChildEnds
  <2>3. QED
    BY <2>1, <2>2 DEF Writers
<1>4. CASE Exec
  <2>1. UNCHANGED <<line, pairs>>
    BY <1>4 DEF Exec, scanVars
  <2>2. \/ pc = "exec" /\ pc' = "false" /\ UNCHANGED <<child, writers>>
        \/ pc = "wait" /\ UNCHANGED <<child, writers>>
        \/ pc' = "close" /\ child' = "running" /\ writers' = {"parent", "child"}
        \/ pc = "close" /\ pc' = "read" /\ child' = child /\ writers' = writers \ {"parent"}
        \/ pc = "read" /\ pc' # "false" /\ child' = child /\ writers' = writers
    BY <1>4 DEF Exec, ExecFails, Fork, CloseWriteEnd, ReadSome, ReadEof, Wait, execVars
  <2>3. pc \in {"exec", "wait"} => child # "running"
    BY DEF IInv, Piped
  <2>4. QED
    BY <2>1, <2>2, <2>3 DEF Writers
<1>5. CASE FindIncludes
  <2>1. child' = child /\ writers' = writers /\ pc # "close" /\ pc' # "false"
    BY <1>5 DEF FindIncludes, execVars, ParseLine, ParseEnds, Take, Pass, SkipInner, SkipEnds, ScanEnds
  <2>2. \/ UNCHANGED <<line, pairs>>
        \/ ParseLine
    BY <1>5 DEF FindIncludes, ParseEnds, Take, Pass, SkipInner, SkipEnds, ScanEnds, scanVars
  <2>3. Len(pairs') < line'
    <3>1. CASE UNCHANGED <<line, pairs>>
      BY <3>1 DEF Writers
    <3>2. CASE ParseLine
      <4>1. line' = line + 1 /\ (pairs' = pairs \/ pairs' = Append(pairs, line))
        BY <3>2 DEF ParseLine
      <4>2. Len(Append(pairs, line)) = n + 1
        BY <1>1
      <4>3. QED
        BY <1>1, <1>2, <4>1, <4>2
    <3>3. QED
      BY <2>2, <3>1, <3>2
  <2>4. QED
    BY <2>1, <2>3 DEF Writers
<1>6. CASE UNCHANGED vars
  BY <1>6 DEF vars, Writers
<1>7. QED
  BY <1>3, <1>4, <1>5, <1>6 DEF Next

LEMMA WritersInvariance == Spec => [](IInv /\ Writers)
<1>1. QED
  BY InitInv, StepInv, WritersInit, WritersStep, PTL DEF Spec

\* Exec() reads while the compiler prints and closes its own write end first
\* (cch/main.cpp:52-64), so that neither a full pipe nor an end of file that never comes
\* makes the two wait for one another, whatever the sizes of pipe and text.
THEOREM NobodyWaitsForEver == Spec => []NoDeadlock
<1>1. ASSUME IInv, Writers PROVE NoDeadlock
  <2>1. /\ got \in Nat /\ sent \in Nat /\ got <= sent /\ sent <= Len(text) /\ Len(text) \in Nat
    BY <1>1, Sizes DEF IInv, TypeOK
  <2>2. PipeSize \in Nat /\ PipeSize >= 1
    BY PipeSizeAssumption
  <2>3. ASSUME got = sent PROVE sent = Len(text) \/ sent < got + PipeSize
    BY <2>1, <2>2, <2>3
  <2>4. ASSUME pc = "read", ~ (got < sent), writers # {} PROVE CompilerGoesOn
    <3>1. got = sent
      BY <2>1, <2>4
    <3>2. child = "running"
      BY <1>1, <2>4 DEF Writers
    <3>3. QED
      BY <2>3, <3>1, <3>2 DEF CompilerGoesOn
  <2>5. pc = "wait" => child \in {"exit0", "exit1", "killed"}
    BY <1>1 DEF IInv, TypeOK, Piped
  <2>6. pc \notin {"true", "false"} => ToolGoesOn \/ CompilerGoesOn
    BY <1>1, <2>4, <2>5 DEF ToolGoesOn, IInv, TypeOK
  <2>7. ASSUME child = "running", ~ CompilerGoesOn
        PROVE  ToolGoesOn /\ pc \in {"close", "read"}
    <3>1. got # sent
      BY <2>3, <2>7 DEF CompilerGoesOn
    <3>2. got < sent
      BY <2>1, <3>1
    <3>3. pc \in {"close", "read"}
      BY <1>1, <2>7, <3>1 DEF IInv, TypeOK, Piped, Scanning, Writers
    <3>4. QED
      BY <3>2, <3>3 DEF ToolGoesOn
  <2>8. QED
    BY <2>6, <2>7 DEF NoDeadlock
<1>2. QED
  BY <1>1, WritersInvariance, PTL

\* The measure is of natural numbers.
LEMMA LeftIsNat ==
    ASSUME IInv, Writers
    PROVE  /\ Len(text) - sent \in Nat /\ Len(text) - got \in Nat
           /\ Len(text) + 1 - line \in Nat /\ Len(text) + 1 - i \in Nat
           /\ Place(pc) \in Nat /\ Life(child) \in Nat /\ Left \in Nat
<1>1. /\ got \in Nat /\ sent \in Nat /\ got <= sent /\ sent <= Len(text) /\ Len(text) \in Nat
      /\ line \in Nat /\ line <= got + 1 /\ i \in Nat /\ i <= Len(pairs) + 1
  BY Sizes DEF IInv, TypeOK
<1>2. Len(pairs) \in Nat /\ Len(pairs) < line
  BY Sizes DEF IInv, Writers
<1>3. /\ Len(text) - sent \in Nat /\ Len(text) - got \in Nat
      /\ Len(text) + 1 - line \in Nat /\ Len(text) + 1 - i \in Nat
  BY <1>1, <1>2
<1>4. Place(pc) \in Nat /\ Life(child) \in Nat
  BY DEF Place, Life
<1>5. QED
  BY <1>3, <1>4 DEF Left

\* Nothing goes on for ever: each step of the tool and of the compiler takes one at least
\* off a number of steps left, whatever the text and the pipe.  With NobodyWaitsForEver, the
\* run of the compiler and the search of its output end; CompileEnds says so of the runs
\* TLC knows.
THEOREM StepsAreCounted == Spec => [](Left \in Nat) /\ [][Left' < Left]_vars
<1>1. ASSUME IInv, Writers, IInv', Writers', Next PROVE Left' < Left
  <2>1. PICK n \in Nat : n = Len(text) /\ n = Len(text')
    BY <1>1, Sizes DEF IInv, Next, Child, Exec, FindIncludes
  <2>2. /\ n \in Nat /\ sent \in Nat /\ got \in Nat /\ line \in Nat /\ i \in Nat
        /\ sent' \in Nat /\ got' \in Nat /\ line' \in Nat /\ i' \in Nat
    BY <1>1, <2>1 DEF IInv, TypeOK
  <2>3. PICK p, q \in Int : p = Place(pc) /\ q = Place(pc')
    BY DEF Place
  <2>4. PICK l, m \in Int : l = Life(child) /\ m = Life(child')
    BY DEF Life
  <2>5. PICK a, e \in Int : a = n - sent /\ e = n - sent'
    <3>1. n - sent \in Int /\ n - sent' \in Int
      BY <2>2
    <3>2. QED
      BY <3>1, Zenon
  <2>6. PICK b, f \in Int : b = n - got /\ f = n - got'
    <3>1. n - got \in Int /\ n - got' \in Int
      BY <2>2
    <3>2. QED
      BY <3>1, Zenon
  <2>7. PICK c, g \in Int : c = n + 1 - line /\ g = n + 1 - line'
    <3>1. n + 1 - line \in Int /\ n + 1 - line' \in Int
      BY <2>2
    <3>2. QED
      BY <3>1, Zenon
  <2>8. PICK d, h \in Int : d = n + 1 - i /\ h = n + 1 - i'
    <3>1. n + 1 - i \in Int /\ n + 1 - i' \in Int
      BY <2>2
    <3>2. QED
      BY <3>1, Zenon
  <2>9. /\ Left  = p + l + a + b + c + 2 * d
        /\ Left' = q + m + e + f + g + 2 * h
    BY <2>1, <2>3, <2>4, <2>5, <2>6, <2>7, <2>8 DEF Left
  <2>10. /\ p \in Int /\ q \in Int /\ l \in Int /\ m \in Int /\ a \in Int /\ e \in Int
         /\ b \in Int /\ f \in Int /\ c \in Int /\ g \in Int /\ d \in Int /\ h \in Int
    BY <2>3, <2>4, <2>5, <2>6, <2>7, <2>8
  <2>11. CASE Write /\ UNCHANGED <<pc, line, i>>
    <3>1. q = p /\ m = l /\ f = b /\ g = c /\ h = d
      BY <2>3, <2>4, <2>6, <2>7, <2>8, <2>11 DEF Write
    <3>2. e = a - 1
      BY <2>2, <2>5, <2>11 DEF Write
    <3>3. QED
      BY <2>9, <2>10, <3>1, <3>2
  <2>12. CASE ChildEnds /\ UNCHANGED <<pc, line, i>>
    <3>1. m < l
      BY <2>4, <2>12 DEF ChildEnds, Life
    <3>2. q = p /\ e = a /\ f = b /\ g = c /\ h = d
      BY <2>3, <2>5, <2>6, <2>7, <2>8, <2>12 DEF ChildEnds
    <3>3. QED
      BY <2>9, <2>10, <3>1, <3>2
  <2>13. CASE ReadSome /\ UNCHANGED <<line, i>>
    <3>1. q = p /\ m = l /\ e = a /\ g = c /\ h = d
      BY <2>3, <2>4, <2>5, <2>7, <2>8, <2>13 DEF ReadSome
    <3>2. got' > got
      BY <2>2, <1>1, <2>13 DEF ReadSome, IInv, TypeOK
    <3>3. f < b
      <4>1. \A x, y \in Nat : y > x => n - y < n - x
        BY <2>1
      <4>2. n - got' < n - got
        BY <2>2, <3>2, <4>1, Zenon
      <4>3. QED
        BY <2>6, <4>2
    <3>4. QED
      BY <2>9, <2>10, <3>1, <3>3
  <2>14. CASE (ExecFails \/ Fork \/ CloseWriteEnd \/ ReadEof \/ Wait) /\ UNCHANGED <<line, i>>
    <3>1. e = a /\ f = b /\ g = c /\ h = d
      BY <2>5, <2>6, <2>7, <2>8, <2>14 DEF ExecFails, Fork, CloseWriteEnd, ReadEof, Wait, execVars
    <3>2. q < p
      BY <2>3, <2>14 DEF ExecFails, Fork, CloseWriteEnd, ReadEof, Wait, Place
    <3>3. m <= l
      BY <1>1, <2>4, <2>14
         DEF ExecFails, Fork, CloseWriteEnd, ReadEof, Wait, execVars, Life, IInv, Piped
    <3>4. QED
      BY <2>9, <2>10, <3>1, <3>2, <3>3
  <2>15. CASE FindIncludes
    <3>1. m = l /\ e = a /\ f = b
      BY <2>4, <2>5, <2>6, <2>15 DEF FindIncludes, execVars
    <3>2. CASE ParseLine
      <4>1. q = p /\ h = d
        BY <2>3, <2>8, <3>2 DEF ParseLine
      <4>2. g = c - 1
        BY <2>2, <2>7, <3>2 DEF ParseLine
      <4>3. QED
        BY <2>9, <2>10, <3>1, <4>1, <4>2
    <3>3. CASE ParseEnds \/ SkipEnds \/ ScanEnds
      <4>1. g = c /\ h = d
        BY <2>7, <2>8, <3>3 DEF ParseEnds, SkipEnds, ScanEnds, scanVars
      <4>2. q < p
        BY <2>3, <3>3 DEF ParseEnds, SkipEnds, ScanEnds, Place
      <4>3. QED
        BY <2>9, <2>10, <3>1, <4>1, <4>2
    <3>4. CASE Take \/ Pass \/ SkipInner
      <4>1. g = c /\ i' = i + 1
        BY <2>7, <3>4 DEF Take, Pass, SkipInner
      <4>2. h = d - 1
        BY <2>2, <2>8, <4>1
      <4>3. q <= p + 1
        <5>1. (pc = "scan" /\ pc' = "skip") \/ pc' = pc
          BY <3>4 DEF Take, Pass, SkipInner
        <5>2. Place("scan") = 2 /\ Place("skip") = 3
          BY DEF Place
        <5>3. QED
          BY <2>3, <2>10, <5>1, <5>2
      <4>4. QED
        BY <2>9, <2>10, <3>1, <4>1, <4>2, <4>3
    <3>5. QED
      BY <2>15, <3>2, <3>3, <3>4 DEF FindIncludes
  <2>16. QED
    BY <1>1, <2>11, <2>12, <2>13, <2>14, <2>15 DEF Next, Child, Exec, scanVars
<1>2. IInv /\ Writers => Left \in Nat
  BY LeftIsNat
<1>3. IInv /\ Writers /\ IInv' /\ Writers' /\ [Next]_vars => [Left' < Left]_vars
  BY <1>1
<1>4. QED
  BY <1>2, <1>3, WritersInvariance, PTL DEF Spec
=============================================================================
