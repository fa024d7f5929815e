----------------------------- MODULE MCIncludes -----------------------------
(* Instances of Includes for TLC: every text of up to MaxLines lines.  Levels *)
(* may jump, which the compiler's do not, and lines that are no includes may  *)
(* stand anywhere.                                                            *)
EXTENDS Includes

CONSTANTS MaxLines, MaxLevel

MCLine == [level : 1 .. MaxLevel, path : Paths]
            \cup {[level |-> 0, path |-> CHOOSE p \in Paths : TRUE]}

MCTexts == UNION {[1 .. n -> MCLine] : n \in 0 .. MaxLines}
=============================================================================
