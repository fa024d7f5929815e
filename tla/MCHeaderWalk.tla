---------------------------- MODULE MCHeaderWalk ----------------------------
(* Instances of HeaderWalk for TLC: every graph in which three files of ours *)
(* have up to two includes each, themselves and each other and the system's  *)
(* header included.                                                          *)
EXTENDS HeaderWalk

CONSTANTS src, a, b, sys

MCFiles == {src, a, b, sys}

\* First-level includes without repetitions, as FindIncludes lists them.
Lists == {<< >>} \cup {<<f>> : f \in MCFiles}
             \cup ({<<f, g>> : f \in MCFiles, g \in MCFiles} \ {<<f, f>> : f \in MCFiles})

MCGraphs == {g \in [MCFiles -> Lists] : g[sys] = << >>}
=============================================================================
