------------------------------- MODULE Cursor -------------------------------
(* How the programs that walk over a text with a pointer p look for          *)
(* something: they move p on while it is at something else.  The pointer is  *)
(* a position in a sequence.                                                 *)
EXTENDS Integers, Sequences, FiniteSetsExt

\* The first position of s from k on that holds one of S, or the end of s.
To(s, k, S) == Min({n \in k .. Len(s) : s[n] \in S} \cup {Len(s) + 1})

\* The first position of s from k on that holds none of S, or the end of s.
Past(s, k, S) == Min({n \in k .. Len(s) : s[n] \notin S} \cup {Len(s) + 1})
=============================================================================
