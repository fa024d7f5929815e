----------------------------- MODULE MCDepStats -----------------------------
(* Small instance of DepStats: one file of up to three lines, with or      *)
(* without the newline at its end, or two of one line.                     *)
EXTENDS DepStats, SequencesExt

CONSTANTS a, b, NoFile

MCNames == {a, b}
MCWords == {<<a>>, <<b>>, <<a, b>>, <<b, "colon", a>>}

Lines == {
    << >>, <<"sp">>,
    <<"hash", a>>, <<"sp", "hash", b>>, <<"hash", a, "colon", "sp", b>>,
    <<a, "colon">>, <<a, "colon", "sp">>, <<a, "colon", "sp", b>>, <<"sp", b, "colon", a>>,
    <<a, "colon", "sp", b, "sp", "cont", "sp", b, "sp", a>>,
    <<a, "colon", "sp", a, "cont", b, "sp", b, "colon", "cont", a>>,
    <<a, "sp", "colon", b>>, <<b>>}

Joined(lines, last) == FlattenSeq([k \in DOMAIN lines |->
    IF k < Len(lines) \/ last THEN Append(lines[k], "nl") ELSE lines[k]])

MCTexts == {Joined(lines, last) : lines \in SeqOf(Lines, 3), last \in BOOLEAN}

Short == {Joined(<<l>>, TRUE) : l \in Lines} \cup {NoFile}
MCInputs == {<<t>> : t \in MCTexts} \cup {<<s, t>> : s, t \in Short}
=============================================================================
