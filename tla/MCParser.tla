------------------------------ MODULE MCParser ------------------------------
EXTENDS Parser

MCChars == Digits \cup {"semicolon", "?", "[", "]", "(", ")", "*", "+", "c",
                        "a", "k", "A", "H", "O", "h", "l", "m", "p", "!", "\\", "space", "~"}

Texts == {Char("a"), Control("lf"), Quiet(<<"high">>)}

\* Parameters empty, missing, of one digit and more, and too long for csi_buf,
\* too many for params, too large for an int.
Sequences ==
    {Csi(FALSE, <<>>, "m"), Csi(FALSE, <<1, 37>>, "m"), Csi(FALSE, <<101, 0>>, "m"),
     Csi(FALSE, <<Missing, 97>>, "m"),
     Csi(FALSE, <<4, 7>>, "m"), Csi(FALSE, <<24, 49>>, "m"),
     Csi(FALSE, <<Missing, 3>>, "H"), Csi(FALSE, <<12, 34, 5>>, "H"), Csi(FALSE, <<130>>, "H")}

Modes == {Csi(TRUE, <<25, 1>>, "h"), Csi(TRUE, <<25>>, "l"), Csi(TRUE, <<1>>, "l")}

Escapes == {Esc("7"), Esc("8"), Esc("c")}

\* ESC ( 0, and a window title ended by BEL.
Consumed == {Quiet(<<"esc", "(", "0">>), Quiet(<<"esc", "]", "0", "semicolon", "a", "bel">>)}

\* A soft reset, and a window title ended by ESC \.
Unknown == {Other(<<"esc", "[", "!", "p">>), Other(<<"esc", "]", "0", "esc", "\\">>)}

MCItems == Texts \cup Sequences \cup Modes \cup Escapes \cup Consumed \cup Unknown

EchoItems == Texts \cup Sequences
=============================================================================
