----------------------------- MODULE MCParser ------------------------------
(* The token lists Parser is checked on: every list of up to four tokens   *)
(* before EOF, and every sequence of four pieces out of ten: whole         *)
(* statements, broken ones and stray tokens.                               *)
EXTENDS Parser

Lists(S, lengths) == UNION {[1 .. n -> S] : n \in lengths}

Pieces ==
    {<<"label", "identifier", "colon">>, <<"syscall", "semicolon">>,
     <<"entry", "identifier", "semicolon">>,
     <<"move", "number", "to", "identifier", "semicolon">>,
     <<"label", "identifier">>, <<"entry", "semicolon">>,
     <<"move", "identifier", "identifier", "semicolon">>, <<"move">>,
     <<"identifier">>, <<"semicolon">>}

MCInputs ==
    {Append(t, "eof") : t \in Lists(TokenKind \ {"eof"}, 0 .. 4)}
    \cup {p[1] \o p[2] \o p[3] \o p[4] \o <<"eof">> : p \in Lists(Pieces, {4})}
=============================================================================
