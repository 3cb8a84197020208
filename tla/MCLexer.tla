------------------------------ MODULE MCLexer ------------------------------
(* The texts Lexer is checked on: every text of up to four characters over *)
(* one character of each class (two letters that spell the keyword "to",   *)
(* two digits), and longer ones of letters and digits, where numbers reach *)
(* and pass NumberMax = 191 in their last digit.                           *)
EXTENDS Lexer

MCIdentStart == {"t", "o"}
MCDigits == {"1", "9"}
MCDigitValue == [d \in MCDigits |-> IF d = "1" THEN 1 ELSE 9]
MCBlanks == {"space", "newline"}
MCStray == {"$"}
MCKeywords == {<<"t", "o">>}

Texts(S, lengths) == UNION {[1 .. n -> S] : n \in lengths}
MCSources ==
    Texts(MCIdentStart \cup MCDigits \cup MCBlanks \cup MCStray \cup {":", ";", "#"}, 0 .. 4)
    \cup Texts({"t", "1", "9"}, 5 .. 6)
    \cup Texts({"t", "newline", "#", "$"}, 5 .. 6)
=============================================================================
