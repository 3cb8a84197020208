----------------------------- MODULE MCPosition -----------------------------
(* All texts of up to four characters over a newline, a NUL, a tab and two *)
(* plain ones, and long ones that cross from line 9 to line 10 and from 99 *)
(* to 100.  Lines of four characters are longer than MaxInt.               *)
EXTENDS Position

MCPlain == {"a", "b"}

(* Tab stops in every fourth column; nothing is seen of the others.        *)
MCLeap(column, what) == IF what = "tab" THEN ((column \div 4) + 1) * 4 ELSE column

MCTexts ==
    UNION {[1 .. k -> Characters] : k \in 0 .. 4}
    \cup {[c \in 1 .. k |-> Newline] \o t : k \in 7 .. 9, t \in [1 .. 3 -> {Newline, "a"}]}
    \cup {[c \in 1 .. 98 |-> Newline] \o <<"a", Newline, "b">>}
=============================================================================
