------------------------------ MODULE Position ------------------------------
(***************************************************************************)
(* Where PrintPositioned of src/diagnostic.c points to: PositionFromOffset *)
(* counts from the beginning of the text, FindSourceLine looks from the    *)
(* offset in both directions, and the two results are printed as a source  *)
(* line and a row of carets under it, behind a gutter whose width is       *)
(* computed apart from the number printed in it.                           *)
(*                                                                         *)
(* Offsets count from 0 and are at most the length of the text; a larger   *)
(* one would be an internal error, and the lexer's and parser's spans have *)
(* none (TypeOK of Lexer).                                                 *)
(*                                                                         *)
(* The rows are what is written: source characters as they are, a tab as a *)
(* tab.  Where they appear is the terminal's doing, which is external: it  *)
(* shows the Plain characters and those of the layout in one column each   *)
(* and does with any other, a tab, a control character, a byte of a longer *)
(* character, whatever Leap says.                                          *)
(***************************************************************************)
EXTENDS Integers, Sequences, FiniteSets

CONSTANTS Characters,     \* the bytes of a text, among them the next two
          Newline, Nul,
          Plain,          \* those that a terminal shows in one column
          Leap(_, _),     \* the column behind any other, and the one before it
          Texts,          \* the source texts
          MaxInt          \* INT_MAX, the largest precision printf takes

Layout == {"blank", "bar", "digit", "caret"}

ASSUME TextsAssumption ==
    /\ Texts \subseteq Seq(Characters)
    /\ {Newline, Nul} \subseteq Characters
    /\ Plain \subseteq Characters \ {Newline, Nul}
    /\ Characters \cap Layout = {}
    /\ MaxInt \in Nat

VARIABLES text, start, end,   \* the text and the span
          pc,                 \* which loop runs; "print", "done"
          idx,                \* its index
          line, col,          \* from PositionFromOffset
          lineStart, lineEnd, \* from FindSourceLine
          n, gutterWidth,     \* the loop that measures the line number
          sourceRow,          \* the source line as printed
          caretRow            \* the carets as printed

found == <<line, col, lineStart, lineEnd>>
printed == <<n, gutterWidth, sourceRow, caretRow>>
positionVars == <<text, start, end, pc, idx, found, printed>>

At(offset) == text[offset + 1]

PositionInit ==
    /\ text \in Texts
    /\ start \in 0 .. Len(text) /\ end \in start .. Len(text)
    /\ pc = "position"
    /\ idx = 0
    /\ line = 1 /\ col = 1
    /\ lineStart = start /\ lineEnd = start
    /\ n = 1 /\ gutterWidth = 1
    /\ sourceRow = << >>
    /\ caretRow = << >>

(* Broken: the column goes on counting over the newline.                   *)
CountNewlineNoReset ==
    /\ pc = "position" /\ idx < start /\ At(idx) = Newline
    /\ line' = line + 1 /\ col' = col + 1
    /\ idx' = idx + 1
    /\ UNCHANGED <<text, start, end, pc, lineStart, lineEnd, printed>>

CountNewline ==
    /\ pc = "position" /\ idx < start /\ At(idx) = Newline
    /\ line' = line + 1 /\ col' = 1
    /\ idx' = idx + 1
    /\ UNCHANGED <<text, start, end, pc, lineStart, lineEnd, printed>>

CountColumn ==
    /\ pc = "position" /\ idx < start /\ At(idx) # Newline
    /\ col' = col + 1
    /\ idx' = idx + 1
    /\ UNCHANGED <<text, start, end, pc, line, lineStart, lineEnd, printed>>

EndPosition ==
    /\ pc = "position" /\ idx = start
    /\ pc' = "lineStart"
    /\ UNCHANGED <<text, start, end, idx, found, printed>>

MoveLineStart ==
    /\ pc = "lineStart"
    /\ IF lineStart > 0 /\ At(lineStart - 1) # Newline
       THEN lineStart' = lineStart - 1 /\ UNCHANGED pc
       ELSE pc' = "lineEnd" /\ UNCHANGED lineStart
    /\ UNCHANGED <<text, start, end, idx, line, col, lineEnd, printed>>

MoveLineEnd ==
    /\ pc = "lineEnd"
    /\ IF lineEnd < Len(text) /\ At(lineEnd) # Newline
       THEN lineEnd' = lineEnd + 1 /\ UNCHANGED <<pc, n>>
       ELSE pc' = "width" /\ n' = line /\ UNCHANGED lineEnd
    /\ UNCHANGED <<text, start, end, idx, line, col, lineStart>>
    /\ UNCHANGED <<gutterWidth, sourceRow, caretRow>>

(* Broken: a line number of ten or more stops the loop a digit too early.  *)
WidenGutterLate ==
    /\ pc = "width"
    /\ IF n > 10
       THEN n' = n \div 10 /\ gutterWidth' = gutterWidth + 1 /\ UNCHANGED pc
       ELSE pc' = "print" /\ UNCHANGED <<n, gutterWidth>>
    /\ UNCHANGED <<text, start, end, idx, found, sourceRow, caretRow>>

WidenGutter ==
    /\ pc = "width"
    /\ IF n >= 10
       THEN n' = n \div 10 /\ gutterWidth' = gutterWidth + 1 /\ UNCHANGED pc
       ELSE pc' = "print" /\ UNCHANGED <<n, gutterWidth>>
    /\ UNCHANGED <<text, start, end, idx, found, sourceRow, caretRow>>

-----------------------------------------------------------------------------
(* What printf writes, by its own rules.                                   *)

Cells(m, what) == [c \in 1 .. m |-> what]

PowerOfTen[k \in Nat] == IF k = 0 THEN 1 ELSE 10 * PowerOfTen[k - 1]

(* The digits of a number from 1 on: the first power of ten beyond it.     *)
Digits(m) == CHOOSE k \in 1 .. m : m < PowerOfTen[k] /\ PowerOfTen[k - 1] <= m

(* "%*u": at least so wide, and never cut.                                 *)
Number(width, m) ==
    Cells(IF width > Digits(m) THEN width - Digits(m) ELSE 0, "blank")
    \o Cells(Digits(m), "digit")

(* "%.*s": to the first NUL, and at most so many characters; no limit when *)
(* the length has become a negative int.  A NUL ends the text itself.      *)
Limit == IF lineEnd - lineStart <= MaxInt THEN lineEnd ELSE Len(text)

StringEnd ==
    CHOOSE e \in lineStart .. Limit :
        /\ e = Limit \/ At(e) = Nul
        /\ \A p \in lineStart .. e - 1 : At(p) # Nul

-----------------------------------------------------------------------------

Bar == <<"blank", "bar", "blank">>

SpanLength == end - start

Carets == IF SpanLength = 0 THEN 1 ELSE SpanLength

PrintPositioned ==
    /\ pc = "print"
    /\ sourceRow' = Number(gutterWidth, line) \o Bar \o SubSeq(text, lineStart + 1, StringEnd)
    /\ caretRow' = Cells(gutterWidth, "blank") \o Bar
                   \o Cells(col - 1, "blank") \o Cells(Carets, "caret")
    /\ pc' = "done"
    /\ UNCHANGED <<text, start, end, idx, found, n, gutterWidth>>

PositionNext ==
    \/ CountNewline \/ CountColumn \/ EndPosition
    \/ MoveLineStart \/ MoveLineEnd \/ WidenGutter \/ PrintPositioned

PositionSpec == PositionInit /\ [][PositionNext]_positionVars

-----------------------------------------------------------------------------
(* The terminal.                                                           *)

Behind(column, what) ==
    IF what \in Plain \cup Layout THEN column + 1 ELSE Leap(column, what)

(* The columns before and behind every cell of a row.                      *)
Columns(row) ==
    LET behind[c \in 0 .. Len(row)] ==
            IF c = 0 THEN 0 ELSE Behind(behind[c - 1], row[c])
    IN  behind

CaretColumns == {Columns(caretRow)[c - 1] : c \in {d \in DOMAIN caretRow : caretRow[d] = "caret"}}

-----------------------------------------------------------------------------

NewlinesBefore(offset) == Cardinality({p \in 0 .. offset - 1 : At(p) = Newline})

(* The two ways of locating an offset agree: the line found around it is   *)
(* the one with the line number counted up to it, and the column is the    *)
(* distance from that line's beginning.                                    *)
LocatesOneLine ==
    pc = "print" =>
        /\ line = 1 + NewlinesBefore(start) /\ line = 1 + NewlinesBefore(lineStart)
        /\ col = 1 + start - lineStart
        /\ \A p \in lineStart .. lineEnd - 1 : At(p) # Newline
        /\ lineEnd = Len(text) \/ At(lineEnd) = Newline

(* The source text begins two cells behind the bar of its gutter.          *)
TextCell(p) ==
    (CHOOSE c \in DOMAIN sourceRow : sourceRow[c] = "bar") + 2 + (p - lineStart)

(* On the screen, a place of the source line is over a caret exactly when  *)
(* it belongs to the span (an empty span has the place it begins with), as *)
(* far as the line is plain up to there: behind a tab, a NUL or anything   *)
(* else that does not take one column nothing is promised but that there   *)
(* are carets.  The source line is printed as one line, its characters in  *)
(* their places, unless it is longer than an int can count.                *)
CaretsUnderSpan ==
    pc = "done" =>
        /\ CaretColumns # {}
        /\ lineEnd - lineStart <= MaxInt =>
              /\ \A c \in DOMAIN sourceRow : sourceRow[c] # Newline
              /\ \A p \in lineStart .. lineEnd :
                    (\A q \in lineStart .. p - 1 : At(q) \in Plain) =>
                        /\ \A q \in lineStart .. p - 1 : sourceRow[TextCell(q)] = At(q)
                        /\ Columns(sourceRow)[TextCell(p) - 1] \in CaretColumns
                              <=> p \in start .. end - 1 \/ p = start
=============================================================================
