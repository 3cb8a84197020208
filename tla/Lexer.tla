------------------------------- MODULE Lexer -------------------------------
(***************************************************************************)
(* Lex of src/lexer.c, one step per character it consumes: the do/while    *)
(* that skips blanks and comments, the scanning loops of identifiers and   *)
(* numbers, the one-character tokens and the unexpected characters.        *)
(*                                                                         *)
(* Offsets count from 0 as in the source: the character at offset i is     *)
(* source[i + 1], and a span [start, end) ends before "end".  Characters   *)
(* are values of the sets below.  A number is kept with its exact value in *)
(* a history variable, which the program has no room for.                  *)
(***************************************************************************)
EXTENDS Diags, Integers

CONSTANTS
    IdentStart,   \* letters and underscore
    Digits,       \* decimal digits
    DigitValue,   \* the value of each digit, 0 .. 9
    Blanks,       \* space, tab, line breaks, ...
    Newline,      \* the blank that ends a comment
    Colon, Semicolon, Hash,
    Stray,        \* characters the language has no use for
    Keywords,     \* the reserved words, as sequences of characters
    NumberMax,    \* UINT64_MAX
    DiagsCap,     \* the store's max (DIAGS_CAP of main.c)
    Sources       \* the source texts lexed

Chars == IdentStart \cup Digits \cup Blanks \cup {Colon, Semicolon, Hash} \cup Stray

ASSUME LexerAssumption ==
    /\ NumberMax \in Nat /\ NumberMax >= 9
    /\ DiagsCap \in Nat
    /\ DigitValue \in [Digits -> 0 .. 9]
    /\ Newline \in Blanks
    /\ Sources \subseteq Seq(Chars)

ASSUME CharClasses ==
    /\ Colon # Semicolon /\ Colon # Hash /\ Semicolon # Hash
    /\ \A S \in {IdentStart, Digits, Blanks, Stray} : {Colon, Semicolon, Hash} \cap S = {}
    /\ IdentStart \cap (Digits \cup Blanks \cup Stray) = {}
    /\ Digits \cap (Blanks \cup Stray) = {}
    /\ Blanks \cap Stray = {}

VARIABLES source,      \* the text
          pos,         \* offset of the next character
          pc,          \* "skip" (head of Lex's loop), "comment", "ident", "number", "done"
          start,       \* where the token being scanned began
          value,       \* value of LexNumber
          overflowed,  \* overflowed of LexNumber
          exact,       \* history: the number being scanned, unbounded
          tokens,      \* the token list
          diags        \* the lexer's diagnostics

vars == <<source, pos, pc, start, value, overflowed, exact, tokens, diags>>

Char(i) == source[i + 1]
AtEnd == pos >= Len(source)
IdentContinue == IdentStart \cup Digits

(* A token: word is the text of identifiers and keywords, number the value *)
(* of numbers.                                                             *)
Token(tk, word, number, from, to) ==
    [tk |-> tk, word |-> word, number |-> number, start |-> from, end |-> to]

Emit(token) == tokens' = Append(tokens, token)

(* DiagsPush(diags, (Span){from, to}, ...)                                 *)
DiagsPush(from, to) ==
    diags' = DiagsPushImpl(diags, [severity |-> "error", start |-> from, end |-> to])

Init ==
    /\ source \in Sources
    /\ pos = 0
    /\ pc = "skip"
    /\ start = 0
    /\ value = 0 /\ overflowed = FALSE /\ exact = 0
    /\ tokens = << >>
    /\ diags = DiagsInit(DiagsCap)

scanning == <<start, value, overflowed, exact>>

-----------------------------------------------------------------------------
(* Blanks and comments.                                                    *)

SkipWhitespace ==
    /\ pc = "skip" /\ ~ AtEnd /\ Char(pos) \in Blanks
    /\ pos' = pos + 1
    /\ UNCHANGED <<source, pc, scanning, tokens, diags>>

SkipComment ==
    /\ pc = "skip" /\ ~ AtEnd /\ Char(pos) = Hash
    /\ pc' = "comment"
    /\ UNCHANGED <<source, pos, scanning, tokens, diags>>

(* Broken: the loop does not advance.                                      *)
SkipCommentCharStuck ==
    /\ pc = "comment" /\ ~ AtEnd /\ Char(pos) # Newline
    /\ UNCHANGED vars

SkipCommentChar ==
    /\ pc = "comment" /\ ~ AtEnd /\ Char(pos) # Newline
    /\ pos' = pos + 1
    /\ UNCHANGED <<source, pc, scanning, tokens, diags>>

(* The newline itself is left to SkipWhitespace: pos has moved, so the     *)
(* do/while goes round again.                                              *)
EndComment ==
    /\ pc = "comment" /\ (~ AtEnd => Char(pos) = Newline)
    /\ pc' = "skip"
    /\ UNCHANGED <<source, pos, scanning, tokens, diags>>

-----------------------------------------------------------------------------
(* Identifiers and keywords.                                               *)

BeginIdentifier ==
    /\ pc = "skip" /\ ~ AtEnd /\ Char(pos) \in IdentStart
    /\ pc' = "ident"
    /\ start' = pos
    /\ UNCHANGED <<source, pos, value, overflowed, exact, tokens, diags>>

ScanIdentifier ==
    /\ pc = "ident" /\ ~ AtEnd /\ Char(pos) \in IdentContinue
    /\ pos' = pos + 1
    /\ UNCHANGED <<source, pc, scanning, tokens, diags>>

(* Broken: a word that only starts with a keyword is taken for it.         *)
StrToKeywordPrefix(word) == \E n \in 1 .. Len(word) : SubSeq(word, 1, n) \in Keywords

StrToKeyword(word) == word \in Keywords

LexIdentifierOrKeyword ==
    LET word == SubSeq(source, start + 1, pos) IN
    /\ pc = "ident" /\ (~ AtEnd => Char(pos) \notin IdentContinue)
    /\ Emit(Token(IF StrToKeyword(word) THEN "keyword" ELSE "identifier",
                  word, 0, start, pos))
    /\ pc' = "skip"
    /\ UNCHANGED <<source, pos, scanning, diags>>

-----------------------------------------------------------------------------
(* Numbers.                                                                *)

BeginNumber ==
    /\ pc = "skip" /\ ~ AtEnd /\ Char(pos) \in Digits
    /\ pc' = "number"
    /\ start' = pos
    /\ value' = 0 /\ overflowed' = FALSE /\ exact' = 0
    /\ UNCHANGED <<source, pos, tokens, diags>>

(* Broken: the digit is not taken off the limit before the division.       *)
WouldOverflowLate(digit) == value > NumberMax \div 10

(* Broken: a number that just fits is taken to overflow.                   *)
WouldOverflowEarly(digit) == value >= (NumberMax - digit) \div 10

WouldOverflow(digit) == value > (NumberMax - digit) \div 10

ScanDigit ==
    /\ pc = "number" /\ ~ AtEnd /\ Char(pos) \in Digits
    /\ LET digit == DigitValue[Char(pos)] IN
         /\ exact' = exact * 10 + digit
         /\ IF overflowed \/ WouldOverflow(digit)
            THEN overflowed' = TRUE /\ UNCHANGED value
            ELSE value' = value * 10 + digit /\ UNCHANGED overflowed
    /\ pos' = pos + 1
    /\ UNCHANGED <<source, pc, start, tokens, diags>>

LexNumber ==
    /\ pc = "number" /\ (~ AtEnd => Char(pos) \notin Digits)
    /\ Emit(Token("number", << >>, value, start, pos))
    /\ IF overflowed THEN DiagsPush(start, pos) ELSE UNCHANGED diags
    /\ pc' = "skip"
    /\ UNCHANGED <<source, pos, scanning>>

-----------------------------------------------------------------------------
(* One character, or none.                                                 *)

LexPunctuation ==
    /\ pc = "skip" /\ ~ AtEnd /\ Char(pos) \in {Colon, Semicolon}
    /\ Emit(Token(IF Char(pos) = Colon THEN "colon" ELSE "semicolon",
                  << >>, 0, pos, pos + 1))
    /\ pos' = pos + 1
    /\ UNCHANGED <<source, pc, scanning, diags>>

(* Broken: the span is taken after the character has been passed.          *)
UnexpectedCharacterShifted ==
    /\ pc = "skip" /\ ~ AtEnd /\ Char(pos) \in Stray
    /\ pos' = pos + 1
    /\ DiagsPush(pos', pos' + 1)
    /\ UNCHANGED <<source, pc, scanning, tokens>>

(* No token: the loop continues behind the character.                      *)
UnexpectedCharacter ==
    /\ pc = "skip" /\ ~ AtEnd /\ Char(pos) \in Stray
    /\ DiagsPush(pos, pos + 1)
    /\ pos' = pos + 1
    /\ UNCHANGED <<source, pc, scanning, tokens>>

LexEOF ==
    /\ pc = "skip" /\ AtEnd
    /\ Emit(Token("eof", << >>, 0, pos, pos))
    /\ pc' = "done"
    /\ UNCHANGED <<source, pos, scanning, diags>>

Next ==
    \/ SkipWhitespace \/ SkipComment \/ SkipCommentChar \/ EndComment
    \/ BeginIdentifier \/ ScanIdentifier \/ LexIdentifierOrKeyword
    \/ BeginNumber \/ ScanDigit \/ LexNumber
    \/ LexPunctuation \/ UnexpectedCharacter \/ LexEOF

(* The lexer is a sequential loop that waits for nothing.                  *)
Spec == Init /\ [][Next]_vars /\ WF_vars(Next)

-----------------------------------------------------------------------------
(* The lexemes of a text, defined without the lexer: which spans are       *)
(* words, numbers and punctuation, and which characters are faults.        *)

Offsets == 0 .. Len(source) - 1
All(S, from, to) == \A i \in from .. to - 1 : Char(i) \in S

InComment(i) == \E j \in 0 .. i : /\ Char(j) = Hash
                                 /\ \A k \in j .. i : Char(k) # Newline

(* A word begins at the first letter of a run of letters and digits and    *)
(* takes the rest of it; the digits before that letter are a number.       *)
Words ==
    {w \in Offsets \X (1 .. Len(source)) :
        LET s == w[1]  e == w[2] IN
        /\ s < e /\ Char(s) \in IdentStart /\ ~ InComment(s)
        /\ All(IdentStart \cup Digits, s, e)
        /\ e < Len(source) => Char(e) \notin IdentStart \cup Digits
        /\ \A r \in 0 .. s - 1 : All(IdentStart \cup Digits, r, s) => Char(r) \in Digits}

Numbers ==
    {w \in Offsets \X (1 .. Len(source)) :
        LET s == w[1]  e == w[2] IN
        /\ s < e /\ All(Digits, s, e) /\ ~ InComment(s)
        /\ e < Len(source) => Char(e) \notin Digits
        /\ s > 0 => Char(s - 1) \notin IdentStart \cup Digits}

CharactersIn(S) ==
    {<<i, i + 1>> : i \in {j \in Offsets : Char(j) \in S /\ ~ InComment(j)}}

Decimal(span) ==
    LET val[k \in span[1] .. span[2]] ==
            IF k = span[1] THEN 0 ELSE val[k - 1] * 10 + DigitValue[Char(k - 1)]
    IN  val[span[2]]

Faults == CharactersIn(Stray) \cup {n \in Numbers : Decimal(n) > NumberMax}

(* Everything before this offset has been dealt with.                      *)
Settled == IF pc \in {"ident", "number"} THEN start ELSE pos
SettledIn(spans) == {s \in spans : s[2] <= Settled}

SpanOf(r) == <<r.start, r.end>>
SpansOf(kinds) ==
    {SpanOf(tokens[i]) : i \in {j \in 1 .. Len(tokens) : tokens[j].tk \in kinds}}

-----------------------------------------------------------------------------

TokenKind == {"identifier", "keyword", "number", "colon", "semicolon", "eof"}

(* Every offset is one of the text, and value is a u64: LexNumber never    *)
(* lets a multiplication wrap.                                             *)
TypeOK ==
    /\ source \in Seq(Chars)
    /\ pos \in 0 .. Len(source)
    /\ pc \in {"skip", "comment", "ident", "number", "done"}
    /\ start \in 0 .. Len(source)
    /\ value \in 0 .. NumberMax
    /\ overflowed \in BOOLEAN
    /\ exact \in Nat
    /\ tokens \in Seq([tk : TokenKind, word : Seq(Chars), number : 0 .. NumberMax,
                      start : 0 .. Len(source), end : 0 .. Len(source)])
    /\ diags \in [entries : Seq([severity : Severity, start : 0 .. Len(source),
                                end : 0 .. Len(source)]),
                  cap : Nat, max : {DiagsCap}, nerrs : Nat, nwarnings : Nat]

(* At every moment the tokens are exactly the lexemes of the text that     *)
(* have been dealt with, in text order: none is lost, split, merged or     *)
(* read out of a comment, a reserved word is a keyword only when it is a   *)
(* whole word, a number that fits 64 bits has its decimal value, and the   *)
(* list ends with one EOF token at the end of text.                        *)
TokensAreLexemes ==
    /\ SpansOf({"identifier", "keyword"}) = SettledIn(Words)
    /\ SpansOf({"number"}) = SettledIn(Numbers)
    /\ SpansOf({"colon", "semicolon"}) = SettledIn(CharactersIn({Colon, Semicolon}))
    /\ SpansOf({"eof"}) = IF pc = "done" THEN {<<Len(source), Len(source)>>} ELSE {}
    /\ \A i, j \in 1 .. Len(tokens) : i < j => tokens[i].end <= tokens[j].start
    /\ \A i \in 1 .. Len(tokens) :
         tokens[i].tk \in {"identifier", "keyword"} =>
            /\ tokens[i].word = SubSeq(source, tokens[i].start + 1, tokens[i].end)
            /\ tokens[i].tk = "keyword" <=> tokens[i].word \in Keywords
    /\ \A i \in 1 .. Len(tokens) :
         LET n == Decimal(SpanOf(tokens[i])) IN
         tokens[i].tk = "number" /\ n <= NumberMax => tokens[i].number = n

(* The overflow test of LexNumber is exact at every digit: it fires on the *)
(* first digit that takes the number past the largest u64 and the number   *)
(* stays overflowed from there on.                                         *)
OverflowExact ==
    pc = "number" => /\ overflowed <=> exact > NumberMax
                     /\ ~ overflowed => value = exact

(* nerrs counts the faults of the text passed so far, so main.c goes on to *)
(* the parser exactly when there is none; the stored diagnostics are the   *)
(* first ones in text order and point at the fault.                        *)
FaultsReported ==
    /\ diags.nerrs = Cardinality(SettledIn(Faults))
    /\ diags.nwarnings = 0
    /\ {SpanOf(diags.entries[i]) : i \in 1 .. Len(diags.entries)} =
         {f \in SettledIn(Faults) :
            DiagsCap = 0 \/ Cardinality({g \in Faults : g[1] < f[1]}) < DiagsCap}
    /\ \A i, j \in 1 .. Len(diags.entries) :
         i < j => diags.entries[i].end <= diags.entries[j].start

(* Lex returns on every text.                                              *)
Termination == <>(pc = "done")
=============================================================================
