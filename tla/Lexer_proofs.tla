---------------------------- MODULE Lexer_proofs ---------------------------
(***************************************************************************)
(* Type correctness of Lexer, the exactness of its overflow test, that its *)
(* tokens are the lexemes of the text and its diagnostics the faults of    *)
(* it, for every text, every largest number of at least 9 and every max of *)
(* the diagnostics.                                                        *)
(***************************************************************************)
EXTENDS Lexer, Facts, SequenceTheorems

(* The span of the token being scanned lies within the text: it began      *)
(* at or before pos.                                                       *)
IInv ==
    /\ TypeOK
    /\ OverflowExact
    /\ start <= pos

Offset == 0 .. Len(source)

DiagEntries == [severity : Severity, start : Offset, end : Offset]

TokenType ==
    [tk : TokenKind, word : Seq(Chars), number : 0 .. NumberMax, start : Offset, end : Offset]

-----------------------------------------------------------------------------

(* What is needed of the constants most often.                             *)
LEMMA Constants == NumberMax \in Nat /\ 0 \in 0 .. NumberMax /\ DiagsCap \in Nat
BY LexerAssumption

(* The overflow test is exact: with a value that fits, it fires if and     *)
(* only if one more digit takes it past the largest number.                *)
LEMMA WouldOverflowExact ==
    ASSUME NEW d \in 0 .. 9, NEW v \in 0 .. NumberMax
    PROVE  v > (NumberMax - d) \div 10 <=> v * 10 + d > NumberMax
<1>1. NumberMax \in Nat /\ NumberMax - d \in Nat
  BY LexerAssumption
<1> DEFINE q == (NumberMax - d) \div 10
<1>2. q \in Nat /\ q * 10 <= NumberMax - d /\ NumberMax - d < q * 10 + 10
  BY <1>1
<1> QED
  BY <1>1, <1>2

(* The diagnostics stay well formed when a span of the text is pushed.     *)
LEMMA PushType ==
    ASSUME TypeOK, NEW from \in Offset, NEW to \in Offset, DiagsPush(from, to),
           UNCHANGED source
    PROVE  diags' \in Stores(DiagEntries, {DiagsCap})
<1> DEFINE e == [severity |-> "error", start |-> from, end |-> to]
<1>1. e \in DiagEntries
  BY DEF DiagEntries, Severity
<1>2. diags \in Stores(DiagEntries, {DiagsCap}) /\ {DiagsCap} \subseteq Nat
  BY LexerAssumption DEF TypeOK, Stores, DiagEntries, Offset
<1> HIDE DEF e
<1>3. DiagsPushImpl(diags, e) \in Stores(DiagEntries, {DiagsCap})
  BY <1>1, <1>2, DiagsPushType, Zenon
<1> QED
  BY <1>3 DEF DiagsPush, e

(* The token list stays well formed when a token is appended.              *)
LEMMA EmitType ==
    ASSUME TypeOK, NEW token \in TokenType, Emit(token)
    PROVE  tokens' \in Seq(TokenType)
BY DEF TypeOK, Emit, TokenType, Offset

(* Tokens over a span of the text are well formed.                         *)
LEMMA TokenIsTyped ==
    ASSUME NEW tk \in TokenKind, NEW word \in Seq(Chars), NEW number \in 0 .. NumberMax,
           NEW from \in Offset, NEW to \in Offset
    PROVE  Token(tk, word, number, from, to) \in TokenType
BY DEF Token, TokenType

-----------------------------------------------------------------------------

(* The first state.                                                        *)
LEMMA InitIInv == Init => IInv
<1> SUFFICES ASSUME Init PROVE IInv
  OBVIOUS
<1>1. source \in Seq(Chars) /\ 0 \in 0 .. Len(source) /\ 0 \in 0 .. NumberMax
  BY LexerAssumption, Constants DEF Init
<1>2. diags \in Stores(DiagEntries, {DiagsCap})
  BY DiagsInitType DEF Init
<1>3. tokens \in Seq(TokenType)
  BY DEF Init
<1>4. TypeOK
  <2>1. /\ pos = 0 /\ pc = "skip" /\ start = 0
        /\ value = 0 /\ overflowed = FALSE /\ exact = 0
    BY DEF Init
  <2> QED
    BY <1>1, <1>2, <1>3, <2>1 DEF TypeOK, Stores, DiagEntries, TokenType, Offset
<1> QED
  BY <1>4 DEF Init, IInv, OverflowExact

(* A step that leaves tokens, diagnostics and the number alone.            *)
LEMMA SkipIInv ==
    ASSUME IInv, UNCHANGED <<source, value, overflowed, exact, tokens, diags>>,
           pc' \in {"skip", "comment", "ident"},
           pos' \in 0 .. Len(source), start' \in 0 .. Len(source), start' <= pos'
    PROVE  IInv'
BY DEF IInv, TypeOK, OverflowExact

(* A step that emits a token.                                              *)
LEMMA EmitIInv ==
    ASSUME IInv, UNCHANGED <<source, value, overflowed, exact, start>>,
           pc' \in {"skip", "done"},
           pos' \in 0 .. Len(source), start <= pos',
           tokens' \in Seq(TokenType), diags' \in Stores(DiagEntries, {DiagsCap})
    PROVE  IInv'
BY DEF IInv, TypeOK, OverflowExact, TokenType, DiagEntries, Stores, Offset

(* What every step may use.                                                *)
LEMMA Here ==
    ASSUME IInv
    PROVE  /\ pos \in Nat /\ start \in Nat /\ Len(source) \in Nat
           /\ pos \in Offset /\ start \in Offset /\ start <= pos
           /\ ~ AtEnd => pos + 1 \in Offset
           /\ value \in 0 .. NumberMax
           /\ source \in Seq(Chars)
           /\ tokens \in Seq(TokenType)
           /\ diags \in Stores(DiagEntries, {DiagsCap})
BY DEF IInv, TypeOK, Offset, AtEnd, TokenType, DiagEntries, Stores

-----------------------------------------------------------------------------

(* Blanks, comments and the scanning of identifiers.                       *)
LEMMA SkippingIInv ==
    ASSUME IInv,
           \/ SkipWhitespace \/ SkipComment \/ SkipCommentChar \/ EndComment
           \/ BeginIdentifier \/ ScanIdentifier
    PROVE  IInv'
<1>1. CASE SkipWhitespace
  BY <1>1, Here, SkipIInv DEF SkipWhitespace, scanning, Offset
<1>2. CASE SkipComment
  BY <1>2, Here, SkipIInv DEF SkipComment, scanning, Offset
<1>3. CASE SkipCommentChar
  BY <1>3, Here, SkipIInv DEF SkipCommentChar, scanning, Offset
<1>4. CASE EndComment
  BY <1>4, Here, SkipIInv DEF EndComment, scanning, Offset
<1>5. CASE BeginIdentifier
  BY <1>5, Here, SkipIInv DEF BeginIdentifier, Offset
<1>6. CASE ScanIdentifier
  BY <1>6, Here, SkipIInv DEF ScanIdentifier, scanning, Offset
<1> QED
  BY <1>1, <1>2, <1>3, <1>4, <1>5, <1>6

(* The end of an identifier or keyword.                                    *)
LEMMA LexIdentifierOrKeywordIInv ==
    ASSUME IInv, LexIdentifierOrKeyword
    PROVE  IInv'
<1> DEFINE word == SubSeq(source, start + 1, pos)
           token == Token(IF StrToKeyword(word) THEN "keyword" ELSE "identifier",
                          word, 0, start, pos)
<1>1. word \in Seq(Chars)
  BY Here, SubSeqProperties DEF Offset
<1> HIDE DEF word
<1>2. token \in TokenType
  BY <1>1, Here, TokenIsTyped, Constants DEF TokenKind
<1>3. /\ Emit(token)
      /\ pc' = "skip"
      /\ UNCHANGED <<source, pos, start, value, overflowed, exact, diags>>
  BY DEF LexIdentifierOrKeyword, scanning, word
<1> HIDE DEF token
<1>4. tokens' \in Seq(TokenType)
  BY <1>2, <1>3, EmitType DEF IInv
<1> QED
  BY <1>3, <1>4, Here, EmitIInv DEF Offset

(* The first and each further digit of a number.                           *)
LEMMA BeginNumberIInv ==
    ASSUME IInv, BeginNumber
    PROVE  IInv'
<1>1. /\ pc' = "number" /\ start' = pos
      /\ value' = 0 /\ overflowed' = FALSE /\ exact' = 0
      /\ UNCHANGED <<source, pos, tokens, diags>>
  BY DEF BeginNumber
<1>2. TypeOK'
  BY <1>1, Constants DEF IInv, TypeOK
<1>3. OverflowExact'
  <2>1. NumberMax \in Nat
    BY LexerAssumption
  <2>2. ~ exact' > NumberMax
    BY <1>1, <2>1
  <2> QED
    BY <1>1, <2>2 DEF OverflowExact
<1> QED
  BY <1>1, <1>2, <1>3, Here DEF IInv

(* A digit in range is added to both counts; one that would overflow       *)
(* leaves the token's behind.                                              *)
LEMMA ScanDigitIInv ==
    ASSUME IInv, ScanDigit
    PROVE  IInv'
<1> DEFINE digit == DigitValue[Char(pos)]
<1>1. /\ pc = "number" /\ pc' = "number" /\ ~ AtEnd /\ Char(pos) \in Digits
      /\ pos' = pos + 1 /\ UNCHANGED <<source, start, tokens, diags>>
      /\ exact' = exact * 10 + digit
      /\ IF overflowed \/ WouldOverflow(digit)
         THEN overflowed' = TRUE /\ value' = value
         ELSE value' = value * 10 + digit /\ overflowed' = overflowed
  BY DEF ScanDigit
<1>2. digit \in 0 .. 9 /\ exact \in Nat /\ value \in 0 .. NumberMax /\ NumberMax \in Nat
      /\ overflowed \in BOOLEAN
  BY <1>1, LexerAssumption DEF IInv, TypeOK
<1>3. IF overflowed THEN exact > NumberMax ELSE value = exact
  BY <1>1 DEF IInv, OverflowExact
<1> HIDE DEF digit
<1>4. WouldOverflow(digit) <=> value * 10 + digit > NumberMax
  BY <1>2, WouldOverflowExact DEF WouldOverflow
<1>5. /\ exact' \in Nat /\ value' \in 0 .. NumberMax /\ overflowed' \in BOOLEAN
      /\ IF overflowed' THEN exact' > NumberMax ELSE value' = exact'
  <2>1. CASE overflowed
    BY <1>1, <1>2, <1>3, <2>1
  <2>2. CASE ~ overflowed /\ WouldOverflow(digit)
    BY <1>1, <1>2, <1>3, <1>4, <2>2
  <2>3. CASE ~ overflowed /\ ~ WouldOverflow(digit)
    BY <1>1, <1>2, <1>3, <1>4, <2>3
  <2> QED
    BY <2>1, <2>2, <2>3
<1>6. pos' \in 0 .. Len(source) /\ start <= pos'
  BY <1>1, Here DEF Offset
<1>7. OverflowExact'
  <2>1. overflowed' <=> exact' > NumberMax
    BY <1>2, <1>5
  <2> QED
    BY <1>5, <2>1 DEF OverflowExact
<1> QED
  BY <1>1, <1>5, <1>6, <1>7 DEF IInv, TypeOK

(* The end of a number.                                                    *)
LEMMA LexNumberIInv ==
    ASSUME IInv, LexNumber
    PROVE  IInv'
<1> DEFINE token == Token("number", << >>, value, start, pos)
<1>1. << >> \in Seq(Chars)
  OBVIOUS
<1>2. token \in TokenType
  BY <1>1, Here, TokenIsTyped DEF TokenKind
<1>3. /\ Emit(token)
      /\ IF overflowed THEN DiagsPush(start, pos) ELSE diags' = diags
      /\ pc' = "skip"
      /\ UNCHANGED <<source, pos, start, value, overflowed, exact>>
  BY DEF LexNumber, scanning
<1> HIDE DEF token
<1>4. tokens' \in Seq(TokenType)
  BY <1>2, <1>3, EmitType DEF IInv
<1>5. diags' \in Stores(DiagEntries, {DiagsCap})
  BY <1>3, Here, PushType DEF IInv
<1> QED
  BY <1>3, <1>4, <1>5, Here, EmitIInv DEF Offset

(* Punctuation, unexpected characters and the end of the text.             *)
LEMMA LexPunctuationIInv ==
    ASSUME IInv, LexPunctuation
    PROVE  IInv'
<1> DEFINE token == Token(IF Char(pos) = Colon THEN "colon" ELSE "semicolon",
                          << >>, 0, pos, pos + 1)
<1>1. << >> \in Seq(Chars)
  OBVIOUS
<1>2. /\ ~ AtEnd /\ Emit(token)
      /\ pc' = "skip" \/ pc' = pc
      /\ pc = "skip" /\ pos' = pos + 1
      /\ UNCHANGED <<source, start, value, overflowed, exact, diags>>
  BY DEF LexPunctuation, scanning
<1>3. token \in TokenType
  BY <1>1, <1>2, Here, TokenIsTyped, Constants DEF TokenKind
<1> HIDE DEF token
<1>4. tokens' \in Seq(TokenType)
  BY <1>2, <1>3, EmitType DEF IInv
<1> QED
  BY <1>2, <1>4, Here, EmitIInv DEF Offset

(* A stray character is reported and passed.                               *)
LEMMA UnexpectedCharacterIInv ==
    ASSUME IInv, UnexpectedCharacter
    PROVE  IInv'
<1>1. /\ ~ AtEnd /\ DiagsPush(pos, pos + 1)
      /\ pc = "skip" /\ pc' = "skip" /\ pos' = pos + 1
      /\ UNCHANGED <<source, start, value, overflowed, exact, tokens>>
  BY DEF UnexpectedCharacter, scanning
<1>2. diags' \in Stores(DiagEntries, {DiagsCap})
  BY <1>1, Here, PushType DEF IInv
<1> QED
  BY <1>1, <1>2, Here, EmitIInv DEF Offset

(* The last token stands behind the text.                                  *)
LEMMA LexEOFIInv ==
    ASSUME IInv, LexEOF
    PROVE  IInv'
<1> DEFINE token == Token("eof", << >>, 0, pos, pos)
<1>1. << >> \in Seq(Chars)
  OBVIOUS
<1>2. token \in TokenType
  BY <1>1, Here, TokenIsTyped, Constants DEF TokenKind
<1>3. /\ Emit(token)
      /\ pc' = "done"
      /\ UNCHANGED <<source, pos, start, value, overflowed, exact, diags>>
  BY DEF LexEOF, scanning
<1> HIDE DEF token
<1>4. tokens' \in Seq(TokenType)
  BY <1>2, <1>3, EmitType DEF IInv
<1> QED
  BY <1>3, <1>4, Here, EmitIInv DEF Offset

-----------------------------------------------------------------------------

(* The invariant of the lexer.                                             *)
THEOREM Invariance == Spec => []IInv
<1>1. Init => IInv
  BY InitIInv
<1>2. IInv /\ [Next]_vars => IInv'
  <2> SUFFICES ASSUME IInv, [Next]_vars PROVE IInv'
    OBVIOUS
  <2>1. CASE UNCHANGED vars
    BY <2>1 DEF vars, IInv, TypeOK, OverflowExact
  <2>2. CASE Next
    BY <2>2, SkippingIInv, LexIdentifierOrKeywordIInv, BeginNumberIInv, ScanDigitIInv,
       LexNumberIInv, LexPunctuationIInv, UnexpectedCharacterIInv, LexEOFIInv DEF Next
  <2> QED
    BY <2>1, <2>2
<1> QED
  BY <1>1, <1>2, PTL DEF Spec

(* Every offset the lexer stores is one of the text and no number is wider *)
(* than 64 bits.                                                           *)
THEOREM TypeCorrect == Spec => []TypeOK
<1>1. IInv => TypeOK
  BY DEF IInv
<1> QED
  BY <1>1, Invariance, PTL

(* Overflow is recognised at the digit that causes it, whatever the        *)
(* largest number is.                                                      *)
THEOREM OverflowDetection == Spec => []OverflowExact
<1>1. IInv => OverflowExact
  BY DEF IInv
<1> QED
  BY <1>1, Invariance, PTL

-----------------------------------------------------------------------------

(* Where the lexer stands in the text.  Between two tokens no comment is   *)
(* open, and what comes before pos does not belong to the same word or     *)
(* number; a comment has begun; a word or a number has begun where the     *)
(* lexemes of the text say one begins.                                     *)
WordMayBegin(s) ==
    \A r \in 0 .. s - 1 : All(IdentContinue, r, s) => Char(r) \in Digits

NumberMayBegin(s) == s > 0 => Char(s - 1) \notin IdentContinue

Between ==
    ~ AtEnd =>
       /\ \A j \in 0 .. pos - 1 :
             Char(j) = Hash => \E k \in j .. pos : Char(k) = Newline
       /\ Char(pos) \in IdentContinue => WordMayBegin(pos)
       /\ Char(pos) \in Digits => NumberMayBegin(pos)

CommentOpen ==
    \E j \in 0 .. pos : /\ j < Len(source) /\ Char(j) = Hash
                        /\ \A k \in j .. pos - 1 : Char(k) # Newline

WordOpen ==
    /\ start < Len(source) /\ Char(start) \in IdentStart /\ ~ InComment(start)
    /\ All(IdentContinue, start, pos) /\ WordMayBegin(start)

NumberOpen ==
    /\ start < Len(source) /\ Char(start) \in Digits /\ ~ InComment(start)
    /\ All(Digits, start, pos) /\ NumberMayBegin(start)

Standing ==
    /\ pc = "skip" => Between
    /\ pc = "comment" => CommentOpen
    /\ pc = "ident" => WordOpen
    /\ pc = "number" => NumberOpen /\ exact = Decimal(<<start, pos>>)
    /\ pc = "done" => AtEnd

-----------------------------------------------------------------------------

DigitAt(k) == DigitValue[Char(k)]

(* f holds the values of the prefixes of the digits from s to e.           *)
Prefixes(f, s, e) ==
    f = [k \in s .. e |-> IF k = s THEN 0 ELSE f[k - 1] * 10 + DigitAt(k - 1)]

(* Decimal reads the value of a span of digits off its prefixes.           *)
LEMMA DecimalByPrefixes ==
    ASSUME NEW s \in Nat, NEW e \in Nat, s <= e, \A k \in s .. e - 1 : DigitAt(k) \in Nat
    PROVE  \E f \in [s .. e -> Nat] :
              /\ f[s] = 0
              /\ \A k \in s + 1 .. e : f[k] = f[k - 1] * 10 + DigitAt(k - 1)
              /\ Decimal(<<s, e>>) = f[e]
<1> DEFINE digit == [k \in s + 1 .. e |-> DigitAt(k - 1)]
           step == [p \in (s .. e) \X Nat |-> IF p[1] = s THEN 0 ELSE p[2] * 10 + digit[p[1]]]
<1>1. digit \in [s + 1 .. e -> Nat]
  OBVIOUS
<1>2. \A k \in s + 1 .. e : digit[k] = DigitAt(k - 1)
  OBVIOUS
<1> HIDE DEF digit
<1>3. step \in [(s .. e) \X Nat -> Nat]
  BY <1>1
<1>4. PICK f \in [s .. e -> Nat] :
             Recursion(f, 0, step, s, e)
  <2>1. s \in Int /\ e \in Int /\ 0 \in Nat
    OBVIOUS
  <2> HIDE DEF step
  <2> QED
    BY <2>1, <1>3, RecursionExists
<1>5. \A k \in s + 1 .. e : f[k] = f[k - 1] * 10 + DigitAt(k - 1)
  <2> SUFFICES ASSUME NEW k \in s + 1 .. e
               PROVE  f[k] = f[k - 1] * 10 + DigitAt(k - 1)
    OBVIOUS
  <2>1. f[k] = step[<<k, f[k - 1]>>]
    BY <1>4 DEF Recursion
  <2>2. <<k, f[k - 1]>> \in (s .. e) \X Nat /\ k # s
    OBVIOUS
  <2>3. step[<<k, f[k - 1]>>] = f[k - 1] * 10 + digit[k]
    BY <2>2
  <2> QED
    BY <2>1, <2>3, <1>2
<1>f. f[s] = 0
  BY <1>4 DEF Recursion
<1> HIDE DEF step
<1>6. Prefixes(f, s, e)
  <2>1. f = [k \in s .. e |-> f[k]]
    BY <1>4
  <2>2. \A k \in s .. e : f[k] = IF k = s THEN 0 ELSE f[k - 1] * 10 + DigitAt(k - 1)
    BY <1>f, <1>5
  <2> QED
    BY <2>1, <2>2 DEF Prefixes
<1> DEFINE val == CHOOSE g : Prefixes(g, s, e)
<1>7. Prefixes(val, s, e)
  BY <1>6
<1>8. Decimal(<<s, e>>) = val[e]
  BY DEF Decimal, Prefixes, DigitAt
<1> HIDE DEF val
<1>9. val[s] = 0 /\ \A k \in s + 1 .. e : val[k] = val[k - 1] * 10 + DigitAt(k - 1)
  BY <1>7 DEF Prefixes
<1>10. StepsAlike(f, val, s, e)
  BY <1>f, <1>5, <1>9 DEF StepsAlike
<1>11. Alike(f, val, s, e)
  BY <1>10, RecursionAgrees
<1>12. Decimal(<<s, e>>) = f[e]
  BY <1>8, <1>11 DEF Alike
<1> QED
  BY <1>f, <1>5, <1>12

(* The value of no digits, and of one digit more.                          *)
LEMMA DecimalOfNone ==
    ASSUME NEW s \in Nat
    PROVE  Decimal(<<s, s>>) = 0
<1>1. s <= s /\ \A k \in s .. s - 1 : DigitAt(k) \in Nat
  OBVIOUS
<1> QED
  BY <1>1, DecimalByPrefixes

(* One more digit is ten times the number and the digit.                   *)
LEMMA DecimalOfOneMore ==
    ASSUME NEW s \in Nat, NEW e \in Nat, s <= e, \A k \in s .. e : DigitAt(k) \in Nat
    PROVE  /\ Decimal(<<s, e>>) \in Nat
           /\ Decimal(<<s, e + 1>>) = Decimal(<<s, e>>) * 10 + DigitAt(e)
<1>1. PICK f \in [s .. e -> Nat] :
            /\ f[s] = 0
            /\ \A k \in s + 1 .. e : f[k] = f[k - 1] * 10 + DigitAt(k - 1)
            /\ Decimal(<<s, e>>) = f[e]
  <2>1. \A k \in s .. e - 1 : DigitAt(k) \in Nat
    OBVIOUS
  <2> QED
    BY <2>1, DecimalByPrefixes
<1>2. PICK g \in [s .. e + 1 -> Nat] :
            /\ g[s] = 0
            /\ \A k \in s + 1 .. e + 1 : g[k] = g[k - 1] * 10 + DigitAt(k - 1)
            /\ Decimal(<<s, e + 1>>) = g[e + 1]
  <2>1. s <= e + 1 /\ e + 1 \in Nat /\ \A k \in s .. (e + 1) - 1 : DigitAt(k) \in Nat
    OBVIOUS
  <2> QED
    BY <2>1, DecimalByPrefixes, Zenon
<1>3. Alike(f, g, s, e)
  <2>1. StepsAlike(f, g, s, e)
    BY <1>1, <1>2 DEF StepsAlike
  <2> QED
    BY <2>1, RecursionAgrees
<1>4. g[e + 1] = g[e] * 10 + DigitAt(e)
  BY <1>2
<1> QED
  BY <1>1, <1>2, <1>3, <1>4 DEF Alike

-----------------------------------------------------------------------------

(* The classes a character can belong to, as far as they exclude others.   *)
LEMMA Classes ==
    /\ IdentContinue = IdentStart \cup Digits
    /\ IdentStart \cap Digits = {}
    /\ IdentContinue \cap Blanks = {} /\ IdentContinue \cap Stray = {}
    /\ Colon \notin IdentContinue /\ Semicolon \notin IdentContinue
    /\ Hash \notin IdentContinue \cup Blanks \cup Stray \cup {Colon, Semicolon}
    /\ Newline \in Blanks /\ Blanks \cap Stray = {}
    /\ {Colon, Semicolon} \cap (Blanks \cup Stray) = {}
BY LexerAssumption, CharClasses DEF IdentContinue

(* Between two tokens the character at pos is not in a comment, unless it  *)
(* opens one.                                                              *)
LEMMA BetweenIsOutside ==
    ASSUME IInv, Between, ~ AtEnd, Char(pos) # Hash
    PROVE  ~ InComment(pos)
BY Here DEF Between, InComment

(* Behind a character that is no part of words and numbers and opens no    *)
(* comment, the lexer is between two tokens again.                         *)
LEMMA BetweenGoesOn ==
    ASSUME IInv, Between, ~ AtEnd, Char(pos) \notin IdentContinue, Char(pos) # Hash,
           source' = source, pos' = pos + 1
    PROVE  Between'
<1> SUFFICES ASSUME pos + 1 < Len(source)
             PROVE  /\ \A j \in 0 .. pos :
                         Char(j) = Hash => \E k \in j .. pos + 1 : Char(k) = Newline
                    /\ WordMayBegin(pos + 1)
                    /\ NumberMayBegin(pos + 1)
  BY Here DEF Between, AtEnd, Char, WordMayBegin, NumberMayBegin, All
<1>1. ASSUME NEW j \in 0 .. pos, Char(j) = Hash
      PROVE  \E k \in j .. pos + 1 : Char(k) = Newline
  <2>1. j \in 0 .. pos - 1
    BY <1>1, Here
  <2>2. PICK k \in j .. pos : Char(k) = Newline
    BY <1>1, <2>1 DEF Between
  <2> QED
    BY <2>2, Here
<1>2. WordMayBegin(pos + 1)
  BY Here DEF WordMayBegin, All
<1>3. NumberMayBegin(pos + 1)
  BY Here DEF NumberMayBegin
<1> QED
  BY <1>1, <1>2, <1>3

(* A word or number that has been read leaves the lexer between two        *)
(* tokens.                                                                 *)
LEMMA BetweenAfterWord ==
    ASSUME IInv, WordOpen, ~ AtEnd, Char(pos) \notin IdentContinue
    PROVE  Between
<1>1. ASSUME NEW j \in 0 .. pos - 1, Char(j) = Hash
      PROVE  \E k \in j .. pos : Char(k) = Newline
  <2>1. j < start
    BY <1>1, Here, Classes DEF WordOpen, All
  <2>2. PICK k \in j .. start : Char(k) = Newline
    BY <1>1, <2>1, Here DEF WordOpen, InComment
  <2> QED
    BY <2>2, Here
<1> QED
  BY <1>1, Classes DEF Between

(* A number that no digit follows has been left whole.                     *)
LEMMA BetweenAfterNumber ==
    ASSUME IInv, NumberOpen, ~ AtEnd, Char(pos) \notin Digits
    PROVE  Between
<1>1. ASSUME NEW j \in 0 .. pos - 1, Char(j) = Hash
      PROVE  \E k \in j .. pos : Char(k) = Newline
  <2>1. j < start
    BY <1>1, Here, Classes DEF NumberOpen, All
  <2>2. PICK k \in j .. start : Char(k) = Newline
    BY <1>1, <2>1, Here DEF NumberOpen, InComment
  <2> QED
    BY <2>2, Here
<1>2. WordMayBegin(pos)
  <2> SUFFICES ASSUME NEW r \in 0 .. pos - 1, All(IdentContinue, r, pos)
               PROVE  Char(r) \in Digits
    BY DEF WordMayBegin
  <2>1. CASE r >= start
    BY <2>1, Here DEF NumberOpen, All
  <2>2. CASE r < start
    <3>1. Char(start - 1) \in IdentContinue
      BY <2>2, Here DEF All
    <3> QED
      BY <2>2, <3>1, Here DEF NumberOpen, NumberMayBegin
  <2> QED
    BY <2>1, <2>2, Here
<1> QED
  BY <1>1, <1>2 DEF Between

-----------------------------------------------------------------------------

(* The first state and each step.                                          *)
LEMMA InitStanding == Init => Standing
<1> SUFFICES ASSUME Init PROVE Standing
  OBVIOUS
<1>1. pos = 0 /\ pc = "skip" /\ source \in Seq(Chars)
  BY LexerAssumption DEF Init
<1>2. Between
  BY <1>1 DEF Between, WordMayBegin, NumberMayBegin
<1> QED
  BY <1>1, <1>2 DEF Standing

(* Blanks and comments lead from a place between lexemes to the next.      *)
LEMMA SkippingStanding ==
    ASSUME IInv, Standing,
           SkipWhitespace \/ SkipComment \/ SkipCommentChar \/ EndComment
    PROVE  Standing'
<1>1. CASE SkipWhitespace
  <2>1. pc = "skip" /\ ~ AtEnd /\ Char(pos) \in Blanks /\ pos' = pos + 1
        /\ source' = source /\ pc' = pc
    BY <1>1 DEF SkipWhitespace
  <2>2. Between'
    BY <2>1, Classes, BetweenGoesOn DEF Standing
  <2> QED
    BY <2>1, <2>2 DEF Standing
<1>2. CASE SkipComment
  <2>1. pc = "skip" /\ ~ AtEnd /\ Char(pos) = Hash /\ pc' = "comment"
        /\ source' = source /\ pos' = pos
    BY <1>2 DEF SkipComment
  <2>2. CommentOpen
    BY <2>1, Here DEF CommentOpen, AtEnd
  <2>3. CommentOpen'
    BY <2>1, <2>2 DEF CommentOpen, Char
  <2> QED
    BY <2>1, <2>3 DEF Standing
<1>3. CASE SkipCommentChar
  <2>1. pc = "comment" /\ ~ AtEnd /\ Char(pos) # Newline /\ pos' = pos + 1
        /\ source' = source /\ pc' = pc
    BY <1>3 DEF SkipCommentChar
  <2>2. PICK j \in 0 .. pos : /\ j < Len(source) /\ Char(j) = Hash
                              /\ \A k \in j .. pos - 1 : Char(k) # Newline
    BY <2>1 DEF Standing, CommentOpen
  <2>3. \A k \in j .. pos : Char(k) # Newline
    BY <2>1, <2>2, Here
  <2>4. j \in 0 .. pos + 1
    BY Here
  <2>5. CommentOpen'
    BY <2>1, <2>2, <2>3, <2>4, Here DEF CommentOpen, Char
  <2> QED
    BY <2>1, <2>5 DEF Standing
<1>4. CASE EndComment
  <2>1. pc = "comment" /\ (~ AtEnd => Char(pos) = Newline)
        /\ pc' = "skip" /\ source' = source /\ pos' = pos
    BY <1>4 DEF EndComment
  <2>2. Between
    BY <2>1, Here, Classes DEF Between
  <2>3. Between'
    BY <2>1, <2>2 DEF Between, AtEnd, Char, WordMayBegin, NumberMayBegin, All
  <2> QED
    BY <2>1, <2>3 DEF Standing
<1> QED
  BY <1>1, <1>2, <1>3, <1>4

(* A word is entered where one may begin and left at its end.              *)
LEMMA WordStanding ==
    ASSUME IInv, Standing,
           BeginIdentifier \/ ScanIdentifier \/ LexIdentifierOrKeyword
    PROVE  Standing'
<1>1. CASE BeginIdentifier
  <2>1. pc = "skip" /\ ~ AtEnd /\ Char(pos) \in IdentStart
        /\ pc' = "ident" /\ start' = pos /\ source' = source /\ pos' = pos
    BY <1>1 DEF BeginIdentifier
  <2>2. ~ InComment(pos) /\ WordMayBegin(pos) /\ All(IdentContinue, pos, pos)
    BY <2>1, Here, Classes, BetweenIsOutside DEF Standing, Between, All
  <2>3. pos < Len(source)
    BY <2>1, Here DEF AtEnd
  <2>4. WordOpen'
    BY <2>1, <2>2, <2>3 DEF WordOpen, All, Char, WordMayBegin, InComment
  <2> QED
    BY <2>1, <2>4 DEF Standing
<1>2. CASE ScanIdentifier
  <2>1. pc = "ident" /\ ~ AtEnd /\ Char(pos) \in IdentContinue
        /\ pos' = pos + 1 /\ source' = source /\ pc' = pc /\ start' = start
    BY <1>2 DEF ScanIdentifier, scanning
  <2>2. WordOpen
    BY <2>1 DEF Standing
  <2>3. All(IdentContinue, start, pos + 1)
    BY <2>1, <2>2, Here DEF WordOpen, All
  <2>4. WordOpen'
    BY <2>1, <2>2, <2>3 DEF WordOpen, All, Char, WordMayBegin, InComment
  <2> QED
    BY <2>1, <2>4 DEF Standing
<1>3. CASE LexIdentifierOrKeyword
  <2>1. pc = "ident" /\ (~ AtEnd => Char(pos) \notin IdentContinue)
        /\ pc' = "skip" /\ source' = source /\ pos' = pos
    BY <1>3 DEF LexIdentifierOrKeyword
  <2>2. ~ AtEnd => Between
    BY <2>1, BetweenAfterWord DEF Standing
  <2>3. Between'
    BY <2>1, <2>2 DEF Between, AtEnd, Char, WordMayBegin, NumberMayBegin, All
  <2> QED
    BY <2>1, <2>3 DEF Standing
<1> QED
  BY <1>1, <1>2, <1>3

(* A number is entered where one may begin and left at its end.            *)
LEMMA NumberStanding ==
    ASSUME IInv, Standing, BeginNumber \/ ScanDigit \/ LexNumber
    PROVE  Standing'
<1>1. CASE BeginNumber
  <2>1. pc = "skip" /\ ~ AtEnd /\ Char(pos) \in Digits /\ exact' = 0
        /\ pc' = "number" /\ start' = pos /\ source' = source /\ pos' = pos
    BY <1>1 DEF BeginNumber
  <2>2. ~ InComment(pos) /\ NumberMayBegin(pos) /\ All(Digits, pos, pos)
    BY <2>1, Here, Classes, BetweenIsOutside DEF Standing, Between, All
  <2>3. pos < Len(source)
    BY <2>1, Here DEF AtEnd
  <2>4. NumberOpen'
    BY <2>1, <2>2, <2>3 DEF NumberOpen, All, Char, NumberMayBegin, InComment
  <2>5. Decimal(<<pos, pos>>) = 0
    BY Here, DecimalOfNone
  <2>6. Decimal(<<start, pos>>)' = Decimal(<<pos, pos>>)
    BY <2>1 DEF Decimal, Char
  <2> QED
    BY <2>1, <2>4, <2>5, <2>6 DEF Standing
<1>2. CASE ScanDigit
  <2>1. pc = "number" /\ ~ AtEnd /\ Char(pos) \in Digits
        /\ pos' = pos + 1 /\ source' = source /\ pc' = pc /\ start' = start
        /\ exact' = exact * 10 + DigitAt(pos)
    BY <1>2 DEF ScanDigit, DigitAt
  <2>2. NumberOpen /\ exact = Decimal(<<start, pos>>)
    BY <2>1 DEF Standing
  <2>3. All(Digits, start, pos + 1)
    BY <2>1, <2>2, Here DEF NumberOpen, All
  <2>4. NumberOpen'
    BY <2>1, <2>2, <2>3 DEF NumberOpen, All, Char, NumberMayBegin, InComment
  <2>5. Decimal(<<start, pos + 1>>) = exact'
    <3>1. \A k \in start .. pos : DigitAt(k) \in Nat
      BY <2>3, Here, LexerAssumption DEF All, DigitAt
    <3> QED
      BY <2>1, <2>2, <3>1, Here, DecimalOfOneMore
  <2>6. Decimal(<<start, pos>>)' = Decimal(<<start, pos + 1>>)
    BY <2>1 DEF Decimal, Char
  <2> QED
    BY <2>1, <2>4, <2>5, <2>6 DEF Standing
<1>3. CASE LexNumber
  <2>1. pc = "number" /\ (~ AtEnd => Char(pos) \notin Digits)
        /\ pc' = "skip" /\ source' = source /\ pos' = pos
    BY <1>3 DEF LexNumber
  <2>2. ~ AtEnd => Between
    BY <2>1, BetweenAfterNumber DEF Standing
  <2>3. Between'
    BY <2>1, <2>2 DEF Between, AtEnd, Char, WordMayBegin, NumberMayBegin, All
  <2> QED
    BY <2>1, <2>3 DEF Standing
<1> QED
  BY <1>1, <1>2, <1>3

(* Behind a mark, a stray character or the end the lexer stands between    *)
(* lexemes again.                                                          *)
LEMMA CharacterStanding ==
    ASSUME IInv, Standing, LexPunctuation \/ UnexpectedCharacter \/ LexEOF
    PROVE  Standing'
<1>1. CASE LexPunctuation \/ UnexpectedCharacter
  <2>1. pc = "skip" /\ ~ AtEnd /\ Char(pos) \in {Colon, Semicolon} \cup Stray
        /\ pos' = pos + 1 /\ source' = source /\ pc' = pc
    BY <1>1 DEF LexPunctuation, UnexpectedCharacter
  <2>2. Between'
    BY <2>1, Classes, BetweenGoesOn DEF Standing
  <2> QED
    BY <2>1, <2>2 DEF Standing
<1>2. CASE LexEOF
  BY <1>2 DEF LexEOF, Standing, AtEnd
<1> QED
  BY <1>1, <1>2

-----------------------------------------------------------------------------

(* The lexemes that end behind "from" and not behind "to".                 *)
Found(spans, from, to) == {w \in spans : from < w[2] /\ w[2] <= to}

Marks == CharactersIn({Colon, Semicolon})

(* What a step goes past in an unchanged text.                             *)
Passes(words, numbers, marks, faults) ==
    /\ source' = source
    /\ Settled \in Nat /\ Settled' \in Nat /\ Settled <= Settled'
    /\ Found(Words, Settled, Settled') = words
    /\ Found(Numbers, Settled, Settled') = numbers
    /\ Found(Marks, Settled, Settled') = marks
    /\ Found(Faults, Settled, Settled') = faults

(* Every lexeme is a span of the text that is not empty.                   *)
LEMMA LexemesAreSpans ==
    ASSUME IInv
    PROVE  /\ \A w \in Words \cup Numbers :
                 /\ w = <<w[1], w[2]>> /\ w[1] \in Nat /\ w[2] \in Nat
                 /\ w[1] < w[2] /\ w[2] <= Len(source)
           /\ \A S : \A w \in CharactersIn(S) :
                 /\ w = <<w[1], w[1] + 1>> /\ w[1] \in Nat /\ w[2] = w[1] + 1
                 /\ w[2] <= Len(source)
                 /\ Char(w[1]) \in S /\ ~ InComment(w[1])
BY Here DEF Words, Numbers, CharactersIn, Offsets

(* The lexemes are those of the text alone.                                *)
LEMMA SameText ==
    ASSUME source' = source
    PROVE  /\ Words' = Words /\ Numbers' = Numbers /\ Marks' = Marks /\ Faults' = Faults
           /\ \A span : Decimal(span)' = Decimal(span)
<1>1. Words' = Words
  BY DEF Words, Offsets, All, InComment, Char
<1>2. Numbers' = Numbers
  BY DEF Numbers, Offsets, All, InComment, Char
<1>3. Marks' = Marks
  BY DEF Marks, CharactersIn, Offsets, InComment, Char
<1>4. CharactersIn(Stray)' = CharactersIn(Stray)
  BY DEF CharactersIn, Offsets, InComment, Char
<1>5. \A span : Decimal(span)' = Decimal(span)
  BY DEF Decimal, Char
<1>6. Faults' = Faults
  BY <1>2, <1>4, <1>5 DEF Faults
<1> QED
  BY <1>1, <1>2, <1>3, <1>5, <1>6

(* Neither a word nor a number ends behind a character that is not part of *)
(* one, nor within a comment.                                              *)
LEMMA NoneEndsBehind ==
    ASSUME IInv, NEW p \in Nat, p < Len(source),
           Char(p) \notin IdentContinue \/ InComment(p)
    PROVE  \A w \in Words \cup Numbers : w[2] # p + 1
<1> SUFFICES ASSUME NEW w \in Words \cup Numbers, w[2] = p + 1
             PROVE  FALSE
  OBVIOUS
<1>1. w[1] \in Nat /\ w[1] <= p /\ Len(source) \in Nat
  BY LexemesAreSpans, Here
<1>2. /\ \A i \in w[1] .. p : Char(i) \in IdentContinue
      /\ ~ InComment(w[1])
  BY <1>1, Classes DEF Words, Numbers, All, IdentContinue
<1>3. Char(p) \in IdentContinue
  BY <1>1, <1>2
<1>4. PICK j \in 0 .. p : Char(j) = Hash /\ \A k \in j .. p : Char(k) # Newline
  BY <1>3 DEF InComment
<1>5. j < w[1]
  BY <1>1, <1>2, <1>4, Classes
<1>6. InComment(w[1])
  BY <1>1, <1>4, <1>5 DEF InComment
<1> QED
  BY <1>2, <1>6

(* A step past one character that is not part of a word or a number.       *)
LEMMA PassingOne ==
    ASSUME IInv, ~ AtEnd, source' = source, Settled = pos, Settled' = pos + 1,
           Char(pos) \notin IdentContinue \/ InComment(pos),
           NEW marks, NEW faults,
           marks = IF Char(pos) \in {Colon, Semicolon} /\ ~ InComment(pos)
                   THEN {<<pos, pos + 1>>} ELSE {},
           faults = IF Char(pos) \in Stray /\ ~ InComment(pos)
                    THEN {<<pos, pos + 1>>} ELSE {}
    PROVE  Passes({}, {}, marks, faults)
<1>1. pos \in Nat /\ pos < Len(source)
  BY Here DEF AtEnd
<1>2. \A w \in Words \cup Numbers : w[2] # pos + 1 /\ w[2] \in Nat
  BY <1>1, NoneEndsBehind, LexemesAreSpans
<1>3. Found(Words, pos, pos + 1) = {} /\ Found(Numbers, pos, pos + 1) = {}
  BY <1>1, <1>2 DEF Found
<1>4. ASSUME NEW S
      PROVE  Found(CharactersIn(S), pos, pos + 1) =
               IF Char(pos) \in S /\ ~ InComment(pos) THEN {<<pos, pos + 1>>} ELSE {}
  <2>1. \A w \in Found(CharactersIn(S), pos, pos + 1) :
           w = <<pos, pos + 1>> /\ Char(pos) \in S /\ ~ InComment(pos)
    BY <1>1, LexemesAreSpans DEF Found
  <2>2. Char(pos) \in S /\ ~ InComment(pos) =>
           <<pos, pos + 1>> \in Found(CharactersIn(S), pos, pos + 1)
    BY <1>1 DEF Found, CharactersIn, Offsets
  <2> QED
    BY <2>1, <2>2
<1>5. Found(Marks, pos, pos + 1) = marks
  BY <1>4 DEF Marks
<1>6. Found(Faults, pos, pos + 1) = Found(CharactersIn(Stray), pos, pos + 1)
  BY <1>3 DEF Found, Faults
<1>7. Found(Faults, pos, pos + 1) = faults
  BY <1>4, <1>6
<1> QED
  BY <1>1, <1>3, <1>5, <1>7 DEF Passes

(* The end of a word: the word is the only lexeme that ends in it.         *)
LEMMA PassingWord ==
    ASSUME IInv, WordOpen, ~ AtEnd => Char(pos) \notin IdentContinue,
           source' = source, Settled = start, Settled' = pos
    PROVE  Passes({<<start, pos>>}, {}, {}, {})
<1>1. start \in Nat /\ pos \in Nat /\ start < pos /\ pos <= Len(source) /\ Len(source) \in Nat
  BY Here, Classes DEF WordOpen, AtEnd, Offset
<1>2. \A i \in start .. pos - 1 : Char(i) \in IdentContinue
  BY DEF WordOpen, All
<1>3. Char(start) \in IdentStart /\ Char(start) \notin Digits
  BY Classes DEF WordOpen
<1>4. ASSUME NEW w \in Found(Words, start, pos)
      PROVE  w = <<start, pos>>
  <2>1. /\ w = <<w[1], w[2]>> /\ w[1] \in Nat /\ w[2] \in Nat
        /\ w[1] < w[2] /\ start < w[2] /\ w[2] <= pos
    BY LexemesAreSpans DEF Found
  <2>2. /\ Char(w[1]) \in IdentStart
        /\ All(IdentContinue, w[1], w[2])
        /\ w[2] < Len(source) => Char(w[2]) \notin IdentContinue
        /\ \A r \in 0 .. w[1] - 1 : All(IdentContinue, r, w[1]) => Char(r) \in Digits
    BY DEF Found, Words, IdentContinue
  <2>3. w[1] >= start
    <3> SUFFICES ASSUME w[1] < start PROVE FALSE
      BY <1>1, <2>1
    <3>1. w[1] \in 0 .. start - 1 /\ All(IdentContinue, w[1], start)
      BY <1>1, <2>1, <2>2 DEF All
    <3> QED
      BY <3>1, <2>2, Classes DEF WordOpen, WordMayBegin
  <2>4. w[1] <= start
    <3> SUFFICES ASSUME w[1] > start PROVE FALSE
      BY <1>1, <2>1
    <3>1. start \in 0 .. w[1] - 1 /\ All(IdentContinue, start, w[1])
      BY <1>1, <1>2, <2>1 DEF All
    <3> QED
      BY <3>1, <2>2, <1>3
  <2>5. w[2] = pos
    BY <1>1, <1>2, <2>1, <2>2
  <2> QED
    BY <1>1, <2>1, <2>3, <2>4, <2>5
<1>5. <<start, pos>> \in Found(Words, start, pos)
  <2>1. <<start, pos>> \in Offsets \X (1 .. Len(source))
    BY <1>1 DEF Offsets
  <2>2. ~ InComment(start) /\ All(IdentStart \cup Digits, start, pos)
    BY DEF WordOpen, IdentContinue
  <2>3. \A r \in 0 .. start - 1 : All(IdentStart \cup Digits, r, start) => Char(r) \in Digits
    BY DEF WordOpen, WordMayBegin, IdentContinue
  <2>4. pos < Len(source) => Char(pos) \notin IdentStart \cup Digits
    BY <1>1 DEF AtEnd, IdentContinue
  <2>5. <<start, pos>> \in Words
    BY <1>1, <1>3, <2>1, <2>2, <2>3, <2>4 DEF Words
  <2> QED
    BY <1>1, <2>5 DEF Found
<1>6. Found(Numbers, start, pos) = {}
  <2> SUFFICES ASSUME NEW w \in Found(Numbers, start, pos)
               PROVE  FALSE
    OBVIOUS
  <2>1. /\ w[1] \in Nat /\ w[2] \in Nat
        /\ w[1] < w[2] /\ start < w[2] /\ w[2] <= pos
    BY LexemesAreSpans DEF Found
  <2>2. /\ All(Digits, w[1], w[2])
        /\ w[1] > 0 => Char(w[1] - 1) \notin IdentContinue
    BY DEF Found, Numbers, IdentContinue
  <2>3. w[1] > start
    BY <1>1, <1>3, <2>1, <2>2 DEF All
  <2> QED
    BY <1>1, <1>2, <2>1, <2>2, <2>3
<1>7. ASSUME NEW S, IdentContinue \cap S = {}
      PROVE  Found(CharactersIn(S), start, pos) = {}
  BY <1>1, <1>2, <1>7, LexemesAreSpans DEF Found
<1>8. Found(Marks, start, pos) = {} /\ Found(CharactersIn(Stray), start, pos) = {}
  BY <1>7, Classes DEF Marks
<1>9. Found(Faults, start, pos) = {}
  BY <1>6, <1>8 DEF Found, Faults
<1> QED
  BY <1>1, <1>4, <1>5, <1>6, <1>8, <1>9 DEF Passes

(* The end of a number likewise; it is a fault if it is too large.         *)
LEMMA PassingNumber ==
    ASSUME IInv, NumberOpen, ~ AtEnd => Char(pos) \notin Digits,
           source' = source, Settled = start, Settled' = pos,
           NEW faults,
           faults = IF Decimal(<<start, pos>>) > NumberMax THEN {<<start, pos>>} ELSE {}
    PROVE  Passes({}, {<<start, pos>>}, {}, faults)
<1>1. start \in Nat /\ pos \in Nat /\ start < pos /\ pos <= Len(source) /\ Len(source) \in Nat
  BY Here DEF NumberOpen, AtEnd, Offset
<1>2. \A i \in start .. pos - 1 : Char(i) \in Digits /\ Char(i) \in IdentContinue
  BY Classes DEF NumberOpen, All
<1>3. start > 0 => Char(start - 1) \notin IdentContinue
  BY DEF NumberOpen, NumberMayBegin
<1>4. ASSUME NEW w \in Found(Numbers, start, pos)
      PROVE  w = <<start, pos>>
  <2>1. /\ w = <<w[1], w[2]>> /\ w[1] \in Nat /\ w[2] \in Nat
        /\ w[1] < w[2] /\ start < w[2] /\ w[2] <= pos
    BY LexemesAreSpans DEF Found
  <2>2. /\ All(Digits, w[1], w[2])
        /\ w[2] < Len(source) => Char(w[2]) \notin Digits
        /\ w[1] > 0 => Char(w[1] - 1) \notin IdentContinue
    BY DEF Found, Numbers, IdentContinue
  <2>3. w[1] >= start
    BY <1>1, <1>3, <2>1, <2>2, Classes DEF All
  <2>4. w[1] <= start
    BY <1>1, <1>2, <2>1, <2>2
  <2>5. w[2] = pos
    BY <1>1, <1>2, <2>1, <2>2
  <2> QED
    BY <1>1, <2>1, <2>3, <2>4, <2>5
<1>5. <<start, pos>> \in Found(Numbers, start, pos)
  BY <1>1, <1>2, <1>3, Here DEF Found, Numbers, Offsets, NumberOpen, IdentContinue, AtEnd
<1>6. Found(Words, start, pos) = {}
  <2> SUFFICES ASSUME NEW w \in Found(Words, start, pos)
               PROVE  FALSE
    OBVIOUS
  <2>1. /\ w[1] \in Nat /\ w[2] \in Nat
        /\ w[1] < w[2] /\ start < w[2] /\ w[2] <= pos
    BY LexemesAreSpans DEF Found
  <2>2. Char(w[1]) \in IdentStart /\ All(IdentContinue, w[1], w[2])
    BY DEF Found, Words, IdentContinue
  <2>3. w[1] < start
    BY <1>1, <1>2, <2>1, <2>2, Classes
  <2> QED
    BY <1>1, <1>3, <2>1, <2>2, <2>3 DEF All
<1>7. ASSUME NEW S, IdentContinue \cap S = {}
      PROVE  Found(CharactersIn(S), start, pos) = {}
  BY <1>1, <1>2, <1>7, LexemesAreSpans DEF Found
<1>8. Found(Marks, start, pos) = {} /\ Found(CharactersIn(Stray), start, pos) = {}
  BY <1>7, Classes DEF Marks
<1>9. Found(Faults, start, pos) = faults
  <2>1. Found(Numbers, start, pos) = {<<start, pos>>}
    BY <1>4, <1>5
  <2> QED
    BY <1>8, <2>1 DEF Found, Faults
<1> QED
  BY <1>1, <1>4, <1>5, <1>6, <1>8, <1>9 DEF Passes

(* Ends of lexemes are offsets.                                            *)
LEMMA EndsAreOffsets ==
    ASSUME IInv
    PROVE  /\ \A w \in Words : w[2] \in Nat
           /\ \A w \in Numbers : w[2] \in Nat
           /\ \A w \in Marks : w[2] \in Nat
           /\ \A w \in Faults : w[2] \in Nat
BY LexemesAreSpans DEF Marks, Faults

(* A step that settles nothing.                                            *)
LEMMA PassingNothing ==
    ASSUME IInv, source' = source, Settled' = Settled
    PROVE  Passes({}, {}, {}, {})
<1>1. Settled \in Nat
  BY Here DEF Settled
<1>2. ASSUME NEW X, \A w \in X : w[2] \in Nat
      PROVE  Found(X, Settled, Settled) = {}
  BY <1>1, <1>2 DEF Found
<1>3. /\ Found(Words, Settled, Settled) = {} /\ Found(Numbers, Settled, Settled) = {}
      /\ Found(Marks, Settled, Settled) = {} /\ Found(Faults, Settled, Settled) = {}
  BY <1>2, EndsAreOffsets
<1> QED
  BY <1>1, <1>3 DEF Passes

(* What the steps that emit nothing go past.                               *)
Silent ==
    \/ SkipWhitespace \/ SkipComment \/ SkipCommentChar \/ EndComment
    \/ BeginIdentifier \/ ScanIdentifier \/ BeginNumber \/ ScanDigit

(* A step that emits nothing goes past no lexeme.                          *)
LEMMA SilentPasses ==
    ASSUME IInv, Standing, Silent
    PROVE  Passes({}, {}, {}, {})
<1>1. CASE SkipWhitespace
  <2>1. /\ ~ AtEnd /\ source' = source /\ Char(pos) \in Blanks
        /\ Settled = pos /\ Settled' = pos + 1
    BY <1>1 DEF SkipWhitespace, Settled
  <2> QED
    BY <2>1, Classes, PassingOne
<1>2. CASE SkipCommentChar
  <2>1. /\ ~ AtEnd /\ source' = source /\ Char(pos) # Newline /\ pc = "comment"
        /\ Settled = pos /\ Settled' = pos + 1
    BY <1>2 DEF SkipCommentChar, Settled
  <2>2. PICK j \in 0 .. pos : Char(j) = Hash /\ \A k \in j .. pos - 1 : Char(k) # Newline
    BY <2>1 DEF Standing, CommentOpen
  <2>3. \A k \in j .. pos : Char(k) # Newline
    BY <2>1, <2>2, Here
  <2>4. InComment(pos)
    BY <2>2, <2>3 DEF InComment
  <2> QED
    BY <2>1, <2>4, PassingOne
<1>3. CASE SkipComment \/ EndComment \/ BeginIdentifier \/ ScanIdentifier
           \/ BeginNumber \/ ScanDigit
  <2>1. source' = source /\ Settled' = Settled
    BY <1>3 DEF SkipComment, EndComment, BeginIdentifier, ScanIdentifier,
       BeginNumber, ScanDigit, Settled, scanning
  <2> QED
    BY <2>1, PassingNothing
<1> QED
  BY <1>1, <1>2, <1>3 DEF Silent

-----------------------------------------------------------------------------

(* What a step adds to the lexemes that have been dealt with.              *)
LEMMA SettledGrows ==
    ASSUME IInv, NEW words, NEW numbers, NEW marks, NEW faults,
           Passes(words, numbers, marks, faults)
    PROVE  /\ SettledIn(Words)' = SettledIn(Words) \cup words
           /\ SettledIn(Numbers)' = SettledIn(Numbers) \cup numbers
           /\ SettledIn(Marks)' = SettledIn(Marks) \cup marks
           /\ SettledIn(Faults)' = SettledIn(Faults) \cup faults
<1>1. ASSUME NEW X, \A w \in X : w[2] \in Nat
      PROVE  {w \in X : w[2] <= Settled'} =
               {w \in X : w[2] <= Settled} \cup Found(X, Settled, Settled')
  BY <1>1 DEF Passes, Found
<1>2. /\ \A w \in Words : w[2] \in Nat
      /\ \A w \in Numbers : w[2] \in Nat
      /\ \A w \in Marks : w[2] \in Nat
      /\ \A w \in Faults : w[2] \in Nat
  BY EndsAreOffsets
<1>3. Words' = Words /\ Numbers' = Numbers /\ Marks' = Marks /\ Faults' = Faults
  BY SameText DEF Passes
<1>4. SettledIn(Words)' = SettledIn(Words) \cup Found(Words, Settled, Settled')
  BY <1>1, <1>2, <1>3 DEF SettledIn
<1>5. SettledIn(Numbers)' = SettledIn(Numbers) \cup Found(Numbers, Settled, Settled')
  BY <1>1, <1>2, <1>3 DEF SettledIn
<1>6. SettledIn(Marks)' = SettledIn(Marks) \cup Found(Marks, Settled, Settled')
  BY <1>1, <1>2, <1>3 DEF SettledIn
<1>7. SettledIn(Faults)' = SettledIn(Faults) \cup Found(Faults, Settled, Settled')
  BY <1>1, <1>2, <1>3 DEF SettledIn
<1> QED
  BY <1>4, <1>5, <1>6, <1>7 DEF Passes

(* What appending a token adds to the spans of its kind.                   *)
LEMMA SpansOfAppended ==
    ASSUME IInv, NEW t \in TokenType, Emit(t), NEW kinds
    PROVE  SpansOf(kinds)' = SpansOf(kinds) \cup (IF t.tk \in kinds THEN {SpanOf(t)} ELSE {})
<1>1. /\ tokens \in Seq(TokenType) /\ tokens' = Append(tokens, t)
      /\ Len(tokens') = Len(tokens) + 1 /\ Len(tokens) \in Nat
      /\ \A i \in 1 .. Len(tokens) : tokens'[i] = tokens[i]
      /\ tokens'[Len(tokens) + 1] = t
  BY Here DEF Emit
<1>2. ASSUME NEW x
      PROVE  x \in SpansOf(kinds)' <=>
               \E i \in 1 .. Len(tokens') : tokens'[i].tk \in kinds /\ x = SpanOf(tokens'[i])
  BY DEF SpansOf, SpanOf
<1>3. ASSUME NEW x
      PROVE  x \in SpansOf(kinds) <=>
               \E i \in 1 .. Len(tokens) : tokens[i].tk \in kinds /\ x = SpanOf(tokens[i])
  BY DEF SpansOf, SpanOf
<1>4. ASSUME NEW x \in SpansOf(kinds)'
      PROVE  x \in SpansOf(kinds) \/ (t.tk \in kinds /\ x = SpanOf(t))
  <2>1. PICK i \in 1 .. Len(tokens') : tokens'[i].tk \in kinds /\ x = SpanOf(tokens'[i])
    BY <1>2
  <2>2. CASE i \in 1 .. Len(tokens)
    BY <1>1, <1>3, <2>1, <2>2
  <2>3. CASE i = Len(tokens) + 1
    BY <1>1, <2>1, <2>3
  <2> QED
    BY <1>1, <2>2, <2>3
<1>5. ASSUME NEW x \in SpansOf(kinds)
      PROVE  x \in SpansOf(kinds)'
  <2>1. PICK i \in 1 .. Len(tokens) : tokens[i].tk \in kinds /\ x = SpanOf(tokens[i])
    BY <1>3
  <2>2. i \in 1 .. Len(tokens') /\ tokens'[i] = tokens[i]
    BY <1>1, <2>1
  <2> QED
    BY <1>2, <2>1, <2>2
<1>6. t.tk \in kinds => SpanOf(t) \in SpansOf(kinds)'
  <2>1. Len(tokens) + 1 \in 1 .. Len(tokens')
    BY <1>1
  <2> QED
    BY <1>1, <1>2, <2>1
<1> QED
  BY <1>4, <1>5, <1>6

(* What TokensAreLexemes says of one token.                                *)
GoodToken(t) ==
    /\ t.tk \in {"identifier", "keyword"} =>
         /\ t.word = SubSeq(source, t.start + 1, t.end)
         /\ t.tk = "keyword" <=> t.word \in Keywords
    /\ t.tk = "number" /\ Decimal(SpanOf(t)) <= NumberMax =>
         t.number = Decimal(SpanOf(t))

TokensInOrder ==
    \A i, j \in 1 .. Len(tokens) : i < j => tokens[i].end <= tokens[j].start

WordKinds == {"identifier", "keyword"}
NumberKinds == {"number"}
MarkKinds == {"colon", "semicolon"}

(* TokensAreLexemes, part by part.                                         *)
LexemesByKind ==
    /\ SpansOf(WordKinds) = SettledIn(Words)
    /\ SpansOf(NumberKinds) = SettledIn(Numbers)
    /\ SpansOf(MarkKinds) = SettledIn(Marks)
    /\ SpansOf({"eof"}) = IF pc = "done" THEN {<<Len(source), Len(source)>>} ELSE {}

GoodTokens == \A i \in 1 .. Len(tokens) : GoodToken(tokens[i])

(* The property in three parts, in this state and the next.                *)
LEMMA TokensAreLexemesIff ==
    /\ TokensAreLexemes <=> LexemesByKind /\ TokensInOrder /\ GoodTokens
    /\ TokensAreLexemes' <=> LexemesByKind' /\ TokensInOrder' /\ GoodTokens'
BY Zenon DEF TokensAreLexemes, LexemesByKind, TokensInOrder, GoodTokens, GoodToken,
   WordKinds, NumberKinds, MarkKinds, Marks

(* No token reaches beyond what has been dealt with.                       *)
TokensBehind == \A i \in 1 .. Len(tokens) : tokens[i].end <= Settled

(* A step that emits nothing and goes past no word, number or mark.        *)
LEMMA QuietTokens ==
    ASSUME IInv, TokensAreLexemes, TokensBehind, NEW faults, Passes({}, {}, {}, faults),
           tokens' = tokens, pc # "done", pc' # "done"
    PROVE  TokensAreLexemes' /\ TokensBehind'
<1>1. source' = source /\ Settled \in Nat /\ Settled' \in Nat /\ Settled <= Settled'
  BY DEF Passes
<1>2. \A kinds : SpansOf(kinds)' = SpansOf(kinds)
  BY DEF SpansOf, SpanOf
<1>3. GoodTokens'
  BY <1>1, SameText, TokensAreLexemesIff DEF GoodTokens, GoodToken, SpanOf
<1>4. TokensInOrder'
  BY TokensAreLexemesIff DEF TokensInOrder
<1>5. LexemesByKind'
  <2>1. /\ SettledIn(Words)' = SettledIn(Words) \cup {}
        /\ SettledIn(Numbers)' = SettledIn(Numbers) \cup {}
        /\ SettledIn(Marks)' = SettledIn(Marks) \cup {}
    BY SettledGrows
  <2>2. LexemesByKind
    BY TokensAreLexemesIff
  <2> QED
    BY <1>2, <2>1, <2>2 DEF LexemesByKind
<1>6. TokensBehind'
  <2>1. \A i \in 1 .. Len(tokens) : tokens[i] \in TokenType
    BY Here
  <2>2. \A i \in 1 .. Len(tokens) : tokens[i].end \in Offset
    BY <2>1 DEF TokenType
  <2>3. ASSUME NEW i \in 1 .. Len(tokens)
        PROVE  tokens[i].end <= Settled'
    <3>1. tokens[i].end \in Int /\ tokens[i].end <= Settled
      BY <2>2 DEF TokensBehind, Offset
    <3> QED
      BY <3>1, <1>1
  <2> QED
    BY <2>3 DEF TokensBehind
<1> QED
  BY <1>3, <1>4, <1>5, <1>6, TokensAreLexemesIff

(* A step that emits a token, over the lexeme it goes past.                *)
Mine(t, kinds) == IF t.tk \in kinds THEN {SpanOf(t)} ELSE {}

(* A token emitted for the lexeme gone past keeps tokens and lexemes       *)
(* equal.                                                                  *)
LEMMA EmitTokens ==
    ASSUME IInv, TokensAreLexemes, TokensBehind, NEW t \in TokenType, Emit(t), NEW faults,
           Passes(Mine(t, WordKinds), Mine(t, NumberKinds), Mine(t, MarkKinds), faults),
           pc # "done", pc' = "done" <=> t.tk = "eof",
           t.tk = "eof" => SpanOf(t) = <<Len(source), Len(source)>>,
           Settled <= t.start, t.end <= Settled', GoodToken(t)
    PROVE  TokensAreLexemes' /\ TokensBehind'
<1>1. source' = source /\ Settled \in Nat /\ Settled' \in Nat /\ Settled <= Settled'
  BY DEF Passes
<1>2. /\ tokens \in Seq(TokenType) /\ tokens' = Append(tokens, t)
      /\ Len(tokens') = Len(tokens) + 1 /\ Len(tokens) \in Nat
      /\ \A i \in 1 .. Len(tokens) : tokens'[i] = tokens[i]
      /\ tokens'[Len(tokens) + 1] = t
  BY Here DEF Emit
<1>3. GoodTokens'
  <2>1. ASSUME NEW i \in 1 .. Len(tokens')
        PROVE  GoodToken(tokens'[i])
    <3>1. CASE i \in 1 .. Len(tokens)
      BY <1>2, <3>1, TokensAreLexemesIff DEF GoodTokens
    <3>2. CASE i = Len(tokens) + 1
      BY <1>2, <3>2
    <3> QED
      BY <1>2, <3>1, <3>2
  <2> QED
    BY <1>1, <2>1, SameText DEF GoodTokens, GoodToken, SpanOf
<1>4. \A i \in 1 .. Len(tokens) :
         tokens[i].end \in Int /\ tokens[i].end <= Settled
  <2>1. \A i \in 1 .. Len(tokens) : tokens[i] \in TokenType
    BY Here
  <2>2. \A i \in 1 .. Len(tokens) : tokens[i].end \in Offset
    BY <2>1 DEF TokenType
  <2> QED
    BY <2>2 DEF TokensBehind, Offset
<1>5. t.start \in Int /\ t.end \in Int
  BY DEF TokenType, Offset
<1>6. TokensInOrder'
  <2>1. ASSUME NEW i \in 1 .. Len(tokens'), NEW j \in 1 .. Len(tokens'), i < j
        PROVE  tokens'[i].end <= tokens'[j].start
    <3>1. i \in 1 .. Len(tokens)
      BY <1>2, <2>1
    <3>2. CASE j \in 1 .. Len(tokens)
      <4>1. tokens[i].end <= tokens[j].start
        BY <2>1, <3>1, <3>2, TokensAreLexemesIff DEF TokensInOrder
      <4> QED
        BY <1>2, <3>1, <3>2, <4>1
    <3>3. CASE j = Len(tokens) + 1
      <4>1. tokens[i].end <= t.start
        BY <1>1, <1>4, <1>5, <3>1
      <4> QED
        BY <1>2, <3>1, <3>3, <4>1
    <3> QED
      BY <1>2, <3>2, <3>3
  <2> QED
    BY <2>1 DEF TokensInOrder
<1>7. LexemesByKind'
  <2>1. /\ SettledIn(Words)' = SettledIn(Words) \cup Mine(t, WordKinds)
        /\ SettledIn(Numbers)' = SettledIn(Numbers) \cup Mine(t, NumberKinds)
        /\ SettledIn(Marks)' = SettledIn(Marks) \cup Mine(t, MarkKinds)
    BY SettledGrows
  <2>2. LexemesByKind
    BY TokensAreLexemesIff
  <2>3. /\ SpansOf(WordKinds)' = SpansOf(WordKinds) \cup Mine(t, WordKinds)
        /\ SpansOf(NumberKinds)' = SpansOf(NumberKinds) \cup Mine(t, NumberKinds)
        /\ SpansOf(MarkKinds)' = SpansOf(MarkKinds) \cup Mine(t, MarkKinds)
        /\ SpansOf({"eof"})' = SpansOf({"eof"}) \cup Mine(t, {"eof"})
    BY SpansOfAppended DEF Mine
  <2>4. SpansOf({"eof"}) = {}
    BY <2>2 DEF LexemesByKind
  <2>5. SpansOf({"eof"})' =
          IF pc' = "done" THEN {<<Len(source), Len(source)>>} ELSE {}
    BY <2>3, <2>4 DEF Mine
  <2>6. /\ SpansOf(WordKinds)' = SettledIn(Words)'
        /\ SpansOf(NumberKinds)' = SettledIn(Numbers)'
        /\ SpansOf(MarkKinds)' = SettledIn(Marks)'
    BY <2>1, <2>2, <2>3 DEF LexemesByKind
  <2> QED
    BY <1>1, <2>5, <2>6 DEF LexemesByKind
<1>8. TokensBehind'
  <2>1. ASSUME NEW i \in 1 .. Len(tokens')
        PROVE  tokens'[i].end <= Settled'
    <3>1. CASE i \in 1 .. Len(tokens)
      BY <1>1, <1>2, <1>4, <3>1
    <3>2. CASE i = Len(tokens) + 1
      BY <1>2, <3>2
    <3> QED
      BY <1>2, <3>1, <3>2
  <2> QED
    BY <2>1 DEF TokensBehind
<1> QED
  BY <1>3, <1>6, <1>7, <1>8, TokensAreLexemesIff

-----------------------------------------------------------------------------

(* The first state and each step.                                          *)
LEMMA InitTokens == Init => TokensAreLexemes /\ TokensBehind
<1> SUFFICES ASSUME Init PROVE TokensAreLexemes /\ TokensBehind
  OBVIOUS
<1>1. tokens = << >> /\ Len(tokens) = 0 /\ pc = "skip" /\ pos = 0
  BY DEF Init
<1>2. IInv /\ Settled = 0
  BY <1>1, InitIInv DEF Settled
<1>3. ASSUME NEW X, \A w \in X : w[1] \in Nat /\ w[2] \in Nat /\ w[1] < w[2]
      PROVE  SettledIn(X) = {}
  BY <1>2, <1>3 DEF SettledIn
<1>4. SettledIn(Words) = {} /\ SettledIn(Numbers) = {} /\ SettledIn(Marks) = {}
  <2>1. ASSUME NEW w \in Words \cup Numbers \cup Marks
        PROVE  w[1] \in Nat /\ w[2] \in Nat /\ w[1] < w[2]
    BY <1>2, LexemesAreSpans DEF Marks
  <2> QED
    BY <1>3, <2>1
<1>5. \A kinds : SpansOf(kinds) = {}
  BY <1>1 DEF SpansOf
<1>6. LexemesByKind /\ TokensInOrder /\ GoodTokens /\ TokensBehind
  BY <1>1, <1>4, <1>5 DEF LexemesByKind, TokensInOrder, GoodTokens, TokensBehind
<1> QED
  BY <1>6, TokensAreLexemesIff

(* A step that emits nothing leaves the tokens the lexemes passed.         *)
LEMMA SilentTokens ==
    ASSUME IInv, Standing, TokensAreLexemes, TokensBehind, Silent
    PROVE  TokensAreLexemes' /\ TokensBehind'
<1>1. Passes({}, {}, {}, {})
  BY SilentPasses
<1>2. tokens' = tokens /\ pc # "done" /\ pc' # "done"
  BY DEF Silent, SkipWhitespace, SkipComment, SkipCommentChar, EndComment,
     BeginIdentifier, ScanIdentifier, BeginNumber, ScanDigit
<1> QED
  BY <1>1, <1>2, QuietTokens

(* A stray character is a fault of one character.                          *)
LEMMA UnexpectedCharacterPasses ==
    ASSUME IInv, Standing, UnexpectedCharacter
    PROVE  Passes({}, {}, {}, {<<pos, pos + 1>>})
<1>1. /\ ~ AtEnd /\ source' = source /\ Char(pos) \in Stray /\ pc = "skip"
      /\ Settled = pos /\ Settled' = pos + 1
  BY DEF UnexpectedCharacter, Settled
<1>2. ~ InComment(pos) /\ Char(pos) \notin {Colon, Semicolon}
  BY <1>1, Classes, BetweenIsOutside DEF Standing
<1> QED
  BY <1>1, <1>2, Classes, PassingOne

(* A stray character is no lexeme.                                         *)
LEMMA UnexpectedCharacterTokens ==
    ASSUME IInv, Standing, TokensAreLexemes, TokensBehind, UnexpectedCharacter
    PROVE  TokensAreLexemes' /\ TokensBehind'
<1>1. tokens' = tokens /\ pc # "done" /\ pc' # "done"
  BY DEF UnexpectedCharacter
<1> QED
  BY <1>1, UnexpectedCharacterPasses, QuietTokens

(* A colon or semicolon is a lexeme of one character.                      *)
LEMMA LexPunctuationPasses ==
    ASSUME IInv, Standing, LexPunctuation
    PROVE  Passes({}, {}, {<<pos, pos + 1>>}, {})
<1>1. /\ ~ AtEnd /\ source' = source /\ Char(pos) \in {Colon, Semicolon} /\ pc = "skip"
      /\ Settled = pos /\ Settled' = pos + 1
  BY DEF LexPunctuation, Settled
<1>2. ~ InComment(pos) /\ Char(pos) \notin Stray
  BY <1>1, Classes, BetweenIsOutside DEF Standing
<1> QED
  BY <1>1, <1>2, Classes, PassingOne

(* The fields of a token.                                                  *)
LEMMA TokenFields ==
    ASSUME NEW tk, NEW word, NEW number, NEW from, NEW to
    PROVE  LET t == Token(tk, word, number, from, to) IN
           /\ t.tk = tk /\ t.word = word /\ t.number = number
           /\ t.start = from /\ t.end = to /\ SpanOf(t) = <<from, to>>
BY DEF Token, SpanOf

(* Its token is that lexeme.                                               *)
LEMMA LexPunctuationTokens ==
    ASSUME IInv, Standing, TokensAreLexemes, TokensBehind, LexPunctuation
    PROVE  TokensAreLexemes' /\ TokensBehind'
<1> DEFINE kind == IF Char(pos) = Colon THEN "colon" ELSE "semicolon"
           t == Token(kind, << >>, 0, pos, pos + 1)
<1>1. /\ ~ AtEnd /\ Emit(t) /\ pc = "skip" /\ pc' = "skip"
      /\ Settled = pos /\ Settled' = pos + 1
  BY DEF LexPunctuation, Settled
<1>2. kind \in {"colon", "semicolon"}
  OBVIOUS
<1> HIDE DEF kind
<1>3. t \in TokenType
  <2>1. << >> \in Seq(Chars)
    OBVIOUS
  <2> QED
    BY <1>1, <1>2, <2>1, Here, TokenIsTyped, Constants DEF TokenKind
<1>4. t.tk = kind /\ t.start = pos /\ t.end = pos + 1 /\ SpanOf(t) = <<pos, pos + 1>>
  BY TokenFields
<1> HIDE DEF t
<1>5. /\ Mine(t, WordKinds) = {} /\ Mine(t, NumberKinds) = {}
      /\ Mine(t, MarkKinds) = {<<pos, pos + 1>>}
  BY <1>2, <1>4 DEF Mine, WordKinds, NumberKinds, MarkKinds
<1>6. Passes(Mine(t, WordKinds), Mine(t, NumberKinds), Mine(t, MarkKinds), {})
  BY <1>5, LexPunctuationPasses
<1>7. GoodToken(t) /\ t.tk # "eof"
  BY <1>2, <1>4 DEF GoodToken
<1>8. Settled <= t.start /\ t.end <= Settled'
  BY <1>1, <1>4, Here
<1> QED
  BY <1>1, <1>3, <1>6, <1>7, <1>8, EmitTokens

(* The token of a word is the lexeme of that word.                         *)
LEMMA LexIdentifierOrKeywordTokens ==
    ASSUME IInv, Standing, TokensAreLexemes, TokensBehind, LexIdentifierOrKeyword
    PROVE  TokensAreLexemes' /\ TokensBehind'
<1> DEFINE word == SubSeq(source, start + 1, pos)
           kind == IF StrToKeyword(word) THEN "keyword" ELSE "identifier"
           t == Token(kind, word, 0, start, pos)
<1>1. /\ Emit(t) /\ pc = "ident" /\ pc' = "skip" /\ source' = source
      /\ ~ AtEnd => Char(pos) \notin IdentContinue
      /\ Settled = start /\ Settled' = pos
  BY DEF LexIdentifierOrKeyword, Settled
<1>2. word \in Seq(Chars)
  BY Here, SubSeqProperties DEF Offset
<1>3. kind \in {"keyword", "identifier"} /\ (kind = "keyword" <=> word \in Keywords)
  BY DEF StrToKeyword
<1> HIDE DEF kind
<1>4. word = SubSeq(source, start + 1, pos)
  OBVIOUS
<1> HIDE DEF word
<1>5. t \in TokenType
  BY <1>2, <1>3, Here, TokenIsTyped, Constants DEF TokenKind
<1>6. t.tk = kind /\ t.word = word /\ t.start = start /\ t.end = pos /\ SpanOf(t) = <<start, pos>>
  BY TokenFields
<1> HIDE DEF t
<1>7. /\ Mine(t, NumberKinds) = {} /\ Mine(t, MarkKinds) = {}
      /\ Mine(t, WordKinds) = {<<start, pos>>}
  BY <1>3, <1>6 DEF Mine, WordKinds, NumberKinds, MarkKinds
<1>8. Passes(Mine(t, WordKinds), Mine(t, NumberKinds), Mine(t, MarkKinds), {})
  BY <1>1, <1>7, PassingWord DEF Standing
<1>9. GoodToken(t) /\ t.tk # "eof"
  BY <1>3, <1>4, <1>6 DEF GoodToken
<1>10. Settled <= t.start /\ t.end <= Settled'
  BY <1>1, <1>6, Here
<1> QED
  BY <1>1, <1>5, <1>8, <1>9, <1>10, EmitTokens

(* What LexNumber goes past.                                               *)
LEMMA LexNumberPasses ==
    ASSUME IInv, Standing, LexNumber
    PROVE  Passes({}, {<<start, pos>>}, {}, IF overflowed THEN {<<start, pos>>} ELSE {})
<1>1. /\ pc = "number" /\ source' = source
      /\ ~ AtEnd => Char(pos) \notin Digits
      /\ Settled = start /\ Settled' = pos
  BY DEF LexNumber, Settled
<1>2. NumberOpen /\ exact = Decimal(<<start, pos>>) /\ (overflowed <=> exact > NumberMax)
  BY <1>1 DEF Standing, IInv, OverflowExact
<1> QED
  BY <1>1, <1>2, PassingNumber

(* The token of a number in range is its lexeme; one out of range is a     *)
(* fault and has none.                                                     *)
LEMMA LexNumberTokens ==
    ASSUME IInv, Standing, TokensAreLexemes, TokensBehind, LexNumber
    PROVE  TokensAreLexemes' /\ TokensBehind'
<1> DEFINE t == Token("number", << >>, value, start, pos)
<1>1. /\ Emit(t) /\ pc = "number" /\ pc' = "skip" /\ source' = source
      /\ Settled = start /\ Settled' = pos
  BY DEF LexNumber, Settled
<1>2. /\ exact = Decimal(<<start, pos>>) /\ (overflowed <=> exact > NumberMax)
      /\ ~ overflowed => value = exact
      /\ exact \in Nat /\ NumberMax \in Nat
  BY <1>1, Constants DEF Standing, IInv, OverflowExact, TypeOK
<1>3. t \in TokenType
  <2>1. << >> \in Seq(Chars)
    OBVIOUS
  <2> QED
    BY <2>1, Here, TokenIsTyped DEF TokenKind
<1>4. t.tk = "number" /\ t.number = value /\ t.start = start /\ t.end = pos
      /\ SpanOf(t) = <<start, pos>>
  BY TokenFields
<1> HIDE DEF t
<1>5. /\ Mine(t, WordKinds) = {} /\ Mine(t, MarkKinds) = {}
      /\ Mine(t, NumberKinds) = {<<start, pos>>}
  BY <1>4 DEF Mine, WordKinds, NumberKinds, MarkKinds
<1>6. PICK faults : Passes(Mine(t, WordKinds), Mine(t, NumberKinds), Mine(t, MarkKinds), faults)
  BY <1>5, LexNumberPasses
<1>7. GoodToken(t) /\ t.tk # "eof"
  BY <1>2, <1>4 DEF GoodToken
<1>8. Settled <= t.start /\ t.end <= Settled'
  BY <1>1, <1>4, Here
<1> QED
  BY <1>1, <1>3, <1>6, <1>7, <1>8, EmitTokens

(* EOF is the empty lexeme behind the text.                                *)
LEMMA LexEOFTokens ==
    ASSUME IInv, Standing, TokensAreLexemes, TokensBehind, LexEOF
    PROVE  TokensAreLexemes' /\ TokensBehind'
<1> DEFINE t == Token("eof", << >>, 0, pos, pos)
<1>1. /\ Emit(t) /\ pc = "skip" /\ pc' = "done" /\ source' = source /\ AtEnd
      /\ Settled = pos /\ Settled' = pos
  BY DEF LexEOF, Settled
<1>2. pos = Len(source)
  BY <1>1, Here DEF AtEnd, Offset
<1>3. t \in TokenType
  <2>1. << >> \in Seq(Chars)
    OBVIOUS
  <2> QED
    BY <2>1, Here, TokenIsTyped, Constants DEF TokenKind
<1>4. t.tk = "eof" /\ t.start = pos /\ t.end = pos /\ SpanOf(t) = <<pos, pos>>
  BY TokenFields
<1> HIDE DEF t
<1>5. Mine(t, WordKinds) = {} /\ Mine(t, MarkKinds) = {} /\ Mine(t, NumberKinds) = {}
  BY <1>4 DEF Mine, WordKinds, NumberKinds, MarkKinds
<1>6. Passes(Mine(t, WordKinds), Mine(t, NumberKinds), Mine(t, MarkKinds), {})
  BY <1>1, <1>5, PassingNothing
<1>7. GoodToken(t)
  BY <1>4 DEF GoodToken
<1>8. Settled <= t.start /\ t.end <= Settled'
  BY <1>1, <1>4, Here
<1> QED
  BY <1>1, <1>2, <1>3, <1>4, <1>6, <1>7, <1>8, EmitTokens

-----------------------------------------------------------------------------

(* The diagnostics behind FaultsReported: none points beyond what has been *)
(* dealt with, and the store holds as many as were counted until it is     *)
(* full.                                                                   *)
Kept(f) == DiagsCap = 0 \/ Cardinality({g \in Faults : g[1] < f[1]}) < DiagsCap

EntrySpans == {SpanOf(diags.entries[i]) : i \in 1 .. Len(diags.entries)}

EntriesInOrder ==
    \A i, j \in 1 .. Len(diags.entries) :
       i < j => diags.entries[i].end <= diags.entries[j].start

EntriesBehind == \A i \in 1 .. Len(diags.entries) : diags.entries[i].end <= Settled

StoredOfCounted ==
    Len(diags.entries) =
      IF DiagsCap = 0 \/ diags.nerrs < DiagsCap THEN diags.nerrs ELSE DiagsCap

Reported ==
    /\ diags.nerrs = Cardinality(SettledIn(Faults))
    /\ diags.nwarnings = 0
    /\ EntrySpans = {f \in SettledIn(Faults) : Kept(f)}
    /\ EntriesInOrder

ReportInv == Reported /\ EntriesBehind /\ StoredOfCounted

(* The property in the terms of the lemmas.                                *)
LEMMA FaultsReportedIff == Reported <=> FaultsReported
BY DEF Reported, FaultsReported, EntrySpans, Kept, EntriesInOrder

(* A text has finitely many faults.                                        *)
LEMMA FaultsFinite ==
    ASSUME IInv
    PROVE  IsFiniteSet(Faults) /\ IsFiniteSet(SettledIn(Faults))
<1>1. Faults \subseteq Offsets \X (1 .. Len(source))
  <2>1. Numbers \subseteq Offsets \X (1 .. Len(source))
    BY DEF Numbers
  <2>2. CharactersIn(Stray) \subseteq Offsets \X (1 .. Len(source))
    BY Here DEF CharactersIn, Offsets
  <2> QED
    BY <2>1, <2>2 DEF Faults
<1>2. IsFiniteSet(Offsets) /\ IsFiniteSet(1 .. Len(source))
  <2>1. Len(source) \in Int /\ Len(source) - 1 \in Int
    BY Here
  <2> QED
    BY <2>1, FS_Interval DEF Offsets
<1>3. IsFiniteSet(Offsets \X (1 .. Len(source)))
  BY <1>2, FS_Product
<1>4. IsFiniteSet(Faults)
  BY <1>1, <1>3, FS_Subset
<1>5. SettledIn(Faults) \subseteq Faults
  BY DEF SettledIn
<1> QED
  BY <1>4, <1>5, FS_Subset

(* The entries of the store, with their types.                             *)
LEMMA EntriesHere ==
    ASSUME IInv
    PROVE  /\ diags.entries \in Seq(DiagEntries) /\ Len(diags.entries) \in Nat
           /\ diags.nerrs \in Nat /\ diags.nwarnings \in Nat /\ diags.max = DiagsCap
           /\ \A i \in 1 .. Len(diags.entries) :
                 diags.entries[i].start \in Int /\ diags.entries[i].end \in Int
<1>1. /\ diags.entries \in Seq(DiagEntries)
      /\ diags.nerrs \in Nat /\ diags.nwarnings \in Nat /\ diags.max = DiagsCap
  BY Here DEF Stores
<1>2. \A i \in 1 .. Len(diags.entries) : diags.entries[i] \in DiagEntries
  BY <1>1
<1>3. \A i \in 1 .. Len(diags.entries) :
         diags.entries[i].start \in Offset /\ diags.entries[i].end \in Offset
  BY <1>2 DEF DiagEntries
<1> QED
  BY <1>1, <1>3 DEF Offset

(* The same faults are kept in an unchanged text.                          *)
LEMMA SameKept ==
    ASSUME source' = source
    PROVE  \A f : Kept(f)' <=> Kept(f)
BY SameText DEF Kept

(* A step that pushes nothing and goes past no fault.                      *)
LEMMA QuietReport ==
    ASSUME IInv, ReportInv, diags' = diags, NEW words, NEW numbers, NEW marks,
           Passes(words, numbers, marks, {})
    PROVE  ReportInv'
<1>1. source' = source /\ Settled \in Nat /\ Settled' \in Nat /\ Settled <= Settled'
  BY DEF Passes
<1>2. SettledIn(Faults)' = SettledIn(Faults)
  <2>1. /\ SettledIn(Words)' = SettledIn(Words) \cup words
        /\ SettledIn(Numbers)' = SettledIn(Numbers) \cup numbers
        /\ SettledIn(Marks)' = SettledIn(Marks) \cup marks
        /\ SettledIn(Faults)' = SettledIn(Faults) \cup {}
    BY SettledGrows
  <2> QED
    BY <2>1
<1>3. EntrySpans' = EntrySpans /\ EntriesInOrder'
  BY DEF EntrySpans, SpanOf, ReportInv, Reported, EntriesInOrder
<1>4. Reported'
  BY <1>1, <1>2, <1>3, SameKept DEF ReportInv, Reported
<1>5. EntriesBehind'
  <2>1. ASSUME NEW i \in 1 .. Len(diags.entries)
        PROVE  diags.entries[i].end <= Settled'
    <3>1. diags.entries[i].end \in Int /\ diags.entries[i].end <= Settled
      BY EntriesHere DEF ReportInv, EntriesBehind
    <3> QED
      BY <3>1, <1>1
  <2> QED
    BY <2>1 DEF EntriesBehind
<1>6. StoredOfCounted'
  BY DEF ReportInv, StoredOfCounted
<1> QED
  BY <1>4, <1>5, <1>6 DEF ReportInv

(* A step that pushes the fault it goes past, which is the next one in     *)
(* text order.                                                             *)
LEMMA FaultIsNext ==
    ASSUME IInv, NEW from \in Nat, NEW to \in Nat, from < to, from = Settled,
           <<from, to>> \in Faults,
           \A g \in Faults : g[1] < from => g[2] <= from
    PROVE  /\ <<from, to>> \notin SettledIn(Faults)
           /\ {g \in Faults : g[1] < from} = SettledIn(Faults)
<1>1. \A g \in Faults : g[1] \in Nat /\ g[2] \in Nat /\ g[1] < g[2]
  BY LexemesAreSpans DEF Faults
<1>2. <<from, to>> \notin SettledIn(Faults)
  BY DEF SettledIn
<1>3. \A g \in Faults : g[1] < from <=> g[2] <= from
  BY <1>1
<1> QED
  BY <1>2, <1>3 DEF SettledIn

(* A fault gone past and pushed is counted, and stored while there is      *)
(* room.                                                                   *)
LEMMA PushReport ==
    ASSUME IInv, ReportInv, NEW from \in Offset, NEW to \in Offset, DiagsPush(from, to),
           NEW words, NEW numbers, NEW marks,
           Passes(words, numbers, marks, {<<from, to>>}),
           from < to, from = Settled, to = Settled',
           \A g \in Faults : g[1] < from => g[2] <= from
    PROVE  ReportInv'
<1> DEFINE f == <<from, to>>
           e == [severity |-> "error", start |-> from, end |-> to]
<1>1. source' = source /\ Settled \in Nat /\ Settled' \in Nat /\ Settled <= Settled'
  BY DEF Passes
<1>2. SettledIn(Faults)' = SettledIn(Faults) \cup {f}
  BY SettledGrows
<1>3. f \in Faults
  BY DEF Passes, Found
<1>4. f \notin SettledIn(Faults) /\ {g \in Faults : g[1] < from} = SettledIn(Faults)
  BY <1>1, <1>3, FaultIsNext
<1>5. /\ Cardinality(SettledIn(Faults)) \in Nat
      /\ Cardinality(SettledIn(Faults)') = Cardinality(SettledIn(Faults)) + 1
  BY <1>2, <1>4, FaultsFinite, FS_AddElement, FS_CardinalityType
<1>6. /\ e \in DiagEntries
      /\ diags \in Stores(DiagEntries, {DiagsCap}) /\ {DiagsCap} \subseteq Nat
  BY Here, Constants DEF DiagEntries, Severity
<1>7. e.severity = "error" /\ e.start = from /\ e.end = to /\ SpanOf(e) = f
  BY DEF SpanOf
<1>8. diags' = DiagsPushImpl(diags, e)
  BY DEF DiagsPush
<1> HIDE DEF e
<1>9. diags'.nerrs = diags.nerrs + 1 /\ diags'.nwarnings = diags.nwarnings
  <2>1. /\ DiagsPushImpl(diags, e).nerrs =
             diags.nerrs + (IF e.severity = "warning" THEN 0 ELSE 1)
        /\ DiagsPushImpl(diags, e).nwarnings =
             diags.nwarnings + (IF e.severity = "warning" THEN 1 ELSE 0)
    BY <1>6, DiagsPushType
  <2> QED
    BY <1>7, <1>8, <2>1, EntriesHere
<1>10. IF AtCapacity(diags) THEN diags'.entries = diags.entries
                            ELSE diags'.entries = Append(diags.entries, e)
  BY <1>6, <1>8, DiagsPushEntries
<1>11. diags.nerrs = Cardinality(SettledIn(Faults)) /\ diags.nwarnings = 0
  BY DEF ReportInv, Reported
<1>12. diags'.nerrs = Cardinality(SettledIn(Faults)') /\ diags'.nwarnings = 0
  BY <1>5, <1>9, <1>11
<1>13. Kept(f) <=> ~ AtCapacity(diags)
  <2>1. Kept(f) <=> DiagsCap = 0 \/ diags.nerrs < DiagsCap
    BY <1>4, <1>11 DEF Kept
  <2>2. AtCapacity(diags) <=> DiagsCap > 0 /\ Len(diags.entries) >= DiagsCap
    BY EntriesHere DEF AtCapacity
  <2> QED
    BY <2>1, <2>2, EntriesHere, Constants DEF ReportInv, StoredOfCounted
<1>14. {x \in SettledIn(Faults)' : Kept(x)} =
         {x \in SettledIn(Faults) : Kept(x)} \cup (IF Kept(f) THEN {f} ELSE {})
  BY <1>2
<1>15. {x \in SettledIn(Faults) : Kept(x)}' = {x \in SettledIn(Faults)' : Kept(x)}
  BY <1>1, SameKept
<1> HIDE DEF f
<1>16. CASE AtCapacity(diags)
  <2>1. diags'.entries = diags.entries
    BY <1>10, <1>16
  <2>2. EntrySpans' = EntrySpans /\ EntriesInOrder'
    BY <2>1 DEF EntrySpans, SpanOf, ReportInv, Reported, EntriesInOrder
  <2>3. Reported'
    BY <1>12, <1>13, <1>14, <1>15, <1>16, <2>2 DEF ReportInv, Reported
  <2>4. EntriesBehind'
    <3>1. ASSUME NEW i \in 1 .. Len(diags.entries)
          PROVE  diags.entries[i].end <= Settled'
      <4>1. diags.entries[i].end \in Int /\ diags.entries[i].end <= Settled
        BY EntriesHere DEF ReportInv, EntriesBehind
      <4> QED
        BY <4>1, <1>1
    <3> QED
      BY <2>1, <3>1 DEF EntriesBehind
  <2>5. StoredOfCounted'
    <3>1. DiagsCap > 0 /\ Len(diags.entries) >= DiagsCap
      BY <1>16, EntriesHere DEF AtCapacity
    <3> QED
      BY <1>9, <2>1, <3>1, EntriesHere, Constants DEF ReportInv, StoredOfCounted
  <2> QED
    BY <2>3, <2>4, <2>5 DEF ReportInv
<1>17. CASE ~ AtCapacity(diags)
  <2>1. /\ diags'.entries = Append(diags.entries, e)
        /\ Len(diags'.entries) = Len(diags.entries) + 1 /\ Len(diags.entries) \in Nat
        /\ \A i \in 1 .. Len(diags.entries) : diags'.entries[i] = diags.entries[i]
        /\ diags'.entries[Len(diags.entries) + 1] = e
    BY <1>6, <1>10, <1>17, EntriesHere
  <2>2. EntrySpans' = EntrySpans \cup {f}
    <3>1. ASSUME NEW x
          PROVE  x \in EntrySpans' <=>
                   \E i \in 1 .. Len(diags'.entries) : x = SpanOf(diags'.entries[i])
      BY DEF EntrySpans, SpanOf
    <3>2. ASSUME NEW x
          PROVE  x \in EntrySpans <=>
                   \E i \in 1 .. Len(diags.entries) : x = SpanOf(diags.entries[i])
      BY DEF EntrySpans
    <3>3. ASSUME NEW x \in EntrySpans'
          PROVE  x \in EntrySpans \/ x = f
      <4>1. PICK i \in 1 .. Len(diags'.entries) : x = SpanOf(diags'.entries[i])
        BY <3>1
      <4>2. CASE i \in 1 .. Len(diags.entries)
        BY <2>1, <3>2, <4>1, <4>2
      <4>3. CASE i = Len(diags.entries) + 1
        BY <1>7, <2>1, <4>1, <4>3
      <4> QED
        BY <2>1, <4>2, <4>3
    <3>4. ASSUME NEW x \in EntrySpans
          PROVE  x \in EntrySpans'
      <4>1. PICK i \in 1 .. Len(diags.entries) : x = SpanOf(diags.entries[i])
        BY <3>2
      <4>2. i \in 1 .. Len(diags'.entries) /\ diags'.entries[i] = diags.entries[i]
        BY <2>1
      <4> QED
        BY <3>1, <4>1, <4>2
    <3>5. f \in EntrySpans'
      <4>1. Len(diags.entries) + 1 \in 1 .. Len(diags'.entries)
        BY <2>1
      <4> QED
        BY <1>7, <2>1, <3>1, <4>1
    <3> QED
      BY <3>3, <3>4, <3>5
  <2>3. \A i \in 1 .. Len(diags.entries) :
           diags.entries[i].end \in Int /\ diags.entries[i].end <= Settled
    BY EntriesHere DEF ReportInv, EntriesBehind
  <2>4. EntriesInOrder'
    <3>1. ASSUME NEW i \in 1 .. Len(diags'.entries), NEW j \in 1 .. Len(diags'.entries), i < j
          PROVE  diags'.entries[i].end <= diags'.entries[j].start
      <4>1. i \in 1 .. Len(diags.entries)
        BY <2>1, <3>1
      <4>2. CASE j \in 1 .. Len(diags.entries)
        <5>1. diags.entries[i].end <= diags.entries[j].start
          BY <3>1, <4>1, <4>2 DEF ReportInv, Reported, EntriesInOrder
        <5> QED
          BY <2>1, <4>1, <4>2, <5>1
      <4>3. CASE j = Len(diags.entries) + 1
        BY <1>7, <2>1, <2>3, <4>1, <4>3
      <4> QED
        BY <2>1, <4>2, <4>3
    <3> QED
      BY <3>1 DEF EntriesInOrder
  <2>5. Reported'
    BY <1>12, <1>13, <1>14, <1>15, <1>17, <2>2, <2>4 DEF ReportInv, Reported
  <2>6. EntriesBehind'
    <3>1. ASSUME NEW i \in 1 .. Len(diags'.entries)
          PROVE  diags'.entries[i].end <= Settled'
      <4>1. CASE i \in 1 .. Len(diags.entries)
        BY <1>1, <2>1, <2>3, <4>1
      <4>2. CASE i = Len(diags.entries) + 1
        BY <1>1, <1>7, <2>1, <4>2
      <4> QED
        BY <2>1, <4>1, <4>2
    <3> QED
      BY <3>1 DEF EntriesBehind
  <2>7. StoredOfCounted'
    <3>1. DiagsCap = 0 \/ Len(diags.entries) < DiagsCap
      BY <1>17, EntriesHere, Constants DEF AtCapacity
    <3> QED
      BY <1>9, <2>1, <3>1, EntriesHere, Constants DEF ReportInv, StoredOfCounted
  <2> QED
    BY <2>5, <2>6, <2>7 DEF ReportInv
<1> QED
  BY <1>16, <1>17

(* No fault reaches across a place where no number does.                   *)
LEMMA NoneStraddles ==
    ASSUME IInv, NEW from \in Offset, from < Len(source),
           Char(from) \notin Digits \/ NumberMayBegin(from)
    PROVE  \A g \in Faults : g[1] < from => g[2] <= from
<1> SUFFICES ASSUME NEW g \in Faults, g[1] < from
             PROVE  g[2] <= from
  OBVIOUS
<1>1. from \in Nat /\ Len(source) \in Nat
  BY Here DEF Offset
<1>2. CASE g \in CharactersIn(Stray)
  <2>1. g[1] \in Nat /\ g[2] = g[1] + 1
    BY <1>2, LexemesAreSpans
  <2> QED
    BY <1>1, <2>1
<1>3. CASE g \in Numbers
  <2>1. g[1] \in Nat /\ g[2] \in Nat
    BY <1>3, LexemesAreSpans
  <2>2. All(Digits, g[1], g[2])
    BY <1>3 DEF Numbers
  <2> SUFFICES ASSUME from < g[2] PROVE FALSE
    BY <1>1, <2>1
  <2>3. Char(from) \in Digits /\ Char(from - 1) \in Digits
    BY <1>1, <2>1, <2>2 DEF All
  <2> QED
    BY <1>1, <2>1, <2>3, Classes DEF NumberMayBegin
<1> QED
  BY <1>2, <1>3 DEF Faults

(* The first state and each step.                                          *)
LEMMA InitReport == Init => ReportInv
<1> SUFFICES ASSUME Init PROVE ReportInv
  OBVIOUS
<1>1. IInv /\ Settled = 0
  BY InitIInv DEF Init, Settled
<1>2. diags.entries = << >> /\ diags.nerrs = 0 /\ diags.nwarnings = 0
  BY DEF Init, DiagsInit
<1>3. SettledIn(Faults) = {}
  BY <1>1, LexemesAreSpans DEF SettledIn, Faults
<1>4. Cardinality({}) = 0
  BY FS_EmptySet
<1>5. Len(diags.entries) = 0
  BY <1>2
<1>6. Reported
  BY <1>2, <1>3, <1>4, <1>5 DEF Reported, EntrySpans, EntriesInOrder
<1>7. EntriesBehind
  BY <1>5 DEF EntriesBehind
<1>8. StoredOfCounted
  BY <1>2, <1>5, Constants DEF StoredOfCounted
<1> QED
  BY <1>6, <1>7, <1>8 DEF ReportInv

(* A step that emits nothing goes past no fault.                           *)
LEMMA SilentReport ==
    ASSUME IInv, Standing, ReportInv, Silent
    PROVE  ReportInv'
<1>1. diags' = diags
  BY DEF Silent, SkipWhitespace, SkipComment, SkipCommentChar, EndComment,
     BeginIdentifier, ScanIdentifier, BeginNumber, ScanDigit
<1> QED
  BY <1>1, SilentPasses, QuietReport

(* A stray character is pushed as it is passed.                            *)
LEMMA UnexpectedCharacterReport ==
    ASSUME IInv, Standing, ReportInv, UnexpectedCharacter
    PROVE  ReportInv'
<1>1. /\ ~ AtEnd /\ Char(pos) \in Stray /\ DiagsPush(pos, pos + 1)
      /\ Settled = pos /\ Settled' = pos + 1
  BY DEF UnexpectedCharacter, Settled
<1>2. pos \in Offset /\ pos + 1 \in Offset /\ pos < pos + 1 /\ pos < Len(source)
  BY <1>1, Here DEF AtEnd
<1>3. \A g \in Faults : g[1] < pos => g[2] <= pos
  BY <1>1, <1>2, Classes, NoneStraddles
<1>4. Passes({}, {}, {}, {<<pos, pos + 1>>})
  BY UnexpectedCharacterPasses
<1> QED
  BY <1>1, <1>2, <1>3, <1>4, PushReport

(* A number is pushed exactly when it was out of range.                    *)
LEMMA LexNumberReport ==
    ASSUME IInv, Standing, ReportInv, LexNumber
    PROVE  ReportInv'
<1>1. /\ pc = "number" /\ (~ AtEnd => Char(pos) \notin Digits)
      /\ IF overflowed THEN DiagsPush(start, pos) ELSE diags' = diags
      /\ Settled = start /\ Settled' = pos
  BY DEF LexNumber, Settled
<1>2. NumberOpen
  BY <1>1 DEF Standing
<1>3. start \in Offset /\ pos \in Offset /\ start < pos /\ start < Len(source)
  BY <1>1, <1>2, Here DEF NumberOpen, AtEnd
<1>4. CASE overflowed
  <2>1. Passes({}, {<<start, pos>>}, {}, {<<start, pos>>})
    BY <1>4, LexNumberPasses
  <2>2. \A g \in Faults : g[1] < start => g[2] <= start
    BY <1>2, <1>3, NoneStraddles DEF NumberOpen
  <2> QED
    BY <1>1, <1>3, <1>4, <2>1, <2>2, PushReport
<1>5. CASE ~ overflowed
  <2>1. Passes({}, {<<start, pos>>}, {}, {})
    BY <1>5, LexNumberPasses
  <2> QED
    BY <1>1, <1>5, <2>1, QuietReport
<1> QED
  BY <1>4, <1>5

(* The other tokens are no faults.                                         *)
LEMMA OtherReport ==
    ASSUME IInv, Standing, ReportInv, LexPunctuation \/ LexIdentifierOrKeyword \/ LexEOF
    PROVE  ReportInv'
<1>1. CASE LexPunctuation
  <2>1. diags' = diags
    BY <1>1 DEF LexPunctuation
  <2> QED
    BY <1>1, <2>1, LexPunctuationPasses, QuietReport
<1>2. CASE LexIdentifierOrKeyword
  <2>1. /\ diags' = diags /\ pc = "ident" /\ source' = source
        /\ ~ AtEnd => Char(pos) \notin IdentContinue
        /\ Settled = start /\ Settled' = pos
    BY <1>2 DEF LexIdentifierOrKeyword, Settled
  <2>2. Passes({<<start, pos>>}, {}, {}, {})
    BY <2>1, PassingWord DEF Standing
  <2> QED
    BY <2>1, <2>2, QuietReport
<1>3. CASE LexEOF
  <2>1. diags' = diags /\ source' = source /\ Settled' = Settled
    BY <1>3 DEF LexEOF, Settled
  <2> QED
    BY <2>1, PassingNothing, QuietReport
<1> QED
  BY <1>1, <1>2, <1>3

-----------------------------------------------------------------------------

(* The whole invariant: where the lexer stands, the tokens and the         *)
(* diagnostics of what it has dealt with.                                  *)
LexInv == Standing /\ TokensAreLexemes /\ TokensBehind /\ ReportInv

(* Nothing in the invariant looks at more than the variables.              *)
LEMMA StutterLexInv ==
    ASSUME IInv, LexInv, UNCHANGED vars
    PROVE  LexInv'
<1>1. /\ source' = source /\ pos' = pos /\ pc' = pc /\ start' = start
      /\ exact' = exact /\ tokens' = tokens /\ diags' = diags /\ Settled' = Settled
  BY DEF vars, Settled
<1>2. Passes({}, {}, {}, {})
  BY <1>1, PassingNothing
<1>3. Standing'
  <2>1. Between => Between'
    BY <1>1 DEF Between, AtEnd, Char, WordMayBegin, NumberMayBegin, All
  <2>2. CommentOpen => CommentOpen'
    BY <1>1 DEF CommentOpen, Char
  <2>3. WordOpen => WordOpen'
    BY <1>1 DEF WordOpen, All, Char, WordMayBegin, InComment
  <2>4. NumberOpen => NumberOpen'
    BY <1>1 DEF NumberOpen, All, Char, NumberMayBegin, InComment
  <2>5. Decimal(<<start, pos>>)' = Decimal(<<start, pos>>)
    BY <1>1 DEF Decimal, Char
  <2> QED
    BY <1>1, <2>1, <2>2, <2>3, <2>4, <2>5 DEF LexInv, Standing, AtEnd
<1>4. ReportInv'
  BY <1>1, <1>2, QuietReport DEF LexInv
<1>5. TokensBehind'
  BY <1>1 DEF LexInv, TokensBehind
<1>6. TokensAreLexemes'
  <2>1. GoodTokens' /\ TokensInOrder'
    BY <1>1, SameText, TokensAreLexemesIff DEF LexInv, GoodTokens, GoodToken, SpanOf,
       TokensInOrder
  <2>2. /\ SettledIn(Words)' = SettledIn(Words) /\ SettledIn(Numbers)' = SettledIn(Numbers)
        /\ SettledIn(Marks)' = SettledIn(Marks)
    BY <1>1, SameText DEF SettledIn
  <2>3. \A kinds : SpansOf(kinds)' = SpansOf(kinds)
    BY <1>1 DEF SpansOf, SpanOf
  <2>4. LexemesByKind'
    BY <1>1, <2>2, <2>3, TokensAreLexemesIff DEF LexInv, LexemesByKind
  <2> QED
    BY <2>1, <2>4, TokensAreLexemesIff
<1> QED
  BY <1>3, <1>4, <1>5, <1>6 DEF LexInv

(* Every step keeps where the lexer stands, the tokens and the reports.    *)
LEMMA NextLexInv ==
    ASSUME IInv, LexInv, Next
    PROVE  LexInv'
<1>1. /\ Standing /\ TokensAreLexemes /\ TokensBehind /\ ReportInv
  BY DEF LexInv
<1>2. CASE Silent
  BY <1>1, <1>2, SkippingStanding, WordStanding, NumberStanding, SilentTokens, SilentReport
     DEF LexInv, Silent
<1>3. CASE LexIdentifierOrKeyword
  BY <1>1, <1>3, WordStanding, LexIdentifierOrKeywordTokens, OtherReport DEF LexInv
<1>4. CASE LexNumber
  BY <1>1, <1>4, NumberStanding, LexNumberTokens, LexNumberReport DEF LexInv
<1>5. CASE LexPunctuation
  BY <1>1, <1>5, CharacterStanding, LexPunctuationTokens, OtherReport DEF LexInv
<1>6. CASE UnexpectedCharacter
  BY <1>1, <1>6, CharacterStanding, UnexpectedCharacterTokens, UnexpectedCharacterReport
     DEF LexInv
<1>7. CASE LexEOF
  BY <1>1, <1>7, CharacterStanding, LexEOFTokens, OtherReport DEF LexInv
<1> QED
  BY <1>2, <1>3, <1>4, <1>5, <1>6, <1>7 DEF Next, Silent

(* The lexer stands between lexemes or inside one it will leave whole,     *)
(* and has turned what is behind it into tokens and diagnostics.           *)
THEOREM LexInvariance == Spec => []LexInv
<1>1. Init => LexInv
  BY InitStanding, InitTokens, InitReport DEF LexInv
<1>2. IInv /\ LexInv /\ [Next]_vars => LexInv'
  BY StutterLexInv, NextLexInv
<1> QED
  BY <1>1, <1>2, Invariance, PTL DEF Spec

(* On every text, at every moment: the tokens are exactly the lexemes that *)
(* have been dealt with.                                                   *)
THEOREM LexemesFound == Spec => []TokensAreLexemes
<1>1. LexInv => TokensAreLexemes
  BY DEF LexInv
<1> QED
  BY <1>1, LexInvariance, PTL

(* Every fault is counted once, and the stored diagnostics are the first   *)
(* ones, whatever the max of the store is.                                 *)
THEOREM FaultsAreReported == Spec => []FaultsReported
<1>1. LexInv => FaultsReported
  BY FaultsReportedIff DEF LexInv, ReportInv
<1> QED
  BY <1>1, LexInvariance, PTL
=============================================================================
