--------------------------- MODULE Parser_proofs ---------------------------
(***************************************************************************)
(* The parser on every token list: its cursor never leaves the list, every *)
(* round consumes a token, exactly the well-formed statements are kept,    *)
(* the error count is zero exactly when there is nothing else, errors come *)
(* in the order of the text, one at every broken statement, and warnings   *)
(* are of the labels with nothing behind them.                             *)
(***************************************************************************)
EXTENDS Parser, Facts, SequenceTheorems

Entries == [severity : Severity, at : 1 .. Len(tokens)]
Parsers == [cursor : 1 .. Len(tokens), diags : Stores(Entries, {DiagsCap}),
            got : Seq(0 .. Len(tokens))]

-----------------------------------------------------------------------------
(* The grammar and the token list.                                         *)

(* The shapes, one by one.                                                 *)
LEMMA Shapes ==
    /\ Shape["label"] = <<{"label"}, {"identifier"}, {"colon"}>>
    /\ Shape["move"] = <<{"move"}, {"identifier", "number"}, {"to"},
                         {"identifier", "number"}, {"semicolon"}>>
    /\ Shape["syscall"] = <<{"syscall"}, {"semicolon"}>>
    /\ Shape["entry"] = <<{"entry"}, {"identifier"}, {"semicolon"}>>
BY DEF Shape

(* Behind its keyword a statement has neither a keyword that starts one    *)
(* nor EOF.                                                                *)
LEMMA ShapeInside ==
    ASSUME NEW kind \in StatementKind
    PROVE  /\ Len(Shape[kind]) \in Nat /\ Len(Shape[kind]) >= 2
           /\ Shape[kind][1] = {kind}
           /\ \A k \in 2 .. Len(Shape[kind]) :
                Shape[kind][k] \cap (StatementKind \cup {"eof"}) = {}
<1>1. CASE kind = "label"
  BY <1>1, Shapes DEF StatementKind
<1>2. CASE kind = "move"
  BY <1>2, Shapes DEF StatementKind
<1>3. CASE kind = "syscall"
  BY <1>3, Shapes DEF StatementKind
<1>4. CASE kind = "entry"
  BY <1>4, Shapes DEF StatementKind
<1> QED
  BY <1>1, <1>2, <1>3, <1>4 DEF StatementKind

(* A token other than EOF has a successor.                                 *)
LEMMA Successor ==
    ASSUME TypeOK, NEW i \in 1 .. Len(tokens), tokens[i] # "eof"
    PROVE  i + 1 \in 1 .. Len(tokens) /\ i < Len(tokens)
BY DEF TypeOK, TokenLists

-----------------------------------------------------------------------------
(* One statement.                                                          *)

(* The parser p after k expectations of the statement at cursor: without   *)
(* a new error it has taken the first k tokens, with one some token did    *)
(* not fit, and in neither case has it passed a keyword that starts a      *)
(* statement, but for its own.                                             *)
Reached(p, k) ==
    /\ p \in Parsers
    /\ p.cursor >= cursor /\ (k > 0 => p.cursor > cursor)
    /\ Len(p.got) = k
    /\ p.diags.nerrs >= diags.nerrs
    /\ p.diags.nerrs = diags.nerrs =>
         /\ p.cursor = cursor + k
         /\ \A j \in 1 .. k : Fits(cursor, j) /\ p.got[j] = cursor + j - 1
    /\ p.diags.nerrs # diags.nerrs => \E j \in 1 .. k : ~ Fits(cursor, j)
    /\ \A i \in cursor + 1 .. p.cursor - 1 : tokens[i] \notin StatementKind

(* Pushing an error keeps the store well formed and counts it.             *)
LEMMA PushError ==
    ASSUME TypeOK, NEW d \in Stores(Entries, {DiagsCap}), NEW at \in 1 .. Len(tokens)
    PROVE  /\ DiagsPush(d, "error", at) \in Stores(Entries, {DiagsCap})
           /\ DiagsPush(d, "error", at).nerrs = d.nerrs + 1
<1> DEFINE e == [severity |-> "error", at |-> at]
<1>1. e \in Entries /\ e.severity # "warning"
  BY DEF Entries, Severity
<1>2. {DiagsCap} \subseteq Nat
  BY ParserAssumption
<1> HIDE DEF e
<1>3. /\ DiagsPushImpl(d, e) \in Stores(Entries, {DiagsCap})
      /\ DiagsPushImpl(d, e).nerrs = d.nerrs + (IF e.severity = "warning" THEN 0 ELSE 1)
  BY <1>1, <1>2, DiagsPushType
<1> QED
  BY <1>1, <1>3 DEF DiagsPush, e

(* Pushing a warning does not touch nerrs.                                 *)
LEMMA PushWarning ==
    ASSUME TypeOK, NEW d \in Stores(Entries, {DiagsCap}), NEW at \in 1 .. Len(tokens)
    PROVE  /\ DiagsPush(d, "warning", at) \in Stores(Entries, {DiagsCap})
           /\ DiagsPush(d, "warning", at).nerrs = d.nerrs
<1> DEFINE e == [severity |-> "warning", at |-> at]
<1>1. e \in Entries /\ e.severity = "warning"
  BY DEF Entries, Severity
<1>2. {DiagsCap} \subseteq Nat
  BY ParserAssumption
<1> HIDE DEF e
<1>3. /\ DiagsPushImpl(d, e) \in Stores(Entries, {DiagsCap})
      /\ DiagsPushImpl(d, e).nerrs = d.nerrs + (IF e.severity = "warning" THEN 0 ELSE 1)
  BY <1>1, <1>2, DiagsPushType
<1>4. d.nerrs \in Nat
  BY DEF Stores
<1> QED
  BY <1>1, <1>3, <1>4 DEF DiagsPush, e

(* What Take and Unmet do to a parser.                                     *)
LEMMA TakeFields ==
    ASSUME TypeOK, NEW p \in Parsers, tokens[p.cursor] # "eof"
    PROVE  /\ Take(p) \in Parsers
           /\ Take(p).cursor = p.cursor + 1
           /\ Take(p).diags = p.diags
           /\ Take(p).got = Append(p.got, p.cursor)
<1>1. p.cursor \in 1 .. Len(tokens) /\ Len(tokens) \in Nat
  BY DEF TypeOK, TokenLists, Parsers
<1>2. p.cursor + 1 \in 1 .. Len(tokens)
  BY <1>1, Successor
<1>3. Append(p.got, p.cursor) \in Seq(0 .. Len(tokens))
  BY <1>1 DEF Parsers
<1>4. Take(p) = [[p EXCEPT !.cursor = p.cursor + 1] EXCEPT !.got = Append(p.got, p.cursor)]
  BY DEF Take, ParserAdvance, ParserPeek, Parsers
<1> QED
  BY <1>2, <1>3, <1>4 DEF Parsers

(* An unmet expectation costs an error and a placeholder, and consumes     *)
(* nothing.                                                                *)
LEMMA UnmetFields ==
    ASSUME TypeOK, NEW p \in Parsers
    PROVE  /\ Unmet(p) \in Parsers
           /\ Unmet(p).cursor = p.cursor
           /\ Unmet(p).diags.nerrs = p.diags.nerrs + 1
           /\ Unmet(p).got = Append(p.got, Placeholder)
<1>1. /\ DiagsPush(p.diags, "error", p.cursor) \in Stores(Entries, {DiagsCap})
      /\ DiagsPush(p.diags, "error", p.cursor).nerrs = p.diags.nerrs + 1
  BY PushError DEF Parsers
<1>2. Append(p.got, Placeholder) \in Seq(0 .. Len(tokens))
  BY DEF Parsers, Placeholder, TypeOK, TokenLists
<1> QED
  BY <1>1, <1>2 DEF Unmet, Parsers

(* One expectation, of a token in S.                                       *)
Step(p, S) == IF ParserPeek(p) \in S THEN Take(p) ELSE Unmet(p)

(* It takes a parser one token further along the shape of its statement.   *)
LEMMA StepReached ==
    ASSUME TypeOK, tokens[cursor] \in StatementKind,
           NEW k \in 0 .. Length(cursor) - 1, NEW p, Reached(p, k),
           NEW S, S = Shape[tokens[cursor]][k + 1]
    PROVE  Reached(Step(p, S), k + 1)
<1>1. /\ cursor \in 1 .. Len(tokens) /\ Len(tokens) \in Nat
      /\ p \in Parsers /\ p.cursor \in 1 .. Len(tokens)
      /\ p.diags.nerrs \in Nat /\ diags.nerrs \in Nat
      /\ p.got \in Seq(0 .. Len(tokens))
  BY SMTT(30) DEF TypeOK, TokenLists, Reached, Parsers, Stores
<1>2. /\ Length(cursor) \in Nat /\ k \in Nat
      /\ k = 0 => S = {tokens[cursor]}
      /\ k > 0 => S \cap (StatementKind \cup {"eof"}) = {}
  BY ShapeInside DEF Length
<1>3. "eof" \notin StatementKind
  BY DEF StatementKind
<1>4. CASE ParserPeek(p) \in S
  <2>1. Step(p, S) = Take(p) /\ tokens[p.cursor] \in S
    BY <1>4 DEF Step, ParserPeek
  <2>2. tokens[p.cursor] # "eof"
    BY <1>2, <1>3, <2>1
  <2>3. /\ Take(p) \in Parsers /\ Take(p).cursor = p.cursor + 1
        /\ Take(p).diags = p.diags /\ Take(p).got = Append(p.got, p.cursor)
    BY <1>1, <2>2, TakeFields
  <2>4. Len(Take(p).got) = k + 1
    BY <1>1, <2>3 DEF Reached
  <2>5. ASSUME p.diags.nerrs = diags.nerrs
        PROVE  /\ p.cursor + 1 = cursor + (k + 1)
               /\ \A j \in 1 .. k + 1 : /\ Fits(cursor, j)
                                        /\ Take(p).got[j] = cursor + j - 1
    <3>1. p.cursor = cursor + k
      BY <2>5 DEF Reached
    <3>2. Fits(cursor, k + 1)
      BY <1>1, <2>1, <3>1 DEF Fits
    <3>3. Take(p).got[k + 1] = cursor + k
      BY <1>1, <2>3, <3>1 DEF Reached
    <3>4. \A j \in 1 .. k : Fits(cursor, j) /\ Take(p).got[j] = cursor + j - 1
      BY <1>1, <2>3, <2>5, SMTT(30) DEF Reached
    <3>5. ASSUME NEW j \in 1 .. k + 1
          PROVE  Fits(cursor, j) /\ Take(p).got[j] = cursor + j - 1
      <4>1. CASE j = k + 1
        <5>1. cursor + j - 1 = cursor + k
          BY <1>1, <1>2, <4>1
        <5> QED
          BY <3>2, <3>3, <4>1, <5>1, Zenon
      <4>2. CASE j # k + 1
        <5>1. j \in 1 .. k
          BY <1>2, <4>2
        <5> QED
          BY <3>4, <5>1, Zenon
      <4> QED
        BY <4>1, <4>2
    <3>6. p.cursor + 1 = cursor + (k + 1)
      BY <1>1, <1>2, <3>1
    <3> QED
      BY <3>5, <3>6, Zenon
  <2>6. ASSUME NEW i \in cursor + 1 .. p.cursor
        PROVE  tokens[i] \notin StatementKind
    <3>1. CASE i < p.cursor
      BY <1>1, <3>1 DEF Reached
    <3>2. CASE i = p.cursor
      <4>1. k > 0
        BY <1>1, <3>2 DEF Reached
      <4> QED
        BY <1>2, <2>1, <3>2, <4>1
    <3> QED
      BY <1>1, <3>1, <3>2
  <2>7. p.diags.nerrs # diags.nerrs => \E j \in 1 .. k + 1 : ~ Fits(cursor, j)
    BY DEF Reached
  <2>8. p.cursor >= cursor /\ p.diags.nerrs >= diags.nerrs
    BY DEF Reached
  <2>9. Reached(Take(p), k + 1)
    <3>1. /\ Take(p).cursor >= cursor
          /\ k + 1 > 0 => Take(p).cursor > cursor
          /\ Take(p).diags.nerrs >= diags.nerrs
      BY <1>1, <2>3, <2>8
    <3>2. Take(p).diags.nerrs = diags.nerrs =>
            /\ Take(p).cursor = cursor + (k + 1)
            /\ \A j \in 1 .. k + 1 : Fits(cursor, j) /\ Take(p).got[j] = cursor + j - 1
      BY <2>3, <2>5, Zenon
    <3>3. Take(p).diags.nerrs # diags.nerrs => \E j \in 1 .. k + 1 : ~ Fits(cursor, j)
      BY <2>3, <2>7, Zenon
    <3>4. \A i \in cursor + 1 .. Take(p).cursor - 1 : tokens[i] \notin StatementKind
      <4> DEFINE c == Take(p).cursor
      <4>1. c = p.cursor + 1
        BY <2>3
      <4> HIDE DEF c
      <4>2. cursor + 1 .. c - 1 = cursor + 1 .. p.cursor
        BY <1>1, <4>1
      <4>3. \A i \in cursor + 1 .. c - 1 : tokens[i] \notin StatementKind
        BY <2>6, <4>2, Zenon
      <4> QED
        BY <4>3 DEF c
    <3> QED
      BY <2>3, <2>4, <3>1, <3>2, <3>3, <3>4, Zenon DEF Reached
  <2> QED
    BY <2>1, <2>9
<1>5. CASE ParserPeek(p) \notin S
  <2>1. Step(p, S) = Unmet(p) /\ tokens[p.cursor] \notin S
    BY <1>5 DEF Step, ParserPeek
  <2>2. /\ Unmet(p) \in Parsers /\ Unmet(p).cursor = p.cursor
        /\ Unmet(p).diags.nerrs = p.diags.nerrs + 1
        /\ Unmet(p).got = Append(p.got, Placeholder)
    BY <1>1, UnmetFields
  <2>3. Len(Unmet(p).got) = k + 1
    BY <1>1, <2>2 DEF Reached, Placeholder
  <2>4. \E j \in 1 .. k + 1 : ~ Fits(cursor, j)
    <3>1. CASE p.diags.nerrs = diags.nerrs
      <4>1. p.cursor = cursor + k
        BY <3>1 DEF Reached
      <4>2. ~ Fits(cursor, k + 1)
        BY <1>1, <2>1, <4>1 DEF Fits
      <4> QED
        BY <4>2
    <3>2. CASE p.diags.nerrs # diags.nerrs
      BY <3>2 DEF Reached
    <3> QED
      BY <3>1, <3>2
  <2>5. p.cursor > cursor
    <3>1. CASE k = 0
      <4>1. p.diags.nerrs = diags.nerrs
        BY <3>1 DEF Reached
      <4>2. p.cursor = cursor
        BY <1>1, <3>1, <4>1 DEF Reached
      <4> QED
        BY <1>2, <2>1, <3>1, <4>2
    <3>2. CASE k > 0
      BY <3>2 DEF Reached
    <3> QED
      BY <3>1, <3>2
  <2>6. p.diags.nerrs + 1 # diags.nerrs /\ p.diags.nerrs + 1 >= diags.nerrs
    BY <1>1 DEF Reached
  <2>7. Reached(Unmet(p), k + 1)
    BY <2>2, <2>3, <2>4, <2>5, <2>6 DEF Reached
  <2> QED
    BY <2>1, <2>7
<1> QED
  BY <1>4, <1>5

(* The parser at the beginning of a statement.                             *)
LEMMA StartReached ==
    ASSUME TypeOK
    PROVE  Reached(Parser, 0)
<1>1. Parser \in Parsers
  BY DEF TypeOK, Parser, Parsers, Stores, Entries
<1>2. Parser.cursor = cursor /\ Parser.diags = diags /\ Parser.got = << >>
  BY DEF Parser
<1>3. cursor \in Nat /\ diags.nerrs \in Nat
  BY DEF TypeOK
<1> QED
  BY <1>1, <1>2, <1>3 DEF Reached

(* The whole statement, for each keyword: what holds of the parser at its  *)
(* beginning, and with each expectation for one more of them, holds in the *)
(* end.                                                                    *)
LEMMA ParseStmtSteps ==
    ASSUME tokens[cursor] \in StatementKind, NEW R, <<Parser, 0>> \in R,
           \A k \in 0 .. Length(cursor) - 1 : \A p :
              <<p, k>> \in R => <<Step(p, Shape[tokens[cursor]][k + 1]), k + 1>> \in R
    PROVE  <<ParseStmt(Parser), Length(cursor)>> \in R
<1> DEFINE kind == tokens[cursor]
           S(k) == Shape[kind][k]
<1>1. <<Parser, 0>> \in R
  OBVIOUS
<1>2. ParserPeek(Parser) = kind
  BY DEF ParserPeek, Parser
<1>3. \A p, kw : ParserExpectKeyword(p, kw) = Step(p, {kw})
  BY DEF ParserExpectKeyword, ParserExpect, Step
<1>4. \A p, tk : ParserExpect(p, tk) = Step(p, {tk})
  BY DEF ParserExpect, Step
<1>5. \A p : ParseOperand(p) = Step(p, {"identifier", "number"})
  BY DEF ParseOperand, Step
<1>6. \A k \in 0 .. Length(cursor) - 1 : \A p :
        <<p, k>> \in R => <<Step(p, S(k + 1)), k + 1>> \in R
  OBVIOUS
<1>7. CASE kind = "label"
  <2>1. Length(cursor) = 3 /\ S(1) = {"label"} /\ S(2) = {"identifier"} /\ S(3) = {"colon"}
    BY <1>7, Shapes DEF Length
  <2>2. ParseStmt(Parser) = ParseLabelDecl(Parser)
    BY <1>2, <1>7 DEF ParseStmt
  <2>3. ParseLabelDecl(Parser) = Step(Step(Step(Parser, S(1)), S(2)), S(3))
    BY <1>3, <1>4, <2>1 DEF ParseLabelDecl
  <2> HIDE DEF S
  <2>4. <<Step(Parser, S(1)), 1>> \in R
    BY <1>1, <1>6, <2>1
  <2>5. <<Step(Step(Parser, S(1)), S(2)), 2>> \in R
    BY <1>6, <2>1, <2>4
  <2>6. <<Step(Step(Step(Parser, S(1)), S(2)), S(3)), 3>> \in R
    BY <1>6, <2>1, <2>5
  <2> QED
    BY <2>1, <2>2, <2>3, <2>6
<1>8. CASE kind = "move"
  <2>1. /\ Length(cursor) = 5 /\ S(1) = {"move"} /\ S(2) = {"identifier", "number"}
        /\ S(3) = {"to"} /\ S(4) = {"identifier", "number"} /\ S(5) = {"semicolon"}
    BY <1>8, Shapes DEF Length
  <2>2. ParseStmt(Parser) = ParseMoveStmt(Parser)
    BY <1>2, <1>8 DEF ParseStmt
  <2>3. ParseMoveStmt(Parser) =
          Step(Step(Step(Step(Step(Parser, S(1)), S(2)), S(3)), S(4)), S(5))
    BY <1>3, <1>4, <1>5, <2>1 DEF ParseMoveStmt
  <2> HIDE DEF S
  <2>4. <<Step(Parser, S(1)), 1>> \in R
    BY <1>1, <1>6, <2>1
  <2>5. <<Step(Step(Parser, S(1)), S(2)), 2>> \in R
    BY <1>6, <2>1, <2>4
  <2>6. <<Step(Step(Step(Parser, S(1)), S(2)), S(3)), 3>> \in R
    BY <1>6, <2>1, <2>5
  <2>7. <<Step(Step(Step(Step(Parser, S(1)), S(2)), S(3)), S(4)), 4>> \in R
    BY <1>6, <2>1, <2>6
  <2>8. <<Step(Step(Step(Step(Step(Parser, S(1)), S(2)), S(3)), S(4)), S(5)), 5>> \in R
    BY <1>6, <2>1, <2>7
  <2> QED
    BY <2>1, <2>2, <2>3, <2>8
<1>9. CASE kind = "syscall"
  <2>1. Length(cursor) = 2 /\ S(1) = {"syscall"} /\ S(2) = {"semicolon"}
    BY <1>9, Shapes DEF Length
  <2>2. ParseStmt(Parser) = ParseSyscallStmt(Parser)
    BY <1>2, <1>9 DEF ParseStmt
  <2>3. ParseSyscallStmt(Parser) = Step(Step(Parser, S(1)), S(2))
    BY <1>3, <1>4, <2>1 DEF ParseSyscallStmt
  <2> HIDE DEF S
  <2>4. <<Step(Parser, S(1)), 1>> \in R
    BY <1>1, <1>6, <2>1
  <2>5. <<Step(Step(Parser, S(1)), S(2)), 2>> \in R
    BY <1>6, <2>1, <2>4
  <2> QED
    BY <2>1, <2>2, <2>3, <2>5
<1>10. CASE kind = "entry"
  <2>1. Length(cursor) = 3 /\ S(1) = {"entry"} /\ S(2) = {"identifier"} /\ S(3) = {"semicolon"}
    BY <1>10, Shapes DEF Length
  <2>2. ParseStmt(Parser) = ParseEntryStmt(Parser)
    BY <1>2, <1>10 DEF ParseStmt
  <2>3. ParseEntryStmt(Parser) = Step(Step(Step(Parser, S(1)), S(2)), S(3))
    BY <1>3, <1>4, <2>1 DEF ParseEntryStmt
  <2> HIDE DEF S
  <2>4. <<Step(Parser, S(1)), 1>> \in R
    BY <1>1, <1>6, <2>1
  <2>5. <<Step(Step(Parser, S(1)), S(2)), 2>> \in R
    BY <1>6, <2>1, <2>4
  <2>6. <<Step(Step(Step(Parser, S(1)), S(2)), S(3)), 3>> \in R
    BY <1>6, <2>1, <2>5
  <2> QED
    BY <2>1, <2>2, <2>3, <2>6
<1> QED
  BY <1>7, <1>8, <1>9, <1>10 DEF StatementKind

(* Parsing a statement meets the expectations of its shape one by one.     *)
LEMMA ParseStmtReached ==
    ASSUME TypeOK, tokens[cursor] \in StatementKind
    PROVE  Reached(ParseStmt(Parser), Length(cursor))
<1> DEFINE R == {x \in Parsers \X Nat : Reached(x[1], x[2])}
<1>1. <<Parser, 0>> \in R
  BY StartReached DEF Reached
<1>2. ASSUME NEW k \in 0 .. Length(cursor) - 1, NEW p, <<p, k>> \in R
      PROVE  <<Step(p, Shape[tokens[cursor]][k + 1]), k + 1>> \in R
  <2>1. Reached(p, k)
    BY <1>2
  <2>2. Reached(Step(p, Shape[tokens[cursor]][k + 1]), k + 1)
    BY <2>1, StepReached
  <2>3. Step(p, Shape[tokens[cursor]][k + 1]) \in Parsers
    BY <2>2 DEF Reached
  <2> QED
    BY <2>2, <2>3
<1> HIDE DEF R
<1>3. <<ParseStmt(Parser), Length(cursor)>> \in R
  BY <1>1, <1>2, ParseStmtSteps
<1> QED
  BY <1>3 DEF R

-----------------------------------------------------------------------------
(* Sentences.                                                              *)

(* Inside a sentence there is neither a keyword that starts a statement    *)
(* nor EOF.                                                                *)
LEMMA SentenceInside ==
    ASSUME TypeOK, NEW i \in Sentences, NEW j \in i + 1 .. i + Length(i) - 1
    PROVE  j \in 1 .. Len(tokens) /\ tokens[j] \notin StatementKind \cup {"eof"}
<1> DEFINE k == j - i + 1
<1>1. /\ i \in 1 .. Len(tokens) /\ tokens[i] \in StatementKind /\ Len(tokens) \in Nat
      /\ \A n \in 1 .. Length(i) : Fits(i, n)
  BY DEF Sentences, Starts, TypeOK, TokenLists
<1>2. /\ Length(i) \in Nat
      /\ \A n \in 2 .. Length(i) : Shape[tokens[i]][n] \cap (StatementKind \cup {"eof"}) = {}
  BY <1>1, ShapeInside DEF Length
<1>3. k \in 2 .. Length(i) /\ i + k - 1 = j /\ j >= 1 /\ j \in Nat
  BY <1>1, <1>2
<1> HIDE DEF k
<1>4. Fits(i, k)
  BY <1>1, <1>2, <1>3
<1>5. j <= Len(tokens) /\ tokens[j] \in Shape[tokens[i]][k]
  BY <1>3, <1>4, Zenon DEF Fits
<1>6. Shape[tokens[i]][k] \cap (StatementKind \cup {"eof"}) = {}
  BY <1>2, <1>3
<1> QED
  BY <1>1, <1>3, <1>5, <1>6

(* A keyword that starts a statement, or EOF, is in no other sentence.     *)
LEMMA KeywordInSentence ==
    ASSUME TypeOK, NEW j \in 1 .. Len(tokens),
           tokens[j] \in StatementKind \cup {"eof"}, InSentence(j)
    PROVE  j \in Sentences
<1>1. PICK i \in Sentences : j \in i .. i + Length(i) - 1
  BY DEF InSentence
<1>2. i \in Nat /\ tokens[i] \in StatementKind
  BY DEF Sentences, Starts
<1>3. Length(i) \in Nat
  BY <1>2, ShapeInside DEF Length
<1>4. CASE j = i
  BY <1>4
<1>5. CASE j # i
  <2>1. j \in i + 1 .. i + Length(i) - 1
    BY <1>1, <1>2, <1>3, <1>5
  <2> QED
    BY <2>1, SentenceInside
<1> QED
  BY <1>4, <1>5

(* The grammar depends on the tokens alone.                                *)
LEMMA GrammarFixed ==
    ASSUME tokens' = tokens
    PROVE  /\ Sentences' = Sentences
           /\ \A i : Length(i)' = Length(i)
           /\ \A j : InSentence(j)' <=> InSentence(j)
BY DEF Sentences, Starts, Length, Fits, InSentence

-----------------------------------------------------------------------------
(* The inductive invariant.                                                *)

(* Recovery starts behind the last round's keyword or at a token that it   *)
(* is going to skip, so the round ends farther than it began.              *)
RecoveryMoves ==
    pc = "synchronize" =>
        /\ cursor >= from
        /\ cursor > from \/ tokens[cursor] \notin StatementKind \cup {"eof"}

(* A sentence that has been passed has been passed whole.                  *)
PassedWhole == \A i \in Sentences : i < cursor => i + Length(i) <= cursor

(* No error so far means that nothing but sentences was passed, an error   *)
(* means that there is something else.                                     *)
ErrorsSoFar ==
    /\ diags.nerrs = 0 => pc # "synchronize" /\ \A j \in 1 .. cursor - 1 : InSentence(j)
    /\ diags.nerrs # 0 => \E j \in 1 .. Len(tokens) - 1 : ~ InSentence(j)

(* The loop ends at EOF.                                                   *)
LoopEndsAtEOF == pc \in {"check", "done"} => tokens[cursor] = "eof"

IInv ==
    /\ TypeOK /\ ParsedExactly /\ Progress
    /\ RecoveryMoves /\ PassedWhole /\ ErrorsSoFar /\ LoopEndsAtEOF

(* The store's part of the type invariant.                                 *)
LEMMA DiagsTyped ==
    ASSUME TypeOK
    PROVE  diags \in Stores(Entries, {DiagsCap}) /\ diags.nerrs \in Nat
BY DEF TypeOK, Stores, Entries

(* It holds at the start.                                                  *)
LEMMA InitInvariant == Init => IInv
<1> SUFFICES ASSUME Init PROVE IInv
  OBVIOUS
<1>1. /\ tokens \in TokenLists /\ cursor = 1 /\ diags = DiagsInit(DiagsCap)
      /\ stmts = << >> /\ pc = "statement" /\ node = 1 /\ from = 0
  BY ParserAssumption DEF Init
<1>2. Len(tokens) \in Nat /\ Len(tokens) >= 1
  BY <1>1 DEF TokenLists
<1>3. diags \in Stores(Entries, {DiagsCap}) /\ diags.nerrs = 0
  BY <1>1, DiagsInitType DEF DiagsInit
<1>4. TypeOK
  BY <1>1, <1>2, <1>3 DEF TypeOK, Stores, Entries
<1>5. \A i \in Sentences : ~ i < cursor
  BY <1>1 DEF Sentences, Starts
<1>6. ParsedExactly
  <2>1. Len(stmts) = 0
    BY <1>1
  <2> QED
    BY <1>5, <2>1 DEF ParsedExactly
<1>7. Progress /\ RecoveryMoves /\ PassedWhole /\ LoopEndsAtEOF
  BY <1>1, <1>5 DEF Progress, RecoveryMoves, PassedWhole, LoopEndsAtEOF
<1>8. ErrorsSoFar
  BY <1>1, <1>3 DEF ErrorsSoFar
<1> QED
  BY <1>4, <1>6, <1>7, <1>8 DEF IInv

-----------------------------------------------------------------------------
(* Every step keeps it.                                                    *)

(* ParseStmt leaves a parser farther along or, at a token that starts      *)
(* nothing, one with an error more.                                        *)
LEMMA ParseStmtType ==
    ASSUME TypeOK, ParserPeek(Parser) # "eof", NEW p, p = ParseStmt(Parser)
    PROVE  /\ p \in Parsers
           /\ tokens[cursor] \in StatementKind => Reached(p, Length(cursor))
           /\ tokens[cursor] \notin StatementKind =>
                p.cursor = cursor /\ p.diags.nerrs = diags.nerrs + 1
<1>1. CASE tokens[cursor] \in StatementKind
  BY <1>1, ParseStmtReached DEF Reached
<1>2. CASE tokens[cursor] \notin StatementKind
  <2>1. p = Unmet(Parser)
    BY <1>2 DEF ParseStmt, ParserPeek, Parser, StatementKind
  <2>2. Parser \in Parsers /\ Parser.cursor = cursor /\ Parser.diags = diags
    BY StartReached DEF Reached, Parser
  <2> QED
    BY <1>2, <2>1, <2>2, UnmetFields
<1> QED
  BY <1>1, <1>2

(* The sentences passed by a round that took a statement, or did not.      *)
LEMMA RoundSentences ==
    ASSUME TypeOK, tokens[cursor] \in StatementKind,
           NEW p, Reached(p, Length(cursor))
    PROVE  /\ cursor < p.cursor /\ p.cursor \in 1 .. Len(tokens)
           /\ p.diags.nerrs = diags.nerrs =>
                /\ cursor \in Sentences
                /\ p.cursor = cursor + Length(cursor)
                /\ p.got = [k \in 1 .. Length(cursor) |-> cursor + k - 1]
           /\ p.diags.nerrs # diags.nerrs => cursor \notin Sentences
           /\ \A i \in Sentences : i < p.cursor => i <= cursor
<1>1. /\ cursor \in 1 .. Len(tokens) /\ Len(tokens) \in Nat
      /\ Length(cursor) \in Nat /\ Length(cursor) >= 2
      /\ p.cursor \in 1 .. Len(tokens) /\ p.got \in Seq(0 .. Len(tokens))
  BY ShapeInside DEF TypeOK, TokenLists, Length, Reached, Parsers
<1>2. cursor < p.cursor
  BY <1>1 DEF Reached
<1>3. ASSUME p.diags.nerrs = diags.nerrs
      PROVE  /\ cursor \in Sentences
             /\ p.cursor = cursor + Length(cursor)
             /\ p.got = [k \in 1 .. Length(cursor) |-> cursor + k - 1]
  <2>1. /\ p.cursor = cursor + Length(cursor) /\ Len(p.got) = Length(cursor)
        /\ \A j \in 1 .. Length(cursor) : Fits(cursor, j) /\ p.got[j] = cursor + j - 1
    BY <1>3 DEF Reached
  <2>2. cursor \in Sentences
    BY <1>1, <2>1 DEF Sentences, Starts
  <2>3. p.got = [k \in 1 .. Length(cursor) |-> cursor + k - 1]
    <3> DEFINE got == p.got
               L == Length(cursor)
    <3>1. /\ got \in Seq(0 .. Len(tokens)) /\ Len(got) = L
          /\ \A j \in 1 .. L : got[j] = cursor + j - 1
      BY <1>1, <2>1
    <3> HIDE DEF got, L
    <3>2. got \in [1 .. L -> 0 .. Len(tokens)]
      BY <3>1, LenProperties
    <3>3. got = [k \in 1 .. L |-> cursor + k - 1]
      BY <3>1, <3>2
    <3> QED
      BY <3>3 DEF got, L
  <2> QED
    BY <2>1, <2>2, <2>3
<1>4. p.diags.nerrs # diags.nerrs => cursor \notin Sentences
  BY DEF Reached, Sentences
<1>5. \A i \in Sentences : i < p.cursor => i <= cursor
  <2>1. \A i \in cursor + 1 .. p.cursor - 1 : tokens[i] \notin StatementKind
    BY DEF Reached
  <2>2. \A i \in Sentences : i \in 1 .. Len(tokens) /\ tokens[i] \in StatementKind
    BY DEF Sentences, Starts
  <2> QED
    BY <1>1, <2>1, <2>2, SMTT(30)
<1> QED
  BY <1>1, <1>2, <1>3, <1>4, <1>5

(* A step that changes neither the statements nor passes a sentence.       *)
LEMMA NothingParsed ==
    ASSUME TypeOK, ParsedExactly, PassedWhole,
           tokens' = tokens, stmts' = stmts, cursor' \in 1 .. Len(tokens),
           cursor <= cursor', \A i \in Sentences : i < cursor' => i < cursor
    PROVE  ParsedExactly' /\ PassedWhole'
<1>1. Sentences' = Sentences /\ \A i : Length(i)' = Length(i)
  BY GrammarFixed
<1>2. /\ cursor \in Nat /\ cursor' \in Nat
      /\ \A i \in Sentences : i \in Nat /\ Length(i) \in Nat
  BY ShapeInside DEF TypeOK, Sentences, Starts, Length
<1>3. {i \in Sentences : i < cursor'} = {i \in Sentences : i < cursor}
  BY <1>2
<1>4. ParsedExactly'
  BY <1>1, <1>3 DEF ParsedExactly
<1>5. PassedWhole'
  BY <1>1, <1>2 DEF PassedWhole
<1> QED
  BY <1>4, <1>5

(* A statement that was accepted is the next sentence.                     *)
LEMMA AcceptKeeps ==
    ASSUME IInv, AcceptStmt
    PROVE  IInv'
<1> DEFINE p == ParseStmt(Parser)
           stmt == [kind |-> tokens[cursor], toks |-> p.got]
           L == Length(cursor)
<1>1. TypeOK /\ ParsedExactly /\ PassedWhole /\ ErrorsSoFar
  BY DEF IInv
<1>2. /\ pc = "statement" /\ ParserPeek(Parser) # "eof" /\ from' = cursor
      /\ p.diags.nerrs = diags.nerrs
      /\ stmts' = Append(stmts, stmt) /\ cursor' = p.cursor /\ diags' = p.diags
      /\ tokens' = tokens /\ pc' = pc /\ node' = node
  BY DEF AcceptStmt, BeginRound, ParserPeek, Parser
<1> HIDE DEF p
<1>3. diags.nerrs \in Nat /\ p \in Parsers /\ tokens[cursor] \in StatementKind /\ Reached(p, L)
  BY <1>1, <1>2, DiagsTyped, ParseStmtType DEF p
<1>4. /\ cursor < p.cursor /\ p.cursor \in 1 .. Len(tokens)
      /\ cursor \in Sentences /\ p.cursor = cursor + L
      /\ p.got = [k \in 1 .. L |-> cursor + k - 1]
      /\ \A i \in Sentences : i < p.cursor => i <= cursor
  BY <1>1, <1>2, <1>3, RoundSentences
<1>5. /\ cursor \in 1 .. Len(tokens) /\ Len(tokens) \in Nat /\ L \in Nat /\ L >= 2
      /\ stmts \in Seq(Statement) /\ Len(stmts) \in Nat /\ node \in 1 .. Len(stmts) + 1
      /\ \A i \in Sentences : i \in Nat /\ Length(i) \in Nat
  BY <1>1, <1>3, ShapeInside DEF TypeOK, TokenLists, Length, Sentences, Starts
<1>6. Sentences' = Sentences /\ \A i : Length(i)' = Length(i) /\ (InSentence(i)' <=> InSentence(i))
  BY <1>2, GrammarFixed
<1>7. stmt.toks[1] = cursor /\ stmt.kind = tokens[cursor] /\ stmt.toks = p.got
  BY <1>4, <1>5
<1>8. stmt \in Statement
  BY <1>3 DEF Statement, Parsers
<1> HIDE DEF stmt
<1>9. /\ stmts' \in Seq(Statement) /\ Len(stmts') = Len(stmts) + 1
      /\ stmts'[Len(stmts) + 1] = stmt
      /\ \A n \in 1 .. Len(stmts) : stmts'[n] = stmts[n]
  BY <1>2, <1>5, <1>8
<1>10. TypeOK'
  <2>1. /\ tokens' \in TokenLists /\ cursor' \in 1 .. Len(tokens') /\ from' \in 0 .. Len(tokens')
        /\ pc' \in {"statement", "synchronize", "check", "done"}
    BY <1>1, <1>2, <1>4, <1>5 DEF TypeOK
  <2>2. diags' \in Stores(Entries', {DiagsCap})
    BY <1>2, <1>3 DEF Parsers, Entries
  <2>3. stmts' \in Seq(Statement')
    BY <1>2, <1>9 DEF Statement
  <2>4. node' \in 1 .. Len(stmts') + 1
    BY <1>2, <1>5, <1>9
  <2> QED
    BY <2>1, <2>2, <2>3, <2>4 DEF TypeOK, Stores, Entries
<1>11. ParsedExactly'
  <2> DEFINE N == Len(stmts)
             First(n) == stmts[n].toks[1]
             First2(n) == stmts'[n].toks[1]
             c == p.cursor
  <2>1. /\ {First(n) : n \in 1 .. N} = {i \in Sentences : i < cursor}
        /\ \A n, m \in 1 .. N : n < m => First(n) < First(m)
        /\ \A n \in 1 .. N : /\ stmts[n].kind = tokens[First(n)]
                             /\ stmts[n].toks =
                                  [k \in 1 .. Length(First(n)) |-> First(n) + k - 1]
    BY <1>1 DEF ParsedExactly
  <2>2. N \in Nat /\ cursor \in Nat /\ c \in Nat /\ \A i \in Sentences : i \in Nat
    BY <1>4, <1>5
  <2>3. cursor < c /\ cursor \in Sentences /\ \A i \in Sentences : i < c => i <= cursor
    BY <1>4
  <2>4. First2(N + 1) = cursor /\ \A n \in 1 .. N : First2(n) = First(n)
    BY <1>7, <1>9
  <2>5. 1 .. Len(stmts') = 1 .. N + 1
    BY <1>9
  <2>6. /\ stmts'[N + 1].kind = tokens[cursor]
        /\ stmts'[N + 1].toks = [k \in 1 .. Length(cursor) |-> cursor + k - 1]
    BY <1>4, <1>7, <1>9
  <2>7. \A n \in 1 .. N : stmts'[n] = stmts[n]
    BY <1>9
  <2> HIDE DEF N, First, First2, c
  <2>8. {First2(n) : n \in 1 .. N + 1} = {i \in Sentences : i < c}
    <3>1. {First2(n) : n \in 1 .. N + 1} = {First(n) : n \in 1 .. N} \cup {cursor}
      <4>1. 1 .. N + 1 = (1 .. N) \cup {N + 1}
        BY <2>2
      <4>2. {First2(n) : n \in (1 .. N) \cup {N + 1}} =
              {First2(n) : n \in 1 .. N} \cup {First2(N + 1)}
        OBVIOUS
      <4>3. {First2(n) : n \in 1 .. N} = {First(n) : n \in 1 .. N}
        BY <2>4
      <4> QED
        BY <2>4, <4>1, <4>2, <4>3
    <3>2. {i \in Sentences : i < cursor} \cup {cursor} = {i \in Sentences : i < c}
      <4>1. \A i \in Sentences : i < c <=> i < cursor \/ i = cursor
        BY <2>2, <2>3
      <4> QED
        BY <2>3, <4>1, Zenon
    <3> QED
      BY <2>1, <3>1, <3>2
  <2>9. ASSUME NEW n \in 1 .. N + 1, NEW m \in 1 .. N + 1, n < m
        PROVE  First2(n) < First2(m)
    <3>1. n \in 1 .. N /\ First2(n) = First(n)
      BY <2>2, <2>4, <2>9
    <3>2. CASE m = N + 1
      <4>1. First(n) \in {i \in Sentences : i < cursor}
        BY <2>1, <3>1
      <4> QED
        BY <2>4, <3>1, <3>2, <4>1
    <3>3. CASE m # N + 1
      <4>1. m \in 1 .. N
        BY <2>2, <3>3
      <4> QED
        BY <2>1, <2>4, <2>9, <3>1, <4>1
    <3> QED
      BY <3>2, <3>3
  <2>10. ASSUME NEW n \in 1 .. N + 1
         PROVE  /\ stmts'[n].kind = tokens[First2(n)]
                /\ stmts'[n].toks = [k \in 1 .. Length(First2(n)) |-> First2(n) + k - 1]
    <3>1. CASE n \in 1 .. N
      <4>1. First2(n) = First(n) /\ stmts'[n] = stmts[n]
        BY <2>4, <2>7, <3>1
      <4> QED
        BY <2>1, <3>1, <4>1
    <3>2. CASE n = N + 1
      BY <2>4, <2>6, <3>2
    <3> QED
      BY <2>2, <3>1, <3>2
  <2>11. c = cursor' /\ tokens' = tokens
    BY <1>2 DEF c
  <2> QED
    BY <1>6, <2>5, <2>8, <2>9, <2>10, <2>11 DEF ParsedExactly, Length, First2
<1>12. PassedWhole'
  <2>1. ASSUME NEW i \in Sentences, i < p.cursor
        PROVE  i + Length(i) <= p.cursor
    <3>1. CASE i = cursor
      BY <1>4, <1>5, <3>1
    <3>2. CASE i < cursor
      BY <1>1, <1>4, <1>5, <3>2 DEF PassedWhole
    <3> QED
      BY <1>4, <1>5, <2>1, <3>1, <3>2
  <2> QED
    BY <1>2, <1>6, <2>1 DEF PassedWhole
<1>13. ErrorsSoFar'
  <2>1. ASSUME diags.nerrs = 0, NEW j \in 1 .. p.cursor - 1
        PROVE  InSentence(j)
    <3>1. CASE j < cursor
      BY <1>1, <1>5, <2>1, <3>1 DEF ErrorsSoFar
    <3>2. CASE j >= cursor
      BY <1>4, <1>5, <3>2 DEF InSentence, L
    <3> QED
      BY <1>5, <3>1, <3>2
  <2>2. diags.nerrs # 0 => \E j \in 1 .. Len(tokens) - 1 : ~ InSentence(j)
    BY <1>1 DEF ErrorsSoFar
  <2> QED
    BY <1>2, <1>6, <2>1, <2>2 DEF ErrorsSoFar
<1>14. Progress' /\ RecoveryMoves' /\ LoopEndsAtEOF'
  BY <1>2, <1>4 DEF Progress, RecoveryMoves, LoopEndsAtEOF
<1> QED
  BY <1>10, <1>11, <1>12, <1>13, <1>14 DEF IInv

(* A statement that was rejected is no sentence, and none was passed with  *)
(* it.                                                                     *)
LEMMA RejectKeeps ==
    ASSUME IInv, RejectStmt
    PROVE  IInv'
<1> DEFINE p == ParseStmt(Parser)
<1>1. TypeOK /\ ParsedExactly /\ PassedWhole /\ ErrorsSoFar
  BY DEF IInv
<1>2. /\ pc = "statement" /\ ParserPeek(Parser) # "eof" /\ from' = cursor
      /\ p.diags.nerrs # diags.nerrs
      /\ stmts' = stmts /\ cursor' = p.cursor /\ diags' = p.diags
      /\ tokens' = tokens /\ pc' = "synchronize" /\ node' = node
  BY DEF RejectStmt, BeginRound
<1>3. tokens[cursor] # "eof"
  BY <1>2 DEF ParserPeek, Parser
<1> HIDE DEF p
<1>4. /\ p \in Parsers /\ diags.nerrs \in Nat
      /\ tokens[cursor] \in StatementKind => Reached(p, Length(cursor))
      /\ tokens[cursor] \notin StatementKind =>
           p.cursor = cursor /\ p.diags.nerrs = diags.nerrs + 1
  BY <1>1, <1>2, DiagsTyped, ParseStmtType DEF p
<1>5. /\ cursor \in 1 .. Len(tokens) /\ Len(tokens) \in Nat
      /\ p.cursor \in 1 .. Len(tokens) /\ p.diags.nerrs \in Nat
      /\ \A i \in Sentences : i \in Nat /\ tokens[i] \in StatementKind
  BY <1>1, <1>4, SMTT(30) DEF TypeOK, TokenLists, Parsers, Stores, Sentences, Starts
<1>6. /\ cursor \notin Sentences /\ cursor <= p.cursor
      /\ \A i \in Sentences : i < p.cursor => i < cursor
      /\ cursor < p.cursor \/ tokens[cursor] \notin StatementKind
  <2>1. CASE tokens[cursor] \in StatementKind
    <3>1. /\ cursor < p.cursor /\ cursor \notin Sentences
          /\ \A i \in Sentences : i < p.cursor => i <= cursor
      BY <1>1, <1>2, <1>4, <2>1, RoundSentences
    <3> QED
      BY <1>5, <3>1
  <2>2. CASE tokens[cursor] \notin StatementKind
    BY <1>4, <1>5, <2>2
  <2> QED
    BY <2>1, <2>2
<1>7. cursor \in 1 .. Len(tokens) - 1 /\ ~ InSentence(cursor)
  <2>1. cursor \in 1 .. Len(tokens) - 1
    BY <1>1, <1>3, <1>5, Successor
  <2>2. CASE tokens[cursor] \in StatementKind
    BY <1>1, <1>5, <1>6, <2>2, KeywordInSentence
  <2>3. CASE tokens[cursor] \notin StatementKind
    <3>1. \A i \in Sentences : Length(i) \in Nat
      BY <1>5, ShapeInside DEF Length
    <3>2. \A i \in Sentences : i < cursor => i + Length(i) <= cursor
      BY <1>1 DEF PassedWhole
    <3>3. ASSUME NEW i \in Sentences, cursor \in i .. i + Length(i) - 1
          PROVE  FALSE
      <4>1. i \in Nat /\ Length(i) \in Nat /\ cursor \in Nat /\ i # cursor
        BY <1>5, <1>6, <3>1
      <4>2. i < cursor
        BY <3>3, <4>1
      <4>3. i + Length(i) <= cursor
        BY <3>2, <4>2
      <4> QED
        BY <3>3, <4>1, <4>3
    <3> QED
      BY <2>1, <3>3 DEF InSentence
  <2> QED
    BY <2>1, <2>2, <2>3
<1>8. TypeOK'
  <2>1. diags' \in Stores(Entries', {DiagsCap})
    BY <1>2, <1>4 DEF Parsers, Entries
  <2>2. stmts' \in Seq(Statement')
    BY <1>1, <1>2 DEF TypeOK, Statement
  <2> QED
    BY <1>1, <1>2, <1>5, <2>1, <2>2 DEF TypeOK, Stores, Entries
<1>9. ParsedExactly' /\ PassedWhole'
  BY <1>1, <1>2, <1>5, <1>6, NothingParsed
<1>10. p.diags.nerrs # 0
  <2>1. CASE tokens[cursor] \in StatementKind
    BY <1>2, <1>4, <1>5, <2>1 DEF Reached
  <2>2. CASE tokens[cursor] \notin StatementKind
    BY <1>4, <2>2
  <2> QED
    BY <2>1, <2>2
<1>11. ErrorsSoFar'
  <2>1. \A j : InSentence(j)' <=> InSentence(j)
    BY <1>2, GrammarFixed
  <2> QED
    BY <1>2, <1>7, <1>10, <2>1 DEF ErrorsSoFar
<1>12. Progress' /\ RecoveryMoves' /\ LoopEndsAtEOF'
  <2>1. cursor = p.cursor \/ cursor < p.cursor
    BY <1>5, <1>6
  <2> QED
    BY <1>2, <1>3, <1>5, <1>6, <2>1 DEF Progress, RecoveryMoves, LoopEndsAtEOF
<1> QED
  BY <1>8, <1>9, <1>11, <1>12 DEF IInv

(* Recovery passes no sentence.                                            *)
LEMMA SkipKeeps ==
    ASSUME IInv, StopBehindSemicolon \/ SkipToken
    PROVE  IInv'
<1>1. TypeOK /\ ParsedExactly /\ PassedWhole /\ ErrorsSoFar /\ RecoveryMoves
  BY DEF IInv
<1>2. tokens[cursor] \notin StatementKind \cup {"eof"}
  BY DEF StopBehindSemicolon, SkipToken, AtFreshStart, ParserPeek, Parser,
         stmtStartingKeywords, StatementKind
<1>3. /\ pc = "synchronize" /\ pc' \in {"statement", "synchronize"}
      /\ cursor' = cursor + 1 /\ tokens' = tokens /\ stmts' = stmts
      /\ diags' = diags /\ node' = node /\ from' = from
  BY <1>2 DEF StopBehindSemicolon, SkipToken, ParserAdvance, ParserPeek, Parser
<1>4. /\ cursor \in 1 .. Len(tokens) /\ Len(tokens) \in Nat /\ from \in 0 .. Len(tokens)
      /\ \A i \in Sentences : i \in Nat /\ tokens[i] \in StatementKind
  BY <1>1 DEF TypeOK, TokenLists, Sentences, Starts
<1>5. cursor + 1 \in 1 .. Len(tokens)
  BY <1>1, <1>2, <1>4, Successor
<1>6. TypeOK'
  <2>1. diags' \in [entries : Seq([severity : Severity, at : 1 .. Len(tokens')]),
                    cap : Nat, max : {DiagsCap}, nerrs : Nat, nwarnings : Nat]
    BY <1>1, <1>3 DEF TypeOK
  <2>2. stmts' \in Seq(Statement')
    BY <1>1, <1>3 DEF TypeOK, Statement
  <2> QED
    BY <1>1, <1>3, <1>5, <2>1, <2>2 DEF TypeOK
<1>7. ParsedExactly' /\ PassedWhole'
  <2>1. \A i \in Sentences : i < cursor + 1 => i < cursor
    BY <1>2, <1>4
  <2> QED
    BY <1>1, <1>3, <1>4, <1>5, <2>1, NothingParsed
<1>8. ErrorsSoFar'
  <2>1. \A j : InSentence(j)' <=> InSentence(j)
    BY <1>3, GrammarFixed
  <2> QED
    BY <1>1, <1>3, <2>1 DEF ErrorsSoFar
<1>9. Progress' /\ RecoveryMoves' /\ LoopEndsAtEOF'
  BY <1>1, <1>3, <1>4 DEF Progress, RecoveryMoves, LoopEndsAtEOF
<1> QED
  BY <1>6, <1>7, <1>8, <1>9 DEF IInv

(* The steps that only change pc.                                          *)
LEMMA MovePcKeeps ==
    ASSUME IInv, StopBefore \/ EndOfTokens \/ Return
    PROVE  IInv'
<1>1. TypeOK /\ ParsedExactly /\ Progress /\ PassedWhole /\ ErrorsSoFar /\ RecoveryMoves
  BY DEF IInv
<1>2. /\ cursor' = cursor /\ tokens' = tokens /\ stmts' = stmts
      /\ diags' = diags /\ node' = node /\ from' = from
  BY DEF StopBefore, EndOfTokens, Return
<1>3. TypeOK'
  BY <1>1, <1>2 DEF TypeOK, Statement, StopBefore, EndOfTokens, Return
<1>4. cursor \in 1 .. Len(tokens) /\ Len(tokens) \in Nat
  BY <1>1 DEF TypeOK, TokenLists
<1>5. ParsedExactly' /\ PassedWhole'
  BY <1>1, <1>2, <1>4, NothingParsed
<1>6. ErrorsSoFar'
  <2>1. \A j : InSentence(j)' <=> InSentence(j)
    BY <1>2, GrammarFixed
  <2>2. pc' # "synchronize"
    BY DEF StopBefore, EndOfTokens, Return
  <2> QED
    BY <1>1, <1>2, <2>1, <2>2 DEF ErrorsSoFar
<1>7. CASE StopBefore
  <2>1. tokens[cursor] \in StatementKind \cup {"eof"} /\ pc = "synchronize" /\ pc' = "statement"
    BY <1>7 DEF StopBefore, AtFreshStart, ParserPeek, Parser, stmtStartingKeywords, StatementKind
  <2>2. Progress' /\ RecoveryMoves' /\ LoopEndsAtEOF'
    BY <1>1, <1>2, <2>1 DEF Progress, RecoveryMoves, LoopEndsAtEOF
  <2> QED
    BY <1>3, <1>5, <1>6, <2>2 DEF IInv
<1>8. CASE EndOfTokens
  <2>1. tokens[cursor] = "eof" /\ pc' = "check"
    BY <1>8 DEF EndOfTokens, ParserPeek, Parser
  <2>2. Progress' /\ RecoveryMoves' /\ LoopEndsAtEOF'
    BY <1>2, <2>1 DEF Progress, RecoveryMoves, LoopEndsAtEOF
  <2> QED
    BY <1>3, <1>5, <1>6, <2>2 DEF IInv
<1>9. CASE Return
  <2>1. Progress' /\ RecoveryMoves' /\ LoopEndsAtEOF'
    BY <1>2, <1>9 DEF Return, Progress, RecoveryMoves, LoopEndsAtEOF, IInv
  <2> QED
    BY <1>3, <1>5, <1>6, <2>1 DEF IInv
<1> QED
  BY <1>7, <1>8, <1>9

(* Warnings are no errors.                                                 *)
LEMMA CheckKeeps ==
    ASSUME IInv, CheckNode
    PROVE  IInv'
<1>1. TypeOK /\ ParsedExactly /\ PassedWhole /\ ErrorsSoFar /\ LoopEndsAtEOF
  BY DEF IInv
<1>2. /\ pc = "check" /\ node <= Len(stmts) /\ node' = node + 1
      /\ cursor' = cursor /\ tokens' = tokens /\ stmts' = stmts
      /\ pc' = pc /\ from' = from
      /\ diags' = IF EmptyBody(node) THEN DiagsPush(diags, "warning", stmts[node].toks[1])
                                     ELSE diags
  BY DEF CheckNode
<1>3. /\ cursor \in 1 .. Len(tokens) /\ Len(tokens) \in Nat
      /\ node \in 1 .. Len(stmts) + 1 /\ Len(stmts) \in Nat
  BY <1>1 DEF TypeOK, TokenLists
<1>4. stmts[node].toks[1] \in 1 .. Len(tokens)
  <2>1. node \in 1 .. Len(stmts)
    BY <1>2, <1>3
  <2>2. stmts[node].toks[1] \in {i \in Sentences : i < cursor}
    BY <1>1, <2>1 DEF ParsedExactly
  <2> QED
    BY <2>2 DEF Sentences, Starts
<1>5. diags' \in Stores(Entries, {DiagsCap}) /\ diags'.nerrs = diags.nerrs
  <2>1. diags \in Stores(Entries, {DiagsCap})
    BY <1>1, DiagsTyped
  <2> DEFINE pushed == DiagsPush(diags, "warning", stmts[node].toks[1])
  <2>2. pushed \in Stores(Entries, {DiagsCap}) /\ pushed.nerrs = diags.nerrs
    BY <1>1, <1>4, <2>1, PushWarning
  <2>3. diags' = pushed \/ diags' = diags
    BY <1>2
  <2> HIDE DEF pushed
  <2> QED
    BY <2>1, <2>2, <2>3
<1>6. TypeOK'
  <2>1. diags' \in Stores(Entries', {DiagsCap})
    BY <1>2, <1>5 DEF Entries
  <2>2. stmts' \in Seq(Statement')
    BY <1>1, <1>2 DEF TypeOK, Statement
  <2>3. node' \in 1 .. Len(stmts') + 1
    BY <1>2, <1>3
  <2> QED
    BY <1>1, <1>2, <2>1, <2>2, <2>3 DEF TypeOK, Stores, Entries
<1>7. ParsedExactly' /\ PassedWhole'
  BY <1>1, <1>2, <1>3, NothingParsed
<1>8. ErrorsSoFar'
  <2>1. \A j : InSentence(j)' <=> InSentence(j)
    BY <1>2, GrammarFixed
  <2> QED
    BY <1>1, <1>2, <1>5, <2>1 DEF ErrorsSoFar
<1>9. Progress' /\ RecoveryMoves' /\ LoopEndsAtEOF'
  BY <1>1, <1>2 DEF Progress, RecoveryMoves, LoopEndsAtEOF
<1> QED
  BY <1>6, <1>7, <1>8, <1>9 DEF IInv

(* So does a step that changes nothing.                                    *)
LEMMA StutterKeeps ==
    ASSUME IInv, UNCHANGED vars
    PROVE  IInv'
<1>1. /\ cursor' = cursor /\ tokens' = tokens /\ stmts' = stmts /\ pc' = pc
      /\ diags' = diags /\ node' = node /\ from' = from
  BY DEF vars
<1>2. TypeOK /\ ParsedExactly /\ PassedWhole
  BY DEF IInv
<1>3. TypeOK'
  BY <1>1, <1>2 DEF TypeOK, Statement
<1>4. cursor \in 1 .. Len(tokens) /\ Len(tokens) \in Nat
  BY <1>2 DEF TypeOK, TokenLists
<1>5. ParsedExactly' /\ PassedWhole'
  BY <1>1, <1>2, <1>4, NothingParsed
<1>6. \A j : InSentence(j)' <=> InSentence(j)
  BY <1>1, GrammarFixed
<1>7. ErrorsSoFar'
  BY <1>1, <1>6 DEF IInv, ErrorsSoFar
<1>8. Progress' /\ RecoveryMoves' /\ LoopEndsAtEOF'
  BY <1>1 DEF IInv, Progress, RecoveryMoves, LoopEndsAtEOF
<1> QED
  BY <1>3, <1>5, <1>7, <1>8 DEF IInv

(* The inductive invariant holds in every reachable state of Parse.        *)
THEOREM Invariance == Spec => []IInv
<1>1. Init => IInv
  BY InitInvariant
<1>2. IInv /\ [Next]_vars => IInv'
  <2> SUFFICES ASSUME IInv, [Next]_vars PROVE IInv'
    OBVIOUS
  <2>1. CASE AcceptStmt
    BY <2>1, AcceptKeeps
  <2>2. CASE RejectStmt
    BY <2>2, RejectKeeps
  <2>3. CASE StopBehindSemicolon \/ SkipToken
    BY <2>3, SkipKeeps
  <2>4. CASE StopBefore \/ EndOfTokens \/ Return
    BY <2>4, MovePcKeeps
  <2>5. CASE CheckNode
    BY <2>5, CheckKeeps
  <2>6. CASE UNCHANGED vars
    BY <2>6, StutterKeeps
  <2> QED
    BY <2>1, <2>2, <2>3, <2>4, <2>5, <2>6 DEF Next
<1> QED
  BY <1>1, <1>2, PTL DEF Spec

(* The cursor stays on the token list whatever is parsed, and what the     *)
(* store and the statement list hold points into it.                       *)
THEOREM TypeCorrect == Spec => []TypeOK
BY Invariance, PTL DEF IInv

(* Parse keeps exactly the well-formed statements of every token list.     *)
THEOREM KeepsExactlyTheStatements == Spec => []ParsedExactly
BY Invariance, PTL DEF IInv

(* Every round of Parse's loop consumes a token.                           *)
THEOREM RoundsAdvance == Spec => []Progress
BY Invariance, PTL DEF IInv

(* When Parse is through, its error count is zero exactly when the token   *)
(* list is nothing but statements, whatever the store has dropped.         *)
THEOREM GateIsExact == Spec => []ErrorGate
<1>1. IInv => ErrorGate
  <2> SUFFICES ASSUME IInv, pc \in {"check", "done"}
               PROVE  diags.nerrs = 0 <=> \A j \in 1 .. Len(tokens) - 1 : InSentence(j)
    BY DEF ErrorGate
  <2>1. TypeOK /\ ErrorsSoFar /\ tokens[cursor] = "eof"
    BY DEF IInv, LoopEndsAtEOF
  <2>2. cursor = Len(tokens)
    BY <2>1 DEF TypeOK, TokenLists
  <2> QED
    BY <2>1, <2>2 DEF ErrorsSoFar
<1> QED
  BY <1>1, Invariance, PTL

-----------------------------------------------------------------------------
(* What the diagnostics say.                                               *)

(* Nothing that was pushed into the store d was dropped.                   *)
Complete(d) == DiagsCap = 0 \/ d.nerrs + d.nwarnings <= DiagsCap

Ats(d, severity) ==
    {d.entries[n].at : n \in {m \in 1 .. Len(d.entries) : d.entries[m].severity = severity}}

(* Until then it holds as many entries as were counted.                    *)
Counting(d) == Complete(d) => Len(d.entries) = d.nerrs + d.nwarnings

(* The store d2 is d with one diagnostic pushed: at the end of the         *)
(* entries, or only into the counters.                                     *)
Pushed(d, d2, severity, at) ==
    /\ d2 \in Stores(Entries, {DiagsCap}) /\ Counting(d2)
    /\ d2.nerrs = d.nerrs + (IF severity = "warning" THEN 0 ELSE 1)
    /\ d2.nwarnings = d.nwarnings + (IF severity = "warning" THEN 1 ELSE 0)
    /\ Complete(d2) => Complete(d)
    /\ \/ d2.entries = d.entries /\ ~ Complete(d2)
       \/ /\ Len(d2.entries) = Len(d.entries) + 1
          /\ \A n \in 1 .. Len(d.entries) : d2.entries[n] = d.entries[n]
          /\ d2.entries[Len(d.entries) + 1].severity = severity
          /\ d2.entries[Len(d.entries) + 1].at = at

(* The fields of a store.                                                  *)
LEMMA StoreFields ==
    ASSUME TypeOK, NEW d \in Stores(Entries, {DiagsCap})
    PROVE  /\ d.entries \in Seq(Entries) /\ Len(d.entries) \in Nat
           /\ d.nerrs \in Nat /\ d.nwarnings \in Nat /\ d.max = DiagsCap
           /\ DiagsCap \in Nat
           /\ \A n \in 1 .. Len(d.entries) :
                /\ d.entries[n].severity \in Severity
                /\ d.entries[n].at \in 1 .. Len(tokens) /\ d.entries[n].at \in Nat
<1>1. /\ d.entries \in Seq(Entries) /\ Len(d.entries) \in Nat
      /\ d.nerrs \in Nat /\ d.nwarnings \in Nat /\ d.max = DiagsCap
  BY DEF Stores
<1>2. \A n \in 1 .. Len(d.entries) : d.entries[n] \in Entries
  BY <1>1
<1>3. \A n \in 1 .. Len(d.entries) :
         d.entries[n].severity \in Severity /\ d.entries[n].at \in 1 .. Len(tokens)
  BY <1>2 DEF Entries
<1>4. Len(tokens) \in Nat
  BY DEF TypeOK, TokenLists
<1> QED
  BY <1>1, <1>3, <1>4, ParserAssumption

(* A push stores the diagnostic at the end, unless the store is full,      *)
(* and counts it.                                                          *)
LEMMA PushPushes ==
    ASSUME TypeOK, NEW d \in Stores(Entries, {DiagsCap}), Counting(d),
           NEW severity \in Severity, NEW at \in 1 .. Len(tokens)
    PROVE  Pushed(d, DiagsPush(d, severity, at), severity, at)
<1> DEFINE e == [severity |-> severity, at |-> at]
           d2 == DiagsPushImpl(d, e)
<1>1. e \in Entries /\ e.severity = severity /\ e.at = at
  BY DEF Entries
<1>2. {DiagsCap} \subseteq Nat
  BY ParserAssumption
<1>3. DiagsPush(d, severity, at) = d2
  BY DEF DiagsPush
<1> HIDE DEF e
<1>4. /\ d2 \in Stores(Entries, {DiagsCap})
      /\ d2.nerrs = d.nerrs + (IF severity = "warning" THEN 0 ELSE 1)
      /\ d2.nwarnings = d.nwarnings + (IF severity = "warning" THEN 1 ELSE 0)
  BY <1>1, <1>2, DiagsPushType
<1>5. IF AtCapacity(d) THEN d2.entries = d.entries ELSE d2.entries = Append(d.entries, e)
  BY <1>1, <1>2, DiagsPushEntries
<1> HIDE DEF d2
<1>6. /\ d.entries \in Seq(Entries) /\ Len(d.entries) \in Nat
      /\ d.nerrs \in Nat /\ d.nwarnings \in Nat /\ d.max = DiagsCap /\ DiagsCap \in Nat
  BY StoreFields
<1>7. d2.nerrs + d2.nwarnings = d.nerrs + d.nwarnings + 1
  BY <1>4, <1>6
<1>8. Complete(d2) => Complete(d)
  BY <1>6, <1>7 DEF Complete
<1>9. CASE AtCapacity(d)
  <2>1. d2.entries = d.entries /\ DiagsCap > 0 /\ Len(d.entries) >= DiagsCap
    BY <1>5, <1>6, <1>9 DEF AtCapacity
  <2>2. ~ Complete(d2)
    BY <1>6, <1>7, <2>1 DEF Complete, Counting
  <2> QED
    BY <1>3, <1>4, <1>8, <2>1, <2>2 DEF Pushed, Counting
<1>10. CASE ~ AtCapacity(d)
  <2>1. d2.entries = Append(d.entries, e)
    BY <1>5, <1>10
  <2>2. /\ Len(d2.entries) = Len(d.entries) + 1
        /\ \A n \in 1 .. Len(d.entries) : d2.entries[n] = d.entries[n]
        /\ d2.entries[Len(d.entries) + 1] = e
    BY <1>1, <1>6, <2>1
  <2>3. Counting(d2)
    BY <1>6, <1>7, <1>8, <2>2 DEF Counting
  <2> QED
    BY <1>1, <1>3, <1>4, <1>8, <2>2, <2>3 DEF Pushed
<1> QED
  BY <1>9, <1>10

(* Where the stored diagnostics of one severity point to.                  *)
LEMMA PushedAts ==
    ASSUME TypeOK, NEW d \in Stores(Entries, {DiagsCap}), NEW d2,
           NEW severity \in Severity, NEW at, Pushed(d, d2, severity, at), NEW s
    PROVE  /\ Ats(d, s) \subseteq Ats(d2, s)
           /\ Complete(d2) => Ats(d2, s) = Ats(d, s) \cup (IF s = severity THEN {at} ELSE {})
<1>1. Len(d.entries) \in Nat
  BY StoreFields
<1>2. CASE d2.entries = d.entries /\ ~ Complete(d2)
  BY <1>2 DEF Ats
<1>3. CASE /\ Len(d2.entries) = Len(d.entries) + 1
           /\ \A n \in 1 .. Len(d.entries) : d2.entries[n] = d.entries[n]
           /\ d2.entries[Len(d.entries) + 1].severity = severity
           /\ d2.entries[Len(d.entries) + 1].at = at
  <2>1. ASSUME NEW x \in Ats(d, s)
        PROVE  x \in Ats(d2, s)
    <3>1. PICK n \in 1 .. Len(d.entries) : d.entries[n].severity = s /\ x = d.entries[n].at
      BY DEF Ats
    <3>2. n \in 1 .. Len(d2.entries) /\ d2.entries[n] = d.entries[n]
      BY <1>1, <1>3
    <3> QED
      BY <3>1, <3>2 DEF Ats
  <2>2. s = severity => at \in Ats(d2, s)
    <3>1. Len(d.entries) + 1 \in 1 .. Len(d2.entries)
      BY <1>1, <1>3
    <3> QED
      BY <1>3, <3>1 DEF Ats
  <2>3. ASSUME NEW x \in Ats(d2, s)
        PROVE  x \in Ats(d, s) \/ (s = severity /\ x = at)
    <3>1. PICK n \in 1 .. Len(d2.entries) : d2.entries[n].severity = s /\ x = d2.entries[n].at
      BY DEF Ats
    <3>2. CASE n \in 1 .. Len(d.entries)
      BY <1>3, <3>1, <3>2 DEF Ats
    <3>3. CASE n = Len(d.entries) + 1
      BY <1>3, <3>1, <3>3
    <3> QED
      BY <1>1, <1>3, <3>2, <3>3
  <2> QED
    BY <2>1, <2>2, <2>3
<1> QED
  BY <1>2, <1>3 DEF Pushed

(* An error pushed adds its token to those of errors.                      *)
LEMMA ErrorAts ==
    ASSUME TypeOK, NEW d \in Stores(Entries, {DiagsCap}), NEW d2, NEW at,
           Pushed(d, d2, "error", at)
    PROVE  /\ Ats(d, "error") \subseteq Ats(d2, "error")
           /\ Complete(d2) => Ats(d2, "error") = Ats(d, "error") \cup {at}
<1> DEFINE severity == "error"
<1>1. severity \in Severity
  BY DEF Severity
<1>2. Pushed(d, d2, severity, at)
  OBVIOUS
<1> HIDE DEF severity
<1>3. \A s : /\ Ats(d, s) \subseteq Ats(d2, s)
             /\ Complete(d2) =>
                  Ats(d2, s) = Ats(d, s) \cup (IF s = severity THEN {at} ELSE {})
  BY <1>1, <1>2, PushedAts
<1> QED
  BY <1>3 DEF severity

(* A warning pushed adds its token to those of warnings.                   *)
LEMMA WarningAts ==
    ASSUME TypeOK, NEW d \in Stores(Entries, {DiagsCap}), NEW d2, NEW at,
           Pushed(d, d2, "warning", at)
    PROVE  /\ Ats(d, "error") \subseteq Ats(d2, "error")
           /\ Complete(d2) => Ats(d2, "warning") = Ats(d, "warning") \cup {at}
<1> DEFINE severity == "warning"
<1>1. severity \in Severity
  BY DEF Severity
<1>2. Pushed(d, d2, severity, at)
  OBVIOUS
<1> HIDE DEF severity
<1>3. \A s : /\ Ats(d, s) \subseteq Ats(d2, s)
             /\ Complete(d2) =>
                  Ats(d2, s) = Ats(d, s) \cup (IF s = severity THEN {at} ELSE {})
  BY <1>1, <1>2, PushedAts
<1> QED
  BY <1>3 DEF severity

(* While statements are parsed the store holds errors only, in order and   *)
(* none of them ahead of the cursor.                                       *)
Errors(d, limit) ==
    /\ d.nwarnings = 0
    /\ \A n \in 1 .. Len(d.entries) :
         d.entries[n].severity = "error" /\ d.entries[n].at <= limit
    /\ \A n, m \in 1 .. Len(d.entries) : n < m => d.entries[n].at <= d.entries[m].at

(* A later limit holds for the same errors.                                *)
LEMMA ErrorsFarther ==
    ASSUME TypeOK, NEW d \in Stores(Entries, {DiagsCap}),
           NEW a \in Nat, NEW b \in Nat, Errors(d, a), a <= b
    PROVE  Errors(d, b)
<1>1. \A n \in 1 .. Len(d.entries) : d.entries[n].at \in Nat
  BY StoreFields
<1> HIDE DEF Errors
<1>2. \A n \in 1 .. Len(d.entries) :
         d.entries[n].severity = "error" /\ d.entries[n].at <= a
  BY DEF Errors
<1>3. \A n \in 1 .. Len(d.entries) : d.entries[n].at <= b
  BY <1>1, <1>2
<1> QED
  BY <1>2, <1>3, Zenon DEF Errors

(* An error pushed at the limit keeps the errors in order.                 *)
LEMMA ErrorsPushed ==
    ASSUME TypeOK, NEW d \in Stores(Entries, {DiagsCap}), NEW d2,
           NEW at \in 1 .. Len(tokens), Errors(d, at), Pushed(d, d2, "error", at)
    PROVE  Errors(d2, at)
<1>1. Len(d.entries) \in Nat /\ d2.nwarnings = 0 /\ at \in Nat
  BY StoreFields DEF Pushed, Errors, TypeOK, TokenLists
<1>2. CASE d2.entries = d.entries
  BY <1>1, <1>2 DEF Errors
<1>3. CASE /\ Len(d2.entries) = Len(d.entries) + 1
           /\ \A n \in 1 .. Len(d.entries) : d2.entries[n] = d.entries[n]
           /\ d2.entries[Len(d.entries) + 1].severity = "error"
           /\ d2.entries[Len(d.entries) + 1].at = at
  <2> DEFINE N == Len(d.entries) + 1
  <2>1. \A n \in 1 .. N : n = N \/ n \in 1 .. Len(d.entries)
    BY <1>1
  <2>2. ASSUME NEW n \in 1 .. N
        PROVE  d2.entries[n].severity = "error" /\ d2.entries[n].at <= at
    <3>1. CASE n = N
      BY <1>1, <1>3, <3>1
    <3>2. CASE n \in 1 .. Len(d.entries)
      BY <1>3, <3>2 DEF Errors
    <3> QED
      BY <2>1, <3>1, <3>2
  <2>3. ASSUME NEW n \in 1 .. N, NEW m \in 1 .. N, n < m
        PROVE  d2.entries[n].at <= d2.entries[m].at
    <3>1. n \in 1 .. Len(d.entries)
      BY <1>1, <2>1, <2>3
    <3>2. CASE m = N
      BY <1>3, <2>2, <3>2
    <3>3. CASE m \in 1 .. Len(d.entries)
      BY <1>3, <2>3, <3>1, <3>3 DEF Errors
    <3> QED
      BY <2>1, <3>2, <3>3
  <2> QED
    BY <1>1, <1>3, <2>2, <2>3 DEF Errors
<1> QED
  BY <1>2, <1>3 DEF Pushed

(* The parser p after k expectations, as Reached, and what it reported:    *)
(* every error in order, and the first token that did not fit.             *)
FirstMisfit(j) == ~ Fits(cursor, j) /\ \A l \in 1 .. j - 1 : Fits(cursor, l)

Told(p, k) ==
    /\ Reached(p, k)
    /\ Counting(p.diags) /\ Errors(p.diags, p.cursor)
    /\ Complete(p.diags) => Complete(diags)
    /\ Ats(diags, "error") \subseteq Ats(p.diags, "error")
    /\ Complete(p.diags) =>
         \A j \in 1 .. k : FirstMisfit(j) => cursor + j - 1 \in Ats(p.diags, "error")

(* Taking a token changes nothing in the store.                            *)
LEMMA TakeTells ==
    ASSUME TypeOK, NEW p \in Parsers, tokens[p.cursor] # "eof",
           Counting(p.diags), Errors(p.diags, p.cursor)
    PROVE  /\ Take(p).diags = p.diags
           /\ Counting(Take(p).diags) /\ Errors(Take(p).diags, Take(p).cursor)
<1>1. Take(p).cursor = p.cursor + 1 /\ Take(p).diags = p.diags
  BY TakeFields
<1>2. p.cursor \in Nat /\ p.cursor + 1 \in Nat /\ p.diags \in Stores(Entries, {DiagsCap})
  BY DEF Parsers, TypeOK, TokenLists
<1>3. p.cursor <= p.cursor + 1
  BY <1>2
<1>4. Errors(p.diags, p.cursor + 1)
  BY <1>2, <1>3, ErrorsFarther
<1> QED
  BY <1>1, <1>4

(* An unmet expectation reports the token at the cursor.                   *)
LEMMA UnmetTells ==
    ASSUME TypeOK, NEW p \in Parsers, Counting(p.diags), Errors(p.diags, p.cursor)
    PROVE  /\ Counting(Unmet(p).diags) /\ Errors(Unmet(p).diags, Unmet(p).cursor)
           /\ Complete(Unmet(p).diags) => Complete(p.diags)
           /\ Ats(p.diags, "error") \subseteq Ats(Unmet(p).diags, "error")
           /\ Complete(Unmet(p).diags) => p.cursor \in Ats(Unmet(p).diags, "error")
<1>1. p.cursor \in 1 .. Len(tokens) /\ p.diags \in Stores(Entries, {DiagsCap})
  BY DEF Parsers
<1>2. Unmet(p).diags = DiagsPush(p.diags, "error", p.cursor) /\ Unmet(p).cursor = p.cursor
  BY DEF Unmet, Parsers
<1> DEFINE d2 == DiagsPush(p.diags, "error", p.cursor)
<1>3. "error" \in Severity
  BY DEF Severity
<1>4. Pushed(p.diags, d2, "error", p.cursor)
  BY <1>1, <1>3, PushPushes
<1> HIDE DEF d2
<1>5. /\ Ats(p.diags, "error") \subseteq Ats(d2, "error")
      /\ Complete(d2) => Ats(d2, "error") = Ats(p.diags, "error") \cup {p.cursor}
  BY <1>1, <1>4, ErrorAts
<1>6. Errors(d2, p.cursor)
  BY <1>1, <1>4, ErrorsPushed
<1>7. Counting(d2) /\ (Complete(d2) => Complete(p.diags))
  BY <1>4 DEF Pushed
<1> QED
  BY <1>2, <1>5, <1>6, <1>7 DEF d2

(* One expectation of a statement's shape: met, or told of.                *)
LEMMA StepTells ==
    ASSUME TypeOK, tokens[cursor] \in StatementKind,
           NEW k \in 0 .. Length(cursor) - 1, NEW p, Told(p, k),
           NEW S, S = Shape[tokens[cursor]][k + 1]
    PROVE  Told(Step(p, S), k + 1)
<1>1. Reached(p, k) /\ p \in Parsers
  BY DEF Told, Reached
<1>2. Reached(Step(p, S), k + 1)
  BY <1>1, StepReached
<1>3. /\ cursor \in Nat /\ k \in Nat /\ Length(cursor) \in Nat
      /\ k = 0 => S = {tokens[cursor]}
      /\ k > 0 => S \cap (StatementKind \cup {"eof"}) = {}
  <2>1. cursor \in Nat
    BY DEF TypeOK, TokenLists
  <2> QED
    BY <2>1, ShapeInside DEF Length
<1>4. CASE ParserPeek(p) \in S
  <2>1. Step(p, S) = Take(p) /\ tokens[p.cursor] \in S
    BY <1>4 DEF Step, ParserPeek
  <2>2. tokens[p.cursor] # "eof"
    BY <1>3, <2>1 DEF StatementKind
  <2>3. /\ Take(p).diags = p.diags
        /\ Counting(Take(p).diags) /\ Errors(Take(p).diags, Take(p).cursor)
    BY <1>1, <2>2, TakeTells DEF Told
  <2>4. ASSUME Complete(p.diags), NEW j \in 1 .. k + 1, FirstMisfit(j)
        PROVE  cursor + j - 1 \in Ats(p.diags, "error")
    <3>1. CASE j \in 1 .. k
      BY <2>4, <3>1 DEF Told
    <3>2. CASE j = k + 1
      <4>1. p.diags.nerrs = diags.nerrs
        <5>1. ~ \E i \in 1 .. k : ~ Fits(cursor, i)
          BY <2>4, <3>2, <1>3 DEF FirstMisfit
        <5> QED
          BY <1>1, <5>1 DEF Reached
      <4>2. p.cursor = cursor + k
        BY <1>1, <4>1 DEF Reached
      <4>3. p.cursor \in 1 .. Len(tokens) /\ Len(tokens) \in Nat
        BY <1>1 DEF Parsers, TypeOK, TokenLists
      <4>4. Fits(cursor, k + 1)
        BY <1>3, <2>1, <4>2, <4>3 DEF Fits
      <4> QED
        BY <2>4, <3>2, <4>4 DEF FirstMisfit
    <3> QED
      BY <1>3, <3>1, <3>2
  <2> QED
    BY <1>2, <2>1, <2>3, <2>4 DEF Told
<1>5. CASE ParserPeek(p) \notin S
  <2>1. Step(p, S) = Unmet(p)
    BY <1>5 DEF Step
  <2> DEFINE q == Unmet(p)
  <2>2. /\ Counting(q.diags) /\ Errors(q.diags, q.cursor)
        /\ Complete(q.diags) => Complete(p.diags)
        /\ Ats(p.diags, "error") \subseteq Ats(q.diags, "error")
        /\ Complete(q.diags) => p.cursor \in Ats(q.diags, "error")
    BY <1>1, UnmetTells DEF Told
  <2> HIDE DEF q
  <2>3. ASSUME Complete(q.diags), NEW j \in 1 .. k + 1, FirstMisfit(j)
        PROVE  cursor + j - 1 \in Ats(q.diags, "error")
    <3>1. CASE j \in 1 .. k
      BY <2>2, <2>3, <3>1 DEF Told
    <3>2. CASE j = k + 1
      <4>1. p.diags.nerrs = diags.nerrs
        <5>1. ~ \E i \in 1 .. k : ~ Fits(cursor, i)
          BY <2>3, <3>2, <1>3 DEF FirstMisfit
        <5> QED
          BY <1>1, <5>1 DEF Reached
      <4>2. p.cursor = cursor + j - 1
        BY <1>1, <1>3, <3>2, <4>1 DEF Reached
      <4> QED
        BY <2>2, <2>3, <4>2
    <3> QED
      BY <1>3, <3>1, <3>2
  <2>4. /\ Complete(q.diags) => Complete(diags)
        /\ Ats(diags, "error") \subseteq Ats(q.diags, "error")
    BY <2>2 DEF Told
  <2>5. Told(q, k + 1)
    BY <1>2, <2>1, <2>2, <2>3, <2>4, Zenon DEF Told, q
  <2> QED
    BY <2>1, <2>5 DEF q
<1> QED
  BY <1>4, <1>5

(* A whole statement.                                                      *)
LEMMA ParseStmtTold ==
    ASSUME TypeOK, tokens[cursor] \in StatementKind, Counting(diags), Errors(diags, cursor)
    PROVE  Told(ParseStmt(Parser), Length(cursor))
<1> DEFINE R == {x \in Parsers \X Nat : Told(x[1], x[2])}
<1>1. <<Parser, 0>> \in R
  <2>1. Reached(Parser, 0) /\ Parser \in Parsers
    BY StartReached DEF Reached
  <2>2. Parser.diags = diags /\ Parser.cursor = cursor
    BY DEF Parser
  <2>3. Told(Parser, 0)
    BY <2>1, <2>2 DEF Told
  <2> QED
    BY <2>1, <2>3
<1>2. ASSUME NEW k \in 0 .. Length(cursor) - 1, NEW p, <<p, k>> \in R
      PROVE  <<Step(p, Shape[tokens[cursor]][k + 1]), k + 1>> \in R
  <2>1. Told(p, k)
    BY <1>2
  <2>2. Told(Step(p, Shape[tokens[cursor]][k + 1]), k + 1)
    BY <2>1, StepTells
  <2>3. Step(p, Shape[tokens[cursor]][k + 1]) \in Parsers
    BY <2>2 DEF Told, Reached
  <2> QED
    BY <2>2, <2>3
<1> HIDE DEF R
<1>3. <<ParseStmt(Parser), Length(cursor)>> \in R
  BY <1>1, <1>2, ParseStmtSteps
<1> QED
  BY <1>3 DEF R

(* A round of the loop, whatever token it starts at.                       *)
LEMMA RoundTold ==
    ASSUME TypeOK, ParserPeek(Parser) # "eof", Counting(diags), Errors(diags, cursor),
           NEW p, p = ParseStmt(Parser)
    PROVE  /\ Counting(p.diags) /\ Errors(p.diags, p.cursor)
           /\ Complete(p.diags) => Complete(diags)
           /\ Ats(diags, "error") \subseteq Ats(p.diags, "error")
           /\ \A i \in Starts : i < p.cursor =>
                 \/ i < cursor
                 \/ Complete(p.diags) => Misfits(i) \subseteq Ats(p.diags, "error")
<1>1. cursor \in 1 .. Len(tokens) /\ Len(tokens) \in Nat
  BY DEF TypeOK, TokenLists
<1>2. CASE tokens[cursor] \in StatementKind
  <2>1. Told(p, Length(cursor))
    BY <1>2, ParseStmtTold
  <2>2. p.cursor \in Nat /\ \A i \in cursor + 1 .. p.cursor - 1 : tokens[i] \notin StatementKind
    BY <1>1, <2>1 DEF Told, Reached, Parsers
  <2>3. \A i \in Starts : i < p.cursor => i < cursor \/ i = cursor
    BY <1>1, <2>2 DEF Starts
  <2>4. Complete(p.diags) => Misfits(cursor) \subseteq Ats(p.diags, "error")
    BY <2>1 DEF Told, Misfits, FirstMisfit
  <2> QED
    BY <2>1, <2>3, <2>4 DEF Told
<1>3. CASE tokens[cursor] \notin StatementKind
  <2>1. p = Unmet(Parser)
    BY <1>3 DEF ParseStmt, ParserPeek, Parser, StatementKind
  <2>2. Parser \in Parsers /\ Parser.diags = diags /\ Parser.cursor = cursor
    BY StartReached DEF Reached, Parser
  <2>3. /\ Counting(p.diags) /\ Errors(p.diags, p.cursor)
        /\ Complete(p.diags) => Complete(diags)
        /\ Ats(diags, "error") \subseteq Ats(p.diags, "error")
    BY <2>1, <2>2, UnmetTells
  <2>4. p.cursor = cursor
    BY <2>1, <2>2, UnmetFields
  <2>5. \A i \in Starts : i < p.cursor => i < cursor
    BY <2>4
  <2> QED
    BY <2>3, <2>5
<1> QED
  BY <1>2, <1>3

-----------------------------------------------------------------------------

(* The labels that CheckEmptyLabelBodies has warned about.                 *)
Warned == {stmts[m].toks[1] : m \in {k \in 1 .. node - 1 : EmptyBody(k)}}

(* The warnings are those, all of them as long as nothing was dropped.     *)
WarningsSoFar ==
    /\ diags.nwarnings = Cardinality(Warned)
    /\ Complete(diags) => Ats(diags, "warning") = Warned
    /\ \A n \in 1 .. Len(diags.entries) :
          diags.entries[n].severity = "warning" => diags.entries[n].at \in Warned

InLoop == pc \in {"statement", "synchronize"}

ReportInv ==
    /\ Counting(diags)
    /\ BrokenStatementsReported
    /\ InLoop => node = 1 /\ Errors(diags, cursor)
    /\ ~ InLoop => DiagnosticsInOrder /\ WarningsSoFar

(* The properties in terms of Complete and Ats.                            *)
LEMMA SameWords ==
    /\ NothingDropped <=> Complete(diags)
    /\ \A severity : StoredAt(severity) = Ats(diags, severity)
    /\ BrokenStatementsReported <=>
         (Complete(diags) => \A i \in Starts \ Sentences :
                                i < cursor => Misfits(i) \subseteq Ats(diags, "error"))
BY DEF NothingDropped, Complete, StoredAt, Ats, BrokenStatementsReported

(* While statements are parsed there are no warnings.                      *)
LEMMA LoopReport ==
    ASSUME TypeOK, node = 1, Errors(diags, cursor)
    PROVE  DiagnosticsInOrder /\ WarningsSoFar
<1>1. Warned = {}
  BY DEF Warned
<1>2. Cardinality({}) = 0
  BY FS_EmptySet
<1>3. WarningsSoFar
  BY <1>1, <1>2 DEF WarningsSoFar, Errors, Ats
<1> QED
  BY <1>3 DEF Errors, DiagnosticsInOrder

(* What has been reported stays reported.                                  *)
LEMMA BrokenStay ==
    ASSUME TypeOK, BrokenStatementsReported, tokens' = tokens,
           Complete(diags') => Complete(diags),
           Ats(diags, "error") \subseteq Ats(diags', "error"),
           \A i \in Starts \ Sentences : i < cursor' =>
              \/ i < cursor
              \/ Complete(diags') => Misfits(i) \subseteq Ats(diags', "error")
    PROVE  BrokenStatementsReported'
<1>1. /\ Starts' = Starts /\ Sentences' = Sentences /\ \A i : Misfits(i)' = Misfits(i)
  BY DEF Starts, Sentences, Misfits, Length, Fits
<1>2. \A d : Complete(d)' <=> Complete(d)
  BY DEF Complete
<1>3. NothingDropped' <=> Complete(diags')
  BY DEF NothingDropped, Complete
<1>4. StoredAt("error")' = Ats(diags', "error")
  BY DEF StoredAt, Ats
<1>5. ASSUME Complete(diags'), NEW i \in Starts \ Sentences, i < cursor'
      PROVE  Misfits(i) \subseteq Ats(diags', "error")
  <2>1. i < cursor => Misfits(i) \subseteq Ats(diags, "error")
    BY <1>5, SameWords
  <2> QED
    BY <1>5, <2>1
<1> QED
  BY <1>1, <1>3, <1>4, <1>5 DEF BrokenStatementsReported

(* The first state and each step.                                          *)
LEMMA InitReport == Init => ReportInv
<1> SUFFICES ASSUME Init PROVE ReportInv
  OBVIOUS
<1>1. /\ cursor = 1 /\ diags = DiagsInit(DiagsCap) /\ pc = "statement" /\ node = 1
  BY DEF Init
<1>2. diags.nwarnings = 0 /\ diags.nerrs = 0 /\ diags.entries = << >> /\ Len(diags.entries) = 0
  BY <1>1 DEF DiagsInit
<1>3. Counting(diags) /\ Errors(diags, cursor)
  BY <1>2 DEF Counting, Errors
<1>4. BrokenStatementsReported
  BY <1>1 DEF BrokenStatementsReported, Starts
<1> QED
  BY <1>1, <1>3, <1>4 DEF ReportInv, InLoop

(* A round of the loop.                                                    *)
LEMMA RoundReport ==
    ASSUME IInv, ReportInv, AcceptStmt \/ RejectStmt
    PROVE  ReportInv'
<1> DEFINE p == ParseStmt(Parser)
<1>1. /\ pc = "statement" /\ ParserPeek(Parser) # "eof"
      /\ cursor' = p.cursor /\ diags' = p.diags /\ tokens' = tokens /\ node' = node
      /\ pc' \in {"statement", "synchronize"}
  BY DEF AcceptStmt, RejectStmt, BeginRound
<1>2. TypeOK /\ Counting(diags) /\ BrokenStatementsReported
  BY DEF IInv, ReportInv
<1>3. node = 1 /\ Errors(diags, cursor)
  BY <1>1 DEF ReportInv, InLoop
<1>4. /\ Counting(p.diags) /\ Errors(p.diags, p.cursor)
      /\ Complete(p.diags) => Complete(diags)
      /\ Ats(diags, "error") \subseteq Ats(p.diags, "error")
      /\ \A i \in Starts : i < p.cursor =>
            \/ i < cursor
            \/ Complete(p.diags) => Misfits(i) \subseteq Ats(p.diags, "error")
  BY <1>1, <1>2, <1>3, RoundTold
<1> HIDE DEF p
<1>5. BrokenStatementsReported'
  BY <1>1, <1>2, <1>4, BrokenStay
<1>6. Counting(diags)' /\ Errors(diags, cursor)'
  BY <1>1, <1>4 DEF Counting, Complete, Errors
<1> QED
  BY <1>1, <1>3, <1>5, <1>6 DEF ReportInv, InLoop

(* Recovery passes no token that starts a statement.                       *)
LEMMA SkipReport ==
    ASSUME IInv, ReportInv, StopBehindSemicolon \/ SkipToken \/ StopBefore
    PROVE  ReportInv'
<1>1. TypeOK /\ Counting(diags) /\ BrokenStatementsReported
  BY DEF IInv, ReportInv
<1>2. /\ pc = "synchronize" /\ pc' \in {"statement", "synchronize"}
      /\ tokens' = tokens /\ diags' = diags /\ node' = node
      /\ \/ cursor' = cursor
         \/ cursor' = cursor + 1 /\ tokens[cursor] \notin StatementKind
  BY DEF StopBehindSemicolon, SkipToken, StopBefore, AtFreshStart, ParserAdvance, ParserPeek,
     Parser, stmtStartingKeywords, StatementKind
<1>3. node = 1 /\ Errors(diags, cursor)
  BY <1>2 DEF ReportInv, InLoop
<1>4. cursor \in Nat /\ diags \in Stores(Entries, {DiagsCap})
  BY <1>1, DiagsTyped DEF TypeOK, TokenLists
<1>5. \A i \in Starts : i < cursor' => i < cursor
  BY <1>2, <1>4 DEF Starts
<1>6. BrokenStatementsReported'
  <2>1. \A i \in Starts \ Sentences : i < cursor' =>
           \/ i < cursor
           \/ Complete(diags') => Misfits(i) \subseteq Ats(diags', "error")
    BY <1>5
  <2> QED
    BY <1>1, <1>2, <2>1, BrokenStay
<1>7. Errors(diags, cursor')
  <2>1. cursor' \in Nat /\ cursor <= cursor'
    BY <1>2, <1>4
  <2> QED
    BY <1>1, <1>3, <1>4, <2>1, ErrorsFarther
<1>8. Counting(diags)' /\ Errors(diags, cursor)'
  BY <1>1, <1>2, <1>7 DEF Counting, Complete, Errors
<1> QED
  BY <1>2, <1>3, <1>6, <1>8 DEF ReportInv, InLoop

(* A step that moves neither the cursor nor the node and pushes nothing.   *)
LEMMA StillReport ==
    ASSUME IInv, ReportInv,
           UNCHANGED <<tokens, cursor, diags, stmts, node>>, InLoop' => InLoop
    PROVE  ReportInv'
<1>1. TypeOK /\ Counting(diags) /\ BrokenStatementsReported
  BY DEF IInv, ReportInv
<1>2. DiagnosticsInOrder /\ WarningsSoFar
  BY <1>1, LoopReport DEF ReportInv
<1>3. BrokenStatementsReported'
  BY <1>1, BrokenStay
<1>4. Counting(diags)' /\ (Errors(diags, cursor) => Errors(diags, cursor)')
  BY <1>1 DEF Counting, Complete, Errors
<1>5. DiagnosticsInOrder'
  BY <1>2 DEF DiagnosticsInOrder
<1>6. WarningsSoFar'
  <2>1. Warned' = Warned
    BY DEF Warned, EmptyBody
  <2>2. Complete(diags)' <=> Complete(diags)
    BY DEF Complete
  <2>3. Ats(diags, "warning")' = Ats(diags, "warning")
    BY DEF Ats
  <2> QED
    BY <1>2, <2>1, <2>2, <2>3 DEF WarningsSoFar
<1> QED
  BY <1>3, <1>4, <1>5, <1>6 DEF ReportInv

(* One node of CheckEmptyLabelBodies.                                      *)
LEMMA WarnedFinite ==
    ASSUME IInv, ~ InLoop
    PROVE  /\ IsFiniteSet(Warned) /\ Cardinality(Warned) \in Nat
           /\ node <= Len(stmts) =>
                /\ stmts[node].toks[1] \in 1 .. Len(tokens)
                /\ \A x \in Warned : x < stmts[node].toks[1]
<1>1. /\ node \in 1 .. Len(stmts) + 1 /\ Len(stmts) \in Nat /\ Len(tokens) \in Nat
  BY DEF IInv, TypeOK, TokenLists
<1>2. \A n \in 1 .. Len(stmts) : stmts[n].toks[1] \in 1 .. Len(tokens)
  <2>1. ASSUME NEW n \in 1 .. Len(stmts)
        PROVE  stmts[n].toks[1] \in Sentences
    BY DEF IInv, ParsedExactly
  <2> QED
    BY <2>1 DEF Sentences, Starts
<1>3. \A m \in 1 .. node - 1 : m \in 1 .. Len(stmts)
  BY <1>1
<1>4. Warned \subseteq 1 .. Len(tokens)
  BY <1>2, <1>3 DEF Warned
<1>5. IsFiniteSet(Warned) /\ Cardinality(Warned) \in Nat
  <2>1. IsFiniteSet(1 .. Len(tokens))
    BY <1>1, FS_Interval
  <2> QED
    BY <1>4, <2>1, FS_Subset, FS_CardinalityType
<1>6. ASSUME node <= Len(stmts), NEW m \in 1 .. node - 1
      PROVE  stmts[m].toks[1] < stmts[node].toks[1]
  <2>1. m \in 1 .. Len(stmts) /\ node \in 1 .. Len(stmts) /\ m < node
    BY <1>1, <1>6
  <2> QED
    BY <2>1 DEF IInv, ParsedExactly
<1>7. node <= Len(stmts) => node \in 1 .. Len(stmts)
  BY <1>1
<1> QED
  BY <1>2, <1>5, <1>6, <1>7 DEF Warned

(* The order of the diagnostics, when a warning is pushed that points      *)
(* farther than all others.                                                *)
LEMMA WarningInOrder ==
    ASSUME TypeOK, NEW at \in 1 .. Len(tokens), DiagnosticsInOrder,
           Pushed(diags, diags', "warning", at),
           \A n \in 1 .. Len(diags.entries) :
              diags.entries[n].severity = "warning" => diags.entries[n].at < at
    PROVE  DiagnosticsInOrder'
<1>1. /\ Len(diags.entries) \in Nat /\ at \in Nat
      /\ \A n \in 1 .. Len(diags.entries) :
            diags.entries[n].severity \in Severity /\ diags.entries[n].at \in Nat
  <2>1. diags \in Stores(Entries, {DiagsCap})
    BY DiagsTyped
  <2>2. at \in Nat
    BY DEF TypeOK, TokenLists
  <2> QED
    BY <2>1, <2>2, StoreFields
<1>2. CASE diags'.entries = diags.entries
  BY <1>2 DEF DiagnosticsInOrder
<1>3. CASE /\ Len(diags'.entries) = Len(diags.entries) + 1
           /\ \A n \in 1 .. Len(diags.entries) : diags'.entries[n] = diags.entries[n]
           /\ diags'.entries[Len(diags.entries) + 1].severity = "warning"
           /\ diags'.entries[Len(diags.entries) + 1].at = at
  <2> DEFINE N == Len(diags.entries) + 1
             Before(d, e) == IF d.severity = e.severity THEN d.at <= e.at
                                                        ELSE d.severity = "error"
  <2>1. ASSUME NEW n \in 1 .. N, NEW m \in 1 .. N, n < m
        PROVE  Before(diags'.entries[n], diags'.entries[m])
    <3>1. n \in 1 .. Len(diags.entries)
      BY <1>1, <2>1
    <3>2. CASE m \in 1 .. Len(diags.entries)
      <4>1. Before(diags.entries[n], diags.entries[m])
        BY <2>1, <3>1, <3>2 DEF DiagnosticsInOrder
      <4>2. diags'.entries[n] = diags.entries[n] /\ diags'.entries[m] = diags.entries[m]
        BY <1>3, <3>1, <3>2
      <4> HIDE DEF Before
      <4> QED
        BY <4>1, <4>2
    <3>3. CASE m = N
      <4>1. /\ diags'.entries[n] = diags.entries[n]
            /\ diags'.entries[m].severity = "warning" /\ diags'.entries[m].at = at
        BY <1>3, <3>1, <3>3
      <4>2. diags.entries[n].severity \in {"warning", "error"} /\ diags.entries[n].at \in Nat
        BY <1>1, <3>1 DEF Severity
      <4>3. diags.entries[n].severity = "warning" => diags.entries[n].at < at
        BY <3>1
      <4> QED
        BY <1>1, <4>1, <4>2, <4>3
    <3> QED
      BY <1>1, <3>2, <3>3
  <2> HIDE DEF Before
  <2>2. \A n, m \in 1 .. Len(diags'.entries) :
           n < m => Before(diags'.entries[n], diags'.entries[m])
    BY <1>3, <2>1
  <2> QED
    BY <2>2 DEF DiagnosticsInOrder, Before
<1> QED
  BY <1>2, <1>3 DEF Pushed

(* A look at one label warns exactly of an empty body and stays in         *)
(* order.                                                                  *)
LEMMA CheckReport ==
    ASSUME IInv, ReportInv, CheckNode
    PROVE  ReportInv'
<1> DEFINE at == stmts[node].toks[1]
<1>1. /\ pc = "check" /\ pc' = pc /\ node <= Len(stmts) /\ node' = node + 1
      /\ cursor' = cursor /\ tokens' = tokens /\ stmts' = stmts
      /\ diags' = IF EmptyBody(node) THEN DiagsPush(diags, "warning", at) ELSE diags
  BY DEF CheckNode
<1>2. /\ TypeOK /\ Counting(diags) /\ BrokenStatementsReported
      /\ DiagnosticsInOrder /\ WarningsSoFar /\ ~ InLoop /\ ~ InLoop'
  BY <1>1 DEF IInv, ReportInv, InLoop
<1>3. /\ IsFiniteSet(Warned) /\ Cardinality(Warned) \in Nat
      /\ at \in 1 .. Len(tokens) /\ \A x \in Warned : x < at
  BY <1>1, <1>2, WarnedFinite
<1>4. /\ diags \in Stores(Entries, {DiagsCap}) /\ node \in Nat /\ at \in Nat /\ node >= 1
  BY <1>2, <1>3, DiagsTyped, SMTT(30) DEF TypeOK, TokenLists
<1>5. Warned' = Warned \cup (IF EmptyBody(node) THEN {at} ELSE {})
  <2>1. \A k : EmptyBody(k)' <=> EmptyBody(k)
    BY <1>1 DEF EmptyBody
  <2>2. Warned' = {stmts[m].toks[1] : m \in {k \in 1 .. node : EmptyBody(k)}}
    <3>1. 1 .. node' - 1 = 1 .. node
      BY <1>1, <1>4
    <3> QED
      BY <1>1, <2>1, <3>1 DEF Warned
  <2>3. \A k \in 1 .. node : k = node \/ k \in 1 .. node - 1
    BY <1>4
  <2>4. node \in 1 .. node /\ \A k \in 1 .. node - 1 : k \in 1 .. node
    BY <1>4
  <2> QED
    BY <2>2, <2>3, <2>4 DEF Warned
<1>6. \A d : Complete(d)' <=> Complete(d)
  BY DEF Complete
<1>7. CASE ~ EmptyBody(node)
  <2>1. diags' = diags /\ Warned' = Warned
    BY <1>1, <1>5, <1>7
  <2>2. BrokenStatementsReported'
    BY <1>1, <1>2, <2>1, BrokenStay
  <2>3. Counting(diags)' /\ DiagnosticsInOrder'
    BY <1>2, <2>1 DEF Counting, Complete, DiagnosticsInOrder
  <2>4. WarningsSoFar'
    BY <1>2, <2>1 DEF WarningsSoFar, Ats, Complete
  <2> QED
    BY <1>2, <2>2, <2>3, <2>4 DEF ReportInv
<1>8. CASE EmptyBody(node)
  <2>1. diags' = DiagsPush(diags, "warning", at) /\ Warned' = Warned \cup {at}
    BY <1>1, <1>5, <1>8
  <2> HIDE DEF at
  <2>2. "warning" \in Severity
    BY DEF Severity
  <2>3. Pushed(diags, diags', "warning", at)
    BY <1>2, <1>3, <1>4, <2>1, <2>2, PushPushes
  <2>4. /\ Ats(diags, "error") \subseteq Ats(diags', "error")
        /\ Complete(diags') => Ats(diags', "warning") = Ats(diags, "warning") \cup {at}
    BY <1>2, <1>4, <2>3, WarningAts
  <2>5. /\ Counting(diags') /\ (Complete(diags') => Complete(diags))
        /\ diags'.nwarnings = diags.nwarnings + 1
    BY <2>3 DEF Pushed
  <2>6. BrokenStatementsReported'
    BY <1>1, <1>2, <2>4, <2>5, BrokenStay
  <2>7. DiagnosticsInOrder'
    <3>1. \A n \in 1 .. Len(diags.entries) :
             diags.entries[n].severity = "warning" => diags.entries[n].at < at
      BY <1>2, <1>3 DEF WarningsSoFar
    <3> QED
      BY <1>2, <1>3, <2>3, <3>1, WarningInOrder
  <2>8. WarningsSoFar'
    <3>1. diags'.nwarnings = Cardinality(Warned')
      <4>1. at \notin Warned
        BY <1>3, <1>4
      <4>2. Cardinality(Warned \cup {at}) = Cardinality(Warned) + 1
        BY <1>3, <4>1, FS_AddElement
      <4> QED
        BY <1>2, <2>1, <2>5, <4>2 DEF WarningsSoFar
    <3>2. Complete(diags') => Ats(diags', "warning") = Warned'
      BY <1>2, <2>1, <2>4, <2>5 DEF WarningsSoFar
    <3>3. ASSUME NEW n \in 1 .. Len(diags'.entries), diags'.entries[n].severity = "warning"
          PROVE  diags'.entries[n].at \in Warned'
      <4>1. Len(diags.entries) \in Nat
        BY <1>2, <1>4, StoreFields
      <4>2. CASE n \in 1 .. Len(diags.entries) /\ diags'.entries[n] = diags.entries[n]
        BY <1>2, <2>1, <3>3, <4>2 DEF WarningsSoFar
      <4>3. CASE n = Len(diags.entries) + 1 /\ diags'.entries[n].at = at
        BY <2>1, <4>3
      <4> QED
        BY <2>3, <4>1, <4>2, <4>3 DEF Pushed
    <3>4. Ats(diags, "warning")' = Ats(diags', "warning")
      BY DEF Ats
    <3>5. Complete(diags)' <=> Complete(diags')
      BY DEF Complete
    <3> QED
      BY <3>1, <3>2, <3>3, <3>4, <3>5 DEF WarningsSoFar
  <2>9. Counting(diags)'
    BY <2>5 DEF Counting, Complete
  <2> QED
    BY <1>2, <2>6, <2>7, <2>8, <2>9 DEF ReportInv
<1> QED
  BY <1>7, <1>8

(* Every step keeps what the diagnostics say of the tokens and labels      *)
(* passed.                                                                 *)
LEMMA NextReport ==
    ASSUME IInv, ReportInv, [Next]_vars
    PROVE  ReportInv'
<1>1. CASE AcceptStmt \/ RejectStmt
  BY <1>1, RoundReport
<1>2. CASE StopBehindSemicolon \/ SkipToken \/ StopBefore
  BY <1>2, SkipReport
<1>3. CASE EndOfTokens \/ Return \/ UNCHANGED vars
  <2>1. UNCHANGED <<tokens, cursor, diags, stmts, node>> /\ (InLoop' => InLoop)
    BY <1>3 DEF EndOfTokens, Return, vars, InLoop
  <2> QED
    BY <2>1, StillReport
<1>4. CASE CheckNode
  BY <1>4, CheckReport
<1> QED
  BY <1>1, <1>2, <1>3, <1>4 DEF Next

-----------------------------------------------------------------------------

(* CheckEmptyLabelBodies finds the empty labels: a label has an empty body *)
(* in the statement list if and only if the text has no instruction        *)
(* between it and the next label.                                          *)
LEMMA EmptyBodiesAreEmptyLabels ==
    ASSUME IInv, pc = "done"
    PROVE  {stmts[n].toks[1] : n \in {k \in 1 .. Len(stmts) : EmptyBody(k)}} = EmptyLabels
<1> DEFINE First(n) == stmts[n].toks[1]
           N == Len(stmts)
<1>1. /\ {First(n) : n \in 1 .. N} = {i \in Sentences : i < cursor}
      /\ \A n, m \in 1 .. N : n < m => First(n) < First(m)
      /\ \A n \in 1 .. N : stmts[n].kind = tokens[First(n)]
  BY DEF IInv, ParsedExactly
<1>2. /\ N \in Nat /\ Len(tokens) \in Nat /\ cursor = Len(tokens)
      /\ tokens[Len(tokens)] = "eof"
  BY DEF IInv, TypeOK, TokenLists, LoopEndsAtEOF
<1>3. \A i \in Sentences : i < cursor /\ i \in Nat /\ tokens[i] \in StatementKind
  <2>1. "eof" \notin StatementKind
    BY DEF StatementKind
  <2> QED
    BY <1>2, <2>1 DEF Sentences, Starts
<1>4. /\ \A i \in Sentences : \E n \in 1 .. N : i = First(n)
      /\ \A n \in 1 .. N : First(n) \in Sentences /\ stmts[n].kind = tokens[First(n)]
  BY <1>1, <1>3
<1>5. \A n, m \in 1 .. N : n < m <=> First(n) < First(m)
  <2> SUFFICES ASSUME NEW n \in 1 .. N, NEW m \in 1 .. N, First(n) < First(m)
               PROVE  n < m
    BY <1>1
  <2>1. First(n) \in Nat /\ First(m) \in Nat
    BY <1>3, <1>4
  <2>2. CASE m < n
    <3>1. First(m) < First(n)
      BY <1>1, <2>2
    <3> QED
      BY <2>1, <3>1
  <2>3. CASE m = n
    BY <2>1, <2>3
  <2> QED
    BY <2>2, <2>3
<1>6. \A n \in 1 .. N : stmts[n].kind \in StatementKind
  BY <1>3, <1>4
<1> HIDE DEF First, N
<1>7. ASSUME NEW n \in 1 .. N, EmptyBody(n)
      PROVE  First(n) \in EmptyLabels
  <2>1. stmts[n].kind = "label"
    BY <1>7 DEF EmptyBody
  <2>2. First(n) \in SentencesOf({"label"})
    BY <1>4, <2>1 DEF SentencesOf
  <2>3. ASSUME NEW j \in SentencesOf({"move", "syscall"}), First(n) < j
        PROVE  \E m \in SentencesOf({"label"}) : First(n) < m /\ m < j
    <3>1. PICK q \in 1 .. N : j = First(q)
      BY <1>4 DEF SentencesOf
    <3>2. n < q /\ stmts[q].kind \in {"move", "syscall"}
      BY <1>4, <1>5, <2>3, <3>1 DEF SentencesOf
    <3> DEFINE T == {k \in n + 1 .. N : stmts[k].kind # "entry"}
    <3>3. q \in T /\ T \subseteq Nat
      BY <1>2, <3>2
    <3>4. PICK k \in T : \A z \in T : k <= z
      BY <3>3, LeastNumber
    <3>5. k \in 1 .. N /\ n < k /\ k <= q /\ stmts[k].kind # "entry" /\ k \in n + 1 .. N
      BY <1>2, <3>3, <3>4
    <3>6. \A m \in n + 1 .. k - 1 : stmts[m].kind = "entry"
      <4> SUFFICES ASSUME NEW m \in n + 1 .. k - 1, stmts[m].kind # "entry"
                   PROVE  FALSE
        OBVIOUS
      <4>1. m \in T
        BY <1>2, <3>5
      <4> QED
        BY <1>2, <3>4, <3>5, <4>1
    <3>7. stmts[k].kind = "label"
      BY <1>7, <3>5, <3>6 DEF EmptyBody, N
    <3>8. k < q
      BY <3>2, <3>5, <3>7
    <3>9. First(n) < First(k) /\ First(k) < First(q)
      BY <1>5, <3>5, <3>8
    <3>10. First(k) \in SentencesOf({"label"})
      BY <1>4, <3>5, <3>7 DEF SentencesOf
    <3> QED
      BY <3>1, <3>9, <3>10
  <2> QED
    BY <2>2, <2>3 DEF EmptyLabels
<1>8. ASSUME NEW n \in 1 .. N, First(n) \in EmptyLabels
      PROVE  EmptyBody(n)
  <2>1. First(n) \in SentencesOf({"label"})
    BY <1>8 DEF EmptyLabels
  <2>2. stmts[n].kind = "label"
    BY <1>4, <2>1 DEF SentencesOf
  <2>3. ASSUME NEW next \in n + 1 .. N, stmts[next].kind # "entry",
               \A m \in n + 1 .. next - 1 : stmts[m].kind = "entry",
               stmts[next].kind # "label"
        PROVE  FALSE
    <3>1. next \in 1 .. N /\ n < next
      BY <1>2
    <3>2. stmts[next].kind \in {"move", "syscall"}
      BY <1>6, <2>3, <3>1 DEF StatementKind
    <3>3. First(next) \in SentencesOf({"move", "syscall"}) /\ First(n) < First(next)
      BY <1>4, <1>5, <3>1, <3>2 DEF SentencesOf
    <3>4. PICK i \in SentencesOf({"label"}) : First(n) < i /\ i < First(next)
      BY <1>8, <3>3 DEF EmptyLabels
    <3>5. PICK m \in 1 .. N : i = First(m)
      BY <1>4 DEF SentencesOf
    <3>6. n < m /\ m < next
      BY <1>5, <3>1, <3>4, <3>5
    <3>7. stmts[m].kind = "entry"
      BY <1>2, <2>3, <3>6
    <3>8. stmts[m].kind = "label"
      BY <1>4, <3>5 DEF SentencesOf
    <3> QED
      BY <3>7, <3>8
  <2> QED
    BY <2>2, <2>3 DEF EmptyBody, N
<1>9. EmptyLabels \subseteq Sentences
  BY DEF EmptyLabels, SentencesOf
<1>10. {First(n) : n \in {k \in 1 .. N : EmptyBody(k)}} = EmptyLabels
  BY <1>4, <1>7, <1>8, <1>9
<1> QED
  BY <1>10 DEF First, N

(* Behind the last node, all of them have been looked at.                  *)
NodesDone == pc = "done" => node = Len(stmts) + 1

(* The diagnostics tell, in order, of every broken statement behind the    *)
(* cursor and of every empty label behind the node.                        *)
THEOREM ReportInvariance == Spec => []ReportInv
BY InitReport, NextReport, Invariance, PTL DEF Spec

(* A parse is over only when every node has been looked at.                *)
LEMMA NodesAreDone == Spec => []NodesDone
<1>1. Init => NodesDone
  BY DEF Init, NodesDone
<1>2. IInv /\ NodesDone /\ [Next]_vars => NodesDone'
  <2> SUFFICES ASSUME IInv, NodesDone, [Next]_vars
               PROVE  NodesDone'
    OBVIOUS
  <2>1. CASE Return
    <3>1. node \in 1 .. Len(stmts) + 1 /\ Len(stmts) \in Nat /\ node > Len(stmts)
      BY <2>1 DEF IInv, TypeOK, Return
    <3>2. node = Len(stmts) + 1
      BY <3>1
    <3> QED
      BY <2>1, <3>2 DEF Return, NodesDone
  <2>2. CASE AcceptStmt \/ RejectStmt \/ StopBefore \/ StopBehindSemicolon \/ SkipToken
             \/ EndOfTokens \/ CheckNode
    BY <2>2 DEF NodesDone, AcceptStmt, RejectStmt, BeginRound, StopBefore,
       StopBehindSemicolon, SkipToken, EndOfTokens, CheckNode
  <2>3. CASE UNCHANGED vars
    BY <2>3 DEF NodesDone, vars
  <2> QED
    BY <2>1, <2>2, <2>3 DEF Next
<1> QED
  BY <1>1, <1>2, Invariance, PTL DEF Spec

(* Every broken statement is reported at the token where it goes wrong, as *)
(* long as the store has dropped nothing.                                  *)
THEOREM ReportsBrokenStatements == Spec => []BrokenStatementsReported
BY ReportInvariance, PTL DEF ReportInv

(* The store lists the errors in source order, then the warnings.          *)
THEOREM ReportsInOrder == Spec => []DiagnosticsInOrder
<1>1. IInv /\ ReportInv => DiagnosticsInOrder
  BY LoopReport DEF ReportInv, IInv
<1> QED
  BY <1>1, Invariance, ReportInvariance, PTL

(* In the end there is one warning for each empty label, and none else.    *)
THEOREM WarnsOfEmptyLabels == Spec => []EmptyLabelsWarned
<1>1. IInv /\ ReportInv /\ NodesDone => EmptyLabelsWarned
  <2> SUFFICES ASSUME IInv, ReportInv, NodesDone, pc = "done"
               PROVE  /\ diags.nwarnings = Cardinality(EmptyLabels)
                      /\ NothingDropped => StoredAt("warning") = EmptyLabels
    BY DEF EmptyLabelsWarned
  <2>1. node - 1 = Len(stmts)
    BY DEF NodesDone, IInv, TypeOK
  <2>2. Warned = EmptyLabels
    BY <2>1, EmptyBodiesAreEmptyLabels DEF Warned
  <2>3. WarningsSoFar
    BY DEF ReportInv, InLoop
  <2> QED
    BY <2>2, <2>3, SameWords DEF WarningsSoFar
<1> QED
  BY <1>1, Invariance, ReportInvariance, NodesAreDone, PTL
=============================================================================
