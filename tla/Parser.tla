------------------------------ MODULE Parser -------------------------------
(***************************************************************************)
(* Parse of src/parser.c: the statement loop with its error recovery, and  *)
(* the pass over the finished list that warns about empty labels.          *)
(*                                                                         *)
(* A token is its kind, a keyword counting as a kind of its own; what an   *)
(* identifier or a number says does not matter here.  Tokens are known by  *)
(* their index in the list, which stands for their span: a diagnostic is   *)
(* "at" the token it points to, a statement lists the tokens it was made   *)
(* of, and Placeholder is the token or operand that an unmet expectation   *)
(* returns.  A ParseXxx function maps the parser before the call, a record *)
(* of cursor, diags and the tokens "got" so far, to the parser after it.   *)
(***************************************************************************)
EXTENDS Diags

CONSTANTS DiagsCap,  \* the store's max (DIAGS_CAP of main.c)
          Inputs     \* the token lists parsed

Keyword == {"label", "move", "to", "syscall", "entry"}
TokenKind == Keyword \cup {"identifier", "number", "colon", "semicolon", "eof"}

(* A token list as Lex returns it: one EOF token, at the end.              *)
TokenLists ==
    {t \in Seq(TokenKind) : /\ t # << >>
                            /\ \A i \in 1 .. Len(t) : t[i] = "eof" <=> i = Len(t)}

ASSUME ParserAssumption == DiagsCap \in Nat /\ Inputs \subseteq TokenLists

VARIABLES tokens,  \* the token list
          cursor,  \* the next token
          diags,   \* the parser's diagnostics
          stmts,   \* the statements accepted so far
          pc,      \* "statement" (head of Parse's loop), "synchronize",
                   \* "check" (CheckEmptyLabelBodies), "done"
          node,    \* the statement CheckEmptyLabelBodies looks at
          from     \* history: where the last round of the loop began

vars == <<tokens, cursor, diags, stmts, pc, node, from>>

Placeholder == 0

Init ==
    /\ tokens \in Inputs
    /\ cursor = 1
    /\ diags = DiagsInit(DiagsCap)
    /\ stmts = << >>
    /\ pc = "statement"
    /\ node = 1
    /\ from = 0

-----------------------------------------------------------------------------
(* The parsing functions.                                                  *)

Parser == [cursor |-> cursor, diags |-> diags, got |-> << >>]

ParserPeek(p) == tokens[p.cursor]

ParserAdvance(p) == IF ParserPeek(p) # "eof" THEN [p EXCEPT !.cursor = @ + 1] ELSE p

DiagsPush(d, severity, token) == DiagsPushImpl(d, [severity |-> severity, at |-> token])

(* Broken: the diagnostic points behind the token.                         *)
UnmetBehind(p) == [p EXCEPT !.diags = DiagsPush(@, "error", p.cursor + 1),
                            !.got   = Append(@, Placeholder)]

Unmet(p) == [p EXCEPT !.diags = DiagsPush(@, "error", p.cursor),
                      !.got   = Append(@, Placeholder)]

Take(p) == [ParserAdvance(p) EXCEPT !.got = Append(@, p.cursor)]

(* Broken: the token that did not fit is thrown away.                      *)
ParserExpectConsuming(p, kind) ==
    IF ParserPeek(p) = kind THEN Take(p) ELSE ParserAdvance(Unmet(p))

ParserExpect(p, kind) == IF ParserPeek(p) = kind THEN Take(p) ELSE Unmet(p)

ParserExpectKeyword(p, kw) == ParserExpect(p, kw)

(* Broken: a missing operand is 0 and nothing is said.                     *)
ParseOperandSilent(p) ==
    IF ParserPeek(p) \in {"identifier", "number"} THEN Take(p)
    ELSE [p EXCEPT !.got = Append(@, Placeholder)]

ParseOperand(p) == IF ParserPeek(p) \in {"identifier", "number"} THEN Take(p) ELSE Unmet(p)

ParseLabelDecl(p) ==
    ParserExpect(ParserExpect(ParserExpectKeyword(p, "label"), "identifier"), "colon")

ParseMoveStmt(p) ==
    LET src == ParseOperand(ParserExpectKeyword(p, "move"))
    IN  ParserExpect(ParseOperand(ParserExpectKeyword(src, "to")), "semicolon")

ParseSyscallStmt(p) == ParserExpect(ParserExpectKeyword(p, "syscall"), "semicolon")

ParseEntryStmt(p) ==
    ParserExpect(ParserExpect(ParserExpectKeyword(p, "entry"), "identifier"), "semicolon")

(* Anything else is an error at the token itself, which stays where it is. *)
ParseStmt(p) ==
    CASE ParserPeek(p) = "label"   -> ParseLabelDecl(p)
      [] ParserPeek(p) = "move"    -> ParseMoveStmt(p)
      [] ParserPeek(p) = "syscall" -> ParseSyscallStmt(p)
      [] ParserPeek(p) = "entry"   -> ParseEntryStmt(p)
      [] OTHER                     -> Unmet(p)

-----------------------------------------------------------------------------
(* The loop of Parse.                                                      *)

BeginRound == pc = "statement" /\ ParserPeek(Parser) # "eof" /\ from' = cursor

AcceptStmt ==
    LET p == ParseStmt(Parser) IN
    /\ BeginRound
    /\ p.diags.nerrs = diags.nerrs
    /\ stmts' = Append(stmts, [kind |-> ParserPeek(Parser), toks |-> p.got])
    /\ cursor' = p.cursor /\ diags' = p.diags
    /\ UNCHANGED <<tokens, pc, node>>

(* Broken: no resynchronization.                                           *)
RejectStmtNoSync ==
    LET p == ParseStmt(Parser) IN
    /\ BeginRound
    /\ p.diags.nerrs # diags.nerrs
    /\ cursor' = p.cursor /\ diags' = p.diags
    /\ UNCHANGED <<tokens, stmts, pc, node>>

(* An error in the statement discards it and resynchronizes.               *)
RejectStmt ==
    LET p == ParseStmt(Parser) IN
    /\ BeginRound
    /\ p.diags.nerrs # diags.nerrs
    /\ cursor' = p.cursor /\ diags' = p.diags
    /\ pc' = "synchronize"
    /\ UNCHANGED <<tokens, stmts, node>>

stmtStartingKeywords == {"label", "move", "syscall", "entry"}

(* Broken: one forgets EOF, the other the keyword "entry".                 *)
AtFreshStartNoEOF == ParserPeek(Parser) \in stmtStartingKeywords
AtFreshStartNoEntry == ParserPeek(Parser) \in {"eof", "label", "move", "syscall"}

AtFreshStart == ParserPeek(Parser) \in stmtStartingKeywords \cup {"eof"}

(* One round of ParserSynchronize: stop before a keyword or EOF, or behind *)
(* a semicolon.                                                            *)
StopBefore ==
    /\ pc = "synchronize" /\ AtFreshStart
    /\ pc' = "statement"
    /\ UNCHANGED <<tokens, cursor, diags, stmts, node, from>>

StopBehindSemicolon ==
    /\ pc = "synchronize" /\ ~ AtFreshStart /\ ParserPeek(Parser) = "semicolon"
    /\ cursor' = ParserAdvance(Parser).cursor
    /\ pc' = "statement"
    /\ UNCHANGED <<tokens, diags, stmts, node, from>>

SkipToken ==
    /\ pc = "synchronize" /\ ~ AtFreshStart /\ ParserPeek(Parser) # "semicolon"
    /\ cursor' = ParserAdvance(Parser).cursor
    /\ UNCHANGED <<tokens, diags, stmts, pc, node, from>>

EndOfTokens ==
    /\ pc = "statement" /\ ParserPeek(Parser) = "eof"
    /\ pc' = "check"
    /\ UNCHANGED <<tokens, cursor, diags, stmts, node, from>>

-----------------------------------------------------------------------------
(* CheckEmptyLabelBodies, one node per step.                               *)

(* Broken: an entry statement counts as a body.                            *)
EmptyBodyEntryCounts(n) ==
    stmts[n].kind = "label" /\ (n < Len(stmts) => stmts[n + 1].kind = "label")

(* What follows the label, entry statements aside, is a label or nothing.  *)
EmptyBody(n) ==
    /\ stmts[n].kind = "label"
    /\ \A next \in n + 1 .. Len(stmts) :
         (/\ stmts[next].kind # "entry"
          /\ \A m \in n + 1 .. next - 1 : stmts[m].kind = "entry")
         => stmts[next].kind = "label"

(* Broken: pushed with DiagsPushFull, as an error.                         *)
CheckNodeAsError ==
    /\ pc = "check" /\ node <= Len(stmts)
    /\ diags' = IF EmptyBody(node) THEN DiagsPush(diags, "error", stmts[node].toks[1])
                                   ELSE diags
    /\ node' = node + 1
    /\ UNCHANGED <<tokens, cursor, stmts, pc, from>>

CheckNode ==
    /\ pc = "check" /\ node <= Len(stmts)
    /\ diags' = IF EmptyBody(node) THEN DiagsPush(diags, "warning", stmts[node].toks[1])
                                   ELSE diags
    /\ node' = node + 1
    /\ UNCHANGED <<tokens, cursor, stmts, pc, from>>

Return ==
    /\ pc = "check" /\ node > Len(stmts)
    /\ pc' = "done"
    /\ UNCHANGED <<tokens, cursor, diags, stmts, node, from>>

Next ==
    \/ AcceptStmt \/ RejectStmt
    \/ StopBefore \/ StopBehindSemicolon \/ SkipToken
    \/ EndOfTokens \/ CheckNode \/ Return

(* The parser is a sequential loop that waits for nothing.                 *)
Spec == Init /\ [][Next]_vars /\ WF_vars(Next)

-----------------------------------------------------------------------------
(* The grammar, defined without the parser.                                *)

(* What each token of a statement of this kind may be.                     *)
Shape ==
    [label   |-> <<{"label"}, {"identifier"}, {"colon"}>>,
     move    |-> <<{"move"}, {"identifier", "number"}, {"to"},
                   {"identifier", "number"}, {"semicolon"}>>,
     syscall |-> <<{"syscall"}, {"semicolon"}>>,
     entry   |-> <<{"entry"}, {"identifier"}, {"semicolon"}>>]

StatementKind == {"label", "move", "syscall", "entry"}

Starts == {i \in 1 .. Len(tokens) : tokens[i] \in StatementKind}
Length(i) == Len(Shape[tokens[i]])
Fits(i, k) == i + k - 1 <= Len(tokens) /\ tokens[i + k - 1] \in Shape[tokens[i]][k]

(* The places where a well-formed statement begins.                        *)
Sentences == {i \in Starts : \A k \in 1 .. Length(i) : Fits(i, k)}
SentencesOf(kinds) == {i \in Sentences : tokens[i] \in kinds}

InSentence(j) == \E i \in Sentences : j \in i .. i + Length(i) - 1

(* The token of a broken statement that its grammar cannot take.           *)
Misfits(i) == {i + k - 1 : k \in {m \in 1 .. Length(i) :
                                   ~ Fits(i, m) /\ \A l \in 1 .. m - 1 : Fits(i, l)}}

(* The labels with no instruction between them and the next label.         *)
EmptyLabels ==
    {i \in SentencesOf({"label"}) :
        \A j \in SentencesOf({"move", "syscall"}) :
            i < j => \E m \in SentencesOf({"label"}) : i < m /\ m < j}

StoredAt(severity) ==
    {diags.entries[n].at : n \in {m \in 1 .. Len(diags.entries) :
                                   diags.entries[m].severity = severity}}

NothingDropped == DiagsCap = 0 \/ diags.nerrs + diags.nwarnings <= DiagsCap

-----------------------------------------------------------------------------

Statement == [kind : StatementKind, toks : Seq(0 .. Len(tokens))]

(* The cursor is always on a token, so ParserPeek never meets the end of   *)
(* the list ("parser cursor is NULL").                                     *)
TypeOK ==
    /\ tokens \in TokenLists
    /\ cursor \in 1 .. Len(tokens)
    /\ diags \in [entries : Seq([severity : Severity, at : 1 .. Len(tokens)]),
                  cap : Nat, max : {DiagsCap}, nerrs : Nat, nwarnings : Nat]
    /\ stmts \in Seq(Statement)
    /\ pc \in {"statement", "synchronize", "check", "done"}
    /\ node \in 1 .. Len(stmts) + 1
    /\ from \in 0 .. Len(tokens)

(* No statement is lost and none invented: the list holds exactly the      *)
(* well-formed statements among the tokens passed, in order, whatever was  *)
(* broken around them; recovery neither swallows one nor lets a            *)
(* placeholder into the list.                                              *)
ParsedExactly ==
    /\ {stmts[n].toks[1] : n \in 1 .. Len(stmts)} = {i \in Sentences : i < cursor}
    /\ \A n, m \in 1 .. Len(stmts) : n < m => stmts[n].toks[1] < stmts[m].toks[1]
    /\ \A n \in 1 .. Len(stmts) :
         LET first == stmts[n].toks[1] IN
         /\ stmts[n].kind = tokens[first]
         /\ stmts[n].toks = [k \in 1 .. Length(first) |-> first + k - 1]

(* main.c goes on to code generation exactly when the whole token list is  *)
(* statements: errors dropped by a full store still count, warnings never. *)
ErrorGate ==
    pc \in {"check", "done"} =>
        (diags.nerrs = 0 <=> \A j \in 1 .. Len(tokens) - 1 : InSentence(j))

(* Every statement that begins with its keyword and goes wrong is reported *)
(* at the token where it goes wrong, also when it directly follows another *)
(* broken one.                                                             *)
BrokenStatementsReported ==
    NothingDropped =>
        \A i \in Starts \ Sentences : i < cursor => Misfits(i) \subseteq StoredAt("error")

(* The stored diagnostics are the errors in source order, then the         *)
(* warnings in source order.                                               *)
DiagnosticsInOrder ==
    \A n, m \in 1 .. Len(diags.entries) :
        LET d == diags.entries[n]  e == diags.entries[m] IN
        n < m => IF d.severity = e.severity THEN d.at <= e.at
                                            ELSE d.severity = "error"

(* In the end there is one warning for each label without an instruction   *)
(* before the next label; entry statements are no instructions.            *)
EmptyLabelsWarned ==
    pc = "done" =>
        /\ diags.nwarnings = Cardinality(EmptyLabels)
        /\ NothingDropped => StoredAt("warning") = EmptyLabels

(* Every round of the loop consumes a token, an erroneous one included.    *)
Progress == pc = "statement" => cursor > from

(* Parse returns on every token list.                                      *)
Termination == <>(pc = "done")
=============================================================================
