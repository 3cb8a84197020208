---------------------------- MODULE Main_proofs ----------------------------
(***************************************************************************)
(* Theorems about Main, for all sets of file names and any number of runs: *)
(* its types, what is freed and what is still needed, and that main        *)
(* implements Compiler.  Then about two of its stages, which have modules  *)
(* of their own: SourceFile, which loads the text, and Cli, which reads    *)
(* the command line.                                                       *)
(***************************************************************************)
EXTENDS Main, Cli, SourceFile, Facts, FiniteSetTheorems, SequenceTheorems, TLAPS

(* The blocks a stage finds allocated, the parser's warnings aside.        *)
HeldAt(stage) ==
    CASE stage = "cli"  -> {}
      [] stage = "load" -> {"output_path"}
      [] stage = "lex"  -> {"output_path", "source"}
      [] stage \in {"list_tokens", "parse"} -> {"output_path", "source", "tokens"}
      [] stage \in {"list_statements", "generate_code"} ->
             {"output_path", "source", "tokens", "statements"}
      [] stage = "build_elf" -> {"output_path", "source", "tokens", "statements", "code"}
      [] stage \in {"open", "chmod"} ->
             {"output_path", "source", "tokens", "statements", "code", "elf"}
      [] stage \in {"write", "close"} ->
             {"output_path", "source", "tokens", "statements", "code", "elf", "file"}

Afterwards == {"list_statements", "generate_code", "build_elf", "open", "write", "close", "chmod"}

Left == IF exitCode = "4" THEN {"statements"} ELSE {}

InList(frees) == {frees[i] : i \in 1 .. Len(frees)}

(* On the way out everything allocated is still to be freed.               *)
LiveInv ==
    /\ pc \notin {"freeing", "ended"} =>
           /\ HeldAt(pc) \subseteq live
           /\ live \subseteq HeldAt(pc) \cup
                  (IF pc \in Afterwards THEN {"parser_diagnostics"} ELSE {})
    /\ pc = "freeing" => live \ Left \subseteq InList(pending)
    /\ pc = "ended" => live \subseteq Left
    /\ pc = "freeing" => exitCode \in {"0", "3", "4"}

(* What a stage knows of the text when it begins, and main when it leaves. *)
Asked(stage) ==
    CASE stage = "parse" -> {"parse", "compile"}
      [] stage = "list_statements" -> {"parse", "compile"}
      [] stage \in Afterwards \ {"list_statements"} -> {"compile"}
      [] OTHER -> {"tokenize", "parse", "compile"}

Passed(stage) ==
    CASE stage \in {"list_tokens", "parse"}               -> {"lexer"}
      [] stage \in {"list_statements", "generate_code"}   -> {"lexer", "parser"}
      [] stage \in {"build_elf", "open"}                  -> {"lexer", "parser", "codegen"}
      [] OTHER                                            -> {}

ResultInv ==
    /\ pc \notin {"freeing", "ended"} => exitCode = "none"
    /\ pc = "ended" => exitCode # "none"
    /\ pc \notin {"freeing", "ended"} =>
           opts.furthest \in Asked(pc) /\ VerdictOn(text) \notin Passed(pc)
    /\ pc \in {"lex", "list_tokens", "parse", "list_statements", "generate_code",
               "build_elf", "open"} => text = disk[Input].content
    /\ pc = "close" => disk[opts.output].content \in {"empty", "partial", "image"}
    /\ pc = "chmod" => disk[opts.output].content = "image"
    /\ pc = "freeing" /\ ~ Writing => text = disk[Input].content
    /\ pc = "freeing" /\ exitCode = "3" => VerdictOn(text) = "lexer"
    /\ pc = "freeing" /\ exitCode = "4" =>
           VerdictOn(text) = "parser" /\ opts.furthest \in {"parse", "compile"}
    /\ pc = "freeing" /\ exitCode = "0" =>
           CASE opts.furthest = "tokenize" -> VerdictOn(text) # "lexer"
             [] opts.furthest = "parse"    -> VerdictOn(text) \notin {"lexer", "parser"}
             [] opts.furthest = "compile"  ->
                    disk[opts.output] = [content |-> "image", executable |-> TRUE]

IInv == TypeOK /\ LiveInv /\ ResultInv

-----------------------------------------------------------------------------

(* The ways out, as lists of what they free.                               *)
WaysOut == {<<"lexer_diagnostics", "tokens", "source", "output_path">>,
            <<"tokens", "source", "output_path">>,
            <<"parser_diagnostics", "lexer_diagnostics", "tokens", "source", "output_path">>,
            <<"parser_diagnostics", "lexer_diagnostics", "statements", "tokens", "source",
              "output_path">>,
            <<"elf", "code", "statements", "tokens", "parser_diagnostics",
              "lexer_diagnostics", "source", "output_path">>}

NothingTwice(frees) == \A i, j \in 1 .. Len(frees) : i # j => frees[i] # frees[j]

(* A list of blocks is a sequence of blocks.                               *)
LEMMA ListTypes ==
    ASSUME NEW S
    PROVE  /\ \A a, b, c \in S : <<a, b, c>> \in Seq(S)
           /\ \A a, b, c, d \in S : <<a, b, c, d>> \in Seq(S)
           /\ \A a, b, c, d, e \in S : <<a, b, c, d, e>> \in Seq(S)
           /\ \A a, b, c, d, e, f \in S : <<a, b, c, d, e, f>> \in Seq(S)
           /\ \A a, b, c, d, e, f, g, h \in S : <<a, b, c, d, e, f, g, h>> \in Seq(S)
  OBVIOUS

(* Each way out frees blocks, and none of them twice.                      *)
LEMMA WaysOutFreeOnce ==
    \A frees \in WaysOut : frees \in Seq(Block) /\ NothingTwice(frees)
<1>1. \A frees \in WaysOut : frees \in Seq(Block)
  <2>1. /\ "output_path" \in Block /\ "source" \in Block /\ "lexer_diagnostics" \in Block
        /\ "tokens" \in Block /\ "parser_diagnostics" \in Block /\ "statements" \in Block
        /\ "code" \in Block /\ "elf" \in Block
    BY DEF Block
  <2>2. <<"lexer_diagnostics", "tokens", "source", "output_path">> \in Seq(Block)
    BY <2>1, ListTypes
  <2>3. <<"tokens", "source", "output_path">> \in Seq(Block)
    BY <2>1, ListTypes
  <2>4. <<"parser_diagnostics", "lexer_diagnostics", "tokens", "source",
          "output_path">> \in Seq(Block)
    BY <2>1, ListTypes
  <2>5. <<"parser_diagnostics", "lexer_diagnostics", "statements", "tokens", "source",
          "output_path">> \in Seq(Block)
    BY <2>1, ListTypes
  <2>6. <<"elf", "code", "statements", "tokens", "parser_diagnostics",
          "lexer_diagnostics", "source", "output_path">> \in Seq(Block)
    BY <2>1, ListTypes
  <2> QED
    BY <2>2, <2>3, <2>4, <2>5, <2>6, Zenon DEF WaysOut
<1>2. \A frees \in WaysOut : NothingTwice(frees)
  BY DEF WaysOut, NothingTwice
<1> QED
  BY <1>1, <1>2

(* One free later there is still no block to be freed twice.               *)
LEMMA OneFreeLess ==
    ASSUME NEW frees \in Seq(Block), frees # << >>, NothingTwice(frees)
    PROVE  Tail(frees) \in Seq(Block) /\ NothingTwice(Tail(frees))
<1>1. Tail(frees) \in Seq(Block) /\ Len(Tail(frees)) = Len(frees) - 1
      /\ Len(frees) \in Nat \ {0}
  BY HeadTailProperties, EmptySeq
<1>2. \A i \in 1 .. Len(Tail(frees)) : Tail(frees)[i] = frees[i + 1] /\ i + 1 \in 1 .. Len(frees)
  BY <1>1, HeadTailProperties
<1> QED
  BY <1>1, <1>2 DEF NothingTwice

-----------------------------------------------------------------------------

(* Nothing is allocated at the beginning.                                  *)
LEMMA InitTypeOK == Init => TypeOK
<1> SUFFICES ASSUME Init
             PROVE  TypeOK
  OBVIOUS
<1>1. disk \in [Paths -> [content : Content, executable : BOOLEAN]]
  BY DEF Init, Content
<1>2. pending \in Seq(Block) /\ \A i, j \in 1 .. Len(pending) : i # j => pending[i] # pending[j]
  BY EmptySeq DEF Init
<1>3. runs \in 1 .. MaxRuns
  BY RunsAssumption DEF Init
<1>4. /\ text \in Content \cup {"none"} /\ live \subseteq Block
      /\ verdict \in {"lexer", "parser", "codegen", "accepted"}
  BY DEF Init
<1>5. pc = "cli" /\ opts \in CliOptions /\ warns \in BOOLEAN /\ exitCode = "none"
  BY Zenon DEF Init
<1> QED
  BY <1>1, <1>2, <1>3, <1>4, <1>5 DEF TypeOK

(* No stage and no way out disturbs the types.                             *)
LEMMA NextTypeOK == TypeOK /\ [Next]_vars => TypeOK'
<1> SUFFICES ASSUME TypeOK, [Next]_vars
             PROVE  TypeOK'
  OBVIOUS
<1> USE DEF TypeOK
<1>1. CASE ParseCli
  BY <1>1 DEF ParseCli, Go, Block, Content, CliOptions
<1>2. CASE UsageError
  BY <1>2 DEF UsageError, Error, Block, Content, CliOptions
<1>3. CASE SourceLoad
  <2>1. disk[Input].content \in Content
    BY RunsAssumption
  <2> QED
    BY <1>3, <2>1 DEF SourceLoad, Go, Block
<1>4. CASE SourceLoadFails
  BY <1>4 DEF SourceLoadFails, Error, Block, Content, CliOptions
<1>5. CASE Lex
  BY <1>5 DEF Lex, Go, Block, Content, CliOptions
<1>6. CASE LexRefuses
  BY <1>6, WaysOutFreeOnce DEF LexRefuses, LeaveWith, WaysOut, NothingTwice, Block
<1>7. CASE ListTokens
  BY <1>7, WaysOutFreeOnce DEF ListTokens, Go, LeaveWith, WaysOut, NothingTwice, Block
<1>8. CASE Parse
  BY <1>8 DEF Parse, Go, ParserDiagnostics, Block, Content, CliOptions
<1>9. CASE ParseRefuses
  BY <1>9, WaysOutFreeOnce DEF ParseRefuses, LeaveWith, WaysOut, NothingTwice, Block
<1>10. CASE ListStatements
  BY <1>10, WaysOutFreeOnce DEF ListStatements, Go, LeaveWith, WaysOut, NothingTwice, Block
<1>11. CASE GenerateCode
  BY <1>11 DEF GenerateCode, Go, Block, Content, CliOptions
<1>12. CASE GenerateCodeRefuses
  BY <1>12 DEF GenerateCodeRefuses, Block, Content, CliOptions
<1>13. CASE BuildElf
  BY <1>13 DEF BuildElf, Go, Block, Content, CliOptions
<1>14. CASE Open
  BY <1>14 DEF Open, OutputHolds, StepTo, Block, Content, CliOptions
<1>15. CASE OpenFails
  BY <1>15 DEF OpenFails, Error, Block, Content, CliOptions
<1>16. CASE Write
  BY <1>16 DEF Write, OutputHolds, StepTo, Block, Content, CliOptions
<1>17. CASE WriteFails
  BY <1>17 DEF WriteFails, OutputHolds, Error, Block, Content, CliOptions
<1>18. CASE Close
  BY <1>18 DEF Close, OutputHolds, StepTo, Block, Content, CliOptions
<1>19. CASE CloseFails
  BY <1>19 DEF CloseFails, OutputHolds, Error, Block, Content, CliOptions
<1>20. CASE Chmod
  BY <1>20, WaysOutFreeOnce, ZenonT(60) DEF Chmod, WaysOut, NothingTwice, Block
<1>21. CASE ChmodFails
  BY <1>21 DEF ChmodFails, Error, Block, Content, CliOptions
<1>22. CASE FreeNext
  <2>1. /\ pending' \in Seq(Block)
        /\ \A i, j \in 1 .. Len(pending') : i # j => pending'[i] # pending'[j]
    BY <1>22, OneFreeLess DEF FreeNext, NothingTwice
  <2>2. live' \subseteq Block
    BY <1>22 DEF FreeNext
  <2> QED
    BY <1>22, <2>1, <2>2 DEF FreeNext
<1>23. CASE Return
  BY <1>23 DEF Return, Block, Content, CliOptions
<1>24. CASE OutOfMemory
  BY <1>24 DEF OutOfMemory, Error, Block, Content, CliOptions
<1>25. CASE Killed
  BY <1>25, EmptySeq DEF Killed, Block
<1>26. CASE RunAgain
  BY <1>26, EmptySeq, RunsAssumption DEF RunAgain, Block
<1>27. CASE UNCHANGED vars
  BY <1>27 DEF vars
<1> QED
  BY <1>1, <1>2, <1>3, <1>4, <1>5, <1>6, <1>7, <1>8, <1>9, <1>10, <1>11, <1>12, <1>13, <1>14,
     <1>15, <1>16, <1>17, <1>18, <1>19, <1>20, <1>21, <1>22, <1>23, <1>24, <1>25, <1>26,
     <1>27 DEF Next, Stage

(* What a list of frees names is in it.                                    *)
LEMMA Listed ==
    /\ \A a, b, c : {a, b, c} \subseteq InList(<<a, b, c>>)
    /\ \A a, b, c, d : {a, b, c, d} \subseteq InList(<<a, b, c, d>>)
    /\ \A a, b, c, d, e : {a, b, c, d, e} \subseteq InList(<<a, b, c, d, e>>)
    /\ \A a, b, c, d, e, f : {a, b, c, d, e, f} \subseteq InList(<<a, b, c, d, e, f>>)
    /\ \A a, b, c, d, e, f, g, h :
           {a, b, c, d, e, f, g, h} \subseteq InList(<<a, b, c, d, e, f, g, h>>)
  BY DEF InList

(* What is not freed first is freed later.                                 *)
LEMMA FreedFirstOrLater ==
    ASSUME NEW frees \in Seq(Block), frees # << >>
    PROVE  InList(frees) \subseteq {Head(frees)} \cup InList(Tail(frees))
<1> SUFFICES ASSUME NEW i \in 1 .. Len(frees), frees[i] # Head(frees)
             PROVE  frees[i] \in InList(Tail(frees))
  BY DEF InList
<1>1. Len(Tail(frees)) = Len(frees) - 1 /\ Len(frees) \in Nat \ {0} /\ Head(frees) = frees[1]
  BY HeadTailProperties, EmptySeq
<1>2. i # 1 /\ i - 1 \in 1 .. Len(Tail(frees))
  BY <1>1
<1>3. Tail(frees)[i - 1] = frees[(i - 1) + 1]
  BY <1>2, HeadTailProperties
<1>4. Tail(frees)[i - 1] = frees[i]
  BY <1>3
<1> QED
  BY <1>2, <1>4 DEF InList

-----------------------------------------------------------------------------

(* What is live at the beginning is what the first stage expects.          *)
LEMMA InitLiveInv == Init => LiveInv
  BY DEF Init, LiveInv, HeldAt, Afterwards

(* The blocks a stage holds are those the next one finds, and on a way out *)
(* nothing that is held is forgotten.                                      *)
LEMMA NextLiveInv == TypeOK /\ LiveInv /\ [Next]_vars => LiveInv'
<1> SUFFICES ASSUME TypeOK, LiveInv, [Next]_vars
             PROVE  LiveInv'
  OBVIOUS
<1> USE DEF LiveInv, HeldAt, Afterwards, Left
<1>1. CASE ParseCli
  BY <1>1 DEF ParseCli, Go
<1>2. CASE UsageError
  BY <1>2 DEF UsageError, Error
<1>3. CASE SourceLoad
  BY <1>3 DEF SourceLoad, Go
<1>4. CASE SourceLoadFails
  BY <1>4 DEF SourceLoadFails, Error
<1>5. CASE Lex
  BY <1>5 DEF Lex, Go, LexErrors
<1>6. CASE LexRefuses
  BY <1>6, Listed DEF LexRefuses, LeaveWith, LexErrors
<1>7. CASE ListTokens
  BY <1>7, Listed DEF ListTokens, Go, LeaveWith
<1>8. CASE Parse
  BY <1>8 DEF Parse, Go, ParserDiagnostics
<1>9. CASE ParseRefuses
  BY <1>9, Listed DEF ParseRefuses, LeaveWith
<1>10. CASE ListStatements
  BY <1>10, Listed DEF ListStatements, Go, LeaveWith
<1>11. CASE GenerateCode
  BY <1>11 DEF GenerateCode, Go
<1>12. CASE GenerateCodeRefuses
  BY <1>12 DEF GenerateCodeRefuses
<1>13. CASE BuildElf
  BY <1>13 DEF BuildElf, Go
<1>14. CASE Open
  BY <1>14 DEF Open, OutputHolds, StepTo
<1>15. CASE OpenFails
  BY <1>15 DEF OpenFails, Error
<1>16. CASE Write
  BY <1>16 DEF Write, OutputHolds, StepTo
<1>17. CASE WriteFails
  BY <1>17 DEF WriteFails, OutputHolds, Error
<1>18. CASE Close
  BY <1>18 DEF Close, OutputHolds, StepTo
<1>19. CASE CloseFails
  BY <1>19 DEF CloseFails, OutputHolds, Error
<1>20. CASE Chmod
  BY <1>20, Listed DEF Chmod
<1>21. CASE ChmodFails
  BY <1>21 DEF ChmodFails, Error
<1>22. CASE FreeNext
  <2>1. InList(pending) \subseteq {Head(pending)} \cup InList(Tail(pending))
    BY <1>22, FreedFirstOrLater DEF FreeNext, TypeOK
  <2> QED
    BY <1>22, <2>1 DEF FreeNext
<1>23. CASE Return
  <2>1. InList(<< >>) = {}
    BY EmptySeq DEF InList
  <2> QED
    BY <1>23, <2>1 DEF Return
<1>24. CASE OutOfMemory
  BY <1>24 DEF OutOfMemory, Error, TypeOK
<1>25. CASE Killed
  BY <1>25 DEF Killed
<1>26. CASE RunAgain
  BY <1>26 DEF RunAgain
<1>27. CASE UNCHANGED vars
  BY <1>27 DEF vars
<1> QED
  BY <1>1, <1>2, <1>3, <1>4, <1>5, <1>6, <1>7, <1>8, <1>9, <1>10, <1>11, <1>12, <1>13, <1>14,
     <1>15, <1>16, <1>17, <1>18, <1>19, <1>20, <1>21, <1>22, <1>23, <1>24, <1>25, <1>26,
     <1>27 DEF Next, Stage

-----------------------------------------------------------------------------

(* No result yet.                                                          *)
LEMMA InitResultInv == Init => ResultInv
  BY DEF Init, ResultInv, Asked, Afterwards, Passed, CliOptions, Writing

(* A stage lets through what it does not object to, and what main leaves   *)
(* with agrees with what the stages said.                                  *)
LEMMA NextResultInv == TypeOK /\ ResultInv /\ LiveInv /\ [Next]_vars => ResultInv'
<1> SUFFICES ASSUME TypeOK, ResultInv, LiveInv, [Next]_vars
             PROVE  ResultInv'
  OBVIOUS
<1> USE DEF ResultInv, Asked, Afterwards, Passed, Writing
<1>1. CASE ParseCli
  BY <1>1 DEF ParseCli, Go, TypeOK, CliOptions, VerdictOn
<1>2. CASE UsageError
  BY <1>2 DEF UsageError, Error, TypeOK, CliOptions, VerdictOn
<1>3. CASE SourceLoad
  BY <1>3 DEF SourceLoad, Go, TypeOK, CliOptions, VerdictOn
<1>4. CASE SourceLoadFails
  BY <1>4 DEF SourceLoadFails, Error, TypeOK, CliOptions, VerdictOn
<1>5. CASE Lex
  BY <1>5 DEF Lex, Go, LexErrors, TypeOK, CliOptions, VerdictOn
<1>6. CASE LexRefuses
  BY <1>6 DEF LexRefuses, LeaveWith, LexErrors, TypeOK, CliOptions, VerdictOn
<1>7. CASE ListTokens
  BY <1>7 DEF ListTokens, Go, LeaveWith, TypeOK, CliOptions, VerdictOn
<1>8. CASE Parse
  BY <1>8 DEF Parse, Go, ParserDiagnostics, TypeOK, CliOptions, VerdictOn
<1>9. CASE ParseRefuses
  BY <1>9 DEF ParseRefuses, LeaveWith, TypeOK, CliOptions, VerdictOn
<1>10. CASE ListStatements
  BY <1>10 DEF ListStatements, Go, LeaveWith, TypeOK, CliOptions, VerdictOn
<1>11. CASE GenerateCode
  BY <1>11 DEF GenerateCode, Go, TypeOK, CliOptions, VerdictOn
<1>12. CASE GenerateCodeRefuses
  BY <1>12 DEF GenerateCodeRefuses, TypeOK, CliOptions, VerdictOn
<1>13. CASE BuildElf
  BY <1>13 DEF BuildElf, Go, TypeOK, CliOptions, VerdictOn
<1>14. CASE Open
  BY <1>14 DEF Open, OutputHolds, StepTo, TypeOK, CliOptions, VerdictOn
<1>15. CASE OpenFails
  BY <1>15 DEF OpenFails, Error, TypeOK, CliOptions, VerdictOn
<1>16. CASE Write
  BY <1>16 DEF Write, OutputHolds, StepTo, TypeOK, CliOptions, VerdictOn
<1>17. CASE WriteFails
  BY <1>17 DEF WriteFails, OutputHolds, Error, TypeOK, CliOptions, VerdictOn
<1>18. CASE Close
  BY <1>18 DEF Close, OutputHolds, StepTo, TypeOK, CliOptions, VerdictOn
<1>19. CASE CloseFails
  BY <1>19 DEF CloseFails, OutputHolds, Error, TypeOK, CliOptions, VerdictOn
<1>20. CASE Chmod
  BY <1>20, ZenonT(60) DEF Chmod, TypeOK, CliOptions, VerdictOn
<1>21. CASE ChmodFails
  BY <1>21 DEF ChmodFails, Error, TypeOK, CliOptions, VerdictOn
<1>22. CASE FreeNext
  BY <1>22 DEF FreeNext, TypeOK, CliOptions, VerdictOn
<1>23. CASE Return
  BY <1>23 DEF Return, LiveInv, VerdictOn
<1>24. CASE OutOfMemory
  BY <1>24 DEF OutOfMemory, Error, TypeOK, CliOptions, VerdictOn
<1>25. CASE Killed
  BY <1>25 DEF Killed, TypeOK, CliOptions, VerdictOn
<1>26. CASE RunAgain
  BY <1>26 DEF RunAgain, TypeOK, CliOptions, VerdictOn
<1>27. CASE UNCHANGED vars
  BY <1>27 DEF vars, VerdictOn
<1> QED
  BY <1>1, <1>2, <1>3, <1>4, <1>5, <1>6, <1>7, <1>8, <1>9, <1>10, <1>11, <1>12, <1>13, <1>14,
     <1>15, <1>16, <1>17, <1>18, <1>19, <1>20, <1>21, <1>22, <1>23, <1>24, <1>25, <1>26,
     <1>27 DEF Next, Stage

-----------------------------------------------------------------------------

(* The three parts are kept together by every step.                        *)
LEMMA Invariance == Spec => []IInv
<1>1. Init => IInv
  BY InitTypeOK, InitLiveInv, InitResultInv DEF IInv
<1>2. IInv /\ [Next]_vars => IInv'
  BY NextTypeOK, NextLiveInv, NextResultInv DEF IInv
<1> QED
  BY <1>1, <1>2, PTL DEF Spec

(* The variables of main keep their types, and no way out frees a block    *)
(* twice, in any number of runs and on any set of files.                   *)
THEOREM TypesHold == Spec => []TypeOK
<1>1. IInv => TypeOK
  BY DEF IInv
<1> QED
  BY <1>1, Invariance, PTL

(* Every return of main has freed what was allocated, except for the       *)
(* statements after parser errors.                                         *)
THEOREM NothingIsLeft == Spec => []LeavesNothing
<1>1. IInv => LeavesNothing
  BY DEF IInv, LiveInv, LeavesNothing, Left
<1> QED
  BY <1>1, Invariance, PTL

(* No stage works on something that was freed.                             *)
THEOREM UsedIsLive == Spec => []UsesAreLive
<1>1. IInv => UsesAreLive
  BY DEF IInv, LiveInv, HeldAt, UsesAreLive
<1> QED
  BY <1>1, Invariance, PTL

-----------------------------------------------------------------------------

(* The command begins where Compiler begins.                               *)
LEMMA InitImplements == Init => Abstract!Init
  BY DEF Init, Abstract!Init, Abstract!File, Abstract!Verdict, Abstract!Request, CliOptions,
     Result

(* Each step of main is one of the steps Compiler allows, or changes       *)
(* nothing that Compiler sees.                                             *)
LEMMA NextImplements ==
    IInv /\ [Next]_vars => [Abstract!Next]_(Abstract!vars)
<1> SUFFICES ASSUME IInv, [Next]_vars
             PROVE  Abstract!Next \/ UNCHANGED Abstract!vars
  OBVIOUS
<1> USE DEF IInv, ResultInv, Asked, Afterwards, Passed, Writing, Result, Abstract!vars
<1>1. CASE ParseCli
  BY <1>1 DEF ParseCli, Go, TypeOK, CliOptions, Abstract!Next, Abstract!Begin
<1>2. CASE UsageError
  BY <1>2 DEF UsageError, Error, TypeOK, CliOptions, Abstract!Next, Abstract!Fail,
     Abstract!Writes
<1>3. CASE SourceLoad
  BY <1>3 DEF SourceLoad, Go, TypeOK, CliOptions
<1>4. CASE SourceLoadFails
  BY <1>4 DEF SourceLoadFails, Error, TypeOK, CliOptions, Abstract!Next, Abstract!Fail,
     Abstract!Writes
<1>5. CASE Lex
  BY <1>5 DEF Lex, Go, LexErrors, TypeOK, CliOptions
<1>6. CASE LexRefuses
  BY <1>6 DEF LexRefuses, LeaveWith, LexErrors, TypeOK, CliOptions
<1>7. CASE ListTokens
  BY <1>7 DEF ListTokens, Go, LeaveWith, TypeOK, CliOptions
<1>8. CASE Parse
  BY <1>8 DEF Parse, Go, ParserDiagnostics, TypeOK, CliOptions
<1>9. CASE ParseRefuses
  BY <1>9 DEF ParseRefuses, LeaveWith, TypeOK, CliOptions
<1>10. CASE ListStatements
  BY <1>10 DEF ListStatements, Go, LeaveWith, TypeOK, CliOptions
<1>11. CASE GenerateCode
  BY <1>11 DEF GenerateCode, Go, TypeOK, CliOptions
<1>12. CASE GenerateCodeRefuses
  BY <1>12 DEF GenerateCodeRefuses, TypeOK, CliOptions, Abstract!Next, Abstract!Refuse,
     Abstract!Objects, Abstract!VerdictOn, Abstract!StagesUpTo, VerdictOn
<1>13. CASE BuildElf
  BY <1>13 DEF BuildElf, Go, TypeOK, CliOptions
<1>14. CASE Open
  BY <1>14 DEF Open, OutputHolds, StepTo, TypeOK, CliOptions, Abstract!Next,
     Abstract!OpenOutput, Abstract!Objects, Abstract!VerdictOn, Abstract!StagesUpTo, VerdictOn
<1>15. CASE OpenFails
  BY <1>15 DEF OpenFails, Error, TypeOK, CliOptions, Abstract!Next, Abstract!Fail,
     Abstract!Writes
<1>16. CASE Write
  BY <1>16 DEF Write, OutputHolds, StepTo, TypeOK, CliOptions, Abstract!Next, Abstract!Write,
     Abstract!Writes
<1>17. CASE WriteFails
  BY <1>17 DEF WriteFails, OutputHolds, Error, TypeOK, CliOptions, Abstract!Next,
     Abstract!Fail, Abstract!Writes
<1>18. CASE Close
  BY <1>18 DEF Close, OutputHolds, StepTo, TypeOK, CliOptions, Abstract!Next, Abstract!Write,
     Abstract!Writes
<1>19. CASE CloseFails
  BY <1>19 DEF CloseFails, OutputHolds, Error, TypeOK, CliOptions, Abstract!Next,
     Abstract!Fail, Abstract!Writes
<1>20. CASE Chmod
  BY <1>20 DEF Chmod, TypeOK, CliOptions, Abstract!Next, Abstract!MakeExecutable
<1>21. CASE ChmodFails
  BY <1>21 DEF ChmodFails, Error, TypeOK, CliOptions, Abstract!Next, Abstract!Fail,
     Abstract!Writes
<1>22. CASE FreeNext
  BY <1>22 DEF FreeNext, TypeOK, CliOptions
<1>23. CASE Return
  <2>1. CASE exitCode \in {"3", "4"}
    BY <1>23, <2>1 DEF Return, TypeOK, CliOptions, Abstract!Next, Abstract!Refuse,
       Abstract!Objects, Abstract!VerdictOn, Abstract!StagesUpTo, VerdictOn
  <2>2. CASE exitCode = "0"
    BY <1>23, <2>2 DEF Return, TypeOK, CliOptions, Abstract!Next, Abstract!Succeed,
       Abstract!Delivered, Abstract!Objects, Abstract!VerdictOn, Abstract!StagesUpTo, VerdictOn
  <2> QED
    BY <1>23, <2>1, <2>2 DEF Return, LiveInv
<1>24. CASE OutOfMemory
  BY <1>24 DEF OutOfMemory, Error, TypeOK, CliOptions, Abstract!Next, Abstract!Fail,
     Abstract!Writes
<1>25. CASE Killed
  BY <1>25 DEF Killed, TypeOK, CliOptions, Abstract!Next, Abstract!Killed, Abstract!Ended
<1>26. CASE RunAgain
  BY <1>26 DEF RunAgain, TypeOK, CliOptions, Abstract!Next, Abstract!RunAgain,
     Abstract!Ended, Abstract!Request, CliOptions
<1>27. CASE UNCHANGED vars
  BY <1>27 DEF vars
<1> QED
  BY <1>1, <1>2, <1>3, <1>4, <1>5, <1>6, <1>7, <1>8, <1>9, <1>10, <1>11, <1>12, <1>13, <1>14,
     <1>15, <1>16, <1>17, <1>18, <1>19, <1>20, <1>21, <1>22, <1>23, <1>24, <1>25, <1>26,
     <1>27 DEF Next, Stage

(* main implements Compiler, whatever the files are called and however     *)
(* often it is run, fails or is killed.                                    *)
THEOREM ImplementsCompiler == Spec => CompilesOrLeavesAlone
<1>1. Init => Abstract!Init
  BY InitImplements
<1>2. IInv /\ [Next]_vars => [Abstract!Next]_(Abstract!vars)
  BY NextImplements
<1> QED
  BY <1>1, <1>2, Invariance, PTL DEF Spec, CompilesOrLeavesAlone, Abstract!Spec

-----------------------------------------------------------------------------
(* The stage "load": SourceFile, for files of every length and every width *)
(* of its u32.                                                             *)

(* What is allocated and open depends on how far SourceLoad has come.      *)
Holdings ==
    /\ call = "fopen" => ~ open
    /\ call \in {"fopen", "ftell", "rewind"} => blocks = {}
    /\ call = "fread" => blocks = {"data"}
    /\ call = "loaded" => ~ open /\ blocks = {"data", "path"}
    /\ call \in {"failed", "freed"} => ~ open /\ blocks = {}

(* Lengths: what ftell said, what was allocated for it, what was read.     *)
Lengths ==
    /\ file \in Seq(Bytes) /\ data \in Seq(Bytes)
    /\ fileLen \in 0 .. U32Max /\ room \in Nat
    /\ call \in {"fopen", "ftell", "rewind", "fread", "loaded", "failed", "undefined", "freed"}
    /\ call \in {"fopen", "ftell", "rewind"} => data = << >>
    /\ call = "fread" => Len(data) <= fileLen
    /\ call = "fread" /\ fileLen # U32Max => room = fileLen + 1
    /\ call = "loaded" => Len(data) = fileLen

(* As long as nobody has written the file, what was read is its beginning. *)
Beginning ==
    call \in {"rewind", "fread", "loaded"} /\ ~ changed =>
        /\ Len(file) = fileLen
        /\ \A p \in 1 .. Len(data) : p <= Len(file) /\ data[p] = file[p]

FileInv == Holdings /\ Lengths /\ Beginning /\ OutsideOnlyAtMaximum

-----------------------------------------------------------------------------

(* One more than a length fits the width for all lengths but the largest.  *)
LEMMA NoWrap ==
    ASSUME NEW n \in Nat, NEW m \in Nat, n < m
    PROVE  (n + 1) % (m + 1) = n + 1
  OBVIOUS

(* The room is a number.                                                   *)
LEMMA RoomIsNat ==
    ASSUME NEW n \in Nat, NEW m \in Nat
    PROVE  (n + 1) % (m + 1) \in Nat
  OBVIOUS

(* A file is a sequence of bytes.                                          *)
LEMMA ContentsAreSeqs == Contents \subseteq Seq(Bytes)
<1> SUFFICES ASSUME NEW content \in Contents PROVE content \in Seq(Bytes)
  OBVIOUS
<1>1. PICK n \in 0 .. MaxFileLen : content \in [1 .. n -> Bytes]
  BY DEF Contents
<1>2. n \in Nat
  BY <1>1, WidthAssumption
<1> QED
  BY <1>1, <1>2, IsASeq

(* Nothing has been opened, allocated or read at first.                    *)
LEMMA FileStarts == FileInit => FileInv
<1> SUFFICES ASSUME FileInit PROVE FileInv
  OBVIOUS
<1>1. Lengths
  BY ContentsAreSeqs, EmptySeq, WidthAssumption DEF FileInit, Lengths
<1>2. Holdings /\ Beginning /\ OutsideOnlyAtMaximum
  BY DEF FileInit, Holdings, Beginning, OutsideOnlyAtMaximum
<1> QED
  BY <1>1, <1>2 DEF FileInv

(* Every call of SourceLoad, and every write by somebody else, keeps it.   *)
LEMMA FileSteps == FileInv /\ [FileNext]_fileVars => FileInv'
<1> SUFFICES ASSUME FileInv, [FileNext]_fileVars PROVE FileInv'
  OBVIOUS
<1> USE DEF FileInv
<1>1. CASE OpenFile
  BY <1>1, WidthAssumption DEF OpenFile, Holdings, Lengths, Beginning, OutsideOnlyAtMaximum
<1>2. CASE OpenFileFails
  BY <1>2, WidthAssumption DEF OpenFileFails, Holdings, Lengths, Beginning, OutsideOnlyAtMaximum
<1>3. CASE CallFails
  BY <1>3, WidthAssumption DEF CallFails, Holdings, Lengths, Beginning, OutsideOnlyAtMaximum
<1>4. CASE Measure
  <2>1. Len(file) \in Nat /\ Len(data) = 0
    BY <1>4, LenProperties, EmptySeq DEF Measure, Lengths
  <2>2. Lengths'
    BY <1>4, <2>1, WidthAssumption DEF Measure, Lengths
  <2>3. Holdings'
    BY <1>4 DEF Measure, Holdings
  <2>4. Beginning' /\ OutsideOnlyAtMaximum'
    BY <1>4, <2>1 DEF Measure, Beginning, OutsideOnlyAtMaximum
  <2> QED
    BY <2>2, <2>3, <2>4
<1>5. CASE Allocate
  <2>1. room' \in Nat /\ (fileLen # U32Max => room' = fileLen + 1)
    BY <1>5, NoWrap, RoomIsNat, WidthAssumption DEF Allocate, Lengths
  <2>2. Len(data) = 0
    BY <1>5, EmptySeq DEF Allocate, Lengths
  <2>3. Lengths'
    BY <1>5, <2>1, <2>2, WidthAssumption DEF Allocate, Lengths
  <2>4. Holdings' /\ Beginning' /\ OutsideOnlyAtMaximum'
    BY <1>5 DEF Allocate, Holdings, Beginning, OutsideOnlyAtMaximum
  <2> QED
    BY <2>3, <2>4
<1>6. CASE Read
  <2> DEFINE byte == file[Len(data) + 1]
  <2>1. byte \in Bytes
    BY <1>6, ElementOfSeq, LenProperties DEF Read, Lengths
  <2>2. /\ data' \in Seq(Bytes)
        /\ Len(data') = Len(data) + 1
        /\ \A p \in 1 .. Len(data) : data'[p] = data[p]
        /\ data'[Len(data) + 1] = byte
    BY <1>6, <2>1, AppendProperties DEF Read, Lengths
  <2>3. Lengths'
    BY <1>6, <2>2, LenProperties, WidthAssumption DEF Read, Wanting, Lengths
  <2>4. Beginning'
    BY <1>6, <2>2, LenProperties DEF Read, Wanting, Beginning, Lengths
  <2>5. Holdings' /\ OutsideOnlyAtMaximum'
    BY <1>6 DEF Read, Wanting, Holdings, OutsideOnlyAtMaximum
  <2> QED
    BY <2>3, <2>4, <2>5
<1>7. CASE ShortRead
  BY <1>7, WidthAssumption DEF ShortRead, Wanting, Holdings, Lengths, Beginning, OutsideOnlyAtMaximum
<1>8. CASE Terminate
  BY <1>8, WidthAssumption DEF Terminate, Holdings, Lengths, Beginning, OutsideOnlyAtMaximum
<1>9. CASE WriteOutside
  <2>1. fileLen = U32Max
    BY <1>9, LenProperties DEF WriteOutside, Lengths
  <2> QED
    BY <1>9, <2>1, WidthAssumption DEF WriteOutside, Holdings, Lengths, Beginning, OutsideOnlyAtMaximum
<1>10. CASE SourceFree
  BY <1>10, EmptySeq, WidthAssumption DEF SourceFree, Holdings, Lengths, Beginning, OutsideOnlyAtMaximum
<1>11. CASE Change
  <2>1. file' \in Seq(Bytes)
    <3>1. CASE \E byte \in Bytes : file' = Append(file, byte)
      BY <3>1, AppendProperties DEF Lengths
    <3>2. CASE \E n \in 0 .. Len(file) - 1 : file' = SubSeq(file, 1, n)
      BY <3>2, SubSeqProperties, LenProperties DEF Lengths
    <3> QED
      BY <1>11, <3>1, <3>2 DEF Change
  <2>2. Lengths'
    BY <1>11, <2>1 DEF Change, Lengths
  <2> QED
    BY <1>11, <2>2 DEF Change, Holdings, Beginning, OutsideOnlyAtMaximum
<1>12. CASE UNCHANGED fileVars
  BY <1>12 DEF fileVars, Holdings, Lengths, Beginning, OutsideOnlyAtMaximum
<1> QED
  BY <1>1, <1>2, <1>3, <1>4, <1>5, <1>6, <1>7, <1>8, <1>9, <1>10, <1>11, <1>12
     DEF FileNext, Load

(* So the invariant holds.                                                 *)
THEOREM FileInvariance == FileSpec => []FileInv
  BY FileStarts, FileSteps, PTL DEF FileSpec

-----------------------------------------------------------------------------

(* Whatever others do to the file, a loaded text is as long as the file    *)
(* was when it was measured, and is the file if nobody wrote it since.     *)
THEOREM LoadsWholeOrNot == FileSpec => []LoadsWhatItMeasured
<1>1. FileInv => LoadsWhatItMeasured
  <2> SUFFICES ASSUME FileInv, call = "loaded"
               PROVE  Len(data) = fileLen /\ (~ changed => data = file)
    BY DEF LoadsWhatItMeasured
  <2>1. Len(data) = fileLen
    BY DEF FileInv, Lengths
  <2>2. ASSUME ~ changed PROVE data = file
    <3>1. Len(file) = Len(data) /\ \A p \in 1 .. Len(data) : data[p] = file[p]
      BY <2>1, <2>2 DEF FileInv, Beginning
    <3> QED
      BY <3>1, SeqEqual DEF FileInv, Lengths
  <2> QED
    BY <2>1, <2>2
<1> QED
  BY <1>1, FileInvariance, PTL

(* For every width, the longest file accepted is the only one for which    *)
(* SourceLoad writes outside of what it allocated.                         *)
THEOREM OverrunsOnlyAtMaximum == FileSpec => []OutsideOnlyAtMaximum
<1>1. FileInv => OutsideOnlyAtMaximum
  BY DEF FileInv
<1> QED
  BY <1>1, FileInvariance, PTL

(* Every way of failing, and SourceFree, gives everything back.            *)
THEOREM GivesBack == FileSpec => []HoldsNothingItDoesNotReturn
<1>1. FileInv => HoldsNothingItDoesNotReturn
  BY DEF FileInv, Holdings, HoldsNothingItDoesNotReturn
<1> QED
  BY <1>1, FileInvariance, PTL

-----------------------------------------------------------------------------
(* The stage "cli": Cli, for every list of arguments.                      *)

(* The role of the p-th argument of t, given the roles f before it.        *)
RoleOf(f, t, p) ==
    IF p > 1 /\ f[p - 1] = "option" /\ t[p - 1].opt = "--output" THEN "value"
    ELSE IF \E q \in 1 .. p - 1 : f[q] = "option" /\ t[q].opt = "--" THEN "operand"
    ELSE IF t[p].opt = "none" THEN "operand" ELSE "option"

RolesUpTo(f, t, m) == \A p \in 1 .. m : f[p] = RoleOf(f, t, p)

Role == {"value", "operand", "option"}

(* However many arguments there are, each has a role.                      *)
LEMMA RolesExist ==
    ASSUME NEW t, NEW m \in Nat
    PROVE  \E f \in [1 .. m -> Role] : RolesUpTo(f, t, m)
<1> DEFINE S == {l \in Nat : \E f \in [1 .. l -> Role] : RolesUpTo(f, t, l)}
<1>1. 0 \in S
  <2>1. [p \in 1 .. 0 |-> "option"] \in [1 .. 0 -> Role]
    BY DEF Role
  <2>2. RolesUpTo([p \in 1 .. 0 |-> "option"], t, 0)
    BY DEF RolesUpTo
  <2> QED
    BY <2>1, <2>2
<1>2. ASSUME NEW l \in Nat, l \in S PROVE l + 1 \in S
  <2>1. PICK f \in [1 .. l -> Role] : RolesUpTo(f, t, l)
    BY <1>2
  <2> DEFINE last == RoleOf(f, t, l + 1)
             g == [p \in 1 .. l + 1 |-> IF p <= l THEN f[p] ELSE last]
  <2>2. last \in Role
    BY DEF RoleOf, Role
  <2> HIDE DEF last
  <2>3. g \in [1 .. l + 1 -> Role]
    BY <2>2
  <2>4. g[l + 1] = last /\ \A p \in 1 .. l : g[p] = f[p]
    OBVIOUS
  <2> HIDE DEF g
  <2>5. ASSUME NEW p \in 1 .. l + 1 PROVE RoleOf(g, t, p) = RoleOf(f, t, p)
    <3>1. \A q \in 1 .. p - 1 : g[q] = f[q]
      BY <2>4
    <3>2. p > 1 => g[p - 1] = f[p - 1]
      BY <3>1
    <3> QED
      BY <3>1, <3>2 DEF RoleOf
  <2>6. ASSUME NEW p \in 1 .. l + 1 PROVE g[p] = RoleOf(g, t, p)
    <3>1. CASE p = l + 1
      BY <2>4, <2>5, <3>1 DEF last
    <3>2. CASE p # l + 1
      <4>1. p \in 1 .. l
        BY <3>2
      <4>2. f[p] = RoleOf(f, t, p)
        BY <2>1, <4>1 DEF RolesUpTo
      <4> QED
        BY <2>4, <2>5, <4>1, <4>2
    <3> QED
      BY <3>1, <3>2
  <2> QED
    BY <2>3, <2>6 DEF RolesUpTo
<1>3. Nat \subseteq S
  <2> HIDE DEF S
  <2> QED
    BY <1>1, <1>2, Induction
<1> QED
  BY <1>3

(* They are the ones of the property.                                      *)
LEMMA RolesMeant ==
    ASSUME args \in Seq(Arguments)
    PROVE  /\ Roles \in [1 .. Len(args) -> Role]
           /\ RolesUpTo(Roles, args, Len(args))
<1> DEFINE IsRoles(f) == f = [p \in 1 .. Len(args) |-> RoleOf(f, args, p)]
<1>1. PICK f \in [1 .. Len(args) -> Role] : RolesUpTo(f, args, Len(args))
  <2>1. Len(args) \in Nat
    BY LenProperties
  <2> QED
    BY <2>1, RolesExist
<1>2. IsRoles(f)
  BY <1>1 DEF RolesUpTo
<1>3. Roles = CHOOSE g : IsRoles(g)
  BY DEF Roles, RoleOf
<1>4. IsRoles(Roles)
  <2> HIDE DEF IsRoles
  <2> QED
    BY <1>2, <1>3, Zenon
<1>5. ASSUME NEW p \in 1 .. Len(args) PROVE Roles[p] = RoleOf(Roles, args, p)
  BY <1>4, Zenon
<1>6. ASSUME NEW p \in 1 .. Len(args) PROVE Roles[p] \in Role
  BY <1>5 DEF RoleOf, Role
<1>7. Roles \in [1 .. Len(args) -> Role]
  <2>1. Roles = [p \in 1 .. Len(args) |-> Roles[p]]
    BY <1>4, <1>5, Zenon
  <2> QED
    BY <1>6, <2>1
<1> QED
  BY <1>5, <1>7 DEF RolesUpTo

-----------------------------------------------------------------------------
(* What the scan knows of the first m arguments of t, whose roles are r.   *)

AskedFor(t, r, o, m) == {p \in 1 .. m : r[p] = "option" /\ t[p].opt = o}
OperandsIn(r, m) == {p \in 1 .. m : r[p] = "operand"}

(* The arguments moved behind the options are the operands.                *)
OperandsFound(t, r, m, moved) ==
    /\ moved \in Seq(Arguments)
    /\ Cardinality(OperandsIn(r, m)) = Len(moved)
    /\ Len(moved) = 1 => \A p \in OperandsIn(r, m) : moved[1] = t[p]

(* All options are known, and every --output has its value behind it.      *)
OptionsKnown(t, r, m) ==
    /\ \A p \in 1 .. m : r[p] = "option" => t[p].opt \in longOpts \cup {"--"}
    /\ \A p \in AskedFor(t, r, "--output", m) : p < m

(* The stages asked for are those whose option is given.                   *)
StagesFound(t, r, m, stages) ==
    stages = {s \in PipelineStage : AskedFor(t, r, OptionFor(s), m) # {}}

(* The output path is the value of the last --output.                      *)
OutputFound(t, r, m, value) ==
    /\ value = << >> <=> AskedFor(t, r, "--output", m) = {}
    /\ \A p \in AskedFor(t, r, "--output", m) :
          (\A q \in AskedFor(t, r, "--output", m) : q <= p) => value = <<t[p + 1].path>>

Found(t, r, m, moved, stages, value) ==
    /\ OperandsFound(t, r, m, moved) /\ OptionsKnown(t, r, m)
    /\ StagesFound(t, r, m, stages) /\ OutputFound(t, r, m, value)

ScanTypes ==
    /\ args \in Seq(Arguments)
    /\ phase \in {"options", "checks", "done", "failed"}
    /\ phase = "options" => next \in 1 .. Len(args) + 1

Scanned ==
    /\ phase = "options" =>
          /\ Found(args, Roles, next - 1, operands, want, outputArg)
          /\ AskedFor(args, Roles, "--", next - 1) = {}
    /\ phase \in {"checks", "done"} =>
          Found(args, Roles, Len(args), operands, want, outputArg)

Returned ==
    LET input == operands[1].path
    IN  /\ Complaints = << >>
        /\ result = [inputPath  |-> input,
                   outputPath |-> IF outputArg = << >> THEN DefaultOutputPath(input)
                                  ELSE outputArg[1],
                   furthest   |-> Furthest]

ScanInv ==
    /\ ScanTypes /\ Scanned
    /\ phase = "done" => Returned
    /\ phase = "failed" => ~ Acceptable

(* The role of the next argument when no value and no end was before it.   *)
LEMMA NextRole ==
    ASSUME NEW t, NEW r, NEW m \in Nat, NEW l \in Nat, m < l,
           RolesUpTo(r, t, l), OptionsKnown(t, r, m), AskedFor(t, r, "--", m) = {}
    PROVE  r[m + 1] = IF t[m + 1].opt = "none" THEN "operand" ELSE "option"
<1>1. m + 1 \in 1 .. l /\ (m + 1) - 1 = m
  OBVIOUS
<1> DEFINE x == m + 1
<1>2. x \in 1 .. l /\ x - 1 = m
  BY <1>1
<1> HIDE DEF x
<1>3. r[x] = RoleOf(r, t, x)
  BY <1>2 DEF RolesUpTo
<1>4. ~ (x > 1 /\ r[x - 1] = "option" /\ t[x - 1].opt = "--output")
  <2> SUFFICES ASSUME x > 1, r[m] = "option", t[m].opt = "--output" PROVE FALSE
    BY <1>2
  <2>1. m \in AskedFor(t, r, "--output", m)
    BY <1>2 DEF AskedFor
  <2> QED
    BY <2>1 DEF OptionsKnown
<1>5. ~ \E q \in 1 .. x - 1 : r[q] = "option" /\ t[q].opt = "--"
  BY <1>2 DEF AskedFor
<1>6. r[x] = IF t[x].opt = "none" THEN "operand" ELSE "option"
  BY <1>3, <1>4, <1>5 DEF RoleOf
<1> QED
  BY <1>6 DEF x

(* An argument more.                                                       *)
LEMMA AskedMore ==
    ASSUME NEW t, NEW r, NEW o, NEW m \in Nat
    PROVE  /\ r[m + 1] = "option" /\ t[m + 1].opt = o =>
                AskedFor(t, r, o, m + 1) = AskedFor(t, r, o, m) \cup {m + 1}
           /\ ~ (r[m + 1] = "option" /\ t[m + 1].opt = o) =>
                AskedFor(t, r, o, m + 1) = AskedFor(t, r, o, m)
<1>1. 1 .. m + 1 = (1 .. m) \cup {m + 1}
  OBVIOUS
<1> QED
  BY <1>1 DEF AskedFor

(* There are finitely many operands, and one more where there is one.      *)
LEMMA OperandsMore ==
    ASSUME NEW r, NEW m \in Nat
    PROVE  /\ IsFiniteSet(OperandsIn(r, m)) /\ Cardinality(OperandsIn(r, m)) \in Nat
           /\ r[m + 1] = "operand" =>
                /\ OperandsIn(r, m + 1) = OperandsIn(r, m) \cup {m + 1}
                /\ Cardinality(OperandsIn(r, m + 1)) = Cardinality(OperandsIn(r, m)) + 1
           /\ r[m + 1] # "operand" => OperandsIn(r, m + 1) = OperandsIn(r, m)
<1>1. IsFiniteSet(OperandsIn(r, m)) /\ Cardinality(OperandsIn(r, m)) \in Nat
  <2>1. IsFiniteSet(1 .. m)
    BY FS_Interval
  <2>2. OperandsIn(r, m) \in SUBSET (1 .. m)
    BY DEF OperandsIn
  <2>3. IsFiniteSet(OperandsIn(r, m))
    BY <2>1, <2>2, FS_Subset
  <2> QED
    BY <2>3, FS_CardinalityType
<1>2. /\ r[m + 1] = "operand" => OperandsIn(r, m + 1) = OperandsIn(r, m) \cup {m + 1}
      /\ r[m + 1] # "operand" => OperandsIn(r, m + 1) = OperandsIn(r, m)
  <2>1. 1 .. m + 1 = (1 .. m) \cup {m + 1}
    OBVIOUS
  <2> QED
    BY <2>1 DEF OperandsIn
<1>3. m + 1 \notin OperandsIn(r, m)
  BY DEF OperandsIn
<1>4. Cardinality(OperandsIn(r, m) \cup {m + 1}) = Cardinality(OperandsIn(r, m)) + 1
  BY <1>1, <1>3, FS_AddElement
<1> QED
  BY <1>1, <1>2, <1>4

(* An operand is moved behind the options.                                 *)
LEMMA OperandMoved ==
    ASSUME NEW t, NEW r, NEW m \in Nat, NEW moved, OperandsFound(t, r, m, moved),
           r[m + 1] = "operand", t[m + 1] \in Arguments
    PROVE  OperandsFound(t, r, m + 1, Append(moved, t[m + 1]))
<1> DEFINE x == t[m + 1]
           after == Append(moved, x)
<1>1. /\ moved \in Seq(Arguments) /\ Len(moved) \in Nat
      /\ Cardinality(OperandsIn(r, m)) = Len(moved)
  BY LenProperties DEF OperandsFound
<1>2. /\ after \in Seq(Arguments) /\ Len(after) = Len(moved) + 1
      /\ after[Len(moved) + 1] = x
  BY <1>1, AppendProperties
<1>3. Cardinality(OperandsIn(r, m + 1)) = Len(after)
  BY <1>1, <1>2, OperandsMore
<1>4. ASSUME Len(after) = 1, NEW p \in OperandsIn(r, m + 1) PROVE after[1] = t[p]
  <2>1. Len(moved) = 0 /\ IsFiniteSet(OperandsIn(r, m))
    BY <1>1, <1>2, <1>4, OperandsMore
  <2>2. OperandsIn(r, m) = {}
    BY <1>1, <2>1, FS_EmptySet
  <2>3. p = m + 1
    <3>1. OperandsIn(r, m + 1) = OperandsIn(r, m) \cup {m + 1}
      BY OperandsMore
    <3> QED
      BY <2>2, <3>1
  <2> QED
    BY <1>2, <2>1, <2>3
<1> HIDE DEF after
<1>5. OperandsFound(t, r, m + 1, after)
  BY <1>2, <1>3, <1>4 DEF OperandsFound
<1> QED
  BY <1>5 DEF after

(* Anything else is not.                                                   *)
LEMMA OperandsKept ==
    ASSUME NEW t, NEW r, NEW m \in Nat, NEW moved, OperandsFound(t, r, m, moved),
           r[m + 1] # "operand"
    PROVE  OperandsFound(t, r, m + 1, moved)
<1>1. /\ OperandsIn(r, m + 1) = OperandsIn(r, m)
      /\ Cardinality(OperandsIn(r, m + 1)) = Cardinality(OperandsIn(r, m))
  <2>1. OperandsIn(r, m + 1) = OperandsIn(r, m)
    BY OperandsMore
  <2> QED
    BY <2>1
<1> QED
  BY <1>1 DEF OperandsFound

(* The options are different ones.                                         *)
LEMMA OptionNames ==
    /\ \A s \in PipelineStage : /\ OptionFor(s) \in longOpts
                        /\ OptionFor(s) \notin {"none", "--", "--output"}
    /\ \A s, s2 \in PipelineStage : OptionFor(s) = OptionFor(s2) => s = s2
    /\ "--output" \in longOpts /\ "--" \notin longOpts /\ "none" \notin longOpts
    /\ "compile" \in PipelineStage /\ "parse" \in PipelineStage /\ "tokenize" \in PipelineStage
    /\ OptionFor("compile") = "--compile" /\ OptionFor("parse") = "--parse"
<1>1. /\ OptionFor("compile") = "--compile" /\ OptionFor("parse") = "--parse"
      /\ OptionFor("tokenize") = "--tokenize"
  BY DEF OptionFor
<1>2. \A s \in PipelineStage : s = "tokenize" \/ s = "parse" \/ s = "compile"
  BY DEF PipelineStage
<1> QED
  BY <1>1, <1>2 DEF longOpts, PipelineStage

(* What a scanned argument that is no option changes of the options.       *)
LEMMA NoOptionKept ==
    ASSUME NEW t, NEW r, NEW m \in Nat, NEW stages, NEW value,
           OptionsKnown(t, r, m), StagesFound(t, r, m, stages), OutputFound(t, r, m, value),
           r[m + 1] # "option"
    PROVE  /\ OptionsKnown(t, r, m + 1) /\ StagesFound(t, r, m + 1, stages)
           /\ OutputFound(t, r, m + 1, value)
           /\ \A o : AskedFor(t, r, o, m + 1) = AskedFor(t, r, o, m)
<1>1. \A o : AskedFor(t, r, o, m + 1) = AskedFor(t, r, o, m)
  BY AskedMore
<1>2. OptionsKnown(t, r, m + 1)
  <2>1. \A p \in 1 .. m + 1 : p \in 1 .. m \/ p = m + 1
    OBVIOUS
  <2>2. \A p \in AskedFor(t, r, "--output", m) : p < m + 1
    BY DEF AskedFor
  <2> QED
    BY <1>1, <2>1, <2>2 DEF OptionsKnown
<1>3. StagesFound(t, r, m + 1, stages)
  BY <1>1 DEF StagesFound
<1>4. OutputFound(t, r, m + 1, value)
  BY <1>1 DEF OutputFound
<1> QED
  BY <1>1, <1>2, <1>3, <1>4

(* A stage is asked for.                                                   *)
LEMMA StageAsked ==
    ASSUME NEW t, NEW r, NEW m \in Nat, NEW stages, NEW value, NEW s \in PipelineStage,
           OptionsKnown(t, r, m), StagesFound(t, r, m, stages), OutputFound(t, r, m, value),
           r[m + 1] = "option", t[m + 1].opt = OptionFor(s)
    PROVE  /\ OptionsKnown(t, r, m + 1) /\ StagesFound(t, r, m + 1, stages \cup {s})
           /\ OutputFound(t, r, m + 1, value)
           /\ AskedFor(t, r, "--", m + 1) = AskedFor(t, r, "--", m)
<1>1. /\ AskedFor(t, r, OptionFor(s), m + 1) # {}
      /\ \A o : o # OptionFor(s) => AskedFor(t, r, o, m + 1) = AskedFor(t, r, o, m)
  <2>1. AskedFor(t, r, OptionFor(s), m + 1) =
          AskedFor(t, r, OptionFor(s), m) \cup {m + 1}
    <3>1. 1 .. m + 1 = (1 .. m) \cup {m + 1}
      OBVIOUS
    <3> QED
      BY <3>1 DEF AskedFor
  <2>2. ASSUME NEW o, o # OptionFor(s)
        PROVE  AskedFor(t, r, o, m + 1) = AskedFor(t, r, o, m)
    BY <2>2, AskedMore
  <2> QED
    BY <2>1, <2>2
<1>2. /\ AskedFor(t, r, "--output", m + 1) = AskedFor(t, r, "--output", m)
      /\ AskedFor(t, r, "--", m + 1) = AskedFor(t, r, "--", m)
  BY <1>1, OptionNames
<1>3. OptionsKnown(t, r, m + 1)
  <2>1. \A p \in 1 .. m + 1 : p \in 1 .. m \/ p = m + 1
    OBVIOUS
  <2>2. \A p \in AskedFor(t, r, "--output", m) : p < m + 1
    BY DEF AskedFor
  <2>3. t[m + 1].opt \in longOpts \cup {"--"}
    BY OptionNames
  <2> QED
    BY <1>2, <2>1, <2>2, <2>3 DEF OptionsKnown
<1>4. StagesFound(t, r, m + 1, stages \cup {s})
  <2>1. ASSUME NEW s2 \in PipelineStage
        PROVE  s2 \in stages \cup {s} <=> AskedFor(t, r, OptionFor(s2), m + 1) # {}
    <3>1. CASE s2 = s
      BY <1>1, <3>1
    <3>2. CASE s2 # s
      <4>1. AskedFor(t, r, OptionFor(s2), m + 1) = AskedFor(t, r, OptionFor(s2), m)
        BY <1>1, <3>2, OptionNames
      <4> QED
        BY <3>2, <4>1 DEF StagesFound
    <3> QED
      BY <3>1, <3>2
  <2>2. stages \cup {s} \subseteq PipelineStage
    BY DEF StagesFound
  <2> QED
    BY <2>1, <2>2 DEF StagesFound
<1>5. OutputFound(t, r, m + 1, value)
  BY <1>2 DEF OutputFound
<1> QED
  BY <1>2, <1>3, <1>4, <1>5

(* --output takes the argument behind it along.                            *)
LEMMA OutputAsked ==
    ASSUME NEW t, NEW r, NEW m \in Nat, NEW l \in Nat, NEW stages, NEW value,
           OptionsKnown(t, r, m), StagesFound(t, r, m, stages), OutputFound(t, r, m, value),
           RolesUpTo(r, t, l), m + 1 < l,
           r[m + 1] = "option", t[m + 1].opt = "--output"
    PROVE  /\ r[m + 2] = "value"
           /\ OptionsKnown(t, r, m + 2) /\ StagesFound(t, r, m + 2, stages)
           /\ OutputFound(t, r, m + 2, <<t[m + 2].path>>)
           /\ AskedFor(t, r, "--", m + 2) = AskedFor(t, r, "--", m)
<1> DEFINE x == m + 1
           y == x + 1
<1>1. x \in Nat /\ y = m + 2 /\ y \in 1 .. l /\ y > 1 /\ y - 1 = x /\ x = m + 1
  OBVIOUS
<1>2. r[x] = "option" /\ t[x].opt = "--output"
  OBVIOUS
<1> HIDE DEF x, y
<1>3. r[y] = "value"
  <2>1. r[y] = RoleOf(r, t, y)
    BY <1>1 DEF RolesUpTo
  <2> QED
    BY <1>1, <1>2, <2>1 DEF RoleOf
<1>4. \A o : AskedFor(t, r, o, y) = AskedFor(t, r, o, x)
  <2>1. ASSUME NEW o PROVE AskedFor(t, r, o, x + 1) = AskedFor(t, r, o, x)
    <3>1. r[x + 1] # "option"
      BY <1>3 DEF y
    <3> QED
      BY <1>1, <3>1, AskedMore
  <2> QED
    BY <2>1 DEF y
<1>5. /\ AskedFor(t, r, "--output", x) = AskedFor(t, r, "--output", m) \cup {x}
      /\ \A o : o # "--output" => AskedFor(t, r, o, x) = AskedFor(t, r, o, m)
  <2>1. AskedFor(t, r, "--output", m + 1) = AskedFor(t, r, "--output", m) \cup {m + 1}
    <3>1. 1 .. m + 1 = (1 .. m) \cup {m + 1}
      OBVIOUS
    <3> QED
      BY <3>1 DEF AskedFor
  <2>2. ASSUME NEW o, o # "--output" PROVE AskedFor(t, r, o, m + 1) = AskedFor(t, r, o, m)
    BY <2>2, AskedMore
  <2> QED
    BY <2>1, <2>2 DEF x
<1>6. AskedFor(t, r, "--output", y) = AskedFor(t, r, "--output", m) \cup {x}
  BY <1>4, <1>5
<1>7. \A p \in AskedFor(t, r, "--output", m) : p \in 1 .. m
  BY DEF AskedFor
<1>8. OptionsKnown(t, r, y)
  <2>1. \A p \in 1 .. y : p \in 1 .. m \/ p = x \/ p = y
    BY <1>1
  <2>2. \A p \in AskedFor(t, r, "--output", y) : p < y
    BY <1>1, <1>6, <1>7
  <2>3. \A p \in 1 .. y : r[p] = "option" => t[p].opt \in longOpts \cup {"--"}
    BY <1>2, <1>3, <2>1, OptionNames DEF OptionsKnown
  <2> QED
    BY <2>2, <2>3 DEF OptionsKnown
<1>9. StagesFound(t, r, y, stages)
  <2>1. ASSUME NEW s \in PipelineStage
        PROVE  AskedFor(t, r, OptionFor(s), y) = AskedFor(t, r, OptionFor(s), m)
    <3>1. OptionFor(s) # "--output"
      BY OptionNames
    <3> QED
      BY <1>4, <1>5, <3>1
  <2> QED
    BY <2>1 DEF StagesFound
<1>10. OutputFound(t, r, y, <<t[y].path>>)
  <2>1. AskedFor(t, r, "--output", y) # {} /\ <<t[y].path>> # << >>
    BY <1>6
  <2>2. ASSUME NEW p \in AskedFor(t, r, "--output", y),
               \A q \in AskedFor(t, r, "--output", y) : q <= p
        PROVE  p + 1 = y
    <3>1. x <= p
      BY <1>6, <2>2
    <3>2. p = x
      BY <1>1, <1>6, <1>7, <3>1
    <3> QED
      BY <3>2 DEF y
  <2> QED
    BY <2>1, <2>2 DEF OutputFound
<1>11. AskedFor(t, r, "--", y) = AskedFor(t, r, "--", m)
  BY <1>4, <1>5
<1> QED
  BY <1>1, <1>3, <1>8, <1>9, <1>10, <1>11

(* Behind the end of the options there are only operands.                  *)
LEMMA OperandsBehind ==
    ASSUME NEW t, NEW r, NEW m \in Nat, NEW l \in Nat, m < l,
           RolesUpTo(r, t, l), r[m + 1] = "option", t[m + 1].opt = "--"
    PROVE  \A p \in m + 2 .. l : r[p] = "operand"
<1> DEFINE S == {z \in Nat : m + 2 + z <= l => r[m + 2 + z] = "operand"}
<1>1. ASSUME NEW p \in m + 2 .. l,
             ~ (r[p - 1] = "option" /\ t[p - 1].opt = "--output")
      PROVE  r[p] = "operand"
  <2>1. p \in 1 .. l /\ m + 1 \in 1 .. p - 1
    OBVIOUS
  <2>2. r[p] = RoleOf(r, t, p)
    BY <2>1 DEF RolesUpTo
  <2> QED
    BY <1>1, <2>1, <2>2 DEF RoleOf
<1>2. 0 \in S
  <2> SUFFICES ASSUME m + 2 <= l PROVE r[m + 2] = "operand"
    OBVIOUS
  <2>1. m + 2 \in m + 2 .. l /\ (m + 2) - 1 = m + 1
    OBVIOUS
  <2>2. ~ (r[(m + 2) - 1] = "option" /\ t[(m + 2) - 1].opt = "--output")
    BY <2>1
  <2> QED
    BY <1>1, <2>1, <2>2
<1>3. ASSUME NEW z \in Nat, z \in S PROVE z + 1 \in S
  <2> DEFINE p == m + 2 + (z + 1)
  <2> SUFFICES ASSUME p <= l PROVE r[p] = "operand"
    OBVIOUS
  <2>1. p \in m + 2 .. l /\ p - 1 = m + 2 + z /\ m + 2 + z <= l
    OBVIOUS
  <2>2. r[p - 1] = "operand"
    BY <1>3, <2>1
  <2> HIDE DEF p
  <2> QED
    BY <1>1, <2>1, <2>2
<1>4. Nat \subseteq S
  <2> HIDE DEF S
  <2> QED
    BY <1>2, <1>3, Induction
<1>5. ASSUME NEW p \in m + 2 .. l PROVE r[p] = "operand"
  <2> DEFINE z == p - (m + 2)
  <2>1. z \in Nat /\ m + 2 + z = p /\ m + 2 + z <= l
    OBVIOUS
  <2>2. z \in S
    <3> HIDE DEF S, z
    <3> QED
      BY <1>4, <2>1
  <2> HIDE DEF z
  <2> QED
    BY <2>1, <2>2
<1> QED
  BY <1>5

(* The end of the options moves all of them.                               *)
LEMMA EndFound ==
    ASSUME NEW t \in Seq(Arguments), NEW r, NEW m \in Nat, NEW moved, NEW stages, NEW value,
           Found(t, r, m, moved, stages, value), m < Len(t),
           RolesUpTo(r, t, Len(t)), r[m + 1] = "option", t[m + 1].opt = "--"
    PROVE  Found(t, r, Len(t), moved \o SubSeq(t, m + 2, Len(t)), stages, value)
<1> DEFINE l == Len(t)
           rest == SubSeq(t, m + 2, l)
           all == moved \o rest
<1>1. l \in Nat /\ m < l
  BY LenProperties
<1>2. \A p \in m + 2 .. l : r[p] = "operand"
  BY <1>1, OperandsBehind
<1>3. \A p \in 1 .. l : p \in 1 .. m \/ p = m + 1 \/ p \in m + 2 .. l
  BY <1>1
<1>4. \A o : o # "--" => AskedFor(t, r, o, l) = AskedFor(t, r, o, m)
  BY <1>1, <1>2, <1>3 DEF AskedFor
<1>5. OptionsKnown(t, r, l)
  <2>1. AskedFor(t, r, "--output", l) = AskedFor(t, r, "--output", m)
    BY <1>4
  <2>3. \A p \in AskedFor(t, r, "--output", m) : p \in 1 .. m
    BY DEF AskedFor
  <2>4. \A p \in AskedFor(t, r, "--output", l) : p < l
    BY <1>1, <2>1, <2>3
  <2>2. \A p \in 1 .. l : r[p] = "option" => t[p].opt \in longOpts \cup {"--"}
    BY <1>2, <1>3 DEF Found, OptionsKnown
  <2> QED
    BY <2>2, <2>4 DEF OptionsKnown
<1>6. StagesFound(t, r, l, stages)
  <2>1. \A s \in PipelineStage :
           AskedFor(t, r, OptionFor(s), l) = AskedFor(t, r, OptionFor(s), m)
    BY <1>4, OptionNames
  <2> QED
    BY <2>1 DEF Found, StagesFound
<1>7. OutputFound(t, r, l, value)
  <2>1. AskedFor(t, r, "--output", l) = AskedFor(t, r, "--output", m)
    BY <1>4
  <2> QED
    BY <2>1 DEF Found, OutputFound
<1>8. /\ moved \in Seq(Arguments) /\ Len(moved) \in Nat
      /\ Cardinality(OperandsIn(r, m)) = Len(moved)
      /\ Len(moved) = 1 => \A p \in OperandsIn(r, m) : moved[1] = t[p]
  BY LenProperties DEF Found, OperandsFound
<1>9. /\ rest \in Seq(Arguments) /\ Len(rest) = l - (m + 1)
      /\ \A p \in 1 .. l - (m + 1) : rest[p] = t[m + 1 + p]
  <2>1. \A p \in m + 2 .. l : t[p] \in Arguments
    BY <1>1, ElementOfSeq
  <2>2. /\ rest \in Seq(Arguments)
        /\ Len(rest) = IF m + 2 <= l THEN l - (m + 2) + 1 ELSE 0
        /\ \A p \in 1 .. l - (m + 2) + 1 : rest[p] = t[m + 2 + p - 1]
    BY <1>1, <2>1, SubSeqProperties
  <2> HIDE DEF rest, l
  <2>3. l - (m + 2) + 1 = l - (m + 1) /\ (~ m + 2 <= l => l - (m + 1) = 0)
    BY <1>1
  <2>4. Len(rest) = l - (m + 1)
    BY <2>2, <2>3
  <2>5. \A p \in 1 .. l - (m + 1) : m + 2 + p - 1 = m + 1 + p
    BY <1>1
  <2>6. \A p \in 1 .. l - (m + 1) : rest[p] = t[m + 2 + p - 1]
    BY <2>2, <2>3
  <2> QED
    BY <2>2, <2>4, <2>5, <2>6
<1> HIDE DEF l, rest
<1>10. /\ all \in Seq(Arguments) /\ Len(all) = Len(moved) + (l - (m + 1))
       /\ \A p \in 1 .. Len(moved) + (l - (m + 1)) :
             all[p] = IF p <= Len(moved) THEN moved[p] ELSE rest[p - Len(moved)]
  <2>1. /\ all \in Seq(Arguments) /\ Len(all) = Len(moved) + Len(rest)
        /\ \A p \in 1 .. Len(moved) + Len(rest) :
              all[p] = IF p <= Len(moved) THEN moved[p] ELSE rest[p - Len(moved)]
    <3>1. moved \in Seq(Arguments) /\ rest \in Seq(Arguments)
      BY <1>8, <1>9
    <3> QED
      BY <3>1, ConcatProperties, Zenon
  <2> HIDE DEF all
  <2> QED
    BY <1>9, <2>1
<1>11. OperandsIn(r, l) = OperandsIn(r, m) \cup (m + 2 .. l)
  BY <1>1, <1>2, <1>3 DEF OperandsIn
<1>12. /\ IsFiniteSet(OperandsIn(r, m)) /\ IsFiniteSet(m + 2 .. l)
       /\ Cardinality(m + 2 .. l) = l - (m + 1)
       /\ OperandsIn(r, m) \cap (m + 2 .. l) = {}
  <2>1. IsFiniteSet(OperandsIn(r, m))
    BY OperandsMore
  <2>2. IsFiniteSet(m + 2 .. l) /\ Cardinality(m + 2 .. l) = l - (m + 1)
    <3> DEFINE low == m + 2
    <3>1. low \in Int /\ l \in Int
      BY <1>1
    <3> HIDE DEF low
    <3>2. /\ IsFiniteSet(low .. l)
          /\ Cardinality(low .. l) = IF low > l THEN 0 ELSE l - low + 1
      BY <3>1, FS_Interval
    <3> QED
      BY <1>1, <3>2 DEF low
  <2>3. OperandsIn(r, m) \cap (m + 2 .. l) = {}
    BY <1>1 DEF OperandsIn
  <2> QED
    BY <1>1, <2>1, <2>2, <2>3
<1>13. Cardinality(OperandsIn(r, l)) = Len(all)
  <2>1. Cardinality(OperandsIn(r, m) \cup (m + 2 .. l)) =
          Cardinality(OperandsIn(r, m)) + Cardinality(m + 2 .. l)
          - Cardinality(OperandsIn(r, m) \cap (m + 2 .. l))
    BY <1>12, FS_Union
  <2>2. Cardinality(OperandsIn(r, m) \cap (m + 2 .. l)) = 0
    BY <1>12, FS_EmptySet
  <2> QED
    BY <1>1, <1>8, <1>10, <1>11, <1>12, <2>1, <2>2
<1>14. ASSUME Len(all) = 1, NEW p \in OperandsIn(r, l) PROVE all[1] = t[p]
  <2>1. CASE Len(moved) = 1
    <3>1. m + 2 .. l = {}
      BY <1>1, <1>10, <1>14, <2>1
    <3>2. p \in OperandsIn(r, m)
      BY <1>11, <1>14, <3>1
    <3> QED
      BY <1>8, <1>10, <1>14, <2>1, <3>2
  <2>2. CASE Len(moved) = 0
    <3>1. OperandsIn(r, m) = {}
      BY <1>8, <1>12, <2>2, FS_EmptySet
    <3>2. l = m + 2
      <4> HIDE DEF all
      <4>1. Len(all) = Len(moved) + (l - (m + 1)) /\ Len(all) = 1
        BY <1>10, <1>14
      <4>2. 1 = 0 + (l - (m + 1))
        BY <2>2, <4>1, Zenon
      <4> QED
        BY <1>1, <4>2
    <3>3. p = m + 2
      BY <1>1, <1>11, <1>14, <3>1, <3>2
    <3>4. all[1] = rest[1]
      <4> HIDE DEF all
      <4>1. 1 \in 1 .. Len(moved) + (l - (m + 1)) /\ ~ 1 <= Len(moved) /\ 1 - Len(moved) = 1
        BY <1>1, <2>2, <3>2
      <4> QED
        BY <1>10, <4>1
    <3>5. rest[1] = t[m + 2]
      <4>1. 1 \in 1 .. l - (m + 1) /\ m + 1 + 1 = m + 2
        BY <1>1, <3>2
      <4>2. rest[1] = t[m + 1 + 1]
        BY <1>9, <4>1
      <4> QED
        BY <4>1, <4>2
    <3> QED
      BY <3>3, <3>4, <3>5
  <2>3. Len(moved) = 0 \/ Len(moved) = 1
    BY <1>1, <1>8, <1>10, <1>14
  <2> QED
    BY <2>1, <2>2, <2>3
<1> HIDE DEF all
<1>15. OperandsFound(t, r, l, all)
  BY <1>10, <1>13, <1>14 DEF OperandsFound
<1>16. Found(t, r, l, all, stages, value)
  BY <1>5, <1>6, <1>7, <1>15 DEF Found
<1> QED
  BY <1>16 DEF l, all, rest

-----------------------------------------------------------------------------
(* The scan finds what the command line means.                             *)

(* The sets of the property are the scanned ones.                          *)
LEMMA SetsMeant ==
    /\ With("operand") = OperandsIn(Roles, Len(args))
    /\ \A o : Given(o) = AskedFor(args, Roles, o, Len(args))
    /\ \A p \in 1 .. Len(args) : p \in With("option") <=> Roles[p] = "option"
BY DEF With, Given, OperandsIn, AskedFor

(* What is said about a command line does not change with the scan.        *)
LEMMA MeaningKept ==
    ASSUME args' = args
    PROVE  Roles' = Roles /\ (Acceptable' <=> Acceptable)
<1>1. Roles' = Roles
  BY DEF Roles
<1>2. \A o : With(o)' = With(o)
  BY <1>1 DEF With
<1>3. \A o : Given(o)' = Given(o)
  BY <1>2 DEF Given
<1>4. WellFormed' <=> WellFormed
  BY <1>2, <1>3 DEF WellFormed
<1>5. Acceptable' <=> Acceptable
  BY <1>2, <1>3, <1>4 DEF Acceptable
<1> QED
  BY <1>1, <1>5

(* Nothing is wrong exactly when none of the four complaints applies.      *)
LEMMA NoComplaints ==
    ASSUME operands \in Seq(Arguments)
    PROVE  Complaints = << >> <=>
             /\ Len(operands) = 1 /\ want # {}
             /\ outputArg # << >> => "compile" \in want
<1> DEFINE Text == {"no_input_file", "unexpected_extra_argument",
                    "no_pipeline_stage_specified", "output_requires_compile"}
           one == IF operands = << >> THEN <<"no_input_file">> ELSE << >>
           two == IF Len(operands) > 1 THEN <<"unexpected_extra_argument">> ELSE << >>
           three == IF want = {} THEN <<"no_pipeline_stage_specified">> ELSE << >>
           four == IF outputArg # << >> /\ "compile" \notin want
                   THEN <<"output_requires_compile">> ELSE << >>
<1>1. /\ one \in Seq(Text) /\ two \in Seq(Text) /\ three \in Seq(Text)
      /\ four \in Seq(Text)
  <2>1. ASSUME NEW what \in Text PROVE <<what>> \in Seq(Text)
    <3> HIDE DEF Text
    <3> QED
      OBVIOUS
  <2>2. << >> \in Seq(Text)
    <3> HIDE DEF Text
    <3> QED
      OBVIOUS
  <2>3. /\ <<"no_input_file">> \in Seq(Text)
        /\ <<"unexpected_extra_argument">> \in Seq(Text)
        /\ <<"no_pipeline_stage_specified">> \in Seq(Text)
        /\ <<"output_requires_compile">> \in Seq(Text)
    BY <2>1, Zenon
  <2> HIDE DEF Text
  <2> QED
    BY <2>2, <2>3
<1>2. /\ one = << >> <=> operands # << >>
      /\ two = << >> <=> ~ Len(operands) > 1
      /\ three = << >> <=> want # {}
      /\ four = << >> <=> (outputArg # << >> => "compile" \in want)
  OBVIOUS
<1>3. Complaints = one \o two \o three \o four
  BY DEF Complaints
<1> HIDE DEF one, two, three, four, Text
<1>4. Complaints = << >> <=> one = << >> /\ two = << >> /\ three = << >> /\ four = << >>
  <2>1. /\ Len(one) \in Nat /\ Len(two) \in Nat /\ Len(three) \in Nat /\ Len(four) \in Nat
        /\ Len(one) = 0 <=> one = << >>
        /\ Len(two) = 0 <=> two = << >>
        /\ Len(three) = 0 <=> three = << >>
        /\ Len(four) = 0 <=> four = << >>
    BY <1>1, LenProperties, EmptySeq
  <2>2. one \o two \in Seq(Text) /\ Len(one \o two) = Len(one) + Len(two)
    BY <1>1, ConcatProperties, Zenon
  <2>3. /\ one \o two \o three \in Seq(Text)
        /\ Len(one \o two \o three) = Len(one \o two) + Len(three)
    BY <1>1, <2>2, ConcatProperties, Zenon
  <2>4. /\ Complaints \in Seq(Text)
        /\ Len(Complaints) = Len(one \o two \o three) + Len(four)
    BY <1>1, <1>3, <2>3, ConcatProperties, Zenon
  <2>5. Len(Complaints) = 0 <=> Complaints = << >>
    BY <2>4, EmptySeq
  <2>6. Len(Complaints) = Len(one) + Len(two) + Len(three) + Len(four)
    BY <2>2, <2>3, <2>4
  <2> QED
    BY <2>1, <2>5, <2>6
<1>5. operands # << >> /\ ~ Len(operands) > 1 <=> Len(operands) = 1
  <2> DEFINE k == Len(operands)
  <2>1. k \in Nat /\ (k = 0 <=> operands = << >>)
    BY LenProperties, EmptySeq
  <2> HIDE DEF k
  <2>2. k # 0 /\ ~ k > 1 <=> k = 1
    BY <2>1
  <2> QED
    BY <2>1, <2>2 DEF k
<1> QED
  BY <1>2, <1>4, <1>5

(* Behind the scan, the complaints are about what is not acceptable.       *)
LEMMA ComplaintsMeant ==
    ASSUME args \in Seq(Arguments),
           Found(args, Roles, Len(args), operands, want, outputArg)
    PROVE  Complaints = << >> <=> Acceptable
<1> DEFINE l == Len(args)
<1>1. /\ operands \in Seq(Arguments) /\ l \in Nat
      /\ Cardinality(With("operand")) = Len(operands)
  BY SetsMeant, LenProperties DEF Found, OperandsFound
<1>2. WellFormed
  <2>1. ASSUME NEW p \in With("option") PROVE args[p].opt \in longOpts \cup {"--"}
    BY <2>1 DEF Found, OptionsKnown, With
  <2>2. \A p \in Given("--output") : p < Len(args)
    BY SetsMeant DEF Found, OptionsKnown
  <2> QED
    BY <2>1, <2>2 DEF WellFormed
<1>3. /\ want # {} <=> \E s \in PipelineStage : Given(OptionFor(s)) # {}
      /\ "compile" \in want <=> Given("--compile") # {}
  <2>1. want = {s \in PipelineStage : Given(OptionFor(s)) # {}}
    BY SetsMeant DEF Found, StagesFound
  <2> QED
    BY <2>1, OptionNames
<1>4. outputArg # << >> <=> Given("--output") # {}
  BY SetsMeant DEF Found, OutputFound
<1> QED
  BY <1>1, <1>2, <1>3, <1>4, NoComplaints DEF Acceptable

(* Nothing is known of no arguments.                                       *)
LEMMA FoundInit ==
    ASSUME NEW t, NEW r
    PROVE  Found(t, r, 0, << >>, {}, << >>) /\ AskedFor(t, r, "--", 0) = {}
<1>1. \A o : AskedFor(t, r, o, 0) = {}
  BY DEF AskedFor
<1>2. OperandsFound(t, r, 0, << >>)
  <2>1. OperandsIn(r, 0) = {}
    BY DEF OperandsIn
  <2>2. Cardinality(OperandsIn(r, 0)) = 0
    BY <2>1, FS_EmptySet
  <2> QED
    BY <2>2 DEF OperandsFound
<1>3. OptionsKnown(t, r, 0) /\ StagesFound(t, r, 0, {}) /\ OutputFound(t, r, 0, << >>)
  BY <1>1 DEF OptionsKnown, StagesFound, OutputFound
<1> QED
  BY <1>1, <1>2, <1>3 DEF Found

(* The scan starts with nothing found.                                     *)
LEMMA ScanInit == CliInit => ScanInv
<1> SUFFICES ASSUME CliInit PROVE ScanInv
  OBVIOUS
<1>1. args \in Seq(Arguments) /\ Len(args) \in Nat
  BY ArgumentsAssumption, LenProperties DEF CliInit
<1>2. next - 1 = 0 /\ operands = << >> /\ want = {} /\ outputArg = << >> /\ phase = "options"
  BY DEF CliInit
<1>3. /\ Found(args, Roles, next - 1, operands, want, outputArg)
      /\ AskedFor(args, Roles, "--", next - 1) = {}
  BY <1>2, FoundInit
<1>4. ScanTypes
  BY <1>1 DEF CliInit, ScanTypes
<1> QED
  BY <1>2, <1>3, <1>4 DEF ScanInv, Scanned

-----------------------------------------------------------------------------
(* Each step of the scan.                                                  *)

(* What holds when an argument is looked at.                               *)
LEMMA ScanAt ==
    ASSUME ScanInv, Scanning
    PROVE  /\ args \in Seq(Arguments) /\ Len(args) \in Nat
           /\ next \in Nat /\ next - 1 \in Nat /\ (next - 1) + 1 = next
           /\ next - 1 < Len(args) /\ next \in 1 .. Len(args)
           /\ args[next] \in Arguments
           /\ RolesUpTo(Roles, args, Len(args))
           /\ Found(args, Roles, next - 1, operands, want, outputArg)
           /\ AskedFor(args, Roles, "--", next - 1) = {}
           /\ Roles[next] =
                 IF args[next].opt = "none" THEN "operand" ELSE "option"
<1>1. /\ args \in Seq(Arguments) /\ next \in 1 .. Len(args) + 1 /\ next <= Len(args)
      /\ Found(args, Roles, next - 1, operands, want, outputArg)
      /\ AskedFor(args, Roles, "--", next - 1) = {}
  BY DEF ScanInv, ScanTypes, Scanned, Scanning
<1>2. Len(args) \in Nat
  BY <1>1, LenProperties
<1>3. /\ next \in Nat /\ next - 1 \in Nat /\ (next - 1) + 1 = next
      /\ next - 1 < Len(args) /\ next \in 1 .. Len(args)
  BY <1>1, <1>2
<1>4. args[next] \in Arguments
  BY <1>1, <1>3, ElementOfSeq
<1>5. RolesUpTo(Roles, args, Len(args))
  BY <1>1, RolesMeant
<1>6. Roles[next] = IF args[next].opt = "none" THEN "operand" ELSE "option"
  <2> DEFINE m == next - 1
  <2>1. m \in Nat /\ m < Len(args) /\ m + 1 = next
    BY <1>3
  <2>2. OptionsKnown(args, Roles, m) /\ AskedFor(args, Roles, "--", m) = {}
    BY <1>1 DEF Found
  <2> HIDE DEF m
  <2>3. Roles[m + 1] = IF args[m + 1].opt = "none" THEN "operand" ELSE "option"
    BY <1>2, <1>5, <2>1, <2>2, NextRole
  <2> QED
    BY <2>1, <2>3
<1> QED
  BY <1>1, <1>2, <1>3, <1>4, <1>5, <1>6

(* What is left to show for a step to another argument.                    *)
LEMMA ScanOn ==
    ASSUME ScanInv, Scanning, args' = args, phase' = phase, NEW k \in Nat,
           next' = k + 1, k <= Len(args),
           Found(args, Roles, k, operands', want', outputArg'),
           AskedFor(args, Roles, "--", k) = {}
    PROVE  ScanInv'
<1>1. phase = "options" /\ phase' = "options"
  BY DEF Scanning
<1>2. Roles' = Roles
  BY MeaningKept
<1>3. next' - 1 = k /\ next' \in 1 .. Len(args') + 1
  BY ScanAt
<1>4. /\ Found(args', Roles', next' - 1, operands', want', outputArg')
      /\ AskedFor(args', Roles', "--", next' - 1) = {}
  BY <1>2, <1>3
<1>5. ScanTypes'
  BY <1>1, <1>3, ScanAt DEF ScanTypes
<1> QED
  BY <1>1, <1>4, <1>5 DEF ScanInv, Scanned

(* An operand is moved.                                                    *)
LEMMA SkipOperandFinds == ScanInv /\ SkipOperand => ScanInv'
<1> SUFFICES ASSUME ScanInv, SkipOperand PROVE ScanInv'
  OBVIOUS
<1>1. /\ Scanning /\ args[next].opt = "none" /\ args' = args /\ phase' = phase
      /\ operands' = Append(operands, args[next]) /\ next' = next + 1
      /\ want' = want /\ outputArg' = outputArg
  BY DEF SkipOperand
<1> DEFINE m == next - 1
<1>2. /\ m \in Nat /\ m + 1 = next /\ m + 1 <= Len(args) /\ args[m + 1] \in Arguments
      /\ Roles[m + 1] = "operand"
      /\ Found(args, Roles, m, operands, want, outputArg)
      /\ AskedFor(args, Roles, "--", m) = {}
  BY <1>1, ScanAt
<1> HIDE DEF m
<1>3. /\ OperandsFound(args, Roles, m, operands) /\ OptionsKnown(args, Roles, m)
      /\ StagesFound(args, Roles, m, want) /\ OutputFound(args, Roles, m, outputArg)
  BY <1>2 DEF Found
<1>4. OperandsFound(args, Roles, m + 1, Append(operands, args[m + 1]))
  BY <1>2, <1>3, OperandMoved
<1>5. /\ OptionsKnown(args, Roles, m + 1) /\ StagesFound(args, Roles, m + 1, want)
      /\ OutputFound(args, Roles, m + 1, outputArg)
      /\ AskedFor(args, Roles, "--", m + 1) = {}
  <2>1. Roles[m + 1] # "option"
    BY <1>2
  <2> QED
    BY <1>2, <1>3, <2>1, NoOptionKept
<1>6. Found(args, Roles, next, operands', want', outputArg')
  BY <1>1, <1>2, <1>4, <1>5 DEF Found
<1>7. next \in Nat /\ next <= Len(args) /\ AskedFor(args, Roles, "--", next) = {}
  BY <1>1, <1>2, <1>5, ScanAt
<1> QED
  BY <1>1, <1>6, <1>7, ScanOn

(* A stage is asked for.                                                   *)
LEMMA StageOptionFinds == ScanInv /\ StageOption => ScanInv'
<1> SUFFICES ASSUME ScanInv, StageOption PROVE ScanInv'
  OBVIOUS
<1>1. PICK s \in PipelineStage : args[next].opt = OptionFor(s) /\ want' = want \cup {s}
  BY DEF StageOption
<1>2. /\ Scanning /\ args' = args /\ phase' = phase /\ operands' = operands
      /\ next' = next + 1 /\ outputArg' = outputArg
  BY DEF StageOption
<1> DEFINE m == next - 1
<1>3. /\ m \in Nat /\ m + 1 = next /\ m + 1 <= Len(args)
      /\ Roles[m + 1] = "option" /\ args[m + 1].opt = OptionFor(s)
      /\ Found(args, Roles, m, operands, want, outputArg)
      /\ AskedFor(args, Roles, "--", m) = {}
  <2>1. args[next].opt # "none"
    BY <1>1, OptionNames
  <2> QED
    BY <1>1, <1>2, <2>1, ScanAt
<1> HIDE DEF m
<1>4. /\ OperandsFound(args, Roles, m, operands) /\ OptionsKnown(args, Roles, m)
      /\ StagesFound(args, Roles, m, want) /\ OutputFound(args, Roles, m, outputArg)
  BY <1>3 DEF Found
<1>5. OperandsFound(args, Roles, m + 1, operands)
  <2>1. Roles[m + 1] # "operand"
    BY <1>3
  <2> QED
    BY <1>3, <1>4, <2>1, OperandsKept
<1>6. /\ OptionsKnown(args, Roles, m + 1)
      /\ StagesFound(args, Roles, m + 1, want \cup {s})
      /\ OutputFound(args, Roles, m + 1, outputArg)
      /\ AskedFor(args, Roles, "--", m + 1) = {}
  BY <1>3, <1>4, StageAsked
<1>7. Found(args, Roles, next, operands', want', outputArg')
  BY <1>1, <1>2, <1>3, <1>5, <1>6 DEF Found
<1>8. next \in Nat /\ next <= Len(args) /\ AskedFor(args, Roles, "--", next) = {}
  BY <1>2, <1>3, <1>6, ScanAt
<1> QED
  BY <1>2, <1>7, <1>8, ScanOn

(* --output takes its value.                                               *)
LEMMA OutputOptionFinds == ScanInv /\ OutputOption => ScanInv'
<1> SUFFICES ASSUME ScanInv, OutputOption PROVE ScanInv'
  OBVIOUS
<1>1. /\ Scanning /\ args[next].opt = "--output" /\ next < Len(args)
      /\ outputArg' = <<args[next + 1].path>> /\ next' = next + 2
      /\ args' = args /\ operands' = operands /\ want' = want /\ phase' = phase
  BY DEF OutputOption
<1> DEFINE m == next - 1
           l == Len(args)
<1>2. /\ m \in Nat /\ l \in Nat /\ m + 1 = next /\ m + 2 = next + 1 /\ m + 1 < l
      /\ Roles[m + 1] = "option" /\ args[m + 1].opt = "--output"
      /\ Found(args, Roles, m, operands, want, outputArg)
      /\ AskedFor(args, Roles, "--", m) = {} /\ RolesUpTo(Roles, args, l)
  BY <1>1, ScanAt
<1> HIDE DEF m, l
<1>3. /\ OperandsFound(args, Roles, m, operands) /\ OptionsKnown(args, Roles, m)
      /\ StagesFound(args, Roles, m, want) /\ OutputFound(args, Roles, m, outputArg)
  BY <1>2 DEF Found
<1>4. /\ Roles[m + 2] = "value"
      /\ OptionsKnown(args, Roles, m + 2) /\ StagesFound(args, Roles, m + 2, want)
      /\ OutputFound(args, Roles, m + 2, <<args[m + 2].path>>)
      /\ AskedFor(args, Roles, "--", m + 2) = {}
  BY <1>2, <1>3, OutputAsked
<1>5. OperandsFound(args, Roles, m + 2, operands)
  <2> DEFINE x == m + 1
  <2>1. x \in Nat /\ x + 1 = m + 2 /\ Roles[m + 1] # "operand"
    BY <1>2
  <2>2. OperandsFound(args, Roles, x, operands)
    BY <1>2, <1>3, <2>1, OperandsKept
  <2>3. Roles[x + 1] # "operand"
    BY <1>4, <2>1
  <2> HIDE DEF x
  <2>4. OperandsFound(args, Roles, x + 1, operands)
    BY <2>1, <2>2, <2>3, OperandsKept
  <2> QED
    BY <2>1, <2>4
<1>6. Found(args, Roles, m + 2, operands', want', outputArg')
  BY <1>1, <1>2, <1>4, <1>5 DEF Found
<1>7. m + 2 \in Nat /\ m + 2 <= Len(args) /\ next' = (m + 2) + 1
  BY <1>1, <1>2 DEF l
<1> QED
  BY <1>1, <1>4, <1>6, <1>7, ScanOn

(* The scan ends, at "--" or behind the last argument.                     *)
LEMMA EndOfOptionsFinds == ScanInv /\ EndOfOptions => ScanInv'
<1> SUFFICES ASSUME ScanInv, EndOfOptions PROVE ScanInv'
  OBVIOUS
<1>1. phase' = "checks" /\ args' = args /\ want' = want /\ outputArg' = outputArg
  BY DEF EndOfOptions
<1>2. Found(args, Roles, Len(args), operands', want, outputArg)
  <2>1. CASE phase = "options" /\ next > Len(args) /\ operands' = operands
    <3>1. /\ Found(args, Roles, next - 1, operands, want, outputArg)
          /\ next \in 1 .. Len(args) + 1 /\ args \in Seq(Arguments)
      BY <2>1 DEF ScanInv, ScanTypes, Scanned
    <3>2. next - 1 = Len(args)
      <4>1. Len(args) \in Nat
        BY <3>1, LenProperties
      <4> QED
        BY <2>1, <3>1, <4>1
    <3> QED
      BY <2>1, <3>1, <3>2
  <2>2. CASE /\ Scanning /\ args[next].opt = "--"
             /\ operands' = operands \o SubSeq(args, next + 1, Len(args))
    <3> DEFINE m == next - 1
    <3>1. /\ m \in Nat /\ m + 1 = next /\ m + 2 = next + 1 /\ m < Len(args)
          /\ Roles[m + 1] = "option" /\ args[m + 1].opt = "--"
          /\ Found(args, Roles, m, operands, want, outputArg)
          /\ args \in Seq(Arguments) /\ RolesUpTo(Roles, args, Len(args))
      BY <2>2, ScanAt
    <3> HIDE DEF m
    <3>2. Found(args, Roles, Len(args), operands \o SubSeq(args, m + 2, Len(args)),
                want, outputArg)
      BY <3>1, EndFound
    <3> QED
      BY <2>2, <3>1, <3>2
  <2> QED
    BY <2>1, <2>2 DEF EndOfOptions
<1>3. Found(args', Roles', Len(args'), operands', want', outputArg')
  BY <1>1, <1>2, MeaningKept
<1>4. ScanTypes'
  BY <1>1 DEF ScanInv, ScanTypes
<1> QED
  BY <1>1, <1>3, <1>4 DEF ScanInv, Scanned

(* Nothing that is turned down is acceptable.                              *)
LEMMA FailedIsWrong ==
    ASSUME ScanInv, phase' = "failed", args' = args, ~ Acceptable
    PROVE  ScanInv'
<1>1. ~ Acceptable'
  BY MeaningKept
<1>2. ScanTypes'
  BY DEF ScanInv, ScanTypes
<1> QED
  BY <1>1, <1>2 DEF ScanInv, Scanned

(* An unknown option, or --output without a value.                         *)
LEMMA UnknownOptionIsWrong == ScanInv /\ UnknownOption => ScanInv'
<1> SUFFICES ASSUME ScanInv, UnknownOption PROVE ScanInv'
  OBVIOUS
<1>1. Scanning /\ phase' = "failed" /\ args' = args
  BY DEF UnknownOption, Fail
<1>2. args[next].opt # "none" /\ args[next].opt # "--"
  BY DEF UnknownOption
<1>3. next \in 1 .. Len(args) /\ Roles[next] = "option"
  BY <1>1, <1>2, ScanAt
<1>4. ~ WellFormed
  <2>1. next \in With("option")
    BY <1>3, SetsMeant
  <2>2. CASE args[next].opt \notin longOpts \cup {"none", "--"}
    BY <2>1, <2>2 DEF WellFormed
  <2>3. CASE args[next].opt = "--output" /\ next = Len(args)
    <3>1. next \in Given("--output")
      BY <2>1, <2>3 DEF Given
    <3>2. ~ next < Len(args)
      BY <1>1, <2>3, ScanAt
    <3> QED
      BY <3>1, <3>2 DEF WellFormed
  <2> QED
    BY <2>2, <2>3 DEF UnknownOption
<1> QED
  BY <1>1, <1>4, FailedIsWrong DEF Acceptable

(* The checks behind the loop.                                             *)
LEMMA ComplainIsWrong == ScanInv /\ Complain => ScanInv'
<1> SUFFICES ASSUME ScanInv, Complain PROVE ScanInv'
  OBVIOUS
<1>1. /\ phase = "checks" /\ Complaints # << >> /\ phase' = "failed" /\ args' = args
  BY DEF Complain, Fail
<1>2. /\ args \in Seq(Arguments)
      /\ Found(args, Roles, Len(args), operands, want, outputArg)
  BY <1>1 DEF ScanInv, ScanTypes, Scanned
<1> QED
  BY <1>1, <1>2, ComplaintsMeant, FailedIsWrong

(* The options are returned.                                               *)
LEMMA ReturnReturns == ScanInv /\ ReturnOptions => ScanInv'
<1> SUFFICES ASSUME ScanInv, ReturnOptions PROVE ScanInv'
  OBVIOUS
<1>1. /\ phase = "checks" /\ phase' = "done" /\ args' = args /\ operands' = operands
      /\ want' = want /\ outputArg' = outputArg
  BY DEF ReturnOptions
<1>2. Complaints' = << >> /\ Furthest' = Furthest
  BY <1>1 DEF ReturnOptions, Complaints, Furthest
<1>3. Returned'
  BY <1>1, <1>2 DEF ReturnOptions, Returned
<1>4. Found(args', Roles', Len(args'), operands', want', outputArg')
  BY <1>1, MeaningKept DEF ScanInv, Scanned
<1>5. ScanTypes'
  BY <1>1 DEF ScanInv, ScanTypes
<1> QED
  BY <1>1, <1>3, <1>4, <1>5 DEF ScanInv, Scanned

(* A stuttering step changes nothing of this.                              *)
LEMMA ScanStutters == ScanInv /\ UNCHANGED cliVars => ScanInv'
<1> SUFFICES ASSUME ScanInv, UNCHANGED cliVars PROVE ScanInv'
  OBVIOUS
<1>1. /\ args' = args /\ next' = next /\ operands' = operands /\ want' = want
      /\ outputArg' = outputArg /\ phase' = phase /\ result' = result
  BY DEF cliVars
<1>2. Returned' <=> Returned
  <2>1. Complaints' = Complaints /\ Furthest' = Furthest
    BY <1>1 DEF Complaints, Furthest
  <2> QED
    BY <1>1, <2>1 DEF Returned
<1>3. Roles' = Roles /\ (Acceptable' <=> Acceptable)
  BY <1>1, MeaningKept
<1> QED
  BY <1>1, <1>2, <1>3 DEF ScanInv, ScanTypes, Scanned

(* The scan finds what the command line means, for every command line.     *)
THEOREM ScanInvariance == CliSpec => []ScanInv
<1>1. ScanInv /\ [CliNext]_cliVars => ScanInv'
  BY SkipOperandFinds, EndOfOptionsFinds, StageOptionFinds, OutputOptionFinds,
     UnknownOptionIsWrong, ComplainIsWrong, ReturnReturns, ScanStutters DEF CliNext
<1> QED
  BY <1>1, ScanInit, PTL DEF CliSpec

-----------------------------------------------------------------------------
(* What is accepted.                                                       *)

(* A command line is accepted exactly when it is acceptable, whatever the  *)
(* order of its arguments, and what is returned is what it means.          *)
THEOREM AcceptedAsMeant == CliSpec => []AcceptsByMeaning
<1>1. ScanInv => AcceptsByMeaning
  <2> SUFFICES ASSUME ScanInv PROVE AcceptsByMeaning
    OBVIOUS
  <2>1. CASE phase = "done"
    <3>1. /\ args \in Seq(Arguments) /\ Returned
          /\ Found(args, Roles, Len(args), operands, want, outputArg)
      BY <2>1 DEF ScanInv, ScanTypes, Scanned
    <3>2. Acceptable
      BY <3>1, ComplaintsMeant DEF Returned
    <3>3. ASSUME NEW i \in With("operand") PROVE result.inputPath = args[i].path
      <4>1. Len(operands) = 1
        BY <3>1, NoComplaints DEF Returned, Found, OperandsFound
      <4>2. operands[1] = args[i]
        BY <3>1, <3>3, <4>1, SetsMeant DEF Found, OperandsFound
      <4> QED
        BY <3>1, <4>2 DEF Returned
    <3>4. result.furthest = IF Given("--compile") # {} THEN "compile"
                          ELSE IF Given("--parse") # {} THEN "parse" ELSE "tokenize"
      <4>1. result.furthest = Furthest
        BY <3>1 DEF Returned
      <4>2. want = {s \in PipelineStage : Given(OptionFor(s)) # {}}
        BY <3>1, SetsMeant DEF Found, StagesFound
      <4>3. /\ "compile" \in want <=> Given("--compile") # {}
            /\ "parse" \in want <=> Given("--parse") # {}
        BY <4>2, OptionNames
      <4> QED
        BY <4>1, <4>3 DEF Furthest
    <3>5. ASSUME NEW i \in Given("--output"), \A j \in Given("--output") : j <= i
          PROVE  result.outputPath = args[i + 1].path
      <4>1. outputArg = <<args[i + 1].path>>
        BY <3>1, <3>5, SetsMeant DEF Found, OutputFound
      <4>2. result.outputPath = outputArg[1]
        BY <3>1, <4>1 DEF Returned
      <4> QED
        BY <4>1, <4>2
    <3> QED
      BY <2>1, <3>2, <3>3, <3>4, <3>5 DEF AcceptsByMeaning
  <2>2. CASE phase # "done"
    BY <2>2 DEF AcceptsByMeaning, ScanInv
  <2> QED
    BY <2>1, <2>2
<1> QED
  BY <1>1, ScanInvariance, PTL

-----------------------------------------------------------------------------
(* The default output path.                                                *)

(* A set of positions that has a member has a first and a last one.        *)
LEMMA FirstAndLast ==
    ASSUME NEW n \in Nat, NEW S, S \subseteq 1 .. n, S # {}
    PROVE  /\ \E p \in S : \A q \in S : p <= q
           /\ \E p \in S : \A q \in S : p >= q
<1>1. \E p \in S : \A q \in S : p <= q
  <2>1. S \subseteq Nat
    OBVIOUS
  <2> QED
    BY <2>1, LeastNumber
<1>2. \E p \in S : \A q \in S : p >= q
  <2> DEFINE R == {n - p : p \in S}
  <2>1. R \subseteq Nat /\ R # {}
    <3>1. \A p \in S : n - p \in Nat
      OBVIOUS
    <3>2. PICK p \in S : TRUE
      OBVIOUS
    <3>3. n - p \in R
      OBVIOUS
    <3> QED
      BY <3>1, <3>3
  <2>2. PICK z \in R : \A y \in R : z <= y
    <3> HIDE DEF R
    <3> QED
      BY <2>1, LeastNumber
  <2>3. PICK p \in S : z = n - p
    BY <2>2
  <2>4. ASSUME NEW q \in S PROVE p >= q
    <3>1. n - q \in R
      OBVIOUS
    <3>2. n - p <= n - q
      BY <2>2, <2>3, <3>1
    <3> QED
      BY <3>2
  <2> QED
    BY <2>4
<1> QED
  BY <1>1, <1>2

(* The base name is the path behind its last slash: it has none itself.    *)
LEMMA BaseType ==
    ASSUME NEW path \in Seq(Symbols)
    PROVE  /\ Basename(path) \in Seq(Symbols)
           /\ \A i \in 1 .. Len(Basename(path)) : Basename(path)[i] # "/"
           /\ Positions("/", path) = {} => Basename(path) = path
<1> DEFINE slashes == Positions("/", path)
           last == CHOOSE i \in slashes : \A j \in slashes : i >= j
<1>1. Len(path) \in Nat /\ slashes \subseteq 1 .. Len(path)
  BY LenProperties DEF Positions
<1>2. CASE slashes = {}
  <2>1. Basename(path) = path
    BY <1>2 DEF Basename
  <2> QED
    BY <1>2, <2>1 DEF Positions
<1>3. CASE slashes # {}
  <2>1. Basename(path) = SubSeq(path, last + 1, Len(path))
    BY <1>3 DEF Basename
  <2>2. last \in slashes /\ \A j \in slashes : last >= j
    <3> HIDE DEF slashes
    <3>1. \E i \in slashes : \A j \in slashes : i >= j
      BY <1>1, <1>3, FirstAndLast
    <3> QED
      BY <3>1
  <2>3. last \in 1 .. Len(path) /\ \A j \in 1 .. Len(path) : path[j] = "/" => last >= j
    BY <2>2 DEF Positions
  <2> HIDE DEF last
  <2> DEFINE low == last + 1
             l == Len(path)
             base == SubSeq(path, low, l)
  <2>4. low \in Nat /\ low >= 1 /\ l \in Nat /\ low <= l + 1
    BY <1>1, <2>3
  <2>5. /\ base \in Seq(Symbols) /\ Len(base) = IF low <= l THEN l - low + 1 ELSE 0
        /\ \A p \in 1 .. l - low + 1 : base[p] = path[low + p - 1]
    <3>1. \A p \in low .. l : path[p] \in Symbols
      BY <2>4, ElementOfSeq
    <3> QED
      BY <2>4, <3>1, SubSeqProperties
  <2>6. ASSUME NEW i \in 1 .. Len(base) PROVE base[i] # "/"
    <3>1. i \in 1 .. l - low + 1 /\ low + i - 1 \in 1 .. l /\ low + i - 1 > last
      <4> HIDE DEF base, l
      <4> QED
        BY <2>3, <2>4, <2>5, <2>6 DEF low
    <3>2. base[i] = path[low + i - 1]
      BY <2>5, <3>1
    <3>3. path[low + i - 1] # "/"
      BY <2>3, <3>1
    <3> QED
      BY <3>2, <3>3
  <2> QED
    BY <1>3, <2>1, <2>5, <2>6
<1> QED
  BY <1>2, <1>3

(* The stem is what is before the first dot.                               *)
LEMMA StemType ==
    ASSUME NEW base \in Seq(Symbols)
    PROVE  /\ StemLen(base) \in 0 .. Len(base)
           /\ \A i \in 1 .. StemLen(base) : base[i] # "."
<1> DEFINE dots == Positions(".", base)
           first == CHOOSE i \in dots : \A j \in dots : i <= j
<1>1. Len(base) \in Nat /\ dots \subseteq 1 .. Len(base)
  BY LenProperties DEF Positions
<1>2. CASE dots = {}
  <2>1. StemLen(base) = Len(base)
    BY <1>2 DEF StemLen
  <2> QED
    BY <1>1, <1>2, <2>1 DEF Positions
<1>3. CASE dots # {}
  <2>1. StemLen(base) = first - 1
    BY <1>3 DEF StemLen
  <2>2. first \in dots /\ \A j \in dots : first <= j
    <3> HIDE DEF dots
    <3>1. \E i \in dots : \A j \in dots : i <= j
      BY <1>1, <1>3, FirstAndLast
    <3> QED
      BY <3>1
  <2>3. first \in 1 .. Len(base) /\ \A j \in 1 .. Len(base) : base[j] = "." => first <= j
    BY <2>2 DEF Positions
  <2> HIDE DEF first
  <2> QED
    BY <1>1, <2>1, <2>3
<1> QED
  BY <1>2, <1>3

(* The default output path: a stem without a dot, and the extension.       *)
LEMMA DefaultPath ==
    ASSUME NEW path \in Seq(Symbols)
    PROVE  \E n \in Nat, stem \in Seq(Symbols) :
              /\ Len(stem) = n /\ DefaultOutputPath(path) = stem \o <<".", "out">>
              /\ \A i \in 1 .. n : stem[i] # "." /\ stem[i] # "/"
<1> DEFINE base == Basename(path)
           n == StemLen(base)
           stem == SubSeq(base, 1, n)
<1>1. base \in Seq(Symbols) /\ \A i \in 1 .. Len(base) : base[i] # "/"
  BY BaseType
<1>2. DefaultOutputPath(path) = stem \o <<".", "out">>
  BY DEF DefaultOutputPath
<1> HIDE DEF base
<1>3. n \in 0 .. Len(base) /\ \A i \in 1 .. n : base[i] # "."
  BY <1>1, StemType
<1>4. Len(base) \in Nat
  BY <1>1, LenProperties
<1> HIDE DEF n
<1>5. n \in Nat /\ n <= Len(base)
  BY <1>3, <1>4
<1>6. /\ stem \in Seq(Symbols) /\ Len(stem) = n
      /\ \A i \in 1 .. n : stem[i] = base[i]
  <2>1. \A p \in 1 .. n : base[p] \in Symbols
    BY <1>1, <1>4, <1>5, ElementOfSeq
  <2>2. /\ stem \in Seq(Symbols)
        /\ Len(stem) = IF 1 <= n THEN n - 1 + 1 ELSE 0
        /\ \A p \in 1 .. n - 1 + 1 : stem[p] = base[1 + p - 1]
    BY <1>5, <2>1, SubSeqProperties
  <2> HIDE DEF stem
  <2>3. n - 1 + 1 = n /\ \A p \in 1 .. n : 1 + p - 1 = p
    BY <1>5
  <2>4. Len(stem) = n
    BY <1>5, <2>2
  <2>5. \A p \in 1 .. n : stem[p] = base[p]
    BY <2>2, <2>3
  <2> QED
    BY <2>2, <2>4, <2>5
<1>7. \A i \in 1 .. n : stem[i] # "." /\ stem[i] # "/"
  BY <1>1, <1>3, <1>4, <1>5, <1>6
<1> QED
  BY <1>2, <1>5, <1>6, <1>7

(* What is returned without --output, when the input is operand.           *)
LEMMA DefaultReturned ==
    ASSUME ScanInv, phase = "done", Given("--output") = {}
    PROVE  /\ result.inputPath \in Seq(Symbols) /\ Runs(result.inputPath)
           /\ result.outputPath = DefaultOutputPath(result.inputPath)
<1>1. /\ Returned /\ Found(args, Roles, Len(args), operands, want, outputArg)
  BY DEF ScanInv, Scanned
<1>2. operands \in Seq(Arguments) /\ Len(operands) = 1
  BY <1>1, NoComplaints DEF Returned, Found, OperandsFound
<1>3. operands[1] \in Arguments
  <2>1. 1 \in 1 .. Len(operands)
    BY <1>2
  <2> QED
    BY <1>2, <2>1, ElementOfSeq
<1>4. outputArg = << >>
  BY <1>1, SetsMeant DEF Found, OutputFound
<1>5. operands[1].path \in Seq(Symbols) /\ Runs(operands[1].path)
  BY <1>3, ArgumentsAssumption
<1>6. /\ result.inputPath = operands[1].path
      /\ result.outputPath = DefaultOutputPath(operands[1].path)
  BY <1>1, <1>4 DEF Returned
<1> QED
  BY <1>5, <1>6

(* A stem and the extension have one dot; what has the form of a path      *)
(* then has a stem of one run at most.                                     *)
LEMMA StemAndExtension ==
    ASSUME NEW n \in Nat, NEW stem \in Seq(Symbols), Len(stem) = n,
           \A i \in 1 .. n : stem[i] # "." /\ stem[i] # "/",
           NEW out, out = stem \o <<".", "out">>
    PROVE  /\ Positions("/", out) = {} /\ Cardinality(Positions(".", out)) = 1
           /\ Runs(out) => stem \in {<< >>, SubSeq(out, 1, 1)}
<1> DEFINE extension == <<".", "out">>
<1>1. extension \in Seq(Symbols) /\ Len(extension) = 2
      /\ extension[1] = "." /\ extension[2] = "out"
  BY ArgumentsAssumption
<1>2. out = stem \o extension
  OBVIOUS
<1> HIDE DEF extension
<1>3. /\ out \in Seq(Symbols) /\ Len(out) = Len(stem) + Len(extension)
      /\ \A i \in 1 .. Len(stem) + Len(extension) :
            out[i] = IF i <= Len(stem) THEN stem[i] ELSE extension[i - Len(stem)]
  <2> DEFINE all == stem \o extension
  <2>1. /\ all \in Seq(Symbols) /\ Len(all) = Len(stem) + Len(extension)
        /\ \A i \in 1 .. Len(stem) + Len(extension) :
              all[i] = IF i <= Len(stem) THEN stem[i] ELSE extension[i - Len(stem)]
    BY <1>1, ConcatProperties, Zenon
  <2>2. out = all
    BY <1>2
  <2> HIDE DEF all
  <2> QED
    BY <2>1, <2>2
<1>4. /\ Len(out) = n + 2
      /\ \A i \in 1 .. n + 2 : out[i] = IF i <= n THEN stem[i] ELSE extension[i - n]
  BY <1>1, <1>3
<1>5. /\ \A i \in 1 .. n : out[i] = stem[i]
      /\ out[n + 1] = "." /\ out[n + 2] = "out"
  <2>1. \A i \in 1 .. n : out[i] = stem[i]
    BY <1>4
  <2>2. n + 1 \in 1 .. n + 2 /\ ~ n + 1 <= n /\ (n + 1) - n = 1
    OBVIOUS
  <2>3. n + 2 \in 1 .. n + 2 /\ ~ n + 2 <= n /\ (n + 2) - n = 2
    OBVIOUS
  <2> QED
    BY <1>1, <1>4, <2>1, <2>2, <2>3
<1>6. \A i \in 1 .. n + 2 : i \in 1 .. n \/ i = n + 1 \/ i = n + 2
  OBVIOUS
<1>7. Positions("/", out) = {}
  BY <1>4, <1>5, <1>6 DEF Positions
<1>8. Positions(".", out) = {n + 1}
  BY <1>4, <1>5, <1>6 DEF Positions
<1>9. Cardinality(Positions(".", out)) = 1
  BY <1>8, FS_Singleton
<1>10. ASSUME Runs(out) PROVE stem \in {<< >>, SubSeq(out, 1, 1)}
  <2>1. n <= 1
    <3> SUFFICES ASSUME n > 1 PROVE FALSE
      OBVIOUS
    <3>1. 1 \in 1 .. Len(out) - 1 /\ 1 \in 1 .. n /\ 1 + 1 \in 1 .. n
      BY <1>4
    <3>2. out[1] \in {"/", "."} \/ out[1 + 1] \in {"/", "."}
      BY <1>10, <3>1 DEF Runs
    <3> QED
      BY <1>5, <3>1, <3>2
  <2>2. CASE n = 0
    BY <2>2, EmptySeq
  <2>3. CASE n = 1
    <3> DEFINE first == SubSeq(out, 1, 1)
    <3>1. first \in Seq(Symbols) /\ Len(first) = 1 /\ first[1] = out[1]
      <4>1. \A p \in 1 .. 1 : out[p] \in Symbols
        BY <1>3, <1>4, ElementOfSeq
      <4>2. /\ first \in Seq(Symbols)
            /\ Len(first) = IF 1 <= 1 THEN 1 - 1 + 1 ELSE 0
            /\ \A p \in 1 .. 1 - 1 + 1 : first[p] = out[1 + p - 1]
        BY <4>1, SubSeqProperties
      <4> HIDE DEF first
      <4> QED
        BY <4>2
    <3> HIDE DEF first
    <3>2. Len(stem) = 1 /\ stem[1] = out[1]
      BY <1>5, <2>3
    <3>3. stem = first
      <4>1. Len(stem) = Len(first) /\ \A i \in 1 .. Len(stem) : stem[i] = first[i]
        BY <3>1, <3>2
      <4> QED
        BY <3>1, <4>1, SeqEqual
    <3> QED
      BY <3>3 DEF first
  <2> QED
    BY <2>1, <2>2, <2>3
<1> QED
  BY <1>7, <1>9, <1>10

(* Without --output the result gets a name in the current directory whose  *)
(* one extension is .out, and an input is overwritten only if it already   *)
(* has such a name there.                                                  *)
THEOREM DefaultIsSparing == CliSpec => []DefaultSparesInput
<1>1. ScanInv => DefaultSparesInput
  <2> SUFFICES ASSUME ScanInv, phase = "done", Given("--output") = {}
               PROVE  /\ Positions("/", result.outputPath) = {}
                      /\ Cardinality(Positions(".", result.outputPath)) = 1
                      /\ result.outputPath = result.inputPath =>
                           \E stem \in {<< >>, SubSeq(result.inputPath, 1, 1)} :
                              result.inputPath = stem \o <<".", "out">>
    BY DEF DefaultSparesInput
  <2> DEFINE in == result.inputPath
             out == result.outputPath
  <2>1. in \in Seq(Symbols) /\ Runs(in) /\ out = DefaultOutputPath(in)
    BY DefaultReturned
  <2> HIDE DEF in, out
  <2>2. PICK n \in Nat, stem \in Seq(Symbols) :
              /\ Len(stem) = n /\ DefaultOutputPath(in) = stem \o <<".", "out">>
              /\ \A i \in 1 .. n : stem[i] # "." /\ stem[i] # "/"
    BY <2>1, DefaultPath
  <2>3. /\ Positions("/", out) = {} /\ Cardinality(Positions(".", out)) = 1
        /\ Runs(out) => stem \in {<< >>, SubSeq(out, 1, 1)}
    BY <2>1, <2>2, StemAndExtension
  <2>4. out = in => \E s \in {<< >>, SubSeq(in, 1, 1)} : in = s \o <<".", "out">>
    BY <2>1, <2>2, <2>3
  <2> QED
    BY <2>3, <2>4 DEF in, out
<1> QED
  BY <1>1, ScanInvariance, PTL
=============================================================================
