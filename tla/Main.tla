-------------------------------- MODULE Main --------------------------------
(***************************************************************************)
(* main of src/main.c: the stages one after the other with their gates,    *)
(* the output file, what each way out frees, and the exit code.  A stage   *)
(* is one action; what it finds wrong with a text is its verdict.          *)
(*                                                                         *)
(* The command can be run again on the files an earlier run left, killed   *)
(* ones included.  MaxRuns bounds how often.                               *)
(***************************************************************************)
EXTENDS Naturals, Sequences

CONSTANTS Paths,    \* names of files
          Input,    \* the name of the source file
          MaxRuns   \* runs of the command

ASSUME RunsAssumption == Input \in Paths /\ MaxRuns \in Nat \ {0}

(* What ParseCli returns, as far as main looks at it.  Whether a listing   *)
(* is wanted decides nothing but what is printed.                          *)
CliOptions == [furthest : {"tokenize", "parse", "compile"}, output : Paths]

(* Heap blocks, the open output file among them.  The names in tokens and  *)
(* statements are those of the token list.                                 *)
Block == {"output_path", "source", "lexer_diagnostics", "tokens",
          "parser_diagnostics", "statements", "code", "elf", "file"}

VARIABLES pc,        \* the stage to run next, "freeing", "ended"
          opts,      \* the command line
          disk,      \* the files: content and mode
          text,      \* what SourceLoad read
          verdict,   \* the first stage that objects to the program
          warns,     \* whether the parser has warnings about it
          live,      \* the blocks allocated and not freed
          pending,   \* on the way out: the frees still to do
          exitCode,  \* 0 to 5, "killed", "none" while running
          runs       \* runs of the command begun

vars == <<pc, opts, disk, text, verdict, warns, live, pending, exitCode, runs>>

VerdictOn(content) ==
    CASE content = "text"  -> verdict
      [] content = "empty" -> "codegen"
      [] OTHER             -> "lexer"

Init ==
    /\ pc = "cli"
    /\ opts \in CliOptions
    /\ disk \in {d \in [Paths -> [content : {"absent", "text", "other"}, executable : BOOLEAN]] :
                    /\ \A p \in Paths : d[p].content = (IF p = Input THEN "text" ELSE "other")
                                        \/ d[p] = [content |-> "absent", executable |-> FALSE]}
    /\ text = "none"
    /\ verdict \in {"lexer", "parser", "codegen", "accepted"}
    /\ warns \in BOOLEAN
    /\ live = {}
    /\ pending = << >>
    /\ exitCode = "none"
    /\ runs = 1

(* Error prints and exits: nothing is freed, the process's memory is gone. *)
Error ==
    /\ pc' = "ended" /\ exitCode' = "2"
    /\ live' = {}
    /\ UNCHANGED <<opts, text, verdict, warns, pending, runs>>

(* Broken: the tokens are freed with the names they share.                 *)
LeaveWithTokensTwice(code, frees, allocated) ==
    /\ pc' = "freeing" /\ exitCode' = code
    /\ live' = allocated
    /\ pending' = <<"tokens">> \o frees
    /\ UNCHANGED <<opts, disk, verdict, warns, runs>>

(* The rest of main is to free these blocks, in this order, and to return. *)
LeaveWith(code, frees, allocated) ==
    /\ pc' = "freeing" /\ exitCode' = code
    /\ live' = allocated
    /\ pending' = frees
    /\ UNCHANGED <<opts, disk, verdict, warns, runs>>

Go(next, allocated) ==
    /\ pc' = next
    /\ live' = allocated
    /\ UNCHANGED <<opts, disk, verdict, warns, pending, exitCode, runs>>

-----------------------------------------------------------------------------

(* The options are those of this run; ParseCli owns up to one block.       *)
ParseCli ==
    /\ pc = "cli"
    /\ Go("load", live \cup {"output_path"})
    /\ UNCHANGED text

UsageError == pc = "cli" /\ Error /\ UNCHANGED disk

SourceLoad ==
    /\ pc = "load" /\ disk[Input].content # "absent"
    /\ text' = disk[Input].content
    /\ Go("lex", live \cup {"source"})

(* The file is not there or cannot be read.                                *)
SourceLoadFails == pc = "load" /\ Error /\ UNCHANGED disk

LexErrors == VerdictOn(text) = "lexer"

(* The lexer pushes errors only, so without an error its store is empty.   *)
Lex ==
    /\ pc = "lex" /\ ~ LexErrors
    /\ Go("list_tokens", live \cup {"tokens"})
    /\ UNCHANGED text

LexRefuses ==
    /\ pc = "lex" /\ LexErrors
    /\ LeaveWith("3", <<"lexer_diagnostics", "tokens", "source", "output_path">>,
                 live \cup {"tokens", "lexer_diagnostics"})
    /\ UNCHANGED text

(* A listing is printed from a buffer that is freed again.                 *)
ListTokens ==
    /\ pc = "list_tokens"
    /\ IF opts.furthest = "tokenize"
       THEN LeaveWith("0", <<"tokens", "source", "output_path">>, live)
       ELSE Go("parse", live)
    /\ UNCHANGED text

ParserDiagnostics == IF text = "text" /\ warns THEN {"parser_diagnostics"} ELSE {}

Parse ==
    /\ pc = "parse" /\ VerdictOn(text) # "parser"
    /\ Go("list_statements", live \cup {"statements"} \cup ParserDiagnostics)
    /\ UNCHANGED text

(* The statements are left to the end of the process.                      *)
ParseRefuses ==
    /\ pc = "parse" /\ VerdictOn(text) = "parser"
    /\ LeaveWith("4", <<"parser_diagnostics", "lexer_diagnostics", "tokens",
                        "source", "output_path">>,
                 live \cup {"statements", "parser_diagnostics"})
    /\ UNCHANGED text

(* Broken: the tokens, whose names the statements use, are freed when the  *)
(* parser is done with them.                                               *)
ListStatementsDropTokens ==
    /\ pc = "list_statements"
    /\ IF opts.furthest = "parse"
       THEN LeaveWith("0", <<"parser_diagnostics", "lexer_diagnostics", "statements",
                             "tokens", "source", "output_path">>, live)
       ELSE Go("generate_code", live \ {"tokens"})
    /\ UNCHANGED text

(* Broken: this way out forgets the parser's diagnostics, which are empty  *)
(* unless there were warnings.                                             *)
ListStatementsForgetWarnings ==
    /\ pc = "list_statements"
    /\ IF opts.furthest = "parse"
       THEN LeaveWith("0", <<"lexer_diagnostics", "statements",
                             "tokens", "source", "output_path">>, live)
       ELSE Go("generate_code", live)
    /\ UNCHANGED text

ListStatements ==
    /\ pc = "list_statements"
    /\ IF opts.furthest = "parse"
       THEN LeaveWith("0", <<"parser_diagnostics", "lexer_diagnostics", "statements",
                             "tokens", "source", "output_path">>, live)
       ELSE Go("generate_code", live)
    /\ UNCHANGED text

GenerateCode ==
    /\ pc = "generate_code" /\ VerdictOn(text) # "codegen"
    /\ Go("build_elf", live \cup {"code"})
    /\ UNCHANGED text

(* CodegenErrorFull reports and exits.                                     *)
GenerateCodeRefuses ==
    /\ pc = "generate_code" /\ VerdictOn(text) = "codegen"
    /\ pc' = "ended" /\ exitCode' = "5"
    /\ live' = {}
    /\ UNCHANGED <<opts, disk, text, verdict, warns, pending, runs>>

BuildElf ==
    /\ pc = "build_elf"
    /\ Go("open", live \cup {"elf"})
    /\ UNCHANGED text

OutputHolds(content) == disk' = [disk EXCEPT ![opts.output].content = content]

StepTo(next, allocated) ==
    /\ pc' = next
    /\ live' = allocated
    /\ UNCHANGED <<opts, text, verdict, warns, pending, exitCode, runs>>

(* "wb" creates the file or empties it; an existing one keeps its mode.    *)
Open ==
    /\ pc = "open"
    /\ OutputHolds("empty")
    /\ StepTo("write", live \cup {"file"})

OpenFails == pc = "open" /\ Error /\ UNCHANGED disk

(* fwrite fills a buffer and may flush any part of it.                     *)
Write ==
    /\ pc = "write"
    /\ \E content \in {"empty", "partial", "image"} : OutputHolds(content)
    /\ StepTo("close", live)

WriteFails ==
    /\ pc = "write"
    /\ \E content \in {"empty", "partial"} : OutputHolds(content)
    /\ Error

(* fclose flushes the rest.                                                *)
Close ==
    /\ pc = "close"
    /\ OutputHolds("image")
    /\ StepTo("chmod", live \ {"file"})

(* Broken: a failed fclose goes unnoticed.                                 *)
CloseFailsUnnoticed ==
    /\ pc = "close"
    /\ \E content \in {disk[opts.output].content, "partial"} : OutputHolds(content)
    /\ StepTo("chmod", live \ {"file"})

(* The rest may not fit.                                                   *)
CloseFails ==
    /\ pc = "close"
    /\ \E content \in {disk[opts.output].content, "partial"} : OutputHolds(content)
    /\ Error

Chmod ==
    /\ pc = "chmod"
    /\ disk' = [disk EXCEPT ![opts.output].executable = TRUE]
    /\ pc' = "freeing" /\ exitCode' = "0"
    /\ pending' = <<"elf", "code", "statements", "tokens", "parser_diagnostics",
                    "lexer_diagnostics", "source", "output_path">>
    /\ UNCHANGED <<opts, text, verdict, warns, live, runs>>

ChmodFails == pc = "chmod" /\ Error /\ UNCHANGED disk

(* Broken: the loop that frees does not move on.                           *)
FreeNextStuck == pc = "freeing" /\ pending # << >> /\ UNCHANGED vars

(* What is empty or was never allocated is a NULL, which Free lets pass.   *)
FreeNext ==
    /\ pc = "freeing" /\ pending # << >>
    /\ live' = live \ {Head(pending)}
    /\ pending' = Tail(pending)
    /\ UNCHANGED <<pc, opts, disk, text, verdict, warns, exitCode, runs>>

Return ==
    /\ pc = "freeing" /\ pending = << >>
    /\ pc' = "ended"
    /\ UNCHANGED <<opts, disk, text, verdict, warns, live, pending, exitCode, runs>>

(* Every stage allocates before the output is opened.                      *)
OutOfMemory ==
    /\ pc \notin {"open", "write", "close", "chmod", "freeing", "ended"}
    /\ Error
    /\ UNCHANGED disk

Killed ==
    /\ pc # "ended"
    /\ pc' = "ended" /\ exitCode' = "killed"
    /\ live' = {} /\ pending' = << >>
    /\ UNCHANGED <<opts, disk, text, verdict, warns, runs>>

(* The command is given once more, on the files as they are now.           *)
RunAgain ==
    /\ pc = "ended" /\ runs < MaxRuns
    /\ pc' = "cli" /\ opts' \in CliOptions
    /\ text' = "none" /\ live' = {} /\ pending' = << >>
    /\ exitCode' = "none"
    /\ runs' = runs + 1
    /\ UNCHANGED <<disk, verdict, warns>>

Stage ==
    \/ ParseCli \/ UsageError \/ SourceLoad \/ SourceLoadFails
    \/ Lex \/ LexRefuses \/ ListTokens \/ Parse \/ ParseRefuses \/ ListStatements
    \/ GenerateCode \/ GenerateCodeRefuses \/ BuildElf
    \/ Open \/ OpenFails \/ Write \/ WriteFails \/ Close \/ CloseFails
    \/ Chmod \/ ChmodFails \/ FreeNext \/ Return \/ OutOfMemory

Next == Stage \/ Killed \/ RunAgain

(* main waits for nobody but the file system, which is taken to answer.    *)
Spec == Init /\ [][Next]_vars /\ WF_vars(Stage)

-----------------------------------------------------------------------------

Writing == \/ pc \in {"write", "close", "chmod"}
           \/ pc = "freeing" /\ opts.furthest = "compile" /\ exitCode = "0"

Result ==
    CASE pc = "cli" -> "idle"
      [] pc = "ended" -> (CASE exitCode = "0"              -> "succeeded"
                            [] exitCode \in {"3", "4", "5"} -> "refused"
                            [] exitCode = "2"              -> "failed"
                            [] OTHER                       -> "killed")
      [] OTHER -> IF Writing THEN "writing" ELSE "working"

Abstract == INSTANCE Compiler WITH
    request <- opts,
    result  <- Result

-----------------------------------------------------------------------------

Content == {"absent", "empty", "text", "other", "partial", "image"}

(* Types; and no block is freed twice on the way out.                      *)
TypeOK ==
    /\ pc \in {"cli", "load", "lex", "list_tokens", "parse", "list_statements",
               "generate_code", "build_elf", "open", "write", "close", "chmod",
               "freeing", "ended"}
    /\ opts \in CliOptions
    /\ disk \in [Paths -> [content : Content, executable : BOOLEAN]]
    /\ text \in Content \cup {"none"}
    /\ verdict \in {"lexer", "parser", "codegen", "accepted"}
    /\ warns \in BOOLEAN
    /\ live \subseteq Block
    /\ pending \in Seq(Block)
    /\ \A i, j \in 1 .. Len(pending) : i # j => pending[i] # pending[j]
    /\ exitCode \in {"none", "0", "2", "3", "4", "5", "killed"}
    /\ runs \in 1 .. MaxRuns

(* Every way main returns by has freed everything it allocated, whatever   *)
(* stage it returns from, except that after parser errors the statements   *)
(* that were parsed are left.                                              *)
LeavesNothing ==
    pc = "ended" /\ exitCode # "none" =>
        live \subseteq IF exitCode = "4" THEN {"statements"} ELSE {}

(* What the next stage works on has not been freed: names of statements    *)
(* are looked at until the code is generated, diagnostics point into the   *)
(* source, and the paths are used until the last system call.              *)
UsesAreLive ==
    /\ pc \in {"list_tokens", "parse"} => {"source", "tokens"} \subseteq live
    /\ pc = "generate_code" => {"source", "tokens", "statements"} \subseteq live
    /\ pc = "list_statements" => {"tokens", "statements"} \subseteq live
    /\ pc \in {"open", "write", "close", "chmod"} => {"output_path", "elf"} \subseteq live
    /\ pc \in {"write", "close"} => "file" \in live

(* main implements Compiler: a text some requested stage objects to is     *)
(* refused and no file is touched; a failure before the output is opened   *)
(* touches none; only the output is written; it is made executable, and    *)
(* success reported, only when it holds the whole image.                   *)
CompilesOrLeavesAlone == Abstract!Spec

(* Every run of the command ends.                                          *)
EveryRunEnds == pc = "cli" ~> pc = "ended"
=============================================================================
