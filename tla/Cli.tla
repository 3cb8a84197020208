-------------------------------- MODULE Cli --------------------------------
(***************************************************************************)
(* ParseCli and DefaultOutputPath of src/cli.c.  getopt_long (external)    *)
(* goes through the arguments from the left, hands out options and moves   *)
(* everything else behind them; main.c gets the options or the process     *)
(* ends with an error.  Abbreviated options and --output=PATH are other    *)
(* spellings of the arguments modelled here.                               *)
(*                                                                         *)
(* A path is a sequence of "/", "." and the runs of characters in between. *)
(* An argument is an option or, with opt = "none", not one; either can be  *)
(* taken as a path, the value of --output.                                 *)
(***************************************************************************)
EXTENDS Integers, Sequences, FiniteSets

CONSTANTS Symbols,    \* what paths are made of
          Arguments,  \* what command lines are made of
          ArgLists    \* the command lines

(* No two runs of characters are next to each other.                       *)
Runs(path) ==
    \A i \in 1 .. Len(path) - 1 : path[i] \in {"/", "."} \/ path[i + 1] \in {"/", "."}

ASSUME ArgumentsAssumption ==
    /\ {".", "out"} \subseteq Symbols
    /\ \A arg \in Arguments : arg.path \in Seq(Symbols) /\ Runs(arg.path)
    /\ ArgLists \subseteq Seq(Arguments)

Argument(opt, path) == [opt |-> opt, path |-> path]
Operand(path) == Argument("none", path)
Option(opt) == Argument(opt, <<opt>>)

PipelineStage == {"tokenize", "parse", "compile"}
OptionFor(stage) ==
    CASE stage = "tokenize" -> "--tokenize"
      [] stage = "parse"    -> "--parse"
      [] stage = "compile"  -> "--compile"

longOpts == {OptionFor(s) : s \in PipelineStage} \cup {"--output"}

VARIABLES args,      \* the arguments
          next,      \* the one getopt_long looks at next
          operands,  \* the arguments moved behind the options
          want,      \* the stages asked for
          outputArg, \* values of --output: none or the last one
          phase,     \* "options", "checks", "done", "failed"
          error,     \* the error reported
          result     \* what is returned

cliVars == <<args, next, operands, want, outputArg, phase, error, result>>

NoOptions == [inputPath |-> << >>, outputPath |-> << >>, furthest |-> "tokenize"]

CliInit ==
    /\ args \in ArgLists
    /\ next = 1
    /\ operands = << >> /\ want = {} /\ outputArg = << >>
    /\ phase = "options"
    /\ error = "none"
    /\ result = NoOptions

-----------------------------------------------------------------------------
(* Paths.                                                                  *)

Positions(symbol, path) == {i \in 1 .. Len(path) : path[i] = symbol}

(* Broken: the extension is what follows the last dot.                     *)
StemLenLastDot(base) ==
    LET dots == Positions(".", base)
    IN  IF dots = {} THEN Len(base)
        ELSE (CHOOSE i \in dots : \A j \in dots : i >= j) - 1

(* What is before the first dot.                                           *)
StemLen(base) ==
    LET dots == Positions(".", base)
    IN  IF dots = {} THEN Len(base)
        ELSE (CHOOSE i \in dots : \A j \in dots : i <= j) - 1

Basename(path) ==
    LET slashes == Positions("/", path)
        last == CHOOSE i \in slashes : \A j \in slashes : i >= j
    IN  IF slashes = {} THEN path ELSE SubSeq(path, last + 1, Len(path))

(* Broken: the suffix is there only when an extension was taken off.       *)
DefaultOutputPathBare(inputPath) ==
    LET base == Basename(inputPath)
    IN  IF StemLen(base) = Len(base) THEN base
        ELSE SubSeq(base, 1, StemLen(base)) \o <<".", "out">>

DefaultOutputPath(inputPath) ==
    LET base == Basename(inputPath)
    IN  SubSeq(base, 1, StemLen(base)) \o <<".", "out">>

-----------------------------------------------------------------------------
(* getopt_long and the loop over what it returns.                          *)

Fail(what) ==
    /\ phase' = "failed" /\ error' = what
    /\ UNCHANGED <<args, next, operands, want, outputArg, result>>

Scanning == phase = "options" /\ next <= Len(args)

SkipOperand ==
    /\ Scanning /\ args[next].opt = "none"
    /\ operands' = Append(operands, args[next])
    /\ next' = next + 1
    /\ UNCHANGED <<args, want, outputArg, phase, error, result>>

(* Everything behind "--" is an operand.                                   *)
EndOfOptions ==
    /\ \/ phase = "options" /\ next > Len(args) /\ operands' = operands
       \/ /\ Scanning /\ args[next].opt = "--"
          /\ operands' = operands \o SubSeq(args, next + 1, Len(args))
    /\ next' = Len(args) + 1
    /\ phase' = "checks"
    /\ UNCHANGED <<args, want, outputArg, error, result>>

StageOption ==
    /\ Scanning
    /\ \E s \in PipelineStage : args[next].opt = OptionFor(s) /\ want' = want \cup {s}
    /\ next' = next + 1
    /\ UNCHANGED <<args, operands, outputArg, phase, error, result>>

(* Broken: an option is not taken for the value of --output.               *)
OutputOptionPicky ==
    /\ Scanning /\ args[next].opt = "--output" /\ next < Len(args)
    /\ outputArg' = <<args[next + 1].path>>
    /\ next' = next + (IF args[next + 1].opt = "none" THEN 2 ELSE 1)
    /\ UNCHANGED <<args, operands, want, phase, error, result>>

(* The value is the next argument whatever it looks like; the last         *)
(* --output counts.                                                        *)
OutputOption ==
    /\ Scanning /\ args[next].opt = "--output" /\ next < Len(args)
    /\ outputArg' = <<args[next + 1].path>>
    /\ next' = next + 2
    /\ UNCHANGED <<args, operands, want, phase, error, result>>

(* getopt_long answers '?', to a missing value as well.                    *)
UnknownOption ==
    /\ Scanning
    /\ \/ args[next].opt \notin longOpts \cup {"none", "--"}
       \/ args[next].opt = "--output" /\ next = Len(args)
    /\ Fail("unknown_option")

-----------------------------------------------------------------------------
(* Behind the loop.                                                        *)

Complaints ==
    (IF operands = << >> THEN <<"no_input_file">> ELSE << >>)
    \o (IF Len(operands) > 1 THEN <<"unexpected_extra_argument">> ELSE << >>)
    \o (IF want = {} THEN <<"no_pipeline_stage_specified">> ELSE << >>)
    \o (IF outputArg # << >> /\ "compile" \notin want
        THEN <<"output_requires_compile">> ELSE << >>)

Complain ==
    /\ phase = "checks" /\ Complaints # << >>
    /\ Fail(Head(Complaints))

(* Broken: the stages are looked at in the wrong order.                    *)
FurthestParseWins ==
    IF "parse" \in want THEN "parse"
    ELSE IF "compile" \in want THEN "compile" ELSE "tokenize"

Furthest ==
    IF "compile" \in want THEN "compile"
    ELSE IF "parse" \in want THEN "parse" ELSE "tokenize"

ReturnOptions ==
    /\ phase = "checks" /\ Complaints = << >>
    /\ LET input == operands[1].path
       IN  result' = [inputPath  |-> input,
                      outputPath |-> IF outputArg = << >> THEN DefaultOutputPath(input)
                                     ELSE outputArg[1],
                      furthest   |-> Furthest]
    /\ phase' = "done"
    /\ UNCHANGED <<args, next, operands, want, outputArg, error>>

CliNext ==
    \/ SkipOperand \/ EndOfOptions \/ StageOption \/ OutputOption \/ UnknownOption
    \/ Complain \/ ReturnOptions

CliSpec == CliInit /\ [][CliNext]_cliVars

-----------------------------------------------------------------------------
(* What a command line means, argument by argument.                        *)

(* An argument behind --output is its value, unless that --output is       *)
(* itself a value or behind the end of the options.                        *)
Roles ==
    LET role[i \in 1 .. Len(args)] ==
            IF i > 1 /\ role[i - 1] = "option" /\ args[i - 1].opt = "--output" THEN "value"
            ELSE IF \E j \in 1 .. i - 1 : role[j] = "option" /\ args[j].opt = "--"
                 THEN "operand"
            ELSE IF args[i].opt = "none" THEN "operand" ELSE "option"
    IN  role

With(role) == {i \in 1 .. Len(args) : Roles[i] = role}
Given(opt) == {i \in With("option") : args[i].opt = opt}

WellFormed ==
    /\ \A i \in With("option") : args[i].opt \in longOpts \cup {"--"}
    /\ \A i \in Given("--output") : i < Len(args)

Acceptable ==
    /\ WellFormed
    /\ Cardinality(With("operand")) = 1
    /\ \E s \in PipelineStage : Given(OptionFor(s)) # {}
    /\ Given("--output") # {} => Given("--compile") # {}

-----------------------------------------------------------------------------

(* A command line is accepted exactly when its options are known, there is *)
(* one input file, a stage is asked for and --output comes with --compile, *)
(* in whatever order the arguments stand.  Then the input is the one       *)
(* operand, the pipeline stops after the furthest stage asked for          *)
(* (cli.h:25), and the output goes where the last --output says.           *)
AcceptsByMeaning ==
    /\ phase = "failed" => ~ Acceptable
    /\ phase = "done" =>
        /\ Acceptable
        /\ \A i \in With("operand") : result.inputPath = args[i].path
        /\ result.furthest =
             IF Given("--compile") # {} THEN "compile"
             ELSE IF Given("--parse") # {} THEN "parse" ELSE "tokenize"
        /\ \A i \in Given("--output") :
              (\A j \in Given("--output") : j <= i) => result.outputPath = args[i + 1].path

(* Without --output the result lands in the current directory under a      *)
(* name with the one extension .out, so an input without an extension is   *)
(* not overwritten by it (cli.c:33-35); the only input that is, is one     *)
(* that already has such a name there.                                     *)
DefaultSparesInput ==
    phase = "done" /\ Given("--output") = {} =>
        /\ Positions("/", result.outputPath) = {}
        /\ Cardinality(Positions(".", result.outputPath)) = 1
        /\ result.outputPath = result.inputPath =>
              \E stem \in {<< >>, SubSeq(result.inputPath, 1, 1)} :
                  result.inputPath = stem \o <<".", "out">>
=============================================================================
