# Verification of asm2.0 in TLA+

asm2.0 compiles a small assembly-like language (`label`, `move`, `syscall`,
`entry`) to a static x86-64 ELF executable. It is one sequential process: a
source file is loaded, lexed, parsed, encoded and written out. There are no
threads or messages, so the hard parts are sequences: what a loop does on inputs
nobody wrote a test for, what an error path leaves behind, which error wins,
what happens when a capped store is full or a number reaches its width. The
outside world comes in at three places: somebody may write the source file while
it is read, the output file may fail at every call or the process be killed
between two of them, and the emitted program runs on a processor and a kernel.

Paths below are those of the repository (`src/lexer.c` is the lexer).

## Inventory

| Component | State | Operations | Hard behaviour | What makes it correct |
|---|---|---|---|---|
| Batch diagnostics (`src/diagnostic.c`) | `Diags`: entries, capacity, cap, two counters; heap blocks of messages and helps | `DiagsInit`, four `DiagsPush...`, `DiagsReportAll`, `DiagsFree` | a full store drops, but still counts and must free what it was handed; capped doubling; unsigned differences in the report | first diagnostics kept in order, counters exact, report accounts for all, no leak |
| Lexer (`src/lexer.c`, `token.c`, `keyword.c`) | offset, token list, diagnostics | `Lex` | blanks and comments in one do/while, lexemes touching each other, u64 overflow test | tokens are exactly the lexemes, every fault counted |
| Parser (`src/parser.c`, `stmt.c`, `operand.c`) | cursor, statement list, diagnostics | `Parse`, `ParserSynchronize`, `CheckEmptyLabelBodies` | recovery that may consume nothing or too much; placeholders for what is missing; warnings after errors in one store | exactly the well-formed statements survive, the gate on `nerrs` is exact, the loop advances |
| Encoder (`src/codegen.c`, `register.c`) | none | `EncodeStmt` and what it calls, `ResolveRegisterOperand` | the fourth register bit, the 32-bit immediate, the order in which operands are refused | bytes decode to the statement |
| Code generator (`src/codegen.c`) | label table, code, entry, error | `GenerateCode` | unchecked table writes, offsets of code of different lengths, two passes and one error | labels on instruction boundaries, entry runs the program, first error reported |
| Fatal errors (`src/diagnostic.c`) | none | `Error`, `CodegenErrorFull`, `InternalError` | end the process from anywhere, with one exit code per function | - |
| Pipeline (`src/main.c`) | what is allocated, the output file | `main` | gates between stages, ownership between token, statement and table, a partly written output | no file is touched unless everything before succeeded; only a whole image becomes executable or is called a success; every way of returning frees what it should and nothing is used after it was freed |
| Command line (`src/cli.c`) | options | `ParseCli`, `DefaultOutputPath` | permuted arguments, options as values of `--output`, stage order, default output path | a command line is accepted by its meaning in any order; the default output spares the input |
| Source loading (`src/source.c`) | text and length | `SourceLoad` | file changes between `ftell` and `fread`, `(u32)fileLen + 1` | a text is loaded whole or not at all, within its allocation, and a failed load holds nothing |
| Positions (`src/diagnostic.c`) | none | `PositionFromOffset`, `FindSourceLine` | spans at the end of the text or on a newline, line numbers of several digits, characters that are not one column wide | line, column and printed line agree, and the carets stand under the span as far as the line is plain |
| Suggester (`src/suggest.c`) | distance table | `SuggestClosest` | transpositions across rows, ties | distances are distances; the first of the closest candidates within the bound |
| ELF writer (`src/elfwriter.c`) | the image, a `ByteBuf` | `BuildElf` | offsets and sizes of header, segment and entry, an entry at the very end of the code | the loader maps the code where the entry points |
| Byte buffer (`src/bytebuf.c`) | array | push, little-endian writers | growth exactly when full | no write behind the room there is |
| Listings, memory wrappers, build | - | - | - | - |

The stages interact only through `main.c`: the token list goes from the lexer
to the parser, the statement list to the code generator, the code to the ELF
writer, whose image `main.c` writes to the output file. The lexer and the
parser each have a `Diags` store of their own with `DIAGS_CAP` entries, which
`main.c` reports and frees; `nerrs > 0` ends the run there. The code generator
has no store: its first error exits.

## Modules

| Module | Models |
|---|---|
| `Diags` | the `Diags` struct as a record, its functions as operators on it; a library for the three stages |
| `DiagStore` | the machine of one store and of its heap blocks, from `DiagsInit` to `DiagsFree` or to running out of memory; extends `Diags` |
| `Lexer` | `Lex`, one action per character consumed or token emitted; extends `Diags` |
| `Parser` | `Parse`, one action per round of the loop of `Parse`, of `ParserSynchronize` and of `CheckEmptyLabelBodies`; extends `Diags` |
| `Encoding` | registers, statements, operand checks and instruction encoders, as pure operators |
| `X86` | external: how the processor decodes the instruction forms used |
| `Codegen` | `GenerateCode`, one action per statement of each pass; extends `Encoding` and `X86` |
| `ByteBuf` | the growing buffer as a record, the little-endian writers as sequences of bytes |
| `Elf` | `BuildElf`, byte for byte; and, external, what `execve` checks in such a file, maps and jumps to; extends `ByteBuf` |
| `Execution` | abstract specification: what the source statements do, without bytes or addresses; extends `Encoding` |
| `Machine` | `GenerateCode`, then `BuildElf`, the loader and the processor executing the bytes; extends `Codegen` and `Elf`, implements `Execution` |
| `Compiler` | abstract specification: what a run of the command may do to the files |
| `Main` | `main`, one action per stage or system call, with failures, kills and further runs; implements `Compiler` |
| `Cli` | `ParseCli` and `DefaultOutputPath`, one action per argument |
| `Suggest` | `SuggestClosest`, one action per cell of the distance table |
| `SourceFile` | `SourceLoad` and `SourceFree`, one action per call, and somebody who writes the file |
| `Position` | `PositionFromOffset`, `FindSourceLine` and the rows `PrintPositioned` prints, one action per step of a loop up to the gutter's; external: `printf`'s `%*u` and `%.*s`, and the terminal's columns |
| `MC...` | the instances TLC checks |
| `Facts` | lemmas the proofs share: least numbers, induction and recursion over numbers, the operators of `Diags` |
| `..._proofs` | the theorems about the module they extend; `DiagStore_proofs` has also those about `Position`, `Main_proofs` those about its stages `Cli` and `SourceFile` |

How state corresponds to code:

- **Diags.** `len` is `Len(entries)`. An entry keeps its severity and what the
  pusher adds (a span). `DiagStore` names the blocks of the n-th push
  `Message(n)` and `Help(n)`, so a leaked, doubly owned or prematurely freed
  block is a difference between `heap` and the stored entries. `pushed` and
  `report` are the history and the output.
- **Lexer.** Offsets count from 0 as in the source. `pc` says which loop of the
  C code is running. `exact` is a history variable: the number being scanned
  without a width. A `char` is a member of one of six classes; a word is the
  sequence of its characters.
- **Parser.** A token is its kind. A token's index stands for its span, a
  statement lists the indices it was built from, and 0 is the placeholder token
  or operand of an unmet expectation. The parsing functions are operators from
  the parser before the call to the parser after it; they do not loop. `from`
  is a history variable: the cursor at the beginning of the last round.
- **Codegen.** `node` is the index in the statement list, 0 is NULL. Errors are
  a kind and the statement they point to. `Faults` operators give the errors in
  the order the C code would meet them, of which the first exits.
- **Machine.** The bytes of `code` go into the file by `BuildElf`, and the loader
  reads them back out of the file alone: magic, machine, program header, segment
  and entry address come from its bytes. `ip` and `base` are addresses. A
  register is its low half, all that the instructions used can see: a 32-bit
  move clears the upper half, and only `esp` starts with one that is not zero. A
  system call changes eax, ecx and r11d; `ExitCalls` are the numbers of calls
  that do not return.
- **Main.** `pc` is the stage to run next. `live` is the set of blocks allocated
  and not freed, one name for each call of the code that frees one (`LexFree`
  frees the tokens with their names); on the way out `pending` is the list of
  those calls still to come. `disk` gives each file a content and a mode. What
  the stages find in the text is chosen once (`verdict`, `warns`), so all
  combinations of a text's fate and a file's fate occur; `opts` is what
  `ParseCli` returned.
- **Cli.** An argument is an option or not, and either can be a path, since
  `--output` takes what follows it. A path is a sequence of `/`, `.` and names.
  `getopt_long` is external: left to right, operands moved behind.
- **Suggest.** The table is a function on the cells written so far, so reading
  an unwritten cell is an error of the run.
- **SourceFile.** `fread` is one action per byte, `Change` may come between any
  two. Writing outside the allocation ends in `call = "undefined"`.
- **Position.** The rows are the characters written, in order. The gutter's width
  comes from the loop of `diagnostic.c:149-152`, the digits of the number beside it
  from `printf`'s own rule, the first power of ten beyond the number. `%.*s` stops
  at the first NUL, and has no limit when `(int)lineLen` is negative. Columns are
  the terminal's: `Behind` gives one to a `Plain` character and to those of the
  layout, and leaves the rest, tabs, control characters and bytes of longer
  characters, to the constant operator `Leap`.

Left out on purpose: message texts, colours and listings. Names and numbers
matter only where they are compared. A failed allocation (`Error`, exit) is an
action in `DiagStore` and `Main`, where heap ownership is the subject, and no
action in the other machines, where it only ends the run.

Definitions commented "Broken:" are not part of a model: each is a definition
above which it stands with one plausible mistake in it, used to see that a
property notices.

## Runs

Every passing run checks the specification with its bounds to the end. No
machine has a step left when it is done, so deadlock is not checked.

**`diag_store`** (`MCDiagStore`, 262,140 states). First capacity 2 and caps 0
(unlimited), 1 and 5, up to seven pushes of any severity with or without help.
Cap 1 cuts the first allocation, cap 5 cuts the doubling 4 -> 8 to 5, seven
pushes overflow both; unlimited growth doubles twice. Shows `StoredIsPrefix`,
`CountersExact`, `CapacityWithinMax`, `ReportAccountsForAll` and
`HeapOwnedByEntries`.

**`lexer`** (`MCLexer`, 163,970 states). Every text of up to four characters
over one character per class, with two letters that spell a keyword and two
digits; all texts of five and six characters over a letter and both digits; and
over a letter, a newline, `#` and a stray character. All pairs and triples of
lexemes that touch occur. `NumberMax` is 191, so that 191 fits, 199 and 911 do
not, and overflow happens both at the last digit and before it; what the test
does depends only on how the digits compare with the limit. The store holds two
diagnostics, so a text with three faults drops one. `TokensAreLexemes` compares
with a definition of lexemes by spans (maximal runs outside comments) and of the
value of a number by its decimal digits; `OverflowExact` and `FaultsReported`
with the value of a span.

**`parser`** (`MCParser`, 175,826 states). All token lists of up to four tokens
over the nine kinds before EOF, and every sequence of four pieces out of ten:
one well-formed statement of each kind, three broken statements, a bare keyword
and two stray tokens. Recovery depends on the token at hand only, so four pieces give every
neighbourhood of a broken statement, with one on both sides to lose. Four
diagnostics fit, a broken move alone can make four. The properties compare with a grammar given
as token shapes: `ParsedExactly`, `ErrorGate`, `BrokenStatementsReported`,
`DiagnosticsInOrder`, `EmptyLabelsWarned`, and `Progress`.

**`codegen`** (`MCCodegen`, 246,889 states). Every program of up to four
statements out of fourteen: two labels, two entries, `syscall`, moves between low
and high registers in all four combinations, both extreme immediates, and three
refused moves, one with two things wrong. `ImmMax` is 2^30 - 1 since TLC's
integers have 32 bits; all four immediate bytes are in use. `LabelsOnBoundaries`
and `EntryRunsProgram` run the decoder of `X86` over the emitted bytes and
compare with the meaning of the source; `FirstErrorReported` compares with the
set of everything wrong with a program.

**`machine`** (`MCMachine`, 71,203 states). Every program of up to four
statements out of nine: two labels, an entry, `syscall`, moves that encode to
two, three, five and six bytes, the number of a call that exits, and a number
too large; and all programs of four instructions behind an entry and a label.
So programs end by exit and by running off their end, entry labels stand first,
in the middle and behind the last instruction, and results of a call decide
whether the next one exits. `ImageMatchesHeaders` relates the file to its own
headers; `ExecutesSource` is the refinement below.

**`main`** (`MCMain`, 14,944 states). Two files, of which the output may be the
input, an existing file with either mode, or new; every verdict; every call may
fail, memory may run out and the process may be killed at any stage. Two runs
of the command, since what one run leaves is all that the next can see of it.
`LeavesNothing` and `UsesAreLive` are about the heap, `CompilesOrLeavesAlone`
is the refinement, `EveryRunEnds` liveness.

**`cli`** (`MCCli`, 23,810 states). Every command line of up to four arguments
out of the four options, `--`, an unknown option and two operands: `--output`
may swallow an option, `--` or an operand, come last, or be swallowed itself.
And a compilation of every path of up to five symbols. `AcceptsByMeaning`
compares loop and checks with the role of each argument,
`DefaultSparesInput` says where the output goes by default.

**`suggest`** (`MCSuggest`, 55,976 states). All pairs of words of up to three
letters over three, and pairs of candidates, with bounds 1 and 2. Three letters
are enough for a swap in the first and in the last cells and for an edit next to
a swap. `CellsAreDistances` compares every cell with distances defined by
counting single edits, `SuggestsFirstOfTheClosest` the choice.

**`source_file`** (`MCSourceFile`, 2,236 states). `U32Max` is 3, so a file of
three bytes is the longest accepted and four are too many; up to three writes
that append or cut, between any two steps. The width matters only in
`(u32)fileLen + 1`, which wraps for the longest file whatever the width is.

**`position`** (`MCPosition`, 337,400 states). All texts of up to four characters
over a newline, a NUL, a tab and two plain characters with all their spans, texts
with 8 to 13 lines and one with 100, so that the number gets a digit more in both
places. `MaxInt` is 3, so lines of four characters have the negative precision
that real ones have from 2^31 characters on; tab stops are four columns apart.
`CaretsUnderSpan` compares the columns of the carets with those of the characters
of the span, up to the first character that is not plain.

**`machine_arguments`** and **`suggest_metric`** each check one sentence of the
documentation that the code disagrees with, and TLC finds the behaviour that
refutes it:

- `README.md:119` says that system calls with more than three arguments are not
  reachable. `register.c` exposes `r8d`, `r9d` and `r10d`, and writing them
  clears the upper halves, so 32-bit values can be passed. In the counterexample
  the program moves an immediate into `r8d`, the register of the fifth argument,
  and reaches a system call with it.
- `suggest.h:7` names the Damerau-Levenshtein distance. The code computes the
  one in which swapped letters stay neighbours (optimal string alignment): "ab"
  and "bca" are two edits apart, and with a bound of two nothing is suggested.

Each property of a passing run has a mutant in `PROJECT.json`: one mapped
definition with one mistake, under which the property fails.

### Refinements

`Machine` implements `Execution` (`ExecutesSource`). The instruction pointer
stands for the statement whose bytes it points to: `OffsetOf(i)` is the length
of the code before statement i, `StatementAt` its inverse on statements that
have bytes, 0 for an address inside an instruction. So a wrong entry address, a
wrong length or a wrong register field gives a step the source does not have.
`Execution` decides validity from the whole program at once, not in passes; a
label or entry statement is no step of it.

`Main` implements `Compiler` (`CompilesOrLeavesAlone`). The stages before the
output is opened are "working", the rest is "writing", and freeing is part of
whichever it follows. `Compiler` allows a refusal only when a stage that was
asked for objects, changes to a file only while writing and only of the output,
the mode only when the content is the whole image, and success only with both.

Both abstract specifications are without WF: its ENABLED would be evaluated
under the mapping. `Execution` says `<>(status # "new")` instead, that every
program is decided.

### Fairness

`Lexer` and `Parser` have `WF_vars(Next)`: each is a sequential
function that waits for nothing, so a process that is scheduled keeps taking
steps. `Machine` assumes it of compiling and loading only, so every program is
decided; a system call of the compiled program may wait for ever. `Main` assumes it of its own stages,
that is, that system calls on files return; a kill and a further run are never
owed. The other modules state no liveness: `DiagStore` depends on its caller,
`Codegen` ends as part of `Machine`, and the rest are loops over a bounded index.

### What the models showed besides

- Exit code 2, a usage error by `README.md:218`, is that of every call of
  `Error`, those about files and memory included.
- After parser errors `main` returns without `ParseFree` (`main.c:70-78`), the
  one way of returning that leaves something allocated; `LeavesNothing` names
  it as its exception.
- A file that was executable stays executable while it is empty or partial,
  if the output is an existing program.
- A source of exactly `UINT32_MAX` bytes passes the test of `source.c:27`, and
  the size of its buffer wraps to 0; `OutsideOnlyAtMaximum` shows that no other
  length writes outside.
- The carets of a span over several lines run on behind the end of the line
  shown.
- Behind a tab in the line, which the lexer accepts (`lexer.c:15`), the carets
  may stand too far to the left: a tab has one blank like any character
  (`diagnostic.c:165-166`). A stray NUL, an error of the lexer, ends the printed
  line (`diagnostic.c:156`), and the carets of what follows it on the line stand
  under nothing. `CaretsUnderSpan` therefore stops at the first such character;
  no comment in the code claims more.
- The default output is the input itself for an input `prog.out`, or `.out`, of
  the current directory; `DefaultSparesInput` says that there is no other such
  input, paths being compared as strings: `./prog.out` is another path and the
  same file. Also `--output` may name the input, which is read before.

## Proofs

TLAPS proves the following for every value of the constants (every cap, text,
alphabet, token list, program, set of files), under the named assumptions of the
modules.

| Module | Theorems |
|---|---|
| `DiagStore_proofs` | `TypeCorrect`, `KeepsPrefix`, `CountsAll`, `StaysWithinCapacity`, `ReportIsComplete`, `OwnsItsBlocks` (all invariants of the run) |
| `Lexer_proofs` | `TypeCorrect`, `OverflowDetection`, `LexemesFound`, `FaultsAreReported` (all invariants) |
| `Parser_proofs` | `TypeCorrect`, `KeepsExactlyTheStatements`, `RoundsAdvance`, `GateIsExact`, `ReportsBrokenStatements`, `ReportsInOrder`, `WarnsOfEmptyLabels` (all but liveness) |
| `Codegen_proofs` | `SyscallDecodes`, `MoveRegToRegDecodes`, `MoveImmDecodes` of the encoder; `TypeCorrect`, `TableStaysInBounds`, `FirstErrorIsReported`, `LabelsAreOnBoundaries`, `EntryRunsTheProgram` (all invariants) |
| `Machine_proofs` | `ImageMatches`, and `ImplementsExecution`: initial states and steps of the refinement of `Execution` |
| `Main_proofs` | `TypesHold`, `NothingIsLeft`, `UsedIsLive` (all invariants), and `ImplementsCompiler`, the refinement of `Compiler` |
| `Main_proofs`, of `Cli` | `AcceptedAsMeant`, `DefaultIsSparing` (all invariants) |
| `Main_proofs`, of `SourceFile` | `LoadsWholeOrNot`, `OverrunsOnlyAtMaximum`, `GivesBack` (all invariants) |
| `DiagStore_proofs`, of `Position` | `LocatesTheLine`, `CaretsStandUnderTheSpan` (all invariants) |
| `Suggest_proofs` | `TablesHoldDistances`, `SuggestionIsTheFirstClosest` (all invariants) |
| `Facts` | no theorems, lemmas only |

Assumptions: the first capacity is positive, caps are naturals; character
classes are disjoint and digits have values 0 to 9; `NumberMax` is at least 9; a
token list has one EOF, at its end (which `TokensAreLexemes` says of the lexer);
a move statement has two operands (what the parser's `ParsedExactly` gives);
`ImmMax` fits four bytes; `U32Max` and the bound on a file's length are naturals;
texts are sequences of characters, of which a newline and a NUL are not plain and
none is one of the layout (`TextsAssumption`; nothing is assumed of `Leap`); a
command line is a sequence of arguments whose paths are split into `/`, `.` and
the runs between them (`ArgumentsAssumption`; `StemAndExtension` needs that no
two runs are neighbours); the words and the bound of a request to `Suggest` are
no longer than `MaxLen`, any natural (`RequestsAssumption`): the distances are
defined on these words only, none of which are further apart, so a larger bound
asks for nothing else.
`ProgramLengthAssumption` of `Machine` bounds the number of statements: a source
has less than 2^32 bytes (`source.c:27`) and no statement is shorter than eight.
At six bytes per statement the file's size then stays below 2^32, which the
proof of `ImageMatches` needs, since it shows of the upper halves of addresses
that they are zero.

The arguments:

- **DiagStore.** The invariants of the run are inductive together: the report is
  right because the store is when it is made. A push is split by `AtCapacity`;
  the lemmas say how the sets of positions of one severity, and the capacity,
  change under it.
- **Lexer.** `WouldOverflowExact`: for naturals, `value > (max - digit) \div 10`
  is `value * 10 + digit > max`. With it `value = exact` as long as nothing has
  overflowed, and `exact > NumberMax` stays true under further digits. Lexemes
  are defined by maximal runs of the whole text, so the invariant `LexInv` says
  where the scan stands in that text (`Standing`): between lexemes, or inside a
  comment, word or number that began at `start`. Each step passes no lexeme, or
  exactly the one it emits (`Passes`); the value of a number is `Decimal` of its
  span, by the recursion lemmas. `ReportInv` does the same for faults: the
  store has those of them that fewer than `DIAGS_CAP` others precede.
- **Parser.** `ParsedExactly` alone is not inductive. The invariant adds that
  recovery starts behind the last round's keyword or at a token it is going to skip
  (`RecoveryMoves`), that a sentence passed has been passed whole (`PassedWhole`),
  that no error so far means nothing but sentences was passed and an error that
  the list has something else (`ErrorsSoFar`), and that the loop ends at EOF. The central lemmas say that `ParseStmt` at a sentence
  takes exactly that sentence without a diagnostic, and that otherwise it stops
  before the next token that could begin one. For the diagnostics, `ReportInv`
  says of the loop that all stored are errors, in order and before the cursor,
  and that each broken statement passed has its own; of the check for empty
  labels, that the warnings stored are those of the nodes visited.
- **Encoding.** The fields that the ModRM and REX bytes combine come apart
  again, four bytes hold an immediate, and so `Decode` inverts each encoder
  wherever its bytes stand.
- **Codegen.** The table has one entry per label passed, with distinct names, so
  it never outgrows the number of labels; no error of the first pass lies behind
  `node`; the entry remembered is the only one behind `node`. `FirstErrorReported`
  follows because each failing action reports the error at `node`. `LayoutInv`
  adds that the bytes of the statements passed stand one behind the other and
  fill the code, and that each label has the offset of the statement it labels.
  From that, running the code from a statement runs the instructions from there
  on, by induction from the last statement backwards (`LaidOutRuns`): the bytes
  at hand decode to the instruction at hand, and behind them the next begins.
- **Machine.** `Holds(file, at, bytes)` says that bytes stand at an offset of the
  file. The headers are taken apart into their fields once (`EhdrFields`,
  `PhdrFields`), and what the loader reads is what a writer wrote (`ReadU16`,
  `ReadU32`, `ReadU64`), so the file is loadable, mapped as it is, and entered at
  the address computed (`LoadedFile`). `ProcessInv` says that the memory is the
  file of the finished program and that the instruction pointer is at the address
  of an instruction or of the end (`Targets`). There the processor fetches the
  statement's bytes and nothing else (`Fetches`), and the address behind them is
  that of the next instruction (`AddressOfFollowing`, since statements without
  instructions have no bytes). A refusal is one of `Execution` because an error
  the code generator reports is one of the program (`WrongIsNotValid`).
- **Main.** `LiveInv` gives, for every stage, what is allocated when it begins
  (the parser's diagnostics may or may not be), and says that the frees to come
  on a way out cover what is left; `ResultInv` ties the exit code to the verdict
  and to what has been written. With both, each action is one of `Compiler` or
  leaves the files alone.
- **SourceFile.** The invariants say nothing of the calls in between, so `IInv`
  adds what is held at each of them (`Holdings`), that the room is one more than
  the length unless that is the largest (`Lengths`, by `NoWrap`), and that what
  has been read is the beginning of the file as long as nobody wrote it
  (`Beginning`).
- **Position.** The run checks two loops against each other. `PlaceFound` says of
  the one that counts that `line` has the newlines before `idx` and that `col - 1`
  characters back a line begins with no newline since, and of the one that
  searches that there is none between what it has reached on either side and the
  offset. A line that contains an offset has one beginning (`LocatesOneLine`
  follows). `Measures` is the invariant of the gutter's loop: the line number lies
  between what is left of it and one more, times the power of ten that was cut
  off, so that at the end the width is the number of digits `printf` writes
  (`DigitsMeasured`). `RowsAgree` then computes the cells of both rows. As long as
  all cells in front are plain, a cell's column is its index (`PlainColumns`,
  whatever `Leap` is), and no NUL has cut the line (`StringEnds`); behind the bar
  `col - 1` blanks end where the span's first character stands.
- **Cli.** `RolesExist` makes the roles of the arguments, a recursion over the
  whole command line, a function to reason about. `Found` says what the scan
  knows after a prefix of the arguments: the operands moved are as many as the
  prefix has by role, the stages are those asked for in it, the output path is
  the value of the last `--output` in it. As long as no `--` has been passed and
  every `--output` passed has been passed with its value, the next argument is
  what it looks like (`NextRole`); that is why the scan needs no look back.
  `--output` takes two arguments at once (`OutputAsked`), `--` all the rest
  (`EndFound`). Behind the scan, no complaint applies exactly when the command
  line is acceptable (`ComplaintsMeant`). The default path is a stem without `.`
  and `/` and the extension (`DefaultPath`); a path that equals it has a stem of
  one run at most (`StemAndExtension`).
- **Suggest.** The table is compared with numbers of edits anywhere in a word,
  but it is filled from the ends of two prefixes. Between them stand alignments:
  `Aligned` is the smallest set of word pairs and counts closed under the three
  ways in which a cell looks back without a swap. Whatever number of simple edits
  leads from one word to another, in whatever order and place, they are aligned
  with that number (`Spread` and the lemmas before it), so a cell is no more than
  that: each cell is the least of the alignments the cells before it allow. The
  other way, each step back is an edit or a swap, and the words on the way are
  never longer than the longer of the two, so they are words of the model. The
  distance with swaps that stay neighbours is no metric and its triangle
  inequality fails, which is why the proof goes by way of alignments and claims
  exactness only for counts of 0 and 1. `BestInv` then says of the candidates
  before the k-th that those equal or one slip away are not closer than the best,
  and those before it further.
- **Recursion.** A value defined by recursion over a text, a statement list or
  the code (`Decimal`, `OffsetOf`, `Instructions`, `Disassemble`, `Read`) is a
  recursive function. `Facts` proves that such functions exist and agree with
  their equations, from an induction principle stated with sets
  (`Induction`, `RecursionExists`, `RecursionAgrees`, `DescentExists`), so the
  proofs need no library theorem about operators.

Only model-checked: all liveness (fairness and ENABLED are beyond the prover),
`Execution`'s `<>(status # "new")` included, so of `ExecutesSource` everything but
that is a theorem. Every invariant and action property of a passing run is one.

## Not modelled

`PROJECT.json` lists each component.

- The listings of `--tokenize` and `--parse` (`TokenAsStr`, `StmtAsStr`,
  `OperandAsStr`): formatting without state, which measures and prints with the
  same function. That they are made from a buffer allocated and freed around
  each line changes nothing between two stages.
- Message, help and syntax texts and colours. `CodegenError` is never called;
  `InternalError` is reached by no state of a model (`FaultsReported` and the
  types of the lexer and parser keep spans inside the text).
- `malloc` itself: blocks have names and no addresses, `ByteBufFree`,
  `ParseFree`, `DiagsFree`, `CliOptionsFree` are steps of `Main`'s way out.
- Spellings of options that `getopt_long` takes for the ones modelled:
  `--output=PATH` and unambiguous abbreviations; and `POSIXLY_CORRECT`, under
  which it does not permute.
- The bounds on the distance that the callers of `SuggestClosest` choose: they
  are inputs of `Suggest`.
- Build scripts and tests, which are not the program.

## Plan

Done, in this order: diagnostics, lexer, parser, encoder, code generator and
their proofs; then machine, loader and ELF image, pipeline, command line,
suggester, positions, and source loading with its proof; then the proofs of the
lexer's tokens and faults, the parser's diagnostics, the layout of the code and
both refinements; last, those of the positions, the suggester and the command
line. What would come next:

1. The two stages of `Main` that have machines of their own, `Cli` and
   `SourceFile`, composed with it, so that what `ParseCli` returns is `opts` and
   a failed load is the failure of that stage.
2. For `Suggest`, that a cell is exactly the distance in which swapped letters
   stay neighbours, by an alignment with a fourth way to look back.
