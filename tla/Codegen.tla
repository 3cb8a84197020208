------------------------------ MODULE Codegen ------------------------------
(***************************************************************************)
(* GenerateCode of src/codegen.c: the first pass encodes the statements    *)
(* one by one and fills the label table, the second looks for the entry    *)
(* statement, and the entry's label is resolved at the end.  The first     *)
(* error ends the process (CodegenErrorFull does not return).              *)
(*                                                                         *)
(* An error is "at" the index of the statement it points to, 0 when there  *)
(* is none to point to.                                                    *)
(***************************************************************************)
EXTENDS Encoding, X86, FiniteSets

CONSTANT Programs   \* the statement lists compiled

ASSUME ProgramsAssumption == Programs \subseteq Seq(Statement)

Stmts(kind, S) == {i \in 1 .. Len(S) : S[i].kind = kind}

VARIABLES stmts,        \* the statement list
          pc,           \* "encode", "find_entry", "resolve", "done", "failed"
          node,         \* the statement the running pass looks at
          allocated,    \* entries the label table has room for
          table,        \* the label table
          code,         \* the bytes emitted
          entry,        \* index of the entry statement, 0 for NULL
          entryOffset,  \* where execution starts
          error         \* the error reported

vars == <<stmts, pc, node, allocated, table, code, entry, entryOffset, error>>

ErrorKind ==
    Fault \cup {"none", "duplicate label", "multiple entry statements",
                "no entry statement", "undefined label"}
NoError == [what |-> "none", at |-> 0]

(* Broken: the last statement is not looked at.                            *)
CountLabelsShort(S) == Cardinality(Stmts("label", SubSeq(S, 1, Len(S) - 1)))

CountLabels(S) == Cardinality(Stmts("label", S))

Init ==
    /\ stmts \in Programs
    /\ pc = "encode"
    /\ node = 1
    /\ allocated = CountLabels(stmts)
    /\ table = << >>
    /\ code = << >>
    /\ entry = 0
    /\ entryOffset = 0
    /\ error = NoError

(* LabelTableFind in two parts, its result and what it stores in           *)
(* *outOffset: the offset of the first entry of that name.                 *)
LabelTableHas(name) == \E i \in 1 .. Len(table) : table[i].name = name

LabelTableFind(name) ==
    LET i == CHOOSE i \in 1 .. Len(table) :
                 /\ table[i].name = name
                 /\ \A j \in 1 .. i - 1 : table[j].name # name
    IN  table[i].offset

CodegenError(what, at) ==
    /\ error' = [what |-> what, at |-> at]
    /\ pc' = "failed"
    /\ UNCHANGED <<stmts, node, allocated, table, code, entry, entryOffset>>

-----------------------------------------------------------------------------
(* First pass.                                                             *)

Stmt == stmts[node]
Encoding == pc = "encode" /\ node <= Len(stmts)

DuplicateLabel ==
    /\ Encoding /\ Stmt.kind = "label" /\ LabelTableHas(Stmt.name)
    /\ CodegenError("duplicate label", node)

(* Broken: a label is put at the number of its statement.                  *)
DefineLabelByStatement ==
    /\ Encoding /\ Stmt.kind = "label" /\ ~ LabelTableHas(Stmt.name)
    /\ table' = Append(table, [name |-> Stmt.name, offset |-> node - 1])
    /\ node' = node + 1
    /\ UNCHANGED <<stmts, pc, allocated, code, entry, entryOffset, error>>

DefineLabel ==
    /\ Encoding /\ Stmt.kind = "label" /\ ~ LabelTableHas(Stmt.name)
    /\ table' = Append(table, [name |-> Stmt.name, offset |-> Len(code)])
    /\ node' = node + 1
    /\ UNCHANGED <<stmts, pc, allocated, code, entry, entryOffset, error>>

SkipEntry ==
    /\ Encoding /\ Stmt.kind = "entry"
    /\ node' = node + 1
    /\ UNCHANGED <<stmts, pc, allocated, table, code, entry, entryOffset, error>>

Refused == Stmt.kind = "move" /\ MoveFaults(Stmt) # << >>

RefuseOperand ==
    /\ Encoding /\ Refused
    /\ CodegenError(MoveFaults(Stmt)[1], node)

EmitInstruction ==
    /\ Encoding /\ Stmt.kind \in {"move", "syscall"} /\ ~ Refused
    /\ code' = code \o EncodeStmt(Stmt)
    /\ node' = node + 1
    /\ UNCHANGED <<stmts, pc, allocated, table, entry, entryOffset, error>>

EndOfFirstPass ==
    /\ pc = "encode" /\ node > Len(stmts)
    /\ pc' = "find_entry"
    /\ node' = 1
    /\ UNCHANGED <<stmts, allocated, table, code, entry, entryOffset, error>>

-----------------------------------------------------------------------------
(* Second pass, and the resolution of the entry label.                     *)

FindingEntry == pc = "find_entry" /\ node <= Len(stmts)

SkipNonEntry ==
    /\ FindingEntry /\ Stmt.kind # "entry"
    /\ node' = node + 1
    /\ UNCHANGED <<stmts, pc, allocated, table, code, entry, entryOffset, error>>

FoundEntry ==
    /\ FindingEntry /\ Stmt.kind = "entry" /\ entry = 0
    /\ entry' = node
    /\ node' = node + 1
    /\ UNCHANGED <<stmts, pc, allocated, table, code, entryOffset, error>>

(* Broken: the last entry statement wins.                                  *)
MultipleEntriesLastWins ==
    /\ FindingEntry /\ Stmt.kind = "entry" /\ entry # 0
    /\ entry' = node
    /\ node' = node + 1
    /\ UNCHANGED <<stmts, pc, allocated, table, code, entryOffset, error>>

MultipleEntries ==
    /\ FindingEntry /\ Stmt.kind = "entry" /\ entry # 0
    /\ CodegenError("multiple entry statements", node)

NoEntry ==
    /\ pc = "find_entry" /\ node > Len(stmts) /\ entry = 0
    /\ CodegenError("no entry statement", 0)

EndOfSecondPass ==
    /\ pc = "find_entry" /\ node > Len(stmts) /\ entry # 0
    /\ pc' = "resolve"
    /\ UNCHANGED <<stmts, node, allocated, table, code, entry, entryOffset, error>>

UndefinedEntry ==
    /\ pc = "resolve" /\ ~ LabelTableHas(stmts[entry].name)
    /\ CodegenError("undefined label", entry)

(* The result: the code and the offset execution starts at.                *)
Return ==
    /\ pc = "resolve" /\ LabelTableHas(stmts[entry].name)
    /\ entryOffset' = LabelTableFind(stmts[entry].name)
    /\ pc' = "done"
    /\ table' = << >>
    /\ UNCHANGED <<stmts, node, allocated, code, entry, error>>

Next ==
    \/ DuplicateLabel \/ DefineLabel \/ SkipEntry
    \/ RefuseOperand \/ EmitInstruction \/ EndOfFirstPass
    \/ SkipNonEntry \/ FoundEntry \/ MultipleEntries \/ NoEntry \/ EndOfSecondPass
    \/ UndefinedEntry \/ Return

Spec == Init /\ [][Next]_vars

-----------------------------------------------------------------------------
(* What a program means, defined without the code generator.               *)

Labels == Stmts("label", stmts)
Entries == Stmts("entry", stmts)

(* The instruction of the processor a statement stands for, whatever bytes *)
(* it is encoded in.                                                       *)
Meaning(stmt) ==
    CASE stmt.kind = "syscall" -> <<"syscall">>
      [] stmt.kind = "move" /\ stmt.src.kind = "identifier" ->
           <<"mov_reg", StrToRegister(stmt.dest.name), StrToRegister(stmt.src.name)>>
      [] stmt.kind = "move" /\ stmt.src.kind = "number" ->
           <<"mov_imm", StrToRegister(stmt.dest.name), stmt.src.number>>

IsInstruction(stmt) == stmt.kind \in {"move", "syscall"}

(* The instructions among the statements from index i to index j.          *)
Instructions(i, j) ==
    LET from[k \in 1 .. j + 1] ==
            IF k > j THEN << >>
            ELSE IF IsInstruction(stmts[k]) THEN <<Meaning(stmts[k])>> \o from[k + 1]
            ELSE from[k + 1]
    IN  from[i]

(* Where the bytes of statement i begin, in the code.                      *)
OffsetOf(i) ==
    LET offset[k \in 1 .. i] ==
            IF k = 1 THEN 0 ELSE offset[k - 1] + Len(EncodeStmt(stmts[k - 1]))
    IN  offset[i]

(* What the processor does on an instruction it has decoded.               *)
Effect(ins) ==
    CASE ins.op = "syscall" -> <<"syscall">>
      [] ins.op = "mov_reg" -> <<"mov_reg", ins.dest, ins.src>>
      [] ins.op = "mov_imm" -> <<"mov_imm", ins.dest, ins.imm>>
      [] OTHER              -> <<"undecodable">>

(* The instructions the processor finds in the code from an offset on.     *)
Executed(offset) ==
    LET ins == Disassemble(code, offset)
    IN  [n \in 1 .. Len(ins) |-> Effect(ins[n])]

(* Errors of the first pass, each at its statement.                        *)
FirstPassErrors ==
    {[what |-> "duplicate label", at |-> i] :
        i \in {j \in Labels : \E k \in Labels : k < j /\ stmts[k].name = stmts[j].name}}
    \cup {[what |-> MoveFaults(stmts[i])[1], at |-> i] :
        i \in {j \in Stmts("move", stmts) : MoveFaults(stmts[j]) # << >>}}

LaterEntries == {i \in Entries : \E j \in Entries : j < i}

(* The error of the program that comes first: those of the first pass in   *)
(* source order, then those about entry statements.                        *)
FirstErrors ==
    IF FirstPassErrors # {}
    THEN {e \in FirstPassErrors : \A f \in FirstPassErrors : e.at <= f.at}
    ELSE IF LaterEntries # {}
    THEN {[what |-> "multiple entry statements", at |-> i] :
            i \in {j \in LaterEntries : \A k \in LaterEntries : j <= k}}
    ELSE IF Entries = {} THEN {[what |-> "no entry statement", at |-> 0]}
    ELSE {[what |-> "undefined label", at |-> i] :
            i \in {j \in Entries : \A l \in Labels : stmts[l].name # stmts[j].name}}

-----------------------------------------------------------------------------

LabelEntry == [name : STRING, offset : Nat]

(* The emitted code is bytes, and the second pass never follows a NULL     *)
(* entry.                                                                  *)
TypeOK ==
    /\ stmts \in Programs
    /\ pc \in {"encode", "find_entry", "resolve", "done", "failed"}
    /\ node \in 1 .. Len(stmts) + 1
    /\ allocated \in Nat
    /\ table \in Seq(LabelEntry)
    /\ code \in Seq(Byte)
    /\ entry \in 0 .. Len(stmts)
    /\ pc \in {"resolve", "done"} => entry # 0
    /\ entryOffset \in 0 .. Len(code)
    /\ error \in [what : ErrorKind, at : 0 .. Len(stmts)]

(* The label table is never written past the entries counted for it, and   *)
(* offsets never run ahead of the code.                                    *)
TableFitsAllocation ==
    /\ Len(table) <= allocated
    /\ \A i \in 1 .. Len(table) : table[i].offset \in 0 .. Len(code)

(* Executing the code from where a label was put runs exactly the          *)
(* instructions that follow the label in the source, operands included, as *)
(* far as they have been encoded.                                          *)
LabelsOnBoundaries ==
    pc \in {"encode", "find_entry", "resolve"} =>
        \A l \in {i \in Labels : pc # "encode" \/ i < node} :
            \E e \in 1 .. Len(table) :
                /\ table[e].name = stmts[l].name
                /\ table[e].offset <= Len(code)
                /\ Executed(table[e].offset) =
                     Instructions(l, IF pc = "encode" THEN node - 1 ELSE Len(stmts))

(* Execution of a finished program starts behind the label the only entry  *)
(* statement names and runs every instruction from there to the end.       *)
EntryRunsProgram ==
    pc = "done" =>
        \A i \in Entries : \A l \in Labels :
            stmts[i].name = stmts[l].name =>
                Executed(entryOffset) = Instructions(l, Len(stmts))

(* A program is refused exactly when something is wrong with it, and the   *)
(* error reported is the first one: a wrong operand or a duplicate label   *)
(* before anything about the entry.                                        *)
FirstErrorReported ==
    /\ pc = "done" => FirstErrors = {}
    /\ pc = "failed" => error \in FirstErrors
=============================================================================
