----------------------------- MODULE Encoding ------------------------------
(***************************************************************************)
(* The instruction encoders of src/codegen.c and the register numbering of *)
(* src/register.c: what a statement is turned into, byte for byte, and     *)
(* which of its operands is refused.                                       *)
(***************************************************************************)
EXTENDS Integers, Sequences

CONSTANT ImmMax   \* the largest immediate of move (UINT32_MAX)

ASSUME ImmAssumption == ImmMax \in Nat /\ ImmMax \div 16777216 < 256

-----------------------------------------------------------------------------
(* Registers, in the order of the enum: the index is the hardware number.  *)

registers ==
    <<"eax", "ecx", "edx", "ebx", "esp", "ebp", "esi", "edi",
      "r8d", "r9d", "r10d", "r11d", "r12d", "r13d", "r14d", "r15d">>

Register == 0 .. 15

IsRegister(name) == \E reg \in Register : registers[reg + 1] = name
StrToRegister(name) == CHOOSE reg \in Register : registers[reg + 1] = name

(* Broken: all four bits go into the three-bit fields.                     *)
RegisterLowBitsRaw(reg) == reg

RegisterLowBits(reg) == reg % 8
RegisterNeedsRex(reg) == reg \div 8 = 1

-----------------------------------------------------------------------------
(* Statements as the parser makes them.                                    *)

Operand == [kind : {"none", "identifier", "number"}, name : STRING, number : Nat]

Statement ==
    {s \in [kind : {"label", "move", "syscall", "entry"}, name : STRING,
            src : Operand, dest : Operand] :
        s.kind = "move" => s.src.kind # "none" /\ s.dest.kind # "none"}

NoOperand == [kind |-> "none", name |-> "", number |-> 0]
IdentifierOperand(name) == [kind |-> "identifier", name |-> name, number |-> 0]
NumberOperand(number) == [kind |-> "number", name |-> "", number |-> number]

LabelStmt(name) ==
    [kind |-> "label", name |-> name, src |-> NoOperand, dest |-> NoOperand]
EntryStmt(label) ==
    [kind |-> "entry", name |-> label, src |-> NoOperand, dest |-> NoOperand]
SyscallStmt ==
    [kind |-> "syscall", name |-> "", src |-> NoOperand, dest |-> NoOperand]
MoveStmt(src, dest) ==
    [kind |-> "move", name |-> "", src |-> src, dest |-> dest]

-----------------------------------------------------------------------------
(* Operands the encoder refuses.  Each ...Faults is the errors in the      *)
(* order the code would meet them; the first one ends the process.         *)

Fault == {"expected a register", "unknown register", "immediate too large"}

RegisterFaults(operand) ==
    IF operand.kind # "identifier" THEN <<"expected a register">>
    ELSE IF ~ IsRegister(operand.name) THEN <<"unknown register">>
    ELSE << >>

ImmediateFaults(operand) ==
    IF operand.number > ImmMax THEN <<"immediate too large">> ELSE << >>

MoveFaults(stmt) ==
    IF stmt.src.kind = "identifier"
    THEN RegisterFaults(stmt.src) \o RegisterFaults(stmt.dest)
    ELSE RegisterFaults(stmt.dest) \o ImmediateFaults(stmt.src)

-----------------------------------------------------------------------------
(* Bytes.  The fields that BuildModRM and BuildRex combine do not overlap, *)
(* so "or" is "+".                                                         *)

BuildModRM(reg, rm) == 192 + reg * 8 + rm

(* Broken: the bits of the two registers are swapped.                      *)
BuildRexSwapped(reg, rm) ==
    64 + (IF RegisterNeedsRex(rm) THEN 4 ELSE 0) + (IF RegisterNeedsRex(reg) THEN 1 ELSE 0)

BuildRex(reg, rm) ==
    64 + (IF RegisterNeedsRex(reg) THEN 4 ELSE 0) + (IF RegisterNeedsRex(rm) THEN 1 ELSE 0)

EncodeMoveRegToReg(src, dest) ==
    (IF RegisterNeedsRex(src) \/ RegisterNeedsRex(dest) THEN <<BuildRex(dest, src)>>
                                                         ELSE << >>)
    \o <<139, BuildModRM(RegisterLowBits(dest), RegisterLowBits(src))>>

(* The immediate follows the opcode in little-endian order.                *)
EncodeMoveImm(imm, dest) ==
    (IF RegisterNeedsRex(dest) THEN <<64 + 1>> ELSE << >>)
    \o <<184 + RegisterLowBits(dest),
         imm % 256, (imm \div 256) % 256, (imm \div 65536) % 256, (imm \div 16777216) % 256>>

EncodeSyscall == <<15, 5>>

EncodeMoveStmt(stmt) ==
    IF stmt.src.kind = "identifier"
    THEN EncodeMoveRegToReg(StrToRegister(stmt.src.name), StrToRegister(stmt.dest.name))
    ELSE EncodeMoveImm(stmt.src.number, StrToRegister(stmt.dest.name))

(* Labels emit nothing; entry statements are never encoded.                *)
EncodeStmt(stmt) ==
    CASE stmt.kind = "syscall"           -> EncodeSyscall
      [] stmt.kind = "move"              -> EncodeMoveStmt(stmt)
      [] stmt.kind \in {"label", "entry"} -> << >>
=============================================================================
