----------------------------- MODULE MCCodegen -----------------------------
(* The programs Codegen is checked on: every program of up to four         *)
(* statements out of two labels, two entries, syscall, moves between low   *)
(* and high registers in every combination, immediates at both ends, and   *)
(* operands that are refused.                                              *)
EXTENDS Codegen

Reg(name) == IdentifierOperand(name)

MCStatements ==
    {LabelStmt("a"), LabelStmt("b"), EntryStmt("a"), EntryStmt("b"), SyscallStmt,
     MoveStmt(Reg("edi"), Reg("ecx")), MoveStmt(Reg("r9d"), Reg("esi")),
     MoveStmt(Reg("eax"), Reg("r15d")), MoveStmt(Reg("r8d"), Reg("r10d")),
     MoveStmt(NumberOperand(0), Reg("edi")),
     MoveStmt(NumberOperand(ImmMax), Reg("r12d")),
     MoveStmt(NumberOperand(ImmMax + 1), Reg("eax")),
     MoveStmt(NumberOperand(ImmMax + 1), Reg("rax")),
     MoveStmt(Reg("eax"), NumberOperand(1))}

MCPrograms == UNION {[1 .. n -> MCStatements] : n \in 0 .. 4}
=============================================================================
