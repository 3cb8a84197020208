----------------------------- MODULE MCMachine -----------------------------
(* The programs Machine is checked on: every program of up to four         *)
(* statements out of two labels, an entry, syscall, moves with all lengths *)
(* of encoding, a number too large, and the number of a call that exits;   *)
(* and programs of one label and entry around every four instructions.     *)
EXTENDS Machine

Reg(name) == IdentifierOperand(name)

MCInstructions ==
    {SyscallStmt, MoveStmt(NumberOperand(60), Reg("eax")),
     MoveStmt(Reg("eax"), Reg("r10d")), MoveStmt(Reg("r11d"), Reg("edi")),
     MoveStmt(NumberOperand(ImmMax), Reg("r8d"))}

MCStatements ==
    MCInstructions \cup
    {LabelStmt("a"), LabelStmt("b"), EntryStmt("a"),
     MoveStmt(NumberOperand(ImmMax + 1), Reg("ecx"))}

MCPrograms ==
    UNION {[1 .. n -> MCStatements] : n \in 0 .. 4}
    \cup {<<EntryStmt("a"), LabelStmt("a")>> \o p : p \in [1 .. 4 -> MCInstructions]}

MCExitCalls == {60}
MCKernelResults == {0, 60}
=============================================================================
