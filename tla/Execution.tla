----------------------------- MODULE Execution -----------------------------
(***************************************************************************)
(* What a program in the source language does, without any machine code:   *)
(* the abstract specification of the compiler and the processor together.  *)
(* A program is refused, or its statements take effect one by one from the *)
(* label the entry statement names.  There is nothing behind the last      *)
(* statement: a program that gets there is lost.                           *)
(***************************************************************************)
EXTENDS Encoding

CONSTANTS Programs,     \* the statement lists
          InitialRegs,  \* the registers of a fresh process
          ExitCalls     \* numbers of the system calls that do not return

VARIABLES program,  \* the statement list
          status,   \* "new", "refused", "running", "exited", "lost"
          at,       \* the statement to execute next, 0 before the start
          regs      \* the low halves of the registers

vars == <<program, status, at, regs>>

(* Registers a system call may overwrite: its result, and the two the      *)
(* processor uses for the return address and the flags.                    *)
Clobbered == {StrToRegister(name) : name \in {"eax", "ecx", "r11d"}}

IsInstruction(stmt) == stmt.kind \in {"move", "syscall"}

(* The first statement from i on that does something.                      *)
NextInstruction(i) ==
    LET later == {j \in i .. Len(program) : IsInstruction(program[j])}
    IN  IF later = {} THEN Len(program) + 1
        ELSE CHOOSE j \in later : \A k \in later : j <= k

Indices(kind) == {i \in 1 .. Len(program) : program[i].kind = kind}

NamesRegister(operand) == operand.kind = "identifier" /\ IsRegister(operand.name)

(* A program is valid when it has one entry, to one of its labels, labels  *)
(* have distinct names, and moves go from a register or a number that fits *)
(* into a register.                                                        *)
Valid ==
    /\ \E e \in Indices("entry") :
          /\ Indices("entry") = {e}
          /\ \E l \in Indices("label") : program[l].name = program[e].name
    /\ \A l, m \in Indices("label") : program[l].name = program[m].name => l = m
    /\ \A i \in Indices("move") :
          /\ NamesRegister(program[i].dest)
          /\ \/ NamesRegister(program[i].src)
             \/ program[i].src.kind = "number" /\ program[i].src.number <= ImmMax

Init ==
    /\ program \in Programs
    /\ status = "new"
    /\ at = 0
    /\ regs = InitialRegs

Refuse ==
    /\ status = "new" /\ ~ Valid
    /\ status' = "refused"
    /\ UNCHANGED <<program, at, regs>>

Start ==
    /\ status = "new" /\ Valid
    /\ status' = "running"
    /\ \E e \in Indices("entry"), l \in Indices("label") :
          /\ program[l].name = program[e].name
          /\ at' = NextInstruction(l)
    /\ UNCHANGED <<program, regs>>

Executing(kind) == status = "running" /\ at <= Len(program) /\ program[at].kind = kind

Move ==
    /\ Executing("move")
    /\ LET src == program[at].src
           value == IF src.kind = "number" THEN src.number ELSE regs[StrToRegister(src.name)]
       IN  regs' = [regs EXCEPT ![StrToRegister(program[at].dest.name)] = value]
    /\ at' = NextInstruction(at + 1)
    /\ UNCHANGED <<program, status>>

Call ==
    /\ Executing("syscall") /\ regs[StrToRegister("eax")] \notin ExitCalls
    /\ DOMAIN regs' = Register
    /\ \A r \in Register \ Clobbered : regs'[r] = regs[r]
    /\ at' = NextInstruction(at + 1)
    /\ UNCHANGED <<program, status>>

Exit ==
    /\ Executing("syscall") /\ regs[StrToRegister("eax")] \in ExitCalls
    /\ status' = "exited"
    /\ UNCHANGED <<program, at, regs>>

RunOffTheEnd ==
    /\ status = "running" /\ at = Len(program) + 1
    /\ status' = "lost"
    /\ UNCHANGED <<program, at, regs>>

Next == Refuse \/ Start \/ Move \/ Call \/ Exit \/ RunOffTheEnd

(* Every program is decided; nothing is promised of how long it runs, for  *)
(* a system call may wait for ever.                                        *)
Spec == Init /\ [][Next]_vars /\ <>(status # "new")
=============================================================================
