------------------------------ MODULE Machine ------------------------------
(***************************************************************************)
(* A program from its statements to its end: GenerateCode (module Codegen) *)
(* compiles it, BuildElf wraps the code into a file, the kernel loads that *)
(* file and the processor executes the bytes it finds there.  Compiler and *)
(* file are those of src/, kernel and processor are external.              *)
(*                                                                         *)
(* The machine is shown to implement Execution, which knows statements and *)
(* nothing of bytes or addresses.                                          *)
(***************************************************************************)
EXTENDS Codegen, Elf

CONSTANTS StackPointer,   \* the low half of the initial stack pointer
          ExitCalls,      \* numbers of the system calls that do not return
          KernelResults,  \* what other system calls may leave in eax
          Flags           \* what they leave in r11d

(* A source has less than 2^32 bytes (source.c:27), and no statement is    *)
(* shorter than the eight of "entry a;".                                   *)
MaxStatements == 536870911

ASSUME ProgramLengthAssumption == \A S \in Programs : Len(S) <= MaxStatements

VARIABLES run,    \* "compile", "not_loadable", "running", "exited", "lost"
          image,  \* the file, as the buffer BuildElf returns
          base,   \* the address the segment is mapped at
          memory, \* its bytes
          ip,     \* the instruction pointer
          regs    \* the low halves of the registers

process == <<run, image, base, memory, ip, regs>>
machineVars == <<stmts, pc, node, allocated, table, code, entry, entryOffset, error,
                 run, image, base, memory, ip, regs>>

InitialRegs == [r \in Register |-> IF r = StrToRegister("esp") THEN StackPointer ELSE 0]

MachineInit ==
    /\ Init
    /\ run = "compile"
    /\ image = ByteBufInit
    /\ base = 0
    /\ memory = << >>
    /\ ip = 0
    /\ regs = InitialRegs

Compile == Next /\ UNCHANGED process

(* main.c builds the file from what GenerateCode returned; then it is run. *)
Load ==
    /\ run = "compile" /\ pc = "done"
    /\ image' = BuildElf(code, entryOffset)
    /\ base' = Segment(image'.data).vaddr
    /\ memory' = Mapped(image'.data)
    /\ ip' = Entry(image'.data)
    /\ run' = IF Loadable(image'.data) THEN "running" ELSE "not_loadable"
    /\ UNCHANGED <<vars, regs>>

(* What the processor finds at its instruction pointer.                    *)
Fetched == IF ip < base THEN Undecodable ELSE Decode(memory, ip - base)

Executing(op) == run = "running" /\ Fetched.op = op

(* A 32-bit move clears the upper half of its destination, so the lower    *)
(* half is all there is.                                                   *)
MoveRegister ==
    /\ Executing("mov_reg")
    /\ regs' = [regs EXCEPT ![Fetched.dest] = regs[Fetched.src]]
    /\ ip' = ip + Fetched.len
    /\ UNCHANGED <<vars, run, image, base, memory>>

MoveImmediate ==
    /\ Executing("mov_imm")
    /\ regs' = [regs EXCEPT ![Fetched.dest] = Fetched.imm]
    /\ ip' = ip + Fetched.len
    /\ UNCHANGED <<vars, run, image, base, memory>>

(* The kernel's answer is in eax; rcx and r11 held the way back.           *)
SyscallReturns ==
    /\ Executing("syscall") /\ regs[StrToRegister("eax")] \notin ExitCalls
    /\ \E result \in KernelResults :
          regs' = [regs EXCEPT ![StrToRegister("eax")] = result,
                               ![StrToRegister("ecx")] = ip + Fetched.len,
                               ![StrToRegister("r11d")] = Flags]
    /\ ip' = ip + Fetched.len
    /\ UNCHANGED <<vars, run, image, base, memory>>

SyscallExits ==
    /\ Executing("syscall") /\ regs[StrToRegister("eax")] \in ExitCalls
    /\ run' = "exited"
    /\ UNCHANGED <<vars, image, base, memory, ip, regs>>

(* Outside of the code there is no instruction the compiler emitted.       *)
Trap ==
    /\ Executing("undecodable")
    /\ run' = "lost"
    /\ UNCHANGED <<vars, image, base, memory, ip, regs>>

MachineNext ==
    \/ Compile \/ Load
    \/ MoveRegister \/ MoveImmediate \/ SyscallReturns \/ SyscallExits \/ Trap

(* The compiler is sequential and waits for nothing.  A system call of the *)
(* program may wait for ever, so nothing is assumed of the process.        *)
MachineSpec ==
    MachineInit /\ [][MachineNext]_machineVars /\ WF_machineVars(Compile \/ Load)

-----------------------------------------------------------------------------
(* The refinement mapping: the instruction pointer stands for the          *)
(* statement whose bytes it points to.                                     *)

StatementAt(offset) ==
    IF offset = Len(code) THEN Len(stmts) + 1
    ELSE LET here == {i \in 1 .. Len(stmts) :
                        OffsetOf(i) = offset /\ EncodeStmt(stmts[i]) # << >>}
         IN  IF here = {} THEN 0 ELSE CHOOSE i \in here : TRUE

Source == INSTANCE Execution WITH
    program <- stmts,
    status  <- IF pc = "failed" THEN "refused" ELSE IF run = "compile" THEN "new" ELSE run,
    at      <- IF run = "compile" THEN 0
               ELSE StatementAt(ip - BASE_ADDR - EHDR_SIZE - PHDR_SIZE)

-----------------------------------------------------------------------------

(* BuildElf never writes past the room realloc made, and the file it       *)
(* returns agrees with its own headers: the segment ends where the file    *)
(* does, the code follows the headers, and execution begins, and stays, in *)
(* the code or, for a label at the very end, right behind it.              *)
ImageMatchesHeaders ==
    run # "compile" =>
        LET file == image.data
            headers == EHDR_SIZE + PHDR_SIZE
        IN  /\ Len(file) <= image.cap
            /\ memory = file
            /\ memory = SubSeq(file, 1, headers) \o code
            /\ ip - base \in headers .. Len(file)

(* What the processor does with the emitted file is what the statements    *)
(* say: the program is refused exactly when it is invalid, execution       *)
(* starts behind the entry label, every instruction executed is the next   *)
(* statement with its operands, and a system call leaves all registers but *)
(* three as the program set them.                                          *)
ExecutesSource == Source!Spec

(* What README.md:117-122 says of system calls: they have at most three    *)
(* arguments, since the registers of the other three cannot be set.        *)
OnlyThreeArguments ==
    run = "running" /\ Fetched.op = "syscall" =>
        \A name \in {"r10d", "r8d", "r9d"} :
            regs[StrToRegister(name)] = InitialRegs[StrToRegister(name)]
=============================================================================
