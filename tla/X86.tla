-------------------------------- MODULE X86 --------------------------------
(***************************************************************************)
(* The processor's side of the instructions the compiler emits, external   *)
(* to the repository: how the bytes of 64-bit code are decoded.  Only the  *)
(* forms src/codegen.c produces are known; anything else, or an            *)
(* instruction cut off by the end of the code, is Undecodable.             *)
(*                                                                         *)
(* Code is a sequence of bytes; at is the offset, from 0, of the           *)
(* instruction.  A decoded instruction carries its length.                 *)
(***************************************************************************)
EXTENDS Integers, Sequences

Byte == 0 .. 255

Undecodable == [op |-> "undecodable", dest |-> 0, src |-> 0, imm |-> 0, len |-> 0]

Syscall == [op |-> "syscall", dest |-> 0, src |-> 0, imm |-> 0, len |-> 2]
MovReg(dest, src, len) ==
    [op |-> "mov_reg", dest |-> dest, src |-> src, imm |-> 0, len |-> len]
MovImm(dest, imm, len) ==
    [op |-> "mov_imm", dest |-> dest, src |-> 0, imm |-> imm, len |-> len]

(* A REX prefix is 0100WRXB.  R and B supply the fourth bit of the         *)
(* registers in ModRM.reg and in ModRM.rm or the opcode.                   *)
IsRex(byte) == byte \in 64 .. 79
RexW(rex) == (rex \div 8) % 2
RexR(rex) == (rex \div 4) % 2
RexB(rex) == rex % 2

(* The number in four bytes, the lowest first.                             *)
LittleEndian(b1, b2, b3, b4) == b1 + 256 * b2 + 65536 * b3 + 16777216 * b4

(* The instruction whose opcode is at offset p, after n prefix bytes.      *)
DecodeAfter(code, p, rex, n) ==
    LET b(i) == code[p + i + 1]
        has(k) == p + k <= Len(code)
    IN  CASE has(2) /\ b(0) = 15 /\ b(1) = 5 -> [Syscall EXCEPT !.len = n + 2]
          [] has(2) /\ b(0) = 139 /\ b(1) >= 192 ->
               MovReg(((b(1) \div 8) % 8) + 8 * RexR(rex), (b(1) % 8) + 8 * RexB(rex), n + 2)
          [] has(5) /\ b(0) \in 184 .. 191 ->
               MovImm((b(0) - 184) + 8 * RexB(rex),
                      LittleEndian(b(1), b(2), b(3), b(4)), n + 5)
          [] OTHER -> Undecodable

Decode(code, at) ==
    IF at >= Len(code) THEN Undecodable
    ELSE IF ~ IsRex(code[at + 1]) THEN DecodeAfter(code, at, 64, 0)
    ELSE IF RexW(code[at + 1]) = 1 THEN Undecodable
    ELSE DecodeAfter(code, at + 1, code[at + 1], 1)

(* The instructions from offset "from" to the end of the code.             *)
Disassemble(code, from) ==
    LET rest[at \in 0 .. Len(code)] ==
            LET i == Decode(code, at) IN
            IF at = Len(code) THEN << >>
            ELSE IF i = Undecodable THEN <<i>>
            ELSE <<i>> \o rest[at + i.len]
    IN  rest[from]
=============================================================================
