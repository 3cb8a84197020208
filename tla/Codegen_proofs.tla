-------------------------- MODULE Codegen_proofs ---------------------------
(***************************************************************************)
(* The encoders and the code generator on every program: what is encoded,  *)
(* the processor decodes; the label table stays within its allocation;     *)
(* what is refused, with which error, is what the source says is wrong     *)
(* first; labels stand where instructions begin, and the code behind the   *)
(* entry does what the statements behind the entry label say.              *)
(***************************************************************************)
EXTENDS Codegen, Facts, SequenceTheorems

-----------------------------------------------------------------------------
(* Instructions: what is encoded, the processor decodes.                   *)

(* The bytes stand in the code from offset at on.                          *)
Holds(mem, at, bytes) ==
    /\ at + Len(bytes) <= Len(mem)
    /\ \A i \in 1 .. Len(bytes) : mem[at + i] = bytes[i]

(* The two parts of a register number.                                     *)
LEMMA RegisterParts ==
    ASSUME NEW reg \in Register
    PROVE  /\ RegisterLowBits(reg) \in 0 .. 7
           /\ RegisterNeedsRex(reg) => reg = RegisterLowBits(reg) + 8
           /\ ~ RegisterNeedsRex(reg) => reg = RegisterLowBits(reg)
BY DEF Register, RegisterLowBits, RegisterNeedsRex

(* The REX prefix says nothing but the fourth bits.                        *)
LEMMA RexBits ==
    ASSUME NEW reg \in Register, NEW rm \in Register
    PROVE  /\ BuildRex(reg, rm) \in 64 .. 79 /\ RexW(BuildRex(reg, rm)) = 0
           /\ RexR(BuildRex(reg, rm)) = (IF RegisterNeedsRex(reg) THEN 1 ELSE 0)
           /\ RexB(BuildRex(reg, rm)) = (IF RegisterNeedsRex(rm) THEN 1 ELSE 0)
BY DEF BuildRex, RexW, RexR, RexB

(* The fields of ModRM come apart again.                                   *)
LEMMA ModRMFields ==
    ASSUME NEW reg \in 0 .. 7, NEW rm \in 0 .. 7
    PROVE  /\ BuildModRM(reg, rm) \in 192 .. 255
           /\ (BuildModRM(reg, rm) \div 8) % 8 = reg
           /\ BuildModRM(reg, rm) % 8 = rm
BY DEF BuildModRM

(* Dividing twice by 256 is dividing by 65536, and so on.                  *)
LEMMA NestedDivision ==
    ASSUME NEW n \in Nat
    PROVE  /\ n \div 65536 = (n \div 256) \div 256
           /\ n \div 16777216 = ((n \div 256) \div 256) \div 256
BY SMT

(* A number and its last byte.                                             *)
LEMMA LastByte ==
    ASSUME NEW n \in Nat
    PROVE  n \div 256 \in Nat /\ n = 256 * (n \div 256) + (n % 256) /\ n % 256 \in Byte
BY SMT DEF Byte

(* Four little-endian bytes hold an immediate.                             *)
LEMMA ImmediateBytes ==
    ASSUME NEW imm \in 0 .. ImmMax
    PROVE  LittleEndian(imm % 256, (imm \div 256) % 256, (imm \div 65536) % 256,
                        (imm \div 16777216) % 256) = imm
<1>1. imm \in Nat /\ imm \div 16777216 \in Nat /\ imm \div 16777216 <= 255
  BY ImmAssumption, SMT
<1> DEFINE q1 == imm \div 256
           q2 == q1 \div 256
           q3 == q2 \div 256
<1>2. imm \div 65536 = q2 /\ imm \div 16777216 = q3
  BY <1>1, NestedDivision, SMT
<1>3. q1 \in Nat /\ imm = 256 * q1 + (imm % 256) /\ imm % 256 \in Byte
  BY <1>1, LastByte, SMT
<1>4. q2 \in Nat /\ q1 = 256 * q2 + (q1 % 256) /\ q1 % 256 \in Byte
  <2> HIDE DEF q1
  <2> QED
    BY <1>3, LastByte, SMT
<1>5. q3 \in Nat /\ q2 = 256 * q3 + (q2 % 256) /\ q2 % 256 \in Byte
  <2> HIDE DEF q2
  <2> QED
    BY <1>4, LastByte, SMT
<1>6. q3 % 256 = q3
  <2>1. q3 \in Nat /\ q3 <= 255
    BY <1>1, <1>2, SMT
  <2> HIDE DEF q3
  <2> QED
    BY <2>1, SMT
<1> DEFINE r1 == imm % 256
           r2 == q1 % 256
           r3 == q2 % 256
<1>7. LittleEndian(r1, r2, r3, q3) = imm
  <2>1. r1 \in Nat /\ r2 \in Nat /\ r3 \in Nat
    BY <1>3, <1>4, <1>5, SMT DEF Byte
  <2>2. imm = 256 * q1 + r1 /\ q1 = 256 * q2 + r2 /\ q2 = 256 * q3 + r3
    BY <1>3, <1>4, <1>5, SMT
  <2>3. q1 \in Nat /\ q2 \in Nat /\ q3 \in Nat
    BY <1>3, <1>4, <1>5, SMT
  <2> HIDE DEF q1, q2, q3, r1, r2, r3
  <2> QED
    BY <1>1, <2>1, <2>2, <2>3, SMT DEF LittleEndian
<1> QED
  BY <1>2, <1>6, <1>7, SMT

(* A register put together from its low bits and its fourth.               *)
LEMMA RegisterWhole ==
    ASSUME NEW reg \in Register, NEW bit,
           bit = (IF RegisterNeedsRex(reg) THEN 1 ELSE 0)
    PROVE  RegisterLowBits(reg) + 8 * bit = reg
<1>1. CASE RegisterNeedsRex(reg)
  BY <1>1, RegisterParts DEF Register
<1>2. CASE ~ RegisterNeedsRex(reg)
  BY <1>2, RegisterParts DEF Register
<1> QED
  BY <1>1, <1>2

(* The opcode and ModRM of a register move, behind n prefix bytes.         *)
LEMMA MovRegAfter ==
    ASSUME NEW mem, NEW p \in Nat, Len(mem) \in Nat, NEW rex \in Nat, NEW n \in Nat,
           NEW dest \in Register, NEW src \in Register,
           p + 2 <= Len(mem), mem[p + 1] = 139,
           mem[p + 2] = BuildModRM(RegisterLowBits(dest), RegisterLowBits(src)),
           RexR(rex) = (IF RegisterNeedsRex(dest) THEN 1 ELSE 0),
           RexB(rex) = (IF RegisterNeedsRex(src) THEN 1 ELSE 0)
    PROVE  DecodeAfter(mem, p, rex, n) = MovReg(dest, src, n + 2)
<1> DEFINE lowDest == RegisterLowBits(dest)
           lowSrc == RegisterLowBits(src)
           modrm == BuildModRM(lowDest, lowSrc)
<1>1. lowDest \in 0 .. 7 /\ lowSrc \in 0 .. 7
  BY RegisterParts
<1>2. lowDest + 8 * RexR(rex) = dest /\ lowSrc + 8 * RexB(rex) = src
  BY RegisterWhole
<1>3. mem[p + 2] = modrm
  OBVIOUS
<1> HIDE DEF lowDest, lowSrc
<1>4. modrm \in 192 .. 255 /\ (modrm \div 8) % 8 = lowDest /\ modrm % 8 = lowSrc
  BY <1>1, ModRMFields, ZenonT(60)
<1> HIDE DEF modrm
<1>5. p + 0 + 1 = p + 1 /\ p + 1 + 1 = p + 2
  OBVIOUS
<1>6. mem[p + 0 + 1] = 139 /\ mem[p + 1 + 1] = modrm /\ modrm >= 192 /\ 139 # 15
  BY <1>3, <1>4, <1>5
<1>7. DecodeAfter(mem, p, rex, n) =
        MovReg(((modrm \div 8) % 8) + 8 * RexR(rex), (modrm % 8) + 8 * RexB(rex), n + 2)
  BY <1>6 DEF DecodeAfter
<1> QED
  BY <1>2, <1>4, <1>7

(* The opcode and immediate of an immediate move, behind n prefix bytes.   *)
LEMMA MovImmAfter ==
    ASSUME NEW mem, NEW p \in Nat, Len(mem) \in Nat, NEW rex \in Nat, NEW n \in Nat,
           NEW dest \in Register, NEW imm,
           p + 5 <= Len(mem), mem[p + 1] = 184 + RegisterLowBits(dest),
           LittleEndian(mem[p + 2], mem[p + 3], mem[p + 4], mem[p + 5]) = imm,
           RexB(rex) = (IF RegisterNeedsRex(dest) THEN 1 ELSE 0)
    PROVE  DecodeAfter(mem, p, rex, n) = MovImm(dest, imm, n + 5)
<1> DEFINE low == RegisterLowBits(dest)
           op == 184 + low
<1>1. low \in 0 .. 7 /\ low + 8 * RexB(rex) = dest
  BY RegisterParts, RegisterWhole
<1>2. mem[p + 1] = op
  OBVIOUS
<1> HIDE DEF low
<1>3. op \in 184 .. 191 /\ op # 15 /\ op # 139 /\ op - 184 = low
  BY <1>1
<1> HIDE DEF op
<1>4. /\ p + 0 + 1 = p + 1 /\ p + 1 + 1 = p + 2 /\ p + 2 + 1 = p + 3
      /\ p + 3 + 1 = p + 4 /\ p + 4 + 1 = p + 5
  OBVIOUS
<1>5. /\ mem[p + 0 + 1] = op
      /\ LittleEndian(mem[p + 1 + 1], mem[p + 2 + 1], mem[p + 3 + 1], mem[p + 4 + 1]) = imm
  BY <1>2, <1>4
<1>6. DecodeAfter(mem, p, rex, n) = MovImm((op - 184) + 8 * RexB(rex), imm, n + 5)
  BY <1>3, <1>5 DEF DecodeAfter
<1> QED
  BY <1>1, <1>3, <1>6

(* A byte that is no REX prefix is the opcode; one without W is followed   *)
(* by it.                                                                  *)
LEMMA DecodePrefix ==
    ASSUME NEW mem, NEW at \in Nat, Len(mem) \in Nat, at < Len(mem)
    PROVE  /\ mem[at + 1] \notin 64 .. 79 => Decode(mem, at) = DecodeAfter(mem, at, 64, 0)
           /\ mem[at + 1] \in 64 .. 79 /\ RexW(mem[at + 1]) = 0 =>
                Decode(mem, at) = DecodeAfter(mem, at + 1, mem[at + 1], 1)
BY DEF Decode, IsRex

(* Where two sequences of bytes stand one after the other, each stands.    *)
LEMMA HoldsBoth ==
    ASSUME NEW mem, Len(mem) \in Nat, NEW at \in Nat,
           NEW s \in Seq(Nat), NEW t \in Seq(Nat), Holds(mem, at, s \o t)
    PROVE  /\ Len(s \o t) = Len(s) + Len(t)
           /\ Holds(mem, at, s) /\ Holds(mem, at + Len(s), t)
<1> DEFINE both == s \o t
<1>1. /\ Len(both) = Len(s) + Len(t) /\ Len(s) \in Nat /\ Len(t) \in Nat
      /\ \A i \in 1 .. Len(s) : both[i] = s[i]
      /\ \A i \in 1 .. Len(t) : both[Len(s) + i] = t[i]
  OBVIOUS
<1>2. /\ at + Len(both) <= Len(mem)
      /\ \A i \in 1 .. Len(both) : mem[at + i] = both[i]
  BY DEF Holds
<1> HIDE DEF both
<1>3. Holds(mem, at, s)
  BY <1>1, <1>2 DEF Holds
<1>4. Holds(mem, at + Len(s), t)
  <2>1. ASSUME NEW i \in 1 .. Len(t)
        PROVE  mem[at + Len(s) + i] = t[i]
    <3>1. Len(s) + i \in 1 .. Len(both) /\ at + Len(s) + i = at + (Len(s) + i)
      BY <1>1
    <3> QED
      BY <1>1, <1>2, <3>1
  <2>2. at + Len(s) + Len(t) <= Len(mem)
    BY <1>1, <1>2
  <2> QED
    BY <2>1, <2>2 DEF Holds
<1> QED
  BY <1>1, <1>3, <1>4 DEF both

(* EncodeSyscallStmt: the bytes decode to syscall.                         *)
THEOREM SyscallDecodes ==
    ASSUME NEW mem \in Seq(Byte), NEW at \in Nat, Holds(mem, at, EncodeSyscall)
    PROVE  Decode(mem, at) = Syscall
<1>1. at + 2 <= Len(mem) /\ mem[at + 1] = 15 /\ mem[at + 2] = 5
  BY DEF Holds, EncodeSyscall
<1>2. Decode(mem, at) = DecodeAfter(mem, at, 64, 0)
  <2>1. Len(mem) \in Nat /\ at < Len(mem)
    BY <1>1
  <2>2. mem[at + 1] \notin 64 .. 79
    BY <1>1
  <2> QED
    BY <2>1, <2>2, DecodePrefix
<1>3. mem[at + 0 + 1] = 15 /\ mem[at + 1 + 1] = 5
  BY <1>1
<1> QED
  BY <1>1, <1>2, <1>3, SMT DEF DecodeAfter, Syscall

(* EncodeMoveRegToRegStmt: for any two registers of the sixteen the bytes  *)
(* decode to the move from the one to the other, and to all of the bytes.  *)
THEOREM MoveRegToRegDecodes ==
    ASSUME NEW mem \in Seq(Byte), NEW at \in Nat,
           NEW src \in Register, NEW dest \in Register,
           Holds(mem, at, EncodeMoveRegToReg(src, dest))
    PROVE  Decode(mem, at) = MovReg(dest, src, Len(EncodeMoveRegToReg(src, dest)))
<1> DEFINE modrm == BuildModRM(RegisterLowBits(dest), RegisterLowBits(src))
           rex == BuildRex(dest, src)
           tail == <<139, modrm>>
<1>1. Len(mem) \in Nat /\ modrm \in Nat
  <2>1. RegisterLowBits(dest) \in 0 .. 7 /\ RegisterLowBits(src) \in 0 .. 7
    BY RegisterParts
  <2>2. modrm \in 192 .. 255
    BY <2>1, ModRMFields
  <2> HIDE DEF modrm
  <2> QED
    BY <2>2
<1>2. tail \in Seq(Nat) /\ Len(tail) = 2 /\ tail[1] = 139 /\ tail[2] = modrm
  BY <1>1
<1>3. CASE RegisterNeedsRex(src) \/ RegisterNeedsRex(dest)
  <2>1. EncodeMoveRegToReg(src, dest) = <<rex>> \o tail
    BY <1>3 DEF EncodeMoveRegToReg
  <2>2. /\ rex \in 64 .. 79 /\ RexW(rex) = 0
        /\ RexR(rex) = (IF RegisterNeedsRex(dest) THEN 1 ELSE 0)
        /\ RexB(rex) = (IF RegisterNeedsRex(src) THEN 1 ELSE 0)
    BY RexBits
  <2> HIDE DEF modrm, rex, tail
  <2>3. /\ Len(EncodeMoveRegToReg(src, dest)) = 1 + 2
        /\ Holds(mem, at, <<rex>>) /\ Holds(mem, at + 1, tail)
    <3> DEFINE pre == <<rex>>
    <3>1. pre \in Seq(Nat) /\ Len(pre) = 1
      BY <2>2
    <3>2. Holds(mem, at, pre \o tail)
      BY <2>1, Zenon
    <3> HIDE DEF pre
    <3>3. /\ Len(pre \o tail) = Len(pre) + Len(tail)
          /\ Holds(mem, at, pre) /\ Holds(mem, at + Len(pre), tail)
      BY <1>1, <1>2, <3>1, <3>2, HoldsBoth
    <3>4. /\ Len(pre \o tail) = 1 + 2
          /\ Holds(mem, at, pre) /\ Holds(mem, at + 1, tail)
      BY <1>2, <3>1, <3>3, Zenon
    <3> QED
      BY <2>1, <3>4, Zenon DEF pre
  <2>4. /\ at < Len(mem) /\ mem[at + 1] = rex
        /\ (at + 1) + 2 <= Len(mem) /\ mem[(at + 1) + 1] = 139 /\ mem[(at + 1) + 2] = modrm
    <3>1. at + 1 <= Len(mem) /\ mem[at + 1] = rex
      BY <2>3 DEF Holds
    <3>2. /\ (at + 1) + 2 <= Len(mem)
          /\ \A i \in 1 .. 2 : mem[(at + 1) + i] = tail[i]
      BY <1>2, <2>3, Zenon DEF Holds
    <3> QED
      BY <1>1, <1>2, <3>1, <3>2
  <2>5. Decode(mem, at) = DecodeAfter(mem, at + 1, rex, 1)
    <3>1. mem[at + 1] \in 64 .. 79 /\ RexW(mem[at + 1]) = 0
      BY <2>2, <2>4, Zenon
    <3>2. Decode(mem, at) = DecodeAfter(mem, at + 1, mem[at + 1], 1)
      BY <1>1, <2>4, <3>1, DecodePrefix
    <3> QED
      BY <2>4, <3>2, Zenon
  <2>6. DecodeAfter(mem, at + 1, rex, 1) = MovReg(dest, src, 1 + 2)
    <3>1. at + 1 \in Nat /\ rex \in Nat /\ 1 \in Nat
      BY <2>2
    <3> QED
      BY <1>1, <2>2, <2>4, <3>1, MovRegAfter DEF modrm
  <2> QED
    BY <2>3, <2>5, <2>6, Zenon
<1>4. CASE ~ (RegisterNeedsRex(src) \/ RegisterNeedsRex(dest))
  <2>1. EncodeMoveRegToReg(src, dest) = << >> \o tail
    BY <1>4, Zenon DEF EncodeMoveRegToReg
  <2> HIDE DEF modrm, tail
  <2>7. EncodeMoveRegToReg(src, dest) = tail
    BY <1>2, <2>1
  <2>2. at + 2 <= Len(mem) /\ mem[at + 1] = 139 /\ mem[at + 2] = modrm
    <3>1. Holds(mem, at, tail)
      BY <2>7, Zenon
    <3> QED
      BY <1>2, <3>1 DEF Holds
  <2>3. Decode(mem, at) = DecodeAfter(mem, at, 64, 0)
    <3>1. at < Len(mem) /\ mem[at + 1] \notin 64 .. 79
      BY <1>1, <2>2
    <3> QED
      BY <1>1, <3>1, DecodePrefix
  <2>4. RexR(64) = 0 /\ RexB(64) = 0
    BY DEF RexR, RexB
  <2>5. DecodeAfter(mem, at, 64, 0) = MovReg(dest, src, 0 + 2)
    <3>1. 64 \in Nat /\ 0 \in Nat
      OBVIOUS
    <3> QED
      BY <1>1, <1>4, <2>2, <2>4, <3>1, MovRegAfter DEF modrm
  <2> QED
    <3>1. Len(tail) = 0 + 2
      BY <1>2
    <3> QED
      BY <2>3, <2>5, <2>7, <3>1, Zenon
<1> QED
  BY <1>3, <1>4

(* EncodeMoveStmt on a number: for any register and any immediate up to    *)
(* the limit the bytes decode to the move of that number, and to all of    *)
(* the bytes.                                                              *)
THEOREM MoveImmDecodes ==
    ASSUME NEW mem \in Seq(Byte), NEW at \in Nat,
           NEW imm \in 0 .. ImmMax, NEW dest \in Register,
           Holds(mem, at, EncodeMoveImm(imm, dest))
    PROVE  Decode(mem, at) = MovImm(dest, imm, Len(EncodeMoveImm(imm, dest)))
<1> DEFINE op == 184 + RegisterLowBits(dest)
           b1 == imm % 256
           b2 == (imm \div 256) % 256
           b3 == (imm \div 65536) % 256
           b4 == (imm \div 16777216) % 256
           tail == <<op, b1, b2, b3, b4>>
<1>1. Len(mem) \in Nat /\ op \in 184 .. 191
  BY RegisterParts
<1>2. b1 \in Nat /\ b2 \in Nat /\ b3 \in Nat /\ b4 \in Nat
  BY ImmAssumption, SMT
<1>3. LittleEndian(b1, b2, b3, b4) = imm
  BY ImmediateBytes, SMT
<1>4. EncodeMoveImm(imm, dest) =
        (IF RegisterNeedsRex(dest) THEN <<64 + 1>> ELSE << >>) \o tail
  BY SMT DEF EncodeMoveImm
<1> HIDE DEF b1, b2, b3, b4
<1>5. /\ tail \in Seq(Nat) /\ Len(tail) = 5 /\ tail[1] = op /\ tail[2] = b1
      /\ tail[3] = b2 /\ tail[4] = b3 /\ tail[5] = b4
  BY <1>1, <1>2
<1>6. CASE RegisterNeedsRex(dest)
  <2> HIDE DEF tail, op
  <2>1. EncodeMoveImm(imm, dest) = <<65>> \o tail
    BY <1>4, <1>6
  <2>2. /\ Len(EncodeMoveImm(imm, dest)) = 1 + 5
        /\ Holds(mem, at, <<65>>) /\ Holds(mem, at + 1, tail)
    <3> DEFINE pre == <<65>>
    <3>1. pre \in Seq(Nat) /\ Len(pre) = 1
      OBVIOUS
    <3>2. Holds(mem, at, pre \o tail)
      BY <2>1, Zenon
    <3> HIDE DEF pre
    <3>3. /\ Len(pre \o tail) = Len(pre) + Len(tail)
          /\ Holds(mem, at, pre) /\ Holds(mem, at + Len(pre), tail)
      BY <1>1, <1>5, <3>1, <3>2, HoldsBoth
    <3>4. /\ Len(pre \o tail) = 1 + 5
          /\ Holds(mem, at, pre) /\ Holds(mem, at + 1, tail)
      BY <1>5, <3>1, <3>3, Zenon
    <3> QED
      BY <2>1, <3>4, Zenon DEF pre
  <2>3. /\ at < Len(mem) /\ mem[at + 1] = 65
        /\ (at + 1) + 5 <= Len(mem) /\ mem[(at + 1) + 1] = op
        /\ mem[(at + 1) + 2] = b1 /\ mem[(at + 1) + 3] = b2
        /\ mem[(at + 1) + 4] = b3 /\ mem[(at + 1) + 5] = b4
    <3>1. at + 1 <= Len(mem) /\ mem[at + 1] = 65
      BY <2>2 DEF Holds
    <3>2. /\ (at + 1) + 5 <= Len(mem)
          /\ \A i \in 1 .. 5 : mem[(at + 1) + i] = tail[i]
      BY <1>5, <2>2, Zenon DEF Holds
    <3> QED
      BY <1>1, <1>5, <3>1, <3>2
  <2>4. RexW(65) = 0 /\ RexB(65) = 1 /\ 65 \in 64 .. 79
    BY DEF RexW, RexB
  <2>5. Decode(mem, at) = DecodeAfter(mem, at + 1, 65, 1)
    BY <1>1, <2>3, <2>4, DecodePrefix
  <2>6. DecodeAfter(mem, at + 1, 65, 1) = MovImm(dest, imm, 1 + 5)
    <3> DEFINE p == at + 1
    <3>1. p \in Nat /\ 65 \in Nat /\ 1 \in Nat
      OBVIOUS
    <3>2. /\ p + 5 <= Len(mem) /\ mem[p + 1] = 184 + RegisterLowBits(dest)
          /\ LittleEndian(mem[p + 2], mem[p + 3], mem[p + 4], mem[p + 5]) = imm
      BY <1>3, <2>3, Zenon DEF op
    <3>3. RexB(65) = (IF RegisterNeedsRex(dest) THEN 1 ELSE 0)
      BY <1>6, <2>4
    <3> HIDE DEF p
    <3>4. DecodeAfter(mem, p, 65, 1) = MovImm(dest, imm, 1 + 5)
      BY <1>1, <3>1, <3>2, <3>3, MovImmAfter
    <3> QED
      BY <3>4 DEF p
  <2> QED
    BY <2>2, <2>5, <2>6, Zenon
<1>7. CASE ~ RegisterNeedsRex(dest)
  <2> HIDE DEF tail, op
  <2>1. EncodeMoveImm(imm, dest) = tail
    <3>1. EncodeMoveImm(imm, dest) = << >> \o tail
      BY <1>4, <1>7, Zenon
    <3> QED
      BY <1>5, <3>1
  <2>2. /\ at + 5 <= Len(mem) /\ mem[at + 1] = op
        /\ mem[at + 2] = b1 /\ mem[at + 3] = b2 /\ mem[at + 4] = b3 /\ mem[at + 5] = b4
    <3>1. Holds(mem, at, tail)
      BY <2>1, Zenon
    <3> QED
      BY <1>5, <3>1 DEF Holds
  <2>3. at < Len(mem) /\ mem[at + 1] \notin 64 .. 79
    BY <1>1, <2>2, SMTT(30)
  <2>4. Decode(mem, at) = DecodeAfter(mem, at, 64, 0)
    BY <1>1, <2>3, DecodePrefix
  <2>5. RexB(64) = 0
    BY DEF RexB
  <2>6. DecodeAfter(mem, at, 64, 0) = MovImm(dest, imm, 0 + 5)
    <3>1. 64 \in Nat /\ 0 \in Nat
      OBVIOUS
    <3>2. /\ at + 5 <= Len(mem) /\ mem[at + 1] = 184 + RegisterLowBits(dest)
          /\ LittleEndian(mem[at + 2], mem[at + 3], mem[at + 4], mem[at + 5]) = imm
      BY <1>3, <2>2, Zenon DEF op
    <3>3. RexB(64) = (IF RegisterNeedsRex(dest) THEN 1 ELSE 0)
      BY <1>7, <2>5
    <3> QED
      BY <1>1, <3>1, <3>2, <3>3, MovImmAfter
  <2>7. Len(tail) = 0 + 5
    BY <1>5
  <2> QED
    BY <2>1, <2>4, <2>6, <2>7, Zenon
<1> QED
  BY <1>6, <1>7

-----------------------------------------------------------------------------
(* Operands that are not refused, and what they are encoded into.          *)

(* A sequence of one.                                                      *)
LEMMA Singleton ==
    ASSUME NEW S, NEW e \in S
    PROVE  <<e>> \in Seq(S) /\ <<e>> # << >> /\ << >> \in Seq(S)
OBVIOUS

(* A register operand without a fault names a register.                    *)
LEMMA RegisterFaultsType ==
    ASSUME NEW operand \in Operand
    PROVE  /\ RegisterFaults(operand) \in Seq(Fault)
           /\ RegisterFaults(operand) = << >> =>
                operand.kind = "identifier" /\ StrToRegister(operand.name) \in Register
<1>1. CASE operand.kind # "identifier"
  <2>1. RegisterFaults(operand) = <<"expected a register">>
    BY <1>1 DEF RegisterFaults
  <2>2. "expected a register" \in Fault
    BY DEF Fault
  <2> QED
    BY <2>1, <2>2, Singleton, Zenon
<1>2. CASE operand.kind = "identifier" /\ ~ IsRegister(operand.name)
  <2>1. RegisterFaults(operand) = <<"unknown register">>
    BY <1>2, Zenon DEF RegisterFaults
  <2>2. "unknown register" \in Fault
    BY DEF Fault
  <2> QED
    BY <2>1, <2>2, Singleton, Zenon
<1>3. CASE operand.kind = "identifier" /\ IsRegister(operand.name)
  <2>1. RegisterFaults(operand) = << >>
    BY <1>3, Zenon DEF RegisterFaults
  <2>2. \E reg \in Register : registers[reg + 1] = operand.name
    BY <1>3 DEF IsRegister
  <2>3. StrToRegister(operand.name) \in Register
    BY <2>2, Zenon DEF StrToRegister
  <2> QED
    BY <1>3, <2>1, <2>3
<1> QED
  BY <1>1, <1>2, <1>3

(* Nothing appended to nothing.                                            *)
LEMMA ConcatEmpty ==
    ASSUME NEW S, NEW s \in Seq(S), NEW t \in Seq(S)
    PROVE  /\ s \o t \in Seq(S)
           /\ s \o t = << >> => s = << >> /\ t = << >>
OBVIOUS

(* A move without a fault has registers and an immediate that can be       *)
(* encoded.                                                                *)
LEMMA MoveFaultsType ==
    ASSUME NEW stmt \in Statement, stmt.kind = "move"
    PROVE  /\ MoveFaults(stmt) \in Seq(Fault)
           /\ MoveFaults(stmt) = << >> =>
                /\ StrToRegister(stmt.dest.name) \in Register
                /\ IF stmt.src.kind = "identifier"
                   THEN StrToRegister(stmt.src.name) \in Register
                   ELSE stmt.src.number \in 0 .. ImmMax
<1>1. stmt.src \in Operand /\ stmt.dest \in Operand /\ stmt.src.number \in Nat
  BY DEF Statement, Operand
<1>2. ImmediateFaults(stmt.src) \in Seq(Fault)
  <2>1. \/ ImmediateFaults(stmt.src) = <<"immediate too large">>
        \/ ImmediateFaults(stmt.src) = << >>
    BY Zenon DEF ImmediateFaults
  <2>2. "immediate too large" \in Fault
    BY DEF Fault
  <2> QED
    BY <2>1, <2>2, Singleton
<1>3. ImmediateFaults(stmt.src) = << >> => stmt.src.number \in 0 .. ImmMax
  <2>1. CASE stmt.src.number > ImmMax
    BY <2>1 DEF ImmediateFaults
  <2>2. CASE ~ stmt.src.number > ImmMax
    BY <1>1, <2>2, ImmAssumption, SMT
  <2> QED
    BY <2>1, <2>2
<1>4. CASE stmt.src.kind = "identifier"
  <2>1. MoveFaults(stmt) = RegisterFaults(stmt.src) \o RegisterFaults(stmt.dest)
    BY <1>4, Zenon DEF MoveFaults
  <2>2. /\ RegisterFaults(stmt.src) \in Seq(Fault) /\ RegisterFaults(stmt.dest) \in Seq(Fault)
        /\ RegisterFaults(stmt.src) = << >> => StrToRegister(stmt.src.name) \in Register
        /\ RegisterFaults(stmt.dest) = << >> => StrToRegister(stmt.dest.name) \in Register
    BY <1>1, RegisterFaultsType, Zenon
  <2>3. /\ MoveFaults(stmt) \in Seq(Fault)
        /\ MoveFaults(stmt) = << >> =>
             RegisterFaults(stmt.src) = << >> /\ RegisterFaults(stmt.dest) = << >>
    BY <2>1, <2>2, ConcatEmpty
  <2> QED
    BY <1>4, <2>2, <2>3
<1>5. CASE stmt.src.kind # "identifier"
  <2>1. MoveFaults(stmt) = RegisterFaults(stmt.dest) \o ImmediateFaults(stmt.src)
    BY <1>5, Zenon DEF MoveFaults
  <2>2. /\ RegisterFaults(stmt.dest) \in Seq(Fault)
        /\ RegisterFaults(stmt.dest) = << >> => StrToRegister(stmt.dest.name) \in Register
    BY <1>1, RegisterFaultsType, Zenon
  <2>3. /\ MoveFaults(stmt) \in Seq(Fault)
        /\ MoveFaults(stmt) = << >> =>
             RegisterFaults(stmt.dest) = << >> /\ ImmediateFaults(stmt.src) = << >>
    BY <1>2, <2>1, <2>2, ConcatEmpty
  <2> QED
    BY <1>3, <1>5, <2>2, <2>3
<1> QED
  BY <1>4, <1>5

(* The encoders emit bytes.                                                *)
LEMMA EncodeMoveRegToRegBytes ==
    ASSUME NEW src \in Register, NEW dest \in Register
    PROVE  EncodeMoveRegToReg(src, dest) \in Seq(Byte)
<1> DEFINE modrm == BuildModRM(RegisterLowBits(dest), RegisterLowBits(src))
           rex == BuildRex(dest, src)
           pre == IF RegisterNeedsRex(src) \/ RegisterNeedsRex(dest) THEN <<rex>> ELSE << >>
<1>1. modrm \in Byte
  <2>1. RegisterLowBits(dest) \in 0 .. 7 /\ RegisterLowBits(src) \in 0 .. 7
    BY RegisterParts
  <2>2. modrm \in 192 .. 255
    BY <2>1, ModRMFields
  <2> HIDE DEF modrm
  <2> QED
    BY <2>2 DEF Byte
<1>2. rex \in Byte
  <2>1. rex \in 64 .. 79
    BY RexBits
  <2> HIDE DEF rex
  <2> QED
    BY <2>1 DEF Byte
<1>3. EncodeMoveRegToReg(src, dest) = pre \o <<139, modrm>>
  BY Zenon DEF EncodeMoveRegToReg
<1> HIDE DEF modrm, rex
<1>4. pre \in Seq(Byte)
  BY <1>2
<1>5. <<139, modrm>> \in Seq(Byte)
  BY <1>1 DEF Byte
<1> HIDE DEF pre
<1> QED
  BY <1>3, <1>4, <1>5, ConcatEmpty

(* The bytes of a move of an immediate, one by one.                        *)
LEMMA EncodeMoveImmBytes ==
    ASSUME NEW imm \in 0 .. ImmMax, NEW dest \in Register
    PROVE  EncodeMoveImm(imm, dest) \in Seq(Byte)
<1> DEFINE op == 184 + RegisterLowBits(dest)
           b1 == imm % 256
           b2 == (imm \div 256) % 256
           b3 == (imm \div 65536) % 256
           b4 == (imm \div 16777216) % 256
           pre == IF RegisterNeedsRex(dest) THEN <<64 + 1>> ELSE << >>
           tail == <<op, b1, b2, b3, b4>>
<1>1. op \in Byte
  BY RegisterParts DEF Byte
<1>2. b1 \in Byte /\ b2 \in Byte /\ b3 \in Byte /\ b4 \in Byte
  BY ImmAssumption, SMT DEF Byte
<1>3. EncodeMoveImm(imm, dest) =
        (IF RegisterNeedsRex(dest) THEN <<64 + 1>> ELSE << >>) \o tail
  BY SMT DEF EncodeMoveImm
<1> HIDE DEF op, b1, b2, b3, b4
<1>4. pre \in Seq(Byte)
  <2>1. 64 + 1 \in Byte
    BY DEF Byte
  <2>2. <<64 + 1>> \in Seq(Byte) /\ << >> \in Seq(Byte)
    BY <2>1, Singleton
  <2> QED
    BY <2>2, Zenon
<1>5. tail \in Seq(Byte)
  BY <1>1, <1>2
<1>6. EncodeMoveImm(imm, dest) = pre \o tail
  BY <1>3, Zenon
<1> HIDE DEF pre, tail
<1> QED
  BY <1>4, <1>5, <1>6, ConcatEmpty

(* What EncodeStmt emits for an instruction that is not refused is bytes.  *)
LEMMA EncodeStmtBytes ==
    ASSUME NEW stmt \in Statement, stmt.kind \in {"move", "syscall"},
           stmt.kind = "move" => MoveFaults(stmt) = << >>
    PROVE  EncodeStmt(stmt) \in Seq(Byte)
<1>1. CASE stmt.kind = "syscall"
  <2>1. EncodeStmt(stmt) = <<15, 5>>
    BY <1>1 DEF EncodeStmt, EncodeSyscall
  <2> QED
    BY <2>1 DEF Byte
<1>2. CASE stmt.kind = "move"
  <2>1. EncodeStmt(stmt) = EncodeMoveStmt(stmt)
    BY <1>2 DEF EncodeStmt
  <2>2. /\ StrToRegister(stmt.dest.name) \in Register
        /\ stmt.src.kind = "identifier" => StrToRegister(stmt.src.name) \in Register
        /\ stmt.src.kind # "identifier" => stmt.src.number \in 0 .. ImmMax
    BY <1>2, MoveFaultsType
  <2>3. EncodeMoveStmt(stmt) \in Seq(Byte)
    BY <2>2, EncodeMoveRegToRegBytes, EncodeMoveImmBytes, Zenon DEF EncodeMoveStmt
  <2> QED
    BY <2>1, <2>3
<1> QED
  BY <1>1, <1>2

-----------------------------------------------------------------------------
(* The inductive invariant.                                                *)

LabelsBefore(n) == {i \in Labels : i < n}

(* The table has room for the labels of the program and one entry for each *)
(* label passed.                                                           *)
TableCounted ==
    /\ allocated = Cardinality(Labels)
    /\ Len(table) <= allocated
    /\ pc = "encode" => Len(table) = Cardinality(LabelsBefore(node))

(* While it is in use, the table has the names of the labels passed, each  *)
(* once.                                                                   *)
TableNames ==
    /\ \A i, j \in 1 .. Len(table) : table[i].name = table[j].name => i = j
    /\ pc = "encode" =>
         {table[i].name : i \in 1 .. Len(table)} = {stmts[l].name : l \in LabelsBefore(node)}
    /\ pc \in {"find_entry", "resolve"} =>
         {table[i].name : i \in 1 .. Len(table)} = {stmts[l].name : l \in Labels}

(* No error of the first pass lies among the statements it has passed.     *)
NoErrorPassed ==
    /\ pc = "encode" => \A f \in FirstPassErrors : node <= f.at
    /\ pc \in {"find_entry", "resolve", "done"} => FirstPassErrors = {}

(* The second pass remembers the entry statement it has passed, if any.    *)
EntryFound ==
    /\ pc = "encode" => entry = 0
    /\ pc = "find_entry" =>
         /\ entry = 0 => \A i \in Entries : node <= i
         /\ entry # 0 => /\ entry \in Entries /\ entry < node
                         /\ \A i \in Entries : i < node => i = entry
    /\ pc \in {"resolve", "done"} => Entries = {entry}
    /\ pc = "done" => \E l \in Labels : stmts[l].name = stmts[entry].name

IInv ==
    /\ TypeOK /\ TableFitsAllocation
    /\ TableCounted /\ TableNames /\ NoErrorPassed /\ EntryFound
    /\ pc = "failed" => error \in FirstErrors

-----------------------------------------------------------------------------
(* What depends on the program alone.                                      *)

(* No step changes the program.                                            *)
LEMMA ProgramFixed ==
    ASSUME stmts' = stmts
    PROVE  /\ Labels' = Labels /\ Entries' = Entries
           /\ FirstPassErrors' = FirstPassErrors /\ FirstErrors' = FirstErrors
BY DEF Labels, Entries, FirstPassErrors, FirstErrors, LaterEntries, Stmts

(* The program and its parts have their types.                             *)
LEMMA ProgramTyped ==
    ASSUME TypeOK
    PROVE  /\ stmts \in Seq(Statement) /\ Len(stmts) \in Nat
           /\ node \in 1 .. Len(stmts) + 1
           /\ Labels \subseteq 1 .. Len(stmts) /\ Entries \subseteq 1 .. Len(stmts)
           /\ IsFiniteSet(Labels)
<1>1. stmts \in Seq(Statement) /\ Len(stmts) \in Nat /\ node \in 1 .. Len(stmts) + 1
  BY ProgramsAssumption DEF TypeOK
<1>2. Labels \subseteq 1 .. Len(stmts) /\ Entries \subseteq 1 .. Len(stmts)
  BY DEF Labels, Entries, Stmts
<1>3. IsFiniteSet(Labels)
  <2>1. 1 \in Int /\ Len(stmts) \in Int
    BY <1>1
  <2>2. IsFiniteSet(1 .. Len(stmts))
    BY <2>1, FS_Interval
  <2> QED
    BY <1>2, <2>2, FS_Subset
<1> QED
  BY <1>1, <1>2, <1>3

(* A pass that has not ended looks at a statement.                         *)
LEMMA NodeInRange ==
    ASSUME TypeOK, node <= Len(stmts)
    PROVE  node \in 1 .. Len(stmts) /\ node \in 0 .. Len(stmts)
<1>1. node \in 1 .. Len(stmts) + 1 /\ Len(stmts) \in Nat
  BY ProgramTyped
<1> QED
  BY <1>1

(* The errors of the first pass lie at statements.                         *)
LEMMA FirstPassErrorAt ==
    ASSUME TypeOK
    PROVE  /\ \A f \in FirstPassErrors : f.at \in 1 .. Len(stmts)
           /\ \A f \in FirstPassErrors :
                \/ /\ f.at \in Labels
                   /\ \E k \in Labels : k < f.at /\ stmts[k].name = stmts[f.at].name
                \/ stmts[f.at].kind = "move" /\ MoveFaults(stmts[f.at]) # << >>
<1> SUFFICES ASSUME NEW f \in FirstPassErrors
             PROVE  /\ f.at \in 1 .. Len(stmts)
                    /\ \/ /\ f.at \in Labels
                          /\ \E k \in Labels : k < f.at /\ stmts[k].name = stmts[f.at].name
                       \/ stmts[f.at].kind = "move" /\ MoveFaults(stmts[f.at]) # << >>
  OBVIOUS
<1>1. CASE \E i \in Labels : /\ f = [what |-> "duplicate label", at |-> i]
                             /\ \E k \in Labels : k < i /\ stmts[k].name = stmts[i].name
  <2>1. PICK i \in Labels : /\ f = [what |-> "duplicate label", at |-> i]
                           /\ \E k \in Labels : k < i /\ stmts[k].name = stmts[i].name
    BY <1>1
  <2>2. f.at = i /\ i \in 1 .. Len(stmts)
    BY <2>1, ProgramTyped
  <2> QED
    BY <2>1, <2>2, Zenon
<1>2. CASE \E i \in Stmts("move", stmts) : /\ f = [what |-> MoveFaults(stmts[i])[1], at |-> i]
                                          /\ MoveFaults(stmts[i]) # << >>
  <2>1. PICK i \in Stmts("move", stmts) : /\ f = [what |-> MoveFaults(stmts[i])[1], at |-> i]
                                         /\ MoveFaults(stmts[i]) # << >>
    BY <1>2
  <2>2. f.at = i /\ i \in 1 .. Len(stmts) /\ stmts[i].kind = "move"
    BY <2>1 DEF Stmts
  <2> QED
    BY <2>1, <2>2
<1>3. \/ f \in {[what |-> "duplicate label", at |-> i] :
              i \in {j \in Labels : \E k \in Labels : k < j /\ stmts[k].name = stmts[j].name}}
      \/ f \in {[what |-> MoveFaults(stmts[i])[1], at |-> i] :
              i \in {j \in Stmts("move", stmts) : MoveFaults(stmts[j]) # << >>}}
  BY Zenon DEF FirstPassErrors
<1> QED
  BY <1>1, <1>2, <1>3, Zenon

(* A step that leaves the table alone, and passes no label, keeps it right. *)
LEMMA TableUnchanged ==
    ASSUME TableNames, table' = table, stmts' = stmts,
           pc' = "encode" => pc = "encode" /\ LabelsBefore(node)' = LabelsBefore(node),
           pc' \in {"find_entry", "resolve"} =>
              \/ pc \in {"find_entry", "resolve"}
              \/ pc = "encode" /\ LabelsBefore(node) = Labels
    PROVE  TableNames'
<1> DEFINE InTable == {table[i].name : i \in 1 .. Len(table)}
           OfLabels(L) == {stmts[l].name : l \in L}
<1>1. InTable' = InTable /\ OfLabels(Labels)' = OfLabels(Labels)
  BY ProgramFixed, Zenon
<1>2. pc' = "encode" => OfLabels(LabelsBefore(node))' = OfLabels(LabelsBefore(node))
  BY Zenon
<1>3. /\ \A i, j \in 1 .. Len(table) : table[i].name = table[j].name => i = j
      /\ pc = "encode" => InTable = OfLabels(LabelsBefore(node))
      /\ pc \in {"find_entry", "resolve"} => InTable = OfLabels(Labels)
  BY Zenon DEF TableNames
<1>4. pc = "encode" /\ LabelsBefore(node) = Labels => InTable = OfLabels(Labels)
  BY <1>3, Zenon
<1>5. \A i, j \in 1 .. Len(table') : table'[i].name = table'[j].name => i = j
  BY <1>3, Zenon
<1> HIDE DEF InTable, OfLabels
<1>6. pc' = "encode" => InTable' = OfLabels(LabelsBefore(node))'
  BY <1>1, <1>2, <1>3
<1>7. pc' \in {"find_entry", "resolve"} => InTable' = OfLabels(Labels)'
  BY <1>1, <1>3, <1>4
<1> QED
  BY <1>5, <1>6, <1>7, Zenon DEF TableNames, InTable, OfLabels

(* It holds at the start.                                                  *)
LEMMA InitInvariant == Init => IInv
<1> SUFFICES ASSUME Init PROVE IInv
  OBVIOUS
<1>1. /\ stmts \in Programs /\ pc = "encode" /\ node = 1
      /\ allocated = Cardinality(Labels) /\ table = << >> /\ code = << >>
      /\ entry = 0 /\ entryOffset = 0 /\ error = NoError
  BY DEF Init, CountLabels, Labels
<1>2. stmts \in Seq(Statement) /\ Len(stmts) \in Nat
  BY <1>1, ProgramsAssumption
<1>3. IsFiniteSet(Labels) /\ Labels \subseteq 1 .. Len(stmts)
  <2>1. 1 \in Int /\ Len(stmts) \in Int
    BY <1>2
  <2>2. IsFiniteSet(1 .. Len(stmts)) /\ Labels \subseteq 1 .. Len(stmts)
    BY <2>1, FS_Interval DEF Labels, Stmts
  <2> QED
    BY <2>2, FS_Subset
<1>4. allocated \in Nat
  <2>1. Cardinality(Labels) \in Nat
    BY <1>3, FS_CardinalityType
  <2> QED
    BY <1>1, <2>1
<1>5. error \in [what : ErrorKind, at : 0 .. Len(stmts)]
  BY <1>1, <1>2 DEF NoError, ErrorKind
<1>6. TypeOK
  BY <1>1, <1>2, <1>4, <1>5 DEF TypeOK
<1>7. LabelsBefore(node) = {} /\ Len(table) = 0
  <2>1. \A i \in Labels : ~ i < node
    BY <1>1, <1>2, <1>3
  <2> QED
    BY <1>1, <2>1 DEF LabelsBefore
<1>8. TableFitsAllocation /\ TableCounted
  <2>1. Cardinality(LabelsBefore(node)) = 0
    BY <1>7, FS_EmptySet, Zenon
  <2> QED
    BY <1>1, <1>4, <1>7, <2>1 DEF TableFitsAllocation, TableCounted
<1>9. TableNames
  BY <1>1, <1>7 DEF TableNames
<1>10. NoErrorPassed
  <2>1. \A f \in FirstPassErrors : f.at \in 1 .. Len(stmts)
    BY <1>6, FirstPassErrorAt
  <2>2. \A f \in FirstPassErrors : node <= f.at
    BY <1>1, <1>2, <2>1
  <2> QED
    BY <1>1, <2>2 DEF NoErrorPassed
<1>11. EntryFound
  BY <1>1 DEF EntryFound
<1> QED
  BY <1>1, <1>6, <1>8, <1>9, <1>10, <1>11 DEF IInv

-----------------------------------------------------------------------------
(* Errors.                                                                 *)

(* Reporting the first error keeps the invariant.                          *)
LEMMA ErrorKeeps ==
    ASSUME IInv, NEW what \in ErrorKind, NEW at \in 0 .. Len(stmts),
           CodegenError(what, at), [what |-> what, at |-> at] \in FirstErrors
    PROVE  IInv'
<1>1. /\ error' = [what |-> what, at |-> at] /\ pc' = "failed"
      /\ stmts' = stmts /\ node' = node /\ allocated' = allocated /\ table' = table
      /\ code' = code /\ entry' = entry /\ entryOffset' = entryOffset
  BY DEF CodegenError
<1>2. Labels' = Labels /\ Entries' = Entries /\ FirstErrors' = FirstErrors
  BY <1>1, ProgramFixed
<1>3. TypeOK'
  BY <1>1 DEF IInv, TypeOK
<1>4. TableFitsAllocation' /\ TableCounted' /\ TableNames'
  BY <1>1, <1>2 DEF IInv, TableFitsAllocation, TableCounted, TableNames
<1>5. NoErrorPassed' /\ EntryFound' /\ error' \in FirstErrors'
  BY <1>1, <1>2 DEF NoErrorPassed, EntryFound
<1> QED
  BY <1>3, <1>4, <1>5 DEF IInv

(* An error of the statement that the first pass is at is the first.       *)
LEMMA FirstPassErrorIsFirst ==
    ASSUME IInv, pc = "encode", NEW e \in FirstPassErrors, e.at = node
    PROVE  e \in FirstErrors
<1>1. \A f \in FirstPassErrors : e.at <= f.at
  BY DEF IInv, NoErrorPassed
<1> QED
  BY <1>1, Zenon DEF FirstErrors

(* The table knows the labels that have been passed.                       *)
LEMMA TableKnows ==
    ASSUME IInv, pc = "encode", NEW name
    PROVE  LabelTableHas(name) <=> \E l \in Labels : l < node /\ stmts[l].name = name
<1>1. {table[i].name : i \in 1 .. Len(table)} = {stmts[l].name : l \in LabelsBefore(node)}
  BY DEF IInv, TableNames
<1>2. LabelTableHas(name) <=> name \in {table[i].name : i \in 1 .. Len(table)}
  BY DEF LabelTableHas
<1> QED
  BY <1>1, <1>2 DEF LabelsBefore

(* A label defined twice is refused.                                       *)
LEMMA DuplicateLabelKeeps ==
    ASSUME IInv, DuplicateLabel
    PROVE  IInv'
<1> DEFINE e == [what |-> "duplicate label", at |-> node]
<1>1. /\ pc = "encode" /\ node <= Len(stmts) /\ stmts[node].kind = "label"
      /\ LabelTableHas(stmts[node].name) /\ CodegenError("duplicate label", node)
  BY DEF DuplicateLabel, Encoding, Stmt
<1>2. node \in 1 .. Len(stmts) /\ node \in 0 .. Len(stmts)
  <2>1. TypeOK
    BY DEF IInv
  <2> QED
    BY <1>1, <2>1, NodeInRange
<1>3. node \in Labels
  BY <1>1, <1>2 DEF Labels, Stmts
<1>4. \E k \in Labels : k < node /\ stmts[k].name = stmts[node].name
  BY <1>1, TableKnows
<1>5. e \in FirstPassErrors
  <2>1. node \in {j \in Labels : \E k \in Labels : k < j /\ stmts[k].name = stmts[j].name}
    BY <1>3, <1>4
  <2> QED
    BY <2>1, Zenon DEF FirstPassErrors
<1>6. e \in FirstErrors
  BY <1>1, <1>5, FirstPassErrorIsFirst
<1>7. "duplicate label" \in ErrorKind
  BY DEF ErrorKind
<1> QED
  BY <1>1, <1>2, <1>6, <1>7, ErrorKeeps

(* A refused operand is the first thing wrong at its statement.            *)
LEMMA RefuseOperandKeeps ==
    ASSUME IInv, RefuseOperand
    PROVE  IInv'
<1> DEFINE fault == MoveFaults(stmts[node])[1]
           e == [what |-> fault, at |-> node]
<1>1. /\ pc = "encode" /\ node <= Len(stmts) /\ stmts[node].kind = "move"
      /\ MoveFaults(stmts[node]) # << >> /\ CodegenError(fault, node)
  BY DEF RefuseOperand, Encoding, Refused, Stmt
<1>2. node \in 1 .. Len(stmts) /\ node \in 0 .. Len(stmts) /\ stmts[node] \in Statement
  <2>1. TypeOK
    BY DEF IInv
  <2>2. node \in 1 .. Len(stmts) + 1 /\ Len(stmts) \in Nat /\ stmts \in Seq(Statement)
    BY <2>1, ProgramTyped
  <2>3. node \in 1 .. Len(stmts)
    BY <1>1, <2>2
  <2> QED
    BY <2>2, <2>3
<1>3. MoveFaults(stmts[node]) \in Seq(Fault)
  BY <1>1, <1>2, MoveFaultsType
<1>4. fault \in ErrorKind
  <2>1. MoveFaults(stmts[node])[1] \in Fault
    BY <1>1, <1>3
  <2> QED
    BY <2>1 DEF ErrorKind
<1>5. e \in FirstPassErrors
  <2>1. node \in {j \in Stmts("move", stmts) : MoveFaults(stmts[j]) # << >>}
    BY <1>1, <1>2 DEF Stmts
  <2> QED
    BY <2>1, Zenon DEF FirstPassErrors
<1> HIDE DEF fault
<1>6. e \in FirstErrors
  BY <1>1, <1>5, FirstPassErrorIsFirst
<1> QED
  BY <1>1, <1>2, <1>4, <1>6, ErrorKeeps

(* A second entry is refused.                                              *)
LEMMA MultipleEntriesKeeps ==
    ASSUME IInv, MultipleEntries
    PROVE  IInv'
<1> DEFINE e == [what |-> "multiple entry statements", at |-> node]
<1>1. /\ pc = "find_entry" /\ node <= Len(stmts) /\ stmts[node].kind = "entry" /\ entry # 0
      /\ CodegenError("multiple entry statements", node)
  BY DEF MultipleEntries, FindingEntry, Stmt
<1>2. /\ node \in 1 .. Len(stmts) /\ node \in 0 .. Len(stmts)
      /\ Entries \subseteq 1 .. Len(stmts) /\ Len(stmts) \in Nat
  <2>1. TypeOK
    BY DEF IInv
  <2>2. Len(stmts) \in Nat /\ Entries \subseteq 1 .. Len(stmts)
    BY <2>1, ProgramTyped
  <2>3. node \in 1 .. Len(stmts) /\ node \in 0 .. Len(stmts)
    BY <1>1, <2>1, NodeInRange
  <2> QED
    BY <2>2, <2>3
<1>3. /\ FirstPassErrors = {}
      /\ entry \in Entries /\ entry < node /\ \A i \in Entries : i < node => i = entry
  BY <1>1 DEF IInv, NoErrorPassed, EntryFound
<1>4. node \in LaterEntries
  BY <1>1, <1>2, <1>3 DEF LaterEntries, Entries, Stmts
<1>5. ASSUME NEW k \in LaterEntries
      PROVE  node <= k
  <2>1. PICK j \in Entries : k \in Entries /\ j < k
    BY DEF LaterEntries
  <2> QED
    BY <1>2, <1>3, <2>1
<1>6. e \in FirstErrors
  <2>1. node \in {j \in LaterEntries : \A k \in LaterEntries : j <= k}
    BY <1>4, <1>5
  <2>2. LaterEntries # {}
    BY <1>4
  <2> QED
    BY <1>3, <2>1, <2>2, Zenon DEF FirstErrors
<1>7. "multiple entry statements" \in ErrorKind
  BY DEF ErrorKind
<1> QED
  BY <1>1, <1>2, <1>6, <1>7, ErrorKeeps

(* A program without entry is refused behind its last statement.           *)
LEMMA NoEntryKeeps ==
    ASSUME IInv, NoEntry
    PROVE  IInv'
<1>1. /\ pc = "find_entry" /\ node > Len(stmts) /\ entry = 0
      /\ CodegenError("no entry statement", 0)
  BY DEF NoEntry
<1>2. /\ node \in 1 .. Len(stmts) + 1 /\ Len(stmts) \in Nat
      /\ Entries \subseteq 1 .. Len(stmts) /\ 0 \in 0 .. Len(stmts)
  <2>1. TypeOK
    BY DEF IInv
  <2>2. /\ node \in 1 .. Len(stmts) + 1 /\ Len(stmts) \in Nat
        /\ Entries \subseteq 1 .. Len(stmts)
    BY <2>1, ProgramTyped
  <2> QED
    BY <2>2
<1>3. FirstPassErrors = {} /\ \A i \in Entries : node <= i
  BY <1>1 DEF IInv, NoErrorPassed, EntryFound
<1>4. Entries = {}
  <2>1. ASSUME NEW i \in Entries
        PROVE  FALSE
    <3>1. i \in 1 .. Len(stmts) /\ node <= i
      BY <1>2, <1>3
    <3>2. node > Len(stmts) /\ Len(stmts) \in Nat /\ node \in 1 .. Len(stmts) + 1
      BY <1>1, <1>2
    <3> QED
      BY <3>1, <3>2
  <2> QED
    BY <2>1
<1>5. LaterEntries = {}
  BY <1>4 DEF LaterEntries
<1>6. [what |-> "no entry statement", at |-> 0] \in FirstErrors
  BY <1>3, <1>4, <1>5, Zenon DEF FirstErrors
<1>7. "no entry statement" \in ErrorKind
  BY DEF ErrorKind
<1> QED
  BY <1>1, <1>2, <1>6, <1>7, ErrorKeeps

(* An entry at no label is refused.                                        *)
LEMMA UndefinedEntryKeeps ==
    ASSUME IInv, UndefinedEntry
    PROVE  IInv'
<1>1. /\ pc = "resolve" /\ ~ LabelTableHas(stmts[entry].name)
      /\ CodegenError("undefined label", entry)
  BY DEF UndefinedEntry
<1>2. /\ FirstPassErrors = {} /\ Entries = {entry} /\ entry \in 0 .. Len(stmts)
      /\ {table[i].name : i \in 1 .. Len(table)} = {stmts[l].name : l \in Labels}
  BY <1>1 DEF IInv, TypeOK, NoErrorPassed, EntryFound, TableNames
<1>3. \A l \in Labels : stmts[l].name # stmts[entry].name
  <2>1. stmts[entry].name \notin {table[i].name : i \in 1 .. Len(table)}
    BY <1>1 DEF LabelTableHas
  <2> QED
    BY <1>2, <2>1
<1>4. LaterEntries = {}
  BY <1>2 DEF LaterEntries
<1>5. [what |-> "undefined label", at |-> entry] \in FirstErrors
  <2>1. entry \in {j \in Entries : \A l \in Labels : stmts[l].name # stmts[j].name}
    BY <1>2, <1>3
  <2>2. Entries # {}
    BY <1>2
  <2> QED
    BY <1>2, <1>4, <2>1, <2>2, Zenon DEF FirstErrors
<1>6. "undefined label" \in ErrorKind
  BY DEF ErrorKind
<1> QED
  BY <1>1, <1>2, <1>5, <1>6, ErrorKeeps

-----------------------------------------------------------------------------
(* The first pass.                                                         *)

(* The labels passed together with the statement at node.                  *)
LEMMA NextStatement ==
    ASSUME TypeOK, node <= Len(stmts)
    PROVE  /\ node \in 1 .. Len(stmts) /\ node + 1 \in 1 .. Len(stmts) + 1
           /\ Stmt \in Statement
           /\ IsFiniteSet(LabelsBefore(node)) /\ LabelsBefore(node) \subseteq Labels
           /\ node \notin LabelsBefore(node)
           /\ Stmt.kind = "label" =>
                node \in Labels /\ LabelsBefore(node + 1) = LabelsBefore(node) \cup {node}
           /\ Stmt.kind # "label" => LabelsBefore(node + 1) = LabelsBefore(node)
<1>1. /\ stmts \in Seq(Statement) /\ Len(stmts) \in Nat /\ node \in 1 .. Len(stmts) + 1
      /\ Labels \subseteq 1 .. Len(stmts) /\ IsFiniteSet(Labels)
  BY ProgramTyped
<1>2. /\ node \in 1 .. Len(stmts) /\ node + 1 \in 1 .. Len(stmts) + 1
      /\ Stmt \in Statement
  BY <1>1 DEF Stmt
<1>3. /\ LabelsBefore(node) \subseteq Labels /\ node \notin LabelsBefore(node)
      /\ IsFiniteSet(LabelsBefore(node))
  <2>1. LabelsBefore(node) \subseteq Labels
    BY DEF LabelsBefore
  <2>2. node \notin LabelsBefore(node)
    BY <1>2 DEF LabelsBefore
  <2> QED
    BY <1>1, <2>1, <2>2, FS_Subset
<1>4. node \in Labels <=> Stmt.kind = "label"
  BY <1>2 DEF Labels, Stmts, Stmt
<1>5. \A i \in Labels : i < node + 1 <=> i < node \/ i = node
  BY <1>1, <1>2
<1>6. CASE Stmt.kind = "label"
  <2>1. LabelsBefore(node + 1) = LabelsBefore(node) \cup {node}
    BY <1>4, <1>5, <1>6, Zenon DEF LabelsBefore
  <2> QED
    BY <1>2, <1>3, <1>4, <1>6, <2>1
<1>7. CASE Stmt.kind # "label"
  <2>1. LabelsBefore(node + 1) = LabelsBefore(node)
    BY <1>4, <1>5, <1>7, Zenon DEF LabelsBefore
  <2> QED
    BY <1>2, <1>3, <1>7, <2>1
<1> QED
  BY <1>6, <1>7

(* A statement without an error of the first pass is passed.               *)
LEMMA PassNoError ==
    ASSUME IInv, pc = "encode", node <= Len(stmts),
           Stmt.kind = "label" => ~ LabelTableHas(Stmt.name),
           Stmt.kind = "move" => MoveFaults(Stmt) = << >>
    PROVE  \A f \in FirstPassErrors : node + 1 <= f.at
<1> SUFFICES ASSUME NEW f \in FirstPassErrors
             PROVE  node + 1 <= f.at
  OBVIOUS
<1>1. /\ node <= f.at /\ f.at \in 1 .. Len(stmts) /\ TypeOK
      /\ \/ /\ f.at \in Labels
            /\ \E k \in Labels : k < f.at /\ stmts[k].name = stmts[f.at].name
         \/ stmts[f.at].kind = "move" /\ MoveFaults(stmts[f.at]) # << >>
  BY FirstPassErrorAt DEF IInv, NoErrorPassed
<1>2. node \in 1 .. Len(stmts)
  BY <1>1, NextStatement
<1>3. f.at # node
  <2>1. SUFFICES ASSUME f.at = node PROVE FALSE
    OBVIOUS
  <2>2. CASE /\ node \in Labels
             /\ \E k \in Labels : k < node /\ stmts[k].name = stmts[node].name
    <3>1. Stmt.kind = "label"
      BY <2>2 DEF Labels, Stmts, Stmt
    <3>2. LabelTableHas(Stmt.name)
      BY <2>2, TableKnows DEF Stmt
    <3> QED
      BY <3>1, <3>2
  <2>3. CASE stmts[node].kind = "move" /\ MoveFaults(stmts[node]) # << >>
    BY <2>3 DEF Stmt
  <2> QED
    BY <1>1, <2>1, <2>2, <2>3
<1> QED
  BY <1>1, <1>2, <1>3

(* A new label is one more row of the table.                               *)
LEMMA DefineLabelKeeps ==
    ASSUME IInv, DefineLabel
    PROVE  IInv'
<1> DEFINE new == [name |-> Stmt.name, offset |-> Len(code)]
           N == Len(table)
<1>1. /\ pc = "encode" /\ node <= Len(stmts) /\ Stmt.kind = "label"
      /\ ~ LabelTableHas(Stmt.name)
      /\ table' = Append(table, new) /\ node' = node + 1
      /\ stmts' = stmts /\ pc' = pc /\ allocated' = allocated /\ code' = code
      /\ entry' = entry /\ entryOffset' = entryOffset /\ error' = error
  BY DEF DefineLabel, Encoding
<1>2. /\ TypeOK /\ TableFitsAllocation /\ TableCounted /\ TableNames /\ EntryFound
  BY DEF IInv
<1>3. /\ table \in Seq(LabelEntry) /\ code \in Seq(Byte) /\ N \in Nat /\ Len(code) \in Nat
      /\ allocated \in Nat
  BY <1>2 DEF TypeOK
<1>4. /\ node \in 1 .. Len(stmts) /\ node + 1 \in 1 .. Len(stmts) + 1 /\ Stmt \in Statement
      /\ IsFiniteSet(LabelsBefore(node)) /\ LabelsBefore(node) \subseteq Labels
      /\ node \notin LabelsBefore(node) /\ node \in Labels
      /\ LabelsBefore(node + 1) = LabelsBefore(node) \cup {node}
  BY <1>1, <1>2, NextStatement
<1>5. Labels' = Labels /\ Entries' = Entries /\ FirstPassErrors' = FirstPassErrors
  BY <1>1, ProgramFixed
<1>6. new \in LabelEntry /\ new.name = Stmt.name /\ new.offset = Len(code)
  BY <1>3, <1>4 DEF LabelEntry, Statement
<1> HIDE DEF new
<1>7. /\ table' \in Seq(LabelEntry) /\ Len(table') = N + 1 /\ table'[N + 1] = new
      /\ \A i \in 1 .. N : table'[i] = table[i]
  BY <1>1, <1>3, <1>6
<1>8. TypeOK'
  BY <1>1, <1>2, <1>4, <1>7 DEF TypeOK
<1>9. /\ Cardinality(LabelsBefore(node + 1)) = N + 1
      /\ Cardinality(LabelsBefore(node + 1)) <= allocated
  <2>1. Cardinality(LabelsBefore(node)) = N /\ allocated = Cardinality(Labels)
    BY <1>1, <1>2 DEF TableCounted
  <2>2. Cardinality(LabelsBefore(node) \cup {node}) = Cardinality(LabelsBefore(node)) + 1
    BY <1>4, FS_AddElement
  <2>3. LabelsBefore(node + 1) \subseteq Labels
    BY <1>4
  <2>4. Cardinality(LabelsBefore(node + 1)) <= Cardinality(Labels)
    BY <1>2, <2>3, ProgramTyped, FS_Subset
  <2> QED
    BY <1>4, <2>1, <2>2, <2>4
<1>10. TableFitsAllocation'
  <2>1. ASSUME NEW i \in 1 .. Len(table')
        PROVE  table'[i].offset \in 0 .. Len(code')
    <3>1. CASE i \in 1 .. N
      BY <1>1, <1>2, <1>7, <3>1 DEF TableFitsAllocation
    <3>2. CASE i = N + 1
      BY <1>1, <1>3, <1>6, <1>7, <3>2
    <3> QED
      BY <1>3, <1>7, <3>1, <3>2
  <2>2. Len(table') <= allocated'
    BY <1>1, <1>7, <1>9
  <2> QED
    BY <2>1, <2>2 DEF TableFitsAllocation
<1>11. TableCounted'
  <2>1. LabelsBefore(node)' = LabelsBefore(node + 1)
    BY <1>1, <1>5 DEF LabelsBefore
  <2> QED
    BY <1>1, <1>2, <1>5, <1>7, <1>9, <2>1 DEF TableCounted
<1>12. TableNames'
  <2> DEFINE Name(i) == table[i].name
             Name2(i) == table'[i].name
  <2>1. /\ \A i, j \in 1 .. N : Name(i) = Name(j) => i = j
        /\ {Name(i) : i \in 1 .. N} = {stmts[l].name : l \in LabelsBefore(node)}
    BY <1>1, <1>2 DEF TableNames
  <2>2. Name2(N + 1) = Stmt.name /\ \A i \in 1 .. N : Name2(i) = Name(i)
    BY <1>6, <1>7
  <2>3. \A i \in 1 .. N : Name(i) # Stmt.name
    BY <1>1 DEF LabelTableHas
  <2> HIDE DEF Name, Name2
  <2>4. \A i, j \in 1 .. N + 1 : Name2(i) = Name2(j) => i = j
    <3>1. ASSUME NEW i \in 1 .. N + 1, NEW j \in 1 .. N + 1, Name2(i) = Name2(j)
          PROVE  i = j
      <4>1. CASE i = N + 1 /\ j = N + 1
        BY <4>1
      <4>2. CASE i = N + 1 /\ j # N + 1
        <5>1. j \in 1 .. N
          BY <1>3, <4>2
        <5> QED
          BY <2>2, <2>3, <3>1, <4>2, <5>1
      <4>3. CASE i # N + 1 /\ j = N + 1
        <5>1. i \in 1 .. N
          BY <1>3, <4>3
        <5> QED
          BY <2>2, <2>3, <3>1, <4>3, <5>1
      <4>4. CASE i # N + 1 /\ j # N + 1
        <5>1. i \in 1 .. N /\ j \in 1 .. N
          BY <1>3, <4>4
        <5> QED
          BY <2>1, <2>2, <3>1, <5>1
      <4> QED
        BY <4>1, <4>2, <4>3, <4>4
    <3> QED
      BY <3>1
  <2>5. {Name2(i) : i \in 1 .. N + 1} = {stmts[l].name : l \in LabelsBefore(node + 1)}
    <3>1. 1 .. N + 1 = (1 .. N) \cup {N + 1}
      BY <1>3
    <3>2. {Name2(i) : i \in (1 .. N) \cup {N + 1}} = {Name(i) : i \in 1 .. N} \cup {Stmt.name}
      BY <2>2
    <3>3. {stmts[l].name : l \in LabelsBefore(node) \cup {node}} =
            {stmts[l].name : l \in LabelsBefore(node)} \cup {Stmt.name}
      BY DEF Stmt
    <3> QED
      BY <1>4, <2>1, <3>1, <3>2, <3>3, Zenon
  <2>6. LabelsBefore(node)' = LabelsBefore(node + 1)
    BY <1>1, <1>5 DEF LabelsBefore
  <2>7. 1 .. Len(table') = 1 .. N + 1 /\ pc' = "encode"
    BY <1>1, <1>7
  <2>8. \A i, j \in 1 .. Len(table') : table'[i].name = table'[j].name => i = j
    BY <2>4, <2>7 DEF Name2
  <2>9. {table'[i].name : i \in 1 .. Len(table')} = {stmts'[l].name : l \in LabelsBefore(node)'}
    BY <1>1, <2>5, <2>6, <2>7, ZenonT(60) DEF Name2
  <2> QED
    BY <2>7, <2>8, <2>9 DEF TableNames
<1>13. NoErrorPassed'
  <2>1. \A f \in FirstPassErrors : node + 1 <= f.at
    BY <1>1, PassNoError
  <2> QED
    BY <1>1, <1>5, <2>1 DEF NoErrorPassed
<1>14. EntryFound' /\ pc' # "failed"
  BY <1>1, <1>2 DEF EntryFound
<1> QED
  BY <1>8, <1>10, <1>11, <1>12, <1>13, <1>14 DEF IInv

(* The first pass leaves entries alone.                                    *)
LEMMA SkipEntryKeeps ==
    ASSUME IInv, SkipEntry
    PROVE  IInv'
<1>1. /\ pc = "encode" /\ node <= Len(stmts) /\ Stmt.kind = "entry" /\ node' = node + 1
      /\ stmts' = stmts /\ pc' = pc /\ allocated' = allocated /\ table' = table
      /\ code' = code /\ entry' = entry /\ entryOffset' = entryOffset /\ error' = error
  BY DEF SkipEntry, Encoding
<1>2. /\ TypeOK /\ TableFitsAllocation /\ TableCounted /\ TableNames /\ EntryFound
  BY DEF IInv
<1>3. node + 1 \in 1 .. Len(stmts) + 1 /\ LabelsBefore(node + 1) = LabelsBefore(node)
  BY <1>1, <1>2, NextStatement
<1>4. Labels' = Labels /\ Entries' = Entries /\ FirstPassErrors' = FirstPassErrors
  BY <1>1, ProgramFixed
<1>5. LabelsBefore(node)' = LabelsBefore(node)
  BY <1>1, <1>3, <1>4 DEF LabelsBefore
<1>6. TypeOK' /\ TableFitsAllocation'
  BY <1>1, <1>2, <1>3 DEF TypeOK, TableFitsAllocation
<1>7. TableCounted' /\ TableNames'
  <2>1. TableCounted'
    BY <1>1, <1>2, <1>4, <1>5 DEF TableCounted
  <2> QED
    BY <1>1, <1>2, <1>5, <2>1, TableUnchanged
<1>8. NoErrorPassed'
  <2>1. \A f \in FirstPassErrors : node + 1 <= f.at
    BY <1>1, PassNoError
  <2> QED
    BY <1>1, <1>4, <2>1 DEF NoErrorPassed
<1>9. EntryFound' /\ pc' # "failed"
  BY <1>1, <1>2 DEF EntryFound
<1> QED
  BY <1>6, <1>7, <1>8, <1>9 DEF IInv

(* An accepted instruction changes the code only.                          *)
LEMMA EmitInstructionKeeps ==
    ASSUME IInv, EmitInstruction
    PROVE  IInv'
<1> DEFINE bytes == EncodeStmt(Stmt)
<1>1. /\ pc = "encode" /\ node <= Len(stmts) /\ Stmt.kind \in {"move", "syscall"}
      /\ ~ Refused /\ code' = code \o bytes /\ node' = node + 1
      /\ stmts' = stmts /\ pc' = pc /\ allocated' = allocated /\ table' = table
      /\ entry' = entry /\ entryOffset' = entryOffset /\ error' = error
  BY DEF EmitInstruction, Encoding
<1>2. /\ TypeOK /\ TableFitsAllocation /\ TableCounted /\ TableNames /\ EntryFound
  BY DEF IInv
<1>3. /\ node + 1 \in 1 .. Len(stmts) + 1 /\ LabelsBefore(node + 1) = LabelsBefore(node)
      /\ Stmt \in Statement
  BY <1>1, <1>2, NextStatement
<1>4. Stmt.kind = "move" => MoveFaults(Stmt) = << >>
  BY <1>1 DEF Refused
<1>5. bytes \in Seq(Byte) /\ code \in Seq(Byte)
  BY <1>1, <1>2, <1>3, <1>4, EncodeStmtBytes DEF TypeOK
<1> HIDE DEF bytes
<1>6. /\ code' \in Seq(Byte) /\ Len(code) \in Nat /\ Len(code') \in Nat
      /\ Len(code) <= Len(code')
  BY <1>1, <1>5
<1>7. 0 .. Len(code) \subseteq 0 .. Len(code')
  BY <1>6
<1>8. Labels' = Labels /\ Entries' = Entries /\ FirstPassErrors' = FirstPassErrors
  BY <1>1, ProgramFixed
<1>9. LabelsBefore(node)' = LabelsBefore(node)
  BY <1>1, <1>3, <1>8 DEF LabelsBefore
<1>10. TypeOK'
  <2>1. entryOffset \in 0 .. Len(code)
    BY <1>2 DEF TypeOK
  <2>2. entryOffset' \in 0 .. Len(code')
    BY <1>1, <1>7, <2>1
  <2> QED
    BY <1>1, <1>2, <1>3, <1>6, <2>2 DEF TypeOK
<1>11. TableFitsAllocation'
  BY <1>1, <1>2, <1>7 DEF TableFitsAllocation
<1>12. TableCounted' /\ TableNames'
  <2>1. TableCounted'
    BY <1>1, <1>2, <1>8, <1>9 DEF TableCounted
  <2> QED
    BY <1>1, <1>2, <1>9, <2>1, TableUnchanged
<1>13. NoErrorPassed'
  <2>1. \A f \in FirstPassErrors : node + 1 <= f.at
    BY <1>1, <1>4, PassNoError
  <2> QED
    BY <1>1, <1>8, <2>1 DEF NoErrorPassed
<1>14. EntryFound' /\ pc' # "failed"
  BY <1>1, <1>2 DEF EntryFound
<1> QED
  BY <1>10, <1>11, <1>12, <1>13, <1>14 DEF IInv

(* Once every statement is encoded, the first pass has no error.           *)
LEMMA EndOfFirstPassKeeps ==
    ASSUME IInv, EndOfFirstPass
    PROVE  IInv'
<1>1. /\ pc = "encode" /\ node > Len(stmts) /\ pc' = "find_entry" /\ node' = 1
      /\ stmts' = stmts /\ allocated' = allocated /\ table' = table
      /\ code' = code /\ entry' = entry /\ entryOffset' = entryOffset /\ error' = error
  BY DEF EndOfFirstPass
<1>2. /\ TypeOK /\ TableFitsAllocation /\ TableCounted /\ TableNames /\ NoErrorPassed
      /\ EntryFound
  BY DEF IInv
<1>3. /\ node \in 1 .. Len(stmts) + 1 /\ Len(stmts) \in Nat
      /\ Labels \subseteq 1 .. Len(stmts) /\ Entries \subseteq 1 .. Len(stmts)
  BY <1>2, ProgramTyped
<1>4. Labels' = Labels /\ Entries' = Entries /\ FirstPassErrors' = FirstPassErrors
  BY <1>1, ProgramFixed
<1>5. LabelsBefore(node) = Labels
  <2>1. node > Len(stmts)
    BY <1>1
  <2>2. \A i \in Labels : i < node
    BY <1>3, <2>1
  <2> QED
    BY <2>2 DEF LabelsBefore
<1>6. FirstPassErrors = {}
  <2>1. node > Len(stmts)
    BY <1>1
  <2>2. \A f \in FirstPassErrors : node <= f.at /\ f.at \in 1 .. Len(stmts)
    BY <1>1, <1>2, FirstPassErrorAt DEF NoErrorPassed
  <2>3. \A f \in FirstPassErrors : FALSE
    BY <1>3, <2>1, <2>2
  <2> QED
    BY <2>3
<1>7. TypeOK'
  <2>1. 1 \in 1 .. Len(stmts) + 1
    BY <1>3
  <2> QED
    BY <1>1, <1>2, <2>1 DEF TypeOK
<1>8. TableFitsAllocation' /\ TableCounted'
  BY <1>1, <1>2, <1>4 DEF TableFitsAllocation, TableCounted
<1>9. TableNames'
  BY <1>1, <1>2, <1>5, TableUnchanged
<1>10. NoErrorPassed' /\ pc' # "failed"
  BY <1>1, <1>4, <1>6 DEF NoErrorPassed
<1>11. EntryFound'
  <2>1. entry = 0
    BY <1>1, <1>2 DEF EntryFound
  <2>2. \A i \in Entries : 1 <= i
    BY <1>3
  <2> QED
    BY <1>1, <1>4, <2>1, <2>2 DEF EntryFound
<1> QED
  BY <1>7, <1>8, <1>9, <1>10, <1>11 DEF IInv

-----------------------------------------------------------------------------
(* The second pass.                                                        *)

(* The second pass leaves everything else alone.                           *)
LEMMA SkipNonEntryKeeps ==
    ASSUME IInv, SkipNonEntry
    PROVE  IInv'
<1>1. /\ pc = "find_entry" /\ node <= Len(stmts) /\ Stmt.kind # "entry"
      /\ node' = node + 1
      /\ stmts' = stmts /\ pc' = pc /\ allocated' = allocated /\ table' = table
      /\ code' = code /\ entry' = entry /\ entryOffset' = entryOffset /\ error' = error
  BY DEF SkipNonEntry, FindingEntry
<1>2. /\ TypeOK /\ TableFitsAllocation /\ TableCounted /\ TableNames /\ NoErrorPassed
      /\ EntryFound
  BY DEF IInv
<1>3. node + 1 \in 1 .. Len(stmts) + 1 /\ node \in 1 .. Len(stmts)
  BY <1>1, <1>2, NextStatement
<1>4. Labels' = Labels /\ Entries' = Entries /\ FirstPassErrors' = FirstPassErrors
  BY <1>1, ProgramFixed
<1>5. /\ TypeOK' /\ TableFitsAllocation' /\ TableCounted' /\ TableNames' /\ NoErrorPassed'
      /\ pc' # "failed"
  <2>1. TypeOK'
    BY <1>1, <1>2, <1>3 DEF TypeOK
  <2>2. TableFitsAllocation' /\ TableCounted'
    BY <1>1, <1>2, <1>4 DEF TableFitsAllocation, TableCounted
  <2>3. TableNames'
    BY <1>1, <1>2, TableUnchanged
  <2>4. NoErrorPassed' /\ pc' # "failed"
    BY <1>1, <1>2, <1>4 DEF NoErrorPassed
  <2> QED
    BY <2>1, <2>2, <2>3, <2>4
<1>6. EntryFound'
  <2>1. node \notin Entries
    BY <1>1 DEF Entries, Stmts, Stmt
  <2>2. \A i \in Entries : /\ node <= i => node + 1 <= i
                           /\ i < node + 1 => i < node
    <3>1. Entries \subseteq 1 .. Len(stmts) /\ Len(stmts) \in Nat
      BY <1>2, ProgramTyped
    <3> QED
      BY <1>3, <2>1, <3>1
  <2>3. CASE entry = 0
    <3>1. \A i \in Entries : node + 1 <= i
      BY <1>1, <1>2, <2>2, <2>3 DEF EntryFound
    <3> QED
      BY <1>1, <1>4, <2>3, <3>1 DEF EntryFound
  <2>4. CASE entry # 0
    <3>1. entry \in Entries /\ entry < node /\ \A i \in Entries : i < node => i = entry
      BY <1>1, <1>2, <2>4 DEF EntryFound
    <3>2. entry < node + 1
      <4>1. entry \in 1 .. Len(stmts) /\ Len(stmts) \in Nat
        BY <1>2, <3>1, ProgramTyped
      <4>2. entry < node
        BY <3>1
      <4> QED
        BY <1>3, <4>1, <4>2
    <3>3. \A i \in Entries : i < node + 1 => i = entry
      BY <2>2, <3>1
    <3> QED
      BY <1>1, <1>4, <2>4, <3>1, <3>2, <3>3 DEF EntryFound
  <2> QED
    BY <2>3, <2>4
<1> QED
  BY <1>5, <1>6 DEF IInv

(* The first entry at a label is remembered.                               *)
LEMMA FoundEntryKeeps ==
    ASSUME IInv, FoundEntry
    PROVE  IInv'
<1>1. /\ pc = "find_entry" /\ node <= Len(stmts) /\ Stmt.kind = "entry" /\ entry = 0
      /\ entry' = node /\ node' = node + 1
      /\ stmts' = stmts /\ pc' = pc /\ allocated' = allocated /\ table' = table
      /\ code' = code /\ entryOffset' = entryOffset /\ error' = error
  BY DEF FoundEntry, FindingEntry
<1>2. /\ TypeOK /\ TableFitsAllocation /\ TableCounted /\ TableNames /\ NoErrorPassed
      /\ EntryFound
  BY DEF IInv
<1>3. /\ node + 1 \in 1 .. Len(stmts) + 1 /\ node \in 1 .. Len(stmts)
      /\ node \in 0 .. Len(stmts)
  BY <1>1, <1>2, NextStatement, NodeInRange
<1>4. Labels' = Labels /\ Entries' = Entries /\ FirstPassErrors' = FirstPassErrors
  BY <1>1, ProgramFixed
<1>5. TypeOK'
  BY <1>1, <1>2, <1>3 DEF TypeOK
<1>6. /\ TableFitsAllocation' /\ TableCounted' /\ TableNames' /\ NoErrorPassed'
      /\ pc' # "failed"
  <2>1. TableFitsAllocation' /\ TableCounted'
    BY <1>1, <1>2, <1>4 DEF TableFitsAllocation, TableCounted
  <2>2. TableNames'
    BY <1>1, <1>2, TableUnchanged
  <2>3. NoErrorPassed' /\ pc' # "failed"
    BY <1>1, <1>2, <1>4 DEF NoErrorPassed
  <2> QED
    BY <2>1, <2>2, <2>3
<1>7. EntryFound'
  <2>1. node \in Entries /\ node # 0 /\ node < node + 1
    BY <1>1, <1>3 DEF Entries, Stmts, Stmt
  <2>2. \A i \in Entries : node <= i
    BY <1>1, <1>2 DEF EntryFound
  <2>3. \A i \in Entries : i < node + 1 => i = node
    <3>1. Entries \subseteq 1 .. Len(stmts) /\ Len(stmts) \in Nat
      BY <1>2, ProgramTyped
    <3> QED
      BY <1>3, <2>2, <3>1
  <2> QED
    BY <1>1, <1>4, <2>1, <2>3 DEF EntryFound
<1> QED
  BY <1>5, <1>6, <1>7 DEF IInv

(* The entry remembered at the end of the second pass is the only one.     *)
LEMMA EndOfSecondPassKeeps ==
    ASSUME IInv, EndOfSecondPass
    PROVE  IInv'
<1>1. /\ pc = "find_entry" /\ node > Len(stmts) /\ entry # 0 /\ pc' = "resolve"
      /\ stmts' = stmts /\ node' = node /\ allocated' = allocated /\ table' = table
      /\ code' = code /\ entry' = entry /\ entryOffset' = entryOffset /\ error' = error
  BY DEF EndOfSecondPass
<1>2. /\ TypeOK /\ TableFitsAllocation /\ TableCounted /\ TableNames /\ NoErrorPassed
      /\ EntryFound
  BY DEF IInv
<1>3. Labels' = Labels /\ Entries' = Entries /\ FirstPassErrors' = FirstPassErrors
  BY <1>1, ProgramFixed
<1>4. /\ TypeOK' /\ TableFitsAllocation' /\ TableCounted' /\ TableNames' /\ NoErrorPassed'
      /\ pc' # "failed"
  <2>1. TypeOK'
    BY <1>1, <1>2 DEF TypeOK
  <2>2. TableFitsAllocation' /\ TableCounted'
    BY <1>1, <1>2, <1>3 DEF TableFitsAllocation, TableCounted
  <2>3. TableNames'
    BY <1>1, <1>2, TableUnchanged
  <2>4. NoErrorPassed' /\ pc' # "failed"
    BY <1>1, <1>2, <1>3 DEF NoErrorPassed
  <2> QED
    BY <2>1, <2>2, <2>3, <2>4
<1>5. Entries = {entry}
  <2>1. entry \in Entries /\ \A i \in Entries : i < node => i = entry
    BY <1>1, <1>2 DEF EntryFound
  <2>2. \A i \in Entries : i < node
    <3>1. /\ Entries \subseteq 1 .. Len(stmts) /\ Len(stmts) \in Nat
          /\ node \in 1 .. Len(stmts) + 1
      BY <1>2, ProgramTyped
    <3>2. node > Len(stmts)
      BY <1>1
    <3> QED
      BY <3>1, <3>2
  <2> QED
    BY <2>1, <2>2
<1>6. EntryFound'
  BY <1>1, <1>3, <1>5 DEF EntryFound
<1> QED
  BY <1>4, <1>6 DEF IInv

(* LabelTableFind finds what is there: its result is the offset of an      *)
(* entry with that name.                                                   *)
LEMMA LabelTableFindFinds ==
    ASSUME IInv, NEW name, LabelTableHas(name)
    PROVE  \E i \in 1 .. Len(table) :
              table[i].name = name /\ LabelTableFind(name) = table[i].offset
<1> DEFINE First(i) == /\ table[i].name = name
                       /\ \A j \in 1 .. i - 1 : table[j].name # name
           found == CHOOSE i \in 1 .. Len(table) : First(i)
<1>1. \A i, j \in 1 .. Len(table) : table[i].name = table[j].name => i = j
  BY DEF IInv, TableNames
<1>2. table \in Seq(LabelEntry) /\ Len(table) \in Nat
  BY DEF IInv, TypeOK
<1>3. PICK i \in 1 .. Len(table) : table[i].name = name
  BY DEF LabelTableHas
<1>4. First(i)
  <2>1. ASSUME NEW j \in 1 .. i - 1, table[j].name = name
        PROVE  FALSE
    <3>1. j \in 1 .. Len(table) /\ j # i
      BY <1>2
    <3> QED
      BY <1>1, <1>3, <2>1, <3>1
  <2> QED
    BY <1>3, <2>1
<1>5. LabelTableFind(name) = table[found].offset
  BY Zenon DEF LabelTableFind
<1> HIDE DEF First
<1>6. found \in 1 .. Len(table) /\ First(found)
  BY <1>4, Zenon
<1>7. table[found].name = name
  BY <1>6 DEF First
<1> QED
  BY <1>5, <1>6, <1>7, Zenon

(* Returning changes nothing but the program counter.                      *)
LEMMA ReturnKeeps ==
    ASSUME IInv, Return
    PROVE  IInv'
<1> DEFINE name == stmts[entry].name
<1>1. /\ pc = "resolve" /\ LabelTableHas(name) /\ pc' = "done" /\ table' = << >>
      /\ entryOffset' = LabelTableFind(name)
      /\ stmts' = stmts /\ node' = node /\ allocated' = allocated
      /\ code' = code /\ entry' = entry /\ error' = error
  BY DEF Return
<1>2. /\ TypeOK /\ TableFitsAllocation /\ TableCounted /\ TableNames /\ NoErrorPassed
      /\ EntryFound
  BY DEF IInv
<1>3. Labels' = Labels /\ Entries' = Entries /\ FirstPassErrors' = FirstPassErrors
  BY <1>1, ProgramFixed
<1>4. PICK i \in 1 .. Len(table) :
        table[i].name = name /\ LabelTableFind(name) = table[i].offset
  BY <1>1, LabelTableFindFinds
<1>5. entryOffset' \in 0 .. Len(code')
  BY <1>1, <1>2, <1>4 DEF TableFitsAllocation
<1>6. table' \in Seq(LabelEntry) /\ Len(table') = 0
  BY <1>1
<1>7. TypeOK'
  <2>1. entry # 0
    BY <1>1, <1>2 DEF TypeOK
  <2> QED
    BY <1>1, <1>2, <1>5, <1>6, <2>1 DEF TypeOK
<1>8. TableFitsAllocation' /\ TableCounted' /\ TableNames'
  <2>1. allocated \in Nat
    BY <1>2 DEF TypeOK
  <2> QED
    BY <1>1, <1>2, <1>3, <1>6, <2>1 DEF TableFitsAllocation, TableCounted, TableNames
<1>9. NoErrorPassed' /\ pc' # "failed"
  BY <1>1, <1>2, <1>3 DEF NoErrorPassed
<1>10. EntryFound'
  <2>1. name \in {table[j].name : j \in 1 .. Len(table)}
    BY <1>4
  <2>2. {table[j].name : j \in 1 .. Len(table)} = {stmts[l].name : l \in Labels}
    BY <1>1, <1>2 DEF TableNames
  <2>3. \E l \in Labels : stmts[l].name = name
    BY <2>1, <2>2
  <2>4. Entries = {entry}
    BY <1>1, <1>2 DEF EntryFound
  <2> QED
    BY <1>1, <1>3, <2>3, <2>4 DEF EntryFound
<1> QED
  BY <1>7, <1>8, <1>9, <1>10 DEF IInv

(* The invariant looks at the variables only.                              *)
LEMMA StutterKeeps ==
    ASSUME IInv, UNCHANGED vars
    PROVE  IInv'
<1>1. /\ stmts' = stmts /\ pc' = pc /\ node' = node /\ allocated' = allocated
      /\ table' = table /\ code' = code /\ entry' = entry
      /\ entryOffset' = entryOffset /\ error' = error
  BY DEF vars
<1>2. /\ Labels' = Labels /\ Entries' = Entries
      /\ FirstPassErrors' = FirstPassErrors /\ FirstErrors' = FirstErrors
  BY <1>1, ProgramFixed
<1>3. LabelsBefore(node)' = LabelsBefore(node)
  BY <1>1, <1>2 DEF LabelsBefore
<1>4. TypeOK' /\ TableFitsAllocation'
  BY <1>1 DEF IInv, TypeOK, TableFitsAllocation
<1>5. TableCounted' /\ TableNames'
  <2>1. TableCounted' /\ TableNames
    BY <1>1, <1>2, <1>3 DEF IInv, TableCounted
  <2> QED
    BY <1>1, <1>3, <2>1, TableUnchanged
<1>6. NoErrorPassed' /\ EntryFound' /\ (pc' = "failed" => error' \in FirstErrors')
  BY <1>1, <1>2 DEF IInv, NoErrorPassed, EntryFound
<1> QED
  BY <1>4, <1>5, <1>6 DEF IInv

(* Every step of GenerateCode keeps the invariant.                         *)
LEMMA NextKeeps ==
    ASSUME IInv, [Next]_vars
    PROVE  IInv'
<1>1. CASE DuplicateLabel
  BY <1>1, DuplicateLabelKeeps
<1>2. CASE DefineLabel
  BY <1>2, DefineLabelKeeps
<1>3. CASE SkipEntry
  BY <1>3, SkipEntryKeeps
<1>4. CASE RefuseOperand
  BY <1>4, RefuseOperandKeeps
<1>5. CASE EmitInstruction
  BY <1>5, EmitInstructionKeeps
<1>6. CASE EndOfFirstPass
  BY <1>6, EndOfFirstPassKeeps
<1>7. CASE SkipNonEntry
  BY <1>7, SkipNonEntryKeeps
<1>8. CASE FoundEntry
  BY <1>8, FoundEntryKeeps
<1>9. CASE MultipleEntries
  BY <1>9, MultipleEntriesKeeps
<1>10. CASE NoEntry
  BY <1>10, NoEntryKeeps
<1>11. CASE EndOfSecondPass
  BY <1>11, EndOfSecondPassKeeps
<1>12. CASE UndefinedEntry
  BY <1>12, UndefinedEntryKeeps
<1>13. CASE Return
  BY <1>13, ReturnKeeps
<1>14. CASE UNCHANGED vars
  BY <1>14, StutterKeeps
<1> QED
  BY <1>1, <1>2, <1>3, <1>4, <1>5, <1>6, <1>7, <1>8, <1>9, <1>10, <1>11, <1>12,
     <1>13, <1>14 DEF Next

-----------------------------------------------------------------------------
(* Theorems.                                                               *)

(* The invariant, over the whole of GenerateCode.                          *)
THEOREM Invariance == Spec => []IInv
BY InitInvariant, NextKeeps, PTL DEF Spec

(* What is emitted is bytes, and the entry is never followed as NULL.      *)
THEOREM TypeCorrect == Spec => []TypeOK
<1>1. IInv => TypeOK
  BY DEF IInv
<1> QED
  BY <1>1, Invariance, PTL

(* LabelTableAdd never writes past the entries CountLabels counted, and    *)
(* every offset it stores lies within the code.                            *)
THEOREM TableStaysInBounds == Spec => []TableFitsAllocation
<1>1. IInv => TableFitsAllocation
  BY DEF IInv
<1> QED
  BY <1>1, Invariance, PTL

(* In every state the invariant allows, what is compiled has no error and  *)
(* what is refused has the first of its errors.                            *)
LEMMA ReportsFirst ==
    ASSUME IInv
    PROVE  FirstErrorReported
<1>1. CASE pc = "done"
  <2>1. /\ FirstPassErrors = {} /\ Entries = {entry}
        /\ \E l \in Labels : stmts[l].name = stmts[entry].name
    BY <1>1 DEF IInv, NoErrorPassed, EntryFound
  <2>2. LaterEntries = {} /\ Entries # {}
    <3>1. entry \in Entries /\ entry \in 0 .. Len(stmts)
      BY <2>1 DEF IInv, TypeOK
    <3>2. ~ entry < entry
      BY <3>1
    <3> QED
      BY <2>1, <3>1, <3>2, Zenon DEF LaterEntries
  <2>3. {j \in Entries : \A l \in Labels : stmts[l].name # stmts[j].name} = {}
    BY <2>1
  <2>4. FirstErrors = {}
    BY <2>1, <2>2, <2>3, Zenon DEF FirstErrors
  <2> QED
    BY <1>1, <2>4 DEF FirstErrorReported
<1>2. CASE pc = "failed"
  BY <1>2 DEF IInv, FirstErrorReported
<1> QED
  BY <1>1, <1>2 DEF FirstErrorReported

(* A program is compiled only if nothing is wrong with it, and refused     *)
(* with the first of its errors.                                           *)
THEOREM FirstErrorIsReported == Spec => []FirstErrorReported
<1>1. IInv => FirstErrorReported
  BY ReportsFirst
<1> QED
  BY <1>1, Invariance, PTL

-----------------------------------------------------------------------------
(* Where the bytes of a statement begin.                                   *)

Prefix(f, i) ==
    f = [k \in 1 .. i |-> IF k = 1 THEN 0 ELSE f[k - 1] + Len(EncodeStmt(stmts[k - 1]))]

Sized(n) == \A k \in 1 .. n : Len(EncodeStmt(stmts[k])) \in Nat

(* The lengths are added up one by one.                                    *)
LEMMA PrefixExists ==
    ASSUME NEW i \in Nat \ {0}, Sized(i - 1)
    PROVE  \E f \in [1 .. i -> Nat] : Prefix(f, i)
<1> DEFINE len == [k \in 1 .. i - 1 |-> Len(EncodeStmt(stmts[k]))]
           step == [p \in (1 .. i) \X Nat |-> IF p[1] = 1 THEN 0 ELSE p[2] + len[p[1] - 1]]
<1>1. len \in [1 .. i - 1 -> Nat] /\ \A k \in 1 .. i - 1 : len[k] = Len(EncodeStmt(stmts[k]))
  BY DEF Sized
<1> HIDE DEF len
<1>2. step \in [(1 .. i) \X Nat -> Nat]
  BY <1>1
<1>3. PICK f \in [1 .. i -> Nat] : Recursion(f, 0, step, 1, i)
  <2>1. 1 \in Int /\ i \in Int /\ 0 \in Nat /\ 1 <= i
    OBVIOUS
  <2> HIDE DEF step
  <2> QED
    BY <2>1, <1>2, RecursionExists
<1>4. ASSUME NEW k \in 2 .. i
      PROVE  f[k] = f[k - 1] + Len(EncodeStmt(stmts[k - 1]))
  <2>1. f[k] = step[<<k, f[k - 1]>>]
    <3> HIDE DEF step
    <3>1. k \in 1 + 1 .. i
      OBVIOUS
    <3> QED
      BY <1>3, <3>1 DEF Recursion
  <2>2. <<k, f[k - 1]>> \in (1 .. i) \X Nat /\ k # 1 /\ k - 1 \in 1 .. i - 1
    OBVIOUS
  <2>3. step[<<k, f[k - 1]>>] = f[k - 1] + len[k - 1]
    BY <2>2
  <2> QED
    BY <2>1, <2>2, <2>3, <1>1
<1>5. f[1] = 0
  BY <1>3 DEF Recursion
<1> HIDE DEF step
<1>6. Prefix(f, i)
  <2>1. f = [k \in 1 .. i |-> f[k]]
    BY <1>3
  <2>2. \A k \in 1 .. i :
           f[k] = IF k = 1 THEN 0 ELSE f[k - 1] + Len(EncodeStmt(stmts[k - 1]))
    BY <1>4, <1>5
  <2> QED
    BY <2>1, <2>2, Zenon DEF Prefix
<1> QED
  BY <1>6

(* OffsetOf is the last of them.                                           *)
LEMMA OffsetIsPrefix ==
    ASSUME NEW i \in Nat \ {0}, Sized(i - 1)
    PROVE  \E f \in [1 .. i -> Nat] : Prefix(f, i) /\ OffsetOf(i) = f[i]
<1> DEFINE val == CHOOSE g : Prefix(g, i)
<1>1. PICK f \in [1 .. i -> Nat] : Prefix(f, i)
  BY PrefixExists
<1>2. Prefix(val, i)
  BY <1>1
<1>3. OffsetOf(i) = val[i]
  BY DEF OffsetOf, Prefix
<1> HIDE DEF val
<1>4. /\ f[1] = val[1]
      /\ \A k \in 2 .. i : /\ f[k] = f[k - 1] + Len(EncodeStmt(stmts[k - 1]))
                           /\ val[k] = val[k - 1] + Len(EncodeStmt(stmts[k - 1]))
  BY <1>1, <1>2 DEF Prefix
<1>5. StepsAlike(f, val, 1, i)
  BY <1>4 DEF StepsAlike
<1>6. Alike(f, val, 1, i)
  BY <1>5, RecursionAgrees
<1>7. f[i] = val[i]
  BY <1>6 DEF Alike
<1> QED
  BY <1>1, <1>3, <1>7

(* So each statement begins where the one before it ends.                  *)
LEMMA OffsetStep ==
    /\ OffsetOf(1) = 0
    /\ \A i \in Nat \ {0} :
         Sized(i) =>
            /\ OffsetOf(i) \in Nat
            /\ OffsetOf(i + 1) = OffsetOf(i) + Len(EncodeStmt(stmts[i]))
<1>1. OffsetOf(1) = 0
  <2>0. 1 \in Nat \ {0} /\ Sized(1 - 1)
    BY DEF Sized
  <2>1. PICK f \in [1 .. 1 -> Nat] : Prefix(f, 1) /\ OffsetOf(1) = f[1]
    BY <2>0, OffsetIsPrefix
  <2> QED
    BY <2>1 DEF Prefix
<1>2. ASSUME NEW i \in Nat \ {0}, Sized(i)
      PROVE  /\ OffsetOf(i) \in Nat
             /\ OffsetOf(i + 1) = OffsetOf(i) + Len(EncodeStmt(stmts[i]))
  <2>0. Sized(i - 1)
    BY <1>2 DEF Sized
  <2>1. PICK f \in [1 .. i -> Nat] : Prefix(f, i) /\ OffsetOf(i) = f[i]
    BY <2>0, OffsetIsPrefix
  <2> DEFINE j == i + 1
  <2>2. j \in Nat \ {0} /\ Sized(j - 1)
    BY <1>2
  <2> HIDE DEF j
  <2>3. PICK g \in [1 .. j -> Nat] : Prefix(g, j) /\ OffsetOf(j) = g[j]
    BY <2>2, OffsetIsPrefix
  <2>4. /\ f[1] = g[1]
        /\ \A k \in 2 .. i : /\ f[k] = f[k - 1] + Len(EncodeStmt(stmts[k - 1]))
                             /\ g[k] = g[k - 1] + Len(EncodeStmt(stmts[k - 1]))
    BY <2>1, <2>3 DEF Prefix, j
  <2>5. StepsAlike(f, g, 1, i)
    BY <2>4 DEF StepsAlike
  <2>6. Alike(f, g, 1, i)
    BY <2>5, RecursionAgrees
  <2>7. f[i] = g[i]
    BY <2>6 DEF Alike
  <2>8. g[j] = g[i] + Len(EncodeStmt(stmts[i]))
    BY <2>3 DEF Prefix, j
  <2> QED
    BY <2>1, <2>3, <2>7, <2>8 DEF j
<1> QED
  BY <1>1, <1>2

-----------------------------------------------------------------------------
(* What the processor finds in the code.                                   *)

(* What is decoded behind a prefix has two or five bytes, all of the code. *)
LEMMA DecodeAfterLength ==
    ASSUME NEW bytes \in Seq(Byte), NEW p \in Nat, NEW rex, NEW n \in Nat,
           DecodeAfter(bytes, p, rex, n) # Undecodable
    PROVE  \E k \in {2, 5} : DecodeAfter(bytes, p, rex, n).len = n + k /\ p + k <= Len(bytes)
<1> DEFINE b(i) == bytes[p + i + 1]
           has(k) == p + k <= Len(bytes)
           one == has(2) /\ b(0) = 15 /\ b(1) = 5
           two == has(2) /\ b(0) = 139 /\ b(1) >= 192
           three == has(5) /\ b(0) \in 184 .. 191
<1>1. CASE one
  <2>1. DecodeAfter(bytes, p, rex, n) = [Syscall EXCEPT !.len = n + 2]
    BY <1>1 DEF DecodeAfter
  <2>2. [Syscall EXCEPT !.len = n + 2].len = n + 2
    BY DEF Syscall
  <2>3. DecodeAfter(bytes, p, rex, n).len = n + 2 /\ p + 2 <= Len(bytes)
    BY <1>1, <2>1, <2>2, Zenon
  <2>4. 2 \in {2, 5}
    OBVIOUS
  <2> QED
    BY <2>3, <2>4, Zenon
<1>2. CASE ~ one /\ two
  <2> DEFINE dest == ((b(1) \div 8) % 8) + 8 * RexR(rex)
             src == (b(1) % 8) + 8 * RexB(rex)
  <2>1. DecodeAfter(bytes, p, rex, n) = MovReg(dest, src, n + 2)
    BY <1>2 DEF DecodeAfter
  <2>2. MovReg(dest, src, n + 2).len = n + 2
    <3> HIDE DEF dest, src
    <3> QED
      BY DEF MovReg
  <2>3. DecodeAfter(bytes, p, rex, n).len = n + 2 /\ p + 2 <= Len(bytes)
    BY <1>2, <2>1, <2>2, Zenon
  <2>4. 2 \in {2, 5}
    OBVIOUS
  <2> QED
    BY <2>3, <2>4, Zenon
<1>3. CASE ~ one /\ ~ two /\ three
  <2> DEFINE dest == (b(0) - 184) + 8 * RexB(rex)
             imm == LittleEndian(b(1), b(2), b(3), b(4))
  <2>1. DecodeAfter(bytes, p, rex, n) = MovImm(dest, imm, n + 5)
    BY <1>3 DEF DecodeAfter
  <2>2. MovImm(dest, imm, n + 5).len = n + 5
    <3> HIDE DEF dest, imm
    <3> QED
      BY DEF MovImm
  <2>3. DecodeAfter(bytes, p, rex, n).len = n + 5 /\ p + 5 <= Len(bytes)
    BY <1>3, <2>1, <2>2, Zenon
  <2>4. 5 \in {2, 5}
    OBVIOUS
  <2> QED
    BY <2>3, <2>4, Zenon
<1>4. CASE ~ one /\ ~ two /\ ~ three
  BY <1>4, Zenon DEF DecodeAfter
<1> QED
  BY <1>1, <1>2, <1>3, <1>4

(* A decoded instruction has one to six bytes and ends in the code.        *)
LEMMA DecodeLength ==
    ASSUME NEW bytes \in Seq(Byte), NEW at \in 0 .. Len(bytes),
           Decode(bytes, at) # Undecodable
    PROVE  /\ at < Len(bytes) /\ Decode(bytes, at).len \in 1 .. Len(bytes) - at
           /\ Decode(bytes, at).len <= 6
<1>1. Len(bytes) \in Nat /\ at \in Nat /\ at + 1 \in Nat
  OBVIOUS
<1>2. at < Len(bytes)
  BY DEF Decode
<1>3. CASE ~ IsRex(bytes[at + 1])
  <2>1. Decode(bytes, at) = DecodeAfter(bytes, at, 64, 0)
    BY <1>1, <1>2, <1>3 DEF Decode
  <2>2. \E k \in {2, 5} : Decode(bytes, at).len = 0 + k /\ at + k <= Len(bytes)
    BY <1>1, <2>1, DecodeAfterLength
  <2> QED
    BY <1>1, <1>2, <2>2
<1>4. CASE IsRex(bytes[at + 1])
  <2>1. Decode(bytes, at) = DecodeAfter(bytes, at + 1, bytes[at + 1], 1)
    BY <1>1, <1>2, <1>4 DEF Decode
  <2> DEFINE p == at + 1
             rex == bytes[at + 1]
  <2>2. \E k \in {2, 5} : DecodeAfter(bytes, p, rex, 1).len = 1 + k /\ p + k <= Len(bytes)
    <3>1. p \in Nat /\ 1 \in Nat /\ DecodeAfter(bytes, p, rex, 1) # Undecodable
      BY <1>1, <2>1
    <3> HIDE DEF p, rex
    <3> QED
      BY <3>1, DecodeAfterLength
  <2> QED
    BY <1>1, <1>2, <2>1, <2>2
<1> QED
  BY <1>3, <1>4

Decoded == {Decode(code, at) : at \in 0 .. Len(code)}

Walk(f) ==
    f = [at \in 0 .. Len(code) |->
            LET i == Decode(code, at) IN
            IF at = Len(code) THEN << >>
            ELSE IF i = Undecodable THEN <<i>>
            ELSE <<i>> \o f[at + i.len]]

(* The walk through the code comes to an end from everywhere.              *)
LEMMA WalkExists ==
    ASSUME code \in Seq(Byte)
    PROVE  \E f : Walk(f)
<1> DEFINE n == Len(code)
           ins == [at \in 0 .. n |-> Decode(code, at)]
           S == Seq(Decoded)
           jump == [k \in 0 .. n |-> IF ins[k] = Undecodable THEN n ELSE k + ins[k].len]
           step == [p \in (0 .. n) \X S |->
                      IF ins[p[1]] = Undecodable THEN <<ins[p[1]]>> ELSE <<ins[p[1]]>> \o p[2]]
<1>1. n \in Nat
  OBVIOUS
<1>2. ins \in [0 .. n -> Decoded] /\ \A k \in 0 .. n : ins[k] = Decode(code, k)
  BY DEF Decoded
<1>3. \A k \in 0 .. n - 1 : jump[k] \in k + 1 .. n
  <2> SUFFICES ASSUME NEW k \in 0 .. n - 1
               PROVE  jump[k] \in k + 1 .. n
    OBVIOUS
  <2>0. k \in 0 .. n /\ ins[k] = Decode(code, k)
    BY <1>1, <1>2
  <2>1. CASE ins[k] = Undecodable
    <3>1. jump[k] = n
      BY <2>0, <2>1
    <3> HIDE DEF n, jump
    <3> QED
      BY <3>1, <1>1
  <2>2. CASE ins[k] # Undecodable
    <3>1. Decode(code, k).len \in 1 .. n - k
      BY <2>0, <2>2, DecodeLength
    <3>2. jump[k] = k + Decode(code, k).len
      BY <2>0, <2>2
    <3> HIDE DEF n, jump
    <3> QED
      BY <3>1, <3>2, <1>1
  <2> QED
    BY <2>1, <2>2
<1> HIDE DEF ins
<1>4. step \in [(0 .. n) \X S -> S]
  <2> SUFFICES ASSUME NEW p \in (0 .. n) \X S
               PROVE  (IF ins[p[1]] = Undecodable THEN <<ins[p[1]]>> ELSE <<ins[p[1]]>> \o p[2]) \in S
    BY Zenon
  <2>1. ins[p[1]] \in Decoded /\ p[2] \in S
    BY <1>2
  <2> QED
    BY <2>1
<1>5. << >> \in S
  OBVIOUS
<1>6. PICK f \in [0 .. n -> S] : Descent(f, << >>, step, jump, 0, n)
  <2>1. 0 \in Int /\ n \in Int /\ 0 <= n
    BY <1>1
  <2> HIDE DEF n, S, jump, step
  <2> QED
    BY <2>1, <1>3, <1>4, <1>5, DescentExists
<1>7. ASSUME NEW k \in 0 .. n - 1
      PROVE  f[k] = IF ins[k] = Undecodable THEN <<ins[k]>> ELSE <<ins[k]>> \o f[k + ins[k].len]
  <2>1. f[k] = step[<<k, f[jump[k]]>>]
    <3> HIDE DEF n, S, jump, step
    <3> QED
      BY <1>6 DEF Descent
  <2>2. jump[k] \in 0 .. n /\ k \in 0 .. n
    <3> HIDE DEF jump, n
    <3> QED
      BY <1>1, <1>3
  <2>3. f[jump[k]] \in S
    <3> HIDE DEF n, S, jump, step
    <3> QED
      BY <2>2, <1>6
  <2>4. <<k, f[jump[k]]>> \in (0 .. n) \X S
    BY <2>2, <2>3
  <2>5. f[k] = IF ins[k] = Undecodable THEN <<ins[k]>> ELSE <<ins[k]>> \o f[jump[k]]
    <3> DEFINE p == <<k, f[jump[k]]>>
    <3>1. step[p] = IF ins[p[1]] = Undecodable THEN <<ins[p[1]]>> ELSE <<ins[p[1]]>> \o p[2]
      <4> HIDE DEF n, S, p
      <4> QED
        BY <2>4 DEF p
    <3>2. p[1] = k /\ p[2] = f[jump[k]] /\ f[k] = step[p]
      BY <2>1
    <3> HIDE DEF p, step, jump
    <3> QED
      BY <3>1, <3>2, Zenon
  <2>6. ins[k] # Undecodable => jump[k] = k + ins[k].len
    BY <2>2
  <2> HIDE DEF jump
  <2> QED
    BY <2>5, <2>6, Zenon
<1>8. f[n] = << >>
  <2> HIDE DEF n, S, jump, step
  <2> QED
    BY <1>6 DEF Descent
<1> HIDE DEF jump, step
<1>9. \A at \in 0 .. n :
         f[at] = IF at = n THEN << >>
                 ELSE IF Decode(code, at) = Undecodable THEN <<Decode(code, at)>>
                 ELSE <<Decode(code, at)>> \o f[at + Decode(code, at).len]
  <2> SUFFICES ASSUME NEW at \in 0 .. n, at # n
               PROVE  f[at] = IF Decode(code, at) = Undecodable THEN <<Decode(code, at)>>
                              ELSE <<Decode(code, at)>> \o f[at + Decode(code, at).len]
    BY <1>8, Zenon
  <2>1. at \in 0 .. n - 1 /\ ins[at] = Decode(code, at)
    BY <1>1, <1>2
  <2> HIDE DEF n
  <2> QED
    BY <2>1, <1>7, Zenon
<1>10. f = [at \in 0 .. n |-> f[at]]
  BY <1>6, Zenon
<1> QED
  <2>1. Walk(f)
    BY <1>9, <1>10, Zenon DEF Walk
  <2> QED
    BY <2>1

(* So disassembling goes on behind each instruction that can be decoded,   *)
(* until the end.                                                          *)
LEMMA DisassembleAt ==
    ASSUME code \in Seq(Byte), NEW at \in 0 .. Len(code)
    PROVE  /\ at = Len(code) => Disassemble(code, at) = << >>
           /\ at # Len(code) /\ Decode(code, at) # Undecodable =>
                Disassemble(code, at) =
                   <<Decode(code, at)>> \o Disassemble(code, at + Decode(code, at).len)
<1> DEFINE val == CHOOSE f : Walk(f)
<1>1. Walk(val)
  BY WalkExists
<1>2. \A o : Disassemble(code, o) = val[o]
  BY DEF Disassemble, Walk
<1> HIDE DEF val
<1>3. val[at] = (LET i == Decode(code, at) IN
                 IF at = Len(code) THEN << >>
                 ELSE IF i = Undecodable THEN <<i>>
                 ELSE <<i>> \o val[at + i.len])
  BY <1>1, Zenon DEF Walk
<1> QED
  BY <1>2, <1>3, Zenon

(* The bytes of an instruction that is not refused decode to what it       *)
(* means, and to all of the bytes.                                         *)
LEMMA StmtDecodes ==
    ASSUME NEW stmt \in Statement, IsInstruction(stmt),
           stmt.kind = "move" => MoveFaults(stmt) = << >>,
           NEW bytes \in Seq(Byte), NEW at \in Nat, Holds(bytes, at, EncodeStmt(stmt))
    PROVE  /\ Decode(bytes, at) # Undecodable
           /\ Decode(bytes, at).len = Len(EncodeStmt(stmt))
           /\ Effect(Decode(bytes, at)) = Meaning(stmt)
<1>1. CASE stmt.kind = "syscall"
  <2>1. EncodeStmt(stmt) = EncodeSyscall
    BY <1>1 DEF EncodeStmt
  <2>2. Decode(bytes, at) = Syscall
    BY <2>1, SyscallDecodes
  <2>3. Len(EncodeSyscall) = 2
    BY DEF EncodeSyscall
  <2>4. Syscall # Undecodable /\ Syscall.len = 2 /\ Effect(Syscall) = <<"syscall">>
    BY DEF Syscall, Undecodable, Effect
  <2>5. Meaning(stmt) = <<"syscall">>
    BY <1>1 DEF Meaning
  <2> QED
    BY <2>1, <2>2, <2>3, <2>4, <2>5
<1>2. CASE stmt.kind = "move" /\ stmt.src.kind = "identifier"
  <2> DEFINE src == StrToRegister(stmt.src.name)
             dest == StrToRegister(stmt.dest.name)
             all == EncodeMoveRegToReg(src, dest)
  <2>1. EncodeStmt(stmt) = all
    BY <1>2 DEF EncodeStmt, EncodeMoveStmt
  <2>2. src \in Register /\ dest \in Register
    BY <1>2, MoveFaultsType
  <2>3. Meaning(stmt) = <<"mov_reg", dest, src>>
    BY <1>2 DEF Meaning
  <2>4. Holds(bytes, at, all)
    BY <2>1, Zenon
  <2> HIDE DEF src, dest
  <2>5. Decode(bytes, at) = MovReg(dest, src, Len(all))
    BY <2>2, <2>4, MoveRegToRegDecodes
  <2> HIDE DEF all
  <2>6. /\ MovReg(dest, src, Len(all)) # Undecodable
        /\ MovReg(dest, src, Len(all)).len = Len(all)
        /\ Effect(MovReg(dest, src, Len(all))) = <<"mov_reg", dest, src>>
    BY DEF MovReg, Undecodable, Effect
  <2> QED
    BY <2>1, <2>3, <2>5, <2>6, Zenon
<1>3. CASE stmt.kind = "move" /\ stmt.src.kind # "identifier"
  <2> DEFINE imm == stmt.src.number
             dest == StrToRegister(stmt.dest.name)
             all == EncodeMoveImm(imm, dest)
  <2>1. EncodeStmt(stmt) = all
    BY <1>3 DEF EncodeStmt, EncodeMoveStmt
  <2>2. imm \in 0 .. ImmMax /\ dest \in Register
    BY <1>3, MoveFaultsType
  <2>3. Meaning(stmt) = <<"mov_imm", dest, imm>>
    <3>1. stmt.src.kind = "number"
      BY <1>3 DEF Statement, Operand
    <3> QED
      BY <1>3, <3>1 DEF Meaning
  <2>4. Holds(bytes, at, all)
    BY <2>1, Zenon
  <2> HIDE DEF imm, dest
  <2>5. Decode(bytes, at) = MovImm(dest, imm, Len(all))
    BY <2>2, <2>4, MoveImmDecodes
  <2> HIDE DEF all
  <2>6. /\ MovImm(dest, imm, Len(all)) # Undecodable
        /\ MovImm(dest, imm, Len(all)).len = Len(all)
        /\ Effect(MovImm(dest, imm, Len(all))) = <<"mov_imm", dest, imm>>
    BY DEF MovImm, Undecodable, Effect
  <2> QED
    BY <2>1, <2>3, <2>5, <2>6, Zenon
<1> QED
  BY <1>1, <1>2, <1>3 DEF IsInstruction

(* One element in front of a sequence.                                     *)
LEMMA Cons ==
    ASSUME NEW S, NEW x \in S, NEW s \in Seq(S)
    PROVE  /\ <<x>> \o s \in Seq(S) /\ Len(<<x>> \o s) = 1 + Len(s) /\ Len(s) \in Nat
           /\ (<<x>> \o s)[1] = x
           /\ \A n \in 1 .. Len(s) : (<<x>> \o s)[n + 1] = s[n] /\ s[n] \in S
OBVIOUS

(* What the processor does, one instruction after the other.               *)
LEMMA EffectsOfOneMore ==
    ASSUME NEW D, NEW i \in D, NEW rest \in Seq(D), NEW all, all = <<i>> \o rest
    PROVE  /\ all \in Seq(D)
           /\ [n \in 1 .. Len(all) |-> Effect(all[n])] =
                <<Effect(i)>> \o [n \in 1 .. Len(rest) |-> Effect(rest[n])]
<1> DEFINE left == [n \in 1 .. Len(all) |-> Effect(all[n])]
           tail == [n \in 1 .. Len(rest) |-> Effect(rest[n])]
           T == {Effect(d) : d \in D}
           one == <<Effect(i)>>
<1>1. all \in Seq(D)
  OBVIOUS
<1>2. /\ Len(rest) \in Nat /\ Len(all) = 1 + Len(rest) /\ all[1] = i
      /\ \A n \in 1 .. Len(rest) : all[n + 1] = rest[n] /\ rest[n] \in D
  OBVIOUS
<1>3. left \in Seq(T) /\ Len(left) = Len(all)
  <2>1. \A n \in 1 .. Len(all) : Effect(all[n]) \in T
    BY <1>1
  <2>2. left \in [1 .. Len(all) -> T]
    BY <2>1
  <2> QED
    BY <1>1, <2>2
<1>4. tail \in Seq(T) /\ Len(tail) = Len(rest)
  <2>1. tail \in [1 .. Len(rest) -> T]
    BY <1>2
  <2> QED
    BY <1>2, <2>1
<1>5. one \in Seq(T) /\ Len(one) = 1 /\ one[1] = Effect(i)
  OBVIOUS
<1>6. left[1] = Effect(i) /\ \A n \in 1 .. Len(rest) : left[n + 1] = tail[n]
  BY <1>2
<1>t. Effect(i) \in T
  OBVIOUS
<1> HIDE DEF left, tail, T
<1>7. /\ one \o tail \in Seq(T) /\ Len(one \o tail) = 1 + Len(rest)
      /\ (one \o tail)[1] = Effect(i)
      /\ \A n \in 1 .. Len(rest) : (one \o tail)[n + 1] = tail[n]
  BY <1>t, <1>4, Cons
<1> HIDE DEF one
<1>8. \A n \in 1 .. 1 + Len(rest) : left[n] = (one \o tail)[n]
  <2> SUFFICES ASSUME NEW n \in 1 .. 1 + Len(rest)
               PROVE  left[n] = (one \o tail)[n]
    OBVIOUS
  <2>1. CASE n = 1
    BY <2>1, <1>6, <1>7
  <2>2. CASE n # 1
    <3>1. n - 1 \in 1 .. Len(rest) /\ (n - 1) + 1 = n
      BY <1>2, <2>2
    <3>2. left[(n - 1) + 1] = tail[n - 1] /\ (one \o tail)[(n - 1) + 1] = tail[n - 1]
      BY <3>1, <1>6, <1>7
    <3> QED
      BY <3>1, <3>2
  <2> QED
    BY <2>1, <2>2
<1>9. left = one \o tail
  <2>1. Len(left) = Len(one \o tail)
    BY <1>2, <1>3, <1>7
  <2> QED
    BY <1>2, <1>3, <1>7, <1>8, <2>1, SeqEqual
<1> QED
  BY <1>1, <1>9 DEF left, tail, one

-----------------------------------------------------------------------------
(* The instructions of the source.                                         *)

Remaining(f, j) ==
    f = [k \in 1 .. j + 1 |->
            IF k > j THEN << >>
            ELSE IF IsInstruction(stmts[k]) THEN <<Meaning(stmts[k])>> \o f[k + 1]
            ELSE f[k + 1]]

(* They can be read from the back.                                         *)
LEMMA RemainingExists ==
    ASSUME NEW j \in Nat
    PROVE  \E f : Remaining(f, j)
<1> DEFINE n == j + 1
           S == Seq({Meaning(stmts[k]) : k \in 1 .. n})
           jump == [k \in 1 .. n |-> k + 1]
           step == [p \in (1 .. n) \X S |->
                      IF IsInstruction(stmts[p[1]]) THEN <<Meaning(stmts[p[1]])>> \o p[2] ELSE p[2]]
<1>1. n \in Nat /\ 1 <= n /\ 1 \in Int /\ n \in Int /\ << >> \in S
  OBVIOUS
<1>2. \A k \in 1 .. n - 1 : jump[k] \in k + 1 .. n /\ jump[k] = k + 1
  OBVIOUS
<1>3. step \in [(1 .. n) \X S -> S]
  <2> SUFFICES ASSUME NEW p \in (1 .. n) \X S
               PROVE  (IF IsInstruction(stmts[p[1]]) THEN <<Meaning(stmts[p[1]])>> \o p[2]
                                                     ELSE p[2]) \in S
    BY Zenon
  <2> DEFINE M == {Meaning(stmts[k]) : k \in 1 .. n}
  <2>1. Meaning(stmts[p[1]]) \in M /\ p[2] \in Seq(M)
    OBVIOUS
  <2>2. <<Meaning(stmts[p[1]])>> \o p[2] \in Seq(M)
    <3> HIDE DEF M
    <3> QED
      BY <2>1, Cons
  <2> QED
    BY <2>1, <2>2, Zenon
<1>4. PICK f \in [1 .. n -> S] : Descent(f, << >>, step, jump, 1, n)
  <2> HIDE DEF n, S, jump, step
  <2> QED
    BY <1>1, <1>2, <1>3, DescentExists
<1>5. f[n] = << >>
  <2> HIDE DEF n, S, jump, step
  <2> QED
    BY <1>4 DEF Descent
<1>6. ASSUME NEW k \in 1 .. j
      PROVE  f[k] = IF IsInstruction(stmts[k]) THEN <<Meaning(stmts[k])>> \o f[k + 1]
                                               ELSE f[k + 1]
  <2>1. f[k] = step[<<k, f[jump[k]]>>]
    <3>1. k \in 1 .. n - 1
      OBVIOUS
    <3> HIDE DEF n, S, jump, step
    <3> QED
      BY <1>4, <3>1 DEF Descent
  <2>2. jump[k] = k + 1 /\ k + 1 \in 1 .. n /\ k \in 1 .. n
    OBVIOUS
  <2>3. f[k + 1] \in S
    <3> HIDE DEF n, S, jump, step
    <3> QED
      BY <2>2, <1>4
  <2> DEFINE p == <<k, f[k + 1]>>
  <2>4. p \in (1 .. n) \X S
    BY <2>2, <2>3
  <2>5. step[p] = IF IsInstruction(stmts[p[1]]) THEN <<Meaning(stmts[p[1]])>> \o p[2] ELSE p[2]
    <3> HIDE DEF n, S, p
    <3> QED
      BY <2>4
  <2>6. p[1] = k /\ p[2] = f[k + 1] /\ f[k] = step[p]
    BY <2>1, <2>2
  <2> HIDE DEF p, step
  <2> QED
    BY <2>5, <2>6, Zenon
<1> HIDE DEF jump, step
<1>7. \A k \in 1 .. j + 1 :
         f[k] = IF k > j THEN << >>
                ELSE IF IsInstruction(stmts[k]) THEN <<Meaning(stmts[k])>> \o f[k + 1]
                ELSE f[k + 1]
  <2> SUFFICES ASSUME NEW k \in 1 .. j + 1
               PROVE  f[k] = IF k > j THEN << >>
                             ELSE IF IsInstruction(stmts[k]) THEN <<Meaning(stmts[k])>> \o f[k + 1]
                             ELSE f[k + 1]
    OBVIOUS
  <2>1. CASE k > j
    <3>1. k = n
      BY <2>1
    <3> QED
      BY <2>1, <3>1, <1>5, Zenon
  <2>2. CASE ~ k > j
    <3>1. k \in 1 .. j
      BY <2>2
    <3> QED
      BY <2>2, <3>1, <1>6, Zenon
  <2> QED
    BY <2>1, <2>2
<1>8. f = [k \in 1 .. j + 1 |-> f[k]]
  <2> HIDE DEF S
  <2>1. f \in [1 .. j + 1 -> S]
    BY <1>4
  <2> QED
    BY <2>1
<1> QED
  <2>1. Remaining(f, j)
    BY <1>7, <1>8, Zenon DEF Remaining
  <2> QED
    BY <2>1

(* One statement further from the end.                                     *)
LEMMA InstructionsAt ==
    ASSUME NEW j \in Nat
    PROVE  /\ Instructions(j + 1, j) = << >>
           /\ \A i \in 1 .. j :
                Instructions(i, j) =
                   IF IsInstruction(stmts[i]) THEN <<Meaning(stmts[i])>> \o Instructions(i + 1, j)
                                              ELSE Instructions(i + 1, j)
<1> DEFINE val == CHOOSE f : Remaining(f, j)
<1>1. Remaining(val, j)
  BY RemainingExists
<1>2. \A i : Instructions(i, j) = val[i]
  BY DEF Instructions, Remaining
<1> HIDE DEF val
<1>3. \A k \in 1 .. j + 1 :
         val[k] = IF k > j THEN << >>
                  ELSE IF IsInstruction(stmts[k]) THEN <<Meaning(stmts[k])>> \o val[k + 1]
                  ELSE val[k + 1]
  BY <1>1, Zenon DEF Remaining
<1>4. j + 1 \in 1 .. j + 1 /\ j + 1 > j
  OBVIOUS
<1>5. val[j + 1] = << >>
  BY <1>3, <1>4, Zenon
<1>6. ASSUME NEW i \in 1 .. j
      PROVE  val[i] = IF IsInstruction(stmts[i]) THEN <<Meaning(stmts[i])>> \o val[i + 1]
                                                 ELSE val[i + 1]
  <2>1. i \in 1 .. j + 1 /\ ~ i > j
    OBVIOUS
  <2> QED
    BY <2>1, <1>3, Zenon
<1> QED
  BY <1>2, <1>5, <1>6, Zenon

-----------------------------------------------------------------------------
(* The layout of the code.                                                 *)

Accepted(stmt) == stmt.kind = "move" => MoveFaults(stmt) = << >>

(* The bytes of the first m statements stand in the code one behind the    *)
(* other and fill it.                                                      *)
LaidOut(m) ==
    /\ \A k \in 1 .. m : /\ EncodeStmt(stmts[k]) \in Seq(Byte)
                         /\ Accepted(stmts[k])
                         /\ Holds(code, OffsetOf(k), EncodeStmt(stmts[k]))
    /\ OffsetOf(m + 1) = Len(code)

(* The statements encoded so far.                                          *)
Passed == IF pc = "encode" THEN node - 1 ELSE Len(stmts)

(* The code is laid out.                                                   *)
CodeLaidOut == pc # "failed" => LaidOut(Passed)

(* While it is in use, the table has each label where the code of the      *)
(* statements behind it begins.                                            *)
TableOffsets ==
    pc \in {"encode", "find_entry", "resolve"} =>
        \A i \in 1 .. Len(table), l \in Labels :
            l <= Passed /\ table[i].name = stmts[l].name => table[i].offset = OffsetOf(l)

(* In the end that is where execution starts.                              *)
EntryAtLabel ==
    pc = "done" =>
        \A l \in Labels : stmts[l].name = stmts[entry].name => entryOffset = OffsetOf(l)

LayoutInv == CodeLaidOut /\ TableOffsets /\ EntryAtLabel

(* A statement without an instruction has no bytes, any other has some.    *)
LEMMA InstructionBytes ==
    ASSUME NEW stmt \in Statement, Accepted(stmt)
    PROVE  /\ EncodeStmt(stmt) \in Seq(Byte)
           /\ ~ IsInstruction(stmt) => EncodeStmt(stmt) = << >>
<1>1. CASE IsInstruction(stmt)
  BY <1>1, EncodeStmtBytes DEF IsInstruction, Accepted
<1>2. CASE ~ IsInstruction(stmt)
  <2>1. stmt.kind \in {"label", "entry"}
    BY <1>2 DEF IsInstruction, Statement
  <2>2. EncodeStmt(stmt) = << >>
    BY <2>1 DEF EncodeStmt
  <2> QED
    BY <1>2, <2>2
<1> QED
  BY <1>1, <1>2

(* In code that is laid out, statements begin where the one before ends.   *)
LEMMA LaidOutSteps ==
    ASSUME TypeOK, NEW m \in 0 .. Len(stmts), LaidOut(m), NEW k \in 1 .. m
    PROVE  /\ stmts[k] \in Statement /\ Accepted(stmts[k])
           /\ EncodeStmt(stmts[k]) \in Seq(Byte)
           /\ Len(EncodeStmt(stmts[k])) \in Nat
           /\ OffsetOf(k) \in 0 .. Len(code)
           /\ OffsetOf(k + 1) = OffsetOf(k) + Len(EncodeStmt(stmts[k]))
           /\ Holds(code, OffsetOf(k), EncodeStmt(stmts[k]))
<1>1. stmts \in Seq(Statement) /\ code \in Seq(Byte) /\ Len(stmts) \in Nat /\ Len(code) \in Nat
  BY ProgramsAssumption DEF TypeOK
<1>2. /\ EncodeStmt(stmts[k]) \in Seq(Byte) /\ Accepted(stmts[k])
      /\ Holds(code, OffsetOf(k), EncodeStmt(stmts[k]))
  BY DEF LaidOut
<1>3. Sized(k)
  BY <1>1 DEF LaidOut, Sized
<1>4. OffsetOf(k) \in Nat /\ OffsetOf(k + 1) = OffsetOf(k) + Len(EncodeStmt(stmts[k]))
  <2>1. k \in Nat \ {0}
    BY <1>1
  <2> QED
    BY <2>1, <1>3, OffsetStep
<1>5. OffsetOf(k) + Len(EncodeStmt(stmts[k])) <= Len(code)
  BY <1>2 DEF Holds
<1>6. Len(EncodeStmt(stmts[k])) \in Nat
  BY <1>2
<1> QED
  BY <1>1, <1>2, <1>4, <1>5, <1>6

Runs(l, m) ==
    /\ Disassemble(code, OffsetOf(l)) \in Seq(Decoded)
    /\ Executed(OffsetOf(l)) = Instructions(l, m)

(* Running code that is laid out, from the beginning of a statement, runs  *)
(* the instructions from that statement on: those behind it run, so it and *)
(* those behind it run.                                                    *)
LEMMA LaidOutRuns ==
    ASSUME TypeOK, NEW m \in 0 .. Len(stmts), LaidOut(m), NEW l \in 1 .. m + 1
    PROVE  Runs(l, m)
<1> DEFINE Good == {n \in Nat : n <= m => Runs(m + 1 - n, m)}
<1>1. /\ stmts \in Seq(Statement) /\ code \in Seq(Byte) /\ Len(stmts) \in Nat
      /\ Len(code) \in Nat /\ m \in Nat
  BY ProgramsAssumption DEF TypeOK
<1>2. 0 \in Good
  <2>1. OffsetOf(m + 1) = Len(code) /\ Len(code) \in 0 .. Len(code)
    BY <1>1 DEF LaidOut
  <2>2. Disassemble(code, OffsetOf(m + 1)) = << >>
    BY <1>1, <2>1, DisassembleAt
  <2>3. Executed(OffsetOf(m + 1)) = << >>
    BY <2>2 DEF Executed
  <2>4. Instructions(m + 1, m) = << >>
    BY <1>1, InstructionsAt
  <2>5. Runs(m + 1, m)
    <3>1. << >> \in Seq(Decoded)
      OBVIOUS
    <3> QED
      BY <2>2, <2>3, <2>4, <3>1, Zenon DEF Runs
  <2>6. m + 1 - 0 = m + 1
    BY <1>1
  <2> QED
    BY <2>5, <2>6
<1>3. ASSUME NEW n \in Nat, n \in Good
      PROVE  n + 1 \in Good
  <2> SUFFICES ASSUME n + 1 <= m
               PROVE  Runs(m + 1 - (n + 1), m)
    OBVIOUS
  <2> DEFINE k == m + 1 - (n + 1)
  <2>1. k \in 1 .. m /\ k + 1 = m + 1 - n /\ n <= m
    BY <1>1
  <2>2. Runs(k + 1, m)
    BY <1>3, <2>1
  <2> HIDE DEF k
  <2>3. /\ stmts[k] \in Statement /\ Accepted(stmts[k])
        /\ EncodeStmt(stmts[k]) \in Seq(Byte)
        /\ Len(EncodeStmt(stmts[k])) \in Nat
        /\ OffsetOf(k) \in 0 .. Len(code)
        /\ OffsetOf(k + 1) = OffsetOf(k) + Len(EncodeStmt(stmts[k]))
        /\ Holds(code, OffsetOf(k), EncodeStmt(stmts[k]))
    BY <2>1, LaidOutSteps
  <2>4. Instructions(k, m) =
          IF IsInstruction(stmts[k]) THEN <<Meaning(stmts[k])>> \o Instructions(k + 1, m)
                                     ELSE Instructions(k + 1, m)
    BY <1>1, <2>1, InstructionsAt
  <2>5. CASE ~ IsInstruction(stmts[k])
    <3>1. EncodeStmt(stmts[k]) = << >>
      BY <2>3, <2>5, InstructionBytes
    <3>2. OffsetOf(k + 1) = OffsetOf(k)
      BY <2>3, <3>1
    <3> QED
      BY <2>2, <2>4, <2>5, <3>2, Zenon DEF Runs, k
  <2>6. CASE IsInstruction(stmts[k])
    <3> DEFINE at == OffsetOf(k)
               i == Decode(code, at)
               rest == Disassemble(code, OffsetOf(k + 1))
               all == Disassemble(code, at)
    <3>1. /\ i # Undecodable /\ i.len = Len(EncodeStmt(stmts[k]))
          /\ Effect(i) = Meaning(stmts[k])
      <4>1. at \in Nat
        BY <1>1, <2>3
      <4> QED
        BY <1>1, <2>3, <2>6, <4>1, StmtDecodes DEF Accepted
    <3>2. at # Len(code)
      BY <1>1, <2>3, <3>1, DecodeLength
    <3>3. all = <<i>> \o rest
      BY <1>1, <2>3, <3>1, <3>2, DisassembleAt
    <3>4. i \in Decoded /\ rest \in Seq(Decoded)
      BY <2>2, <2>3 DEF Decoded, Runs
    <3>5. Executed(OffsetOf(k + 1)) = [n_ \in 1 .. Len(rest) |-> Effect(rest[n_])]
      BY DEF Executed
    <3>6. Executed(at) = [n_ \in 1 .. Len(all) |-> Effect(all[n_])]
      BY DEF Executed
    <3> HIDE DEF at, i, rest, all
    <3>7. all \in Seq(Decoded) /\ Executed(at) = <<Effect(i)>> \o Executed(OffsetOf(k + 1))
      BY <3>3, <3>4, <3>5, <3>6, EffectsOfOneMore
    <3>8. Executed(at) = <<Meaning(stmts[k])>> \o Instructions(k + 1, m)
      BY <3>1, <3>7, <2>2, Zenon DEF Runs
    <3>9. Runs(k, m)
      BY <3>7, <3>8, <2>4, <2>6, Zenon DEF Runs, at, all
    <3> QED
      BY <3>9, Zenon DEF k
  <2> QED
    BY <2>5, <2>6
<1> HIDE DEF Good
<1>4. Nat \subseteq Good
  BY <1>2, <1>3, Induction
<1>5. m + 1 - l \in Nat /\ m + 1 - l <= m /\ m + 1 - (m + 1 - l) = l
  BY <1>1
<1> QED
  BY <1>4, <1>5 DEF Good

(* An empty program is laid out.                                           *)
LEMMA InitLayout == Init => LayoutInv
<1> SUFFICES ASSUME Init
             PROVE  LayoutInv
  OBVIOUS
<1>1. /\ pc = "encode" /\ node = 1 /\ table = << >> /\ code = << >>
  BY DEF Init
<1>2. Passed = 0
  BY <1>1 DEF Passed
<1>3. LaidOut(0)
  <2>1. OffsetOf(0 + 1) = 0 /\ Len(code) = 0
    BY <1>1, OffsetStep
  <2>2. 1 .. 0 = {}
    OBVIOUS
  <2> QED
    BY <2>1, <2>2 DEF LaidOut
<1>4. CodeLaidOut
  BY <1>2, <1>3 DEF CodeLaidOut
<1>5. TableOffsets /\ EntryAtLabel
  BY <1>1 DEF TableOffsets, EntryAtLabel
<1> QED
  BY <1>4, <1>5 DEF LayoutInv

(* Offsets depend on the program alone.                                    *)
LEMMA OffsetsFixed ==
    ASSUME stmts' = stmts, NEW k
    PROVE  OffsetOf(k)' = OffsetOf(k)
BY DEF OffsetOf

(* Bytes that stand somewhere stay there when more are appended.           *)
LEMMA HoldsLonger ==
    ASSUME NEW c \in Seq(Byte), NEW more \in Seq(Byte), NEW at \in Nat,
           NEW bytes \in Seq(Byte), Holds(c, at, bytes)
    PROVE  Holds(c \o more, at, bytes)
<1> DEFINE d == c \o more
<1>1. /\ Len(c) \in Nat /\ Len(d) \in Nat /\ Len(c) <= Len(d) /\ Len(bytes) \in Nat
      /\ \A i \in 1 .. Len(c) : d[i] = c[i]
  OBVIOUS
<1>2. /\ at + Len(bytes) <= Len(c)
      /\ \A i \in 1 .. Len(bytes) : c[at + i] = bytes[i] /\ at + i \in 1 .. Len(c)
  BY <1>1 DEF Holds
<1> HIDE DEF d
<1>3. Holds(d, at, bytes)
  BY <1>1, <1>2 DEF Holds
<1> QED
  BY <1>3 DEF d

(* What is appended stands at the end.                                     *)
LEMMA HoldsAppended ==
    ASSUME NEW c \in Seq(Byte), NEW more \in Seq(Byte)
    PROVE  Holds(c \o more, Len(c), more) /\ Len(c \o more) = Len(c) + Len(more)
<1> DEFINE d == c \o more
<1>1. /\ Len(c) \in Nat /\ Len(more) \in Nat /\ Len(d) = Len(c) + Len(more)
      /\ \A i \in 1 .. Len(more) : d[Len(c) + i] = more[i]
  OBVIOUS
<1> HIDE DEF d
<1>2. Holds(d, Len(c), more)
  BY <1>1 DEF Holds
<1> QED
  BY <1>1, <1>2 DEF d

(* One statement more, with its bytes, is laid out as well.                *)
LEMMA LaidOutExtends ==
    ASSUME TypeOK, NEW m \in 1 .. Len(stmts), LaidOut(m - 1), Accepted(stmts[m]),
           stmts' = stmts, code' = code \o EncodeStmt(stmts[m])
    PROVE  LaidOut(m)'
<1> DEFINE bytes == EncodeStmt(stmts[m])
<1>1. /\ stmts \in Seq(Statement) /\ code \in Seq(Byte) /\ Len(stmts) \in Nat /\ Len(code) \in Nat
      /\ m \in Nat \ {0} /\ stmts[m] \in Statement
  BY ProgramsAssumption DEF TypeOK
<1>2. bytes \in Seq(Byte) /\ Len(bytes) \in Nat
  BY <1>1, InstructionBytes
<1>3. Sized(m)
  <2> SUFFICES ASSUME NEW k \in 1 .. m
               PROVE  Len(EncodeStmt(stmts[k])) \in Nat
    BY DEF Sized
  <2>1. CASE k = m
    BY <2>1, <1>2
  <2>2. CASE k # m
    <3>1. k \in 1 .. m - 1
      BY <2>2, <1>1
    <3> QED
      BY <3>1 DEF LaidOut
  <2> QED
    BY <2>1, <2>2
<1>4. OffsetOf(m) = Len(code)
  <2>1. m - 1 + 1 = m
    BY <1>1
  <2> QED
    BY <2>1 DEF LaidOut
<1>5. OffsetOf(m + 1) = Len(code) + Len(bytes)
  BY <1>1, <1>3, <1>4, OffsetStep
<1>6. \A k : OffsetOf(k)' = OffsetOf(k)
  BY OffsetsFixed
<1>7. ASSUME NEW k \in 1 .. m
      PROVE  /\ EncodeStmt(stmts[k]) \in Seq(Byte) /\ Accepted(stmts[k])
             /\ Holds(code', OffsetOf(k), EncodeStmt(stmts[k]))
  <2>1. CASE k = m
    BY <2>1, <1>1, <1>2, <1>4, HoldsAppended
  <2>2. CASE k # m
    <3>1. k \in 1 .. m - 1 /\ m - 1 \in 0 .. Len(stmts)
      BY <2>2, <1>1
    <3>2. /\ EncodeStmt(stmts[k]) \in Seq(Byte) /\ Accepted(stmts[k])
          /\ Holds(code, OffsetOf(k), EncodeStmt(stmts[k]))
      BY <3>1 DEF LaidOut
    <3>3. OffsetOf(k) \in Nat
      <4> DEFINE n == m - 1
      <4>1. n \in 0 .. Len(stmts) /\ k \in 1 .. n /\ LaidOut(n)
        BY <3>1
      <4> HIDE DEF n
      <4>2. OffsetOf(k) \in 0 .. Len(code)
        BY <4>1, LaidOutSteps
      <4> QED
        BY <4>2, <1>1
    <3> DEFINE old == EncodeStmt(stmts[k])
               at == OffsetOf(k)
    <3>4. old \in Seq(Byte) /\ at \in Nat /\ Holds(code, at, old) /\ code' = code \o bytes
      BY <3>2, <3>3
    <3> HIDE DEF old, at, bytes
    <3>5. Holds(code', at, old)
      BY <3>4, <1>1, <1>2, HoldsLonger
    <3> QED
      BY <3>2, <3>5, Zenon DEF old, at
  <2> QED
    BY <2>1, <2>2
<1>8. OffsetOf(m + 1) = Len(code')
  BY <1>1, <1>2, <1>5, HoldsAppended
<1>9. LaidOut(m)' <=>
         /\ \A k \in 1 .. m : /\ EncodeStmt(stmts'[k]) \in Seq(Byte) /\ Accepted(stmts'[k])
                              /\ Holds(code', OffsetOf(k)', EncodeStmt(stmts'[k]))
         /\ OffsetOf(m + 1)' = Len(code')
  BY Zenon DEF LaidOut
<1> QED
  BY <1>6, <1>7, <1>8, <1>9, Zenon

(* A statement encoded, or one that has no bytes passed, is laid out.      *)
LEMMA PassLaysOut ==
    ASSUME IInv, LayoutInv, pc = "encode", node <= Len(stmts), Accepted(Stmt),
           stmts' = stmts, pc' = pc, node' = node + 1, code' = code \o EncodeStmt(Stmt)
    PROVE  CodeLaidOut' /\ Passed = node - 1 /\ Passed' = node
<1>1. TypeOK /\ LaidOut(Passed) /\ Passed = node - 1
  BY DEF IInv, LayoutInv, CodeLaidOut, Passed
<1>2. node \in 1 .. Len(stmts) /\ node \in Nat
  <2>1. node \in 1 .. Len(stmts)
    BY <1>1, NextStatement
  <2> QED
    BY <2>1
<1>3. PICK m \in 1 .. Len(stmts) : m = node
  BY <1>2
<1>4. LaidOut(m - 1) /\ Accepted(stmts[m]) /\ code' = code \o EncodeStmt(stmts[m])
  BY <1>1, <1>3, Zenon DEF Stmt
<1>5. LaidOut(m)'
  BY <1>1, <1>4, LaidOutExtends
<1>6. Passed' = m
  BY <1>2, <1>3 DEF Passed
<1>7. LaidOut(Passed)'
  BY <1>5, <1>6 DEF LaidOut
<1> QED
  BY <1>1, <1>3, <1>6, <1>7 DEF CodeLaidOut

(* Passing a statement that is no label leaves the table right.            *)
LEMMA PassKeepsOffsets ==
    ASSUME IInv, LayoutInv, pc = "encode", node <= Len(stmts), Stmt.kind # "label",
           stmts' = stmts, pc' = pc, node' = node + 1, table' = table,
           Passed = node - 1, Passed' = node
    PROVE  TableOffsets' /\ EntryAtLabel'
<1>1. /\ TypeOK /\ Labels' = Labels /\ \A k : OffsetOf(k)' = OffsetOf(k)
  BY ProgramFixed, OffsetsFixed DEF IInv
<1>2. node \notin Labels
  BY DEF Labels, Stmts, Stmt
<1>3. Labels \subseteq 1 .. Len(stmts) /\ node \in 1 .. Len(stmts) /\ Len(stmts) \in Nat
  BY <1>1, ProgramTyped, NextStatement
<1>4. \A l \in Labels : l <= node => l <= node - 1
  BY <1>2, <1>3
<1>5. TableOffsets
  BY DEF LayoutInv
<1>6. \A i \in 1 .. Len(table), l \in Labels :
         l <= node /\ table[i].name = stmts[l].name => table[i].offset = OffsetOf(l)
  BY <1>4, <1>5 DEF TableOffsets
<1>7. TableOffsets'
  BY <1>1, <1>6 DEF TableOffsets
<1> QED
  BY <1>7 DEF EntryAtLabel

(* A new label is at the end of the code, where the next statement's bytes *)
(* will be.                                                                *)
LEMMA DefineLabelLayout ==
    ASSUME IInv, LayoutInv, DefineLabel
    PROVE  LayoutInv'
<1> DEFINE new == [name |-> Stmt.name, offset |-> Len(code)]
           N == Len(table)
<1>1. /\ pc = "encode" /\ node <= Len(stmts) /\ Stmt.kind = "label"
      /\ ~ LabelTableHas(Stmt.name)
      /\ table' = Append(table, new) /\ node' = node + 1
      /\ stmts' = stmts /\ pc' = pc /\ code' = code
  BY DEF DefineLabel, Encoding
<1>2. /\ TypeOK /\ TableNames /\ CodeLaidOut /\ TableOffsets
  BY DEF IInv, LayoutInv
<1>3. /\ table \in Seq(LabelEntry) /\ code \in Seq(Byte) /\ N \in Nat /\ Len(code) \in Nat
  BY <1>2 DEF TypeOK
<1>4. /\ node \in 1 .. Len(stmts) /\ Stmt \in Statement
      /\ Labels \subseteq 1 .. Len(stmts) /\ Len(stmts) \in Nat
  BY <1>1, <1>2, NextStatement, ProgramTyped
<1>5. Accepted(Stmt) /\ EncodeStmt(Stmt) = << >>
  <2>1. Accepted(Stmt) /\ ~ IsInstruction(Stmt)
    BY <1>1 DEF Accepted, IsInstruction
  <2> QED
    BY <2>1, <1>4, InstructionBytes
<1>6. CodeLaidOut' /\ Passed = node - 1 /\ Passed' = node
  <2>1. code' = code \o EncodeStmt(Stmt)
    BY <1>1, <1>3, <1>5
  <2> QED
    BY <1>1, <1>5, <2>1, PassLaysOut
<1>7. OffsetOf(node) = Len(code)
  <2>1. LaidOut(Passed) /\ Passed + 1 = node
    BY <1>1, <1>2, <1>4, <1>6 DEF CodeLaidOut
  <2> QED
    BY <2>1 DEF LaidOut
<1>8. Labels' = Labels /\ \A k : OffsetOf(k)' = OffsetOf(k)
  BY <1>1, ProgramFixed, OffsetsFixed
<1>9. /\ Len(table') = N + 1 /\ table'[N + 1].name = Stmt.name
      /\ table'[N + 1].offset = Len(code)
      /\ \A i \in 1 .. N : table'[i] = table[i]
  <2>1. new \in LabelEntry /\ new.name = Stmt.name /\ new.offset = Len(code)
    BY <1>3, <1>4 DEF LabelEntry, Statement
  <2> HIDE DEF new
  <2>2. /\ Len(table') = N + 1 /\ table'[N + 1] = new
        /\ \A i \in 1 .. N : table'[i] = table[i]
    BY <1>1, <1>3, <2>1
  <2> QED
    BY <2>1, <2>2
<1>10. \A i \in 1 .. N : table[i].name # Stmt.name
  BY <1>1 DEF LabelTableHas
<1>11. ASSUME NEW l \in Labels, l < node
       PROVE  \E i \in 1 .. N : table[i].name = stmts[l].name
  <2> DEFINE InTable == {table[i].name : i \in 1 .. N}
             OfLabels == {stmts[k].name : k \in LabelsBefore(node)}
  <2>1. InTable = OfLabels
    BY <1>1, <1>2 DEF TableNames
  <2>2. stmts[l].name \in OfLabels
    BY <1>11 DEF LabelsBefore
  <2>3. stmts[l].name \in InTable
    BY <2>1, <2>2, Zenon
  <2> QED
    BY <2>3
<1>12. ASSUME NEW i \in 1 .. N + 1, NEW l \in Labels, l <= node, table'[i].name = stmts[l].name
       PROVE  table'[i].offset = OffsetOf(l)
  <2>1. CASE i \in 1 .. N /\ l <= node - 1
    <3>1. table[i].name = stmts[l].name /\ l <= Passed
      BY <2>1, <1>6, <1>9, <1>12
    <3>2. table[i].offset = OffsetOf(l)
      BY <1>1, <1>2, <2>1, <3>1 DEF TableOffsets
    <3> QED
      BY <1>9, <2>1, <3>2
  <2>2. CASE i \in 1 .. N /\ l = node
    BY <2>2, <1>9, <1>10, <1>12 DEF Stmt
  <2>3. CASE i = N + 1 /\ l <= node - 1
    <3>1. stmts[l].name = Stmt.name /\ l < node
      BY <1>4, <1>9, <1>12, <2>3
    <3> QED
      BY <3>1, <1>10, <1>11
  <2>4. CASE i = N + 1 /\ l = node
    BY <2>4, <1>7, <1>9
  <2>5. (i \in 1 .. N \/ i = N + 1) /\ (l <= node - 1 \/ l = node)
    BY <1>3, <1>4, <1>12
  <2> QED
    BY <2>1, <2>2, <2>3, <2>4, <2>5
<1>13. TableOffsets'
  <2>1. \A i \in 1 .. Len(table'), l \in Labels' :
           l <= Passed' /\ table'[i].name = stmts'[l].name => table'[i].offset = OffsetOf(l)'
    BY <1>1, <1>6, <1>8, <1>9, <1>12
  <2> QED
    BY <2>1 DEF TableOffsets
<1>14. EntryAtLabel'
  BY <1>1 DEF EntryAtLabel
<1> QED
  BY <1>6, <1>13, <1>14 DEF LayoutInv

(* What is emitted goes behind what is there.                              *)
LEMMA EmitInstructionLayout ==
    ASSUME IInv, LayoutInv, EmitInstruction
    PROVE  LayoutInv'
<1>1. /\ pc = "encode" /\ node <= Len(stmts) /\ Stmt.kind \in {"move", "syscall"}
      /\ ~ Refused /\ code' = code \o EncodeStmt(Stmt) /\ node' = node + 1
      /\ stmts' = stmts /\ pc' = pc /\ table' = table
  BY DEF EmitInstruction, Encoding
<1>2. Accepted(Stmt) /\ Stmt.kind # "label"
  BY <1>1 DEF Refused, Accepted
<1>3. CodeLaidOut' /\ Passed = node - 1 /\ Passed' = node
  BY <1>1, <1>2, PassLaysOut
<1>4. TableOffsets' /\ EntryAtLabel'
  BY <1>1, <1>2, <1>3, PassKeepsOffsets
<1> QED
  BY <1>3, <1>4 DEF LayoutInv

(* Entry statements have no bytes.                                         *)
LEMMA SkipEntryLayout ==
    ASSUME IInv, LayoutInv, SkipEntry
    PROVE  LayoutInv'
<1>1. /\ pc = "encode" /\ node <= Len(stmts) /\ Stmt.kind = "entry"
      /\ code' = code /\ node' = node + 1
      /\ stmts' = stmts /\ pc' = pc /\ table' = table
  BY DEF SkipEntry, Encoding
<1>2. TypeOK /\ Stmt \in Statement /\ code \in Seq(Byte)
  BY <1>1, NextStatement DEF IInv, TypeOK
<1>3. Accepted(Stmt) /\ Stmt.kind # "label" /\ ~ IsInstruction(Stmt)
  BY <1>1 DEF Accepted, IsInstruction
<1>4. EncodeStmt(Stmt) = << >>
  BY <1>2, <1>3, InstructionBytes
<1>5. code' = code \o EncodeStmt(Stmt)
  BY <1>1, <1>2, <1>4
<1>6. CodeLaidOut' /\ Passed = node - 1 /\ Passed' = node
  BY <1>1, <1>3, <1>5, PassLaysOut
<1>7. TableOffsets' /\ EntryAtLabel'
  BY <1>1, <1>3, <1>6, PassKeepsOffsets
<1> QED
  BY <1>6, <1>7 DEF LayoutInv

(* Once all statements have been passed, code and table stay as they are.  *)
LEMMA OtherLayout ==
    ASSUME IInv, LayoutInv, stmts' = stmts, code' = code,
           \/ pc' = "failed"
           \/ /\ Passed' = Passed /\ table' = table
              /\ pc \notin {"failed", "done"} /\ pc' \notin {"failed", "done"}
           \/ UNCHANGED vars
    PROVE  LayoutInv'
<1>1. Labels' = Labels /\ \A k : OffsetOf(k)' = OffsetOf(k)
  BY ProgramFixed, OffsetsFixed
<1>2. CASE pc' = "failed"
  BY <1>2 DEF LayoutInv, CodeLaidOut, TableOffsets, EntryAtLabel
<1>3. LaidOut(Passed) /\ Passed' = Passed => LaidOut(Passed)'
  BY <1>1 DEF LaidOut
<1>4. CASE /\ Passed' = Passed /\ table' = table
           /\ pc \notin {"failed", "done"} /\ pc' \notin {"failed", "done"}
  <2>1. CodeLaidOut /\ TableOffsets
    BY DEF LayoutInv
  <2>2. pc \in {"encode", "find_entry", "resolve"}
    BY <1>4 DEF IInv, TypeOK
  <2>3. CodeLaidOut'
    BY <1>3, <1>4, <2>1 DEF CodeLaidOut
  <2>4. TableOffsets'
    BY <1>1, <1>4, <2>1, <2>2 DEF TableOffsets
  <2> QED
    BY <1>4, <2>3, <2>4 DEF LayoutInv, EntryAtLabel
<1>5. CASE UNCHANGED vars
  <2>1. /\ pc' = pc /\ table' = table /\ node' = node /\ entry' = entry
        /\ entryOffset' = entryOffset
    BY <1>5 DEF vars
  <2>2. Passed' = Passed
    BY <2>1 DEF Passed
  <2>3. CodeLaidOut'
    BY <1>3, <2>1, <2>2 DEF CodeLaidOut, LayoutInv
  <2>4. TableOffsets'
    BY <1>1, <2>1, <2>2 DEF TableOffsets, LayoutInv
  <2>5. EntryAtLabel'
    BY <1>1, <2>1 DEF EntryAtLabel, LayoutInv
  <2> QED
    BY <2>3, <2>4, <2>5 DEF LayoutInv
<1> QED
  BY <1>2, <1>4, <1>5

(* The entry's offset is that of its label.                                *)
LEMMA ReturnLayout ==
    ASSUME IInv, LayoutInv, Return
    PROVE  LayoutInv'
<1> DEFINE name == stmts[entry].name
<1>1. /\ pc = "resolve" /\ LabelTableHas(name) /\ pc' = "done"
      /\ entryOffset' = LabelTableFind(name)
      /\ stmts' = stmts /\ code' = code /\ entry' = entry
  BY DEF Return
<1>2. Labels' = Labels /\ \A k : OffsetOf(k)' = OffsetOf(k)
  BY <1>1, ProgramFixed, OffsetsFixed
<1>3. PICK i \in 1 .. Len(table) :
        table[i].name = name /\ LabelTableFind(name) = table[i].offset
  BY <1>1, LabelTableFindFinds
<1>4. Passed = Len(stmts) /\ Passed' = Len(stmts)
  BY <1>1 DEF Passed
<1>5. CodeLaidOut'
  <2>1. LaidOut(Passed)
    BY <1>1 DEF LayoutInv, CodeLaidOut
  <2>2. LaidOut(Passed)'
    BY <1>1, <1>2, <1>4, <2>1 DEF LaidOut
  <2> QED
    BY <2>2 DEF CodeLaidOut
<1>6. EntryAtLabel'
  <2>1. \A l \in Labels : l <= Passed
    BY <1>4, ProgramTyped DEF IInv
  <2>2. \A l \in Labels : stmts[l].name = name => table[i].offset = OffsetOf(l)
    BY <1>1, <1>3, <2>1 DEF LayoutInv, TableOffsets
  <2> QED
    BY <1>1, <1>2, <1>3, <2>2 DEF EntryAtLabel
<1>7. TableOffsets'
  BY <1>1 DEF TableOffsets
<1> QED
  BY <1>5, <1>6, <1>7 DEF LayoutInv

(* Every step keeps the layout.                                            *)
LEMMA NextLayout ==
    ASSUME IInv, LayoutInv, [Next]_vars
    PROVE  LayoutInv'
<1>1. CASE DefineLabel
  BY <1>1, DefineLabelLayout
<1>2. CASE EmitInstruction
  BY <1>2, EmitInstructionLayout
<1>3. CASE SkipEntry
  BY <1>3, SkipEntryLayout
<1>4. CASE Return
  BY <1>4, ReturnLayout
<1>5. CASE DuplicateLabel \/ RefuseOperand \/ MultipleEntries \/ NoEntry \/ UndefinedEntry
  <2>1. pc' = "failed" /\ stmts' = stmts /\ code' = code
    BY <1>5, Zenon DEF DuplicateLabel, RefuseOperand, MultipleEntries, NoEntry, UndefinedEntry,
       CodegenError
  <2> QED
    BY <2>1, OtherLayout
<1>6. CASE EndOfFirstPass
  <2>1. /\ pc = "encode" /\ node > Len(stmts) /\ pc' = "find_entry"
        /\ stmts' = stmts /\ code' = code /\ table' = table
    BY <1>6 DEF EndOfFirstPass
  <2>2. node \in 1 .. Len(stmts) + 1 /\ Len(stmts) \in Nat
    BY ProgramTyped DEF IInv, TypeOK
  <2>3. Passed' = Passed
    BY <2>1, <2>2 DEF Passed
  <2> QED
    BY <2>1, <2>3, OtherLayout
<1>7. CASE SkipNonEntry \/ FoundEntry \/ EndOfSecondPass
  <2>1. /\ pc = "find_entry" /\ pc' \in {"find_entry", "resolve"}
        /\ stmts' = stmts /\ code' = code /\ table' = table
    BY <1>7 DEF SkipNonEntry, FoundEntry, EndOfSecondPass, FindingEntry
  <2>2. Passed' = Passed
    BY <2>1 DEF Passed
  <2> QED
    BY <2>1, <2>2, OtherLayout
<1>8. CASE UNCHANGED vars
  BY <1>8, OtherLayout DEF vars
<1> QED
  BY <1>1, <1>2, <1>3, <1>4, <1>5, <1>6, <1>7, <1>8 DEF Next

(* The code of the statements passed is laid out, and labels and entry lie *)
(* where statements begin.                                                 *)
THEOREM LayoutInvariance == Spec => []LayoutInv
BY InitLayout, NextLayout, Invariance, PTL DEF Spec

(* Every label is put on an instruction boundary, from which the processor *)
(* runs the instructions that follow the label in the source.              *)
THEOREM LabelsAreOnBoundaries == Spec => []LabelsOnBoundaries
<1>1. IInv /\ LayoutInv => LabelsOnBoundaries
  <2> SUFFICES ASSUME IInv, LayoutInv, pc \in {"encode", "find_entry", "resolve"},
                      NEW l \in Labels, pc # "encode" \/ l < node
               PROVE  \E e \in 1 .. Len(table) :
                         /\ table[e].name = stmts[l].name
                         /\ table[e].offset <= Len(code)
                         /\ Executed(table[e].offset) =
                              Instructions(l, IF pc = "encode" THEN node - 1 ELSE Len(stmts))
    BY DEF LabelsOnBoundaries
  <2>1. /\ TypeOK /\ TableNames /\ TableFitsAllocation /\ TableOffsets /\ LaidOut(Passed)
    BY DEF IInv, LayoutInv, CodeLaidOut
  <2>2. /\ l \in 1 .. Len(stmts) /\ Len(stmts) \in Nat /\ node \in 1 .. Len(stmts) + 1
        /\ Len(code) \in Nat
    BY <2>1, ProgramTyped DEF TypeOK
  <2>3. Passed \in 0 .. Len(stmts) /\ l <= Passed /\ l \in 1 .. Passed + 1
    BY <2>2 DEF Passed
  <2>4. PICK e \in 1 .. Len(table) : table[e].name = stmts[l].name
    <3> DEFINE InTable == {table[i].name : i \in 1 .. Len(table)}
    <3>1. CASE pc = "encode"
      <4> DEFINE OfLabels == {stmts[k].name : k \in LabelsBefore(node)}
      <4>1. InTable = OfLabels /\ l \in LabelsBefore(node)
        BY <2>1, <3>1 DEF TableNames, LabelsBefore
      <4>2. stmts[l].name \in InTable
        BY <4>1, Zenon
      <4> QED
        BY <4>2
    <3>2. CASE pc # "encode"
      <4> DEFINE OfLabels == {stmts[k].name : k \in Labels}
      <4>1. InTable = OfLabels
        BY <2>1, <3>2 DEF TableNames
      <4>2. stmts[l].name \in InTable
        BY <4>1, Zenon
      <4> QED
        BY <4>2
    <3> QED
      BY <3>1, <3>2
  <2>5. table[e].offset = OffsetOf(l)
    BY <2>1, <2>3, <2>4 DEF TableOffsets
  <2>6. table[e].offset <= Len(code)
    BY <2>1, <2>2 DEF TableFitsAllocation
  <2>7. Executed(OffsetOf(l)) = Instructions(l, Passed)
    BY <2>1, <2>3, LaidOutRuns DEF Runs
  <2> QED
    BY <2>4, <2>5, <2>6, <2>7 DEF Passed
<1> QED
  BY <1>1, Invariance, LayoutInvariance, PTL

(* What GenerateCode returns runs, from its entry, the instructions that   *)
(* follow the label the entry statement names, to the last.                *)
THEOREM EntryRunsTheProgram == Spec => []EntryRunsProgram
<1>1. IInv /\ LayoutInv => EntryRunsProgram
  <2> SUFFICES ASSUME IInv, LayoutInv, pc = "done", NEW i \in Entries, NEW l \in Labels,
                      stmts[i].name = stmts[l].name
               PROVE  Executed(entryOffset) = Instructions(l, Len(stmts))
    BY DEF EntryRunsProgram
  <2>1. TypeOK /\ LaidOut(Passed) /\ EntryAtLabel /\ Entries = {entry}
    BY DEF IInv, LayoutInv, CodeLaidOut, EntryFound
  <2>2. l \in 1 .. Len(stmts) /\ Len(stmts) \in Nat
    BY <2>1, ProgramTyped
  <2>3. Passed = Len(stmts) /\ Passed \in 0 .. Len(stmts) /\ l \in 1 .. Passed + 1
    BY <2>2 DEF Passed
  <2>4. entryOffset = OffsetOf(l)
    BY <2>1 DEF EntryAtLabel
  <2> QED
    BY <2>1, <2>3, <2>4, LaidOutRuns DEF Runs
<1> QED
  BY <1>1, Invariance, LayoutInvariance, PTL
=============================================================================
