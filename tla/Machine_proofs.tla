--------------------------- MODULE Machine_proofs --------------------------
(***************************************************************************)
(* From statements to execution, for every program: the file BuildElf      *)
(* makes agrees with its own headers and is loadable, the processor finds  *)
(* in memory the instructions of the statements from the entry label on,   *)
(* and each of its steps is one of Execution, which knows no bytes.        *)
(***************************************************************************)
EXTENDS Machine, Codegen_proofs

-----------------------------------------------------------------------------
(* Numbers in the file: what a writer wrote, the loader reads.             *)

(* A byte is a number.                                                     *)
LEMMA ByteInFile ==
    ASSUME NEW file \in Seq(Byte), NEW i \in 1 .. Len(file)
    PROVE  file[i] \in Nat /\ file[i] \in 0 .. 255
<1>1. file[i] \in Byte
  OBVIOUS
<1>2. \A b \in Byte : b \in Nat /\ b \in 0 .. 255
  BY DEF Byte
<1> QED
  BY <1>1, <1>2, Zenon

(* Bytes behind bytes.                                                     *)
LEMMA Joined ==
    ASSUME NEW s \in Seq(Byte), NEW t \in Seq(Byte)
    PROVE  /\ s \o t \in Seq(Byte) /\ Len(s \o t) = Len(s) + Len(t)
           /\ Len(s) \in Nat /\ Len(t) \in Nat
OBVIOUS

(* Bytes are numbers.                                                      *)
LEMMA SeqOfBytes ==
    ASSUME NEW s \in Seq(Byte)
    PROVE  s \in Seq(Nat)
<1>1. \A b \in Byte : b \in Nat
  BY DEF Byte
<1>2. Len(s) \in Nat /\ s = [i \in 1 .. Len(s) |-> s[i]] /\ \A i \in 1 .. Len(s) : s[i] \in Nat
  BY <1>1
<1> QED
  BY <1>2

(* The writers write bytes, as many as the width has.                      *)
LEMMA WrittenNumbers ==
    ASSUME NEW v \in Nat
    PROVE  /\ U16LE(v) \in Seq(Byte) /\ Len(U16LE(v)) = 2
           /\ U32LE(v) \in Seq(Byte) /\ Len(U32LE(v)) = 4
           /\ U64LE(v) \in Seq(Byte) /\ Len(U64LE(v)) = 8
<1>1. ASSUME NEW n \in Nat
      PROVE  U16LE(n) \in Seq(Byte) /\ Len(U16LE(n)) = 2
  <2>1. n % 256 \in Byte /\ (n \div 256) % 256 \in Byte
    BY LastByte
  <2> QED
    BY <2>1 DEF U16LE
<1>2. ASSUME NEW n \in Nat
      PROVE  U32LE(n) \in Seq(Byte) /\ Len(U32LE(n)) = 4
  <2>1. n \div 65536 \in Nat
    BY SMT
  <2>2. /\ U16LE(n) \in Seq(Byte) /\ Len(U16LE(n)) = 2
        /\ U16LE(n \div 65536) \in Seq(Byte) /\ Len(U16LE(n \div 65536)) = 2
    BY <1>1, <2>1
  <2> DEFINE s == U16LE(n)
             t == U16LE(n \div 65536)
  <2>3. s \o t \in Seq(Byte) /\ Len(s \o t) = 2 + 2
    <3>1. s \in Seq(Byte) /\ t \in Seq(Byte) /\ Len(s) = 2 /\ Len(t) = 2
      BY <2>2
    <3> HIDE DEF s, t
    <3> QED
      BY <3>1, Joined
  <2>4. U32LE(n) = s \o t
    BY DEF U32LE
  <2> QED
    BY <2>3, <2>4
<1>3. (v \div 65536) \div 65536 \in Nat
  BY SMT
<1>4. /\ U32LE(v) \in Seq(Byte) /\ Len(U32LE(v)) = 4
      /\ U32LE((v \div 65536) \div 65536) \in Seq(Byte)
      /\ Len(U32LE((v \div 65536) \div 65536)) = 4
  BY <1>2, <1>3
<1> DEFINE s == U32LE(v)
           t == U32LE((v \div 65536) \div 65536)
<1>5. s \o t \in Seq(Byte) /\ Len(s \o t) = 4 + 4
  <2>1. s \in Seq(Byte) /\ t \in Seq(Byte) /\ Len(s) = 4 /\ Len(t) = 4
    BY <1>4
  <2> HIDE DEF s, t
  <2> QED
    BY <2>1, Joined
<1>6. U64LE(v) = s \o t
  BY DEF U64LE
<1> QED
  BY <1>1, <1>4, <1>5, <1>6

(* A number is put together from its last byte to its first.               *)
InSteps(file, offset, n) ==
    \E f : /\ Read(file, offset, n) = f[n] /\ f[0] = 0
           /\ \A k \in 1 .. n : f[k] = file[offset + n - k + 1] + 256 * f[k - 1]

(* The loader reads numbers so.                                            *)
LEMMA ReadSteps ==
    ASSUME NEW file \in Seq(Byte), NEW offset \in Nat, NEW n \in Nat, offset + n <= Len(file)
    PROVE  InSteps(file, offset, n)
<1> DEFINE Reads(g) == g = [k \in 0 .. n |->
                              IF k = 0 THEN 0 ELSE file[offset + n - k + 1] + 256 * g[k - 1]]
           digit == [k \in 1 .. n |-> file[offset + n - k + 1]]
           step == [p \in (0 .. n) \X Nat |-> IF p[1] = 0 THEN 0 ELSE digit[p[1]] + 256 * p[2]]
           value == CHOOSE g : Reads(g)
<1>1. digit \in [1 .. n -> Nat] /\ \A k \in 1 .. n : digit[k] = file[offset + n - k + 1]
  <2>1. ASSUME NEW k \in 1 .. n
        PROVE  file[offset + n - k + 1] \in Nat
    <3> DEFINE i == offset + n - k + 1
    <3>1. i \in 1 .. Len(file)
      OBVIOUS
    <3> HIDE DEF i
    <3>2. file[i] \in Nat
      BY <3>1, ByteInFile
    <3> QED
      BY <3>2 DEF i
  <2> QED
    BY <2>1
<1> HIDE DEF digit
<1>2. step \in [(0 .. n) \X Nat -> Nat]
  BY <1>1
<1>3. PICK f \in [0 .. n -> Nat] : Recursion(f, 0, step, 0, n)
  <2>1. 0 \in Int /\ n \in Int /\ 0 \in Nat /\ 0 <= n
    OBVIOUS
  <2> HIDE DEF step
  <2> QED
    BY <2>1, <1>2, RecursionExists
<1>4. ASSUME NEW k \in 1 .. n
      PROVE  f[k] = file[offset + n - k + 1] + 256 * f[k - 1]
  <2>1. f[k] = step[<<k, f[k - 1]>>]
    <3> HIDE DEF step
    <3>1. k \in 0 + 1 .. n
      OBVIOUS
    <3> QED
      BY <1>3, <3>1 DEF Recursion
  <2>2. <<k, f[k - 1]>> \in (0 .. n) \X Nat /\ k # 0
    OBVIOUS
  <2>3. step[<<k, f[k - 1]>>] = digit[k] + 256 * f[k - 1]
    BY <2>2
  <2> QED
    BY <2>1, <2>3, <1>1
<1>5. f[0] = 0
  BY <1>3 DEF Recursion
<1> HIDE DEF step
<1>6. Reads(f)
  <2>1. f = [k \in 0 .. n |-> f[k]]
    BY <1>3
  <2>2. \A k \in 0 .. n :
           f[k] = IF k = 0 THEN 0 ELSE file[offset + n - k + 1] + 256 * f[k - 1]
    BY <1>4, <1>5
  <2> QED
    BY <2>1, <2>2, Zenon
<1>7. Reads(value)
  BY <1>6, ZenonT(60)
<1>8. Read(file, offset, n) = value[n]
  BY DEF Read
<1> HIDE DEF value
<1>9. /\ value[0] = 0
      /\ \A k \in 1 .. n : value[k] = file[offset + n - k + 1] + 256 * value[k - 1]
  BY <1>7
<1> QED
  BY <1>8, <1>9 DEF InSteps
(* Two bytes.                                                              *)
LEMMA ReadTwo ==
    ASSUME NEW file \in Seq(Byte), NEW at \in Nat, at + 2 <= Len(file)
    PROVE  Read(file, at, 2) = file[at + 1] + 256 * file[at + 2]
<1>0. InSteps(file, at, 2)
  BY ReadSteps
<1>1. PICK f : /\ Read(file, at, 2) = f[2] /\ f[0] = 0
               /\ \A k \in 1 .. 2 : f[k] = file[at + 2 - k + 1] + 256 * f[k - 1]
  BY <1>0 DEF InSteps
<1>2. f[1] = file[at + 2] + 256 * f[0] /\ f[2] = file[at + 1] + 256 * f[1]
  BY <1>1
<1>3. at + 2 \in 1 .. Len(file)
  OBVIOUS
<1>4. file[at + 2] \in Nat
  BY <1>3, ByteInFile
<1> QED
  BY <1>1, <1>2, <1>4

(* Four and eight bytes.                                                   *)
LEMMA ReadFour ==
    ASSUME NEW file \in Seq(Byte), NEW at \in Nat, at + 4 <= Len(file)
    PROVE  Read(file, at, 4) =
             file[at + 1] + 256 * (file[at + 2] + 256 * (file[at + 3] + 256 * file[at + 4]))
<1>0. InSteps(file, at, 4)
  BY ReadSteps
<1>1. PICK f : /\ Read(file, at, 4) = f[4] /\ f[0] = 0
               /\ \A k \in 1 .. 4 : f[k] = file[at + 4 - k + 1] + 256 * f[k - 1]
  BY <1>0 DEF InSteps
<1>2. /\ f[1] = file[at + 4] + 256 * f[0] /\ f[2] = file[at + 3] + 256 * f[1]
      /\ f[3] = file[at + 2] + 256 * f[2] /\ f[4] = file[at + 1] + 256 * f[3]
  BY <1>1
<1>3. at + 4 \in 1 .. Len(file)
  OBVIOUS
<1>4. file[at + 4] \in Nat
  BY <1>3, ByteInFile
<1>5. f[1] = file[at + 4]
  BY <1>1, <1>2, <1>4
<1> QED
  BY <1>1, <1>2, <1>5

(* Eight bytes, likewise.                                                  *)
LEMMA ReadEight ==
    ASSUME NEW file \in Seq(Byte), NEW at \in Nat, at + 8 <= Len(file)
    PROVE  Read(file, at, 8) =
             file[at + 1] + 256 * (file[at + 2] + 256 * (file[at + 3] + 256 * (file[at + 4]
             + 256 * (file[at + 5] + 256 * (file[at + 6] + 256 * (file[at + 7]
             + 256 * file[at + 8]))))))
<1>0. InSteps(file, at, 8)
  BY ReadSteps
<1>1. PICK f : /\ Read(file, at, 8) = f[8] /\ f[0] = 0
               /\ \A k \in 1 .. 8 : f[k] = file[at + 8 - k + 1] + 256 * f[k - 1]
  BY <1>0 DEF InSteps
<1>2. /\ f[1] = file[at + 8] + 256 * f[0] /\ f[2] = file[at + 7] + 256 * f[1]
      /\ f[3] = file[at + 6] + 256 * f[2] /\ f[4] = file[at + 5] + 256 * f[3]
      /\ f[5] = file[at + 4] + 256 * f[4] /\ f[6] = file[at + 3] + 256 * f[5]
      /\ f[7] = file[at + 2] + 256 * f[6] /\ f[8] = file[at + 1] + 256 * f[7]
  BY <1>1, SMTT(30)
<1>3. at + 8 \in 1 .. Len(file)
  OBVIOUS
<1>4. file[at + 8] \in Nat
  BY <1>3, ByteInFile
<1>5. f[1] = file[at + 8]
  BY <1>1, <1>2, <1>4
<1> QED
  BY <1>1, <1>2, <1>5

(* The bytes of a number in the file, one by one.                          *)
LEMMA TwoBytes ==
    ASSUME NEW file \in Seq(Byte), NEW at \in Nat, NEW v \in Nat, Holds(file, at, U16LE(v))
    PROVE  /\ at + 2 <= Len(file)
           /\ file[at + 1] = v % 256 /\ file[at + 2] = (v \div 256) % 256
<1> DEFINE bytes == U16LE(v)
<1>1. Len(bytes) = 2 /\ bytes[1] = v % 256 /\ bytes[2] = (v \div 256) % 256
  BY DEF U16LE
<1> HIDE DEF bytes
<1>2. at + Len(bytes) <= Len(file) /\ \A i \in 1 .. Len(bytes) : file[at + i] = bytes[i]
  BY DEF Holds, bytes
<1> QED
  BY <1>1, <1>2

(* Where four bytes have been written.                                     *)
LEMMA FourBytes ==
    ASSUME NEW file \in Seq(Byte), NEW at \in Nat, NEW v \in Nat, Holds(file, at, U32LE(v))
    PROVE  /\ at + 4 <= Len(file)
           /\ file[at + 1] = v % 256 /\ file[at + 2] = (v \div 256) % 256
           /\ file[at + 3] = (v \div 65536) % 256
           /\ file[at + 4] = ((v \div 65536) \div 256) % 256
<1> DEFINE high == v \div 65536
           p == at + 2
<1>1. high \in Nat /\ p \in Nat
  BY SMT
<1>2. /\ U16LE(v) \in Seq(Byte) /\ Len(U16LE(v)) = 2 /\ U16LE(high) \in Seq(Byte)
      /\ Len(file) \in Nat
  BY <1>1, WrittenNumbers
<1>3. U16LE(v) \in Seq(Nat) /\ U16LE(high) \in Seq(Nat)
  BY <1>2, SeqOfBytes
<1>4. Holds(file, at, U16LE(v)) /\ Holds(file, at + Len(U16LE(v)), U16LE(high))
  <2>1. Holds(file, at, U16LE(v) \o U16LE(high))
    BY DEF U32LE
  <2> HIDE DEF high
  <2> QED
    BY <1>2, <1>3, <2>1, HoldsBoth
<1>5. Holds(file, p, U16LE(high))
  BY <1>2, <1>4
<1> HIDE DEF p, high
<1>6. file[at + 1] = v % 256 /\ file[at + 2] = (v \div 256) % 256
  BY <1>4, TwoBytes
<1>7. p + 2 <= Len(file) /\ file[p + 1] = high % 256 /\ file[p + 2] = (high \div 256) % 256
  BY <1>1, <1>5, TwoBytes
<1> QED
  BY <1>6, <1>7 DEF p, high

(* Eight bytes are four for each half.                                     *)
LEMMA EightBytes ==
    ASSUME NEW file \in Seq(Byte), NEW at \in Nat, NEW v \in Nat, Holds(file, at, U64LE(v))
    PROVE  /\ Holds(file, at, U32LE(v))
           /\ Holds(file, at + 4, U32LE((v \div 65536) \div 65536))
<1> DEFINE high == (v \div 65536) \div 65536
<1>1. high \in Nat
  BY SMT
<1> HIDE DEF high
<1>2. /\ U32LE(v) \in Seq(Byte) /\ Len(U32LE(v)) = 4 /\ U32LE(high) \in Seq(Byte)
      /\ Len(file) \in Nat
  BY <1>1, WrittenNumbers
<1>3. U32LE(v) \in Seq(Nat) /\ U32LE(high) \in Seq(Nat)
  BY <1>2, SeqOfBytes
<1>4. Holds(file, at, U32LE(v) \o U32LE(high))
  BY DEF U64LE, high
<1>5. Holds(file, at, U32LE(v)) /\ Holds(file, at + Len(U32LE(v)), U32LE(high))
  BY <1>2, <1>3, <1>4, HoldsBoth
<1> QED
  BY <1>2, <1>5 DEF high

(* The numbers of 16 and of 32 bits.                                       *)
Short == {n \in Nat : n < 65536}
Word == {n \in Nat : n < 65536 * 65536}

(* They are natural numbers.                                               *)
LEMMA WordIsNat == Word \subseteq Nat
BY DEF Word

(* A number below 2^32 is put together from its four bytes.                *)
LEMMA FourDigits ==
    ASSUME NEW v \in Word
    PROVE  /\ v = (v % 256) + 256 * (((v \div 256) % 256) + 256 * (((v \div 65536) % 256)
                  + 256 * (((v \div 65536) \div 256) % 256)))
           /\ (v \div 65536) \div 65536 = 0
<1> DEFINE q1 == v \div 256
           q2 == v \div 65536
           q3 == q2 \div 256
<1>1. v \in Nat
  BY WordIsNat
<1>2. q1 \in Nat /\ v = 256 * q1 + (v % 256)
  BY <1>1, LastByte
<1>3. q2 = q1 \div 256
  BY <1>1, NestedDivision
<1>4. q2 \in Nat /\ q1 = 256 * q2 + (q1 % 256)
  <2> HIDE DEF q1, q2
  <2> QED
    BY <1>2, <1>3, LastByte
<1>5. q3 \in Nat /\ q2 = 256 * q3 + (q2 % 256) /\ q2 % 256 \in Byte
  <2> HIDE DEF q2
  <2> QED
    BY <1>4, LastByte
<1>6. q2 < 65536
  <2>1. v < 65536 * 65536
    BY DEF Word
  <2> QED
    BY <1>1, <2>1, SMT
<1>7. q3 % 256 = q3
  <2>1. q3 < 256
    <3> HIDE DEF q2
    <3> QED
      BY <1>4, <1>6, SMT
  <2> HIDE DEF q3
  <2> QED
    BY <1>5, <2>1, SMT
<1>8. q2 \div 65536 = 0
  <2> HIDE DEF q2
  <2> QED
    BY <1>4, <1>6, SMT
<1> DEFINE r0 == v % 256
           r1 == q1 % 256
           r2 == q2 % 256
           r3 == q3 % 256
<1>9. v = r0 + 256 * (r1 + 256 * (r2 + 256 * r3))
  <2>1. r0 \in Int /\ r1 \in Int /\ r2 \in Int
    <3> HIDE DEF q1, q2
    <3> QED
      BY <1>1, <1>2, <1>4, SMT
  <2>2. v = 256 * q1 + r0 /\ q1 = 256 * q2 + r1 /\ q2 = 256 * q3 + r2 /\ r3 = q3
    BY <1>2, <1>4, <1>5, <1>7
  <2> HIDE DEF q1, q2, q3, r0, r1, r2, r3
  <2> QED
    BY <1>1, <1>2, <1>4, <1>5, <2>1, <2>2, SMT
<1> QED
  BY <1>8, <1>9

(* What was written is what is read.                                       *)
LEMMA ReadU16 ==
    ASSUME NEW file \in Seq(Byte), NEW at \in Nat, NEW v \in Short,
           Holds(file, at, U16LE(v))
    PROVE  Read(file, at, 2) = v
<1>1. /\ at + 2 <= Len(file)
      /\ file[at + 1] = v % 256 /\ file[at + 2] = (v \div 256) % 256
  <2>1. v \in Nat
    BY DEF Short
  <2> QED
    BY <2>1, TwoBytes
<1>2. Read(file, at, 2) = (v % 256) + 256 * ((v \div 256) % 256)
  BY <1>1, ReadTwo
<1>3. (v % 256) + 256 * ((v \div 256) % 256) = v
  <2>1. v \in Nat /\ v < 65536
    BY DEF Short
  <2> QED
    BY <2>1, SMT
<1> QED
  BY <1>2, <1>3

(* A number of 32 bits is read back.                                       *)
LEMMA ReadU32 ==
    ASSUME NEW file \in Seq(Byte), NEW at \in Nat, NEW v \in Word,
           Holds(file, at, U32LE(v))
    PROVE  Read(file, at, 4) = v
<1> DEFINE r0 == v % 256
           r1 == (v \div 256) % 256
           r2 == (v \div 65536) % 256
           r3 == ((v \div 65536) \div 256) % 256
<1>0. v \in Nat
  BY WordIsNat
<1>1. /\ at + 4 <= Len(file)
      /\ file[at + 1] = r0 /\ file[at + 2] = r1 /\ file[at + 3] = r2 /\ file[at + 4] = r3
  BY <1>0, FourBytes
<1>2. Read(file, at, 4) =
        file[at + 1] + 256 * (file[at + 2] + 256 * (file[at + 3] + 256 * file[at + 4]))
  BY <1>1, ReadFour
<1>3. v = r0 + 256 * (r1 + 256 * (r2 + 256 * r3))
  BY FourDigits
<1> HIDE DEF r0, r1, r2, r3
<1> QED
  BY <1>1, <1>2, <1>3

(* In eight bytes as well.                                                 *)
LEMMA ReadU64 ==
    ASSUME NEW file \in Seq(Byte), NEW at \in Nat, NEW v \in Word,
           Holds(file, at, U64LE(v))
    PROVE  Read(file, at, 8) = v
<1> DEFINE p == at + 4
           r0 == v % 256
           r1 == (v \div 256) % 256
           r2 == (v \div 65536) % 256
           r3 == ((v \div 65536) \div 256) % 256
<1>0. v \in Nat /\ p \in Nat /\ 0 \in Nat
  BY WordIsNat
<1>1. Holds(file, at, U32LE(v)) /\ Holds(file, p, U32LE((v \div 65536) \div 65536))
  BY <1>0, EightBytes
<1>2. v = r0 + 256 * (r1 + 256 * (r2 + 256 * r3)) /\ (v \div 65536) \div 65536 = 0
  BY FourDigits
<1>3. r0 \in Int /\ r1 \in Int /\ r2 \in Int /\ r3 \in Int
  BY <1>0, SMT
<1>4. Holds(file, p, U32LE(0))
  BY <1>1, <1>2
<1> HIDE DEF p
<1>5. file[at + 1] = r0 /\ file[at + 2] = r1 /\ file[at + 3] = r2 /\ file[at + 4] = r3
  <2>1. Holds(file, at, U32LE(v))
    BY <1>1
  <2> QED
    BY <1>0, <2>1, FourBytes
<1>6. /\ p + 4 <= Len(file)
      /\ file[p + 1] = 0 % 256 /\ file[p + 2] = (0 \div 256) % 256
      /\ file[p + 3] = (0 \div 65536) % 256
      /\ file[p + 4] = ((0 \div 65536) \div 256) % 256
  BY <1>0, <1>4, FourBytes
<1> HIDE DEF r0, r1, r2, r3
<1>7. /\ at + 8 <= Len(file)
      /\ file[at + 5] = 0 /\ file[at + 6] = 0 /\ file[at + 7] = 0 /\ file[at + 8] = 0
  BY <1>6 DEF p
<1>8. Read(file, at, 8) =
        file[at + 1] + 256 * (file[at + 2] + 256 * (file[at + 3] + 256 * (file[at + 4]
        + 256 * (file[at + 5] + 256 * (file[at + 6] + 256 * (file[at + 7]
        + 256 * file[at + 8]))))))
  BY <1>7, ReadEight
<1> QED
  BY <1>2, <1>3, <1>5, <1>7, <1>8, SMT

-----------------------------------------------------------------------------
(* The headers.                                                            *)

Bytes(n) == {s \in Seq(Byte) : Len(s) = n}

(* Where one sequence stands behind the other, each stands in its place.   *)
LEMMA Apart ==
    ASSUME NEW m \in Nat, NEW n \in Nat, NEW s \in Bytes(m), NEW t \in Bytes(n)
    PROVE  /\ s \o t \in Bytes(m + n)
           /\ \A file \in Seq(Byte), at \in Nat :
                Holds(file, at, s \o t) => Holds(file, at, s) /\ Holds(file, at + m, t)
<1>1. s \in Seq(Byte) /\ t \in Seq(Byte) /\ Len(s) = m /\ Len(t) = n
  BY DEF Bytes
<1>2. s \o t \in Bytes(m + n)
  BY <1>1, Joined DEF Bytes
<1>3. ASSUME NEW file \in Seq(Byte), NEW at \in Nat, Holds(file, at, s \o t)
      PROVE  Holds(file, at, s) /\ Holds(file, at + m, t)
  <2>1. s \in Seq(Nat) /\ t \in Seq(Nat) /\ Len(file) \in Nat
    BY <1>1, SeqOfBytes
  <2>2. Holds(file, at, s) /\ Holds(file, at + Len(s), t)
    BY <1>3, <2>1, HoldsBoth
  <2> QED
    BY <1>1, <2>2
<1> QED
  BY <1>2, <1>3

(* So do four behind a first.                                              *)
FourBehind(all, s, n, t, a, u, b, v, c, w, d) ==
    /\ all \in Bytes(n + a + b + c + d)
    /\ \A file \in Seq(Byte), at \in Nat :
         Holds(file, at, all) =>
            /\ Holds(file, at, s) /\ Holds(file, at + n, t)
            /\ Holds(file, at + (n + a), u) /\ Holds(file, at + (n + a + b), v)
            /\ Holds(file, at + (n + a + b + c), w)

(* Five parts behind one another stand where they should.                  *)
LEMMA FourApart ==
    ASSUME NEW n \in Nat, NEW a \in Nat, NEW b \in Nat, NEW c \in Nat, NEW d \in Nat,
           NEW s \in Bytes(n), NEW t \in Bytes(a), NEW u \in Bytes(b), NEW v \in Bytes(c),
           NEW w \in Bytes(d)
    PROVE  FourBehind(s \o t \o u \o v \o w, s, n, t, a, u, b, v, c, w, d)
<1>1. /\ s \o t \in Bytes(n + a)
      /\ \A file \in Seq(Byte), at \in Nat :
           Holds(file, at, s \o t) => Holds(file, at, s) /\ Holds(file, at + n, t)
  BY Apart
<1> DEFINE st == s \o t
           stu == st \o u
           stuv == stu \o v
<1>2. /\ stu \in Bytes(n + a + b)
      /\ \A file \in Seq(Byte), at \in Nat :
           Holds(file, at, stu) => Holds(file, at, st) /\ Holds(file, at + (n + a), u)
  <2>1. st \in Bytes(n + a) /\ n + a \in Nat
    BY <1>1
  <2> HIDE DEF st
  <2> QED
    BY <2>1, Apart
<1>3. /\ stuv \in Bytes(n + a + b + c)
      /\ \A file \in Seq(Byte), at \in Nat :
           Holds(file, at, stuv) => Holds(file, at, stu) /\ Holds(file, at + (n + a + b), v)
  <2>1. stu \in Bytes(n + a + b) /\ n + a + b \in Nat
    BY <1>2
  <2> HIDE DEF stu
  <2> QED
    BY <2>1, Apart
<1>4. /\ stuv \o w \in Bytes(n + a + b + c + d)
      /\ \A file \in Seq(Byte), at \in Nat :
           Holds(file, at, stuv \o w) =>
              Holds(file, at, stuv) /\ Holds(file, at + (n + a + b + c), w)
  <2>1. stuv \in Bytes(n + a + b + c) /\ n + a + b + c \in Nat
    BY <1>3
  <2> HIDE DEF stuv
  <2> QED
    BY <2>1, Apart
<1> QED
  BY <1>1, <1>2, <1>3, <1>4, Zenon DEF FourBehind

(* The writers, once more, and the identification.                         *)
LEMMA WrittenBytes ==
    /\ \A v \in Nat : U16LE(v) \in Bytes(2) /\ U32LE(v) \in Bytes(4) /\ U64LE(v) \in Bytes(8)
    /\ Ident \in Bytes(16)
<1>1. ASSUME NEW v \in Nat
      PROVE  U16LE(v) \in Bytes(2) /\ U32LE(v) \in Bytes(4) /\ U64LE(v) \in Bytes(8)
  BY WrittenNumbers DEF Bytes
<1>2. Ident \in Bytes(16)
  <2> DEFINE first == <<127, 69, 76, 70>>
             second == <<2, 1, 1>>
             padding == [i \in 1 .. 9 |-> 0]
  <2>1. first \in Bytes(4) /\ second \in Bytes(3) /\ padding \in Bytes(9)
    BY DEF Bytes, Byte
  <2>2. Ident = first \o second \o padding
    BY DEF Ident, ELFMAG, ELFCLASS64, ELFDATA2LSB, EV_CURRENT
  <2> HIDE DEF first, second, padding
  <2>3. first \o second \in Bytes(4 + 3)
    BY <2>1, Apart
  <2>4. (first \o second) \o padding \in Bytes(7 + 9)
    <3> DEFINE both == first \o second
    <3>1. both \in Bytes(7)
      BY <2>3
    <3> HIDE DEF both
    <3>2. both \o padding \in Bytes(7 + 9)
      BY <2>1, <3>1, Apart
    <3> QED
      BY <3>2 DEF both
  <2> QED
    BY <2>2, <2>4
<1> QED
  BY <1>1, <1>2

(* What the loader looks at in an ELF header, with the entry address e.    *)
EhdrIn(file, e) ==
    /\ Holds(file, 0, Ident)
    /\ Holds(file, 16, U16LE(ET_EXEC)) /\ Holds(file, 18, U16LE(EM_X86_64))
    /\ Holds(file, 24, U64LE(e)) /\ Holds(file, 32, U64LE(EHDR_SIZE))
    /\ Holds(file, 54, U16LE(PHDR_SIZE)) /\ Holds(file, 56, U16LE(1))

(* The header holds its fields.                                            *)
LEMMA EhdrFields ==
    ASSUME NEW e \in Nat
    PROVE  /\ Ehdr(e) \in Bytes(64)
           /\ \A file \in Seq(Byte) : Holds(file, 0, Ehdr(e)) => EhdrIn(file, e)
<1> DEFINE toEntry == Ident \o U16LE(ET_EXEC) \o U16LE(EM_X86_64) \o U32LE(EV_CURRENT) \o U64LE(e)
           toSize == toEntry \o U64LE(EHDR_SIZE) \o U64LE(0) \o U32LE(0) \o U16LE(EHDR_SIZE)
           toLast == toSize \o U16LE(PHDR_SIZE) \o U16LE(1) \o U16LE(0) \o U16LE(0)
<1>0. /\ ET_EXEC \in Nat /\ EM_X86_64 \in Nat /\ EV_CURRENT \in Nat
      /\ EHDR_SIZE \in Nat /\ PHDR_SIZE \in Nat /\ 0 \in Nat /\ 1 \in Nat
      /\ 2 \in Nat /\ 4 \in Nat /\ 8 \in Nat /\ 16 \in Nat /\ 32 \in Nat /\ 54 \in Nat /\ 62 \in Nat
  BY DEF ET_EXEC, EM_X86_64, EV_CURRENT, EHDR_SIZE, PHDR_SIZE
<1>1. /\ toEntry \in Bytes(32)
      /\ \A file \in Seq(Byte) :
           Holds(file, 0, toEntry) =>
              /\ Holds(file, 0, Ident) /\ Holds(file, 16, U16LE(ET_EXEC))
              /\ Holds(file, 18, U16LE(EM_X86_64)) /\ Holds(file, 24, U64LE(e))
  <2>1. /\ Ident \in Bytes(16) /\ U16LE(ET_EXEC) \in Bytes(2) /\ U16LE(EM_X86_64) \in Bytes(2)
        /\ U32LE(EV_CURRENT) \in Bytes(4) /\ U64LE(e) \in Bytes(8)
    BY <1>0, WrittenBytes
  <2>2. FourBehind(toEntry, Ident, 16, U16LE(ET_EXEC), 2, U16LE(EM_X86_64), 2,
                   U32LE(EV_CURRENT), 4, U64LE(e), 8)
    BY <1>0, <2>1, FourApart
  <2> HIDE DEF toEntry
  <2> QED
    BY <2>2 DEF FourBehind
<1> HIDE DEF toEntry
<1>2. /\ toSize \in Bytes(54)
      /\ \A file \in Seq(Byte) :
           Holds(file, 0, toSize) => Holds(file, 0, toEntry) /\ Holds(file, 32, U64LE(EHDR_SIZE))
  <2>1. /\ U64LE(EHDR_SIZE) \in Bytes(8) /\ U64LE(0) \in Bytes(8) /\ U32LE(0) \in Bytes(4)
        /\ U16LE(EHDR_SIZE) \in Bytes(2)
    BY <1>0, WrittenBytes
  <2>2. FourBehind(toSize, toEntry, 32, U64LE(EHDR_SIZE), 8, U64LE(0), 8,
                   U32LE(0), 4, U16LE(EHDR_SIZE), 2)
    BY <1>0, <1>1, <2>1, FourApart
  <2> HIDE DEF toSize
  <2> QED
    BY <2>2 DEF FourBehind
<1> HIDE DEF toSize
<1>3. /\ toLast \in Bytes(62)
      /\ \A file \in Seq(Byte) :
           Holds(file, 0, toLast) =>
              /\ Holds(file, 0, toSize) /\ Holds(file, 54, U16LE(PHDR_SIZE))
              /\ Holds(file, 56, U16LE(1))
  <2>1. U16LE(PHDR_SIZE) \in Bytes(2) /\ U16LE(1) \in Bytes(2) /\ U16LE(0) \in Bytes(2)
    BY <1>0, WrittenBytes
  <2>2. FourBehind(toLast, toSize, 54, U16LE(PHDR_SIZE), 2, U16LE(1), 2,
                   U16LE(0), 2, U16LE(0), 2)
    BY <1>0, <1>2, <2>1, FourApart
  <2> HIDE DEF toLast
  <2> QED
    BY <2>2 DEF FourBehind
<1>4. Ehdr(e) = toLast \o U16LE(0)
  BY DEF Ehdr, toSize, toEntry
<1> HIDE DEF toLast
<1>5. /\ toLast \o U16LE(0) \in Bytes(62 + 2)
      /\ \A file \in Seq(Byte), at \in Nat :
           Holds(file, at, toLast \o U16LE(0)) =>
              Holds(file, at, toLast) /\ Holds(file, at + 62, U16LE(0))
  <2>1. U16LE(0) \in Bytes(2)
    BY <1>0, WrittenBytes
  <2> QED
    BY <1>0, <1>3, <2>1, Apart
<1> QED
  BY <1>1, <1>2, <1>3, <1>4, <1>5 DEF EhdrIn

(* And in a program header that stands behind it, for a file of size n.    *)
PhdrIn(file, n) ==
    /\ Holds(file, 64, U32LE(PT_LOAD)) /\ Holds(file, 72, U64LE(0))
    /\ Holds(file, 80, U64LE(BASE_ADDR))
    /\ Holds(file, 96, U64LE(n)) /\ Holds(file, 104, U64LE(n))

(* So does the program header.                                             *)
LEMMA PhdrFields ==
    ASSUME NEW n \in Nat
    PROVE  /\ Phdr(n) \in Bytes(56)
           /\ \A file \in Seq(Byte) : Holds(file, 64, Phdr(n)) => PhdrIn(file, n)
<1> DEFINE flags == PF_X + PF_R
           toAddress == U32LE(PT_LOAD) \o U32LE(flags) \o U64LE(0) \o U64LE(BASE_ADDR)
                        \o U64LE(BASE_ADDR)
           toSize == toAddress \o U64LE(n)
           toMemory == toSize \o U64LE(n)
<1>0. /\ PT_LOAD \in Nat /\ flags \in Nat /\ BASE_ADDR \in Nat /\ 4096 \in Nat
      /\ 0 \in Nat /\ 4 \in Nat /\ 8 \in Nat /\ 32 \in Nat /\ 40 \in Nat /\ 48 \in Nat /\ 64 \in Nat
  BY DEF PT_LOAD, PF_X, PF_R, BASE_ADDR
<1>1. /\ toAddress \in Bytes(32)
      /\ \A file \in Seq(Byte) :
           Holds(file, 64, toAddress) =>
              /\ Holds(file, 64, U32LE(PT_LOAD)) /\ Holds(file, 72, U64LE(0))
              /\ Holds(file, 80, U64LE(BASE_ADDR))
  <2>1. /\ U32LE(PT_LOAD) \in Bytes(4) /\ U32LE(flags) \in Bytes(4) /\ U64LE(0) \in Bytes(8)
        /\ U64LE(BASE_ADDR) \in Bytes(8)
    BY <1>0, WrittenBytes
  <2> HIDE DEF flags
  <2>2. FourBehind(toAddress, U32LE(PT_LOAD), 4, U32LE(flags), 4, U64LE(0), 8,
                   U64LE(BASE_ADDR), 8, U64LE(BASE_ADDR), 8)
    BY <1>0, <2>1, FourApart
  <2> HIDE DEF toAddress
  <2> QED
    BY <2>2 DEF FourBehind
<1> HIDE DEF toAddress
<1>2. U64LE(n) \in Bytes(8) /\ U64LE(4096) \in Bytes(8)
  BY <1>0, WrittenBytes
<1>3. /\ toSize \in Bytes(32 + 8)
      /\ \A file \in Seq(Byte), at \in Nat :
           Holds(file, at, toSize) => Holds(file, at, toAddress) /\ Holds(file, at + 32, U64LE(n))
  BY <1>0, <1>1, <1>2, Apart
<1> HIDE DEF toSize
<1>4. /\ toMemory \in Bytes(40 + 8)
      /\ \A file \in Seq(Byte), at \in Nat :
           Holds(file, at, toMemory) => Holds(file, at, toSize) /\ Holds(file, at + 40, U64LE(n))
  <2>1. toSize \in Bytes(40)
    BY <1>3
  <2> QED
    BY <1>0, <1>2, <2>1, Apart
<1> HIDE DEF toMemory
<1>5. /\ toMemory \o U64LE(4096) \in Bytes(48 + 8)
      /\ \A file \in Seq(Byte), at \in Nat :
           Holds(file, at, toMemory \o U64LE(4096)) =>
              Holds(file, at, toMemory) /\ Holds(file, at + 48, U64LE(4096))
  <2>1. toMemory \in Bytes(48)
    BY <1>4
  <2> QED
    BY <1>0, <1>2, <2>1, Apart
<1>6. Phdr(n) = toMemory \o U64LE(4096)
  BY DEF Phdr, toMemory, toSize, toAddress
<1>7. ASSUME NEW file \in Seq(Byte), Holds(file, 64, Phdr(n))
      PROVE  PhdrIn(file, n)
  <2>1. Holds(file, 64, toMemory)
    BY <1>0, <1>5, <1>6, <1>7
  <2>2. Holds(file, 64, toSize) /\ Holds(file, 64 + 40, U64LE(n))
    BY <1>0, <1>4, <2>1
  <2>3. Holds(file, 64, toAddress) /\ Holds(file, 64 + 32, U64LE(n))
    BY <1>0, <1>3, <2>2
  <2>4. Holds(file, 104, U64LE(n)) /\ Holds(file, 96, U64LE(n))
    BY <2>2, <2>3
  <2> QED
    BY <1>1, <2>3, <2>4 DEF PhdrIn
<1> QED
  BY <1>5, <1>6, <1>7

-----------------------------------------------------------------------------
(* The file.                                                               *)

(* There is room for a byte before it is written.                          *)
RoomFor(l, c) == Room[[len |-> l, cap |-> c]]

(* Growing makes room for one more byte.                                   *)
LEMMA RoomForOneMore ==
    ASSUME NEW len \in Nat, NEW cap \in Nat
    PROVE  RoomFor(len, cap) \in Nat /\ (len <= cap => len + 1 <= RoomFor(len, cap))
<1> DEFINE buf == [len |-> len, cap |-> cap]
<1>1. buf \in [len : Nat, cap : Nat] /\ buf.len = len /\ buf.cap = cap
  OBVIOUS
<1> HIDE DEF buf
<1>2. Room[buf] = IF buf.len # buf.cap THEN buf.cap
                  ELSE IF buf.cap = 0 THEN BYTEBUF_INITIAL_CAP ELSE 2 * buf.cap
  BY <1>1 DEF Room
<1>3. RoomFor(len, cap) = IF len # cap THEN cap
                          ELSE IF cap = 0 THEN BYTEBUF_INITIAL_CAP ELSE 2 * cap
  BY <1>1, <1>2 DEF RoomFor, buf
<1> QED
  BY <1>3 DEF BYTEBUF_INITIAL_CAP

(* So there is for all of them.                                            *)
LEMMA RoomForAll ==
    ASSUME NEW bytes, Len(bytes) \in Nat
    PROVE  Len(bytes) <= ByteBufWriteBytes(ByteBufInit, bytes).cap
<1> DEFINE n == Len(bytes)
           Grows(g) == g = [k \in 0 .. n |->
                              IF k = 0 THEN ByteBufInit.cap
                              ELSE RoomFor(Len(ByteBufInit.data) + k - 1, g[k - 1])]
           room == [p \in (0 .. n) \X Nat |-> RoomFor(IF p[1] = 0 THEN 0 ELSE p[1] - 1, p[2])]
           cap == CHOOSE g : Grows(g)
<1>1. ByteBufInit.cap = 0 /\ Len(ByteBufInit.data) = 0
  BY DEF ByteBufInit
<1>2. /\ room \in [(0 .. n) \X Nat -> Nat]
      /\ \A k \in 1 .. n, c \in Nat : room[<<k, c>>] = RoomFor(k - 1, c)
  <2>1. ASSUME NEW p \in (0 .. n) \X Nat
        PROVE  RoomFor(IF p[1] = 0 THEN 0 ELSE p[1] - 1, p[2]) \in Nat
    <3> DEFINE len == IF p[1] = 0 THEN 0 ELSE p[1] - 1
    <3>1. len \in Nat /\ p[2] \in Nat
      OBVIOUS
    <3> HIDE DEF len
    <3>2. RoomFor(len, p[2]) \in Nat
      BY <3>1, RoomForOneMore
    <3> QED
      BY <3>2 DEF len
  <2>2. room \in [(0 .. n) \X Nat -> Nat]
    BY <2>1
  <2>3. ASSUME NEW k \in 1 .. n, NEW c \in Nat
        PROVE  room[<<k, c>>] = RoomFor(k - 1, c)
    <3>1. <<k, c>> \in (0 .. n) \X Nat /\ <<k, c>>[1] = k /\ <<k, c>>[2] = c /\ k # 0
      OBVIOUS
    <3> QED
      BY <3>1
  <2> QED
    BY <2>2, <2>3
<1> HIDE DEF room
<1>3. PICK f \in [0 .. n -> Nat] : Recursion(f, 0, room, 0, n)
  <2>1. 0 \in Int /\ n \in Int /\ 0 \in Nat /\ 0 <= n
    OBVIOUS
  <2> QED
    BY <2>1, <1>2, RecursionExists
<1>4. f[0] = 0 /\ \A k \in 1 .. n : f[k] = RoomFor(k - 1, f[k - 1])
  <2>1. ASSUME NEW k \in 1 .. n
        PROVE  f[k] = RoomFor(k - 1, f[k - 1])
    <3>1. k \in 0 + 1 .. n /\ f[k - 1] \in Nat
      OBVIOUS
    <3>2. f[k] = room[<<k, f[k - 1]>>]
      BY <1>3, <3>1 DEF Recursion
    <3> QED
      BY <1>2, <3>1, <3>2
  <2> QED
    BY <2>1, <1>3 DEF Recursion
<1>5. Grows(f)
  <2>1. f = [k \in 0 .. n |-> f[k]]
    BY <1>3
  <2>2. ASSUME NEW k \in 0 .. n
        PROVE  f[k] = IF k = 0 THEN ByteBufInit.cap
                      ELSE RoomFor(Len(ByteBufInit.data) + k - 1, f[k - 1])
    <3>1. k # 0 => k \in 1 .. n /\ Len(ByteBufInit.data) + k - 1 = k - 1
      BY <1>1
    <3> QED
      BY <1>1, <1>4, <3>1
  <2> QED
    BY <2>1, <2>2, Zenon
<1>6. Grows(cap)
  BY <1>5
<1>7. ByteBufWriteBytes(ByteBufInit, bytes).cap = cap[n]
  BY DEF ByteBufWriteBytes, RoomFor
<1> HIDE DEF cap
<1>8. cap[0] = 0 /\ \A k \in 1 .. n : cap[k] = RoomFor(k - 1, cap[k - 1])
  <2>1. ASSUME NEW k \in 1 .. n
        PROVE  cap[k] = RoomFor(k - 1, cap[k - 1])
    <3>1. k \in 0 .. n /\ k # 0 /\ Len(ByteBufInit.data) + k - 1 = k - 1
      BY <1>1
    <3>2. cap[k] = RoomFor(Len(ByteBufInit.data) + k - 1, cap[k - 1])
      BY <1>6, <3>1
    <3> QED
      BY <3>1, <3>2
  <2>2. 0 \in 0 .. n
    OBVIOUS
  <2> QED
    BY <1>1, <1>6, <2>1, <2>2
<1> DEFINE Good == {k \in Nat : k <= n => cap[k] \in Nat /\ k <= cap[k]}
<1>9. 0 \in Good
  BY <1>8
<1>10. ASSUME NEW k \in Nat, k \in Good
       PROVE  k + 1 \in Good
  <2> SUFFICES ASSUME k + 1 <= n
               PROVE  cap[k + 1] \in Nat /\ k + 1 <= cap[k + 1]
    OBVIOUS
  <2>1. cap[k] \in Nat /\ k <= cap[k]
    BY <1>10
  <2>2. cap[k + 1] = RoomFor(k, cap[k])
    <3>1. k + 1 \in 1 .. n /\ (k + 1) - 1 = k
      OBVIOUS
    <3> QED
      BY <1>8, <3>1
  <2> QED
    BY <2>1, <2>2, RoomForOneMore
<1>11. Nat \subseteq Good
  <2> HIDE DEF Good
  <2> QED
    BY <1>9, <1>10, Induction
<1> QED
  BY <1>7, <1>11

(* The file BuildElf makes of code with an entry offset.                   *)
File(c, o) == Ehdr(EntryAddress(o)) \o Phdr(TotalSize(c)) \o c

(* Its sizes and addresses fit 32 bits.                                    *)
Fits(c, o) == TotalSize(c) \in Word /\ EntryAddress(o) \in Word

Headers == EHDR_SIZE + PHDR_SIZE

(* The file is bytes, headers first, then the code, all in the buffer.     *)
LEMMA BuiltFile ==
    ASSUME NEW c \in Seq(Byte), NEW o \in Nat, Fits(c, o)
    PROVE  /\ BuildElf(c, o).data = File(c, o)
           /\ File(c, o) \in Seq(Byte) /\ Len(File(c, o)) = TotalSize(c)
           /\ Len(c) \in Nat /\ TotalSize(c) = 120 + Len(c)
           /\ EhdrIn(File(c, o), EntryAddress(o)) /\ PhdrIn(File(c, o), TotalSize(c))
           /\ Holds(File(c, o), 120, c)
           /\ File(c, o) = SubSeq(File(c, o), 1, Headers) \o c
           /\ Len(File(c, o)) <= BuildElf(c, o).cap
<1> DEFINE eh == Ehdr(EntryAddress(o))
           ph == Phdr(TotalSize(c))
           headers == eh \o ph
           file == headers \o c
<1>0. /\ EntryAddress(o) \in Nat /\ TotalSize(c) \in Nat /\ Len(c) \in Nat /\ c \in Bytes(Len(c))
      /\ TotalSize(c) = 120 + Len(c)
  BY DEF EntryAddress, TotalSize, BASE_ADDR, EHDR_SIZE, PHDR_SIZE, Bytes
<1>1. /\ eh \in Bytes(64)
      /\ \A f \in Seq(Byte) : Holds(f, 0, eh) => EhdrIn(f, EntryAddress(o))
  BY <1>0, EhdrFields
<1>2. /\ ph \in Bytes(56)
      /\ \A f \in Seq(Byte) : Holds(f, 64, ph) => PhdrIn(f, TotalSize(c))
  BY <1>0, PhdrFields
<1>3. file = File(c, o)
  BY DEF File
<1> HIDE DEF eh, ph
<1>4. /\ headers \in Bytes(64 + 56)
      /\ \A f \in Seq(Byte), at \in Nat :
           Holds(f, at, headers) => Holds(f, at, eh) /\ Holds(f, at + 64, ph)
  BY <1>1, <1>2, Apart
<1>5. headers \in Bytes(120)
  BY <1>4
<1> HIDE DEF headers
<1>6. /\ file \in Bytes(120 + Len(c))
      /\ \A f \in Seq(Byte), at \in Nat :
           Holds(f, at, file) => Holds(f, at, headers) /\ Holds(f, at + 120, c)
  BY <1>0, <1>5, Apart
<1>7. headers \in Seq(Byte) /\ Len(headers) = 120
  BY <1>5 DEF Bytes
<1>8. file = SubSeq(file, 1, 120) \o c
  <2>1. SubSeq(headers \o c, 1, 120) = SubSeq(headers, 1, 120)
    <3>1. 1 \in 1 .. Len(headers) /\ 120 \in 1 .. Len(headers)
      BY <1>7
    <3> QED
      BY <1>7, <3>1, SubSeqOfConcat1, ZenonT(60)
  <2>2. SubSeq(headers, 1, Len(headers)) = headers
    BY <1>7, SubSeqFull
  <2> QED
    BY <1>7, <2>1, <2>2
<1> HIDE DEF file
<1>9. file \in Seq(Byte) /\ Len(file) = TotalSize(c)
  BY <1>0, <1>6 DEF Bytes
<1>10. Holds(file, 0, file)
  BY <1>0, <1>9 DEF Holds
<1>11. Holds(file, 0, headers) /\ Holds(file, 120, c)
  BY <1>6, <1>9, <1>10
<1>12. EhdrIn(file, EntryAddress(o)) /\ PhdrIn(file, TotalSize(c))
  BY <1>1, <1>2, <1>4, <1>9, <1>11
<1>13. BuildElf(c, o) = ByteBufWriteBytes(ByteBufInit, file)
  BY <1>3 DEF BuildElf, File
<1>14. BuildElf(c, o).data = file
  <2>1. BuildElf(c, o).data = << >> \o file
    BY <1>13 DEF ByteBufWriteBytes, ByteBufInit
  <2> QED
    BY <1>9, <2>1
<1>15. Len(file) <= BuildElf(c, o).cap
  BY <1>0, <1>9, <1>13, RoomForAll
<1>16. Headers = 120
  BY DEF Headers, EHDR_SIZE, PHDR_SIZE
<1> QED
  BY <1>0, <1>3, <1>8, <1>9, <1>11, <1>12, <1>14, <1>15, <1>16

(* Small numbers fit as well.                                              *)
LEMMA SmallNumbers ==
    /\ 0 \in Word /\ PT_LOAD \in Word /\ EHDR_SIZE \in Word /\ BASE_ADDR \in Word
    /\ ET_EXEC \in Short /\ EM_X86_64 \in Short
    /\ PHDR_SIZE \in Short /\ 1 \in Short
BY DEF Word, Short, PT_LOAD, EHDR_SIZE, BASE_ADDR, ET_EXEC, EM_X86_64, PHDR_SIZE

(* What the loader reads in it.                                            *)
LEMMA LoadedFile ==
    ASSUME NEW c \in Seq(Byte), NEW o \in Nat, Fits(c, o)
    PROVE  /\ Entry(File(c, o)) = EntryAddress(o)
           /\ Segment(File(c, o)).vaddr = BASE_ADDR
           /\ Mapped(File(c, o)) = File(c, o)
           /\ Loadable(File(c, o))
<1> DEFINE file == File(c, o)
           size == TotalSize(c)
<1>1. /\ file \in Seq(Byte) /\ Len(file) = size /\ Len(c) \in Nat /\ size = 120 + Len(c)
      /\ EhdrIn(file, EntryAddress(o)) /\ PhdrIn(file, size)
      /\ size \in Word /\ EntryAddress(o) \in Word
  BY BuiltFile DEF Fits
<1> HIDE DEF file, size
<1>2. /\ Holds(file, 0, Ident)
      /\ Read(file, 16, 2) = ET_EXEC /\ Read(file, 18, 2) = EM_X86_64
      /\ Read(file, 54, 2) = PHDR_SIZE /\ Read(file, 56, 2) = 1
      /\ Read(file, 24, 8) = EntryAddress(o) /\ Read(file, 32, 8) = EHDR_SIZE
  <2>1. /\ Holds(file, 0, Ident)
        /\ Holds(file, 16, U16LE(ET_EXEC)) /\ Holds(file, 18, U16LE(EM_X86_64))
        /\ Holds(file, 24, U64LE(EntryAddress(o))) /\ Holds(file, 32, U64LE(EHDR_SIZE))
        /\ Holds(file, 54, U16LE(PHDR_SIZE)) /\ Holds(file, 56, U16LE(1))
    BY <1>1 DEF EhdrIn
  <2>2. Read(file, 16, 2) = ET_EXEC
    BY <1>1, <2>1, SmallNumbers, ReadU16
  <2>3. Read(file, 18, 2) = EM_X86_64
    BY <1>1, <2>1, SmallNumbers, ReadU16
  <2>4. Read(file, 54, 2) = PHDR_SIZE
    BY <1>1, <2>1, SmallNumbers, ReadU16
  <2>5. Read(file, 56, 2) = 1
    BY <1>1, <2>1, SmallNumbers, ReadU16
  <2>6. Read(file, 24, 8) = EntryAddress(o)
    BY <1>1, <2>1, ReadU64
  <2>7. Read(file, 32, 8) = EHDR_SIZE
    BY <1>1, <2>1, SmallNumbers, ReadU64
  <2> QED
    BY <2>1, <2>2, <2>3, <2>4, <2>5, <2>6, <2>7
<1>3. /\ Read(file, 64, 4) = PT_LOAD /\ Read(file, 72, 8) = 0 /\ Read(file, 80, 8) = BASE_ADDR
      /\ Read(file, 96, 8) = size /\ Read(file, 104, 8) = size
  <2>1. /\ Holds(file, 64, U32LE(PT_LOAD)) /\ Holds(file, 72, U64LE(0))
        /\ Holds(file, 80, U64LE(BASE_ADDR))
        /\ Holds(file, 96, U64LE(size)) /\ Holds(file, 104, U64LE(size))
    BY <1>1 DEF PhdrIn
  <2>2. Read(file, 64, 4) = PT_LOAD
    BY <1>1, <2>1, SmallNumbers, ReadU32
  <2>3. Read(file, 72, 8) = 0
    BY <1>1, <2>1, SmallNumbers, ReadU64
  <2>4. Read(file, 80, 8) = BASE_ADDR
    BY <1>1, <2>1, SmallNumbers, ReadU64
  <2>5. Read(file, 96, 8) = size /\ Read(file, 104, 8) = size
    BY <1>1, <2>1, ReadU64
  <2> QED
    BY <2>2, <2>3, <2>4, <2>5
<1>4. ProgramHeader(file) = 64
  BY <1>2 DEF ProgramHeader, EHDR_SIZE
<1>5. /\ Segment(file).type = PT_LOAD /\ Segment(file).offset = 0
      /\ Segment(file).vaddr = BASE_ADDR
      /\ Segment(file).filesz = size /\ Segment(file).memsz = size
  BY <1>3, <1>4 DEF Segment
<1>6. Mapped(file) = file
  <2>1. Mapped(file) = SubSeq(file, 0 + 1, 0 + size)
    BY <1>5 DEF Mapped
  <2>2. SubSeq(file, 1, Len(file)) = file
    BY <1>1
  <2> QED
    BY <1>1, <2>1, <2>2
<1>7. /\ Len(file) >= EHDR_SIZE /\ Len(file) >= ProgramHeader(file) + PHDR_SIZE
      /\ Segment(file).filesz <= Segment(file).memsz
      /\ Segment(file).offset % 4096 = Segment(file).vaddr % 4096
  BY <1>1, <1>4, <1>5 DEF EHDR_SIZE, PHDR_SIZE, BASE_ADDR
<1>8. SubSeq(file, 1, 4) = ELFMAG /\ file[5] = ELFCLASS64 /\ file[6] = ELFDATA2LSB
  <2> DEFINE tail == [i \in 1 .. 9 |-> 0]
  <2>1. Ident = ELFMAG \o <<ELFCLASS64, ELFDATA2LSB, EV_CURRENT>> \o tail
    BY DEF Ident
  <2>2. tail \in Seq(Nat)
    OBVIOUS
  <2> HIDE DEF tail
  <2>3. /\ Ident[1] = 127 /\ Ident[2] = 69 /\ Ident[3] = 76 /\ Ident[4] = 70
        /\ Ident[5] = ELFCLASS64 /\ Ident[6] = ELFDATA2LSB
    BY <2>1, <2>2 DEF ELFMAG, ELFCLASS64, ELFDATA2LSB, EV_CURRENT
  <2>4. Len(Ident) = 16
    BY WrittenBytes DEF Bytes
  <2>5. \A i \in 1 .. 16 : file[i] = Ident[i]
    <3>1. Holds(file, 0, Ident)
      BY <1>2
    <3>2. \A i \in 1 .. 16 : file[0 + i] = Ident[i]
      BY <2>4, <3>1 DEF Holds
    <3>3. \A i \in 1 .. 16 : 0 + i = i
      OBVIOUS
    <3> QED
      BY <3>2, <3>3
  <2>6. /\ file[1] = 127 /\ file[2] = 69 /\ file[3] = 76 /\ file[4] = 70
        /\ file[5] = ELFCLASS64 /\ file[6] = ELFDATA2LSB
    BY <2>3, <2>5, SMTT(30)
  <2>7. SubSeq(file, 1, 4) = <<file[1], file[2], file[3], file[4]>>
    <3> DEFINE four == SubSeq(file, 1, 4)
    <3>1. \A i \in 1 .. 4 : file[i] \in Byte
      BY <1>1
    <3>2. /\ four \in Seq(Byte) /\ Len(four) = 4
          /\ \A i \in 1 .. 4 : four[i] = file[1 + i - 1]
      <4>1. /\ four \in Seq(Byte) /\ Len(four) = IF 1 <= 4 THEN 4 - 1 + 1 ELSE 0
            /\ \A i \in 1 .. 4 - 1 + 1 : four[i] = file[1 + i - 1]
        BY <3>1, SubSeqProperties
      <4> HIDE DEF four
      <4> QED
        BY <4>1
    <3> HIDE DEF four
    <3>3. four[1] = file[1] /\ four[2] = file[2] /\ four[3] = file[3] /\ four[4] = file[4]
      BY <3>2
    <3>4. four = <<four[1], four[2], four[3], four[4]>>
      BY <3>2
    <3> QED
      BY <3>3, <3>4 DEF four
  <2> QED
    BY <2>6, <2>7 DEF ELFMAG
<1>9. Loadable(file)
  BY <1>2, <1>5, <1>7, <1>8 DEF Loadable
<1>10. Entry(file) = EntryAddress(o)
  BY <1>2 DEF Entry
<1> QED
  BY <1>5, <1>6, <1>9, <1>10 DEF file

-----------------------------------------------------------------------------
(* The instruction pointer and the statements.                             *)

(* All statements are encoded.                                             *)
Encoded == TypeOK /\ LaidOut(Len(stmts))

(* An instruction has one to six bytes, any other statement none.          *)
LEMMA StmtLength ==
    ASSUME NEW stmt \in Statement, Accepted(stmt)
    PROVE  /\ EncodeStmt(stmt) \in Seq(Byte) /\ Len(EncodeStmt(stmt)) \in 0 .. 6
           /\ IsInstruction(stmt) => EncodeStmt(stmt) # << >> /\ Len(EncodeStmt(stmt)) >= 1
           /\ ~ IsInstruction(stmt) => EncodeStmt(stmt) = << >> /\ Len(EncodeStmt(stmt)) = 0
<1> DEFINE bytes == EncodeStmt(stmt)
<1>1. bytes \in Seq(Byte) /\ (~ IsInstruction(stmt) => bytes = << >>)
  BY InstructionBytes
<1>2. CASE IsInstruction(stmt)
  <2>1. Holds(bytes, 0, bytes) /\ 0 \in Nat /\ 0 \in 0 .. Len(bytes)
    BY <1>1 DEF Holds
  <2>2. Decode(bytes, 0) # Undecodable /\ Decode(bytes, 0).len = Len(bytes)
    BY <1>1, <1>2, <2>1, StmtDecodes DEF Accepted
  <2>3. Decode(bytes, 0).len \in 1 .. Len(bytes) - 0 /\ Decode(bytes, 0).len <= 6
    BY <1>1, <2>1, <2>2, DecodeLength
  <2>4. Len(bytes) \in 1 .. 6
    <3> DEFINE len == Decode(bytes, 0).len
    <3>1. Len(bytes) \in Nat /\ len = Len(bytes)
      BY <1>1, <2>2
    <3>2. len \in 1 .. Len(bytes) - 0 /\ len <= 6
      BY <2>3
    <3> HIDE DEF bytes, len
    <3> QED
      BY <3>1, <3>2, SMTT(30)
  <2> HIDE DEF bytes
  <2>5. bytes # << >>
    BY <2>4
  <2> QED
    BY <1>1, <1>2, <2>4, <2>5 DEF bytes
<1>3. CASE ~ IsInstruction(stmt)
  <2>1. bytes = << >> /\ Len(<< >>) = 0
    BY <1>1, <1>3
  <2> HIDE DEF bytes
  <2> QED
    BY <1>1, <1>3, <2>1 DEF bytes
<1> QED
  BY <1>2, <1>3

(* One statement and the next.                                             *)
LEMMA OneStatement ==
    ASSUME Encoded, NEW k \in 1 .. Len(stmts)
    PROVE  /\ stmts[k] \in Statement /\ Accepted(stmts[k])
           /\ Holds(code, OffsetOf(k), EncodeStmt(stmts[k]))
           /\ OffsetOf(k) \in Nat /\ OffsetOf(k + 1) \in Nat
           /\ OffsetOf(k + 1) = OffsetOf(k) + Len(EncodeStmt(stmts[k]))
           /\ OffsetOf(k) <= OffsetOf(k + 1) /\ OffsetOf(k + 1) <= OffsetOf(k) + 6
           /\ IsInstruction(stmts[k]) => OffsetOf(k) < OffsetOf(k + 1)
           /\ ~ IsInstruction(stmts[k]) => OffsetOf(k + 1) = OffsetOf(k)
<1>1. TypeOK /\ LaidOut(Len(stmts)) /\ Len(stmts) \in 0 .. Len(stmts)
  BY ProgramTyped DEF Encoded
<1>2. /\ stmts[k] \in Statement /\ Accepted(stmts[k])
      /\ Len(EncodeStmt(stmts[k])) \in Nat
      /\ OffsetOf(k) \in 0 .. Len(code)
      /\ OffsetOf(k + 1) = OffsetOf(k) + Len(EncodeStmt(stmts[k]))
      /\ Holds(code, OffsetOf(k), EncodeStmt(stmts[k]))
  BY <1>1, LaidOutSteps
<1>3. /\ Len(EncodeStmt(stmts[k])) \in 0 .. 6
      /\ IsInstruction(stmts[k]) => Len(EncodeStmt(stmts[k])) >= 1
      /\ ~ IsInstruction(stmts[k]) => Len(EncodeStmt(stmts[k])) = 0
  BY <1>2, StmtLength
<1> DEFINE len == Len(EncodeStmt(stmts[k]))
           o == OffsetOf(k)
           p == OffsetOf(k + 1)
<1>4. len \in Nat /\ o \in Nat /\ p = o + len
  <2>1. Len(code) \in Nat
    BY <1>1 DEF TypeOK
  <2> QED
    BY <1>2, <2>1
<1>5. /\ len \in 0 .. 6 /\ (IsInstruction(stmts[k]) => len >= 1)
      /\ (~ IsInstruction(stmts[k]) => len = 0)
  BY <1>3
<1> HIDE DEF len, o, p
<1>6. /\ p \in Nat /\ o <= p /\ p <= o + 6 /\ (IsInstruction(stmts[k]) => o < p)
      /\ (~ IsInstruction(stmts[k]) => p = o)
  BY <1>4, <1>5
<1> QED
  BY <1>2, <1>4, <1>6 DEF len, o, p

(* Offsets grow with the statements, by no more than six bytes each.       *)
LEMMA OffsetsGrow ==
    ASSUME Encoded, NEW a \in 1 .. Len(stmts) + 1, NEW b \in a .. Len(stmts) + 1
    PROVE  /\ OffsetOf(a) \in Nat /\ OffsetOf(b) \in Nat
           /\ OffsetOf(a) <= OffsetOf(b) /\ OffsetOf(b) <= OffsetOf(a) + 6 * (b - a)
<1> DEFINE Good == {n \in Nat : a + n <= Len(stmts) + 1 =>
                      /\ OffsetOf(a + n) \in Nat /\ OffsetOf(a) <= OffsetOf(a + n)
                      /\ OffsetOf(a + n) <= OffsetOf(a) + 6 * n}
<1>1. Len(stmts) \in Nat
  BY ProgramTyped DEF Encoded
<1>2. OffsetOf(a) \in Nat
  <2>1. CASE a <= Len(stmts)
    BY <1>1, <2>1, OneStatement
  <2>2. CASE a = Len(stmts) + 1
    <3>1. OffsetOf(Len(stmts) + 1) = Len(code) /\ Len(code) \in Nat
      BY DEF Encoded, LaidOut, TypeOK
    <3> QED
      BY <2>2, <3>1
  <2> QED
    BY <1>1, <2>1, <2>2
<1>3. 0 \in Good
  <2>1. a + 0 = a
    OBVIOUS
  <2> QED
    BY <1>2, <2>1
<1>4. ASSUME NEW n \in Nat, n \in Good
      PROVE  n + 1 \in Good
  <2> DEFINE k == a + n
  <2> SUFFICES ASSUME a + (n + 1) <= Len(stmts) + 1
               PROVE  /\ OffsetOf(a + (n + 1)) \in Nat /\ OffsetOf(a) <= OffsetOf(a + (n + 1))
                      /\ OffsetOf(a + (n + 1)) <= OffsetOf(a) + 6 * (n + 1)
    OBVIOUS
  <2>1. k \in 1 .. Len(stmts) /\ a + (n + 1) = k + 1 /\ k <= Len(stmts) + 1
    BY <1>1
  <2>2. OffsetOf(k) \in Nat /\ OffsetOf(a) <= OffsetOf(k) /\ OffsetOf(k) <= OffsetOf(a) + 6 * n
    BY <1>4, <2>1
  <2> HIDE DEF k
  <2>3. /\ OffsetOf(k + 1) \in Nat /\ OffsetOf(k) <= OffsetOf(k + 1)
        /\ OffsetOf(k + 1) <= OffsetOf(k) + 6
    BY <2>1, OneStatement
  <2> QED
    BY <1>2, <2>1, <2>2, <2>3, SMTT(30)
<1>5. Nat \subseteq Good
  <2> HIDE DEF Good
  <2> QED
    BY <1>3, <1>4, Induction
<1> DEFINE n == b - a
<1>6. n \in Nat /\ a + n = b
  BY <1>1
<1>7. /\ OffsetOf(a + n) \in Nat /\ OffsetOf(a) <= OffsetOf(a + n)
      /\ OffsetOf(a + n) <= OffsetOf(a) + 6 * n
  <2>1. n \in Good
    BY <1>5, <1>6
  <2>2. a + n <= Len(stmts) + 1
    BY <1>1, <1>6
  <2> HIDE DEF n
  <2> QED
    BY <2>1, <2>2
<1> QED
  BY <1>2, <1>6, <1>7

(* The statements the instruction pointer can stand for: those that do     *)
(* something, and the end.                                                 *)
Targets == {i \in 1 .. Len(stmts) + 1 : i <= Len(stmts) => IsInstruction(stmts[i])}

Following(i) == Source!NextInstruction(i)

(* The next instruction is the first there is.                             *)
LEMMA FollowingIs ==
    ASSUME TypeOK, NEW i \in 1 .. Len(stmts) + 1
    PROVE  /\ Following(i) \in i .. Len(stmts) + 1 /\ Following(i) \in Targets
           /\ \A k \in i .. Following(i) - 1 : ~ IsInstruction(stmts[k])
<1> DEFINE later == {j \in i .. Len(stmts) : IsInstruction(stmts[j])}
           first == CHOOSE j \in later : \A k \in later : j <= k
<1>1. Len(stmts) \in Nat
  BY ProgramTyped
<1>2. Following(i) = IF later = {} THEN Len(stmts) + 1 ELSE first
  BY DEF Following, Source!NextInstruction, Source!IsInstruction, IsInstruction
<1>3. CASE later = {}
  <2>1. Following(i) = Len(stmts) + 1
    BY <1>2, <1>3
  <2> QED
    BY <1>1, <1>3, <2>1 DEF Targets
<1>4. CASE later # {}
  <2>1. later \in SUBSET Nat
    BY <1>1
  <2>2. \E j \in later : \A k \in later : j <= k
    <3> HIDE DEF later
    <3> QED
      BY <1>4, <2>1, LeastNumber
  <2>3. Following(i) = first
    BY <1>2, <1>4
  <2>4. first \in later /\ \A k \in later : first <= k
    BY <2>2
  <2> HIDE DEF first
  <2> QED
    BY <1>1, <2>3, <2>4 DEF Targets
<1> QED
  BY <1>3, <1>4

(* Nothing lies between a statement and the next instruction.              *)
LEMMA NothingBetween ==
    ASSUME Encoded, NEW i \in 1 .. Len(stmts) + 1
    PROVE  OffsetOf(Following(i)) = OffsetOf(i)
<1> DEFINE j == Following(i)
           Good == {n \in Nat : i + n <= j => OffsetOf(i + n) = OffsetOf(i)}
<1>1. /\ Len(stmts) \in Nat /\ j \in i .. Len(stmts) + 1
      /\ \A k \in i .. j - 1 : ~ IsInstruction(stmts[k])
  BY ProgramTyped, FollowingIs DEF Encoded
<1> HIDE DEF j
<1>2. 0 \in Good
  <2>1. i + 0 = i
    OBVIOUS
  <2> QED
    BY <2>1
<1>3. ASSUME NEW n \in Nat, n \in Good
      PROVE  n + 1 \in Good
  <2> DEFINE k == i + n
  <2> SUFFICES ASSUME i + (n + 1) <= j
               PROVE  OffsetOf(i + (n + 1)) = OffsetOf(i)
    OBVIOUS
  <2>1. k \in 1 .. Len(stmts) /\ k \in i .. j - 1 /\ i + (n + 1) = k + 1 /\ k <= j
    BY <1>1
  <2>2. OffsetOf(k) = OffsetOf(i)
    BY <1>3, <2>1
  <2> HIDE DEF k
  <2>3. OffsetOf(k + 1) = OffsetOf(k)
    BY <1>1, <2>1, OneStatement
  <2> QED
    BY <2>1, <2>2, <2>3
<1>4. Nat \subseteq Good
  <2> HIDE DEF Good
  <2> QED
    BY <1>2, <1>3, Induction
<1> DEFINE n == j - i
<1>5. n \in Nat /\ i + n = j
  BY <1>1
<1>6. OffsetOf(i + n) = OffsetOf(i)
  <2> HIDE DEF n
  <2> QED
    BY <1>1, <1>4, <1>5
<1> QED
  BY <1>5, <1>6 DEF j

(* An offset where an instruction begins, or the end, is that of no other. *)
LEMMA StatementAtTarget ==
    ASSUME Encoded, NEW j \in Targets
    PROVE  StatementAt(OffsetOf(j)) = j
<1> DEFINE here == {i \in 1 .. Len(stmts) :
                      OffsetOf(i) = OffsetOf(j) /\ EncodeStmt(stmts[i]) # << >>}
<1>1. /\ Len(stmts) \in Nat /\ j \in 1 .. Len(stmts) + 1
      /\ OffsetOf(Len(stmts) + 1) = Len(code)
  BY ProgramTyped DEF Encoded, LaidOut, Targets
<1>2. CASE j = Len(stmts) + 1
  BY <1>1, <1>2 DEF StatementAt
<1>3. CASE j # Len(stmts) + 1
  <2>1. j \in 1 .. Len(stmts) /\ IsInstruction(stmts[j])
    BY <1>1, <1>3 DEF Targets
  <2>2. /\ OffsetOf(j) < OffsetOf(j + 1) /\ stmts[j] \in Statement /\ Accepted(stmts[j])
        /\ OffsetOf(j) \in Nat /\ OffsetOf(j + 1) \in Nat
    BY <2>1, OneStatement
  <2>3. EncodeStmt(stmts[j]) # << >>
    BY <2>1, <2>2, StmtLength
  <2>4. OffsetOf(j) # Len(code)
    <3>1. j + 1 \in 1 .. Len(stmts) + 1 /\ Len(stmts) + 1 \in j + 1 .. Len(stmts) + 1
      BY <1>1, <2>1
    <3>2. OffsetOf(j + 1) <= OffsetOf(Len(stmts) + 1) /\ OffsetOf(Len(stmts) + 1) \in Nat
      BY <3>1, OffsetsGrow
    <3> QED
      BY <1>1, <2>2, <3>2
  <2>5. ASSUME NEW i \in here
        PROVE  i = j
    <3>1. /\ i \in 1 .. Len(stmts) /\ OffsetOf(i) = OffsetOf(j)
          /\ EncodeStmt(stmts[i]) # << >>
      OBVIOUS
    <3> HIDE DEF here
    <3>2. /\ stmts[i] \in Statement /\ Accepted(stmts[i])
          /\ OffsetOf(i) \in Nat /\ OffsetOf(i + 1) \in Nat
          /\ IsInstruction(stmts[i]) => OffsetOf(i) < OffsetOf(i + 1)
      BY <3>1, OneStatement
    <3>3. OffsetOf(i) < OffsetOf(i + 1)
      BY <3>1, <3>2, StmtLength
    <3>4. ~ i < j
      <4> SUFFICES ASSUME i < j
                   PROVE  FALSE
        OBVIOUS
      <4>1. i + 1 \in 1 .. Len(stmts) + 1 /\ j \in i + 1 .. Len(stmts) + 1
        BY <1>1, <2>1, <3>1
      <4>2. OffsetOf(i + 1) <= OffsetOf(j)
        BY <4>1, OffsetsGrow
      <4> QED
        BY <2>2, <3>1, <3>2, <3>3, <4>2
    <3>5. ~ j < i
      <4> SUFFICES ASSUME j < i
                   PROVE  FALSE
        OBVIOUS
      <4>1. j + 1 \in 1 .. Len(stmts) + 1 /\ i \in j + 1 .. Len(stmts) + 1
        BY <1>1, <2>1, <3>1
      <4>2. OffsetOf(j + 1) <= OffsetOf(i)
        BY <4>1, OffsetsGrow
      <4> QED
        BY <2>2, <3>1, <3>2, <4>2
    <3> QED
      BY <1>1, <2>1, <3>1, <3>4, <3>5
  <2>6. j \in here
    BY <2>1, <2>3
  <2>7. StatementAt(OffsetOf(j)) = IF here = {} THEN 0 ELSE CHOOSE i \in here : TRUE
    BY <2>4 DEF StatementAt
  <2> HIDE DEF here
  <2> QED
    BY <2>5, <2>6, <2>7
<1> QED
  BY <1>2, <1>3

(* No code is too long for its file.                                       *)
LEMMA CodeFits ==
    ASSUME Encoded, NEW o \in 0 .. Len(code)
    PROVE  Fits(code, o) /\ o \in Nat /\ code \in Seq(Byte)
<1>1. stmts \in Programs /\ code \in Seq(Byte) /\ Len(stmts) \in Nat /\ Len(code) \in Nat
  BY ProgramTyped DEF Encoded, TypeOK
<1>2. OffsetOf(1) = 0 /\ OffsetOf(Len(stmts) + 1) = Len(code)
  BY OffsetStep DEF Encoded, LaidOut
<1> DEFINE last == Len(stmts) + 1
<1>3. 1 \in 1 .. Len(stmts) + 1 /\ last \in 1 .. Len(stmts) + 1
  BY <1>1
<1>4. OffsetOf(last) <= OffsetOf(1) + 6 * (last - 1)
  <2> HIDE DEF last
  <2> QED
    BY <1>3, OffsetsGrow
<1> DEFINE n == Len(stmts)
           len == Len(code)
<1>5. n \in Nat /\ len \in Nat /\ o \in Nat /\ o <= len
  BY <1>1
<1>6. n <= MaxStatements
  BY <1>1, ProgramLengthAssumption
<1>7. len <= 6 * n
  <2>1. Len(code) <= 0 + 6 * (Len(stmts) + 1 - 1)
    BY <1>2, <1>4
  <2> QED
    BY <1>1, <2>1
<1> HIDE DEF n, len
<1>8. 120 + len < 65536 * 65536 /\ 4194304 + 120 + o < 65536 * 65536
  BY <1>5, <1>6, <1>7, SMT DEF MaxStatements
<1>9. TotalSize(code) = 120 + len /\ EntryAddress(o) = 4194304 + 120 + o
  BY <1>5, SMT DEF TotalSize, EntryAddress, EHDR_SIZE, PHDR_SIZE, BASE_ADDR, len
<1>10. TotalSize(code) \in Word /\ EntryAddress(o) \in Word
  BY <1>5, <1>8, <1>9 DEF Word
<1> QED
  BY <1>1, <1>5, <1>10 DEF Fits

(* What stands in the code stands in the file, behind the headers.         *)
LEMMA HeldInFile ==
    ASSUME NEW c \in Seq(Byte), NEW o \in Nat, Fits(c, o), NEW at \in Nat,
           NEW bytes \in Seq(Byte), Holds(c, at, bytes)
    PROVE  Holds(File(c, o), Headers + at, bytes)
<1> DEFINE file == File(c, o)
<1>1. /\ Holds(file, 120, c) /\ Len(file) = 120 + Len(c)
      /\ Len(c) \in Nat /\ Len(bytes) \in Nat /\ Headers = 120
  BY BuiltFile DEF Headers, EHDR_SIZE, PHDR_SIZE
<1> HIDE DEF file
<1>2. at + Len(bytes) <= Len(c) /\ \A i \in 1 .. Len(bytes) : c[at + i] = bytes[i]
  BY DEF Holds
<1>3. \A i \in 1 .. Len(c) : file[120 + i] = c[i]
  BY <1>1 DEF Holds
<1>4. Headers + at + Len(bytes) <= Len(file)
  BY <1>1, <1>2
<1>5. ASSUME NEW i \in 1 .. Len(bytes)
      PROVE  file[Headers + at + i] = bytes[i]
  <2>1. at + i \in 1 .. Len(c) /\ Headers + at + i = 120 + (at + i)
    BY <1>1, <1>2
  <2> QED
    BY <1>2, <1>3, <2>1
<1> QED
  BY <1>4, <1>5 DEF Holds, file

-----------------------------------------------------------------------------
(* The process.                                                            *)

(* The address of the bytes of statement i.                                *)
Address(i) == BASE_ADDR + Headers + OffsetOf(i)

(* The memory is the file that was built of the whole program, and the     *)
(* instruction pointer is at a statement that does something or at the end.*)
ProcessInv ==
    /\ run \in {"compile", "running", "exited", "lost"}
    /\ regs = [r \in Register |-> regs[r]]
    /\ run = "compile" => regs = InitialRegs
    /\ run # "compile" => /\ pc = "done"
                          /\ image = BuildElf(code, entryOffset)
                          /\ memory = File(code, entryOffset) /\ base = BASE_ADDR
                          /\ \E i \in Targets : ip = Address(i)

MachineInv == IInv /\ LayoutInv /\ ProcessInv

(* A finished program is encoded and starts at its entry.                  *)
LEMMA Finished ==
    ASSUME IInv, LayoutInv, pc = "done"
    PROVE  /\ Encoded /\ entryOffset \in 0 .. Len(code)
           /\ Fits(code, entryOffset) /\ entryOffset \in Nat /\ code \in Seq(Byte)
<1>1. TypeOK /\ LaidOut(Len(stmts)) /\ entryOffset \in 0 .. Len(code)
  BY DEF IInv, LayoutInv, CodeLaidOut, Passed, TypeOK
<1>2. Encoded
  BY <1>1 DEF Encoded
<1> QED
  BY <1>1, <1>2, CodeFits

(* The headers and the offset can be taken apart again.                    *)
LEMMA AddressOf ==
    ASSUME Encoded, NEW i \in Targets
    PROVE  /\ OffsetOf(i) \in Nat /\ Address(i) \in Nat
           /\ Address(i) - BASE_ADDR - EHDR_SIZE - PHDR_SIZE = OffsetOf(i)
           /\ Address(i) - BASE_ADDR = Headers + OffsetOf(i)
           /\ ~ Address(i) < BASE_ADDR
           /\ OffsetOf(i) <= Len(code)
<1>1. Len(stmts) \in Nat /\ Len(code) \in Nat /\ OffsetOf(Len(stmts) + 1) = Len(code)
  BY ProgramTyped DEF Encoded, TypeOK, LaidOut
<1>2. i \in 1 .. Len(stmts) + 1 /\ Len(stmts) + 1 \in i .. Len(stmts) + 1
  BY <1>1 DEF Targets
<1>3. OffsetOf(i) \in Nat /\ OffsetOf(i) <= OffsetOf(Len(stmts) + 1)
  BY <1>2, OffsetsGrow
<1> DEFINE o == OffsetOf(i)
<1>4. o \in Nat /\ o <= Len(code)
  BY <1>1, <1>3
<1> HIDE DEF o
<1>5. /\ 4194304 + 120 + o \in Nat /\ 4194304 + 120 + o - 4194304 - 64 - 56 = o
      /\ 4194304 + 120 + o - 4194304 = 120 + o /\ ~ 4194304 + 120 + o < 4194304
  BY <1>4
<1> QED
  BY <1>4, <1>5 DEF Address, Headers, BASE_ADDR, EHDR_SIZE, PHDR_SIZE, o

(* The states of the abstract program.                                     *)
Status == IF pc = "failed" THEN "refused" ELSE IF run = "compile" THEN "new" ELSE run
At == IF run = "compile" THEN 0 ELSE StatementAt(ip - BASE_ADDR - EHDR_SIZE - PHDR_SIZE)

(* The instruction pointer stands for the statement it is at.              *)
LEMMA PointsTo ==
    ASSUME Encoded, run # "compile", NEW i \in Targets, ip = Address(i)
    PROVE  At = i
<1>1. ip - BASE_ADDR - EHDR_SIZE - PHDR_SIZE = OffsetOf(i)
  BY AddressOf
<1>2. StatementAt(OffsetOf(i)) = i
  BY StatementAtTarget
<1> QED
  BY <1>1, <1>2 DEF At

(* The processor finds the bytes of that statement, or the end of them.    *)
LEMMA Fetches ==
    ASSUME MachineInv, run # "compile", NEW i \in Targets, ip = Address(i)
    PROVE  /\ i = Len(stmts) + 1 => Fetched = Undecodable
           /\ i # Len(stmts) + 1 =>
                /\ i \in 1 .. Len(stmts) /\ stmts[i] \in Statement
                /\ IsInstruction(stmts[i])
                /\ ip + Fetched.len = Address(i + 1)
                /\ Effect(Fetched) = Meaning(stmts[i])
<1> DEFINE file == File(code, entryOffset)
<1>1. pc = "done" /\ memory = file /\ base = BASE_ADDR
  BY DEF MachineInv, ProcessInv
<1>2. /\ Encoded /\ Fits(code, entryOffset) /\ entryOffset \in Nat /\ code \in Seq(Byte)
  BY <1>1, Finished DEF MachineInv
<1>3. /\ OffsetOf(i) \in Nat /\ ip - base = Headers + OffsetOf(i) /\ ~ ip < base
      /\ Address(i) \in Nat
  BY <1>1, <1>2, AddressOf
<1>4. /\ file \in Seq(Byte) /\ Len(file) = 120 + Len(code) /\ Len(code) \in Nat
      /\ Headers = 120
  BY <1>2, BuiltFile DEF Headers, EHDR_SIZE, PHDR_SIZE
<1>5. Fetched = Decode(file, Headers + OffsetOf(i))
  BY <1>1, <1>3 DEF Fetched
<1>6. Len(stmts) \in Nat /\ OffsetOf(Len(stmts) + 1) = Len(code)
  BY <1>2, ProgramTyped DEF Encoded, LaidOut
<1>7. CASE i = Len(stmts) + 1
  <2>1. Headers + OffsetOf(i) >= Len(file)
    BY <1>4, <1>6, <1>7
  <2>2. Fetched = Undecodable
    <3> HIDE DEF file
    <3> QED
      BY <1>5, <2>1 DEF Decode
  <2> QED
    BY <1>7, <2>2
<1>8. CASE i # Len(stmts) + 1
  <2>1. i \in 1 .. Len(stmts) /\ IsInstruction(stmts[i])
    BY <1>6, <1>8 DEF Targets
  <2>2. /\ stmts[i] \in Statement /\ Accepted(stmts[i])
        /\ Holds(code, OffsetOf(i), EncodeStmt(stmts[i]))
        /\ OffsetOf(i + 1) = OffsetOf(i) + Len(EncodeStmt(stmts[i]))
    BY <1>2, <2>1, OneStatement
  <2>3. EncodeStmt(stmts[i]) \in Seq(Byte) /\ Len(EncodeStmt(stmts[i])) \in Nat
    BY <2>2, StmtLength
  <2> DEFINE at == Headers + OffsetOf(i)
  <2>4. Holds(file, at, EncodeStmt(stmts[i])) /\ at \in Nat
    BY <1>2, <1>3, <1>4, <2>2, <2>3, HeldInFile
  <2>5. /\ Decode(file, at).len = Len(EncodeStmt(stmts[i]))
        /\ Effect(Decode(file, at)) = Meaning(stmts[i])
    <3> HIDE DEF at, file
    <3> QED
      BY <1>4, <2>1, <2>2, <2>4, StmtDecodes DEF Accepted
  <2> DEFINE len == Len(EncodeStmt(stmts[i]))
             o == OffsetOf(i)
  <2>6. Fetched.len = len /\ len \in Nat /\ o \in Nat /\ OffsetOf(i + 1) = o + len
    BY <1>3, <1>5, <2>2, <2>3, <2>5
  <2>7. ip = 4194304 + 120 + o
    BY <1>4 DEF Address, BASE_ADDR
  <2> HIDE DEF len, o
  <2>8. ip + Fetched.len = 4194304 + 120 + (o + len)
    BY <2>6, <2>7
  <2>9. ip + Fetched.len = Address(i + 1)
    BY <1>4, <2>6, <2>8 DEF Address, BASE_ADDR
  <2> QED
    BY <1>5, <1>8, <2>1, <2>2, <2>5, <2>9
<1> QED
  BY <1>7, <1>8

(* What is between two statements does not count.                          *)
LEMMA AddressOfFollowing ==
    ASSUME Encoded, NEW i \in 1 .. Len(stmts) + 1
    PROVE  Following(i) \in Targets /\ Address(Following(i)) = Address(i)
BY NothingBetween, FollowingIs DEF Encoded, Address

(* What an instruction does says which statement it is.                    *)
LEMMA MeaningOf ==
    ASSUME NEW stmt \in Statement, IsInstruction(stmt), NEW ins, Effect(ins) = Meaning(stmt)
    PROVE  /\ ins.op = "syscall" => stmt.kind = "syscall"
           /\ ins.op = "mov_reg" =>
                /\ stmt.kind = "move" /\ stmt.src.kind = "identifier"
                /\ ins.dest = StrToRegister(stmt.dest.name)
                /\ ins.src = StrToRegister(stmt.src.name)
           /\ ins.op = "mov_imm" =>
                /\ stmt.kind = "move" /\ stmt.src.kind = "number"
                /\ ins.dest = StrToRegister(stmt.dest.name)
                /\ ins.imm = stmt.src.number
           /\ ins.op # "undecodable"
<1>1. stmt.kind \in {"move", "syscall"}
  BY DEF IsInstruction
<1>2. stmt.kind = "move" => stmt.src.kind \in {"identifier", "number"}
  BY DEF Statement, Operand
<1> DEFINE m == Meaning(stmt)
<1>3. /\ stmt.kind = "syscall" => m = <<"syscall">>
      /\ stmt.kind = "move" /\ stmt.src.kind = "identifier" =>
           m = <<"mov_reg", StrToRegister(stmt.dest.name), StrToRegister(stmt.src.name)>>
      /\ stmt.kind = "move" /\ stmt.src.kind = "number" =>
           m = <<"mov_imm", StrToRegister(stmt.dest.name), stmt.src.number>>
  BY DEF Meaning
<1>4. /\ ins.op = "syscall" => m = <<"syscall">>
      /\ ins.op = "mov_reg" => m = <<"mov_reg", ins.dest, ins.src>>
      /\ ins.op = "mov_imm" => m = <<"mov_imm", ins.dest, ins.imm>>
      /\ ins.op = "undecodable" => m = <<"undecodable">>
  BY DEF Effect
<1> HIDE DEF m
<1> QED
  BY <1>1, <1>2, <1>3, <1>4

-----------------------------------------------------------------------------
(* What the code generator accepts is what is valid.                       *)

(* A move has no fault when it goes from a register or a number that fits  *)
(* to a register.                                                          *)
LEMMA NoFault ==
    ASSUME NEW stmt \in Statement, stmt.kind = "move"
    PROVE  MoveFaults(stmt) = << >> <=>
              /\ Source!NamesRegister(stmt.dest)
              /\ \/ Source!NamesRegister(stmt.src)
                 \/ stmt.src.kind = "number" /\ stmt.src.number <= ImmMax
<1>1. /\ stmt.src \in Operand /\ stmt.dest \in Operand
      /\ stmt.src.kind \in {"identifier", "number"}
  BY DEF Statement, Operand
<1>2. ASSUME NEW operand \in Operand
      PROVE  /\ RegisterFaults(operand) \in Seq(Fault)
             /\ RegisterFaults(operand) = << >> <=> Source!NamesRegister(operand)
  <2>1. RegisterFaults(operand) \in Seq(Fault)
    BY RegisterFaultsType
  <2>2. <<"expected a register">> # << >> /\ <<"unknown register">> # << >>
    OBVIOUS
  <2>3. Source!IsRegister(operand.name) <=> IsRegister(operand.name)
    BY DEF IsRegister, Register, registers, Source!IsRegister, Source!Register, Source!registers
  <2> QED
    BY <2>1, <2>2, <2>3 DEF RegisterFaults, Source!NamesRegister
<1>3. /\ ImmediateFaults(stmt.src) \in Seq(Fault)
      /\ ImmediateFaults(stmt.src) = << >> <=> ~ stmt.src.number > ImmMax
  <2>1. /\ <<"immediate too large">> \in Seq(Fault) /\ << >> \in Seq(Fault)
        /\ <<"immediate too large">> # << >>
    BY Singleton DEF Fault
  <2> QED
    BY <2>1 DEF ImmediateFaults
<1>4. stmt.src.number > ImmMax <=> ~ stmt.src.number <= ImmMax
  BY <1>1, ImmAssumption DEF Operand
<1> DEFINE src == RegisterFaults(stmt.src)
           dest == RegisterFaults(stmt.dest)
           imm == ImmediateFaults(stmt.src)
<1>5. src \in Seq(Fault) /\ dest \in Seq(Fault) /\ imm \in Seq(Fault)
  BY <1>1, <1>2, <1>3
<1>6. /\ src \o dest = << >> <=> src = << >> /\ dest = << >>
      /\ dest \o imm = << >> <=> dest = << >> /\ imm = << >>
  <2> HIDE DEF src, dest, imm
  <2>1. << >> \o << >> = << >>
    OBVIOUS
  <2> QED
    BY <1>5, <2>1, ConcatEmpty
<1>7. CASE stmt.src.kind = "identifier"
  BY <1>1, <1>2, <1>6, <1>7 DEF MoveFaults
<1>8. CASE stmt.src.kind = "number"
  <2>1. ~ Source!NamesRegister(stmt.src)
    BY <1>8 DEF Source!NamesRegister
  <2> QED
    BY <1>1, <1>2, <1>3, <1>4, <1>6, <1>8, <2>1 DEF MoveFaults
<1> QED
  BY <1>1, <1>7, <1>8

(* The labels, entries and moves of the two specifications are the same.   *)
LEMMA SameIndices ==
    /\ Source!Indices("label") = Labels /\ Source!Indices("entry") = Entries
    /\ Source!Indices("move") = Stmts("move", stmts)
BY DEF Source!Indices, Labels, Entries, Stmts

(* Without an error of the first pass labels differ and moves can be       *)
(* encoded.                                                                *)
LEMMA FirstPassSound ==
    ASSUME TypeOK
    PROVE  FirstPassErrors = {} <=>
              /\ \A l, m \in Labels : stmts[l].name = stmts[m].name => l = m
              /\ \A i \in Stmts("move", stmts) : MoveFaults(stmts[i]) = << >>
<1> DEFINE Again == {j \in Labels : \E k \in Labels : k < j /\ stmts[k].name = stmts[j].name}
           Faulty == {j \in Stmts("move", stmts) : MoveFaults(stmts[j]) # << >>}
<1>1. FirstPassErrors = {[what |-> "duplicate label", at |-> i] : i \in Again}
                        \cup {[what |-> MoveFaults(stmts[i])[1], at |-> i] : i \in Faulty}
  BY DEF FirstPassErrors
<1>2. FirstPassErrors = {} <=> Again = {} /\ Faulty = {}
  <2> HIDE DEF Again, Faulty
  <2> QED
    BY <1>1
<1>3. Labels \subseteq Nat
  BY ProgramTyped
<1>4. Again = {} <=> \A l, m \in Labels : stmts[l].name = stmts[m].name => l = m
  <2>1. ASSUME Again = {}, NEW l \in Labels, NEW m \in Labels, stmts[l].name = stmts[m].name
        PROVE  l = m
    <3>1. ~ l < m /\ ~ m < l
      BY <2>1
    <3>2. l \in Nat /\ m \in Nat
      BY <1>3
    <3> QED
      BY <3>1, <3>2
  <2>2. ASSUME \A l, m \in Labels : stmts[l].name = stmts[m].name => l = m, NEW j \in Again
        PROVE  FALSE
    <3>1. PICK k \in Labels : k < j /\ stmts[k].name = stmts[j].name
      OBVIOUS
    <3>2. j \in Labels /\ k \in Nat /\ j \in Nat
      BY <1>3
    <3>3. k = j
      BY <2>2, <3>1, <3>2
    <3> QED
      BY <3>1, <3>2, <3>3
  <2> QED
    BY <2>1, <2>2
<1>5. Faulty = {} <=> \A i \in Stmts("move", stmts) : MoveFaults(stmts[i]) = << >>
  OBVIOUS
<1> QED
  BY <1>2, <1>4, <1>5

(* Validity, in the code generator's terms.                                *)
LEMMA ValidIs ==
    ASSUME TypeOK
    PROVE  Source!Valid <=>
              /\ FirstPassErrors = {}
              /\ \E e \in Entries : /\ Entries = {e}
                                    /\ \E l \in Labels : stmts[l].name = stmts[e].name
<1> DEFINE Moves == Stmts("move", stmts)
           Sound == \A i \in Moves :
                      /\ Source!NamesRegister(stmts[i].dest)
                      /\ \/ Source!NamesRegister(stmts[i].src)
                         \/ stmts[i].src.kind = "number" /\ stmts[i].src.number <= ImmMax
           Entered == \E e \in Entries : /\ Entries = {e}
                                         /\ \E l \in Labels : stmts[l].name = stmts[e].name
           Distinct == \A l, m \in Labels : stmts[l].name = stmts[m].name => l = m
<1>1. Source!Valid <=> Entered /\ Distinct /\ Sound
  BY SameIndices DEF Source!Valid
<1>2. ASSUME NEW i \in Moves
      PROVE  MoveFaults(stmts[i]) = << >> <=>
                /\ Source!NamesRegister(stmts[i].dest)
                /\ \/ Source!NamesRegister(stmts[i].src)
                   \/ stmts[i].src.kind = "number" /\ stmts[i].src.number <= ImmMax
  <2>1. stmts \in Seq(Statement) /\ i \in 1 .. Len(stmts) /\ stmts[i].kind = "move"
    BY ProgramTyped DEF Stmts
  <2>2. stmts[i] \in Statement
    BY <2>1
  <2> QED
    BY <2>1, <2>2, NoFault
<1>3. Sound <=> \A i \in Moves : MoveFaults(stmts[i]) = << >>
  BY <1>2
<1>4. FirstPassErrors = {} <=> Distinct /\ \A i \in Moves : MoveFaults(stmts[i]) = << >>
  BY FirstPassSound
<1> HIDE DEF Sound, Distinct, Entered, Moves
<1>5. Source!Valid <=> FirstPassErrors = {} /\ Entered
  BY <1>1, <1>3, <1>4
<1> QED
  BY <1>5 DEF Entered

(* What has been compiled is valid, and what has an error is not.          *)
LEMMA CompiledIsValid ==
    ASSUME IInv, pc = "done"
    PROVE  /\ Source!Valid /\ Entries = {entry}
           /\ \E l \in Labels : stmts[l].name = stmts[entry].name
<1>1. TypeOK /\ FirstPassErrors = {} /\ Entries = {entry}
  BY DEF IInv, NoErrorPassed, EntryFound
<1>2. \E l \in Labels : stmts[l].name = stmts[entry].name
  BY DEF IInv, EntryFound
<1> QED
  BY <1>1, <1>2, ValidIs

(* A program with an error is not valid.                                   *)
LEMMA WrongIsNotValid ==
    ASSUME TypeOK, FirstErrors # {}
    PROVE  ~ Source!Valid
<1> SUFFICES ASSUME Source!Valid
             PROVE  FirstErrors = {}
  OBVIOUS
<1>1. FirstPassErrors = {}
  BY ValidIs
<1>2. PICK e \in Entries : Entries = {e} /\ \E l \in Labels : stmts[l].name = stmts[e].name
  BY ValidIs
<1>3. e \in Nat
  BY ProgramTyped
<1>4. LaterEntries = {}
  BY <1>2, <1>3 DEF LaterEntries
<1>5. FirstErrors = {[what |-> "undefined label", at |-> i] :
                       i \in {j \in Entries : \A l \in Labels : stmts[l].name # stmts[j].name}}
  BY <1>1, <1>2, <1>4 DEF FirstErrors
<1>6. {j \in Entries : \A l \in Labels : stmts[l].name # stmts[j].name} = {}
  BY <1>2
<1> QED
  BY <1>5, <1>6

-----------------------------------------------------------------------------
(* The steps of the machine.                                               *)

(* What belongs to a statement belongs to the program.                     *)
LEMMA StatementAtFixed ==
    ASSUME stmts' = stmts, code' = code, NEW o
    PROVE  StatementAt(o)' = StatementAt(o)
<1> DEFINE Here == {i \in 1 .. Len(stmts) : OffsetOf(i) = o /\ EncodeStmt(stmts[i]) # << >>}
           Chosen == IF Here = {} THEN 0 ELSE CHOOSE i \in Here : TRUE
<1>1. ASSUME NEW i
      PROVE  OffsetOf(i)' = OffsetOf(i)
  BY OffsetsFixed
<1>2. Here' = Here
  BY <1>1
<1>3. Chosen' = Chosen
  <2> HIDE DEF Here
  <2> QED
    BY <1>2
<1>4. StatementAt(o) = IF o = Len(code) THEN Len(stmts) + 1 ELSE Chosen
  BY DEF StatementAt
<1>5. StatementAt(o)' = IF o = Len(code)' THEN Len(stmts)' + 1 ELSE Chosen'
  BY DEF StatementAt
<1> HIDE DEF Chosen
<1> QED
  BY <1>3, <1>4, <1>5

(* Where the instruction pointer stands after a step.                      *)
LEMMA PointsToNext ==
    ASSUME Encoded, stmts' = stmts, code' = code, run' # "compile",
           NEW i \in Targets, ip' = Address(i)
    PROVE  At' = i
<1>1. PICK o : o = OffsetOf(i)
  OBVIOUS
<1>2. ip' - BASE_ADDR - EHDR_SIZE - PHDR_SIZE = o
  BY <1>1, AddressOf
<1>3. StatementAt(o)' = i
  BY <1>1, StatementAtFixed, StatementAtTarget
<1>4. At' = StatementAt(ip - BASE_ADDR - EHDR_SIZE - PHDR_SIZE)'
  BY DEF At
<1> DEFINE x == ip - BASE_ADDR - EHDR_SIZE - PHDR_SIZE
           HereX == {k \in 1 .. Len(stmts) : OffsetOf(k) = x /\ EncodeStmt(stmts[k]) # << >>}
           HereO == {k \in 1 .. Len(stmts) : OffsetOf(k) = o /\ EncodeStmt(stmts[k]) # << >>}
           ChosenX == IF HereX = {} THEN 0 ELSE CHOOSE k \in HereX : TRUE
           ChosenO == IF HereO = {} THEN 0 ELSE CHOOSE k \in HereO : TRUE
<1>5. At' = StatementAt(o)'
  <2>1. x' = o
    BY <1>2
  <2>2. HereX' = HereO'
    <3> HIDE DEF x
    <3> QED
      BY <2>1
  <2>3. ChosenX' = ChosenO'
    <3> HIDE DEF HereX, HereO
    <3> QED
      BY <2>2
  <2>4. StatementAt(x)' = IF x' = Len(code)' THEN Len(stmts)' + 1 ELSE ChosenX'
    BY DEF StatementAt
  <2>5. StatementAt(o)' = IF o = Len(code)' THEN Len(stmts)' + 1 ELSE ChosenO'
    BY DEF StatementAt
  <2> HIDE DEF ChosenX, ChosenO
  <2> QED
    BY <1>4, <2>1, <2>3, <2>4, <2>5
<1> QED
  BY <1>3, <1>5

(* A step that leaves the program and its file alone.                      *)
LEMMA ProcessKept ==
    ASSUME UNCHANGED vars, pc = "done", run' \in {"running", "exited", "lost"},
           regs' = [r \in Register |-> regs'[r]],
           image' = BuildElf(code, entryOffset), memory' = File(code, entryOffset),
           base' = BASE_ADDR, NEW i \in Targets, ip' = Address(i)
    PROVE  ProcessInv'
<1>1. stmts' = stmts /\ pc' = pc /\ code' = code /\ entryOffset' = entryOffset
  BY DEF vars
<1>2. Targets' = Targets
  BY <1>1 DEF Targets
<1>3. PICK j : j = i
  OBVIOUS
<1>4. Address(j)' = Address(j)
  <2>1. OffsetOf(j)' = OffsetOf(j)
    BY <1>1, OffsetsFixed
  <2> QED
    BY <2>1 DEF Address
<1>5. \E k \in Targets' : ip' = Address(k)'
  BY <1>2, <1>3, <1>4
<1> QED
  BY <1>1, <1>5 DEF ProcessInv

(* The registers of the two specifications are the same.                   *)
LEMMA SameRegisters ==
    /\ Source!Register = Register
    /\ \A name : Source!StrToRegister(name) = StrToRegister(name)
BY DEF Source!Register, Register, Source!StrToRegister, StrToRegister, Source!registers, registers

(* The initial states.                                                     *)
LEMMA MachineBegins ==
    ASSUME MachineInit
    PROVE  MachineInv /\ Source!Init
<1>1. /\ Init /\ run = "compile" /\ regs = InitialRegs /\ pc = "encode" /\ stmts \in Programs
  BY DEF MachineInit, Init
<1>2. IInv /\ LayoutInv
  BY <1>1, InitInvariant, InitLayout
<1>3. regs = [r \in Register |-> regs[r]]
  BY <1>1 DEF InitialRegs
<1>4. ProcessInv
  BY <1>1, <1>3 DEF ProcessInv
<1>5. Source!Init
  BY <1>1 DEF Source!Init
<1> QED
  BY <1>2, <1>4, <1>5 DEF MachineInv

(* A step of the code generator is none of the program, except the last    *)
(* one when it refuses it.                                                 *)
LEMMA CompileStep ==
    ASSUME MachineInv, Compile
    PROVE  MachineInv' /\ [Source!Next]_(Source!vars)
<1>1. /\ IInv /\ LayoutInv /\ ProcessInv /\ Next
      /\ run' = run /\ image' = image /\ base' = base /\ memory' = memory
      /\ ip' = ip /\ regs' = regs
  BY DEF MachineInv, Compile, process
<1>2. /\ stmts' = stmts /\ pc # "done" /\ pc # "failed"
      /\ pc' = "failed" => error' \in FirstErrors'
  <2>1. IInv'
    BY <1>1, NextKeeps
  <2>2. stmts' = stmts /\ pc # "done" /\ pc # "failed"
    BY <1>1 DEF Next, DuplicateLabel, DefineLabel, SkipEntry, RefuseOperand, EmitInstruction,
       EndOfFirstPass, SkipNonEntry, FoundEntry, MultipleEntries, NoEntry, EndOfSecondPass,
       UndefinedEntry, Return, CodegenError, Encoding, FindingEntry
  <2> QED
    BY <2>1, <2>2 DEF IInv
<1>3. run = "compile" /\ regs = InitialRegs /\ regs = [r \in Register |-> regs[r]]
  BY <1>1, <1>2 DEF ProcessInv
<1>4. MachineInv'
  <2>1. IInv' /\ LayoutInv'
    BY <1>1, NextKeeps, NextLayout
  <2>2. InitialRegs' = InitialRegs
    BY DEF InitialRegs
  <2>3. ProcessInv'
    BY <1>1, <1>3, <2>2 DEF ProcessInv
  <2> QED
    BY <2>1, <2>3 DEF MachineInv
<1>5. Status = "new" /\ At = 0 /\ At' = 0
  BY <1>1, <1>2, <1>3 DEF Status, At
<1>6. CASE pc' = "failed"
  <2>1. FirstErrors # {} /\ TypeOK
    BY <1>1, <1>2, <1>6, ProgramFixed DEF IInv
  <2>2. ~ Source!Valid
    BY <2>1, WrongIsNotValid
  <2>3. Status' = "refused"
    BY <1>6 DEF Status
  <2>4. Source!Refuse
    BY <1>1, <1>2, <1>5, <2>2, <2>3 DEF Source!Refuse, Status, At
  <2> QED
    BY <1>4, <2>4 DEF Source!Next
<1>7. CASE pc' # "failed"
  <2>1. Status' = "new"
    BY <1>1, <1>3, <1>7 DEF Status
  <2>2. UNCHANGED Source!vars
    BY <1>1, <1>2, <1>5, <2>1 DEF Source!vars, Status, At
  <2> QED
    BY <1>4, <2>2
<1> QED
  BY <1>6, <1>7

(* Loading the file starts the program at its entry.                       *)
LEMMA LoadStep ==
    ASSUME MachineInv, Load
    PROVE  ProcessInv' /\ Source!Start
<1> DEFINE file == File(code, entryOffset)
<1>1. /\ IInv /\ LayoutInv /\ ProcessInv /\ run = "compile" /\ pc = "done"
      /\ image' = BuildElf(code, entryOffset)
      /\ UNCHANGED vars /\ regs' = regs
  BY DEF MachineInv, Load
<1>2. /\ stmts' = stmts /\ pc' = pc /\ code' = code /\ entryOffset' = entryOffset
  BY <1>1 DEF vars
<1>3. /\ Encoded /\ Fits(code, entryOffset) /\ entryOffset \in Nat /\ code \in Seq(Byte)
  BY <1>1, Finished
<1>4. image'.data = file
  BY <1>1, <1>3, BuiltFile
<1>5. /\ Entry(file) = EntryAddress(entryOffset) /\ Segment(file).vaddr = BASE_ADDR
      /\ Mapped(file) = file /\ Loadable(file)
  BY <1>3, LoadedFile
<1>6. /\ base' = BASE_ADDR /\ memory' = file /\ ip' = EntryAddress(entryOffset)
      /\ run' = "running"
  BY <1>4, <1>5 DEF Load
<1>7. Source!Valid /\ Entries = {entry} /\ TypeOK /\ EntryAtLabel
  BY <1>1, CompiledIsValid DEF MachineInv, IInv, LayoutInv
<1>8. PICK l \in Labels : stmts[l].name = stmts[entry].name
  BY <1>1, CompiledIsValid DEF MachineInv
<1>9. entryOffset = OffsetOf(l)
  BY <1>1, <1>7, <1>8 DEF EntryAtLabel
<1>10. l \in 1 .. Len(stmts) + 1
  BY <1>7, ProgramTyped
<1>11. Following(l) \in Targets /\ Address(Following(l)) = Address(l)
  BY <1>3, <1>10, AddressOfFollowing
<1>12. ip' = Address(Following(l))
  <2>1. EntryAddress(entryOffset) = BASE_ADDR + (EHDR_SIZE + PHDR_SIZE) + OffsetOf(l)
    BY <1>3, <1>9 DEF EntryAddress, BASE_ADDR, EHDR_SIZE, PHDR_SIZE
  <2> QED
    BY <1>6, <1>11, <2>1 DEF Address, Headers
<1>13. At' = Following(l)
  BY <1>2, <1>3, <1>6, <1>11, <1>12, PointsToNext
<1>14. regs' = [r \in Register |-> regs'[r]]
  BY <1>1 DEF ProcessInv
<1>15. ProcessInv'
  BY <1>1, <1>6, <1>11, <1>12, <1>14, ProcessKept
<1>16. Status = "new" /\ Status' = "running"
  BY <1>1, <1>2, <1>6 DEF Status
<1>17. entry \in Entries /\ l \in Source!Indices("label") /\ entry \in Source!Indices("entry")
  BY <1>7, <1>8, SameIndices
<1>18. Source!Start
  BY <1>1, <1>2, <1>7, <1>8, <1>13, <1>16, <1>17
  DEF Source!Start, Status, At, Following
<1> QED
  BY <1>15, <1>18

(* Where a running program stands.                                         *)
Running(i) ==
    /\ Encoded /\ pc = "done" /\ run = "running"
    /\ i \in Targets /\ ip = Address(i) /\ At = i /\ Status = "running"
    /\ regs = [r \in Register |-> regs[r]]
    /\ image = BuildElf(code, entryOffset) /\ memory = File(code, entryOffset)
    /\ base = BASE_ADDR /\ Len(stmts) \in Nat

(* A running program stands at one of its targets.                         *)
LEMMA ProgramRuns ==
    ASSUME MachineInv, run = "running"
    PROVE  \E i : Running(i)
<1>1. /\ IInv /\ LayoutInv /\ pc = "done" /\ regs = [r \in Register |-> regs[r]]
      /\ image = BuildElf(code, entryOffset) /\ memory = File(code, entryOffset)
      /\ base = BASE_ADDR
  BY DEF MachineInv, ProcessInv
<1>2. PICK i \in Targets : ip = Address(i)
  BY DEF MachineInv, ProcessInv
<1>3. Encoded /\ Len(stmts) \in Nat
  BY <1>1, Finished, ProgramTyped DEF IInv
<1>4. At = i
  BY <1>2, <1>3, PointsTo
<1>5. Status = "running"
  BY <1>1 DEF Status
<1> QED
  BY <1>1, <1>2, <1>3, <1>4, <1>5 DEF Running

(* The instruction it executes is that of its statement, and leads to the  *)
(* next one.                                                               *)
LEMMA Advances ==
    ASSUME MachineInv, NEW i, Running(i), Fetched.op # "undecodable"
    PROVE  /\ i \in 1 .. Len(stmts) /\ stmts[i] \in Statement /\ IsInstruction(stmts[i])
           /\ Effect(Fetched) = Meaning(stmts[i])
           /\ Following(i + 1) \in Targets /\ ip + Fetched.len = Address(Following(i + 1))
<1>1. Encoded /\ run # "compile" /\ i \in Targets /\ ip = Address(i) /\ Len(stmts) \in Nat
  BY DEF Running
<1>2. i # Len(stmts) + 1
  BY <1>1, Fetches DEF Undecodable
<1>3. /\ i \in 1 .. Len(stmts) /\ stmts[i] \in Statement /\ IsInstruction(stmts[i])
      /\ Effect(Fetched) = Meaning(stmts[i]) /\ ip + Fetched.len = Address(i + 1)
  BY <1>1, <1>2, Fetches
<1> DEFINE j == i + 1
<1>4. j \in 1 .. Len(stmts) + 1
  BY <1>1, <1>3
<1>5. Following(j) \in Targets /\ Address(Following(j)) = Address(j)
  <2> HIDE DEF j
  <2> QED
    BY <1>1, <1>4, AddressOfFollowing
<1> QED
  BY <1>3, <1>5

(* Moves.                                                                  *)
LEMMA MoveStep ==
    ASSUME MachineInv, MoveRegister \/ MoveImmediate
    PROVE  ProcessInv' /\ Source!Move
<1> DEFINE value == IF Fetched.op = "mov_imm" THEN Fetched.imm ELSE regs[Fetched.src]
<1>1. /\ run = "running" /\ Fetched.op \in {"mov_reg", "mov_imm"}
      /\ regs' = [regs EXCEPT ![Fetched.dest] = value] /\ ip' = ip + Fetched.len
      /\ UNCHANGED vars /\ run' = run /\ image' = image /\ base' = base /\ memory' = memory
  BY DEF MoveRegister, MoveImmediate, Executing
<1>2. PICK i : Running(i)
  BY <1>1, ProgramRuns
<1> DEFINE next == Following(i + 1)
           stmt == stmts[i]
<1>3. /\ i \in 1 .. Len(stmts) /\ stmt \in Statement /\ IsInstruction(stmt)
      /\ Effect(Fetched) = Meaning(stmt)
      /\ next \in Targets /\ ip + Fetched.len = Address(next)
  BY <1>1, <1>2, Advances
<1>4. /\ stmt.kind = "move" /\ Fetched.dest = StrToRegister(stmt.dest.name)
      /\ value = IF stmt.src.kind = "number" THEN stmt.src.number
                                             ELSE regs[StrToRegister(stmt.src.name)]
  <2> HIDE DEF stmt
  <2>1. CASE Fetched.op = "mov_reg"
    BY <1>3, <2>1, MeaningOf
  <2>2. CASE Fetched.op = "mov_imm"
    BY <1>3, <2>2, MeaningOf
  <2> QED
    BY <1>1, <2>1, <2>2
<1>5. /\ Encoded /\ pc = "done" /\ At = i /\ Status = "running"
      /\ regs = [r \in Register |-> regs[r]]
      /\ image = BuildElf(code, entryOffset) /\ memory = File(code, entryOffset)
      /\ base = BASE_ADDR /\ Len(stmts) \in Nat
  BY <1>2 DEF Running
<1>6. stmts' = stmts /\ pc' = pc /\ code' = code
  BY <1>1 DEF vars
<1> HIDE DEF value, next
<1>7. regs' = [r \in Register |-> regs'[r]]
  BY <1>1, <1>5
<1>8. ip' = Address(next)
  BY <1>1, <1>3
<1>9. ProcessInv'
  BY <1>1, <1>3, <1>5, <1>7, <1>8, ProcessKept
<1>10. At' = next
  BY <1>1, <1>3, <1>5, <1>6, <1>8, PointsToNext
<1>11. Status' = "running"
  BY <1>1, <1>5, <1>6 DEF Status
<1>12. regs' = [regs EXCEPT ![Source!StrToRegister(stmt.dest.name)] =
                   IF stmt.src.kind = "number" THEN stmt.src.number
                   ELSE regs[Source!StrToRegister(stmt.src.name)]]
  BY <1>1, <1>4, SameRegisters
<1>13. i <= Len(stmts)
  BY <1>3
<1>14. Source!Move
  BY <1>4, <1>5, <1>6, <1>10, <1>11, <1>12, <1>13
  DEF Source!Move, Source!Executing, Status, At, next, Following
<1> QED
  BY <1>9, <1>14

(* System calls that come back.                                            *)
LEMMA CallStep ==
    ASSUME MachineInv, SyscallReturns
    PROVE  ProcessInv' /\ Source!Call
<1> DEFINE eax == StrToRegister("eax")
           ecx == StrToRegister("ecx")
           r11d == StrToRegister("r11d")
<1>1. /\ run = "running" /\ Fetched.op = "syscall" /\ regs[eax] \notin ExitCalls
      /\ ip' = ip + Fetched.len
      /\ UNCHANGED vars /\ run' = run /\ image' = image /\ base' = base /\ memory' = memory
  BY DEF SyscallReturns, Executing
<1>2. PICK result \in KernelResults :
         regs' = [regs EXCEPT ![eax] = result, ![ecx] = ip + Fetched.len, ![r11d] = Flags]
  BY DEF SyscallReturns
<1>3. PICK i : Running(i)
  BY <1>1, ProgramRuns
<1> DEFINE next == Following(i + 1)
           stmt == stmts[i]
<1>4. /\ i \in 1 .. Len(stmts) /\ stmt \in Statement /\ IsInstruction(stmt)
      /\ Effect(Fetched) = Meaning(stmt)
      /\ next \in Targets /\ ip + Fetched.len = Address(next)
  BY <1>1, <1>3, Advances
<1>5. stmt.kind = "syscall"
  <2> HIDE DEF stmt
  <2> QED
    BY <1>1, <1>4, MeaningOf
<1>6. /\ Encoded /\ pc = "done" /\ At = i /\ Status = "running"
      /\ regs = [r \in Register |-> regs[r]]
      /\ image = BuildElf(code, entryOffset) /\ memory = File(code, entryOffset)
      /\ base = BASE_ADDR /\ Len(stmts) \in Nat
  BY <1>3 DEF Running
<1>7. stmts' = stmts /\ pc' = pc /\ code' = code
  BY <1>1 DEF vars
<1> HIDE DEF next
<1>8. ip' = Address(next)
  BY <1>1, <1>4
<1>9. /\ Source!Clobbered = {eax, ecx, r11d} /\ Source!StrToRegister("eax") = eax
      /\ Source!Register = Register
  BY SameRegisters DEF Source!Clobbered
<1> HIDE DEF eax, ecx, r11d
<1>10. /\ regs' = [r \in Register |-> regs'[r]] /\ DOMAIN regs' = Register
       /\ \A r \in Register \ {eax, ecx, r11d} : regs'[r] = regs[r]
  BY <1>2, <1>6
<1>11. ProcessInv'
  BY <1>1, <1>4, <1>6, <1>8, <1>10, ProcessKept
<1>12. At' = next
  BY <1>1, <1>4, <1>6, <1>7, <1>8, PointsToNext
<1>13. Status' = "running"
  BY <1>1, <1>6, <1>7 DEF Status
<1>14. i <= Len(stmts)
  BY <1>4
<1>15. Source!Call
  BY <1>1, <1>5, <1>6, <1>7, <1>9, <1>10, <1>12, <1>13, <1>14
  DEF Source!Call, Source!Executing, Status, At, next, Following
<1> QED
  BY <1>11, <1>15

(* System calls that end the process.                                      *)
LEMMA ExitStep ==
    ASSUME MachineInv, SyscallExits
    PROVE  ProcessInv' /\ Source!Exit
<1>1. /\ run = "running" /\ Fetched.op = "syscall" /\ regs[StrToRegister("eax")] \in ExitCalls
      /\ run' = "exited"
      /\ UNCHANGED vars /\ image' = image /\ base' = base /\ memory' = memory
      /\ ip' = ip /\ regs' = regs
  BY DEF SyscallExits, Executing
<1>2. PICK i : Running(i)
  BY <1>1, ProgramRuns
<1> DEFINE stmt == stmts[i]
<1>3. /\ i \in 1 .. Len(stmts) /\ stmt \in Statement /\ IsInstruction(stmt)
      /\ Effect(Fetched) = Meaning(stmt)
  BY <1>1, <1>2, Advances
<1>4. stmt.kind = "syscall"
  <2> HIDE DEF stmt
  <2> QED
    BY <1>1, <1>3, MeaningOf
<1>5. /\ Encoded /\ pc = "done" /\ At = i /\ Status = "running"
      /\ i \in Targets /\ ip = Address(i) /\ regs = [r \in Register |-> regs[r]]
      /\ image = BuildElf(code, entryOffset) /\ memory = File(code, entryOffset)
      /\ base = BASE_ADDR /\ Len(stmts) \in Nat
  BY <1>2 DEF Running
<1>6. stmts' = stmts /\ pc' = pc /\ code' = code
  BY <1>1 DEF vars
<1>7. ProcessInv'
  BY <1>1, <1>5, ProcessKept
<1>8. At' = i
  BY <1>1, <1>5, <1>6, PointsToNext
<1>9. Status' = "exited"
  BY <1>1, <1>5, <1>6 DEF Status
<1>10. i <= Len(stmts)
  BY <1>3
<1>11. Source!Exit
  BY <1>1, <1>4, <1>5, <1>6, <1>8, <1>9, <1>10, SameRegisters
  DEF Source!Exit, Source!Executing, Status, At
<1> QED
  BY <1>7, <1>11

(* The processor meets nothing it cannot decode before the end.            *)
LEMMA TrapStep ==
    ASSUME MachineInv, Trap
    PROVE  ProcessInv' /\ Source!RunOffTheEnd
<1>1. /\ run = "running" /\ Fetched.op = "undecodable" /\ run' = "lost"
      /\ UNCHANGED vars /\ image' = image /\ base' = base /\ memory' = memory
      /\ ip' = ip /\ regs' = regs
  BY DEF Trap, Executing
<1>2. PICK i : Running(i)
  BY <1>1, ProgramRuns
<1>3. /\ Encoded /\ pc = "done" /\ At = i /\ Status = "running"
      /\ i \in Targets /\ ip = Address(i) /\ regs = [r \in Register |-> regs[r]]
      /\ image = BuildElf(code, entryOffset) /\ memory = File(code, entryOffset)
      /\ base = BASE_ADDR /\ Len(stmts) \in Nat
  BY <1>2 DEF Running
<1>4. i = Len(stmts) + 1
  <2> SUFFICES ASSUME i # Len(stmts) + 1
               PROVE  FALSE
    OBVIOUS
  <2> DEFINE stmt == stmts[i]
  <2>1. /\ stmt \in Statement /\ IsInstruction(stmt)
        /\ Effect(Fetched) = Meaning(stmt)
    BY <1>1, <1>3, Fetches
  <2> HIDE DEF stmt
  <2> QED
    BY <1>1, <2>1, MeaningOf
<1>5. stmts' = stmts /\ pc' = pc /\ code' = code
  BY <1>1 DEF vars
<1>6. ProcessInv'
  BY <1>1, <1>3, ProcessKept
<1>7. At' = i
  BY <1>1, <1>3, <1>5, PointsToNext
<1>8. Status' = "lost"
  BY <1>1, <1>3, <1>5 DEF Status
<1>9. Source!RunOffTheEnd
  BY <1>1, <1>3, <1>4, <1>5, <1>7, <1>8 DEF Source!RunOffTheEnd, Status, At
<1> QED
  BY <1>6, <1>9

(* Stuttering.                                                             *)
LEMMA MachineStutter ==
    ASSUME MachineInv, UNCHANGED machineVars
    PROVE  MachineInv' /\ UNCHANGED Source!vars
<1>1. /\ UNCHANGED vars /\ run' = run /\ image' = image /\ base' = base /\ memory' = memory
      /\ ip' = ip /\ regs' = regs
  BY DEF machineVars, vars
<1>2. stmts' = stmts /\ pc' = pc /\ code' = code /\ entryOffset' = entryOffset
  BY <1>1 DEF vars
<1>3. IInv' /\ LayoutInv'
  BY <1>1, NextKeeps, NextLayout DEF MachineInv
<1>4. CASE run = "compile"
  <2>1. InitialRegs' = InitialRegs
    BY DEF InitialRegs
  <2>2. ProcessInv'
    BY <1>1, <1>4, <2>1 DEF MachineInv, ProcessInv
  <2>3. UNCHANGED Source!vars
    BY <1>1, <1>2, <1>4 DEF Source!vars
  <2> QED
    BY <1>3, <2>2, <2>3 DEF MachineInv
<1>5. CASE run # "compile"
  <2>1. /\ pc = "done" /\ run \in {"running", "exited", "lost"}
        /\ image = BuildElf(code, entryOffset) /\ memory = File(code, entryOffset)
        /\ base = BASE_ADDR /\ regs = [r \in Register |-> regs[r]]
    BY <1>5 DEF MachineInv, ProcessInv
  <2>2. PICK i \in Targets : ip = Address(i)
    BY <1>5 DEF MachineInv, ProcessInv
  <2>3. ProcessInv'
    BY <1>1, <2>1, <2>2, ProcessKept
  <2>4. Encoded
    BY <2>1, Finished DEF MachineInv
  <2>5. At = i /\ At' = i
    BY <1>1, <1>2, <1>5, <2>2, <2>4, PointsTo, PointsToNext
  <2>6. Status' = Status
    BY <1>1, <1>2 DEF Status
  <2>7. UNCHANGED Source!vars
    BY <1>1, <1>2, <2>5, <2>6 DEF Source!vars, Status, At
  <2> QED
    BY <1>3, <2>3, <2>7 DEF MachineInv
<1> QED
  BY <1>4, <1>5

(* All steps.                                                              *)
LEMMA MachineSteps ==
    ASSUME MachineInv, [MachineNext]_machineVars
    PROVE  MachineInv' /\ [Source!Next]_(Source!vars)
<1>1. CASE Compile
  BY <1>1, CompileStep
<1>2. ASSUME UNCHANGED vars
      PROVE  IInv' /\ LayoutInv'
  BY <1>2, NextKeeps, NextLayout DEF MachineInv
<1>3. CASE Load
  BY <1>2, <1>3, LoadStep DEF Load, MachineInv, Source!Next
<1>4. CASE MoveRegister \/ MoveImmediate
  BY <1>2, <1>4, MoveStep DEF MoveRegister, MoveImmediate, MachineInv, Source!Next
<1>5. CASE SyscallReturns
  BY <1>2, <1>5, CallStep DEF SyscallReturns, MachineInv, Source!Next
<1>6. CASE SyscallExits
  BY <1>2, <1>6, ExitStep DEF SyscallExits, MachineInv, Source!Next
<1>7. CASE Trap
  BY <1>2, <1>7, TrapStep DEF Trap, MachineInv, Source!Next
<1>8. CASE UNCHANGED machineVars
  BY <1>8, MachineStutter
<1> QED
  BY <1>1, <1>3, <1>4, <1>5, <1>6, <1>7, <1>8 DEF MachineNext

-----------------------------------------------------------------------------
(* Theorems.                                                               *)

(* The invariant: what the code generator keeps, and a process that has    *)
(* the whole file in memory and stands at a statement.                     *)
THEOREM MachineInvariance == MachineSpec => []MachineInv
<1>1. MachineInit => MachineInv
  BY MachineBegins
<1>2. MachineInv /\ [MachineNext]_machineVars => MachineInv'
  BY MachineSteps
<1> QED
  BY <1>1, <1>2, PTL DEF MachineSpec

(* BuildElf stays within the room it has made, every file it builds is     *)
(* accepted by the loader and mapped as it is, and execution stays between *)
(* the end of the headers and the end of the file.                         *)
THEOREM ImageMatches == MachineSpec => []ImageMatchesHeaders
<1>1. MachineInv => ImageMatchesHeaders
  <2> SUFFICES ASSUME MachineInv, run # "compile"
               PROVE  ImageMatchesHeaders
    BY DEF ImageMatchesHeaders
  <2> DEFINE file == File(code, entryOffset)
             o == entryOffset
  <2>1. /\ pc = "done" /\ image = BuildElf(code, o) /\ memory = file /\ base = BASE_ADDR
        /\ IInv /\ LayoutInv
    BY DEF MachineInv, ProcessInv
  <2>2. PICK i \in Targets : ip = Address(i)
    BY DEF MachineInv, ProcessInv
  <2>3. Encoded /\ Fits(code, o) /\ o \in Nat /\ code \in Seq(Byte)
    BY <2>1, Finished
  <2>4. /\ image.data = file /\ Len(file) <= image.cap /\ Len(file) = 120 + Len(code)
        /\ file = SubSeq(file, 1, Headers) \o code /\ Len(code) \in Nat
    BY <2>1, <2>3, BuiltFile
  <2>5. /\ ip - base = Headers + OffsetOf(i) /\ OffsetOf(i) \in Nat
        /\ OffsetOf(i) <= Len(code) /\ Headers = 120
    BY <2>1, <2>2, <2>3, AddressOf DEF Headers, EHDR_SIZE, PHDR_SIZE
  <2> HIDE DEF file
  <2>6. ip - base \in Headers .. Len(file)
    BY <2>4, <2>5
  <2> QED
    BY <2>1, <2>4, <2>6 DEF ImageMatchesHeaders, Headers
<1> QED
  BY <1>1, MachineInvariance, PTL

(* Compiler, loader and processor together do nothing but what the         *)
(* statements say: every step is one of Execution or none of it.  (That a  *)
(* program is decided in the end is for the model checker.)                *)
THEOREM ImplementsExecution ==
    MachineSpec => Source!Init /\ [][Source!Next]_(Source!vars)
<1>1. MachineInit => Source!Init
  BY MachineBegins
<1>2. MachineInv /\ [MachineNext]_machineVars => [Source!Next]_(Source!vars)
  BY MachineSteps
<1> QED
  BY <1>1, <1>2, MachineInvariance, PTL DEF MachineSpec
=============================================================================
