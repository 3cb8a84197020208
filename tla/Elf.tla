-------------------------------- MODULE Elf --------------------------------
(***************************************************************************)
(* BuildElf of src/elfwriter.c, byte for byte, and what the kernel's       *)
(* loader makes of such a file (external: the ELF format and execve).      *)
(***************************************************************************)
EXTENDS ByteBuf

BASE_ADDR == 4194304
EHDR_SIZE == 64
PHDR_SIZE == 56

(* Constants of <elf.h>.                                                   *)
ELFMAG == <<127, 69, 76, 70>>
ELFCLASS64 == 2
ELFDATA2LSB == 1
EV_CURRENT == 1
ET_EXEC == 2
EM_X86_64 == 62
PT_LOAD == 1
PF_X == 1
PF_R == 4

-----------------------------------------------------------------------------

(* e_ident: magic, class, data encoding, version, OS ABI, padding.         *)
Ident == ELFMAG \o <<ELFCLASS64, ELFDATA2LSB, EV_CURRENT>> \o [i \in 1 .. 9 |-> 0]

Ehdr(entry) ==
    Ident \o U16LE(ET_EXEC) \o U16LE(EM_X86_64) \o U32LE(EV_CURRENT)
    \o U64LE(entry)
    \o U64LE(EHDR_SIZE) \o U64LE(0)               \* e_phoff, e_shoff
    \o U32LE(0) \o U16LE(EHDR_SIZE)               \* e_flags, e_ehsize
    \o U16LE(PHDR_SIZE) \o U16LE(1)               \* e_phentsize, e_phnum
    \o U16LE(0) \o U16LE(0) \o U16LE(0)

(* The one segment is the whole file, headers included.                    *)
Phdr(totalSize) ==
    U32LE(PT_LOAD) \o U32LE(PF_X + PF_R)
    \o U64LE(0) \o U64LE(BASE_ADDR) \o U64LE(BASE_ADDR)
    \o U64LE(totalSize) \o U64LE(totalSize) \o U64LE(4096)

(* Broken: the entry address forgets the program header.                   *)
EntryAddressShort(entryOffset) == BASE_ADDR + EHDR_SIZE + entryOffset

EntryAddress(entryOffset) == BASE_ADDR + EHDR_SIZE + PHDR_SIZE + entryOffset

(* Broken: the size of the segment leaves out the headers.                 *)
TotalSizeOfCode(code) == Len(code)

TotalSize(code) == EHDR_SIZE + PHDR_SIZE + Len(code)

BuildElf(code, entryOffset) ==
    ByteBufWriteBytes(ByteBufInit,
        Ehdr(EntryAddress(entryOffset)) \o Phdr(TotalSize(code)) \o code)

-----------------------------------------------------------------------------
(* The loader.  Offsets are those of the ELF64 format.                     *)

(* The number in n bytes of the file from an offset on, of which value[k]  *)
(* is the part in the last k.                                              *)
Read(file, offset, n) ==
    LET value[k \in 0 .. n] ==
            IF k = 0 THEN 0 ELSE file[offset + n - k + 1] + 256 * value[k - 1]
    IN  value[n]

Entry(file) == Read(file, 24, 8)
ProgramHeader(file) == Read(file, 32, 8)
Segment(file) ==
    LET ph == ProgramHeader(file)
    IN  [type   |-> Read(file, ph, 4),      flags  |-> Read(file, ph + 4, 4),
         offset |-> Read(file, ph + 8, 8),  vaddr  |-> Read(file, ph + 16, 8),
         filesz |-> Read(file, ph + 32, 8), memsz  |-> Read(file, ph + 40, 8),
         align  |-> Read(file, ph + 48, 8)]

(* What execve insists on before it maps anything.                         *)
Loadable(file) ==
    /\ Len(file) >= EHDR_SIZE
    /\ SubSeq(file, 1, 4) = ELFMAG
    /\ file[5] = ELFCLASS64 /\ file[6] = ELFDATA2LSB
    /\ Read(file, 16, 2) = ET_EXEC
    /\ Read(file, 18, 2) = EM_X86_64
    /\ Read(file, 54, 2) = PHDR_SIZE
    /\ Read(file, 56, 2) = 1
    /\ Len(file) >= ProgramHeader(file) + PHDR_SIZE
    /\ Segment(file).type = PT_LOAD
    /\ Segment(file).filesz <= Segment(file).memsz
    /\ Segment(file).offset % 4096 = Segment(file).vaddr % 4096

(* The bytes found in memory from the segment's address on.                *)
Mapped(file) ==
    LET s == Segment(file)
    IN  SubSeq(file, s.offset + 1, s.offset + s.filesz)
=============================================================================
