------------------------------ MODULE ByteBuf ------------------------------
(***************************************************************************)
(* The growing byte buffer of src/bytebuf.c, as a record and operators on  *)
(* it.  The length is that of data; cap is the room realloc has made.      *)
(***************************************************************************)
EXTENDS Integers, Sequences

BYTEBUF_INITIAL_CAP == 32

ByteBufInit == [data |-> << >>, cap |-> 0]

(* The room there is for one more byte behind len bytes.                   *)
Room ==
    [b \in [len : Nat, cap : Nat] |->
        IF b.len # b.cap THEN b.cap
        ELSE IF b.cap = 0 THEN BYTEBUF_INITIAL_CAP ELSE 2 * b.cap]

(* Broken: the room is looked at once, not before every byte.              *)
ByteBufWriteBytesAtOnce(buf, bytes) ==
    [data |-> buf.data \o bytes, cap |-> Room[[len |-> Len(buf.data), cap |-> buf.cap]]]

(* ByteBufWriteU8 for one byte after the other.                            *)
ByteBufWriteBytes(buf, bytes) ==
    LET cap[n \in 0 .. Len(bytes)] ==
            IF n = 0 THEN buf.cap
            ELSE Room[[len |-> Len(buf.data) + n - 1, cap |-> cap[n - 1]]]
    IN  [data |-> buf.data \o bytes, cap |-> cap[Len(bytes)]]

(* What the writers of wider numbers write, lowest byte first: as many     *)
(* bytes as the width has, whatever the value.                             *)
U16LE(value) == <<value % 256, (value \div 256) % 256>>
U32LE(value) == U16LE(value) \o U16LE(value \div 65536)
U64LE(value) == U32LE(value) \o U32LE((value \div 65536) \div 65536)
=============================================================================
