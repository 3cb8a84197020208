----------------------------- MODULE SourceFile -----------------------------
(***************************************************************************)
(* SourceLoad and SourceFree of src/source.c, on a file that somebody else *)
(* may write at the same time: the length is asked for first and the bytes *)
(* are read later, one after the other.                                    *)
(*                                                                         *)
(* U32Max stands for UINT32_MAX and is small.  A write outside of the      *)
(* allocated buffer leaves nothing to be said: call is "undefined".        *)
(***************************************************************************)
EXTENDS Integers, Sequences

CONSTANTS Bytes, U32Max,
          MaxFileLen,   \* bounds how far the file grows
          MaxChanges    \* bounds how often it is written

ASSUME WidthAssumption == U32Max \in Nat /\ MaxFileLen \in Nat

VARIABLES file,      \* its content now
          changes,   \* writes by others so far
          changed,   \* whether there was one since the length was asked for
          call,      \* the next call, "loaded", "failed", "undefined", "freed"
          open,      \* whether SourceLoad has the file open
          fileLen,   \* what ftell said
          room,      \* bytes allocated for data
          data,      \* the bytes read
          blocks     \* heap blocks allocated and not freed

fileVars == <<file, changes, changed, call, open, fileLen, room, data, blocks>>

Contents == UNION {[1 .. n -> Bytes] : n \in 0 .. MaxFileLen}

FileInit ==
    /\ file \in Contents
    /\ changes = 0 /\ changed = FALSE
    /\ call = "fopen"
    /\ open = FALSE
    /\ fileLen = 0 /\ room = 0 /\ data = << >>
    /\ blocks = {}

-----------------------------------------------------------------------------
(* Somebody else: appends a byte or cuts the file.                         *)

Change ==
    /\ changes < MaxChanges
    /\ \/ Len(file) < MaxFileLen /\ \E byte \in Bytes : file' = Append(file, byte)
       \/ \E n \in 0 .. Len(file) - 1 : file' = SubSeq(file, 1, n)
    /\ changes' = changes + 1
    /\ changed' = TRUE
    /\ UNCHANGED <<call, open, fileLen, room, data, blocks>>

-----------------------------------------------------------------------------

OpenFile ==
    /\ call = "fopen"
    /\ call' = "ftell" /\ open' = TRUE
    /\ UNCHANGED <<file, changes, changed, fileLen, room, data, blocks>>

OpenFileFails ==
    /\ call = "fopen"
    /\ call' = "failed"
    /\ UNCHANGED <<file, changes, changed, open, fileLen, room, data, blocks>>

(* One of the seeks or ftell fails, or the file is too long.               *)
CallFails ==
    /\ call \in {"ftell", "rewind"}
    /\ call' = "failed" /\ open' = FALSE
    /\ UNCHANGED <<file, changes, changed, fileLen, room, data, blocks>>

(* The position after seeking to the end.                                  *)
Measure ==
    /\ call = "ftell" /\ Len(file) <= U32Max
    /\ fileLen' = Len(file)
    /\ changed' = FALSE
    /\ call' = "rewind"
    /\ UNCHANGED <<file, changes, open, room, data, blocks>>

(* Broken: no room for the terminating NUL.                                *)
AllocateExactly ==
    /\ call = "rewind"
    /\ room' = fileLen
    /\ blocks' = blocks \cup {"data"}
    /\ call' = "fread"
    /\ UNCHANGED <<file, changes, changed, open, fileLen, data>>

(* One more than the length, in 32 bits.                                   *)
Allocate ==
    /\ call = "rewind"
    /\ room' = (fileLen + 1) % (U32Max + 1)
    /\ blocks' = blocks \cup {"data"}
    /\ call' = "fread"
    /\ UNCHANGED <<file, changes, changed, open, fileLen, data>>

Wanting == call = "fread" /\ Len(data) < fileLen

Read ==
    /\ Wanting /\ Len(data) < Len(file) /\ Len(data) < room
    /\ data' = Append(data, file[Len(data) + 1])
    /\ UNCHANGED <<file, changes, changed, call, open, fileLen, room, blocks>>

(* Broken: what could be read is taken for the text.                       *)
AcceptShortRead ==
    /\ Wanting
    /\ call' = "loaded" /\ open' = FALSE
    /\ blocks' = blocks \cup {"path"}
    /\ UNCHANGED <<file, changes, changed, fileLen, room, data>>

(* Broken: the buffer is not freed.                                        *)
ShortReadLeaking ==
    /\ Wanting
    /\ call' = "failed" /\ open' = FALSE
    /\ UNCHANGED <<file, changes, changed, fileLen, room, data, blocks>>

(* The file ends too early or cannot be read.                              *)
ShortRead ==
    /\ Wanting
    /\ call' = "failed" /\ open' = FALSE
    /\ blocks' = blocks \ {"data"}
    /\ UNCHANGED <<file, changes, changed, fileLen, room, data>>

(* data[len] = '\0', fclose, and a copy of the path.                       *)
Terminate ==
    /\ call = "fread" /\ Len(data) = fileLen /\ fileLen < room
    /\ call' = "loaded" /\ open' = FALSE
    /\ blocks' = blocks \cup {"path"}
    /\ UNCHANGED <<file, changes, changed, fileLen, room, data>>

WriteOutside ==
    /\ call = "fread"
    /\ \/ Len(data) < fileLen /\ Len(data) < Len(file) /\ Len(data) >= room
       \/ Len(data) = fileLen /\ fileLen >= room
    /\ call' = "undefined"
    /\ UNCHANGED <<file, changes, changed, open, fileLen, room, data, blocks>>

SourceFree ==
    /\ call = "loaded"
    /\ call' = "freed"
    /\ blocks' = blocks \ {"path", "data"}
    /\ fileLen' = 0 /\ room' = 0 /\ data' = << >>
    /\ UNCHANGED <<file, changes, changed, open>>

Load ==
    \/ OpenFile \/ OpenFileFails \/ CallFails \/ Measure \/ Allocate \/ Read \/ ShortRead
    \/ Terminate \/ WriteOutside

FileNext == Load \/ SourceFree \/ Change

FileSpec == FileInit /\ [][FileNext]_fileVars

-----------------------------------------------------------------------------

(* The buffer and the NUL behind the text are written inside the           *)
(* allocation for every length but one: that of the longest file accepted, *)
(* for which the size wraps to 0 (source.c:39).                            *)
OutsideOnlyAtMaximum == call = "undefined" => fileLen = U32Max

(* A text is loaded whole or not at all: it has the length the file had    *)
(* when it was measured, whatever has been written since, and it is the    *)
(* file if nothing has.                                                    *)
LoadsWhatItMeasured ==
    call = "loaded" =>
        /\ Len(data) = fileLen
        /\ ~ changed => data = file

(* A load that failed holds neither the file nor memory; a text that was   *)
(* loaded holds no file, and freeing it frees everything.                  *)
HoldsNothingItDoesNotReturn ==
    /\ call \in {"failed", "freed"} => ~ open /\ blocks = {}
    /\ call = "loaded" => ~ open
=============================================================================
